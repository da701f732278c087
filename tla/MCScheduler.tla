------------------------------ MODULE MCScheduler ------------------------------
(* Small instances of the scheduler for TLC. *)
EXTENDS SchedulerRecovery

CONSTANTS w1, w2, w3

Two == {w1, w2}
Three == {w1, w2, w3}
NoConflicts == {}
TheConflict == {Two}
Symmetry == Permutations(Works)
================================================================================
