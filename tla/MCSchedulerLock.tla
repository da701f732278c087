---------------------------- MODULE MCSchedulerLock ----------------------------
(* Three contenders for the scheduler's lock, the third on a host of its own. *)
EXTENDS SchedulerLock
================================================================================
