----------------------------- MODULE SerialStore -----------------------------
(***************************************************************************)
(* What the bridge's state file promises to the operations above it: the   *)
(* requests are applied one after the other, each to the state left by the *)
(* one before it, and an applied request is never lost or applied again.   *)
(* The promise ends when two processes hold the file's lock at once.       *)
(***************************************************************************)
EXTENDS Sequences, SequencesExt

CONSTANT Keys   \* idempotency keys, one per request

VARIABLES
  log,     \* the keys in the order their requests were applied
  forked   \* whether somebody took the lock of a writer at work

vars == <<log, forked>>

Init == log = <<>> /\ forked = FALSE

Apply(k) ==
  /\ ~forked /\ ~forked'
  /\ k \notin ToSet(log)
  /\ log' = Append(log, k)

\* From here on nothing is promised of the log.
Fork == forked'

Next == Fork \/ \E k \in Keys : Apply(k)

Spec == Init /\ [][Next]_vars
=============================================================================
