--------------------------- MODULE ReservationLedger ---------------------------
(***************************************************************************)
(* The reservation ledger: which work order holds its reservation set (the *)
(* paths, contracts and environments it may touch), each under a fencing   *)
(* token of its own.  Sets that are not compatible are never held at once. *)
(***************************************************************************)
EXTENDS WorkOrderLifecycle

CONSTANT Conflicts  \* pairs {u, v} of works whose sets are not compatible

VARIABLES
  reserved,            \* the token a set is held under, 0 when it is free
  releases,            \* the token each set was last released under
  nextReservationFence

ledgerVars == <<reserved, releases, nextReservationFence>>

Collides(w) == \E v \in Works : reserved[v] # 0 /\ {v, w} \in Conflicts

LedgerInit ==
  /\ reserved = [w \in Works |-> 0]
  /\ releases = [w \in Works |-> 0]
  /\ nextReservationFence = 1

\* The holder of a set that asks again is told the token it has.
MayReserve(w) == reserved[w] # 0 \/ ~Collides(w)

Reserve(w) ==
  IF reserved[w] # 0 THEN UNCHANGED ledgerVars
  ELSE /\ ~Collides(w)
       /\ reserved' = [reserved EXCEPT ![w] = nextReservationFence]
       /\ releases' = [releases EXCEPT ![w] = 0]
       /\ nextReservationFence' = nextReservationFence + 1

\* Released under exactly the token it is held under, or already so.
MayFree(w, f) == IF reserved[w] # 0 THEN reserved[w] = f ELSE f # 0 /\ releases[w] = f

Free(w, f) ==
  IF reserved[w] = 0 THEN MayFree(w, f) /\ UNCHANGED ledgerVars
  ELSE /\ MayFree(w, f)
       /\ reserved' = [reserved EXCEPT ![w] = 0]
       /\ releases' = [releases EXCEPT ![w] = f]
       /\ UNCHANGED nextReservationFence

LedgerNext == \E w \in Works : Reserve(w) \/ \E f \in 1 .. nextReservationFence : Free(w, f)

LedgerSpec == LedgerInit /\ [][LedgerNext]_ledgerVars
=============================================================================
