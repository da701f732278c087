------------------------------ MODULE LaneLeases ------------------------------
(***************************************************************************)
(* The lane-lease store of the multi-agent operator: at most one lease per *)
(* lane, under a fencing token that no other lease ever had, together with *)
(* the lane's last checkpoint.                                             *)
(*                                                                         *)
(* A work order runs in one lane, so a lane goes by its work order.  A     *)
(* call that the store refuses, and one that it recognises as a repetition *)
(* of an earlier call, leave it as it is.  Renewing a lease that has not   *)
(* run out and recording a heartbeat change no more than times.            *)
(***************************************************************************)
EXTENDS WorkOrderLifecycle

VARIABLES
  lanes,          \* the lease and the last checkpoint of each lane
  nextLeaseFence, \* the fencing token of the next lease
  lapsed          \* lanes whose expiresAt the clock has reached

laneVars == <<lanes, nextLeaseFence, lapsed>>

LaneStatuses == {"NONE", "ACTIVE", "EXPIRED", "RELEASED"}

\* first is the token of the acquisition, which a repeated acquisition is
\* answered with; under is the reservation the checkpoint's evidence names.
Lanes == [status : LaneStatuses, fence : Nat, first : Nat, under : Nat,
          seq : Nat, life : LifecycleStates]

NoLane == [status |-> "NONE", fence |-> 0, first |-> 0, under |-> 0,
           seq |-> 0, life |-> "RESERVED"]

Terminal(w) == lanes[w].life \in TerminalStates
Lapsed(w) == w \in lapsed

\* assertHolder and assertNotExpired, for the holder of lease f.
Holds(w, f) == lanes[w].status = "ACTIVE" /\ lanes[w].fence = f
Current(w, f) == Holds(w, f) /\ ~Lapsed(w)

LaneInit ==
  /\ lanes = [w \in Works |-> NoLane]
  /\ nextLeaseFence = 1
  /\ lapsed = {}

AcquireLease(w) ==
  /\ lanes[w].status = "NONE"
  /\ lanes' = [lanes EXCEPT ![w] =
       [status |-> "ACTIVE", fence |-> nextLeaseFence, first |-> nextLeaseFence,
        under |-> 0, seq |-> 1, life |-> "LEASED"]]
  /\ nextLeaseFence' = nextLeaseFence + 1
  /\ UNCHANGED lapsed

\* Only a lease whose expiry is on record may be replaced, and never that of
\* a lane that is finished; the checkpoint survives.
MayReclaim(w, f) ==
  lanes[w].status = "EXPIRED" /\ lanes[w].fence = f /\ ~Terminal(w)

ReclaimLease(w, f) ==
  /\ MayReclaim(w, f)
  /\ lanes' = [lanes EXCEPT ![w].status = "ACTIVE", ![w].fence = nextLeaseFence]
  /\ nextLeaseFence' = nextLeaseFence + 1
  /\ lapsed' = lapsed \ {w}

MayCheckpoint(w, f, to) == Current(w, f) /\ Legal(lanes[w].life, to)

\* The evidence of the checkpoint names reservation r.
CheckpointLane(w, f, to, r) ==
  /\ MayCheckpoint(w, f, to)
  /\ lanes' = [lanes EXCEPT ![w].life = to, ![w].seq = @ + 1, ![w].under = r]
  /\ UNCHANGED <<nextLeaseFence, lapsed>>

ReleaseLease(w, f) ==
  /\ Current(w, f)
  /\ lanes' = [lanes EXCEPT ![w].status = "RELEASED"]
  /\ UNCHANGED <<nextLeaseFence, lapsed>>

MayExpire(w, f) == Holds(w, f) /\ Lapsed(w)

ExpireLease(w, f) ==
  /\ MayExpire(w, f)
  /\ lanes' = [lanes EXCEPT ![w].status = "EXPIRED"]
  /\ UNCHANGED <<nextLeaseFence, lapsed>>

\* A finished lane whose lease ran out before its release.
MaySettle(w, f) ==
  lanes[w].status = "EXPIRED" /\ lanes[w].fence = f /\ Terminal(w)

SettleTerminalLease(w, f) ==
  /\ MaySettle(w, f)
  /\ lanes' = [lanes EXCEPT ![w].status = "RELEASED"]
  /\ UNCHANGED <<nextLeaseFence, lapsed>>

\* The clock reaches expiresAt.
LeaseLapses(w) ==
  /\ lanes[w].status = "ACTIVE" /\ ~Lapsed(w)
  /\ lapsed' = lapsed \cup {w}
  /\ UNCHANGED <<lanes, nextLeaseFence>>

\* What any caller of the store may do, whoever it is.
LaneNext == \E w \in Works :
  \/ AcquireLease(w)
  \/ LeaseLapses(w)
  \/ \E f \in 1 .. nextLeaseFence :
       \/ ReclaimLease(w, f) \/ ReleaseLease(w, f)
       \/ ExpireLease(w, f) \/ SettleTerminalLease(w, f)
       \/ \E to \in LifecycleStates, r \in Nat : CheckpointLane(w, f, to, r)

LaneSpec == LaneInit /\ [][LaneNext]_laneVars
=============================================================================
