-------------------------- MODULE HermesBridgeProofs --------------------------
(***************************************************************************)
(* The cycle of the supervisor, for any set of outcomes and any bounds:    *)
(* there is one fenced execution at a time, and what the store, the row,   *)
(* the goal and the pull request of an outcome say of it agrees.           *)
(***************************************************************************)
EXTENDS HermesBridge, TLAPS

-----------------------------------------------------------------------------
(* One execution at a time.  A cycle is started for the only outcome that  *)
(* is not released, or when there is none (Focused), and from then on it   *)
(* touches the execution of that outcome alone (Moves), whatever it dies   *)
(* of.  What happens to the other executions meanwhile neither starts nor  *)
(* frees one.                                                              *)

Unfinished(o) == Known(o) /\ exec[o].lease # "RELEASED"

Fields == {"at", "o", "prior", "recorded", "round", "catch"}

\* While a cycle runs, no execution but its own is unreleased.
Focused ==
  cyc # Idle =>
    /\ DOMAIN cyc = Fields
    /\ cyc.o \in Outcomes
    /\ \A p \in Outcomes : Unfinished(p) => p = cyc.o

IInv ==
  /\ DOMAIN exec = Outcomes
  /\ Focused
  /\ OneUnreleasedExecution

\* The cycle that follows is about the same outcome.
Stays(c) == c.o = cyc.o /\ DOMAIN c = Fields

\* A step of the cycle under way: its own execution, and no other.
Moves ==
  /\ cyc # Idle
  /\ exec' = exec \/ \E e : exec' = [exec EXCEPT ![cyc.o] = e]
  /\ \/ cyc' = Idle
     \/ Stays(cyc')

\* What starts a cycle for an outcome leaves the executions as they are.
Starts(o) ==
  /\ exec' = exec
  /\ cyc'.o = o /\ DOMAIN cyc' = Fields
  /\ \A p \in Outcomes : Unfinished(p) => p = o

\* A lease that ends was not released, and is not released by it.
Ends(o) ==
  /\ cyc' = cyc
  /\ Unfinished(o) /\ \E e : exec' = [exec EXCEPT ![o] = e]

LEMMA MovesKeep == IInv /\ Moves => IInv'
<1> SUFFICES ASSUME IInv, Moves PROVE IInv'
  OBVIOUS
<1>1. DOMAIN exec' = Outcomes
  BY DEF IInv, Moves
<1>2. \A p \in Outcomes : p # cyc.o => exec'[p] = exec[p]
  BY DEF IInv, Moves
<1>3. cyc.o \in Outcomes /\ \A p \in Outcomes : Unfinished(p) => p = cyc.o
  BY DEF IInv, Moves, Focused
<1>4. \A p \in Outcomes : Unfinished(p)' => p = cyc.o
  BY <1>2, <1>3 DEF Unfinished, Known
<1>5. Focused'
  BY <1>3, <1>4 DEF IInv, Moves, Focused, Stays
<1>6. OneUnreleasedExecution'
  BY <1>4 DEF OneUnreleasedExecution, Unfinished
<1> QED
  BY <1>1, <1>5, <1>6 DEF IInv

LEMMA StartsKeep == ASSUME NEW o \in Outcomes, IInv, Starts(o) PROVE IInv'
<1>1. DOMAIN exec' = Outcomes
  BY DEF IInv, Starts
<1>2. Focused'
  BY DEF Starts, Focused, Unfinished, Known
<1>3. OneUnreleasedExecution'
  BY DEF IInv, Starts, OneUnreleasedExecution, Known
<1> QED
  BY <1>1, <1>2, <1>3 DEF IInv

LEMMA EndsKeep == ASSUME NEW o \in Outcomes, IInv, Ends(o) PROVE IInv'
<1>1. DOMAIN exec' = Outcomes
  BY DEF IInv, Ends
<1>2. \A p \in Outcomes : Unfinished(p)' => Unfinished(p)
  BY DEF IInv, Ends, Unfinished, Known
<1>3. Focused'
  BY <1>2 DEF IInv, Ends, Focused
<1>4. OneUnreleasedExecution'
  BY <1>2 DEF IInv, OneUnreleasedExecution, Unfinished
<1> QED
  BY <1>1, <1>3, <1>4 DEF IInv

-----------------------------------------------------------------------------
(* What the steps are made of stays with the cycle's own outcome.          *)

LEMMA EndingStays == ASSUME NEW step, NEW catch PROVE Stays(Ending(step, catch))
  BY DEF Stays, Ending, Fields

LEMMA TurningStays == ASSUME NEW round PROVE Stays(Turning(round))
  BY DEF Stays, Turning, Ending, Fields

LEMMA GoStays ==
  ASSUME NEW step, IInv, cyc # Idle
  PROVE  Stays([cyc EXCEPT !.at = step])
  BY DEF IInv, Focused, Stays, Fields

LEMMA GoMoves ==
  ASSUME NEW step, IInv, cyc # Idle, Go(step),
         exec' = exec \/ \E e : exec' = [exec EXCEPT ![cyc.o] = e]
  PROVE  Moves
  BY GoStays DEF Go, Moves

LEMMA CheckpointMoves ==
  ASSUME NEW e, NEW next, cyc # Idle, next = Idle \/ Stays(next), Checkpoint(e, next)
  PROVE  Moves
  BY DEF Checkpoint, Store, Moves

LEMMA WallMoves == ASSUME NEW e, cyc # Idle, Wall(e) PROVE Moves
<1> DEFINE f == GivenUp(IF cyc.catch = "fresh" /\ e.lease = "HELD"
                          THEN [e EXCEPT !.cp = "WORKING"] ELSE e)
<1>1. exec' = [exec EXCEPT ![cyc.o] = f] /\ cyc' = Idle
  BY DEF Wall, Store
<1> HIDE DEF f
<1> QED
  BY <1>1 DEF Moves

LEMMA UnavailableMoves == ASSUME NEW e, cyc # Idle, Unavailable(e) PROVE Moves
<1> DEFINE f == [e EXCEPT !.cp = "PROVIDER_UNAVAILABLE", !.turn = "none",
                          !.resume = IF @ = "PENDING" THEN "ORPHANED" ELSE @]
<1>1. Checkpoint(f, Ending("park", Behind))
  BY DEF Unavailable
<1> HIDE DEF f
<1> QED
  BY <1>1, EndingStays, CheckpointMoves

LEMMA FinalizeMoves == ASSUME NEW e, cyc # Idle, Finalize(e) PROVE Moves
<1> DEFINE f == [e EXCEPT !.cp = "FAILED_TERMINAL"]
<1>1. Checkpoint(f, Ending("settle", Behind))
  BY DEF Finalize
<1> HIDE DEF f
<1> QED
  BY <1>1, EndingStays, CheckpointMoves

-----------------------------------------------------------------------------
(* The steps of a cycle, one by one.                                       *)

LEMMA CyclesMove ==
  ASSUME IInv,
         Resume \/ Reopen \/ Refresh \/ Lease \/ Discover \/ Prepare \/ Recommit
  PROVE  Moves
<1>1. CASE Resume
  BY <1>1, GoMoves DEF Resume, At, Moves
<1>2. CASE Reopen
  <2> DEFINE f == [Mine EXCEPT !.lease = "FREE", !.cp = "WORKING", !.resume = "PENDING"]
  <2>1. exec' = [exec EXCEPT ![cyc.o] = f] /\ Go("refresh") /\ cyc # Idle
    BY <1>2 DEF Reopen, Store, At
  <2> HIDE DEF f
  <2> QED
    BY <2>1, GoMoves
<1>3. CASE Refresh
  BY <1>3, GoMoves DEF Refresh, At, Moves
<1>4. CASE Lease
  <2> DEFINE f == [(IF Known(cyc.o) THEN Mine ELSE New) EXCEPT !.lease = "HELD"]
  <2>1. cyc # Idle
    BY <1>4 DEF Lease, At
  <2>2. \/ exec' = exec /\ cyc' = Idle
        \/ exec' = [exec EXCEPT ![cyc.o] = f] /\ Lead(f)
    BY <1>4 DEF Lease, Store
  <2> HIDE DEF f
  <2>3. ASSUME Lead(f) PROVE Stays(cyc')
    <3>1. CASE Next0(f) = "discover"
      BY <1>4, <2>1, <2>3, <3>1 DEF Lead, IInv, Focused, Stays, Fields
    <3>2. CASE Next0(f) = "cleanup"
      BY <2>3, <3>2, EndingStays DEF Lead
    <3>3. CASE Next0(f) \notin {"discover", "cleanup"}
      BY <2>3, <3>3, EndingStays DEF Lead
    <3> QED
      BY <3>1, <3>2, <3>3
  <2> QED
    BY <2>1, <2>2, <2>3 DEF Moves
<1>5. CASE Discover
  <2>1. cyc # Idle
    BY <1>5 DEF Discover, At
  <2>2. CASE Here.pr = "merged"
    <3> DEFINE f == [Mine EXCEPT !.cp = "WORKING", !.merged = TRUE, !.head = TRUE]
    <3>1. Checkpoint(f, Ending("cleanup", "none"))
      BY <1>5, <2>2 DEF Discover
    <3> HIDE DEF f
    <3> QED
      BY <2>1, <3>1, EndingStays, CheckpointMoves
  <2>3. CASE Here.pr # "merged"
    <3> DEFINE f == [Mine EXCEPT !.cp = "WORKING"]
    <3>1. Checkpoint(f, [cyc EXCEPT !.at = "prepare"])
      BY <1>5, <2>3 DEF Discover
    <3> HIDE DEF f
    <3> QED
      BY <2>1, <3>1, GoStays, CheckpointMoves
  <2> QED
    BY <2>2, <2>3
<1>6. CASE Prepare
  <2>1. cyc # Idle /\ exec' = exec
    BY <1>6 DEF Prepare, At
  <2>2. \/ \E step : cyc' = [cyc EXCEPT !.at = step, !.prior = "LEASED"]
        \/ \E r : cyc' = Turning(r)
    BY <1>6 DEF Prepare
  <2>3. Stays(cyc')
    <3>1. CASE \E step : cyc' = [cyc EXCEPT !.at = step, !.prior = "LEASED"]
      BY <2>1, <3>1 DEF IInv, Focused, Stays, Fields
    <3> QED
      BY <2>2, <3>1, TurningStays
  <2> QED
    BY <2>1, <2>3 DEF Moves
<1>7. CASE Recommit
  <2>1. cyc # Idle
    BY <1>7 DEF Recommit, At
  <2>2. CASE UNCHANGED <<exec, cyc, faults>>
    BY <2>1, <2>2 DEF IInv, Focused, Stays, Moves
  <2>3. CASE Checkpoint([Mine EXCEPT !.head = TRUE], [cyc EXCEPT !.at = "push"])
    <3> DEFINE f == [Mine EXCEPT !.head = TRUE]
    <3>1. Checkpoint(f, [cyc EXCEPT !.at = "push"])
      BY <2>3
    <3> HIDE DEF f
    <3> QED
      BY <2>1, <3>1, GoStays, CheckpointMoves
  <2> QED
    BY <1>7, <2>2, <2>3 DEF Recommit
<1> QED
  BY <1>1, <1>2, <1>3, <1>4, <1>5, <1>6, <1>7

LEMMA TurnsMove ==
  ASSUME IInv,
         \/ Turn \/ CodexEdits \/ \E r \in Results : CodexReports(r)
         \/ UsageLimit \/ ProviderWall \/ TerminalResult \/ HandOver
         \/ ValidationPasses \/ ValidationFails \/ Commit \/ Created
  PROVE  Moves
<1>1. CASE Turn
  <2>1. cyc # Idle
    BY <1>1 DEF Turn, At
  <2>2. CASE Wall(Mine)
    BY <2>1, <2>2, WallMoves
  <2>3. CASE Checkpoint([Mine EXCEPT !.cp = "WORKING"], [cyc EXCEPT !.at = "codex"])
    <3> DEFINE f == [Mine EXCEPT !.cp = "WORKING"]
    <3>1. Checkpoint(f, [cyc EXCEPT !.at = "codex"])
      BY <2>3
    <3> HIDE DEF f
    <3> QED
      BY <2>1, <3>1, GoStays, CheckpointMoves
  <2>4. CASE Go("result") /\ exec' = exec
    BY <2>1, <2>4, GoMoves
  <2> QED
    BY <1>1, <2>2, <2>3, <2>4 DEF Turn
<1>2. CASE CodexEdits
  BY <1>2 DEF CodexEdits, At, IInv, Focused, Stays, Moves
<1>3. CASE \E r \in Results : CodexReports(r)
  <2>1. PICK r \in Results : CodexReports(r)
    BY <1>3
  <2> DEFINE f == Consumed([Mine EXCEPT !.turn = r])
  <2>2. cyc # Idle /\ Checkpoint(f, [cyc EXCEPT !.at = "result"])
    BY <2>1 DEF CodexReports, At
  <2> HIDE DEF f
  <2> QED
    BY <2>2, GoStays, CheckpointMoves
<1>4. CASE UsageLimit
  <2> DEFINE f == Mine
  <2>1. cyc # Idle /\ Unavailable(f)
    BY <1>4 DEF UsageLimit, At
  <2> HIDE DEF f
  <2> QED
    BY <2>1, UnavailableMoves
<1>5. CASE ProviderWall
  <2> DEFINE e == [Mine EXCEPT !.walls = @ + 1]
             f == [e EXCEPT !.cp = "WORKING", !.turn = "none", !.lease = "FREE"]
  <2>1. cyc # Idle /\ (Unavailable(e) \/ Checkpoint(f, Idle))
    BY <1>5 DEF ProviderWall, At
  <2> HIDE DEF e, f
  <2> QED
    BY <2>1, UnavailableMoves, CheckpointMoves
<1>6. CASE TerminalResult
  <2> DEFINE f == [Mine EXCEPT !.cp = Mine.turn, !.turn = "none", !.resume = "none"]
  <2>1. cyc # Idle /\ Checkpoint(f, Ending("settle", "fresh"))
    BY <1>6 DEF TerminalResult, At
  <2> HIDE DEF f
  <2> QED
    BY <2>1, EndingStays, CheckpointMoves
<1>7. CASE HandOver
  <2>1. cyc # Idle
    BY <1>7 DEF HandOver, At
  <2>2. CASE Here.tree = "clean"
    <3> DEFINE f == Mine
    <3>1. Wall(f)
      BY <1>7, <2>2 DEF HandOver
    <3> HIDE DEF f
    <3> QED
      BY <2>1, <3>1, WallMoves
  <2>3. CASE ~(Here.tree = "clean")
    <3> DEFINE f == [Mine EXCEPT !.cp = "HOST_VALIDATION_STARTED", !.turn = "none", !.head = FALSE]
    <3>1. Checkpoint(f, [cyc EXCEPT !.at = "validate"])
      BY <1>7, <2>3 DEF HandOver
    <3> HIDE DEF f
    <3> QED
      BY <2>1, <3>1, GoStays, CheckpointMoves
  <2> QED
    BY <2>2, <2>3
<1>8. CASE ValidationPasses
  <2> DEFINE f == [Mine EXCEPT !.cp = "HOST_VALIDATION_PASSED", !.turn = "none",
                          !.head = FALSE, !.validationRound = 0]
  <2>1. cyc # Idle /\ Checkpoint(f, [cyc EXCEPT !.at = "commit"])
    BY <1>8 DEF ValidationPasses, At
  <2> HIDE DEF f
  <2> QED
    BY <2>1, GoStays, CheckpointMoves
<1>9. CASE ValidationFails
  <2>1. cyc # Idle
    BY <1>9 DEF ValidationFails, At
  <2>2. CASE cyc.round >= MaxRounds
    <3> DEFINE f == Mine
    <3>1. Finalize(f)
      BY <1>9, <2>2 DEF ValidationFails
    <3> HIDE DEF f
    <3> QED
      BY <2>1, <3>1, FinalizeMoves
  <2>3. CASE ~(cyc.round >= MaxRounds)
    <3> DEFINE f == [Mine EXCEPT !.cp = "WORKING", !.turn = "none",
                            !.validationRound = cyc.round + 1]
    <3>1. Checkpoint(f, Turning(cyc.round + 1))
      BY <1>9, <2>3 DEF ValidationFails
    <3> HIDE DEF f
    <3> QED
      BY <2>1, <3>1, TurningStays, CheckpointMoves
  <2> QED
    BY <2>2, <2>3
<1>10. CASE Commit
  BY <1>10, GoMoves DEF Commit, At
<1>11. CASE Created
  <2> DEFINE f == [Mine EXCEPT !.cp = "WORKING", !.head = TRUE,
                          !.round = Min2(cyc.round, MaxRounds)]
  <2>1. cyc # Idle /\ Checkpoint(f, [cyc EXCEPT !.at = "push"])
    BY <1>11 DEF Created, At
  <2> HIDE DEF f
  <2> QED
    BY <2>1, GoStays, CheckpointMoves
<1> QED
  BY <1>1, <1>2, <1>3, <1>4, <1>5, <1>6, <1>7, <1>8, <1>9, <1>10, <1>11

LEMMA DeliveriesMove ==
  ASSUME IInv,
         \/ Push \/ Request \/ Findings \/ Reviewed \/ DeliveryWall \/ StaleDeliveryWall
         \/ Inspect \/ Merge \/ Merged \/ Cleanup \/ CleanupFails
  PROVE  Moves
<1>1. CASE Push
  BY <1>1, GoMoves DEF Push, At
<1>2. CASE Request
  <2> DEFINE f == [Mine EXCEPT !.cp = "WORKING", !.round = Round]
             next == [cyc EXCEPT !.at = "await", !.catch = Behind]
  <2>1. cyc # Idle
    BY <1>2 DEF Request, At
  <2>2. UNCHANGED <<exec, cyc>> \/ Checkpoint(f, next)
    BY <1>2 DEF Request
  <2>3. Stays(next)
    BY <2>1 DEF IInv, Focused, Stays, Fields
  <2> HIDE DEF f, next
  <2>4. CASE UNCHANGED <<exec, cyc>>
    BY <2>1, <2>4 DEF IInv, Focused, Stays, Moves
  <2> QED
    BY <2>1, <2>2, <2>3, <2>4, CheckpointMoves
<1>3. CASE Findings
  <2>1. cyc # Idle
    BY <1>3 DEF Findings, At
  <2>2. CASE Round >= MaxRounds
    <3> DEFINE f == Mine
    <3>1. Finalize(f)
      BY <1>3, <2>2 DEF Findings
    <3> HIDE DEF f
    <3> QED
      BY <2>1, <3>1, FinalizeMoves
  <2>3. CASE ~(Round >= MaxRounds)
    <3> DEFINE f == [Mine EXCEPT !.cp = "WORKING", !.round = Round]
    <3>1. Checkpoint(f, Turning(Max2(cyc.round, Round + 1)))
      BY <1>3, <2>3 DEF Findings
    <3> HIDE DEF f
    <3> QED
      BY <2>1, <3>1, TurningStays, CheckpointMoves
  <2> QED
    BY <2>2, <2>3
<1>4. CASE Reviewed
  BY <1>4, GoMoves DEF Reviewed, At
<1>5. CASE DeliveryWall
  <2> DEFINE f == Mine
  <2>1. cyc # Idle /\ Unavailable(f)
    BY <1>5 DEF DeliveryWall, At
  <2> HIDE DEF f
  <2> QED
    BY <2>1, UnavailableMoves
<1>6. CASE StaleDeliveryWall
  <2> DEFINE f == Mine
  <2>1. cyc # Idle /\ Wall(f)
    BY <1>6 DEF StaleDeliveryWall, At
  <2> HIDE DEF f
  <2> QED
    BY <2>1, WallMoves
<1>7. CASE Merge
  BY <1>7, GoMoves DEF Merge, At
<1>8. CASE Merged
  <2> DEFINE e == Mine
             f == [Mine EXCEPT !.cp = "WORKING", !.merged = TRUE, !.head = TRUE]
  <2>1. cyc # Idle /\ (Wall(e) \/ Checkpoint(f, Ending("cleanup", Behind)))
    BY <1>8 DEF Merged, At
  <2> HIDE DEF e, f
  <2> QED
    BY <2>1, WallMoves, EndingStays, CheckpointMoves
<1>9. CASE Cleanup
  <2> DEFINE e == Mine
             f == [Mine EXCEPT !.cp = "COMPLETE"]
  <2>1. cyc # Idle /\ (Wall(e) \/ Checkpoint(f, Ending("settle", Behind)))
    BY <1>9 DEF Cleanup, At
  <2> HIDE DEF e, f
  <2> QED
    BY <2>1, WallMoves, EndingStays, CheckpointMoves
<1>10. CASE CleanupFails
  <2> DEFINE e == [Mine EXCEPT !.cleanups = @ + 1]
             f == [e EXCEPT !.cp = "WORKING", !.lease = "FREE"]
  <2>1. cyc # Idle /\ (Finalize(e) \/ Checkpoint(f, Idle))
    BY <1>10 DEF CleanupFails, At
  <2> HIDE DEF e, f
  <2> QED
    BY <2>1, FinalizeMoves, CheckpointMoves
<1>11. CASE Inspect
  <2>1. cyc # Idle /\ (Wall(Mine) \/ (Go("merging") /\ exec' = exec))
    BY <1>11 DEF Inspect, At
  <2> QED
    BY <2>1, WallMoves, GoMoves
<1> QED
  BY <1>1, <1>2, <1>3, <1>4, <1>5, <1>6, <1>7, <1>8, <1>9, <1>10, <1>11

LEMMA SettlementsMove ==
  ASSUME IInv,
         Settle \/ SettleGoal \/ Release \/ Park \/ Defer \/ Lost
  PROVE  Moves
<1>1. CASE Settle
  <2>1. cyc # Idle /\ (Wall(Mine) \/ (Go("settleGoal") /\ exec' = exec))
    BY <1>1 DEF Settle, At
  <2> QED
    BY <2>1, WallMoves, GoMoves
<1>2. CASE SettleGoal
  <2>1. cyc # Idle /\ (Wall(Mine) \/ (Go("release") /\ exec' = exec))
    BY <1>2 DEF SettleGoal, At
  <2> QED
    BY <2>1, WallMoves, GoMoves
<1>3. CASE Release
  <2> DEFINE f == [(IF Mine.cp = "OWNER_DECISION_REQUIRED" THEN Mine ELSE New)
                   EXCEPT !.lease = "RELEASED", !.cp = Mine.cp]
  <2>1. cyc # Idle /\ exec' = [exec EXCEPT ![cyc.o] = f] /\ cyc' = Idle
    BY <1>3 DEF Release, At, Store
  <2> HIDE DEF f
  <2> QED
    BY <2>1 DEF Moves
<1>4. CASE Park
  <2>1. cyc # Idle /\ (Wall(Mine) \/ (Go("defer") /\ exec' = exec))
    BY <1>4 DEF Park, At
  <2> QED
    BY <2>1, WallMoves, GoMoves
<1>5. CASE Defer
  <2> DEFINE f == [Mine EXCEPT !.lease = "DEFERRED", !.cp = "DEFERRED_PROVIDER_UNAVAILABLE",
                          !.walls = 0]
  <2>1. cyc # Idle /\ exec' = [exec EXCEPT ![cyc.o] = f] /\ cyc' = Idle
    BY <1>5 DEF Defer, At, Store
  <2> HIDE DEF f
  <2> QED
    BY <2>1 DEF Moves
<1>6. CASE Lost
  <2> DEFINE f == Mine
  <2>1. cyc # Idle /\ Wall(f)
    BY <1>6 DEF Lost, Working
  <2> HIDE DEF f
  <2> QED
    BY <2>1, WallMoves
<1> QED
  BY <1>1, <1>2, <1>3, <1>4, <1>5, <1>6

LEMMA MishapsMove ==
  ASSUME IInv,
         CodexIsRejected \/ Throw \/ Die \/ Suspend
  PROVE  Moves
<1>1. CASE CodexIsRejected
  <2> DEFINE f == Consumed(Mine)
  <2>1. cyc # Idle /\ Wall(f)
    BY <1>1 DEF CodexIsRejected, At
  <2> HIDE DEF f
  <2> QED
    BY <2>1, WallMoves
<1>2. CASE Throw
  <2>1. cyc # Idle /\ (Wall(Mine) \/ (cyc' = Idle /\ exec' = exec))
    BY <1>2 DEF Throw
  <2> QED
    BY <2>1, WallMoves DEF Moves
<1>3. CASE Die
  BY <1>3 DEF Die, IInv, Focused, Stays, Moves
<1>4. CASE Suspend
  <2> DEFINE f == [Mine EXCEPT !.lease = "LAPSED"]
  <2>1. cyc # Idle /\ exec' = [exec EXCEPT ![cyc.o] = f] /\ cyc' = cyc
    BY <1>4 DEF Suspend, Working, Store
  <2> HIDE DEF f
  <2> QED
    BY <2>1 DEF IInv, Focused, Stays, Moves
<1> QED
  BY <1>1, <1>2, <1>3, <1>4

-----------------------------------------------------------------------------
(* What starts a cycle, and what happens without one.                      *)

LEMMA BeginStarts ==
  ASSUME NEW o \in Outcomes, NEW step, Begin(o, step), exec' = exec,
         Unreleased \subseteq {o}
  PROVE  Starts(o)
  BY DEF Begin, Starts, Unreleased, Unfinished, Fields

LEMMA CycleStarts ==
  ASSUME NEW o \in Outcomes, IInv,
         StartDurable(o) \/ StartApproved(o) \/ StartSelected(o)
  PROVE  Starts(o)
<1>1. CASE StartDurable(o)
  BY <1>1, BeginStarts DEF StartDurable
<1>2. CASE StartApproved(o)
  BY <1>2, BeginStarts DEF StartApproved
<1>3. CASE StartSelected(o)
  BY <1>3, BeginStarts DEF StartSelected
<1> QED
  BY <1>1, <1>2, <1>3

LEMMA WorldKeeps ==
  ASSUME NEW o \in Outcomes, IInv,
         ReviewArrives(o) \/ LeaseEnds(o) \/ RowLeaseEnds(o) \/ RetryTimePasses(o)
           \/ OwnerApproves(o)
  PROVE  (UNCHANGED <<exec, cyc>>) \/ Ends(o)
<1>1. CASE LeaseEnds(o)
  <2> DEFINE f == [exec[o] EXCEPT !.lease = "LAPSED"]
  <2>1. exec[o].lease = "HELD" /\ exec' = [exec EXCEPT ![o] = f] /\ cyc' = cyc
    BY <1>1 DEF LeaseEnds
  <2>2. Unfinished(o)
    BY <2>1 DEF Unfinished, Known, NoExecution
  <2> HIDE DEF f
  <2> QED
    BY <2>1, <2>2 DEF Ends
<1>2. CASE RetryTimePasses(o)
  <2> DEFINE f == [exec[o] EXCEPT !.lease = "FREE"]
  <2>1. exec[o].lease = "DEFERRED" /\ exec' = [exec EXCEPT ![o] = f] /\ cyc' = cyc
    BY <1>2 DEF RetryTimePasses
  <2>2. Unfinished(o)
    BY <2>1 DEF Unfinished, Known, NoExecution
  <2> HIDE DEF f
  <2> QED
    BY <2>1, <2>2 DEF Ends
<1>3. CASE ReviewArrives(o) \/ RowLeaseEnds(o) \/ OwnerApproves(o)
  BY <1>3 DEF ReviewArrives, RowLeaseEnds, OwnerApproves
<1> QED
  BY <1>1, <1>2, <1>3

LEMMA StutterKeeps == IInv /\ UNCHANGED <<exec, cyc>> => IInv'
  BY DEF IInv, Focused, OneUnreleasedExecution, Unfinished, Known

LEMMA IInvInit == Init => IInv
  BY DEF Init, IInv, Focused, OneUnreleasedExecution, Known

LEMMA IInvNext == IInv /\ [Next]_vars => IInv'
<1> SUFFICES ASSUME IInv, [Next]_vars PROVE IInv'
  OBVIOUS
<1>1. CASE Cycles
  <2>1. CASE \E o \in Outcomes : StartDurable(o) \/ StartApproved(o) \/ StartSelected(o)
    BY <2>1, CycleStarts, StartsKeep
  <2>2. CASE Resume \/ Reopen \/ Refresh \/ Lease \/ Discover \/ Prepare \/ Recommit
    BY <2>2, CyclesMove, MovesKeep
  <2> QED
    BY <1>1, <2>1, <2>2 DEF Cycles
<1>2. CASE Turns
  BY <1>2, TurnsMove, MovesKeep DEF Turns
<1>3. CASE Deliveries
  BY <1>3, DeliveriesMove, MovesKeep DEF Deliveries
<1>4. CASE Settlements
  BY <1>4, SettlementsMove, MovesKeep DEF Settlements
<1>5. CASE Mishaps
  BY <1>5, MishapsMove, MovesKeep DEF Mishaps
<1>6. CASE World
  BY <1>6, WorldKeeps, EndsKeep, StutterKeeps DEF World
<1>7. CASE UNCHANGED vars
  BY <1>7, StutterKeeps DEF vars
<1> QED
  BY <1>1, <1>2, <1>3, <1>4, <1>5, <1>6, <1>7 DEF Next

\* However the supervisor dies, is refused or is suspended, it never has more
\* than one execution that a later cycle must take up (orchestrator.mjs selects
\* only when the store shows nothing unreleased).
THEOREM OneExecutionAtATime == Spec => []OneUnreleasedExecution
<1>1. IInv => OneUnreleasedExecution
  BY DEF IInv
<1> QED
  BY IInvInit, IInvNext, <1>1, PTL DEF Spec

-----------------------------------------------------------------------------
(* What is said of an outcome agrees.  The invariant speaks of one outcome *)
(* at a time: of its execution e, its row q, its work w, whether an owner  *)
(* approved it (a), and the cycle c that is about it, Idle if none is.  A  *)
(* step of a cycle changes nothing of any other outcome (Local), so each   *)
(* action is checked once, for its own outcome.                            *)

\* The steps at which Codex or the host is at work on the outcome.
Doing ==
  {"discover", "prepare", "recommit", "turn", "codex", "result", "validate", "commit",
   "created", "push", "request", "await", "merge", "merging", "merged", "cleanup"}

\* The steps of Doing at which the pull request is not merged yet, for certain.
Unmerged == Doing \ {"discover", "merged", "cleanup"}

\* The steps at which the commit is the one the host checked.
Delivering ==
  {"created", "push", "request", "await", "merge", "merging", "merged"}

\* The verdicts of a review that has come back.
Verdicts == {"clean", "findings"}

Settling == {"settle", "settleGoal", "release"}
Parking == {"park", "defer"}

Is(c, S) == c # Idle /\ c.at \in S
Exists(e) == e # NoExecution

Settled(q, cp) ==
  \/ cp = "COMPLETE" /\ q.state = "completed"
  \/ cp # "COMPLETE" /\ q.state = "blocked" /\ q.reason = cp

Result(cp) == IF cp = "COMPLETE" THEN "converted" ELSE cp

Types(e, q, w, c) ==
  /\ e \in Execution \cup {NoExecution}
  /\ q \in Row /\ w \in Work /\ c \in Cycle \cup {Idle}

\* The store: a counter is at its limit only until the wait, or the failure, it
\* led to is settled; no handler that could overwrite that has a fresh sequence.
StoreIsSound(e, c) ==
  /\ Exists(e) /\ e.walls = MaxRedispatches => e.cp = "PROVIDER_UNAVAILABLE"
  /\ Exists(e) /\ e.cleanups = MaxRedispatches => e.cp = "FAILED_TERMINAL"
  /\ c # Idle /\ c.catch = "fresh" =>
       /\ e.walls < MaxRedispatches /\ e.cleanups < MaxRedispatches
       /\ e.cp # "COMPLETE" /\ c.at \in Doing \cup Settling
  /\ Is(c, Doing \cup Settling \cup Parking) => Exists(e) /\ e.lease \in {"HELD", "LAPSED"}
  /\ Is(c, {"refresh", "lease"}) /\ Exists(e) => e.lease # "RELEASED"
  /\ Is(c, Doing) => e.cp \notin Terminal \cup {"PROVIDER_UNAVAILABLE"}
  /\ Is(c, Settling) => e.cp \in Terminal
  /\ Is(c, Parking) => e.cp = "PROVIDER_UNAVAILABLE"
  /\ Is(c, {"codex"}) => e.cp = "WORKING"
  /\ Is(c, Doing \ {"turn"}) => c.round <= MaxRounds

\* The repository: a commit is of checked edits, or there is none.
WorkIsSound(e, w, c) ==
  /\ w.commit # "edited"
  /\ w.pr = "merged" => w.commit = "checked" /\ w.review \in Verdicts
  /\ Exists(e) /\ e.head => w.commit = "checked"
  /\ Exists(e) /\ e.merged => w.pr = "merged"
  /\ Exists(e) /\ e.cp = "COMPLETE" => w.pr = "merged"
  /\ Exists(e) /\ e.cp = "HOST_VALIDATION_PASSED" => w.tree # "edited"
  /\ Is(c, {"discover", "prepare"}) /\ c.prior = "HOST_VALIDATION_PASSED" => w.tree # "edited"
  /\ Is(c, {"recommit"}) => w.tree # "edited"
  /\ Is(c, {"commit"}) => w.tree = "checked"
  /\ Is(c, Delivering) => w.commit = "checked"
  /\ Is(c, {"merge", "merging"}) => w.review \in Verdicts
  /\ Is(c, Unmerged) => w.pr # "merged"
  /\ Is(c, {"merged", "cleanup"}) => w.pr = "merged"

\* The row and the goal.
RowIsSound(e, q, w, a, c) ==
  /\ Exists(e) \/ Is(c, {"refresh", "lease"}) => q.state # "approved"
  /\ ~Exists(e) => q.state \in {"approved", "active"} /\ ~a
  /\ q.goal # "classified" => q.state \in {"blocked", "completed"}
  /\ q.goal = "converted" => q.state = "completed"
  /\ q.goal \in {"FAILED_TERMINAL", "OWNER_DECISION_REQUIRED"} =>
       q.state = "blocked" /\ q.reason = q.goal
  /\ a => q.goal \in {"classified", "converted"}
  /\ q.state = "completed" => Exists(e) /\ e.cp = "COMPLETE" /\ w.pr = "merged"
  /\ Is(c, {"lease"}) =>
       q.state = "active" \/ (Exists(e) /\ e.cp \in Terminal /\ Settled(q, e.cp))
  /\ Is(c, Doing) => q.state = "active"
  /\ Is(c, {"settleGoal", "release"}) => Settled(q, e.cp)
  /\ Is(c, {"release"}) => q.goal = Result(e.cp)
  /\ Exists(e) /\ e.lease = "RELEASED" =>
       /\ e.cp \in Terminal
       /\ Settled(q, e.cp) \/ (a /\ q.state = "active")
       /\ e.cp = "COMPLETE" => q.goal = "converted"
       /\ e.cp # "COMPLETE" => q.goal = e.cp \/ a
  /\ Is(c, {"resume", "reopen"}) =>
       Exists(e) /\ e.lease = "RELEASED" /\ e.cp = "OWNER_DECISION_REQUIRED" /\ a
  /\ Is(c, {"reopen"}) => q.state = "active"
  /\ q.state = "active" /\ q.live /\ q.reason = "PROVIDER_UNAVAILABLE" =>
       /\ Exists(e)
       /\ \/ e.cp = "PROVIDER_UNAVAILABLE"
          \/ e.cp = "DEFERRED_PROVIDER_UNAVAILABLE" /\ e.lease = "DEFERRED"

Sound(e, q, w, a, c) ==
  Types(e, q, w, c) /\ StoreIsSound(e, c) /\ WorkIsSound(e, w, c) /\ RowIsSound(e, q, w, a, c)

\* The cycle as outcome o sees it.
CycleOf(o) == IF On(o) THEN cyc ELSE Idle

CycleInv ==
  /\ TypeOK
  /\ \A o \in Outcomes : Sound(exec[o], queue[o], work[o], o \in approved, CycleOf(o))

-----------------------------------------------------------------------------
(* What the steps have in common, for the values of one outcome.           *)

\* Nothing that is still pending depends on a cycle that has ended.
LEMMA DropSound ==
  ASSUME NEW e, NEW q, NEW w, NEW a, NEW c, Sound(e, q, w, a, c)
  PROVE  Sound(e, q, w, a, Idle)
<1>1. Types(e, q, w, Idle)
  BY DEF Sound, Types
<1>2. StoreIsSound(e, Idle)
  BY DEF Sound, StoreIsSound, Is
<1>3. WorkIsSound(e, w, Idle)
  BY DEF Sound, WorkIsSound, Is
<1>4. RowIsSound(e, q, w, a, Idle)
  BY DEF Sound, RowIsSound, Is
<1> QED
  BY <1>1, <1>2, <1>3, <1>4 DEF Sound

\* A lease that is held or lapsed may be in either state, or be given up.
LEMMA LeaseSound ==
  ASSUME NEW e, NEW q, NEW w, NEW a, Sound(e, q, w, a, Idle),
         NEW lease \in {"HELD", "LAPSED", "FREE"},
         e.lease \in {"HELD", "LAPSED"}
  PROVE  Sound([e EXCEPT !.lease = lease], q, w, a, Idle)
<1> DEFINE f == [e EXCEPT !.lease = lease]
<1>1. e \in Execution /\ f \in Execution /\ Exists(e) /\ Exists(f)
  BY DEF Sound, Types, Execution, Exists, NoExecution, Leases
<1>2. /\ f.lease = lease /\ f.cp = e.cp /\ f.walls = e.walls /\ f.cleanups = e.cleanups
      /\ f.head = e.head /\ f.merged = e.merged
  BY <1>1 DEF Execution
<1> HIDE DEF f
<1>3. Types(f, q, w, Idle)
  BY <1>1 DEF Sound, Types
<1>4. StoreIsSound(f, Idle)
  BY <1>1, <1>2 DEF Sound, StoreIsSound, Is
<1>5. WorkIsSound(f, w, Idle)
  BY <1>1, <1>2 DEF Sound, WorkIsSound, Is
<1>6. RowIsSound(f, q, w, a, Idle)
  BY <1>1, <1>2 DEF Sound, RowIsSound, Is
<1> QED
  BY <1>3, <1>4, <1>5, <1>6 DEF Sound, f

LEMMA GivenUpSound ==
  ASSUME NEW e, NEW q, NEW w, NEW a, NEW c, Sound(e, q, w, a, c)
  PROVE  Sound(GivenUp(e), q, w, a, Idle)
<1>1. Sound(e, q, w, a, Idle)
  BY DropSound
<1>2. CASE e.lease \in {"HELD", "LAPSED"}
  BY <1>1, <1>2, LeaseSound DEF GivenUp
<1>3. CASE e.lease \notin {"HELD", "LAPSED"}
  BY <1>1, <1>3 DEF GivenUp
<1> QED
  BY <1>2, <1>3

\* RETRYABLE_WALL takes the place of a checkpoint only under a fresh sequence.
LEMMA WallSound ==
  ASSUME NEW e, NEW q, NEW w, NEW a, NEW c, Sound(e, q, w, a, c),
         c # Idle, c.catch = "fresh", e.lease = "HELD"
  PROVE  Sound([e EXCEPT !.cp = "WORKING"], q, w, a, Idle)
<1> DEFINE f == [e EXCEPT !.cp = "WORKING"]
<1>1. e \in Execution /\ f \in Execution /\ Exists(e) /\ Exists(f)
  BY DEF Sound, Types, Execution, Exists, NoExecution, Leases, Checkpoints
<1>2. /\ f.lease = e.lease /\ f.cp = "WORKING" /\ f.walls = e.walls /\ f.cleanups = e.cleanups
      /\ f.head = e.head /\ f.merged = e.merged
  BY <1>1 DEF Execution
<1>3. /\ e.walls # MaxRedispatches /\ e.cleanups # MaxRedispatches
      /\ e.cp \notin {"COMPLETE", "PROVIDER_UNAVAILABLE"}
  BY <1>1, BoundsAssumption DEF Sound, StoreIsSound, Is, Terminal, Execution
<1> HIDE DEF f
<1>4. Types(f, q, w, Idle)
  BY <1>1 DEF Sound, Types
<1>5. StoreIsSound(f, Idle)
  BY <1>1, <1>2, <1>3 DEF Sound, StoreIsSound, Is
<1>6. WorkIsSound(f, w, Idle)
  BY <1>1, <1>2, <1>3 DEF Sound, WorkIsSound, Is
<1>7. RowIsSound(f, q, w, a, Idle)
  BY <1>1, <1>2, <1>3 DEF Sound, RowIsSound, Is
<1> QED
  BY <1>4, <1>5, <1>6, <1>7 DEF Sound, f

-----------------------------------------------------------------------------
(* A step is about one outcome.                                            *)

Local(o) ==
  /\ exec' = exec \/ \E e : exec' = [exec EXCEPT ![o] = e]
  /\ queue' = queue \/ \E q : queue' = [queue EXCEPT ![o] = q]
  /\ work' = work \/ \E w : work' = [work EXCEPT ![o] = w]
  /\ approved' \in {approved, approved \cup {o}, approved \ {o}}
  /\ \/ cyc' = cyc
     \/ (On(o) \/ cyc = Idle) /\ (cyc' = Idle \/ cyc'.o = o)
  /\ faults' \in 0..MaxFaults

SoundAt(o) == Sound(exec[o], queue[o], work[o], o \in approved, CycleOf(o))

LEMMA LocalKeeps ==
  ASSUME NEW o \in Outcomes, CycleInv, Local(o), SoundAt(o)', cyc' \in Cycle \cup {Idle}
  PROVE  CycleInv'
<1>1. Types(exec'[o], queue'[o], work'[o], CycleOf(o)')
  BY DEF SoundAt, Sound
<1>2. TypeOK'
  BY <1>1 DEF CycleInv, TypeOK, Local, Types
<1>3. ASSUME NEW p \in Outcomes, p # o
      PROVE  Sound(exec'[p], queue'[p], work'[p], p \in approved', CycleOf(p)')
  <2>1. exec'[p] = exec[p] /\ queue'[p] = queue[p] /\ work'[p] = work[p]
    BY <1>3 DEF CycleInv, TypeOK, Local
  <2>2. p \in approved' <=> p \in approved
    BY <1>3 DEF Local
  <2>3. CycleOf(p)' = CycleOf(p)
    BY <1>3 DEF Local, CycleOf, On
  <2>4. Sound(exec[p], queue[p], work[p], p \in approved, CycleOf(p))
    BY DEF CycleInv
  <2> QED
    BY <2>1, <2>2, <2>3, <2>4
<1> QED
  BY <1>2, <1>3 DEF CycleInv, SoundAt

LEMMA MineSound ==
  ASSUME CycleInv, cyc # Idle
  PROVE  /\ cyc \in Cycle /\ cyc.o \in Outcomes
         /\ Sound(Mine, queue[cyc.o], Here, cyc.o \in approved, cyc)
<1>1. cyc \in Cycle /\ cyc.o \in Outcomes
  BY DEF CycleInv, TypeOK, Cycle
<1>2. CycleOf(cyc.o) = cyc
  BY DEF CycleOf, On
<1> QED
  BY <1>1, <1>2 DEF CycleInv, Mine, Here

LEMMA StepKeeps ==
  ASSUME CycleInv, cyc # Idle, Local(cyc.o),
         cyc' = Idle \/ cyc'.o = cyc.o,
         Sound(exec'[cyc.o], queue'[cyc.o], work'[cyc.o], cyc.o \in approved', cyc')
  PROVE  CycleInv'
<1>1. PICK o \in Outcomes : o = cyc.o
  BY MineSound
<1>2. CycleOf(o)' = cyc'
  BY <1>1 DEF CycleOf, On
<1>3. SoundAt(o)'
  BY <1>1, <1>2 DEF SoundAt
<1>4. cyc' \in Cycle \cup {Idle}
  BY DEF Sound, Types
<1> QED
  BY <1>1, <1>3, <1>4, LocalKeeps

LEMMA CheckpointKeeps ==
  ASSUME CycleInv, cyc # Idle, NEW f, NEW next, Checkpoint(f, next),
         UNCHANGED <<queue, approved>>,
         work' = work \/ \E w : work' = [work EXCEPT ![cyc.o] = w],
         next = Idle \/ next.o = cyc.o,
         Sound(f, queue[cyc.o], work'[cyc.o], cyc.o \in approved, next)
  PROVE  CycleInv'
<1>1. cyc.o \in Outcomes /\ DOMAIN exec = Outcomes /\ faults \in 0..MaxFaults
  BY MineSound DEF CycleInv, TypeOK
<1>2. faults' \in 0..MaxFaults
  BY <1>1, BoundsAssumption DEF Checkpoint, Fault
<1>3. CASE Store(f) /\ cyc' = next
  <2>1. Local(cyc.o)
    BY <1>2, <1>3 DEF Local, Store, On
  <2>2. exec'[cyc.o] = f
    BY <1>1, <1>3 DEF Store
  <2> QED
    BY <1>3, <2>1, <2>2, StepKeeps
<1>4. CASE Store(GivenUp(f)) /\ cyc' = Idle
  <2>1. Local(cyc.o)
    BY <1>2, <1>4 DEF Local, Store, On
  <2>2. exec'[cyc.o] = GivenUp(f)
    BY <1>1, <1>4 DEF Store
  <2>3. Sound(GivenUp(f), queue[cyc.o], work'[cyc.o], cyc.o \in approved, Idle)
    BY GivenUpSound
  <2> QED
    BY <1>4, <2>1, <2>2, <2>3, StepKeeps
<1> QED
  BY <1>3, <1>4 DEF Checkpoint

LEMMA WallKeeps ==
  ASSUME CycleInv, cyc # Idle, NEW e, Wall(e), UNCHANGED <<queue, work, approved>>,
         faults' \in 0..MaxFaults,
         Sound(e, queue[cyc.o], work[cyc.o], cyc.o \in approved, cyc)
  PROVE  CycleInv'
<1> DEFINE f == IF cyc.catch = "fresh" /\ e.lease = "HELD"
                  THEN [e EXCEPT !.cp = "WORKING"] ELSE e
<1>1. cyc.o \in Outcomes /\ DOMAIN exec = Outcomes
  BY MineSound DEF CycleInv, TypeOK
<1>2. exec' = [exec EXCEPT ![cyc.o] = GivenUp(f)] /\ cyc' = Idle
  BY DEF Wall, Store
<1>3. Sound(f, queue[cyc.o], work[cyc.o], cyc.o \in approved, Idle)
  BY WallSound, DropSound
<1> HIDE DEF f
<1>4. Sound(GivenUp(f), queue[cyc.o], work[cyc.o], cyc.o \in approved, Idle)
  BY <1>3, GivenUpSound
<1>5. Local(cyc.o)
  BY <1>2 DEF Local, On
<1>6. exec'[cyc.o] = GivenUp(f)
  BY <1>1, <1>2
<1> QED
  BY <1>2, <1>4, <1>5, <1>6, StepKeeps

\* A step that changes only where the cycle is.
LEMMA GoKeeps ==
  ASSUME CycleInv, cyc # Idle, UNCHANGED <<exec, queue, work, approved, faults>>,
         cyc' = Idle \/ cyc'.o = cyc.o,
         Sound(Mine, queue[cyc.o], Here, cyc.o \in approved, cyc')
  PROVE  CycleInv'
<1>1. Local(cyc.o)
  BY DEF Local, CycleInv, TypeOK, On
<1> QED
  BY <1>1, StepKeeps DEF Mine, Here

-----------------------------------------------------------------------------
(* The steps at which the outcome is worked on, and where they lead.       *)

\* The row is active meanwhile, and neither counter is at its limit.
LEMMA WhileDoing ==
  ASSUME NEW e, NEW q, NEW w, NEW a, NEW c, Sound(e, q, w, a, c), Is(c, Doing)
  PROVE  /\ e \in Execution /\ Exists(e) /\ q \in Row /\ w \in Work /\ c \in Cycle
         /\ e.walls \in 0..MaxRedispatches - 1 /\ e.cleanups \in 0..MaxRedispatches - 1
         /\ e.cp \notin Terminal \cup {"PROVIDER_UNAVAILABLE"}
         /\ q.state = "active" /\ ~(q.live /\ q.reason = "PROVIDER_UNAVAILABLE")
<1>1. /\ e \in Execution /\ Exists(e) /\ q \in Row /\ w \in Work /\ c \in Cycle
      /\ e.cp \notin Terminal \cup {"PROVIDER_UNAVAILABLE"}
      /\ q.state = "active" /\ ~(q.live /\ q.reason = "PROVIDER_UNAVAILABLE")
  BY DEF Sound, Types, StoreIsSound, RowIsSound, Is, Exists
<1>2. e.walls # MaxRedispatches /\ e.cleanups # MaxRedispatches
  BY <1>1 DEF Sound, StoreIsSound, Terminal
<1>3. e.walls \in 0..MaxRedispatches /\ e.cleanups \in 0..MaxRedispatches
  BY <1>1 DEF Execution
<1> QED
  BY <1>1, <1>2, <1>3, BoundsAssumption

LEMMA DoingSound ==
  ASSUME NEW e, NEW q, NEW w, NEW a, NEW c, Sound(e, q, w, a, c), Is(c, Doing),
         NEW f \in Execution, f.lease \in {"HELD", "LAPSED"}, 
         f.cp \notin Terminal \cup {"PROVIDER_UNAVAILABLE"},
         f.walls = e.walls, f.cleanups = e.cleanups,
         NEW n \in Cycle, n.at \in Doing, n.at = "codex" => f.cp = "WORKING",
         n.at # "turn" => n.round <= MaxRounds,
         NEW v \in Work, WorkIsSound(f, v, n)
  PROVE  Sound(f, q, v, a, n)
<1>1. /\ e \in Execution /\ q \in Row /\ q.state = "active"
      /\ e.walls \in 0..MaxRedispatches - 1 /\ e.cleanups \in 0..MaxRedispatches - 1
  BY WhileDoing
<1>2. Exists(f)
  BY DEF Execution, Exists, NoExecution, Leases
<1>3. StoreIsSound(f, n)
  BY <1>1, <1>2, BoundsAssumption DEF StoreIsSound, Is, Doing, Settling, Parking, Terminal
<1>4. RowIsSound(f, q, v, a, n)
  BY <1>1, <1>2, WhileDoing DEF Sound, RowIsSound, Is, Doing
<1> QED
  BY <1>1, <1>3, <1>4 DEF Sound, Types

LEMMA ToSettle ==
  ASSUME NEW e, NEW q, NEW w, NEW a, NEW c, Sound(e, q, w, a, c), Is(c, Doing),
         NEW f \in Execution, f.lease \in {"HELD", "LAPSED"}, f.cp \in Terminal,
         f.walls = e.walls, f.head = e.head, f.merged = e.merged,
         f.cleanups = MaxRedispatches => f.cp = "FAILED_TERMINAL",
         f.cp = "COMPLETE" => w.pr = "merged",
         NEW n \in Cycle, n.at = "settle",
         n.catch = "fresh" => f.cleanups = e.cleanups /\ f.cp # "COMPLETE"
  PROVE  Sound(f, q, w, a, n)
<1>1. /\ e \in Execution /\ Exists(e) /\ q \in Row /\ w \in Work /\ q.state = "active"
      /\ e.walls \in 0..MaxRedispatches - 1 /\ e.cleanups \in 0..MaxRedispatches - 1
  BY WhileDoing
<1>2. Exists(f)
  BY DEF Execution, Exists, NoExecution, Leases
<1>3. StoreIsSound(f, n)
  BY <1>1, <1>2, BoundsAssumption DEF StoreIsSound, Is, Doing, Settling, Parking, Terminal
<1>4. WorkIsSound(f, w, n)
  BY <1>1, <1>2 DEF Sound, WorkIsSound, Is, Terminal, Unmerged, Doing, Delivering
<1>5. RowIsSound(f, q, w, a, n)
  BY <1>1, <1>2, WhileDoing DEF Sound, RowIsSound, Is, Doing, Terminal
<1> QED
  BY <1>1, <1>3, <1>4, <1>5 DEF Sound, Types

LEMMA ToPark ==
  ASSUME NEW e, NEW q, NEW w, NEW a, NEW c, Sound(e, q, w, a, c), Is(c, Doing),
         NEW f \in Execution, f.lease \in {"HELD", "LAPSED"}, f.cp = "PROVIDER_UNAVAILABLE",
         f.head = e.head, f.merged = e.merged, f.cleanups = e.cleanups,
         NEW n \in Cycle, n.at = "park", n.catch # "fresh"
  PROVE  Sound(f, q, w, a, n)
<1>1. /\ e \in Execution /\ Exists(e) /\ q \in Row /\ w \in Work /\ q.state = "active"
      /\ e.cleanups \in 0..MaxRedispatches - 1
  BY WhileDoing
<1>2. Exists(f)
  BY DEF Execution, Exists, NoExecution, Leases
<1>3. StoreIsSound(f, n)
  BY <1>1, <1>2, BoundsAssumption DEF StoreIsSound, Is, Doing, Settling, Parking, Terminal
<1>4. WorkIsSound(f, w, n)
  BY <1>1, <1>2 DEF Sound, WorkIsSound, Is, Unmerged, Doing, Delivering
<1>5. RowIsSound(f, q, w, a, n)
  BY <1>1, <1>2, WhileDoing DEF Sound, RowIsSound, Is, Doing
<1> QED
  BY <1>1, <1>3, <1>4, <1>5 DEF Sound, Types

\* The lease is given up with work still to be done.
LEMMA ToLater ==
  ASSUME NEW e, NEW q, NEW w, NEW a, NEW c, Sound(e, q, w, a, c), Is(c, Doing),
         NEW f \in Execution, f.lease = "FREE", f.cp = "WORKING",
         f.walls # MaxRedispatches, f.cleanups # MaxRedispatches,
         f.head = e.head, f.merged = e.merged
  PROVE  Sound(f, q, w, a, Idle)
<1>1. e \in Execution /\ Exists(e) /\ q \in Row /\ w \in Work /\ q.state = "active"
  BY WhileDoing
<1>2. Exists(f)
  BY DEF Execution, Exists, NoExecution, Leases
<1>3. StoreIsSound(f, Idle)
  BY <1>1, <1>2 DEF StoreIsSound, Is
<1>4. WorkIsSound(f, w, Idle)
  BY <1>1, <1>2 DEF Sound, WorkIsSound, Is
<1>5. RowIsSound(f, q, w, a, Idle)
  BY <1>1, <1>2, WhileDoing DEF Sound, RowIsSound, Is, Doing
<1> QED
  BY <1>1, <1>3, <1>4, <1>5 DEF Sound, Types

LEMMA WorkTyped == CycleInv /\ cyc # Idle => work[cyc.o] \in Work
  BY MineSound DEF CycleInv, TypeOK

\* A checkpoint after which the outcome is still being worked on.
LEMMA AdvanceKeeps ==
  ASSUME CycleInv, Is(cyc, Doing), NEW f \in Execution, NEW n \in Cycle, Checkpoint(f, n),
         UNCHANGED <<queue, approved>>,
         work' = work \/ \E v \in Work : work' = [work EXCEPT ![cyc.o] = v],
         f.lease = Mine.lease, f.walls = Mine.walls, f.cleanups = Mine.cleanups,
         f.cp \notin Terminal \cup {"PROVIDER_UNAVAILABLE"},
         n.o = cyc.o, n.at \in Doing, n.at = "codex" => f.cp = "WORKING",
         n.at # "turn" => n.round <= MaxRounds,
         WorkIsSound(f, work'[cyc.o], n)
  PROVE  CycleInv'
<1>1. /\ cyc # Idle /\ Sound(Mine, queue[cyc.o], Here, cyc.o \in approved, cyc)
      /\ cyc.o \in Outcomes
  BY MineSound DEF Is
<1>2. work'[cyc.o] \in Work
  BY <1>1, WorkTyped DEF CycleInv, TypeOK
<1>3. f.lease \in {"HELD", "LAPSED"}
  BY DEF Checkpoint
<1>4. Sound(f, queue[cyc.o], work'[cyc.o], cyc.o \in approved, n)
  BY <1>1, <1>2, <1>3, DoingSound
<1> QED
  BY <1>1, <1>4, CheckpointKeeps

LEMMA FinalizeKeeps ==
  ASSUME CycleInv, Is(cyc, Doing), NEW f \in Execution, Finalize(f),
         UNCHANGED <<queue, work, approved>>,
         f.lease = Mine.lease, f.walls = Mine.walls, f.head = Mine.head,
         f.merged = Mine.merged
  PROVE  CycleInv'
<1> DEFINE g == [f EXCEPT !.cp = "FAILED_TERMINAL"]
           n == Ending("settle", Behind)
<1>1. /\ cyc # Idle /\ Sound(Mine, queue[cyc.o], Here, cyc.o \in approved, cyc)
      /\ cyc.o \in Outcomes /\ cyc \in Cycle
  BY MineSound DEF Is
<1>2. Checkpoint(g, n)
  BY DEF Finalize
<1>3. /\ g \in Execution /\ g.cp = "FAILED_TERMINAL" /\ g.lease = Mine.lease
      /\ g.walls = Mine.walls /\ g.head = Mine.head /\ g.merged = Mine.merged
  BY DEF Execution, Checkpoints, Terminal
<1>4. n \in Cycle /\ n.at = "settle" /\ n.catch # "fresh" /\ n.o = cyc.o
  BY <1>1, BoundsAssumption DEF Ending, Behind, Cycle, Steps, Checkpoints
<1>5. g.lease \in {"HELD", "LAPSED"}
  BY <1>3 DEF Checkpoint, Finalize
<1> HIDE DEF g, n
<1>6. Sound(g, queue[cyc.o], Here, cyc.o \in approved, n)
  BY <1>1, <1>3, <1>4, <1>5, ToSettle DEF Terminal
<1> QED
  BY <1>1, <1>2, <1>4, <1>6, CheckpointKeeps DEF Here

LEMMA UnavailableKeeps ==
  ASSUME CycleInv, Is(cyc, Doing), NEW f \in Execution, Unavailable(f),
         UNCHANGED <<queue, work, approved>>,
         f.lease = Mine.lease, f.cleanups = Mine.cleanups, f.head = Mine.head,
         f.merged = Mine.merged
  PROVE  CycleInv'
<1> DEFINE g == [f EXCEPT !.cp = "PROVIDER_UNAVAILABLE", !.turn = "none",
                          !.resume = IF @ = "PENDING" THEN "ORPHANED" ELSE @]
           n == Ending("park", Behind)
<1>1. /\ cyc # Idle /\ Sound(Mine, queue[cyc.o], Here, cyc.o \in approved, cyc)
      /\ cyc.o \in Outcomes /\ cyc \in Cycle
  BY MineSound DEF Is
<1>2. Checkpoint(g, n)
  BY DEF Unavailable
<1>3. /\ g \in Execution /\ g.cp = "PROVIDER_UNAVAILABLE" /\ g.lease = Mine.lease
      /\ g.cleanups = Mine.cleanups /\ g.head = Mine.head /\ g.merged = Mine.merged
  BY DEF Execution, Checkpoints, Terminal
<1>4. n \in Cycle /\ n.at = "park" /\ n.catch # "fresh" /\ n.o = cyc.o
  BY <1>1, BoundsAssumption DEF Ending, Behind, Cycle, Steps, Checkpoints
<1>5. g.lease \in {"HELD", "LAPSED"}
  BY <1>3 DEF Checkpoint, Unavailable
<1> HIDE DEF g, n
<1>6. Sound(g, queue[cyc.o], Here, cyc.o \in approved, n)
  BY <1>1, <1>3, <1>4, <1>5, ToPark
<1> QED
  BY <1>1, <1>2, <1>4, <1>6, CheckpointKeeps DEF Here

LEMMA LaterKeeps ==
  ASSUME CycleInv, Is(cyc, Doing), NEW f \in Execution, Checkpoint(f, Idle),
         UNCHANGED <<queue, work, approved>>,
         f.lease = "FREE", f.cp = "WORKING",
         f.walls # MaxRedispatches, f.cleanups # MaxRedispatches,
         f.head = Mine.head, f.merged = Mine.merged
  PROVE  CycleInv'
<1>1. /\ cyc # Idle /\ Sound(Mine, queue[cyc.o], Here, cyc.o \in approved, cyc)
  BY MineSound DEF Is
<1>2. Sound(f, queue[cyc.o], Here, cyc.o \in approved, Idle)
  BY <1>1, ToLater
<1> QED
  BY <1>1, <1>2, CheckpointKeeps DEF Here

\* Where the work stands, for a step of Doing.
LEMMA Position ==
  ASSUME CycleInv, NEW step \in Doing, At(step)
  PROVE  /\ cyc # Idle /\ cyc.at = step /\ Is(cyc, Doing) /\ cyc \in Cycle
         /\ Mine \in Execution /\ Exists(Mine) /\ Here \in Work
         /\ Mine.walls \in 0..MaxRedispatches - 1 /\ Mine.cleanups \in 0..MaxRedispatches - 1
         /\ Mine.cp \notin Terminal \cup {"PROVIDER_UNAVAILABLE"}
         /\ WorkIsSound(Mine, Here, cyc)
         /\ step # "turn" => cyc.round <= MaxRounds
         /\ step = "codex" => Mine.cp = "WORKING"
         /\ Sound(Mine, queue[cyc.o], Here, cyc.o \in approved, cyc)
<1>1. /\ cyc # Idle /\ cyc.at = step /\ Is(cyc, Doing) /\ cyc \in Cycle
      /\ Sound(Mine, queue[cyc.o], Here, cyc.o \in approved, cyc)
  BY MineSound DEF At, Is
<1>2. /\ WorkIsSound(Mine, Here, cyc)
      /\ step # "turn" => cyc.round <= MaxRounds
      /\ step = "codex" => Mine.cp = "WORKING"
  BY <1>1 DEF Sound, StoreIsSound, Is
<1> QED
  BY <1>1, <1>2, WhileDoing

-----------------------------------------------------------------------------
(* Picking up the work.                                                    *)

LEMMA DiscoverKeeps == CycleInv /\ Discover => CycleInv'
<1> SUFFICES ASSUME CycleInv, Discover PROVE CycleInv'
  OBVIOUS
<1>1. At("discover") /\ UNCHANGED <<queue, work, approved>>
  BY DEF Discover
<1>2. /\ Is(cyc, Doing) /\ cyc.at = "discover" /\ cyc \in Cycle /\ Mine \in Execution
      /\ Exists(Mine) /\ WorkIsSound(Mine, Here, cyc) /\ cyc.round <= MaxRounds
  BY <1>1, Position DEF Doing
<1>3. CASE Here.pr = "merged"
  <2> DEFINE f == [Mine EXCEPT !.cp = "WORKING", !.merged = TRUE, !.head = TRUE]
             n == Ending("cleanup", "none")
  <2>1. Checkpoint(f, n)
    BY <1>3 DEF Discover
  <2>2. /\ f \in Execution /\ f.cp = "WORKING" /\ f.lease = Mine.lease
        /\ f.walls = Mine.walls /\ f.cleanups = Mine.cleanups
    BY <1>2 DEF Execution, Checkpoints
  <2>3. n \in Cycle /\ n.at = "cleanup" /\ n.o = cyc.o /\ n.round = 0
    BY <1>2, BoundsAssumption DEF Ending, Cycle, Steps, Checkpoints
  <2> HIDE DEF f, n
  <2>4. WorkIsSound(f, Here, n)
    BY <1>2, <1>3, <2>2, <2>3 DEF WorkIsSound, Is, Delivering, Unmerged, Doing
  <2> QED
    BY <1>1, <1>2, <2>1, <2>2, <2>3, <2>4, AdvanceKeeps, BoundsAssumption
      DEF Doing, Terminal, Here
<1>4. CASE Here.pr # "merged"
  <2> DEFINE f == [Mine EXCEPT !.cp = "WORKING"]
             n == [cyc EXCEPT !.at = "prepare"]
  <2>1. Checkpoint(f, n)
    BY <1>4 DEF Discover
  <2>2. /\ f \in Execution /\ f.cp = "WORKING" /\ f.lease = Mine.lease
        /\ f.walls = Mine.walls /\ f.cleanups = Mine.cleanups
        /\ f.head = Mine.head /\ f.merged = Mine.merged
    BY <1>2 DEF Execution, Checkpoints
  <2>3. /\ n \in Cycle /\ n.at = "prepare" /\ n.o = cyc.o /\ n.round = cyc.round
        /\ n.prior = cyc.prior
    BY <1>2 DEF Cycle, Steps
  <2> HIDE DEF f, n
  <2>4. WorkIsSound(f, Here, n)
    BY <1>2, <1>4, <2>2, <2>3 DEF WorkIsSound, Is, Delivering, Unmerged, Doing
  <2> QED
    BY <1>1, <1>2, <2>1, <2>2, <2>3, <2>4, AdvanceKeeps DEF Doing, Terminal, Here
<1> QED
  BY <1>3, <1>4

\* A step that only moves on within Doing.
LEMMA MoveOnSound ==
  ASSUME CycleInv, Is(cyc, Doing), UNCHANGED <<exec, queue, work, approved, faults>>,
         cyc' \in Cycle, cyc'.o = cyc.o, cyc'.at \in Doing \ {"codex"},
         cyc'.at # "turn" => cyc'.round <= MaxRounds,
         WorkIsSound(Mine, Here, cyc')
  PROVE  CycleInv'
<1> DEFINE e == Mine  q == queue[cyc.o]  w == Here  a == cyc.o \in approved  n == cyc'
<1>1. /\ cyc # Idle /\ Sound(e, q, w, a, cyc)
      /\ e \in Execution /\ w \in Work /\ e.cp \notin Terminal \cup {"PROVIDER_UNAVAILABLE"}
  BY MineSound, WhileDoing DEF Is
<1>2. e.lease \in {"HELD", "LAPSED"}
  BY <1>1 DEF Sound, StoreIsSound, Is
<1>3. Sound(e, q, w, a, n)
  <2> HIDE DEF e, q, w, a
  <2> QED
    BY <1>1, <1>2, DoingSound DEF e, w
<1> QED
  BY <1>1, <1>3, GoKeeps

LEMMA PrepareKeeps == CycleInv /\ Prepare => CycleInv'
<1> SUFFICES ASSUME CycleInv, Prepare PROVE CycleInv'
  OBVIOUS
<1>1. At("prepare") /\ UNCHANGED <<exec, queue, work, approved, faults>>
  BY DEF Prepare
<1>2. /\ Is(cyc, Doing) /\ cyc.at = "prepare" /\ cyc \in Cycle /\ Mine \in Execution
      /\ Exists(Mine) /\ WorkIsSound(Mine, Here, cyc) /\ cyc.round <= MaxRounds
  BY <1>1, Position DEF Doing
<1>3. ASSUME NEW step \in {"validate", "recommit", "push"},
             cyc' = [cyc EXCEPT !.at = step, !.prior = "LEASED"],
             step = "recommit" => cyc.prior = "HOST_VALIDATION_PASSED",
             step = "push" => Mine.head
      PROVE  CycleInv'
  <2>1. cyc' \in Cycle /\ cyc'.at = step /\ cyc'.o = cyc.o /\ cyc'.round = cyc.round
    BY <1>2, <1>3 DEF Cycle, Steps, Checkpoints
  <2>2. WorkIsSound(Mine, Here, cyc')
    BY <1>2, <1>3, <2>1 DEF WorkIsSound, Is, Delivering, Unmerged, Doing
  <2> QED
    BY <1>1, <1>2, <1>3, <2>1, <2>2, MoveOnSound DEF Doing
<1>4. ASSUME NEW r \in 0..MaxRounds + 1, cyc' = Turning(r)
      PROVE  CycleInv'
  <2>1. cyc' \in Cycle /\ cyc'.at = "turn" /\ cyc'.o = cyc.o
    BY <1>2, <1>4, BoundsAssumption DEF Turning, Ending, Cycle, Steps, Checkpoints
  <2>2. WorkIsSound(Mine, Here, cyc')
    BY <1>2, <2>1 DEF WorkIsSound, Is, Delivering, Unmerged, Doing
  <2> QED
    BY <1>1, <1>2, <2>1, <2>2, MoveOnSound DEF Doing
<1>5. /\ cyc.round \in 0..MaxRounds + 1
      /\ Max2(cyc.round, cyc.recorded + 1) \in 0..MaxRounds + 1
  BY <1>2, BoundsAssumption DEF Cycle, Max2
<1> QED
  BY <1>3, <1>4, <1>5 DEF Prepare

\* A step that changes the repository or the pull request, and moves on.
LEMMA WorkMoves ==
  ASSUME CycleInv, Is(cyc, Doing), UNCHANGED <<exec, queue, approved, faults>>,
         NEW v \in Work, work' = [work EXCEPT ![cyc.o] = v],
         cyc' \in Cycle, cyc'.o = cyc.o, cyc'.at \in Doing,
         cyc'.at = "codex" => Mine.cp = "WORKING",
         cyc'.at # "turn" => cyc'.round <= MaxRounds,
         WorkIsSound(Mine, v, cyc')
  PROVE  CycleInv'
<1> DEFINE e == Mine  q == queue[cyc.o]  w == Here  a == cyc.o \in approved  n == cyc'
<1>1. /\ cyc # Idle /\ Sound(e, q, w, a, cyc) /\ cyc.o \in Outcomes
      /\ e \in Execution /\ e.cp \notin Terminal \cup {"PROVIDER_UNAVAILABLE"}
  BY MineSound, WhileDoing DEF Is
<1>2. e.lease \in {"HELD", "LAPSED"}
  BY <1>1 DEF Sound, StoreIsSound, Is
<1>3. Sound(e, q, v, a, n)
  <2> HIDE DEF e, q, w, a
  <2> QED
    BY <1>1, <1>2, DoingSound DEF e
<1>4. Local(cyc.o)
  BY <1>1 DEF Local, CycleInv, TypeOK, On
<1>5. work'[cyc.o] = v
  BY <1>1 DEF CycleInv, TypeOK
<1> QED
  BY <1>1, <1>3, <1>4, <1>5, StepKeeps DEF Mine

\* What is committed after a validation is what was validated.
LEMMA CommitSound ==
  ASSUME CycleInv, Is(cyc, Doing), Here \in Work, Here.tree # "clean", CommitChanges
  PROVE  \E v \in Work : /\ work' = [work EXCEPT ![cyc.o] = v]
                         /\ v.tree = "clean" /\ v.commit = Here.tree
                         /\ v.review = "none" /\ v.pr = Here.pr
<1> DEFINE v == [Here EXCEPT !.commit = Here.tree, !.tree = "clean", !.review = "none"]
<1>1. work' = [work EXCEPT ![cyc.o] = v]
  BY MineSound DEF CommitChanges, Here, Is, CycleInv, TypeOK
<1>2. v \in Work /\ v.tree = "clean" /\ v.commit = Here.tree /\ v.review = "none" /\ v.pr = Here.pr
  BY DEF Work
<1> QED
  BY <1>1, <1>2

LEMMA RecommitKeeps == CycleInv /\ Recommit => CycleInv'
<1> SUFFICES ASSUME CycleInv, Recommit PROVE CycleInv'
  OBVIOUS
<1>1. At("recommit") /\ UNCHANGED <<queue, approved>>
  BY DEF Recommit
<1>2. /\ Is(cyc, Doing) /\ cyc.at = "recommit" /\ cyc \in Cycle /\ Mine \in Execution
      /\ Exists(Mine) /\ Here \in Work /\ WorkIsSound(Mine, Here, cyc) /\ cyc.round <= MaxRounds
  BY <1>1, Position DEF Doing
<1>3. CASE Here.tree # "clean" /\ CommitChanges /\ UNCHANGED <<exec, cyc, faults>>
  <2>1. PICK v \in Work : /\ work' = [work EXCEPT ![cyc.o] = v]
                          /\ v.tree = "clean" /\ v.commit = Here.tree
                          /\ v.review = "none" /\ v.pr = Here.pr
    BY <1>2, <1>3, CommitSound
  <2>2. v.commit = "checked"
    BY <1>2, <1>3, <2>1 DEF WorkIsSound, Is, Work
  <2>3. WorkIsSound(Mine, v, cyc')
    BY <1>2, <1>3, <2>1, <2>2 DEF WorkIsSound, Is, Unmerged, Doing, Delivering
  <2> QED
    BY <1>1, <1>2, <1>3, <2>1, <2>3, WorkMoves DEF Doing
<1>4. ASSUME Here.tree = "clean", Here.commit # "none", UNCHANGED work,
             Checkpoint([Mine EXCEPT !.head = TRUE], [cyc EXCEPT !.at = "push"])
      PROVE  CycleInv'
  <2> DEFINE f == [Mine EXCEPT !.head = TRUE]
             n == [cyc EXCEPT !.at = "push"]
  <2>1. Checkpoint(f, n)
    BY <1>4
  <2>2. /\ f \in Execution /\ f.cp = Mine.cp /\ f.lease = Mine.lease
        /\ f.walls = Mine.walls /\ f.cleanups = Mine.cleanups
        /\ f.merged = Mine.merged
    BY <1>2 DEF Execution
  <2>3. n \in Cycle /\ n.at = "push" /\ n.o = cyc.o /\ n.round = cyc.round
    BY <1>2 DEF Cycle, Steps
  <2> HIDE DEF f, n
  <2>4. Here.commit = "checked"
    BY <1>2, <1>4 DEF WorkIsSound, Work
  <2>5. WorkIsSound(f, Here, n)
    BY <1>2, <2>2, <2>3, <2>4 DEF WorkIsSound, Is, Delivering, Unmerged, Doing
  <2>6. Mine.cp \notin Terminal \cup {"PROVIDER_UNAVAILABLE"}
    BY <1>1, Position DEF Doing
  <2> QED
    BY <1>1, <1>2, <1>4, <2>1, <2>2, <2>3, <2>5, <2>6, AdvanceKeeps DEF Doing, Here
<1> QED
  BY <1>3, <1>4 DEF Recommit

-----------------------------------------------------------------------------
(* The turns.                                                              *)

LEMMA TurnKeeps == CycleInv /\ Turn => CycleInv'
<1> SUFFICES ASSUME CycleInv, Turn PROVE CycleInv'
  OBVIOUS
<1>1. At("turn") /\ UNCHANGED <<queue, work, approved>>
  BY DEF Turn
<1>2. /\ Is(cyc, Doing) /\ cyc.at = "turn" /\ cyc \in Cycle /\ Mine \in Execution /\ cyc # Idle
      /\ Exists(Mine) /\ Here \in Work /\ WorkIsSound(Mine, Here, cyc)
      /\ Sound(Mine, queue[cyc.o], Here, cyc.o \in approved, cyc)
  BY <1>1, Position DEF Doing
<1>3. CASE Wall(Mine) /\ UNCHANGED faults
  BY <1>1, <1>2, <1>3, WallKeeps DEF CycleInv, TypeOK, Here
<1>4. cyc.round \in 0..MaxRounds + 1
  BY <1>2 DEF Cycle
<1>5. ASSUME ~(cyc.round > MaxRounds),
             Checkpoint([Mine EXCEPT !.cp = "WORKING"], [cyc EXCEPT !.at = "codex"])
      PROVE  CycleInv'
  <2> DEFINE f == [Mine EXCEPT !.cp = "WORKING"]
             n == [cyc EXCEPT !.at = "codex"]
  <2>1. Checkpoint(f, n)
    BY <1>5
  <2>2. /\ f \in Execution /\ f.cp = "WORKING" /\ f.lease = Mine.lease
        /\ f.walls = Mine.walls /\ f.cleanups = Mine.cleanups
        /\ f.head = Mine.head /\ f.merged = Mine.merged
    BY <1>2 DEF Execution, Checkpoints
  <2>3. n \in Cycle /\ n.at = "codex" /\ n.o = cyc.o /\ n.round = cyc.round
    BY <1>2 DEF Cycle, Steps
  <2> HIDE DEF f, n
  <2>4. WorkIsSound(f, Here, n)
    BY <1>2, <2>2, <2>3 DEF WorkIsSound, Is, Delivering, Unmerged, Doing
  <2>5. n.round <= MaxRounds
    BY <1>4, <1>5, <2>3, BoundsAssumption
  <2> QED
    BY <1>1, <1>2, <2>1, <2>2, <2>3, <2>4, <2>5, AdvanceKeeps DEF Doing, Terminal, Here
<1>6. ASSUME ~(cyc.round > MaxRounds), Go("result"), UNCHANGED <<exec, faults>>
      PROVE  CycleInv'
  <2>1. cyc' \in Cycle /\ cyc'.at = "result" /\ cyc'.o = cyc.o /\ cyc'.round = cyc.round
    BY <1>2, <1>6 DEF Cycle, Steps, Go
  <2>2. WorkIsSound(Mine, Here, cyc')
    BY <1>2, <2>1 DEF WorkIsSound, Is, Delivering, Unmerged, Doing
  <2>3. cyc'.round <= MaxRounds
    BY <1>4, <1>6, <2>1, BoundsAssumption
  <2> QED
    BY <1>1, <1>2, <1>6, <2>1, <2>2, <2>3, MoveOnSound DEF Doing
<1> QED
  BY <1>3, <1>5, <1>6 DEF Turn

LEMMA CodexEditsKeeps == CycleInv /\ CodexEdits => CycleInv'
<1> SUFFICES ASSUME CycleInv, CodexEdits PROVE CycleInv'
  OBVIOUS
<1> DEFINE v == [Here EXCEPT !.tree = "edited"]
<1>1. At("codex") /\ UNCHANGED <<exec, queue, approved, cyc, faults>>
  BY DEF CodexEdits
<1>2. /\ Is(cyc, Doing) /\ cyc.at = "codex" /\ cyc \in Cycle /\ Mine \in Execution
      /\ Exists(Mine) /\ Here \in Work /\ WorkIsSound(Mine, Here, cyc)
      /\ cyc.round <= MaxRounds /\ Mine.cp = "WORKING"
  BY <1>1, Position DEF Doing
<1>3. work' = [work EXCEPT ![cyc.o] = v]
  BY <1>2, MineSound DEF CodexEdits, Here, CycleInv, TypeOK, Is
<1>4. /\ v \in Work /\ v.tree = "edited" /\ v.commit = Here.commit /\ v.pr = Here.pr
      /\ v.review = Here.review
  BY <1>2 DEF Work
<1> HIDE DEF v
<1>5. WorkIsSound(Mine, v, cyc')
  BY <1>1, <1>2, <1>4 DEF WorkIsSound, Is, Unmerged, Doing, Delivering
<1> QED
  BY <1>1, <1>2, <1>3, <1>4, <1>5, WorkMoves DEF Doing

LEMMA CodexReportsKeeps ==
  ASSUME CycleInv, NEW r \in Results, CodexReports(r)
  PROVE  CycleInv'
<1> DEFINE f == Consumed([Mine EXCEPT !.turn = r])
           n == [cyc EXCEPT !.at = "result"]
<1>1. At("codex") /\ Checkpoint(f, n) /\ UNCHANGED <<queue, work, approved>>
  BY DEF CodexReports
<1>2. /\ Is(cyc, Doing) /\ cyc.at = "codex" /\ cyc \in Cycle /\ Mine \in Execution
      /\ Exists(Mine) /\ WorkIsSound(Mine, Here, cyc)
      /\ cyc.round <= MaxRounds /\ Mine.cp = "WORKING"
  BY <1>1, Position DEF Doing
<1>3. /\ f \in Execution /\ f.cp = Mine.cp /\ f.lease = Mine.lease
      /\ f.walls = Mine.walls /\ f.cleanups = Mine.cleanups
      /\ f.head = Mine.head /\ f.merged = Mine.merged
  BY <1>2 DEF Execution, Consumed
<1>4. n \in Cycle /\ n.at = "result" /\ n.o = cyc.o /\ n.round = cyc.round
  BY <1>2 DEF Cycle, Steps
<1> HIDE DEF f, n
<1>5. WorkIsSound(f, Here, n)
  BY <1>2, <1>3, <1>4 DEF WorkIsSound, Is, Delivering, Unmerged, Doing
<1> QED
  BY <1>1, <1>2, <1>3, <1>4, <1>5, AdvanceKeeps DEF Doing, Terminal, Here

LEMMA CodexIsRejectedKeeps == CycleInv /\ CodexIsRejected => CycleInv'
<1> SUFFICES ASSUME CycleInv, CodexIsRejected PROVE CycleInv'
  OBVIOUS
<1> DEFINE f == Consumed(Mine)
<1>1. At("codex") /\ Wall(f) /\ Fault /\ UNCHANGED <<queue, work, approved>>
  BY DEF CodexIsRejected
<1>2. /\ Is(cyc, Doing) /\ cyc.at = "codex" /\ cyc \in Cycle /\ Mine \in Execution
      /\ Exists(Mine) /\ WorkIsSound(Mine, Here, cyc)
      /\ cyc.round <= MaxRounds /\ Mine.cp = "WORKING" /\ Here \in Work
      /\ Sound(Mine, queue[cyc.o], Here, cyc.o \in approved, cyc)
  BY <1>1, Position DEF Doing
<1>3. /\ f \in Execution /\ f.cp = Mine.cp /\ f.lease = Mine.lease
      /\ f.walls = Mine.walls /\ f.cleanups = Mine.cleanups
      /\ f.head = Mine.head /\ f.merged = Mine.merged
  BY <1>2 DEF Execution, Consumed
<1> HIDE DEF f
<1>4. Mine.lease \in {"HELD", "LAPSED"}
  BY <1>2 DEF Sound, StoreIsSound, Is
<1>5. WorkIsSound(f, Here, cyc)
  BY <1>2, <1>3 DEF WorkIsSound, Is, Delivering, Unmerged, Doing
<1>6. Sound(f, queue[cyc.o], Here, cyc.o \in approved, cyc)
  BY <1>2, <1>3, <1>4, <1>5, DoingSound DEF Doing, Terminal
<1>7. faults' \in 0..MaxFaults /\ cyc # Idle
  BY <1>1, BoundsAssumption DEF Fault, CycleInv, TypeOK, At
<1> QED
  BY <1>1, <1>6, <1>7, WallKeeps DEF Here

LEMMA UsageLimitKeeps == CycleInv /\ UsageLimit => CycleInv'
<1> SUFFICES ASSUME CycleInv, UsageLimit PROVE CycleInv'
  OBVIOUS
<1>1. At("codex") /\ Unavailable(Mine) /\ UNCHANGED <<queue, work, approved>>
  BY DEF UsageLimit
<1>2. Is(cyc, Doing) /\ Mine \in Execution
  BY <1>1, Position DEF Doing
<1> QED
  BY <1>1, <1>2, UnavailableKeeps

LEMMA DeliveryWallKeeps == CycleInv /\ DeliveryWall => CycleInv'
<1> SUFFICES ASSUME CycleInv, DeliveryWall PROVE CycleInv'
  OBVIOUS
<1>1. /\ \E step \in {"await", "commit", "push", "request", "merge", "merging", "merged"} : At(step)
      /\ Unavailable(Mine) /\ UNCHANGED <<queue, work, approved>>
  BY DEF DeliveryWall, At
<1>2. Is(cyc, Doing) /\ Mine \in Execution
  BY <1>1, Position DEF Doing
<1> QED
  BY <1>1, <1>2, UnavailableKeeps

LEMMA StaleDeliveryWallKeeps == CycleInv /\ StaleDeliveryWall => CycleInv'
<1> SUFFICES ASSUME CycleInv, StaleDeliveryWall PROVE CycleInv'
  OBVIOUS
<1>1. At("await") /\ Wall(Mine) /\ UNCHANGED <<queue, work, approved, faults>>
  BY DEF StaleDeliveryWall
<1>2. cyc # Idle /\ Sound(Mine, queue[cyc.o], Here, cyc.o \in approved, cyc)
  BY <1>1, Position DEF Doing
<1> QED
  BY <1>1, <1>2, WallKeeps DEF CycleInv, TypeOK, Here

LEMMA ProviderWallKeeps == CycleInv /\ ProviderWall => CycleInv'
<1> SUFFICES ASSUME CycleInv, ProviderWall PROVE CycleInv'
  OBVIOUS
<1> DEFINE e == [Mine EXCEPT !.walls = @ + 1]
           f == [e EXCEPT !.cp = "WORKING", !.turn = "none", !.lease = "FREE"]
<1>1. /\ At("result") /\ UNCHANGED <<queue, work, approved>>
      /\ \/ Unavailable(e)
         \/ e.walls # MaxRedispatches /\ Checkpoint(f, Idle)
  BY DEF ProviderWall
<1>2. /\ Is(cyc, Doing) /\ Mine \in Execution /\ Mine.walls \in 0..MaxRedispatches - 1
      /\ Mine.cleanups \in 0..MaxRedispatches - 1
  BY <1>1, Position DEF Doing
<1>3. /\ e \in Execution /\ e.lease = Mine.lease /\ e.cleanups = Mine.cleanups
      /\ e.head = Mine.head /\ e.merged = Mine.merged
  BY <1>2, BoundsAssumption DEF Execution
<1>4. /\ f \in Execution /\ f.lease = "FREE" /\ f.cp = "WORKING" /\ f.walls = e.walls
      /\ f.cleanups = e.cleanups /\ f.head = e.head /\ f.merged = e.merged
  BY <1>3 DEF Execution, Checkpoints, Leases
<1> HIDE DEF e, f
<1>5. CASE Unavailable(e)
  BY <1>1, <1>2, <1>3, <1>5, UnavailableKeeps
<1>6. CASE e.walls # MaxRedispatches /\ Checkpoint(f, Idle)
  BY <1>1, <1>2, <1>3, <1>4, <1>6, LaterKeeps, BoundsAssumption
<1> QED
  BY <1>1, <1>5, <1>6

LEMMA TerminalResultKeeps == CycleInv /\ TerminalResult => CycleInv'
<1> SUFFICES ASSUME CycleInv, TerminalResult PROVE CycleInv'
  OBVIOUS
<1> DEFINE f == [Mine EXCEPT !.cp = Mine.turn, !.turn = "none", !.resume = "none"]
           n == Ending("settle", "fresh")
<1>1. /\ At("result") /\ Mine.turn \in {"OWNER_DECISION_REQUIRED", "FAILED_TERMINAL"}
      /\ Checkpoint(f, n) /\ UNCHANGED <<queue, work, approved>>
  BY DEF TerminalResult
<1>2. /\ Is(cyc, Doing) /\ cyc # Idle /\ cyc \in Cycle /\ Mine \in Execution
      /\ Mine.cleanups \in 0..MaxRedispatches - 1
      /\ Sound(Mine, queue[cyc.o], Here, cyc.o \in approved, cyc)
  BY <1>1, Position DEF Doing
<1>3. /\ f \in Execution /\ f.cp \in Terminal \ {"COMPLETE"} /\ f.lease = Mine.lease
      /\ f.walls = Mine.walls /\ f.cleanups = Mine.cleanups
      /\ f.head = Mine.head /\ f.merged = Mine.merged
  BY <1>1, <1>2 DEF Execution, Checkpoints, Terminal
<1>4. n \in Cycle /\ n.at = "settle" /\ n.o = cyc.o
  BY <1>2, BoundsAssumption DEF Ending, Cycle, Steps, Checkpoints
<1> HIDE DEF f, n
<1>5. f.lease = "HELD"
  BY <1>1, <1>3 DEF Checkpoint
<1>6. Sound(f, queue[cyc.o], Here, cyc.o \in approved, n)
  BY <1>2, <1>3, <1>4, <1>5, ToSettle, BoundsAssumption
<1> QED
  BY <1>1, <1>2, <1>4, <1>6, CheckpointKeeps DEF Here

LEMMA HandOverKeeps == CycleInv /\ HandOver => CycleInv'
<1> SUFFICES ASSUME CycleInv, HandOver PROVE CycleInv'
  OBVIOUS
<1>1. At("result") /\ UNCHANGED <<queue, work, approved>>
  BY DEF HandOver
<1>2. /\ Is(cyc, Doing) /\ cyc # Idle /\ cyc.at = "result" /\ cyc \in Cycle
      /\ Mine \in Execution /\ Exists(Mine) /\ Here \in Work /\ WorkIsSound(Mine, Here, cyc)
      /\ cyc.round <= MaxRounds
      /\ Sound(Mine, queue[cyc.o], Here, cyc.o \in approved, cyc)
  BY <1>1, Position DEF Doing
<1>3. CASE Here.tree = "clean"
  <2>1. Wall(Mine) /\ UNCHANGED faults
    BY <1>3 DEF HandOver
  <2> QED
    BY <1>1, <1>2, <2>1, WallKeeps DEF CycleInv, TypeOK, Here
<1>4. CASE Here.tree # "clean"
  <2> DEFINE f == [Mine EXCEPT !.cp = "HOST_VALIDATION_STARTED", !.turn = "none",
                               !.head = FALSE]
             n == [cyc EXCEPT !.at = "validate"]
  <2>1. Checkpoint(f, n)
    BY <1>4 DEF HandOver
  <2>2. /\ f \in Execution /\ f.cp = "HOST_VALIDATION_STARTED" /\ f.lease = Mine.lease
        /\ f.walls = Mine.walls /\ f.cleanups = Mine.cleanups
        /\ f.head = FALSE /\ f.merged = Mine.merged
    BY <1>2 DEF Execution, Checkpoints
  <2>3. n \in Cycle /\ n.at = "validate" /\ n.o = cyc.o /\ n.round = cyc.round
    BY <1>2 DEF Cycle, Steps
  <2> HIDE DEF f, n
  <2>4. WorkIsSound(f, Here, n)
    BY <1>2, <2>2, <2>3 DEF WorkIsSound, Is, Delivering, Unmerged, Doing
  <2> QED
    BY <1>1, <1>2, <2>1, <2>2, <2>3, <2>4, AdvanceKeeps DEF Doing, Terminal, Here
<1> QED
  BY <1>3, <1>4

LEMMA ValidationPassesKeeps == CycleInv /\ ValidationPasses => CycleInv'
<1> SUFFICES ASSUME CycleInv, ValidationPasses PROVE CycleInv'
  OBVIOUS
<1> DEFINE f == [Mine EXCEPT !.cp = "HOST_VALIDATION_PASSED", !.turn = "none",
                             !.head = FALSE, !.validationRound = 0]
           n == [cyc EXCEPT !.at = "commit"]
           v == [Here EXCEPT !.tree = "checked"]
<1>1. At("validate") /\ Checkpoint(f, n) /\ UNCHANGED <<queue, approved>>
  BY DEF ValidationPasses
<1>2. /\ Is(cyc, Doing) /\ cyc.at = "validate" /\ cyc \in Cycle /\ Mine \in Execution
      /\ Exists(Mine) /\ Here \in Work /\ WorkIsSound(Mine, Here, cyc)
      /\ cyc.round <= MaxRounds
  BY <1>1, Position DEF Doing
<1>3. work' = [work EXCEPT ![cyc.o] = v] /\ work'[cyc.o] = v
  BY <1>2, MineSound DEF ValidationPasses, Here, CycleInv, TypeOK, Is
<1>4. /\ v \in Work /\ v.tree = "checked" /\ v.commit = Here.commit /\ v.pr = Here.pr
      /\ v.review = Here.review
  BY <1>2 DEF Work
<1>5. /\ f \in Execution /\ f.cp = "HOST_VALIDATION_PASSED" /\ f.lease = Mine.lease
      /\ f.walls = Mine.walls /\ f.cleanups = Mine.cleanups
      /\ f.head = FALSE /\ f.merged = Mine.merged
  <2>1. 0 \in 0..MaxRounds
    BY BoundsAssumption
  <2> QED
    BY <1>2, <2>1 DEF Execution, Checkpoints
<1>6. n \in Cycle /\ n.at = "commit" /\ n.o = cyc.o /\ n.round = cyc.round
  BY <1>2 DEF Cycle, Steps
<1> HIDE DEF f, n, v
<1>7. WorkIsSound(f, v, n)
  BY <1>2, <1>4, <1>5, <1>6 DEF WorkIsSound, Is, Delivering, Unmerged, Doing
<1> QED
  BY <1>1, <1>2, <1>3, <1>4, <1>5, <1>6, <1>7, AdvanceKeeps DEF Doing, Terminal

LEMMA ValidationFailsKeeps == CycleInv /\ ValidationFails => CycleInv'
<1> SUFFICES ASSUME CycleInv, ValidationFails PROVE CycleInv'
  OBVIOUS
<1>1. At("validate") /\ UNCHANGED <<queue, work, approved>>
  BY DEF ValidationFails
<1>2. /\ Is(cyc, Doing) /\ cyc.at = "validate" /\ cyc \in Cycle /\ Mine \in Execution
      /\ Exists(Mine) /\ Here \in Work /\ WorkIsSound(Mine, Here, cyc)
  BY <1>1, Position DEF Doing
<1>3. CASE cyc.round >= MaxRounds
  BY <1>1, <1>2, <1>3, FinalizeKeeps DEF ValidationFails
<1>4. CASE ~(cyc.round >= MaxRounds)
  <2> DEFINE f == [Mine EXCEPT !.cp = "WORKING", !.turn = "none",
                               !.validationRound = cyc.round + 1]
             n == Turning(cyc.round + 1)
  <2>1. Checkpoint(f, n)
    BY <1>4 DEF ValidationFails
  <2>2. cyc.round + 1 \in 0..MaxRounds
    BY <1>2, <1>4, BoundsAssumption DEF Cycle
  <2>3. /\ f \in Execution /\ f.cp = "WORKING" /\ f.lease = Mine.lease
        /\ f.walls = Mine.walls /\ f.cleanups = Mine.cleanups
        /\ f.head = Mine.head /\ f.merged = Mine.merged
    BY <1>2, <2>2 DEF Execution, Checkpoints
  <2>4. n \in Cycle /\ n.at = "turn" /\ n.o = cyc.o
    BY <1>2, <2>2, BoundsAssumption DEF Turning, Ending, Cycle, Steps, Checkpoints
  <2> HIDE DEF f, n
  <2>5. WorkIsSound(f, Here, n)
    BY <1>2, <2>3, <2>4 DEF WorkIsSound, Is, Delivering, Unmerged, Doing
  <2> QED
    BY <1>1, <1>2, <2>1, <2>3, <2>4, <2>5, AdvanceKeeps DEF Doing, Terminal, Here
<1> QED
  BY <1>3, <1>4

LEMMA CommitKeeps == CycleInv /\ Commit => CycleInv'
<1> SUFFICES ASSUME CycleInv, Commit PROVE CycleInv'
  OBVIOUS
<1>1. At("commit") /\ CommitChanges /\ Go("created") /\ UNCHANGED <<exec, queue, approved, faults>>
  BY DEF Commit
<1>2. /\ Is(cyc, Doing) /\ cyc.at = "commit" /\ cyc \in Cycle /\ Mine \in Execution
      /\ Exists(Mine) /\ Here \in Work /\ WorkIsSound(Mine, Here, cyc)
      /\ cyc.round <= MaxRounds
  BY <1>1, Position DEF Doing
<1>3. Here.tree = "checked"
  BY <1>2 DEF WorkIsSound, Is
<1>4. PICK v \in Work : /\ work' = [work EXCEPT ![cyc.o] = v]
                        /\ v.tree = "clean" /\ v.commit = Here.tree
                        /\ v.review = "none" /\ v.pr = Here.pr
  BY <1>1, <1>2, <1>3, CommitSound
<1>5. cyc' \in Cycle /\ cyc'.at = "created" /\ cyc'.o = cyc.o /\ cyc'.round = cyc.round
  BY <1>1, <1>2 DEF Cycle, Steps, Go
<1>6. WorkIsSound(Mine, v, cyc')
  BY <1>2, <1>3, <1>4, <1>5 DEF WorkIsSound, Is, Unmerged, Doing, Delivering
<1> QED
  BY <1>1, <1>2, <1>4, <1>5, <1>6, WorkMoves DEF Doing

LEMMA CreatedKeeps == CycleInv /\ Created => CycleInv'
<1> SUFFICES ASSUME CycleInv, Created PROVE CycleInv'
  OBVIOUS
<1> DEFINE f == [Mine EXCEPT !.cp = "WORKING", !.head = TRUE,
                             !.round = Min2(cyc.round, MaxRounds)]
           n == [cyc EXCEPT !.at = "push"]
<1>1. At("created") /\ Checkpoint(f, n) /\ UNCHANGED <<queue, work, approved>>
  BY DEF Created
<1>2. /\ Is(cyc, Doing) /\ cyc.at = "created" /\ cyc \in Cycle /\ Mine \in Execution
      /\ Exists(Mine) /\ WorkIsSound(Mine, Here, cyc)
      /\ cyc.round <= MaxRounds
  BY <1>1, Position DEF Doing
<1>3. Min2(cyc.round, MaxRounds) \in 0..MaxRounds
  BY <1>2, BoundsAssumption DEF Min2, Cycle
<1>4. /\ f \in Execution /\ f.cp = "WORKING" /\ f.lease = Mine.lease
      /\ f.walls = Mine.walls /\ f.cleanups = Mine.cleanups
      /\ f.merged = Mine.merged
  BY <1>2, <1>3 DEF Execution, Checkpoints
<1>5. n \in Cycle /\ n.at = "push" /\ n.o = cyc.o /\ n.round = cyc.round
  BY <1>2 DEF Cycle, Steps
<1> HIDE DEF f, n
<1>6. WorkIsSound(f, Here, n)
  BY <1>2, <1>4, <1>5 DEF WorkIsSound, Is, Delivering, Unmerged, Doing
<1> QED
  BY <1>1, <1>2, <1>4, <1>5, <1>6, AdvanceKeeps DEF Doing, Terminal, Here

-----------------------------------------------------------------------------
(* The delivery.                                                           *)

\* The round a delivery is for is within its bound wherever one is delivered.
LEMMA RoundTyped == CycleInv /\ Is(cyc, Doing \ {"turn"}) => Round \in 0..MaxRounds
<1> SUFFICES ASSUME CycleInv, Is(cyc, Doing \ {"turn"}) PROVE Round \in 0..MaxRounds
  OBVIOUS
<1>1. cyc \in Cycle /\ cyc.round <= MaxRounds
  BY MineSound DEF Sound, StoreIsSound, Is
<1> QED
  BY <1>1, BoundsAssumption DEF Round, Cycle

LEMMA PushKeeps == CycleInv /\ Push => CycleInv'
<1> SUFFICES ASSUME CycleInv, Push PROVE CycleInv'
  OBVIOUS
<1> DEFINE v == [Here EXCEPT !.pr = "open"]
<1>1. /\ At("push") /\ UNCHANGED <<exec, queue, approved, faults>>
      /\ \E step \in {"request", "await"} : Go(step)
  BY DEF Push
<1>2. /\ Is(cyc, Doing) /\ cyc.at = "push" /\ cyc \in Cycle /\ Mine \in Execution
      /\ Exists(Mine) /\ Here \in Work /\ WorkIsSound(Mine, Here, cyc)
      /\ cyc.round <= MaxRounds
      /\ Mine.cp \notin Terminal \cup {"PROVIDER_UNAVAILABLE"}
  BY <1>1, Position DEF Doing
<1>3. work' = [work EXCEPT ![cyc.o] = v]
  BY <1>2, MineSound DEF Push, Here, CycleInv, TypeOK, Is
<1>4. /\ v \in Work /\ v.tree = Here.tree /\ v.commit = Here.commit /\ v.pr = "open"
      /\ v.review = Here.review
  BY <1>2 DEF Work
<1>5. cyc' \in Cycle /\ cyc'.at \in {"request", "await"} /\ cyc'.o = cyc.o /\ cyc'.round = cyc.round
  BY <1>1, <1>2 DEF Cycle, Steps, Go
<1> HIDE DEF v
<1>6. WorkIsSound(Mine, v, cyc')
  BY <1>2, <1>4, <1>5 DEF WorkIsSound, Is, Unmerged, Doing, Delivering, Terminal
<1> QED
  BY <1>1, <1>2, <1>3, <1>4, <1>5, <1>6, WorkMoves DEF Doing

LEMMA RequestKeeps == CycleInv /\ Request => CycleInv'
<1> SUFFICES ASSUME CycleInv, Request PROVE CycleInv'
  OBVIOUS
<1>1. At("request") /\ UNCHANGED <<queue, approved>>
  BY DEF Request
<1>2. /\ Is(cyc, Doing) /\ cyc.at = "request" /\ cyc \in Cycle /\ Mine \in Execution
      /\ Exists(Mine) /\ Here \in Work /\ WorkIsSound(Mine, Here, cyc)
      /\ cyc.round <= MaxRounds
  BY <1>1, Position DEF Doing
<1>3. CASE work' = [work EXCEPT ![cyc.o].review = "asked"] /\ UNCHANGED <<exec, cyc, faults>>
  <2> DEFINE v == [Here EXCEPT !.review = "asked"]
  <2>1. work' = [work EXCEPT ![cyc.o] = v]
    BY <1>2, <1>3, MineSound DEF Here, CycleInv, TypeOK, Is
  <2>2. /\ v \in Work /\ v.tree = Here.tree /\ v.commit = Here.commit /\ v.pr = Here.pr
    BY <1>2 DEF Work
  <2> HIDE DEF v
  <2>3. WorkIsSound(Mine, v, cyc')
    BY <1>2, <1>3, <2>2 DEF WorkIsSound, Is, Unmerged, Doing, Delivering
  <2> QED
    BY <1>1, <1>2, <1>3, <2>1, <2>2, <2>3, WorkMoves DEF Doing
<1>4. ASSUME UNCHANGED work,
             Checkpoint([Mine EXCEPT !.cp = "WORKING", !.round = Round],
                        [cyc EXCEPT !.at = "await", !.catch = Behind])
      PROVE  CycleInv'
  <2> DEFINE f == [Mine EXCEPT !.cp = "WORKING", !.round = Round]
             n == [cyc EXCEPT !.at = "await", !.catch = Behind]
  <2>1. Checkpoint(f, n)
    BY <1>4
  <2>2. Round \in 0..MaxRounds
    BY <1>2, RoundTyped DEF Is
  <2>3. /\ f \in Execution /\ f.cp = "WORKING" /\ f.lease = Mine.lease
        /\ f.walls = Mine.walls /\ f.cleanups = Mine.cleanups
        /\ f.head = Mine.head /\ f.merged = Mine.merged
    BY <1>2, <2>2 DEF Execution, Checkpoints
  <2>4. n \in Cycle /\ n.at = "await" /\ n.o = cyc.o /\ n.round = cyc.round
    BY <1>2 DEF Cycle, Steps, Behind
  <2> HIDE DEF f, n
  <2>5. WorkIsSound(f, Here, n)
    BY <1>2, <2>3, <2>4 DEF WorkIsSound, Is, Delivering, Unmerged, Doing
  <2> QED
    BY <1>1, <1>2, <1>4, <2>1, <2>3, <2>4, <2>5, AdvanceKeeps DEF Doing, Terminal, Here
<1> QED
  BY <1>3, <1>4 DEF Request

LEMMA FindingsKeeps == CycleInv /\ Findings => CycleInv'
<1> SUFFICES ASSUME CycleInv, Findings PROVE CycleInv'
  OBVIOUS
<1>1. At("await") /\ UNCHANGED <<queue, work, approved>>
  BY DEF Findings
<1>2. /\ Is(cyc, Doing) /\ cyc.at = "await" /\ cyc \in Cycle /\ Mine \in Execution
      /\ Exists(Mine) /\ Here \in Work /\ WorkIsSound(Mine, Here, cyc)
      /\ cyc.round <= MaxRounds
  BY <1>1, Position DEF Doing
<1>3. Round \in 0..MaxRounds
  BY <1>2, RoundTyped DEF Is
<1>4. CASE Round >= MaxRounds
  BY <1>1, <1>2, <1>4, FinalizeKeeps DEF Findings
<1>5. CASE ~(Round >= MaxRounds)
  <2> DEFINE f == [Mine EXCEPT !.cp = "WORKING", !.round = Round]
             r == Max2(cyc.round, Round + 1)
             n == Turning(r)
  <2>1. Checkpoint(f, n)
    BY <1>5 DEF Findings
  <2>2. r \in 0..MaxRounds + 1
    BY <1>2, <1>3, <1>5, BoundsAssumption DEF Cycle, Max2
  <2>3. /\ f \in Execution /\ f.cp = "WORKING" /\ f.lease = Mine.lease
        /\ f.walls = Mine.walls /\ f.cleanups = Mine.cleanups
        /\ f.head = Mine.head /\ f.merged = Mine.merged
    BY <1>2, <1>3 DEF Execution, Checkpoints
  <2> HIDE DEF f, r
  <2>4. n \in Cycle /\ n.at = "turn" /\ n.o = cyc.o
    BY <1>2, <2>2, BoundsAssumption DEF Turning, Ending, Cycle, Steps, Checkpoints
  <2> HIDE DEF n
  <2>5. WorkIsSound(f, Here, n)
    BY <1>2, <2>3, <2>4 DEF WorkIsSound, Is, Delivering, Unmerged, Doing
  <2> QED
    BY <1>1, <1>2, <2>1, <2>3, <2>4, <2>5, AdvanceKeeps DEF Doing, Terminal, Here
<1> QED
  BY <1>4, <1>5

LEMMA ReviewedKeeps == CycleInv /\ Reviewed => CycleInv'
<1> SUFFICES ASSUME CycleInv, Reviewed PROVE CycleInv'
  OBVIOUS
<1>1. /\ At("await") /\ Go("merge") /\ Here.review = "clean"
      /\ UNCHANGED <<exec, queue, work, approved, faults>>
  BY DEF Reviewed
<1>2. /\ Is(cyc, Doing) /\ cyc.at = "await" /\ cyc \in Cycle
      /\ WorkIsSound(Mine, Here, cyc) /\ cyc.round <= MaxRounds
  BY <1>1, Position DEF Doing
<1>3. cyc' \in Cycle /\ cyc'.at = "merge" /\ cyc'.o = cyc.o /\ cyc'.round = cyc.round
  BY <1>1, <1>2 DEF Cycle, Steps, Go
<1>4. WorkIsSound(Mine, Here, cyc')
  BY <1>1, <1>2, <1>3 DEF WorkIsSound, Is, Delivering, Unmerged, Doing, Verdicts
<1> QED
  BY <1>1, <1>2, <1>3, <1>4, MoveOnSound DEF Doing

LEMMA InspectKeeps == CycleInv /\ Inspect => CycleInv'
<1> SUFFICES ASSUME CycleInv, Inspect PROVE CycleInv'
  OBVIOUS
<1>1. At("merge") /\ UNCHANGED <<queue, work, approved, faults>>
  BY DEF Inspect
<1>2. /\ Is(cyc, Doing) /\ cyc # Idle /\ cyc.at = "merge" /\ cyc \in Cycle
      /\ WorkIsSound(Mine, Here, cyc) /\ cyc.round <= MaxRounds
      /\ Sound(Mine, queue[cyc.o], Here, cyc.o \in approved, cyc)
  BY <1>1, Position DEF Doing
<1>3. CASE Go("merging") /\ UNCHANGED exec
  <2>1. cyc' \in Cycle /\ cyc'.at = "merging" /\ cyc'.o = cyc.o /\ cyc'.round = cyc.round
    BY <1>2, <1>3 DEF Cycle, Steps, Go
  <2>2. WorkIsSound(Mine, Here, cyc')
    BY <1>2, <2>1 DEF WorkIsSound, Is, Delivering, Unmerged, Doing
  <2> QED
    BY <1>1, <1>2, <1>3, <2>1, <2>2, MoveOnSound DEF Doing
<1>4. CASE Wall(Mine)
  BY <1>1, <1>2, <1>4, WallKeeps DEF CycleInv, TypeOK, Here
<1> QED
  BY <1>3, <1>4 DEF Inspect

\* What is merged is the commit the step found checked and reviewed, although
\* the review may object since the pull request was inspected.
LEMMA MergeKeeps == CycleInv /\ Merge => CycleInv'
<1> SUFFICES ASSUME CycleInv, Merge PROVE CycleInv'
  OBVIOUS
<1>1. At("merging") /\ Go("merged") /\ UNCHANGED <<exec, queue, approved, faults>>
  BY DEF Merge
<1>2. /\ Is(cyc, Doing) /\ cyc # Idle /\ cyc.at = "merging" /\ cyc \in Cycle
      /\ Mine \in Execution /\ Exists(Mine) /\ Here \in Work
      /\ WorkIsSound(Mine, Here, cyc) /\ cyc.round <= MaxRounds
      /\ Mine.cp \notin Terminal \cup {"PROVIDER_UNAVAILABLE"}
      /\ Sound(Mine, queue[cyc.o], Here, cyc.o \in approved, cyc)
  BY <1>1, Position DEF Doing
<1> DEFINE v == [Here EXCEPT !.pr = "merged"]
<1>3. work' = [work EXCEPT ![cyc.o] = v]
  BY <1>2, MineSound DEF Merge, Here, CycleInv, TypeOK
<1>4. /\ v \in Work /\ v.tree = Here.tree /\ v.commit = Here.commit /\ v.pr = "merged"
      /\ v.review = Here.review
  BY <1>2 DEF Work
<1>5. cyc' \in Cycle /\ cyc'.at = "merged" /\ cyc'.o = cyc.o /\ cyc'.round = cyc.round
  BY <1>1, <1>2 DEF Cycle, Steps, Go
<1> HIDE DEF v
<1>6. WorkIsSound(Mine, v, cyc')
  BY <1>2, <1>4, <1>5 DEF WorkIsSound, Is, Unmerged, Doing, Delivering
<1> QED
  BY <1>1, <1>2, <1>3, <1>4, <1>5, <1>6, WorkMoves DEF Doing

LEMMA MergedKeeps == CycleInv /\ Merged => CycleInv'
<1> SUFFICES ASSUME CycleInv, Merged PROVE CycleInv'
  OBVIOUS
<1> DEFINE f == [Mine EXCEPT !.cp = "WORKING", !.merged = TRUE, !.head = TRUE]
           n == Ending("cleanup", Behind)
<1>1. At("merged") /\ UNCHANGED <<queue, work, approved>>
  BY DEF Merged
<1>2. /\ Is(cyc, Doing) /\ cyc.at = "merged" /\ cyc \in Cycle /\ Mine \in Execution
      /\ Exists(Mine) /\ WorkIsSound(Mine, Here, cyc)
      /\ Sound(Mine, queue[cyc.o], Here, cyc.o \in approved, cyc)
  BY <1>1, Position DEF Doing
<1>3. /\ f \in Execution /\ f.cp = "WORKING" /\ f.lease = Mine.lease
      /\ f.walls = Mine.walls /\ f.cleanups = Mine.cleanups
  BY <1>2 DEF Execution, Checkpoints
<1>4. n \in Cycle /\ n.at = "cleanup" /\ n.o = cyc.o /\ n.round = 0
  BY <1>2, BoundsAssumption DEF Ending, Cycle, Steps, Checkpoints, Behind
<1>6. Checkpoint(f, n) \/ (Wall(Mine) /\ UNCHANGED faults)
  BY DEF Merged
<1> HIDE DEF f, n
<1>5. WorkIsSound(f, Here, n)
  BY <1>2, <1>3, <1>4 DEF WorkIsSound, Is, Delivering, Unmerged, Doing
<1>7. CASE Checkpoint(f, n)
  BY <1>1, <1>2, <1>3, <1>4, <1>5, <1>7, AdvanceKeeps, BoundsAssumption
  DEF Doing, Terminal, Here
<1>8. CASE Wall(Mine) /\ UNCHANGED faults
  BY <1>1, <1>2, <1>8, WallKeeps DEF CycleInv, TypeOK, Here, Is
<1> QED
  BY <1>6, <1>7, <1>8

LEMMA CleanupKeeps == CycleInv /\ Cleanup => CycleInv'
<1> SUFFICES ASSUME CycleInv, Cleanup PROVE CycleInv'
  OBVIOUS
<1> DEFINE f == [Mine EXCEPT !.cp = "COMPLETE"]
           n == Ending("settle", Behind)
<1>1. At("cleanup") /\ UNCHANGED <<queue, work, approved>>
  BY DEF Cleanup
<1>2. /\ Is(cyc, Doing) /\ cyc # Idle /\ cyc.at = "cleanup" /\ cyc \in Cycle
      /\ Mine \in Execution /\ Mine.cleanups \in 0..MaxRedispatches - 1
      /\ WorkIsSound(Mine, Here, cyc)
      /\ Sound(Mine, queue[cyc.o], Here, cyc.o \in approved, cyc)
  BY <1>1, Position DEF Doing
<1>3. /\ f \in Execution /\ f.cp = "COMPLETE" /\ f.lease = Mine.lease
      /\ f.walls = Mine.walls /\ f.cleanups = Mine.cleanups
      /\ f.head = Mine.head /\ f.merged = Mine.merged
  BY <1>2 DEF Execution, Checkpoints, Terminal
<1>4. n \in Cycle /\ n.at = "settle" /\ n.catch # "fresh" /\ n.o = cyc.o
  BY <1>2, BoundsAssumption DEF Ending, Behind, Cycle, Steps, Checkpoints
<1>7. Checkpoint(f, n) \/ (Wall(Mine) /\ UNCHANGED faults)
  BY DEF Cleanup
<1>5. Here.pr = "merged" /\ Mine.lease \in {"HELD", "LAPSED"}
  BY <1>2 DEF Sound, StoreIsSound, WorkIsSound, Is
<1> HIDE DEF f, n
<1>6. Sound(f, queue[cyc.o], Here, cyc.o \in approved, n)
  BY <1>2, <1>3, <1>4, <1>5, ToSettle, BoundsAssumption DEF Terminal
<1>8. CASE Checkpoint(f, n)
  BY <1>1, <1>2, <1>4, <1>6, <1>8, CheckpointKeeps DEF Here
<1>9. CASE Wall(Mine) /\ UNCHANGED faults
  BY <1>1, <1>2, <1>9, WallKeeps DEF CycleInv, TypeOK, Here
<1> QED
  BY <1>7, <1>8, <1>9

\* The last retry of the cleanup is the one that fails the outcome.
LEMMA CleanupFailsKeeps == CycleInv /\ CleanupFails => CycleInv'
<1> SUFFICES ASSUME CycleInv, CleanupFails PROVE CycleInv'
  OBVIOUS
<1> DEFINE e == [Mine EXCEPT !.cleanups = @ + 1]
           f == [e EXCEPT !.cp = "WORKING", !.lease = "FREE"]
<1>1. /\ At("cleanup") /\ UNCHANGED <<queue, work, approved>>
      /\ \/ Finalize(e)
         \/ ~(e.cleanups >= MaxRedispatches) /\ Checkpoint(f, Idle)
  BY DEF CleanupFails
<1>2. /\ Is(cyc, Doing) /\ Mine \in Execution /\ Mine.walls \in 0..MaxRedispatches - 1
      /\ Mine.cleanups \in 0..MaxRedispatches - 1
  BY <1>1, Position DEF Doing
<1>3. /\ e \in Execution /\ e.lease = Mine.lease /\ e.walls = Mine.walls
      /\ e.head = Mine.head /\ e.merged = Mine.merged
  BY <1>2, BoundsAssumption DEF Execution
<1>4. /\ f \in Execution /\ f.lease = "FREE" /\ f.cp = "WORKING" /\ f.walls = e.walls
      /\ f.cleanups = e.cleanups /\ f.head = e.head /\ f.merged = e.merged
  BY <1>3 DEF Execution, Checkpoints, Leases
<1> HIDE DEF e, f
<1>5. CASE Finalize(e)
  BY <1>1, <1>2, <1>3, <1>5, FinalizeKeeps
<1>6. CASE ~(e.cleanups >= MaxRedispatches) /\ Checkpoint(f, Idle)
  <2>1. f.cleanups # MaxRedispatches /\ f.walls # MaxRedispatches
    BY <1>2, <1>3, <1>4, <1>6, BoundsAssumption
  <2> QED
    BY <1>1, <1>2, <1>3, <1>4, <1>6, <2>1, LaterKeeps
<1> QED
  BY <1>1, <1>5, <1>6

-----------------------------------------------------------------------------
(* The settlement.                                                         *)

\* What a settlement starts from.
LEMMA WhileSettling ==
  ASSUME NEW e, NEW q, NEW w, NEW a, NEW c, Sound(e, q, w, a, c), Is(c, Settling)
  PROVE  /\ e \in Execution /\ Exists(e) /\ q \in Row /\ w \in Work /\ c \in Cycle
         /\ e.lease \in {"HELD", "LAPSED"} /\ e.cp \in Terminal
         /\ e.walls # MaxRedispatches
         /\ e.cleanups = MaxRedispatches => e.cp = "FAILED_TERMINAL"
BY DEF Sound, Types, StoreIsSound, Is, Exists, Settling, Terminal

LEMMA SettleKeeps == CycleInv /\ Settle => CycleInv'
<1> SUFFICES ASSUME CycleInv, Settle PROVE CycleInv'
  OBVIOUS
<1> DEFINE e == Mine  q == queue[cyc.o]  w == Here  a == cyc.o \in approved
           n == [cyc EXCEPT !.at = "settleGoal"]
<1>1. cyc # Idle /\ cyc.at = "settle" /\ UNCHANGED <<work, approved, faults>>
  BY DEF Settle, At
<1>2. cyc \in Cycle /\ cyc.o \in Outcomes /\ Sound(e, q, w, a, cyc)
  BY <1>1, MineSound
<1>3. /\ e \in Execution /\ Exists(e) /\ q \in Row /\ w \in Work
      /\ e.lease \in {"HELD", "LAPSED"} /\ e.cp \in Terminal
      /\ e.walls # MaxRedispatches
      /\ e.cleanups = MaxRedispatches => e.cp = "FAILED_TERMINAL"
  BY <1>1, <1>2, WhileSettling DEF Is, Settling
<1>4. n \in Cycle /\ n.at = "settleGoal" /\ n.o = cyc.o /\ n.catch = cyc.catch
  BY <1>2 DEF Cycle, Steps
<1>5. StoreIsSound(e, n) /\ WorkIsSound(e, w, n)
  <2> HIDE DEF e, q, w, a, n
  <2> QED
    BY <1>1, <1>2, <1>3, <1>4 DEF Sound, StoreIsSound, WorkIsSound, Is, Settling, Parking,
      Doing, Delivering, Unmerged
<1>6. CASE Live(cyc.o) /\ Go("settleGoal") /\ UNCHANGED exec
  <2> DEFINE r == [q EXCEPT !.live = FALSE,
                            !.state = IF e.cp = "COMPLETE" THEN "completed" ELSE "blocked",
                            !.reason = IF e.cp = "COMPLETE" THEN "none" ELSE e.cp]
  <2>1. queue' = [queue EXCEPT ![cyc.o] = r]
    <3>1. ~(SettledAs(cyc.o, e.cp) /\ UNCHANGED queue)
      BY <1>6, <1>3 DEF SettledAs, Live, Active
    <3> QED
      BY <1>2, <1>6, <3>1 DEF Settle, CycleInv, TypeOK
  <2>2. /\ r \in Row /\ r.live = FALSE /\ r.goal = q.goal
        /\ e.cp = "COMPLETE" => r.state = "completed"
        /\ e.cp # "COMPLETE" => r.state = "blocked" /\ r.reason = e.cp
    BY <1>3 DEF Row, Terminal
  <2>3. q.state = "active"
    BY <1>6 DEF Live, Active
  <2>4. Local(cyc.o) /\ queue'[cyc.o] = r /\ cyc' = n
    BY <1>1, <1>2, <1>4, <1>6, <2>1 DEF Local, CycleInv, TypeOK, On, Go
  <2>5. RowIsSound(e, r, w, a, n)
    <3> HIDE DEF e, q, w, a, n, r
    <3> QED
      BY <1>1, <1>2, <1>3, <1>4, <2>2, <2>3 DEF Sound, RowIsSound, WorkIsSound, Is, Settled,
        Doing, Terminal
  <2>6. Sound(e, r, w, a, n)
    <3> HIDE DEF e, q, w, a, n, r
    <3> QED
      BY <1>3, <1>4, <1>5, <2>2, <2>5 DEF Sound, Types
  <2> QED
    BY <1>1, <1>2, <1>4, <1>6, <2>4, <2>6, StepKeeps DEF Mine, Here
<1>7. CASE SettledAs(cyc.o, Mine.cp) /\ Go("settleGoal") /\ UNCHANGED <<exec, queue>>
  <2>1. Settled(q, e.cp) /\ cyc' = n
    BY <1>7 DEF SettledAs, Settled, Go
  <2>2. RowIsSound(e, q, w, a, n)
    <3> HIDE DEF e, q, w, a, n
    <3> QED
      BY <1>1, <1>2, <1>3, <1>4, <2>1 DEF Sound, RowIsSound, Is, Doing
  <2>3. Sound(e, q, w, a, n)
    <3> HIDE DEF e, q, w, a, n
    <3> QED
      BY <1>3, <1>4, <1>5, <2>2 DEF Sound, Types
  <2> QED
    BY <1>1, <1>4, <1>7, <2>1, <2>3, GoKeeps
<1>8. CASE Wall(Mine) /\ UNCHANGED queue
  BY <1>1, <1>2, <1>8, WallKeeps DEF CycleInv, TypeOK, Here
<1> QED
  BY <1>6, <1>7, <1>8 DEF Settle

\* A row and its goal agree on the checkpoint once both are settled.
LEMMA SettleGoalKeeps == CycleInv /\ SettleGoal => CycleInv'
<1> SUFFICES ASSUME CycleInv, SettleGoal PROVE CycleInv'
  OBVIOUS
<1> DEFINE e == Mine  q == queue[cyc.o]  w == Here  a == cyc.o \in approved
           n == [cyc EXCEPT !.at = "release"]
           r == [q EXCEPT !.goal = Result(e.cp)]
           b == cyc.o \in approved'
<1>0. cyc # Idle /\ cyc.at = "settleGoal" /\ UNCHANGED <<work, faults>>
  BY DEF SettleGoal, At
<1>2. cyc \in Cycle /\ cyc.o \in Outcomes /\ Sound(e, q, w, a, cyc)
  BY <1>0, MineSound
<1>10. q.goal \in {"classified", Result(e.cp)}
  <2>1. e \in Execution /\ q \in Row /\ e.cp \in Terminal
    BY <1>0, <1>2, WhileSettling DEF Is, Settling
  <2> HIDE DEF e, q, w, a
  <2> QED
    BY <1>0, <1>2, <2>1 DEF Sound, RowIsSound, Is, Settled, Result, Row, Terminal
<1>1. /\ cyc # Idle /\ cyc.at = "settleGoal" /\ UNCHANGED <<exec, work, faults>>
      /\ q.goal \in {"classified", Result(e.cp)} /\ cyc' = n
      /\ approved' = IF q.goal = "classified" /\ e.cp # "COMPLETE"
                       THEN approved \ {cyc.o} ELSE approved
  BY <1>10 DEF SettleGoal, At, Go, Result
<1>3. /\ e \in Execution /\ Exists(e) /\ q \in Row /\ w \in Work
      /\ e.lease \in {"HELD", "LAPSED"} /\ e.cp \in Terminal
  BY <1>1, <1>2, WhileSettling DEF Is, Settling
<1>4. n \in Cycle /\ n.at = "release" /\ n.o = cyc.o /\ n.catch = cyc.catch
  BY <1>2 DEF Cycle, Steps
<1>5. queue' = [queue EXCEPT ![cyc.o] = r]
  BY <1>2, <1>10 DEF SettleGoal, Result, CycleInv, TypeOK
<1>6. /\ r \in Row /\ r.live = q.live /\ r.goal = Result(e.cp) /\ r.state = q.state
      /\ r.reason = q.reason
  BY <1>3 DEF Row, Terminal, Result
<1>7. b <=> a /\ ~(q.goal = "classified" /\ e.cp # "COMPLETE")
  BY <1>1
<1>8. Local(cyc.o) /\ queue'[cyc.o] = r
  BY <1>1, <1>2, <1>4, <1>5 DEF Local, CycleInv, TypeOK, On
<1>9. Sound(e, r, w, b, n)
  <2> HIDE DEF e, q, w, a, n, r, b
  <2>1. StoreIsSound(e, n) /\ WorkIsSound(e, w, n)
    BY <1>1, <1>2, <1>3, <1>4 DEF Sound, StoreIsSound, WorkIsSound, Is, Settling, Parking,
      Doing, Delivering, Unmerged
  <2>2. Settled(q, e.cp)
    BY <1>1, <1>2 DEF Sound, RowIsSound, Is
  <2>3. RowIsSound(e, r, w, b, n)
    BY <1>1, <1>2, <1>3, <1>4, <1>6, <1>7, <2>2 DEF Sound, RowIsSound, Is, Settled, Result,
      Doing, Terminal
  <2> QED
    BY <1>3, <1>4, <1>6, <2>1, <2>3 DEF Sound, Types
<1> QED
  BY <1>1, <1>4, <1>8, <1>9, StepKeeps DEF Mine, Here

LEMMA ReleaseKeeps == CycleInv /\ Release => CycleInv'
<1> SUFFICES ASSUME CycleInv, Release PROVE CycleInv'
  OBVIOUS
<1> DEFINE e == Mine  q == queue[cyc.o]  w == Here  a == cyc.o \in approved
           f == [(IF e.cp = "OWNER_DECISION_REQUIRED" THEN e ELSE New)
                   EXCEPT !.lease = "RELEASED", !.cp = e.cp]
<1>1. /\ cyc # Idle /\ cyc.at = "release" /\ UNCHANGED <<queue, work, approved, faults>>
      /\ cyc' = Idle /\ exec' = [exec EXCEPT ![cyc.o] = f]
  BY DEF Release, At, Store
<1>2. cyc \in Cycle /\ cyc.o \in Outcomes /\ Sound(e, q, w, a, cyc)
  BY <1>1, MineSound
<1>3. /\ e \in Execution /\ Exists(e) /\ q \in Row /\ w \in Work
      /\ e.lease \in {"HELD", "LAPSED"} /\ e.cp \in Terminal
      /\ e.walls # MaxRedispatches
      /\ e.cleanups = MaxRedispatches => e.cp = "FAILED_TERMINAL"
  BY <1>1, <1>2, WhileSettling DEF Is, Settling
<1>4. /\ New \in Execution /\ New.walls = 0 /\ New.cleanups = 0 /\ New.head = FALSE
      /\ New.merged = FALSE
  BY BoundsAssumption DEF New, Execution, Leases, Checkpoints
<1>5. /\ f \in Execution /\ Exists(f) /\ f.lease = "RELEASED" /\ f.cp = e.cp
      /\ f.walls = e.walls \/ f.walls = 0
      /\ f.cleanups = e.cleanups \/ f.cleanups = 0
      /\ f.head = e.head \/ f.head = FALSE
      /\ f.merged = e.merged \/ f.merged = FALSE
  BY <1>3, <1>4 DEF Execution, Leases, Checkpoints, Exists, NoExecution
<1>6. Local(cyc.o) /\ exec'[cyc.o] = f
  BY <1>1, <1>2 DEF Local, CycleInv, TypeOK, On
<1>7. Sound(f, q, w, a, Idle)
  <2> HIDE DEF e, q, w, a, f
  <2>1. StoreIsSound(f, Idle)
    BY <1>3, <1>5, BoundsAssumption DEF StoreIsSound, Is
  <2>2. WorkIsSound(f, w, Idle)
    BY <1>2, <1>3, <1>5 DEF Sound, WorkIsSound, Is, Terminal
  <2>3. RowIsSound(f, q, w, a, Idle)
    BY <1>1, <1>2, <1>3, <1>5 DEF Sound, RowIsSound, Is, Result, Settled, Terminal
  <2> QED
    BY <1>3, <1>5, <2>1, <2>2, <2>3 DEF Sound, Types
<1> QED
  BY <1>1, <1>6, <1>7, StepKeeps DEF Mine, Here

\* What a parking starts from.
LEMMA WhileParking ==
  ASSUME NEW e, NEW q, NEW w, NEW a, NEW c, Sound(e, q, w, a, c), Is(c, Parking)
  PROVE  /\ e \in Execution /\ Exists(e) /\ q \in Row /\ w \in Work /\ c \in Cycle
         /\ e.lease \in {"HELD", "LAPSED"} /\ e.cp = "PROVIDER_UNAVAILABLE"
         /\ e.cleanups # MaxRedispatches /\ c.catch # "fresh"
BY DEF Sound, Types, StoreIsSound, Is, Exists, Settling, Parking, Doing

LEMMA ParkKeeps == CycleInv /\ Park => CycleInv'
<1> SUFFICES ASSUME CycleInv, Park PROVE CycleInv'
  OBVIOUS
<1> DEFINE e == Mine  q == queue[cyc.o]  w == Here  a == cyc.o \in approved
           n == [cyc EXCEPT !.at = "defer"]
           r == [q EXCEPT !.reason = "PROVIDER_UNAVAILABLE"]
<1>1. cyc # Idle /\ cyc.at = "park" /\ UNCHANGED <<work, approved, faults>>
  BY DEF Park, At
<1>2. cyc \in Cycle /\ cyc.o \in Outcomes /\ Sound(e, q, w, a, cyc)
  BY <1>1, MineSound
<1>3. /\ e \in Execution /\ Exists(e) /\ q \in Row /\ w \in Work
      /\ e.lease \in {"HELD", "LAPSED"} /\ e.cp = "PROVIDER_UNAVAILABLE"
      /\ e.cleanups # MaxRedispatches /\ cyc.catch # "fresh"
  BY <1>1, <1>2, WhileParking DEF Is, Parking
<1>4. CASE Live(cyc.o)
  <2>1. queue' = [queue EXCEPT ![cyc.o] = r] /\ cyc' = n /\ UNCHANGED exec
    BY <1>2, <1>4 DEF Park, Go, CycleInv, TypeOK
  <2>2. n \in Cycle /\ n.at = "defer" /\ n.o = cyc.o /\ n.catch = cyc.catch
    BY <1>2 DEF Cycle, Steps
  <2>3. r \in Row /\ r.live = q.live /\ r.goal = q.goal /\ r.state = q.state
    BY <1>3 DEF Row
  <2>4. q.state = "active"
    BY <1>4 DEF Live, Active
  <2>5. Local(cyc.o) /\ queue'[cyc.o] = r
    BY <1>1, <1>2, <2>1, <2>2 DEF Local, CycleInv, TypeOK, On
  <2>6. Sound(e, r, w, a, n)
    <3> HIDE DEF e, q, w, a, n, r
    <3>1. StoreIsSound(e, n) /\ WorkIsSound(e, w, n)
      BY <1>1, <1>2, <1>3, <2>2 DEF Sound, StoreIsSound, WorkIsSound, Is, Settling, Parking,
        Doing, Delivering, Unmerged
    <3>2. RowIsSound(e, r, w, a, n)
      BY <1>1, <1>2, <1>3, <2>2, <2>3, <2>4 DEF Sound, RowIsSound, Is, Settled, Doing
    <3> QED
      BY <1>3, <2>2, <2>3, <3>1, <3>2 DEF Sound, Types
  <2> QED
    BY <1>1, <2>1, <2>2, <2>5, <2>6, StepKeeps DEF Mine, Here
<1>5. CASE ~Live(cyc.o)
  <2>1. Wall(Mine) /\ UNCHANGED queue
    BY <1>5 DEF Park
  <2> QED
    BY <1>1, <1>2, <2>1, WallKeeps DEF CycleInv, TypeOK, Here
<1> QED
  BY <1>4, <1>5

\* A deferred lease starts again with the walls it may still meet.
LEMMA DeferKeeps == CycleInv /\ Defer => CycleInv'
<1> SUFFICES ASSUME CycleInv, Defer PROVE CycleInv'
  OBVIOUS
<1> DEFINE e == Mine  q == queue[cyc.o]  w == Here  a == cyc.o \in approved
           f == [e EXCEPT !.lease = "DEFERRED", !.cp = "DEFERRED_PROVIDER_UNAVAILABLE",
                          !.walls = 0]
<1>1. /\ cyc # Idle /\ cyc.at = "defer" /\ UNCHANGED <<queue, work, approved, faults>>
      /\ cyc' = Idle /\ exec' = [exec EXCEPT ![cyc.o] = f]
  BY DEF Defer, At, Store
<1>2. cyc \in Cycle /\ cyc.o \in Outcomes /\ Sound(e, q, w, a, cyc)
  BY <1>1, MineSound
<1>3. /\ e \in Execution /\ Exists(e) /\ q \in Row /\ w \in Work
      /\ e.cp = "PROVIDER_UNAVAILABLE" /\ e.cleanups # MaxRedispatches
  BY <1>1, <1>2, WhileParking DEF Is, Parking
<1>4. /\ f \in Execution /\ Exists(f) /\ f.lease = "DEFERRED"
      /\ f.cp = "DEFERRED_PROVIDER_UNAVAILABLE" /\ f.walls = 0
      /\ f.cleanups = e.cleanups /\ f.head = e.head /\ f.merged = e.merged
  <2>1. 0 \in 0..MaxRedispatches
    BY BoundsAssumption
  <2> QED
    BY <1>3, <2>1 DEF Execution, Leases, Checkpoints, Exists, NoExecution
<1>5. Local(cyc.o) /\ exec'[cyc.o] = f
  BY <1>1, <1>2 DEF Local, CycleInv, TypeOK, On
<1>6. Sound(f, q, w, a, Idle)
  <2> HIDE DEF e, q, w, a, f
  <2>1. StoreIsSound(f, Idle)
    BY <1>3, <1>4, BoundsAssumption DEF StoreIsSound, Is
  <2>2. WorkIsSound(f, w, Idle)
    BY <1>2, <1>3, <1>4 DEF Sound, WorkIsSound, Is
  <2>3. RowIsSound(f, q, w, a, Idle)
    BY <1>2, <1>3, <1>4 DEF Sound, RowIsSound, Is
  <2> QED
    BY <1>3, <1>4, <2>1, <2>2, <2>3 DEF Sound, Types
<1> QED
  BY <1>1, <1>5, <1>6, StepKeeps DEF Mine, Here

LEMMA LostKeeps == CycleInv /\ Lost => CycleInv'
BY MineSound, WallKeeps DEF Lost, Working, Here, CycleInv, TypeOK

-----------------------------------------------------------------------------
(* Mishaps, time, and the world.                                           *)

LEMMA FaultTyped == CycleInv /\ Fault => faults' \in 0..MaxFaults
BY BoundsAssumption DEF CycleInv, TypeOK, Fault

LEMMA ThrowKeeps == CycleInv /\ Throw => CycleInv'
<1> SUFFICES ASSUME CycleInv, Throw PROVE CycleInv'
  OBVIOUS
<1>1. cyc # Idle /\ faults' \in 0..MaxFaults /\ UNCHANGED <<queue, work, approved>>
  BY FaultTyped DEF Throw
<1>2. Sound(Mine, queue[cyc.o], Here, cyc.o \in approved, cyc)
  BY <1>1, MineSound
<1>3. CASE Working
  BY <1>1, <1>2, <1>3, WallKeeps DEF Throw, Here
<1>4. CASE ~Working
  <2>1. cyc' = Idle /\ UNCHANGED exec
    BY <1>4 DEF Throw
  <2>2. Sound(Mine, queue[cyc.o], Here, cyc.o \in approved, Idle)
    BY <1>2, DropSound
  <2> QED
    BY <1>1, <2>1, <2>2, StepKeeps DEF Local, Mine, Here, On
<1> QED
  BY <1>3, <1>4

LEMMA DieKeeps == CycleInv /\ Die => CycleInv'
<1> SUFFICES ASSUME CycleInv, Die PROVE CycleInv'
  OBVIOUS
<1>1. /\ cyc # Idle /\ faults' \in 0..MaxFaults /\ UNCHANGED <<exec, queue, work, approved>>
      /\ cyc' = Idle
  BY FaultTyped DEF Die
<1>2. Sound(Mine, queue[cyc.o], Here, cyc.o \in approved, Idle)
  BY <1>1, MineSound, DropSound
<1> QED
  BY <1>1, <1>2, StepKeeps DEF Local, Mine, Here, On

\* A lease lapses, and the row's with it, under a cycle that does not notice.
LEMMA LapseSound ==
  ASSUME NEW e, NEW q, NEW w, NEW a, NEW c, Sound(e, q, w, a, c), e.lease = "HELD", Exists(e),
         NEW live \in {q.live, FALSE}
  PROVE  Sound([e EXCEPT !.lease = "LAPSED"], [q EXCEPT !.live = live], w, a, c)
<1> DEFINE f == [e EXCEPT !.lease = "LAPSED"]
           r == [q EXCEPT !.live = live]
<1>1. e \in Execution /\ f \in Execution /\ Exists(f)
  BY DEF Sound, Types, Execution, Exists, NoExecution, Leases
<1>2. /\ f.lease = "LAPSED" /\ f.cp = e.cp /\ f.walls = e.walls /\ f.cleanups = e.cleanups
      /\ f.head = e.head /\ f.merged = e.merged
  BY <1>1 DEF Execution
<1>3. q \in Row /\ r \in Row
  BY DEF Sound, Types, Row
<1>4. r.live \in {q.live, FALSE} /\ r.state = q.state /\ r.reason = q.reason /\ r.goal = q.goal
  BY <1>3 DEF Row
<1> HIDE DEF f, r
<1>5. Types(f, r, w, c)
  BY <1>1, <1>3 DEF Sound, Types
<1>6. StoreIsSound(f, c)
  BY <1>1, <1>2 DEF Sound, StoreIsSound, Is
<1>7. WorkIsSound(f, w, c)
  BY <1>1, <1>2 DEF Sound, WorkIsSound, Is
<1>8. RowIsSound(f, r, w, a, c)
  BY <1>1, <1>2, <1>4 DEF Sound, RowIsSound, Is, Settled
<1> QED
  BY <1>5, <1>6, <1>7, <1>8 DEF Sound, f, r

LEMMA SuspendKeeps == CycleInv /\ Suspend => CycleInv'
<1> SUFFICES ASSUME CycleInv, Suspend PROVE CycleInv'
  OBVIOUS
<1> DEFINE f == [Mine EXCEPT !.lease = "LAPSED"]
           r == [queue[cyc.o] EXCEPT !.live = FALSE]
<1>1. /\ cyc # Idle /\ faults' \in 0..MaxFaults /\ UNCHANGED <<work, approved, cyc>>
      /\ Mine.lease = "HELD" /\ exec' = [exec EXCEPT ![cyc.o] = f]
  BY FaultTyped DEF Suspend, Working, Store
<1>2. cyc \in Cycle /\ cyc.o \in Outcomes /\ Sound(Mine, queue[cyc.o], Here, cyc.o \in approved, cyc)
  BY <1>1, MineSound
<1>3. queue' = [queue EXCEPT ![cyc.o] = r]
  BY <1>2 DEF Suspend, CycleInv, TypeOK
<1>4. Local(cyc.o) /\ exec'[cyc.o] = f /\ queue'[cyc.o] = r
  BY <1>1, <1>2, <1>3 DEF Local, CycleInv, TypeOK
<1>5. Sound(f, r, Here, cyc.o \in approved, cyc)
  <2> DEFINE e == Mine  q == queue[cyc.o]  w == Here  a == cyc.o \in approved
  <2>1. Exists(e) /\ e.lease = "HELD" /\ Sound(e, q, w, a, cyc)
    BY <1>1, <1>2 DEF Exists, NoExecution
  <2> HIDE DEF e, q, w, a
  <2>2. Sound([e EXCEPT !.lease = "LAPSED"], [q EXCEPT !.live = FALSE], w, a, cyc)
    BY <2>1, LapseSound
  <2> QED
    BY <2>2 DEF e, q, w, a
<1> QED
  BY <1>1, <1>4, <1>5, StepKeeps DEF Here

LEMMA LeaseEndsKeeps ==
  ASSUME CycleInv, NEW o \in Outcomes, LeaseEnds(o)
  PROVE  CycleInv'
<1> DEFINE f == [exec[o] EXCEPT !.lease = "LAPSED"]
           r == [queue[o] EXCEPT !.live = queue[o].live]
<1>1. UNCHANGED <<queue, work, approved, cyc, faults>> /\ exec[o].lease = "HELD"
  BY DEF LeaseEnds
<1>2. SoundAt(o) /\ queue[o] \in Row
  BY DEF CycleInv, TypeOK, SoundAt
<1>3. exec' = [exec EXCEPT ![o] = f] /\ exec'[o] = f
  BY DEF LeaseEnds, CycleInv, TypeOK
<1>4. r = queue[o]
  BY <1>2 DEF Row
<1>5. Sound(f, r, work[o], o \in approved, CycleOf(o))
  <2> DEFINE e == exec[o]  q == queue[o]  w == work[o]  a == o \in approved  c == CycleOf(o)
  <2>1. Exists(e) /\ e.lease = "HELD" /\ Sound(e, q, w, a, c)
    BY <1>1, <1>2 DEF Exists, NoExecution, SoundAt
  <2> HIDE DEF e, q, w, a, c
  <2>2. Sound([e EXCEPT !.lease = "LAPSED"], [q EXCEPT !.live = q.live], w, a, c)
    BY <2>1, LapseSound
  <2> QED
    BY <2>2 DEF e, q, w, a, c
<1>6. CycleOf(o)' = CycleOf(o)
  BY <1>1 DEF CycleOf, On
<1>7. SoundAt(o)'
  BY <1>1, <1>3, <1>4, <1>5, <1>6 DEF SoundAt
<1> QED
  BY <1>1, <1>3, <1>7, LocalKeeps DEF Local, CycleInv, TypeOK

\* A row's lease ends on its own only while nothing works on it.
LEMMA RowLeaseEndsKeeps ==
  ASSUME CycleInv, NEW o \in Outcomes, RowLeaseEnds(o)
  PROVE  CycleInv'
<1> DEFINE e == exec[o]  q == queue[o]  w == work[o]  a == o \in approved  c == CycleOf(o)
           r == [q EXCEPT !.live = FALSE]
<1>1. UNCHANGED <<exec, work, approved, cyc, faults>>
  BY DEF RowLeaseEnds
<1>2. Sound(e, q, w, a, c) /\ q \in Row
  BY DEF CycleInv, TypeOK
<1>3. queue' = [queue EXCEPT ![o] = r] /\ queue'[o] = r
  BY DEF RowLeaseEnds, CycleInv, TypeOK
<1>4. r \in Row /\ r.live = FALSE /\ r.state = q.state /\ r.reason = q.reason /\ r.goal = q.goal
  BY <1>2 DEF Row
<1>5. Sound(e, r, w, a, c)
  <2> HIDE DEF e, q, w, a, c, r
  <2>1. RowIsSound(e, r, w, a, c)
    BY <1>2, <1>4 DEF Sound, RowIsSound, Settled
  <2> QED
    BY <1>2, <1>4, <2>1 DEF Sound, Types
<1>6. CycleOf(o)' = CycleOf(o)
  BY <1>1 DEF CycleOf, On
<1>7. SoundAt(o)'
  BY <1>1, <1>3, <1>5, <1>6 DEF SoundAt
<1> QED
  BY <1>1, <1>3, <1>7, LocalKeeps DEF Local, CycleInv, TypeOK

LEMMA RetryTimePassesKeeps ==
  ASSUME CycleInv, NEW o \in Outcomes, RetryTimePasses(o)
  PROVE  CycleInv'
<1> DEFINE e == exec[o]  q == queue[o]  w == work[o]  a == o \in approved  c == CycleOf(o)
           f == [e EXCEPT !.lease = "FREE"]
           r == [q EXCEPT !.live = FALSE]
<1>1. UNCHANGED <<work, approved, cyc, faults>> /\ e.lease = "DEFERRED"
  BY DEF RetryTimePasses
<1>2. Sound(e, q, w, a, c) /\ q \in Row /\ e \in Execution /\ Exists(e)
  BY <1>1 DEF CycleInv, TypeOK, NoExecution, Exists
<1>3. /\ queue' = [queue EXCEPT ![o] = r] /\ queue'[o] = r
      /\ exec' = [exec EXCEPT ![o] = f] /\ exec'[o] = f
  BY DEF RetryTimePasses, CycleInv, TypeOK
<1>4. r \in Row /\ r.live = FALSE /\ r.state = q.state /\ r.reason = q.reason /\ r.goal = q.goal
  BY <1>2 DEF Row
<1>5. /\ f \in Execution /\ Exists(f) /\ f.lease = "FREE" /\ f.cp = e.cp
      /\ f.walls = e.walls /\ f.cleanups = e.cleanups
      /\ f.head = e.head /\ f.merged = e.merged
  BY <1>2 DEF Execution, Exists, NoExecution, Leases
<1>6. Sound(f, r, w, a, c)
  <2> HIDE DEF e, q, w, a, c, f, r
  <2>1. StoreIsSound(f, c)
    BY <1>1, <1>2, <1>5 DEF Sound, StoreIsSound, Is
  <2>2. WorkIsSound(f, w, c)
    BY <1>1, <1>2, <1>5 DEF Sound, WorkIsSound
  <2>3. RowIsSound(f, r, w, a, c)
    BY <1>1, <1>2, <1>4, <1>5 DEF Sound, RowIsSound, StoreIsSound, Settled, Is
  <2> QED
    BY <1>2, <1>4, <1>5, <2>1, <2>2, <2>3 DEF Sound, Types
<1>7. CycleOf(o)' = CycleOf(o)
  BY <1>1 DEF CycleOf, On
<1>8. SoundAt(o)'
  BY <1>1, <1>3, <1>6, <1>7 DEF SoundAt
<1> QED
  BY <1>1, <1>3, <1>8, LocalKeeps DEF Local, CycleInv, TypeOK

\* An owner decides only what no lease still holds, whoever died with it.
LEMMA OwnerApprovesKeeps ==
  ASSUME CycleInv, NEW o \in Outcomes, OwnerApproves(o)
  PROVE  CycleInv'
<1> DEFINE e == exec[o]  q == queue[o]  w == work[o]  a == o \in approved  c == CycleOf(o)
           r == [q EXCEPT !.goal = "classified"]
<1>1. /\ UNCHANGED <<exec, work, cyc, faults>> /\ e.lease \notin {"HELD", "LAPSED"}
      /\ q.goal = "OWNER_DECISION_REQUIRED" /\ approved' = approved \cup {o}
  BY DEF OwnerApproves
<1>2. Sound(e, q, w, a, c) /\ q \in Row
  BY DEF CycleInv, TypeOK
<1>3. queue' = [queue EXCEPT ![o] = r] /\ queue'[o] = r
  BY DEF OwnerApproves, CycleInv, TypeOK
<1>4. /\ r \in Row /\ r.live = q.live /\ r.state = q.state /\ r.reason = q.reason
      /\ r.goal = "classified"
  BY <1>2 DEF Row
<1>5. Sound(e, r, w, TRUE, c)
  <2> HIDE DEF e, q, w, a, c, r
  <2>1. RowIsSound(e, r, w, TRUE, c)
    BY <1>1, <1>2, <1>4 DEF Sound, RowIsSound, StoreIsSound, Settled, Is, Settling
  <2> QED
    BY <1>2, <1>4, <2>1 DEF Sound, Types
<1>6. CycleOf(o)' = CycleOf(o) /\ (o \in approved' <=> TRUE)
  BY <1>1 DEF CycleOf, On
<1>7. SoundAt(o)'
  BY <1>1, <1>3, <1>5, <1>6 DEF SoundAt
<1> QED
  BY <1>1, <1>3, <1>7, LocalKeeps DEF Local, CycleInv, TypeOK

\* A review may object at any time, but it is not taken back.
LEMMA ReviewArrivesKeeps ==
  ASSUME CycleInv, NEW o \in Outcomes, ReviewArrives(o)
  PROVE  CycleInv'
<1> DEFINE e == exec[o]  q == queue[o]  w == work[o]  a == o \in approved  c == CycleOf(o)
<1>1. UNCHANGED <<exec, queue, approved, cyc, faults>>
  BY DEF ReviewArrives
<1>2. Sound(e, q, w, a, c) /\ w \in Work
  BY DEF CycleInv, TypeOK
<1>3. PICK verdict \in {"clean", "findings"} : work' = [work EXCEPT ![o].review = verdict]
  BY DEF ReviewArrives
<1> DEFINE v == [w EXCEPT !.review = verdict]
<1>4. work' = [work EXCEPT ![o] = v] /\ work'[o] = v
  BY <1>3 DEF CycleInv, TypeOK
<1>5. /\ v \in Work /\ v.tree = w.tree /\ v.commit = w.commit /\ v.pr = w.pr
      /\ v.review \in Verdicts
  BY <1>2 DEF Work, Verdicts
<1>6. Sound(e, q, v, a, c)
  <2> HIDE DEF e, q, w, a, c, v
  <2>1. WorkIsSound(e, v, c)
    BY <1>1, <1>2, <1>5 DEF Sound, WorkIsSound
  <2>2. RowIsSound(e, q, v, a, c)
    BY <1>1, <1>2, <1>5 DEF Sound, RowIsSound
  <2> QED
    BY <1>2, <1>5, <2>1, <2>2 DEF Sound, Types
<1>7. CycleOf(o)' = CycleOf(o)
  BY <1>1 DEF CycleOf, On
<1>8. SoundAt(o)'
  BY <1>1, <1>4, <1>6, <1>7 DEF SoundAt
<1> QED
  BY <1>1, <1>4, <1>8, LocalKeeps DEF Local, CycleInv, TypeOK

-----------------------------------------------------------------------------
(* The start of a cycle.                                                   *)

LEMMA BeginTyped ==
  ASSUME NEW o \in Outcomes, NEW step \in {"resume", "refresh"}, Begin(o, step)
  PROVE  /\ cyc' \in Cycle /\ cyc' # Idle /\ cyc'.at = step /\ cyc'.o = o
         /\ cyc'.catch = "none" /\ cyc'.prior = "LEASED"
         /\ CycleOf(o)' = cyc'
<1>1. /\ cyc' \in Cycle /\ cyc'.at = step /\ cyc'.o = o
      /\ cyc'.catch = "none" /\ cyc'.prior = "LEASED"
  BY BoundsAssumption DEF Begin, Cycle, Steps, Checkpoints
<1>2. cyc' # Idle
  BY <1>1 DEF Idle
<1> QED
  BY <1>1, <1>2 DEF CycleOf, On

LEMMA StartDurableKeeps ==
  ASSUME CycleInv, NEW o \in Outcomes, StartDurable(o)
  PROVE  CycleInv'
<1> DEFINE e == exec[o]  q == queue[o]  w == work[o]  a == o \in approved  n == cyc'
<1>1. /\ cyc = Idle /\ Begin(o, "refresh") /\ UNCHANGED <<exec, queue, work, approved, faults>>
      /\ o \in Unreleased
  BY DEF StartDurable
<1>2. Exists(e) /\ e.lease # "RELEASED"
  BY <1>1 DEF Unreleased, Known, Exists
<1>3. Sound(e, q, w, a, Idle)
  BY <1>1 DEF CycleInv, CycleOf, On
<1>4. /\ n \in Cycle /\ n # Idle /\ n.at = "refresh" /\ n.o = o /\ n.catch = "none"
      /\ CycleOf(o)' = n
  BY <1>1, BeginTyped
<1>5. Sound(e, q, w, a, n)
  <2> HIDE DEF e, q, w, a, n
  <2>1. StoreIsSound(e, n) /\ WorkIsSound(e, w, n)
    BY <1>2, <1>3, <1>4 DEF Sound, StoreIsSound, WorkIsSound, Is, Settling, Parking, Doing,
      Delivering, Unmerged
  <2>2. RowIsSound(e, q, w, a, n)
    BY <1>2, <1>3, <1>4 DEF Sound, RowIsSound, Is, Doing
  <2> QED
    BY <1>3, <1>4, <2>1, <2>2 DEF Sound, Types
<1>6. SoundAt(o)'
  BY <1>1, <1>4, <1>5 DEF SoundAt
<1> QED
  BY <1>1, <1>4, <1>6, LocalKeeps DEF Local, CycleInv, TypeOK

LEMMA StartApprovedKeeps ==
  ASSUME CycleInv, NEW o \in Outcomes, StartApproved(o)
  PROVE  CycleInv'
<1> DEFINE e == exec[o]  q == queue[o]  w == work[o]  a == o \in approved  n == cyc'
<1>1. /\ cyc = Idle /\ Begin(o, "resume") /\ UNCHANGED <<exec, queue, work, approved, faults>>
      /\ o \in Approvable
  BY DEF StartApproved
<1>2. Exists(e) /\ e.lease = "RELEASED" /\ e.cp = "OWNER_DECISION_REQUIRED" /\ a
  BY <1>1 DEF Approvable, Known, Exists
<1>3. Sound(e, q, w, a, Idle)
  BY <1>1 DEF CycleInv, CycleOf, On
<1>4. /\ n \in Cycle /\ n # Idle /\ n.at = "resume" /\ n.o = o /\ n.catch = "none"
      /\ CycleOf(o)' = n
  BY <1>1, BeginTyped
<1>5. Sound(e, q, w, a, n)
  <2> HIDE DEF e, q, w, a, n
  <2>1. StoreIsSound(e, n) /\ WorkIsSound(e, w, n)
    BY <1>2, <1>3, <1>4 DEF Sound, StoreIsSound, WorkIsSound, Is, Settling, Parking, Doing,
      Delivering, Unmerged
  <2>2. RowIsSound(e, q, w, a, n)
    BY <1>2, <1>3, <1>4 DEF Sound, RowIsSound, Is, Doing
  <2> QED
    BY <1>3, <1>4, <2>1, <2>2 DEF Sound, Types
<1>6. SoundAt(o)'
  BY <1>1, <1>4, <1>5 DEF SoundAt
<1> QED
  BY <1>1, <1>4, <1>6, LocalKeeps DEF Local, CycleInv, TypeOK

\* What is selected the store does not know yet, nor has an owner decided on it.
LEMMA StartSelectedKeeps ==
  ASSUME CycleInv, NEW o \in Outcomes, StartSelected(o)
  PROVE  CycleInv'
<1> DEFINE e == exec[o]  q == queue[o]  w == work[o]  a == o \in approved  n == cyc'
           r == [q EXCEPT !.state = "active", !.reason = "none", !.live = TRUE]
<1>1. /\ cyc = Idle /\ Begin(o, "refresh") /\ UNCHANGED <<exec, work, approved, faults>>
      /\ q.state = "approved" \/ (q.state = "active" /\ ~Exists(e))
  BY DEF StartSelected, Active, Known, Exists
<1>2. Sound(e, q, w, a, Idle) /\ q \in Row
  BY <1>1 DEF CycleInv, CycleOf, On, TypeOK
<1>3. ~Exists(e) /\ ~a /\ q.goal = "classified"
  <2> HIDE DEF e, q, w, a
  <2> QED
    BY <1>1, <1>2 DEF Sound, RowIsSound
<1>4. /\ n \in Cycle /\ n # Idle /\ n.at = "refresh" /\ n.o = o /\ n.catch = "none"
      /\ CycleOf(o)' = n
  BY <1>1, BeginTyped
<1>5. queue' = [queue EXCEPT ![o] = r] /\ queue'[o] = r
  BY DEF StartSelected, CycleInv, TypeOK
<1>6. r \in Row /\ r.state = "active" /\ r.reason = "none" /\ r.goal = q.goal
  BY <1>2 DEF Row
<1>7. Sound(e, r, w, a, n)
  <2> HIDE DEF e, q, w, a, n, r
  <2>1. StoreIsSound(e, n) /\ WorkIsSound(e, w, n)
    BY <1>2, <1>3, <1>4 DEF Sound, StoreIsSound, WorkIsSound, Is, Settling, Parking, Doing,
      Delivering, Unmerged
  <2>2. RowIsSound(e, r, w, a, n)
    BY <1>3, <1>4, <1>6 DEF RowIsSound, Is, Doing, Exists
  <2> QED
    BY <1>2, <1>4, <1>6, <2>1, <2>2 DEF Sound, Types
<1>8. SoundAt(o)'
  BY <1>1, <1>4, <1>5, <1>7 DEF SoundAt
<1> QED
  BY <1>1, <1>4, <1>5, <1>8, LocalKeeps DEF Local, CycleInv, TypeOK

LEMMA ResumeKeeps == CycleInv /\ Resume => CycleInv'
<1> SUFFICES ASSUME CycleInv, Resume PROVE CycleInv'
  OBVIOUS
<1> DEFINE e == Mine  q == queue[cyc.o]  w == Here  a == cyc.o \in approved
           n == [cyc EXCEPT !.at = "reopen"]
<1>1. cyc # Idle /\ cyc.at = "resume" /\ UNCHANGED <<exec, work, approved, faults>>
  BY DEF Resume, At
<1>2. cyc \in Cycle /\ cyc.o \in Outcomes /\ Sound(e, q, w, a, cyc)
  BY <1>1, MineSound
<1>3. n \in Cycle /\ n # Idle /\ n.at = "reopen" /\ n.o = cyc.o /\ n.catch = cyc.catch
  BY <1>2 DEF Cycle, Steps, Idle
<1>4. /\ Exists(e) /\ e.lease = "RELEASED" /\ e.cp = "OWNER_DECISION_REQUIRED" /\ a
      /\ StoreIsSound(e, n) /\ WorkIsSound(e, w, n)
  <2> HIDE DEF e, q, w, a, n
  <2> QED
    BY <1>1, <1>2, <1>3 DEF Sound, StoreIsSound, WorkIsSound, RowIsSound, Is, Settling, Parking,
      Doing, Delivering, Unmerged
<1>5. ASSUME SettledAs(cyc.o, "OWNER_DECISION_REQUIRED"), cyc' = n,
             queue' = [queue EXCEPT ![cyc.o] =
               [@ EXCEPT !.state = "active", !.reason = "OWNER_DECISION_RESUMED",
                         !.live = TRUE]]
      PROVE  CycleInv'
  <2> DEFINE r == [q EXCEPT !.state = "active", !.reason = "OWNER_DECISION_RESUMED",
                            !.live = TRUE]
  <2>1. queue' = [queue EXCEPT ![cyc.o] = r] /\ queue'[cyc.o] = r /\ q \in Row
    BY <1>2, <1>5 DEF CycleInv, TypeOK
  <2>2. /\ r \in Row /\ r.state = "active" /\ r.reason = "OWNER_DECISION_RESUMED"
        /\ r.goal = q.goal
    BY <2>1 DEF Row
  <2>3. q.state = "blocked"
    BY <1>5 DEF SettledAs
  <2>4. Sound(e, r, w, a, n)
    <3> HIDE DEF e, q, w, a, n, r
    <3>1. RowIsSound(e, r, w, a, n)
      BY <1>2, <1>3, <1>4, <2>2, <2>3 DEF Sound, RowIsSound, Is, Doing
    <3> QED
      BY <1>2, <1>3, <1>4, <2>2, <3>1 DEF Sound, Types
  <2>5. Local(cyc.o)
    BY <1>1, <1>2, <1>3, <1>5, <2>1 DEF Local, CycleInv, TypeOK, On
  <2> QED
    BY <1>1, <1>3, <1>5, <2>1, <2>4, <2>5, StepKeeps DEF Mine, Here
<1>6. ASSUME Live(cyc.o), cyc' = n, UNCHANGED queue
      PROVE  CycleInv'
  <2>1. q.state = "active"
    BY <1>6 DEF Live, Active
  <2>2. Sound(e, q, w, a, n)
    <3> HIDE DEF e, q, w, a, n
    <3>1. RowIsSound(e, q, w, a, n)
      BY <1>2, <1>3, <1>4, <2>1 DEF Sound, RowIsSound, Is, Doing
    <3> QED
      BY <1>2, <1>3, <1>4, <3>1 DEF Sound, Types
  <2> QED
    BY <1>1, <1>3, <1>6, <2>2, GoKeeps
<1>7. ASSUME cyc' = Idle, UNCHANGED queue
      PROVE  CycleInv'
  BY <1>1, <1>2, <1>7, DropSound, GoKeeps
<1> QED
  BY <1>5, <1>6, <1>7 DEF Resume, Go

LEMMA ReopenKeeps == CycleInv /\ Reopen => CycleInv'
<1> SUFFICES ASSUME CycleInv, Reopen PROVE CycleInv'
  OBVIOUS
<1> DEFINE e == Mine  q == queue[cyc.o]  w == Here  a == cyc.o \in approved
           f == [e EXCEPT !.lease = "FREE", !.cp = "WORKING", !.resume = "PENDING"]
           n == [cyc EXCEPT !.at = "refresh"]
<1>1. /\ cyc # Idle /\ cyc.at = "reopen" /\ UNCHANGED <<queue, work, approved, faults>>
      /\ exec' = [exec EXCEPT ![cyc.o] = f] /\ cyc' = n
  BY DEF Reopen, At, Store, Go
<1>2. cyc \in Cycle /\ cyc.o \in Outcomes /\ Sound(e, q, w, a, cyc)
  BY <1>1, MineSound
<1>3. n \in Cycle /\ n # Idle /\ n.at = "refresh" /\ n.o = cyc.o /\ n.catch = cyc.catch
  BY <1>2 DEF Cycle, Steps, Idle
<1>4. /\ e \in Execution /\ e.lease = "RELEASED" /\ e.cp = "OWNER_DECISION_REQUIRED"
      /\ q.state = "active" /\ cyc.catch # "fresh" /\ a
  <2> HIDE DEF e, q, w, a
  <2> QED
    BY <1>1, <1>2 DEF Sound, Types, RowIsSound, StoreIsSound, Is, Exists, Doing, Settling
<1>5. /\ f \in Execution /\ Exists(f) /\ f.lease = "FREE" /\ f.cp = "WORKING"
      /\ f.walls = e.walls /\ f.cleanups = e.cleanups
      /\ f.head = e.head /\ f.merged = e.merged
  BY <1>4 DEF Execution, Exists, NoExecution, Leases, Checkpoints
<1>6. Local(cyc.o) /\ exec'[cyc.o] = f
  BY <1>1, <1>2, <1>3 DEF Local, CycleInv, TypeOK, On
<1>7. Sound(f, q, w, a, n)
  <2> HIDE DEF e, q, w, a, f, n
  <2>0. Exists(e)
    BY <1>1, <1>2 DEF Sound, RowIsSound, Is
  <2>1. StoreIsSound(f, n) /\ WorkIsSound(f, w, n)
    BY <1>2, <1>3, <1>4, <1>5, <2>0 DEF Sound, StoreIsSound, WorkIsSound, Is, Settling, Parking,
      Doing, Delivering, Unmerged
  <2>2. RowIsSound(f, q, w, a, n)
    BY <1>2, <1>3, <1>4, <1>5, <2>0 DEF Sound, RowIsSound, Is, Doing
  <2> QED
    BY <1>2, <1>3, <1>5, <2>1, <2>2 DEF Sound, Types
<1> QED
  BY <1>1, <1>3, <1>6, <1>7, StepKeeps DEF Mine, Here

LEMMA RefreshKeeps == CycleInv /\ Refresh => CycleInv'
<1> SUFFICES ASSUME CycleInv, Refresh PROVE CycleInv'
  OBVIOUS
<1> DEFINE e == Mine  q == queue[cyc.o]  w == Here  a == cyc.o \in approved
           n == [cyc EXCEPT !.at = "lease"]
           r == [q EXCEPT !.reason = "none", !.live = TRUE]
           replay == Known(cyc.o) /\ Mine.cp \in Terminal /\ SettledAs(cyc.o, Mine.cp)
           reclaimed == q.state = "active" /\ queue' = [queue EXCEPT ![cyc.o] = r]
<1>1. cyc # Idle /\ cyc.at = "refresh" /\ UNCHANGED <<exec, work, approved, faults>>
  BY DEF Refresh, At
<1>2. cyc \in Cycle /\ cyc.o \in Outcomes /\ Sound(e, q, w, a, cyc) /\ q \in Row
  BY <1>1, MineSound DEF CycleInv, TypeOK
<1>3. \/ reclaimed /\ cyc' = n
      \/ UNCHANGED queue /\ (Live(cyc.o) \/ replay) /\ cyc' = n
      \/ UNCHANGED queue /\ cyc' = Idle
  <2>1. queue' = [queue EXCEPT ![cyc.o] = [@ EXCEPT !.reason = "none", !.live = TRUE]]
          => queue' = [queue EXCEPT ![cyc.o] = r]
    BY <1>2 DEF CycleInv, TypeOK
  <2> QED
    BY <2>1 DEF Refresh, Go, Active
<1>4. n \in Cycle /\ n # Idle /\ n.at = "lease" /\ n.o = cyc.o /\ n.catch = cyc.catch
  BY <1>2 DEF Cycle, Steps, Idle
<1>5. StoreIsSound(e, n) /\ WorkIsSound(e, w, n)
  <2> HIDE DEF e, q, w, a, n
  <2> QED
    BY <1>1, <1>2, <1>4 DEF Sound, StoreIsSound, WorkIsSound, Is, Settling, Parking, Doing,
      Delivering, Unmerged
<1>6. CASE reclaimed /\ cyc' = n
  <2>1. queue'[cyc.o] = r
    BY <1>2, <1>6 DEF CycleInv, TypeOK
  <2>2. r \in Row /\ r.state = q.state /\ r.reason = "none" /\ r.goal = q.goal
    BY <1>2 DEF Row
  <2>3. Sound(e, r, w, a, n)
    <3> HIDE DEF e, q, w, a, n, r
    <3>1. RowIsSound(e, r, w, a, n)
      BY <1>1, <1>2, <1>4, <1>6, <2>2 DEF Sound, RowIsSound, Is, Doing, Settled, Terminal
    <3> QED
      BY <1>2, <1>4, <1>5, <2>2, <3>1 DEF Sound, Types
  <2>4. Local(cyc.o)
    BY <1>1, <1>2, <1>4, <1>6 DEF Local, CycleInv, TypeOK, On
  <2> QED
    BY <1>1, <1>4, <1>6, <2>1, <2>3, <2>4, StepKeeps DEF Mine, Here
<1>7. CASE UNCHANGED queue /\ (Live(cyc.o) \/ replay) /\ cyc' = n
  <2>1. q.state = "active" \/ (Exists(e) /\ e.cp \in Terminal /\ Settled(q, e.cp))
    BY <1>7 DEF Live, Active, Known, Exists, SettledAs, Settled, Mine
  <2>2. Sound(e, q, w, a, n)
    <3> HIDE DEF e, q, w, a, n
    <3>1. RowIsSound(e, q, w, a, n)
      BY <1>1, <1>2, <1>4, <2>1 DEF Sound, RowIsSound, Is, Doing
    <3> QED
      BY <1>2, <1>4, <1>5, <3>1 DEF Sound, Types
  <2> QED
    BY <1>1, <1>4, <1>7, <2>2, GoKeeps
<1>8. CASE UNCHANGED queue /\ cyc' = Idle
  BY <1>1, <1>2, <1>8, DropSound, GoKeeps
<1> QED
  BY <1>3, <1>6, <1>7, <1>8

LEMMA LeaseKeeps == CycleInv /\ Lease => CycleInv'
<1> SUFFICES ASSUME CycleInv, Lease PROVE CycleInv'
  OBVIOUS
<1> DEFINE e == Mine  q == queue[cyc.o]  w == Here  a == cyc.o \in approved
           f == [(IF Known(cyc.o) THEN e ELSE New) EXCEPT !.lease = "HELD"]
           n == cyc'
<1>1. cyc # Idle /\ cyc.at = "lease" /\ UNCHANGED <<queue, work, approved, faults>>
  BY DEF Lease, At
<1>2. /\ cyc \in Cycle /\ cyc.o \in Outcomes /\ Sound(e, q, w, a, cyc) /\ q \in Row /\ w \in Work
      /\ (Known(cyc.o) <=> Exists(e)) /\ e \in Execution \cup {NoExecution}
  BY <1>1, MineSound DEF CycleInv, TypeOK, Known, Exists, Mine, Here
<1>3. \/ UNCHANGED exec /\ cyc' = Idle
      \/ /\ exec' = [exec EXCEPT ![cyc.o] = f] /\ Lead(f)
         /\ ~(Known(cyc.o) /\ e.lease \in {"HELD", "DEFERRED"})
  BY DEF Lease, Store
<1>4. CASE UNCHANGED exec /\ cyc' = Idle
  BY <1>1, <1>2, <1>4, DropSound, GoKeeps
<1>5. CASE /\ exec' = [exec EXCEPT ![cyc.o] = f] /\ Lead(f)
           /\ ~(Known(cyc.o) /\ e.lease \in {"HELD", "DEFERRED"})
  <2>1. /\ New \in Execution /\ New.walls = 0 /\ New.cleanups = 0 /\ New.head = FALSE
        /\ New.merged = FALSE /\ New.cp = "LEASED"
    BY BoundsAssumption DEF New, Execution, Leases, Checkpoints
  <2>2. /\ f \in Execution /\ Exists(f) /\ f.lease = "HELD"
        /\ \/ /\ Exists(e) /\ f.cp = e.cp /\ f.walls = e.walls /\ f.cleanups = e.cleanups
              /\ f.head = e.head /\ f.merged = e.merged
           \/ /\ ~Exists(e) /\ f.cp = "LEASED" /\ f.walls = 0 /\ f.cleanups = 0
              /\ f.head = FALSE /\ f.merged = FALSE
    BY <1>2, <2>1 DEF Execution, Exists, NoExecution, Leases
  <2>3. /\ n \in Cycle /\ n # Idle /\ n.o = cyc.o /\ n.catch # "fresh"
        /\ n.round <= MaxRounds
        /\ n.at = "settle" => f.cp \in Terminal
        /\ n.at = "park" => f.cp = "PROVIDER_UNAVAILABLE"
        /\ n.at \in {"cleanup", "discover"} => f.cp \notin Terminal \cup {"PROVIDER_UNAVAILABLE"}
        /\ n.at = "cleanup" => f.merged
        /\ n.at = "discover" => n.prior = f.cp
        /\ n.at \in {"settle", "park", "cleanup", "discover"}
    <3> HIDE DEF f
    <3>0. cyc.catch # "fresh"
      BY <1>1, <1>2 DEF Sound, StoreIsSound, Is, Doing, Settling
    <3>1. f.validationRound \in 0..MaxRounds /\ f.round \in 0..MaxRounds /\ f.cp \in Checkpoints
          /\ f.merged \in BOOLEAN
      BY <2>2 DEF Execution
    <3>2. ASSUME NEW step \in {"settle", "park", "cleanup"}, NEW catch \in {"none", "merged"}
          PROVE  LET m == Ending(step, catch) IN
                   /\ m \in Cycle /\ m # Idle /\ m.o = cyc.o /\ m.catch # "fresh"
                   /\ m.round <= MaxRounds /\ m.at = step
      BY <1>2, BoundsAssumption DEF Ending, Cycle, Steps, Checkpoints, Idle
    <3>3. LET m == [cyc EXCEPT !.at = "discover", !.prior = f.cp, !.recorded = f.round,
                               !.round = f.validationRound] IN
            /\ m \in Cycle /\ m # Idle /\ m.o = cyc.o /\ m.catch # "fresh"
            /\ m.round <= MaxRounds /\ m.at = "discover" /\ m.prior = f.cp
      <4>1. f.validationRound \in 0..MaxRounds + 1 /\ f.validationRound <= MaxRounds
        BY <3>1, BoundsAssumption
      <4> HIDE DEF q, w, a
      <4> QED
        BY <1>2, <3>0, <3>1, <4>1 DEF Cycle, Steps, Idle
    <3>4. CASE f.cp \in Terminal
      <4>1. Next0(f) = "settle"
        BY <3>1, <3>4 DEF Next0
      <4>2. cyc' = Ending("settle", "none")
        BY <1>5, <4>1 DEF Lead
      <4> QED
        BY <3>2, <3>4, <4>2
    <3>5. CASE f.cp = "PROVIDER_UNAVAILABLE"
      <4>1. Next0(f) = "park"
        BY <3>1, <3>5 DEF Next0, Terminal
      <4>2. cyc' = Ending("park", "none")
        BY <1>5, <4>1 DEF Lead
      <4> QED
        BY <3>2, <3>5, <4>2
    <3>6. CASE f.cp \notin Terminal \cup {"PROVIDER_UNAVAILABLE"} /\ f.merged
      <4>1. Next0(f) = "cleanup"
        BY <3>6 DEF Next0, Terminal
      <4>2. cyc' = Ending("cleanup", "merged")
        BY <1>5, <4>1 DEF Lead
      <4> QED
        BY <3>2, <3>6, <4>2
    <3>7. CASE f.cp \notin Terminal \cup {"PROVIDER_UNAVAILABLE"} /\ ~f.merged
      <4>1. Next0(f) = "discover"
        BY <3>7 DEF Next0
      <4>2. cyc' = [cyc EXCEPT !.at = "discover", !.prior = f.cp, !.recorded = f.round,
                               !.round = f.validationRound]
        BY <1>5, <4>1 DEF Lead
      <4> QED
        BY <3>3, <3>7, <4>2
    <3> QED
      BY <3>4, <3>5, <3>6, <3>7
  <2>4. Local(cyc.o) /\ exec'[cyc.o] = f
    BY <1>1, <1>2, <1>5, <2>3 DEF Local, CycleInv, TypeOK, On
  <2>5. Sound(f, q, w, a, n)
    <3>1. ~(Exists(e) /\ e.lease = "DEFERRED")
      BY <1>2, <1>5
    <3> HIDE DEF e, q, w, a, f, n
    <3>2. StoreIsSound(f, n)
      BY <1>1, <1>2, <2>2, <2>3, BoundsAssumption DEF Sound, StoreIsSound, Is, Settling, Parking,
        Doing
    <3>3. WorkIsSound(f, w, n)
      BY <1>1, <1>2, <2>2, <2>3 DEF Sound, WorkIsSound, Is, Doing, Delivering, Unmerged
    <3>4. RowIsSound(f, q, w, a, n)
      BY <1>1, <1>2, <2>2, <2>3, <3>1 DEF Sound, RowIsSound, Is, Doing, Terminal
    <3> QED
      BY <1>2, <2>2, <2>3, <3>2, <3>3, <3>4 DEF Sound, Types
  <2> QED
    BY <1>1, <2>3, <2>4, <2>5, StepKeeps DEF Mine, Here
<1> QED
  BY <1>3, <1>4, <1>5

-----------------------------------------------------------------------------
(* The invariant, and what it says.                                        *)

LEMMA InitSound == Init => CycleInv
<1> SUFFICES ASSUME Init PROVE CycleInv
  OBVIOUS
<1>1. TypeOK
  BY BoundsAssumption DEF Init, TypeOK, Row, Work
<1>2. ASSUME NEW o \in Outcomes
      PROVE  Sound(exec[o], queue[o], work[o], o \in approved, CycleOf(o))
  <2> DEFINE e == exec[o]  q == queue[o]  w == work[o]  a == o \in approved  c == CycleOf(o)
  <2>1. /\ e = NoExecution /\ ~Exists(e) /\ ~a /\ c = Idle
        /\ q.state = "approved" /\ q.goal = "classified"
        /\ w.commit = "none" /\ w.pr = "none" /\ q \in Row /\ w \in Work
    BY <1>1 DEF Init, CycleOf, On, Exists, TypeOK
  <2> HIDE DEF e, q, w, a, c
  <2>2. Types(e, q, w, c) /\ StoreIsSound(e, c)
    BY <2>1 DEF Types, StoreIsSound, Is
  <2>3. WorkIsSound(e, w, c)
    BY <2>1 DEF WorkIsSound, Is
  <2>4. RowIsSound(e, q, w, a, c)
    BY <2>1 DEF RowIsSound, Is
  <2> QED
    BY <2>2, <2>3, <2>4 DEF Sound, e, q, w, a, c
<1> QED
  BY <1>1, <1>2 DEF CycleInv

LEMMA StutterLeavesSound == CycleInv /\ UNCHANGED vars => CycleInv'
BY DEF CycleInv, TypeOK, vars, CycleOf, On

LEMMA CyclesKeep == CycleInv /\ Cycles => CycleInv'
BY StartDurableKeeps, StartApprovedKeeps, StartSelectedKeeps, ResumeKeeps, ReopenKeeps,
   RefreshKeeps, LeaseKeeps, DiscoverKeeps, PrepareKeeps, RecommitKeeps DEF Cycles

LEMMA TurnsKeep == CycleInv /\ Turns => CycleInv'
BY TurnKeeps, CodexEditsKeeps, CodexReportsKeeps, UsageLimitKeeps, ProviderWallKeeps,
   TerminalResultKeeps, HandOverKeeps, ValidationPassesKeeps, ValidationFailsKeeps,
   CommitKeeps, CreatedKeeps DEF Turns

LEMMA DeliveriesKeep == CycleInv /\ Deliveries => CycleInv'
BY PushKeeps, RequestKeeps, FindingsKeeps, ReviewedKeeps, DeliveryWallKeeps,
   StaleDeliveryWallKeeps, InspectKeeps, MergeKeeps, MergedKeeps, CleanupKeeps, CleanupFailsKeeps
   DEF Deliveries

LEMMA SettlementsKeep == CycleInv /\ Settlements => CycleInv'
BY SettleKeeps, SettleGoalKeeps, ReleaseKeeps, ParkKeeps, DeferKeeps, LostKeeps
   DEF Settlements

LEMMA MishapsKeep == CycleInv /\ Mishaps => CycleInv'
BY CodexIsRejectedKeeps, ThrowKeeps, DieKeeps, SuspendKeeps DEF Mishaps

LEMMA WorldLeavesSound == CycleInv /\ World => CycleInv'
BY ReviewArrivesKeeps, LeaseEndsKeeps, RowLeaseEndsKeeps, RetryTimePassesKeeps,
   OwnerApprovesKeeps DEF World

LEMMA NextKeeps == CycleInv /\ [Next]_vars => CycleInv'
BY StutterLeavesSound, CyclesKeep, TurnsKeep, DeliveriesKeep, SettlementsKeep, MishapsKeep,
   WorldLeavesSound DEF Next

\* Whatever dies, throws or is lost, the four places agree on every outcome as
\* far as CycleInv says.
THEOREM CycleInvariant == Spec => []CycleInv
<1>1. Init => CycleInv
  BY InitSound
<1>2. CycleInv /\ [Next]_vars => CycleInv'
  BY NextKeeps
<1> QED
  BY <1>1, <1>2, PTL DEF Spec

\* The store, the queue, the repository and the cycle stay what their types
\* say: the round of a cycle and both retry counters stop at their limits.
THEOREM TypeCorrect == Spec => []TypeOK
<1>1. CycleInv => TypeOK
  BY DEF CycleInv
<1> QED
  BY <1>1, CycleInvariant, PTL

\* No pull request is merged but of a commit the host validated and whose
\* review had come back: no edit and no recovery slips another commit in.
THEOREM OnlyCheckedWorkIsMerged == Spec => []MergedWorkWasChecked
<1>1. CycleInv => MergedWorkWasChecked
  BY DEF CycleInv, Sound, WorkIsSound, Verdicts, MergedWorkWasChecked
<1> QED
  BY <1>1, CycleInvariant, PTL

\* The store, the row and the goal of a released execution agree, although
\* three transactions settle them; a completed row has a merged pull request.
THEOREM SettlementsAgree == Spec => []SettledTogether
<1>1. CycleInv => SettledTogether
  <2> SUFFICES ASSUME CycleInv, NEW o \in Outcomes
               PROVE  /\ Known(o) /\ exec[o].lease = "RELEASED" =>
                           /\ SettledAs(o, exec[o].cp) \/ (o \in approved /\ Active(o))
                           /\ exec[o].cp = "COMPLETE" => queue[o].goal = "converted"
                           /\ exec[o].cp # "COMPLETE" =>
                                queue[o].goal = exec[o].cp \/ o \in approved
                      /\ queue[o].state = "completed" =>
                           Known(o) /\ exec[o].cp = "COMPLETE" /\ work[o].pr = "merged"
    BY DEF SettledTogether
  <2>1. RowIsSound(exec[o], queue[o], work[o], o \in approved, CycleOf(o))
    BY DEF CycleInv, Sound
  <2> QED
    BY <2>1 DEF RowIsSound, Known, Exists, SettledAs, Settled, Active
<1> QED
  BY <1>1, CycleInvariant, PTL

\* Nothing works on a row that is parked for a provider, beside which the queue
\* leases other outcomes, whatever order the two sides were written in.
THEOREM ParkedRowsAreIdle == Spec => []ParkedWorkIsIdle
<1>1. CycleInv => ParkedWorkIsIdle
  <2> SUFFICES ASSUME CycleInv, NEW o \in Outcomes, Parked(o)
               PROVE  /\ Known(o)
                      /\ exec[o].cp \in {"PROVIDER_UNAVAILABLE", "DEFERRED_PROVIDER_UNAVAILABLE"}
    BY DEF ParkedWorkIsIdle
  <2>1. RowIsSound(exec[o], queue[o], work[o], o \in approved, CycleOf(o))
    BY DEF CycleInv, Sound
  <2> QED
    BY <2>1 DEF RowIsSound, Parked, Live, Active, Known, Exists
<1> QED
  BY <1>1, CycleInvariant, PTL

\* A turn is dispatched only for an active row whose goal is undecided and
\* whose pull request is not merged, at whatever step the last cycle ended.
THEOREM NoTurnOnSettledWork == Spec => []TurnsAreHeld
<1>1. CycleInv => TurnsAreHeld
  <2> SUFFICES ASSUME CycleInv, At("codex")
               PROVE  /\ Active(cyc.o) /\ queue[cyc.o].goal = "classified"
                      /\ work[cyc.o].pr # "merged"
    BY DEF TurnsAreHeld
  <2>1. /\ Is(cyc, {"codex"}) /\ cyc.at = "codex"
        /\ RowIsSound(Mine, queue[cyc.o], Here, cyc.o \in approved, cyc)
        /\ WorkIsSound(Mine, Here, cyc)
    BY MineSound DEF At, Is, Sound
  <2> QED
    BY <2>1 DEF RowIsSound, WorkIsSound, Is, Doing, Unmerged, Active, Here
<1> QED
  BY <1>1, CycleInvariant, PTL
=============================================================================
