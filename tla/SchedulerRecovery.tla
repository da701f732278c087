--------------------------- MODULE SchedulerRecovery ---------------------------
(***************************************************************************)
(* recoverSchedulerTransactions: interrupted transactions are replayed in  *)
(* the order they began, then every claim of the state is compared with    *)
(* the stores and reclaimed or compensated; only then are the state and    *)
(* the journal written.  With it, the whole scheduler: its calls, one at a *)
(* time, and the mishaps that may befall them.                             *)
(***************************************************************************)
EXTENDS SchedulerOutcomes

FirstIdentities == {w \in Works : \E i \in DOMAIN journal :
  journal[i].op \in {"OUTCOME", "REAP_BATCH"} /\ Mentions(journal[i], w)}

StartRecovery ==
  /\ Begin([NoCall EXCEPT !.op = "RECOVER", !.at = 1, !.first = FirstIdentities], "replay")
  /\ jm' = journal /\ UNCHANGED journal

\* The transaction to replay next, and the work it is about.
Replayed == jm[call.at]
Subject == Replayed.works[1]

Replaying(op) ==
  /\ At("replay") /\ call.at <= Len(jm) /\ Replayed.op = op
  /\ UNCHANGED <<storeVars, sched, mishaps>>

\* The steps that follow for one work of transaction Replayed.
ReplayWork(w, kind, l) ==
  /\ Goto(l) /\ call' = [call EXCEPT !.w = w, !.kind = kind]
  /\ UNCHANGED <<journal, mem, jm>>

ReplayReconciliation ==
  /\ Replaying("STORE_RECONCILIATION")
  /\ ReplayNext(IF Subject \notin Holders(mem) \/ Healthy(mem, Subject)
                THEN Marked("COMMITTED") ELSE jm)

ReplaySchedule ==
  /\ Replaying("SCHEDULE")
  /\ IF mem[Subject].place # "NONE" THEN ReplayNext(Marked("COMMITTED"))
     ELSE /\ Goto("undoLease")
          /\ call' = [call EXCEPT !.undo =
               <<[w |-> Subject, res |-> Replayed.res, lease |-> Replayed.lease]>>]
          /\ UNCHANGED <<journal, mem, jm>>

RecoveryUndone ==
  /\ At("undone") /\ call.op = "RECOVER"
  /\ ReplayNext(Marked(UndoPhase))
  /\ UNCHANGED <<storeVars, sched, mishaps>>

\* Mutant: a released claim is answered again.
FaultyIsReleased == FALSE

\* What a pending answer has come to, by what it was and where its claim is.
IsReleased == mem[Subject].place = "RELEASED"

IsHeld == Replayed.phase = "RECONCILIATION_HELD"

ReplayReleased ==
  Replaying("OUTCOME") /\ IsReleased /\ ReplayNext(Marked("COMMITTED"))

\* The state on disk must still be the one in memory.
ReplayHeld ==
  /\ Replaying("OUTCOME") /\ ~IsReleased /\ IsHeld
  /\ ReplayNext(IF mem[Subject].rebound /\ mem = sched /\ RebindValid(mem, jm, Subject)
                THEN jm ELSE Marked("RECOVERY_REQUIRED"))

\* Mutant: a terminal answer that was interrupted counts as carried out.
FaultyReplayTerminal ==
  /\ Replaying("OUTCOME") /\ ~IsReleased /\ ~IsHeld /\ EndsClaim(Replayed.kind)
  /\ ReplayWork(Subject, Replayed.kind, "refree")

ReplayTerminal ==
  /\ Replaying("OUTCOME") /\ ~IsReleased /\ ~IsHeld /\ EndsClaim(Replayed.kind)
  /\ ReplayWork(Subject, Replayed.kind,
                IF lanes[Subject].status = "RELEASED" THEN "refree" ELSE "live")

\* The proof was authenticated for the lease the claim had then.
ProofStands ==
  /\ mem[Subject].place = "ACTIVE"
  /\ lanes[Subject].fence = Replayed.lease
  /\ lanes[Subject].status \in {"ACTIVE", "EXPIRED"}

ReplayAmbiguous ==
  /\ Replaying("OUTCOME") /\ ~IsReleased /\ ~IsHeld /\ Replayed.kind = "UNKNOWN"
  /\ IF ProofStands
     THEN ReplayWork(Subject, "UNKNOWN",
                     IF lanes[Subject].life = "REROUTE_PENDING" THEN "project" ELSE "live")
     ELSE ReplayNext(Marked("RECOVERY_REQUIRED"))

ReplayProgress ==
  /\ Replaying("OUTCOME") /\ ~IsReleased /\ ~IsHeld /\ Replayed.kind = "RUNNING"
  /\ jm' = Marked("COMMITTED") /\ Goto("replay")
  /\ IF mem[Subject].place = "ACTIVE"
     THEN /\ mem' = [mem EXCEPT ![Subject].life = lanes[Subject].life]
          /\ call' = [call EXCEPT !.at = @ + 1, !.changed = TRUE]
     ELSE UNCHANGED mem /\ call' = [call EXCEPT !.at = @ + 1]
  /\ UNCHANGED journal

ReplayReap ==
  /\ Replaying("REAP_BATCH")
  /\ call' = [call EXCEPT !.todo =
       Kept(Replayed.works,
            {i \in DOMAIN Replayed.works : mem[Replayed.works[i]].place # "RELEASED"})]
  /\ Goto("reapItem") /\ UNCHANGED <<journal, mem, jm>>

ReapItem ==
  /\ At("reapItem")
  /\ IF call.todo = <<>> THEN ReplayNext(Marked("COMMITTED"))
     ELSE LET w == Head(call.todo) IN
          ReplayWork(w, "FAILED", IF lanes[w].status = "RELEASED" THEN "refree" ELSE "live")
  /\ UNCHANGED <<storeVars, sched, mishaps>>

\* The reservation is released again, in case the crash came before that.
ReleaseAgain ==
  /\ At("refree")
  /\ LET w == call.w IN
     IF Replayed.op = "REAP_BATCH" /\ reserved[w] = 0
     THEN Goto("project") /\ UNCHANGED <<ledgerVars, journal, call, mem, jm, mishaps>>
     ELSE Try(MayFree(w, mem[w].res),
              Free(w, mem[w].res) /\ Goto("project") /\ UNCHANGED <<journal, call, mem, jm>>,
              /\ UNCHANGED ledgerVars
              /\ ReplayNext(IF Replayed.op = "REAP_BATCH" THEN jm
                            ELSE Marked("RECOVERY_REQUIRED")))
  /\ UNCHANGED <<laneVars, evidence, sched>>

\* applyDurableOutcomeProjection: the entry becomes what the lane and its
\* verified event say.
Projected(place, outcome) ==
  [AfterAnswer(mem, call.w, place, outcome) EXCEPT
     ![call.w].lease = lanes[call.w].fence,
     ![call.w].rebound = IF place = "RECONCILIATION" THEN lanes[call.w].fence # Replayed.lease
                         ELSE @]

ProjectReap ==
  /\ At("project") /\ Replayed.op = "REAP_BATCH"
  /\ IF HasOutcomeEvidence(call.w)
     THEN /\ mem' = Projected("RELEASED", "AMBIGUOUS_REAPED")
          /\ call' = [call EXCEPT !.todo = Tail(@), !.changed = TRUE]
          /\ Goto("reapItem") /\ UNCHANGED <<journal, jm>>
     ELSE ReplayNext(jm)
  /\ UNCHANGED <<storeVars, sched, mishaps>>

ProjectOutcome ==
  /\ At("project") /\ Replayed.op = "OUTCOME"
  /\ LET k == call.kind IN
     IF HasOutcomeEvidence(call.w)
     THEN /\ mem' = Projected(PlaceAfter(k), k)
          /\ jm' = Marked(IF mem'[call.w].rebound /\ k = "UNKNOWN"
                          THEN "RECONCILIATION_HELD" ELSE "COMMITTED")
          /\ call' = [call EXCEPT !.at = @ + 1, !.w = "NONE", !.kind = "NONE", !.changed = TRUE]
          /\ Goto("replay") /\ UNCHANGED journal
     ELSE RecoveryPhaseFails
  /\ UNCHANGED <<storeVars, sched, mishaps>>

-----------------------------------------------------------------------------
\* The divergence scan.
\* Mutant: a lane that is released has been seen to.
FaultyNeedsRepair(w) == lanes[w].status # "RELEASED" /\ ~Healthy(mem, w)

\* A fenced claim whose lease ran out is left to its owner.
NeedsRepair(w) ==
  /\ ~Healthy(mem, w)
  /\ ~(/\ mem[w].place = "RECONCILIATION" /\ Expired(mem, w)
       /\ ExactReservation(mem, w) /\ ExactEvidence(mem, w))

\* A claim whose only fault is an expired lease gets a new one.
MayResume(w) ==
  /\ Expired(mem, w) /\ mem[w].life \notin TerminalStates
  /\ ExactReservation(mem, w) /\ ExactEvidence(mem, w)

StartScan ==
  /\ At("replay") /\ call.at > Len(jm)
  /\ Goto("scan") /\ call' = [call EXCEPT !.left = Holders(mem) \ call.first]
  /\ UNCHANGED <<storeVars, sched, journal, mem, jm, mishaps>>

\* Active claims are looked at before the fenced ones.
NextInScan(w) ==
  w \in call.left /\ (mem[w].place = "ACTIVE" \/ \A v \in call.left : mem[v].place # "ACTIVE")

ScanHealthy(w) ==
  /\ At("scan") /\ NextInScan(w) /\ ~NeedsRepair(w)
  /\ call' = [call EXCEPT !.left = @ \ {w}]
  /\ UNCHANGED <<storeVars, sched, journal, pc, mem, jm, mishaps>>

\* What a recovery that stops here forgets although the journal, which the
\* scan has written, calls it done.
Forgotten ==
  IF call.wrote
  THEN {w \in Works : mem[w] # sched[w] /\ \A i \in DOMAIN journal :
          ~(journal[i].phase \notin ClosedPhases /\ Mentions(journal[i], w))}
  ELSE {}

\* The journal in memory, with the phases replay gave it, goes to disk here.
ScanRepair(w) ==
  /\ pc = "scan" /\ NextInScan(w) /\ NeedsRepair(w)
  /\ LET kind == IF MayResume(w) THEN "RECLAIM" ELSE "COMPENSATE" IN
     Try(TRUE,
         /\ jm' = Append(jm, Transaction("STORE_RECONCILIATION", <<w>>, kind, mem[w].lease))
         /\ journal' = Pending(jm')
         /\ call' = [call EXCEPT !.w = w, !.kind = kind, !.at = Len(jm'), !.wrote = TRUE]
         /\ Goto(IF kind = "RECLAIM" THEN "live" ELSE "compensate") /\ UNCHANGED <<mem, torn>>,
         EndCall(journal) /\ torn' = torn \cup Forgotten)
  /\ UNCHANGED <<storeVars, sched, orphans>>

Repaired ==
  /\ At("repaired")
  /\ Try(TRUE,
         /\ jm' = Marked("COMMITTED") /\ journal' = Pending(jm')
         /\ call' = [call EXCEPT !.left = @ \ {call.w}, !.w = "NONE", !.kind = "NONE", !.changed = TRUE]
         /\ Goto("scan") /\ UNCHANGED mem,
         RepairFails)
  /\ UNCHANGED <<storeVars, sched>>

\* compensateDivergentEntry: the lane is brought to a terminal checkpoint and
\* RELEASED, whatever it takes, before its reservation and its entry go.
CompensateExpire ==
  /\ At("compensate") /\ MayExpire(call.w, lanes[call.w].fence)
  /\ Try(TRUE,
         ExpireLease(call.w, lanes[call.w].fence) /\ UNCHANGED <<pc, journal, call, mem, jm>>,
         RepairFails /\ UNCHANGED laneVars)
  /\ UNCHANGED <<ledgerVars, evidence, sched>>

CompensateSettle ==
  /\ At("compensate") /\ MaySettle(call.w, lanes[call.w].fence)
  /\ Try(lanes[call.w].under = mem[call.w].res,
         SettleTerminalLease(call.w, lanes[call.w].fence) /\ UNCHANGED <<pc, journal, call, mem, jm>>,
         RepairFails /\ UNCHANGED laneVars)
  /\ UNCHANGED <<ledgerVars, evidence, sched>>

CompensateReclaim ==
  /\ At("compensate") /\ MayReclaim(call.w, lanes[call.w].fence)
  /\ Try(TRUE,
         /\ ReclaimLease(call.w, lanes[call.w].fence)
         /\ mem' = [mem EXCEPT ![call.w].lease = nextLeaseFence]
         /\ Goto("terminalize") /\ UNCHANGED <<journal, call, jm>>,
         RepairFails /\ UNCHANGED laneVars)
  /\ UNCHANGED <<ledgerVars, evidence, sched>>

Terminalize ==
  /\ \/ At("terminalize")
     \/ At("compensate") /\ Current(call.w, lanes[call.w].fence) /\ ~Terminal(call.w)
  /\ LET w == call.w
         f == lanes[w].fence
     IN Try(MayCheckpoint(w, f, "FAILED_TERMINAL"),
            /\ CheckpointLane(w, f, "FAILED_TERMINAL", mem[w].res)
            /\ Goto("compRelease") /\ UNCHANGED <<journal, call, mem, jm>>,
            RepairFails /\ UNCHANGED laneVars)
  /\ UNCHANGED <<ledgerVars, evidence, sched>>

CompensateRelease ==
  /\ \/ At("compRelease")
     \/ At("compensate") /\ Current(call.w, lanes[call.w].fence) /\ Terminal(call.w)
  /\ Try(Current(call.w, lanes[call.w].fence),
         /\ ReleaseLease(call.w, lanes[call.w].fence)
         /\ Goto("compensate") /\ UNCHANGED <<journal, call, mem, jm>>,
         RepairFails /\ UNCHANGED laneVars)
  /\ UNCHANGED <<ledgerVars, evidence, sched>>

CompensateFree ==
  /\ At("compensate") /\ lanes[call.w].status = "RELEASED"
  /\ LET w == call.w IN
     Try(Terminal(w),
         /\ IF reserved[w] = 0 THEN UNCHANGED ledgerVars ELSE Free(w, reserved[w])
         /\ mem' = [mem EXCEPT ![w].place = "RELEASED", ![w].lease = lanes[w].fence,
                               ![w].life = lanes[w].life,
                               ![w].outcome = "STORE_DIVERGENCE_COMPENSATED"]
         /\ Goto("repaired") /\ UNCHANGED <<journal, call, jm>>,
         RepairFails /\ UNCHANGED ledgerVars)
  /\ UNCHANGED <<laneVars, evidence, sched>>

Compensate ==
  \/ CompensateExpire \/ CompensateSettle \/ CompensateReclaim
  \/ Terminalize \/ CompensateRelease \/ CompensateFree

-----------------------------------------------------------------------------
\* What was torn is whole again, but for what this recovery has not scanned.
SaveRecovery ==
  /\ pc = "scan" /\ call.left = {}
  /\ IF ~call.changed
     THEN /\ Goto("saveJournal") /\ torn' = torn \cap call.first
          /\ UNCHANGED <<sched, journal, call, mem, jm, mishaps>>
     ELSE Try(TRUE,
              /\ sched' = mem /\ Goto("saveJournal") /\ torn' = torn \cap call.first
              /\ UNCHANGED <<journal, call, mem, jm>>,
              EndCall(journal) /\ torn' = torn \cup Forgotten /\ UNCHANGED sched)
  /\ UNCHANGED <<storeVars, orphans>>

SaveRecoveredJournal ==
  /\ At("saveJournal")
  /\ Try(TRUE, EndCall(jm), EndCall(journal))
  /\ UNCHANGED <<storeVars, sched>>

Recovery ==
  \/ ReplayReconciliation \/ ReplaySchedule \/ RecoveryUndone \/ ReplayReleased
  \/ ReplayHeld \/ ReplayTerminal \/ ReplayAmbiguous \/ ReplayProgress
  \/ ReplayReap \/ ReapItem \/ ReleaseAgain \/ ProjectReap \/ ProjectOutcome
  \/ StartScan \/ (\E w \in Works : ScanHealthy(w) \/ ScanRepair(w))
  \/ Repaired \/ Compensate \/ SaveRecovery \/ SaveRecoveredJournal

-----------------------------------------------------------------------------
\* The process dies: what it held in memory is gone, its lock is taken over.
Unjournaled ==
  IF call.op = "SCHEDULE" /\ call.w \in Works /\ NotJournaled(call.w) THEN {call.w} ELSE {}

Crash ==
  /\ pc # "idle" /\ mishaps < MaxMishaps /\ mishaps' = mishaps + 1
  /\ EndCall(journal)
  /\ orphans' = orphans \cup Unjournaled
  /\ torn' = torn \cup Forgotten
  /\ UNCHANGED <<storeVars, sched>>

Lapse(w) ==
  /\ mishaps < MaxMishaps /\ mishaps' = mishaps + 1
  /\ LeaseLapses(w)
  /\ UNCHANGED <<ledgerVars, evidence, sched, journal, pc, call, mem, jm, orphans, torn>>

Scheduling ==
  \/ Skip \/ BeginTransaction \/ AcquireReservation \/ NoteReservation
  \/ AcquireLaneLease \/ NoteLease \/ Dispatch \/ DispatchEvidence
  \/ SaveSchedule \/ CommitSchedule \/ UndoLease \/ UndoReservation \/ Undone

Batches == {b \in UNION {[1 .. n -> Works] : n \in 1 .. Cardinality(Works)} :
              \A i, j \in DOMAIN b : i # j => b[i] # b[j]}

\* Callers: operators of the command line, at any time.
Calls ==
  \/ \E b \in Batches : StartSchedule(b) \/ StartReap(b)
  \/ StartRecovery

\* The steps of the call that holds the lock.
Steps ==
  \/ Scheduling \/ PhaseOutcome \/ Recovery
  \/ SaveOutcome \/ CloseTransaction \/ SaveReap \/ SupersedeHeld

Next ==
  \/ Calls \/ Steps \/ Crash
  \/ \E w \in Works : Lapse(w)
  \/ \E w \in Works, k \in Answers : StartOutcome(w, k)

Init ==
  /\ LaneInit /\ LedgerInit
  /\ sched = [w \in Works |-> NoEntry]
  /\ journal = <<>> /\ evidence = {}
  /\ pc = "idle" /\ call = NoCall
  /\ mem = [w \in Works |-> NoEntry] /\ jm = <<>>
  /\ mishaps = 0
  /\ orphans = {} /\ torn = {}

Spec == Init /\ [][Next]_vars

-----------------------------------------------------------------------------
Entries == [place : Places, lease : Nat, res : Nat, life : LifecycleStates,
            ev : Nat \X Nat, rebound : BOOLEAN, outcome : Outcomes]

\* Every variable has the shape the source gives it, and tokens stay within
\* what the stores have issued.
TypeOK ==
  /\ lanes \in [Works -> Lanes] /\ lapsed \subseteq Works
  /\ reserved \in [Works -> 0 .. nextReservationFence - 1]
  /\ sched \in [Works -> Entries] /\ mem \in [Works -> Entries]
  /\ \A w \in Works : lanes[w].fence < nextLeaseFence /\ sched[w].lease < nextLeaseFence
  /\ \A w \in Works : sched[w].res < nextReservationFence
  /\ \A e \in evidence : e.w \in Works /\ e.fence < nextLeaseFence
  /\ mishaps \in 0 .. MaxMishaps
  /\ pc = "idle" => call = NoCall /\ jm = <<>> /\ Pending(journal) = journal

\* While a claim counts as unfinished no work whose reservation set conflicts
\* with its own holds anything, although the claim's own reservation may have
\* been released by a call that died before it wrote the state.
ClaimsDoNotCollide ==
  \A u \in Holders(sched), v \in Works :
    u # v /\ {u, v} \in Conflicts => reserved[v] = 0

\* The global budget bounds the workers that may be running, those with an
\* ambiguous answer included, whatever died or failed in between.
WithinCapacity == Cardinality(Holders(sched)) <= Capacity

\* A claim the state calls released is released in every store, under the
\* lifecycle the state reports.
ReleasedClaimsHoldNothing ==
  \A w \in Works : sched[w].place = "RELEASED" =>
    /\ reserved[w] = 0 /\ lanes[w].status = "RELEASED"
    /\ Terminal(w) /\ lanes[w].life = sched[w].life

\* Between calls, a claim still has its reservation as long as its lane is not
\* RELEASED.  If no transaction is pending for it, its lane is not, and has the
\* lifecycle the state reports; the lease of a fenced claim is the one the
\* state names.  A claim is exempt from this second part after a recovery died
\* between its journal and its state (recoverSchedulerTransactions), until one
\* that did not has scanned it: that one leaves no claim pointing at released
\* stores behind.
SettledClaimsMatchTheStores ==
  pc = "idle" => \A w \in Holders(sched) :
    /\ lanes[w].status # "RELEASED" =>
         lanes[w].status \in {"ACTIVE", "EXPIRED"} /\ reserved[w] = sched[w].res
    /\ \/ w \in torn \/ OpenFor(w)
       \/ /\ lanes[w].status # "RELEASED" /\ lanes[w].life = sched[w].life
          /\ sched[w].place = "RECONCILIATION" => lanes[w].fence = sched[w].lease

\* Between calls, what the stores hold is claimed by the state or by a pending
\* transaction, except where the fence was lost before it was journaled.
ClaimsAreTraceable ==
  pc = "idle" => \A w \in Works \ orphans :
    reserved[w] # 0 \/ lanes[w].status = "ACTIVE" =>
      w \in Holders(sched) \/ OpenFor(w)

\* A claim is made once and only goes forward: what is fenced is not handed
\* back to a worker and what is released stays as it was reported.
ClaimsOnlyAdvance == [][\A w \in Works :
  /\ sched[w].place = "RELEASED" => sched'[w] = sched[w]
  /\ sched[w].place = "RECONCILIATION" => sched'[w].place \in {"RECONCILIATION", "RELEASED"}
  /\ sched[w].place = "ACTIVE" => sched'[w].place # "NONE"]_vars

\* What the report says of a second recovery: it is healthy.  A claim whose
\* lane and reservation are what the state says and whose lease is current is
\* not compensated.
HealthyClaimsAreKept ==
  pc = "compensate" =>
    ~(ExactLane(mem, call.w) /\ ExactReservation(mem, call.w) /\ Current(call.w, mem[call.w].lease))
=============================================================================
