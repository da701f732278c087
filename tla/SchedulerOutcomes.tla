--------------------------- MODULE SchedulerOutcomes ---------------------------
(***************************************************************************)
(* What the scheduler does with a provider's answer: recordProviderOutcome *)
(* for an active claim and reapAmbiguousOutcomes for claims whose answer   *)
(* was ambiguous and whose deadline has passed.  Both write the lane's     *)
(* checkpoints, the evidence and the releases through phaseOutcome, which  *)
(* they run a second time when the first ends in an error.  Recovery runs  *)
(* it too (SchedulerRecovery).                                             *)
(***************************************************************************)
EXTENDS EligibleSetScheduler

\* assessEntryStores, for the entry s[w] of a scheduler state.
ExactLane(s, w) ==
  /\ lanes[w].fence = s[w].lease /\ lanes[w].life = s[w].life
  /\ lanes[w].under = s[w].res
ExactReservation(s, w) == reserved[w] # 0 /\ reserved[w] = s[w].res
ExactEvidence(s, w) == s[w].ev = <<s[w].lease, lanes[w].seq>>
Expired(s, w) ==
  ExactLane(s, w) /\ (lanes[w].status = "EXPIRED" \/ MayExpire(w, s[w].lease))
Healthy(s, w) ==
  /\ ExactLane(s, w) /\ ExactReservation(s, w) /\ ExactEvidence(s, w)
  /\ Current(w, s[w].lease)

\* latestDurableOutcomeEvidence: an answer's event about the lane as it is.
HasOutcomeEvidence(w) == Event("PROVIDER", w) \in evidence

\* validateReconciliationLeaseRebind: the held transaction that moved the
\* claim to its present lease, with nothing about the work after it.
RebindValid(s, j, w) ==
  /\ s[w].place = "RECONCILIATION" /\ lanes[w].fence = s[w].lease
  /\ HasOutcomeEvidence(w)
  /\ \E i \in DOMAIN j :
       /\ j[i].op = "OUTCOME" /\ j[i].phase = "RECONCILIATION_HELD" /\ Mentions(j[i], w)
       /\ \A k \in i + 1 .. Len(j) : ~Mentions(j[k], w)

-----------------------------------------------------------------------------
\* Where phaseOutcome returns to, and where its errors go.
ReplayNext(j) ==
  /\ jm' = j /\ Goto("replay")
  /\ call' = [call EXCEPT !.at = @ + 1, !.todo = <<>>, !.w = "NONE", !.kind = "NONE",
                          !.targets = <<>>, !.undo = <<>>, !.failed = FALSE]
  /\ UNCHANGED <<journal, mem>>
Marked(phase) == [jm EXCEPT ![call.at].phase = phase]

\* A repair of recovery's scan failed: its transaction says so, durably.
RepairFails ==
  /\ jm' = Marked("RECOVERY_REQUIRED") /\ journal' = Pending(jm')
  /\ Goto("scan") /\ call' = [call EXCEPT !.left = @ \ {call.w}, !.w = "NONE", !.kind = "NONE"]
  /\ UNCHANGED mem

\* The answer of a terminal claim is replayed outside of any try: an error
\* there ends the whole recovery.
RecoveryPhaseFails ==
  LET t == jm[call.at] IN
  CASE t.op = "STORE_RECONCILIATION" -> RepairFails
    [] t.op = "REAP_BATCH" -> ReplayNext(jm)
    [] t.op = "OUTCOME" /\ t.kind = "UNKNOWN" -> ReplayNext(Marked("RECOVERY_REQUIRED"))
    [] OTHER -> EndCall(journal)

\* The first error is met with a second attempt, which begins with the
\* reservation when the lane is released already.
PhaseFails ==
  IF call.op = "RECOVER" THEN RecoveryPhaseFails
  ELSE IF call.second
  THEN EndCall([journal EXCEPT ![Len(journal)].phase = "RECOVERY_REQUIRED"])
  ELSE /\ Goto(IF EndsClaim(call.kind) /\ lanes[call.w].status = "RELEASED" THEN "free" ELSE "live")
       /\ call' = [call EXCEPT !.second = TRUE, !.targets = <<>>]
       /\ UNCHANGED <<journal, mem, jm>>

AfterAnswer(s, w, place, outcome) ==
  [s EXCEPT ![w].place = place, ![w].life = lanes[w].life, ![w].outcome = outcome,
            ![w].ev = <<lanes[w].fence, lanes[w].seq>>]

ReapedNext ==
  /\ mem' = AfterAnswer(mem, call.w, "RELEASED", "AMBIGUOUS_REAPED")
  /\ LET rest == Tail(call.todo) IN
     /\ call' = [call EXCEPT !.todo = rest, !.second = FALSE,
                             !.w = IF rest = <<>> THEN "NONE" ELSE Head(rest)]
     /\ Goto(IF rest = <<>> THEN "saveReap" ELSE "live")
  /\ UNCHANGED <<journal, jm>>

PhaseDone ==
  CASE call.op = "REAP_BATCH" -> ReapedNext
    [] call.op = "OUTCOME" -> Goto("apply") /\ UNCHANGED <<journal, call, mem, jm>>
    [] OTHER -> /\ Goto(IF EndsClaim(call.kind) THEN "refree" ELSE "project")
                /\ UNCHANGED <<journal, call, mem, jm>>

-----------------------------------------------------------------------------
\* liveLaneForMutation
SameLease == lanes[call.w].status # "NONE" /\ lanes[call.w].fence = mem[call.w].lease

ExpireLapsed ==
  /\ At("live") /\ SameLease /\ MayExpire(call.w, mem[call.w].lease)
  /\ Try(TRUE,
         ExpireLease(call.w, mem[call.w].lease) /\ UNCHANGED <<pc, journal, call, mem, jm>>,
         PhaseFails /\ UNCHANGED laneVars)
  /\ UNCHANGED <<ledgerVars, evidence, sched>>

ReclaimExpired ==
  /\ At("live") /\ SameLease /\ MayReclaim(call.w, mem[call.w].lease)
  /\ Try(TRUE,
         /\ ReclaimLease(call.w, mem[call.w].lease)
         /\ mem' = [mem EXCEPT ![call.w].lease = nextLeaseFence]
         /\ Goto("reclaimEvidence") /\ UNCHANGED <<journal, call, jm>>,
         PhaseFails /\ UNCHANGED laneVars)
  /\ UNCHANGED <<ledgerVars, evidence, sched>>

ReclaimEvidence ==
  /\ At("reclaimEvidence")
  /\ LET w == call.w IN
     Try(Current(w, mem[w].lease),
         /\ evidence' = evidence \cup {Event("WORKER", w)}
         /\ mem' = [mem EXCEPT ![w].ev = <<lanes[w].fence, lanes[w].seq>>]
         /\ Goto("targets") /\ UNCHANGED <<journal, call, jm>>,
         PhaseFails /\ UNCHANGED evidence)
  /\ UNCHANGED <<laneVars, ledgerVars, sched>>

\* A finished lane is answered even if its lease is on record as expired.
LaneIsLive ==
  /\ At("live") /\ SameLease
  /\ Current(call.w, mem[call.w].lease) \/ MaySettle(call.w, mem[call.w].lease)
  /\ Goto("targets")
  /\ UNCHANGED <<storeVars, sched, journal, call, mem, jm, mishaps>>

NoLiveLane ==
  /\ At("live") /\ (~SameLease \/ lanes[call.w].status = "RELEASED")
  /\ PhaseFails
  /\ UNCHANGED <<storeVars, sched, mishaps>>

-----------------------------------------------------------------------------
\* phaseOutcome, once the lane is live
CompletionPath ==
  <<"PROVIDER_DISPATCHED", "EXECUTING", "VALIDATING", "PR_OPEN",
    "INDEPENDENT_REVIEW", "MERGE_ELIGIBLE", "MERGED", "VERIFIED", "COMPLETE",
    "DEPENDENTS_RELEASED">>

OnPath(life) == \E i \in DOMAIN CompletionPath : CompletionPath[i] = life
PathAfter(life) ==
  LET i == CHOOSE i \in DOMAIN CompletionPath : CompletionPath[i] = life
  IN  SubSeq(CompletionPath, i + 1, Len(CompletionPath))

TargetsOf(k, life) ==
  CASE k = "UNKNOWN" -> <<"REROUTE_PENDING">>
    [] k = "RUNNING" -> IF life = "PROVIDER_DISPATCHED" THEN <<"EXECUTING">> ELSE <<>>
    [] k = "FAILED" -> IF life = "FAILED_TERMINAL" THEN <<>> ELSE <<"FAILED_TERMINAL">>
    [] k = "SUCCEEDED" -> PathAfter(life)

\* An ambiguous answer needs a proof of the very lease the lane has now.
MayAnswer(w) ==
  /\ call.need = 0 \/ mem[w].lease = call.need
  /\ call.kind = "SUCCEEDED" => OnPath(lanes[w].life)

ChooseTargets ==
  /\ At("targets")
  /\ IF call.kind = "RECLAIM" THEN Goto("repaired") /\ UNCHANGED <<journal, call, mem, jm>>
     ELSE IF ~MayAnswer(call.w) THEN PhaseFails
     ELSE LET targets == TargetsOf(call.kind, lanes[call.w].life) IN
          /\ call' = [call EXCEPT !.targets = targets]
          /\ Goto(IF targets = <<>> THEN "outcomeEvidence" ELSE "checkpoint")
          /\ UNCHANGED <<journal, mem, jm>>
  /\ UNCHANGED <<storeVars, sched, mishaps>>

Checkpoint ==
  /\ At("checkpoint")
  /\ LET w == call.w
         to == Head(call.targets)
         rest == Tail(call.targets)
     IN Try(MayCheckpoint(w, mem[w].lease, to),
            /\ CheckpointLane(w, mem[w].lease, to, mem[w].res)
            /\ call' = [call EXCEPT !.targets = rest]
            /\ Goto(IF rest = <<>> THEN "outcomeEvidence" ELSE "checkpoint")
            /\ UNCHANGED <<journal, mem, jm>>,
            PhaseFails /\ UNCHANGED laneVars)
  /\ UNCHANGED <<ledgerVars, evidence, sched>>

OutcomeEvidence ==
  /\ At("outcomeEvidence")
  /\ Try(Current(call.w, mem[call.w].lease),
         /\ evidence' = evidence \cup {Event("PROVIDER", call.w)}
         /\ IF EndsClaim(call.kind) THEN Goto("release") /\ UNCHANGED <<journal, call, mem, jm>>
            ELSE PhaseDone,
         PhaseFails /\ UNCHANGED evidence)
  /\ UNCHANGED <<laneVars, ledgerVars, sched>>

ReleaseAnswered ==
  /\ At("release")
  /\ Try(Current(call.w, mem[call.w].lease) /\ Terminal(call.w),
         /\ ReleaseLease(call.w, mem[call.w].lease)
         /\ Goto("free") /\ UNCHANGED <<journal, call, mem, jm>>,
         PhaseFails /\ UNCHANGED laneVars)
  /\ UNCHANGED <<ledgerVars, evidence, sched>>

FreeAnswered ==
  /\ At("free")
  /\ Try(MayFree(call.w, mem[call.w].res),
         Free(call.w, mem[call.w].res) /\ PhaseDone,
         PhaseFails /\ UNCHANGED ledgerVars)
  /\ UNCHANGED <<laneVars, evidence, sched>>

PhaseOutcome ==
  \/ ExpireLapsed \/ ReclaimExpired \/ ReclaimEvidence \/ LaneIsLive \/ NoLiveLane
  \/ ChooseTargets \/ Checkpoint \/ OutcomeEvidence \/ ReleaseAnswered \/ FreeAnswered

-----------------------------------------------------------------------------
\* recordProviderOutcome: the claim's fences are those of its active entry, and
\* the owner's proof of an ambiguous answer names a lease that is current.
StartOutcome(w, k) ==
  /\ sched[w].place = "ACTIVE" /\ Len(journal) < MaxJournal
  /\ k = "UNKNOWN" => Current(w, sched[w].lease)
  /\ Begin([NoCall EXCEPT !.op = "OUTCOME", !.w = w, !.kind = k,
                          !.need = IF k = "UNKNOWN" THEN sched[w].lease ELSE 0], "live")
  /\ journal' = Append(journal, Transaction("OUTCOME", <<w>>, k, sched[w].lease))
  /\ UNCHANGED jm

PlaceAfter(k) ==
  CASE k = "UNKNOWN" -> "RECONCILIATION" [] k = "RUNNING" -> "ACTIVE" [] OTHER -> "RELEASED"

\* A state write that fails is repeated once.
SaveOutcome ==
  /\ At("apply")
  /\ Try(TRUE,
         /\ mem' = AfterAnswer(mem, call.w, PlaceAfter(call.kind), call.kind)
         /\ sched' = mem' /\ Goto("close") /\ UNCHANGED <<journal, call, jm>>,
         /\ EndCall([journal EXCEPT ![Len(journal)].phase = "RECOVERY_REQUIRED"])
         /\ UNCHANGED sched)
  /\ UNCHANGED storeVars

CloseTransaction ==
  /\ At("close")
  /\ Try(TRUE, EndCall([journal EXCEPT ![Len(journal)].phase = "COMMITTED"]), EndCall(journal))
  /\ UNCHANGED <<storeVars, sched>>

\* reapAmbiguousOutcomes, for claims whose deadlines have passed: the whole
\* batch is validated before the first claim is touched.
Reapable(w) ==
  /\ sched[w].place = "RECONCILIATION"
  /\ lanes[w].status \in {"ACTIVE", "EXPIRED"}
  /\ ExactLane(sched, w) /\ ExactReservation(sched, w) /\ ExactEvidence(sched, w)
  /\ sched[w].rebound => RebindValid(sched, journal, w)

StartReap(batch) ==
  /\ Len(journal) < MaxJournal /\ \A i \in DOMAIN batch : Reapable(batch[i])
  /\ Begin([NoCall EXCEPT !.op = "REAP_BATCH", !.todo = batch, !.w = Head(batch),
                          !.kind = "FAILED", !.made = batch], "live")
  /\ journal' = Append(journal, Transaction("REAP_BATCH", batch, "FAILED", 0))
  /\ UNCHANGED jm

SaveReap ==
  /\ At("saveReap")
  /\ Try(TRUE,
         sched' = mem /\ Goto("supersede") /\ UNCHANGED <<journal, call, mem, jm>>,
         EndCall(journal) /\ UNCHANGED sched)
  /\ UNCHANGED storeVars

\* The transactions that held the reaped claims are done with.
Superseded(t) ==
  t.phase = "RECONCILIATION_HELD" /\ \E i \in DOMAIN call.made :
    Mentions(t, call.made[i]) /\ mem[call.made[i]].rebound

SupersedeHeld ==
  /\ At("supersede")
  /\ Try(TRUE,
         /\ journal' = [i \in DOMAIN journal |->
              IF Superseded(journal[i]) THEN [journal[i] EXCEPT !.phase = "SUPERSEDED_BY_REAP"]
              ELSE journal[i]]
         /\ Goto("close") /\ UNCHANGED <<call, mem, jm>>,
         EndCall(journal))
  /\ UNCHANGED <<storeVars, sched>>
=============================================================================
