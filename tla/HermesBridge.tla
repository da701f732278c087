---------------------------- MODULE HermesBridge ----------------------------
(***************************************************************************)
(* The cycle of the Hermes supervisor: the one process that takes an       *)
(* approved outcome from the queue, has Codex work on it in a worktree of  *)
(* its own, validates and commits what Codex leaves there, has the pull    *)
(* request reviewed and merged, and settles the outcome.                   *)
(*                                                                         *)
(* What it knows is spread over four places that no transaction spans: its *)
(* own store (HermesStateStore), the queue's row (OutcomeQueue), the goal  *)
(* the row was derived from, and the repository with its pull request.  An *)
(* action below is one durable effect in one of them, so the process may   *)
(* die, or a call may throw, between any two of them; an answer that is    *)
(* lost is an effect followed by Throw.                                    *)
(*                                                                         *)
(* The exactness of bindings, versions and fences is the subject of those  *)
(* two modules; the kill switch, the operator's own changes of a row in    *)
(* work, and the recoveries granted on proofs are not modelled here.       *)
(***************************************************************************)
EXTENDS Integers, FiniteSets

CONSTANTS
  Outcomes,         \* the outcomes approved in the queue
  MaxRounds,        \* MAX_REMEDIATION_ROUNDS
  MaxRedispatches,  \* MAX_PROVIDER_REDISPATCHES
  MaxFaults         \* bound of deaths, thrown calls and suspensions

ASSUME BoundsAssumption ==
  MaxRounds \in Nat /\ MaxRedispatches \in Nat \ {0} /\ MaxFaults \in Nat

\* Results a Codex turn may report.
Results == {"READY_FOR_VALIDATION", "OWNER_DECISION_REQUIRED", "FAILED_TERMINAL",
            "RETRYABLE_PROVIDER_WALL"}

\* Checkpoints whose outcome the next cycle settles before anything else.
Terminal == {"COMPLETE", "FAILED_TERMINAL", "OWNER_DECISION_REQUIRED"}

\* "WORKING" stands for every checkpoint state the cycle never asks for again.
Checkpoints == Terminal \cup
  {"LEASED", "WORKING", "HOST_VALIDATION_STARTED", "HOST_VALIDATION_PASSED",
   "PROVIDER_UNAVAILABLE", "DEFERRED_PROVIDER_UNAVAILABLE"}

\* A lease of the store: held, or expired under its holder; deferred; released;
\* or free for a reclaim: given up, reopened, or deferred until a time now past.
Leases == {"HELD", "LAPSED", "DEFERRED", "FREE", "RELEASED"}

Execution ==
  [lease: Leases, cp: Checkpoints,
   turn: Results \cup {"none"},        \* turnResult: reported, not yet consumed
   head: BOOLEAN,                      \* headRefOid, the commit of the worktree
   round: 0..MaxRounds,                \* remediationRound
   validationRound: 0..MaxRounds,      \* validationRemediationRound
   walls: 0..MaxRedispatches,          \* providerRetryCount
   cleanups: 0..MaxRedispatches,       \* postMergeCleanupRetryCount
   merged: BOOLEAN,                    \* mergeSha
   resume: {"none", "PENDING", "ORPHANED"}]  \* ownerDecisionResumePhase; ORPHANED:
                                             \* PENDING, but its threadId is gone

NoExecution == [lease |-> "none"]

\* acquireLease's first state of an execution.
New ==
  [lease |-> "HELD", cp |-> "LEASED", turn |-> "none", head |-> FALSE, round |-> 0,
   validationRound |-> 0, walls |-> 0, cleanups |-> 0, merged |-> FALSE,
   resume |-> "none"]

\* The row of the outcome and the goal behind it; live: the row's lease runs.
Row ==
  [state: {"approved", "active", "blocked", "completed"},
   reason: {"none", "PROVIDER_UNAVAILABLE", "OWNER_DECISION_RESUMED",
            "FAILED_TERMINAL", "OWNER_DECISION_REQUIRED"},
   live: BOOLEAN,
   goal: {"classified", "converted", "FAILED_TERMINAL", "OWNER_DECISION_REQUIRED"}]

\* The worktree, its commit and the pull request; review is that of the commit,
\* "findings" as long as a thread is unresolved or a check fails.
Work ==
  [tree: {"clean", "edited", "checked"}, commit: {"none", "edited", "checked"},
   pr: {"none", "open", "merged"}, review: {"none", "asked", "clean", "findings"}]

VARIABLES
  exec,      \* [Outcomes -> Execution or NoExecution], the store
  queue,     \* [Outcomes -> Row]
  work,      \* [Outcomes -> Work], the repository and GitHub
  approved,  \* outcomes whose latest owner wall the owner approved
  cyc,       \* the cycle under way: see Cycle
  faults     \* deaths, thrown calls and suspensions so far

vars == <<exec, queue, work, approved, cyc, faults>>

Steps == {"resume", "reopen", "refresh", "lease", "discover", "prepare", "validate",
          "commit", "recommit", "created", "push", "request", "await", "merge",
          "merging", "merged", "cleanup", "turn", "codex", "result", "settle", "settleGoal",
          "release", "park", "defer"}

\* prior: the checkpoint the cycle found.  recorded: the round its lease carried.
\* catch: what the handler around the step can still do to the store.  "none":
\* there is none; "merged": the one around finalizeMerged; "fresh", "stale": the
\* one around the turns, whose sequence number is, or is no longer, the store's.
Cycle ==
  [at: Steps, o: Outcomes, prior: Checkpoints, recorded: 0..MaxRounds,
   round: 0..MaxRounds + 1, catch: {"none", "merged", "fresh", "stale"}]

Idle == [at |-> "idle"]

TypeOK ==
  /\ exec \in [Outcomes -> Execution \cup {NoExecution}]
  /\ queue \in [Outcomes -> Row]
  /\ work \in [Outcomes -> Work]
  /\ approved \in SUBSET Outcomes
  /\ cyc \in Cycle \cup {Idle}
  /\ faults \in 0..MaxFaults

Init ==
  /\ exec = [o \in Outcomes |-> NoExecution]
  /\ queue = [o \in Outcomes |->
       [state |-> "approved", reason |-> "none", live |-> FALSE,
        goal |-> "classified"]]
  /\ work = [o \in Outcomes |->
       [tree |-> "clean", commit |-> "none", pr |-> "none", review |-> "none"]]
  /\ approved = {}
  /\ cyc = Idle
  /\ faults = 0

-----------------------------------------------------------------------------
(* What the steps share.                                                   *)

Known(o) == exec[o] # NoExecution

\* The cycle's own outcome, its execution, row and work.
Mine == exec[cyc.o]
Here == work[cyc.o]

At(step) == cyc # Idle /\ cyc.at = step
On(o) == cyc # Idle /\ cyc.o = o

\* The cycle holds the store's lease: everything after the step "lease".
Working == cyc # Idle /\ cyc.at \notin {"resume", "reopen", "refresh", "lease"}

Fault == faults < MaxFaults /\ faults' = faults + 1

Go(step) == cyc' = [cyc EXCEPT !.at = step]

Store(e) == exec' = [exec EXCEPT ![cyc.o] = e]

\* What a checkpoint leaves the handler to write: its sequence is behind now.
Behind == IF cyc.catch = "fresh" THEN "stale" ELSE cyc.catch

\* The cycle goes on towards its end: what it found no longer matters.
Ending(step, catch) ==
  [at |-> step, o |-> cyc.o, prior |-> "LEASED", recorded |-> 0, round |-> 0,
   catch |-> catch]

\* The handler around the turns is entered, its sequence being the store's.
Turning(round) == [Ending("turn", "fresh") EXCEPT !.round = round]

\* The process gives up what it still holds on its way out.
GivenUp(e) == IF e.lease \in {"HELD", "LAPSED"} THEN [e EXCEPT !.lease = "FREE"] ELSE e

\* checkpoint(): refused once the lease lapsed.  When its projection cannot be
\* recorded, the lease is given up and the cycle ends.
Checkpoint(e, next) ==
  /\ Mine.lease = "HELD"
  /\ \/ Store(e) /\ cyc' = next /\ UNCHANGED faults
     \/ Store(GivenUp(e)) /\ cyc' = Idle /\ Fault

\* An error no branch of the handler knows: RETRYABLE_WALL is recorded, unless
\* the store's sequence moved on without the handler; the lease is given up.
Wall(e) ==
  /\ Store(GivenUp(IF cyc.catch = "fresh" /\ e.lease = "HELD"
                     THEN [e EXCEPT !.cp = "WORKING"] ELSE e))
  /\ cyc' = Idle

\* commitChanges: the review there was is of another commit.
CommitChanges ==
  work' = [work EXCEPT ![cyc.o] =
    [@ EXCEPT !.commit = Here.tree, !.tree = "clean", !.review = "none"]]

Min2(a, b) == IF a < b THEN a ELSE b
Max2(a, b) == IF a < b THEN b ELSE a

Active(o) == queue[o].state = "active"
Live(o) == Active(o) /\ queue[o].live
Parked(o) == Live(o) /\ queue[o].reason = "PROVIDER_UNAVAILABLE"

\* The settlement of the row that matches a terminal checkpoint.
SettledAs(o, cp) ==
  \/ cp = "COMPLETE" /\ queue[o].state = "completed"
  \/ cp # "COMPLETE" /\ queue[o].state = "blocked" /\ queue[o].reason = cp

-----------------------------------------------------------------------------
(* The start of a cycle: which outcome it is about.                        *)

Unreleased == {o \in Outcomes : Known(o) /\ exec[o].lease # "RELEASED"}

\* Released at an owner wall the owner has approved meanwhile.
Approvable ==
  {o \in approved : /\ Known(o) /\ exec[o].lease = "RELEASED"
                    /\ exec[o].cp = "OWNER_DECISION_REQUIRED"}

Begin(o, step) ==
  cyc' = [at |-> step, o |-> o, prior |-> "LEASED", recorded |-> 0, round |-> 0,
          catch |-> "none"]

\* Whatever is pending, reopened or deferred comes first, and alone: two of them
\* are HERMES_EXECUTION_CONCURRENCY_WALL, for good.
StartDurable(o) ==
  /\ cyc = Idle /\ Unreleased = {o}
  /\ Begin(o, "refresh")
  /\ UNCHANGED <<exec, queue, work, approved, faults>>

StartApproved(o) ==
  /\ cyc = Idle /\ Unreleased = {} /\ o \in Approvable
  /\ Begin(o, "resume")
  /\ UNCHANGED <<exec, queue, work, approved, faults>>

\* selectOutcome: an approved row, or an active one whose lease ended, is leased
\* under a new key; only provider waits may run beside it.
StartSelected(o) ==
  /\ cyc = Idle /\ Unreleased = {} /\ Approvable = {}
  /\ \/ queue[o].state = "approved" /\ \A p \in Outcomes : Active(p) => Parked(p)
     \/ Active(o) /\ ~Live(o) /\ ~Known(o)
  /\ \A p \in Outcomes : Live(p) => Parked(p)
  /\ queue' = [queue EXCEPT ![o] = [@ EXCEPT !.state = "active", !.reason = "none",
                                             !.live = TRUE]]
  /\ Begin(o, "refresh")
  /\ UNCHANGED <<exec, work, approved, faults>>

\* resumeOutcomeQueueAfterDecision: the blocked row, with no other lease running,
\* or the same resume once more while the lease it granted still runs.
Resume ==
  LET o == cyc.o IN
  /\ At("resume")
  /\ \/ /\ SettledAs(o, "OWNER_DECISION_REQUIRED")
        /\ \A p \in Outcomes \ {o} : ~Live(p)
        /\ queue' = [queue EXCEPT ![o] =
             [@ EXCEPT !.state = "active", !.reason = "OWNER_DECISION_RESUMED",
                       !.live = TRUE]]
        /\ Go("reopen")
     \/ /\ Live(o) /\ queue[o].reason = "OWNER_DECISION_RESUMED"
        /\ Go("reopen") /\ UNCHANGED queue
     \/ /\ ~Live(o)
        /\ \/ ~SettledAs(o, "OWNER_DECISION_REQUIRED")
           \/ \E p \in Outcomes \ {o} : Live(p)
        /\ cyc' = Idle /\ UNCHANGED queue
  /\ UNCHANGED <<exec, work, approved, faults>>

\* state.reopenOwnerDecisionWall.
Reopen ==
  /\ At("reopen")
  /\ Store([Mine EXCEPT !.lease = "FREE", !.cp = "WORKING", !.resume = "PENDING"])
  /\ Go("refresh")
  /\ UNCHANGED <<queue, work, approved, faults>>

FaultyRefresh ==  \* accepts a settled row without a look at the checkpoint
  LET o == cyc.o
      reclaimed == Active(o) /\ ~Live(o) IN
  /\ At("refresh")
  /\ queue' = IF reclaimed
                THEN [queue EXCEPT ![o] = [@ EXCEPT !.reason = "none", !.live = TRUE]]
                ELSE queue
  /\ Go("lease")
  /\ UNCHANGED <<exec, work, approved, faults>>

\* refreshQueueOutcome: the saved acquisition is replayed, or reclaimed once its
\* lease ended and no other runs; a row already settled is accepted only as the
\* replay of the same terminal checkpoint.  Anything else is a wall.
Refresh ==
  LET o == cyc.o
      replay == Known(o) /\ Mine.cp \in Terminal /\ SettledAs(o, Mine.cp)
      reclaimed == Active(o) /\ ~Live(o) /\ \A p \in Outcomes \ {o} : ~Live(p) IN
  /\ At("refresh")
  /\ IF reclaimed
       THEN queue' = [queue EXCEPT ![o] = [@ EXCEPT !.reason = "none", !.live = TRUE]]
       ELSE UNCHANGED queue
  /\ IF Live(o) \/ reclaimed \/ replay THEN Go("lease") ELSE cyc' = Idle
  /\ UNCHANGED <<exec, work, approved, faults>>

\* The step a leased execution goes on with.
Next0(e) ==
  IF e.cp \in Terminal THEN "settle"
  ELSE IF e.cp = "PROVIDER_UNAVAILABLE" THEN "park"
  ELSE IF e.merged THEN "cleanup" ELSE "discover"

Lead(e) ==
  LET step == Next0(e) IN
  cyc' = CASE step = "discover" ->
                [cyc EXCEPT !.at = step, !.prior = e.cp, !.recorded = e.round,
                            !.round = e.validationRound]
           [] step = "cleanup" -> Ending(step, "merged")
           [] OTHER -> Ending(step, "none")

\* acquireLease for an outcome new to the store, reclaimLease for one given up,
\* expired, due or reopened; otherwise the cycle ends with LEASE_HELD.
Lease ==
  LET e == [(IF Known(cyc.o) THEN Mine ELSE New) EXCEPT !.lease = "HELD"] IN
  /\ At("lease")
  /\ IF Known(cyc.o) /\ Mine.lease \in {"HELD", "DEFERRED"}
       THEN UNCHANGED exec /\ cyc' = Idle
       ELSE Store(e) /\ Lead(e)
  /\ UNCHANGED <<queue, work, approved, faults>>

-----------------------------------------------------------------------------
(* Picking up the work where the last cycle left it.                       *)

FaultyDiscover ==  \* does not look whether the pull request was merged
  /\ At("discover")
  /\ Checkpoint([Mine EXCEPT !.cp = "WORKING"], [cyc EXCEPT !.at = "prepare"])
  /\ UNCHANGED <<queue, work, approved>>

\* A pull request found merged is recorded; otherwise the worktree is made
\* ready, under checkpoints that replace the one that was found.
Discover ==
  /\ At("discover")
  /\ IF Here.pr = "merged"
       THEN Checkpoint([Mine EXCEPT !.cp = "WORKING", !.merged = TRUE, !.head = TRUE],
                       Ending("cleanup", "none"))
       ELSE Checkpoint([Mine EXCEPT !.cp = "WORKING"], [cyc EXCEPT !.at = "prepare"])
  /\ UNCHANGED <<queue, work, approved>>

FaultyPrepare ==  \* takes a validation that was started for one that passed
  LET Recover(step) == cyc' = [cyc EXCEPT !.at = step, !.prior = "LEASED"] IN
  /\ At("prepare")
  /\ IF cyc.prior \in {"HOST_VALIDATION_STARTED", "HOST_VALIDATION_PASSED"}
       THEN Recover("recommit")
     ELSE IF Mine.head /\ Here.tree = "clean"
       THEN Recover("push")
       ELSE cyc' = Turning(cyc.round)
  /\ UNCHANGED <<exec, queue, work, approved, faults>>

\* With a commit and a clean tree the delivery goes on, with edits Codex does;
\* an interrupted validation is run again, and a passed one is committed.
Prepare ==
  LET Recover(step) == cyc' = [cyc EXCEPT !.at = step, !.prior = "LEASED"] IN
  /\ At("prepare")
  /\ IF cyc.prior = "HOST_VALIDATION_STARTED"
       THEN Here.tree # "clean" /\ Recover("validate")
     ELSE IF cyc.prior = "HOST_VALIDATION_PASSED"
       THEN Recover("recommit")
     ELSE IF Mine.head /\ Here.tree = "clean"
       THEN Recover("push")
     ELSE IF Mine.head /\ Here.review = "findings"
       THEN \E r \in {cyc.round, Max2(cyc.round, cyc.recorded + 1)} : cyc' = Turning(r)
       ELSE cyc' = Turning(cyc.round)
  /\ UNCHANGED <<exec, queue, work, approved, faults>>

\* The validated edits, which this process or the one that died committed, are
\* recorded as the head to deliver.
Recommit ==
  /\ At("recommit")
  /\ \/ Here.tree # "clean" /\ CommitChanges /\ UNCHANGED <<exec, cyc, faults>>
     \/ /\ Here.tree = "clean" /\ Here.commit # "none"
        /\ Checkpoint([Mine EXCEPT !.head = TRUE], [cyc EXCEPT !.at = "push"])
        /\ UNCHANGED work
  /\ UNCHANGED <<queue, approved>>

-----------------------------------------------------------------------------
(* The turns: Codex edits, the host validates, commits and delivers.       *)

\* The result of a turn reported before is taken up without another; else the
\* thread is made ready.  An owner's resume needs the thread it was asked on.
Turn ==
  /\ At("turn")
  /\ IF cyc.round > MaxRounds \/ (Mine.turn = "none" /\ Mine.resume = "ORPHANED")
       THEN Wall(Mine) /\ UNCHANGED faults
     ELSE IF Mine.turn = "none"
       THEN Checkpoint([Mine EXCEPT !.cp = "WORKING"], [cyc EXCEPT !.at = "codex"])
       ELSE Go("result") /\ UNCHANGED <<exec, faults>>
  /\ UNCHANGED <<queue, work, approved>>

\* Codex writes into the worktree while the turn runs.
CodexEdits ==
  /\ At("codex") /\ Here.tree # "edited"
  /\ work' = [work EXCEPT ![cyc.o].tree = "edited"]
  /\ UNCHANGED <<exec, queue, approved, cyc, faults>>

\* ownerDecisionResumePhase CONSUMED: the resume is over.
Consumed(e) == [e EXCEPT !.resume = "none"]

\* CODEX_TURN_COMPLETED.
CodexReports(result) ==
  /\ At("codex")
  /\ Checkpoint(Consumed([Mine EXCEPT !.turn = result]), [cyc EXCEPT !.at = "result"])
  /\ UNCHANGED <<queue, work, approved>>

\* A result that does not parse consumes the resume all the same.
CodexIsRejected ==
  /\ At("codex") /\ Fault
  /\ Wall(Consumed(Mine))
  /\ UNCHANGED <<queue, work, approved>>

FaultyUnavailable(e) ==  \* tells the queue without recording the wait first
  /\ Mine.lease = "HELD" /\ Store([e EXCEPT !.turn = "none"])
  /\ cyc' = Ending("park", cyc.catch)
  /\ UNCHANGED faults

\* The wait of a provider or a delivery wall, recorded before it is settled.
Unavailable(e) ==
  Checkpoint([e EXCEPT !.cp = "PROVIDER_UNAVAILABLE", !.turn = "none",
                       !.resume = IF @ = "PENDING" THEN "ORPHANED" ELSE @],
             Ending("park", Behind))

\* A usage limit ends the turn; a delivery wall (review not in, or a git or
\* GitHub call failing) ends the delivery, as long as the handler's write lands.
UsageLimit ==
  /\ At("codex")
  /\ Unavailable(Mine)
  /\ UNCHANGED <<queue, work, approved>>

DeliveryWall ==
  /\ cyc # Idle /\ cyc.catch = "fresh"
  /\ \/ cyc.at = "await" /\ Here.review = "asked"
     \/ cyc.at \in {"commit", "push", "request", "merge", "merging", "merged"}
  /\ Unavailable(Mine)
  /\ UNCHANGED <<queue, work, approved>>

\* After the review was requested the sequence is behind: the write is refused.
StaleDeliveryWall ==
  /\ At("await") /\ Here.review = "asked" /\ cyc.catch # "fresh"
  /\ Wall(Mine)
  /\ UNCHANGED <<queue, work, approved, faults>>

ProviderWall ==
  LET e == [Mine EXCEPT !.walls = @ + 1] IN
  /\ At("result") /\ Mine.turn = "RETRYABLE_PROVIDER_WALL"
  /\ IF e.walls = MaxRedispatches
       THEN Unavailable(e)
       ELSE Checkpoint([e EXCEPT !.cp = "WORKING", !.turn = "none",
                                 !.lease = "FREE"], Idle)
  /\ UNCHANGED <<queue, work, approved>>

\* The outer sequence is advanced here, before the settlement is tried.
TerminalResult ==
  /\ At("result") /\ Mine.turn \in {"OWNER_DECISION_REQUIRED", "FAILED_TERMINAL"}
  /\ Checkpoint([Mine EXCEPT !.cp = Mine.turn, !.turn = "none", !.resume = "none"],
                Ending("settle", "fresh"))
  /\ UNCHANGED <<queue, work, approved>>

\* A hand-over without an edit fails the completion gate, and stays reported.
HandOver ==
  /\ At("result") /\ Mine.turn = "READY_FOR_VALIDATION"
  /\ IF Here.tree = "clean"
       THEN Wall(Mine) /\ UNCHANGED faults
       ELSE Checkpoint([Mine EXCEPT !.cp = "HOST_VALIDATION_STARTED", !.turn = "none",
                                    !.head = FALSE],
                       [cyc EXCEPT !.at = "validate"])
  /\ UNCHANGED <<queue, work, approved>>

\* finalizeTerminal, called with the sequence the handler does not share.
Finalize(e) ==
  Checkpoint([e EXCEPT !.cp = "FAILED_TERMINAL"],
             Ending("settle", Behind))

ValidationPasses ==
  /\ At("validate")
  /\ Checkpoint([Mine EXCEPT !.cp = "HOST_VALIDATION_PASSED", !.turn = "none",
                             !.head = FALSE, !.validationRound = 0],
                [cyc EXCEPT !.at = "commit"])
  /\ work' = [work EXCEPT ![cyc.o].tree = "checked"]
  /\ UNCHANGED <<queue, approved>>

ValidationFails ==
  /\ At("validate")
  /\ IF cyc.round >= MaxRounds
       THEN Finalize(Mine)
       ELSE Checkpoint([Mine EXCEPT !.cp = "WORKING", !.turn = "none",
                                    !.validationRound = cyc.round + 1],
                       Turning(cyc.round + 1))
  /\ UNCHANGED <<queue, work, approved>>

Commit ==
  /\ At("commit")
  /\ CommitChanges /\ Go("created")
  /\ UNCHANGED <<exec, queue, approved, faults>>

\* COMMIT_CREATED.
Created ==
  /\ At("created")
  /\ Checkpoint([Mine EXCEPT !.cp = "WORKING", !.head = TRUE,
                             !.round = Min2(cyc.round, MaxRounds)],
                [cyc EXCEPT !.at = "push"])
  /\ UNCHANGED <<queue, work, approved>>

-----------------------------------------------------------------------------
(* advanceCommittedHead and finalizeMerged.                                *)

\* The round a delivery is for: in a recovery the one its lease carried.
Round == IF cyc.catch = "none" THEN cyc.recorded ELSE cyc.round

Push ==
  /\ At("push") /\ Here.pr # "merged"
  /\ work' = [work EXCEPT ![cyc.o].pr = "open"]
  /\ Go(IF Here.review = "none" THEN "request" ELSE "await")
  /\ UNCHANGED <<exec, queue, approved, faults>>

\* requestCodexReview, then PR_REVIEW_REQUESTED.
Request ==
  /\ At("request")
  /\ \/ /\ Here.review = "none"
        /\ work' = [work EXCEPT ![cyc.o].review = "asked"]
        /\ UNCHANGED <<exec, cyc, faults>>
     \/ /\ Here.review # "none"
        /\ Checkpoint([Mine EXCEPT !.cp = "WORKING", !.round = Round],
                      [cyc EXCEPT !.at = "await", !.catch = Behind])
        /\ UNCHANGED work
  /\ UNCHANGED <<queue, approved>>

\* The reviewer and the checks answer.  They may object later on, after the
\* merge too, and their objections may be resolved.
ReviewArrives(o) ==
  /\ work[o].pr # "none" /\ work[o].review # "none"
  /\ \E verdict \in {"clean", "findings"} \ {work[o].review} :
       work' = [work EXCEPT ![o].review = verdict]
  /\ UNCHANGED <<exec, queue, approved, cyc, faults>>

Findings ==
  /\ At("await") /\ Here.review = "findings"
  /\ IF Round >= MaxRounds
       THEN Finalize(Mine)
       ELSE Checkpoint([Mine EXCEPT !.cp = "WORKING", !.round = Round],
                       Turning(Max2(cyc.round, Round + 1)))
  /\ UNCHANGED <<queue, work, approved>>

Reviewed ==
  /\ At("await") /\ Here.review = "clean"
  /\ Go("merge")
  /\ UNCHANGED <<exec, queue, work, approved, faults>>

\* mergePullRequest asks GitHub once more; then it merges, as long as the head is
\* the one it was told, whatever the review is by then.
Inspect ==
  /\ At("merge")
  /\ IF Here.review = "clean" THEN Go("merging") /\ UNCHANGED exec ELSE Wall(Mine)
  /\ UNCHANGED <<queue, work, approved, faults>>

Merge ==
  /\ At("merging")
  /\ work' = [work EXCEPT ![cyc.o].pr = "merged"]
  /\ Go("merged")
  /\ UNCHANGED <<exec, queue, approved, faults>>

\* A merged pull request with an unresolved thread is HERMES_PR_VERIFICATION_WALL.
Verified == Here.review # "findings"

\* PR_MERGED.
Merged ==
  /\ At("merged")
  /\ IF Verified
       THEN Checkpoint([Mine EXCEPT !.cp = "WORKING", !.merged = TRUE, !.head = TRUE],
                       Ending("cleanup", Behind))
       ELSE Wall(Mine) /\ UNCHANGED faults
  /\ UNCHANGED <<queue, work, approved>>

\* finalizeMerged verifies the merge again and removes the worktree; then COMPLETE.
\* The changed paths and the commit on origin/main, which it verifies too, are
\* what they were when the merge was allowed: asking for them may only throw.
Cleanup ==
  /\ At("cleanup")
  /\ IF Verified
       THEN Checkpoint([Mine EXCEPT !.cp = "COMPLETE"], Ending("settle", Behind))
       ELSE Wall(Mine) /\ UNCHANGED faults
  /\ UNCHANGED <<queue, work, approved>>

\* settlePostMergeCleanupFailure, which reads the sequence afresh.
CleanupFails ==
  LET e == [Mine EXCEPT !.cleanups = @ + 1] IN
  /\ At("cleanup") /\ Verified /\ cyc.catch \in {"merged", "stale"}
  /\ IF e.cleanups >= MaxRedispatches
       THEN Finalize(e)
       ELSE Checkpoint([e EXCEPT !.cp = "WORKING", !.lease = "FREE"], Idle)
  /\ UNCHANGED <<queue, work, approved>>

-----------------------------------------------------------------------------
(* Settlement: the queue's transaction, the goal's, and the lease.         *)

FaultySettle ==  \* takes any row that is no longer leased for settled
  LET o == cyc.o IN
  /\ At("settle")
  /\ queue' = IF Live(o)
       THEN [queue EXCEPT ![o] =
              [@ EXCEPT !.live = FALSE,
                        !.state = IF Mine.cp = "COMPLETE" THEN "completed" ELSE "blocked",
                        !.reason = IF Mine.cp = "COMPLETE" THEN "none" ELSE Mine.cp]]
       ELSE queue
  /\ Go("settleGoal")
  /\ UNCHANGED <<exec, work, approved, faults>>

\* An error of the queue is accepted if the row is settled exactly so already.
Settle ==
  LET o == cyc.o IN
  /\ At("settle")
  /\ \/ /\ Live(o)
        /\ queue' = [queue EXCEPT ![o] =
             [@ EXCEPT !.live = FALSE,
                       !.state = IF Mine.cp = "COMPLETE" THEN "completed" ELSE "blocked",
                       !.reason = IF Mine.cp = "COMPLETE" THEN "none" ELSE Mine.cp]]
        /\ Go("settleGoal") /\ UNCHANGED exec
     \/ SettledAs(o, Mine.cp) /\ Go("settleGoal") /\ UNCHANGED <<exec, queue>>
     \/ ~Live(o) /\ ~SettledAs(o, Mine.cp) /\ Wall(Mine) /\ UNCHANGED queue
  /\ UNCHANGED <<work, approved, faults>>

\* completeGoalOutcome and terminalizeGoalOutcome; a new owner wall has not been
\* decided on, whatever was decided before.  A goal settled otherwise is a wall,
\* except for the turn's own settlement, which ignores the answer.
SettleGoal ==
  LET o == cyc.o
      result == IF Mine.cp = "COMPLETE" THEN "converted" ELSE Mine.cp IN
  /\ At("settleGoal")
  /\ IF queue[o].goal \in {"classified", result}
       THEN /\ queue' = [queue EXCEPT ![o].goal = result]
            /\ approved' = IF queue[o].goal = "classified" /\ Mine.cp # "COMPLETE"
                             THEN approved \ {o} ELSE approved
            /\ Go("release") /\ UNCHANGED exec
       ELSE /\ IF cyc.catch = "fresh" THEN Go("release") /\ UNCHANGED exec ELSE Wall(Mine)
            /\ UNCHANGED <<queue, approved>>
  /\ UNCHANGED <<work, faults>>

Release ==
  /\ At("release")
  /\ Store([(IF Mine.cp = "OWNER_DECISION_REQUIRED" THEN Mine ELSE New)
             EXCEPT !.lease = "RELEASED", !.cp = Mine.cp])
  /\ cyc' = Idle
  /\ UNCHANGED <<queue, work, approved, faults>>

\* deferOutcome: the row keeps its lease, until the retry time.
Park ==
  /\ At("park")
  /\ IF Live(cyc.o)
       THEN /\ queue' = [queue EXCEPT ![cyc.o].reason = "PROVIDER_UNAVAILABLE"]
            /\ Go("defer") /\ UNCHANGED exec
       ELSE Wall(Mine) /\ UNCHANGED queue
  /\ UNCHANGED <<work, approved, faults>>

FaultyDefer ==  \* remembers the walls met before the wait
  /\ At("defer")
  /\ Store([Mine EXCEPT !.lease = "DEFERRED", !.cp = "DEFERRED_PROVIDER_UNAVAILABLE"])
  /\ cyc' = Idle
  /\ UNCHANGED <<queue, work, approved, faults>>

\* deferLease, which forgets the walls met so far.
Defer ==
  /\ At("defer")
  /\ Store([Mine EXCEPT !.lease = "DEFERRED", !.cp = "DEFERRED_PROVIDER_UNAVAILABLE",
                        !.walls = 0])
  /\ cyc' = Idle
  /\ UNCHANGED <<queue, work, approved, faults>>

-----------------------------------------------------------------------------
(* What goes wrong, what time does, and the owner.                         *)

\* A call throws, and the cycle unwinds.
Throw ==
  /\ cyc # Idle /\ Fault
  /\ IF Working THEN Wall(Mine) ELSE cyc' = Idle /\ UNCHANGED exec
  /\ UNCHANGED <<queue, work, approved>>

\* The process dies; its lease stays until it ends.
Die ==
  /\ cyc # Idle /\ Fault
  /\ cyc' = Idle
  /\ UNCHANGED <<exec, queue, work, approved>>

\* The host sleeps, and its leases end under the cycle.
Suspend ==
  /\ Working /\ Fault
  /\ Mine.lease = "HELD" /\ Store([Mine EXCEPT !.lease = "LAPSED"])
  /\ queue' = [queue EXCEPT ![cyc.o].live = FALSE]
  /\ UNCHANGED <<work, approved, cyc>>

\* What the store is asked for next is refused: LEASE_EXPIRED.
Lost ==
  /\ Working /\ Mine.lease = "LAPSED"
  /\ Wall(Mine)
  /\ UNCHANGED <<queue, work, approved, faults>>

LeaseEnds(o) ==
  /\ exec[o].lease = "HELD" /\ ~(Working /\ On(o))
  /\ exec' = [exec EXCEPT ![o].lease = "LAPSED"]
  /\ UNCHANGED <<queue, work, approved, cyc, faults>>

RowLeaseEnds(o) ==
  /\ Live(o) /\ exec[o].lease # "DEFERRED" /\ ~On(o)
  /\ queue' = [queue EXCEPT ![o].live = FALSE]
  /\ UNCHANGED <<exec, work, approved, cyc, faults>>

\* The retry time is the end of both leases of a deferred outcome.
RetryTimePasses(o) ==
  /\ exec[o].lease = "DEFERRED"
  /\ exec' = [exec EXCEPT ![o].lease = "FREE"]
  /\ queue' = [queue EXCEPT ![o].live = FALSE]
  /\ UNCHANGED <<work, approved, cyc, faults>>

\* recordOwnerDecision: refused while the lease is recorded as active, which it
\* stays when its holder died; the goal is classified again.
OwnerApproves(o) ==
  /\ queue[o].goal = "OWNER_DECISION_REQUIRED" /\ exec[o].lease \notin {"HELD", "LAPSED"}
  /\ queue' = [queue EXCEPT ![o].goal = "classified"]
  /\ approved' = approved \cup {o}
  /\ UNCHANGED <<exec, work, cyc, faults>>

-----------------------------------------------------------------------------

Cycles ==
  \/ \E o \in Outcomes : StartDurable(o) \/ StartApproved(o) \/ StartSelected(o)
  \/ Resume \/ Reopen \/ Refresh \/ Lease \/ Discover \/ Prepare \/ Recommit

Turns ==
  \/ Turn \/ CodexEdits \/ \E r \in Results : CodexReports(r)
  \/ UsageLimit \/ ProviderWall \/ TerminalResult \/ HandOver
  \/ ValidationPasses \/ ValidationFails \/ Commit \/ Created

Deliveries ==
  \/ Push \/ Request \/ Findings \/ Reviewed \/ DeliveryWall \/ StaleDeliveryWall
  \/ Inspect \/ Merge \/ Merged \/ Cleanup \/ CleanupFails

Settlements == Settle \/ SettleGoal \/ Release \/ Park \/ Defer \/ Lost

Mishaps == CodexIsRejected \/ Throw \/ Die \/ Suspend

World ==
  \E o \in Outcomes :
    ReviewArrives(o) \/ LeaseEnds(o) \/ RowLeaseEnds(o) \/ RetryTimePasses(o)
      \/ OwnerApproves(o)

Next == Cycles \/ Turns \/ Deliveries \/ Settlements \/ Mishaps \/ World

Spec == Init /\ [][Next]_vars

\* The supervisor is started again and again and goes on with what it started;
\* time passes.  Nothing is assumed of Codex, the reviewer and the owner.
Fairness ==
  /\ WF_vars(Cycles) /\ WF_vars(Deliveries) /\ WF_vars(Settlements)
  /\ \A o \in Outcomes :
       WF_vars(LeaseEnds(o)) /\ WF_vars(RowLeaseEnds(o)) /\ WF_vars(RetryTimePasses(o))

FairSpec == Spec /\ Fairness

-----------------------------------------------------------------------------
(* What must hold.                                                         *)

\* There is one fenced execution at a time: of two outcomes the store does not
\* show as released, a later cycle could take up neither
\* (HERMES_EXECUTION_CONCURRENCY_WALL).  An outcome is selected only when all
\* that was started is released, whatever was deferred, given up or reopened.
OneUnreleasedExecution ==
  \A o, p \in Outcomes :
    /\ Known(o) /\ exec[o].lease # "RELEASED"
    /\ Known(p) /\ exec[p].lease # "RELEASED"
    => o = p

\* What is merged is what the host validated, and the review of that very commit
\* had come back, in spite of edits after a validation and of commits made by a
\* cycle that died: advanceCommittedHead never asks where the commit came from.
\* That the review stayed clean until the merge is not promised: a thread opened
\* after mergePullRequest looked is merged with the rest.
MergedWorkWasChecked ==
  \A o \in Outcomes : work[o].pr = "merged" =>
    /\ work[o].commit = "checked" /\ work[o].review \in {"clean", "findings"}

\* A released execution, its row and its goal tell the same story, although they
\* are settled one after the other with failures between: the row and the goal
\* have the result of the checkpoint, or an owner decided since.  A row is
\* completed only for a merged pull request.
SettledTogether ==
  \A o \in Outcomes :
    /\ Known(o) /\ exec[o].lease = "RELEASED" =>
         /\ SettledAs(o, exec[o].cp) \/ (o \in approved /\ Active(o))
         /\ exec[o].cp = "COMPLETE" => queue[o].goal = "converted"
         /\ exec[o].cp # "COMPLETE" => queue[o].goal = exec[o].cp \/ o \in approved
    /\ queue[o].state = "completed" =>
         Known(o) /\ exec[o].cp = "COMPLETE" /\ work[o].pr = "merged"

\* A row parked for a provider, beside which other work may be leased, is not
\* being worked on: parkForProvider parks the store's side first and the row
\* second, and a reclaim of the row unparks it before the store is asked.
ParkedWorkIsIdle ==
  \A o \in Outcomes : Parked(o) =>
    Known(o) /\ exec[o].cp \in {"PROVIDER_UNAVAILABLE", "DEFERRED_PROVIDER_UNAVAILABLE"}

\* Codex works only for an active row whose goal is undecided and whose pull
\* request is not merged: no turn is dispatched on a stale acquisition, after an
\* owner wall that was not approved, or on delivered work found by a restart.
TurnsAreHeld ==
  At("codex") => /\ Active(cyc.o) /\ queue[cyc.o].goal = "classified"
                 /\ work[cyc.o].pr # "merged"

\* A merge is never lost: whatever dies or throws after GitHub merged, a later
\* cycle finds the pull request merged and settles the execution, once no thread
\* of it stays unresolved.  Until then every cycle ends at the verification
\* finalizeMerged repeats.
MergedIsSettled ==
  \A o \in Outcomes :
    <>[](work[o].pr = "merged" /\ work[o].review # "findings")
      => <>(Known(o) /\ exec[o].lease = "RELEASED")

\* A terminal checkpoint stands until the execution it ends is released: the next
\* cycle settles it instead of having Codex work again.
TerminalCheckpointsStand ==
  [][\A o \in Outcomes : Known(o) /\ exec[o].cp \in Terminal /\ exec'[o].cp # exec[o].cp
       => exec[o].lease = "RELEASED"]_vars
=============================================================================
