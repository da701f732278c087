# A verification development of WilliamOS

WilliamOS is a console for governed AI work: an operator approves *outcomes*, a
supervisor on a host ("the Hermes bridge") takes them from a queue, drives a
model and a repository until the outcome is merged, and leaves evidence of
every step. A second family of programs (the multi-agent operator) schedules
many lanes of work over one host. This directory holds TLA+ models of the
protocols those programs rely on, the TLC runs that check them on small
instances, and TLAPS proofs of the results that matter most.

    tlc -workers 2 -config MCHermesStateStore.cfg   MCHermesStateStore    # a run
    tlapm HermesStateStoreProofs.tla                                      # a proof

`PROJECT.json` says, definition by definition, which source lines a definition
stands for, and lists the runs, the mutants that show each property can fail,
the hazards and the theorems.

## 1. Inventory of the system

The repository has some 3300 files. Code with state that survives a step, or
that several processes share, is in `lib/` and `scripts/`.

| Part | State it keeps | Operations | What is hard |
|---|---|---|---|
| **Hermes state store** `scripts/hermes-bridge/state-store.mjs` | one JSON file: executions (fence, lease, checkpoint, metadata), `nextFencingToken`, kill switch, owner-touch counters, idempotency table | lease: acquire, reclaim, renew, release, abandon, defer; checkpoint; a dozen recoveries; kill switch; owner touch | holders that wake up late, expiry, the wall clock stepping back, recoveries in several transactions, retried requests |
| **Store file lock** (same file, `withLock`, `mutate`, `atomicWrite`) | `file.lock`, the file itself | open exclusively, stat, unlink a stale lock, read, rename into place, unlink | two processes finding the same stale lock, a crash between any two calls, an unlink that hits somebody else's lock |
| **Outcome queue** `scripts/hermes-bridge/outcome-queue-source.mjs`, `outcome-queue-runtime.mjs`, `lib/outcome-queue`, `app/actions` | table rows: state, version, lease, fence, acquisition key, authorization, dependencies; the binding each supervisor saved | acquire, reclaim, defer, terminalize, complete, three resumes, two reclaims of them, renewal of campaign grants; enqueue, approve, pause, decline, supersede, rebind, dependencies | the answer of a committed transaction lost, retries under the same key, the operator editing under a supervisor, leases and grants running out |
| **Supervisor cycle** `orchestrator.mjs` | a worktree; for the rest it reads and writes the store, the queue, the goal behind the row and the pull request | one cycle: select or take up again, lease, have Codex work, validate, commit, push, review, merge, clean up, settle, park | four places and no transaction that spans two; a death or a thrown call between any two; what an interrupted cycle left behind, found by the next |
| **Outcome source** `outcome-source.mjs` | work orders, recovery receipts | project, recover, settle | replays, conflicting receipts |
| **Repository lifecycle** `repository-lifecycle.mjs` | git, GitHub | branch, commit, push, PR, merge, cleanup | each step can have succeeded without an answer |
| **Directory lock** of the multi-agent operator (`lane-lease-checkpoint.mjs`, `reservation-ledger.mjs`, `evidence-ledger.mjs`) | a directory and `owner.json` in it | mkdir, write owner, stat, read owner, rename away, remove | three copies that disagree on what "abandoned" means |
| **Scheduler lock** `scheduler-lock-lease.mjs`, `scheduler-lock-heartbeat.mjs` | a directory with an owner record: lease, generation; what the holder and its heartbeat thread agree on | mkdir, write the record, guard, renew by path, rename aside, compare, remove or put back | a rename takes whatever directory has the path; a renewal that falls between a waiter's read and its rename, or after a takeover |
| **Lane-lease store, reservation ledger, evidence ledger** | a lease and a checkpoint per lane; a reservation set per work order; a hash chain of events | acquire, reclaim, checkpoint, expire, settle, release; reserve and free; append | fencing tokens, expiry between two calls, repeated calls |
| **Eligible-set scheduler** `eligible-set-scheduler.mjs` | a state of claims, a journal of transactions, over the three stores | schedule a batch, record an answer, reap ambiguous claims, recover | four durable places and no write that spans two; a death, a failed write or an expired lease between any two; recovery interrupted itself |
| **Runtime operator** `scripts/runtime-operator` | lease file, checkpoints | acquire, checkpoint, monitor, recover | the same, an older generation |
| **Device authorization, access grants** `lib/device-auth`, `lib/access-grants` | one-time grants | request, approve, redeem, revoke | redeemed twice, expiry racing approval |
| **Loom, workbench** | promotion leases | claim, release | claim racing release |
| **Goal loop, governance, registers** | rows written one at a time | plan, grade, record | mostly pure functions |
| **Execution fabric, lab control, Python commands** | remote hosts, files of one user | deploy, start, stop | pure I/O |
| **Web application** `app/`, `components/` | none | rendering and server actions | calls the libraries above |

How they interact. The Task Scheduler starts a *cycle* of the supervisor every
few minutes (`docs/governance/hermes-codex-live-bridge.md`); the operator's
commands (`cli.mjs`) and the cycle write the same state file under its file
lock. The cycle acquires from the queue by a database transaction, saves the
binding it was given in its store, and presents key, version and fence with
every later request. The operator's server actions write the same queue rows.
The multi-agent operator's processes share three stores on disk, each under its own
directory lock; the scheduler changes them one after the other while it holds
its own lock, and its recovery makes them agree again.

What makes each part correct:

* *state store*: a fence is issued once; a late holder is refused; an unexpired
  lease is never given away; the kill switch stops work; recoveries take the outcome from its former holder and keep evidence;
* *file lock*: read–modify–write is exclusive, an answer given stays true and the
  file is one sequence of requests, each applied once, until an unlink takes
  another lock file than the one found stale; a dead lock goes away;
* *queue*: one outcome in flight; a lease starts only authorized; work owns its
  version but for the renewal of its authority; dependencies first; a fence names
  one holding;
  terminal rows are final; the dependency graph
  stays acyclic and points to nothing superseded;
* *supervisor cycle*: one execution at a time; what is merged was validated and
  its review had come back; store, row and goal are settled alike; what is parked
  is not worked on; Codex works only for an outcome that is undecided and not
  merged; a merge to which no thread objects is settled in the end;
* *directory lock*: a live holder is only broken by a rename that takes another
  directory than the one judged; a dead one is replaced;
* *scheduler lock*: two holders never overlap unless one was rightly taken over;
  the record of a live holder is not deleted; an abandoned lock goes;
* *scheduler*: conflicting works never hold anything at once; the budget is never
  exceeded; what is called released holds nothing; what is held is known to the
  state or to a pending transaction; a claim only goes forward.

`PROJECT.json` "components" lists every part with its status, and "hazards"
what in this code is hard to test, each at its line with the properties that
would notice it.

## 2. Plan

Modules are ordered so that the most important behaviour is modelled first; a
tick marks what is there.

1. ✓ `HermesStateStore` — every operation of the store that changes state;
   `HermesStateStoreProofs`.
2. ✓ `SerialStore` (what the file promises), `HermesStoreLock` (how it is kept);
   refinement checked and proved; `HermesStoreLockProofs`.
3. ✓ `DirectoryLock` — three copies of one protocol; `DirectoryLockProofs`.
4. ✓ `OutcomeQueue` — all transactions on a queue row; `OutcomeQueueProofs`.
5. ✓ `SchedulerLock` — scheduler lock, lease and heartbeat; `SchedulerLockProofs`.
6. ✓ `WorkOrderLifecycle`, `LaneLeases`, `ReservationLedger` — what the stores
   under the directory lock promise; `EligibleSetScheduler`, `SchedulerOutcomes`,
   `SchedulerRecovery` — the scheduler over them, with every crash;
   `SchedulerProofs` (budget, conflicts, releases, tokens, and that the scheduler
   only does with the stores what any caller may), `SchedulerSettledProofs`
   (what recovery leaves, and that what the stores hold is accounted for).
7. ✓ `HermesBridge` — the supervisor's cycle over the store's lease, the queue's
   row, the goal and the pull request; `HermesBridgeProofs` (one execution at a
   time; what the places say of an outcome agrees).
8. The recoveries of the cycle that are granted on proofs (validation
   infrastructure, reviews, post-merge cleanup), with the work orders and receipts
   of `outcome-source.mjs` they read.
9. `RuntimeOperator`, `AccessGrants`, `PromotionLease`.

Abstract specifications worth stating: the serial file (done), a monotone fenced
lease that the state store, the scheduler lock and the lane-lease store all
implement.

## 3. Modules

### HermesStateStore
One JSON file, changed only through `mutate()`. An action is one *accepted*
request: validation failures and replayed idempotency keys change nothing and
are stutters. `executions` maps an outcome to its record or `NoExecution`;
a record has the code's fields `fencingToken`, `lease`, `checkpoint` and the
thirteen metadata fields some operation compares or resets. Digests, commit
ids, pull requests and packets are members of `Evidence`, only ever compared.
`clock` is the host's wall clock, which steps either way (`ClockStep`), and
`updatedAt` the store's monotone one. `idempotency` keeps what each key was
answered (the fence it granted, 0 if none). `acceptedFence` is a history
variable: the fence of the last request of a holder that was obeyed.
`Writes` is the set of checkpoints a holder may ask to record; the MC modules
give the ones the bridge writes and some operation later looks at.

### HermesStoreLock and SerialStore
The steps of `withLock` at the granularity of system calls: `OpenLock`,
`StatLock`, `UnlinkStale`, `ReopenLock`, `ReadState`, `WriteState` or
`RejectRequest`, `Unlock`, and `Crash` between any two. The file's content is
the sequence of idempotency keys applied. `Timely` states the code's assumption
that a holder finishes within `STALE_LOCK_MS` of its open.

`UnlinkStale` removes whatever file has the name. Two history variables tell when
that is not the file whose age was read: `judged` are the processes that found
stale the very file in place, and `strayed` becomes true when a process outside
`judged` unlinks one. That happens (*Disagreements without a run*), and from
there on two writers may be inside. `SerialStore` is what the file promises: a
log to which a fresh key is appended, until `forked`, which the refinement maps to
`strayed`. So the properties say that recovery from deaths is sound by itself and
that this race is the only way to lose exclusion, answers or the order of requests.

### DirectoryLock
`acquireLock` of three stores, `store` saying which copy runs: they differ in
whether a vanished lock is stale, whether an unreadable `owner.json` is, and
whether an unowned directory is removed. The age, the owner and the rename are
steps by path, each of which meets whatever directory has the name. `judged` and
`strayed` are as in `HermesStoreLock`: who has found old the directory in place,
and whether a rename took another one. `LockAges` assumes that a live process
writes `owner.json` within `staleLockMs` of its mkdir.

### OutcomeQueue
One row per outcome, one action per transaction of a supervisor and of the
operator. Postgres gives each transaction isolation by row locks, so a
transaction is a step; that its answer reaches the supervisor is not
(`SaveOrLose`). Leases, approvals and grants end on their own (`LeaseExpires`,
`ApprovalLapses`, `AuthorityLapses`).

* A lease starts in seven ways: `AcquireNext`, `ReclaimAcquisition`, the resumes
  after a decision, a validation recovery and a review recovery, and the reclaims
  of the last two. Each is an SQL statement of its own with a `WHERE` of its own,
  and they differ in what they ask of the slot and of the dependencies.
* A supervisor's other steps are `DeferLease`, `Terminalize`, `Complete`,
  `ReplayAcquisition` and `ReplayResume`.
* The operator's are `Enqueue`, `ApproveDecision`, `MatchAuthority`,
  `GovernedApproval`, `Pause`, `Decline`, `Reorder`, `Supersede`,
  `ChangeDependencies` and `RecordPrimaryAuthorization`.
* `Campaign` is the set of outcomes of the protected V1.2 campaign. Of these an
  expired grant is renewed, by the request that needs it (`Renewed`) or by an
  acquisition that selected nothing (`RenewIfIdle`, which fails as a whole if a
  candidate is not exactly as the campaign left it: `RenewalWall`), the
  authorization-ineligible slot is not released, and the operator may not edit.
* An acquisition key stands for the key, the lease token and the execution
  binding, which are drawn together. Which eligible row is taken is left open.

### WorkOrderLifecycle, LaneLeases, ReservationLedger
The stores the scheduler works on, as they look while their directory lock is
held: one action per call that changes something. `Legal` is the transition
table of `lifecycle-state-machine.mjs`. A lane goes by its work order, since a
work order runs in one lane. A lane record has the lease's `status` and `fence`,
the token a repeated acquisition is answered with (`first`), and of the
checkpoint its sequence, its lifecycle and the reservation its evidence names.
`lapsed` is the clock: the lanes whose `expiresAt` has passed. The ledger keeps
the token of each set and of its last release; which sets are compatible is the
parameter `Conflicts`. `LaneSpec` and `LedgerSpec` are what any caller may do;
the scheduler is proved to be such a caller.

### EligibleSetScheduler, SchedulerOutcomes, SchedulerRecovery
One module in three parts: what hands out claims, what records answers and
reaps, and what recovers. `sched` is the scheduler's state on disk, `journal` its
transactions, `mem` and `jm` the copies of the call that runs. A call holds the
scheduler lock from its first step to its last, so one runs at a time; `pc` is
its next write, and each write is a step that may succeed, be refused by the
store, or fail (`Try`). `Crash` ends the call anywhere and `Lapse` lets a lane
lease run out anywhere. The fields of `call` are the local variables that live
across writes.

* `scheduleEligibleSet`: for each work in the order of the ranking, journal the
  intent, reserve, note the token, lease, note the token, dispatch, append
  evidence; then save the state and commit. A failure takes the whole batch back
  (`UndoLease`, `UndoReservation`, `Undone`).
* `recordProviderOutcome` and `reapAmbiguousOutcomes` run `PhaseOutcome`: a live
  lane (reclaimed if its lease ran out), the checkpoints to the target, evidence,
  release of lane and set. The first error is met with a second attempt.
* `recoverSchedulerTransactions`: replays the pending transactions in order, then
  compares each claim with the stores and reclaims or compensates it, then writes
  state and journal.

Left to the caller's choice: which works a call names, in which order, what the
provider answered, and when a deadline has passed. `orphans` and `torn` are
history variables for two windows in which the code loses track of a claim (see
*Disagreements without a run*). A work gets into `torn` when a recovery that had
journaled its replays (`StartScan`) dies or fails before it saves the state, and
leaves it as soon as a recovery that scanned it gets past `SaveRecovery`.

### SchedulerLock
One process per acquisition, at the granularity of file operations: mkdir,
create `owner.json`, read it, rename the directory aside, compare, remove or put
back. A directory goes by the process that made it; `at` is the directory that
has the path now, and every operation by path works on that one. `hb` is the
heartbeat thread, which reads the record (`ReadForRenewal`) and replaces it later
(`Renew`); `gen` is the generation the thread announced last. `Remote` processes
are on other hosts, where no pid can be probed. `cutIn` and `strayed` remember
that a rename fell into a renewal or took a directory it did not mean: the
properties say what holds in spite of it, and what holds only without.

### HermesBridge
One cycle of `orchestrator.mjs` at a time, from the choice of an outcome to its
settlement, at the granularity of durable effects: an action is one checkpoint,
one change of the lease, one transaction on the row or the goal, one commit, push,
request or merge. `cyc.at` is the next of them, so the process may die (`Die`), a
call may throw (`Throw`) and the host may sleep through its leases (`Suspend`)
between any two; an effect whose answer is lost is the effect, followed by
`Throw`.

* `exec` is what the store keeps: the lease as the cycle sees it, the checkpoint,
  and the metadata a later cycle decides by (`turnResult`, `headRefOid`, the
  rounds and retry counts, `mergeSha`, the phase of an owner's resume). The
  checkpoint states nobody asks for again are one, `WORKING`.
* `queue` is the row with the goal behind it, reduced to what the cycle can tell
  apart: whose the lease is, versions and fences are `OutcomeQueue`'s subject, as
  the store's fences are `HermesStateStore`'s. `work` is the worktree, its commit
  and the pull request. `approved` are the outcomes whose last owner wall the
  owner approved.
* A cycle starts in three ways (`StartDurable`, `StartApproved`, `StartSelected`),
  then `Refresh`, `Lease`, and what the checkpoint found says: `Next0`.
* `cyc.catch` says what the handler around the step would still do: the one
  around the turns writes `RETRYABLE_WALL`, if the sequence number it was left
  with is the store's (`Wall`). Where the code moves that number on, and where it
  does not, decides what survives a failure.
* The merge is two calls: `Inspect`, which asks GitHub for the review once more,
  and `Merge`, which GitHub ties to the head and to nothing else. After it the code
  looks at the threads twice more (`Verified`), before `PR_MERGED` and before the
  worktree is removed; what it finds there is a wall (`Merged`, `Cleanup`).
* Codex and the reviewer answer anything (`CodexEdits`, `CodexReports`,
  `ReviewArrives`), or nothing. A review may object and take it back at any time,
  between those two calls and after the merge too.

Left out are the kill switch and the activation file, which only keep a cycle from
starting, the operator's changes of a row in work (`OutcomeQueue` has them), the
walls of external tools (a second usage limit with a counter of its own), the
binding of a work order, which is one more checkpoint, and the recoveries granted
on proofs.

## 4. Runs

| run | properties | shows |
|---|---|---|
| `state_store` | `FencesIssuedOnce`, `RecoveredStatesCarryEvidence`, `AcceptedFencesNeverDecrease`, `HoldingStartsWithNewFence`, `UnexpiredLeaseKeepsFence`, `KillSwitchStopsWork`, `RecoveryRevokesHolder`, `TouchedRunsAreNotRecovered` | two processes contend for an outcome under a wall clock that steps both ways, with every operation of the store: the outcome is driven into every wall it can recover from, with right and wrong evidence, owner touches and the kill switch in between |
| `store_lock` | `ExclusiveUnlessStrayed`, `AnswersAreDurable`, `SerialSpec`, `DeadLockGoes` | three processes and two requests, one process may die anywhere and two wait for its lock: until an unlink takes another file than the one found stale there is one writer at a time, answers stay true and the file implements SerialStore; the dead process's lock goes away in any case |
| `dir_lock` | `StolenOnlyByStraying`, `DeadOwnerIsReplaced`, `AbandonedLockGoes`, `AttemptsEndOrRename` | each of the three copies with an owner that may die and two waiters: a live holder loses its lock only to a rename that takes another directory than the one judged, which copies recover from which deaths, and that an attempt that never ends keeps renaming |
| `outcome_queue` | `FencesNameOneHolding`, `OneInFlightUnlessReclaimed`, `LeasesStartWithNewFence`, `LeasesStartAuthorized`, `ActiveWorkOwnsItsVersion` | one outcome of the campaign and one outside it, two supervisors, the operator, the clock and the registers, with authorities running out and being renewed: who may be in flight beside whom, what a lease starts with, that a fence names one holding, and that nothing but a renewal moves the version under a running lease |
| `outcome_queue_graph` | `DependenciesFirst`, `GraphIsLive`, `TerminalsAreFinal` | three outcomes outside the campaign edited, reordered, superseded and rebound while one supervisor works: dependencies first, the dependency graph stays acyclic and live, and what is history stays as it is |
| `outcome_queue_flight` (violation expected) | `OneInFlight` | a validation recovery runs out of its lease, another outcome is acquired, and the recovery is reclaimed beside it |
| `scheduler` | `ClaimsDoNotCollide`, `ReleasedClaimsHoldNothing`, `SettledClaimsMatchTheStores`, `ClaimsAreTraceable`, `ClaimsOnlyAdvance` | two conflicting works are scheduled, answered, reaped and recovered with two mishaps (a death, a failed write, a lapsing lease) anywhere: how state, journal, ledger and lanes agree afterwards |
| `scheduler_batches` | `WithinCapacity` | three works that do not conflict and a budget of two, with one mishap anywhere: the budget holds across batches, ambiguous answers, reaps and recoveries |
| `scheduler_second_recovery` (violation expected) | `HealthyClaimsAreKept` | a call that records RUNNING dies after its checkpoint; the first recovery repairs the claim, the second one fails it |
| `scheduler_lock` | `HoldersExclude`, `LostLocksStayLost`, `LiveRecordsAreNotDeleted`, `AbandonedLockGoes` | three contenders, one of them on another host, one death, one lease that lapses in use and one renewal: who may hold at once, whose record a waiter deletes, and that an abandoned lock goes |
| `hermes_bridge` | `TypeOK`, `MergedWorkWasChecked`, `SettledTogether`, `ParkedWorkIsIdle`, `TurnsAreHeld`, `MergedIsSettled` | one outcome from its selection to its settlement, through provider waits, remediation rounds, owner walls and their approval, with two faults (a death, a thrown call, a suspended host) anywhere: whether store, row, goal and pull request tell the same story |
| `hermes_bridge_terminal` (violation expected) | `TerminalCheckpointsStand` | a turn ends at an owner wall or a terminal failure, the checkpoint is written, and the settlement throws: the handler writes RETRYABLE_WALL over it |

Each property of a passing run has a mutant in `PROJECT.json`: a plausible
fault of the code (a dropped guard, a fence not moved, a missing reset) under
which the same run reports the property violated. The mutants are the
definitions named `Faulty...` and the like in the modules. Type invariants that
are proved are not run again.

### Bounds

* *state_store*: fences are drawn from one counter and recoveries concern one
  outcome, so one outcome and two holders suffice; the clock may go back; two
  pieces of evidence let a finalizing request disagree with the one that began it;
  seven mutations reach the end of the longest recovery, and let a lease pass from
  one holder to the other and back. The sequence numbers 4 and 46 the code
  compares with are parameters, 1 and 2 here, so that TLC reaches them.
* *store_lock*: an owner that may die and two waiters, the fewest with which an
  unlink can stray; two requests; locks are stale after one tick.
* *dir_lock*: an owner that may die and two waiters, for the same reason, in all
  three copies.
* *outcome_queue*: two outcomes, one in the campaign and one outside it, and two
  supervisors for the slot and the bindings; six changes over the two rows and two keys let a row be
  acquired, lost, reclaimed, settled and resumed. *outcome_queue_flight*: the
  shortest history that leaves two in flight has thirteen states and takes eight
  changes. *outcome_queue_graph*: three outcomes (the shortest indirect cycle, and
  a supersession between two of them) outside the campaign, one supervisor.
* *scheduler*: two works whose sets conflict, a budget that does not bind, two
  reservations, two pending transactions and two mishaps: one to interrupt a call
  and one to interrupt its recovery. *scheduler_batches*: three works that do not
  conflict under a budget of two, in batches up to three, with one mishap.
  *scheduler_second_recovery*: two works, one mishap.
* *scheduler_lock*: three processes (an owner and two waiters, the shortest race),
  one of them on another host; one death, one lease that lapses in use, and one
  renewal (`MaxGeneration` 2), after which a thread only stops or fails.
* *hermes_bridge*: one outcome, since a cycle changes the execution of one outcome
  only, and others matter to it through the choice at its start: that is
  `OneUnreleasedExecution`, which is proved for any number, and agrees with the
  bounded instances of two outcomes. One remediation round and two redispatches
  (the code has three of each) reach every exhausted budget and one wait; two
  faults interrupt a cycle and the one that recovers from it.

`MaxChanges` (the versions of any two rows together), `MaxKeys`, `MaxRevision`,
`MaxTime`, `MaxTouches`, `MaxCrashes`, `MaxLapses`, `MaxGeneration`,
`MaxReservations`, `MaxJournal`, `MaxMishaps` and `MaxFaults` bound counters the code does not
bound. Deadlock is checked in the
store and lock runs. The queue runs set `CHECK_DEADLOCK FALSE`: with every row
terminal, or at the bounds, the queue has nothing to do. So do the scheduler's
runs (every work was claimed once and the bounds are used up) and the scheduler
lock's (every acquisition has ended: a process stands for one), and the
supervisor's (every outcome may be settled).
Outcomes, holders and supervisors are only compared, so the runs that check no
liveness declare them symmetric.

### Fairness
`HermesStoreLock`: a live process executes its next call (`WF(Step(p))`), a
caller comes back (`WF(Start)`: the Task Scheduler starts a cycle on a
schedule, whatever happened to the last one), and time passes (`WF(Tick)`).
`DirectoryLock`: the same, and a deadline that has been set passes. `SchedulerLock`:
who waits goes on trying until its time is up (`WF(Wait(p))`; the loop sleeps and
tries again), and the clock reaches the expiry of a record nobody renews. Nothing is
assumed of processes that crash, and no strong fairness is used: a waiter may
lose every race. That is why `AttemptsEndOrRename` speaks of a single waiter: one
that stays away from the deadline does so by renaming again and again. `HermesBridge`: the Task Scheduler
starts cycles and a cycle goes on (`WF(Cycles)`, `WF(Deliveries)`,
`WF(Settlements)`), and leases and retry times end. Nothing is assumed of Codex,
of the reviewer, or of the owner, which is why the liveness property starts at a
merge to which, from some time on, no thread objects. Faults are finitely many by
their bound.

## 5. Findings

**outcome_queue_flight** (code_bug, `src/scripts/hermes-bridge/outcome-queue-source.mjs:2559`). reclaimExpiredValidationRecovery grants an expired validation recovery a new lease without looking at the other rows: unlike acquire (864), reclaimAcquisition (2083), the three resumes and reclaimExpiredReviewRecovery it has no NOT EXISTS over another running lease. If another outcome was acquired after that lease ended, both are in flight; the comment at outcome-queue-source.mjs:872 says "so at most one outcome is ever really in flight". OneInFlightUnlessReclaimed states what remains, and is checked and proved.

**scheduler_second_recovery** (code_bug, `src/scripts/multi-agent-operator/eligible-set-scheduler.mjs:2247`). recovering an interrupted RUNNING answer copies the lane's lifecycle into the entry (2247) but neither the event of the checkpoint that was written nor, after a reclaim, the new lease fence. The claim is skipped by this recovery's scan (it has a transaction of its own), and the next recovery finds its evidence or its lane inexact and brings it to FAILED_TERMINAL (compensateDivergentEntry, 1117) although lane, lease and reservation are in order. docs/reports/WO-MAO-023-eligible-set-scheduler-worker-pool.md:139 says "a second recovery is healthy and idempotent".

**hermes_bridge_terminal** (code_bug, `src/scripts/hermes-bridge/orchestrator.mjs:2939`). When a turn reports OWNER_DECISION_REQUIRED or FAILED_TERMINAL, the cycle checkpoints it, moves `sequence` on (2711) and only then settles (2712, 2719). If the settlement or the release throws, the handler around the turns writes RETRYABLE_WALL with the sequence it was given, over the terminal checkpoint. The next cycle no longer sees a terminal replay (2025): if nothing was settled, Codex is dispatched again; if the row was blocked already, the refresh of the acquisition is a wall, now and in every later cycle. tests/hermes-bridge-orchestrator.test.ts:5431 says "settles a recovered owner-wall checkpoint before any Codex redispatch", for a process that died there; finalizeTerminal, which does not move the handler's sequence, keeps its checkpoint.

### Disagreements without a run
Met while modelling, and left to this note:

* *Store file lock.* Two processes that find the same stale lock may both unlink
  it, the second one the fresh lock of the first (`state-store.mjs:383`), so two
  writers are inside and an acknowledged write is overwritten;
  `docs/governance/hermes-codex-live-bridge.md:46` says "State transitions use
  exclusive atomic writes". *store_lock* reaches this (`strayed`), and its
  properties do not hold from there on: they say that nothing else gets there.
* *Directory lock, all three copies.* Two waiters that found the same owner dead may
  both rename: the second takes the directory of the first, a live holder
  (`evidence-ledger.mjs:417`, `reservation-ledger.mjs:344`,
  `lane-lease-checkpoint.mjs:555`). Between the mkdir and `owner.json`, or after
  the lock has vanished, the lane-lease and the reservation copy rename without
  any proof of death. `docs/reports/WO-MAO-021-*.md:68` says "A lock owned by a
  live local process is never stolen", `docs/reports/WO-MAO-018-*.md:34` "a live
  holder is never broken". *dir_lock* reaches this in each copy (`strayed`).
* *Directory lock, slow owner.* Apart from that race, a lock without readable owner
  is judged by its age alone (`lane-lease-checkpoint.mjs:534`), so a live owner that
  takes longer than `staleLockMs` to write its record loses the directory.
  `LockAges` assumes that none does; without it the same sentences are false.
* *Directory lock, deadlines.* A waiter that renamed goes back to the mkdir before it
  looks at its deadline (`reservation-ledger.mjs:346`, `lane-lease-checkpoint.mjs:557`): as
  long as it finds lock after lock abandoned, or vanished, it neither enters nor
  fails. `docs/reports/WO-MAO-018-*.md:32` says "A bounded timeout fails closed".
  `AttemptsEndOrRename` says that this is the only way an attempt goes on for ever.
* *Queue, renewals.* An idle poll renews the expired grants of the campaign and moves
  the version of active rows (`outcome-queue-source.mjs:1970`, `5156`), which their
  supervisors then present in vain; the comment at 6943 says "Active work owns its
  version until it pauses or terminalizes". `ActiveWorkOwnsItsVersion` says what is
  left of it. The slot recovery of an acquisition fails as a whole when two active
  rows are stale and no longer authorized (`outcome-queue-source.mjs:5058`); with
  campaign rows there can be two.
* *Supervisor, merge window.* `mergePullRequest` inspects the pull request and merges
  it in a second call that protects only the head (`repository-lifecycle.mjs:1500`,
  `1506`): a thread opened in between is merged over. So the merged review need not
  be clean, and `MergedWorkWasChecked` does not say that it is.
* *Supervisor, objections after the merge.* A thread that is unresolved once the pull
  request is merged, whenever it was opened, is `HERMES_PR_VERIFICATION_WALL`
  (`orchestrator.mjs:1428`, `1634`) in this and in every later cycle: nobody is told
  to resolve it, nothing counts the attempts, and the outcome stays unsettled with
  its row leased until somebody resolves the thread. `MergedIsSettled` promises
  the settlement only from then on.
* *Supervisor, deferral.* A deferred execution is always the durable one
  (`orchestrator.mjs:1937`), so until its retry time every cycle ends with
  `LEASE_HELD`; `tests/hermes-provider-deferral-slot-release.test.ts:5` describes a
  slot that the wait releases for other work.
* *Supervisor, validated work.* `WORKTREE_INTENT` (2300) replaces the checkpoint
  that said how far the validation had come. After a second death the commit is
  found with a clean tree and Codex is dispatched again on work that is done; a
  hand-over without an edit is then refused in every cycle.
* *Supervisor, review wait.* Once the review was requested by this cycle, the wait
  for it cannot be recorded: the handler's sequence number is behind (2873), so the
  outcome is not parked but tried again in every cycle.
* *Supervisor, budgets.* A commit recorded in a recovery (2397) takes the round of
  the validation for that of the review, and `COMMIT_RECOVERED` (2437) records none:
  the review budget starts anew.
* *Supervisor, interrupted resume.* A death between the queue's resume (2004) and
  the reopening of the execution (2005) is replayed while the resumed lease runs;
  once it ended, `outcome-queue-source.mjs:2674` matches nothing any more and every
  later cycle stops at the same wall.
* *Supervisor, early approval.* When the release fails after the goal was settled,
  the process gives its lease up on the way out, and the owner may approve; the
  next cycle settles the wall once more and dismisses the goal that was just
  reclassified: the approval is lost (`SettleGoal`).
* *Supervisor, orphaned resume.* A usage limit during the turn that resumes an
  owner's decision clears the thread (2874); the resume needs it (2551) and stops
  in every cycle after the wait.
* *Scheduler, lost fences.* Between the grant of a reservation or a lease and the
  journal entry that names its token, a death leaves a claim recovery cannot
  release; `docs/reports/WO-MAO-023-eligible-set-scheduler-worker-pool.md:101`
  says a crash "cannot leave an invisible active claim". `orphans` are these works.
* *Scheduler, torn recovery.* The scan journals the phases replay gave
  (`eligible-set-scheduler.mjs:2276`) before the state is saved; a death in
  between leaves an ACTIVE entry over a released lane with no transaction pending.
  The report says at 102 that recovery "cannot leave an invisible active claim or
  an ACTIVE scheduler entry pointing at released Phase 2 stores". That holds of a
  recovery that ends, not of one that dies: `torn` are the claims it leaves so, which
  `SettledClaimsMatchTheStores` exempts until a recovery that scanned them saves.
* *Scheduler, recovery that never ends well.* An error in the replay of a terminal
  answer is not caught and ends the whole recovery, every time. A death between an
  ambiguous answer's checkpoint and its evidence leaves its transaction at
  `RECOVERY_REQUIRED` for ever. A lane whose first claim was rolled back is never
  leased again, and takes its batch with it. Rolling a claim back fails when its
  lease ran out.
* *Scheduler, redelivery.* A terminal answer that recovery finished has no
  `terminalDeliveryHash`, so its identical redelivery is refused instead of being
  answered as a replay.
* *Scheduler lock.* A live holder whose lease ran out is taken over, on its own host
  too (`scheduler-lock-lease.mjs:114`); the report above says "Same-host live PIDs
  are never stolen". A renewal between the guard's reading of the record and of
  the generation makes a rightful holder give up (`LEASE_LOST`). A rename that
  falls into a renewal moves the record the thread writes next into a directory
  that is somebody else's (`cutIn`).

## 6. Proofs

TLAPS proves these for every value of the constants.

| module | theorem | establishes |
|---|---|---|
| `HermesStateStoreProofs` | `TypeCorrect` | every operation of the store preserves the shape of the state, for any outcomes, holders, requests and clock |
| `HermesStateStoreProofs` | `FencesUnique` | no fence is issued twice and every execution's fence was answered to exactly one idempotency key |
| `HermesStateStoreProofs` | `StaleHoldersAreRefused` | a holder whose fence was superseded never has another request accepted |
| `HermesStateStoreProofs` | `RunningLeasesAreKept` | no operation replaces the fence of a lease that is held and not expired |
| `HermesStateStoreProofs` | `HoldersStartFresh` | nobody starts to hold an outcome except under a fence issued by that very step |
| `HermesStateStoreProofs` | `RecoveriesAreEvident` | however writes and the steps of the recoveries follow each other, a recovered execution carries the evidence its recovery was granted on |
| `HermesStateStoreProofs` | `KilledStoresIdle` | while the kill switch is on no fence is issued, no lease starts or grows and the only checkpoint written is a retirement |
| `HermesStateStoreProofs` | `RecoveriesRevoke` | every operation that writes a recovery state leaves the outcome unheld |
| `HermesStateStoreProofs` | `TouchesAreFinal` | once the owner intervened no request brings an outcome into a state that certifies an untouched run |
| `HermesStoreLockProofs` | `WritesAreExclusive` | when operations end within the stale interval, at most one process is in the section until an unlink strays, for any number of processes and of deaths |
| `HermesStoreLockProofs` | `AnswersStay` | under the same assumption every answer given to a caller stays true of the file, deaths and recovered locks included, until an unlink strays |
| `HermesStoreLockProofs` | `FileIsSerial` | under the same assumption the lock protocol, its recovery from deaths included, implements the abstract serial store, whose promise ends when an unlink strays |
| `DirectoryLockProofs` | `TypeCorrect` | the lock directory, the positions of the processes and the deadlines keep their types, whatever dies |
| `DirectoryLockProofs` | `LiveHoldersAreKept` | no copy of the lock breaks a live holder until a rename takes another directory than the one judged, for any number of processes, deaths, ages and timeouts |
| `OutcomeQueueProofs` | `TypeCorrect` | table, saved bindings and key counter keep their types for every number of outcomes and supervisors |
| `OutcomeQueueProofs` | `OnlyOneInFlight` | whatever supervisors, operator, clock and registers do, a second outcome is in flight only beside a reclaimed validation recovery |
| `OutcomeQueueProofs` | `StartsAreAuthorized` | whichever of the seven ways a lease starts, decision and authority are in force when it does |
| `OutcomeQueueProofs` | `DependenciesAreMet` | work that runs or is done had all its dependencies completed |
| `OutcomeQueueProofs` | `FencesAreNames` | two saved bindings with the same fence name the same holding, and none is ahead of its row |
| `OutcomeQueueProofs` | `FencesAreFresh` | a lease that starts or starts again carries a fence no earlier holder of that outcome had |
| `OutcomeQueueProofs` | `HistoryIsFinal` | completed, declined and superseded outcomes keep their state and their dependencies |
| `OutcomeQueueProofs` | `ChangesAreVersioned` | a change of state, dependencies, key or fence moves the row's version |
| `OutcomeQueueProofs` | `GraphStaysLive` | the operator's edits never tie outcomes into a cycle, and nothing that waits depends on a superseded outcome, for any number of outcomes |
| `OutcomeQueueProofs` | `WorkOwnsItsVersion` | for any campaign: the version of a row under a running lease moves only by the renewal of a campaign authority that ran out, which keeps key, fence and lease and leaves the row authorized |
| `SchedulerLockProofs` | `TypeCorrect` | directories, records, what processes saw and what holder and heartbeat agreed on keep their types, whatever dies, lapses or fails |
| `SchedulerLockProofs` | `HoldersExcludeEachOther` | for any number of processes and hosts, as long as every rename took the directory it meant, two hold at once only if the directory of one was taken after its lease had run out |
| `SchedulerLockProofs` | `LostStaysLost` | unless a waiter's rename fell into a renewal, the record at the lock's path is never again that of a process that lost it: its guard fails |
| `SchedulerLockProofs` | `LiveRecordsStay` | only its owner removes a record whose owner lives and whose lease runs, however reads, renames and renewals interleave |
| `SchedulerProofs` | `ClaimsFitTheBudget` | the claims in force never exceed the budget, for any works, budget and bounds, whatever call is interrupted where and however recovery is repeated |
| `SchedulerProofs` | `ClaimsExcludeConflicts` | two works whose reservation sets conflict are never both claimed |
| `SchedulerProofs` | `ReleasedIsReleasedEverywhere` | a claim the state calls released holds neither lane nor reservation, although lane, ledger, state and journal are written one after the other |
| `SchedulerProofs` | `ClaimsGoForward` | no call and no recovery takes a claim back to an earlier place |
| `SchedulerProofs` | `SchedulerUsesLanes` | the scheduler implements LaneSpec: whatever scheduling, an answer, a rollback, a reap or a recovery does to a lane, and wherever it dies, is an operation the lane-lease store offers any caller, under a token it issued |
| `SchedulerProofs` | `SchedulerUsesLedger` | the scheduler implements LedgerSpec: it reserves and releases only as any caller of the reservation ledger may, under tokens the ledger issued |
| `SchedulerProofs` | `TypeCorrect` | every variable of the scheduler keeps its shape, no entry, reservation or event names a token its store has not issued, and a call that ends or dies leaves nothing in memory and only pending transactions in the journal |
| `SchedulerSettledProofs` | `SettledClaimsStand` | between calls a claim that no transaction is pending for has its lane, reservation and lifecycle as the state reports them, for any works, budget and bounds and whatever died or failed, unless a recovery died or failed between its journal and its state and none has scanned the claim and saved since |
| `SchedulerSettledProofs` | `ClaimsStayTraceable` | between calls every reservation and every live lease is accounted for by a claim of the state or a pending transaction, except where the fence was lost before the journal had it, whatever died or failed, for any works, budget and bounds |
| `HermesBridgeProofs` | `OneExecutionAtATime` | of all outcomes at most one is started and not released, for any number of outcomes and any bounds, whatever dies, throws or sleeps: HERMES_EXECUTION_CONCURRENCY_WALL is never reached |
| `HermesBridgeProofs` | `TypeCorrect` | execution, row, goal, worktree and cycle keep their types, and the rounds and retries their budgets, for any outcomes |
| `HermesBridgeProofs` | `OnlyCheckedWorkIsMerged` | whatever interrupts a cycle and however many recoveries follow, what was merged was validated by the host, and the review of that commit had come back; that it was still clean when GitHub merged is not claimed |
| `HermesBridgeProofs` | `SettlementsAgree` | execution, row and goal are settled alike, although each may have been settled by a cycle that then died |
| `HermesBridgeProofs` | `ParkedRowsAreIdle` | nothing works on an outcome whose row is parked |
| `HermesBridgeProofs` | `NoTurnOnSettledWork` | Codex is only ever dispatched for an outcome that is neither decided nor merged, on a row this supervisor holds |

**State store.** The assumptions are the bounds' types, that `NoExecution` is
no execution, that `Writes` holds checkpoint records, that no evidence is the
value of an unset field, and two facts of the code about writes: `metadata()`
never resets a pull request (`state-store.mjs:467`), and no checkpoint of the
bridge names the proof of a review recovery. Fences being unique
is not inductive: the invariant adds that every issued fence is below
`nextFencingToken`, and that the idempotency table holds each fence exactly
once; the history `acceptedFence` is below the execution's fence, which is what
makes a late holder's request a smaller number. A per-outcome step relation is
proved once per action and every action property follows from it. What recoveries
leave goes through a second relation, `LawfulStep`: what the kill switch and the
owner's touches allow, and that an execution with its evidence keeps it. Carrying
the evidence is not inductive: `Evident` adds that the proof of a review recovery
is only ever recorded beside a pull request, and that a terminal cleanup recovery
keeps the merge's evidence from its beginning on.

**Store lock.** `WritesAreExclusive`, `AnswersStay` and `FileIsSerial` assume only
`Timely`, without which the code's own premise is gone; any number of processes may
die anywhere, and locks are found stale and unlinked. Until an unlink strays (`Sound`),
a process in the section owns the lock file, the lock's age is its holder's time in
the section and so never stale, what a holder has read is still what the file says,
and what was found stale is the lock of a dead process. That last clause is why
`judged` is needed: an unlink of a process outside it sets `strayed`, one inside it
takes a dead process's lock, after which nobody is in `judged` any more.

**Directory lock.** `LiveHoldersAreKept`, for each of the three copies and any deaths,
ages and timeouts. Until a rename strays (`Sound`), the directory in place belongs to
its creator from the mkdir on, names nobody else, and its creator is at work in it or
dead; what was judged is old; and a process about to rename what it judged has seen
that its creator is dead, either by the record, or because there is none although
the directory is old, which by `LockAges` no live creator lets happen.

**Queue.** Every transaction acts on a row as one of a few relations (`RowStep`);
each action is proved to be one, and the action properties follow from the
relation. Fences naming one holding needs that a saved binding is never ahead of
its row, and that equal fences have equal keys (`FenceOfHolding`). The steps of
a supervisor are first sorted into a few shapes (`SuperviseCases`): a first
acquisition, a grant of a row that is still somebody's (`GrantedAgain`), an answer
that grants nothing (`AnsweredAgain`), and the holder's own. `OnlyOneInFlight`
then needs only how a row may come to be in flight: no other is (`OnlyEntry`), or
the row says that it is a reclaimed validation recovery (`ReclaimedEntry`); and
what is in flight keeps its reason until it no longer is (`NoEntry`).
`StartsAreAuthorized` is one more conjunct of `RowStep`. `WorkOwnsItsVersion` holds
for any campaign: every write finds the row not under a running lease, keeps its
version, ends the lease (`KeepsVersion`), or is the renewal of a campaign authority
that ran out (`RenewedUnder`), which keeps everything a holder can be recognised by. `GraphIsLive` is inductive beside the type invariant and
`DependenciesFirst`. Every step but an edit keeps each row's dependencies,
supersedes nothing, and lets only work that was active go back to waiting
(`KeepsGraph`), whose dependencies were completed. An edit is refused unless the
graph it makes is acyclic, or only removes edges. A successor that nobody named
yet takes the place of what it supersedes (`Succession`): a set of outcomes with
the successor in it is looked at with the superseded outcome in its place.

**Supervisor.** `OneExecutionAtATime` is not inductive: a cycle that was started
could free nothing, and yet a second one might be started beside it. `IInv` adds
`Focused`: while a cycle runs, no execution but its own is unreleased. Every action
is shown to be one of three relations: it moves the execution of the running
cycle (`Moves`), starts a cycle for the only unreleased outcome or when there is
none (`Starts`), or ends a lease that was not released and is not released by it
(`Ends`); `IInv` is preserved by each. No assumption on faults or bounds is used.

**Supervisor, one outcome.** What is merged, settled, parked and worked on is one
invariant (`CycleInv`), stated for an outcome at a time: of its execution, its
row, its work, whether an owner approved it, and the cycle that is about it. A step
of a cycle changes nothing of another outcome (`Local`), so an action is looked at
once, for its own outcome, and the conjuncts about the store, the repository, the
row and the handler's sequence number one by one. The clauses worth knowing: a
commit is of checked edits or there is none; from the inspection to the merge the
review has come back; a turn never starts with a terminal
checkpoint; a row is settled before the goal and the goal before the lease, so a
released execution has both; an approval is only there while the goal is not
blocked; a counter reaches its limit only on the way to the wait or the failure that
it causes, which is what bounds it. The attempt to prove it found that two CASE
expressions of the model had overlapping arms, which TLA+ leaves unordered and TLC
takes in order; they say the code's order now.

**Scheduler lock.** `LockInv` says how stale knowledge stays true. What a waiter saw
is dead or lapsed, wherever that record has gone since (`SeenIsStale`): a renewal
writes a record of a higher generation, so what lapsed stays lapsed and no new record
looks like an old one. Records are in one directory each, and a process that has published none
is in nobody's way. As long as no rename fell into a renewal, a renewal replaces its
own record, a process owns one directory, and who lost the lock is nowhere any more;
a holder's record is at the path, or was taken (`HoldersAreKnown`). The proof asks
`MaxGeneration` to be at least 1, which is a record's first generation in the code.

**Scheduler.** `ClaimInv` is `Steady`, which holds at every step of every call, and
`AtStep`, what the step in hand knows. `Steady` bounds the claims in the state on
disk and in the copy of the call, keeps conflicting sets apart in both, and says that
what either calls released is finished and free. The copy may run ahead of the disk
only as its call may (`CopyFollows`): a schedule adds claims, every other call moves
on those there are. That is why writing the copy cannot lose anything, and why a call
that dies may be forgotten: with the copy gone, `Steady` of the state is still there.
An operation of the stores is shown to be quiet first: released lanes stay released,
finished ones finished, and a reservation is only given up, except the one the claim
in the making takes. The budget needs that a claim is made only while there is room
in the copy, which holds all claims of the disk; the exclusion of conflicts, that a
reservation is only given to a set no claim in force conflicts with. That
`ClaimsOnlyAdvance` follows from `ClaimInv` and the four writes of the state.
`Works` is finite, as a DAG is. The pending transactions are a filtered sequence;
what the proofs need of the filter (its elements are elements of the journal) is an
induction, which they make by the least number at which it would fail, since the
library's induction theorems cannot be instantiated here. `Kept` takes the place of
`SelectSeq`, whose definition the prover cannot open.

**Scheduler and its stores.** `SchedulerUsesLanes` and `SchedulerUsesLedger` say that
the scheduler, seen through the variables of a store alone, is one of the store's
callers: whatever a schedule, an answer, a rollback or a recovery does, and wherever it
dies, each of its steps is an operation the store offers, or none. The mapping is the
identity on the store's variables. `UsesStores` shows it step by step for a token that
is some number, `StoresIssued` that this number was issued: the store refuses a token it
does not hold (`Current`, `MayReclaim`, `MayFree`), and holds only what it has given out.
`TypeCorrect` adds the books. A step's tokens come from the copy, the state, the lane or
the ledger (`Draws`), never from the journal, which only names what is to be given back;
and a call ends in `EndCall` alone, whose filter leaves a filtered journal as it is
(`PendingTwice`).

**Scheduler, settled claims.** `SettledInv` stands beside `ClaimInv`. A claim's lane
and reservation go together until the lane is released (`Live`), and a claim in the
state is as its lane says (`Faithful`) or a pending transaction will look at it again
(`Covers`): an answer, a reap or a repair that names it. A schedule never makes up for a
claim, since replay closes it as soon as the claim is there, and a pending RUNNING
explains only the checkpoint of an active claim. This holds of the state on disk with
the journal on disk until a recovery rewrites that journal (`DiskSettled`), and
throughout a recovery of its copy with the transactions it has in memory
(`CopySettled`). Recovery writes the two one after the other, the journal first, so the
invariant says how its transactions relate to those on disk (`BooksAgree`), that what it
has been through is closed or held for a reason (`Past`), and that, while recovery
counts nothing as changed, a claim of which the copy differs from the state is spoken
for by a transaction that stays pending (`Changes`, `SpokenFor`). That is what a
recovery needs that stops, or that saves only its journal: what it had changed is then
spoken for, or `torn`. `SettledClaimsStand` therefore exempts what is `torn`, and only
that: a scan leaves each claim it looks at as its lane says, so of what was torn the
copy owes only the works not yet scanned (`Unseen`), and `SaveRecovery` takes the
others out of `torn`.

**Scheduler, traceable claims.** `TraceInv` is about the works no claim of the state is
about and no fence was lost of (`Open`). Their reservation and live lease are named,
under their very fences, by a pending transaction of a schedule (`Names`), or by the call
that has just been granted them and has not written them yet (`KnowsSet`, `KnowsLease`).
It needs to know how the transaction of the claim in the making grows: no fence, that of
the reservation, that of the lease (`MakingTells`); and that what the call would roll
back is what its transaction was told (`Told`, `MadeTells`). A rollback closes its
transaction only if nothing refused, and then the stores hold nothing under the fences it
names (`UndoTells`); if something refused, the transaction stays pending, and a fence
only the call knew makes the work an orphan, as a death does. A recovery takes back from
the transactions it has in memory, so these name the same (`CopyTraced`). Most steps are
of other calls: they touch only works with a claim, and edit the transactions so that
each list names what another one named (`Retells`). That the transaction a schedule
writes to is its own, the last of its work, is `MineIsThere`.

**Only model-checked.** All liveness (`DeadLockGoes`, `DeadOwnerIsReplaced`,
`AbandonedLockGoes`, `AttemptsEndOrRename`, `MergedIsSettled`): TLAPS proves neither fairness nor ENABLED.
What recursive definitions compute for all inputs is out of the prover's
reach; no module here declares a RECURSIVE operator, and acyclicity is stated
without recursion (every set of outcomes has one that depends on none of it).

## 7. Not modelled

Everything marked `not_modelled` in `PROJECT.json`, with its reason there.
In short: rendering, deployment scripts, format validation,
hashing and calls of external model servers and GitHub are left out, because
no property here tells their details apart. Inside modelled parts: the digest
and shape checks of every request (a malformed request is a refused one), the
wording of errors, the content of evidence beyond equality, and the order in
which the queue prefers eligible rows.
