-------------------------- MODULE HermesStateStore --------------------------
(***************************************************************************)
(* The durable store of the Hermes bridge: one JSON file that holds every  *)
(* local execution, its lease and its checkpoint, the fencing counter, the *)
(* kill switch, the owner-touch counters and the idempotency table.        *)
(*                                                                         *)
(* Every operation of the store runs inside mutate(): it either rejects    *)
(* the request and leaves the file alone, or replaces the whole file by    *)
(* one atomic rename.  An action below is one accepted request; a rejected *)
(* one and a replayed idempotency key change nothing and are stutters.     *)
(* The file lock under mutate() is the subject of HermesStoreLock.         *)
(***************************************************************************)
EXTENDS Integers, Sequences

CONSTANTS
  Outcomes,       \* outcome identities, the keys of state.executions
  Holders,        \* processes that take leases: host, pid and process nonce
  Evidence,       \* digests, commits, pull requests, packets: compared only
  Writes,         \* what writeCheckpoint may be asked to record
  Durations,      \* requested lease lengths, in clock units
  MaxTime,        \* bound of the wall clock
  MaxRevision,    \* bound of accepted mutations
  MaxTouches,     \* bound of the owner-touch counters
  RetireSequence, \* the sequence an execution is retired at (4 in the code)
  CleanupSequence,\* the sequence of an active cleanup recovery (46)
  NoExecution     \* an outcome the store has never leased

LeaseStatuses == {"ACTIVE", "RELEASED", "ABANDONED", "DEFERRED"}

\* lease.abandonReason, and whether lease.abandonedAt is set at all ("none").
AbandonReasons == {"none", "PROCESS_EXIT", "PROJECTION_WALL"}

\* The checkpoint states that only the store's own recovery operations write.
RecoveryStates ==
  {"DURABLE_QUEUE_ACQUISITION_RETIRED", "OWNER_DECISION_ACCEPTED",
   "VALIDATION_INFRASTRUCTURE_RECOVERED", "EXTERNAL_TOOL_WALL_RECOVERED",
   "REVIEW_REMEDIATION_RECOVERY_PENDING", "REVIEW_REMEDIATION_RECOVERED",
   "POST_MERGE_CLEANUP_TERMINAL_RECOVERY_PENDING",
   "POST_MERGE_CLEANUP_RECOVERED", "DEFERRED_PROVIDER_UNAVAILABLE", "LEASED"}

\* The checkpoint states a holder writes that some operation looks at;
\* "WORKING" stands for all the others of the bridge's cycle.
HolderStates ==
  {"WORKING", "CODEX_THREAD_READY", "PR_MERGED", "POST_MERGE_CLEANUP_RETRY",
   "RETRYABLE_WALL", "RETRYABLE_PROVIDER_WALL", "PROVIDER_UNAVAILABLE",
   "OWNER_DECISION_REQUIRED", "FAILED_TERMINAL", "COMPLETE"}

Details ==
  {"none", "VALIDATION_REMEDIATION_EXHAUSTED", "REVIEW_REMEDIATION_EXHAUSTED",
   "POST_MERGE_CLEANUP_REMEDIATION_EXHAUSTED", "APP_SERVER_EXTERNAL_TOOL_WALL",
   "HERMES_POST_MERGE_CLEANUP_WALL", "PROVIDER_WALL", "NEXT_STATE",
   "PULL_REQUEST", "RECOVERED_PULL_REQUEST", "RETRY_AFTER"}

\* The metadata some operation compares or resets.
MetaFields ==
  {"thread", "prNumber", "headRefOid", "mergeSha", "validationFailure",
   "validationProof", "reviewProof", "reviewReconciled", "cleanupProof",
   "cleanupRetries", "ownerPacket", "ownerResume", "retirement"}

MetaValues ==
  Evidence \cup {"none", "some", "infrastructure", "product", "exhausted",
                 "PENDING", "CONSUMED"}

Lease == [status: LeaseStatuses, holderId: Holders,
          expiresAt: Int, acquiredAt: Int, abandoned: AbandonReasons]

Checkpoint == [sequence: Nat, state: HolderStates \cup RecoveryStates,
               detail: Details, recordedAt: Int]

Execution == [fencingToken: Nat, lease: Lease, checkpoint: Checkpoint,
              metadata: [MetaFields -> MetaValues]]

ASSUME BoundsAssumption ==
  /\ MaxTime \in Nat /\ MaxRevision \in Nat /\ MaxTouches \in Nat
  /\ RetireSequence \in Nat /\ CleanupSequence \in Nat
  /\ Durations \subseteq Nat \ {0}

ASSUME NoExecutionAssumption == NoExecution \notin Execution

\* No digest, commit or pull request is the value of a field that is not set.
ASSUME EvidenceAssumption == "none" \notin Evidence

\* metadata() never resets the pull request a write once named, and no write of
\* the bridge names the proof of a review recovery.
ASSUME WritesAssumption ==
  \A w \in Writes :
    /\ w.state \in HolderStates /\ w.detail \in Details
    /\ DOMAIN w.metadata \subseteq MetaFields \ {"reviewProof"}
    /\ \A f \in DOMAIN w.metadata : w.metadata[f] \in MetaValues
    /\ "prNumber" \in DOMAIN w.metadata => w.metadata["prNumber"] \in Evidence

VARIABLES
  executions,        \* [Outcomes -> Execution or NoExecution]
  nextFencingToken,  \* the fence the next grant will carry
  revision,          \* number of accepted mutations, one per idempotency key
  updatedAt,         \* the monotone mutation clock
  killSwitch,        \* killSwitch.active
  ownerTouches,      \* sum of the five owner-touch counters
  idempotency,       \* what each accepted key answered, in order of first use:
                     \* the fence it granted, 0 when it granted none
  clock,             \* the host's wall clock, which may step back
  acceptedFence      \* history: the fence of the last accepted holder request

storeVars == <<executions, nextFencingToken, revision, updatedAt, killSwitch,
               ownerTouches, idempotency>>
vars == <<storeVars, clock, acceptedFence>>

-----------------------------------------------------------------------------
(* mutate(): the frame every operation shares.                             *)

\* The definitions named Faulty... are mutants: each replaces the definition
\* after it to show that some property would notice the fault.
MutationAt == IF clock < updatedAt THEN updatedAt ELSE clock

Mutate(granted) ==
  /\ revision < MaxRevision
  /\ revision' = revision + 1
  /\ updatedAt' = MutationAt
  /\ idempotency' = Append(idempotency, granted)
  /\ UNCHANGED clock

\* Replace the execution of one outcome without issuing a fence.
Record(o, e) ==
  /\ Mutate(0)
  /\ executions' = [executions EXCEPT ![o] = e]
  /\ UNCHANGED <<nextFencingToken, killSwitch, ownerTouches>>

FaultyRecordFenced(o, e) ==
  /\ Mutate(nextFencingToken)
  /\ executions' = [executions EXCEPT ![o] = e]
  /\ UNCHANGED <<nextFencingToken, killSwitch, ownerTouches>>

\* Replace it under a fence never issued before.
RecordFenced(o, e) ==
  /\ Mutate(nextFencingToken)
  /\ executions' = [executions EXCEPT ![o] = e]
  /\ nextFencingToken' = nextFencingToken + 1
  /\ UNCHANGED <<killSwitch, ownerTouches>>

Known(o) == executions[o] # NoExecution

FaultyAssertRunning == TRUE

AssertRunning == ~killSwitch

FaultyOwnerTouchesRemainZero == TRUE

OwnerTouchesRemainZero == ownerTouches = 0

FaultyAssertFence(o, h, token) ==
  /\ Known(o)
  /\ executions[o].lease.status = "ACTIVE"
  /\ executions[o].lease.abandoned = "none"
  /\ executions[o].lease.holderId = h

\* The caller names itself and the fence it believes it holds.
AssertFence(o, h, token) ==
  /\ Known(o)
  /\ executions[o].fencingToken = token
  /\ executions[o].lease.status = "ACTIVE"
  /\ executions[o].lease.abandoned = "none"
  /\ executions[o].lease.holderId = h

NotExpired(o) == executions[o].lease.expiresAt > clock

\* metadata(input, current): the fields named by the input replace the current.
Merge(input, current) ==
  [f \in MetaFields |-> IF f \in DOMAIN input THEN input[f] ELSE current[f]]

EmptyMetadata == [f \in MetaFields |-> "none"]

NoThread == [thread |-> "none"]

GrantedLease(h, d) ==
  [status |-> "ACTIVE", holderId |-> h, expiresAt |-> clock + d,
   acquiredAt |-> MutationAt, abandoned |-> "none"]

\* Every operation that ends a lease expires it at the mutation clock.
Ended(lease, status) ==
  [lease EXCEPT !.status = status, !.expiresAt = MutationAt]

NextCheckpoint(cp, state, detail) ==
  [sequence |-> cp.sequence + 1, state |-> state, detail |-> detail,
   recordedAt |-> MutationAt]

At(o, state, detail) ==
  /\ executions[o].checkpoint.state = state
  /\ executions[o].checkpoint.detail = detail

MergeEvidence(o) ==
  \A f \in {"prNumber", "headRefOid", "mergeSha"} :
    executions[o].metadata[f] # "none"

-----------------------------------------------------------------------------
(* Lease operations, called by the bridge's cycle.                         *)

Init ==
  /\ executions = [o \in Outcomes |-> NoExecution]
  /\ nextFencingToken = 1
  /\ revision = 0
  /\ updatedAt = 0
  /\ killSwitch = FALSE
  /\ ownerTouches = 0
  /\ idempotency = <<>>
  /\ clock = 0
  /\ acceptedFence = [o \in Outcomes |-> 0]

\* An outcome with any execution at all is refused, live or not.
AcquireLease(o, h, d) ==
  /\ AssertRunning
  /\ ~Known(o)
  /\ RecordFenced(o,
       [fencingToken |-> nextFencingToken,
        lease |-> GrantedLease(h, d),
        checkpoint |-> [sequence |-> 0, state |-> "LEASED", detail |-> "none",
                        recordedAt |-> MutationAt],
        metadata |-> EmptyMetadata])
  /\ UNCHANGED acceptedFence

FaultyReclaimable(o) ==
  \/ executions[o].lease.status = "ABANDONED"
  \/ executions[o].lease.abandoned # "none"
  \/ executions[o].lease.expiresAt <= MutationAt

\* Abandoned, or expired by the clock of this very request.
Reclaimable(o) ==
  \/ executions[o].lease.status = "ABANDONED"
  \/ executions[o].lease.abandoned # "none"
  \/ executions[o].lease.expiresAt <= clock

FaultyReclaimLease(o, h, d, patch) ==
  /\ AssertRunning
  /\ Known(o)
  /\ Reclaimable(o)
  /\ Record(o, [executions[o] EXCEPT !.lease = GrantedLease(h, d),
                                     !.metadata = Merge(patch, @)])
  /\ UNCHANGED acceptedFence

\* The expected fence is read from the store just before: a request that names
\* an older one is refused.  The caller may drop the model thread (patch).
ReclaimLease(o, h, d, patch) ==
  /\ AssertRunning
  /\ Known(o)
  /\ Reclaimable(o)
  /\ RecordFenced(o, [executions[o] EXCEPT !.fencingToken = nextFencingToken,
                                           !.lease = GrantedLease(h, d),
                                           !.metadata = Merge(patch, @)])
  /\ UNCHANGED acceptedFence

\* A holder's request is accepted under the fence it presents.
Accept(o, token) == acceptedFence' = [acceptedFence EXCEPT ![o] = token]

WriteCheckpoint(o, h, token, w) ==
  /\ AssertRunning
  /\ AssertFence(o, h, token)
  /\ NotExpired(o)
  /\ Record(o, [executions[o] EXCEPT
                  !.checkpoint = NextCheckpoint(@, w.state, w.detail),
                  !.metadata = Merge(w.metadata, @)])
  /\ Accept(o, token)

RenewLease(o, h, token, d) ==
  /\ AssertRunning
  /\ AssertFence(o, h, token)
  /\ NotExpired(o)
  /\ Record(o, [executions[o] EXCEPT !.lease = [@ EXCEPT !.expiresAt = clock + d]])
  /\ Accept(o, token)

\* Neither release nor abandon asks for the kill switch or for the expiry.
ReleaseLease(o, h, token) ==
  /\ AssertFence(o, h, token)
  /\ Record(o, [executions[o] EXCEPT !.lease = Ended(@, "RELEASED")])
  /\ Accept(o, token)

AbandonLease(o, h, token, reason) ==
  /\ AssertFence(o, h, token)
  /\ Record(o, [executions[o] EXCEPT
                  !.lease = [@ EXCEPT !.expiresAt = MutationAt,
                                      !.abandoned = reason]])
  /\ Accept(o, token)

\* The deferral outlives the lease's own expiry: only the fence is checked.
DeferProviderWall(o, h, token, d) ==
  /\ AssertRunning
  /\ AssertFence(o, h, token)
  /\ executions[o].checkpoint.state = "PROVIDER_UNAVAILABLE"
  /\ Record(o, [executions[o] EXCEPT
                  !.lease = [@ EXCEPT !.status = "DEFERRED",
                                      !.expiresAt = clock + d],
                  !.checkpoint = NextCheckpoint(@,
                     "DEFERRED_PROVIDER_UNAVAILABLE", "RETRY_AFTER")])
  /\ Accept(o, token)

\* Not gated by the kill switch.  The caller proves, from the queue, that the
\* acquisition this execution was started for has been retired there.
RetireDurableQueueAcquisition(o) ==
  /\ Known(o)
  /\ executions[o].lease.status = "ACTIVE"
  /\ executions[o].lease.abandoned = "none"
  /\ ~NotExpired(o)
  /\ At(o, "CODEX_THREAD_READY", "none")
  /\ executions[o].checkpoint.sequence = RetireSequence
  /\ executions[o].metadata["retirement"] = "none"
  /\ Record(o, [executions[o] EXCEPT
                  !.lease = Ended(@, "RELEASED"),
                  !.checkpoint = NextCheckpoint(@,
                     "DURABLE_QUEUE_ACQUISITION_RETIRED", "none"),
                  !.metadata["retirement"] = "some"])
  /\ UNCHANGED acceptedFence

-----------------------------------------------------------------------------
(* Recovery operations, called by the operator's command line (and the     *)
(* owner-decision reopening by the cycle).  The values a request expects   *)
(* are read from the store: only what they must equal besides is a guard.  *)

\* The recovery operations leave the lease ABANDONED: never held, always
\* reclaimable, whatever it was before.
Reopen(o, state, detail, patch) ==
  /\ Record(o, [executions[o] EXCEPT
                  !.lease = Ended(@, "ABANDONED"),
                  !.checkpoint = NextCheckpoint(@, state, detail),
                  !.metadata = Merge(patch, @)])
  /\ UNCHANGED acceptedFence

\* The recovery operations that keep the lease as it is.
Advance(o, state, detail, patch) ==
  /\ Record(o, [executions[o] EXCEPT
                  !.checkpoint = NextCheckpoint(@, state, detail),
                  !.metadata = Merge(patch, @)])
  /\ UNCHANGED acceptedFence

ReleasedAt(o, state, detail) ==
  /\ Known(o)
  /\ executions[o].lease.status = "RELEASED"
  /\ At(o, state, detail)

\* expectedDetail is a request parameter: any terminal detail is accepted.
ReopenProviderWall(o) ==
  /\ AssertRunning
  /\ \E d \in Details :
       /\ ReleasedAt(o, "FAILED_TERMINAL", d)
       /\ Reopen(o, "RETRYABLE_PROVIDER_WALL", d, NoThread)

ReopenOwnerDecisionWall(o) ==
  /\ AssertRunning
  /\ ReleasedAt(o, "OWNER_DECISION_REQUIRED", "NEXT_STATE")
  /\ executions[o].metadata["ownerPacket"] # "none"
  /\ Reopen(o, "OWNER_DECISION_ACCEPTED", "NEXT_STATE",
            [ownerResume |-> "PENDING"])

\* The one recovery that also issues a fence.
ReopenValidationInfrastructureWall(o, proof) ==
  /\ AssertRunning
  /\ OwnerTouchesRemainZero
  /\ Known(o)
  /\ \/ executions[o].lease.status = "RELEASED"
     \/ /\ executions[o].lease.status = "ACTIVE"
        /\ executions[o].lease.abandoned = "PROCESS_EXIT"
  /\ At(o, "FAILED_TERMINAL", "VALIDATION_REMEDIATION_EXHAUSTED")
  /\ executions[o].metadata["validationFailure"] = "infrastructure"
  /\ RecordFenced(o, [executions[o] EXCEPT
       !.fencingToken = nextFencingToken,
       !.lease = Ended(@, "ABANDONED"),
       !.checkpoint = NextCheckpoint(@, "VALIDATION_INFRASTRUCTURE_RECOVERED",
                                     "VALIDATION_REMEDIATION_EXHAUSTED"),
       !.metadata = Merge([validationFailure |-> "none",
                           validationProof |-> proof,
                           headRefOid |-> "none"], @)])
  /\ UNCHANGED acceptedFence

BeginReviewRemediationRecovery(o, head, merge, proof) ==
  /\ AssertRunning
  /\ OwnerTouchesRemainZero
  /\ ReleasedAt(o, "FAILED_TERMINAL", "REVIEW_REMEDIATION_EXHAUSTED")
  /\ executions[o].metadata["prNumber"] # "none"
  /\ executions[o].metadata["headRefOid"] # "none"
  /\ Advance(o, "REVIEW_REMEDIATION_RECOVERY_PENDING",
             "REVIEW_REMEDIATION_EXHAUSTED",
             [headRefOid |-> head, mergeSha |-> merge, reviewProof |-> proof])

FaultySameReview(o, head, merge, proof) ==
  /\ executions[o].metadata["headRefOid"] = head
  /\ executions[o].metadata["mergeSha"] = merge

\* Each later step names the pull request, head, merge and proof again.
SameReview(o, head, merge, proof) ==
  /\ executions[o].metadata["headRefOid"] = head
  /\ executions[o].metadata["mergeSha"] = merge
  /\ executions[o].metadata["reviewProof"] = proof

RecordReviewRemediationMerge(o, head, merge, proof) ==
  /\ AssertRunning
  /\ OwnerTouchesRemainZero
  /\ ReleasedAt(o, "REVIEW_REMEDIATION_RECOVERY_PENDING",
                "REVIEW_REMEDIATION_EXHAUSTED")
  /\ SameReview(o, head, merge, proof)
  /\ Advance(o, "PR_MERGED", "RECOVERED_PULL_REQUEST", <<>>)

FinalizeReviewRemediationRecovery(o, head, merge, proof) ==
  /\ AssertRunning
  /\ OwnerTouchesRemainZero
  /\ \E d \in Details : ReleasedAt(o, "PR_MERGED", d)
  /\ SameReview(o, head, merge, proof)
  /\ Reopen(o, "REVIEW_REMEDIATION_RECOVERED", "REVIEW_REMEDIATION_EXHAUSTED",
            NoThread)

\* Moves the sequence on so that the projection can be published once more.
ReconcileReviewRemediationProjection(o, head, merge, proof) ==
  /\ AssertRunning
  /\ OwnerTouchesRemainZero
  /\ Known(o)
  /\ executions[o].lease.status = "ABANDONED"
  /\ At(o, "REVIEW_REMEDIATION_RECOVERED", "REVIEW_REMEDIATION_EXHAUSTED")
  /\ SameReview(o, head, merge, proof)
  /\ executions[o].metadata["reviewReconciled"] = "none"
  /\ Advance(o, "REVIEW_REMEDIATION_RECOVERED", "REVIEW_REMEDIATION_EXHAUSTED",
             [reviewReconciled |-> "some"])

FaultyRecoverExternalToolWall(o) ==
  /\ AssertRunning
  /\ OwnerTouchesRemainZero
  /\ Known(o)
  /\ executions[o].lease.status = "ACTIVE"
  /\ At(o, "RETRYABLE_WALL", "APP_SERVER_EXTERNAL_TOOL_WALL")
  /\ Advance(o, "EXTERNAL_TOOL_WALL_RECOVERED", "APP_SERVER_EXTERNAL_TOOL_WALL",
             NoThread)

\* The next two take a lease from whoever holds it, expired or not: the
\* operator has disabled activation and names the holder.
RecoverExternalToolWall(o) ==
  /\ AssertRunning
  /\ OwnerTouchesRemainZero
  /\ Known(o)
  /\ executions[o].lease.status = "ACTIVE"
  /\ At(o, "RETRYABLE_WALL", "APP_SERVER_EXTERNAL_TOOL_WALL")
  /\ Reopen(o, "EXTERNAL_TOOL_WALL_RECOVERED", "APP_SERVER_EXTERNAL_TOOL_WALL",
            NoThread)

RecoverPostMergeCleanupWall(o) ==
  /\ AssertRunning
  /\ OwnerTouchesRemainZero
  /\ Known(o)
  /\ executions[o].lease.status = "ACTIVE"
  /\ executions[o].checkpoint.state = "PR_MERGED"
  /\ MergeEvidence(o)
  /\ Reopen(o, "POST_MERGE_CLEANUP_RECOVERED", "PULL_REQUEST", <<>>)

BeginTerminalPostMergeCleanupRecovery(o, proof) ==
  /\ AssertRunning
  /\ OwnerTouchesRemainZero
  /\ ReleasedAt(o, "FAILED_TERMINAL", "POST_MERGE_CLEANUP_REMEDIATION_EXHAUSTED")
  /\ executions[o].metadata["cleanupRetries"] = "exhausted"
  /\ MergeEvidence(o)
  /\ Advance(o, "POST_MERGE_CLEANUP_TERMINAL_RECOVERY_PENDING",
             "POST_MERGE_CLEANUP_REMEDIATION_EXHAUSTED",
             [cleanupProof |-> proof])

FinalizeTerminalPostMergeCleanupRecovery(o, proof) ==
  /\ AssertRunning
  /\ OwnerTouchesRemainZero
  /\ ReleasedAt(o, "POST_MERGE_CLEANUP_TERMINAL_RECOVERY_PENDING",
                "POST_MERGE_CLEANUP_REMEDIATION_EXHAUSTED")
  /\ executions[o].metadata["cleanupProof"] = proof
  /\ Reopen(o, "POST_MERGE_CLEANUP_RECOVERED", "PULL_REQUEST",
            [cleanupRetries |-> "none"])

\* Completes an execution its holder abandoned because the projection failed,
\* after the queue has recorded the four events of the cleanup.
CompleteActivePostMergeCleanupRecovery(o) ==
  /\ AssertRunning
  /\ OwnerTouchesRemainZero
  /\ Known(o)
  /\ executions[o].lease.status = "ACTIVE"
  /\ executions[o].lease.abandoned = "PROJECTION_WALL"
  /\ At(o, "POST_MERGE_CLEANUP_RETRY", "HERMES_POST_MERGE_CLEANUP_WALL")
  /\ executions[o].checkpoint.sequence = CleanupSequence
  /\ Record(o, [executions[o] EXCEPT
                  !.lease = Ended(@, "RELEASED"),
                  !.checkpoint = NextCheckpoint(@, "COMPLETE", "PULL_REQUEST"),
                  !.metadata = Merge([cleanupRetries |-> "none"], @)])
  /\ UNCHANGED acceptedFence

-----------------------------------------------------------------------------
(* The operator's controls, and the world outside.                         *)

SetKillSwitch(active) ==
  /\ Mutate(0)
  /\ killSwitch' = active
  /\ UNCHANGED <<executions, nextFencingToken, ownerTouches, acceptedFence>>

RecordOwnerTouch ==
  /\ ownerTouches < MaxTouches
  /\ Mutate(0)
  /\ ownerTouches' = ownerTouches + 1
  /\ UNCHANGED <<executions, nextFencingToken, killSwitch, acceptedFence>>

\* The wall clock moves, forwards or backwards.
ClockStep ==
  /\ \E t \in 0..MaxTime : clock' = t
  /\ UNCHANGED <<storeVars, acceptedFence>>

Fences == 1..(nextFencingToken - 1)

HolderNext(o, h) ==
  \/ \E d \in Durations : AcquireLease(o, h, d)
  \/ \E d \in Durations, patch \in {<<>>, NoThread} : ReclaimLease(o, h, d, patch)
  \/ \E token \in Fences :
       \/ \E w \in Writes : WriteCheckpoint(o, h, token, w)
       \/ \E d \in Durations : RenewLease(o, h, token, d)
       \/ ReleaseLease(o, h, token)
       \/ \E r \in AbandonReasons \ {"none"} : AbandonLease(o, h, token, r)
       \/ \E d \in Durations : DeferProviderWall(o, h, token, d)

ReviewNext(o) ==
  \E head, merge, proof \in Evidence :
    \/ BeginReviewRemediationRecovery(o, head, merge, proof)
    \/ RecordReviewRemediationMerge(o, head, merge, proof)
    \/ FinalizeReviewRemediationRecovery(o, head, merge, proof)
    \/ ReconcileReviewRemediationProjection(o, head, merge, proof)

OperatorNext(o) ==
  \/ RetireDurableQueueAcquisition(o)
  \/ ReopenProviderWall(o)
  \/ ReopenOwnerDecisionWall(o)
  \/ \E proof \in Evidence : ReopenValidationInfrastructureWall(o, proof)
  \/ ReviewNext(o)
  \/ RecoverExternalToolWall(o)
  \/ RecoverPostMergeCleanupWall(o)
  \/ \E proof \in Evidence : BeginTerminalPostMergeCleanupRecovery(o, proof)
  \/ \E proof \in Evidence : FinalizeTerminalPostMergeCleanupRecovery(o, proof)
  \/ CompleteActivePostMergeCleanupRecovery(o)

Next ==
  \/ \E o \in Outcomes : (\E h \in Holders : HolderNext(o, h)) \/ OperatorNext(o)
  \/ \E active \in BOOLEAN : SetKillSwitch(active)
  \/ RecordOwnerTouch
  \/ ClockStep

Spec == Init /\ [][Next]_vars

-----------------------------------------------------------------------------
(* Properties.                                                             *)

TypeOK ==
  /\ executions \in [Outcomes -> Execution \cup {NoExecution}]
  /\ nextFencingToken \in Nat \ {0}
  /\ revision \in Nat
  /\ updatedAt \in 0..MaxTime
  /\ killSwitch \in BOOLEAN
  /\ ownerTouches \in Nat
  /\ idempotency \in Seq(Nat)
  /\ clock \in 0..MaxTime
  /\ acceptedFence \in [Outcomes -> Nat]

\* The store counts the outcome as held: some process may still act under it.
Held(o) ==
  /\ Known(o)
  /\ executions[o].lease.status = "ACTIVE"
  /\ executions[o].lease.abandoned = "none"

\* A fence is issued once: two outcomes never share one, the fence of an
\* execution was answered to some idempotency key, and no two keys were ever
\* answered the same fence, so a retried acquire cannot mint a second holder.
FencesIssuedOnce ==
  /\ \A o \in Outcomes : Known(o) =>
       /\ executions[o].fencingToken < nextFencingToken
       /\ \E i \in DOMAIN idempotency :
            idempotency[i] = executions[o].fencingToken
  /\ \A o, p \in Outcomes : o # p /\ Known(o) /\ Known(p) =>
       executions[o].fencingToken # executions[p].fencingToken
  /\ \A i, j \in DOMAIN idempotency :
       idempotency[i] = idempotency[j] /\ idempotency[i] # 0 => i = j

\* A paused holder that wakes up late is not obeyed: the requests accepted for
\* an outcome carry fences that never decrease, across reclaims, recoveries and
\* clock rollbacks.
AcceptedFencesNeverDecrease ==
  [][\A o \in Outcomes : acceptedFence'[o] >= acceptedFence[o]]_vars

\* A lease that ended never comes back under its old fence, and a lease never
\* passes to another holder under the same fence: holding starts with a fence
\* that nobody was ever given.
HoldingStartsWithNewFence ==
  [][\A o \in Outcomes :
       Held(o)' /\ (~Held(o) \/ executions'[o].lease.holderId
                                  # executions[o].lease.holderId)
         => executions'[o].fencingToken = nextFencingToken]_vars

\* While the clock is short of its expiry, a held lease keeps its fence: no
\* reclaim and no recovery gives the outcome to a second process.
UnexpiredLeaseKeepsFence ==
  [][\A o \in Outcomes : Held(o) /\ NotExpired(o) =>
       executions'[o].fencingToken = executions[o].fencingToken]_vars

\* While the kill switch is on, no fence is issued, no lease starts or lives
\* longer, and the only checkpoint the store writes is a retirement.
KillSwitchStopsWork ==
  [][killSwitch /\ killSwitch' =>
       /\ nextFencingToken' = nextFencingToken
       /\ \A o \in Outcomes : executions'[o] # executions[o] =>
            /\ Held(o)' => executions'[o].lease = executions[o].lease
            /\ \/ executions'[o].checkpoint = executions[o].checkpoint
               \/ executions'[o].checkpoint.state
                    = "DURABLE_QUEUE_ACQUISITION_RETIRED"]_vars

\* A recovery takes the outcome away from its former holder: whatever state a
\* recovery operation writes, nobody holds the outcome right after it.
RecoveryRevokesHolder ==
  [][\A o \in Outcomes :
       /\ Known(o)
       /\ executions'[o].checkpoint # executions[o].checkpoint
       /\ executions'[o].checkpoint.state \in RecoveryStates
       => ~Held(o)']_vars

\* A recovered execution carries the evidence its recovery was granted on, and
\* the next holder cannot resume the model thread of the previous one.
RecoveredStatesCarryEvidence ==
  \A o \in Outcomes : Known(o) =>
    LET e == executions[o]
        m == e.metadata IN
    /\ e.checkpoint.state = "REVIEW_REMEDIATION_RECOVERED" =>
         /\ {m["prNumber"], m["headRefOid"], m["mergeSha"], m["reviewProof"]}
              \subseteq Evidence
         /\ m["thread"] = "none"
    /\ e.checkpoint.state = "POST_MERGE_CLEANUP_RECOVERED" => MergeEvidence(o)
    /\ e.checkpoint.state = "VALIDATION_INFRASTRUCTURE_RECOVERED" =>
         /\ m["validationProof"] \in Evidence
         /\ m["headRefOid"] = "none" /\ m["validationFailure"] = "none"

\* Once the owner had to intervene, the recoveries that claim an untouched run
\* are closed for good: no outcome enters one of their states any more.
ZeroTouchStates ==
  RecoveryStates \ {"LEASED", "DURABLE_QUEUE_ACQUISITION_RETIRED",
                    "OWNER_DECISION_ACCEPTED", "DEFERRED_PROVIDER_UNAVAILABLE"}

TouchedRunsAreNotRecovered ==
  [][ownerTouches > 0 =>
       /\ ownerTouches' >= ownerTouches
       /\ \A o \in Outcomes : Known(o) =>
            \/ executions'[o].checkpoint = executions[o].checkpoint
            \/ executions'[o].checkpoint.state \notin ZeroTouchStates]_vars
=============================================================================
