----------------------- MODULE HermesStateStoreProofs -----------------------
(***************************************************************************)
(* Proofs about HermesStateStore for every number of outcomes, holders,    *)
(* requests and clock readings.  All of them go through one lemma,         *)
(* StepShapes: whatever the operation, a step replaces one execution under *)
(* its own fence, or under the fence issued by the step, or none.          *)
(***************************************************************************)
EXTENDS HermesStateStore, TLAPS

IsHeld(e) == e.lease.status = "ACTIVE" /\ e.lease.abandoned = "none"

\* A step that replaces the execution of o by e under the fence it has.
UnfencedStep(o, e) ==
  /\ Known(o)
  /\ e \in Execution
  /\ Record(o, e)
  /\ e.fencingToken = executions[o].fencingToken
  /\ IsHeld(e) => Held(o) /\ e.lease.holderId = executions[o].lease.holderId
  /\ \/ UNCHANGED acceptedFence
     \/ acceptedFence' = [acceptedFence EXCEPT ![o] = executions[o].fencingToken]

\* A step that replaces it under a new fence, whether or not o was known.
FencedStep(o, e) ==
  /\ ~(Held(o) /\ NotExpired(o))
  /\ e \in Execution
  /\ RecordFenced(o, e)
  /\ e.fencingToken = nextFencingToken
  /\ UNCHANGED acceptedFence

\* A step that leaves executions and fences alone.
ControlStep ==
  /\ UNCHANGED <<executions, nextFencingToken, acceptedFence>>
  /\ killSwitch' \in BOOLEAN
  /\ ownerTouches' \in Nat
  /\ \/ Mutate(0)
     \/ clock' \in 0..MaxTime /\ UNCHANGED <<revision, updatedAt, idempotency>>

Shapes ==
  \/ \E o \in Outcomes, e \in Execution : UnfencedStep(o, e) \/ FencedStep(o, e)
  \/ ControlStep

-----------------------------------------------------------------------------
(* What the helpers of the operations build.                               *)

LEMMA MutationAtInRange == TypeOK => MutationAt \in 0..MaxTime
  BY DEF TypeOK, MutationAt

LEMMA MergeType ==
  ASSUME NEW m \in [MetaFields -> MetaValues], NEW input,
         \A f \in DOMAIN input : input[f] \in MetaValues
  PROVE  Merge(input, m) \in [MetaFields -> MetaValues]
  BY DEF Merge

LEMMA NextCheckpointType ==
  ASSUME TypeOK, NEW cp \in Checkpoint,
         NEW state \in HolderStates \cup RecoveryStates, NEW detail \in Details
  PROVE  NextCheckpoint(cp, state, detail) \in Checkpoint
  BY MutationAtInRange, BoundsAssumption DEF NextCheckpoint, Checkpoint

LEMMA EndedType ==
  ASSUME TypeOK, NEW l \in Lease, NEW status \in LeaseStatuses
  PROVE  /\ Ended(l, status) \in Lease
         /\ Ended(l, status).status = status
         /\ Ended(l, status).holderId = l.holderId
         /\ Ended(l, status).abandoned = l.abandoned
<1>1. MutationAt \in Int
  BY MutationAtInRange, BoundsAssumption
<1>2. Ended(l, status) \in Lease
  BY <1>1 DEF Ended, Lease
<1> QED
  BY <1>2 DEF Ended, Lease

LEMMA GrantedLeaseType ==
  ASSUME TypeOK, NEW h \in Holders, NEW d \in Durations
  PROVE  GrantedLease(h, d) \in Lease
  BY MutationAtInRange, BoundsAssumption
  DEF GrantedLease, Lease, LeaseStatuses, AbandonReasons, TypeOK

LEMMA KnownType ==
  ASSUME TypeOK, NEW o \in Outcomes, Known(o)
  PROVE  /\ executions[o] \in Execution
         /\ executions[o].fencingToken \in Nat
         /\ executions[o].lease \in Lease
         /\ executions[o].checkpoint \in Checkpoint
         /\ executions[o].metadata \in [MetaFields -> MetaValues]
  BY DEF TypeOK, Known, Execution

LEMMA LeaseUpdate ==
  ASSUME NEW l \in Lease, NEW t \in Int, NEW r \in AbandonReasons
  PROVE  /\ [l EXCEPT !.expiresAt = t] \in Lease
         /\ [l EXCEPT !.expiresAt = t].status = l.status
         /\ [l EXCEPT !.expiresAt = t].holderId = l.holderId
         /\ [l EXCEPT !.expiresAt = t].abandoned = l.abandoned
         /\ [l EXCEPT !.expiresAt = t, !.abandoned = r] \in Lease
         /\ [l EXCEPT !.expiresAt = t, !.abandoned = r].abandoned = r
         /\ [l EXCEPT !.status = "DEFERRED", !.expiresAt = t] \in Lease
         /\ [l EXCEPT !.status = "DEFERRED", !.expiresAt = t].status = "DEFERRED"
  BY DEF Lease, LeaseStatuses

\* An execution is put together from parts of the right type.
LEMMA ExecutionUpdate ==
  ASSUME NEW e \in Execution, NEW l \in Lease, NEW c \in Checkpoint,
         NEW m \in [MetaFields -> MetaValues], NEW t \in Nat
  PROVE  /\ [e EXCEPT !.fencingToken = t, !.lease = l] \in Execution
         /\ [e EXCEPT !.lease = l] \in Execution
         /\ [e EXCEPT !.checkpoint = c, !.metadata = m] \in Execution
         /\ [e EXCEPT !.lease = l, !.checkpoint = c, !.metadata = m] \in Execution
         /\ [e EXCEPT !.lease = l, !.checkpoint = c] \in Execution
         /\ [e EXCEPT !.fencingToken = t, !.lease = l, !.checkpoint = c,
                      !.metadata = m] \in Execution
  BY DEF Execution
-----------------------------------------------------------------------------
(* StepShapes, one step per operation.                                     *)

LEMMA ReopenShape ==
  ASSUME TypeOK, NEW o \in Outcomes, Known(o),
         NEW state \in RecoveryStates \cup HolderStates, NEW detail \in Details,
         NEW patch, \A f \in DOMAIN patch : patch[f] \in MetaValues,
         Reopen(o, state, detail, patch)
  PROVE  \E e \in Execution : UnfencedStep(o, e)
<1> DEFINE x == executions[o]
           e == [x EXCEPT !.lease = Ended(x.lease, "ABANDONED"),
                          !.checkpoint = NextCheckpoint(x.checkpoint, state, detail),
                          !.metadata = Merge(patch, x.metadata)]
<1>1. e \in Execution
  BY KnownType, EndedType, NextCheckpointType, MergeType, ExecutionUpdate
  DEF LeaseStatuses
<1>2. ~IsHeld(e) /\ e.fencingToken = x.fencingToken
  BY KnownType, EndedType DEF IsHeld, Execution, LeaseStatuses
<1>3. Record(o, e) /\ UNCHANGED acceptedFence
  BY DEF Reopen
<1> QED
  BY <1>1, <1>2, <1>3 DEF UnfencedStep

LEMMA AdvanceShape ==
  ASSUME TypeOK, NEW o \in Outcomes, Known(o),
         NEW state \in RecoveryStates \cup HolderStates, NEW detail \in Details,
         NEW patch, \A f \in DOMAIN patch : patch[f] \in MetaValues,
         Advance(o, state, detail, patch)
  PROVE  \E e \in Execution : UnfencedStep(o, e)
<1> DEFINE x == executions[o]
           e == [x EXCEPT !.checkpoint = NextCheckpoint(x.checkpoint, state, detail),
                          !.metadata = Merge(patch, x.metadata)]
<1>1. e \in Execution
  BY KnownType, NextCheckpointType, MergeType, ExecutionUpdate
<1>2. e.lease = x.lease /\ e.fencingToken = x.fencingToken
  BY KnownType DEF Execution
<1>3. Record(o, e) /\ UNCHANGED acceptedFence
  BY DEF Advance
<1> QED
  BY <1>1, <1>2, <1>3 DEF UnfencedStep, IsHeld, Held

LEMMA HolderShapes ==
  ASSUME TypeOK, NEW o \in Outcomes, NEW h \in Holders, HolderNext(o, h)
  PROVE  \E e \in Execution : UnfencedStep(o, e) \/ FencedStep(o, e)
<1> DEFINE x == executions[o]
<1>1. ASSUME NEW d \in Durations, AcquireLease(o, h, d)
      PROVE  \E e \in Execution : FencedStep(o, e)
  <2> DEFINE c == [sequence |-> 0, state |-> "LEASED", detail |-> "none",
                   recordedAt |-> MutationAt]
             e == [fencingToken |-> nextFencingToken,
                   lease |-> GrantedLease(h, d), checkpoint |-> c,
                   metadata |-> EmptyMetadata]
  <2>1. c \in Checkpoint
    BY MutationAtInRange, BoundsAssumption
    DEF Checkpoint, RecoveryStates, Details
  <2>2. EmptyMetadata \in [MetaFields -> MetaValues]
    BY DEF EmptyMetadata, MetaValues
  <2>3. e \in Execution
    BY <2>1, <2>2, GrantedLeaseType DEF Execution, TypeOK
  <2> QED
    BY <2>3, <1>1 DEF AcquireLease, FencedStep, Held
<1>2. ASSUME NEW d \in Durations, NEW patch \in {<<>>, NoThread},
             ReclaimLease(o, h, d, patch)
      PROVE  \E e \in Execution : FencedStep(o, e)
  <2> DEFINE e == [x EXCEPT !.fencingToken = nextFencingToken,
                            !.lease = GrantedLease(h, d),
                            !.metadata = Merge(patch, x.metadata)]
  <2>1. Known(o)
    BY <1>2 DEF ReclaimLease
  <2>2. Merge(patch, x.metadata) \in [MetaFields -> MetaValues]
    <3>1. \A f \in DOMAIN patch : patch[f] \in MetaValues
      BY DEF NoThread, MetaValues
    <3> QED
      BY <2>1, <3>1, KnownType, MergeType
  <2>3. e \in Execution /\ e.fencingToken = nextFencingToken
    <3>1. x \in Execution /\ nextFencingToken \in Nat
      BY <2>1, KnownType DEF TypeOK
    <3> QED
      BY <3>1, <2>2, GrantedLeaseType DEF Execution
  <2>4. ~(Held(o) /\ NotExpired(o))
    <3>1. x.lease.expiresAt \in Int /\ clock \in Int /\ Reclaimable(o)
      BY <2>1, <1>2, KnownType, BoundsAssumption DEF Lease, TypeOK, ReclaimLease
    <3> QED
      BY <3>1 DEF Reclaimable, Held, NotExpired
  <2> QED
    BY <2>3, <2>4, <1>2 DEF ReclaimLease, FencedStep
<1>3. ASSUME NEW token \in Fences, NEW w \in Writes, WriteCheckpoint(o, h, token, w)
      PROVE  \E e \in Execution : UnfencedStep(o, e)
  <2> DEFINE e == [x EXCEPT
                     !.checkpoint = NextCheckpoint(x.checkpoint, w.state, w.detail),
                     !.metadata = Merge(w.metadata, x.metadata)]
  <2>1. Known(o) /\ token = x.fencingToken
    BY <1>3 DEF WriteCheckpoint, AssertFence
  <2>2. e \in Execution
    BY <2>1, KnownType, NextCheckpointType, MergeType, ExecutionUpdate,
       WritesAssumption
  <2>3. e.lease = x.lease /\ e.fencingToken = x.fencingToken
    BY <2>1, KnownType DEF Execution
  <2> QED
    BY <2>1, <2>2, <2>3, <1>3
    DEF WriteCheckpoint, UnfencedStep, Accept, IsHeld, Held
<1>4. ASSUME NEW token \in Fences, NEW d \in Durations, RenewLease(o, h, token, d)
      PROVE  \E e \in Execution : UnfencedStep(o, e)
  <2> DEFINE l == [x.lease EXCEPT !.expiresAt = clock + d]
             e == [x EXCEPT !.lease = l]
  <2>1. Known(o) /\ token = x.fencingToken
    BY <1>4 DEF RenewLease, AssertFence
  <2>2. /\ l \in Lease
        /\ l.status = x.lease.status
        /\ l.abandoned = x.lease.abandoned
        /\ l.holderId = x.lease.holderId
    <3>1. x.lease \in Lease /\ clock + d \in Int
      BY <2>1, KnownType, BoundsAssumption DEF TypeOK
    <3> QED
      BY <3>1, LeaseUpdate DEF AbandonReasons
  <2>3. e \in Execution /\ e.fencingToken = x.fencingToken /\ e.lease = l
    <3>1. x \in Execution
      BY <2>1, KnownType
    <3> QED
      BY <3>1, <2>2 DEF Execution
  <2> QED
    BY <2>1, <2>2, <2>3, <1>4 DEF RenewLease, UnfencedStep, Accept, IsHeld, Held
<1>5. ASSUME NEW token \in Fences, ReleaseLease(o, h, token)
      PROVE  \E e \in Execution : UnfencedStep(o, e)
  <2> DEFINE e == [x EXCEPT !.lease = Ended(x.lease, "RELEASED")]
  <2>1. Known(o) /\ token = x.fencingToken
    BY <1>5 DEF ReleaseLease, AssertFence
  <2>2. /\ Ended(x.lease, "RELEASED") \in Lease
        /\ Ended(x.lease, "RELEASED").status = "RELEASED"
    BY <2>1, KnownType, EndedType DEF LeaseStatuses
  <2>3. e \in Execution /\ e.fencingToken = x.fencingToken /\ ~IsHeld(e)
    <3>1. x \in Execution
      BY <2>1, KnownType
    <3> QED
      BY <3>1, <2>2 DEF IsHeld, Execution
  <2> QED
    BY <2>1, <2>3, <1>5 DEF ReleaseLease, UnfencedStep, Accept
<1>6. ASSUME NEW token \in Fences, NEW r \in AbandonReasons \ {"none"},
             AbandonLease(o, h, token, r)
      PROVE  \E e \in Execution : UnfencedStep(o, e)
  <2> DEFINE l == [x.lease EXCEPT !.expiresAt = MutationAt, !.abandoned = r]
             e == [x EXCEPT !.lease = l]
  <2>1. Known(o) /\ token = x.fencingToken
    BY <1>6 DEF AbandonLease, AssertFence
  <2>2. MutationAt \in Int
    BY MutationAtInRange, BoundsAssumption
  <2>3. l \in Lease /\ l.abandoned = r
    <3>1. x.lease \in Lease
      BY <2>1, KnownType
    <3>2. r \in AbandonReasons
      OBVIOUS
    <3> QED
      BY <3>1, <3>2, <2>2 DEF Lease
  <2>4. e \in Execution /\ e.fencingToken = x.fencingToken /\ ~IsHeld(e)
    <3>1. x \in Execution
      BY <2>1, KnownType
    <3> QED
      BY <3>1, <2>3 DEF IsHeld, Execution
  <2> QED
    BY <2>1, <2>4, <1>6 DEF AbandonLease, UnfencedStep, Accept
<1>7. ASSUME NEW token \in Fences, NEW d \in Durations,
             DeferProviderWall(o, h, token, d)
      PROVE  \E e \in Execution : UnfencedStep(o, e)
  <2> DEFINE c == NextCheckpoint(x.checkpoint, "DEFERRED_PROVIDER_UNAVAILABLE",
                                 "RETRY_AFTER")
             l == [x.lease EXCEPT !.status = "DEFERRED", !.expiresAt = clock + d]
             e == [x EXCEPT !.lease = l, !.checkpoint = c]
  <2>1. Known(o) /\ token = x.fencingToken
    BY <1>7 DEF DeferProviderWall, AssertFence
  <2>2. c \in Checkpoint
    BY <2>1, KnownType, NextCheckpointType DEF RecoveryStates, Details
  <2>3. l \in Lease /\ l.status = "DEFERRED"
    <3>1. x.lease \in Lease /\ clock + d \in Int
      BY <2>1, KnownType, BoundsAssumption DEF TypeOK
    <3> QED
      BY <3>1, LeaseUpdate DEF AbandonReasons
  <2>4. e \in Execution /\ e.fencingToken = x.fencingToken /\ ~IsHeld(e)
    <3>1. x \in Execution
      BY <2>1, KnownType
    <3> QED
      BY <3>1, <2>2, <2>3 DEF IsHeld, Execution
  <2> QED
    BY <2>1, <2>4, <1>7 DEF DeferProviderWall, UnfencedStep, Accept
<1> QED
  BY <1>1, <1>2, <1>3, <1>4, <1>5, <1>6, <1>7 DEF HolderNext

LEMMA ReviewShapes ==
  ASSUME TypeOK, NEW o \in Outcomes, ReviewNext(o)
  PROVE  \E e \in Execution : UnfencedStep(o, e)
<1> DEFINE d == "REVIEW_REMEDIATION_EXHAUSTED"
           P == "REVIEW_REMEDIATION_RECOVERY_PENDING"
           R == "REVIEW_REMEDIATION_RECOVERED"
<1>0. /\ d \in Details /\ "RECOVERED_PULL_REQUEST" \in Details
      /\ {P, R} \subseteq RecoveryStates /\ "PR_MERGED" \in HolderStates
  BY DEF Details, RecoveryStates, HolderStates
<1>1. PICK head \in Evidence, merge \in Evidence, proof \in Evidence :
        \/ BeginReviewRemediationRecovery(o, head, merge, proof)
        \/ RecordReviewRemediationMerge(o, head, merge, proof)
        \/ FinalizeReviewRemediationRecovery(o, head, merge, proof)
        \/ ReconcileReviewRemediationProjection(o, head, merge, proof)
  BY DEF ReviewNext
<1>2. CASE BeginReviewRemediationRecovery(o, head, merge, proof)
  <2> DEFINE patch == [headRefOid |-> head, mergeSha |-> merge,
                       reviewProof |-> proof]
  <2>1. \A f \in DOMAIN patch : patch[f] \in MetaValues
    BY DEF MetaValues
  <2>2. Known(o) /\ Advance(o, P, d, patch)
    BY <1>2 DEF BeginReviewRemediationRecovery, ReleasedAt
  <2> QED
    BY <1>0, <2>1, <2>2, AdvanceShape
<1>3. CASE RecordReviewRemediationMerge(o, head, merge, proof)
  <2>1. Known(o) /\ Advance(o, "PR_MERGED", "RECOVERED_PULL_REQUEST", <<>>)
    BY <1>3 DEF RecordReviewRemediationMerge, ReleasedAt
  <2> QED
    BY <1>0, <2>1, AdvanceShape
<1>4. CASE FinalizeReviewRemediationRecovery(o, head, merge, proof)
  <2>1. Known(o) /\ Reopen(o, R, d, NoThread)
    BY <1>4 DEF FinalizeReviewRemediationRecovery, ReleasedAt
  <2>2. \A f \in DOMAIN NoThread : NoThread[f] \in MetaValues
    BY DEF NoThread, MetaValues
  <2> QED
    BY <1>0, <2>1, <2>2, ReopenShape
<1>5. CASE ReconcileReviewRemediationProjection(o, head, merge, proof)
  <2> DEFINE patch == [reviewReconciled |-> "some"]
  <2>1. \A f \in DOMAIN patch : patch[f] \in MetaValues
    BY DEF MetaValues
  <2>2. Known(o) /\ Advance(o, R, d, patch)
    BY <1>5 DEF ReconcileReviewRemediationProjection
  <2> QED
    BY <1>0, <2>1, <2>2, AdvanceShape
<1> QED
  BY <1>1, <1>2, <1>3, <1>4, <1>5

LEMMA RetirementShape ==
  ASSUME TypeOK, NEW o \in Outcomes, RetireDurableQueueAcquisition(o)
  PROVE  \E e \in Execution : UnfencedStep(o, e)
<1> DEFINE x == executions[o]
           l == Ended(x.lease, "RELEASED")
           c == NextCheckpoint(x.checkpoint, "DURABLE_QUEUE_ACQUISITION_RETIRED",
                               "none")
           m == [x.metadata EXCEPT !["retirement"] = "some"]
           e == [x EXCEPT !.lease = l, !.checkpoint = c, !.metadata = m]
<1>1. Known(o)
  BY DEF RetireDurableQueueAcquisition
<1>2. x \in Execution /\ x.metadata \in [MetaFields -> MetaValues]
  BY <1>1, KnownType
<1>3. l \in Lease /\ l.status = "RELEASED"
  BY <1>1, KnownType, EndedType DEF LeaseStatuses
<1>4. c \in Checkpoint
  BY <1>1, KnownType, NextCheckpointType DEF RecoveryStates, Details
<1>5. m \in [MetaFields -> MetaValues]
  BY <1>2 DEF MetaValues
<1>6. e \in Execution /\ e.fencingToken = x.fencingToken /\ ~IsHeld(e)
  BY <1>2, <1>3, <1>4, <1>5 DEF Execution, IsHeld
<1>7. Record(o, e) /\ UNCHANGED acceptedFence
  BY DEF RetireDurableQueueAcquisition
<1> QED
  BY <1>1, <1>6, <1>7 DEF UnfencedStep

LEMMA ValidationShape ==
  ASSUME TypeOK, NEW o \in Outcomes, NEW proof \in Evidence,
         ReopenValidationInfrastructureWall(o, proof)
  PROVE  \E e \in Execution : FencedStep(o, e)
<1> DEFINE x == executions[o]
           l == Ended(x.lease, "ABANDONED")
           c == NextCheckpoint(x.checkpoint,
                               "VALIDATION_INFRASTRUCTURE_RECOVERED",
                               "VALIDATION_REMEDIATION_EXHAUSTED")
           patch == [validationFailure |-> "none", validationProof |-> proof,
                     headRefOid |-> "none"]
           m == Merge(patch, x.metadata)
           e == [x EXCEPT !.fencingToken = nextFencingToken, !.lease = l,
                          !.checkpoint = c, !.metadata = m]
<1>1. Known(o)
  BY DEF ReopenValidationInfrastructureWall
<1>2. x \in Execution /\ nextFencingToken \in Nat
  BY <1>1, KnownType DEF TypeOK
<1>3. l \in Lease
  BY <1>1, KnownType, EndedType DEF LeaseStatuses
<1>4. c \in Checkpoint
  BY <1>1, KnownType, NextCheckpointType DEF RecoveryStates, Details
<1>5. m \in [MetaFields -> MetaValues]
  <2>1. \A f \in DOMAIN patch : patch[f] \in MetaValues
    BY DEF MetaValues
  <2> QED
    BY <2>1, <1>1, KnownType, MergeType
<1>6. e \in Execution /\ e.fencingToken = nextFencingToken
  BY <1>2, <1>3, <1>4, <1>5 DEF Execution
<1>7. RecordFenced(o, e) /\ UNCHANGED acceptedFence
  BY DEF ReopenValidationInfrastructureWall
<1>8. ~Held(o)
  BY DEF ReopenValidationInfrastructureWall, Held
<1> QED
  BY <1>6, <1>7, <1>8 DEF FencedStep

LEMMA CompletionShape ==
  ASSUME TypeOK, NEW o \in Outcomes, CompleteActivePostMergeCleanupRecovery(o)
  PROVE  \E e \in Execution : UnfencedStep(o, e)
<1> DEFINE x == executions[o]
           l == Ended(x.lease, "RELEASED")
           c == NextCheckpoint(x.checkpoint, "COMPLETE", "PULL_REQUEST")
           patch == [cleanupRetries |-> "none"]
           m == Merge(patch, x.metadata)
           e == [x EXCEPT !.lease = l, !.checkpoint = c, !.metadata = m]
<1>1. Known(o)
  BY DEF CompleteActivePostMergeCleanupRecovery
<1>2. x \in Execution
  BY <1>1, KnownType
<1>3. l \in Lease /\ l.status = "RELEASED"
  BY <1>1, KnownType, EndedType DEF LeaseStatuses
<1>4. c \in Checkpoint
  BY <1>1, KnownType, NextCheckpointType DEF HolderStates, Details
<1>5. m \in [MetaFields -> MetaValues]
  <2>1. \A f \in DOMAIN patch : patch[f] \in MetaValues
    BY DEF MetaValues
  <2> QED
    BY <2>1, <1>1, KnownType, MergeType
<1>6. e \in Execution /\ e.fencingToken = x.fencingToken /\ ~IsHeld(e)
  BY <1>2, <1>3, <1>4, <1>5 DEF Execution, IsHeld
<1>7. Record(o, e) /\ UNCHANGED acceptedFence
  BY DEF CompleteActivePostMergeCleanupRecovery
<1> QED
  BY <1>1, <1>6, <1>7 DEF UnfencedStep

LEMMA OperatorShapes ==
  ASSUME TypeOK, NEW o \in Outcomes, OperatorNext(o)
  PROVE  \E e \in Execution : UnfencedStep(o, e) \/ FencedStep(o, e)
<1>0. \A f \in DOMAIN NoThread : NoThread[f] \in MetaValues
  BY DEF NoThread, MetaValues
<1>1. CASE ReopenProviderWall(o)
  <2>1. PICK d \in Details : Known(o)
                   /\ Reopen(o, "RETRYABLE_PROVIDER_WALL", d, NoThread)
    BY <1>1 DEF ReopenProviderWall, ReleasedAt
  <2> QED
    BY <1>0, <2>1, ReopenShape DEF HolderStates
<1>2. CASE ReopenOwnerDecisionWall(o)
  <2> DEFINE patch == [ownerResume |-> "PENDING"]
  <2>1. \A f \in DOMAIN patch : patch[f] \in MetaValues
    BY DEF MetaValues
  <2>2. Known(o) /\ Reopen(o, "OWNER_DECISION_ACCEPTED", "NEXT_STATE", patch)
    BY <1>2 DEF ReopenOwnerDecisionWall, ReleasedAt
  <2> QED
    BY <2>1, <2>2, ReopenShape DEF RecoveryStates, Details
<1>3. CASE RecoverExternalToolWall(o)
  <2>1. Known(o) /\ Reopen(o, "EXTERNAL_TOOL_WALL_RECOVERED",
                           "APP_SERVER_EXTERNAL_TOOL_WALL", NoThread)
    BY <1>3 DEF RecoverExternalToolWall
  <2> QED
    BY <1>0, <2>1, ReopenShape DEF RecoveryStates, Details
<1>4. CASE RecoverPostMergeCleanupWall(o)
  <2>1. Known(o) /\ Reopen(o, "POST_MERGE_CLEANUP_RECOVERED", "PULL_REQUEST", <<>>)
    BY <1>4 DEF RecoverPostMergeCleanupWall
  <2> QED
    BY <2>1, ReopenShape DEF RecoveryStates, Details
<1>5. ASSUME NEW proof \in Evidence, BeginTerminalPostMergeCleanupRecovery(o, proof)
      PROVE  \E e \in Execution : UnfencedStep(o, e)
  <2> DEFINE patch == [cleanupProof |-> proof]
  <2>1. \A f \in DOMAIN patch : patch[f] \in MetaValues
    BY DEF MetaValues
  <2>2. Known(o) /\ Advance(o, "POST_MERGE_CLEANUP_TERMINAL_RECOVERY_PENDING",
                            "POST_MERGE_CLEANUP_REMEDIATION_EXHAUSTED", patch)
    BY <1>5 DEF BeginTerminalPostMergeCleanupRecovery, ReleasedAt
  <2> QED
    BY <2>1, <2>2, AdvanceShape DEF RecoveryStates, Details
<1>6. ASSUME NEW proof \in Evidence,
             FinalizeTerminalPostMergeCleanupRecovery(o, proof)
      PROVE  \E e \in Execution : UnfencedStep(o, e)
  <2> DEFINE patch == [cleanupRetries |-> "none"]
  <2>1. \A f \in DOMAIN patch : patch[f] \in MetaValues
    BY DEF MetaValues
  <2>2. Known(o) /\ Reopen(o, "POST_MERGE_CLEANUP_RECOVERED", "PULL_REQUEST", patch)
    BY <1>6 DEF FinalizeTerminalPostMergeCleanupRecovery, ReleasedAt
  <2> QED
    BY <2>1, <2>2, ReopenShape DEF RecoveryStates, Details
<1> QED
  BY <1>1, <1>2, <1>3, <1>4, <1>5, <1>6, RetirementShape, ValidationShape,
     CompletionShape, ReviewShapes DEF OperatorNext

LEMMA StepShapes == TypeOK /\ Next => Shapes
<1> SUFFICES ASSUME TypeOK, Next PROVE Shapes
  OBVIOUS
<1>1. ASSUME NEW o \in Outcomes, (\E h \in Holders : HolderNext(o, h)) \/ OperatorNext(o)
      PROVE  Shapes
  BY <1>1, HolderShapes, OperatorShapes DEF Shapes
<1>2. ASSUME NEW active \in BOOLEAN, SetKillSwitch(active)
      PROVE  ControlStep
  BY <1>2 DEF SetKillSwitch, ControlStep, TypeOK
<1>3. CASE RecordOwnerTouch
  BY <1>3 DEF RecordOwnerTouch, ControlStep, TypeOK, Shapes
<1>4. CASE ClockStep
  BY <1>4 DEF ClockStep, ControlStep, TypeOK, storeVars, Shapes
<1> QED
  BY <1>1, <1>2, <1>3, <1>4 DEF Next, Shapes

-----------------------------------------------------------------------------
(* Type correctness.                                                       *)

LEMMA InitType == Init => TypeOK
<1> SUFFICES ASSUME Init PROVE TypeOK
  OBVIOUS
<1>1. idempotency \in Seq(Nat)
  BY DEF Init
<1>2. updatedAt \in 0..MaxTime /\ clock \in 0..MaxTime
  BY BoundsAssumption DEF Init
<1>3. /\ executions \in [Outcomes -> Execution \cup {NoExecution}]
      /\ acceptedFence \in [Outcomes -> Nat]
  BY DEF Init
<1>4. nextFencingToken \in Nat \ {0} /\ revision \in Nat /\ ownerTouches \in Nat
  BY DEF Init
<1>5. killSwitch \in BOOLEAN
  BY DEF Init
<1> QED
  BY <1>1, <1>2, <1>3, <1>4, <1>5 DEF TypeOK

LEMMA MutateType ==
  ASSUME TypeOK, NEW granted \in Nat, Mutate(granted)
  PROVE  /\ revision' \in Nat /\ updatedAt' \in 0..MaxTime
         /\ idempotency' \in Seq(Nat) /\ clock' \in 0..MaxTime
         /\ idempotency' = Append(idempotency, granted)
  BY MutationAtInRange DEF Mutate, TypeOK

LEMMA UnfencedType ==
  ASSUME TypeOK, NEW o \in Outcomes, NEW e \in Execution, UnfencedStep(o, e)
  PROVE  TypeOK'
<1>1. executions[o].fencingToken \in Nat
  BY KnownType DEF UnfencedStep
<1>2. Mutate(0)
  BY DEF UnfencedStep, Record
<1> QED
  BY <1>1, <1>2, MutateType DEF UnfencedStep, Record, TypeOK

LEMMA FencedType ==
  ASSUME TypeOK, NEW o \in Outcomes, NEW e \in Execution, FencedStep(o, e)
  PROVE  TypeOK'
<1>1. Mutate(nextFencingToken) /\ nextFencingToken \in Nat
  BY DEF FencedStep, RecordFenced, TypeOK
<1> QED
  BY <1>1, MutateType DEF FencedStep, RecordFenced, TypeOK

LEMMA ControlType == ASSUME TypeOK, ControlStep PROVE TypeOK'
<1>1. CASE Mutate(0)
  BY <1>1, MutateType DEF ControlStep, TypeOK
<1>2. CASE clock' \in 0..MaxTime /\ UNCHANGED <<revision, updatedAt, idempotency>>
  BY <1>2 DEF ControlStep, TypeOK
<1> QED
  BY <1>1, <1>2 DEF ControlStep

LEMMA StutterType == TypeOK /\ UNCHANGED vars => TypeOK'
  BY DEF TypeOK, vars, storeVars

LEMMA ShapesType == TypeOK /\ Shapes => TypeOK'
  BY UnfencedType, FencedType, ControlType DEF Shapes

\* Whatever requests the store is sent and however the clock moves, every
\* execution, lease and checkpoint it records is well formed.
THEOREM TypeCorrect == Spec => []TypeOK
<1>1. TypeOK /\ [Next]_vars => TypeOK'
  BY StepShapes, ShapesType, StutterType
<1> QED
  BY InitType, <1>1, PTL DEF Spec

-----------------------------------------------------------------------------
(* Fences.  FencesIssuedOnce is not inductive: that a new fence differs    *)
(* from all earlier ones needs every fence ever answered to lie below the  *)
(* counter.                                                                *)

FenceInv ==
  /\ TypeOK
  /\ FencesIssuedOnce
  /\ \A i \in DOMAIN idempotency : idempotency[i] < nextFencingToken
  /\ \A o \in Outcomes :
       acceptedFence[o] <= IF Known(o) THEN executions[o].fencingToken ELSE 0

LEMMA InitFences == Init => FenceInv
  BY InitType DEF Init, FenceInv, FencesIssuedOnce, Known

\* What appending an answer does to the answers before it.
LEMMA AppendedAnswers ==
  ASSUME NEW s \in Seq(Nat), NEW n \in Nat
  PROVE  /\ \A i \in DOMAIN s :
              i \in DOMAIN Append(s, n) /\ Append(s, n)[i] = s[i]
         /\ \A i \in DOMAIN Append(s, n) :
              \/ i \in DOMAIN s /\ Append(s, n)[i] = s[i]
              \/ i = Len(s) + 1 /\ Append(s, n)[i] = n
  OBVIOUS

\* A step that answers 0 and gives every execution the fence it had.
LEMMA SameFences ==
  ASSUME FenceInv, TypeOK',
         nextFencingToken' = nextFencingToken,
         idempotency' = idempotency \/ idempotency' = Append(idempotency, 0),
         \A o \in Outcomes :
           /\ Known(o)' = Known(o)
           /\ Known(o) => executions'[o].fencingToken = executions[o].fencingToken
           /\ \/ acceptedFence'[o] = acceptedFence[o]
              \/ Known(o) /\ acceptedFence'[o] = executions[o].fencingToken
  PROVE  FenceInv'
<1>0. idempotency \in Seq(Nat)
  BY DEF FenceInv, TypeOK
<1>1. \A i \in DOMAIN idempotency :
        i \in DOMAIN idempotency' /\ idempotency'[i] = idempotency[i]
  BY <1>0, AppendedAnswers
<1>2. \A i \in DOMAIN idempotency' :
        \/ i \in DOMAIN idempotency /\ idempotency'[i] = idempotency[i]
        \/ idempotency'[i] = 0
  BY <1>0, AppendedAnswers
<1>3. \A i \in DOMAIN idempotency' : idempotency'[i] < nextFencingToken'
  BY <1>2 DEF FenceInv, TypeOK
<1>4. \A o \in Outcomes : acceptedFence'[o] <= (IF Known(o) THEN executions[o].fencingToken ELSE 0)'
  <2> SUFFICES ASSUME NEW o \in Outcomes
      PROVE acceptedFence'[o] <= (IF Known(o) THEN executions[o].fencingToken ELSE 0)'
    OBVIOUS
  <2>1. Known(o) => executions[o].fencingToken \in Nat
    BY KnownType DEF FenceInv
  <2> QED
    BY <2>1 DEF FenceInv
<1>5. FencesIssuedOnce'
  BY <1>1, <1>2 DEF FenceInv, FencesIssuedOnce
<1> QED
  BY <1>3, <1>4, <1>5 DEF FenceInv

LEMMA UnfencedFences ==
  ASSUME FenceInv, NEW o \in Outcomes, NEW e \in Execution, UnfencedStep(o, e)
  PROVE  FenceInv'
<1>1. TypeOK' /\ TypeOK
  BY UnfencedType DEF FenceInv
<1>2. /\ nextFencingToken' = nextFencingToken
      /\ idempotency' = Append(idempotency, 0)
      /\ executions' = [executions EXCEPT ![o] = e]
  BY DEF UnfencedStep, Record, Mutate
<1>3. \A p \in Outcomes :
        /\ Known(p)' = Known(p)
        /\ Known(p) => executions'[p].fencingToken = executions[p].fencingToken
  BY <1>1, <1>2, NoExecutionAssumption DEF UnfencedStep, Known, TypeOK
<1>4. \A p \in Outcomes :
        \/ acceptedFence'[p] = acceptedFence[p]
        \/ Known(p) /\ acceptedFence'[p] = executions[p].fencingToken
  BY <1>1 DEF UnfencedStep, TypeOK
<1> QED
  BY <1>1, <1>2, <1>3, <1>4, SameFences

LEMMA FencedFences ==
  ASSUME FenceInv, NEW o \in Outcomes, NEW e \in Execution, FencedStep(o, e)
  PROVE  FenceInv'
<1>1. TypeOK' /\ TypeOK
  BY FencedType DEF FenceInv
<1> DEFINE n == nextFencingToken
<1>2. /\ nextFencingToken' = n + 1 /\ n \in Nat /\ n # 0
      /\ idempotency' = Append(idempotency, n) /\ idempotency \in Seq(Nat)
      /\ executions' = [executions EXCEPT ![o] = e]
      /\ acceptedFence' = acceptedFence
  BY <1>1 DEF FencedStep, RecordFenced, Mutate, TypeOK
<1>3. /\ \A i \in DOMAIN idempotency :
           i \in DOMAIN idempotency' /\ idempotency'[i] = idempotency[i]
      /\ \E i \in DOMAIN idempotency' : idempotency'[i] = n
      /\ \A i \in DOMAIN idempotency' :
           \/ i \in DOMAIN idempotency /\ idempotency'[i] = idempotency[i]
           \/ i = Len(idempotency) + 1 /\ idempotency'[i] = n
  BY <1>2
<1>4. \A i \in DOMAIN idempotency : idempotency[i] \in Nat /\ idempotency[i] < n
  BY <1>2 DEF FenceInv
<1>5. \A p \in Outcomes \ {o} :
        /\ executions'[p] = executions[p]
        /\ Known(p)' = Known(p)
        /\ Known(p) => executions[p].fencingToken \in Nat
                       /\ executions[p].fencingToken < n
  BY <1>1, <1>2, KnownType DEF Known, FenceInv, FencesIssuedOnce, TypeOK
<1>6. executions'[o].fencingToken = n /\ Known(o)'
  BY <1>1, <1>2, NoExecutionAssumption DEF FencedStep, Known, TypeOK
<1>7. FencesIssuedOnce'
  <2>1. \A p \in Outcomes : Known(p)' =>
          /\ executions'[p].fencingToken < n + 1
          /\ \E i \in DOMAIN idempotency' :
               idempotency'[i] = executions'[p].fencingToken
    <3>1. ASSUME NEW p \in Outcomes \ {o}, Known(p)'
          PROVE  /\ executions'[p].fencingToken < n + 1
                 /\ \E i \in DOMAIN idempotency' :
                      idempotency'[i] = executions'[p].fencingToken
      <4>1. \E i \in DOMAIN idempotency :
              idempotency[i] = executions[p].fencingToken
        BY <1>5, <3>1 DEF FenceInv, FencesIssuedOnce
      <4> QED
        BY <4>1, <1>2, <1>3, <1>5, <3>1
    <3> QED
      BY <3>1, <1>2, <1>3, <1>6
  <2>2. \A p, q \in Outcomes : p # q /\ Known(p)' /\ Known(q)' =>
          executions'[p].fencingToken # executions'[q].fencingToken
    BY <1>2, <1>5, <1>6 DEF FenceInv, FencesIssuedOnce
  <2>3. \A i, j \in DOMAIN idempotency' :
          idempotency'[i] = idempotency'[j] /\ idempotency'[i] # 0 => i = j
    BY <1>2, <1>3, <1>4 DEF FenceInv, FencesIssuedOnce
  <2> QED
    BY <1>2, <2>1, <2>2, <2>3 DEF FencesIssuedOnce
<1>8. \A i \in DOMAIN idempotency' : idempotency'[i] < nextFencingToken'
  BY <1>2, <1>3, <1>4
<1>9. \A p \in Outcomes :
        acceptedFence'[p] <= (IF Known(p) THEN executions[p].fencingToken ELSE 0)'
  <2>1. acceptedFence[o] <= n /\ acceptedFence[o] \in Nat
    <3>1. Known(o) => executions[o].fencingToken \in Nat
                      /\ executions[o].fencingToken < n
      BY <1>1, KnownType DEF FenceInv, FencesIssuedOnce
    <3> QED
      BY <3>1, <1>1, <1>2 DEF FenceInv, TypeOK
  <2> QED
    BY <2>1, <1>2, <1>5, <1>6 DEF FenceInv
<1> QED
  BY <1>1, <1>7, <1>8, <1>9 DEF FenceInv

LEMMA ControlFences == ASSUME FenceInv, ControlStep PROVE FenceInv'
<1>1. TypeOK' /\ TypeOK
  BY ControlType DEF FenceInv
<1>2. idempotency' = idempotency \/ idempotency' = Append(idempotency, 0)
  BY DEF ControlStep, Mutate
<1> QED
  BY <1>1, <1>2, SameFences DEF ControlStep, Known

LEMMA StutterFences == FenceInv /\ UNCHANGED vars => FenceInv'
  BY StutterType DEF FenceInv, FencesIssuedOnce, Known, vars, storeVars

LEMMA FencesInductive == FenceInv /\ [Next]_vars => FenceInv'
<1>1. FenceInv => TypeOK
  BY DEF FenceInv
<1> QED
  BY <1>1, StepShapes, StutterFences, UnfencedFences, FencedFences, ControlFences
  DEF Shapes

LEMMA FencesInvariant == Spec => []FenceInv
  BY InitFences, FencesInductive, PTL DEF Spec

\* No fence is ever issued twice: not to two outcomes, not to two idempotency
\* keys, not after any sequence of reclaims, walls, recoveries and clock steps.
THEOREM FencesUnique == Spec => []FencesIssuedOnce
<1>1. FenceInv => FencesIssuedOnce
  BY DEF FenceInv
<1> QED
  BY <1>1, FencesInvariant, PTL

-----------------------------------------------------------------------------
(* Leases.                                                                 *)

\* The process that acts under an outcome is never an older one than the
\* process obeyed before it.
THEOREM StaleHoldersAreRefused == Spec => AcceptedFencesNeverDecrease
<1>1. FenceInv /\ [Next]_vars =>
        \A o \in Outcomes : acceptedFence'[o] >= acceptedFence[o]
  <2> SUFFICES ASSUME FenceInv, [Next]_vars, NEW o \in Outcomes
               PROVE  acceptedFence'[o] >= acceptedFence[o]
    OBVIOUS
  <2>1. /\ TypeOK /\ acceptedFence[o] \in Nat
        /\ Known(o) => executions[o].fencingToken \in Nat
                       /\ acceptedFence[o] <= executions[o].fencingToken
    BY KnownType DEF FenceInv, TypeOK
  <2>2. \/ acceptedFence'[o] = acceptedFence[o]
        \/ Known(o) /\ acceptedFence'[o] = executions[o].fencingToken
    <3>1. Shapes \/ UNCHANGED vars
      BY <2>1, StepShapes
    <3> QED
      BY <2>1, <3>1
      DEF Shapes, UnfencedStep, FencedStep, ControlStep, vars, TypeOK
  <2> QED
    BY <2>1, <2>2
<1>2. (\A o \in Outcomes : acceptedFence'[o] >= acceptedFence[o])
        => [\A o \in Outcomes : acceptedFence'[o] >= acceptedFence[o]]_vars
  OBVIOUS
<1> QED
  BY <1>1, <1>2, FencesInvariant, PTL DEF Spec, AcceptedFencesNeverDecrease

\* Only an expired, abandoned or released execution is handed on: a process
\* whose lease is running keeps the fence it works under.
THEOREM RunningLeasesAreKept == Spec => UnexpiredLeaseKeepsFence
<1> DEFINE A == \A o \in Outcomes : Held(o) /\ NotExpired(o) =>
                   executions'[o].fencingToken = executions[o].fencingToken
<1>1. TypeOK /\ [Next]_vars => A
  <2> SUFFICES ASSUME TypeOK, [Next]_vars, NEW o \in Outcomes, Held(o), NotExpired(o)
               PROVE  executions'[o].fencingToken = executions[o].fencingToken
    OBVIOUS
  <2>1. CASE UNCHANGED vars \/ ControlStep
    BY <2>1 DEF vars, storeVars, ControlStep
  <2>2. ASSUME NEW p \in Outcomes, NEW e \in Execution, UnfencedStep(p, e)
        PROVE  executions'[o].fencingToken = executions[o].fencingToken
    BY <2>2 DEF UnfencedStep, Record, TypeOK
  <2>3. ASSUME NEW p \in Outcomes, NEW e \in Execution, FencedStep(p, e)
        PROVE  executions'[o].fencingToken = executions[o].fencingToken
    BY <2>3 DEF FencedStep, RecordFenced, TypeOK
  <2> QED
    BY <2>1, <2>2, <2>3, StepShapes DEF Shapes
<1>2. A => [A]_vars
  OBVIOUS
<1> QED
  BY <1>1, <1>2, TypeCorrect, PTL DEF Spec, UnexpiredLeaseKeepsFence

\* Holding an outcome starts with a fence nobody had before: no recovery, no
\* renewal and no late release revives a lease that ended.
THEOREM HoldersStartFresh == Spec => HoldingStartsWithNewFence
<1> DEFINE A == \A o \in Outcomes :
                  Held(o)' /\ (~Held(o) \/ executions'[o].lease.holderId
                                             # executions[o].lease.holderId)
                    => executions'[o].fencingToken = nextFencingToken
<1>1. TypeOK /\ [Next]_vars => A
  <2> SUFFICES ASSUME TypeOK, [Next]_vars, NEW o \in Outcomes, Held(o)',
                      ~Held(o) \/ executions'[o].lease.holderId
                                    # executions[o].lease.holderId
               PROVE  executions'[o].fencingToken = nextFencingToken
    OBVIOUS
  <2>1. ~(UNCHANGED vars \/ ControlStep)
    BY DEF vars, storeVars, ControlStep, Held, Known
  <2>2. ASSUME NEW p \in Outcomes, NEW e \in Execution, UnfencedStep(p, e)
        PROVE  FALSE
    <3>1. executions' = [executions EXCEPT ![p] = e]
      BY <2>2 DEF UnfencedStep, Record
    <3>2. CASE p = o
      <4>1. executions'[o] = e
        BY <3>1, <3>2 DEF TypeOK
      <4> QED
        BY <2>2, <3>2, <4>1 DEF UnfencedStep, IsHeld, Held
    <3>3. CASE p # o
      <4>1. executions'[o] = executions[o]
        BY <3>1, <3>3 DEF TypeOK
      <4> QED
        BY <4>1 DEF Held, Known
    <3> QED
      BY <3>2, <3>3
  <2>3. ASSUME NEW p \in Outcomes, NEW e \in Execution, FencedStep(p, e)
        PROVE  executions'[o].fencingToken = nextFencingToken
    <3>1. /\ executions' = [executions EXCEPT ![p] = e]
          /\ e.fencingToken = nextFencingToken
      BY <2>3 DEF FencedStep, RecordFenced
    <3>2. CASE p = o
      BY <3>1, <3>2 DEF TypeOK
    <3>3. CASE p # o
      <4>1. executions'[o] = executions[o]
        BY <3>1, <3>3 DEF TypeOK
      <4> QED
        BY <4>1 DEF Held, Known
    <3> QED
      BY <3>2, <3>3
  <2> QED
    BY <2>1, <2>2, <2>3, StepShapes DEF Shapes
<1>2. A => [A]_vars
  OBVIOUS
<1> QED
  BY <1>1, <1>2, TypeCorrect, PTL DEF Spec, HoldingStartsWithNewFence
-----------------------------------------------------------------------------
(* Recovery.  What one operation may do to the execution of an outcome,    *)
(* read off the store after the step, and the evidence it must leave.      *)

IsSet(m, fields) == \A f \in fields : m[f] # "none"

\* RecoveredStatesCarryEvidence for one execution, and what makes it inductive:
\* a pull request is never forgotten, the proof of a review recovery is only
\* accepted beside one, and a cleanup recovery that has begun keeps the evidence
\* of the merge until it is finished.
Evident(e) ==
  LET m == e.metadata
      s == e.checkpoint.state IN
  /\ m["prNumber"] \in Evidence \cup {"none"}
  /\ m["reviewProof"] # "none" => m["prNumber"] \in Evidence
  /\ s \in {"POST_MERGE_CLEANUP_TERMINAL_RECOVERY_PENDING",
            "POST_MERGE_CLEANUP_RECOVERED"}
       => IsSet(m, {"prNumber", "headRefOid", "mergeSha"})
  /\ s = "REVIEW_REMEDIATION_RECOVERED" =>
       /\ {m["prNumber"], m["headRefOid"], m["mergeSha"], m["reviewProof"]}
            \subseteq Evidence
       /\ m["thread"] = "none"
  /\ s = "VALIDATION_INFRASTRUCTURE_RECOVERED" =>
       /\ m["validationProof"] \in Evidence
       /\ m["headRefOid"] = "none" /\ m["validationFailure"] = "none"

\* What the kill switch and the owner's touches leave possible.
Allowed(o, e) ==
  LET x == executions[o] IN
  /\ killSwitch => Known(o)
  /\ killSwitch /\ IsHeld(e) => e.lease = x.lease
  /\ killSwitch /\ e.checkpoint # x.checkpoint =>
       e.checkpoint.state = "DURABLE_QUEUE_ACQUISITION_RETIRED"
  /\ Known(o) /\ e.checkpoint # x.checkpoint
       /\ e.checkpoint.state \in RecoveryStates => ~IsHeld(e)
  /\ Known(o) /\ e.checkpoint # x.checkpoint /\ ownerTouches > 0 =>
       e.checkpoint.state \notin ZeroTouchStates

EvidentBefore(o) == Known(o) => Evident(executions[o])

\* A step that replaces the execution of o by e, lawfully.
LawfulStep(o, e) ==
  /\ \/ Record(o, e)
     \/ RecordFenced(o, e) /\ ~killSwitch
  /\ Allowed(o, e)
  /\ EvidentBefore(o) => Evident(e)

LEMMA MergedFields ==
  ASSUME NEW m \in [MetaFields -> MetaValues], NEW input
  PROVE  \A f \in MetaFields :
           Merge(input, m)[f] = IF f \in DOMAIN input THEN input[f] ELSE m[f]
  BY DEF Merge

LEMMA NewCheckpoint ==
  ASSUME NEW cp, NEW state, NEW detail
  PROVE  NextCheckpoint(cp, state, detail).state = state
  BY DEF NextCheckpoint

\* The operations that end or move a lease and keep the checkpoint.
LEMMA SameCheckpointIsLawful ==
  ASSUME TypeOK, NEW o \in Outcomes, Known(o),
         NEW e,
         Record(o, e) \/ (RecordFenced(o, e) /\ ~killSwitch),
         e.checkpoint = executions[o].checkpoint,
         \A f \in MetaFields : e.metadata[f] = executions[o].metadata[f]
           \/ (f = "thread" /\ e.metadata[f] = "none"),
         killSwitch => ~IsHeld(e)
  PROVE  LawfulStep(o, e)
<1>1. Allowed(o, e)
  BY DEF Allowed
<1>2. EvidentBefore(o) => Evident(e)
  BY DEF EvidentBefore, Evident, IsSet, MetaFields
<1> QED
  BY <1>1, <1>2 DEF LawfulStep

\* The operations that write a checkpoint while the kill switch is off.
LEMMA NewCheckpointIsLawful ==
  ASSUME NEW o \in Outcomes, Known(o), ~killSwitch, NEW e,
         Record(o, e) \/ RecordFenced(o, e),
         e.checkpoint.state \in RecoveryStates => ~IsHeld(e),
         e.checkpoint.state \in ZeroTouchStates => ~(ownerTouches > 0),
         Evident(executions[o]) => Evident(e)
  PROVE  LawfulStep(o, e)
  BY DEF LawfulStep, Allowed, EvidentBefore

\* Neither form of recovery leaves the outcome to whoever held it: one ends the
\* lease, the other is only used on a lease that has ended.
LEMMA ReopenIsLawful ==
  ASSUME TypeOK, NEW o \in Outcomes, Known(o), ~killSwitch,
         NEW state, NEW detail, NEW patch,
         Reopen(o, state, detail, patch),
         state \in ZeroTouchStates => OwnerTouchesRemainZero,
         \A e : /\ e.checkpoint.state = state
                /\ e.metadata = Merge(patch, executions[o].metadata)
                /\ Evident(executions[o])
                => Evident(e)
  PROVE  \E e : LawfulStep(o, e)
<1> DEFINE x == executions[o]
           e == [x EXCEPT !.lease = Ended(x.lease, "ABANDONED"),
                          !.checkpoint = NextCheckpoint(x.checkpoint, state, detail),
                          !.metadata = Merge(patch, x.metadata)]
<1>1. x \in Execution /\ Ended(x.lease, "ABANDONED").status = "ABANDONED"
  BY KnownType, EndedType DEF LeaseStatuses
<1>2. /\ e.lease = Ended(x.lease, "ABANDONED")
      /\ e.checkpoint = NextCheckpoint(x.checkpoint, state, detail)
      /\ e.metadata = Merge(patch, x.metadata)
  BY <1>1 DEF Execution
<1>3. ~IsHeld(e) /\ e.checkpoint.state = state
  BY <1>1, <1>2, NewCheckpoint DEF IsHeld
<1>4. Record(o, e)
  BY DEF Reopen
<1>5. Evident(x) => Evident(e)
  BY <1>2, <1>3
<1>6. OwnerTouchesRemainZero => ~(ownerTouches > 0)
  BY DEF OwnerTouchesRemainZero
<1> QED
  BY <1>3, <1>4, <1>5, <1>6, NewCheckpointIsLawful

LEMMA AdvanceIsLawful ==
  ASSUME TypeOK, NEW o \in Outcomes, Known(o), ~killSwitch,
         NEW state, NEW detail, NEW patch,
         Advance(o, state, detail, patch),
         executions[o].lease.status # "ACTIVE",
         OwnerTouchesRemainZero,
         \A e : /\ e.checkpoint.state = state
                /\ e.metadata = Merge(patch, executions[o].metadata)
                /\ Evident(executions[o])
                => Evident(e)
  PROVE  \E e : LawfulStep(o, e)
<1> DEFINE x == executions[o]
           e == [x EXCEPT !.checkpoint = NextCheckpoint(x.checkpoint, state, detail),
                          !.metadata = Merge(patch, x.metadata)]
<1>1. x \in Execution
  BY KnownType
<1>2. /\ e.lease = x.lease
      /\ e.checkpoint = NextCheckpoint(x.checkpoint, state, detail)
      /\ e.metadata = Merge(patch, x.metadata)
  BY <1>1 DEF Execution
<1>3. ~IsHeld(e) /\ e.checkpoint.state = state
  BY <1>2, NewCheckpoint DEF IsHeld
<1>4. Record(o, e)
  BY DEF Advance
<1>5. Evident(x) => Evident(e)
  BY <1>2, <1>3
<1>6. OwnerTouchesRemainZero => ~(ownerTouches > 0)
  BY DEF OwnerTouchesRemainZero
<1> QED
  BY <1>3, <1>4, <1>5, <1>6, NewCheckpointIsLawful

\* The operations of a holder.
LEMMA HolderIsLawful ==
  ASSUME TypeOK, NEW o \in Outcomes, NEW h \in Holders, HolderNext(o, h)
  PROVE  \E e : LawfulStep(o, e)
<1> DEFINE x == executions[o]
<1>1. ASSUME NEW d \in Durations, AcquireLease(o, h, d)
      PROVE  \E e : LawfulStep(o, e)
  <2> DEFINE e == [fencingToken |-> nextFencingToken,
                   lease |-> GrantedLease(h, d),
                   checkpoint |-> [sequence |-> 0, state |-> "LEASED",
                                   detail |-> "none", recordedAt |-> MutationAt],
                   metadata |-> EmptyMetadata]
  <2>1. RecordFenced(o, e) /\ ~Known(o) /\ ~killSwitch
    BY <1>1 DEF AcquireLease, AssertRunning
  <2>2. Evident(e)
    BY DEF Evident, EmptyMetadata, MetaFields
  <2> QED
    BY <2>1, <2>2 DEF LawfulStep, Allowed
<1>2. ASSUME NEW d \in Durations, NEW patch \in {<<>>, NoThread},
             ReclaimLease(o, h, d, patch)
      PROVE  \E e : LawfulStep(o, e)
  <2> DEFINE e == [x EXCEPT !.fencingToken = nextFencingToken,
                            !.lease = GrantedLease(h, d),
                            !.metadata = Merge(patch, x.metadata)]
  <2>1. RecordFenced(o, e) /\ Known(o) /\ ~killSwitch
    BY <1>2 DEF ReclaimLease, AssertRunning
  <2>2. x \in Execution /\ x.metadata \in [MetaFields -> MetaValues]
    BY <2>1, KnownType
  <2>3. /\ e.checkpoint = x.checkpoint
        /\ e.metadata = Merge(patch, x.metadata)
    BY <2>2 DEF Execution
  <2>4. \A f \in MetaFields : e.metadata[f] = x.metadata[f]
          \/ (f = "thread" /\ e.metadata[f] = "none")
    <3>1. \A f \in DOMAIN patch : f = "thread" /\ patch[f] = "none"
      BY DEF NoThread
    <3> QED
      BY <2>2, <2>3, <3>1, MergedFields
  <2> QED
    BY <2>1, <2>3, <2>4, SameCheckpointIsLawful
<1>3. ASSUME NEW token \in Fences, NEW w \in Writes, WriteCheckpoint(o, h, token, w)
      PROVE  \E e : LawfulStep(o, e)
  <2> DEFINE e == [x EXCEPT
                     !.checkpoint = NextCheckpoint(x.checkpoint, w.state, w.detail),
                     !.metadata = Merge(w.metadata, x.metadata)]
  <2>1. Record(o, e) /\ Known(o) /\ ~killSwitch
    BY <1>3 DEF WriteCheckpoint, AssertRunning, AssertFence
  <2>2. x \in Execution /\ x.metadata \in [MetaFields -> MetaValues]
    BY <2>1, KnownType
  <2>3. /\ e.checkpoint.state = w.state
        /\ e.metadata = Merge(w.metadata, x.metadata)
    BY <2>2, NewCheckpoint DEF Execution
  <2>4. w.state \in HolderStates /\ w.state \notin RecoveryStates
    BY WritesAssumption DEF HolderStates, RecoveryStates
  <2>5. /\ e.metadata["reviewProof"] = x.metadata["reviewProof"]
        /\ \/ e.metadata["prNumber"] = x.metadata["prNumber"]
           \/ e.metadata["prNumber"] \in Evidence
    BY <2>2, <2>3, MergedFields, WritesAssumption DEF MetaFields
  <2>6. Evident(x) => Evident(e)
    BY <2>3, <2>4, <2>5 DEF Evident, RecoveryStates
  <2> QED
    BY <2>1, <2>3, <2>4, <2>6, NewCheckpointIsLawful DEF ZeroTouchStates
<1>4. ASSUME NEW token \in Fences, NEW d \in Durations, RenewLease(o, h, token, d)
      PROVE  \E e : LawfulStep(o, e)
  <2> DEFINE e == [x EXCEPT !.lease = [x.lease EXCEPT !.expiresAt = clock + d]]
  <2>1. Record(o, e) /\ Known(o) /\ ~killSwitch
    BY <1>4 DEF RenewLease, AssertRunning, AssertFence
  <2>2. e.checkpoint = x.checkpoint /\ e.metadata = x.metadata
    BY <2>1, KnownType DEF Execution
  <2> QED
    BY <2>1, <2>2, SameCheckpointIsLawful
<1>5. ASSUME NEW token \in Fences, ReleaseLease(o, h, token)
      PROVE  \E e : LawfulStep(o, e)
  <2> DEFINE e == [x EXCEPT !.lease = Ended(x.lease, "RELEASED")]
  <2>1. Record(o, e) /\ Known(o)
    BY <1>5 DEF ReleaseLease, AssertFence
  <2>2. /\ e.checkpoint = x.checkpoint /\ e.metadata = x.metadata
        /\ e.lease = Ended(x.lease, "RELEASED")
    BY <2>1, KnownType DEF Execution
  <2>3. ~IsHeld(e)
    BY <2>1, <2>2, KnownType, EndedType DEF LeaseStatuses, IsHeld
  <2> QED
    BY <2>1, <2>2, <2>3, SameCheckpointIsLawful
<1>6. ASSUME NEW token \in Fences, NEW r \in AbandonReasons \ {"none"},
             AbandonLease(o, h, token, r)
      PROVE  \E e : LawfulStep(o, e)
  <2> DEFINE l == [x.lease EXCEPT !.expiresAt = MutationAt, !.abandoned = r]
             e == [x EXCEPT !.lease = l]
  <2>1. Record(o, e) /\ Known(o)
    BY <1>6 DEF AbandonLease, AssertFence
  <2>2. e.checkpoint = x.checkpoint /\ e.metadata = x.metadata /\ e.lease = l
    BY <2>1, KnownType DEF Execution
  <2>3. ~IsHeld(e)
    BY <2>1, <2>2, KnownType DEF IsHeld, Lease
  <2> QED
    BY <2>1, <2>2, <2>3, SameCheckpointIsLawful
<1>7. ASSUME NEW token \in Fences, NEW d \in Durations,
             DeferProviderWall(o, h, token, d)
      PROVE  \E e : LawfulStep(o, e)
  <2> DEFINE l == [x.lease EXCEPT !.status = "DEFERRED", !.expiresAt = clock + d]
             c == NextCheckpoint(x.checkpoint, "DEFERRED_PROVIDER_UNAVAILABLE",
                                 "RETRY_AFTER")
             e == [x EXCEPT !.lease = l, !.checkpoint = c]
  <2>1. Record(o, e) /\ Known(o) /\ ~killSwitch
    BY <1>7 DEF DeferProviderWall, AssertRunning, AssertFence
  <2>2. e.checkpoint = c /\ e.metadata = x.metadata /\ e.lease = l
    BY <2>1, KnownType DEF Execution
  <2>3. ~IsHeld(e)
    <3>1. l.status = "DEFERRED"
      BY <2>1, KnownType DEF Lease
    <3> QED
      BY <2>2, <3>1 DEF IsHeld
  <2>4. e.checkpoint.state = "DEFERRED_PROVIDER_UNAVAILABLE"
    BY <2>2, NewCheckpoint
  <2>5. Evident(x) => Evident(e)
    BY <2>2, <2>4 DEF Evident
  <2> QED
    BY <2>1, <2>3, <2>4, <2>5, NewCheckpointIsLawful DEF ZeroTouchStates
<1> QED
  BY <1>1, <1>2, <1>3, <1>4, <1>5, <1>6, <1>7 DEF HolderNext

\* The four steps of the recovery from a review.  The proof was accepted beside
\* a pull request, and finalizing names head, merge and proof again.
LEMMA ReviewIsLawful ==
  ASSUME TypeOK, NEW o \in Outcomes, ReviewNext(o)
  PROVE  \E e : LawfulStep(o, e)
<1> DEFINE x == executions[o]
           R == "REVIEW_REMEDIATION_RECOVERED"
           d == "REVIEW_REMEDIATION_EXHAUSTED"
<1>0. PICK head \in Evidence, merge \in Evidence, proof \in Evidence :
        \/ BeginReviewRemediationRecovery(o, head, merge, proof)
        \/ RecordReviewRemediationMerge(o, head, merge, proof)
        \/ FinalizeReviewRemediationRecovery(o, head, merge, proof)
        \/ ReconcileReviewRemediationProjection(o, head, merge, proof)
  BY DEF ReviewNext
<1>1. Known(o) /\ ~killSwitch /\ OwnerTouchesRemainZero
  BY <1>0 DEF BeginReviewRemediationRecovery, RecordReviewRemediationMerge,
     FinalizeReviewRemediationRecovery, ReconcileReviewRemediationProjection,
     ReleasedAt, AssertRunning
<1>2. x.metadata \in [MetaFields -> MetaValues]
  BY <1>1, KnownType
<1>3. CASE BeginReviewRemediationRecovery(o, head, merge, proof)
  <2> DEFINE s == "REVIEW_REMEDIATION_RECOVERY_PENDING"
             patch == [headRefOid |-> head, mergeSha |-> merge,
                       reviewProof |-> proof]
  <2>1. /\ Advance(o, s, d, patch)
        /\ x.lease.status # "ACTIVE"
        /\ x.metadata["prNumber"] # "none"
    BY <1>3 DEF BeginReviewRemediationRecovery, ReleasedAt
  <2>2. ASSUME NEW e, e.checkpoint.state = s,
               e.metadata = Merge(patch, x.metadata), Evident(x)
        PROVE  Evident(e)
    <3>1. e.metadata["prNumber"] = x.metadata["prNumber"]
      BY <1>2, <2>2, MergedFields DEF MetaFields
    <3> QED
      BY <2>1, <2>2, <3>1 DEF Evident
  <2> QED
    BY <1>1, <2>1, <2>2, AdvanceIsLawful
<1>4. CASE RecordReviewRemediationMerge(o, head, merge, proof)
  <2> DEFINE s == "PR_MERGED"
  <2>1. Advance(o, s, "RECOVERED_PULL_REQUEST", <<>>) /\ x.lease.status # "ACTIVE"
    BY <1>4 DEF RecordReviewRemediationMerge, ReleasedAt
  <2>2. ASSUME NEW e, e.checkpoint.state = s,
               e.metadata = Merge(<<>>, x.metadata), Evident(x)
        PROVE  Evident(e)
    <3>1. \A f \in MetaFields : e.metadata[f] = x.metadata[f]
      BY <1>2, <2>2, MergedFields
    <3> QED
      BY <2>2, <3>1 DEF Evident, MetaFields
  <2> QED
    BY <1>1, <2>1, <2>2, AdvanceIsLawful
<1>5. CASE FinalizeReviewRemediationRecovery(o, head, merge, proof)
  <2>1. Reopen(o, R, d, NoThread) /\ SameReview(o, head, merge, proof)
    BY <1>5 DEF FinalizeReviewRemediationRecovery
  <2>2. ASSUME NEW e, e.checkpoint.state = R,
               e.metadata = Merge(NoThread, x.metadata), Evident(x)
        PROVE  Evident(e)
    <3>1. /\ e.metadata["thread"] = "none"
          /\ \A f \in MetaFields \ {"thread"} : e.metadata[f] = x.metadata[f]
      BY <1>2, <2>2, MergedFields DEF NoThread, MetaFields
    <3>2. /\ e.metadata["headRefOid"] \in Evidence
          /\ e.metadata["mergeSha"] \in Evidence
          /\ e.metadata["reviewProof"] \in Evidence
          /\ e.metadata["reviewProof"] = x.metadata["reviewProof"]
      BY <2>1, <3>1 DEF SameReview, MetaFields
    <3>3. e.metadata["prNumber"] \in Evidence
      <4>1. x.metadata["reviewProof"] # "none"
        BY <3>2, EvidenceAssumption
      <4> QED
        BY <2>2, <3>1, <4>1 DEF Evident, MetaFields
    <3> QED
      BY <2>2, <3>1, <3>2, <3>3 DEF Evident
  <2> QED
    BY <1>1, <2>1, <2>2, ReopenIsLawful
<1>6. CASE ReconcileReviewRemediationProjection(o, head, merge, proof)
  <2> DEFINE patch == [reviewReconciled |-> "some"]
  <2>1. /\ Advance(o, R, d, patch)
        /\ x.lease.status # "ACTIVE"
        /\ x.checkpoint.state = R
    BY <1>6 DEF ReconcileReviewRemediationProjection, At
  <2>2. ASSUME NEW e, e.checkpoint.state = R,
               e.metadata = Merge(patch, x.metadata), Evident(x)
        PROVE  Evident(e)
    <3>1. \A f \in MetaFields \ {"reviewReconciled"} :
            e.metadata[f] = x.metadata[f]
      BY <1>2, <2>2, MergedFields
    <3> QED
      BY <2>1, <2>2, <3>1 DEF Evident, MetaFields
  <2> QED
    BY <1>1, <2>1, <2>2, AdvanceIsLawful
<1> QED
  BY <1>0, <1>3, <1>4, <1>5, <1>6

LEMMA RetirementIsLawful ==
  ASSUME TypeOK, NEW o \in Outcomes, RetireDurableQueueAcquisition(o)
  PROVE  \E e : LawfulStep(o, e)
<1> DEFINE x == executions[o]
           l == Ended(x.lease, "RELEASED")
           c == NextCheckpoint(x.checkpoint, "DURABLE_QUEUE_ACQUISITION_RETIRED",
                               "none")
           m == [x.metadata EXCEPT !["retirement"] = "some"]
           e == [x EXCEPT !.lease = l, !.checkpoint = c, !.metadata = m]
<1>1. Known(o) /\ Record(o, e)
  BY DEF RetireDurableQueueAcquisition
<1>2. x \in Execution /\ x.metadata \in [MetaFields -> MetaValues]
  BY <1>1, KnownType
<1>3. e.lease = l /\ e.checkpoint = c /\ e.metadata = m
  BY <1>2 DEF Execution
<1>4. l.status = "RELEASED"
  BY <1>1, KnownType, EndedType DEF LeaseStatuses
<1>5. ~IsHeld(e)
  BY <1>3, <1>4 DEF IsHeld
<1>6. e.checkpoint.state = "DURABLE_QUEUE_ACQUISITION_RETIRED"
  BY <1>3, NewCheckpoint
<1>7. \A f \in MetaFields \ {"retirement"} : e.metadata[f] = x.metadata[f]
  BY <1>2, <1>3
<1>8. Evident(x) => Evident(e)
  BY <1>6, <1>7 DEF Evident, MetaFields
<1> QED
  BY <1>1, <1>5, <1>6, <1>8
  DEF LawfulStep, Allowed, EvidentBefore, ZeroTouchStates

LEMMA ValidationIsLawful ==
  ASSUME TypeOK, NEW o \in Outcomes, NEW proof \in Evidence,
         ReopenValidationInfrastructureWall(o, proof)
  PROVE  \E e : LawfulStep(o, e)
<1> DEFINE x == executions[o]
           l == Ended(x.lease, "ABANDONED")
           c == NextCheckpoint(x.checkpoint,
                               "VALIDATION_INFRASTRUCTURE_RECOVERED",
                               "VALIDATION_REMEDIATION_EXHAUSTED")
           patch == [validationFailure |-> "none", validationProof |-> proof,
                     headRefOid |-> "none"]
           e == [x EXCEPT !.fencingToken = nextFencingToken, !.lease = l,
                          !.checkpoint = c, !.metadata = Merge(patch, x.metadata)]
<1>1. Known(o) /\ RecordFenced(o, e) /\ ~killSwitch /\ OwnerTouchesRemainZero
  BY DEF ReopenValidationInfrastructureWall, AssertRunning
<1>2. x \in Execution /\ x.metadata \in [MetaFields -> MetaValues]
  BY <1>1, KnownType
<1>3. /\ e.lease = l /\ e.checkpoint = c
      /\ e.metadata = Merge(patch, x.metadata)
  BY <1>2 DEF Execution
<1>4. l.status = "ABANDONED"
  BY <1>1, KnownType, EndedType DEF LeaseStatuses
<1>5. ~IsHeld(e)
  BY <1>3, <1>4 DEF IsHeld
<1>6. e.checkpoint.state = "VALIDATION_INFRASTRUCTURE_RECOVERED"
  BY <1>3, NewCheckpoint
<1>7. /\ e.metadata["validationFailure"] = "none"
      /\ e.metadata["validationProof"] = proof
      /\ e.metadata["headRefOid"] = "none"
      /\ e.metadata["prNumber"] = x.metadata["prNumber"]
      /\ e.metadata["reviewProof"] = x.metadata["reviewProof"]
  BY <1>2, <1>3, MergedFields DEF MetaFields
<1>8. Evident(x) => Evident(e)
  BY <1>6, <1>7 DEF Evident
<1>9. ~(ownerTouches > 0)
  BY <1>1 DEF OwnerTouchesRemainZero
<1> QED
  BY <1>1, <1>5, <1>8, <1>9, NewCheckpointIsLawful

LEMMA CompletionIsLawful ==
  ASSUME TypeOK, NEW o \in Outcomes, CompleteActivePostMergeCleanupRecovery(o)
  PROVE  \E e : LawfulStep(o, e)
<1> DEFINE x == executions[o]
           l == Ended(x.lease, "RELEASED")
           c == NextCheckpoint(x.checkpoint, "COMPLETE", "PULL_REQUEST")
           patch == [cleanupRetries |-> "none"]
           e == [x EXCEPT !.lease = l, !.checkpoint = c,
                          !.metadata = Merge(patch, x.metadata)]
<1>1. Known(o) /\ Record(o, e) /\ ~killSwitch
  BY DEF CompleteActivePostMergeCleanupRecovery, AssertRunning
<1>2. x \in Execution /\ x.metadata \in [MetaFields -> MetaValues]
  BY <1>1, KnownType
<1>3. /\ e.lease = l /\ e.checkpoint = c
      /\ e.metadata = Merge(patch, x.metadata)
  BY <1>2 DEF Execution
<1>4. e.checkpoint.state = "COMPLETE"
  BY <1>3, NewCheckpoint
<1>5. \A f \in MetaFields \ {"cleanupRetries"} : e.metadata[f] = x.metadata[f]
  BY <1>2, <1>3, MergedFields
<1>6. Evident(x) => Evident(e)
  BY <1>4, <1>5 DEF Evident, MetaFields
<1> QED
  BY <1>1, <1>4, <1>6, NewCheckpointIsLawful DEF RecoveryStates, ZeroTouchStates

\* The recoveries that reset at most the model thread, the resumption of an
\* owner's decision or what belongs to the cleanup, and keep all evidence.
LEMMA OperatorIsLawful ==
  ASSUME TypeOK, NEW o \in Outcomes, OperatorNext(o)
  PROVE  \E e : LawfulStep(o, e)
<1> DEFINE x == executions[o]
<1>1. ASSUME Known(o), NEW patch,
             \A f \in DOMAIN patch :
               \/ f \in {"ownerResume", "cleanupProof", "cleanupRetries"}
               \/ f = "thread" /\ patch[f] = "none",
             NEW state,
             state \notin {"POST_MERGE_CLEANUP_TERMINAL_RECOVERY_PENDING",
                           "POST_MERGE_CLEANUP_RECOVERED",
                           "REVIEW_REMEDIATION_RECOVERED",
                           "VALIDATION_INFRASTRUCTURE_RECOVERED"}
               \/ /\ state # "REVIEW_REMEDIATION_RECOVERED"
                  /\ state # "VALIDATION_INFRASTRUCTURE_RECOVERED"
                  /\ Evident(x) =>
                       IsSet(x.metadata, {"prNumber", "headRefOid", "mergeSha"}),
             NEW e, e.checkpoint.state = state,
             e.metadata = Merge(patch, x.metadata), Evident(x)
      PROVE  Evident(e)
  <2>1. \A f \in MetaFields \ {"thread", "ownerResume", "cleanupProof", "cleanupRetries"} :
          e.metadata[f] = x.metadata[f]
    BY <1>1, KnownType, MergedFields
  <2>2. /\ e.metadata["prNumber"] = x.metadata["prNumber"]
        /\ e.metadata["headRefOid"] = x.metadata["headRefOid"]
        /\ e.metadata["mergeSha"] = x.metadata["mergeSha"]
        /\ e.metadata["reviewProof"] = x.metadata["reviewProof"]
    BY <2>1 DEF MetaFields
  <2> QED
    BY <1>1, <2>2 DEF Evident, IsSet
<1>2. CASE ReopenProviderWall(o)
  <2>1. PICK d \in Details : Known(o)
                   /\ Reopen(o, "RETRYABLE_PROVIDER_WALL", d, NoThread)
    BY <1>2 DEF ReopenProviderWall, ReleasedAt
  <2>2. ~killSwitch
    BY <1>2 DEF ReopenProviderWall, AssertRunning
  <2>3. \A f \in DOMAIN NoThread : f = "thread" /\ NoThread[f] = "none"
    BY DEF NoThread
  <2>4. \A e : /\ e.checkpoint.state = "RETRYABLE_PROVIDER_WALL"
               /\ e.metadata = Merge(NoThread, x.metadata)
               /\ Evident(x)
               => Evident(e)
    BY <1>1, <2>1, <2>3
  <2> QED
    BY <2>1, <2>2, <2>4, ReopenIsLawful DEF ZeroTouchStates, RecoveryStates
<1>3. CASE ReopenOwnerDecisionWall(o)
  <2> DEFINE patch == [ownerResume |-> "PENDING"]
  <2>1. Known(o) /\ Reopen(o, "OWNER_DECISION_ACCEPTED", "NEXT_STATE", patch)
    BY <1>3 DEF ReopenOwnerDecisionWall, ReleasedAt
  <2>2. ~killSwitch
    BY <1>3 DEF ReopenOwnerDecisionWall, AssertRunning
  <2>3. \A e : /\ e.checkpoint.state = "OWNER_DECISION_ACCEPTED"
               /\ e.metadata = Merge(patch, x.metadata)
               /\ Evident(x)
               => Evident(e)
    <3>1. \A f \in DOMAIN patch : f = "ownerResume"
      OBVIOUS
    <3> HIDE DEF patch
    <3> QED
      BY <1>1, <2>1, <3>1
  <2> QED
    BY <2>1, <2>2, <2>3, ReopenIsLawful DEF ZeroTouchStates
<1>4. CASE RecoverExternalToolWall(o)
  <2>1. Known(o) /\ Reopen(o, "EXTERNAL_TOOL_WALL_RECOVERED",
                           "APP_SERVER_EXTERNAL_TOOL_WALL", NoThread)
    BY <1>4 DEF RecoverExternalToolWall
  <2>2. ~killSwitch /\ OwnerTouchesRemainZero
    BY <1>4 DEF RecoverExternalToolWall, AssertRunning
  <2>3. \A f \in DOMAIN NoThread : f = "thread" /\ NoThread[f] = "none"
    BY DEF NoThread
  <2>4. \A e : /\ e.checkpoint.state = "EXTERNAL_TOOL_WALL_RECOVERED"
               /\ e.metadata = Merge(NoThread, x.metadata)
               /\ Evident(x)
               => Evident(e)
    BY <1>1, <2>1, <2>3
  <2> QED
    BY <2>1, <2>2, <2>4, ReopenIsLawful
<1>5. CASE RecoverPostMergeCleanupWall(o)
  <2>1. /\ Known(o)
        /\ Reopen(o, "POST_MERGE_CLEANUP_RECOVERED", "PULL_REQUEST", <<>>)
        /\ IsSet(x.metadata, {"prNumber", "headRefOid", "mergeSha"})
    BY <1>5 DEF RecoverPostMergeCleanupWall, MergeEvidence, IsSet
  <2>2. ~killSwitch /\ OwnerTouchesRemainZero
    BY <1>5 DEF RecoverPostMergeCleanupWall, AssertRunning
  <2>3. \A e : /\ e.checkpoint.state = "POST_MERGE_CLEANUP_RECOVERED"
               /\ e.metadata = Merge(<<>>, x.metadata)
               /\ Evident(x)
               => Evident(e)
    BY <1>1, <2>1
  <2> QED
    BY <2>1, <2>2, <2>3, ReopenIsLawful
<1>6. ASSUME NEW proof \in Evidence, BeginTerminalPostMergeCleanupRecovery(o, proof)
      PROVE  \E e : LawfulStep(o, e)
  <2> DEFINE s == "POST_MERGE_CLEANUP_TERMINAL_RECOVERY_PENDING"
             d == "POST_MERGE_CLEANUP_REMEDIATION_EXHAUSTED"
             patch == [cleanupProof |-> proof]
  <2>1. /\ Known(o) /\ Advance(o, s, d, patch)
        /\ x.lease.status # "ACTIVE"
        /\ IsSet(x.metadata, {"prNumber", "headRefOid", "mergeSha"})
    BY <1>6 DEF BeginTerminalPostMergeCleanupRecovery, ReleasedAt,
       MergeEvidence, IsSet
  <2>2. ~killSwitch /\ OwnerTouchesRemainZero
    BY <1>6 DEF BeginTerminalPostMergeCleanupRecovery, AssertRunning
  <2>3. \A e : /\ e.checkpoint.state = s
               /\ e.metadata = Merge(patch, x.metadata)
               /\ Evident(x)
               => Evident(e)
    <3>1. \A f \in DOMAIN patch : f = "cleanupProof"
      OBVIOUS
    <3> HIDE DEF patch
    <3> QED
      BY <1>1, <2>1, <3>1
  <2> QED
    BY <2>1, <2>2, <2>3, AdvanceIsLawful
<1>7. ASSUME NEW proof \in Evidence,
             FinalizeTerminalPostMergeCleanupRecovery(o, proof)
      PROVE  \E e : LawfulStep(o, e)
  <2> DEFINE s == "POST_MERGE_CLEANUP_RECOVERED"
             patch == [cleanupRetries |-> "none"]
  <2>1. /\ Known(o) /\ Reopen(o, s, "PULL_REQUEST", patch)
        /\ x.checkpoint.state = "POST_MERGE_CLEANUP_TERMINAL_RECOVERY_PENDING"
    BY <1>7 DEF FinalizeTerminalPostMergeCleanupRecovery, ReleasedAt, At
  <2>2. ~killSwitch /\ OwnerTouchesRemainZero
    BY <1>7 DEF FinalizeTerminalPostMergeCleanupRecovery, AssertRunning
  <2>3. Evident(x) => IsSet(x.metadata, {"prNumber", "headRefOid", "mergeSha"})
    BY <2>1 DEF Evident
  <2>4. \A e : /\ e.checkpoint.state = s
               /\ e.metadata = Merge(patch, x.metadata)
               /\ Evident(x)
               => Evident(e)
    <3>1. \A f \in DOMAIN patch : f = "cleanupRetries"
      OBVIOUS
    <3> HIDE DEF patch
    <3> QED
      BY <1>1, <2>1, <2>3, <3>1
  <2> QED
    BY <2>1, <2>2, <2>4, ReopenIsLawful
<1> QED
  BY <1>2, <1>3, <1>4, <1>5, <1>6, <1>7, RetirementIsLawful,
     ValidationIsLawful, CompletionIsLawful, ReviewIsLawful DEF OperatorNext

LEMMA StepsAreLawful ==
  TypeOK /\ Next =>
    \/ \E o \in Outcomes : \E e : LawfulStep(o, e)
    \/ UNCHANGED <<executions, nextFencingToken>> /\ ownerTouches' >= ownerTouches
<1> SUFFICES ASSUME TypeOK, Next
             PROVE  \/ \E o \in Outcomes : \E e : LawfulStep(o, e)
                    \/ /\ UNCHANGED <<executions, nextFencingToken>>
                       /\ ownerTouches' >= ownerTouches
  OBVIOUS
<1>1. ASSUME NEW o \in Outcomes, (\E h \in Holders : HolderNext(o, h)) \/ OperatorNext(o)
      PROVE  \E e : LawfulStep(o, e)
  BY <1>1, HolderIsLawful, OperatorIsLawful
<1>2. ownerTouches \in Nat
  BY DEF TypeOK
<1>3. ASSUME NEW active \in BOOLEAN, SetKillSwitch(active)
      PROVE  /\ UNCHANGED <<executions, nextFencingToken>>
             /\ ownerTouches' >= ownerTouches
  BY <1>2, <1>3 DEF SetKillSwitch
<1>4. CASE RecordOwnerTouch \/ ClockStep
  BY <1>2, <1>4 DEF RecordOwnerTouch, ClockStep, storeVars
<1> QED
  BY <1>1, <1>3, <1>4 DEF Next

\* What a lawful step leaves in the store.
LEMMA LawfulResult ==
  ASSUME TypeOK, NEW o \in Outcomes, NEW e, LawfulStep(o, e)
  PROVE  /\ executions'[o] = e
         /\ \A p \in Outcomes \ {o} : executions'[p] = executions[p]
         /\ ownerTouches' = ownerTouches
         /\ killSwitch => nextFencingToken' = nextFencingToken
  BY DEF LawfulStep, Record, RecordFenced, TypeOK

EvidenceInv == \A o \in Outcomes : EvidentBefore(o)

LEMMA EvidenceInductive == TypeOK /\ EvidenceInv /\ [Next]_vars => EvidenceInv'
<1> SUFFICES ASSUME TypeOK, EvidenceInv, [Next]_vars, NEW p \in Outcomes, Known(p)'
             PROVE  Evident(executions'[p])
  BY DEF EvidenceInv, EvidentBefore
<1>1. CASE executions' = executions
  BY <1>1 DEF EvidenceInv, EvidentBefore, Known
<1>2. ASSUME NEW o \in Outcomes, NEW e, LawfulStep(o, e)
      PROVE  Evident(executions'[p])
  <2>1. CASE p = o
    BY <1>2, <2>1, LawfulResult DEF LawfulStep, EvidenceInv
  <2>2. CASE p # o
    <3>1. executions'[p] = executions[p]
      BY <1>2, <2>2, LawfulResult
    <3> QED
      BY <3>1 DEF EvidenceInv, EvidentBefore, Known
  <2> QED
    BY <2>1, <2>2
<1> QED
  BY <1>1, <1>2, StepsAreLawful DEF vars, storeVars

\* Whatever the holders wrote and in whichever order recoveries were begun,
\* merged, finalized and reconciled, a recovered execution carries the evidence
\* it was recovered on, and no recovery from a review leaves a model thread.
THEOREM RecoveriesAreEvident == Spec => []RecoveredStatesCarryEvidence
<1>1. Init => EvidenceInv
  BY DEF Init, EvidenceInv, EvidentBefore, Known
<1>2. EvidenceInv => RecoveredStatesCarryEvidence
  BY DEF EvidenceInv, EvidentBefore, Evident, IsSet, MergeEvidence,
     RecoveredStatesCarryEvidence
<1> QED
  BY <1>1, <1>2, EvidenceInductive, TypeCorrect, PTL DEF Spec

\* While the kill switch is on, no operation issues a fence or starts or extends
\* a lease, and the only checkpoint anyone writes is a retirement.
THEOREM KilledStoresIdle == Spec => KillSwitchStopsWork
<1> DEFINE A == killSwitch /\ killSwitch' =>
       /\ nextFencingToken' = nextFencingToken
       /\ \A o \in Outcomes : executions'[o] # executions[o] =>
            /\ Held(o)' => executions'[o].lease = executions[o].lease
            /\ \/ executions'[o].checkpoint = executions[o].checkpoint
               \/ executions'[o].checkpoint.state
                    = "DURABLE_QUEUE_ACQUISITION_RETIRED"
<1>1. TypeOK /\ [Next]_vars => A
  <2> SUFFICES ASSUME TypeOK, [Next]_vars, killSwitch
               PROVE  A
    OBVIOUS
  <2>1. CASE UNCHANGED <<executions, nextFencingToken>>
    BY <2>1
  <2>2. ASSUME NEW o \in Outcomes, NEW e, LawfulStep(o, e)
        PROVE  A
    BY <2>2, LawfulResult DEF LawfulStep, Allowed, IsHeld, Held
  <2> QED
    BY <2>1, <2>2, StepsAreLawful DEF vars, storeVars
<1>2. A => [A]_vars
  OBVIOUS
<1> QED
  BY <1>1, <1>2, TypeCorrect, PTL DEF Spec, KillSwitchStopsWork

\* Right after any recovery nobody holds the outcome: the recovered work cannot
\* be continued by the process it was taken from.
THEOREM RecoveriesRevoke == Spec => RecoveryRevokesHolder
<1> DEFINE A == \A o \in Outcomes :
       /\ Known(o)
       /\ executions'[o].checkpoint # executions[o].checkpoint
       /\ executions'[o].checkpoint.state \in RecoveryStates
       => ~Held(o)'
<1>1. TypeOK /\ [Next]_vars => A
  <2> SUFFICES ASSUME TypeOK, [Next]_vars PROVE A
    OBVIOUS
  <2>1. CASE executions' = executions
    BY <2>1
  <2>2. ASSUME NEW o \in Outcomes, NEW e, LawfulStep(o, e)
        PROVE  A
    BY <2>2, LawfulResult DEF LawfulStep, Allowed, IsHeld, Held
  <2> QED
    BY <2>1, <2>2, StepsAreLawful DEF vars, storeVars
<1>2. A => [A]_vars
  OBVIOUS
<1> QED
  BY <1>1, <1>2, TypeCorrect, PTL DEF Spec, RecoveryRevokesHolder

\* Once the owner intervened, no sequence of requests brings an outcome into a
\* state that certifies an untouched run.
THEOREM TouchesAreFinal == Spec => TouchedRunsAreNotRecovered
<1> DEFINE A == ownerTouches > 0 =>
       /\ ownerTouches' >= ownerTouches
       /\ \A o \in Outcomes : Known(o) =>
            \/ executions'[o].checkpoint = executions[o].checkpoint
            \/ executions'[o].checkpoint.state \notin ZeroTouchStates
<1>1. TypeOK /\ [Next]_vars => A
  <2> SUFFICES ASSUME TypeOK, [Next]_vars, ownerTouches > 0 PROVE A
    OBVIOUS
  <2>0. ownerTouches \in Nat
    BY DEF TypeOK
  <2>1. CASE executions' = executions /\ ownerTouches' >= ownerTouches
    BY <2>1
  <2>2. ASSUME NEW o \in Outcomes, NEW e, LawfulStep(o, e)
        PROVE  A
    BY <2>0, <2>2, LawfulResult DEF LawfulStep, Allowed
  <2> QED
    BY <2>0, <2>1, <2>2, StepsAreLawful DEF vars, storeVars
<1>2. A => [A]_vars
  OBVIOUS
<1> QED
  BY <1>1, <1>2, TypeCorrect, PTL DEF Spec, TouchedRunsAreNotRecovered
=============================================================================
