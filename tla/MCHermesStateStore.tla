-------------------------- MODULE MCHermesStateStore --------------------------
(***************************************************************************)
(* Two processes contend for one outcome under a wall clock that moves     *)
(* both ways.  It is driven into every wall the store can recover from,    *)
(* with two distinguishable pieces of evidence so that a recovery can be   *)
(* asked for with the wrong one.                                           *)
(***************************************************************************)
EXTENDS HermesStateStore, TLC

At3(state, detail, metadata) ==
  [state |-> state, detail |-> detail, metadata |-> metadata]

Merged == [prNumber |-> "e1", headRefOid |-> "e1", mergeSha |-> "e1"]

RecoveryWrites ==
  {At3("CODEX_THREAD_READY", "none", [thread |-> "some"]),
   At3("FAILED_TERMINAL", "VALIDATION_REMEDIATION_EXHAUSTED",
       [validationFailure |-> "infrastructure", headRefOid |-> "e1"]),
   At3("FAILED_TERMINAL", "REVIEW_REMEDIATION_EXHAUSTED",
       [prNumber |-> "e1", headRefOid |-> "e1"]),
   At3("FAILED_TERMINAL", "POST_MERGE_CLEANUP_REMEDIATION_EXHAUSTED",
       [cleanupRetries |-> "exhausted"]),
   At3("OWNER_DECISION_REQUIRED", "NEXT_STATE", [ownerPacket |-> "e1"]),
   At3("RETRYABLE_WALL", "APP_SERVER_EXTERNAL_TOOL_WALL", <<>>),
   At3("PROVIDER_UNAVAILABLE", "RETRY_AFTER", <<>>),
   At3("POST_MERGE_CLEANUP_RETRY", "HERMES_POST_MERGE_CLEANUP_WALL", <<>>),
   At3("PR_MERGED", "PULL_REQUEST", Merged)}

Symmetry == Permutations(Holders)
=============================================================================
