-------------------------- MODULE WorkOrderLifecycle --------------------------
(***************************************************************************)
(* The lifecycle every lane of the multi-agent operator goes through: its  *)
(* states, which of them are terminal, and which transition a checkpoint   *)
(* may record.                                                             *)
(***************************************************************************)
EXTENDS Naturals, Sequences

CONSTANT Works  \* work orders, each in a lane of its own

\* The states of a work order that is getting somewhere, in order.
SuccessPath ==
  <<"PLANNED", "AUTHORITY_MATCHED", "DEPENDENCY_CLEARED", "RESERVED", "LEASED",
    "PROVIDER_DISPATCHED", "EXECUTING", "VALIDATING", "PR_OPEN",
    "INDEPENDENT_REVIEW", "REMEDIATING", "MERGE_ELIGIBLE", "MERGED",
    "VERIFIED", "COMPLETE", "DEPENDENTS_RELEASED">>

SuccessStates == {SuccessPath[i] : i \in 1 .. Len(SuccessPath)}

NonSuccessStates ==
  {"RETRY_SCHEDULED", "REROUTE_PENDING", "DEFERRED", "BLOCKED_DEPENDENCY",
   "BLOCKED_RESERVATION", "BLOCKED_NO_ELIGIBLE_PROVIDER",
   "BLOCKED_POLICY_CHANGED", "FAILED_VALIDATION_TERMINAL",
   "FAILED_REVIEW_TERMINAL", "FAILED_SECURITY_TERMINAL",
   "FAILED_OWNER_BABYSITTING", "FAILED_TERMINAL", "QUARANTINED_TERMINAL",
   "OWNER_DECISION_REQUIRED"}

LifecycleStates == SuccessStates \cup NonSuccessStates

TerminalStates ==
  {"DEPENDENTS_RELEASED", "FAILED_VALIDATION_TERMINAL",
   "FAILED_REVIEW_TERMINAL", "FAILED_SECURITY_TERMINAL",
   "FAILED_OWNER_BABYSITTING", "FAILED_TERMINAL", "QUARANTINED_TERMINAL"}

\* A work order advances one state, but remediation goes back before it can
\* become eligible for a merge, and a clean review skips it.
Advances ==
  ({<<SuccessPath[i], SuccessPath[i + 1]>> : i \in 1 .. Len(SuccessPath) - 1}
    \ {<<"REMEDIATING", "MERGE_ELIGIBLE">>})
  \cup {<<"INDEPENDENT_REVIEW", "MERGE_ELIGIBLE">>,
        <<"REMEDIATING", "VALIDATING">>,
        <<"REMEDIATING", "INDEPENDENT_REVIEW">>}

\* What a lane that was taken off the path may do next.
Resumptions ==
  ({"RETRY_SCHEDULED", "REROUTE_PENDING"} \X
    {"PROVIDER_DISPATCHED", "DEFERRED", "BLOCKED_NO_ELIGIBLE_PROVIDER",
     "FAILED_TERMINAL", "FAILED_SECURITY_TERMINAL"})
  \cup ({"DEFERRED", "BLOCKED_DEPENDENCY", "BLOCKED_RESERVATION",
         "BLOCKED_NO_ELIGIBLE_PROVIDER"} \X {"DEPENDENCY_CLEARED"})
  \cup {<<"DEFERRED", "BLOCKED_NO_ELIGIBLE_PROVIDER">>,
        <<"BLOCKED_POLICY_CHANGED", "AUTHORITY_MATCHED">>,
        <<"OWNER_DECISION_REQUIRED", "AUTHORITY_MATCHED">>}

Transitions ==
  Advances \cup ((SuccessStates \ TerminalStates) \X NonSuccessStates) \cup Resumptions

\* transitionLifecycle accepts the step.
Legal(from, to) ==
  /\ from \notin TerminalStates
  /\ <<from, to>> \in Transitions
=============================================================================
