-------------------------- MODULE RecoveryDecision --------------------------
(***************************************************************************)
(* The pure decision that every failed execution goes through              *)
(* (src/recovery-decision.mjs, resolveRecoveryDecisionV1): does the same   *)
(* task run again, wait for the user, go to an operator, or stop?  A       *)
(* failure is a record of what the code reads after its normalisations:    *)
(*   failure_class  the normalised class ("none" when there is no class)   *)
(*   missing_slot   the error text or a verification issue names a slot    *)
(*   retryable      "unset" when the caller gave no boolean                *)
(*   policy_failed  verification.execution_policy_state = "failed"         *)
(*   candidates     how many well-formed recovery candidates were given    *)
(*   retry_count, max_retries   the retry budget                           *)
(***************************************************************************)
EXTENDS Naturals

EscalateFailureClasses == {"effect_committed", "commit_unknown", "permission_denied"}

FailureClasses == EscalateFailureClasses \cup {"none", "missing_slot", "other"}

Retryable == {"unset", "true", "false"}

RoutingHints == {"waiting_user", "escalated", "search_candidate",
                 "resume_same_task", "failed_fail_soft", "blocked_fail_soft"}

Decisions == [next_state : {"blocked", "escalated", "executing", "failed"},
              routing_hint : RoutingHints]

Decision(state, hint) == [next_state |-> state, routing_hint |-> hint]

\* resolveRetryable: an explicit boolean wins over the class and the policy state.
IsRetryable(f) ==
  \/ f.retryable = "true"
  \/ /\ f.retryable = "unset"
     /\ f.failure_class \notin EscalateFailureClasses
     /\ ~f.policy_failed

\* hasMissingSlot
HasMissingSlot(f) == f.failure_class = "missing_slot" \/ f.missing_slot

\* The budget is at least one retry whatever the caller passed.
RetryBudget(f) == IF f.max_retries = 0 THEN 1 ELSE f.max_retries

\* The early returns of resolveRecoveryDecisionV1, in the order of the code.
\* The branch for candidates of which none can be selected is left out: the
\* selection sorts a non-empty list and takes its head, so it always selects.
ResolveRecoveryDecisionV1(f) ==
  IF HasMissingSlot(f) THEN Decision("blocked", "waiting_user")
  ELSE IF f.failure_class \in EscalateFailureClasses \/ ~IsRetryable(f)
    THEN Decision("escalated", "escalated")
  ELSE IF f.candidates > 0 THEN Decision("executing", "search_candidate")
  ELSE IF f.retry_count < RetryBudget(f) THEN Decision("executing", "resume_same_task")
  ELSE IF f.policy_failed THEN Decision("failed", "failed_fail_soft")
  ELSE Decision("blocked", "blocked_fail_soft")

\* deriveLifecycleSinkFromRecoveryDecision (autonomy-worker-loop.mjs): the
\* decisions that leave an incident for a human behind.
Sinks == {"none", "waiting_user", "escalated"}

LifecycleSink(d) ==
  IF d.routing_hint \in {"waiting_user", "escalated"} THEN d.routing_hint ELSE "none"
=============================================================================
