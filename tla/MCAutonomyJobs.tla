--------------------------- MODULE MCAutonomyJobs ---------------------------
(* Instances of AutonomyJobs for TLC. *)
EXTENDS AutonomyJobs, TLC

CONSTANTS j1, j2, r1, r2, r3, w1, w2

Failure(class, slot, retryable, policy, max) ==
  [failure_class |-> class, missing_slot |-> slot, retryable |-> retryable,
   policy_failed |-> policy, max_retries |-> max]

\* One failure per branch of the recovery decision: retry while there is
\* budget, wait for the user, escalate by class, escalate as non-retryable,
\* and a result that brings its own retry budget.
MCFailures ==
  {Failure("none", FALSE, "unset", FALSE, 0),
   Failure("missing_slot", FALSE, "unset", FALSE, 0),
   Failure("permission_denied", FALSE, "true", FALSE, 0),
   Failure("none", FALSE, "true", TRUE, 1)}

\* Two workers; with three runs, r1 and r2 share the id of a restarted loop.
TwoRuns == {r1, r2}
OneWorkerEach == (r1 :> w1) @@ (r2 :> w2)
ThreeRuns == {r1, r2, r3}
RestartedWorker == (r1 :> w1) @@ (r2 :> w1) @@ (r3 :> w2)
=============================================================================
