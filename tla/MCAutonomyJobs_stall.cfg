SPECIFICATION Spec
CONSTANTS
  j1 = j1
  j2 = j2
  r1 = r1
  r2 = r2
  r3 = r3
  w1 = w1
  w2 = w2
  NoWorker = NoWorker
  NoJob = NoJob
  Jobs = {j1}
  Workers = {w1, w2}
  Runs <- ThreeRuns
  WorkerOf <- RestartedWorker
  AttemptCap = 3
  Failures <- MCFailures
  Stalls = TRUE
INVARIANTS
  TypeOK
  RunOwnsItsAttempt
  LeaseBelongsToNewestAttempt
  AttemptBudget
  ResultComesFromCompletedAttempt
PROPERTIES
  CompletedUndoneOnlyByOtherAttempt
  AcknowledgedUntilNewFailure
\* Once every job has settled and no operator acts, nothing is left to do.
CHECK_DEADLOCK FALSE
