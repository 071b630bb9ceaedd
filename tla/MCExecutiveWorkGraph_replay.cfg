SPECIFICATION Spec
CONSTANTS
  p1 = p1
  p2 = p2
  p3 = p3
  w1 = w1
  w2 = w2
  Merge = Merge
  NoWorker = NoWorker
  Specialists = {n1}
  Workers = {w1, w2}
  Passes <- ThreePasses
  WorkerOf <- TwoWorkers
  MaxRetries = 1
  MaxParallel = 2
  RoundLimit = 2
  AttemptCap = 4
  ReplayCap = 2
  CarefulReplays = FALSE
INVARIANTS
  TypeOK
  HeldNodeHasHolder
  DeadletterIsListed
  NodeAttemptBudget
  MergeHasInputs
\* When every pass has ended nothing is left to do.
CHECK_DEADLOCK FALSE
