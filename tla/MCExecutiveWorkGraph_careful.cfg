SPECIFICATION Spec
CONSTANTS
  p1 = p1
  p2 = p2
  p3 = p3
  w1 = w1
  w2 = w2
  Merge = Merge
  NoWorker = NoWorker
  Specialists = {n1, n2}
  Workers = {w1, w2}
  Passes <- ThreePasses
  WorkerOf <- TwoWorkers
  MaxRetries = 1
  MaxParallel = 2
  RoundLimit = 2
  AttemptCap = 3
  ReplayCap = 1
  CarefulReplays = TRUE
INVARIANTS
  NodeExclusive
  MergeAfterInputs
PROPERTIES
  SucceededIsFinal
\* When every pass has ended nothing is left to do.
CHECK_DEADLOCK FALSE
