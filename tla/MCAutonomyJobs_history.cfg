SPECIFICATION Spec
CONSTANTS
  j1 = j1
  j2 = j2
  r1 = r1
  r2 = r2
  r3 = r3
  w1 = w1
  w2 = w2
  NoWorker = NoWorker
  NoJob = NoJob
  Jobs = {j1}
  Workers = {w1, w2}
  Runs <- TwoRuns
  WorkerOf <- OneWorkerEach
  AttemptCap = 2
  Failures <- MCFailures
  Stalls = FALSE
PROPERTIES
  DispositionHistoryKept
CHECK_DEADLOCK FALSE
