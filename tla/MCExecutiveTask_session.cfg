SPECIFICATION Spec
CONSTANTS
  f1 = f1
  f2 = f2
  f3 = f3
  f4 = f4
  None = None
  Flows = {f1, f2, f3}
  Offered <- Everything
  MaxTasks = 3
  MaxRetries = 2
  MaxTorn = 1
  MaxCrashes = 1
SYMMETRY FlowsAlike
INVARIANTS
  TypeOK
  RetryResumesAlone
  AppliedOnce
PROPERTIES
  OwnerKept
  EndedStaysEnded
\* When every flow is over nothing is left to do.
CHECK_DEADLOCK FALSE
