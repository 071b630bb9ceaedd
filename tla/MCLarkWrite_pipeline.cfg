SPECIFICATION FairSpec
CONSTANTS
  c1 = c1
  c2 = c2
  i1 = i1
  k1 = k1
  p1 = p1
  p2 = p2
  p3 = p3
  d1 = d1
  None = None
  Calls = {c1, c2}
  Ids = {i1}
  Keys = {k1}
  Requests <- Some
  OldEvents <- Old
  PastEvents <- Past
  SoftLimit = 1
  HardLimit = 2
  MaxCrashes = 1
INVARIANTS
  TypeOK
  SingleUseAlone
  BudgetHeldAlone
  NoDuplicateAlone
  RepeatOnlyAfterFailure
PROPERTIES
  PendingEnds
\* When every call is over nothing is left to do.
CHECK_DEADLOCK FALSE
