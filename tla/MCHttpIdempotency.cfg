SPECIFICATION FairSpec
CONSTANTS
  r1 = r1
  r2 = r2
  r3 = r3
  k1 = k1
  NoKey = NoKey
  None = None
  Keys = {k1}
  Requests <- ThreeRequests
  KeyOf <- OneKey
  MaxPersistFailures = 1
  MaxCrashes = 1
INVARIANTS
  TypeOK
  ReplayMatchesRecord
  InFlightEntryIsLive
  RerunOnlyAfterFailure
PROPERTIES
  NoRunAfterRecord
  RequestAnswered
  WaiterReleased
\* When every request is over nothing is left to do.
CHECK_DEADLOCK FALSE
