SPECIFICATION FairSpec
CONSTANTS
  c1 = c1
  c2 = c2
  c3 = c3
  c4 = c4
  c5 = c5
  s1 = s1
  s2 = s2
  NoCall = NoCall
  Sessions = {s1, s2}
  Calls <- FiveCalls
  SessionOf <- TwoSessions
INVARIANTS
  MapHoldsLiveTail
PROPERTIES
  ImplementsGate
  TurnComes
\* When every call is over nothing is left to do.
CHECK_DEADLOCK FALSE
