SPECIFICATION Spec
CONSTANTS
  f1 = f1
  f2 = f2
  f3 = f3
  f4 = f4
  None = None
  Flows = {f1, f2, f3, f4}
  Offered = {"meeting_preview", "meeting_confirm", "executive_turn"}
  MaxTasks = 3
  MaxRetries = 2
  MaxTorn = 0
  MaxCrashes = 0
SYMMETRY FlowsAlike
INVARIANT
  LateCompletionKeepsOwner
CHECK_DEADLOCK FALSE
