SPECIFICATION MCSpec
CONSTANTS
  r1 = r1
  r2 = r2
  Requests <- MCOneRequest
  ExecuteAttempts = 2
  FinalizeAttempts = 1
  s1 = s1
  Subscriptions = {}
  Events <- NoEvents
INVARIANTS StatusAgreesWithTrace ActivityResultIsStored NothingAfterTerminal ToolResultOnce CompletedMeansExecuted
PROPERTIES WorkflowCloses CalmRunSettles
CHECK_DEADLOCK FALSE
