SPECIFICATION MCSpec
CONSTANTS
  r1 = r1
  r2 = r2
  Requests <- MCRequests
  ExecuteAttempts = 1
  FinalizeAttempts = 2
  s1 = s1
  Subscriptions <- MCSubscriptions
  Events <- MCEvents
SYMMETRY Symmetry
INVARIANTS LogContiguous StartFailureIsClean OutboxAgrees
PROPERTIES ImplementsContract TerminalIsFinal
CHECK_DEADLOCK FALSE
