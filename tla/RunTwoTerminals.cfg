SPECIFICATION CalmSpec
CONSTANTS
  r1 = r1
  r2 = r2
  Requests <- MCOneRequest
  ExecuteAttempts = 3
  FinalizeAttempts = 3
  s1 = s1
  Subscriptions <- MCSubscriptions
  Events <- MCEvents
INVARIANT SingleTerminalEvent
CHECK_DEADLOCK FALSE
