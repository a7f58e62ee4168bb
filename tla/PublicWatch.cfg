SPECIFICATION FairSpec
CONSTANTS
  r1 = r1
  s1 = s1
  Requests <- OneRequest
  Subscriptions <- OneSubscription
  Events <- EveryOutcome
  ProgressTypes <- SomeProgress
  MaxConnections = 3
  PollsRunOut = TRUE
  MaxEvents = 4
  MaxLosses = 1
INVARIANTS OutcomeIsRecorded WireContinues
PROPERTY PublicFinishes
CHECK_DEADLOCK FALSE
