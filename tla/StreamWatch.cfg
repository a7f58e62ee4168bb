SPECIFICATION FairSpec
CONSTANTS
  r1 = r1
  Requests <- OneRequest
  Subscriptions = {}
  Events <- NoEvents
  ProgressTypes <- SomeProgress
  MaxErrors = 2
  TraceLoads = 2
  MaxEvents = 4
  MaxLosses = 2
  MaxRunOuts = 2
INVARIANT ShownIsPrefix
PROPERTY EveryWatcherFinishes
CHECK_DEADLOCK FALSE
