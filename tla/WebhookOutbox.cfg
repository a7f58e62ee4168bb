SPECIFICATION FairSpec
CONSTANTS
  s1 = s1
  s2 = s2
  run1 = run1
  run2 = run2
  w1 = w1
  w2 = w2
  Subscriptions <- TwoSubscriptions
  Runs <- OneRun
  Dispatchers <- TwoDispatchers
  Events <- OwnEvents
  AllowedOrigins <- OneSubscription
  BatchSize = 1
  MaxAttempts = 2
  Lease = 2
  MaxClaims = 3
  MaxMishaps = 1
INVARIANTS LeaseExcludes SettledForAReason AttemptsArePaid
PROPERTIES SettledIsFinal EveryDeliverySettles
CHECK_DEADLOCK FALSE
