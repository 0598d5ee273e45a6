SPECIFICATION FairSpec
CONSTANTS
  MaxEvents = 1
  timeStamping = TRUE
  EarlySignals = FALSE
  FullEvery = 1
CHECK_DEADLOCK FALSE
INVARIANTS
  WatchHolds
PROPERTIES
  LimitEnforced
  SomeoneStops
  Ends
