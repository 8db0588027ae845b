SPECIFICATION Spec
CONSTANTS
  Sends = {1, 2, 3, 4}
  Limit = 3
  Lookback = 3
  MaxDelay = 1
  Skew = 0
  MaxTime = 6
  MaxUpdates = 2
INVARIANTS TypeOK NothingFallsBehind
PROPERTY EveryResultIsSeen
CHECK_DEADLOCK FALSE
