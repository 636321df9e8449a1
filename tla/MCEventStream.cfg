SPECIFICATION FairSpec
CONSTANTS
  LastId = 4
  Writers = {w1, w2}
  Lookback = 2
  Extra = 1
  Faults = 1
  w1 = w1
  w2 = w2
INVARIANTS TypeOK SentOnce NothingDueIsMissed
PROPERTIES DueIsLoaded
CHECK_DEADLOCK FALSE
