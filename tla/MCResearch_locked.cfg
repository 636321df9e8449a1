CONSTANTS
  Campaigns <- MCScan
  MaxStarts <- MCScanStarts
  CodeCount = 1
  DigestCount = 1
  MaxLive = 2
  MaxCrashes = 1
  MaxEdits = 0
SPECIFICATION Spec
INVARIANT LockedOnce
CHECK_DEADLOCK FALSE
