CONSTANTS
  Campaigns <- MCAll
  MaxStarts <- MCAllStarts
  CodeCount = 2
  DigestCount = 2
  MaxLive = 2
  MaxCrashes = 1
  MaxEdits = 2
SPECIFICATION Spec
INVARIANTS Provenance NamesFirst TrialsCounted ScoredOnce
PROPERTIES BoughtOnce
CHECK_DEADLOCK FALSE
