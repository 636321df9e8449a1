CONSTANTS
  Risk = 2
  Arm = 1
  Runner = 2
  Horizon = 3
  Minutes = 2
  Ticks = 6
  Spreads = {0, 1}
  Gaps <- MCGaps
  Trails <- MCTrails
  Offsets = {0}
  Waits = {2}
  Window = 2
  MaxLife = 2
  MaxAttempts = 2
  Bars = 5
SPECIFICATION MCSpec
INVARIANTS Bracket ExactUnlessAmbiguous MinutesDecide ReferenceAgrees LoopsAreCausal
CHECK_DEADLOCK FALSE
