SPECIFICATION FairSpec
CONSTANTS
  Wires = {"cross"}
  StaleWires = {}
  OnceWires = {}
  PlanWires = {"cross"}
  Levels = {1, 2}
  FirstStop = 1
  EntryBar = 0
  LastBar = 3
  Window = 2
  CooldownBars = 2
  MaxWakesPer24h = 2
  MaxWakesPerTrade = 2
  MaxFailedWakes = 2
  Day = 2
  Answers = {"hold", "close", "tighten_stop", "set_tripwires"}
  Faults = 1
INVARIANTS TypeOK JudgedOnce NoSilentGap
PROPERTIES StopOnlyTightens ClosedIsFinal BarsAreJudged
