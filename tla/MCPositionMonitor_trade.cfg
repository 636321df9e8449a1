SPECIFICATION Spec
CONSTANTS
  Wires = {"cross", "stale"}
  StaleWires = {"stale"}
  OnceWires = {}
  PlanWires = {"cross", "stale"}
  Levels = {1}
  FirstStop = 1
  EntryBar = 0
  LastBar = 3
  Window = 3
  CooldownBars = 2
  MaxWakesPer24h = 3
  MaxWakesPerTrade = 1
  MaxFailedWakes = 2
  Day = 2
  Answers = {"hold"}
  Faults = 0
INVARIANTS WakesPerTrade
