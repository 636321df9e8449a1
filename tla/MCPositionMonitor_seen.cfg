SPECIFICATION Spec
CONSTANTS
  Wires = {"cross"}
  StaleWires = {}
  OnceWires = {}
  PlanWires = {"cross"}
  Levels = {1}
  FirstStop = 1
  EntryBar = 0
  LastBar = 3
  Window = 3
  CooldownBars = 2
  MaxWakesPer24h = 2
  MaxWakesPerTrade = 3
  MaxFailedWakes = 2
  Day = 2
  Answers = {"hold"}
  Faults = 1
INVARIANTS WakesAreSeen
