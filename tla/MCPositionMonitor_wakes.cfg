SPECIFICATION Spec
CONSTANTS
  Wires = {"once", "stale"}
  StaleWires = {"stale"}
  OnceWires = {"once"}
  PlanWires = {"once", "stale"}
  Levels = {1}
  FirstStop = 1
  EntryBar = 0
  LastBar = 2
  Window = 2
  CooldownBars = 2
  MaxWakesPer24h = 2
  MaxWakesPerTrade = 3
  MaxFailedWakes = 2
  Day = 2
  Answers = {"hold", "set_tripwires"}
  Faults = 1
INVARIANTS OneWakeInFlight WakesPerDay CooldownKept
