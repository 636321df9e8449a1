CONSTANTS
  Bots = {"M5", "H1"}
  InstrumentOf <- MCInstrument
  Bars <- MCBars
  Levels = {1, 4}
  Requests = {8}
  StartingBalance = 8
  Leverage = 2
  Commission = 1
  SpreadPaid = 0
  MaxPositions = 2
  RiskPct = 50
  AllocationPct = 75
  KillSwitchPct = 25
  MaxOpens = 3
  MaxTears = 1
SPECIFICATION BookSpec
INVARIANTS BooksBalance
PROPERTIES OpensWithinLimits
