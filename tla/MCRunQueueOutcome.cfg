SPECIFICATION FairSpec
CONSTANTS
  a1 = a1  a2 = a2  k1 = k1  k2 = k2  k3 = k3
  Agents = {a1}
  Keys = {k1, k2, k3}
  Markets = {m1}
  NoAgent = NoAgent
  SourceOf <- WakeSource
  MarketOf <- OneMarket
  TargetOf <- WakeTarget
  WokenFor <- WakeFor
  Budgets <- Tight
  AttemptLimit = 1  FollowupLimit = 1  ToolLimit = 1
  Entries = {"long"}
  Adjustments = {"tighten_stop"}
  EngineDecisions = {}
INVARIANTS OneOpenPosition
PROPERTIES KeepsPromise ClosedStaysClosed
