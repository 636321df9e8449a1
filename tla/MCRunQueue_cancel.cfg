SPECIFICATION Spec
CONSTANTS
  a1 = a1  a2 = a2  k1 = k1  k2 = k2  k3 = k3
  Agents = {a1}
  Keys = {k1}
  Markets = {m1}
  NoAgent = NoAgent
  SourceOf <- EngineSource
  MarketOf <- OneMarket
  TargetOf <- EngineTarget
  WokenFor <- NoWakes
  Budgets <- Small
  AttemptLimit = 2  FollowupLimit = 1  ToolLimit = 1
  Entries = {"long"}
  Adjustments = {}
  EngineDecisions = {"hold", "long"}
INVARIANTS CancelLeavesNoProposal

