-------------------------- MODULE MCResearchTrades --------------------------
EXTENDS TradePath, EntryReplay

ASSUME SensibleAssumption == Sensible

MCGaps == {-2, 0, 2}
MCTrails == {-Far, -1, 1}

\* A behaviour follows one trade or one history; the other stays as it began.
VARIABLE what

MCInit ==
    /\ what \in {"trade", "history"}
    /\ Init /\ HistoryInit
    /\ what = "trade" => gate = "none"
    /\ what = "history" => plan = "range" /\ side = 1 /\ spread = 0

MCNext ==
    \/ what = "trade" /\ Next /\ UNCHANGED <<historyVars, what>>
    \/ what = "history" /\ HistoryNext /\ UNCHANGED <<vars, what>>

MCSpec == MCInit /\ [][MCNext]_<<vars, historyVars, what>>
=============================================================================
