----------------------------- MODULE MCRunQueue -----------------------------
(***************************************************************************)
(* Instances of RunQueue for TLC.                                          *)
(***************************************************************************)
EXTENDS RunQueue

CONSTANTS a1, a2, k1, k2, k3

\* An agent's budgets: few attempts and follow-ups, all of them reachable.
Small == {[attempts |-> 2, followups |-> 1, tools |-> 1]}
Tight == {[attempts |-> 1, followups |-> 1, tools |-> 0]}
Varied == {[attempts |-> 1, followups |-> 2, tools |-> 0],
           [attempts |-> 2, followups |-> 1, tools |-> 1]}

\* Every key is the engine's.
EngineSource == [k \in Keys |-> "engine"]
EngineTarget == [k \in Keys |-> NoAgent]

\* k1 is the engine's and k2 the monitor's, about the position k1 opened.
WakeSource == [k \in Keys |-> IF k = k2 THEN "monitor" ELSE "engine"]
WakeTarget == [k \in Keys |-> IF k = k2 THEN a1 ELSE NoAgent]
WakeFor == [k \in Keys \cap {k2} |-> <<a1, k1>>]

NoWakes == [k \in {} |-> <<a1, k1>>]
OneMarket == [k \in Keys |-> CHOOSE m \in Markets : TRUE]
=============================================================================
