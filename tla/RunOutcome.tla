----------------------------- MODULE RunOutcome -----------------------------
(***************************************************************************)
(* What the run queue promises to those who use it, with no attempts,      *)
(* leases, retries or timers: an accepted run is resolved once and for     *)
(* good; a run an operator asked to cancel resolves to "cancelled"; only a *)
(* run that resolves to its agent's decision may open a position, in that  *)
(* very step.                                                              *)
(***************************************************************************)
CONSTANT Runs

VARIABLES
  accepted,  \* the runs that were enqueued
  asked,     \* the runs an operator asked to cancel while they were running
  outcome,   \* how each run ended
  opened     \* the runs that opened a shadow position

outcomeVars == <<accepted, asked, outcome, opened>>

Outcomes == {"decided", "held", "cancelled"}

Init ==
  /\ accepted = {}
  /\ asked = {}
  /\ outcome = [r \in Runs |-> "pending"]
  /\ opened = {}

Accept(S) ==
  /\ S \cap accepted = {}
  /\ accepted' = accepted \cup S
  /\ UNCHANGED <<asked, outcome, opened>>

Ask(r) ==
  /\ r \in accepted
  /\ outcome[r] = "pending"
  /\ asked' = asked \cup {r}
  /\ UNCHANGED <<accepted, outcome, opened>>

\* The runs of S resolve together, as one pass of the reaper resolves them.
Resolve(S) ==
  /\ S \subseteq accepted
  /\ \A r \in S : outcome[r] = "pending"
  /\ outcome' \in [Runs -> Outcomes \cup {"pending"}]
  /\ \A r \in Runs : IF r \in S THEN outcome'[r] # "pending" ELSE outcome'[r] = outcome[r]
  /\ \A r \in S \cap asked : outcome'[r] = "cancelled"
  /\ \E N \in SUBSET {r \in S : outcome'[r] = "decided"} : opened' = opened \cup N
  /\ UNCHANGED <<accepted, asked>>

Next ==
  \/ \E S \in SUBSET Runs : Accept(S) \/ Resolve(S)
  \/ \E r \in Runs : Ask(r)

Spec == Init /\ [][Next]_outcomeVars

\* An accepted run does not stay pending.
FairSpec ==
  /\ Spec
  /\ \A r \in Runs : WF_outcomeVars(\E S \in SUBSET Runs : r \in S /\ Resolve(S))
=============================================================================
