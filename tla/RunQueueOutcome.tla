-------------------------- MODULE RunQueueOutcome ---------------------------
(***************************************************************************)
(* The run queue implements RunOutcome: everything a worker, a lease, a    *)
(* retry or the reaper does to a run is either invisible there or the one  *)
(* step that resolves it.                                                  *)
(***************************************************************************)
EXTENDS RunQueue

Resolution(status) ==
  CASE status = "succeeded" -> "decided"
    [] status \in {"failed", "expired"} -> "held"
    [] status = "cancelled" -> "cancelled"
    [] OTHER -> "pending"

Promise == INSTANCE RunOutcome WITH
  accepted <- {r \in Runs : run[r].status # "absent"},
  asked <- {r \in Runs : run[r].cancelRequested},
  outcome <- [r \in Runs |-> Resolution(run[r].status)],
  opened <- {r \in Runs : book[r] # "none"}

\* Every behaviour of the queue is one the promise allows (lifecycle.go), and
\* with the reaper and the clocks running every accepted run is resolved.
KeepsPromise == Promise!FairSpec
=============================================================================
