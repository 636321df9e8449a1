------------------------- MODULE MCRunQueueOutcome --------------------------
(***************************************************************************)
(* The instances of MCRunQueue, checked against RunOutcome.                *)
(***************************************************************************)
EXTENDS RunQueueOutcome, MCRunQueue
=============================================================================
