-------------------------- MODULE MCPositionMonitor --------------------------
(***************************************************************************)
(* Instances of PositionMonitor for TLC.                                   *)
(***************************************************************************)
EXTENDS PositionMonitor
=============================================================================
