---------------------------- MODULE MCEventStream ----------------------------
(***************************************************************************)
(* An instance of EventStream for TLC.                                     *)
(***************************************************************************)
EXTENDS EventStream
=============================================================================
