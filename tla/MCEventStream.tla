---------------------------- MODULE MCEventStream ----------------------------
(* Pages of two events, and events enough for three of them.                *)
EXTENDS EventStream, TLC
=============================================================================
