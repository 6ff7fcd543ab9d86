-------------------------- MODULE MCDesktopRuntime --------------------------
(* Two concurrent starts, a stop. *)
EXTENDS DesktopRuntime, TLC
=============================================================================
