--------------------------- MODULE MCLoginLimiter ---------------------------
(* Three addresses for a table of two, and limits that four attempts reach. *)
EXTENDS LoginLimiter, TLC
=============================================================================
