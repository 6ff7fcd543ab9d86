--------------------------- MODULE MCDeliberation ---------------------------
(* Up to three seats, three requests of a call, as in the code.                               *)
EXTENDS Deliberation, TLC
=============================================================================
