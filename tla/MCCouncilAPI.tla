---------------------------- MODULE MCCouncilAPI ----------------------------
(* Small instances of CouncilAPI for TLC.  Its runs need no symmetry, which    *)
(* would not be sound for the liveness properties.                             *)
EXTENDS CouncilAPI, TLC

=============================================================================
