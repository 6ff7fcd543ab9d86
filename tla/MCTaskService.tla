---------------------------- MODULE MCTaskService ----------------------------
(* Two plans that differ in their version only, and another one, to which the   *)
(* task gives both its version and its criteria.                                *)
EXTENDS TaskService, TLC

CONSTANTS p, q
MCDrafts == {[content |-> p, version |-> 1, acceptance |-> TRUE],
             [content |-> p, version |-> 2, acceptance |-> TRUE],
             [content |-> q, version |-> 0, acceptance |-> FALSE]}
Symmetry == Permutations(Calls)
=============================================================================
