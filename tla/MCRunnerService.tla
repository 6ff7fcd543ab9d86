---------------------------- MODULE MCRunnerService ----------------------------
(* Small instances of RunnerService for TLC.  The plans: A patches one file    *)
(* twice and another in between, C none; D was tampered with.                  *)
EXTENDS RunnerService, TLC

CONSTANTS A, C, D, f, g

PlanOf == (A :> <<f, g, f>>) @@ (C :> <<>>) @@ (D :> <<g>>)

PlansACD == [r \in {A, C, D} |-> PlanOf[r]]
PlansC == [r \in {C} |-> PlanOf[r]]

Symmetry == Permutations(Calls)

=============================================================================
