----------------------------- MODULE MCSessions -----------------------------
(* The administrator and one user, one role, and a permission of the        *)
(* catalog that covers the one the route needs by its "*".                  *)
EXTENDS Sessions, TLC

CONSTANTS admin, member, secret, other, role, adminAll, adminUsers, manage

MCCovers == {<<adminAll, adminAll>>, <<adminUsers, adminUsers>>, <<adminAll, adminUsers>>}
MCNeeds == [r \in {manage} |-> adminUsers]
=============================================================================
