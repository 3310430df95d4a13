---------------------------- MODULE MCTeamRoles ----------------------------
(* The owner, and one other user whose id sorts first.                      *)
EXTENDS TeamRoles, TLC

CONSTANTS c1, c2, x1, x2, manager, r1, r2

MCPrincipal == (r1 :> 1) @@ (r2 :> 2)

Alike == Permutations({c1, c2}) \cup Permutations({x1, x2})
=============================================================================
