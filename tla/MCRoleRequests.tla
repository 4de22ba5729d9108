--------------------------- MODULE MCRoleRequests ---------------------------
(* One member, one reviewer, two roles.                                      *)
EXTENDS RoleRequests, TLC

CONSTANTS m1, v1, ra, rb, w1, w2, d1, d2

Interchangeable == Permutations(Replicas) \union Permutations(Deciders) \union Permutations(Roles)
=============================================================================
