-------------------------------- MODULE MCAuth --------------------------------
(* TLC instances of AuthSystem. *)
EXTENDS AuthSystem, TLC

CONSTANT operator   \* the user that is a platform operator, if it is in Users

TenantOfMembers ==
  [u \in Users |-> IF u = operator THEN None ELSE CHOOSE k \in Tenants : TRUE]

Interchangeable == Permutations(Requests)
===============================================================================
