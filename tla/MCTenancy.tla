------------------------------- MODULE MCTenancy -------------------------------
(* TLC instances of TenancySystem. *)
EXTENDS TenancySystem, TLC

\* `deployments' tells whether MongoDB has transactions; then come the organizations there
\* are at first, and the bounds on organizations, users, addresses and invitation tokens.
Scenario(operations, faults, roles, deployments, plans, bounds) ==
  [plans |-> plans, operations |-> operations, faults |-> faults, roles |-> roles,
   deployments |-> deployments, tenants |-> bounds[1], organizations |-> bounds[2],
   users |-> bounds[3], addresses |-> bounds[4], tokens |-> bounds[5]]

Registering ==
  Scenario({"register", "verifyEmail"}, {"failure", "mail", "crash", "expiry"}, {"member"},
           BOOLEAN, {}, <<0, 2, 2, 2, 0>>)
Inviting ==
  Scenario({"inviteUser", "acceptInvite", "deleteUser"}, {"failure", "crash", "mail"},
           {"member"}, BOOLEAN, {}, <<1, 1, 3, 2, 2>>)
Promoting ==
  Scenario({"inviteUser", "acceptInvite", "updateUser"}, {"expiry"}, {"admin", "member"},
           BOOLEAN, {}, <<1, 1, 2, 2, 1>>)
Poaching ==
  Scenario({"inviteUser", "acceptInvite", "deleteUser"}, {}, {"member"},
           {FALSE}, {}, <<2, 2, 4, 3, 2>>)
Closing ==
  Scenario({"inviteUser", "register", "updateTenant", "softDeleteTenant",
            "updateCurrentTenant"}, {"crash"}, {"member"}, {TRUE}, {}, <<1, 2, 3, 2, 1>>)
Publishing ==
  Scenario({"create", "update", "archive"}, {"crash"}, {"member"}, {TRUE},
           [aiTier : BOOLEAN, aiChatbot : {"unset", "on"}, maxUsers : {1}],
           <<0, 0, 0, 0, 0>>)
Upgrading ==
  Scenario({"inviteUser", "create", "update"}, {"billing"}, {"member"}, {TRUE},
           [aiTier : {FALSE}, aiChatbot : {"unset"}, maxUsers : {1, 3}], <<1, 1, 3, 3, 2>>)

SeveralScenarios ==
  {Registering, Inviting, Promoting, Poaching, Closing, Publishing, Upgrading}

RepeatedAcceptance ==
  {Scenario({"inviteUser", "acceptInvite"}, {"failure"}, {"member"}, {FALSE}, {},
            <<1, 1, 2, 2, 1>>)}

OneTier == [maxWorkspaces |-> 1, maxUsers |-> 2, maxFileAssets |-> 1, maxStorageMb |-> 1]

Interchangeable == Permutations(Requests)
===============================================================================
