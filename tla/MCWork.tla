-------------------------------- MODULE MCWork --------------------------------
(* TLC instances of WorkSystem. *)
EXTENDS WorkSystem, TLC

Limited(n) == [maxWorkspaces |-> n, maxUsers |-> n, maxFileAssets |-> n, maxStorageMb |-> n]
Plan(limits) == [present |-> TRUE, featured |-> TRUE, aiTier |-> TRUE, aiChatbot |-> "unset",
                 limits |-> limits]
Paying(limits) ==
  [subscription |-> [live |-> TRUE, price |-> 1, aiTierKey |-> FALSE], plan |-> Plan(limits)]
NotPaying == [subscription |-> NoSubscription, plan |-> NoPlan]

\* What there is at first, and the bounds: workspaces, tasks, notifications, sessions,
\* messages, and attachments of one request.
Scenario(operations, faults, plans, callers, assignees, statuses, start, bounds) ==
  [operations |-> operations, faults |-> faults, entitled |-> plans, callers |-> callers,
   assignees |-> assignees, statuses |-> statuses, workspaces |-> start[1], tasks |-> start[2],
   registered |-> start[3], maxWorkspaces |-> bounds[1], maxTasks |-> bounds[2],
   maxNotices |-> bounds[3], maxSessions |-> bounds[4], maxMessages |-> bounds[5],
   maxDocs |-> bounds[6]]

Attaching ==
  Scenario({"updateTask"}, {"failure"}, {NotPaying}, {1}, {Same}, {"same"},
           <<1, 2, {1, 2}>>, <<1, 2, 0, 0, 0, 2>>)
Detaching ==
  Scenario({"updateTask", "finalizeAsset", "detach", "deleteAsset", "cleanup"}, {"failure", "expiry"},
           {NotPaying}, {1}, {Same}, {"same"}, <<1, 1, {1}>>, <<1, 1, 0, 0, 0, 1>>)
Expiring ==
  Scenario({"createTask", "finalizeAsset", "cleanup"}, {"expiry", "crash"},
           {NotPaying}, {1}, {Nobody}, {"open"}, <<1, 1, {1}>>, <<1, 2, 0, 0, 0, 1>>)
Uploading ==
  Scenario({"createUploadSignature", "registerAsset", "upload"}, {"crash"},
           {NotPaying, Paying(Limited(2))}, {1}, {Same}, {"same"}, <<1, 1, {}>>,
           <<1, 1, 0, 0, 0, 0>>)
Assigning ==
  Scenario({"createTask", "updateTask", "deleteTask"}, {"failure"}, {NotPaying},
           {1}, {2, 3}, {"open"}, <<1, 0, {}>>, <<1, 1, 3, 0, 0, 0>>)
Completing ==
  Scenario({"updateTask", "deleteTask"}, {"crash"}, {NotPaying}, {1, 2}, {Same, 2},
           {"open", "DONE"}, <<1, 1, {}>>, <<1, 1, 1, 0, 0, 0>>)
Clearing ==
  Scenario({"createWorkspace", "deleteWorkspace", "createTask", "updateTask"}, {"billing"},
           {NotPaying, Paying(Limited(2))}, {1}, {Nobody}, {"open"}, <<1, 1, {}>>,
           <<2, 2, 0, 0, 0, 0>>)
Founding ==
  Scenario({"createWorkspace", "deleteWorkspace"}, {"billing"},
           {NotPaying, Paying(Limited(2))}, {1}, {}, {}, <<1, 0, {}>>, <<4, 0, 0, 0, 0, 0>>)
Watching ==
  Scenario({"subscribe", "myTasks"}, {}, {Paying(Limited(2))},
           {1}, {}, {}, <<2, 0, {}>>, <<2, 0, 0, 0, 0, 0>>)
Telling ==
  Scenario({"updateTask", "connect", "markRead"}, {}, {NotPaying}, {1}, {1, 2}, {"same"},
           <<1, 1, {}>>, <<1, 1, 2, 0, 0, 0>>)
Chatting ==
  Scenario({"createSession", "patchSession", "deleteSession", "sendMessage"},
           {"failure", "crash", "billing"}, {NotPaying, Paying(Limited(1))}, {1, 2}, {}, {},
           <<0, 0, {}>>, <<0, 0, 0, 1, 4, 0>>)

SeveralScenarios ==
  {Attaching, Detaching, Expiring, Uploading, Assigning, Completing, Clearing, Founding,
   Watching, Telling, Chatting}

OneTier == [maxWorkspaces |-> 1, maxUsers |-> 2, maxFileAssets |-> 1, maxStorageMb |-> 1]
RoleOfUser == <<"admin", "member", "operator">>
SocketOfUser == <<1, 2, 3>>

Interchangeable == Permutations(Requests)
===============================================================================
