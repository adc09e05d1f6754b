----------------------------- MODULE WorkspaceTasks -----------------------------
(***************************************************************************)
(* WorkspaceService: workspaces, within the limit of the plan, and their   *)
(* tasks.  A task is created and updated inside a transaction that also    *)
(* finalizes its attachments; afterwards the assignee is notified and the  *)
(* boards and task lists that show the task are told to refetch.  The      *)
(* users of the tenant do not change.                                      *)
(***************************************************************************)
EXTENDS FileAssets

\* The rooms that show a task: its board and the task lists of assignees.
RoomsOf(w, assignees) == {boardRoom(w)} \cup {myTasksRoom(u) : u \in assignees \ {Nobody}}

\* A change that is announced later, by `heard', which may miss some of its rooms.
Shown(rooms, heard) ==
  /\ unsignalled' = unsignalled \cup rooms
  /\ silenced' = silenced \cup (rooms \ heard)
  /\ UNCHANGED sockets

(* Workspaces *)

countByTenantId == Cardinality({w \in DOMAIN workspaces : workspaces[w]})
Creating(op) == Cardinality({p \in Requests : Doing(p, op)})

CreateWorkspace(r, u) ==
  /\ ~isTenantMember(u)
  /\ Len(workspaces) + Creating("createWorkspace") < scenario.maxWorkspaces
  /\ Begin(r, [IdleRequest EXCEPT !.op = "createWorkspace", !.pc = "count"])
  /\ UNCHANGED <<taskVars, files, roomVars, notices, chatVars>>

CountWorkspaces(r) ==
  /\ At(r, "count") /\ Doing(r, "createWorkspace")
  /\ req' = [req EXCEPT ![r].pc = "limit", ![r].seen = countByTenantId]
  /\ UNCHANGED <<taskVars, files, roomVars, notices, chatVars>>

assertWithinWorkspaceLimit(r) ==
  /\ At(r, "limit") /\ Doing(r, "createWorkspace")
  /\ IF WithinLimit(Limits.maxWorkspaces, req[r].seen) THEN Goto(r, "insert") ELSE Finish(r)
  /\ UNCHANGED <<taskVars, files, roomVars, notices, chatVars>>

InsertWorkspace(r) ==
  /\ At(r, "insert") /\ Doing(r, "createWorkspace")
  /\ workspaces' = Append(workspaces, TRUE)
  /\ Finish(r)
  /\ UNCHANGED <<tasks, files, roomVars, notices, chatVars>>

DeleteWorkspace(r, u, w) ==
  /\ ~isTenantMember(u)
  /\ assertWorkspaceBelongsToTenant(w)
  /\ Begin(r, [IdleRequest EXCEPT !.op = "deleteWorkspace", !.pc = "cascade", !.workspace = w])
  /\ UNCHANGED <<taskVars, files, roomVars, notices, chatVars>>

TasksOf(w) == {t \in DOMAIN tasks : tasks[t].workspace = w /\ Live(t)}

\* Mutant: the tasks are left to themselves.
TasksForgotten(w) == tasks

softDeleteAllByWorkspace(w) ==
  [t \in DOMAIN tasks |-> IF t \in TasksOf(w) THEN [tasks[t] EXCEPT !.stage = "deleted"]
                          ELSE tasks[t]]

\* One transaction, which fails if the workspace is gone.  Nothing is published.
Cascade(r) ==
  /\ At(r, "cascade")
  /\ LET w == req[r].workspace
     IN  \/ /\ workspaces[w]
            /\ workspaces' = [workspaces EXCEPT ![w] = FALSE]
            /\ tasks' = softDeleteAllByWorkspace(w)
            /\ Shown(RoomsOf(w, {tasks[t].assignedTo : t \in TasksOf(w)}), {})
            /\ req' = Spoilt([req EXCEPT ![r] = IdleRequest], TasksOf(w))
         \/ /\ ~workspaces[w] \/ MayFail
            /\ Finish(r)
            /\ UNCHANGED <<taskVars, roomVars>>
  /\ UNCHANGED <<files, notices, chatVars>>

-----------------------------------------------------------------------------
\* The bound on notifications leaves room for those that requests under way may bring.
Assigns(a) == a \notin {Same, Nobody}
RoomToNotify(a) ==
  Assigns(a) =>
    Len(notices) + Cardinality({p \in Requests : Assigns(req[p].assignedTo)}) < scenario.maxNotices

(* createTask *)

CreateTask(r, u, w, a, status, docs) ==
  /\ ~isTenantMember(u)
  /\ assertWorkspaceBelongsToTenant(w)
  /\ Len(tasks) + Creating("createTask") < scenario.maxTasks /\ RoomToNotify(a)
  /\ Begin(r, [IdleRequest EXCEPT !.op = "createTask", !.pc = "draft", !.caller = u,
                 !.workspace = w, !.assignedTo = a, !.status = status, !.docs = docs])
  /\ UNCHANGED <<taskVars, files, roomVars, notices, chatVars>>

\* The transaction starts: what it finds later is what there is now.
DraftTask(r) ==
  /\ At(r, "draft")
  /\ tasks' = Append(tasks, NewTask(req[r].workspace, req[r].status, req[r].assignedTo))
  /\ req' = [req EXCEPT ![r].pc = "sweep", ![r].next = "find", ![r].task = Len(tasks) + 1,
                        ![r].found = findTemporary(req[r].docs)]
  /\ UNCHANGED <<workspaces, files, roomVars, notices, chatVars>>

\* The commit may fail, and then nothing names the files back.
CommitFails(r) ==
  /\ req[r].stale \/ MayFail
  /\ files' = Stray(files, req[r].done)
  /\ tasks' = Undrafted(r)
  /\ Finish(r)
  /\ UNCHANGED roomVars

Committed(r, told, was, now) ==
  /\ files' = Finalized(req[r].done, req[r].task)
  /\ Shown(RoomsOf(req[r].workspace, {was, now}), RoomsOf(req[r].workspace, {was, now}))
  /\ req' = Spoilt(
       [req EXCEPT ![r].pc = IF told = Nobody THEN "publish" ELSE "notify", ![r].tell = told,
                   ![r].was = was, ![r].assignedTo = now], {req[r].task})

CommitCreate(r) ==
  /\ At(r, "commit") /\ Doing(r, "createTask")
  /\ \/ /\ tasks' = [tasks EXCEPT ![req[r].task].stage = "live",
                                  ![req[r].task].attachments = req[r].done]
        /\ Committed(r, req[r].assignedTo, Nobody, req[r].assignedTo)
     \/ CommitFails(r)
  /\ UNCHANGED <<workspaces, notices, chatVars>>

-----------------------------------------------------------------------------
(* updateTask *)

isStatusTransitionAllowed(from, to) == to \in {from, "same"} \/ from # "DONE"

\* `keep' tells that the body has no list of links of its own.  Of such a list the model
\* keeps none.
UpdateTask(r, u, t, a, status, docs, keep) ==
  /\ isTenantMember(u) => a = Same /\ docs = {} /\ keep
  /\ RoomToNotify(a)
  /\ tasks[t].stage # "draft"
  /\ assertWorkspaceBelongsToTenant(tasks[t].workspace)
  /\ Begin(r, [IdleRequest EXCEPT !.op = "updateTask", !.pc = "read", !.caller = u,
                 !.workspace = tasks[t].workspace, !.task = t, !.assignedTo = a,
                 !.status = status, !.docs = docs, !.keep = keep])
  /\ UNCHANGED <<taskVars, files, roomVars, notices, chatVars>>

\* The transaction starts.
ReadTask(r) ==
  /\ At(r, "read") /\ Doing(r, "updateTask")
  /\ LET t == req[r].task
     IN  IF /\ Live(t)
            /\ isTenantMember(req[r].caller) => tasks[t].assignedTo = req[r].caller
            /\ isStatusTransitionAllowed(tasks[t].status, req[r].status)
         THEN req' = [req EXCEPT ![r].pc = "sweep", ![r].next = "find",
                        ![r].was = tasks[t].assignedTo, ![r].found = findTemporary(req[r].docs)]
         ELSE Finish(r)
  /\ UNCHANGED <<taskVars, files, roomVars, notices, chatVars>>

\* Mutant: a status the body does not have is written too.
PatchedWhole(r) ==
  LET t == tasks[req[r].task]
  IN  [t EXCEPT !.status = req[r].status,
                !.assignedTo = IF req[r].assignedTo = Same THEN @ ELSE req[r].assignedTo,
                !.attachments = (IF req[r].keep THEN @ ELSE {}) \cup req[r].done]

\* The patch has the fields of the body only.
Patched(r) ==
  LET t == tasks[req[r].task]
  IN  [t EXCEPT !.status = IF req[r].status = "same" THEN @ ELSE req[r].status,
                !.assignedTo = IF req[r].assignedTo = Same THEN @ ELSE req[r].assignedTo,
                !.attachments = (IF req[r].keep THEN @ ELSE {}) \cup req[r].done]

\* Mutant: only a task that had nobody tells whom it is assigned to.
ToldOnce(r, now) == IF req[r].was = Nobody THEN now ELSE Nobody

\* The event of an assignment, when the body assigns and it is to somebody else.
ToldOfUpdate(r, now) == IF now # req[r].was THEN now ELSE Nobody

\* Mutant: the update is written over what another wrote since the read.
NoConflict(r) == TRUE

Unchanged(r) == ~req[r].stale

CommitUpdate(r) ==
  /\ At(r, "commit") /\ Doing(r, "updateTask")
  /\ \/ /\ Unchanged(r)
        /\ tasks' = [tasks EXCEPT ![req[r].task] = Patched(r)]
        /\ Committed(r, ToldOfUpdate(r, Patched(r).assignedTo), req[r].was,
                     Patched(r).assignedTo)
     \/ CommitFails(r)
  /\ UNCHANGED <<workspaces, notices, chatVars>>

-----------------------------------------------------------------------------
(* deleteTask: it reads, and deletes whatever the task is by then. *)

DeleteTask(r, u, t) ==
  /\ ~isTenantMember(u)
  /\ tasks[t].stage # "draft"
  /\ assertWorkspaceBelongsToTenant(tasks[t].workspace)
  /\ Begin(r, [IdleRequest EXCEPT !.op = "deleteTask", !.pc = "read", !.task = t,
                                  !.workspace = tasks[t].workspace])
  /\ UNCHANGED <<taskVars, files, roomVars, notices, chatVars>>

FindTask(r) ==
  /\ At(r, "read") /\ Doing(r, "deleteTask")
  /\ LET t == req[r].task
     IN  IF Live(t) /\ tasks[t].status # "DONE"
         THEN req' = [req EXCEPT ![r].pc = "delete", ![r].was = tasks[t].assignedTo]
         ELSE Finish(r)
  /\ UNCHANGED <<taskVars, files, roomVars, notices, chatVars>>

softDeleteByIdAndWorkspace(r) ==
  /\ At(r, "delete")
  /\ LET t == req[r].task
         w == req[r].workspace
     IN  IF Live(t)
         THEN /\ tasks' = [tasks EXCEPT ![t].stage = "deleted"]
              /\ Shown(RoomsOf(w, {tasks[t].assignedTo}), RoomsOf(w, {req[r].was}))
              /\ req' = Spoilt([req EXCEPT ![r].pc = "publish"], {t})
         ELSE Finish(r) /\ UNCHANGED <<tasks, roomVars>>
  /\ UNCHANGED <<workspaces, files, notices, chatVars>>

-----------------------------------------------------------------------------
\* Mutant: who had the task is not told.
RoomsOfAssignee(r) == RoomsOf(req[r].workspace, {req[r].assignedTo})

\* publishTasksChanged and publishMemberMyTasksInboxRefresh, with the answer.
PublishRooms(r) == RoomsOf(req[r].workspace, {req[r].was, req[r].assignedTo})

Publish(r) ==
  /\ At(r, "publish")
  /\ unsignalled' = unsignalled \ PublishRooms(r)
  /\ Finish(r)
  /\ UNCHANGED <<taskVars, files, sockets, silenced, notices, chatVars>>

TaskStep(r) ==
  \/ CountWorkspaces(r) \/ assertWithinWorkspaceLimit(r) \/ InsertWorkspace(r) \/ Cascade(r)
  \/ DraftTask(r) \/ CommitCreate(r) \/ ReadTask(r) \/ CommitUpdate(r)
  \/ FindTask(r) \/ softDeleteByIdAndWorkspace(r) \/ Publish(r)
===============================================================================
