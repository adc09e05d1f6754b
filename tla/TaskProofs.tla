------------------------------- MODULE TaskProofs -------------------------------
(***************************************************************************)
(* What is proved of workspaces, tasks and files, on top of the types and  *)
(* of the lemmas on requests of WorkProofs: what an open transaction knows *)
(* of its task, how many tasks a deleted workspace leaves behind, and who  *)
(* has a file in hand under which name.                                    *)
(***************************************************************************)
EXTENDS WorkProofs

Step(r) ==
  \/ Arrival(r) \/ FileStep(r) \/ TaskStep(r) \/ Join(r) \/ NotifyAssignee(r) \/ ChatStep(r)
  \/ Crash(r)

\* A request that has a task which nobody else sees yet.
Drafting(q) == Open(q) /\ q.op = "createTask"

(* What a step of a request makes of a task. *)

Abandons(r, t) ==
  /\ Drafting(req[r]) /\ t = req[r].task /\ tasks'[t] = [tasks[t] EXCEPT !.stage = "aborted"]
  /\ req'[r] = IdleRequest
Creates(r, t) ==
  /\ CommitCreate(r) /\ Drafting(req[r]) /\ req[r].pc = "commit" /\ t = req[r].task
  /\ tasks'[t] = [tasks[t] EXCEPT !.stage = "live", !.attachments = req[r].done]
  /\ Committed(r, req[r].assignedTo, Nobody, req[r].assignedTo)
Updates(r, t) ==
  /\ Open(req[r]) /\ req[r].op = "updateTask" /\ req[r].pc = "commit" /\ ~req[r].stale
  /\ t = req[r].task /\ tasks'[t] = Patched(r)
  /\ Committed(r, ToldOfUpdate(r, Patched(r).assignedTo), req[r].was, Patched(r).assignedTo)
Deletes(r, t) ==
  /\ Live(t) /\ tasks'[t] = [tasks[t] EXCEPT !.stage = "deleted"]
  /\ \A p \in Requests \ {r} :
       Open(req[p]) /\ req[p].op = "updateTask" /\ req[p].task = t => SpoiltBy(p)
Misses(r, t) ==
  /\ req[r].pc = "notify" /\ t = req[r].task
  /\ tasks'[t] = [tasks[t] EXCEPT !.untold = @ \cup {req[r].tell}]
Changes(r, t) ==
  \/ tasks'[t] = tasks[t]
  \/ Abandons(r, t) \/ Creates(r, t) \/ Updates(r, t) \/ Deletes(r, t) \/ Misses(r, t)

\* No task goes, and a new one is a draft.
Drafts(r) ==
  /\ DraftTask(r)
  /\ DOMAIN tasks' = 1 .. Len(tasks) + 1 /\ \A t \in DOMAIN tasks : tasks'[t] = tasks[t]
  /\ tasks'[Len(tasks) + 1] = NewTask(req[r].workspace, req[r].status, req[r].assignedTo)

TasksChange(r) ==
  \/ Drafts(r)
  \/ ~DraftTask(r) /\ DOMAIN tasks' = DOMAIN tasks /\ \A t \in DOMAIN tasks : Changes(r, t)

LEMMA OpenNamesTask ==
  ASSUME TypeInv, NEW r \in Requests, Open(req[r])
  PROVE  req[r].task \in DOMAIN tasks /\ req[r].next = "find"
<1>1. req[r].next = "find"
  BY ReqFacts DEF Open, RequestFits, NextFits, Sweeping, Finalizing
<1> QED BY <1>1, ReqFacts, RowFacts DEF RequestFits, NamesFit, Lengths

LEMMA DraftKeepsTasks == ASSUME TypeInv, NEW r \in Requests, DraftTask(r) PROVE Drafts(r)
<1> DEFINE e == NewTask(req[r].workspace, req[r].status, req[r].assignedTo)
<1>1. req[r] \in Request /\ RequestFits(req[r], Lengths) /\ req[r].op = "createTask"
  BY ReqFacts DEF DraftTask, At, RequestFits, PcFits, Sweeping, Finalizing, Announcing, ChatPcs
<1>2. e \in Task
  BY <1>1 DEF RequestFits, Request, NewTask, Task
<1>3. tasks' = Append(tasks, e)
  BY DEF DraftTask
<1> HIDE DEF e
<1>4. /\ DOMAIN tasks' = 1 .. Len(tasks) + 1 /\ \A t \in DOMAIN tasks : tasks'[t] = tasks[t]
      /\ tasks'[Len(tasks) + 1] = e
  BY <1>2, <1>3, TaskFacts, SeqAdd
<1> QED BY <1>4 DEF Drafts, e

LEMMA UndraftChanges ==
  ASSUME TypeInv, NEW r \in Requests, tasks' = Undrafted(r), Finish(r)
  PROVE  DOMAIN tasks' = DOMAIN tasks /\ \A t \in DOMAIN tasks : Changes(r, t)
<1>1. CASE Doing(r, "createTask") /\ InTransaction(r)
  <2>1. tasks' = [tasks EXCEPT ![req[r].task].stage = "aborted"] /\ Drafting(req[r])
    BY <1>1 DEF Undrafted, Drafting, InTransaction, Doing
  <2>2. req'[r] = IdleRequest
    BY ReqFacts DEF Finish
  <2> QED BY <2>1, <2>2 DEF Changes, Abandons
<1>2. CASE ~(Doing(r, "createTask") /\ InTransaction(r))
  BY <1>2 DEF Undrafted, Changes
<1> QED BY <1>1, <1>2

LEMMA MissedChanges ==
  ASSUME TypeInv, NEW r \in Requests, req[r].pc = "notify",
         tasks' = [tasks EXCEPT ![req[r].task].untold = @ \cup {req[r].tell}]
  PROVE  DOMAIN tasks' = DOMAIN tasks /\ \A t \in DOMAIN tasks : Changes(r, t)
BY DEF Changes, Misses

LEMMA CommitChanges ==
  ASSUME TypeInv, NEW r \in Requests, CommitCreate(r) \/ CommitUpdate(r)
  PROVE  DOMAIN tasks' = DOMAIN tasks /\ \A t \in DOMAIN tasks : Changes(r, t)
<1>1. CASE CommitFails(r)
  BY <1>1, UndraftChanges DEF CommitFails
<1>2. CASE CommitCreate(r) /\ ~CommitFails(r)
  <2>1. /\ Drafting(req[r]) /\ req[r].pc = "commit"
        /\ tasks' = [tasks EXCEPT ![req[r].task].stage = "live",
                                  ![req[r].task].attachments = req[r].done]
        /\ Committed(r, req[r].assignedTo, Nobody, req[r].assignedTo)
    BY <1>2 DEF CommitCreate, Drafting, Open, At, Doing
  <2>2. req[r].task \in DOMAIN tasks
    BY <2>1, OpenNamesTask DEF Drafting
  <2>3. \A t \in DOMAIN tasks : tasks'[t] = tasks[t] \/ Creates(r, t)
    BY <1>2, <2>1, <2>2 DEF Creates
  <2> QED BY <2>1, <2>3 DEF Changes
<1>3. CASE CommitUpdate(r) /\ ~CommitFails(r)
  <2>1. /\ Open(req[r]) /\ req[r].op = "updateTask" /\ req[r].pc = "commit" /\ ~req[r].stale
        /\ tasks' = [tasks EXCEPT ![req[r].task] = Patched(r)]
        /\ Committed(r, ToldOfUpdate(r, Patched(r).assignedTo), req[r].was, Patched(r).assignedTo)
    BY <1>3 DEF CommitUpdate, Open, At, Doing, Unchanged
  <2> QED BY <2>1 DEF Changes, Updates
<1> QED BY <1>1, <1>2, <1>3

LEMMA CascadeChanges ==
  ASSUME TypeInv, NEW r \in Requests, Cascade(r)
  PROVE  DOMAIN tasks' = DOMAIN tasks /\ \A t \in DOMAIN tasks : Changes(r, t)
<1> DEFINE S == TasksOf(req[r].workspace)
<1>1. CASE tasks' = tasks
  BY <1>1 DEF Changes
<1>2. CASE tasks' # tasks
  <2>1. tasks' = softDeleteAllByWorkspace(req[r].workspace)
        /\ req' = Spoilt([req EXCEPT ![r] = IdleRequest], S)
    BY <1>2 DEF Cascade, taskVars
  <2>2. S \subseteq DOMAIN tasks /\ \A t \in S : Live(t)
    BY DEF TasksOf
  <2>3. /\ DOMAIN tasks' = DOMAIN tasks
        /\ \A t \in DOMAIN tasks :
             tasks'[t] = IF t \in S THEN [tasks[t] EXCEPT !.stage = "deleted"] ELSE tasks[t]
    BY <2>1 DEF softDeleteAllByWorkspace
  <2> HIDE DEF S
  <2>4. IdleRequest \in Request /\ ~Open(IdleRequest)
    BY IdleFits DEF Open, IdleRequest
  <2>5. \A p \in Requests \ {r} :
          Open(req[p]) /\ req[p].op = "updateTask" /\ req[p].task \in S => SpoiltBy(p)
    BY <2>1, <2>4, SpoiltMoves
  <2> QED BY <2>2, <2>3, <2>5 DEF Changes, Deletes
<1> QED BY <1>1, <1>2

LEMMA DeleteChanges ==
  ASSUME TypeInv, NEW r \in Requests, softDeleteByIdAndWorkspace(r)
  PROVE  DOMAIN tasks' = DOMAIN tasks /\ \A t \in DOMAIN tasks : Changes(r, t)
<1> DEFINE n == req[r].task
           q == [req[r] EXCEPT !.pc = "publish"]
<1>1. CASE tasks' = tasks
  BY <1>1 DEF Changes
<1>2. CASE tasks' # tasks
  <2>1. /\ Live(n) /\ tasks' = [tasks EXCEPT ![n].stage = "deleted"]
        /\ req' = Spoilt([req EXCEPT ![r].pc = "publish"], {n})
    BY <1>2 DEF softDeleteByIdAndWorkspace
  <2>2. q \in Request /\ q.pc = "publish"
    <3>1. req[r] \in Request /\ "publish" \in Pcs
      BY ReqFacts DEF Pcs
    <3>2. q.pc = "publish"
      BY <3>1 DEF Request
    <3> QED BY <3>1, <3>2, GoType
  <2>3. req' = Spoilt([req EXCEPT ![r] = q], {n})
    BY <2>1
  <2> HIDE DEF q
  <2>4. \A p \in Requests \ {r} :
          Open(req[p]) /\ req[p].op = "updateTask" /\ req[p].task \in {n} => SpoiltBy(p)
    BY <2>2, <2>3, SpoiltMoves DEF Open
  <2>5. \A t \in DOMAIN tasks : t # n => tasks'[t] = tasks[t]
    BY <2>1
  <2>6. tasks'[n] = [tasks[n] EXCEPT !.stage = "deleted"] /\ DOMAIN tasks' = DOMAIN tasks
    BY <2>1 DEF Live
  <2> QED BY <2>1, <2>4, <2>5, <2>6 DEF Changes, Deletes
<1> QED BY <1>1, <1>2

LEMMA StepChangesTasks == ASSUME TypeInv, NEW r \in Requests, Step(r) PROVE TasksChange(r)
<1>1. CASE DraftTask(r)
  BY <1>1, DraftKeepsTasks DEF TasksChange
<1>2. CASE tasks' = tasks /\ ~DraftTask(r)
  BY <1>2 DEF TasksChange, Changes
<1>3. CASE FileStep(r) /\ ~DraftTask(r)
  <2>1. CASE Abort(r)
    BY <1>3, <2>1, UndraftChanges DEF Abort, TasksChange
  <2> QED BY <1>2, <1>3, <2>1, FileStepLeaves
<1>4. CASE TaskStep(r) /\ ~DraftTask(r)
  <2>1. \/ tasks' = tasks \/ Cascade(r) \/ CommitCreate(r) \/ CommitUpdate(r)
        \/ softDeleteByIdAndWorkspace(r)
    BY <1>4 DEF TaskStep, CountWorkspaces, assertWithinWorkspaceLimit, InsertWorkspace, ReadTask,
       FindTask, Publish, taskVars
  <2> QED BY <1>2, <1>4, <2>1, CascadeChanges, CommitChanges, DeleteChanges DEF TasksChange
<1>5. CASE NotifyAssignee(r) /\ ~DraftTask(r)
  <2>1. tasks' = tasks \/ (/\ req[r].pc = "notify"
                           /\ tasks' = [tasks EXCEPT ![req[r].task].untold = @ \cup {req[r].tell}])
    BY <1>5 DEF NotifyAssignee, At
  <2> QED BY <1>2, <1>5, <2>1, MissedChanges DEF TasksChange
<1>6. CASE Crash(r) /\ ~DraftTask(r)
  <2>1. \/ tasks' = Undrafted(r) /\ Finish(r)
        \/ /\ req[r].pc = "notify"
           /\ tasks' = [tasks EXCEPT ![req[r].task].untold = @ \cup {req[r].tell}]
    BY <1>6 DEF Crash, At
  <2> QED BY <1>6, <2>1, UndraftChanges, MissedChanges DEF TasksChange
<1>7. Arrival(r) \/ Join(r) \/ ChatStep(r) => tasks' = tasks
  BY ArrivalIsPure, ChatStepLeaves, OthersLeave DEF Pure, taskVars
<1> QED BY <1>1, <1>2, <1>3, <1>4, <1>5, <1>6, <1>7 DEF Step

-----------------------------------------------------------------------------
(* What an open transaction knows of its task. *)

TaskHeld(q) ==
  /\ Open(q) /\ q.op = "updateTask" /\ ~q.stale =>
       /\ Live(q.task) /\ q.was = tasks[q.task].assignedTo
       /\ isStatusTransitionAllowed(tasks[q.task].status, q.status)
  /\ Open(q) /\ q.op = "createTask" =>
       /\ tasks[q.task].stage = "draft" /\ tasks[q.task].workspace = q.workspace
       /\ tasks[q.task].assignedTo = q.assignedTo

TaskInv ==
  /\ \A r \in Requests : TaskHeld(req[r])
  /\ \A p, r \in Requests :
       p # r /\ Drafting(req[p]) /\ Drafting(req[r]) => req[p].task # req[r].task

\* What a transaction is known by does not change before it ends.
SameTask(p, q) ==
  /\ q.op = p.op /\ q.task = p.task /\ q.workspace = p.workspace /\ q.was = p.was
  /\ q.status = p.status /\ q.assignedTo = p.assignedTo /\ q.stale = p.stale

LEMMA FileStepGoesOn ==
  ASSUME TypeInv, NEW r \in Requests, FileStep(r), ~Finish(r) PROVE SameTask(req[r], req'[r])
<1>1. req \in [Requests -> Request] /\ req[r] \in Request
  BY ReqFacts
<1>2. ~Finish(r)
  OBVIOUS
<1>3. SameTask(req[r], req'[r])
  <2>1. \A pc : Goto(r, pc) => SameTask(req[r], req'[r])
    BY <1>1 DEF Goto, SameTask, Request
  <2>2. CASE Sweep(r)
    BY <1>1, <1>2, <2>1, <2>2 DEF Sweep, Onward, SameTask, Request
  <2>3. CASE SweepDestroy(r)
    <3>1. CASE \E d \in req[r].batch :
                 req' = [req EXCEPT ![r].pc = "unlist", ![r].doc = d, ![r].batch = @ \ {d}]
      BY <1>1, <3>1 DEF SameTask, Request
    <3>2. CASE \E d \in req[r].batch : req' = [req EXCEPT ![r].batch = @ \ {d}]
      BY <1>1, <3>2 DEF SameTask, Request
    <3> QED BY <1>2, <2>1, <2>3, <3>1, <3>2 DEF SweepDestroy, Onward
  <2>4. CASE CountFiles(r)
    BY <1>1, <2>4 DEF CountFiles, SameTask, Request
  <2>5. CASE UploadBuffer(r)
    BY <1>1, <2>5 DEF UploadBuffer, SameTask, Request
  <2>6. CASE SumFinalizedBytes(r)
    BY <1>1, <2>6 DEF SumFinalizedBytes, SameTask, Request
  <2>7. CASE CreateAsset(r)
    <3>1. req' = [req EXCEPT ![r].pc = "sweep", ![r].next = "find"]
      BY <1>2, <2>7 DEF CreateAsset
    <3> QED BY <1>1, <3>1 DEF SameTask, Request
  <2>8. req' = RollbackRenamed(r) => SameTask(req[r], req'[r])
    BY <1>1 DEF RollbackRenamed, SameTask, Request
  <2>9. CASE FindTemporaryAssets(r)
    BY <1>2, <2>1, <2>9 DEF FindTemporaryAssets, Abort
  <2>10. CASE RenameAsset(r)
    <3>1. CASE \E d : req' = [req EXCEPT ![r].pc = "finalize", ![r].doc = d]
      BY <1>1, <3>1 DEF SameTask, Request
    <3> QED BY <2>8, <2>10, <3>1 DEF RenameAsset, RenameRefused
  <2>11. CASE FinalizeRow(r)
    <3> DEFINE d == req[r].doc
               pc == IF req[r].docs = req[r].done \cup {d} THEN "commit" ELSE "rename"
    <3>1. CASE req' = [req EXCEPT ![r].done = @ \cup {d}, ![r].pc = pc]
      <4> HIDE DEF d, pc
      <4> QED BY <1>1, <3>1 DEF SameTask, Request
    <3> QED BY <1>2, <2>8, <2>11, <3>1 DEF FinalizeRow, FinalizeInTransaction, FinalizeAlone
  <2>12. CASE Rollback(r)
    <3>1. \E d \in req[r].batch : req' = [req EXCEPT ![r].batch = @ \ {d}]
      BY <1>2, <2>12 DEF Rollback, Abort
    <3> QED BY <1>1, <3>1 DEF SameTask, Request
  <2> QED BY <1>2, <2>1, <2>2, <2>3, <2>4, <2>5, <2>6, <2>7, <2>9, <2>10, <2>11, <2>12
          DEF FileStep, SweepUnlist, Sign, FindExisting, DestroyAsset, UnlistAsset
<1> QED BY <1>3

LEMMA FileStepTransaction ==
  ASSUME TypeInv, NEW r \in Requests, FileStep(r), Open(req'[r])
  PROVE  Open(req[r]) /\ SameTask(req[r], req'[r])
<1>1. req \in [Requests -> Request] /\ req[r] \in Request
  BY ReqFacts
<1>2. ~Finish(r)
  BY <1>1 DEF Finish, IdleRequest, Open
<1>3. SameTask(req[r], req'[r])
  BY <1>2, FileStepGoesOn
<1>4. req[r].op \in {"createTask", "updateTask"}
  BY <1>3 DEF SameTask, Open
<1>5. req[r].pc \notin {"draft", "read", "notify", "publish", "commit"}
  BY DEF FileStep, At, Sweep, SweepDestroy, SweepUnlist, CountFiles, Sign, UploadBuffer,
     FindExisting, SumFinalizedBytes, CreateAsset, FindTemporaryAssets, RenameAsset, FinalizeRow,
     Rollback, DestroyAsset, UnlistAsset
<1>6. Open(req[r])
  BY <1>4, <1>5, ReqFacts DEF RequestFits, PcFits, Finalizing, Sweeping, Announcing, Open
<1> QED BY <1>3, <1>6

\* No transaction is under way after these steps.
LEMMA NoTransactionAfter ==
  ASSUME TypeInv, NEW r \in Requests,
         \/ Cascade(r) \/ softDeleteByIdAndWorkspace(r) \/ Publish(r) \/ CountWorkspaces(r)
         \/ assertWithinWorkspaceLimit(r) \/ InsertWorkspace(r) \/ FindTask(r) \/ Join(r)
         \/ NotifyAssignee(r) \/ ChatStep(r) \/ Crash(r)
  PROVE  ~Open(req'[r])
<1>1. req \in [Requests -> Request] /\ req[r] \in Request
  BY ReqFacts
<1>2. Finish(r) => ~Open(req'[r])
  BY <1>1 DEF Finish, IdleRequest, Open
<1>3. \A pc \in {"insert", "publish", "session", "history", "answer"} :
        Goto(r, pc) => ~Open(req'[r])
  BY <1>1 DEF Goto, Open, Request
<1>4. CASE Cascade(r)
  <2>1. IdleRequest \in Request /\ ~Open(IdleRequest)
    BY IdleFits DEF IdleRequest, Open
  <2> QED BY <1>2, <1>4, <2>1, SpoiltMoves DEF Cascade, Moves
<1>5. CASE softDeleteByIdAndWorkspace(r) /\ ~Finish(r)
  <2> DEFINE q == [req[r] EXCEPT !.pc = "publish"]
  <2>1. q \in Request /\ q.pc = "publish"
    <3>1. "publish" \in Pcs /\ q.pc = "publish"
      BY <1>1 DEF Pcs, Request
    <3> QED BY <1>1, <3>1, GoType
  <2>2. req' = Spoilt([req EXCEPT ![r] = q], {req[r].task})
    BY <1>5 DEF softDeleteByIdAndWorkspace
  <2> HIDE DEF q
  <2> QED BY <2>1, <2>2, SpoiltMoves DEF Moves, Open
<1>6. CASE CountWorkspaces(r) \/ (FindTask(r) /\ ~Finish(r))
  <2>1. CASE CountWorkspaces(r)
    BY <1>1, <2>1 DEF CountWorkspaces, Open, Request
  <2>2. CASE FindTask(r) /\ ~Finish(r)
    BY <1>1, <2>2 DEF FindTask, Open, Request
  <2> QED BY <1>6, <2>1, <2>2
<1>7. CASE ChatStep(r) /\ ~Finish(r)
  <2>1. CASE FindSession(r)
    BY <1>1, <1>7, <2>1 DEF FindSession, Open, Request
  <2>2. CASE StoreQuestion(r)
    BY <1>1, <2>2 DEF StoreQuestion, Open, Request
  <2>3. CASE ListHistory(r)
    BY <1>1, <2>3 DEF ListHistory, Open, Request
  <2>4. CASE Complete(r)
    <3>1. Goto(r, "answer") \/ (req[r].pc = "complete" /\ req' = [req EXCEPT ![r].seen = @ + 1])
      BY <1>7, <2>4 DEF Complete, At
    <3> QED BY <1>1, <1>3, <3>1 DEF Open, Request
  <2> QED BY <1>3, <1>7, <2>1, <2>2, <2>3, <2>4
          DEF ChatStep, DeleteMessages, deleteForTenantUser, TitleByContent, StoreAnswer
<1> QED BY <1>2, <1>3, <1>4, <1>5, <1>6, <1>7
        DEF assertWithinWorkspaceLimit, InsertWorkspace, Publish, Join, NotifyAssignee, Crash

\* A transaction is under way after the step of a request only when it was before, or when
\* the step started it.
LEMMA OpenAfter ==
  ASSUME TypeInv, NEW r \in Requests, Step(r), Open(req'[r])
  PROVE  \/ FileStep(r) /\ tasks' = tasks /\ Open(req[r]) /\ SameTask(req[r], req'[r])
         \/ DraftTask(r) \/ ReadTask(r)
<1>1. ~Finish(r) /\ ~Arrival(r)
  BY ArrivalRequests, ReqFacts DEF Finish, IdleRequest, Begun, Starting, Open
<1>2. CASE FileStep(r)
  BY <1>1, <1>2, FileStepTransaction, FileStepLeaves DEF Abort
<1>3. CASE TaskStep(r)
  <2>1. ~CommitCreate(r) /\ ~CommitUpdate(r)
    <3>1. ASSUME CommitCreate(r) \/ CommitUpdate(r) PROVE FALSE
      <4>1. PICK told \in Users \cup {Nobody}, was \in Users \cup {Nobody},
                 now \in Users \cup {Nobody} : Committed(r, told, was, now)
        BY <1>1, <3>1, CommitKinds DEF CommitFails
      <4>2. req[r].pc = "commit"
        BY <3>1, CommitKinds
      <4> DEFINE q == AfterCommit(r, told, was, now)
      <4>3. ~Open(q) /\ Moves(r, q)
        BY <4>1, <4>2, CommitMoves
      <4> HIDE DEF q
      <4> QED BY <4>3 DEF Moves
    <3> QED BY <3>1
  <2>2. ~softDeleteByIdAndWorkspace(r) /\ ~Cascade(r) /\ ~Publish(r)
    BY <1>1, NoTransactionAfter
  <2>3. ~CountWorkspaces(r) /\ ~assertWithinWorkspaceLimit(r) /\ ~InsertWorkspace(r) /\ ~FindTask(r)
    BY <1>1, NoTransactionAfter
  <2> QED BY <1>3, <2>1, <2>2, <2>3 DEF TaskStep
<1>4. ~Join(r) /\ ~NotifyAssignee(r) /\ ~ChatStep(r) /\ ~Crash(r)
  BY <1>1, NoTransactionAfter
<1> QED BY <1>1, <1>2, <1>3, <1>4 DEF Step

\* What leaves the status and the assignee of a task as they are.
SameRow(t) ==
  /\ tasks'[t].stage = tasks[t].stage /\ tasks'[t].status = tasks[t].status
  /\ tasks'[t].assignedTo = tasks[t].assignedTo /\ tasks'[t].workspace = tasks[t].workspace
  /\ tasks'[t].attachments = tasks[t].attachments /\ tasks[t].untold \subseteq tasks'[t].untold

LEMMA MissedSameRow ==
  ASSUME TypeInv, NEW r \in Requests, NEW t \in DOMAIN tasks, tasks'[t] = tasks[t] \/ Misses(r, t)
  PROVE  SameRow(t)
<1>1. tasks[t] \in Task
  BY RowFacts
<1> QED BY <1>1 DEF Misses, SameRow, Task

LEMMA UpdateSpoils ==
  ASSUME TypeInv, NEW r \in Requests, NEW t \in DOMAIN tasks, Updates(r, t),
         NEW p \in Requests \ {r}, Open(req[p]), req[p].op = "updateTask", req[p].task = t
  PROVE  SpoiltBy(p)
<1> DEFINE now == Patched(r).assignedTo
           told == ToldOfUpdate(r, now)
<1>1. req[r].pc = "commit" /\ req[r].task = t /\ Committed(r, told, req[r].was, now)
  BY DEF Updates
<1>2. req[r].was \in Users \cup {Nobody} /\ now \in Users \cup {Nobody}
  BY <1>1, PatchedType, ReqFacts DEF Request, Task
<1>3. told \in Users \cup {Nobody}
  BY <1>2 DEF ToldOfUpdate
<1> HIDE DEF now, told
<1> QED BY <1>1, <1>2, <1>3, CommitMoves

\* Nobody else changes the task of an open transaction without spoiling it.
LEMMA OthersKeepTask ==
  ASSUME TypeInv, TaskInv, NEW r \in Requests, TasksChange(r), NEW p \in Requests \ {r},
         Open(req[p]), req[p].op = "updateTask" => ~req[p].stale, req'[p] = req[p]
  PROVE  req[p].task \in DOMAIN tasks' /\ SameRow(req[p].task)
<1> DEFINE t == req[p].task
<1>1. t \in DOMAIN tasks /\ DOMAIN tasks \subseteq DOMAIN tasks'
  <2>1. t \in DOMAIN tasks
    BY OpenNamesTask
  <2> QED BY <2>1, RowFacts DEF TasksChange, Drafts
<1>2. ~SpoiltBy(p)
  <2>1. req[p].stale \in BOOLEAN /\ req[p] \in Request
    BY ReqFacts DEF Request
  <2> QED BY <2>1 DEF SpoiltBy, Request
<1>3. Open(req[p]) => req[p].op \in {"createTask", "updateTask"}
  BY DEF Open
<1>4. ~Abandons(r, t) /\ ~Creates(r, t)
  BY <1>3 DEF TaskInv, TaskHeld, Abandons, Creates, Drafting, Live
<1>5. ~Updates(r, t)
  <2>1. CASE req[p].op = "updateTask"
    BY <1>1, <1>2, <2>1, UpdateSpoils
  <2>2. CASE req[p].op = "createTask"
    BY <2>2 DEF TaskInv, TaskHeld, Updates, Live
  <2> QED BY <1>3, <2>1, <2>2
<1>6. ~Deletes(r, t)
  BY <1>2, <1>3 DEF TaskInv, TaskHeld, Deletes, Live
<1>7. tasks'[t] = tasks[t] \/ Misses(r, t)
  BY <1>1, <1>4, <1>5, <1>6 DEF TasksChange, Drafts, Changes
<1> QED BY <1>1, <1>7, MissedSameRow

LEMMA TaskHeldLater ==
  ASSUME TypeInv, TaskInv, NEW r \in Requests, TasksChange(r), ElsewhereSpoilt(r),
         NEW p \in Requests \ {r}
  PROVE  TaskHeld(req[p])'
<1>1. CASE SpoiltBy(p)
  <2>1. req'[p].stale = TRUE /\ req'[p].op = "updateTask"
    BY <1>1, ReqFacts DEF SpoiltBy, Request
  <2> QED BY <2>1 DEF TaskHeld
<1>2. CASE req'[p] = req[p] /\ Open(req[p]) /\ (req[p].op = "updateTask" => ~req[p].stale)
  <2>1. req[p].task \in DOMAIN tasks' /\ SameRow(req[p].task) /\ TaskHeld(req[p])
    BY <1>2, OthersKeepTask DEF TaskInv
  <2> QED BY <1>2, <2>1 DEF TaskHeld, SameRow, Live
<1>3. CASE req'[p] = req[p] /\ ~(Open(req[p]) /\ (req[p].op = "updateTask" => ~req[p].stale))
  BY <1>3 DEF TaskHeld, Open
<1> QED BY <1>1, <1>2, <1>3 DEF ElsewhereSpoilt

LEMMA DraftedRequest ==
  ASSUME TypeInv, NEW r \in Requests, DraftTask(r)
  PROVE  /\ req'[r].op = "createTask" /\ req'[r].task = Len(tasks) + 1
         /\ req'[r].workspace = req[r].workspace /\ req'[r].assignedTo = req[r].assignedTo
         /\ req'[r].done = req[r].done /\ req'[r].docs = req[r].docs /\ req'[r].pc = "sweep"
         /\ req'[r].found = findTemporary(req[r].docs)
<1>1. req[r] \in Request /\ req \in [Requests -> Request] /\ req[r].op = "createTask"
  BY ReqFacts DEF DraftTask, At, RequestFits, PcFits, Sweeping, Finalizing, Announcing, ChatPcs
<1> QED BY <1>1 DEF DraftTask, Request

LEMMA ReadRequest ==
  ASSUME TypeInv, NEW r \in Requests, ReadTask(r), Open(req'[r])
  PROVE  /\ req'[r].op = "updateTask" /\ req'[r].task = req[r].task /\ Live(req[r].task)
         /\ req'[r].was = tasks[req[r].task].assignedTo /\ req'[r].status = req[r].status
         /\ isStatusTransitionAllowed(tasks[req[r].task].status, req[r].status)
         /\ req'[r].done = req[r].done /\ req'[r].docs = req[r].docs /\ req'[r].pc = "sweep"
         /\ req'[r].found = findTemporary(req[r].docs)
<1>1. req[r] \in Request /\ req \in [Requests -> Request] /\ req[r].op = "updateTask"
  BY ReqFacts DEF ReadTask, Doing
<1>2. ~Finish(r)
  BY <1>1 DEF Finish, IdleRequest, Open
<1>3. /\ Live(req[r].task) /\ isStatusTransitionAllowed(tasks[req[r].task].status, req[r].status)
      /\ req' = [req EXCEPT ![r].pc = "sweep", ![r].next = "find",
                   ![r].was = tasks[req[r].task].assignedTo,
                   ![r].found = findTemporary(req[r].docs)]
  BY <1>2 DEF ReadTask
<1> QED BY <1>1, <1>3 DEF Request

LEMMA TaskHeldOwn == ASSUME TypeInv, TaskInv, NEW r \in Requests, Step(r) PROVE TaskHeld(req[r])'
<1>1. CASE ~Open(req'[r])
  BY <1>1 DEF TaskHeld, Open
<1>2. CASE /\ FileStep(r) /\ tasks' = tasks /\ Open(req[r]) /\ SameTask(req[r], req'[r])
  BY <1>2 DEF TaskInv, TaskHeld, SameTask, Live
<1>3. CASE DraftTask(r)
  <2> DEFINE n == Len(tasks) + 1
  <2>1. tasks'[n] = NewTask(req[r].workspace, req[r].status, req[r].assignedTo)
    BY <1>3, DraftKeepsTasks DEF Drafts
  <2>2. tasks'[n].stage = "draft" /\ tasks'[n].workspace = req[r].workspace
        /\ tasks'[n].assignedTo = req[r].assignedTo
    <3> HIDE DEF n
    <3> QED BY <2>1 DEF NewTask
  <2> HIDE DEF n
  <2> QED BY <1>3, <2>2, DraftedRequest DEF TaskHeld, n
<1>4. CASE ReadTask(r) /\ Open(req'[r])
  BY <1>4, ReadRequest DEF TaskHeld, Live, ReadTask, taskVars
<1> QED BY <1>1, <1>2, <1>3, <1>4, OpenAfter

LEMMA TasksStep == ASSUME TypeInv, TaskInv, [Next]_workVars PROVE TaskInv'
<1>1. CASE UNCHANGED <<tasks, req>>
  BY <1>1 DEF TaskInv, TaskHeld, Drafting, Open, Live
<1>2. ASSUME NEW r \in Requests, Step(r) PROVE TaskInv'
  <2>1. TasksChange(r) /\ ElsewhereSpoilt(r)
    BY <1>2, StepChangesTasks, StepElsewhere DEF Step
  <2>2. \A p \in Requests : TaskHeld(req[p])'
    BY <1>2, <2>1, TaskHeldOwn, TaskHeldLater
  <2>3. \A p \in Requests \ {r} :
          Drafting(req'[p]) => Drafting(req[p]) /\ req'[p].task = req[p].task
    BY ZenonT(60), <2>1, ReqFacts DEF ElsewhereSpoilt, SpoiltBy, Drafting, Open, Request
  <2>4. Drafting(req'[r]) =>
          \/ Drafting(req[r]) /\ req'[r].task = req[r].task
          \/ req'[r].task = Len(tasks) + 1
    BY <1>2, OpenAfter, DraftedRequest, ReadRequest DEF Drafting, SameTask
  <2>5. \A p \in Requests : Drafting(req[p]) => req[p].task \in 1 .. Len(tasks)
    BY OpenNamesTask, RowFacts DEF Drafting
  <2>6. \A p, q \in Requests :
          p # q /\ Drafting(req'[p]) /\ Drafting(req'[q]) => req'[p].task # req'[q].task
    <3>1. \A n \in 1 .. Len(tasks) : n # Len(tasks) + 1
      BY RowFacts
    <3> QED BY <2>3, <2>4, <2>5, <3>1 DEF TaskInv
  <2> QED BY <2>2, <2>6 DEF TaskInv, Drafting, Open
<1>3. Kinds
  BY StepKinds
<1> QED BY <1>1, <1>2, <1>3, AtOnceLeaves, OthersLeave
        DEF Kinds, Step, ChangeSubscription, workVars, taskVars

LEMMA TasksInit == ASSUME WorkInit PROVE TaskInv
<1>1. \A r \in Requests : req[r].op = "none"
  BY DEF WorkInit, IdleRequest
<1> QED BY <1>1 DEF TaskInv, TaskHeld, Drafting, Open

\* No update takes a completed task back, whatever it read: one that read the task before
\* its completion is spoilt by it and fails to commit.
THEOREM CompletedStaysFinal == Spec => CompletedIsFinal
<1>1. WorkInit => TypeInv /\ TaskInv
  BY TypesInit, TasksInit
<1>2. TypeInv /\ TaskInv /\ [Next]_workVars => TypeInv' /\ TaskInv'
  BY TypesStep, TasksStep
<1>3. ASSUME TypeInv, TaskInv, [Next]_workVars
      PROVE  [\A t \in DOMAIN tasks : Live(t) /\ tasks[t].status = "DONE"
                => tasks'[t].status = "DONE"]_workVars
  <2>1. ASSUME NEW r \in Requests, Step(r), NEW t \in DOMAIN tasks, Live(t), tasks[t].status = "DONE"
        PROVE  tasks'[t].status = "DONE"
    <3>1. TasksChange(r) /\ tasks[t] \in Task
      BY <1>3, <2>1, StepChangesTasks, RowFacts
    <3>2. CASE Updates(r, t)
      <4>1. Patched(r).status = IF req[r].status = "same" THEN tasks[t].status ELSE req[r].status
        BY <1>3, <3>2, PatchedType DEF Updates
      <4>2. isStatusTransitionAllowed("DONE", req[r].status)
        BY <1>3, <2>1, <3>2 DEF TaskInv, TaskHeld, Updates
      <4> QED BY <2>1, <3>2, <4>1, <4>2 DEF Updates, isStatusTransitionAllowed
    <3>3. CASE Abandons(r, t) \/ Creates(r, t)
      BY <2>1, <3>1, <3>3 DEF Abandons, Creates, Task
    <3>4. CASE Deletes(r, t)
      BY <2>1, <3>1, <3>4 DEF Deletes, Task
    <3>5. CASE tasks'[t] = tasks[t] \/ Misses(r, t)
      BY <1>3, <2>1, <3>5, MissedSameRow DEF SameRow
    <3> QED BY <3>1, <3>2, <3>3, <3>4, <3>5 DEF TasksChange, Drafts, Changes
  <2>2. Kinds
    BY <1>3, StepKinds
  <2>3. tasks' = tasks \/ \E r \in Requests : Step(r)
    BY <2>2, AtOnceLeaves, OthersLeave DEF Kinds, Step, ChangeSubscription, workVars, taskVars
  <2> QED BY <2>1, <2>3
<1> QED BY <1>1, <1>2, <1>3, PTL DEF Spec, CompletedIsFinal

-----------------------------------------------------------------------------
(* Assignees. *)

\* A notification of the task has reached the list of u, is to do so, or was lost.
Heard(t, u) ==
  \/ \E n \in DOMAIN notices : notices[n].task = t /\ notices[n].to = u
  \/ \E r \in Requests : At(r, "notify") /\ req[r].task = t /\ req[r].tell = u
  \/ u \in tasks[t].untold

HeardAfter(t, u) ==
  \/ \E n \in DOMAIN notices' : notices'[n].task = t /\ notices'[n].to = u
  \/ \E r \in Requests : req'[r].pc = "notify" /\ req'[r].task = t /\ req'[r].tell = u
  \/ u \in tasks'[t].untold

AssigneeHeard(t) == Live(t) /\ tasks[t].assignedTo # Nobody => Heard(t, tasks[t].assignedTo)

AssigneeHeardAfter(t) ==
  Live(t)' /\ tasks'[t].assignedTo # Nobody => HeardAfter(t, tasks'[t].assignedTo)

LEMMA AssigneesMean == AssigneeNotified <=> \A t \in DOMAIN tasks : AssigneeHeard(t)
BY DEF AssigneeNotified, AssigneeHeard, Heard

LEMMA AssigneesMeanAfter ==
  AssigneeNotified' <=>
    \A t \in DOMAIN tasks' : AssigneeHeardAfter(t)
BY DEF AssigneeNotified, AssigneeHeardAfter, HeardAfter, At

\* The request that was to notify has done so, or its failure is on record.
LEMMA NotifyingHeard ==
  ASSUME TypeInv, NEW r \in Requests, Step(r), At(r, "notify")
  PROVE  HeardAfter(req[r].task, req[r].tell)
<1> DEFINE t == req[r].task
           u == req[r].tell
<1>1. t \in DOMAIN tasks /\ u \in Users /\ t \in Nat /\ tasks[t] \in Task
  BY NotifyFacts, RowFacts DEF At
<1>2. CASE notifyTenant(u, t)
  <2>1. /\ Len(notices) + 1 \in DOMAIN notices' /\ notices'[Len(notices) + 1].to = u
        /\ notices'[Len(notices) + 1].task = t
    <3>1. Len(notices) + 1 \in 1 .. Len(notices) + 1
      BY RowFacts
    <3> QED BY <1>1, <1>2, <3>1, NoticeStepGrows
  <2> HIDE DEF t, u
  <2>2. HeardAfter(t, u)
    BY <2>1 DEF HeardAfter, t, u
  <2> QED BY <2>2 DEF t, u
<1>3. CASE tasks' = [tasks EXCEPT ![t].untold = @ \cup {u}]
  <2>1. u \in tasks'[t].untold
    BY <1>1, <1>3 DEF Task
  <2> QED BY <2>1 DEF HeardAfter
<1>4. NotifyAssignee(r) \/ Crash(r)
  <2>1. req[r].pc \in Announcing /\ ~Publish(r)
    BY DEF At, Announcing, Publish
  <2> QED BY <2>1, AnnouncingSteps DEF Step
<1> QED BY <1>2, <1>3, <1>4 DEF NotifyAssignee, Crash

\* What was heard stays so.
LEMMA HeardLater ==
  ASSUME TypeInv, NEW r \in Requests, Step(r), NoticesGrow, NEW t \in DOMAIN tasks, NEW u,
         tasks[t].untold \subseteq tasks'[t].untold, Heard(t, u)
  PROVE  HeardAfter(t, u)
<1>1. ASSUME NEW n \in DOMAIN notices, notices[n].task = t, notices[n].to = u
      PROVE  HeardAfter(t, u)
  BY <1>1 DEF NoticesGrow, HeardAfter
<1>2. ASSUME NEW p \in Requests \ {r}, At(p, "notify"), req[p].task = t, req[p].tell = u
      PROVE  HeardAfter(t, u)
  <2>1. req'[p] = req[p]
    BY <1>2, StepElsewhere DEF Step, ElsewhereSpoilt, SpoiltBy, Open, At
  <2> QED BY <1>2, <2>1 DEF HeardAfter, At
<1>3. CASE At(r, "notify") /\ req[r].task = t /\ req[r].tell = u
  BY <1>3, NotifyingHeard
<1>4. CASE u \in tasks[t].untold
  BY <1>4 DEF HeardAfter
<1> QED BY <1>1, <1>2, <1>3, <1>4 DEF Heard

\* The request of a commit is about to tell.
LEMMA CommitHeard ==
  ASSUME TypeInv, NEW r \in Requests, req[r].pc = "commit", NEW told \in Users,
         NEW was \in Users \cup {Nobody}, NEW now \in Users \cup {Nobody},
         Committed(r, told, was, now)
  PROVE  HeardAfter(req[r].task, told)
<1> DEFINE q == AfterCommit(r, told, was, now)
<1>1. told # Nobody
  BY RoleAssumption DEF Nobody
<1>2. req'[r] = q /\ q.pc = "notify"
  BY SMTT(30), <1>1, CommitMoves DEF Moves
<1>3. q.task = req[r].task /\ q.tell = told
  BY ReqFacts DEF AfterCommit, Request
<1> HIDE DEF q
<1> QED BY <1>2, <1>3 DEF HeardAfter

LEMMA AssigneesStep ==
  ASSUME TypeInv, TaskInv, AssigneeNotified, [Next]_workVars PROVE AssigneeNotified'
<1>1. Kinds /\ NoticesGrow
  BY StepKinds, NoticesGrowAlways
<1>2. CASE UNCHANGED <<tasks, req>>
  <2>1. ASSUME NEW t \in DOMAIN tasks, NEW u, Heard(t, u) PROVE HeardAfter(t, u)
    BY <1>1, <1>2, <2>1 DEF Heard, HeardAfter, NoticesGrow, At
  <2>2. ASSUME NEW t \in DOMAIN tasks PROVE AssigneeHeardAfter(t)
    <3>1. AssigneeHeard(t) /\ tasks' = tasks /\ (Live(t)' <=> Live(t))
      BY <1>2, AssigneesMean DEF Live
    <3> QED BY <2>1, <3>1 DEF AssigneeHeard, AssigneeHeardAfter
  <2> QED BY <1>2, <2>2, AssigneesMeanAfter
<1>3. ASSUME NEW r \in Requests, Step(r), NEW t \in DOMAIN tasks' PROVE AssigneeHeardAfter(t)
  <2>1. TasksChange(r)
    BY <1>3, StepChangesTasks
  <2>2. CASE t \in DOMAIN tasks
    <3>0. tasks[t] \in Task /\ AssigneeHeard(t)
      BY <2>2, RowFacts, AssigneesMean
    <3>1. CASE tasks'[t] = tasks[t] \/ Misses(r, t)
      <4>1. SameRow(t)
        BY <2>2, <3>1, MissedSameRow
      <4>2. Live(t)' => Live(t)
        BY <2>2, <4>1 DEF SameRow, Live
      <4> QED BY <1>1, <1>3, <2>2, <3>0, <4>1, <4>2, HeardLater DEF AssigneeHeard, AssigneeHeardAfter, SameRow
    <3>2. CASE Abandons(r, t) \/ Deletes(r, t)
      BY <3>0, <3>2 DEF Abandons, Deletes, AssigneeHeardAfter, Live, Task
    <3>3. CASE Creates(r, t)
      <4>1. tasks'[t].assignedTo = req[r].assignedTo
        BY <3>0, <3>3 DEF TaskInv, TaskHeld, Creates, Drafting, Task
      <4>2. req[r].assignedTo \in Users \cup {Nobody}
        BY <3>0, <3>3 DEF TaskInv, TaskHeld, Creates, Drafting, Task
      <4>3. ASSUME req[r].assignedTo # Nobody PROVE HeardAfter(t, req[r].assignedTo)
        BY <3>3, <4>2, <4>3, CommitHeard DEF Creates
      <4> QED BY <4>1, <4>3 DEF AssigneeHeardAfter
    <3>4. CASE Updates(r, t)
      <4> DEFINE now == Patched(r).assignedTo
      <4>1. /\ req[r].pc = "commit" /\ req[r].task = t /\ tasks'[t] = Patched(r)
            /\ Committed(r, ToldOfUpdate(r, now), req[r].was, now)
        BY <3>4 DEF Updates
      <4>2. /\ now \in Users \cup {Nobody} /\ req[r].was \in Users \cup {Nobody}
            /\ tasks'[t].untold = tasks[t].untold
        BY <2>2, <4>1, PatchedType, ReqFacts DEF Request, Task
      <4>3. Live(t) /\ req[r].was = tasks[t].assignedTo
        BY <3>4 DEF TaskInv, TaskHeld, Updates
      <4>4. tasks'[t].assignedTo = now
        BY <4>1
      <4> HIDE DEF now
      <4>5. CASE now # req[r].was /\ now # Nobody
        <5>1. Committed(r, now, req[r].was, now) /\ now \in Users
          BY <4>1, <4>2, <4>5 DEF ToldOfUpdate
        <5>2. HeardAfter(t, now)
          BY <4>1, <4>2, <5>1, CommitHeard
        <5> QED BY <4>4, <5>2 DEF AssigneeHeardAfter
      <4>6. CASE now = req[r].was /\ now # Nobody
        <5>1. Heard(t, now)
          BY <3>0, <4>3, <4>6 DEF AssigneeHeard
        <5>2. HeardAfter(t, now)
          BY <1>1, <1>3, <2>2, <4>2, <5>1, HeardLater
        <5> QED BY <4>4, <5>2 DEF AssigneeHeardAfter
      <4>7. CASE now = Nobody
        BY <4>4, <4>7 DEF AssigneeHeardAfter
      <4> QED BY <4>5, <4>6, <4>7
    <3> QED BY <2>1, <2>2, <3>1, <3>2, <3>3, <3>4 DEF TasksChange, Drafts, Changes
  <2>3. CASE t \notin DOMAIN tasks
    <3>1. Drafts(r) /\ t = Len(tasks) + 1
      BY <1>3, <2>1, <2>3, RowFacts DEF TasksChange, Drafts
    <3> QED BY <3>1 DEF Drafts, NewTask, AssigneeHeardAfter, Live
  <2> QED BY <2>2, <2>3
<1>4. ASSUME NEW r \in Requests, Step(r) PROVE AssigneeNotified'
  <2>1. \A t \in DOMAIN tasks' : AssigneeHeardAfter(t)
    BY <1>3, <1>4
  <2> QED BY <2>1, AssigneesMeanAfter DEF AssigneeHeardAfter
<1> QED BY <1>1, <1>2, <1>4, AtOnceLeaves, OthersLeave
        DEF Kinds, Step, ChangeSubscription, workVars, taskVars

\* Whoever is assigned a task has a notification of it or will have one, through all
\* reassignments by concurrent updates, unless storing it failed.
THEOREM AssigneesAreNotified == Spec => []AssigneeNotified
<1>1. WorkInit => TypeInv /\ TaskInv /\ AssigneeNotified
  <2>1. ASSUME WorkInit PROVE AssigneeNotified
    BY <2>1 DEF WorkInit, AssigneeNotified, NewTask
  <2> QED BY <2>1, TypesInit, TasksInit
<1>2. TypeInv /\ TaskInv /\ AssigneeNotified /\ [Next]_workVars
        => TypeInv' /\ TaskInv' /\ AssigneeNotified'
  BY TypesStep, TasksStep, AssigneesStep
<1> QED BY <1>1, <1>2, PTL DEF Spec

-----------------------------------------------------------------------------
(* Workspaces: every step is one of Quota. *)

Used == [k \in {1} |-> countByTenantId]
Owner == [r \in Requests |-> IF Counted(r) THEN 1 ELSE 0]
Seen == [r \in Requests |-> IF Counted(r) THEN req[r].seen ELSE 0]
Ceiling == [k \in {1} |-> ceiling]

AtLeast(c, d) == c = NoCap \/ (d # NoCap /\ d <= c)

\* The history of the limit covers the limit in force, and a request that inserts has
\* compared its count with one that was.
PlaceInv ==
  /\ ceiling \in Places!Caps
  /\ AtLeast(ceiling, Limits.maxWorkspaces)
  /\ \A r \in Requests :
       req[r].op = "createWorkspace" /\ req[r].pc = "insert" => Places!Below(req[r].seen, ceiling)

\* The steps that count a workspace or cease to.
PlaceStep(r) == CountWorkspaces(r) \/ assertWithinWorkspaceLimit(r) \/ InsertWorkspace(r)

CountedAfter(r) == req'[r].op = "createWorkspace" /\ req'[r].pc \in {"limit", "insert"}

LEMMA CountingMeans == ASSUME NEW r \in Requests PROVE Counted(r)' <=> CountedAfter(r)
BY DEF Counted, Doing, CountedAfter

LEMMA CreatingSteps ==
  ASSUME TypeInv, NEW r \in Requests, Step(r), Doing(r, "createWorkspace")
  PROVE  PlaceStep(r) \/ Crash(r)
<1>1. req[r].op = "createWorkspace" /\ req[r].pc \in {"count", "limit", "insert"}
  BY ReqFacts DEF Doing, RequestFits, PcFits
<1>2. ~Arrival(r)
  BY <1>1, ArrivalRequests DEF Begun
<1>3. ~FileStep(r)
  BY <1>1 DEF FileStep, At, Doing, Sweep, SweepDestroy, SweepUnlist, CountFiles, Sign, UploadBuffer,
     FindExisting, SumFinalizedBytes, CreateAsset, FindTemporaryAssets, RenameAsset, FinalizeRow,
     Rollback, DestroyAsset, UnlistAsset
<1>4. ~Join(r) /\ ~ChatStep(r) /\ ~NotifyAssignee(r)
  BY <1>1 DEF At, Join, NotifyAssignee, ChatStep, DeleteMessages, deleteForTenantUser, FindSession,
     StoreQuestion, TitleByContent, ListHistory, Complete, StoreAnswer
<1>5. TaskStep(r) => PlaceStep(r)
  BY <1>1 DEF TaskStep, PlaceStep, At, Cascade, DraftTask, CommitCreate, ReadTask, CommitUpdate,
     FindTask, softDeleteByIdAndWorkspace, Publish
<1> QED BY <1>2, <1>3, <1>4, <1>5 DEF Step

\* No other step makes a request one that has counted.
LEMMA NotCountedAfter ==
  ASSUME TypeInv, NEW r \in Requests, Step(r), ~PlaceStep(r) PROVE ~CountedAfter(r)
<1>1. req \in [Requests -> Request] /\ req[r] \in Request
  BY ReqFacts
<1>2. Finish(r) => ~CountedAfter(r)
  BY <1>1 DEF Finish, IdleRequest, CountedAfter
<1>3. \A pc \in {"publish", "session", "history", "answer"} : Goto(r, pc) => ~CountedAfter(r)
  BY <1>1 DEF Goto, CountedAfter, Request
<1>4. CASE Arrival(r)
  BY <1>4, ArrivalRequests DEF Begun, Starting, CountedAfter
<1>5. CASE FileStep(r) /\ ~Finish(r)
  <2>1. req'[r].op = req[r].op
    BY <1>5, FileStepGoesOn DEF SameTask
  <2>2. ~Doing(r, "createWorkspace")
    BY <1>1, <1>5, CreatingSteps DEF Step, Crash
  <2> QED BY <2>1, <2>2 DEF CountedAfter, Doing
<1>6. CASE Cascade(r)
  <2>1. IdleRequest \in Request /\ ~Open(IdleRequest)
    BY IdleFits DEF IdleRequest, Open
  <2>2. IdleRequest.pc = "idle"
    BY DEF IdleRequest
  <2> QED BY <1>2, <1>6, <2>1, <2>2, SpoiltMoves DEF Cascade, Moves, CountedAfter
<1>7. CASE softDeleteByIdAndWorkspace(r) /\ ~Finish(r)
  <2> DEFINE q == [req[r] EXCEPT !.pc = "publish"]
  <2>1. q \in Request /\ q.pc = "publish"
    <3>1. "publish" \in Pcs /\ q.pc = "publish"
      BY <1>1 DEF Pcs, Request
    <3> QED BY <1>1, <3>1, GoType
  <2>2. req' = Spoilt([req EXCEPT ![r] = q], {req[r].task})
    BY <1>7 DEF softDeleteByIdAndWorkspace
  <2> HIDE DEF q
  <2> QED BY <2>1, <2>2, SpoiltMoves DEF Moves, Open, CountedAfter
<1>8. CASE (FindTask(r) \/ ReadTask(r)) /\ ~Finish(r)
  <2>1. CASE FindTask(r)
    BY <1>1, <1>8, <2>1 DEF FindTask, CountedAfter, Request
  <2>2. CASE ReadTask(r)
    BY <1>1, <1>8, <2>2 DEF ReadTask, CountedAfter, Request
  <2> QED BY <1>8, <2>1, <2>2
<1>9. CASE DraftTask(r)
  BY <1>9, DraftedRequest DEF CountedAfter
<1>10. CASE CommitCreate(r) \/ CommitUpdate(r)
  <2>1. ASSUME NEW told \in Users \cup {Nobody}, NEW was \in Users \cup {Nobody},
               NEW now \in Users \cup {Nobody}, Committed(r, told, was, now)
        PROVE  ~CountedAfter(r)
    BY <1>10, <2>1, CommitKinds, CommitMoves DEF Moves, CountedAfter
  <2> QED BY <1>2, <1>10, <2>1, CommitKinds DEF CommitFails
<1>11. CASE ChatStep(r) /\ ~Finish(r)
  <2>1. CASE FindSession(r)
    BY <1>1, <1>11, <2>1 DEF FindSession, CountedAfter, Request
  <2>2. CASE StoreQuestion(r)
    BY <1>1, <2>2 DEF StoreQuestion, CountedAfter, Request
  <2>3. CASE ListHistory(r)
    BY <1>1, <2>3 DEF ListHistory, CountedAfter, Request
  <2>4. CASE Complete(r)
    <3>1. Goto(r, "answer") \/ (req[r].pc = "complete" /\ req' = [req EXCEPT ![r].seen = @ + 1])
      BY <1>11, <2>4 DEF Complete, At
    <3> QED BY <1>1, <1>3, <3>1 DEF CountedAfter, Request
  <2> QED BY <1>3, <1>11, <2>1, <2>2, <2>3, <2>4
          DEF ChatStep, DeleteMessages, deleteForTenantUser, TitleByContent, StoreAnswer
<1> QED BY <1>2, <1>3, <1>4, <1>5, <1>6, <1>7, <1>8, <1>9, <1>10, <1>11
        DEF Step, TaskStep, PlaceStep, Publish, Join, NotifyAssignee, Crash

\* What a request has counted, if it has.
CountedSeen(r) == IF Counted(r) THEN req[r].seen ELSE 0

OthersCountOn(r) ==
  \A p \in Requests \ {r} : (Counted(p)' <=> Counted(p)) /\ req'[p].seen = req[p].seen

LEMMA OthersStillCount ==
  ASSUME TypeInv, NEW r \in Requests, Step(r) PROVE OthersCountOn(r)
<1>1. ElsewhereSpoilt(r)
  BY StepElsewhere DEF Step
<1>2. ASSUME NEW p \in Requests \ {r}, SpoiltBy(p)
      PROVE  /\ req'[p].op = "updateTask" /\ req[p].op = "updateTask"
             /\ req'[p].seen = req[p].seen
  BY <1>2, ReqFacts DEF SpoiltBy, Request
<1> QED BY <1>1, <1>2 DEF ElsewhereSpoilt, OthersCountOn, Counted, Doing

LEMMA PlacesAreFinite ==
  ASSUME TypeInv PROVE IsFiniteSet({w \in DOMAIN workspaces : workspaces[w]}) /\ countByTenantId \in Nat
<1>1. IsFiniteSet(DOMAIN workspaces)
  BY RowFacts, FS_Interval
<1>2. IsFiniteSet({w \in DOMAIN workspaces : workspaces[w]})
  BY <1>1, FS_Subset
<1> QED BY <1>2, FS_CardinalityType DEF countByTenantId

LEMMA WorkspaceAdded ==
  ASSUME TypeInv, workspaces' = Append(workspaces, TRUE)
  PROVE  /\ DOMAIN workspaces' = 1 .. Len(workspaces) + 1
         /\ \A w \in DOMAIN workspaces : workspaces'[w] = workspaces[w]
         /\ workspaces'[Len(workspaces) + 1] = TRUE
<1>1. workspaces \in Seq(BOOLEAN)
  BY DEF TypeInv, TypeOK, WorkTypeOK
<1>2. PICK e, T : e = TRUE /\ T = BOOLEAN
  OBVIOUS
<1>3. e \in T /\ workspaces \in Seq(T) /\ workspaces' = Append(workspaces, e)
  BY <1>1, <1>2
<1>4. /\ DOMAIN Append(workspaces, e) = 1 .. Len(workspaces) + 1
      /\ \A w \in DOMAIN workspaces : Append(workspaces, e)[w] = workspaces[w]
      /\ Append(workspaces, e)[Len(workspaces) + 1] = e
  BY <1>3, SeqAdd
<1> QED BY <1>2, <1>3, <1>4

LEMMA PlaceAdded ==
  ASSUME TypeInv, workspaces' = Append(workspaces, TRUE)
  PROVE  countByTenantId' = countByTenantId + 1
<1> DEFINE S == {w \in DOMAIN workspaces : workspaces[w]}
           n == Len(workspaces) + 1
<1>2. /\ DOMAIN workspaces' = 1 .. Len(workspaces) + 1
      /\ \A w \in DOMAIN workspaces : workspaces'[w] = workspaces[w]
      /\ workspaces'[Len(workspaces) + 1] = TRUE
  BY WorkspaceAdded
<1>3. DOMAIN workspaces = 1 .. Len(workspaces) /\ Len(workspaces) \in Nat
  BY RowFacts
<1>4. {w \in DOMAIN workspaces' : workspaces'[w]} = S \cup {n}
  BY <1>2, <1>3
<1>5. n \notin S
  BY <1>3
<1>6. IsFiniteSet(S)
  BY PlacesAreFinite
<1> HIDE DEF S, n
<1>7. Cardinality(S \cup {n}) = Cardinality(S) + 1
  BY <1>5, <1>6, FS_AddElement
<1> QED BY <1>4, <1>7 DEF countByTenantId, S

LEMMA PlaceRemoved ==
  ASSUME TypeInv, NEW w \in DOMAIN workspaces, workspaces[w],
         workspaces' = [workspaces EXCEPT ![w] = FALSE]
  PROVE  countByTenantId > 0 /\ countByTenantId' = countByTenantId - 1
<1> DEFINE S == {v \in DOMAIN workspaces : workspaces[v]}
<1>1. {v \in DOMAIN workspaces' : workspaces'[v]} = S \ {w} /\ w \in S
  OBVIOUS
<1>2. IsFiniteSet(S)
  BY PlacesAreFinite
<1> HIDE DEF S
<1>3. Cardinality(S \ {w}) = Cardinality(S) - 1 /\ Cardinality(S) \in Nat /\ Cardinality(S) # 0
  BY <1>1, <1>2, FS_RemoveElement, FS_CardinalityType, FS_EmptySet
<1> QED BY <1>1, <1>3 DEF countByTenantId, S

LEMMA HighestCovers ==
  ASSUME NEW c \in Places!Caps, NEW d \in Nat \cup {NoCap}
  PROVE  /\ Highest(c, d) \in Places!Caps /\ AtLeast(Highest(c, d), d)
         /\ AtLeast(Highest(c, d), c)
         /\ \A n \in Nat : Places!Below(n, c) => Places!Below(n, Highest(c, d))
BY NoCapAssumption DEF Places!Caps, Highest, AtLeast, Places!Below

LEMMA PlaceInvStep == ASSUME TypeInv, PlaceInv, [Next]_workVars PROVE PlaceInv'
<1>1. Kinds
  BY StepKinds
<1>2. \A r \in Requests : req[r].seen \in Nat
  BY ReqFacts DEF Request
<1>3. CASE ChangeSubscription
  <2>1. PICK d \in Nat \cup {NoCap} : Limits.maxWorkspaces' = d /\ ceiling' = Highest(ceiling, d)
    BY <1>3, EntitledType DEF ChangeSubscription
  <2>2. req' = req /\ ceiling \in Places!Caps
    BY <1>3 DEF ChangeSubscription, PlaceInv
  <2>3. /\ ceiling' \in Places!Caps /\ AtLeast(ceiling', Limits.maxWorkspaces')
        /\ \A n \in Nat : Places!Below(n, ceiling) => Places!Below(n, ceiling')
    BY <2>1, <2>2, HighestCovers
  <2> QED BY <1>2, <2>2, <2>3 DEF PlaceInv, AtLeast, Places!Below
<1>4. CASE UNCHANGED <<entitled, ceiling, req>>
  BY <1>4 DEF PlaceInv, Limits, AtLeast, Places!Below
<1>5. ASSUME NEW r \in Requests, Step(r), UNCHANGED <<entitled, ceiling>> PROVE PlaceInv'
  <2>1. OthersCountOn(r)
    BY <1>5, OthersStillCount
  <2>2. ASSUME req'[r].op = "createWorkspace", req'[r].pc = "insert"
        PROVE  Places!Below(req'[r].seen, ceiling)
    <3>1. assertWithinWorkspaceLimit(r) /\ ~Finish(r)
      <4>1. PlaceStep(r)
        BY <1>5, <2>2, NotCountedAfter DEF CountedAfter
      <4>2. ~Finish(r)
        BY <2>2, ReqFacts DEF Finish, IdleRequest
      <4>3. ~CountWorkspaces(r)
        BY <2>2, ReqFacts DEF CountWorkspaces, Request
      <4> QED BY <4>1, <4>2, <4>3 DEF PlaceStep, InsertWorkspace
    <3>2. WithinLimit(Limits.maxWorkspaces, req[r].seen) /\ req'[r].seen = req[r].seen
      BY <3>1, ReqFacts DEF assertWithinWorkspaceLimit, Goto, Request
    <3>3. Limits.maxWorkspaces \in Nat \cup {NoCap}
      BY RowFacts, LimitsType DEF Limits
    <3> QED BY <1>2, <3>2, <3>3, NoCapAssumption
            DEF PlaceInv, AtLeast, WithinLimit, Places!Below, Places!Caps
  <2>3. ASSUME NEW p \in Requests \ {r}, req'[p].op = "createWorkspace", req'[p].pc = "insert"
        PROVE  Places!Below(req'[p].seen, ceiling)
    <3>1. req'[p] = req[p]
      <4>1. ElsewhereSpoilt(r)
        BY <1>5, StepElsewhere DEF Step
      <4> QED BY ZenonT(60), <2>3, <4>1, ReqFacts DEF ElsewhereSpoilt, SpoiltBy, Request
    <3> QED BY <2>3, <3>1 DEF PlaceInv
  <2> QED BY <1>5, <2>2, <2>3 DEF PlaceInv, Limits, AtLeast, Places!Below
<1> QED BY <1>1, <1>3, <1>4, <1>5, AtOnceLeaves, OthersLeave DEF Kinds, Step, workVars

LEMMA SameSeen ==
  ASSUME NEW r \in Requests, OthersCountOn(r)
  PROVE  /\ Owner' = [Owner EXCEPT ![r] = IF Counted(r)' THEN 1 ELSE 0]
         /\ Seen' = [Seen EXCEPT ![r] = CountedSeen(r)']
         /\ Owner[r] = (IF Counted(r) THEN 1 ELSE 0) /\ Seen[r] = CountedSeen(r)
BY DEF OthersCountOn, Owner, Seen, CountedSeen

LEMMA PlacesStutter ==
  ASSUME NEW r \in Requests, OthersCountOn(r), ceiling' = ceiling,
         countByTenantId' = countByTenantId, Counted(r)' <=> Counted(r),
         CountedSeen(r)' = CountedSeen(r)
  PROVE  UNCHANGED Places!quotaVars
<1>1. Used' = Used
  BY DEF Used
<1>2. Owner' = Owner /\ Seen' = Seen
  BY ZenonT(60), SameSeen DEF Owner, Seen, CountedSeen
<1> QED BY <1>1, <1>2 DEF Places!quotaVars, Used, Owner, Seen

LEMMA PlacesCount ==
  ASSUME NEW r \in Requests, OthersCountOn(r), ceiling' = ceiling,
         countByTenantId' = countByTenantId, ~Counted(r), Counted(r)',
         CountedSeen(r)' = countByTenantId
  PROVE  Places!Next
<1>1. Used' = Used /\ Used[1] = countByTenantId
  BY DEF Used
<1>2. Owner[r] = 0 /\ Owner' = [Owner EXCEPT ![r] = 1] /\ Seen' = [Seen EXCEPT ![r] = Used[1]]
  BY <1>1, SameSeen
<1>3. Places!Count(r, 1)
  BY <1>1, <1>2 DEF Places!Count, Used, Owner, Seen
<1> QED BY <1>3 DEF Places!Next

LEMMA PlacesTake ==
  ASSUME NEW r \in Requests, OthersCountOn(r), ceiling' = ceiling,
         countByTenantId' = countByTenantId + 1, Counted(r), ~Counted(r)',
         Places!Below(req[r].seen, ceiling)
  PROVE  Places!Next
<1>1. Owner[r] = 1 /\ Seen[r] = req[r].seen /\ CountedSeen(r)' = 0
  BY SameSeen DEF CountedSeen
<1>2. Used' = [Used EXCEPT ![Owner[r]] = Used[Owner[r]] + 1]
  BY <1>1 DEF Used
<1>3. Owner' = [Owner EXCEPT ![r] = 0] /\ Seen' = [Seen EXCEPT ![r] = 0]
  BY <1>1, SameSeen
<1>4. Owner[r] # 0 /\ Places!Below(Seen[r], Ceiling[Owner[r]]) /\ Ceiling' = Ceiling
  BY <1>1 DEF Ceiling
<1>5. Places!Take(r)
  BY <1>2, <1>3, <1>4 DEF Places!Take, Used, Owner, Seen, Ceiling
<1> QED BY <1>5 DEF Places!Next

LEMMA PlacesGiveUp ==
  ASSUME NEW r \in Requests, OthersCountOn(r), ceiling' = ceiling,
         countByTenantId' = countByTenantId, Counted(r), ~Counted(r)'
  PROVE  Places!Next
<1>1. Owner[r] # 0 /\ Owner' = [Owner EXCEPT ![r] = 0] /\ Seen' = [Seen EXCEPT ![r] = 0]
  BY SameSeen DEF CountedSeen
<1>2. Used' = Used /\ Ceiling' = Ceiling
  BY DEF Used, Ceiling
<1>3. Places!GiveUp(r)
  BY <1>1, <1>2 DEF Places!GiveUp, Used, Owner, Seen, Ceiling
<1> QED BY <1>3 DEF Places!Next

LEMMA PlacesRelease ==
  ASSUME TypeInv, NEW r \in Requests, OthersCountOn(r), ceiling' = ceiling, countByTenantId > 0,
         countByTenantId' = countByTenantId - 1, ~Counted(r), ~Counted(r)'
  PROVE  Places!Next
<1>1. Used[1] > 0 /\ Used' = [Used EXCEPT ![1] = Used[1] - 1] /\ Ceiling' = Ceiling
  BY DEF Used, Ceiling
<1>2. Owner' = Owner /\ Seen' = Seen
  BY ZenonT(60), SameSeen DEF Owner, Seen, CountedSeen
<1>3. Places!Release(1)
  BY <1>1, <1>2 DEF Places!Release, Used, Owner, Seen, Ceiling
<1> QED BY <1>3 DEF Places!Next

LEMMA PlacesRaise ==
  ASSUME TypeInv, PlaceInv, ChangeSubscription PROVE Places!Next
<1>1. PICK d \in Nat \cup {NoCap} : Limits.maxWorkspaces' = d /\ ceiling' = Highest(ceiling, d)
  BY EntitledType DEF ChangeSubscription
<1>2. ceiling \in Places!Caps
  BY DEF PlaceInv
<1>3. ceiling' \in Places!Caps /\ AtLeast(ceiling', ceiling)
  BY <1>1, <1>2, HighestCovers
<1>4. UNCHANGED <<workspaces, req>>
  BY DEF ChangeSubscription, taskVars
<1>5. Used' = Used /\ Owner' = Owner /\ Seen' = Seen
  BY <1>4 DEF Used, Owner, Seen, countByTenantId, Counted, Doing
<1>6. Ceiling' = [k \in {1} |-> ceiling']
  BY DEF Ceiling
<1>7. /\ Ceiling' \in [{1} -> Places!Caps] /\ Ceiling[1] = ceiling /\ Ceiling'[1] = ceiling'
  BY <1>3, <1>6 DEF Ceiling
<1>8. \A o \in {1} : IF Ceiling[o] = NoCap THEN Ceiling'[o] = NoCap
                     ELSE Ceiling'[o] = NoCap \/ Ceiling[o] <= Ceiling'[o]
  BY <1>3, <1>7 DEF AtLeast
<1>9. Places!Raise
  BY <1>5, <1>7, <1>8 DEF Places!Raise, Used, Owner, Seen, Ceiling
<1> QED BY <1>9 DEF Places!Next

LEMMA PlaceSteps ==
  ASSUME TypeInv, PlaceInv, NEW r \in Requests, Step(r), PlaceStep(r), ceiling' = ceiling
  PROVE  [Places!Next]_Places!quotaVars
<1>1. OthersCountOn(r) /\ req[r] \in Request /\ req \in [Requests -> Request]
  BY OthersStillCount, ReqFacts
<1>2. Finish(r) => ~Counted(r)'
  BY <1>1 DEF Finish, IdleRequest, Counted, Doing
<1>3. CASE CountWorkspaces(r)
  <2>1. /\ workspaces' = workspaces /\ req[r].pc = "count" /\ req[r].op = "createWorkspace"
        /\ req' = [req EXCEPT ![r].pc = "limit", ![r].seen = countByTenantId]
    BY <1>3 DEF CountWorkspaces, At, Doing, taskVars
  <2> DEFINE n == countByTenantId
  <2>2. n' = n /\ req' = [req EXCEPT ![r].pc = "limit", ![r].seen = n]
    BY <2>1 DEF countByTenantId
  <2> HIDE DEF n
  <2>3. /\ req'[r].op = "createWorkspace" /\ req'[r].pc = "limit" /\ req'[r].seen = n
    BY <1>1, <2>1, <2>2 DEF Request
  <2>4. ~Counted(r) /\ Counted(r)' /\ CountedSeen(r)' = n
    BY <2>1, <2>3 DEF Counted, Doing, CountedSeen
  <2> QED BY <1>1, <2>2, <2>4, PlacesCount DEF n
<1>4. CASE assertWithinWorkspaceLimit(r)
  <2>1. Counted(r) /\ countByTenantId' = countByTenantId
    BY <1>4 DEF assertWithinWorkspaceLimit, Counted, Doing, At, taskVars, countByTenantId
  <2>2. CASE Goto(r, "insert")
    <3>1. req'[r].op = req[r].op /\ req'[r].pc = "insert" /\ req'[r].seen = req[r].seen
      BY <1>1, <2>2 DEF Goto, Request
    <3>2. Counted(r)' /\ CountedSeen(r)' = CountedSeen(r)
      BY <2>1, <3>1 DEF Counted, Doing, CountedSeen
    <3> QED BY <1>1, <2>1, <3>2, PlacesStutter
  <2>3. CASE Finish(r)
    BY <1>1, <1>2, <2>1, <2>3, PlacesGiveUp
  <2> QED BY <1>4, <2>2, <2>3 DEF assertWithinWorkspaceLimit
<1>5. CASE InsertWorkspace(r)
  <2>1. Counted(r) /\ Places!Below(req[r].seen, ceiling) /\ ~Counted(r)'
    BY <1>2, <1>5 DEF InsertWorkspace, Counted, Doing, At, PlaceInv
  <2>2. countByTenantId' = countByTenantId + 1
    BY <1>5, PlaceAdded DEF InsertWorkspace
  <2> QED BY <1>1, <2>1, <2>2, PlacesTake
<1> QED BY <1>3, <1>4, <1>5 DEF PlaceStep

LEMMA OtherPlaceSteps ==
  ASSUME TypeInv, PlaceInv, NEW r \in Requests, Step(r), ~PlaceStep(r), ceiling' = ceiling
  PROVE  [Places!Next]_Places!quotaVars
<1>1. OthersCountOn(r) /\ ~Counted(r)'
  BY OthersStillCount, NotCountedAfter, CountingMeans
<1>2. CASE Crash(r)
  <2>1. workspaces' = workspaces
    BY <1>2 DEF Crash
  <2>2. countByTenantId' = countByTenantId
    BY <2>1 DEF countByTenantId
  <2>3. CASE Counted(r)
    BY <1>1, <2>2, <2>3, PlacesGiveUp
  <2>4. CASE ~Counted(r)
    BY <1>1, <2>2, <2>4, PlacesStutter DEF CountedSeen
  <2> QED BY <2>3, <2>4
<1>3. CASE ~Crash(r)
  <2>1. ~Counted(r)
    BY <1>3, CreatingSteps DEF Counted
  <2>2. CASE workspaces' = workspaces
    <3>1. countByTenantId' = countByTenantId
      BY <2>2 DEF countByTenantId
    <3> QED BY <1>1, <2>1, <3>1, PlacesStutter DEF CountedSeen
  <2>3. CASE workspaces' # workspaces
    <3>1. Cascade(r)
      <4>1. ~Arrival(r) /\ ~FileStep(r) /\ ~Join(r) /\ ~NotifyAssignee(r) /\ ~ChatStep(r)
        BY <2>3, ArrivalIsPure, FileStepLeaves, OthersLeave, ChatStepLeaves DEF Pure, taskVars
      <4> QED BY <1>3, <2>3, <4>1 DEF Step, TaskStep, PlaceStep, DraftTask, CommitCreate, ReadTask,
              CommitUpdate, FindTask, softDeleteByIdAndWorkspace, Publish, taskVars
    <3> DEFINE w == req[r].workspace
    <3>2. workspaces[w] /\ workspaces' = [workspaces EXCEPT ![w] = FALSE]
      BY <2>3, <3>1 DEF Cascade, taskVars
    <3>3. w \in DOMAIN workspaces
      <4>1. req[r].op = "deleteWorkspace"
        BY <3>1, ReqFacts DEF Cascade, At, RequestFits, PcFits, Sweeping, Finalizing, Announcing,
           ChatPcs
      <4> QED BY <4>1, ReqFacts, RowFacts DEF RequestFits, NamesFit, Lengths
    <3> HIDE DEF w
    <3>4. countByTenantId > 0 /\ countByTenantId' = countByTenantId - 1
      BY <3>2, <3>3, PlaceRemoved
    <3> QED BY <1>1, <2>1, <3>4, PlacesRelease
  <2> QED BY <2>2, <2>3
<1> QED BY <1>2, <1>3

LEMMA PlacesStep ==
  ASSUME TypeInv, PlaceInv, [Next]_workVars PROVE [Places!Next]_Places!quotaVars
<1>1. Kinds
  BY StepKinds
<1>2. CASE UNCHANGED <<workspaces, req, ceiling>>
  <2>1. PICK r \in Requests : TRUE
    BY WorkRequestsAssumption
  <2>2. OthersCountOn(r) /\ (Counted(r)' <=> Counted(r)) /\ CountedSeen(r)' = CountedSeen(r)
        /\ countByTenantId' = countByTenantId
    BY <1>2 DEF OthersCountOn, Counted, CountedSeen, Doing, countByTenantId
  <2> QED BY <1>2, <2>1, <2>2, PlacesStutter
<1>3. ASSUME NEW r \in Requests, Step(r), ceiling' = ceiling
      PROVE  [Places!Next]_Places!quotaVars
  BY <1>3, PlaceSteps, OtherPlaceSteps
<1> QED BY <1>1, <1>2, <1>3, PlacesRaise, AtOnceLeaves, OthersLeave
        DEF Kinds, Step, workVars, taskVars

LEMMA PlacesInit == ASSUME WorkInit PROVE PlaceInv /\ Places!Init
<1>1. TypeInv /\ \A r \in Requests : req[r] = IdleRequest
  BY TypesInit DEF WorkInit
<1>2. FreeLimits.maxWorkspaces \in Nat \ {0}
  BY FreeLimitsAssumption DEF Dimensions
<1>3. PICK d \in Nat \cup {NoCap} : d = Limits.maxWorkspaces
  BY <1>1, RowFacts, LimitsType DEF Limits
<1>4. ceiling = Highest(FreeLimits.maxWorkspaces, d) /\ FreeLimits.maxWorkspaces \in Places!Caps
  BY <1>2, <1>3 DEF WorkInit, Places!Caps
<1>5. ceiling \in Places!Caps /\ AtLeast(ceiling, d)
  BY <1>4, HighestCovers
<1>6. PlaceInv
  BY <1>1, <1>3, <1>5 DEF PlaceInv, IdleRequest
<1>7. countByTenantId = scenario.workspaces /\ scenario.workspaces \in Nat
  <2>1. scenario.workspaces \in Nat
    BY <1>1, RowFacts, ScenariosAssumption
  <2>2. {w \in DOMAIN workspaces : workspaces[w]} = 1 .. scenario.workspaces
    BY DEF WorkInit
  <2>3. Cardinality(1 .. scenario.workspaces) = scenario.workspaces
    BY <2>1, FS_Interval
  <2> QED BY <2>1, <2>2, <2>3 DEF countByTenantId
<1>8. ceiling # NoCap => countByTenantId <= ceiling
  <2>1. PICK e \in scenario.entitled : e = entitled
    BY DEF WorkInit
  <2>2. \/ Highest(FreeLimits.maxWorkspaces, d) = NoCap
        \/ scenario.workspaces <= Highest(FreeLimits.maxWorkspaces, d)
    BY <1>1, <1>3, <2>1, RowFacts, ScenariosAssumption DEF Limits
  <2> QED BY <1>4, <1>7, <2>2
<1>9. /\ Ceiling \in [{1} -> Places!Caps] /\ Used \in [{1} -> Nat]
      /\ \A o \in {1} : Ceiling[o] # NoCap => Used[o] <= Ceiling[o]
  BY <1>5, <1>7, <1>8 DEF Ceiling, Used
<1>10. Owner = [r \in Requests |-> 0] /\ Seen \in [Requests -> Nat]
  BY <1>1 DEF Owner, Seen, Counted, Doing, IdleRequest
<1> QED BY <1>6, <1>9, <1>10 DEF Places!Init, Ceiling, Used, Owner, Seen

\* The limit on workspaces is a Quota: a creation counts, compares and takes one place,
\* and the deletion of a workspace gives one back.
THEOREM WorkspacesAreAQuota == Spec => WorkspaceQuota
<1>1. WorkInit => TypeInv /\ PlaceInv /\ Places!Init
  BY TypesInit, PlacesInit
<1>2. TypeInv /\ PlaceInv /\ [Next]_workVars
        => TypeInv' /\ PlaceInv' /\ [Places!Next]_Places!quotaVars
  BY TypesStep, PlaceInvStep, PlacesStep
<1> QED BY <1>1, <1>2, PTL DEF Spec, WorkspaceQuota, Places!Spec

WorkspaceLimit == INSTANCE QuotaProofs WITH
  Owners <- {1}, Nobody <- 0,
  used <- [k \in {1} |-> countByTenantId],
  owner <- [r \in Requests |-> IF Counted(r) THEN 1 ELSE 0],
  seen <- [r \in Requests |-> IF Counted(r) THEN req[r].seen ELSE 0],
  ceiling <- [k \in {1} |-> ceiling]

\* The limit on workspaces may be passed, by one less than there are requests at once.
WorkspacesNearCeiling == ceiling # NoCap => countByTenantId <= ceiling + Cardinality(Requests) - 1

\* However creations, deletions and changes of the subscription interleave, a tenant has
\* fewer workspaces above the highest limit it ever had than there are requests at once.
THEOREM WorkspacesStayNearCeiling == Spec => []WorkspacesNearCeiling
<1>1. WorkspaceLimit!Finite /\ WorkspaceLimit!Distinct
  BY WorkRequestsAssumption, NoCapAssumption
  DEF WorkspaceLimit!Finite, WorkspaceLimit!Distinct, WorkspaceLimit!IsFiniteSet, IsFiniteSet
<1>2. WorkspaceLimit!Spec => []WorkspaceLimit!NearCeiling
  BY <1>1, WorkspaceLimit!QuotaHolds
<1>3. Places!Init => WorkspaceLimit!Init
  BY DEF Places!Init, WorkspaceLimit!Init, Places!Caps, WorkspaceLimit!Caps
<1>4. Places!Next => WorkspaceLimit!Next
  BY DEF Places!Next, WorkspaceLimit!Next, Places!Count, WorkspaceLimit!Count, Places!Take,
     WorkspaceLimit!Take, Places!GiveUp, WorkspaceLimit!GiveUp, Places!Release,
     WorkspaceLimit!Release, Places!Found, WorkspaceLimit!Found, Places!Raise,
     WorkspaceLimit!Raise, Places!Caps, WorkspaceLimit!Caps, Places!Below, WorkspaceLimit!Below
<1>5. UNCHANGED Places!quotaVars => UNCHANGED WorkspaceLimit!quotaVars
  BY DEF Places!quotaVars, WorkspaceLimit!quotaVars
<1>6. WorkspaceLimit!NearCeiling => WorkspacesNearCeiling
  BY DEF WorkspaceLimit!NearCeiling, WorkspacesNearCeiling, Cardinality, WorkspaceLimit!Cardinality
<1> QED BY <1>2, <1>3, <1>4, <1>5, <1>6, WorkspacesAreAQuota, PTL
        DEF WorkspaceQuota, Places!Spec, WorkspaceLimit!Spec

-----------------------------------------------------------------------------
(* Files. *)

\* A request that has a publicId of its own making, and no file of it yet.
Making(q) ==
  \/ q.op = "createUploadSignature"
  \/ q.op = "upload" /\ (q.pc = "upload" \/ (q.pc \in Sweeping /\ q.next = "upload"))

\* One that has destroyed the file of a final asset and not yet its row.
Unlisting(q, d) == q.op = "deleteAsset" /\ q.pc = "unlist" /\ q.stale /\ q.doc = d

Recorded == {"final", "deleted"}
Unknown == {"none", "signed"}

\* What a row and its file have to do with one another.
RowFits(e) ==
  /\ e.row \in Recorded => e.place \in {"final", "gone"}
  /\ e.row = "final" /\ e.place = "final" => e.under = e.task
  /\ e.row \notin Recorded => e.task = 0
  /\ e.place = "final" => e.row \notin Unknown /\ e.under # 0

\* Where they disagree a request is at work, or one failed.
Accounted(e, requests, d) ==
  /\ e.row = "final" /\ e.place = "gone" =>
       e.stray \/ \E r \in Requests : Unlisting(requests[r], d)
  /\ e.row = "temporary" /\ e.place = "final" =>
       e.stray \/ \E r \in Requests : d \in Moved(requests[r])

\* What a request knows of a file.
HoldsFile(q, e, d) ==
  /\ d \in Moved(q) => e.place = "final" /\ e.under = q.task /\ e.row \notin Recorded
  /\ Open(q) => (d \in q.done => e.row = "temporary") /\ (d \in q.found => e.row \notin Unknown)
  /\ q.pc \in {"rename", "finalize"} /\ d \in q.docs => e.row \notin Unknown
  /\ q.op = "deleteAsset" /\ q.doc = d => e.row # "none"
  /\ Making(q) /\ d \in q.docs => e = NoFile

\* Files are renamed inside a transaction, or one at a time.
DoneFits(q) ==
  q.done # {} => /\ q.op \in {"createTask", "updateTask"}
                 /\ q.pc \in {"rename", "finalize", "rollback", "commit", "notify", "publish"}

\* What two requests may not both have.
Apart(p, q) ==
  /\ Moved(p) \cap Moved(q) = {}
  /\ Open(p) /\ Open(q) => p.done \cap q.done = {}
  /\ Making(p) /\ Making(q) => p.docs \cap q.docs = {}

\* An attachment was finalized for its task.
Attached(e, t) == e.row \in Recorded /\ e.task = t

FileInv ==
  /\ \A d \in DOMAIN files : RowFits(files[d]) /\ Accounted(files[d], req, d)
  /\ \A r \in Requests :
       DoneFits(req[r]) /\ \A d \in DOMAIN files : HoldsFile(req[r], files[d], d)
  /\ \A p, r \in Requests : p # r => Apart(req[p], req[r])
  /\ \A t \in DOMAIN tasks : \A d \in tasks[t].attachments : Attached(files[d], t)

(* What a step of a request makes of a file. *)

\* Its name, its row or its record changes in a way that takes nothing from a request.
Mild(r, d) ==
  LET e == files[d]
      f == files'[d]
  IN  \/ f = e
      \/ f = [e EXCEPT !.place = "gone"] /\ e.place = "temporary"
      \/ f = [e EXCEPT !.place = "gone"] /\ e.place = "final" /\ e.under = e.task /\ Unlisting(req'[r], d)
      \/ f = [e EXCEPT !.row = "swept"] /\ e.row = "temporary" /\ ~LockedFile(d)
      \/ f = [e EXCEPT !.row = "deleted"] /\ e.row = "final"
      \/ f = [e EXCEPT !.row = "temporary", !.expired = FALSE] /\ e.row = "signed"
      \/ f = [e EXCEPT !.expired = TRUE] /\ e.row = "temporary"
      \/ f = [e EXCEPT !.place = "temporary"] /\ e.row = "signed" /\ e.place = "none"
      \/ /\ f = [e EXCEPT !.stray = TRUE]
         /\ d \in Moved(req[r]) \/ (req[r].op = "deleteAsset" /\ req[r].doc = d)

\* The request makes the row of its own id.
Makes(r, d) ==
  /\ Making(req[r]) /\ d \in req[r].docs /\ ~Making(req'[r])
  /\ \/ files'[d] = [files[d] EXCEPT !.row = "signed"]
     \/ files'[d] = [files[d] EXCEPT !.place = "temporary", !.row = "signed"]

Renames(r, d) ==
  LET e == files[d]
      f == files'[d]
  IN  /\ req[r].pc = "rename" /\ d \in req[r].docs /\ e.place = "temporary"
      /\ \/ /\ f = [e EXCEPT !.place = "final", !.under = req[r].task]
            /\ d \in Moved(req'[r])
         \/ /\ f = [e EXCEPT !.place = "final", !.under = req[r].task, !.stray = TRUE]
            /\ d \notin Moved(req'[r])

Finalizes(r, d) ==
  LET e == files[d]
  IN  /\ files'[d] = [e EXCEPT !.row = "final", !.task = req[r].task, !.expired = FALSE]
      /\ e.row = "temporary" /\ d \in Moved(req[r]) /\ d \notin Moved(req'[r])
      /\ (Open(req[r]) /\ d \in req[r].done /\ ~Open(req'[r])) \/ ~LockedFile(d)

NamesBack(r, d) ==
  /\ files'[d] = [files[d] EXCEPT !.place = "temporary", !.under = 0]
  /\ d \in Moved(req[r]) /\ d \notin Moved(req'[r])

FileChange(r, d) ==
  Mild(r, d) \/ Makes(r, d) \/ Renames(r, d) \/ Finalizes(r, d) \/ NamesBack(r, d)

\* A request lets go of a file only when its record says where the file is.
LetsGo(r) ==
  \A d \in DOMAIN files :
     LET f == files'[d]
     IN  /\ d \in Moved(req[r]) =>
              d \in Moved(req'[r]) \/ f.stray \/ f.row # "temporary" \/ f.place # "final"
         /\ Unlisting(req[r], d) => Unlisting(req'[r], d) \/ f.stray \/ f.row # "final"

\* It takes only what no other has.
Takes(r) ==
  /\ \A d \in Moved(req'[r]) : d \in Moved(req[r]) \/ files[d].place = "temporary"
  /\ Open(req'[r]) =>
       \A d \in req'[r].done : (Open(req[r]) /\ d \in req[r].done) \/ ~LockedFile(d)
  /\ Making(req'[r]) =>
       \/ Making(req[r]) /\ req'[r].docs = req[r].docs
       \/ \A p \in Requests : req'[r].docs \cap req[p].docs = {}

Knows(r) ==
  DoneFits(req'[r]) /\ \A d \in DOMAIN files : HoldsFile(req'[r], files'[d], d)

Handled(r) == (\A d \in DOMAIN files : FileChange(r, d)) /\ LetsGo(r) /\ Takes(r) /\ Knows(r)

LEMMA MovedFiles == ASSUME TypeInv, NEW r \in Requests PROVE Moved(req[r]) \subseteq DOMAIN files
<1>1. DOMAIN files = 1 .. MaxFiles
  BY FileFacts
<1> QED BY <1>1, NamedFiles DEF Moved

LEMMA RowKeeps ==
  ASSUME TypeInv, NEW r \in Requests, NEW d \in DOMAIN files, RowFits(files[d]),
         HoldsFile(req[r], files[d], d), FileChange(r, d)
  PROVE  RowFits(files'[d])
<1>1. files[d] \in FileAsset
  BY FileFacts
<1>2. CASE Mild(r, d)
  BY <1>1, <1>2 DEF Mild, RowFits, FileAsset, Recorded, Unknown
<1>3. CASE Makes(r, d)
  <2>1. files[d].task = 0 /\ files[d].place = "none"
    BY <1>3 DEF Makes, HoldsFile, NoFile
  <2>2. files'[d].row = "signed" /\ files'[d].task = 0 /\ files'[d].place \in {"none", "temporary"}
    BY <1>1, <1>3, <2>1 DEF Makes, FileAsset
  <2> QED BY <2>2 DEF RowFits, Recorded
<1>4. CASE Renames(r, d)
  <2>1. req[r].task \in Nat /\ req[r].task # 0
    <3>1. req[r].task \in 1 .. Len(tasks) /\ Len(tasks) \in Nat
      BY <1>4, ReqFacts, RowFacts DEF Renames, RequestFits, NextFits, NamesFit, Lengths, Finalizing, Sweeping
    <3> QED BY <3>1
  <2>2. files[d].row \notin Unknown
    BY <1>4 DEF Renames, HoldsFile
  <2> QED BY <1>1, <1>4, <2>1, <2>2 DEF Renames, RowFits, FileAsset, Recorded, Unknown
<1>5. CASE Finalizes(r, d)
  BY <1>1, <1>5 DEF Finalizes, RowFits, HoldsFile, FileAsset, Recorded, Unknown
<1>6. CASE NamesBack(r, d)
  BY <1>1, <1>6 DEF NamesBack, RowFits, HoldsFile, FileAsset, Recorded, Unknown
<1> QED BY <1>2, <1>3, <1>4, <1>5, <1>6 DEF FileChange

\* The other requests have the same files in hand.
LEMMA SameHands ==
  ASSUME TypeInv, NEW r \in Requests, ElsewhereSpoilt(r), NEW p \in Requests \ {r}
  PROVE  /\ Moved(req'[p]) = Moved(req[p]) /\ (Open(req'[p]) <=> Open(req[p]))
         /\ req'[p].done = req[p].done /\ req'[p].docs = req[p].docs
         /\ req'[p].found = req[p].found /\ req'[p].task = req[p].task
         /\ req'[p].op = req[p].op /\ req'[p].pc = req[p].pc /\ req'[p].doc = req[p].doc
         /\ (Making(req'[p]) <=> Making(req[p]))
         /\ \A d : Unlisting(req'[p], d) <=> Unlisting(req[p], d)
<1>1. CASE req'[p] = req[p]
  BY <1>1
<1>2. CASE SpoiltBy(p)
  <2> DEFINE q == req'[p]
  <2>1. /\ q.op = req[p].op /\ q.pc = req[p].pc /\ q.next = req[p].next /\ q.doc = req[p].doc
        /\ q.done = req[p].done /\ q.docs = req[p].docs /\ q.found = req[p].found
        /\ q.batch = req[p].batch /\ q.task = req[p].task /\ req[p].op = "updateTask"
    BY <1>2, ReqFacts DEF SpoiltBy, Request
  <2> HIDE DEF q
  <2>2. Open(q) <=> Open(req[p])
    BY <2>1 DEF Open
  <2>3. Moved(q) = Moved(req[p])
    BY <2>1, <2>2 DEF Moved
  <2>4. (Making(q) <=> Making(req[p])) /\ \A d : Unlisting(q, d) <=> Unlisting(req[p], d)
    BY <2>1 DEF Making, Unlisting
  <2> QED BY <2>1, <2>2, <2>3, <2>4 DEF q
<1> QED BY <1>1, <1>2 DEF ElsewhereSpoilt

LEMMA AccountedLater ==
  ASSUME TypeInv, NEW r \in Requests, NEW d \in DOMAIN files, RowFits(files[d]),
         Accounted(files[d], req, d), HoldsFile(req[r], files[d], d), FileChange(r, d), LetsGo(r),
         ElsewhereSpoilt(r)
  PROVE  Accounted(files'[d], req', d)
<1> DEFINE e == files[d]
           f == files'[d]
<1>1. e \in FileAsset
  BY FileFacts
<1>2. ASSUME e.stray \/ \E p \in Requests : Unlisting(req[p], d),
             e.stray => f.stray, f.row = "final"
      PROVE  f.stray \/ \E p \in Requests : Unlisting(req'[p], d)
  BY <1>2, SameHands DEF LetsGo
<1>3. ASSUME e.stray \/ \E p \in Requests : d \in Moved(req[p]),
             e.stray => f.stray, f.row = "temporary", f.place = "final"
      PROVE  f.stray \/ \E p \in Requests : d \in Moved(req'[p])
  BY <1>3, SameHands DEF LetsGo
<1>4. e.stray => f.stray
  BY <1>1 DEF FileChange, Mild, Makes, Renames, Finalizes, NamesBack, FileAsset
<1>5. f.row = "final" /\ f.place = "gone" =>
        (e.row = "final" /\ e.place = "gone") \/ Unlisting(req'[r], d)
  <2>1. CASE Mild(r, d)
    BY <1>1, <2>1 DEF Mild, FileAsset, RowFits, Recorded
  <2>2. CASE Makes(r, d) \/ Renames(r, d) \/ NamesBack(r, d)
    BY <1>1, <2>2 DEF Makes, Renames, NamesBack, FileAsset
  <2>3. CASE Finalizes(r, d)
    BY <1>1, <2>3 DEF Finalizes, HoldsFile, FileAsset
  <2> QED BY <2>1, <2>2, <2>3 DEF FileChange
<1>6. f.row = "temporary" /\ f.place = "final" =>
        (e.row = "temporary" /\ e.place = "final") \/ d \in Moved(req'[r]) \/ f.stray
  <2>1. CASE Mild(r, d)
    BY <1>1, <2>1 DEF Mild, FileAsset, RowFits, Unknown
  <2>2. CASE Makes(r, d) \/ NamesBack(r, d) \/ Finalizes(r, d)
    BY <1>1, <2>2 DEF Makes, NamesBack, Finalizes, FileAsset
  <2>3. CASE Renames(r, d)
    BY <1>1, <2>3 DEF Renames, FileAsset
  <2> QED BY <2>1, <2>2, <2>3 DEF FileChange
<1> HIDE DEF e, f
<1>7. Accounted(e, req, d)
  BY DEF e
<1>8. Accounted(f, req', d)
  BY <1>2, <1>3, <1>4, <1>5, <1>6, <1>7 DEF Accounted
<1> QED BY <1>8 DEF f

\* What takes nothing leaves every request with what it knows.
LEMMA MildHolds ==
  ASSUME TypeInv, NEW r \in Requests, NEW d \in DOMAIN files, NEW p \in Requests,
         RowFits(files[d]), HoldsFile(req[p], files[d], d), Mild(r, d),
         HoldsFile(req[r], files[d], d)
  PROVE  HoldsFile(req[p], files'[d], d)
<1> DEFINE e == files[d]
           f == files'[d]
           q == req[p]
<1>1. e \in FileAsset
  BY FileFacts
<1>2. d \in Moved(q) => f.place = "final" /\ f.under = q.task /\ f.row \notin Recorded
  BY <1>1 DEF Mild, HoldsFile, RowFits, FileAsset, Recorded, Unknown
<1>3. Open(q) /\ d \in q.done => f.row = "temporary"
  BY <1>1 DEF Mild, HoldsFile, FileAsset, LockedFile, InTransaction
<1>4. /\ e.row \notin Unknown => f.row \notin Unknown
      /\ e.row # "none" => f.row # "none"
  BY <1>1 DEF Mild, FileAsset, Unknown
<1>5. e = NoFile => f = e
  BY <1>1 DEF Mild, HoldsFile, NoFile, FileAsset
<1> HIDE DEF e, f, q
<1>6. HoldsFile(q, e, d)
  BY DEF q, e
<1>7. HoldsFile(q, f, d)
  BY <1>2, <1>3, <1>4, <1>5, <1>6 DEF HoldsFile
<1> QED BY <1>7 DEF q, f

LEMMA OthersHold ==
  ASSUME TypeInv, NEW r \in Requests, NEW d \in DOMAIN files, NEW p \in Requests \ {r},
         RowFits(files[d]), HoldsFile(req[p], files[d], d), HoldsFile(req[r], files[d], d),
         Apart(req[p], req[r]), FileChange(r, d)
  PROVE  HoldsFile(req[p], files'[d], d)
<1> DEFINE e == files[d]
           f == files'[d]
           q == req[p]
<1>1. e \in FileAsset
  BY FileFacts
<1>2. CASE Mild(r, d)
  BY <1>2, MildHolds
<1>3. CASE Makes(r, d)
  <2>1. e = NoFile /\ f.row = "signed"
    BY <1>1, <1>3 DEF Makes, HoldsFile, FileAsset
  <2>2. d \notin Moved(q)
    BY <2>1 DEF HoldsFile, NoFile
  <2>3. ~(Open(q) /\ d \in q.done) /\ ~(Open(q) /\ d \in q.found)
        /\ ~(q.pc \in {"rename", "finalize"} /\ d \in q.docs)
    BY <2>1 DEF HoldsFile, NoFile, Unknown
  <2>4. ~(q.op = "deleteAsset" /\ q.doc = d)
    BY <2>1 DEF HoldsFile, NoFile
  <2>5. ~(Making(q) /\ d \in q.docs)
    BY <1>3 DEF Makes, Apart
  <2> HIDE DEF e, f, q
  <2>6. HoldsFile(q, f, d)
    BY <2>2, <2>3, <2>4, <2>5 DEF HoldsFile
  <2> QED BY <2>6 DEF q, f
<1>4. CASE Renames(r, d)
  <2>1. e.place = "temporary" /\ f.row = e.row
    BY <1>1, <1>4 DEF Renames, FileAsset
  <2>2. d \notin Moved(q) /\ e # NoFile
    BY <2>1 DEF HoldsFile, NoFile
  <2>3. HoldsFile(q, e, d)
    OBVIOUS
  <2> HIDE DEF e, f, q
  <2>4. HoldsFile(q, f, d)
    BY <2>1, <2>2, <2>3 DEF HoldsFile
  <2> QED BY <2>4 DEF q, f
<1>5. CASE Finalizes(r, d)
  <2>1. d \in Moved(req[r]) /\ e.row = "temporary" /\ f.row = "final" /\ e # NoFile
    BY <1>1, <1>5 DEF Finalizes, FileAsset, NoFile
  <2>2. d \notin Moved(q)
    BY <2>1 DEF Apart
  <2>3. ~(Open(q) /\ d \in q.done)
    BY <1>5 DEF Finalizes, Apart, LockedFile, InTransaction
  <2>4. HoldsFile(q, e, d)
    OBVIOUS
  <2> HIDE DEF e, f, q
  <2>5. HoldsFile(q, f, d)
    BY <2>1, <2>2, <2>3, <2>4 DEF HoldsFile, Unknown
  <2> QED BY <2>5 DEF q, f
<1>6. CASE NamesBack(r, d)
  <2>1. d \in Moved(req[r]) /\ f.row = e.row /\ e # NoFile
    BY <1>1, <1>6 DEF NamesBack, HoldsFile, FileAsset, NoFile
  <2>2. d \notin Moved(q)
    BY <2>1 DEF Apart
  <2>3. HoldsFile(q, e, d)
    OBVIOUS
  <2> HIDE DEF e, f, q
  <2>4. HoldsFile(q, f, d)
    BY <2>1, <2>2, <2>3 DEF HoldsFile
  <2> QED BY <2>4 DEF q, f
<1> QED BY <1>2, <1>3, <1>4, <1>5, <1>6 DEF FileChange

LEMMA ApartLater ==
  ASSUME TypeInv, FileInv, NEW r \in Requests, ElsewhereSpoilt(r), Takes(r),
         NEW p \in Requests, NEW q \in Requests, p # q
  PROVE  Apart(req'[p], req'[q])
<1>1. ASSUME NEW o \in Requests \ {r} PROVE Apart(req'[r], req'[o])
  <2>1. Apart(req[r], req[o])
    BY DEF FileInv
  <2>2. Moved(req'[r]) \cap Moved(req'[o]) = {}
    <3>1. ASSUME NEW d \in Moved(req'[r]), d \in Moved(req[o]) PROVE FALSE
      <4>1. files[d].place = "final"
        BY <3>1, MovedFiles DEF FileInv, HoldsFile
      <4> QED BY <2>1, <3>1, <4>1 DEF Takes, Apart
    <3> QED BY <3>1, SameHands
  <2>3. Open(req'[r]) /\ Open(req'[o]) => req'[r].done \cap req'[o].done = {}
    BY <2>1, SameHands DEF Takes, Apart, LockedFile, InTransaction
  <2>4. Making(req'[r]) /\ Making(req'[o]) => req'[r].docs \cap req'[o].docs = {}
    BY <2>1, SameHands DEF Takes, Apart
  <2> QED BY <2>2, <2>3, <2>4 DEF Apart
<1>2. ASSUME p # r, q # r PROVE Apart(req'[p], req'[q])
  <2>1. Apart(req[p], req[q])
    BY DEF FileInv
  <2> QED BY <1>2, <2>1, SameHands DEF Apart
<1>3. Apart(req'[p], req'[q]) <=> Apart(req'[q], req'[p])
  BY DEF Apart
<1> QED BY <1>1, <1>2, <1>3

\* A recorded file stays the attachment it is.
LEMMA AttachedLater ==
  ASSUME TypeInv, NEW r \in Requests, NEW d \in DOMAIN files, RowFits(files[d]),
         HoldsFile(req[r], files[d], d), FileChange(r, d), NEW t, Attached(files[d], t)
  PROVE  Attached(files'[d], t)
<1>1. files[d] \in FileAsset
  BY FileFacts
<1>2. CASE Mild(r, d)
  BY <1>1, <1>2 DEF Mild, Attached, FileAsset, Recorded
<1>3. ~Makes(r, d)
  BY <1>1 DEF Makes, Attached, HoldsFile, Recorded, NoFile
<1>4. ~Renames(r, d) /\ ~Finalizes(r, d) /\ ~NamesBack(r, d)
  BY <1>1 DEF Renames, Finalizes, NamesBack, Attached, RowFits, HoldsFile, Recorded
<1> QED BY <1>2, <1>3, <1>4 DEF FileChange

\* What a commit attaches it finalizes.
LEMMA CommitAttaches ==
  ASSUME TypeInv, FileInv, NEW r \in Requests, Open(req[r]), req[r].pc = "commit",
         files' = Finalized(req[r].done, req[r].task), NEW d \in req[r].done
  PROVE  Attached(files'[d], req[r].task)
<1>1. d \in DOMAIN files
  BY NamedFiles, FileFacts
<1>2. files[d].row = "temporary" /\ files[d] \in FileAsset
  BY <1>1, FileFacts DEF FileInv, HoldsFile
<1>3. d \in findTemporary(req[r].done)
  BY <1>2 DEF findTemporary
<1>4. files'[d] = [files[d] EXCEPT !.row = "final", !.task = req[r].task, !.expired = FALSE]
  BY <1>1, <1>3 DEF Finalized
<1> QED BY <1>2, <1>4 DEF Attached, Recorded, FileAsset

LEMMA AttachmentsLater ==
  ASSUME TypeInv, FileInv, NEW r \in Requests, \A d \in DOMAIN files : FileChange(r, d),
         tasks' = tasks \/ Step(r), NEW t \in DOMAIN tasks', NEW d \in tasks'[t].attachments
  PROVE  Attached(files'[d], t)
<1>1. ASSUME t \in DOMAIN tasks, d \in tasks[t].attachments PROVE Attached(files'[d], t)
  <2>1. d \in DOMAIN files
    BY <1>1, RowFacts, FileFacts DEF Task
  <2>2. Attached(files[d], t) /\ RowFits(files[d]) /\ HoldsFile(req[r], files[d], d)
    BY <1>1, <2>1 DEF FileInv
  <2> QED BY <2>1, <2>2, AttachedLater
<1>2. CASE tasks' = tasks
  BY <1>1, <1>2
<1>3. CASE Step(r)
  <2>1. TasksChange(r)
    BY <1>3, StepChangesTasks
  <2>2. CASE t \notin DOMAIN tasks
    <3>1. Drafts(r) /\ t = Len(tasks) + 1
      BY <2>1, <2>2, RowFacts DEF TasksChange, Drafts
    <3> QED BY <3>1 DEF Drafts, NewTask
  <2>3. CASE t \in DOMAIN tasks
    <3>1. tasks[t] \in Task
      BY <2>3, RowFacts
    <3>2. CASE tasks'[t] = tasks[t] \/ Misses(r, t)
      BY <1>1, <2>3, <3>2, MissedSameRow DEF SameRow
    <3>3. CASE Abandons(r, t) \/ Deletes(r, t)
      BY <1>1, <2>3, <3>1, <3>3 DEF Abandons, Deletes, Task
    <3>4. CASE Creates(r, t)
      <4>1. tasks'[t].attachments = req[r].done /\ files' = Finalized(req[r].done, req[r].task)
        BY <3>1, <3>4 DEF Creates, Committed, Task
      <4>2. Open(req[r]) /\ req[r].pc = "commit" /\ t = req[r].task
        BY <3>4 DEF Creates, Drafting
      <4> QED BY <4>1, <4>2, CommitAttaches
    <3>5. CASE Updates(r, t)
      <4>1. Open(req[r]) /\ req[r].pc = "commit" /\ t = req[r].task /\ tasks'[t] = Patched(r)
            /\ files' = Finalized(req[r].done, req[r].task)
        BY <3>5 DEF Updates, Committed
      <4>2. tasks'[t].attachments \subseteq tasks[t].attachments \cup req[r].done
        BY <3>1, <4>1 DEF Patched, Task
      <4> QED BY <1>1, <2>3, <4>1, <4>2, CommitAttaches
    <3> QED BY <2>1, <2>3, <3>2, <3>3, <3>4, <3>5 DEF TasksChange, Drafts, Changes
  <2> QED BY <2>2, <2>3
<1> QED BY <1>2, <1>3

LEMMA FilesFollow ==
  ASSUME TypeInv, TypeInv', FileInv, NEW r \in Requests, ElsewhereSpoilt(r), Handled(r),
         tasks' = tasks \/ Step(r)
  PROVE  FileInv'
<1>1. DOMAIN files' = DOMAIN files
  BY FileFacts DEF TypeInv, TypeOK, WorkTypeOK
<1>2. ASSUME NEW d \in DOMAIN files
      PROVE  RowFits(files'[d]) /\ Accounted(files'[d], req', d)
  <2>1. /\ RowFits(files[d]) /\ Accounted(files[d], req, d) /\ HoldsFile(req[r], files[d], d)
        /\ FileChange(r, d) /\ LetsGo(r)
    BY DEF FileInv, Handled
  <2> QED BY <2>1, RowKeeps, AccountedLater
<1>3. ASSUME NEW p \in Requests
      PROVE  DoneFits(req'[p]) /\ \A d \in DOMAIN files : HoldsFile(req'[p], files'[d], d)
  <2>1. CASE p = r
    BY <2>1 DEF Handled, Knows
  <2>2. CASE p # r
    <3>1. DoneFits(req'[p])
      BY <2>2, SameHands DEF FileInv, DoneFits
    <3>2. ASSUME NEW d \in DOMAIN files PROVE HoldsFile(req'[p], files'[d], d)
      <4>1. HoldsFile(req[p], files'[d], d)
        BY <2>2, OthersHold DEF FileInv, Handled
      <4> QED BY <2>2, <4>1, SameHands DEF HoldsFile
    <3> QED BY <3>1, <3>2
  <2> QED BY <2>1, <2>2
<1>4. \A p, q \in Requests : p # q => Apart(req'[p], req'[q])
  BY ApartLater DEF Handled
<1>5. \A t \in DOMAIN tasks' : \A d \in tasks'[t].attachments : Attached(files'[d], t)
  BY AttachmentsLater DEF Handled
<1> QED BY <1>1, <1>2, <1>3, <1>4, <1>5 DEF FileInv

(* The steps, one after the other. *)

\* A request that has no file in hand.
Quiet(q) ==
  /\ ~Open(q) /\ q.pc \notin {"rename", "finalize", "rollback"}
  /\ q.op # "deleteAsset" /\ ~Making(q)

\* A request that has the same files in hand as before.
SameGrip(p, q) ==
  /\ q.op = p.op /\ q.task = p.task /\ q.docs = p.docs /\ q.done = p.done /\ q.found = p.found
  /\ Moved(q) = Moved(p) /\ (Open(q) <=> Open(p)) /\ (Making(q) => Making(p))
  /\ q.pc \in {"rename", "finalize"} => p.pc \in {"rename", "finalize"}
  /\ q.op = "deleteAsset" => q.doc = p.doc
  /\ \A d : Unlisting(p, d) => Unlisting(q, d)
  /\ DoneFits(q)

LEMMA QuietHands ==
  ASSUME NEW q, Quiet(q)
  PROVE  Moved(q) = {} /\ (\A d : ~Unlisting(q, d)) /\ \A e, d : HoldsFile(q, e, d)
BY DEF Quiet, Moved, Unlisting, HoldsFile

LEMMA RestHandled ==
  ASSUME NEW r \in Requests, \A d \in DOMAIN files : FileChange(r, d), LetsGo(r),
         Quiet(req'[r]), DoneFits(req'[r])
  PROVE  Handled(r)
<1>1. Moved(req'[r]) = {} /\ \A e, d : HoldsFile(req'[r], e, d)
  BY QuietHands
<1>2. Takes(r) /\ Knows(r)
  BY <1>1 DEF Takes, Knows, Quiet
<1> QED BY <1>2 DEF Handled

\* The step of a request that has no file in hand before, nor after.
LEMMA QuietHandled ==
  ASSUME NEW r \in Requests, \A d \in DOMAIN files : Mild(r, d), Quiet(req[r]),
         Quiet(req'[r]), DoneFits(req'[r])
  PROVE  Handled(r)
<1>1. LetsGo(r)
  BY QuietHands DEF LetsGo
<1> QED BY <1>1, RestHandled DEF FileChange

LEMMA GripHandled ==
  ASSUME TypeInv, FileInv, NEW r \in Requests, \A d \in DOMAIN files : Mild(r, d),
         SameGrip(req[r], req'[r])
  PROVE  Handled(r)
<1>1. LetsGo(r) /\ Takes(r)
  BY DEF LetsGo, Takes, SameGrip
<1>2. ASSUME NEW d \in DOMAIN files PROVE HoldsFile(req'[r], files'[d], d)
  <2>1. HoldsFile(req[r], files'[d], d)
    BY MildHolds DEF FileInv
  <2> QED BY <2>1 DEF SameGrip, HoldsFile
<1>3. Knows(r)
  BY <1>2 DEF Knows, SameGrip
<1> QED BY <1>1, <1>3 DEF Handled, FileChange

LEMMA SameFilesMild ==
  ASSUME files' = files, NEW r PROVE \A d \in DOMAIN files : Mild(r, d)
BY DEF Mild

LEMMA IdleQuiet == Quiet(IdleRequest) /\ DoneFits(IdleRequest)
BY DEF IdleRequest, Quiet, Open, Making, DoneFits

LEMMA FinishQuiet ==
  ASSUME TypeInv, NEW r \in Requests, Finish(r) PROVE Quiet(req'[r]) /\ DoneFits(req'[r])
<1>1. req'[r] = IdleRequest
  BY ReqFacts DEF Finish
<1> QED BY <1>1, IdleQuiet

\* What is put down says where it is.
LEMMA StrayFiles ==
  ASSUME TypeInv, NEW r \in Requests, NEW S, files' = Stray(files, S)
  PROVE  \A d \in DOMAIN files :
           IF d \in S THEN files'[d] = [files[d] EXCEPT !.stray = TRUE] /\ files'[d].stray
           ELSE files'[d] = files[d]
BY FileFacts DEF Stray, FileAsset

\* A request that fails with files in hand.
LEMMA StrayHandled ==
  ASSUME TypeInv, NEW r \in Requests, NEW S, files' = Stray(files, S), Moved(req[r]) \subseteq S,
         \A d \in S : d \in Moved(req[r]) \/ (req[r].op = "deleteAsset" /\ req[r].doc = d),
         \A d : Unlisting(req[r], d) => d \in S, Finish(r)
  PROVE  Handled(r)
<1>1. \A d \in DOMAIN files :
        IF d \in S THEN files'[d] = [files[d] EXCEPT !.stray = TRUE] /\ files'[d].stray
        ELSE files'[d] = files[d]
  BY StrayFiles
<1>2. \A d \in DOMAIN files : FileChange(r, d)
  BY <1>1 DEF FileChange, Mild
<1>3. LetsGo(r)
  BY <1>1 DEF LetsGo
<1> QED BY <1>2, <1>3, FinishQuiet, RestHandled

\* A request that fails with none.
LEMMA LeavesHandled ==
  ASSUME TypeInv, NEW r \in Requests, files' = files, Moved(req[r]) = {},
         \A d : ~Unlisting(req[r], d), Finish(r)
  PROVE  Handled(r)
<1>1. LetsGo(r)
  BY DEF LetsGo
<1> QED BY <1>1, SameFilesMild, FinishQuiet, RestHandled DEF FileChange

\* Whoever has no renamed file has moved none, but for the one it is at.
LEMMA MovedMeans ==
  ASSUME NEW q, DoneFits(q)
  PROVE  /\ q.pc \in {"rename", "commit"} => Moved(q) = q.done
         /\ q.pc = "rollback" => Moved(q) = q.batch
         /\ q.pc = "finalize" => Moved(q) = q.done \cup {q.doc}
         /\ q.pc \notin {"rename", "commit", "rollback", "finalize"} => Moved(q) = {}
         /\ q.pc \notin {"rename", "finalize", "rollback", "commit", "notify", "publish"} => q.done = {}
BY DEF Moved, DoneFits, Open

(* The sweep. *)

LEMMA SweepGrip ==
  ASSUME NEW p, NEW q, p.pc \in Sweeping, p.op # "deleteAsset", NextFits(p.op, p.pc, p.next),
         DoneFits(p), q.op = p.op, q.task = p.task, q.docs = p.docs, q.done = p.done,
         q.found = p.found, q.next = p.next,
         q.pc \in Sweeping \/ (q.pc = p.next /\ p.next # "idle")
  PROVE  SameGrip(p, q)
<1>1. p.next \in {"find", "count", "existing", "upload", "idle"}
  BY DEF NextFits
<1>2. q.pc \in {"sweep", "destroy", "unlist", "find", "count", "existing", "upload"}
      /\ p.pc \in {"sweep", "destroy", "unlist"}
  BY <1>1 DEF Sweeping
<1>3. DoneFits(q) /\ p.done = {}
  BY <1>2, MovedMeans DEF DoneFits
<1>4. Moved(p) = {} /\ Moved(q) = {}
  BY <1>2, <1>3, MovedMeans
<1>5. Open(q) <=> Open(p)
  BY <1>2 DEF NextFits, Open, Sweeping
<1>6. Making(q) => Making(p)
  BY <1>2 DEF Making, Sweeping
<1> QED BY <1>2, <1>3, <1>4, <1>5, <1>6 DEF SameGrip, Unlisting

LEMMA SweepHandled ==
  ASSUME TypeInv, FileInv, NEW r \in Requests, Sweep(r) \/ SweepDestroy(r) \/ SweepUnlist(r)
  PROVE  Handled(r)
<1>1. req \in [Requests -> Request] /\ req[r] \in Request /\ DoneFits(req[r])
  BY ReqFacts DEF FileInv
<1>2. /\ req[r].pc \in Sweeping /\ req[r].op # "deleteAsset"
      /\ NextFits(req[r].op, req[r].pc, req[r].next)
  <2>1. NextFits(req[r].op, req[r].pc, req[r].next) /\ RequestFits(req[r], Lengths)
    BY ReqFacts DEF RequestFits
  <2> QED BY <2>1 DEF Sweep, SweepDestroy, SweepUnlist, At, Doing, Sweeping, RequestFits, PcFits
<1>3. Moved(req[r]) = {} /\ \A d : ~Unlisting(req[r], d)
  BY <1>1, <1>2, MovedMeans DEF Sweeping, Unlisting
<1>4. \A d \in DOMAIN files : Mild(r, d)
  <2>1. CASE files' = files
    BY <2>1, SameFilesMild
  <2>2. CASE \E d \in req[r].batch : files' = destroyTemporary(d)
    BY <2>2, FileFacts DEF destroyTemporary, Mild
  <2>3. CASE SweepUnlist(r)
    BY <2>3, FileFacts DEF SweepUnlist, deleteTemporary, Mild
  <2> QED BY <2>1, <2>2, <2>3 DEF Sweep, SweepDestroy
<1>5. CASE Finish(r)
  <2>1. LetsGo(r)
    BY <1>3 DEF LetsGo
  <2> QED BY <1>4, <1>5, <2>1, FinishQuiet, RestHandled DEF FileChange
<1>6. CASE ~Finish(r)
  <2> DEFINE p == req[r]
             q == req'[r]
  <2>1. /\ q.op = p.op /\ q.task = p.task /\ q.docs = p.docs /\ q.done = p.done
        /\ q.found = p.found /\ q.next = p.next
        /\ q.pc \in Sweeping \/ (q.pc = p.next /\ p.next # "idle")
    <3>1. CASE Onward(r)
      BY <1>1, <1>6, <3>1 DEF Onward, Goto, Request
    <3>2. CASE Sweep(r) /\ ~Onward(r)
      BY <1>1, <3>2 DEF Sweep, Sweeping, Request
    <3>3. CASE \E d \in p.batch : req' = [req EXCEPT ![r].pc = "unlist", ![r].doc = d, ![r].batch = @ \ {d}]
      BY <1>1, <3>3 DEF Sweeping, Request
    <3>4. CASE \E d \in p.batch : req' = [req EXCEPT ![r].batch = @ \ {d}]
      BY <1>1, <1>2, <3>4 DEF Sweeping, Request
    <3>5. CASE Goto(r, "destroy")
      BY <1>1, <3>5 DEF Goto, Sweeping, Request
    <3> QED BY <3>1, <3>2, <3>3, <3>4, <3>5 DEF SweepDestroy, SweepUnlist
  <2> HIDE DEF p, q
  <2>2. SameGrip(p, q)
    BY <1>1, <1>2, <2>1, SweepGrip DEF p
  <2> QED BY <1>4, <2>2, GripHandled DEF p, q
<1> QED BY <1>5, <1>6

(* Uploads. *)

LEMMA DoneNowhere ==
  ASSUME TypeInv, FileInv, NEW r \in Requests,
         req[r].pc \notin {"rename", "finalize", "rollback", "commit", "notify", "publish"}
  PROVE  req[r].done = {} /\ Moved(req[r]) = {} /\ DoneFits(req[r])
BY MovedMeans DEF FileInv

LEMMA CountHandled ==
  ASSUME TypeInv, FileInv, NEW r \in Requests, CountFiles(r) PROVE Handled(r)
<1> DEFINE p == req[r]
           q == req'[r]
<1>1. /\ p.pc = "count" /\ p.op = "createUploadSignature" /\ q.pc = "limit" /\ q.op = p.op
      /\ q.task = p.task /\ q.docs = p.docs /\ q.done = p.done /\ q.found = p.found
  BY ReqFacts DEF CountFiles, At, Doing, Request
<1>2. Moved(p) = {} /\ p.done = {}
  BY <1>1, DoneNowhere
<1>3. files' = files
  BY DEF CountFiles
<1> HIDE DEF p, q
<1>4. SameGrip(p, q)
  BY <1>1, <1>2 DEF SameGrip, Moved, Open, Making, Unlisting, DoneFits
<1> QED BY <1>3, <1>4, SameFilesMild, GripHandled DEF p, q

LEMMA SignHandled ==
  ASSUME TypeInv, FileInv, NEW r \in Requests, Sign(r) \/ UploadBuffer(r) PROVE Handled(r)
<1>1. req \in [Requests -> Request] /\ req[r] \in Request /\ RequestFits(req[r], Lengths)
  BY ReqFacts
<1>2. /\ req[r].op \in {"createUploadSignature", "upload"}
      /\ req[r].pc \in {"limit", "upload"} /\ Making(req[r])
  BY <1>1 DEF Sign, UploadBuffer, At, Doing, RequestFits, PcFits, Making, Sweeping, Finalizing,
     Announcing, ChatPcs
<1>3. Moved(req[r]) = {} /\ req[r].done = {} /\ \A d : ~Unlisting(req[r], d)
  BY <1>2, DoneNowhere DEF Unlisting
<1>4. Quiet(req'[r]) /\ DoneFits(req'[r])
  <2>1. CASE UploadBuffer(r)
    <3>1. req'[r].op = "upload" /\ req'[r].pc = "sweep" /\ req'[r].next = "existing"
          /\ req'[r].done = {}
      BY <1>1, <1>3, <2>1 DEF UploadBuffer, At, RequestFits, PcFits, Request, Sweeping,
         Finalizing, Announcing, ChatPcs
    <3> QED BY <3>1 DEF Quiet, Open, Making, DoneFits
  <2> QED BY <2>1, FinishQuiet DEF Sign
<1>5. \A d \in DOMAIN files : FileChange(r, d)
  <2>1. ~Making(req'[r])
    BY <1>4 DEF Quiet
  <2>2. CASE Sign(r)
    <3>1. PICK d \in req[r].docs : \E row \in {"signed", files[d].row} :
                 files' = [files EXCEPT ![d].row = row]
      BY <2>2 DEF Sign
    <3>2. \A c \in DOMAIN files : files'[c] = files[c] \/ (c = d /\ files'[c] = [files[c] EXCEPT !.row = "signed"])
      BY <3>1, FileFacts DEF FileAsset
    <3> QED BY <1>2, <2>1, <3>2 DEF FileChange, Mild, Makes
  <2>3. CASE UploadBuffer(r)
    <3>1. PICK d \in req[r].docs :
                 files' = [files EXCEPT ![d].place = "temporary", ![d].row = "signed"]
      BY <2>3 DEF UploadBuffer
    <3>2. \A c \in DOMAIN files :
            \/ files'[c] = files[c]
            \/ c = d /\ files'[c] = [files[c] EXCEPT !.place = "temporary", !.row = "signed"]
      BY <3>1, FileFacts DEF FileAsset
    <3> QED BY <1>2, <2>1, <3>2 DEF FileChange, Mild, Makes
  <2> QED BY <2>2, <2>3
<1>6. LetsGo(r)
  BY <1>3 DEF LetsGo
<1> QED BY <1>4, <1>5, <1>6, RestHandled

LEMMA RegisterHandled ==
  ASSUME TypeInv, FileInv, NEW r \in Requests,
         FindExisting(r) \/ SumFinalizedBytes(r) \/ CreateAsset(r)
  PROVE  Handled(r)
<1>1. req \in [Requests -> Request] /\ req[r] \in Request /\ RequestFits(req[r], Lengths)
  BY ReqFacts
<1>2. req[r].op \in {"registerAsset", "upload"} /\ req[r].pc \in {"existing", "sum", "insert"}
  BY <1>1 DEF FindExisting, SumFinalizedBytes, CreateAsset, At, RequestFits, PcFits, Sweeping,
     Finalizing, Announcing, ChatPcs
<1>3. req[r].done = {} /\ Quiet(req[r])
  BY <1>2, DoneNowhere DEF Quiet, Open, Making, Sweeping
<1>4. Quiet(req'[r]) /\ DoneFits(req'[r])
  <2>1. CASE Finish(r)
    BY <2>1, FinishQuiet
  <2>2. CASE ~Finish(r)
    <3>1. /\ req'[r].op = req[r].op /\ req'[r].done = req[r].done
          /\ req'[r].pc \in {"sum", "insert"} \/ (req'[r].pc = "sweep" /\ req'[r].next = "find")
      <4>1. CASE FindExisting(r)
        BY <1>1, <2>2, <4>1 DEF FindExisting, Goto, Request
      <4>2. CASE SumFinalizedBytes(r)
        BY <1>1, <4>2 DEF SumFinalizedBytes, Request
      <4>3. CASE CreateAsset(r)
        <5>1. req' = [req EXCEPT ![r].pc = "sweep", ![r].next = "find"]
          BY <2>2, <4>3 DEF CreateAsset
        <5> QED BY <1>1, <5>1 DEF Request
      <4> QED BY <4>1, <4>2, <4>3
    <3> QED BY <1>2, <1>3, <3>1 DEF Quiet, Open, Making, DoneFits, Sweeping
  <2> QED BY <2>1, <2>2
<1>5. \A d \in DOMAIN files : Mild(r, d)
  <2>1. CASE files' = files
    BY <2>1, SameFilesMild
  <2>2. CASE files' # files
    <3>1. PICK d \in req[r].docs :
             /\ files[d].row = "signed"
             /\ files' = [files EXCEPT ![d].row = "temporary", ![d].expired = FALSE]
      BY <2>2 DEF FindExisting, SumFinalizedBytes, CreateAsset
    <3>2. \A c \in DOMAIN files :
            \/ files'[c] = files[c]
            \/ c = d /\ files'[c] = [files[c] EXCEPT !.row = "temporary", !.expired = FALSE]
      BY <3>1, FileFacts DEF FileAsset
    <3> QED BY <3>1, <3>2 DEF Mild
  <2> QED BY <2>1, <2>2
<1> QED BY <1>3, <1>4, <1>5, QuietHandled

(* Finalizing. *)

\* A request goes on with the same transaction, or none, and knows what it knew.
LEMMA HoldsOn ==
  ASSUME NEW p, NEW q, NEW e, NEW f, NEW d, HoldsFile(p, e, d), f.row = e.row,
         q.docs = p.docs, q.done = p.done, q.found = p.found, q.op # "deleteAsset", ~Making(q),
         Open(q) => Open(p),
         q.pc \in {"rename", "finalize"} => p.pc \in {"rename", "finalize"},
         d \in Moved(q) => f.place = "final" /\ f.under = q.task /\ f.row \notin Recorded
  PROVE  HoldsFile(q, f, d)
BY DEF HoldsFile

\* The points of a request that finalizes.
LEMMA FinalizingFacts ==
  ASSUME TypeInv, NEW r \in Requests, req[r].pc \in {"find", "rename", "finalize", "rollback"}
  PROVE  /\ req[r].op \in {"createTask", "updateTask", "upload", "finalizeAsset"}
         /\ ~Making(req[r]) /\ (\A d : ~Unlisting(req[r], d))
         /\ req[r].docs \cup req[r].found \cup req[r].done \cup req[r].batch \subseteq DOMAIN files
         /\ req[r].pc = "finalize" => req[r].doc \in DOMAIN files
<1>1. req[r] \in Request /\ RequestFits(req[r], Lengths)
  BY ReqFacts
<1>2. req[r].op \in {"createTask", "updateTask", "upload", "finalizeAsset"}
  BY <1>1 DEF RequestFits, PcFits, Sweeping, Finalizing, Announcing, ChatPcs
<1>3. ~Making(req[r]) /\ \A d : ~Unlisting(req[r], d)
  BY <1>2 DEF Making, Unlisting, Sweeping
<1>4. req[r].pc = "finalize" => req[r].doc \in 1 .. MaxFiles
  BY <1>1 DEF RequestFits, NamesFit
<1> QED BY <1>1, <1>2, <1>3, <1>4, FileFacts DEF Request

LEMMA FindHandled ==
  ASSUME TypeInv, FileInv, NEW r \in Requests, FindTemporaryAssets(r) PROVE Handled(r)
<1>1. req \in [Requests -> Request] /\ req[r] \in Request /\ files' = files /\ req[r].pc = "find"
  BY ReqFacts DEF FindTemporaryAssets, At
<1>2. /\ req[r].op \in {"createTask", "updateTask", "upload", "finalizeAsset"}
      /\ \A d : ~Unlisting(req[r], d)
  BY <1>1, FinalizingFacts
<1>3. Moved(req[r]) = {} /\ req[r].done = {}
  BY <1>1, DoneNowhere
<1>4. CASE Finish(r)
  BY <1>1, <1>2, <1>3, <1>4, LeavesHandled
<1>5. CASE ~Finish(r)
  <2> DEFINE p == req[r]
             q == req'[r]
  <2>1. /\ q.op = p.op /\ q.task = p.task /\ q.docs = p.docs /\ q.done = p.done
        /\ q.found = p.found /\ q.pc \in {"rename", "commit"} /\ p.docs \subseteq FoundBy(r)
        /\ q.pc = "commit" => p.docs = {}
    BY <1>1, <1>5 DEF FindTemporaryAssets, Abort, Goto, Request
  <2>2. \A d \in DOMAIN files : HoldsFile(p, files[d], d)
    BY DEF FileInv
  <2>3. \A d \in DOMAIN files : d \in p.docs => files[d].row \notin Unknown
    <3>1. CASE Open(p)
      BY <2>1, <2>2, <3>1 DEF FoundBy, InTransaction, HoldsFile
    <3>2. CASE ~Open(p)
      BY <2>1, <3>2 DEF FoundBy, InTransaction, findTemporary, Unknown
    <3> QED BY <3>1, <3>2
  <2>4. p.pc = "find" /\ p.done = {} /\ Moved(p) = {}
    BY <1>1, <1>3
  <2>5. p.op \in {"createTask", "updateTask", "upload", "finalizeAsset"} /\ \A d : ~Unlisting(p, d)
    BY <1>2
  <2> HIDE DEF p, q
  <2>6. Moved(q) = {} /\ DoneFits(q) /\ ~Making(q) /\ (Open(q) <=> Open(p))
        /\ \A d : ~Unlisting(q, d)
    BY <2>1, <2>4, <2>5 DEF Moved, Open, DoneFits, Making, Unlisting, Sweeping
  <2>7. \A d \in DOMAIN files : HoldsFile(q, files[d], d)
    BY <2>1, <2>2, <2>3, <2>4, <2>5, <2>6 DEF HoldsFile
  <2>8. LetsGo(r) /\ Takes(r)
    BY <2>1, <2>4, <2>5, <2>6 DEF LetsGo, Takes, p, q
  <2>9. Knows(r)
    BY <1>1, <2>6, <2>7 DEF Knows, q
  <2> QED BY <1>1, <2>8, <2>9, SameFilesMild DEF Handled, FileChange
<1> QED BY <1>4, <1>5

\* A request renames files, or names them back, and has the others in hand as before.
LEMMA NamingHandled ==
  ASSUME TypeInv, FileInv, NEW r \in Requests,
         req[r].pc \in {"rename", "finalize", "rollback"},
         req'[r].pc \in {"rename", "finalize", "rollback"},
         req'[r].pc \in {"rename", "finalize"} => req[r].pc \in {"rename", "finalize"},
         req'[r].op = req[r].op, req'[r].task = req[r].task, req'[r].docs = req[r].docs,
         req'[r].done = req[r].done, req'[r].found = req[r].found,
         \A d \in DOMAIN files : FileChange(r, d) /\ files'[d].row = files[d].row,
         \A d \in Moved(req'[r]) :
            /\ d \in Moved(req[r]) \/ files[d].place = "temporary"
            /\ files'[d].place = "final" /\ files'[d].under = req[r].task
            /\ files[d].row \notin Recorded,
         \A d \in Moved(req[r]) :
            d \in Moved(req'[r]) \/ files'[d].stray \/ files'[d].place # "final"
  PROVE  Handled(r)
<1> DEFINE p == req[r]
           q == req'[r]
<1>1. /\ p.op \in {"createTask", "updateTask", "upload", "finalizeAsset"}
      /\ DoneFits(p) /\ \A d : ~Unlisting(p, d)
  BY FinalizingFacts DEF FileInv
<1>2. /\ p.pc \in {"rename", "finalize", "rollback"} /\ q.pc \in {"rename", "finalize", "rollback"}
      /\ q.pc \in {"rename", "finalize"} => p.pc \in {"rename", "finalize"}
      /\ q.op = p.op /\ q.task = p.task /\ q.docs = p.docs /\ q.done = p.done /\ q.found = p.found
  OBVIOUS
<1>3. \A d \in DOMAIN files : HoldsFile(p, files[d], d)
  BY DEF FileInv
<1>4. \A d \in DOMAIN files :
        d \in Moved(q) => files'[d].place = "final" /\ files'[d].under = q.task /\ files'[d].row \notin Recorded
  OBVIOUS
<1> HIDE DEF p, q
<1>5. DoneFits(q) /\ ~Making(q) /\ (Open(q) <=> Open(p)) /\ q.op # "deleteAsset"
  BY <1>1, <1>2 DEF DoneFits, Making, Open, Sweeping
<1>6. ASSUME NEW d \in DOMAIN files PROVE HoldsFile(q, files'[d], d)
  <2>1. HoldsFile(p, files[d], d) /\ files'[d].row = files[d].row
    BY <1>3
  <2> DEFINE e == files[d]
             f == files'[d]
  <2>2. d \in Moved(q) => f.place = "final" /\ f.under = q.task /\ f.row \notin Recorded
    BY <1>4
  <2>3. HoldsFile(p, e, d) /\ f.row = e.row
    BY <2>1
  <2> HIDE DEF e, f
  <2>4. HoldsFile(q, f, d)
    BY <1>2, <1>5, <2>2, <2>3, HoldsOn
  <2> QED BY <2>4 DEF f
<1>7. LetsGo(r) /\ Takes(r)
  BY <1>1, <1>2, <1>5 DEF LetsGo, Takes, p, q
<1>8. Knows(r)
  BY <1>5, <1>6 DEF Knows, q
<1> QED BY <1>7, <1>8 DEF Handled

LEMMA RollbackFacts ==
  ASSUME TypeInv, NEW r \in Requests, req' = RollbackRenamed(r)
  PROVE  /\ req'[r].pc = "rollback" /\ req'[r].batch = req[r].done /\ req'[r].op = req[r].op
         /\ req'[r].task = req[r].task /\ req'[r].docs = req[r].docs
         /\ req'[r].done = req[r].done /\ req'[r].found = req[r].found
         /\ Moved(req'[r]) = req[r].done
BY ReqFacts DEF RollbackRenamed, Request, Moved

\* What a request has moved it has under its name.
LEMMA MovedFacts ==
  ASSUME TypeInv, FileInv, NEW r \in Requests, NEW d \in Moved(req[r])
  PROVE  /\ d \in DOMAIN files /\ files[d] \in FileAsset
         /\ files[d].place = "final" /\ files[d].under = req[r].task /\ files[d].row \notin Recorded
<1>1. d \in DOMAIN files
  BY MovedFiles
<1> QED BY <1>1, FileFacts DEF FileInv, HoldsFile

LEMMA RenameHandled ==
  ASSUME TypeInv, FileInv, NEW r \in Requests, RenameAsset(r) PROVE Handled(r)
<1>1. req \in [Requests -> Request] /\ req[r] \in Request /\ req[r].pc = "rename"
  BY ReqFacts DEF RenameAsset, At
<1>2. /\ Moved(req[r]) = req[r].done
      /\ \A c \in req[r].done :
           /\ files[c].place = "final" /\ files[c].under = req[r].task
           /\ files[c].row \notin Recorded
  <2>1. Moved(req[r]) = req[r].done
    BY <1>1, MovedMeans DEF FileInv
  <2> QED BY <2>1, MovedFacts
<1>3. PICK d \in req[r].docs \ req[r].done :
        \/ CanRename(d) /\ files' = Renamed(d, req[r].task)
           /\ req' = [req EXCEPT ![r].pc = "finalize", ![r].doc = d]
        \/ req' = RollbackRenamed(r) /\ files' = files
        \/ CanRename(d) /\ files' = Stray(Renamed(d, req[r].task), {d}) /\ req' = RollbackRenamed(r)
  BY DEF RenameAsset, RenameRefused
<1>4. d \in DOMAIN files /\ files[d] \in FileAsset /\ DOMAIN files = 1 .. MaxFiles
  BY <1>1, <1>3, FinalizingFacts, FileFacts
<1>5. CanRename(d) => files[d].place = "temporary" /\ files[d].row \notin Recorded
  BY <1>4 DEF FileInv, RowFits, CanRename
<1>6. req' = RollbackRenamed(r) =>
        /\ req'[r].pc = "rollback" /\ req'[r].op = req[r].op /\ req'[r].task = req[r].task
        /\ req'[r].docs = req[r].docs /\ req'[r].done = req[r].done
        /\ req'[r].found = req[r].found /\ Moved(req'[r]) = req[r].done
  BY RollbackFacts
<1>7. CASE CanRename(d) /\ files' = Renamed(d, req[r].task)
           /\ req' = [req EXCEPT ![r].pc = "finalize", ![r].doc = d]
  <2>1. /\ req'[r].pc = "finalize" /\ req'[r].op = req[r].op /\ req'[r].task = req[r].task
        /\ req'[r].docs = req[r].docs /\ req'[r].done = req[r].done /\ req'[r].found = req[r].found
        /\ Moved(req'[r]) = req[r].done \cup {d}
    BY <1>1, <1>7 DEF Request, Moved
  <2>2. \A c \in DOMAIN files \ {d} : files'[c] = files[c]
    BY <1>4, <1>7, FileFacts DEF Renamed
  <2>3. /\ files'[d] = [files[d] EXCEPT !.place = "final", !.under = req[r].task]
        /\ files'[d].place = "final" /\ files'[d].under = req[r].task
        /\ files'[d].row = files[d].row
    BY <1>4, <1>7, FileFacts DEF Renamed, FileAsset
  <2>4. \A c \in DOMAIN files : FileChange(r, c) /\ files'[c].row = files[c].row
    <3>1. Renames(r, d)
      BY <1>1, <1>3, <1>5, <1>7, <2>1, <2>3 DEF Renames
    <3>2. \A c \in DOMAIN files \ {d} : Mild(r, c)
      BY <2>2 DEF Mild
    <3> QED BY <2>2, <2>3, <3>1, <3>2 DEF FileChange
  <2>5. \A c \in Moved(req'[r]) :
            /\ c \in Moved(req[r]) \/ files[c].place = "temporary"
            /\ files'[c].place = "final" /\ files'[c].under = req[r].task
            /\ files[c].row \notin Recorded
    <3>1. req[r].done \subseteq DOMAIN files
      BY <1>1, FinalizingFacts
    <3>2. ASSUME NEW c \in req[r].done, c # d PROVE files'[c] = files[c]
      BY <2>2, <3>1, <3>2
    <3>3. files[d].place = "temporary" /\ files[d].row \notin Recorded
      BY <1>5, <1>7
    <3>4. Moved(req'[r]) = Moved(req[r]) \cup {d}
      BY <1>2, <2>1
    <3>5. ASSUME NEW c \in Moved(req[r]), c # d
          PROVE  /\ files'[c].place = "final" /\ files'[c].under = req[r].task
                 /\ files[c].row \notin Recorded
      <4>1. c \in req[r].done
        BY <1>2
      <4> QED BY <1>2, <3>2, <3>5, <4>1
    <3>6. files'[d].place = "final" /\ files'[d].under = req[r].task
      BY <2>3
    <3> QED BY <3>3, <3>4, <3>5, <3>6
  <2> QED BY <1>1, <1>2, <2>1, <2>4, <2>5, NamingHandled
<1>8. CASE req' = RollbackRenamed(r) /\ files' = files
  <2>1. \A c \in DOMAIN files : FileChange(r, c)
    BY <1>8, SameFilesMild DEF FileChange
  <2> QED BY <1>1, <1>2, <1>6, <1>8, <2>1, NamingHandled
<1>9. CASE CanRename(d) /\ files' = Stray(Renamed(d, req[r].task), {d}) /\ req' = RollbackRenamed(r)
  <2>1. \A c \in DOMAIN files \ {d} : files'[c] = files[c]
    BY <1>4, <1>9, FileFacts DEF Renamed, Stray
  <2>2. /\ files'[d] = [files[d] EXCEPT !.place = "final", !.under = req[r].task, !.stray = TRUE]
        /\ files'[d].row = files[d].row
    BY <1>4, <1>9, FileFacts DEF Renamed, Stray, FileAsset
  <2>3. \A c \in DOMAIN files : FileChange(r, c) /\ files'[c].row = files[c].row
    <3>1. Renames(r, d)
      BY <1>1, <1>3, <1>5, <1>6, <1>9, <2>2 DEF Renames
    <3>2. \A c \in DOMAIN files \ {d} : Mild(r, c)
      BY <2>1 DEF Mild
    <3> QED BY <2>1, <2>2, <3>1, <3>2 DEF FileChange
  <2>4. \A c \in req[r].done : files'[c] = files[c]
    <3>1. req[r].done \subseteq DOMAIN files
      BY <1>1, FinalizingFacts
    <3> QED BY <1>3, <2>1, <3>1
  <2>5. /\ req'[r].pc = "rollback" /\ req'[r].op = req[r].op /\ req'[r].task = req[r].task
        /\ req'[r].docs = req[r].docs /\ req'[r].done = req[r].done
        /\ req'[r].found = req[r].found /\ Moved(req'[r]) = Moved(req[r])
    BY <1>2, <1>6, <1>9
  <2>6. \A c \in Moved(req[r]) :
          /\ files'[c].place = "final" /\ files'[c].under = req[r].task
          /\ files[c].row \notin Recorded
    BY <1>2, <2>4
  <2> QED BY <1>1, <2>3, <2>5, <2>6, NamingHandled
<1> QED BY <1>3, <1>7, <1>8, <1>9

\* What is put down has its name and its row.
LEMMA StrayKeeps ==
  ASSUME TypeInv, NEW S, files' = Stray(files, S)
  PROVE  \A d \in DOMAIN files :
           /\ files'[d].row = files[d].row /\ files'[d].place = files[d].place
           /\ files'[d].under = files[d].under
BY FileFacts DEF Stray, FileAsset

\* An asset that fails: it is put down, and the others are to be named back.
LEMMA FailedHandled ==
  ASSUME TypeInv, FileInv, NEW r \in Requests, req[r].pc = "finalize",
         files' = Stray(files, {req[r].doc}), req' = RollbackRenamed(r)
  PROVE  Handled(r)
<1>1. Moved(req[r]) = req[r].done \cup {req[r].doc}
  BY MovedMeans DEF FileInv
<1>2. /\ req'[r].pc = "rollback" /\ req'[r].op = req[r].op /\ req'[r].task = req[r].task
      /\ req'[r].docs = req[r].docs /\ req'[r].done = req[r].done
      /\ req'[r].found = req[r].found /\ Moved(req'[r]) = req[r].done
  BY RollbackFacts
<1>3. \A d \in DOMAIN files : FileChange(r, d) /\ files'[d].row = files[d].row
  <2>1. \A d \in DOMAIN files :
          \/ files'[d] = files[d]
          \/ d = req[r].doc /\ files'[d] = [files[d] EXCEPT !.stray = TRUE]
    BY StrayFiles
  <2>2. \A d \in DOMAIN files : Mild(r, d)
    BY <1>1, <2>1 DEF Mild
  <2> QED BY <2>2, StrayKeeps DEF FileChange
<1>4. \A d \in Moved(req'[r]) :
         /\ d \in Moved(req[r])
         /\ files'[d].place = "final" /\ files'[d].under = req[r].task
         /\ files[d].row \notin Recorded
  <2>1. ASSUME NEW d \in Moved(req[r])
        PROVE  /\ files'[d].place = "final" /\ files'[d].under = req[r].task
               /\ files[d].row \notin Recorded
    BY MovedFacts, StrayKeeps
  <2> QED BY <1>1, <1>2, <2>1
<1>5. \A d \in Moved(req[r]) : d \in Moved(req'[r]) \/ files'[d].stray
  <2>1. req[r].doc \in DOMAIN files
    BY FinalizingFacts
  <2>2. files'[req[r].doc].stray
    BY <2>1, StrayFiles
  <2> QED BY <1>1, <1>2, <2>2
<1> QED BY <1>2, <1>3, <1>4, <1>5, NamingHandled

LEMMA FinalizeHandled ==
  ASSUME TypeInv, FileInv, NEW r \in Requests, FinalizeRow(r) PROVE Handled(r)
<1> DEFINE d == req[r].doc
<1>1. req \in [Requests -> Request] /\ req[r] \in Request /\ req[r].pc = "finalize"
  BY ReqFacts DEF FinalizeRow, At
<1>2. /\ d \in DOMAIN files /\ files[d] \in FileAsset
      /\ req[r].op \in {"createTask", "updateTask", "upload", "finalizeAsset"}
      /\ \A c : ~Unlisting(req[r], c)
  BY <1>1, FinalizingFacts, FileFacts
<1>3. Moved(req[r]) = req[r].done \cup {d} /\ DoneFits(req[r])
  BY <1>1, MovedMeans DEF FileInv
<1>4. CASE files' = Stray(files, {d}) /\ req' = RollbackRenamed(r)
  BY <1>1, <1>4, FailedHandled
<1>5. CASE /\ InTransaction(r) /\ files[d].row = "temporary" /\ ~LockedFile(d) /\ files' = files
           /\ req' = [req EXCEPT ![r].done = @ \cup {d},
                ![r].pc = IF req[r].docs = req[r].done \cup {d} THEN "commit" ELSE "rename"]
  <2> DEFINE p == req[r]
             q == req'[r]
             to == IF p.docs = p.done \cup {d} THEN "commit" ELSE "rename"
  <2>1. /\ q.op = p.op /\ q.task = p.task /\ q.docs = p.docs /\ q.found = p.found
        /\ q.done = p.done \cup {d} /\ q.pc \in {"commit", "rename"}
    <3>1. to \in {"commit", "rename"}
      OBVIOUS
    <3>2. req' = [req EXCEPT ![r].done = @ \cup {d}, ![r].pc = to]
      BY <1>5
    <3> HIDE DEF to, d
    <3> QED BY <1>1, <3>1, <3>2 DEF Request
  <2>2. /\ Open(p) /\ DoneFits(p) /\ p.pc = "finalize" /\ p.op \in {"createTask", "updateTask"}
        /\ Moved(p) = p.done \cup {d} /\ \A c : ~Unlisting(p, c)
    BY <1>1, <1>2, <1>3, <1>5 DEF InTransaction, Open
  <2>3. \A c \in DOMAIN files : HoldsFile(p, files[c], c)
    BY DEF FileInv
  <2>4. files[d].row = "temporary" /\ ~LockedFile(d) /\ files' = files
    BY <1>5
  <2> HIDE DEF p, q, d, to
  <2>5. Open(q) /\ Moved(q) = Moved(p) /\ DoneFits(q) /\ ~Making(q) /\ q.op # "deleteAsset"
    BY <2>1, <2>2 DEF Open, Moved, DoneFits, Making, Sweeping
  <2>6. \A c \in DOMAIN files : HoldsFile(q, files[c], c)
    BY <2>1, <2>2, <2>3, <2>4, <2>5 DEF HoldsFile
  <2>7. LetsGo(r)
    BY <2>2, <2>5 DEF LetsGo, p, q
  <2>8. Takes(r)
    BY <2>1, <2>2, <2>4, <2>5 DEF Takes, p, q
  <2>9. Knows(r)
    BY <2>4, <2>5, <2>6 DEF Knows, q
  <2> QED BY <2>4, <2>7, <2>8, <2>9, SameFilesMild DEF Handled, FileChange
<1>6. CASE /\ ~InTransaction(r) /\ ~LockedFile(d) /\ files[d].row = "temporary"
           /\ files' = Finalized({d}, req[r].task) /\ Finish(r)
  <2>1. req'[r] = IdleRequest /\ Moved(IdleRequest) = {}
    BY <1>1, <1>6 DEF Finish, IdleRequest, Moved, Open
  <2>2. req[r].done = {}
    BY <1>1, <1>3, <1>6 DEF DoneFits, InTransaction, Open
  <2>3. /\ \A c \in DOMAIN files \ {d} : files'[c] = files[c]
        /\ files'[d] = [files[d] EXCEPT !.row = "final", !.task = req[r].task, !.expired = FALSE]
    BY <1>2, <1>6 DEF Finalized, findTemporary
  <2>4. Finalizes(r, d)
    BY <1>3, <1>6, <2>1, <2>3 DEF Finalizes
  <2>5. \A c \in DOMAIN files : FileChange(r, c)
    BY <2>3, <2>4 DEF FileChange, Mild
  <2>6. files'[d].row # "temporary"
    BY <1>2, <2>3 DEF FileAsset
  <2>7. LetsGo(r)
    BY <1>2, <1>3, <2>2, <2>6 DEF LetsGo
  <2> QED BY <1>6, <2>5, <2>7, FinishQuiet, RestHandled
<1> QED BY <1>4, <1>5, <1>6 DEF FinalizeRow, FinalizeInTransaction, FinalizeAlone

LEMMA RollbackHandled ==
  ASSUME TypeInv, FileInv, NEW r \in Requests, Rollback(r) PROVE Handled(r)
<1>1. req \in [Requests -> Request] /\ req[r] \in Request /\ req[r].pc = "rollback"
  BY ReqFacts DEF Rollback, At
<1>2. Moved(req[r]) = req[r].batch
  BY <1>1 DEF Moved
<1>3. CASE req[r].batch = {} /\ Finish(r) /\ files' = files
  BY <1>1, <1>2, <1>3, FinalizingFacts, LeavesHandled
<1>4. ASSUME NEW d \in req[r].batch, files' = NamedBack(d) \/ files' = Stray(files, {d}),
             req' = [req EXCEPT ![r].batch = @ \ {d}]
      PROVE  Handled(r)
  <2>1. /\ req'[r].pc = "rollback" /\ req'[r].op = req[r].op /\ req'[r].task = req[r].task
        /\ req'[r].docs = req[r].docs /\ req'[r].done = req[r].done
        /\ req'[r].found = req[r].found /\ req'[r].batch = req[r].batch \ {d}
    BY <1>1, <1>4 DEF Request
  <2>2. Moved(req'[r]) = Moved(req[r]) \ {d}
    BY <1>2, <2>1 DEF Moved
  <2>3. d \in Moved(req[r]) /\ d \in DOMAIN files /\ files[d] \in FileAsset
    BY <1>2, MovedFacts
  <2>4. \A c \in DOMAIN files \ {d} : files'[c] = files[c]
    <3>1. CASE files' = NamedBack(d)
      BY <3>1, FileFacts DEF NamedBack
    <3>2. CASE files' = Stray(files, {d})
      BY <3>2, StrayFiles
    <3> QED BY <1>4, <3>1, <3>2
  <2>5. /\ FileChange(r, d) /\ files'[d].row = files[d].row
        /\ files'[d].stray \/ files'[d].place # "final"
    <3>1. CASE files' = NamedBack(d)
      <4>1. files'[d] = [files[d] EXCEPT !.place = "temporary", !.under = 0]
        BY <2>3, <3>1, FileFacts DEF NamedBack, FileAsset
      <4>2. files'[d].row = files[d].row /\ files'[d].place = "temporary"
        BY <2>3, <4>1 DEF FileAsset
      <4> QED BY <2>2, <2>3, <4>1, <4>2 DEF FileChange, NamesBack
    <3>2. CASE files' = Stray(files, {d})
      <4>1. files'[d] = [files[d] EXCEPT !.stray = TRUE] /\ files'[d].stray
        BY <2>3, <3>2, StrayFiles
      <4> QED BY <2>3, <3>2, <4>1, StrayKeeps DEF FileChange, Mild
    <3> QED BY <1>4, <3>1, <3>2
  <2>6. \A c \in DOMAIN files : FileChange(r, c) /\ files'[c].row = files[c].row
    <3>1. \A c \in DOMAIN files \ {d} : FileChange(r, c) /\ files'[c].row = files[c].row
      BY <2>4 DEF FileChange, Mild
    <3> QED BY <2>5, <3>1
  <2>7. \A c \in Moved(req[r]) \ {d} :
          /\ files'[c].place = "final" /\ files'[c].under = req[r].task
          /\ files[c].row \notin Recorded
    BY <2>4, MovedFacts
  <2> QED BY <1>1, <2>1, <2>2, <2>5, <2>6, <2>7, NamingHandled
<1> QED BY <1>3, <1>4 DEF Rollback, Abort

(* Deleting. *)

LEMMA DeleteHandled ==
  ASSUME TypeInv, FileInv, NEW r \in Requests, DestroyAsset(r) \/ UnlistAsset(r) PROVE Handled(r)
<1> DEFINE d == req[r].doc
<1>1. /\ req \in [Requests -> Request] /\ req[r] \in Request /\ req[r].op = "deleteAsset"
      /\ req[r].pc \in {"destroy", "unlist"}
  BY ReqFacts DEF DestroyAsset, UnlistAsset, At, Doing
<1>2. d \in DOMAIN files /\ files[d] \in FileAsset
  BY <1>1, ReqFacts, FileFacts DEF RequestFits, NamesFit
<1>3. Moved(req[r]) = {} /\ req[r].done = {} /\ DoneFits(req[r])
  BY <1>1, DoneNowhere
<1>4. CASE DestroyAsset(r) /\ Finish(r) /\ files' = files
  <2>1. \A c : ~Unlisting(req[r], c)
    BY <1>4 DEF DestroyAsset, At, Unlisting
  <2> QED BY <1>3, <1>4, <2>1, LeavesHandled
<1>5. CASE /\ req[r].pc = "destroy" /\ Goto(r, "unlist")
           /\ files' = IF req[r].stale THEN destroyFinal(d) ELSE destroyTemporary(d)
  <2> DEFINE p == req[r]
             q == req'[r]
  <2>1. /\ q.pc = "unlist" /\ q.op = p.op /\ q.task = p.task /\ q.docs = p.docs
        /\ q.done = p.done /\ q.found = p.found /\ q.doc = p.doc /\ q.stale = p.stale
    BY <1>1, <1>5 DEF Goto, Request
  <2>2. p.pc = "destroy" /\ p.op = "deleteAsset" /\ Moved(p) = {} /\ p.done = {}
    BY <1>1, <1>3, <1>5
  <2>3. p.stale => Unlisting(q, d)
    BY <2>1, <2>2 DEF Unlisting
  <2> HIDE DEF p, q
  <2>4. SameGrip(p, q)
    BY <2>1, <2>2 DEF SameGrip, Moved, Open, Making, Unlisting, DoneFits
  <2>5. \A c \in DOMAIN files : Mild(r, c)
    <3>1. ASSUME req[r].stale PROVE \A c \in DOMAIN files : Mild(r, c)
      <4>1. files' = destroyFinal(d) /\ Unlisting(req'[r], d)
        BY <1>5, <2>3, <3>1 DEF p, q
      <4> HIDE DEF d
      <4> QED BY <1>2, <4>1, FileFacts DEF destroyFinal, Mild
    <3>2. ASSUME ~req[r].stale PROVE \A c \in DOMAIN files : Mild(r, c)
      <4>1. files' = destroyTemporary(d)
        BY <1>5, <3>2
      <4> HIDE DEF d
      <4> QED BY <1>2, <4>1, FileFacts DEF destroyTemporary, Mild
    <3> QED BY <3>1, <3>2
  <2> QED BY <2>4, <2>5, GripHandled DEF p, q
<1>6. CASE UnlistAsset(r)
  <2>1. Finish(r) /\ ~LockedFile(d) /\ req[r].pc = "unlist"
        /\ \/ ~req[r].stale /\ files' = deleteTemporary(d)
           \/ req[r].stale /\ files' = deleteFinal(d)
           \/ files' = Stray(files, {d})
    BY <1>6 DEF UnlistAsset, At
  <2>2. CASE files' = Stray(files, {d})
    <3>1. \A c : Unlisting(req[r], c) => c \in {d}
      BY DEF Unlisting
    <3> QED BY <1>1, <1>3, <2>1, <2>2, <3>1, StrayHandled
  <2>3. CASE ~req[r].stale /\ files' = deleteTemporary(d)
    <3>1. \A c : ~Unlisting(req[r], c)
      BY <2>3 DEF Unlisting
    <3>2. \A c \in DOMAIN files : FileChange(r, c)
      BY <1>2, <2>1, <2>3, FileFacts DEF deleteTemporary, Mild, FileChange
    <3>3. LetsGo(r)
      BY <1>3, <3>1 DEF LetsGo
    <3> QED BY <2>1, <3>2, <3>3, FinishQuiet, RestHandled
  <2>4. CASE req[r].stale /\ files' = deleteFinal(d)
    <3>1. \A c \in DOMAIN files : FileChange(r, c)
      BY <1>2, <2>4, FileFacts DEF deleteFinal, Mild, FileChange
    <3>2. files'[d].row # "final"
      BY <1>2, <2>4, FileFacts DEF deleteFinal, FileAsset
    <3>3. LetsGo(r)
      BY <1>3, <3>2 DEF LetsGo, Unlisting
    <3> QED BY <2>1, <3>1, <3>3, FinishQuiet, RestHandled
  <2> QED BY <2>1, <2>2, <2>3, <2>4
<1> QED BY <1>4, <1>5, <1>6 DEF DestroyAsset, At

LEMMA FileStepHandled ==
  ASSUME TypeInv, FileInv, NEW r \in Requests, FileStep(r) PROVE Handled(r)
BY SweepHandled, CountHandled, SignHandled, RegisterHandled, FindHandled, RenameHandled,
   FinalizeHandled, RollbackHandled, DeleteHandled DEF FileStep

(* The other steps. *)

\* Operations that have nothing to do with files.
Unfiled == {"none", "createWorkspace", "deleteWorkspace", "deleteTask", "subscribe",
            "deleteSession", "sendMessage"}

LEMMA UnfiledQuiet ==
  ASSUME NEW q, NEW n, RequestFits(q, n), q.op \in Unfiled PROVE Quiet(q)
BY DEF RequestFits, PcFits, Unfiled, Quiet, Open, Making, Sweeping, Finalizing, Announcing, ChatPcs

LEMMA UnfiledHandled ==
  ASSUME TypeInv, TypeInv', FileInv, NEW r \in Requests, files' = files, req[r].op \in Unfiled,
         req'[r].op \in Unfiled, req'[r].done \in {{}, req[r].done}
  PROVE  Handled(r)
<1>1. Quiet(req[r])
  BY ReqFacts, UnfiledQuiet
<1>2. Quiet(req'[r])
  <2>1. RequestFits(req'[r], Lengths')
    BY DEF TypeInv
  <2> QED BY <2>1, UnfiledQuiet
<1>3. DoneFits(req'[r])
  BY DEF FileInv, DoneFits, Unfiled
<1> QED BY <1>1, <1>2, <1>3, SameFilesMild, QuietHandled

\* The request goes on with its operation, or is done.
Ongoing(r) == req'[r].op \in {"none", req[r].op} /\ req'[r].done \in {{}, req[r].done}

LEMMA SimplyOngoing ==
  ASSUME TypeInv, NEW r \in Requests
  PROVE  /\ Finish(r) => Ongoing(r)
         /\ \A pc : Goto(r, pc) => Ongoing(r) /\ req'[r].pc = pc
BY ReqFacts DEF Finish, Goto, Ongoing, IdleRequest, Request

LEMMA TaskStepOngoing ==
  ASSUME TypeInv, NEW r \in Requests,
         \/ CountWorkspaces(r) \/ assertWithinWorkspaceLimit(r) \/ InsertWorkspace(r) \/ Cascade(r)
         \/ FindTask(r) \/ softDeleteByIdAndWorkspace(r)
  PROVE  Ongoing(r) /\ req[r].op \in Unfiled /\ files' = files
<1>1. req \in [Requests -> Request] /\ req[r] \in Request /\ RequestFits(req[r], Lengths)
  BY ReqFacts
<1>2. req[r].op \in Unfiled
  BY <1>1 DEF RequestFits, PcFits, Finalizing, Sweeping, Announcing, ChatPcs, CountWorkspaces,
     assertWithinWorkspaceLimit, InsertWorkspace, Cascade, FindTask, softDeleteByIdAndWorkspace,
     At, Doing, Unfiled
<1>3. files' = files
  BY DEF CountWorkspaces, assertWithinWorkspaceLimit, InsertWorkspace, Cascade, FindTask,
     softDeleteByIdAndWorkspace
<1>4. CASE CountWorkspaces(r) \/ (FindTask(r) /\ ~Finish(r))
  <2>1. CASE CountWorkspaces(r)
    <3> DEFINE n == countByTenantId
    <3>1. req' = [req EXCEPT ![r].pc = "limit", ![r].seen = n]
      BY <2>1 DEF CountWorkspaces
    <3> HIDE DEF n
    <3> QED BY <1>1, <1>2, <1>3, <3>1 DEF Ongoing, Request
  <2>2. CASE FindTask(r) /\ ~Finish(r)
    BY <1>1, <1>2, <1>3, <2>2 DEF FindTask, Ongoing, Request
  <2> QED BY <1>4, <2>1, <2>2
<1>5. CASE Cascade(r)
  <2>1. IdleRequest \in Request /\ ~Open(IdleRequest) /\ IdleRequest.op = "none"
        /\ IdleRequest.done = {}
    BY IdleFits DEF IdleRequest, Open
  <2> QED BY <1>2, <1>3, <1>5, <2>1, SimplyOngoing, SpoiltMoves DEF Cascade, Moves, Ongoing
<1>6. CASE softDeleteByIdAndWorkspace(r) /\ ~Finish(r)
  <2> DEFINE q == [req[r] EXCEPT !.pc = "publish"]
  <2>1. q \in Request /\ q.pc = "publish" /\ q.op = req[r].op /\ q.done = req[r].done
    <3>1. "publish" \in Pcs /\ q.pc = "publish" /\ q.op = req[r].op /\ q.done = req[r].done
      BY <1>1 DEF Pcs, Request
    <3> QED BY <1>1, <3>1, GoType
  <2>2. req' = Spoilt([req EXCEPT ![r] = q], {req[r].task})
    BY <1>6 DEF softDeleteByIdAndWorkspace
  <2> HIDE DEF q
  <2>3. Moves(r, q)
    BY <2>1, <2>2, SpoiltMoves DEF Open
  <2> QED BY <1>2, <1>3, <2>1, <2>3 DEF Moves, Ongoing
<1>7. CASE Finish(r) \/ assertWithinWorkspaceLimit(r) \/ InsertWorkspace(r)
  BY <1>2, <1>3, <1>7, SimplyOngoing DEF assertWithinWorkspaceLimit, InsertWorkspace
<1> QED BY <1>2, <1>3, <1>4, <1>5, <1>6, <1>7

LEMMA ChatStepOngoing ==
  ASSUME TypeInv, NEW r \in Requests, ChatStep(r) \/ Join(r)
  PROVE  Ongoing(r) /\ req[r].op \in Unfiled /\ files' = files
<1>1. req \in [Requests -> Request] /\ req[r] \in Request /\ RequestFits(req[r], Lengths)
  BY ReqFacts
<1>2. req[r].op \in Unfiled
  BY <1>1 DEF RequestFits, PcFits, Finalizing, Sweeping, Announcing, ChatPcs, Join, ChatStep,
     DeleteMessages, deleteForTenantUser, FindSession, StoreQuestion, TitleByContent, ListHistory,
     Complete, StoreAnswer, At, Doing, Unfiled
<1>3. files' = files
  BY ChatStepLeaves, OthersLeave
<1>4. CASE FindSession(r) /\ ~Finish(r)
  BY <1>1, <1>2, <1>3, <1>4 DEF FindSession, Ongoing, Request
<1>5. CASE StoreQuestion(r)
  BY <1>1, <1>2, <1>3, <1>5 DEF StoreQuestion, Ongoing, Request
<1>6. CASE ListHistory(r)
  <2> DEFINE h == listBySessionForTenant(req[r].session)
  <2>1. req' = [req EXCEPT ![r].pc = "complete", ![r].seen = 1, ![r].history = h]
    BY <1>6 DEF ListHistory
  <2> HIDE DEF h
  <2> QED BY <1>1, <1>2, <1>3, <2>1 DEF Ongoing, Request
<1>7. CASE req' = [req EXCEPT ![r].seen = @ + 1]
  BY <1>1, <1>2, <1>3, <1>7 DEF Ongoing, Request
<1>8. CASE \/ Finish(r) \/ \E pc : Goto(r, pc)
  BY <1>2, <1>3, <1>8, SimplyOngoing
<1> QED BY <1>2, <1>3, <1>4, <1>5, <1>6, <1>7, <1>8
        DEF ChatStep, DeleteMessages, deleteForTenantUser, TitleByContent, Complete, StoreAnswer, Join

LEMMA AnnounceHandled ==
  ASSUME TypeInv, FileInv, NEW r \in Requests, Publish(r) \/ NotifyAssignee(r) PROVE Handled(r)
<1>1. req[r] \in Request /\ RequestFits(req[r], Lengths) /\ DoneFits(req[r])
  BY ReqFacts DEF FileInv
<1>2. req[r].pc \in Announcing /\ files' = files
  BY DEF Publish, NotifyAssignee, At, Announcing
<1>3. req[r].op \in {"createTask", "updateTask", "deleteTask"}
  BY <1>1, <1>2 DEF RequestFits, PcFits, Announcing, Sweeping, Finalizing, ChatPcs
<1>4. Quiet(req[r])
  BY <1>2, <1>3 DEF Quiet, Announcing, Open, Making
<1>5. Quiet(req'[r]) /\ DoneFits(req'[r])
  <2>1. CASE NotifyAssignee(r)
    <3>1. /\ req'[r].pc = "publish" /\ req'[r].op = req[r].op /\ req'[r].done = req[r].done
      BY <2>1, ReqFacts DEF NotifyAssignee, Goto, Request
    <3> QED BY <1>1, <1>3, <3>1 DEF Quiet, DoneFits, Open, Making
  <2> QED BY <2>1, FinishQuiet DEF Publish
<1> QED BY <1>2, <1>4, <1>5, SameFilesMild, QuietHandled

\* A transaction that starts has no file in hand, and finds temporary assets only.
LEMMA StartHandled ==
  ASSUME TypeInv, FileInv, NEW r \in Requests, DraftTask(r) \/ ReadTask(r) PROVE Handled(r)
<1>1. req \in [Requests -> Request] /\ req[r] \in Request /\ RequestFits(req[r], Lengths)
  BY ReqFacts
<1>2. files' = files /\ req[r].pc \in {"draft", "read"}
  BY DEF DraftTask, ReadTask, At
<1>3. req[r].op \in {"createTask", "updateTask"}
  BY <1>1 DEF DraftTask, ReadTask, At, Doing, RequestFits, PcFits, Finalizing, Sweeping,
     Announcing, ChatPcs
<1>4. /\ Moved(req[r]) = {} /\ req[r].done = {} /\ \A d : ~Unlisting(req[r], d)
  BY <1>2, <1>3, DoneNowhere DEF Unlisting
<1>5. CASE Finish(r)
  BY <1>2, <1>4, <1>5, LeavesHandled
<1>6. CASE ~Finish(r)
  <2> DEFINE q == req'[r]
  <2>1. /\ q.op = req[r].op /\ q.pc = "sweep" /\ q.done = req[r].done
        /\ q.found = findTemporary(req[r].docs) /\ q.next = "find"
    <3> DEFINE S == findTemporary(req[r].docs)
    <3>1. CASE DraftTask(r)
      <4>1. req' = [req EXCEPT ![r].pc = "sweep", ![r].next = "find", ![r].task = Len(tasks) + 1,
                               ![r].found = S]
        BY <3>1 DEF DraftTask
      <4> HIDE DEF S
      <4>2. /\ req'[r].op = req[r].op /\ req'[r].pc = "sweep" /\ req'[r].done = req[r].done
            /\ req'[r].found = S /\ req'[r].next = "find"
        BY <1>1, <4>1 DEF Request
      <4> QED BY <4>2 DEF S
    <3>2. CASE ReadTask(r)
      <4>1. req' = [req EXCEPT ![r].pc = "sweep", ![r].next = "find",
                      ![r].was = tasks[req[r].task].assignedTo, ![r].found = S]
        BY <1>6, <3>2 DEF ReadTask
      <4> HIDE DEF S
      <4>2. /\ req'[r].op = req[r].op /\ req'[r].pc = "sweep" /\ req'[r].done = req[r].done
            /\ req'[r].found = S /\ req'[r].next = "find"
        BY <1>1, <4>1 DEF Request
      <4> QED BY <4>2 DEF S
    <3> QED BY <3>1, <3>2
  <2>2. \A d \in DOMAIN files : d \in q.found => files[d].row \notin Unknown
    BY <2>1 DEF findTemporary, Unknown
  <2> HIDE DEF q
  <2>3. Moved(q) = {} /\ DoneFits(q) /\ ~Making(q) /\ \A d \in DOMAIN files : HoldsFile(q, files[d], d)
    BY <1>3, <1>4, <2>1, <2>2 DEF Moved, DoneFits, Making, HoldsFile, Sweeping
  <2>4. LetsGo(r) /\ Takes(r) /\ Knows(r)
    BY <1>2, <1>4, <2>1, <2>3 DEF LetsGo, Takes, Knows, q
  <2> QED BY <1>2, <2>4, SameFilesMild DEF Handled, FileChange
<1> QED BY <1>5, <1>6

\* The rows of a transaction change with its commit.
LEMMA CommitHandled ==
  ASSUME TypeInv, FileInv, NEW r \in Requests, CommitCreate(r) \/ CommitUpdate(r)
  PROVE  Handled(r)
<1>1. req[r] \in Request /\ req[r].op \in {"createTask", "updateTask"} /\ req[r].pc = "commit"
      /\ Open(req[r])
  BY ReqFacts DEF CommitCreate, CommitUpdate, At, Doing, Open
<1>2. Moved(req[r]) = req[r].done /\ \A d : ~Unlisting(req[r], d)
  BY <1>1, MovedMeans DEF FileInv, Unlisting
<1>3. CASE CommitFails(r)
  BY <1>1, <1>2, <1>3, StrayHandled DEF CommitFails
<1>4. ASSUME NEW told \in Users \cup {Nobody}, NEW was \in Users \cup {Nobody},
             NEW now \in Users \cup {Nobody}, Committed(r, told, was, now)
      PROVE  Handled(r)
  <2> DEFINE q == AfterCommit(r, told, was, now)
  <2>1. /\ req'[r] = q /\ ~Open(q) /\ q.pc \in {"notify", "publish"}
    <3>1. req'[r] = q /\ ~Open(q) /\ q.pc = (IF told = Nobody THEN "publish" ELSE "notify")
      BY <1>1, <1>4, CommitMoves DEF Moves
    <3> QED BY <3>1
  <2>2. q.op = req[r].op /\ q.done = req[r].done
    BY <1>1 DEF AfterCommit, Request
  <2> HIDE DEF q
  <2>3. Quiet(q) /\ DoneFits(q) /\ Moved(q) = {}
    BY <1>1, <2>1, <2>2 DEF Quiet, DoneFits, Moved, Making
  <2>4. /\ \A d \in DOMAIN files \ req[r].done : files'[d] = files[d]
        /\ \A d \in DOMAIN files : d \in req[r].done =>
             /\ files[d].row = "temporary" /\ files'[d].row = "final"
             /\ files'[d] = [files[d] EXCEPT !.row = "final", !.task = req[r].task, !.expired = FALSE]
    <3>1. \A d \in DOMAIN files : d \in req[r].done => files[d].row = "temporary"
      BY <1>1 DEF FileInv, HoldsFile
    <3>2. files' = Finalized(req[r].done, req[r].task)
      BY <1>4 DEF Committed
    <3>3. \A d \in DOMAIN files : files[d] \in FileAsset
      BY FileFacts
    <3>4. \A d \in DOMAIN files :
            files'[d] = IF d \in req[r].done
                        THEN [files[d] EXCEPT !.row = "final", !.task = req[r].task, !.expired = FALSE]
                        ELSE files[d]
      BY <3>1, <3>2 DEF Finalized, findTemporary
    <3> QED BY <3>1, <3>3, <3>4 DEF FileAsset
  <2>5. \A d \in DOMAIN files : FileChange(r, d)
    <3>1. ASSUME NEW d \in DOMAIN files, d \in req[r].done PROVE Finalizes(r, d)
      BY <1>1, <1>2, <2>1, <2>3, <2>4, <3>1 DEF Finalizes
    <3> QED BY <2>4, <3>1 DEF FileChange, Mild
  <2>6. LetsGo(r)
    <3>1. ASSUME NEW d \in DOMAIN files, d \in req[r].done PROVE files'[d].row # "temporary"
      BY <2>4, <3>1
    <3> QED BY <1>2, <3>1 DEF LetsGo
  <2> QED BY <2>1, <2>3, <2>5, <2>6, RestHandled
<1> QED BY <1>3, <1>4, CommitKinds

LEMMA CrashHandled == ASSUME TypeInv, FileInv, NEW r \in Requests, Crash(r) PROVE Handled(r)
<1> DEFINE S == Astray(req[r])
<1>1. Finish(r) /\ files' = Stray(files, S)
  BY DEF Crash
<1>2. /\ Moved(req[r]) \subseteq S
      /\ \A d \in S : d \in Moved(req[r]) \/ (req[r].op = "deleteAsset" /\ req[r].doc = d)
      /\ \A d : Unlisting(req[r], d) => d \in S
  BY DEF Astray, Unlisting
<1> HIDE DEF S
<1> QED BY <1>1, <1>2, StrayHandled

\* What a request that arrives knows of files.
Arrived(r) ==
  LET q == req'[r]
  IN  /\ q.op = "deleteAsset" => files[q.doc].row # "none" /\ q.pc = "destroy"
      /\ Making(q) => \E d : q.docs = {d} /\ Fresh(d)

LEMMA FileArrivals == ASSUME TypeInv, NEW r \in Requests, FileArrival(r) PROVE Arrived(r)
<1>1. req \in [Requests -> Request]
  BY ReqFacts
<1>2. ASSUME Cleanup(r) PROVE Arrived(r)
  BY <1>1, <1>2 DEF Cleanup, Begin, IdleRequest, Arrived, Making
<1>3. ASSUME NEW d, DeleteAsset(r, d) PROVE Arrived(r)
  <2>1. req'[r].op = "deleteAsset" /\ req'[r].pc = "destroy" /\ req'[r].doc = d
        /\ files[d].row \in {"temporary", "final"}
    BY <1>1, <1>3 DEF DeleteAsset, Begin, IdleRequest
  <2> QED BY <2>1 DEF Arrived, Making
<1>4. ASSUME NEW d, NEW t, FinalizeAsset(r, d, t) PROVE Arrived(r)
  BY <1>1, <1>4 DEF FinalizeAsset, Begin, IdleRequest, Arrived, Making
<1>5. ASSUME NEW d, NEW t, RegisterAsset(r, d, t) PROVE Arrived(r)
  BY <1>1, <1>5 DEF RegisterAsset, Begin, IdleRequest, Arrived, Making
<1>6. ASSUME NEW d, NEW t, CreateUploadSignature(r, d, t) PROVE Arrived(r)
  <2>1. req'[r].op = "createUploadSignature" /\ req'[r].docs = {d} /\ Fresh(d)
    BY <1>1, <1>6 DEF CreateUploadSignature, Begin, IdleRequest
  <2> QED BY <2>1 DEF Arrived
<1>7. ASSUME NEW d, NEW t, UploadViaApi(r, d, t) PROVE Arrived(r)
  <2>1. req'[r].op = "upload" /\ req'[r].docs = {d} /\ Fresh(d)
    BY <1>1, <1>7 DEF UploadViaApi, Begin, IdleRequest
  <2> QED BY <2>1 DEF Arrived
<1> QED BY <1>2, <1>3, <1>4, <1>5, <1>6, <1>7 DEF FileArrival

LEMMA ArrivalFiles == ASSUME TypeInv, NEW r \in Requests, Arrival(r) PROVE Arrived(r)
<1>1. req \in [Requests -> Request]
  BY ReqFacts
<1>2. ASSUME req'[r].op \notin {"deleteAsset", "createUploadSignature", "upload"} PROVE Arrived(r)
  BY <1>2 DEF Arrived, Making
<1>3. ASSUME NEW u, WorkspaceArrival(r, u) PROVE Arrived(r)
  <2>1. ASSUME CreateWorkspace(r, u) PROVE Arrived(r)
    BY <1>1, <1>2, <2>1 DEF CreateWorkspace, Begin, IdleRequest
  <2>2. ASSUME NEW w, DeleteWorkspace(r, u, w) PROVE Arrived(r)
    BY <1>1, <1>2, <2>2 DEF DeleteWorkspace, Begin, IdleRequest
  <2>3. ASSUME NEW w, NEW a, NEW status, NEW docs, CreateTask(r, u, w, a, status, docs)
        PROVE  Arrived(r)
    BY <1>1, <1>2, <2>3 DEF CreateTask, Begin, IdleRequest
  <2>4. ASSUME NEW t, DeleteTask(r, u, t) PROVE Arrived(r)
    BY <1>1, <1>2, <2>4 DEF DeleteTask, Begin, IdleRequest
  <2>5. ASSUME NEW t, NEW a, NEW status, NEW docs, NEW keep,
               UpdateTask(r, u, t, a, status, docs, keep)
        PROVE  Arrived(r)
    BY <1>1, <1>2, <2>5 DEF UpdateTask, Begin, IdleRequest
  <2> QED BY <1>3, <2>1, <2>2, <2>3, <2>4, <2>5 DEF WorkspaceArrival
<1>4. ASSUME NEW u, NEW s, DeleteSession(r, u, s) \/ SendMessage(r, u, s) PROVE Arrived(r)
  <2>1. ASSUME DeleteSession(r, u, s) PROVE Arrived(r)
    BY <1>1, <1>2, <2>1 DEF DeleteSession, BeginChat, Begin, IdleRequest
  <2>2. ASSUME SendMessage(r, u, s) PROVE Arrived(r)
    BY <1>1, <1>2, <2>2 DEF SendMessage, BeginChat, Begin, IdleRequest
  <2> QED BY <1>4, <2>1, <2>2
<1>5. ASSUME NEW s, NEW w, Subscribe(r, s, w) PROVE Arrived(r)
  BY <1>1, <1>2, <1>5 DEF Subscribe, Begin, IdleRequest
<1> QED BY <1>3, <1>4, <1>5, FileArrivals DEF Arrival, ChatArrival

LEMMA ArrivalHandled == ASSUME TypeInv, FileInv, NEW r \in Requests, Arrival(r) PROVE Handled(r)
<1> DEFINE q == req'[r]
<1>1. files' = files
  BY ArrivalIsPure DEF Pure
<1>2. /\ ~Open(q) /\ q.done = {} /\ q.pc \notin {"rename", "finalize", "rollback", "commit"}
      /\ req[r].pc = "idle"
  BY ArrivalRequests DEF Begun, Starting
<1>3. Moved(req[r]) = {} /\ \A d : ~Unlisting(req[r], d)
  BY <1>2, DoneNowhere DEF Unlisting
<1>4. /\ q.op = "deleteAsset" => files[q.doc].row # "none" /\ q.pc = "destroy"
      /\ Making(q) => \E d : q.docs = {d} /\ Fresh(d)
  BY ArrivalFiles DEF Arrived
<1> HIDE DEF q
<1>5. Moved(q) = {} /\ DoneFits(q)
  BY <1>2 DEF Moved, DoneFits
<1>6. \A d \in DOMAIN files : HoldsFile(q, files[d], d)
  <2>1. \A d \in q.docs : Making(q) => files[d] = NoFile
    BY <1>4 DEF Fresh
  <2> QED BY <1>2, <1>4, <1>5, <2>1 DEF HoldsFile
<1>7. Making(q) => \A p \in Requests : q.docs \cap req[p].docs = {}
  BY <1>4 DEF Fresh
<1>8. LetsGo(r) /\ Takes(r) /\ Knows(r)
  BY <1>1, <1>2, <1>3, <1>5, <1>6, <1>7 DEF LetsGo, Takes, Knows, q
<1> QED BY <1>1, <1>8, SameFilesMild DEF Handled, FileChange

LEMMA StepHandled ==
  ASSUME TypeInv, TypeInv', FileInv, NEW r \in Requests, Step(r) PROVE Handled(r)
<1>1. ASSUME Ongoing(r), req[r].op \in Unfiled, files' = files PROVE Handled(r)
  <2>1. req'[r].op \in Unfiled
    BY <1>1 DEF Ongoing, Unfiled
  <2> QED BY <1>1, <2>1, UnfiledHandled DEF Ongoing
<1>2. CASE TaskStep(r)
  BY <1>1, <1>2, TaskStepOngoing, StartHandled, CommitHandled, AnnounceHandled DEF TaskStep
<1>3. CASE ChatStep(r) \/ Join(r)
  BY <1>1, <1>3, ChatStepOngoing
<1> QED BY <1>2, <1>3, ArrivalHandled, FileStepHandled, AnnounceHandled, CrashHandled DEF Step

LEMMA AtOnceMild ==
  ASSUME TypeInv, FileAtOnce, NEW r \in Requests PROVE \A d \in DOMAIN files : Mild(r, d)
<1>1. PICK d \in DOMAIN files : ClientUploads(d) \/ ExpireAsset(d)
  BY DEF FileAtOnce
<1>2. CASE ClientUploads(d)
  BY <1>2, FileFacts DEF ClientUploads, Mild
<1>3. CASE ExpireAsset(d)
  BY <1>3, FileFacts DEF ExpireAsset, Mild
<1> QED BY <1>1, <1>2, <1>3

LEMMA FilesStep == ASSUME TypeInv, TypeInv', FileInv, [Next]_workVars PROVE FileInv'
<1>1. CASE UNCHANGED <<tasks, files, req>>
  BY <1>1 DEF FileInv, Accounted
<1>2. ASSUME NEW r \in Requests, Step(r) PROVE FileInv'
  BY <1>2, StepHandled, StepElsewhere, FilesFollow DEF Step
<1>3. CASE FileAtOnce
  <2>1. PICK r \in Requests : TRUE
    BY WorkRequestsAssumption
  <2>2. req' = req /\ tasks' = tasks
    BY <1>3, AtOnceLeaves DEF taskVars
  <2>3. SameGrip(req[r], req'[r])
    BY <2>2 DEF SameGrip, FileInv
  <2>4. Handled(r)
    BY <1>3, <2>3, AtOnceMild, GripHandled
  <2>5. ElsewhereSpoilt(r)
    BY <2>2 DEF ElsewhereSpoilt
  <2> QED BY <2>2, <2>4, <2>5, FilesFollow
<1>4. Kinds
  BY StepKinds
<1> QED BY <1>1, <1>2, <1>3, <1>4, AtOnceLeaves, OthersLeave
        DEF Kinds, Step, ChangeSubscription, workVars, taskVars

LEMMA FilesInit == ASSUME WorkInit PROVE FileInv
<1>1. TypeInv
  BY TypesInit
<1>2. \A r \in Requests : req[r] = IdleRequest
  BY DEF WorkInit
<1>3. \A d \in DOMAIN files :
        files[d] = NoFile \/ files[d] = [NoFile EXCEPT !.row = "temporary", !.place = "temporary"]
  <2> DEFINE e == [NoFile EXCEPT !.row = "temporary", !.place = "temporary"]
  <2>1. files = [d \in 1 .. MaxFiles |-> IF d \in scenario.registered THEN e ELSE NoFile]
    BY DEF WorkInit
  <2> HIDE DEF e
  <2>2. \A d \in DOMAIN files : files[d] = NoFile \/ files[d] = e
    BY <2>1
  <2> QED BY <2>2 DEF e
<1>4. \A d \in DOMAIN files : RowFits(files[d]) /\ Accounted(files[d], req, d)
  <2>1. \A d \in DOMAIN files :
          /\ files[d].row \in {"none", "temporary"} /\ files[d].place \in {"none", "temporary"}
          /\ files[d].task = 0
    <3> DEFINE e == [NoFile EXCEPT !.row = "temporary", !.place = "temporary"]
    <3>1. e.row = "temporary" /\ e.place = "temporary" /\ e.task = 0
      BY DEF NoFile
    <3>2. NoFile.row = "none" /\ NoFile.place = "none" /\ NoFile.task = 0
      BY DEF NoFile
    <3>3. \A d \in DOMAIN files : files[d] = NoFile \/ files[d] = e
      BY <1>3
    <3> HIDE DEF e
    <3> QED BY <3>1, <3>2, <3>3
  <2> QED BY <2>1 DEF RowFits, Accounted, Recorded
<1>5. Moved(IdleRequest) = {} /\ Quiet(IdleRequest) /\ DoneFits(IdleRequest)
  BY IdleQuiet, QuietHands
<1>6. \A r \in Requests :
        DoneFits(req[r]) /\ \A d \in DOMAIN files : HoldsFile(req[r], files[d], d)
  BY <1>2, <1>5, QuietHands
<1>7. \A p, r \in Requests : Apart(req[p], req[r])
  BY <1>2, <1>5 DEF Apart, Quiet
<1>8. \A t \in DOMAIN tasks : tasks[t].attachments = {}
  BY DEF WorkInit, NewTask
<1> QED BY <1>4, <1>6, <1>7, <1>8 DEF FileInv

LEMMA FilesAlways == Spec => [](TypeInv /\ FileInv)
<1>1. WorkInit => TypeInv /\ FileInv
  BY TypesInit, FilesInit
<1>2. TypeInv /\ FileInv /\ [Next]_workVars => (TypeInv /\ FileInv)'
  BY TypesStep, FilesStep
<1> QED BY <1>1, <1>2, PTL DEF Spec

\* The file of a final asset is where its row says, through renames, rollbacks, sweeps and
\* deletions that race one another: a file is renamed by the one request that finds it under
\* its temporary name, its row is written while that request has it, and a row that says
\* final is deleted after its file only.
THEOREM FinalizedFilesAreThere == Spec => []FinalizedHasFile
<1>1. TypeInv /\ FileInv => FinalizedHasFile
  <2> SUFFICES ASSUME TypeInv, FileInv, NEW d \in DOMAIN files, files[d].row = "final"
               PROVE  \/ files[d].place = "final" /\ files[d].under = files[d].task
                      \/ files[d].stray
                      \/ \E r \in Requests :
                           Doing(r, "deleteAsset") /\ At(r, "unlist") /\ req[r].doc = d
    BY DEF FinalizedHasFile
  <2> QED BY DEF FileInv, RowFits, Accounted, Recorded, Unlisting, Doing, At
<1> QED BY <1>1, FilesAlways, PTL

\* A renamed file whose row is still temporary is in the hands of a request that will
\* record it or name it back, unless a failure put it down: an asset that fails takes the
\* others of its task back with it.
THEOREM RenamedFilesAreAccountedFor == Spec => []RollbackRestoresFiles
<1>1. FileInv => RollbackRestoresFiles
  BY DEF FileInv, Accounted, RollbackRestoresFiles
<1> QED BY <1>1, FilesAlways, PTL

\* The attachments of a task are assets that were finalized for it, and for no other task
\* that wanted the same upload: only one transaction can have written the row.
THEOREM AttachmentsBelongToTheirTask == Spec => []AttachmentsAreFinal
<1>1. FileInv => AttachmentsAreFinal
  BY DEF FileInv, Attached, Recorded, AttachmentsAreFinal, Live
<1> QED BY <1>1, FilesAlways, PTL

-----------------------------------------------------------------------------
(* Tasks that outlive their workspace. *)

\* A request that is still to create a task in the workspace.
CreatingIn(q, w) == q.op = "createTask" /\ q.workspace = w /\ q.pc \notin Announcing
Creators(w) == {r \in Requests : CreatingIn(req[r], w)}

StrandInv ==
  \A w \in DOMAIN workspaces :
     ~workspaces[w] => Cardinality(TasksOf(w)) + Cardinality(Creators(w)) < Cardinality(Requests)

LEMMA TasksAreFinite == ASSUME TypeInv, NEW w PROVE IsFiniteSet(TasksOf(w)) /\ IsFiniteSet(Creators(w))
<1>1. TasksOf(w) \subseteq 1 .. Len(tasks) /\ Creators(w) \subseteq Requests
  BY RowFacts DEF TasksOf, Creators
<1>2. IsFiniteSet(1 .. Len(tasks))
  BY RowFacts, FS_Interval
<1> QED BY <1>1, <1>2, WorkRequestsAssumption, FS_Subset

\* A workspace that was deleted stays deleted, and one goes by a cascade only.
LEMMA WorkspacesGo ==
  ASSUME TypeInv, NEW r \in Requests, Step(r), NEW w \in DOMAIN workspaces', ~workspaces'[w]
  PROVE  /\ w \in DOMAIN workspaces
         /\ ~workspaces[w] \/ (Cascade(r) /\ w = req[r].workspace /\ workspaces' # workspaces)
<1>1. CASE workspaces' = workspaces
  BY <1>1
<1>2. CASE InsertWorkspace(r)
  <2>1. /\ DOMAIN workspaces' = 1 .. Len(workspaces) + 1 /\ workspaces'[Len(workspaces) + 1] = TRUE
        /\ \A v \in DOMAIN workspaces : workspaces'[v] = workspaces[v]
    BY <1>2, WorkspaceAdded DEF InsertWorkspace
  <2> QED BY <2>1, RowFacts
<1>3. CASE Cascade(r) /\ workspaces' # workspaces
  <2>1. workspaces' = [workspaces EXCEPT ![req[r].workspace] = FALSE]
    BY <1>3 DEF Cascade, taskVars
  <2> QED BY <1>3, <2>1
<1>4. workspaces' = workspaces \/ InsertWorkspace(r) \/ Cascade(r)
  <2>1. CASE TaskStep(r)
    BY <2>1 DEF TaskStep, CountWorkspaces, assertWithinWorkspaceLimit, DraftTask, CommitCreate,
       ReadTask, CommitUpdate, FindTask, softDeleteByIdAndWorkspace, Publish, taskVars
  <2> QED BY <2>1, ArrivalIsPure, FileStepLeaves, ChatStepLeaves, OthersLeave DEF Step, Pure, taskVars
<1> QED BY <1>1, <1>2, <1>3, <1>4

\* A task is created in a workspace that is there.
LEMMA CreationArrives ==
  ASSUME TypeInv, NEW r \in Requests, Arrival(r), req'[r].op = "createTask"
  PROVE  req'[r].workspace \in DOMAIN workspaces /\ workspaces[req'[r].workspace]
<1>1. req \in [Requests -> Request]
  BY ReqFacts
<1>2. ASSUME NEW u, WorkspaceArrival(r, u)
      PROVE  req'[r].workspace \in DOMAIN workspaces /\ workspaces[req'[r].workspace]
  <2>1. ~CreateWorkspace(r, u)
    BY ZenonT(60), <1>1 DEF CreateWorkspace, Begin, IdleRequest
  <2>2. ASSUME NEW w, DeleteWorkspace(r, u, w)
        PROVE  req'[r].op = "deleteWorkspace"
    BY <1>1, <2>2 DEF DeleteWorkspace, Begin, IdleRequest
  <2>3. ASSUME NEW w, NEW a, NEW status, NEW docs, CreateTask(r, u, w, a, status, docs)
        PROVE  req'[r].workspace \in DOMAIN workspaces /\ workspaces[req'[r].workspace]
    BY <1>1, <2>3 DEF CreateTask, Begin, IdleRequest, assertWorkspaceBelongsToTenant
  <2>4. ASSUME NEW t, DeleteTask(r, u, t)
        PROVE  req'[r].op = "deleteTask"
    BY <1>1, <2>4 DEF DeleteTask, Begin, IdleRequest
  <2>5. ASSUME NEW t, NEW a, NEW status, NEW docs, NEW keep, UpdateTask(r, u, t, a, status, docs, keep)
        PROVE  req'[r].op = "updateTask"
    BY <1>1, <2>5 DEF UpdateTask, Begin, IdleRequest
  <2> QED BY <1>2, <2>1, <2>2, <2>3, <2>4, <2>5 DEF WorkspaceArrival
<1>3. ASSUME NEW u, NEW s PROVE ~DeleteSession(r, u, s) /\ ~SendMessage(r, u, s)
  <2>1. ~DeleteSession(r, u, s)
    BY ZenonT(60), <1>1 DEF DeleteSession, BeginChat, Begin, IdleRequest
  <2>2. ~SendMessage(r, u, s)
    BY ZenonT(60), <1>1 DEF SendMessage, BeginChat, Begin, IdleRequest
  <2> QED BY <2>1, <2>2
<1>4. ASSUME NEW s, NEW w, Subscribe(r, s, w)
      PROVE  req'[r].op = "subscribe"
  BY <1>1, <1>4 DEF Subscribe, Begin, IdleRequest
<1>5. ~FileArrival(r)
  <2>1. ~Cleanup(r)
    BY ZenonT(60), <1>1 DEF Cleanup, Begin, IdleRequest
  <2>2. ASSUME NEW d, DeleteAsset(r, d)
        PROVE  req'[r].op = "deleteAsset"
    BY <1>1, <2>2 DEF DeleteAsset, Begin, IdleRequest
  <2>3. ASSUME NEW d, NEW t, FinalizeAsset(r, d, t)
        PROVE  req'[r].op = "finalizeAsset"
    BY <1>1, <2>3 DEF FinalizeAsset, Begin, IdleRequest
  <2>4. ASSUME NEW d, NEW t, CreateUploadSignature(r, d, t)
        PROVE  req'[r].op = "createUploadSignature"
    BY <1>1, <2>4 DEF CreateUploadSignature, Begin, IdleRequest
  <2>5. ASSUME NEW d, NEW t, RegisterAsset(r, d, t)
        PROVE  req'[r].op = "registerAsset"
    BY <1>1, <2>5 DEF RegisterAsset, Begin, IdleRequest
  <2>6. ASSUME NEW d, NEW t, UploadViaApi(r, d, t)
        PROVE  req'[r].op = "upload"
    BY <1>1, <2>6 DEF UploadViaApi, Begin, IdleRequest
  <2> QED BY <2>1, <2>2, <2>3, <2>4, <2>5, <2>6 DEF FileArrival
<1> QED BY <1>2, <1>3, <1>4, <1>5 DEF Arrival, ChatArrival

\* Nobody but an arrival starts to create a task.
LEMMA CreatorsBefore ==
  ASSUME TypeInv, NEW r \in Requests, Step(r), NEW w, CreatingIn(req'[r], w)
  PROVE  /\ CreatingIn(req[r], w) \/ (Arrival(r) /\ w \in DOMAIN workspaces /\ workspaces[w])
         /\ ~CommitCreate(r)
<1>1. ~Finish(r) /\ req[r] \in Request /\ req \in [Requests -> Request]
  BY ReqFacts DEF Finish, IdleRequest, CreatingIn
<1>2. CASE Arrival(r)
  <2>1. req[r].pc = "idle"
    BY <1>2, ArrivalRequests DEF Begun
  <2> QED BY <1>2, <2>1, CreationArrives DEF CreatingIn, CommitCreate, At
<1>3. CASE FileStep(r)
  <2>1. SameTask(req[r], req'[r])
    BY <1>1, <1>3, FileStepGoesOn
  <2>2. req[r].pc \notin Announcing \cup {"commit"}
    BY <1>3 DEF FileStep, At, Sweep, SweepDestroy, SweepUnlist, CountFiles, Sign, UploadBuffer,
       FindExisting, SumFinalizedBytes, CreateAsset, FindTemporaryAssets, RenameAsset, FinalizeRow,
       Rollback, DestroyAsset, UnlistAsset, Announcing
  <2> QED BY <2>1, <2>2 DEF SameTask, CreatingIn, CommitCreate, At
<1>4. ~(Ongoing(r) /\ req[r].op \in Unfiled)
  BY DEF Ongoing, Unfiled, CreatingIn
<1>5. ~CommitCreate(r) /\ ~CommitUpdate(r)
  <2>1. ASSUME CommitCreate(r) \/ CommitUpdate(r) PROVE FALSE
    <3>1. PICK told \in Users \cup {Nobody}, was \in Users \cup {Nobody},
               now \in Users \cup {Nobody} : Committed(r, told, was, now)
      BY <1>1, <2>1, CommitKinds DEF CommitFails
    <3>2. req[r].pc = "commit"
      BY <2>1, CommitKinds
    <3> DEFINE q == AfterCommit(r, told, was, now)
    <3>3. q.pc = (IF told = Nobody THEN "publish" ELSE "notify") /\ Moves(r, q)
      BY SMTT(30), <3>1, <3>2, CommitMoves
    <3> HIDE DEF q
    <3> QED BY <3>3 DEF Moves, CreatingIn, Announcing
  <2> QED BY <2>1
<1>6. CASE DraftTask(r)
  BY <1>1, <1>5, <1>6, DraftedRequest, ReqFacts
     DEF DraftTask, At, CreatingIn, RequestFits, PcFits, Announcing, Sweeping, Finalizing, ChatPcs
<1>7. ~ReadTask(r)
  <2>1. ASSUME ReadTask(r) PROVE FALSE
    <3>1. req[r].op = "updateTask"
      BY <2>1 DEF ReadTask, Doing
    <3>2. req' = [req EXCEPT ![r].pc = "sweep", ![r].next = "find",
                    ![r].was = tasks[req[r].task].assignedTo,
                    ![r].found = findTemporary(req[r].docs)]
      BY <1>1, <2>1 DEF ReadTask
    <3>3. req'[r].op = req[r].op
      BY <1>1, <3>2 DEF Request
    <3> QED BY <3>1, <3>3 DEF CreatingIn
  <2> QED BY <2>1
<1>8. ~NotifyAssignee(r) /\ ~Publish(r) /\ ~Crash(r)
  BY <1>1, SimplyOngoing DEF NotifyAssignee, Publish, Crash, CreatingIn, Announcing
<1> QED BY <1>2, <1>3, <1>4, <1>5, <1>6, <1>7, <1>8, TaskStepOngoing, ChatStepOngoing DEF Step, TaskStep

\* A live task of the workspace was live before, or its creation commits now.
LEMMA LiveBefore ==
  ASSUME TypeInv, TaskInv, NEW r \in Requests, Step(r), NEW w,
         NEW t \in DOMAIN tasks', tasks'[t].stage = "live", tasks'[t].workspace = w
  PROVE  \/ t \in TasksOf(w)
         \/ CommitCreate(r) /\ t = req[r].task /\ CreatingIn(req[r], w)
<1>1. TasksChange(r)
  BY StepChangesTasks
<1>2. CASE t \notin DOMAIN tasks
  BY <1>1, <1>2, RowFacts DEF TasksChange, Drafts, NewTask
<1>3. CASE t \in DOMAIN tasks
  <2>1. tasks[t] \in Task
    BY <1>3, RowFacts
  <2>2. CASE tasks'[t] = tasks[t] \/ Misses(r, t)
    BY <1>3, <2>2, MissedSameRow DEF SameRow, TasksOf, Live
  <2>3. ~Abandons(r, t) /\ ~Deletes(r, t)
    BY <2>1 DEF Abandons, Deletes, Task
  <2>4. CASE Creates(r, t)
    <3>1. tasks'[t].workspace = tasks[t].workspace
      BY <2>1, <2>4 DEF Creates, Task
    <3>2. Open(req[r]) /\ req[r].op = "createTask" /\ req[r].pc = "commit" /\ t = req[r].task
      BY <2>4 DEF Creates, Drafting
    <3>3. CreatingIn(req[r], w)
      BY <3>1, <3>2 DEF TaskInv, TaskHeld, CreatingIn, Announcing
    <3>4. CommitCreate(r)
      BY <2>4 DEF Creates
    <3> QED BY <3>2, <3>3, <3>4
  <2>5. CASE Updates(r, t)
    <3>1. Patched(r).stage = tasks[t].stage /\ Patched(r).workspace = tasks[t].workspace
      BY <1>3, <2>5, PatchedType DEF Updates
    <3> QED BY <1>3, <2>5, <3>1 DEF Updates, TasksOf, Live
  <2> QED BY <1>1, <1>3, <2>2, <2>3, <2>4, <2>5 DEF TasksChange, Drafts, Changes
<1> QED BY <1>2, <1>3

LEMMA CreatorsElsewhere ==
  ASSUME TypeInv, NEW r \in Requests, ElsewhereSpoilt(r), NEW p \in Requests \ {r}, NEW w
  PROVE  CreatingIn(req'[p], w) <=> CreatingIn(req[p], w)
<1>1. CASE req'[p] = req[p]
  BY <1>1
<1>2. CASE SpoiltBy(p)
  <2>1. req[p] \in Request /\ req'[p] = [req[p] EXCEPT !.stale = TRUE]
    BY <1>2, ReqFacts DEF SpoiltBy
  <2>2. req'[p].op = req[p].op /\ req'[p].workspace = req[p].workspace /\ req'[p].pc = req[p].pc
    BY <2>1 DEF Request
  <2> QED BY <2>2 DEF CreatingIn
<1> QED BY <1>1, <1>2 DEF ElsewhereSpoilt

\* The cascade leaves no task, and one request that creates none.
LEMMA CascadeStrands ==
  ASSUME TypeInv, TypeInv', NEW r \in Requests, Cascade(r), workspaces' # workspaces
  PROVE  LET w == req[r].workspace
         IN  /\ \A t \in DOMAIN tasks' : tasks'[t].stage = "live" => tasks'[t].workspace # w
             /\ ~CreatingIn(req'[r], w)
<1> DEFINE w == req[r].workspace
           S == TasksOf(w)
<1>1. tasks' = softDeleteAllByWorkspace(w) /\ req' = Spoilt([req EXCEPT ![r] = IdleRequest], S)
  BY DEF Cascade, taskVars
<1>2. DOMAIN tasks' = DOMAIN tasks
      /\ \A t \in DOMAIN tasks :
           tasks'[t] = IF t \in S THEN [tasks[t] EXCEPT !.stage = "deleted"] ELSE tasks[t]
  BY <1>1 DEF softDeleteAllByWorkspace
<1>3. \A t \in DOMAIN tasks : tasks[t].workspace = w /\ tasks[t].stage = "live" => t \in S
  BY DEF TasksOf, Live
<1>4. IdleRequest \in Request /\ ~Open(IdleRequest) /\ IdleRequest.op = "none"
  BY IdleFits DEF IdleRequest, Open
<1>5. req'[r] = IdleRequest
  BY <1>1, <1>4, SpoiltMoves DEF Moves
<1>6. \A t \in DOMAIN tasks : tasks[t] \in Task
  BY RowFacts
<1>7. \A t \in DOMAIN tasks : t \in S => tasks'[t].stage = "deleted"
  <2> HIDE DEF S
  <2> QED BY <1>2, <1>6 DEF Task
<1> HIDE DEF S, w
<1>8. \A t \in DOMAIN tasks' : tasks'[t].stage = "live" => tasks'[t].workspace # w
  BY <1>2, <1>3, <1>7
<1> QED BY <1>4, <1>5, <1>8 DEF CreatingIn, w

LEMMA StrandStep ==
  ASSUME TypeInv, TypeInv', TaskInv, StrandInv, [Next]_workVars PROVE StrandInv'
<1>1. CASE UNCHANGED <<workspaces, tasks, req>>
  BY <1>1 DEF StrandInv, TasksOf, Creators, Live
<1>2. ASSUME NEW r \in Requests, Step(r), NEW w \in DOMAIN workspaces', ~workspaces'[w]
      PROVE  (Cardinality(TasksOf(w)) + Cardinality(Creators(w)) < Cardinality(Requests))'
  <2> DEFINE T == TasksOf(w)
             C == Creators(w)
             T1 == {t \in DOMAIN tasks' : tasks'[t].workspace = w /\ tasks'[t].stage = "live"}
             C1 == {p \in Requests : CreatingIn(req'[p], w)}
  <2>1. TasksOf(w)' = T1 /\ Creators(w)' = C1
    BY DEF TasksOf, Creators, Live, CreatingIn
  <2>2. /\ IsFiniteSet(T) /\ IsFiniteSet(C) /\ Cardinality(T) \in Nat /\ Cardinality(C) \in Nat
        /\ Cardinality(Requests) \in Nat
    BY TasksAreFinite, WorkRequestsAssumption, FS_CardinalityType
  <2>3. ElsewhereSpoilt(r)
    BY <1>2, StepElsewhere DEF Step
  <2>4. CASE Cascade(r) /\ w = req[r].workspace /\ workspaces' # workspaces
    <3>1. T1 = {} /\ C1 \subseteq Requests \ {r}
      BY <1>2, <2>4, CascadeStrands
    <3>2. Cardinality(T1) = 0
      BY <3>1, FS_EmptySet
    <3>3. IsFiniteSet(Requests \ {r}) /\ Cardinality(Requests \ {r}) = Cardinality(Requests) - 1
      BY WorkRequestsAssumption, FS_RemoveElement
    <3>4. Cardinality(C1) <= Cardinality(Requests) - 1 /\ Cardinality(C1) \in Nat
      BY <3>1, <3>3, FS_Subset, FS_CardinalityType
    <3> QED BY <2>1, <2>2, <3>2, <3>4
  <2>5. CASE w \in DOMAIN workspaces /\ ~workspaces[w]
    <3>1. Cardinality(T) + Cardinality(C) < Cardinality(Requests)
      BY <2>5 DEF StrandInv
    <3>2. C1 \subseteq C
      BY <1>2, <2>3, <2>5, CreatorsBefore, CreatorsElsewhere DEF Creators
    <3>3. CASE T1 \subseteq T
      <4> HIDE DEF T, C, T1, C1
      <4>1. Cardinality(T1) <= Cardinality(T) /\ Cardinality(T1) \in Nat
        BY <2>2, <3>3, FS_Subset, FS_CardinalityType
      <4>2. Cardinality(C1) <= Cardinality(C) /\ Cardinality(C1) \in Nat
        BY <2>2, <3>2, FS_Subset, FS_CardinalityType
      <4> QED BY <2>1, <2>2, <3>1, <4>1, <4>2
    <3>4. CASE ~(T1 \subseteq T)
      <4> DEFINE n == req[r].task
      <4>1. CommitCreate(r) /\ CreatingIn(req[r], w) /\ T1 \subseteq T \cup {n}
        BY <1>2, <3>4, LiveBefore
      <4>2. r \in C /\ r \notin C1
        <5>1. ~CreatingIn(req'[r], w)
          BY <1>2, <4>1, CreatorsBefore
        <5>2. r \in C
          BY <4>1 DEF Creators
        <5> QED BY <5>1, <5>2
      <4> HIDE DEF T, C, T1, C1, n
      <4>3. C1 \subseteq C \ {r} /\ IsFiniteSet(C \ {r})
            /\ Cardinality(C \ {r}) = Cardinality(C) - 1
        BY <2>2, <3>2, <4>2, FS_RemoveElement
      <4>4. Cardinality(C1) <= Cardinality(C) - 1 /\ Cardinality(C1) \in Nat
        BY <4>3, FS_Subset, FS_CardinalityType
      <4>5. IsFiniteSet(T \cup {n}) /\ Cardinality(T \cup {n}) <= Cardinality(T) + 1
            /\ Cardinality(T \cup {n}) \in Nat
        <5>1. IsFiniteSet(T \cup {n})
              /\ Cardinality(T \cup {n}) = IF n \in T THEN Cardinality(T) ELSE Cardinality(T) + 1
          BY <2>2, FS_AddElement
        <5>2. Cardinality(T) \in Nat
          BY <2>2
        <5> QED BY <5>1, <5>2
      <4>6. Cardinality(T1) <= Cardinality(T) + 1 /\ Cardinality(T1) \in Nat
        BY <2>2, <4>1, <4>5, FS_Subset, FS_CardinalityType
      <4> QED BY <2>1, <2>2, <3>1, <4>4, <4>6
    <3> QED BY <3>3, <3>4
  <2> QED BY <1>2, <2>4, <2>5, WorkspacesGo
<1>3. Kinds
  BY StepKinds
<1>4. ASSUME NEW r \in Requests, Step(r) PROVE StrandInv'
  BY <1>2, <1>4 DEF StrandInv
<1> QED BY <1>1, <1>3, <1>4, AtOnceLeaves, OthersLeave
        DEF Kinds, Step, ChangeSubscription, workVars, taskVars

\* A workspace that is deleted leaves fewer live tasks behind than there are requests: the
\* cascade leaves none, and only a creation that had found the workspace can still commit.
THEOREM FewTasksAreStranded == Spec => []StrandedTasks
<1>1. WorkInit => TypeInv /\ TaskInv /\ StrandInv
  <2>1. WorkInit => StrandInv
    BY DEF WorkInit, StrandInv
  <2> QED BY <2>1, TypesInit, TasksInit
<1>2. TypeInv /\ TaskInv /\ StrandInv /\ [Next]_workVars => (TypeInv /\ TaskInv /\ StrandInv)'
  BY TypesStep, TasksStep, StrandStep
<1>3. TypeInv /\ StrandInv => StrandedTasks
  <2> SUFFICES ASSUME TypeInv, StrandInv, NEW w \in DOMAIN workspaces, ~workspaces[w]
               PROVE  Cardinality(TasksOf(w)) < Cardinality(Requests)
    BY DEF StrandedTasks
  <2>1. Cardinality(TasksOf(w)) + Cardinality(Creators(w)) < Cardinality(Requests)
    BY DEF StrandInv
  <2>2. /\ Cardinality(TasksOf(w)) \in Nat /\ Cardinality(Creators(w)) \in Nat
        /\ Cardinality(Requests) \in Nat
    BY TasksAreFinite, WorkRequestsAssumption, FS_CardinalityType
  <2> QED BY <2>1, <2>2
<1> QED BY <1>1, <1>2, <1>3, PTL DEF Spec
===============================================================================
