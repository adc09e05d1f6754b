------------------------------- MODULE WorkSystem -------------------------------
(***************************************************************************)
(* The work of one tenant: its workspaces and tasks, files, sockets,       *)
(* notifications and chats together, with subscriptions that change,       *)
(* uploads that expire, and crashes.                                       *)
(***************************************************************************)
EXTENDS Chatbot

ChangeSubscription ==
  /\ "billing" \in scenario.faults
  /\ entitled' \in scenario.entitled
  /\ ceiling' = Highest(ceiling, Limits.maxWorkspaces')
  /\ UNCHANGED <<scenario, taskVars, files, roomVars, notices, chatVars, req>>

ExpireAsset(d) ==
  /\ "expiry" \in scenario.faults
  /\ files[d].row = "temporary" /\ ~files[d].expired
  /\ files' = [files EXCEPT ![d].expired = TRUE]
  /\ UNCHANGED <<taskVars, roomVars, notices, chatVars, req>>

\* The files that a request at this point has under a final name, and not recorded.
Moved(q) ==
  CASE q.pc = "rollback" -> q.batch
    [] q.pc = "finalize" -> q.done \cup {q.doc}
    [] OTHER -> IF Open(q) THEN q.done ELSE {}

\* Those that nobody moves on when it dies here.
Astray(q) == Moved(q) \cup (IF q.op = "deleteAsset" /\ q.pc = "unlist" THEN {q.doc} ELSE {})

\* The server dies, or the call of the step fails in a way the code does not handle.
Crash(r) ==
  /\ "crash" \in scenario.faults
  /\ ~At(r, "idle")
  /\ Finish(r)
  /\ files' = Stray(files, Astray(req[r]))
  /\ tasks' = IF At(r, "notify") THEN [tasks EXCEPT ![req[r].task].untold = @ \cup {req[r].tell}]
              ELSE Undrafted(r)
  /\ silenced' = silenced \cup (IF req[r].pc \in {"notify", "publish"} THEN PublishRooms(r) ELSE {})
  /\ UNCHANGED <<workspaces, sockets, unsignalled, notices, chatVars>>

-----------------------------------------------------------------------------
Statuses == scenario.statuses
Assignees == scenario.assignees
Offers(op) == op \in scenario.operations
Docs == {S \in SUBSET scenario.registered : Cardinality(S) <= scenario.maxDocs}

WorkspaceArrival(r, u) ==
  \/ CreateWorkspace(r, u)
  \/ \E w \in DOMAIN workspaces :
       \/ DeleteWorkspace(r, u, w)
       \/ \E a \in Assignees \ {Same}, status \in Statuses \ {"same"}, docs \in Docs :
            CreateTask(r, u, w, a, status, docs)
  \/ \E t \in DOMAIN tasks :
       \/ DeleteTask(r, u, t)
       \/ \E a \in Assignees, status \in Statuses, docs \in Docs, keep \in {TRUE, ~Offers("detach")} :
            UpdateTask(r, u, t, a, status, docs, keep)

FileArrival(r) ==
  \/ Cleanup(r)
  \/ \E d \in DOMAIN files :
       \/ DeleteAsset(r, d)
       \/ \E t \in DOMAIN tasks : FinalizeAsset(r, d, t)
       \/ \E t \in DOMAIN tasks \cup {0} :
            CreateUploadSignature(r, d, t) \/ RegisterAsset(r, d, t) \/ UploadViaApi(r, d, t)

ChatArrival(r, u) ==
  \E s \in DOMAIN sessions : DeleteSession(r, u, s) \/ SendMessage(r, u, s)

Arrival(r) ==
  \/ FileArrival(r)
  \/ \E u \in scenario.callers : WorkspaceArrival(r, u) \/ ChatArrival(r, u)
  \/ \E s \in DOMAIN Sockets, w \in DOMAIN workspaces : Subscribe(r, s, w)

SocketStep(s) ==
  \/ Offers("subscribe") /\ \E w \in DOMAIN workspaces : Unsubscribe(s, w)
  \/ Offers("myTasks") /\ (SubscribeMyTasks(s) \/ UnsubscribeMyTasks(s))
  \/ Offers("connect") /\ (Connect(s) \/ Disconnect(s))

AtOnce ==
  \/ \E s \in DOMAIN Sockets : SocketStep(s)
  \/ NotifyOfBilling \/ \E u \in Users : NotifyOfRegistration(u)
  \/ \E u \in scenario.callers :
       \/ Offers("markRead") /\ (MarkAllInAppRead(u) \/ \E n \in DOMAIN notices : MarkInAppRead(u, n))
       \/ \E title \in {"default", "chosen"} : CreateSession(u, title)
       \/ Offers("patchSession") /\ \E s \in DOMAIN sessions : PatchSession(u, s)
  \/ \E d \in DOMAIN files : ClientUploads(d) \/ ExpireAsset(d)

Progress(r) == FileStep(r) \/ TaskStep(r) \/ Join(r) \/ NotifyAssignee(r) \/ ChatStep(r)

Next ==
  \/ ChangeSubscription
  \/ /\ AtOnce \/ \E r \in Requests : Arrival(r) \/ Progress(r) \/ Crash(r)
     /\ UNCHANGED <<scenario, entitled, ceiling>>

Spec == WorkInit /\ [][Next]_workVars

-----------------------------------------------------------------------------
TypeOK == WorkTypeOK

\* A file whose row says final is at Cloudinary under the name of the row's task, however
\* many requests rename it at once and whichever of them rolls back: else a request is
\* deleting it, or one failed when it had destroyed the file and not yet the row.
FinalizedHasFile ==
  \A d \in DOMAIN files :
     files[d].row = "final" =>
       \/ files[d].place = "final" /\ files[d].under = files[d].task
       \/ files[d].stray
       \/ \E r \in Requests : Doing(r, "deleteAsset") /\ At(r, "unlist") /\ req[r].doc = d

\* A file renamed for a request that then fails gets its name back: while the row says
\* temporary the file has the final name only in the hands of a request under way, or
\* after a failure that the code does not undo.
RollbackRestoresFiles ==
  \A d \in DOMAIN files :
     files[d].row = "temporary" /\ files[d].place = "final" =>
       files[d].stray \/ \E r \in Requests : d \in Moved(req[r])

\* What a live task lists as its attachment was finalized for that very task, never for
\* another one whose request raced it.
AttachmentsAreFinal ==
  \A t \in DOMAIN tasks :
     Live(t) => \A d \in tasks[t].attachments :
                   files[d].row \in {"final", "deleted"} /\ files[d].task = t

\* No update takes a completed task back, not even one that read it before.
CompletedIsFinal ==
  [][\A t \in DOMAIN tasks : Live(t) /\ tasks[t].status = "DONE" => tasks'[t].status = "DONE"]_workVars

\* A deleted workspace leaves live tasks behind only from creations that had checked it:
\* at most one for every other request at work.
StrandedTasks ==
  \A w \in DOMAIN workspaces :
     ~workspaces[w] => Cardinality(TasksOf(w)) < Cardinality(Requests)

\* Every board and task list that shows a change is told to refetch, the list of the user
\* who lost the task included, unless a crash, the deletion of the workspace or a
\* deletion that raced a reassignment kept it silent.
RoomsSignalled ==
  \A room \in unsignalled :
     \/ room \in silenced
     \/ \E r \in Requests : req[r].pc \in {"notify", "publish"} /\ room \in PublishRooms(r)

\* The assignee of a task has a notification of it or will have one, through all
\* reassignments by concurrent updates, unless storing it failed.
AssigneeNotified ==
  \A t \in DOMAIN tasks :
     LET u == tasks[t].assignedTo
     IN  Live(t) /\ u # Nobody =>
           \/ \E n \in DOMAIN notices : notices[n].task = t /\ notices[n].to = u
           \/ \E r \in Requests : At(r, "notify") /\ req[r].task = t /\ req[r].tell = u
           \/ u \in tasks[t].untold

\* Nobody is pushed a notification that its list does not show: but for one who is no
\* member and is itself addressed, which the list of admins leaves out.
PushMatchesList ==
  \A n \in DOMAIN notices : \A u \in notices[n].pushed :
     n \in findRecentForAudience(u) \/ (~isTenantMember(u) /\ notices[n].to = u)

\* A socket hears one board only, the one it subscribed to last, whatever its
\* subscriptions under way were looking up meanwhile.
OneBoardPerSocket ==
  \A s \in DOMAIN sockets :
     {room \in sockets[s].rooms : room[1] = "board"} = {sockets[s].board} \ {NoRoom}

\* The model is asked with the question in the prompt, unless somebody deleted it or the
\* prompt is full of older messages.
HistoryHasQuestion ==
  \A r \in Requests :
     At(r, "complete") /\ messages[req[r].question].stored =>
       req[r].question \in req[r].history \/ Cardinality(req[r].history) = HistoryCap

\* Workspaces: their limit is a Quota.  A request holds a count until it inserts.
Counted(r) == Doing(r, "createWorkspace") /\ req[r].pc \in {"limit", "insert"}

Places == INSTANCE Quota WITH
  Owners <- {1}, Nobody <- 0,
  used <- [k \in {1} |-> countByTenantId],
  owner <- [r \in Requests |-> IF Counted(r) THEN 1 ELSE 0],
  seen <- [r \in Requests |-> IF Counted(r) THEN req[r].seen ELSE 0],
  ceiling <- [k \in {1} |-> ceiling]

WorkspaceQuota == Places!Spec
===============================================================================
