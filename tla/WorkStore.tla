------------------------------- MODULE WorkStore -------------------------------
(***************************************************************************)
(* What the people of one tenant work on: workspaces and their tasks, file *)
(* assets with the files at Cloudinary, sockets and the rooms they are in, *)
(* notifications, chat sessions and messages; and the requests on them,    *)
(* interrupted at every await.  Every query filters by the tenant, so one  *)
(* tenant is enough.  A request that is refused without a write takes no   *)
(* step.                                                                   *)
(***************************************************************************)
EXTENDS Entitlements, Sequences, FiniteSets

CONSTANTS
  Requests,
  Scenarios,    \* what goes on: operations, faults and bounds; a behaviour has one
  Role,         \* of every user: "admin", "member" or "operator" (platform admin)
  Sockets,      \* the user of every socket
  MaxFiles,     \* bound
  HistoryCap,   \* messages a prompt carries (60 in the code)
  Providers     \* how many model providers there are (3 in the code)

Users == DOMAIN Role
Nobody == 0
Same == -1     \* a field the body of a request does not have

Highest(c, d) == IF c = NoCap \/ d = NoCap THEN NoCap ELSE IF c < d THEN d ELSE c

ASSUME WorkRequestsAssumption == IsFiniteSet(Requests) /\ Requests # {}
ASSUME RoleAssumption ==
  /\ Users \subseteq Nat \ {0}
  /\ Role \in [Users -> {"admin", "member", "operator"}]
  /\ DOMAIN Sockets \subseteq Nat /\ Sockets \in [DOMAIN Sockets -> Users]
ASSUME WorkBoundsAssumption ==
  MaxFiles \in Nat /\ HistoryCap \in Nat \ {0} /\ Providers \in Nat \ {0}

\* The tenant may have what its subscription allows at first.
ASSUME ScenariosAssumption ==
  \A s \in Scenarios :
     /\ s.entitled \subseteq [subscription : SubscriptionView, plan : PlanView]
     /\ s.callers \subseteq Users /\ s.assignees \subseteq Users \cup {Nobody, Same}
     /\ s.statuses \subseteq {"open", "DONE", "same"} /\ s.registered \subseteq 1 .. MaxFiles
     /\ s.workspaces \in Nat /\ s.tasks \in Nat /\ (s.tasks > 0 => s.workspaces > 0)
     /\ \A e \in s.entitled :
           LET cap == Highest(FreeLimits.maxWorkspaces,
                              resolveFeatureLimits(e.subscription, e.plan).maxWorkspaces)
           IN  cap = NoCap \/ s.workspaces <= cap

VARIABLES
  scenario,
  entitled,    \* the tenant's subscription and the plan row of its price
  ceiling,     \* history: the highest workspace limit there was
  workspaces,  \* every workspace ever created: whether it is stored
  tasks,       \* every task ever created
  files,       \* by upload: the row of file_assets and the file at Cloudinary
  sockets,     \* by socket: the rooms it is in and the board it is subscribed to
  unsignalled, \* rooms that show a change nobody has announced yet
  silenced,    \* history: rooms that a change was never announced to
  notices,     \* every notification
  sessions,    \* every chat session ever created
  messages,    \* every chat message ever stored
  req

taskVars == <<workspaces, tasks>>
roomVars == <<sockets, unsignalled, silenced>>
chatVars == <<sessions, messages>>
workVars == <<scenario, entitled, ceiling, taskVars, files, roomVars, notices, chatVars, req>>

\* The statuses but DONE are alike: any may move to any other.  A draft is a task whose
\* creation is not committed; `untold' are the assignees whose notification was lost.
Task == [workspace : Nat, status : {"open", "DONE"}, assignedTo : Users \cup {Nobody},
         attachments : SUBSET (1 .. MaxFiles), untold : SUBSET Users,
         stage : {"draft", "live", "deleted", "aborted"}]

\* `place' and `under' tell where the file is: under its temporary id, or under the final
\* id of a task.  `stray' is history: a failure left the file where its row does not say.
FileAsset == [row : {"none", "signed", "temporary", "final", "swept", "deleted"},
              task : Nat, expired : BOOLEAN,
              place : {"none", "temporary", "final", "gone"}, under : Nat, stray : BOOLEAN]
NoFile == [row |-> "none", task |-> 0, expired |-> FALSE, place |-> "none", under |-> 0,
           stray |-> FALSE]

\* The rooms: a workspace's board, a user's task list, a user's notifications, and those
\* of the admins.
boardRoom(w) == <<"board", w>>
myTasksRoom(u) == <<"tasks", u>>
userRoom(u) == <<"user", u>>
adminRoom == <<"admins", 0>>
NoRoom == <<"none", 0>>
Room == {"board", "tasks", "user", "admins", "none"} \X Nat
Socket == [rooms : SUBSET Room, board : Room]

Notice == [to : Users \cup {Nobody}, task : Nat, read : BOOLEAN, pushed : SUBSET Users]
Session == [user : Users, stored : BOOLEAN, title : {"default", "automatic", "chosen"}]
Message == [session : Nat, role : {"user", "assistant"}, stored : BOOLEAN]

Ops == {"none", "createWorkspace", "deleteWorkspace", "createTask", "updateTask",
        "deleteTask", "createUploadSignature", "registerAsset", "upload", "finalizeAsset",
        "deleteAsset", "cleanup", "subscribe", "deleteSession", "sendMessage"}
Pcs == {"idle", "count", "limit", "insert", "cascade", "draft", "read", "sweep", "destroy",
        "unlist", "find", "rename", "finalize", "rollback", "commit", "delete", "notify",
        "publish", "upload", "existing", "sum", "join", "messages", "session", "question",
        "title", "history", "complete", "answer"}
Request == [op : Ops, pc : Pcs, next : Pcs, caller : Users \cup {Nobody}, workspace : Nat,
            task : Nat, docs : SUBSET (1 .. MaxFiles), found : SUBSET (1 .. MaxFiles),
            done : SUBSET (1 .. MaxFiles), batch : SUBSET (1 .. MaxFiles), doc : Nat,
            assignedTo : Users \cup {Nobody, Same}, keep : BOOLEAN,
            status : {"open", "DONE", "same"}, was : Users \cup {Nobody},
            tell : Users \cup {Nobody}, stale : BOOLEAN, seen : Nat,
            session : Nat, untitled : BOOLEAN, question : Nat, history : SUBSET Nat,
            socket : Nat]
IdleRequest ==
  [op |-> "none", pc |-> "idle", next |-> "idle", caller |-> Nobody, workspace |-> 0,
   task |-> 0, docs |-> {}, found |-> {}, done |-> {}, batch |-> {}, doc |-> 0,
   assignedTo |-> Nobody, keep |-> TRUE, status |-> "open", was |-> Nobody, tell |-> Nobody,
   stale |-> FALSE, seen |-> 0, session |-> 0, untitled |-> FALSE, question |-> 0,
   history |-> {}, socket |-> 0]

Entitled == [subscription : SubscriptionView, plan : PlanView]

WorkTypeOK ==
  /\ scenario \in Scenarios
  /\ entitled \in Entitled
  /\ ceiling \in Nat \cup {NoCap}
  /\ workspaces \in Seq(BOOLEAN)
  /\ tasks \in Seq(Task)
  /\ files \in [1 .. MaxFiles -> FileAsset]
  /\ sockets \in [DOMAIN Sockets -> Socket]
  /\ unsignalled \cup silenced \subseteq Room
  /\ notices \in Seq(Notice)
  /\ sessions \in Seq(Session)
  /\ messages \in Seq(Message)
  /\ req \in [Requests -> Request]

-----------------------------------------------------------------------------
At(r, pc) == req[r].pc = pc
Doing(r, op) == req[r].op = op
Goto(r, pc) == req' = [req EXCEPT ![r].pc = pc]
Finish(r) == req' = [req EXCEPT ![r] = IdleRequest]
Begin(r, locals) ==
  /\ locals.op \in scenario.operations
  /\ At(r, "idle")
  /\ req' = [req EXCEPT ![r] = locals]

\* A call that fails, of the database or of another service.
MayFail == "failure" \in scenario.faults

isTenantMember(u) == Role[u] = "member"

\* The two reads of resolveFeatureLimits count as one.
Limits == resolveFeatureLimits(entitled.subscription, entitled.plan)

assertWorkspaceBelongsToTenant(w) == w \in DOMAIN workspaces /\ workspaces[w]
Live(t) == t \in DOMAIN tasks /\ tasks[t].stage = "live"

(* Transactions: snapshot isolation.  A transaction on a task fails when another commit *)
(* writes a task that it has read.                                                      *)

Open(q) ==
  /\ q.op \in {"createTask", "updateTask"}
  /\ q.pc \in {"sweep", "destroy", "unlist", "find", "rename", "finalize", "rollback", "commit"}
InTransaction(r) == Open(req[r])
Spoilt(requests, S) ==
  [r \in Requests |->
     IF Open(requests[r]) /\ requests[r].op = "updateTask" /\ requests[r].task \in S
     THEN [requests[r] EXCEPT !.stale = TRUE] ELSE requests[r]]

\* A row that an open transaction has written: others wait, or fail if in a transaction.
LockedFile(d) == \E r \in Requests : InTransaction(r) /\ d \in req[r].done

Undrafted(r) ==
  IF Doing(r, "createTask") /\ InTransaction(r)
  THEN [tasks EXCEPT ![req[r].task].stage = "aborted"] ELSE tasks

NewTask(w, status, u) ==
  [workspace |-> w, status |-> status, assignedTo |-> u, attachments |-> {}, untold |-> {},
   stage |-> "draft"]

WorkInit ==
  /\ scenario \in Scenarios
  /\ entitled \in scenario.entitled
  /\ ceiling = Highest(FreeLimits.maxWorkspaces, Limits.maxWorkspaces)
  /\ workspaces = [w \in 1 .. scenario.workspaces |-> TRUE]
  /\ tasks = [t \in 1 .. scenario.tasks |-> [NewTask(1, "open", Nobody) EXCEPT !.stage = "live"]]
  /\ files = [d \in 1 .. MaxFiles |->
                IF d \in scenario.registered
                THEN [NoFile EXCEPT !.row = "temporary", !.place = "temporary"] ELSE NoFile]
  /\ sockets = [s \in DOMAIN Sockets |-> [rooms |-> {}, board |-> NoRoom]]
  /\ unsignalled = {}
  /\ silenced = {}
  /\ notices = <<>>
  /\ sessions = <<>>
  /\ messages = <<>>
  /\ req = [r \in Requests |-> IdleRequest]
===============================================================================
