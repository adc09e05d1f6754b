------------------------------- MODULE WorkProofs -------------------------------
(***************************************************************************)
(* What is proved of the tasks, rooms, notifications and chats of a        *)
(* tenant, for any number of users, sockets and requests and any scenario. *)
(* Every invariant rests on the types and on RequestFits: what a request   *)
(* at a point of its operation has found out already.                      *)
(***************************************************************************)
EXTENDS WorkSystem, FiniteSetTheorems, SequenceTheorems, TLAPS

Sweeping == {"sweep", "destroy", "unlist"}
Finalizing == Sweeping \cup {"find", "rename", "finalize", "rollback"}
Announcing == {"notify", "publish"}
ChatPcs == {"title", "history", "complete", "answer"}

\* The points of every operation.
PcFits(op, pc) ==
  \/ op = "none" /\ pc = "idle"
  \/ op = "createWorkspace" /\ pc \in {"count", "limit", "insert"}
  \/ op = "deleteWorkspace" /\ pc = "cascade"
  \/ op = "createTask" /\ pc \in Finalizing \cup Announcing \cup {"draft", "commit"}
  \/ op = "updateTask" /\ pc \in Finalizing \cup Announcing \cup {"read", "commit"}
  \/ op = "deleteTask" /\ pc \in {"read", "delete", "publish"}
  \/ op = "createUploadSignature" /\ pc \in Sweeping \cup {"count", "limit"}
  \/ op = "registerAsset" /\ pc \in Sweeping \cup {"existing", "sum", "insert"}
  \/ op = "upload" /\ pc \in Finalizing \cup {"upload", "existing", "sum", "insert"}
  \/ op = "finalizeAsset" /\ pc \in Finalizing
  \/ op = "deleteAsset" /\ pc \in {"destroy", "unlist"}
  \/ op = "cleanup" /\ pc \in Sweeping
  \/ op = "subscribe" /\ pc = "join"
  \/ op = "deleteSession" /\ pc \in {"messages", "session"}
  \/ op = "sendMessage" /\ pc \in {"session", "question"} \cup ChatPcs

\* Where the sweep before an operation leads.
NextFits(op, pc, next) ==
  /\ pc \in Sweeping =>
       \/ op \in {"createTask", "updateTask", "upload", "finalizeAsset"} /\ next = "find"
       \/ op = "createUploadSignature" /\ next = "count"
       \/ op \in {"registerAsset", "upload"} /\ next = "existing"
       \/ op = "upload" /\ next = "upload"
       \/ op \in {"cleanup", "deleteAsset"} /\ next = "idle"
  /\ pc \in (Finalizing \ Sweeping) \cup {"commit", "notify"} => next = "find"

\* Rows are never taken out of the model's sequences, so their lengths bound what a
\* request may name: workspaces, tasks, sessions and messages.
Lengths == <<Len(workspaces), Len(tasks), Len(sessions), Len(messages)>>

NamesFit(q, n) ==
  /\ q.op \in {"deleteWorkspace", "createTask", "updateTask", "deleteTask", "subscribe"} =>
       q.workspace \in 1 .. n[1]
  /\ q.next = "find" \/ q.op \in {"updateTask", "deleteTask"} => q.task \in 1 .. n[2]
  /\ q.op \in {"createUploadSignature", "registerAsset", "upload"} => q.task \in 0 .. n[2]
  /\ q.op \in {"deleteSession", "sendMessage"} => q.session \in 1 .. n[3]
  /\ q.pc \in ChatPcs => q.question \in 1 .. n[4]
  /\ q.op = "subscribe" => q.socket \in DOMAIN Sockets
  /\ q.op = "deleteAsset" \/ q.pc \in {"unlist", "finalize"} => q.doc \in 1 .. MaxFiles
  /\ q.op \in {"createUploadSignature", "registerAsset", "upload", "finalizeAsset"} =>
       \E d \in 1 .. MaxFiles : q.docs = {d}

RequestFits(q, n) ==
  /\ PcFits(q.op, q.pc) /\ NextFits(q.op, q.pc, q.next) /\ NamesFit(q, n)
  /\ q.op = "createTask" => q.assignedTo # Same /\ q.status # "same"
  /\ q.op = "deleteTask" \/ q.pc \in Announcing => q.assignedTo # Same
  /\ q.pc = "notify" => q.tell \in Users

TypeInv == TypeOK /\ \A r \in Requests : RequestFits(req[r], Lengths)

-----------------------------------------------------------------------------
(* Sequences. *)

LEMMA SeqFacts ==
  ASSUME NEW T, NEW s \in Seq(T)
  PROVE  /\ Len(s) \in Nat /\ DOMAIN s = 1 .. Len(s)
         /\ \A i \in DOMAIN s : s[i] \in T
BY LenProperties, ElementOfSeq

LEMMA SeqPut ==
  ASSUME NEW T, NEW s \in Seq(T), NEW i \in DOMAIN s, NEW e \in T
  PROVE  /\ [s EXCEPT ![i] = e] \in Seq(T)
         /\ Len([s EXCEPT ![i] = e]) = Len(s)
         /\ DOMAIN [s EXCEPT ![i] = e] = DOMAIN s
BY ExceptSeq, LenProperties

LEMMA SeqAdd ==
  ASSUME NEW T, NEW s \in Seq(T), NEW e \in T
  PROVE  /\ Append(s, e) \in Seq(T)
         /\ Len(Append(s, e)) = Len(s) + 1
         /\ DOMAIN Append(s, e) = 1 .. Len(s) + 1
         /\ \A i \in DOMAIN s : Append(s, e)[i] = s[i]
         /\ Append(s, e)[Len(s) + 1] = e
<1>1. Append(s, e) \in Seq(T) /\ Len(Append(s, e)) = Len(s) + 1
  BY AppendProperties
<1>2. DOMAIN Append(s, e) = 1 .. Len(s) + 1
  BY <1>1, LenProperties
<1> QED BY <1>1, <1>2, AppendProperties, SeqFacts

LEMMA SeqOn ==
  ASSUME NEW T, NEW n \in Nat, NEW s \in [1 .. n -> T]
  PROVE  s \in Seq(T) /\ Len(s) = n /\ DOMAIN s = 1 .. n
<1>1. s \in Seq(T) BY SeqDef
<1> QED BY <1>1, LenProperties

\* The same indexes, with other values.
LEMMA SeqOver ==
  ASSUME NEW T, NEW s \in Seq(T), NEW f, f = [i \in DOMAIN s |-> f[i]],
         \A i \in DOMAIN s : f[i] \in T
  PROVE  f \in Seq(T) /\ Len(f) = Len(s) /\ DOMAIN f = DOMAIN s
<1>1. Len(s) \in Nat /\ DOMAIN s = 1 .. Len(s)
  BY SeqFacts
<1>2. f \in [1 .. Len(s) -> T]
  BY <1>1
<1> QED BY <1>1, <1>2, SeqOn

-----------------------------------------------------------------------------
(* Types: what they say of the rows and of a request. *)

LEMMA RowFacts ==
  ASSUME TypeInv
  PROVE  /\ scenario \in Scenarios /\ entitled \in Entitled
         /\ Len(workspaces) \in Nat /\ DOMAIN workspaces = 1 .. Len(workspaces)
         /\ Len(tasks) \in Nat /\ DOMAIN tasks = 1 .. Len(tasks)
         /\ Len(notices) \in Nat /\ DOMAIN notices = 1 .. Len(notices)
         /\ Len(sessions) \in Nat /\ DOMAIN sessions = 1 .. Len(sessions)
         /\ Len(messages) \in Nat /\ DOMAIN messages = 1 .. Len(messages)
         /\ \A w \in DOMAIN workspaces : workspaces[w] \in BOOLEAN
         /\ \A t \in DOMAIN tasks : tasks[t] \in Task
         /\ \A n \in DOMAIN notices : notices[n] \in Notice
         /\ \A s \in DOMAIN sessions : sessions[s] \in Session
         /\ \A m \in DOMAIN messages : messages[m] \in Message
BY SeqFacts DEF TypeInv, TypeOK, WorkTypeOK

LEMMA FileFacts ==
  ASSUME TypeInv
  PROVE  files \in [1 .. MaxFiles -> FileAsset] /\ DOMAIN files = 1 .. MaxFiles
BY DEF TypeInv, TypeOK, WorkTypeOK

LEMMA ReqFacts ==
  ASSUME TypeInv, NEW r \in Requests
  PROVE  req[r] \in Request /\ RequestFits(req[r], Lengths) /\ req \in [Requests -> Request]
BY DEF TypeInv, TypeOK, WorkTypeOK

\* What a scenario lets the requests do.
LEMMA ScenarioFacts ==
  ASSUME TypeInv
  PROVE  /\ scenario.callers \subseteq Users /\ Assignees \subseteq Users \cup {Nobody, Same}
         /\ Statuses \subseteq {"open", "DONE", "same"} /\ Docs \subseteq SUBSET (1 .. MaxFiles)
         /\ scenario.entitled \subseteq Entitled
BY ScenariosAssumption, RowFacts DEF Assignees, Statuses, Docs, Entitled

-----------------------------------------------------------------------------
(* Types: what a step makes of the requests. *)

Numbers(n) == n[1] \in Nat /\ n[2] \in Nat /\ n[3] \in Nat /\ n[4] \in Nat
Grown(m, n) == m[1] <= n[1] /\ m[2] <= n[2] /\ m[3] <= n[3] /\ m[4] <= n[4]

LEMMA FitsLater ==
  ASSUME NEW m, NEW n, Numbers(m), Numbers(n), Grown(m, n),
         NEW q \in Request, RequestFits(q, m)
  PROVE  RequestFits(q, n)
<1>1. NamesFit(q, n)
  BY DEF Grown, Numbers, RequestFits, NamesFit
<1> QED BY <1>1 DEF RequestFits

LEMMA LengthsType == ASSUME TypeInv PROVE Numbers(Lengths)
<1>1. /\ Len(workspaces) \in Nat /\ Len(tasks) \in Nat /\ Len(sessions) \in Nat
      /\ Len(messages) \in Nat
  BY RowFacts
<1> QED BY <1>1 DEF Lengths, Numbers

LEMMA IdleFits ==
  ASSUME NEW n PROVE IdleRequest \in Request /\ RequestFits(IdleRequest, n)
BY DEF IdleRequest, Request, Ops, Pcs, RequestFits, PcFits, NextFits, NamesFit, Sweeping,
   Finalizing, Announcing, ChatPcs

\* One request takes a step; a transaction of another may be spoilt by it.
SpoiltBy(p) ==
  /\ Open(req[p]) /\ req[p].op = "updateTask"
  /\ req'[p] = [req[p] EXCEPT !.stale = TRUE]

Moves(r, q) ==
  /\ req' \in [Requests -> Request] /\ req'[r] = q
  /\ \A p \in Requests \ {r} : req'[p] = req[p] \/ SpoiltBy(p)

LEMMA PutMoves ==
  ASSUME TypeInv, NEW r \in Requests, NEW q \in Request, req' = [req EXCEPT ![r] = q]
  PROVE  Moves(r, q) /\ \A p \in Requests \ {r} : req'[p] = req[p]
BY ReqFacts DEF Moves

LEMMA SpoiltType ==
  ASSUME NEW q \in Request, NEW n
  PROVE  /\ [q EXCEPT !.stale = TRUE] \in Request
         /\ RequestFits(q, n) => RequestFits([q EXCEPT !.stale = TRUE], n)
<1>1. [q EXCEPT !.stale = TRUE] \in Request
  BY DEF Request
<1>2. RequestFits(q, n) => RequestFits([q EXCEPT !.stale = TRUE], n)
  BY DEF RequestFits, NamesFit, Request
<1> QED BY <1>1, <1>2

LEMMA SpoiltMoves ==
  ASSUME TypeInv, NEW r \in Requests, NEW q \in Request, ~Open(q), NEW S,
         req' = Spoilt([req EXCEPT ![r] = q], S)
  PROVE  /\ Moves(r, q)
         /\ \A p \in Requests \ {r} :
              Open(req[p]) /\ req[p].op = "updateTask" /\ req[p].task \in S => SpoiltBy(p)
<1> DEFINE f == [req EXCEPT ![r] = q]
<1>1. f \in [Requests -> Request] /\ f[r] = q /\ \A p \in Requests \ {r} : f[p] = req[p]
  BY ReqFacts
<1>2. req' = Spoilt(f, S)
  OBVIOUS
<1> HIDE DEF f
<1> DEFINE g(p) == IF Open(f[p]) /\ f[p].op = "updateTask" /\ f[p].task \in S
                   THEN [f[p] EXCEPT !.stale = TRUE] ELSE f[p]
<1>3. req' = [p \in Requests |-> g(p)]
  BY <1>2 DEF Spoilt
<1>4. \A p \in Requests : g(p) \in Request
  BY <1>1, SpoiltType
<1>5. req' \in [Requests -> Request] /\ \A p \in Requests : req'[p] = g(p)
  <2> HIDE DEF g
  <2> QED BY <1>3, <1>4
<1> QED BY <1>1, <1>5 DEF Moves, SpoiltBy

RequestsFit == req' \in [Requests -> Request] /\ \A p \in Requests : RequestFits(req[p], Lengths)'

LEMMA MovesFit ==
  ASSUME TypeInv, Numbers(Lengths'), Grown(Lengths, Lengths'),
         NEW r \in Requests, NEW q, Moves(r, q), RequestFits(q, Lengths')
  PROVE  RequestsFit
<1>1. ASSUME NEW p \in Requests \ {r} PROVE RequestFits(req'[p], Lengths')
  <2>1. req[p] \in Request /\ RequestFits(req[p], Lengths')
    BY ReqFacts, LengthsType, FitsLater
  <2> QED BY <2>1, SpoiltType DEF Moves, SpoiltBy
<1> QED BY <1>1 DEF Moves, RequestsFit

\* What a step makes of the rows.
RowsKept ==
  /\ workspaces' \in Seq(BOOLEAN) /\ Len(workspaces) <= Len(workspaces')
  /\ tasks' \in Seq(Task) /\ Len(tasks) <= Len(tasks')
  /\ sessions' \in Seq(Session) /\ Len(sessions) <= Len(sessions')
  /\ messages' \in Seq(Message) /\ Len(messages) <= Len(messages')
  /\ files' \in [1 .. MaxFiles -> FileAsset]
  /\ sockets' \in [DOMAIN Sockets -> Socket]
  /\ unsignalled' \cup silenced' \subseteq Room
  /\ notices' \in Seq(Notice)

Typed == RowsKept /\ RequestsFit

Pure == UNCHANGED <<taskVars, files, roomVars, notices, chatVars>>

LEMMA PureKept == ASSUME TypeInv, Pure PROVE RowsKept
BY RowFacts DEF TypeInv, TypeOK, WorkTypeOK, Pure, RowsKept, taskVars, roomVars, chatVars

LEMMA KeptGrown ==
  ASSUME TypeInv, RowsKept PROVE Numbers(Lengths') /\ Grown(Lengths, Lengths')
<1>1. /\ Len(workspaces') \in Nat /\ Len(tasks') \in Nat /\ Len(sessions') \in Nat
      /\ Len(messages') \in Nat
  BY LenProperties DEF RowsKept
<1>2. /\ Len(workspaces) <= Len(workspaces') /\ Len(tasks) <= Len(tasks')
      /\ Len(sessions) <= Len(sessions') /\ Len(messages) <= Len(messages')
  BY DEF RowsKept
<1> QED BY <1>1, <1>2 DEF Lengths, Numbers, Grown

LEMMA PutFits ==
  ASSUME TypeInv, RowsKept, NEW r \in Requests, NEW q \in Request,
         RequestFits(q, Lengths) \/ RequestFits(q, Lengths'), req' = [req EXCEPT ![r] = q]
  PROVE  RequestsFit
<1>1. RequestFits(q, Lengths')
  BY KeptGrown, LengthsType, FitsLater
<1> QED BY <1>1, KeptGrown, PutMoves, MovesFit

LEMMA SpoiltFits ==
  ASSUME TypeInv, RowsKept, NEW r \in Requests, NEW q \in Request, ~Open(q), NEW S,
         RequestFits(q, Lengths), req' = Spoilt([req EXCEPT ![r] = q], S)
  PROVE  RequestsFit
<1>1. RequestFits(q, Lengths')
  BY KeptGrown, LengthsType, FitsLater
<1> QED BY <1>1, KeptGrown, SpoiltMoves, MovesFit

LEMMA FinishFits ==
  ASSUME TypeInv, RowsKept, NEW r \in Requests, Finish(r) PROVE RequestsFit
BY IdleFits, PutFits DEF Finish

LEMMA RestFits == ASSUME TypeInv, RowsKept, req' = req PROVE RequestsFit
<1>1. PICK r \in Requests : TRUE
  BY WorkRequestsAssumption
<1>2. req' = [req EXCEPT ![r] = req[r]]
  BY ReqFacts
<1> QED BY <1>2, ReqFacts, PutFits

LEMMA GoType ==
  ASSUME NEW q \in Request, NEW pc \in Pcs PROVE [q EXCEPT !.pc = pc] \in Request
BY DEF Request

\* A request goes on: the point it comes to asks for nothing it does not have.
LEMMA GotoFits ==
  ASSUME TypeInv, RowsKept, NEW r \in Requests, NEW pc \in Pcs, Goto(r, pc),
         PcFits(req[r].op, pc), NextFits(req[r].op, pc, req[r].next),
         pc \in {"unlist", "finalize"} => req[r].doc \in 1 .. MaxFiles,
         pc \in ChatPcs => req[r].question \in DOMAIN messages,
         pc \in Announcing => req[r].assignedTo # Same,
         pc # "notify"
  PROVE  RequestsFit
<1> DEFINE q == [req[r] EXCEPT !.pc = pc]
<1>1. q \in Request
  BY ReqFacts, GoType
<1>2. DOMAIN messages = 1 .. Lengths[4]
  BY RowFacts DEF Lengths
<1>3. RequestFits(q, Lengths)
  BY ReqFacts, <1>2 DEF RequestFits, NamesFit, Request
<1>4. req' = [req EXCEPT ![r] = q]
  BY DEF Goto
<1> HIDE DEF q
<1> QED BY <1>1, <1>3, <1>4, PutFits

-----------------------------------------------------------------------------
(* Types: arrivals. *)

LEMMA CreationType ==
  ASSUME NEW q \in Request, NEW op \in Ops, NEW pc \in Pcs, NEW u \in Users, NEW w \in Nat,
         NEW a \in Users \cup {Nobody, Same}, NEW status \in {"open", "DONE", "same"},
         NEW docs \in SUBSET (1 .. MaxFiles)
  PROVE  [q EXCEPT !.op = op, !.pc = pc, !.caller = u, !.workspace = w, !.assignedTo = a,
                   !.status = status, !.docs = docs] \in Request
BY DEF Request

Updating(u, w, t, a, status, docs, keep) ==
  [IdleRequest EXCEPT !.op = "updateTask", !.pc = "read", !.caller = u, !.workspace = w,
                      !.task = t, !.assignedTo = a, !.status = status, !.docs = docs,
                      !.keep = keep]

LEMMA UpdateFits ==
  ASSUME NEW n, Numbers(n), NEW u \in Users, NEW w \in 1 .. n[1], NEW t \in 1 .. n[2],
         NEW a \in Users \cup {Nobody, Same}, NEW status \in {"open", "DONE", "same"},
         NEW docs \in SUBSET (1 .. MaxFiles), NEW keep \in BOOLEAN
  PROVE  /\ Updating(u, w, t, a, status, docs, keep) \in Request
         /\ RequestFits(Updating(u, w, t, a, status, docs, keep), n)
<1> DEFINE i == IdleRequest
           q == [i EXCEPT !.op = "updateTask", !.pc = "read", !.caller = u,
                   !.workspace = w, !.task = t, !.assignedTo = a,
                   !.status = status, !.docs = docs, !.keep = keep]
<1>1. i \in Request /\ i.next = "idle"
  BY IdleFits DEF IdleRequest
<1> HIDE DEF i
<1>2. w \in Nat /\ t \in Nat /\ "updateTask" \in Ops /\ "read" \in Pcs
  BY DEF Numbers, Ops, Pcs
<1>3. q \in Request
  BY ZenonT(60), <1>1, <1>2 DEF Request
<1>4. q.op = "updateTask" /\ q.pc = "read" /\ q.next = "idle" /\ q.task = t /\ q.workspace = w
  BY <1>1 DEF Request
<1>5. q = Updating(u, w, t, a, status, docs, keep)
  BY DEF i, Updating
<1> HIDE DEF q
<1>6. RequestFits(q, n)
  BY <1>4 DEF RequestFits, PcFits, NextFits, NamesFit, Sweeping, Finalizing, Announcing, ChatPcs
<1> QED BY <1>3, <1>5, <1>6

LEMMA BeginFits ==
  ASSUME TypeInv, NEW r \in Requests, NEW q \in Request, RequestFits(q, Lengths), Begin(r, q), Pure
  PROVE  Typed
BY PureKept, PutFits DEF Begin, Typed

LEMMA WorkspaceArrivalTyped ==
  ASSUME TypeInv, NEW r \in Requests, NEW u \in scenario.callers, WorkspaceArrival(r, u)
  PROVE  Typed
<1>0. /\ DOMAIN workspaces = 1 .. Lengths[1] /\ DOMAIN tasks = 1 .. Lengths[2]
      /\ u \in Users /\ Pure
      /\ \A w \in DOMAIN workspaces : w \in Nat
      /\ \A t \in DOMAIN tasks : t \in Nat /\ tasks[t].workspace \in Nat
  <2>1. Pure
    BY DEF WorkspaceArrival, CreateWorkspace, DeleteWorkspace, CreateTask, DeleteTask,
       UpdateTask, Pure
  <2>2. \A t \in DOMAIN tasks : tasks[t] \in Task
    BY RowFacts
  <2> QED BY <2>1, <2>2, RowFacts, ScenarioFacts DEF Lengths, Task
<1>1. ASSUME CreateWorkspace(r, u) PROVE Typed
  <2> DEFINE q == [IdleRequest EXCEPT !.op = "createWorkspace", !.pc = "count"]
  <2>1. q \in Request /\ RequestFits(q, Lengths)
    BY ZenonT(60) DEF IdleRequest, Request, Ops, Pcs, RequestFits, PcFits, NextFits, NamesFit,
       Sweeping, Finalizing, Announcing, ChatPcs
  <2> HIDE DEF q
  <2> QED BY <1>0, <1>1, <2>1, BeginFits DEF CreateWorkspace, q
<1>2. ASSUME NEW w \in DOMAIN workspaces, DeleteWorkspace(r, u, w) PROVE Typed
  <2> DEFINE q == [IdleRequest EXCEPT !.op = "deleteWorkspace", !.pc = "cascade", !.workspace = w]
  <2>1. q \in Request /\ RequestFits(q, Lengths)
    BY ZenonT(60), <1>0 DEF IdleRequest, Request, Ops, Pcs, RequestFits, PcFits, NextFits, NamesFit,
       Sweeping, Finalizing, Announcing, ChatPcs
  <2> HIDE DEF q
  <2> QED BY <1>0, <1>2, <2>1, BeginFits DEF DeleteWorkspace, q
<1>3. ASSUME NEW w \in DOMAIN workspaces, NEW a \in Assignees \ {Same},
             NEW status \in Statuses \ {"same"}, NEW docs \in Docs,
             CreateTask(r, u, w, a, status, docs)
      PROVE  Typed
  <2> DEFINE q == [IdleRequest EXCEPT !.op = "createTask", !.pc = "draft", !.caller = u,
                     !.workspace = w, !.assignedTo = a, !.status = status, !.docs = docs]
  <2>0. a \in Users \cup {Nobody} /\ a # Same /\ status \in {"open", "DONE"} /\ docs \in SUBSET (1 .. MaxFiles)
    BY ScenarioFacts
  <2>1. q \in Request
    <3>1. IdleRequest \in Request /\ "createTask" \in Ops /\ "draft" \in Pcs
      BY IdleFits DEF Ops, Pcs
    <3> QED BY ZenonT(60), <1>0, <2>0, <3>1, CreationType
  <2>2. /\ q.op = "createTask" /\ q.pc = "draft" /\ q.next = "idle" /\ q.workspace = w
        /\ q.assignedTo = a /\ q.status = status
    BY DEF IdleRequest
  <2> HIDE DEF q
  <2>3. RequestFits(q, Lengths)
    BY <1>0, <2>0, <2>2 DEF RequestFits, PcFits, NextFits, NamesFit, Sweeping, Finalizing,
       Announcing, ChatPcs, Nobody, Same
  <2> QED BY <1>0, <1>3, <2>1, <2>3, BeginFits DEF CreateTask, q
<1>4. ASSUME NEW t \in DOMAIN tasks, DeleteTask(r, u, t) PROVE Typed
  <2> DEFINE q == [IdleRequest EXCEPT !.op = "deleteTask", !.pc = "read", !.task = t,
                                      !.workspace = tasks[t].workspace]
  <2>0. tasks[t].workspace \in DOMAIN workspaces
    BY <1>4 DEF DeleteTask, assertWorkspaceBelongsToTenant
  <2>1. q \in Request
    BY ZenonT(60), <1>0, <2>0 DEF IdleRequest, Request, Ops, Pcs
  <2>2. /\ q.op = "deleteTask" /\ q.pc = "read" /\ q.next = "idle" /\ q.task = t
        /\ q.workspace = tasks[t].workspace /\ q.assignedTo = Nobody
    BY DEF IdleRequest
  <2> HIDE DEF q
  <2>3. RequestFits(q, Lengths)
    BY <1>0, <2>0, <2>2 DEF RequestFits, PcFits, NextFits, NamesFit, Sweeping, Finalizing,
       Announcing, ChatPcs, Nobody, Same
  <2> QED BY <1>0, <1>4, <2>1, <2>3, BeginFits DEF DeleteTask, q
<1>5. ASSUME NEW t \in DOMAIN tasks, NEW a \in Assignees, NEW status \in Statuses,
             NEW docs \in Docs, NEW keep \in {TRUE, ~Offers("detach")},
             UpdateTask(r, u, t, a, status, docs, keep)
      PROVE  Typed
  <2> DEFINE q == Updating(u, tasks[t].workspace, t, a, status, docs, keep)
  <2>1. /\ tasks[t].workspace \in DOMAIN workspaces /\ keep \in BOOLEAN
        /\ a \in Users \cup {Nobody, Same} /\ status \in {"open", "DONE", "same"}
        /\ docs \in SUBSET (1 .. MaxFiles)
    BY <1>5, ScenarioFacts DEF UpdateTask, assertWorkspaceBelongsToTenant
  <2>2. q \in Request /\ RequestFits(q, Lengths)
    BY <1>0, <2>1, LengthsType, UpdateFits
  <2>3. Begin(r, q)
    BY <1>5 DEF UpdateTask, Updating
  <2> QED BY <1>0, <2>2, <2>3, BeginFits
<1> QED BY <1>1, <1>2, <1>3, <1>4, <1>5 DEF WorkspaceArrival

Filing(op, next, d, t) ==
  [IdleRequest EXCEPT !.op = op, !.pc = "sweep", !.next = next, !.docs = {d}, !.task = t]

LEMMA FilingFits ==
  ASSUME NEW n, Numbers(n), NEW d \in 1 .. MaxFiles, NEW op, NEW next, NEW t,
         \/ op = "createUploadSignature" /\ next = "count" /\ t \in 0 .. n[2]
         \/ op = "registerAsset" /\ next = "existing" /\ t \in 0 .. n[2]
         \/ op = "upload" /\ next = "upload" /\ t \in 0 .. n[2]
         \/ op = "finalizeAsset" /\ next = "find" /\ t \in 1 .. n[2]
  PROVE  /\ Filing(op, next, d, t) \in Request
         /\ RequestFits(Filing(op, next, d, t), n)
<1> DEFINE i == IdleRequest
           q == [i EXCEPT !.op = op, !.pc = "sweep", !.next = next, !.docs = {d}, !.task = t]
<1>1. i \in Request
  BY IdleFits
<1> HIDE DEF i
<1>2. t \in Nat /\ op \in Ops /\ "sweep" \in Pcs /\ next \in Pcs /\ {d} \in SUBSET (1 .. MaxFiles)
  BY DEF Numbers, Ops, Pcs
<1>3. q \in Request
  BY <1>1, <1>2 DEF Request
<1>4. q.op = op /\ q.pc = "sweep" /\ q.next = next /\ q.task = t /\ q.docs = {d}
  BY <1>1 DEF Request
<1>5. q = Filing(op, next, d, t)
  BY DEF i, Filing
<1> HIDE DEF q
<1>6. RequestFits(q, n)
  BY <1>4 DEF RequestFits, PcFits, NextFits, NamesFit, Sweeping, Finalizing, Announcing,
     ChatPcs, Numbers
<1> QED BY <1>3, <1>5, <1>6

LEMMA FileArrivalTyped ==
  ASSUME TypeInv, NEW r \in Requests, FileArrival(r) PROVE Typed
<1>1. Pure
  BY DEF FileArrival, Cleanup, DeleteAsset, FinalizeAsset, CreateUploadSignature, RegisterAsset,
     UploadViaApi, Pure
<1>2. DOMAIN files = 1 .. MaxFiles /\ DOMAIN tasks = 1 .. Lengths[2] /\ Numbers(Lengths)
  BY FileFacts, RowFacts, LengthsType DEF Lengths
<1>3. ASSUME Cleanup(r) PROVE Typed
  <2> DEFINE q == [IdleRequest EXCEPT !.op = "cleanup", !.pc = "sweep"]
  <2>1. q \in Request /\ RequestFits(q, Lengths)
    BY DEF IdleRequest, Request, Ops, Pcs, RequestFits, PcFits, NextFits, NamesFit,
       Sweeping, Finalizing, Announcing, ChatPcs
  <2> HIDE DEF q
  <2> QED BY <1>1, <1>3, <2>1, BeginFits DEF Cleanup, q
<1>4. ASSUME NEW d \in DOMAIN files, DeleteAsset(r, d) PROVE Typed
  <2>1. PICK b \in BOOLEAN : b = (files[d].row = "final")
    OBVIOUS
  <2> DEFINE q == [IdleRequest EXCEPT !.op = "deleteAsset", !.pc = "destroy", !.doc = d,
                                      !.stale = b]
  <2>2. d \in 1 .. MaxFiles /\ d \in Nat
    BY <1>2
  <2>3. q \in Request
    BY <2>2 DEF IdleRequest, Request, Ops, Pcs
  <2>4. RequestFits(q, Lengths)
    BY <2>2 DEF IdleRequest, RequestFits, PcFits, NextFits, NamesFit, Sweeping, Finalizing,
       Announcing, ChatPcs
  <2>5. Begin(r, q)
    BY <1>4, <2>1 DEF DeleteAsset
  <2> HIDE DEF q
  <2> QED BY <1>1, <2>3, <2>4, <2>5, BeginFits
<1>5. ASSUME NEW d \in DOMAIN files, NEW t \in DOMAIN tasks, FinalizeAsset(r, d, t) PROVE Typed
  <2>1. Begin(r, Filing("finalizeAsset", "find", d, t))
    BY <1>5 DEF FinalizeAsset, Filing
  <2> QED BY <1>1, <1>2, <2>1, FilingFits, BeginFits
<1>6. ASSUME NEW d \in DOMAIN files, NEW t \in DOMAIN tasks \cup {0},
             CreateUploadSignature(r, d, t) \/ RegisterAsset(r, d, t) \/ UploadViaApi(r, d, t)
      PROVE  Typed
  <2>1. \/ Begin(r, Filing("createUploadSignature", "count", d, t))
        \/ Begin(r, Filing("registerAsset", "existing", d, t))
        \/ Begin(r, Filing("upload", "upload", d, t))
    BY <1>6 DEF CreateUploadSignature, RegisterAsset, UploadViaApi, Filing
  <2>2. t \in 0 .. Lengths[2]
    BY <1>2 DEF Numbers
  <2> QED BY <1>1, <1>2, <2>1, <2>2, FilingFits, BeginFits
<1> QED BY <1>3, <1>4, <1>5, <1>6 DEF FileArrival

LEMMA ChatArrivalTyped ==
  ASSUME TypeInv, NEW r \in Requests, NEW u \in scenario.callers, ChatArrival(r, u) PROVE Typed
<1>1. PICK s \in DOMAIN sessions : DeleteSession(r, u, s) \/ SendMessage(r, u, s)
  BY DEF ChatArrival
<1>2. Pure
  BY <1>1 DEF DeleteSession, SendMessage, BeginChat, Pure
<1>3. s \in Nat /\ s \in 1 .. Lengths[3] /\ u \in Users
  BY RowFacts, ScenarioFacts DEF Lengths
<1>4. ASSUME NEW op, NEW pc, BeginChat(r, op, pc, u, s),
             \/ op = "deleteSession" /\ pc = "messages"
             \/ op = "sendMessage" /\ pc = "session"
      PROVE  Typed
  <2> DEFINE q == [IdleRequest EXCEPT !.op = op, !.pc = pc, !.caller = u, !.session = s]
  <2>1. q \in Request
    BY ZenonT(60), <1>3, <1>4 DEF IdleRequest, Request, Ops, Pcs
  <2>2. RequestFits(q, Lengths)
    BY <1>3, <1>4 DEF IdleRequest, RequestFits, PcFits, NextFits, NamesFit, Sweeping,
       Finalizing, Announcing, ChatPcs
  <2>3. Begin(r, q)
    BY <1>4 DEF BeginChat
  <2> HIDE DEF q
  <2> QED BY <1>2, <2>1, <2>2, <2>3, BeginFits
<1> QED BY <1>1, <1>4 DEF DeleteSession, SendMessage

LEMMA SubscribeTyped ==
  ASSUME TypeInv, NEW r \in Requests, NEW s \in DOMAIN Sockets, NEW w \in DOMAIN workspaces,
         Subscribe(r, s, w)
  PROVE  Typed
<1>1. Pure
  BY DEF Subscribe, Pure
<1>2. s \in Nat /\ w \in Nat /\ w \in 1 .. Lengths[1]
  BY RoleAssumption, RowFacts DEF Lengths
<1> DEFINE q == [IdleRequest EXCEPT !.op = "subscribe", !.pc = "join", !.socket = s,
                                    !.workspace = w]
<1>3. q \in Request
  BY <1>2 DEF IdleRequest, Request, Ops, Pcs
<1>4. RequestFits(q, Lengths)
  BY <1>2 DEF IdleRequest, RequestFits, PcFits, NextFits, NamesFit, Sweeping, Finalizing,
     Announcing, ChatPcs
<1>5. Begin(r, q)
  BY DEF Subscribe
<1> HIDE DEF q
<1> QED BY <1>1, <1>3, <1>4, <1>5, BeginFits

LEMMA ArrivalTyped ==
  ASSUME TypeInv, NEW r \in Requests, Arrival(r) PROVE Typed
BY FileArrivalTyped, WorkspaceArrivalTyped, ChatArrivalTyped, SubscribeTyped DEF Arrival

-----------------------------------------------------------------------------
(* Types: the steps on files. *)

Rest == UNCHANGED <<taskVars, roomVars, notices, chatVars>>

LEMMA FilesKept ==
  ASSUME TypeInv, files' \in [1 .. MaxFiles -> FileAsset],
         UNCHANGED <<workspaces, roomVars, notices, chatVars>>,
         tasks' \in Seq(Task) /\ Len(tasks') = Len(tasks)
  PROVE  RowsKept
BY RowFacts DEF TypeInv, TypeOK, WorkTypeOK, RowsKept, roomVars, chatVars

LEMMA FilesOnly ==
  ASSUME TypeInv, Rest, files' \in [1 .. MaxFiles -> FileAsset] PROVE RowsKept
BY FilesKept DEF TypeInv, TypeOK, WorkTypeOK, Rest, taskVars

LEMMA FilePut ==
  ASSUME TypeInv, NEW d \in 1 .. MaxFiles
  PROVE  /\ \A e \in FileAsset : [files EXCEPT ![d] = e] \in [1 .. MaxFiles -> FileAsset]
         /\ files[d] \in FileAsset
BY FileFacts

FilesType == [1 .. MaxFiles -> FileAsset]

LEMMA FileOperators ==
  ASSUME TypeInv, NEW d \in 1 .. MaxFiles, NEW t \in Nat, NEW S
  PROVE  /\ destroyTemporary(d) \in FilesType /\ destroyFinal(d) \in FilesType
         /\ deleteTemporary(d) \in FilesType /\ deleteFinal(d) \in FilesType
         /\ Renamed(d, t) \in FilesType /\ NamedBack(d) \in FilesType
         /\ Finalized(S, t) \in FilesType
         /\ \A fs \in FilesType : Stray(fs, S) \in FilesType
<1>1. files \in FilesType
  BY FileFacts DEF FilesType
<1>2. destroyTemporary(d) \in FilesType /\ destroyFinal(d) \in FilesType
  BY <1>1 DEF FilesType, FileAsset, destroyTemporary, destroyFinal
<1>3. deleteTemporary(d) \in FilesType /\ deleteFinal(d) \in FilesType
  BY <1>1 DEF FilesType, FileAsset, deleteTemporary, deleteFinal
<1>4. Renamed(d, t) \in FilesType /\ NamedBack(d) \in FilesType
  <2> DEFINE e == [files[d] EXCEPT !.place = "final", !.under = t]
             f == [files[d] EXCEPT !.place = "temporary", !.under = 0]
  <2>1. e \in FileAsset /\ f \in FileAsset
    BY <1>1 DEF FilesType, FileAsset
  <2>2. Renamed(d, t) = [files EXCEPT ![d] = e] /\ NamedBack(d) = [files EXCEPT ![d] = f]
    BY DEF Renamed, NamedBack
  <2> HIDE DEF e, f
  <2> QED BY <1>1, <2>1, <2>2 DEF FilesType
<1>5. Finalized(S, t) \in FilesType
  BY <1>1 DEF FilesType, FileAsset, Finalized
<1>6. \A fs \in FilesType : Stray(fs, S) \in FilesType
  BY DEF FilesType, FileAsset, Stray
<1> QED BY <1>2, <1>3, <1>4, <1>5, <1>6

LEMMA OnwardFits ==
  ASSUME TypeInv, RowsKept, NEW r \in Requests, req[r].pc \in Sweeping,
         req[r].op # "deleteAsset", Onward(r)
  PROVE  RequestsFit
<1>1. CASE Finish(r)
  BY <1>1, FinishFits
<1>2. CASE req[r].next # "idle"
  <2> DEFINE pc == req[r].next
  <2>1. Goto(r, pc) /\ pc \in Pcs
    BY <1>2, ReqFacts DEF Onward, Request
  <2>2. PcFits(req[r].op, pc) /\ NextFits(req[r].op, pc, req[r].next)
    BY <1>2, ReqFacts DEF RequestFits, PcFits, NextFits, Sweeping, Finalizing
  <2>3. pc \notin {"unlist", "finalize"} \cup ChatPcs \cup Announcing
    BY <1>2, ReqFacts DEF RequestFits, NextFits, ChatPcs, Announcing
  <2> HIDE DEF pc
  <2> QED BY <2>1, <2>2, <2>3, GotoFits DEF Announcing
<1> QED BY <1>1, <1>2 DEF Onward

\* The files that a request may name.
LEMMA NamedFiles ==
  ASSUME TypeInv, NEW r \in Requests
  PROVE  /\ req[r].docs \subseteq 1 .. MaxFiles /\ req[r].done \subseteq 1 .. MaxFiles
         /\ req[r].batch \subseteq 1 .. MaxFiles /\ req[r].found \subseteq 1 .. MaxFiles
         /\ req[r].pc \in {"unlist", "finalize"} \/ req[r].op = "deleteAsset" =>
              req[r].doc \in 1 .. MaxFiles
         /\ req[r].task \in Nat /\ req[r].next \in Pcs
BY ReqFacts DEF Request, RequestFits, NamesFit

LEMMA SweepPcs ==
  ASSUME NEW op, NEW pc \in Sweeping, NEW next, PcFits(op, pc), NextFits(op, pc, next),
         op # "deleteAsset", NEW to \in Sweeping
  PROVE  PcFits(op, to) /\ NextFits(op, to, next)
<1>1. PcFits(op, to)
  <2>1. op \in {"createTask", "updateTask", "createUploadSignature", "registerAsset", "upload",
               "finalizeAsset", "cleanup"}
    BY DEF PcFits, Sweeping, Finalizing, ChatPcs
  <2> QED BY <2>1 DEF PcFits, Finalizing
<1>2. NextFits(op, to, next)
  BY DEF NextFits, Sweeping, Finalizing
<1> QED BY <1>1, <1>2

LEMMA SweepTyped ==
  ASSUME TypeInv, NEW r \in Requests, Sweep(r) \/ SweepDestroy(r) \/ SweepUnlist(r)
  PROVE  Typed
<1>1. /\ req[r] \in Request /\ req[r].pc \in Sweeping /\ req[r].op # "deleteAsset"
      /\ RequestFits(req[r], Lengths)
  BY ReqFacts DEF Sweep, SweepDestroy, SweepUnlist, At, Doing, Sweeping, RequestFits, PcFits
<1>2. PcFits(req[r].op, "destroy") /\ PcFits(req[r].op, "unlist")
  BY <1>1, SweepPcs DEF RequestFits, Sweeping
<1>3. NextFits(req[r].op, "destroy", req[r].next) /\ NextFits(req[r].op, "unlist", req[r].next)
  BY <1>1, SweepPcs DEF RequestFits, Sweeping
<1>4. RowsKept
  <2>1. Rest
    BY DEF Sweep, SweepDestroy, SweepUnlist, Rest
  <2>2. files' \in FilesType
    <3>1. files \in FilesType
      BY FileFacts DEF FilesType
    <3>2. ASSUME NEW d \in 1 .. MaxFiles
          PROVE  destroyTemporary(d) \in FilesType /\ deleteTemporary(d) \in FilesType
      BY FileOperators
    <3>3. At(r, "unlist") => req[r].doc \in 1 .. MaxFiles
      BY NamedFiles DEF At
    <3>4. \/ files' = files
          \/ \E d \in req[r].batch : files' = destroyTemporary(d)
          \/ At(r, "unlist") /\ files' = deleteTemporary(req[r].doc)
      BY DEF Sweep, SweepDestroy, SweepUnlist
    <3> QED BY <3>1, <3>2, <3>3, <3>4, NamedFiles
  <2> QED BY <2>1, <2>2, FilesOnly DEF FilesType
<1>5. CASE Onward(r)
  BY <1>1, <1>4, <1>5, OnwardFits DEF Typed
<1>6. CASE SweepUnlist(r)
  BY <1>2, <1>3, <1>4, <1>6, GotoFits DEF SweepUnlist, Typed, Pcs, ChatPcs, Announcing
<1>7. ASSUME NEW q \in Request, RequestFits(q, Lengths), req' = [req EXCEPT ![r] = q] PROVE Typed
  BY <1>4, <1>7, PutFits DEF Typed
<1>8. CASE Sweep(r) /\ ~Onward(r)
  <2> DEFINE S == findExpiredTemporaryAssets
             q == [req[r] EXCEPT !.pc = "destroy", !.batch = S]
  <2>1. S \in SUBSET (1 .. MaxFiles)
    BY FileFacts DEF findExpiredTemporaryAssets
  <2>2. req' = [req EXCEPT ![r] = q]
    BY <1>8 DEF Sweep
  <2> HIDE DEF S
  <2>3. q \in Request
    BY ZenonT(60), <1>1, <2>1 DEF Request, Pcs
  <2>4. RequestFits(q, Lengths)
    BY <1>1, <1>2, <1>3 DEF RequestFits, NamesFit, Request, ChatPcs, Announcing
  <2> HIDE DEF q
  <2> QED BY <2>2, <2>3, <2>4, <1>7
<1>9. CASE SweepDestroy(r) /\ ~Onward(r)
  <2>1. PICK d \in req[r].batch :
          \/ req' = [req EXCEPT ![r].pc = "unlist", ![r].doc = d, ![r].batch = @ \ {d}]
          \/ req' = [req EXCEPT ![r].batch = @ \ {d}]
    BY <1>9 DEF SweepDestroy
  <2>2. d \in 1 .. MaxFiles /\ d \in Nat /\ req[r].batch \ {d} \in SUBSET (1 .. MaxFiles)
    BY NamedFiles
  <2> DEFINE B == req[r].batch \ {d}
             q == [req[r] EXCEPT !.pc = "unlist", !.doc = d, !.batch = B]
             p == [req[r] EXCEPT !.batch = B]
  <2>3. req' = [req EXCEPT ![r] = q] \/ req' = [req EXCEPT ![r] = p]
    BY <2>1
  <2> HIDE DEF B
  <2>4. q \in Request /\ p \in Request
    <3>1. B \in SUBSET (1 .. MaxFiles) /\ "unlist" \in Pcs
      BY <2>2 DEF B, Pcs
    <3>2. q \in Request
      BY <1>1, <2>2, <3>1 DEF Request
    <3>3. p \in Request
      BY <1>1, <3>1 DEF Request
    <3> QED BY <3>2, <3>3
  <2>5. RequestFits(q, Lengths)
    BY <1>1, <1>2, <1>3, <2>2 DEF RequestFits, NamesFit, Request, ChatPcs, Announcing
  <2>6. RequestFits(p, Lengths)
    BY <1>1 DEF RequestFits, NamesFit, Request, ChatPcs, Announcing
  <2> HIDE DEF q, p
  <2> QED BY <2>3, <2>4, <2>5, <2>6, <1>7
<1> QED BY <1>5, <1>6, <1>8, <1>9

LEMMA SeenType ==
  ASSUME NEW q \in Request, NEW pc \in Pcs, NEW n \in Nat
  PROVE  [q EXCEPT !.pc = pc, !.seen = n] \in Request
BY DEF Request

\* A count that a request takes with it.
LEMMA SeenFits ==
  ASSUME TypeInv, RowsKept, NEW r \in Requests, NEW pc \in Pcs, NEW n \in Nat,
         req' = [req EXCEPT ![r].pc = pc, ![r].seen = n],
         PcFits(req[r].op, pc), NextFits(req[r].op, pc, req[r].next),
         pc \notin {"unlist", "finalize"} \cup ChatPcs \cup Announcing
  PROVE  RequestsFit
<1> DEFINE q == [req[r] EXCEPT !.pc = pc, !.seen = n]
<1>1. q \in Request
  BY ReqFacts, SeenType
<1>2. RequestFits(q, Lengths)
  BY ReqFacts DEF RequestFits, NamesFit, Request, Announcing
<1>3. req' = [req EXCEPT ![r] = q]
  OBVIOUS
<1> HIDE DEF q
<1> QED BY <1>1, <1>2, <1>3, PutFits

LEMMA CountsAreNumbers ==
  ASSUME TypeInv PROVE countFinalizedByTenant \in Nat /\ countByTenantId \in Nat
<1>1. IsFiniteSet(1 .. MaxFiles) /\ IsFiniteSet(1 .. Len(workspaces))
  BY WorkBoundsAssumption, RowFacts, FS_Interval
<1>2. /\ {d \in DOMAIN files : files[d].row = "final"} \subseteq 1 .. MaxFiles
      /\ {w \in DOMAIN workspaces : workspaces[w]} \subseteq 1 .. Len(workspaces)
  BY FileFacts, RowFacts
<1> QED BY <1>1, <1>2, FS_Subset, FS_CardinalityType DEF countFinalizedByTenant, countByTenantId

LEMMA CountFilesTyped == ASSUME TypeInv, NEW r \in Requests, CountFiles(r) PROVE Typed
<1>1. RowsKept
  BY PureKept DEF CountFiles, Pure
<1>2. /\ PcFits(req[r].op, "limit") /\ NextFits(req[r].op, "limit", req[r].next)
      /\ "limit" \in Pcs /\ "limit" \notin {"unlist", "finalize"} \cup ChatPcs \cup Announcing
  BY DEF CountFiles, Doing, PcFits, NextFits, Pcs, ChatPcs, Announcing, Sweeping, Finalizing
<1> QED BY <1>1, <1>2, CountsAreNumbers, SeenFits DEF CountFiles, Typed

LEMMA SumTyped == ASSUME TypeInv, NEW r \in Requests, SumFinalizedBytes(r) PROVE Typed
<1>1. RowsKept
  BY PureKept DEF SumFinalizedBytes, Pure
<1>2. /\ PcFits(req[r].op, "insert") /\ NextFits(req[r].op, "insert", req[r].next)
      /\ "insert" \in Pcs /\ "insert" \notin {"unlist", "finalize"} \cup ChatPcs \cup Announcing
  BY ReqFacts DEF SumFinalizedBytes, At, RequestFits, PcFits, NextFits, Pcs, ChatPcs, Announcing,
     Sweeping, Finalizing
<1> QED BY <1>1, <1>2, CountsAreNumbers, SeenFits DEF SumFinalizedBytes, Typed

\* A request of one file begins another part of its operation.
LEMMA PartFits ==
  ASSUME TypeInv, RowsKept, NEW r \in Requests, NEW next,
         req' = [req EXCEPT ![r].pc = "sweep", ![r].next = next],
         req[r].op = "upload", next = "find" => req[r].task # 0, next \in {"find", "existing"}
  PROVE  RequestsFit
<1> DEFINE q == [req[r] EXCEPT !.pc = "sweep", !.next = next]
<1>0. /\ req[r] \in Request /\ RequestFits(req[r], Lengths) /\ "sweep" \in Pcs /\ next \in Pcs
      /\ Numbers(Lengths)
  BY ReqFacts, LengthsType DEF Pcs
<1>1. q \in Request
  BY <1>0 DEF Request
<1>2. /\ q.op = "upload" /\ q.pc = "sweep" /\ q.next = next /\ q.task = req[r].task
      /\ q.docs = req[r].docs
  BY <1>0 DEF Request
<1>3. req' = [req EXCEPT ![r] = q]
  OBVIOUS
<1> HIDE DEF q
<1>4. RequestFits(q, Lengths)
  BY <1>0, <1>2 DEF RequestFits, PcFits, NextFits, NamesFit, Sweeping, Finalizing, Announcing,
     ChatPcs, Numbers
<1> QED BY <1>1, <1>3, <1>4, PutFits

LEMMA UploadTyped ==
  ASSUME TypeInv, NEW r \in Requests,
         Sign(r) \/ UploadBuffer(r) \/ FindExisting(r) \/ CreateAsset(r)
  PROVE  Typed
<1>1. files \in FilesType
  BY FileFacts DEF FilesType
<1>2. RowsKept
  <2>1. Rest
    BY DEF Sign, UploadBuffer, FindExisting, CreateAsset, Rest
  <2>2. \/ files' = files
        \/ \E d \in req[r].docs : files' = [files EXCEPT ![d].row = "signed"]
        \/ \E d \in req[r].docs :
             files' = [files EXCEPT ![d].place = "temporary", ![d].row = "signed"]
        \/ \E d \in req[r].docs :
             files' = [files EXCEPT ![d].row = "temporary", ![d].expired = FALSE]
    <3>1. CASE Sign(r)
      <4>1. PICK d \in req[r].docs : files' = [files EXCEPT ![d].row =
               IF WithinLimit(Limits.maxFileAssets, req[r].seen) /\ (req[r].task = 0 \/ Live(req[r].task))
               THEN "signed" ELSE @]
        BY <3>1 DEF Sign
      <4> QED BY SMTT(30), <1>1, <4>1, NamedFiles DEF FilesType, FileAsset
    <3> QED BY <3>1 DEF UploadBuffer, FindExisting, CreateAsset
  <2>3. ASSUME NEW d \in req[r].docs
        PROVE  /\ [files EXCEPT ![d].row = "signed"] \in FilesType
               /\ [files EXCEPT ![d].place = "temporary", ![d].row = "signed"] \in FilesType
               /\ [files EXCEPT ![d].row = "temporary", ![d].expired = FALSE] \in FilesType
    <3> DEFINE a == [files[d] EXCEPT !.row = "signed"]
               b == [files[d] EXCEPT !.place = "temporary", !.row = "signed"]
               c == [files[d] EXCEPT !.row = "temporary", !.expired = FALSE]
    <3>1. d \in 1 .. MaxFiles /\ files[d] \in FileAsset
      BY <1>1, NamedFiles DEF FilesType
    <3>2. a \in FileAsset /\ b \in FileAsset /\ c \in FileAsset
      BY <3>1 DEF FileAsset
    <3>3. /\ [files EXCEPT ![d].row = "signed"] = [files EXCEPT ![d] = a]
          /\ [files EXCEPT ![d].place = "temporary", ![d].row = "signed"] = [files EXCEPT ![d] = b]
          /\ [files EXCEPT ![d].row = "temporary", ![d].expired = FALSE] = [files EXCEPT ![d] = c]
      OBVIOUS
    <3> HIDE DEF a, b, c
    <3> QED BY <1>1, <3>1, <3>2, <3>3 DEF FilesType
  <2>4. files' \in FilesType
    BY <1>1, <2>2, <2>3
  <2> QED BY <2>1, <2>4, FilesOnly DEF FilesType
<1>3. ASSUME Finish(r) PROVE Typed
  BY <1>2, <1>3, FinishFits DEF Typed
<1>4. CASE Sign(r)
  BY <1>3, <1>4 DEF Sign
<1>5. CASE UploadBuffer(r)
  <2>1. req[r].op = "upload"
    BY <1>5, ReqFacts DEF UploadBuffer, At, RequestFits, PcFits, Sweeping, Finalizing, ChatPcs,
       Announcing
  <2> QED BY <1>2, <1>5, <2>1, PartFits DEF UploadBuffer, Typed
<1>6. CASE FindExisting(r) /\ ~Finish(r)
  <2>1. Goto(r, "sum") /\ req[r].op \in {"registerAsset", "upload"}
    BY <1>6, ReqFacts DEF FindExisting, At, RequestFits, PcFits, Sweeping, Finalizing, ChatPcs,
       Announcing
  <2>2. /\ PcFits(req[r].op, "sum") /\ NextFits(req[r].op, "sum", req[r].next) /\ "sum" \in Pcs
        /\ "sum" \notin {"unlist", "finalize"} \cup ChatPcs \cup Announcing
    BY <2>1 DEF PcFits, NextFits, Pcs, ChatPcs, Announcing, Sweeping, Finalizing
  <2> QED BY <1>2, <2>1, <2>2, GotoFits DEF Typed, Announcing
<1>7. CASE CreateAsset(r)
  <2>1. Finish(r) \/ (req[r].op = "upload" /\ req[r].task # 0
                      /\ req' = [req EXCEPT ![r].pc = "sweep", ![r].next = "find"])
    BY <1>7 DEF CreateAsset, Doing
  <2> QED BY <1>2, <1>3, <2>1, PartFits DEF Typed
<1> QED BY <1>3, <1>4, <1>5, <1>6, <1>7

LEMMA UndraftedKept ==
  ASSUME TypeInv, NEW r \in Requests
  PROVE  Undrafted(r) \in Seq(Task) /\ Len(Undrafted(r)) = Len(tasks)
<1>1. CASE Doing(r, "createTask") /\ InTransaction(r)
  <2> DEFINE t == req[r].task
             e == [tasks[t] EXCEPT !.stage = "aborted"]
  <2>1. t \in DOMAIN tasks
    <3>1. req[r].next = "find"
      BY <1>1, ReqFacts DEF Doing, InTransaction, Open, RequestFits, NextFits, Sweeping,
         Finalizing
    <3> QED BY <3>1, ReqFacts, RowFacts DEF RequestFits, NamesFit, Lengths
  <2>2. e \in Task
    BY <2>1, RowFacts DEF Task
  <2>3. Undrafted(r) = [tasks EXCEPT ![t] = e]
    BY <1>1 DEF Undrafted
  <2> HIDE DEF t, e
  <2> QED BY <2>1, <2>2, <2>3, SeqPut DEF TypeInv, TypeOK, WorkTypeOK
<1>2. CASE ~(Doing(r, "createTask") /\ InTransaction(r))
  BY <1>2 DEF Undrafted, TypeInv, TypeOK, WorkTypeOK
<1> QED BY <1>1, <1>2

\* Where a request is that renames files.
LEMMA RenamingFacts ==
  ASSUME TypeInv, NEW r \in Requests, req[r].pc \in {"find", "rename", "finalize", "rollback"}
  PROVE  /\ req[r].op \in {"createTask", "updateTask", "upload", "finalizeAsset"}
         /\ req[r].next = "find" /\ req[r].task \in DOMAIN tasks /\ req[r].task \in Nat
BY SMTT(30), ReqFacts, RowFacts
   DEF RequestFits, PcFits, NextFits, NamesFit, Sweeping, Finalizing, ChatPcs,
   Announcing, Lengths

LEMMA RollbackFits ==
  ASSUME TypeInv, RowsKept, NEW r \in Requests, req[r].pc \in {"rename", "finalize"},
         req' = RollbackRenamed(r)
  PROVE  RequestsFit
<1> DEFINE q == [req[r] EXCEPT !.pc = "rollback", !.batch = req[r].done]
<1>1. req[r] \in Request /\ RequestFits(req[r], Lengths) /\ "rollback" \in Pcs
  BY ReqFacts DEF Pcs
<1>2. q \in Request
  BY <1>1 DEF Request
<1>3. PcFits(req[r].op, "rollback") /\ NextFits(req[r].op, "rollback", req[r].next)
  BY RenamingFacts DEF PcFits, NextFits, Sweeping, Finalizing
<1>4. RequestFits(q, Lengths)
  BY <1>1, <1>3 DEF RequestFits, NamesFit, Request, ChatPcs, Announcing
<1>5. req' = [req EXCEPT ![r] = q]
  BY DEF RollbackRenamed
<1> HIDE DEF q
<1> QED BY <1>2, <1>4, <1>5, PutFits

LEMMA RenameTyped == ASSUME TypeInv, NEW r \in Requests, RenameAsset(r) PROVE Typed
<1>1. PICK d \in req[r].docs \ req[r].done :
        \/ /\ files' = Renamed(d, req[r].task)
           /\ req' = [req EXCEPT ![r].pc = "finalize", ![r].doc = d]
        \/ RenameRefused(r, d)
        \/ files' = Stray(Renamed(d, req[r].task), {d}) /\ req' = RollbackRenamed(r)
  BY DEF RenameAsset
<1>2. /\ d \in 1 .. MaxFiles /\ req[r].pc = "rename" /\ Rest /\ d \in Nat
      /\ req[r].task \in Nat /\ files \in FilesType
  BY NamedFiles, FileFacts DEF RenameAsset, At, Rest, FilesType
<1>3. RowsKept
  <2>1. files' \in FilesType
    BY <1>1, <1>2, FileOperators DEF RenameRefused
  <2> QED BY <1>2, <2>1, FilesOnly DEF FilesType
<1>4. CASE req' = RollbackRenamed(r)
  BY <1>2, <1>3, <1>4, RollbackFits DEF Typed
<1>5. CASE req' = [req EXCEPT ![r].pc = "finalize", ![r].doc = d]
  <2> DEFINE q == [req[r] EXCEPT !.pc = "finalize", !.doc = d]
  <2>1. req[r] \in Request /\ RequestFits(req[r], Lengths) /\ "finalize" \in Pcs
    BY ReqFacts DEF Pcs
  <2>2. q \in Request
    BY <1>2, <2>1 DEF Request
  <2>3. PcFits(req[r].op, "finalize") /\ NextFits(req[r].op, "finalize", req[r].next)
    BY <1>2, RenamingFacts DEF PcFits, NextFits, Sweeping, Finalizing
  <2>4. RequestFits(q, Lengths)
    BY <1>2, <2>1, <2>3 DEF RequestFits, NamesFit, Request, ChatPcs, Announcing
  <2>5. req' = [req EXCEPT ![r] = q]
    BY <1>5
  <2> HIDE DEF q
  <2> QED BY <1>3, <2>2, <2>4, <2>5, PutFits DEF Typed
<1> QED BY <1>1, <1>4, <1>5 DEF RenameRefused

LEMMA FinalizeTyped == ASSUME TypeInv, NEW r \in Requests, FinalizeRow(r) PROVE Typed
<1> DEFINE d == req[r].doc
<1>1. \/ files' = files \/ files' = Stray(files, {d}) \/ files' = Finalized({d}, req[r].task)
  BY DEF FinalizeRow, FinalizeInTransaction, FinalizeAlone
<1>2. /\ d \in 1 .. MaxFiles /\ req[r].pc = "finalize" /\ Rest
      /\ req[r].task \in Nat /\ files \in FilesType
  BY NamedFiles, FileFacts DEF FinalizeRow, At, Rest, FilesType
<1>3. RowsKept
  <2>1. files' \in FilesType
    BY <1>1, <1>2, FileOperators
  <2> QED BY <1>2, <2>1, FilesOnly DEF FilesType
<1>4. \/ Finish(r) \/ req' = RollbackRenamed(r)
      \/ InTransaction(r) /\ \E pc \in {"commit", "rename"} :
             req' = [req EXCEPT ![r].done = @ \cup {d}, ![r].pc = pc]
  BY DEF FinalizeRow, FinalizeInTransaction, FinalizeAlone
<1>5. ASSUME InTransaction(r), NEW pc \in {"commit", "rename"},
             req' = [req EXCEPT ![r].done = @ \cup {d}, ![r].pc = pc]
      PROVE  RequestsFit
  <2> DEFINE D == req[r].done \cup {d}
             q == [req[r] EXCEPT !.done = D, !.pc = pc]
  <2>1. /\ req[r] \in Request /\ RequestFits(req[r], Lengths) /\ pc \in Pcs
        /\ D \in SUBSET (1 .. MaxFiles)
    BY <1>2, ReqFacts, NamedFiles DEF Pcs
  <2>2. req' = [req EXCEPT ![r] = q]
    BY <1>5
  <2> HIDE DEF D
  <2>3. q \in Request
    BY <2>1 DEF Request
  <2>4. req[r].op \in {"createTask", "updateTask"} /\ req[r].next = "find"
    BY <1>2, <1>5, RenamingFacts DEF InTransaction, Open
  <2>5. PcFits(req[r].op, pc) /\ NextFits(req[r].op, pc, req[r].next)
    BY <2>4 DEF PcFits, NextFits, Sweeping, Finalizing
  <2>6. RequestFits(q, Lengths)
    BY <2>1, <2>5 DEF RequestFits, NamesFit, Request, ChatPcs, Announcing
  <2> HIDE DEF q
  <2> QED BY <1>3, <2>2, <2>3, <2>6, PutFits
<1> QED BY <1>2, <1>3, <1>4, <1>5, FinishFits, RollbackFits DEF Typed

LEMMA AbortTyped ==
  ASSUME TypeInv, NEW r \in Requests, Abort(r), UNCHANGED <<workspaces, roomVars, notices, chatVars>>,
         files' \in FilesType
  PROVE  Typed
<1>1. RowsKept
  BY UndraftedKept, FilesKept DEF Abort, FilesType
<1> QED BY <1>1, FinishFits DEF Abort, Typed

LEMMA FindTyped == ASSUME TypeInv, NEW r \in Requests, FindTemporaryAssets(r) PROVE Typed
<1>1. files \in FilesType /\ req[r].pc = "find"
  BY FileFacts DEF FilesType, FindTemporaryAssets, At
<1>2. CASE Abort(r)
  BY <1>1, <1>2, AbortTyped DEF FindTemporaryAssets
<1>3. CASE UNCHANGED tasks /\ Goto(r, IF req[r].docs = {} THEN "commit" ELSE "rename")
  <2> DEFINE pc == IF req[r].docs = {} THEN "commit" ELSE "rename"
  <2>1. RowsKept
    BY <1>3, PureKept DEF FindTemporaryAssets, Pure, taskVars
  <2>2. /\ req[r].op \in {"createTask", "updateTask", "upload", "finalizeAsset"}
        /\ req[r].next = "find"
    BY <1>1, RenamingFacts
  <2>3. req[r].op \in {"upload", "finalizeAsset"} => req[r].docs # {}
    BY ReqFacts DEF RequestFits, NamesFit
  <2>4. /\ PcFits(req[r].op, pc) /\ NextFits(req[r].op, pc, req[r].next) /\ pc \in Pcs
        /\ pc \notin {"unlist", "finalize"} \cup ChatPcs \cup Announcing
    BY <2>2, <2>3 DEF PcFits, NextFits, Pcs, ChatPcs, Announcing, Sweeping, Finalizing
  <2> HIDE DEF pc
  <2>5. Goto(r, pc)
    BY <1>3 DEF pc
  <2> QED BY <2>1, <2>4, <2>5, GotoFits DEF Typed, Announcing
<1> QED BY <1>2, <1>3 DEF FindTemporaryAssets

LEMMA RollbackTyped == ASSUME TypeInv, NEW r \in Requests, Rollback(r) PROVE Typed
<1>1. files \in FilesType /\ req[r].pc = "rollback"
  BY FileFacts DEF FilesType, Rollback, At
<1>2. CASE Abort(r) /\ UNCHANGED files
  BY <1>1, <1>2, AbortTyped DEF Rollback
<1>3. ASSUME NEW d \in req[r].batch, files' = NamedBack(d) \/ files' = Stray(files, {d}),
             req' = [req EXCEPT ![r].batch = @ \ {d}], UNCHANGED tasks
      PROVE  Typed
  <2> DEFINE B == req[r].batch \ {d}
             q == [req[r] EXCEPT !.batch = B]
  <2>1. d \in 1 .. MaxFiles /\ B \in SUBSET (1 .. MaxFiles) /\ Rest
    BY <1>3, NamedFiles DEF Rollback, Rest, taskVars
  <2>2. files' \in FilesType
    BY <1>1, <1>3, <2>1, FileOperators
  <2>3. RowsKept
    BY <2>1, <2>2, FilesOnly DEF FilesType
  <2>4. req' = [req EXCEPT ![r] = q]
    BY <1>3
  <2> HIDE DEF B
  <2>5. q \in Request
    BY <2>1, ReqFacts DEF Request
  <2>6. RequestFits(q, Lengths)
    BY ReqFacts DEF RequestFits, NamesFit, Request, ChatPcs, Announcing
  <2> HIDE DEF q
  <2> QED BY <2>3, <2>4, <2>5, <2>6, PutFits DEF Typed
<1> QED BY <1>2, <1>3 DEF Rollback

LEMMA DeleteAssetTyped ==
  ASSUME TypeInv, NEW r \in Requests, DestroyAsset(r) \/ UnlistAsset(r) PROVE Typed
<1>1. files \in FilesType /\ req[r].op = "deleteAsset" /\ req[r].doc \in 1 .. MaxFiles /\ Rest
  BY FileFacts, NamedFiles DEF FilesType, DestroyAsset, UnlistAsset, Doing, Rest
<1>2. files' \in FilesType
  <2> DEFINE d == req[r].doc
  <2>1. \/ files' = files \/ files' = Stray(files, {d})
        \/ files' \in {destroyFinal(d), destroyTemporary(d), deleteTemporary(d), deleteFinal(d)}
    BY DEF DestroyAsset, UnlistAsset
  <2>2. d \in 1 .. MaxFiles /\ 0 \in Nat
    BY <1>1
  <2> HIDE DEF d
  <2> QED BY <1>1, <2>1, <2>2, FileOperators
<1>3. RowsKept
  BY <1>1, <1>2, FilesOnly DEF FilesType
<1>4. CASE Goto(r, "unlist") /\ DestroyAsset(r)
  <2>1. req[r].pc = "destroy"
    BY <1>4 DEF DestroyAsset, At
  <2>2. /\ PcFits(req[r].op, "unlist") /\ NextFits(req[r].op, "unlist", req[r].next)
        /\ "unlist" \in Pcs /\ "unlist" \notin ChatPcs \cup Announcing
    BY <1>1, <2>1, ReqFacts DEF RequestFits, PcFits, NextFits, Pcs, ChatPcs, Announcing, Sweeping,
       Finalizing
  <2> QED BY <1>1, <1>3, <1>4, <2>2, GotoFits DEF Typed, Announcing
<1> QED BY <1>3, <1>4, FinishFits DEF DestroyAsset, UnlistAsset, Typed

LEMMA FileStepTyped == ASSUME TypeInv, NEW r \in Requests, FileStep(r) PROVE Typed
BY SweepTyped, CountFilesTyped, SumTyped, UploadTyped, FindTyped, RenameTyped, FinalizeTyped,
   RollbackTyped, DeleteAssetTyped DEF FileStep

-----------------------------------------------------------------------------
(* Types: the steps on workspaces and tasks. *)

LEMMA RoomsType ==
  ASSUME NEW w \in Nat, NEW A \in SUBSET (Users \cup {Nobody}) PROVE RoomsOf(w, A) \subseteq Room
<1>1. \A u \in A : u \in Nat
  BY RoleAssumption DEF Nobody
<1> QED BY <1>1 DEF RoomsOf, Room, boardRoom, myTasksRoom

LEMMA RoomFacts ==
  ASSUME TypeInv PROVE unsignalled \subseteq Room /\ silenced \subseteq Room
BY DEF TypeInv, TypeOK, WorkTypeOK

LEMMA TasksKept ==
  ASSUME TypeInv, workspaces' \in Seq(BOOLEAN), Len(workspaces') >= Len(workspaces),
         tasks' \in Seq(Task), Len(tasks') >= Len(tasks),
         sockets' \in [DOMAIN Sockets -> Socket], unsignalled' \subseteq Room, silenced' \subseteq Room,
         files' \in FilesType, UNCHANGED <<notices, chatVars>>
  PROVE  RowsKept
<1>1. Len(workspaces') \in Nat /\ Len(tasks') \in Nat
  BY LenProperties
<1> QED BY <1>1, RowFacts DEF TypeInv, TypeOK, WorkTypeOK, RowsKept, chatVars, FilesType

LEMMA TaskFacts ==
  ASSUME TypeInv
  PROVE  /\ tasks \in Seq(Task) /\ workspaces \in Seq(BOOLEAN) /\ notices \in Seq(Notice)
         /\ sessions \in Seq(Session) /\ messages \in Seq(Message)
         /\ sockets \in [DOMAIN Sockets -> Socket] /\ files \in FilesType
         /\ unsignalled \in SUBSET Room /\ silenced \in SUBSET Room
BY DEF TypeInv, TypeOK, WorkTypeOK, FilesType

LEMMA CountWorkspacesTyped == ASSUME TypeInv, NEW r \in Requests, CountWorkspaces(r) PROVE Typed
<1>1. RowsKept
  BY PureKept DEF CountWorkspaces, Pure
<1>2. /\ PcFits(req[r].op, "limit") /\ NextFits(req[r].op, "limit", req[r].next)
      /\ "limit" \in Pcs /\ "limit" \notin {"unlist", "finalize"} \cup ChatPcs \cup Announcing
  BY DEF CountWorkspaces, Doing, PcFits, NextFits, Pcs, ChatPcs, Announcing, Sweeping, Finalizing
<1> QED BY <1>1, <1>2, CountsAreNumbers, SeenFits DEF CountWorkspaces, Typed

LEMMA LimitTyped == ASSUME TypeInv, NEW r \in Requests, assertWithinWorkspaceLimit(r) PROVE Typed
<1>1. RowsKept
  BY PureKept DEF assertWithinWorkspaceLimit, Pure
<1>2. /\ PcFits(req[r].op, "insert") /\ NextFits(req[r].op, "insert", req[r].next)
      /\ "insert" \in Pcs /\ "insert" \notin {"unlist", "finalize"} \cup ChatPcs \cup Announcing
  BY DEF assertWithinWorkspaceLimit, Doing, PcFits, NextFits, Pcs, ChatPcs, Announcing, Sweeping,
     Finalizing
<1> QED BY <1>1, <1>2, FinishFits, GotoFits DEF assertWithinWorkspaceLimit, Typed, Announcing

LEMMA InsertTyped == ASSUME TypeInv, NEW r \in Requests, InsertWorkspace(r) PROVE Typed
<1>1. workspaces' \in Seq(BOOLEAN) /\ Len(workspaces') >= Len(workspaces)
  BY TaskFacts, RowFacts, SeqAdd DEF InsertWorkspace
<1>2. RowsKept
  BY <1>1, TaskFacts, RowFacts, TasksKept DEF InsertWorkspace, roomVars
<1> QED BY <1>2, FinishFits DEF InsertWorkspace, Typed

LEMMA SweptTasks ==
  ASSUME TypeInv, NEW w
  PROVE  /\ softDeleteAllByWorkspace(w) \in Seq(Task)
         /\ Len(softDeleteAllByWorkspace(w)) = Len(tasks)
         /\ {tasks[t].assignedTo : t \in TasksOf(w)} \in SUBSET (Users \cup {Nobody})
<1> DEFINE g(t) == IF t \in TasksOf(w) THEN [tasks[t] EXCEPT !.stage = "deleted"] ELSE tasks[t]
           f == [t \in DOMAIN tasks |-> g(t)]
<1>1. \A t \in DOMAIN tasks : g(t) \in Task /\ tasks[t].assignedTo \in Users \cup {Nobody}
  BY RowFacts DEF Task
<1>2. softDeleteAllByWorkspace(w) = f
  BY DEF softDeleteAllByWorkspace
<1>3. TasksOf(w) \subseteq DOMAIN tasks
  BY DEF TasksOf
<1> HIDE DEF g
<1>4. f = [t \in DOMAIN tasks |-> f[t]] /\ \A t \in DOMAIN tasks : f[t] \in Task
  BY <1>1
<1> HIDE DEF f
<1>5. f \in Seq(Task) /\ Len(f) = Len(tasks)
  BY <1>4, TaskFacts, SeqOver
<1> QED BY <1>1, <1>2, <1>3, <1>5

LEMMA CascadeTyped == ASSUME TypeInv, NEW r \in Requests, Cascade(r) PROVE Typed
<1> DEFINE w == req[r].workspace
<1>1. w \in DOMAIN workspaces /\ w \in Nat
  BY SMTT(30), ReqFacts, RowFacts DEF Cascade, At, RequestFits, PcFits, NamesFit, Lengths, Sweeping,
     Finalizing, Announcing, ChatPcs
<1>2. CASE /\ workspaces' = [workspaces EXCEPT ![w] = FALSE]
           /\ tasks' = softDeleteAllByWorkspace(w)
           /\ Shown(RoomsOf(w, {tasks[t].assignedTo : t \in TasksOf(w)}), {})
           /\ req' = Spoilt([req EXCEPT ![r] = IdleRequest], TasksOf(w))
  <2>1. workspaces' \in Seq(BOOLEAN) /\ Len(workspaces') = Len(workspaces)
    BY <1>1, <1>2, TaskFacts, SeqPut
  <2>2. tasks' \in Seq(Task) /\ Len(tasks') = Len(tasks)
    BY <1>2, SweptTasks
  <2>3. unsignalled' \subseteq Room /\ silenced' \subseteq Room /\ sockets' = sockets
    BY <1>1, <1>2, SweptTasks, RoomsType, RoomFacts DEF Shown
  <2>4. RowsKept
    BY <2>1, <2>2, <2>3, TaskFacts, RowFacts, TasksKept DEF Cascade
  <2>5. ~Open(IdleRequest)
    BY DEF Open, IdleRequest
  <2>6. IdleRequest \in Request /\ RequestFits(IdleRequest, Lengths)
    BY IdleFits
  <2> QED BY <1>2, <2>4, <2>5, <2>6, SpoiltFits DEF Typed
<1>3. CASE Finish(r) /\ UNCHANGED <<taskVars, roomVars>>
  BY <1>3, PureKept, FinishFits DEF Cascade, Pure, Typed
<1> QED BY <1>2, <1>3 DEF Cascade

LEMMA DraftType ==
  ASSUME NEW q \in Request, NEW pc \in Pcs, NEW next \in Pcs, NEW n \in Nat,
         NEW F \in SUBSET (1 .. MaxFiles)
  PROVE  [q EXCEPT !.pc = pc, !.next = next, !.task = n, !.found = F] \in Request
BY DEF Request

LEMMA DraftTyped == ASSUME TypeInv, NEW r \in Requests, DraftTask(r) PROVE Typed
<1> DEFINE e == NewTask(req[r].workspace, req[r].status, req[r].assignedTo)
           n == Len(tasks) + 1
           F == findTemporary(req[r].docs)
           q == [req[r] EXCEPT !.pc = "sweep", !.next = "find", !.task = n, !.found = F]
<1>1. /\ req[r] \in Request /\ RequestFits(req[r], Lengths) /\ req[r].op = "createTask"
      /\ n \in Nat /\ F \in SUBSET (1 .. MaxFiles) /\ "sweep" \in Pcs /\ "find" \in Pcs
  <2>1. req[r] \in Request /\ RequestFits(req[r], Lengths) /\ req[r].pc = "draft"
    BY ReqFacts DEF DraftTask, At
  <2>2. req[r].op = "createTask"
    BY <2>1 DEF RequestFits, PcFits, Sweeping, Finalizing, Announcing, ChatPcs
  <2>3. F \in SUBSET (1 .. MaxFiles)
    BY NamedFiles DEF findTemporary
  <2> QED BY <2>1, <2>2, <2>3, RowFacts DEF Pcs
<1>2. e \in Task
  BY <1>1 DEF RequestFits, Request, NewTask, Task
<1>3. tasks' \in Seq(Task) /\ Len(tasks') = n
  BY <1>2, TaskFacts, SeqAdd DEF DraftTask
<1>4. RowsKept
  BY <1>3, TaskFacts, RowFacts, TasksKept DEF DraftTask, roomVars
<1>5. req' = [req EXCEPT ![r] = q]
  BY DEF DraftTask
<1>6. Lengths' = <<Len(workspaces), n, Len(sessions), Len(messages)>>
  BY <1>3 DEF DraftTask, Lengths, chatVars
<1> HIDE DEF n, F
<1>7. q \in Request
  BY <1>1, DraftType
<1>8. /\ q.op = "createTask" /\ q.pc = "sweep" /\ q.next = "find" /\ q.task = n
      /\ q.workspace = req[r].workspace /\ q.assignedTo = req[r].assignedTo
      /\ q.status = req[r].status
  BY <1>1 DEF Request
<1> HIDE DEF q
<1>9. n \in 1 .. Lengths'[2] /\ req[r].workspace \in 1 .. Lengths'[1]
  <2>1. Lengths'[2] = n /\ Lengths'[1] = Lengths[1] /\ n >= 1
    BY <1>6, RowFacts DEF Lengths, n
  <2> QED BY <1>1, <2>1 DEF RequestFits, NamesFit
<1>10. RequestFits(q, Lengths')
  BY <1>1, <1>8, <1>9 DEF RequestFits, PcFits, NextFits, NamesFit, Sweeping, Finalizing,
     Announcing, ChatPcs
<1> QED BY <1>4, <1>5, <1>7, <1>10, PutFits DEF Typed

LEMMA CommitFacts ==
  ASSUME TypeInv, NEW r \in Requests, req[r].pc = "commit"
  PROVE  /\ req[r].op \in {"createTask", "updateTask"} /\ req[r].next = "find"
         /\ req[r].task \in DOMAIN tasks /\ req[r].task \in Nat /\ req[r].workspace \in Nat
         /\ req[r] \in Request /\ RequestFits(req[r], Lengths)
<1>1. req[r] \in Request /\ RequestFits(req[r], Lengths)
  BY ReqFacts
<1>2. req[r].op \in {"createTask", "updateTask"} /\ req[r].next = "find"
  BY <1>1 DEF RequestFits, PcFits, NextFits, Sweeping, Finalizing, Announcing, ChatPcs
<1>3. req[r].task \in 1 .. Lengths[2]
  BY <1>1, <1>2 DEF RequestFits, NamesFit
<1> QED BY <1>1, <1>2, <1>3, RowFacts DEF Lengths, Request

LEMMA CommitType ==
  ASSUME NEW q \in Request, NEW pc \in Pcs, NEW told \in Users \cup {Nobody},
         NEW was \in Users \cup {Nobody}, NEW now \in Users \cup {Nobody}
  PROVE  [q EXCEPT !.pc = pc, !.tell = told, !.was = was, !.assignedTo = now] \in Request
BY DEF Request

LEMMA CommittedTyped ==
  ASSUME TypeInv, NEW r \in Requests, req[r].pc = "commit", NEW told \in Users \cup {Nobody},
         NEW was \in Users \cup {Nobody}, NEW now \in Users \cup {Nobody},
         Committed(r, told, was, now), tasks' \in Seq(Task), Len(tasks') = Len(tasks),
         UNCHANGED <<workspaces, notices, chatVars>>
  PROVE  Typed
<1> DEFINE q == [req[r] EXCEPT !.pc = IF told = Nobody THEN "publish" ELSE "notify",
                               !.tell = told, !.was = was, !.assignedTo = now]
<1>1. /\ req[r].op \in {"createTask", "updateTask"} /\ req[r].next = "find"
      /\ req[r].workspace \in Nat /\ req[r].task \in Nat
      /\ req[r] \in Request /\ RequestFits(req[r], Lengths)
  BY CommitFacts
<1>2. req' = Spoilt([req EXCEPT ![r] = q], {req[r].task})
  BY DEF Committed
<1>3. unsignalled' \subseteq Room /\ silenced' \subseteq Room /\ sockets' = sockets
  <2>1. RoomsOf(req[r].workspace, {was, now}) \subseteq Room
    BY <1>1, RoomsType
  <2> QED BY <2>1, RoomFacts DEF Committed, Shown
<1>4. files' \in FilesType
  <2>1. files' = Finalized(req[r].done, req[r].task)
    BY DEF Committed
  <2>2. CASE MaxFiles = 0
    BY <2>1, <2>2, TaskFacts DEF Finalized, FilesType
  <2>3. CASE MaxFiles # 0
    <3>1. 1 \in 1 .. MaxFiles
      BY <2>3, WorkBoundsAssumption
    <3> QED BY <1>1, <2>1, <3>1, FileOperators
  <2> QED BY <2>2, <2>3
<1>5. RowsKept
  BY <1>3, <1>4, TaskFacts, RowFacts, TasksKept
<1>6. q \in Request
  <2> DEFINE pc == IF told = Nobody THEN "publish" ELSE "notify"
  <2>1. pc \in Pcs
    BY DEF Pcs
  <2> HIDE DEF pc
  <2>2. [req[r] EXCEPT !.pc = pc, !.tell = told, !.was = was, !.assignedTo = now] \in Request
    BY <1>1, <2>1, CommitType
  <2> QED BY <2>2 DEF pc
<1>7. /\ q.op = req[r].op /\ q.pc \in Announcing /\ q.next = "find" /\ q.task = req[r].task
      /\ q.workspace = req[r].workspace /\ q.assignedTo = now /\ q.status = req[r].status
      /\ q.tell = told /\ (q.pc = "notify" => told # Nobody)
  BY <1>1 DEF Request, Announcing
<1> HIDE DEF q
<1>8. now # Same
  BY RoleAssumption DEF Nobody, Same
<1>9. RequestFits(q, Lengths) /\ ~Open(q)
  BY <1>1, <1>7, <1>8 DEF RequestFits, PcFits, NextFits, NamesFit, Sweeping, Finalizing, Announcing,
     ChatPcs, Open
<1> QED BY <1>2, <1>5, <1>6, <1>9, SpoiltFits DEF Typed

LEMMA CommitFailsTyped ==
  ASSUME TypeInv, NEW r \in Requests, req[r].pc = "commit", CommitFails(r),
         UNCHANGED <<workspaces, notices, chatVars>>
  PROVE  Typed
<1>1. files' \in FilesType
  <2>1. files' = Stray(files, req[r].done)
    BY DEF CommitFails
  <2> QED BY ZenonT(60), <2>1, TaskFacts DEF Stray, FilesType, FileAsset
<1>2. RowsKept
  BY <1>1, UndraftedKept, FilesKept DEF CommitFails, FilesType
<1> QED BY <1>2, FinishFits DEF CommitFails, Typed

LEMMA CommitCreateTyped == ASSUME TypeInv, NEW r \in Requests, CommitCreate(r) PROVE Typed
<1> DEFINE t == req[r].task
           e == [tasks[t] EXCEPT !.stage = "live", !.attachments = req[r].done]
<1>1. req[r].pc = "commit" /\ req[r].op = "createTask"
  BY DEF CommitCreate, At, Doing
<1>2. CASE CommitFails(r)
  BY <1>1, <1>2, CommitFailsTyped DEF CommitCreate
<1>3. CASE ~CommitFails(r)
  <2>1. /\ tasks' = [tasks EXCEPT ![t] = e]
        /\ Committed(r, req[r].assignedTo, Nobody, req[r].assignedTo)
    BY <1>3 DEF CommitCreate
  <2>2. t \in DOMAIN tasks /\ req[r].assignedTo \in Users \cup {Nobody}
    BY <1>1, CommitFacts DEF RequestFits, Request
  <2>3. e \in Task
    BY ZenonT(60), <2>2, RowFacts, NamedFiles DEF Task
  <2> HIDE DEF e
  <2>4. tasks' \in Seq(Task) /\ Len(tasks') = Len(tasks)
    BY <2>1, <2>2, <2>3, TaskFacts, SeqPut
  <2> QED BY <1>1, <2>1, <2>2, <2>4, CommittedTyped DEF CommitCreate
<1> QED BY <1>2, <1>3

LEMMA PatchedType ==
  ASSUME TypeInv, NEW r \in Requests, req[r].task \in DOMAIN tasks
  PROVE  /\ Patched(r) \in Task
         /\ Patched(r).assignedTo =
              IF req[r].assignedTo = Same THEN tasks[req[r].task].assignedTo ELSE req[r].assignedTo
         /\ Patched(r).status =
              IF req[r].status = "same" THEN tasks[req[r].task].status ELSE req[r].status
         /\ Patched(r).stage = tasks[req[r].task].stage
         /\ Patched(r).untold = tasks[req[r].task].untold
         /\ Patched(r).workspace = tasks[req[r].task].workspace
         /\ Patched(r).attachments =
              (IF req[r].keep THEN tasks[req[r].task].attachments ELSE {}) \cup req[r].done
<1> DEFINE t == tasks[req[r].task]
           a == IF req[r].assignedTo = Same THEN t.assignedTo ELSE req[r].assignedTo
           s == IF req[r].status = "same" THEN t.status ELSE req[r].status
           S == (IF req[r].keep THEN t.attachments ELSE {}) \cup req[r].done
<1>1. t \in Task /\ req[r] \in Request
  BY RowFacts, ReqFacts
<1>2. a \in Users \cup {Nobody} /\ s \in {"open", "DONE"} /\ S \in SUBSET (1 .. MaxFiles)
  BY <1>1 DEF Task, Request
<1>3. Patched(r) = [t EXCEPT !.status = s, !.assignedTo = a, !.attachments = S]
  <2> DEFINE u == [t EXCEPT !.status = s, !.assignedTo = a, !.attachments = S]
  <2>1. /\ Patched(r) = [t EXCEPT
             !.status = IF req[r].status = "same" THEN @ ELSE req[r].status,
             !.assignedTo = IF req[r].assignedTo = Same THEN @ ELSE req[r].assignedTo,
             !.attachments = (IF req[r].keep THEN @ ELSE {}) \cup req[r].done]
    BY DEF Patched
  <2> QED BY <1>1, <2>1 DEF Task
<1> HIDE DEF a, s, S
<1>4. [t EXCEPT !.status = s, !.assignedTo = a, !.attachments = S] \in Task
  BY <1>1, <1>2 DEF Task
<1>5. LET p == [t EXCEPT !.status = s, !.assignedTo = a, !.attachments = S]
      IN  /\ p.status = s /\ p.assignedTo = a /\ p.attachments = S /\ p.stage = t.stage
          /\ p.untold = t.untold /\ p.workspace = t.workspace
  BY <1>1 DEF Task
<1> QED BY <1>3, <1>4, <1>5 DEF a, s, S

LEMMA CommitUpdateTyped == ASSUME TypeInv, NEW r \in Requests, CommitUpdate(r) PROVE Typed
<1>1. req[r].pc = "commit" /\ req[r].op = "updateTask"
  BY DEF CommitUpdate, At, Doing
<1>2. CASE CommitFails(r)
  BY <1>1, <1>2, CommitFailsTyped DEF CommitUpdate
<1>3. CASE ~CommitFails(r)
  <2> DEFINE t == req[r].task
             now == Patched(r).assignedTo
             told == ToldOfUpdate(r, now)
  <2>1. /\ tasks' = [tasks EXCEPT ![t] = Patched(r)]
        /\ Committed(r, told, req[r].was, now)
    BY <1>3 DEF CommitUpdate
  <2>2. t \in DOMAIN tasks /\ Patched(r) \in Task /\ req[r].was \in Users \cup {Nobody}
    BY <1>1, CommitFacts, PatchedType DEF Request
  <2>3. now \in Users \cup {Nobody} /\ told \in Users \cup {Nobody}
    BY <2>2 DEF Task, ToldOfUpdate
  <2>4. tasks' \in Seq(Task) /\ Len(tasks') = Len(tasks)
    BY <2>1, <2>2, TaskFacts, SeqPut
  <2> HIDE DEF now, told
  <2> QED BY <1>1, <2>1, <2>2, <2>3, <2>4, CommittedTyped DEF CommitUpdate
<1> QED BY <1>2, <1>3

LEMMA ReadTyped == ASSUME TypeInv, NEW r \in Requests, ReadTask(r) \/ FindTask(r) PROVE Typed
<1>1. RowsKept
  BY PureKept DEF ReadTask, FindTask, Pure
<1>2. /\ req[r] \in Request /\ RequestFits(req[r], Lengths) /\ req[r].pc = "read"
  BY ReqFacts DEF ReadTask, FindTask, At
<1>3. CASE Finish(r)
  BY <1>1, <1>3, FinishFits DEF Typed
<1> DEFINE u == tasks[req[r].task].assignedTo
           F == findTemporary(req[r].docs)
<1>4. ASSUME req[r].task \in DOMAIN tasks PROVE u \in Users \cup {Nobody}
  BY <1>4, RowFacts DEF Task
<1>5. F \in SUBSET (1 .. MaxFiles)
  BY NamedFiles DEF findTemporary
<1>6. CASE ReadTask(r) /\ ~Finish(r)
  <2> DEFINE q == [req[r] EXCEPT !.pc = "sweep", !.next = "find", !.was = u, !.found = F]
  <2>1. /\ req' = [req EXCEPT ![r] = q] /\ req[r].op = "updateTask" /\ req[r].task \in DOMAIN tasks
    BY <1>6 DEF ReadTask, Doing, Live
  <2> HIDE DEF u, F
  <2>2. q \in Request
    BY ZenonT(60), <1>2, <1>4, <1>5, <2>1 DEF Request, Pcs
  <2>3. /\ q.op = "updateTask" /\ q.pc = "sweep" /\ q.next = "find" /\ q.task = req[r].task
        /\ q.workspace = req[r].workspace
    BY <1>2, <2>1 DEF Request
  <2> HIDE DEF q
  <2>4. RequestFits(q, Lengths)
    BY <1>2, <2>1, <2>3 DEF RequestFits, PcFits, NextFits, NamesFit, Sweeping, Finalizing,
       Announcing, ChatPcs
  <2> QED BY <1>1, <2>1, <2>2, <2>4, PutFits DEF Typed
<1>7. CASE FindTask(r) /\ ~Finish(r)
  <2> DEFINE q == [req[r] EXCEPT !.pc = "delete", !.was = u]
  <2>1. /\ req' = [req EXCEPT ![r] = q] /\ req[r].op = "deleteTask" /\ req[r].task \in DOMAIN tasks
    BY <1>7 DEF FindTask, Doing, Live
  <2> HIDE DEF u, F
  <2>2. q \in Request
    <3>1. u \in Users \cup {Nobody} /\ "delete" \in Pcs
      BY <1>4, <2>1 DEF Pcs
    <3> QED BY <1>2, <3>1 DEF Request
  <2>3. /\ q.op = "deleteTask" /\ q.pc = "delete" /\ q.next = req[r].next /\ q.task = req[r].task
        /\ q.workspace = req[r].workspace /\ q.assignedTo = req[r].assignedTo
    BY <1>2, <2>1 DEF Request
  <2> HIDE DEF q
  <2>4. RequestFits(q, Lengths)
    BY <1>2, <2>1, <2>3 DEF RequestFits, PcFits, NextFits, NamesFit, Sweeping, Finalizing,
       Announcing, ChatPcs
  <2> QED BY <1>1, <2>1, <2>2, <2>4, PutFits DEF Typed
<1> QED BY <1>3, <1>6, <1>7

LEMMA DeleteTaskTyped ==
  ASSUME TypeInv, NEW r \in Requests, softDeleteByIdAndWorkspace(r) PROVE Typed
<1> DEFINE t == req[r].task
           w == req[r].workspace
           e == [tasks[t] EXCEPT !.stage = "deleted"]
<1>1. /\ req[r] \in Request /\ RequestFits(req[r], Lengths) /\ req[r].pc = "delete"
  BY ReqFacts DEF softDeleteByIdAndWorkspace, At
<1>2. req[r].op = "deleteTask"
  BY <1>1 DEF RequestFits, PcFits, Sweeping, Finalizing, Announcing, ChatPcs
<1>3. CASE Live(t)
  <2> DEFINE q == [req[r] EXCEPT !.pc = "publish"]
  <2>1. /\ tasks' = [tasks EXCEPT ![t] = e]
        /\ Shown(RoomsOf(w, {tasks[t].assignedTo}), RoomsOf(w, {req[r].was}))
        /\ req' = Spoilt([req EXCEPT ![r] = q], {t})
    BY <1>3 DEF softDeleteByIdAndWorkspace
  <2>2. t \in DOMAIN tasks /\ tasks[t] \in Task /\ e \in Task /\ w \in Nat
    <3>1. t \in DOMAIN tasks /\ tasks[t] \in Task
      BY <1>3, RowFacts DEF Live
    <3>2. e \in Task
      BY <3>1 DEF Task
    <3> QED BY <1>1, <3>1, <3>2 DEF Request
  <2> HIDE DEF e
  <2>3. tasks' \in Seq(Task) /\ Len(tasks') = Len(tasks)
    BY <2>1, <2>2, TaskFacts, SeqPut
  <2>4. unsignalled' \subseteq Room /\ silenced' \subseteq Room /\ sockets' = sockets
    <3>1. RoomsOf(w, {tasks[t].assignedTo}) \subseteq Room
      BY <2>2, RoomsType DEF Task
    <3> QED BY <2>1, <3>1, RoomFacts DEF Shown
  <2>5. RowsKept
    BY <2>3, <2>4, TaskFacts, RowFacts, TasksKept DEF softDeleteByIdAndWorkspace
  <2>6. q \in Request
    BY <1>1, GoType DEF Pcs
  <2>7. /\ q.op = "deleteTask" /\ q.pc = "publish" /\ q.next = req[r].next /\ q.task = t
        /\ q.workspace = w /\ q.assignedTo = req[r].assignedTo
    BY <1>1, <1>2 DEF Request
  <2> HIDE DEF q
  <2>8. RequestFits(q, Lengths) /\ ~Open(q)
    BY <1>1, <1>2, <2>7 DEF RequestFits, PcFits, NextFits, NamesFit, Sweeping, Finalizing,
       Announcing, ChatPcs, Open
  <2> QED BY <2>1, <2>5, <2>6, <2>8, SpoiltFits DEF Typed
<1>4. CASE ~Live(t)
  <2>1. Pure /\ Finish(r)
    BY <1>4 DEF softDeleteByIdAndWorkspace, Pure, taskVars
  <2> QED BY <2>1, PureKept, FinishFits DEF Typed
<1> QED BY <1>3, <1>4

LEMMA PublishTyped == ASSUME TypeInv, NEW r \in Requests, Publish(r) PROVE Typed
<1>1. unsignalled' \subseteq Room /\ UNCHANGED <<sockets, silenced, taskVars, files, notices, chatVars>>
  BY RoomFacts DEF Publish
<1>2. RowsKept
  BY <1>1, TaskFacts, RowFacts, TasksKept DEF taskVars
<1> QED BY <1>2, FinishFits DEF Publish, Typed

LEMMA TaskStepTyped == ASSUME TypeInv, NEW r \in Requests, TaskStep(r) PROVE Typed
BY CountWorkspacesTyped, LimitTyped, InsertTyped, CascadeTyped, DraftTyped, CommitCreateTyped,
   ReadTyped, CommitUpdateTyped, DeleteTaskTyped, PublishTyped DEF TaskStep

-----------------------------------------------------------------------------
(* Types: sockets, notifications and chats. *)

LEMMA SocketsKept ==
  ASSUME TypeInv, sockets' \in [DOMAIN Sockets -> Socket],
         UNCHANGED <<taskVars, files, unsignalled, silenced, notices, chatVars>>
  PROVE  RowsKept
BY TasksKept, TaskFacts, RowFacts DEF taskVars

LEMMA NoticesKept ==
  ASSUME TypeInv, notices' \in Seq(Notice), UNCHANGED <<workspaces, files, roomVars, chatVars>>,
         tasks' \in Seq(Task), Len(tasks') = Len(tasks)
  PROVE  RowsKept
BY RowFacts DEF TypeInv, TypeOK, WorkTypeOK, RowsKept, roomVars, chatVars

LEMMA ChatsKept ==
  ASSUME TypeInv, sessions' \in Seq(Session), Len(sessions') >= Len(sessions),
         messages' \in Seq(Message), Len(messages') >= Len(messages),
         UNCHANGED <<taskVars, files, roomVars, notices>>
  PROVE  RowsKept
<1>1. Len(sessions') \in Nat /\ Len(messages') \in Nat
  BY LenProperties
<1> QED BY <1>1, RowFacts DEF TypeInv, TypeOK, WorkTypeOK, RowsKept, roomVars, taskVars

LEMMA RoomTypes ==
  /\ NoRoom \in Room /\ adminRoom \in Room
  /\ \A n \in Nat : boardRoom(n) \in Room /\ myTasksRoom(n) \in Room /\ userRoom(n) \in Room
BY DEF NoRoom, adminRoom, boardRoom, myTasksRoom, userRoom, Room

LEMMA SocketPut ==
  ASSUME TypeInv, NEW s \in DOMAIN Sockets, NEW rooms \in SUBSET Room, NEW board \in Room
  PROVE  /\ [sockets EXCEPT ![s].rooms = rooms] \in [DOMAIN Sockets -> Socket]
         /\ [sockets EXCEPT ![s] = [rooms |-> rooms, board |-> board]] \in [DOMAIN Sockets -> Socket]
         /\ [sockets EXCEPT ![s].rooms = rooms, ![s].board = board]
              \in [DOMAIN Sockets -> Socket]
<1>1. sockets \in [DOMAIN Sockets -> Socket]
  BY TaskFacts
<1>2. [sockets EXCEPT ![s].rooms = rooms] \in [DOMAIN Sockets -> Socket]
  BY <1>1 DEF Socket
<1>3. [rooms |-> rooms, board |-> board] \in Socket
  BY DEF Socket
<1>4. [sockets EXCEPT ![s] = [rooms |-> rooms, board |-> board]] \in [DOMAIN Sockets -> Socket]
  BY <1>1, <1>3
<1>5. [sockets[s] EXCEPT !.rooms = rooms, !.board = board] \in Socket
  BY <1>1 DEF Socket
<1> DEFINE e == [sockets[s] EXCEPT !.rooms = rooms, !.board = board]
<1>6. [sockets EXCEPT ![s].rooms = rooms, ![s].board = board] = [sockets EXCEPT ![s] = e]
  OBVIOUS
<1>7. [sockets EXCEPT ![s].rooms = rooms, ![s].board = board] \in [DOMAIN Sockets -> Socket]
  <2> HIDE DEF e
  <2> QED BY <1>1, <1>5, <1>6 DEF e
<1> QED BY <1>2, <1>4, <1>7

LEMMA SocketFacts ==
  ASSUME TypeInv, NEW s \in DOMAIN Sockets
  PROVE  /\ sockets[s] \in Socket /\ sockets[s].rooms \in SUBSET Room /\ sockets[s].board \in Room
         /\ Sockets[s] \in Users /\ Sockets[s] \in Nat
BY TaskFacts, RoleAssumption DEF Socket

LEMMA JoinFacts ==
  ASSUME TypeInv, NEW r \in Requests, req[r].pc = "join"
  PROVE  req[r].socket \in DOMAIN Sockets /\ req[r].workspace \in DOMAIN workspaces /\ req[r].workspace \in Nat
<1>1. RequestFits(req[r], Lengths) /\ req[r].op = "subscribe"
  BY ReqFacts DEF RequestFits, PcFits, Sweeping, Finalizing, Announcing, ChatPcs
<1> QED BY <1>1, RowFacts DEF RequestFits, NamesFit, Lengths

LEMMA JoinTyped == ASSUME TypeInv, NEW r \in Requests, Join(r) PROVE Typed
<1> DEFINE s == req[r].socket
           room == boardRoom(req[r].workspace)
           R == (sockets[s].rooms \ {sockets[s].board}) \cup {room}
<1>1. s \in DOMAIN Sockets /\ req[r].workspace \in Nat
  BY JoinFacts DEF Join, At
<1>2. sockets' = [sockets EXCEPT ![s] = [sockets[s] EXCEPT !.rooms = R, !.board = room]]
  BY DEF Join, MoveTo
<1>3. R \in SUBSET Room /\ room \in Room /\ sockets[s] \in Socket
  BY <1>1, SocketFacts, RoomTypes
<1> HIDE DEF R, room
<1>4. [sockets[s] EXCEPT !.rooms = R, !.board = room] \in Socket
  BY <1>3 DEF Socket
<1>5. sockets' \in [DOMAIN Sockets -> Socket]
  BY <1>2, <1>4, TaskFacts
<1>6. RowsKept
  BY <1>5, SocketsKept DEF Join
<1> QED BY <1>6, FinishFits DEF Join, Typed

LEMMA SocketStepTyped ==
  ASSUME TypeInv, NEW s \in DOMAIN Sockets, SocketStep(s) PROVE Typed
<1>1. /\ sockets[s].rooms \in SUBSET Room /\ sockets[s].board \in Room /\ Sockets[s] \in Nat
  BY SocketFacts
<1>2. ASSUME NEW w \in DOMAIN workspaces, Unsubscribe(s, w) PROVE Typed
  <2> DEFINE R == sockets[s].rooms \ {boardRoom(w)}
             b == IF sockets[s].board = boardRoom(w) THEN NoRoom ELSE sockets[s].board
  <2>1. R \in SUBSET Room /\ b \in Room
    BY <1>1, RoomTypes
  <2>2. sockets' = [sockets EXCEPT ![s].rooms = R, ![s].board = b]
    BY <1>2 DEF Unsubscribe
  <2> HIDE DEF R, b
  <2>3. sockets' \in [DOMAIN Sockets -> Socket]
    BY <2>1, <2>2, SocketPut
  <2> QED BY <1>2, <2>3, SocketsKept, RestFits DEF Unsubscribe, Typed
<1>3. ASSUME NEW R \in SUBSET Room, SetRooms(s, R), UNCHANGED req PROVE Typed
  <2>1. sockets' \in [DOMAIN Sockets -> Socket]
    BY <1>3, RoomTypes, SocketPut DEF SetRooms
  <2> QED BY <1>3, <2>1, SocketsKept, RestFits DEF SetRooms, Typed
<1>4. CASE SubscribeMyTasks(s) \/ UnsubscribeMyTasks(s)
  BY <1>1, <1>3, <1>4, RoomTypes DEF SubscribeMyTasks, UnsubscribeMyTasks
<1>5. CASE Connect(s)
  <2>1. sockets[s].rooms \cup RoomsOfUser(Sockets[s]) \in SUBSET Room
    BY <1>1, RoomTypes DEF RoomsOfUser
  <2> QED BY <1>3, <1>5, <2>1 DEF Connect
<1>6. CASE Disconnect(s)
  <2>1. sockets' \in [DOMAIN Sockets -> Socket]
    BY <1>6, RoomTypes, SocketPut DEF Disconnect
  <2> QED BY <1>6, <2>1, SocketsKept, RestFits DEF Disconnect, Typed
<1> QED BY <1>2, <1>4, <1>5, <1>6 DEF SocketStep

LEMMA NoticeAdded ==
  ASSUME TypeInv, NEW to \in Users \cup {Nobody}, NEW task \in Nat, notifyTenant(to, task)
  PROVE  notices' \in Seq(Notice)
<1> DEFINE n == [to |-> to, task |-> task, read |-> FALSE, pushed |-> Pushed(to)]
<1>1. Pushed(to) \in SUBSET Users
  BY RoleAssumption DEF Pushed
<1>2. n \in Notice
  BY <1>1 DEF Notice
<1> HIDE DEF n
<1> QED BY <1>2, TaskFacts, SeqAdd DEF notifyTenant, n

LEMMA NotifyFacts ==
  ASSUME TypeInv, NEW r \in Requests, req[r].pc = "notify"
  PROVE  /\ req[r].op \in {"createTask", "updateTask"} /\ req[r].tell \in Users
         /\ req[r].task \in DOMAIN tasks /\ req[r].task \in Nat /\ req[r].assignedTo # Same
<1>1. /\ RequestFits(req[r], Lengths) /\ req[r].op \in {"createTask", "updateTask"}
      /\ req[r].next = "find"
  BY ReqFacts DEF RequestFits, PcFits, NextFits, Sweeping, Finalizing, Announcing, ChatPcs
<1> QED BY <1>1, RowFacts DEF RequestFits, NamesFit, Lengths, Announcing

UntoldTask(r) == [tasks EXCEPT ![req[r].task].untold = @ \cup {req[r].tell}]

LEMMA UntoldType ==
  ASSUME TypeInv, NEW r \in Requests, req[r].pc = "notify"
  PROVE  UntoldTask(r) \in Seq(Task) /\ Len(UntoldTask(r)) = Len(tasks)
<1> DEFINE t == req[r].task
           e == [tasks[t] EXCEPT !.untold = @ \cup {req[r].tell}]
<1>1. t \in DOMAIN tasks /\ req[r].tell \in Users /\ tasks[t] \in Task
  BY NotifyFacts, RowFacts
<1>2. e \in Task
  BY <1>1 DEF Task
<1>3. UntoldTask(r) = [tasks EXCEPT ![t] = e]
  BY DEF UntoldTask
<1> HIDE DEF e, t
<1> QED BY <1>1, <1>2, <1>3, TaskFacts, SeqPut

LEMMA NotifyTyped == ASSUME TypeInv, NEW r \in Requests, NotifyAssignee(r) PROVE Typed
<1>1. req[r].pc = "notify"
  BY DEF NotifyAssignee, At
<1>2. RowsKept
  <2>1. CASE notifyTenant(req[r].tell, req[r].task) /\ UNCHANGED tasks
    BY <1>1, <2>1, NotifyFacts, NoticeAdded, TaskFacts, NoticesKept DEF NotifyAssignee
  <2>2. CASE tasks' = UntoldTask(r) /\ UNCHANGED notices
    BY <1>1, <2>2, UntoldType, TaskFacts, NoticesKept DEF NotifyAssignee
  <2> QED BY <2>1, <2>2 DEF NotifyAssignee, UntoldTask
<1>3. /\ PcFits(req[r].op, "publish") /\ NextFits(req[r].op, "publish", req[r].next)
      /\ "publish" \in Pcs /\ "publish" \notin {"unlist", "finalize"} \cup ChatPcs
      /\ req[r].assignedTo # Same
  BY <1>1, NotifyFacts DEF PcFits, NextFits, Pcs, ChatPcs, Announcing, Sweeping, Finalizing
<1> QED BY <1>2, <1>3, GotoFits DEF NotifyAssignee, Typed

LEMMA NoticeStepTyped ==
  ASSUME TypeInv, NEW u \in Users \cup {Nobody},
         \/ NotifyOfBilling \/ NotifyOfRegistration(u) \/ MarkAllInAppRead(u)
         \/ \E n \in DOMAIN notices : MarkInAppRead(u, n)
  PROVE  Typed
<1>1. UNCHANGED <<taskVars, files, roomVars, chatVars, req>>
  BY DEF NotifyOfBilling, NotifyOfRegistration, NotifyOf, MarkAllInAppRead, MarkInAppRead
<1>2. notices' \in Seq(Notice)
  <2>1. CASE NotifyOfBilling \/ NotifyOfRegistration(u)
    BY <2>1, NoticeAdded DEF NotifyOfBilling, NotifyOfRegistration, NotifyOf
  <2>2. ASSUME NEW n \in DOMAIN notices, MarkInAppRead(u, n) PROVE notices' \in Seq(Notice)
    <3>1. [notices[n] EXCEPT !.read = TRUE] \in Notice
      BY RowFacts DEF Notice
    <3>2. notices' = [notices EXCEPT ![n] = [notices[n] EXCEPT !.read = TRUE]]
      BY <2>2 DEF MarkInAppRead
    <3> QED BY <3>1, <3>2, TaskFacts, SeqPut
  <2>3. CASE MarkAllInAppRead(u)
    <3> DEFINE g(n) == IF n \in findRecentForAudience(u) THEN [notices[n] EXCEPT !.read = TRUE]
                       ELSE notices[n]
               f == [n \in DOMAIN notices |-> g(n)]
    <3>1. \A n \in DOMAIN notices : g(n) \in Notice
      BY RowFacts DEF Notice
    <3>2. notices' = f
      BY <2>3 DEF MarkAllInAppRead
    <3> HIDE DEF g
    <3>3. f = [n \in DOMAIN notices |-> f[n]] /\ \A n \in DOMAIN notices : f[n] \in Notice
      BY <3>1
    <3> HIDE DEF f
    <3> QED BY <3>2, <3>3, TaskFacts, SeqOver
  <2> QED BY <2>1, <2>2, <2>3
<1>3. RowsKept
  BY <1>1, <1>2, TaskFacts, NoticesKept DEF taskVars
<1> QED BY <1>1, <1>3, RestFits DEF Typed

LEMMA SessionFacts ==
  ASSUME TypeInv, NEW r \in Requests, req[r].op \in {"deleteSession", "sendMessage"}
  PROVE  /\ req[r].session \in DOMAIN sessions /\ req[r].session \in Nat
         /\ req[r] \in Request /\ RequestFits(req[r], Lengths)
BY ReqFacts, RowFacts DEF RequestFits, NamesFit, Lengths

\* Who is asked a question, and where.
LEMMA ChatFacts ==
  ASSUME TypeInv, NEW r \in Requests, req[r].pc \in {"question"} \cup ChatPcs
  PROVE  req[r].op = "sendMessage"
BY ReqFacts DEF RequestFits, PcFits, Sweeping, Finalizing, Announcing, ChatPcs

LEMMA TitleUpdated ==
  ASSUME TypeInv, NEW u \in Users, NEW s \in DOMAIN sessions,
         NEW title \in {"default", "automatic", "chosen"}, updateTitle(u, s, title)
  PROVE  sessions' \in Seq(Session) /\ Len(sessions') = Len(sessions)
<1> DEFINE e == [sessions[s] EXCEPT !.title = title]
<1>1. e \in Session
  BY RowFacts DEF Session
<1>2. sessions' = sessions \/ sessions' = [sessions EXCEPT ![s] = e]
  BY DEF updateTitle
<1> HIDE DEF e
<1>3. sessions \in Seq(Session)
  BY TaskFacts
<1>4. /\ [sessions EXCEPT ![s] = e] \in Seq(Session)
      /\ Len([sessions EXCEPT ![s] = e]) = Len(sessions)
  BY <1>1, <1>3, SeqPut
<1> QED BY <1>2, <1>3, <1>4

LEMMA MessageStored ==
  ASSUME TypeInv, NEW s \in Nat, NEW role \in {"user", "assistant"}
  PROVE  /\ Stored(s, role) \in Seq(Message) /\ Len(Stored(s, role)) = Len(messages) + 1
         /\ \A m \in DOMAIN messages : Stored(s, role)[m] = messages[m]
         /\ Stored(s, role)[Len(messages) + 1] = [session |-> s, role |-> role, stored |-> TRUE]
<1> DEFINE e == [session |-> s, role |-> role, stored |-> TRUE]
<1>1. e \in Message
  BY DEF Message
<1>2. Stored(s, role) = Append(messages, e)
  BY DEF Stored
<1> HIDE DEF e
<1> QED BY <1>1, <1>2, TaskFacts, SeqAdd DEF e

LEMMA MessagesDeleted ==
  ASSUME TypeInv, NEW s
  PROVE  /\ deleteBySessionForTenant(s) \in Seq(Message)
         /\ Len(deleteBySessionForTenant(s)) = Len(messages)
<1> DEFINE g(m) == IF m \in MessagesOf(s) THEN [messages[m] EXCEPT !.stored = FALSE]
                   ELSE messages[m]
           f == [m \in DOMAIN messages |-> g(m)]
<1>1. \A m \in DOMAIN messages : g(m) \in Message
  BY RowFacts DEF Message
<1>2. deleteBySessionForTenant(s) = f
  BY DEF deleteBySessionForTenant
<1> HIDE DEF g
<1>3. f = [m \in DOMAIN messages |-> f[m]] /\ \A m \in DOMAIN messages : f[m] \in Message
  BY <1>1
<1> HIDE DEF f
<1> QED BY <1>2, <1>3, TaskFacts, SeqOver

LEMMA DeleteSessionTyped ==
  ASSUME TypeInv, NEW r \in Requests, DeleteMessages(r) \/ deleteForTenantUser(r) PROVE Typed
<1>1. CASE DeleteMessages(r)
  <2>1. req[r].pc = "messages" /\ req[r].op = "deleteSession"
    BY <1>1, ReqFacts DEF DeleteMessages, At, RequestFits, PcFits, Sweeping, Finalizing,
       Announcing, ChatPcs
  <2>2. RowsKept
    BY <1>1, MessagesDeleted, TaskFacts, RowFacts, ChatsKept DEF DeleteMessages
  <2>3. /\ PcFits(req[r].op, "session") /\ NextFits(req[r].op, "session", req[r].next)
        /\ "session" \in Pcs /\ "session" \notin {"unlist", "finalize"} \cup ChatPcs \cup Announcing
    BY <2>1 DEF PcFits, NextFits, Pcs, ChatPcs, Announcing, Sweeping, Finalizing
  <2> QED BY <1>1, <2>2, <2>3, GotoFits DEF DeleteMessages, Typed, Announcing
<1>2. CASE deleteForTenantUser(r)
  <2> DEFINE s == req[r].session
             e == [sessions[s] EXCEPT !.stored = FALSE]
  <2>1. s \in DOMAIN sessions
    BY <1>2, SessionFacts DEF deleteForTenantUser, Doing
  <2>2. e \in Session
    BY <2>1, RowFacts DEF Session
  <2>3. sessions' = sessions \/ sessions' = [sessions EXCEPT ![s] = e]
    BY <1>2 DEF deleteForTenantUser
  <2> HIDE DEF e
  <2>4. sessions' \in Seq(Session) /\ Len(sessions') = Len(sessions)
    <3>1. sessions \in Seq(Session)
      BY TaskFacts
    <3>2. /\ [sessions EXCEPT ![s] = e] \in Seq(Session)
          /\ Len([sessions EXCEPT ![s] = e]) = Len(sessions)
      BY <2>1, <2>2, <3>1, SeqPut
    <3> QED BY <2>3, <3>1, <3>2
  <2>5. RowsKept
    BY <1>2, <2>4, TaskFacts, RowFacts, ChatsKept DEF deleteForTenantUser
  <2> QED BY <1>2, <2>5, FinishFits DEF deleteForTenantUser, Typed
<1> QED BY <1>1, <1>2

LEMMA FindSessionTyped == ASSUME TypeInv, NEW r \in Requests, FindSession(r) PROVE Typed
<1>1. RowsKept
  BY PureKept DEF FindSession, Pure
<1>2. PICK b \in BOOLEAN : b = (sessions[req[r].session].title = "default")
  OBVIOUS
<1> DEFINE q == [req[r] EXCEPT !.pc = "question", !.untitled = b]
<1>3. req[r] \in Request /\ RequestFits(req[r], Lengths) /\ req[r].op = "sendMessage"
  BY ReqFacts DEF FindSession, Doing
<1>4. q \in Request
  BY ZenonT(60), <1>3 DEF Request, Pcs
<1>5. RequestFits(q, Lengths)
  BY <1>3 DEF RequestFits, PcFits, NextFits, NamesFit, Request, Sweeping, Finalizing, Announcing,
     ChatPcs
<1>6. Finish(r) \/ req' = [req EXCEPT ![r] = q]
  BY <1>2 DEF FindSession
<1> HIDE DEF q
<1> QED BY <1>1, <1>4, <1>5, <1>6, FinishFits, PutFits DEF Typed

LEMMA QuestionType ==
  ASSUME NEW q \in Request, NEW pc \in Pcs, NEW n \in Nat
  PROVE  [q EXCEPT !.pc = pc, !.question = n] \in Request
BY DEF Request

LEMMA StoreQuestionTyped == ASSUME TypeInv, NEW r \in Requests, StoreQuestion(r) PROVE Typed
<1> DEFINE n == Len(messages) + 1
           pc == IF req[r].untitled THEN "title" ELSE "history"
           q == [req[r] EXCEPT !.pc = pc, !.question = n]
<1>1. /\ req[r] \in Request /\ RequestFits(req[r], Lengths) /\ req[r].op = "sendMessage"
      /\ req[r].session \in Nat
  BY ChatFacts, SessionFacts DEF StoreQuestion, At
<1>2. messages' \in Seq(Message) /\ Len(messages') = n
  BY <1>1, MessageStored DEF StoreQuestion
<1>3. RowsKept
  BY <1>2, TaskFacts, RowFacts, ChatsKept DEF StoreQuestion
<1>4. n \in 1 .. Lengths'[4] /\ n \in Nat /\ pc \in Pcs /\ pc \in ChatPcs /\ pc # "unlist" /\ pc # "finalize"
  BY <1>2, RowFacts DEF Lengths, Pcs, ChatPcs
<1>5. req' = [req EXCEPT ![r] = q]
  BY DEF StoreQuestion
<1>6. RequestFits(req[r], Lengths')
  BY <1>1, <1>3, KeptGrown, LengthsType, FitsLater
<1> HIDE DEF n, pc
<1>7. q \in Request
  BY <1>1, <1>4, QuestionType
<1>8. RequestFits(q, Lengths')
  BY <1>1, <1>4, <1>6 DEF RequestFits, PcFits, NextFits, NamesFit, Request, Sweeping, Finalizing,
     Announcing, ChatPcs
<1> HIDE DEF q
<1> QED BY <1>3, <1>5, <1>7, <1>8, PutFits DEF Typed

LEMMA TitleTyped == ASSUME TypeInv, NEW r \in Requests, TitleByContent(r) PROVE Typed
<1>1. req[r].pc = "title" /\ req[r].op = "sendMessage" /\ req[r].session \in DOMAIN sessions
  BY ChatFacts, SessionFacts DEF TitleByContent, At, ChatPcs
<1>2. sessions' \in Seq(Session) /\ Len(sessions') = Len(sessions)
  <2>1. CASE req[r].caller \in Users
    BY <1>1, <2>1, TitleUpdated DEF TitleByContent
  <2>2. CASE req[r].caller \notin Users
    <3>1. sessions[req[r].session].user \in Users
      BY <1>1, RowFacts DEF Session
    <3>2. sessions' = sessions
      BY <2>2, <3>1 DEF TitleByContent, updateTitle, OwnSession
    <3> QED BY <3>2, TaskFacts
  <2> QED BY <2>1, <2>2
<1>3. RowsKept
  BY <1>2, TaskFacts, RowFacts, ChatsKept DEF TitleByContent
<1>4. /\ PcFits(req[r].op, "history") /\ NextFits(req[r].op, "history", req[r].next)
      /\ "history" \in Pcs /\ "history" \notin {"unlist", "finalize"} \cup Announcing
      /\ req[r].question \in DOMAIN messages
  BY <1>1, ReqFacts, RowFacts DEF RequestFits, NamesFit, Lengths, PcFits, NextFits, Pcs, ChatPcs,
     Announcing, Sweeping, Finalizing
<1> QED BY <1>3, <1>4, GotoFits DEF TitleByContent, Typed, Announcing

LEMMA HistoryType ==
  ASSUME NEW q \in Request, NEW pc \in Pcs, NEW n \in Nat, NEW H \in SUBSET Nat
  PROVE  [q EXCEPT !.pc = pc, !.seen = n, !.history = H] \in Request
BY DEF Request

LEMMA ListTyped == ASSUME TypeInv, NEW r \in Requests, ListHistory(r) PROVE Typed
<1> DEFINE H == listBySessionForTenant(req[r].session)
           q == [req[r] EXCEPT !.pc = "complete", !.seen = 1, !.history = H]
<1>1. RowsKept
  BY PureKept DEF ListHistory, Pure
<1>2. /\ req[r] \in Request /\ RequestFits(req[r], Lengths) /\ req[r].op = "sendMessage"
      /\ req[r].pc = "history"
  BY ReqFacts, ChatFacts DEF ListHistory, At, ChatPcs
<1>3. H \in SUBSET Nat
  BY RowFacts DEF listBySessionForTenant, MessagesOf
<1>4. req' = [req EXCEPT ![r] = q]
  BY DEF ListHistory
<1> HIDE DEF H
<1>5. q \in Request
  BY <1>2, <1>3, HistoryType DEF Pcs
<1>6. RequestFits(q, Lengths)
  BY <1>2 DEF RequestFits, PcFits, NextFits, NamesFit, Request, Sweeping, Finalizing, Announcing,
     ChatPcs
<1> HIDE DEF q
<1> QED BY <1>1, <1>4, <1>5, <1>6, PutFits DEF Typed

LEMMA CompleteTyped == ASSUME TypeInv, NEW r \in Requests, Complete(r) PROVE Typed
<1>1. RowsKept
  BY PureKept DEF Complete, Pure
<1>2. /\ req[r] \in Request /\ RequestFits(req[r], Lengths) /\ req[r].op = "sendMessage"
      /\ req[r].pc = "complete" /\ req[r].seen \in Nat
  BY ReqFacts, ChatFacts DEF Complete, At, ChatPcs, Request
<1>3. CASE Goto(r, "answer")
  <2>1. /\ PcFits(req[r].op, "answer") /\ NextFits(req[r].op, "answer", req[r].next)
        /\ "answer" \in Pcs /\ "answer" \notin {"unlist", "finalize"} \cup Announcing
        /\ req[r].question \in DOMAIN messages
    BY <1>2, RowFacts DEF RequestFits, NamesFit, Lengths, PcFits, NextFits, Pcs, ChatPcs,
       Announcing, Sweeping, Finalizing
  <2> QED BY <1>1, <1>3, <2>1, GotoFits DEF Typed, Announcing
<1>4. CASE req' = [req EXCEPT ![r].seen = @ + 1]
  <2> DEFINE n == req[r].seen + 1
             q == [req[r] EXCEPT !.seen = n]
  <2>1. n \in Nat /\ req' = [req EXCEPT ![r] = q]
    BY <1>2, <1>4
  <2> HIDE DEF n
  <2>2. q \in Request
    BY <1>2, <2>1 DEF Request
  <2>3. RequestFits(q, Lengths)
    BY <1>2 DEF RequestFits, NamesFit, Request
  <2> HIDE DEF q
  <2> QED BY <1>1, <2>1, <2>2, <2>3, PutFits DEF Typed
<1> QED BY <1>1, <1>3, <1>4, FinishFits DEF Complete, Typed

LEMMA AnswerTyped == ASSUME TypeInv, NEW r \in Requests, StoreAnswer(r) PROVE Typed
<1>1. req[r].session \in Nat
  BY ChatFacts, SessionFacts DEF StoreAnswer, At, ChatPcs
<1>2. messages' \in Seq(Message) /\ Len(messages') = Len(messages) + 1
  BY <1>1, MessageStored DEF StoreAnswer
<1>3. RowsKept
  BY <1>2, TaskFacts, RowFacts, ChatsKept DEF StoreAnswer
<1> QED BY <1>3, FinishFits DEF StoreAnswer, Typed

LEMMA ChatStepTyped == ASSUME TypeInv, NEW r \in Requests, ChatStep(r) PROVE Typed
BY DeleteSessionTyped, FindSessionTyped, StoreQuestionTyped, TitleTyped, ListTyped, CompleteTyped,
   AnswerTyped DEF ChatStep

LEMMA SessionWritten ==
  ASSUME TypeInv, NEW u \in Users,
         \/ \E title \in {"default", "chosen"} : CreateSession(u, title)
         \/ \E s \in DOMAIN sessions : PatchSession(u, s)
  PROVE  Typed
<1>1. sessions' \in Seq(Session) /\ Len(sessions') >= Len(sessions)
  <2>1. ASSUME NEW title \in {"default", "chosen"}, CreateSession(u, title)
        PROVE  sessions' \in Seq(Session) /\ Len(sessions') >= Len(sessions)
    <3> DEFINE e == [user |-> u, stored |-> TRUE, title |-> title]
    <3>1. e \in Session
      BY DEF Session
    <3>2. sessions' = Append(sessions, e)
      BY <2>1 DEF CreateSession
    <3> HIDE DEF e
    <3> QED BY <3>1, <3>2, TaskFacts, RowFacts, SeqAdd
  <2>2. ASSUME NEW s \in DOMAIN sessions, PatchSession(u, s)
        PROVE  sessions' \in Seq(Session) /\ Len(sessions') >= Len(sessions)
    BY <2>2, TitleUpdated, RowFacts DEF PatchSession
  <2> QED BY <2>1, <2>2
<1>2. UNCHANGED <<taskVars, files, roomVars, notices, messages, req>>
  BY DEF CreateSession, PatchSession
<1>3. RowsKept
  BY <1>1, <1>2, TaskFacts, RowFacts, ChatsKept
<1> QED BY <1>2, <1>3, RestFits DEF Typed

LEMMA FileAtOnceTyped ==
  ASSUME TypeInv, NEW d \in DOMAIN files, ClientUploads(d) \/ ExpireAsset(d) PROVE Typed
<1>1. files' \in FilesType
  <2> DEFINE a == [files[d] EXCEPT !.place = "temporary"]
             b == [files[d] EXCEPT !.expired = TRUE]
  <2>1. files \in FilesType /\ d \in 1 .. MaxFiles /\ files[d] \in FileAsset
    BY FileFacts DEF FilesType
  <2>2. a \in FileAsset /\ b \in FileAsset
    BY <2>1 DEF FileAsset
  <2>3. files' = [files EXCEPT ![d] = a] \/ files' = [files EXCEPT ![d] = b]
    BY DEF ClientUploads, ExpireAsset
  <2> HIDE DEF a, b
  <2> QED BY <2>1, <2>2, <2>3 DEF FilesType
<1>2. Rest /\ req' = req
  BY DEF ClientUploads, ExpireAsset, Rest
<1>3. RowsKept
  BY <1>1, <1>2, FilesOnly DEF FilesType
<1> QED BY <1>2, <1>3, RestFits DEF Typed

LEMMA AtOnceTyped == ASSUME TypeInv, AtOnce PROVE Typed
<1>1. scenario.callers \subseteq Users
  BY ScenarioFacts
<1>2. CASE \E s \in DOMAIN Sockets : SocketStep(s)
  BY <1>2, SocketStepTyped
<1>3. ASSUME NEW u \in Users \cup {Nobody},
             \/ NotifyOfBilling \/ NotifyOfRegistration(u) \/ MarkAllInAppRead(u)
             \/ \E n \in DOMAIN notices : MarkInAppRead(u, n)
      PROVE  Typed
  BY <1>3, NoticeStepTyped
<1>4. ASSUME NEW u \in Users,
             \/ \E title \in {"default", "chosen"} : CreateSession(u, title)
             \/ \E s \in DOMAIN sessions : PatchSession(u, s)
      PROVE  Typed
  BY <1>4, SessionWritten
<1>5. CASE \E d \in DOMAIN files : ClientUploads(d) \/ ExpireAsset(d)
  BY <1>5, FileAtOnceTyped
<1>6. NotifyOfBilling => Typed
  BY <1>3
<1> QED BY <1>1, <1>2, <1>3, <1>4, <1>5, <1>6 DEF AtOnce

-----------------------------------------------------------------------------
(* Types: crashes, subscriptions, and the theorem. *)

LEMMA PublishFacts ==
  ASSUME TypeInv, NEW r \in Requests, req[r].pc \in Announcing
  PROVE  PublishRooms(r) \subseteq Room
<1>1. req[r] \in Request /\ req[r].assignedTo # Same
  BY ReqFacts DEF RequestFits
<1>2. {req[r].was, req[r].assignedTo} \in SUBSET (Users \cup {Nobody}) /\ req[r].workspace \in Nat
  BY <1>1 DEF Request
<1> QED BY <1>2, RoomsType DEF PublishRooms

LEMMA CrashTyped == ASSUME TypeInv, NEW r \in Requests, Crash(r) PROVE Typed
<1>1. files' \in FilesType
  BY ZenonT(60), TaskFacts DEF Crash, Stray, FilesType, FileAsset
<1>2. tasks' \in Seq(Task) /\ Len(tasks') = Len(tasks)
  <2>1. CASE req[r].pc = "notify"
    BY <2>1, UntoldType DEF Crash, At, UntoldTask
  <2>2. CASE req[r].pc # "notify"
    BY <2>2, UndraftedKept DEF Crash, At
  <2> QED BY <2>1, <2>2
<1>3. silenced' \subseteq Room
  BY PublishFacts, TaskFacts DEF Crash, Announcing
<1>4. RowsKept
  BY <1>1, <1>2, <1>3, TaskFacts, RowFacts, TasksKept DEF Crash
<1> QED BY <1>4, FinishFits DEF Crash, Typed

LEMMA LimitsType ==
  ASSUME NEW e \in Entitled
  PROVE  resolveFeatureLimits(e.subscription, e.plan).maxWorkspaces \in Nat \cup {NoCap}
BY FreeLimitsAssumption DEF Entitled, PlanView, FeatureLimits, Dimensions, resolveFeatureLimits

LEMMA HighestType ==
  ASSUME NEW c \in Nat \cup {NoCap}, NEW d \in Nat \cup {NoCap}
  PROVE  Highest(c, d) \in Nat \cup {NoCap}
BY DEF Highest

LEMMA EntitledType ==
  ASSUME TypeInv, entitled' \in scenario.entitled
  PROVE  entitled' \in Entitled /\ Limits.maxWorkspaces' \in Nat \cup {NoCap}
<1>1. entitled' \in Entitled
  BY ScenarioFacts
<1> QED BY <1>1, LimitsType DEF Limits

\* A step goes on with requests that fit the rows it leaves.
LEMMA TypedStays ==
  ASSUME TypeInv, Typed, scenario' \in Scenarios, entitled' \in Entitled,
         ceiling' \in Nat \cup {NoCap}
  PROVE  TypeInv'
BY DEF Typed, RowsKept, RequestsFit, TypeInv, TypeOK, WorkTypeOK

LEMMA TypesStep == ASSUME TypeInv, [Next]_workVars PROVE TypeInv'
<1>0. scenario \in Scenarios /\ entitled \in Entitled /\ ceiling \in Nat \cup {NoCap}
  BY DEF TypeInv, TypeOK, WorkTypeOK
<1>1. CASE ChangeSubscription
  <2>1. Pure /\ UNCHANGED <<scenario, req>>
    BY <1>1 DEF ChangeSubscription, Pure
  <2>2. ceiling' \in Nat \cup {NoCap} /\ entitled' \in Entitled
    BY <1>0, <1>1, EntitledType, HighestType DEF ChangeSubscription
  <2> QED BY <1>0, <2>1, <2>2, PureKept, RestFits, TypedStays DEF Typed
<1>2. CASE UNCHANGED workVars
  BY <1>2 DEF workVars, taskVars, roomVars, chatVars, TypeInv, TypeOK, WorkTypeOK, Lengths
<1>3. CASE /\ AtOnce \/ \E r \in Requests : Arrival(r) \/ Progress(r) \/ Crash(r)
           /\ UNCHANGED <<scenario, entitled, ceiling>>
  <2>1. Typed
    BY <1>3, AtOnceTyped, ArrivalTyped, FileStepTyped, TaskStepTyped, JoinTyped, NotifyTyped,
       ChatStepTyped, CrashTyped DEF Progress
  <2> QED BY <1>0, <1>3, <2>1, TypedStays
<1> QED BY <1>1, <1>2, <1>3 DEF Next

LEMMA TypesInit == ASSUME WorkInit PROVE TypeInv
<1>1. scenario \in Scenarios /\ entitled \in scenario.entitled /\ entitled \in Entitled
  BY ScenariosAssumption DEF WorkInit, Entitled
<1>2. ceiling \in Nat \cup {NoCap}
  <2>1. Limits.maxWorkspaces \in Nat \cup {NoCap}
    BY <1>1, LimitsType DEF Limits
  <2>2. FreeLimits.maxWorkspaces \in Nat
    BY FreeLimitsAssumption DEF Dimensions
  <2> QED BY <2>1, <2>2, HighestType DEF WorkInit
<1>3. /\ scenario.workspaces \in Nat /\ scenario.tasks \in Nat
  BY <1>1, ScenariosAssumption
<1>4. workspaces \in Seq(BOOLEAN)
  BY <1>3, SeqOn DEF WorkInit
<1>5. tasks \in Seq(Task)
  <2> DEFINE e == [NewTask(1, "open", Nobody) EXCEPT !.stage = "live"]
  <2>1. e \in Task
    BY DEF NewTask, Task
  <2>2. tasks = [t \in 1 .. scenario.tasks |-> e]
    BY DEF WorkInit
  <2> HIDE DEF e
  <2>3. tasks \in [1 .. scenario.tasks -> Task]
    BY <2>1, <2>2
  <2> QED BY <1>3, <2>3, SeqOn
<1>6. files \in [1 .. MaxFiles -> FileAsset]
  BY DEF WorkInit, NoFile, FileAsset
<1>7. sockets \in [DOMAIN Sockets -> Socket]
  <2>1. [rooms |-> {}, board |-> NoRoom] \in Socket
    BY RoomTypes DEF Socket
  <2> QED BY <2>1 DEF WorkInit
<1>8. notices \in Seq(Notice) /\ sessions \in Seq(Session) /\ messages \in Seq(Message)
  BY EmptySeq DEF WorkInit
<1>9. req \in [Requests -> Request] /\ \A r \in Requests : req[r] = IdleRequest
  BY IdleFits DEF WorkInit
<1>10. \A r \in Requests : RequestFits(req[r], Lengths)
  BY <1>9, IdleFits
<1> QED BY <1>1, <1>2, <1>4, <1>5, <1>6, <1>7, <1>8, <1>9, <1>10
    DEF WorkInit, TypeInv, TypeOK, WorkTypeOK

\* What the requests on workspaces, tasks, files, sockets and chats store has its type,
\* and a request names only rows that there are.
THEOREM WorkTypes == Spec => []TypeOK
<1>1. Spec => []TypeInv
  BY TypesInit, TypesStep, PTL DEF Spec
<1>2. TypeInv => TypeOK
  BY DEF TypeInv
<1> QED BY <1>1, <1>2, PTL

-----------------------------------------------------------------------------
(* What each part of the system leaves alone. *)

LEMMA ArrivalIsPure == ASSUME NEW r \in Requests, Arrival(r) PROVE Pure
<1>1. CASE FileArrival(r)
  BY <1>1 DEF FileArrival, Cleanup, DeleteAsset, FinalizeAsset, CreateUploadSignature,
     RegisterAsset, UploadViaApi, Pure
<1>2. ASSUME NEW u, WorkspaceArrival(r, u) PROVE Pure
  BY <1>2 DEF WorkspaceArrival, CreateWorkspace, DeleteWorkspace, CreateTask, DeleteTask,
     UpdateTask, Pure
<1>3. ASSUME NEW u, ChatArrival(r, u) PROVE Pure
  BY <1>3 DEF ChatArrival, DeleteSession, SendMessage, BeginChat, Pure
<1> QED BY <1>1, <1>2, <1>3 DEF Arrival, Subscribe, Pure

LEMMA FileStepLeaves ==
  ASSUME NEW r \in Requests, FileStep(r)
  PROVE  /\ UNCHANGED <<workspaces, roomVars, notices, chatVars>>
         /\ tasks' = tasks \/ (req[r].pc \in {"find", "rollback"} /\ Abort(r))
<1>1. CASE FindTemporaryAssets(r) \/ Rollback(r)
  BY <1>1 DEF FindTemporaryAssets, Rollback, At
<1>2. CASE ~(FindTemporaryAssets(r) \/ Rollback(r))
  BY <1>2 DEF FileStep, Sweep, SweepDestroy, SweepUnlist, CountFiles, Sign, UploadBuffer,
     FindExisting, SumFinalizedBytes, CreateAsset, RenameAsset, FinalizeRow, DestroyAsset,
     UnlistAsset, taskVars
<1> QED BY <1>1, <1>2

LEMMA TaskStepLeaves ==
  ASSUME NEW r \in Requests, TaskStep(r) PROVE UNCHANGED <<sockets, notices, chatVars>>
BY DEF TaskStep, CountWorkspaces, assertWithinWorkspaceLimit, InsertWorkspace, Cascade, DraftTask,
   CommitCreate, ReadTask, CommitUpdate, FindTask, softDeleteByIdAndWorkspace, Publish,
   Committed, CommitFails, Shown, roomVars

LEMMA ChatStepLeaves ==
  ASSUME NEW r \in Requests, ChatStep(r)
  PROVE  UNCHANGED <<taskVars, files, roomVars, notices>>
BY DEF ChatStep, DeleteMessages, deleteForTenantUser, FindSession, StoreQuestion, TitleByContent,
   ListHistory, Complete, StoreAnswer, chatVars

LEMMA OthersLeave ==
  /\ \A r \in Requests :
       /\ Join(r) => UNCHANGED <<taskVars, files, unsignalled, silenced, notices, chatVars>>
       /\ NotifyAssignee(r) => UNCHANGED <<workspaces, files, roomVars, chatVars>>
       /\ Crash(r) => UNCHANGED <<workspaces, sockets, unsignalled, notices, chatVars>>
  /\ \A s \in DOMAIN Sockets :
       SocketStep(s) => UNCHANGED <<taskVars, files, unsignalled, silenced, notices, chatVars, req>>
BY DEF Join, NotifyAssignee, Crash, SocketStep, Unsubscribe, SubscribeMyTasks, UnsubscribeMyTasks,
   Connect, Disconnect, SetRooms

NoticeStep ==
  \/ NotifyOfBilling \/ \E u \in Users : NotifyOfRegistration(u)
  \/ \E u \in scenario.callers : MarkAllInAppRead(u) \/ \E n \in DOMAIN notices : MarkInAppRead(u, n)
SessionStep ==
  \E u \in scenario.callers :
     \/ \E title \in {"default", "chosen"} : CreateSession(u, title)
     \/ \E s \in DOMAIN sessions : PatchSession(u, s)
FileAtOnce == \E d \in DOMAIN files : ClientUploads(d) \/ ExpireAsset(d)

LEMMA AtOnceParts ==
  AtOnce => (\E s \in DOMAIN Sockets : SocketStep(s)) \/ NoticeStep \/ SessionStep \/ FileAtOnce
BY DEF AtOnce, NoticeStep, SessionStep, FileAtOnce

LEMMA AtOnceLeaves ==
  /\ NoticeStep => UNCHANGED <<taskVars, files, roomVars, chatVars, req>>
  /\ SessionStep => UNCHANGED <<taskVars, files, roomVars, notices, messages, req>>
  /\ FileAtOnce => UNCHANGED <<taskVars, roomVars, notices, chatVars, req>>
<1>1. NoticeStep => UNCHANGED <<taskVars, files, roomVars, chatVars, req>>
  BY DEF NoticeStep, NotifyOfBilling, NotifyOfRegistration, NotifyOf, MarkAllInAppRead,
     MarkInAppRead
<1>2. SessionStep => UNCHANGED <<taskVars, files, roomVars, notices, messages, req>>
  BY DEF SessionStep, CreateSession, PatchSession
<1>3. FileAtOnce => UNCHANGED <<taskVars, roomVars, notices, chatVars, req>>
  BY DEF FileAtOnce, ClientUploads, ExpireAsset
<1> QED BY <1>1, <1>2, <1>3

\* The steps, by what they are about.
Kinds ==
  \/ ChangeSubscription \/ UNCHANGED workVars
  \/ /\ UNCHANGED <<scenario, entitled, ceiling>>
     /\ \/ \E s \in DOMAIN Sockets : SocketStep(s)
        \/ NoticeStep \/ SessionStep \/ FileAtOnce
        \/ \E r \in Requests : \/ Arrival(r) \/ FileStep(r) \/ TaskStep(r) \/ Join(r)
                               \/ NotifyAssignee(r) \/ ChatStep(r) \/ Crash(r)

LEMMA StepKinds == ASSUME [Next]_workVars PROVE Kinds
BY AtOnceParts DEF Next, Kinds, Progress

-----------------------------------------------------------------------------
(* What the step of a request makes of the other requests. *)

Elsewhere(r) == \A p \in Requests \ {r} : req'[p] = req[p]
ElsewhereSpoilt(r) == \A p \in Requests \ {r} : req'[p] = req[p] \/ SpoiltBy(p)

LEMMA PutElsewhere ==
  ASSUME TypeInv, NEW r \in Requests, NEW q, req' = [req EXCEPT ![r] = q]
  PROVE  Elsewhere(r) /\ req'[r] = q
BY ReqFacts DEF Elsewhere

\* What a request is like when it arrives.
Starting(q) ==
  /\ q.pc \notin ChatPcs \cup Announcing \cup {"rename", "finalize", "rollback", "commit"}
  /\ q.pc \notin {"limit", "insert", "find"}
  /\ ~Open(q) /\ q.done = {} /\ ~q.untitled

\* A request that arrives.
Begun(r) == Elsewhere(r) /\ Starting(req'[r]) /\ req[r].pc = "idle"

LEMMA ArrivalRequests == ASSUME TypeInv, NEW r \in Requests, Arrival(r) PROVE Begun(r)
<1>1. req \in [Requests -> Request]
  BY ReqFacts
<1>2. CASE FileArrival(r)
  <2>1. ASSUME Cleanup(r) PROVE Begun(r)
    BY <1>1, <2>1 DEF Cleanup, Begin, At, IdleRequest, Begun, Elsewhere, Starting, Open,
       ChatPcs, Announcing
  <2>2. ASSUME NEW d, DeleteAsset(r, d) PROVE Begun(r)
    BY <1>1, <2>2 DEF DeleteAsset, Begin, At, IdleRequest, Begun, Elsewhere, Starting, Open,
       ChatPcs, Announcing
  <2>3. ASSUME NEW d, NEW t, FinalizeAsset(r, d, t) PROVE Begun(r)
    BY <1>1, <2>3 DEF FinalizeAsset, Begin, At, IdleRequest, Begun, Elsewhere, Starting, Open,
       ChatPcs, Announcing
  <2>4. ASSUME NEW d, NEW t, CreateUploadSignature(r, d, t) PROVE Begun(r)
    BY <1>1, <2>4 DEF CreateUploadSignature, Begin, At, IdleRequest, Begun, Elsewhere, Starting, Open,
       ChatPcs, Announcing
  <2>5. ASSUME NEW d, NEW t, RegisterAsset(r, d, t) PROVE Begun(r)
    BY <1>1, <2>5 DEF RegisterAsset, Begin, At, IdleRequest, Begun, Elsewhere, Starting, Open,
       ChatPcs, Announcing
  <2>6. ASSUME NEW d, NEW t, UploadViaApi(r, d, t) PROVE Begun(r)
    BY <1>1, <2>6 DEF UploadViaApi, Begin, At, IdleRequest, Begun, Elsewhere, Starting, Open,
       ChatPcs, Announcing
  <2> QED BY <1>2, <2>1, <2>2, <2>3, <2>4, <2>5, <2>6 DEF FileArrival
<1>3. ASSUME NEW u, WorkspaceArrival(r, u) PROVE Begun(r)
  <2>1. ASSUME CreateWorkspace(r, u) PROVE Begun(r)
    BY <1>1, <2>1 DEF CreateWorkspace, Begin, At, IdleRequest, Begun, Elsewhere, Starting, Open,
       ChatPcs, Announcing
  <2>2. ASSUME NEW w, DeleteWorkspace(r, u, w) PROVE Begun(r)
    BY <1>1, <2>2 DEF DeleteWorkspace, Begin, At, IdleRequest, Begun, Elsewhere, Starting, Open,
       ChatPcs, Announcing
  <2>3. ASSUME NEW w, NEW a, NEW status, NEW docs, CreateTask(r, u, w, a, status, docs) PROVE Begun(r)
    BY <1>1, <2>3 DEF CreateTask, Begin, At, IdleRequest, Begun, Elsewhere, Starting, Open,
       ChatPcs, Announcing
  <2>4. ASSUME NEW t, DeleteTask(r, u, t) PROVE Begun(r)
    BY <1>1, <2>4 DEF DeleteTask, Begin, At, IdleRequest, Begun, Elsewhere, Starting, Open,
       ChatPcs, Announcing
  <2>5. ASSUME NEW t, NEW a, NEW status, NEW docs, NEW keep,
               UpdateTask(r, u, t, a, status, docs, keep)
        PROVE Begun(r)
    BY <1>1, <2>5 DEF UpdateTask, Begin, At, IdleRequest, Begun, Elsewhere, Starting, Open,
       ChatPcs, Announcing
  <2> QED BY <1>3, <2>1, <2>2, <2>3, <2>4, <2>5 DEF WorkspaceArrival
<1>4. ASSUME NEW u, NEW s, DeleteSession(r, u, s) \/ SendMessage(r, u, s) PROVE Begun(r)
  <2>1. ASSUME DeleteSession(r, u, s) PROVE Begun(r)
    BY <1>1, <2>1 DEF DeleteSession, BeginChat, Begin, At, IdleRequest, Begun, Elsewhere,
       Starting, Open, ChatPcs, Announcing
  <2>2. ASSUME SendMessage(r, u, s) PROVE Begun(r)
    BY <1>1, <2>2 DEF SendMessage, BeginChat, Begin, At, IdleRequest, Begun, Elsewhere,
       Starting, Open, ChatPcs, Announcing
  <2> QED BY <1>4, <2>1, <2>2
<1>5. ASSUME NEW s, NEW w, Subscribe(r, s, w) PROVE Begun(r)
  BY <1>1, <1>5 DEF Subscribe, Begin, At, IdleRequest, Begun, Elsewhere, Starting, Open,
     ChatPcs, Announcing
<1> QED BY <1>2, <1>3, <1>4, <1>5 DEF Arrival, ChatArrival

LEMMA FileStepElsewhere == ASSUME TypeInv, NEW r \in Requests, FileStep(r) PROVE Elsewhere(r)
<1>1. req \in [Requests -> Request]
  BY ReqFacts
<1>2. \A pc : Goto(r, pc) \/ Finish(r) => Elsewhere(r)
  BY <1>1 DEF Goto, Finish, Elsewhere
<1>3. CASE Sweep(r) \/ SweepDestroy(r) \/ SweepUnlist(r)
  BY <1>1, <1>2, <1>3 DEF Sweep, SweepDestroy, SweepUnlist, Onward, Elsewhere
<1>4. CASE CountFiles(r) \/ Sign(r) \/ UploadBuffer(r) \/ FindExisting(r)
  BY <1>1, <1>2, <1>4 DEF CountFiles, Sign, UploadBuffer, FindExisting, Elsewhere
<1>5. CASE SumFinalizedBytes(r) \/ CreateAsset(r)
  BY <1>1, <1>2, <1>5 DEF SumFinalizedBytes, CreateAsset, Elsewhere
<1>6. req' = RollbackRenamed(r) => Elsewhere(r)
  BY <1>1 DEF RollbackRenamed, Elsewhere
<1>7. CASE FindTemporaryAssets(r) \/ Rollback(r)
  BY <1>1, <1>2, <1>7 DEF FindTemporaryAssets, Rollback, Abort, Elsewhere
<1>8. CASE RenameAsset(r)
  BY <1>1, <1>6, <1>8 DEF RenameAsset, RenameRefused, Elsewhere
<1>9. CASE FinalizeRow(r)
  BY <1>1, <1>2, <1>6, <1>9 DEF FinalizeRow, FinalizeInTransaction, FinalizeAlone, Elsewhere
<1>10. CASE DestroyAsset(r) \/ UnlistAsset(r)
  BY <1>2, <1>10 DEF DestroyAsset, UnlistAsset
<1> QED BY <1>3, <1>4, <1>5, <1>7, <1>8, <1>9, <1>10 DEF FileStep

\* The request of a transaction that commits.
AfterCommit(r, told, was, now) ==
  [req[r] EXCEPT !.pc = IF told = Nobody THEN "publish" ELSE "notify", !.tell = told,
                 !.was = was, !.assignedTo = now]

LEMMA CommitMoves ==
  ASSUME TypeInv, NEW r \in Requests, req[r].pc = "commit", NEW told \in Users \cup {Nobody},
         NEW was \in Users \cup {Nobody}, NEW now \in Users \cup {Nobody},
         Committed(r, told, was, now)
  PROVE  /\ AfterCommit(r, told, was, now) \in Request /\ ~Open(AfterCommit(r, told, was, now))
         /\ AfterCommit(r, told, was, now).pc = (IF told = Nobody THEN "publish" ELSE "notify")
         /\ Moves(r, AfterCommit(r, told, was, now))
         /\ \A p \in Requests \ {r} :
              Open(req[p]) /\ req[p].op = "updateTask" /\ req[p].task = req[r].task => SpoiltBy(p)
<1> DEFINE q == AfterCommit(r, told, was, now)
           pc == IF told = Nobody THEN "publish" ELSE "notify"
<1>1. req[r] \in Request /\ pc \in Pcs /\ pc \in Announcing
  BY ReqFacts DEF Pcs, Announcing
<1>2. q = [req[r] EXCEPT !.pc = pc, !.tell = told, !.was = was, !.assignedTo = now]
  BY DEF AfterCommit
<1>3. pc = IF told = Nobody THEN "publish" ELSE "notify"
  OBVIOUS
<1> HIDE DEF pc
<1>4. q \in Request /\ q.pc = pc
  <2> HIDE DEF q
  <2>1. [req[r] EXCEPT !.pc = pc, !.tell = told, !.was = was, !.assignedTo = now].pc = pc
    BY <1>1 DEF Request
  <2> QED BY <1>1, <1>2, <2>1, CommitType
<1>5. req' = Spoilt([req EXCEPT ![r] = q], {req[r].task})
  BY DEF Committed, AfterCommit
<1> HIDE DEF q
<1>6. ~Open(q)
  BY <1>1, <1>4 DEF Open, Announcing
<1>7. /\ Moves(r, q)
      /\ \A p \in Requests \ {r} :
           Open(req[p]) /\ req[p].op = "updateTask" /\ req[p].task \in {req[r].task} => SpoiltBy(p)
  BY <1>4, <1>5, <1>6, SpoiltMoves
<1> QED BY <1>3, <1>4, <1>6, <1>7 DEF q

LEMMA CommitKinds ==
  ASSUME TypeInv, NEW r \in Requests, CommitCreate(r) \/ CommitUpdate(r)
  PROVE  /\ req[r].pc = "commit"
         /\ \/ CommitFails(r)
            \/ \E told, was, now \in Users \cup {Nobody} : Committed(r, told, was, now)
<1>1. req[r].pc = "commit" /\ req[r].was \in Users \cup {Nobody} /\ Nobody \in Users \cup {Nobody}
  BY ReqFacts DEF CommitUpdate, CommitCreate, At, Request
<1>2. CASE CommitCreate(r)
  <2>1. req[r].assignedTo \in Users \cup {Nobody}
    BY <1>2, ReqFacts DEF CommitCreate, Doing, RequestFits, Request
  <2> QED BY <1>1, <1>2, <2>1 DEF CommitCreate
<1>3. CASE CommitUpdate(r)
  <2>1. Patched(r).assignedTo \in Users \cup {Nobody}
    BY <1>1, CommitFacts, PatchedType DEF Task
  <2>2. ToldOfUpdate(r, Patched(r).assignedTo) \in Users \cup {Nobody}
    BY <2>1 DEF ToldOfUpdate
  <2> QED BY <1>1, <1>3, <2>1, <2>2 DEF CommitUpdate
<1> QED BY <1>2, <1>3

LEMMA TaskStepElsewhere ==
  ASSUME TypeInv, NEW r \in Requests, TaskStep(r) PROVE ElsewhereSpoilt(r)
<1>1. req \in [Requests -> Request]
  BY ReqFacts
<1>2. Elsewhere(r) => ElsewhereSpoilt(r)
  BY DEF Elsewhere, ElsewhereSpoilt
<1>3. \A pc : Goto(r, pc) \/ Finish(r) => Elsewhere(r)
  BY <1>1 DEF Goto, Finish, Elsewhere
<1>4. ASSUME NEW f \in [Requests -> Request], \A p \in Requests \ {r} : f[p] = req[p],
             NEW S, req' = Spoilt(f, S)
      PROVE  ElsewhereSpoilt(r)
  BY <1>4 DEF Spoilt, ElsewhereSpoilt, SpoiltBy
<1>5. CASE CountWorkspaces(r) \/ assertWithinWorkspaceLimit(r) \/ InsertWorkspace(r)
  BY <1>1, <1>2, <1>3, <1>5 DEF CountWorkspaces, assertWithinWorkspaceLimit, InsertWorkspace,
     Elsewhere
<1>6. CASE Cascade(r)
  <2>1. [req EXCEPT ![r] = IdleRequest] \in [Requests -> Request]
    BY <1>1, IdleFits
  <2> QED BY <1>2, <1>3, <1>4, <1>6, <2>1 DEF Cascade
<1>7. CASE DraftTask(r) \/ ReadTask(r) \/ FindTask(r) \/ Publish(r)
  BY <1>1, <1>2, <1>3, <1>7 DEF DraftTask, ReadTask, FindTask, Publish, Elsewhere
<1>8. CASE CommitCreate(r) \/ CommitUpdate(r)
  <2>1. ASSUME NEW told \in Users \cup {Nobody}, NEW was \in Users \cup {Nobody},
               NEW now \in Users \cup {Nobody}, Committed(r, told, was, now)
        PROVE  ElsewhereSpoilt(r)
    BY <1>8, <2>1, CommitMoves DEF Moves, ElsewhereSpoilt, CommitCreate, CommitUpdate, At
  <2> QED BY <1>2, <1>3, <1>8, <2>1, CommitKinds DEF CommitFails
<1>11. CASE softDeleteByIdAndWorkspace(r)
  <2>1. [req EXCEPT ![r].pc = "publish"] \in [Requests -> Request]
    BY <1>1, GoType DEF Pcs
  <2> QED BY <1>1, <1>2, <1>3, <1>4, <1>11, <2>1 DEF softDeleteByIdAndWorkspace
<1> QED BY <1>5, <1>6, <1>7, <1>8, <1>11 DEF TaskStep

LEMMA StepElsewhere ==
  ASSUME TypeInv, NEW r \in Requests,
         \/ Arrival(r) \/ FileStep(r) \/ TaskStep(r) \/ Join(r) \/ NotifyAssignee(r)
         \/ ChatStep(r) \/ Crash(r)
  PROVE  /\ ElsewhereSpoilt(r)
         /\ ~TaskStep(r) => Elsewhere(r)
<1>1. req \in [Requests -> Request]
  BY ReqFacts
<1>2. \A pc : Goto(r, pc) \/ Finish(r) => Elsewhere(r)
  BY <1>1 DEF Goto, Finish, Elsewhere
<1>3. CASE Arrival(r)
  BY <1>3, ArrivalRequests DEF Begun, Elsewhere, ElsewhereSpoilt
<1>4. CASE FileStep(r)
  BY <1>4, FileStepElsewhere DEF Elsewhere, ElsewhereSpoilt
<1>5. CASE Join(r) \/ NotifyAssignee(r) \/ Crash(r)
  BY <1>2, <1>5 DEF Join, NotifyAssignee, Crash, Elsewhere, ElsewhereSpoilt
<1>6. CASE ChatStep(r)
  BY <1>1, <1>2, <1>6 DEF ChatStep, DeleteMessages, deleteForTenantUser, FindSession,
     StoreQuestion, TitleByContent, ListHistory, Complete, StoreAnswer, Elsewhere, ElsewhereSpoilt
<1>7. CASE TaskStep(r)
  BY <1>7, TaskStepElsewhere
<1> QED BY <1>3, <1>4, <1>5, <1>6, <1>7

-----------------------------------------------------------------------------
(* Sockets: OneBoardPerSocket is inductive as it stands. *)

BoardsOf(rooms) == {room \in rooms : room[1] = "board"}

LEMMA BoardFacts ==
  /\ NoRoom[1] # "board" /\ adminRoom[1] # "board"
  /\ \A n : boardRoom(n)[1] = "board" /\ boardRoom(n) # NoRoom
  /\ \A n : myTasksRoom(n)[1] # "board" /\ userRoom(n)[1] # "board"
BY DEF NoRoom, adminRoom, boardRoom, myTasksRoom, userRoom

OneBoard(view) == BoardsOf(view.rooms) = {view.board} \ {NoRoom}

LEMMA OneBoardMoves ==
  ASSUME NEW view \in Socket, OneBoard(view), NEW w
  PROVE  OneBoard(MoveTo(view, boardRoom(w)))
<1> DEFINE room == boardRoom(w)
<1>1. room[1] = "board" /\ room # NoRoom /\ NoRoom[1] # "board"
  BY BoardFacts
<1> HIDE DEF room
<1>2. /\ MoveTo(view, room).rooms = (view.rooms \ {view.board}) \cup {room}
      /\ MoveTo(view, room).board = room
  BY DEF MoveTo, Socket
<1>3. BoardsOf((view.rooms \ {view.board}) \cup {room}) = {room}
  BY <1>1 DEF OneBoard, BoardsOf
<1> QED BY <1>1, <1>2, <1>3 DEF OneBoard, room

LEMMA SocketView ==
  ASSUME TypeInv, NEW r \in Requests, Join(r)
  PROVE  /\ req[r].socket \in DOMAIN Sockets
         /\ sockets' = [sockets EXCEPT ![req[r].socket] =
              MoveTo(sockets[req[r].socket], boardRoom(req[r].workspace))]
BY JoinFacts DEF Join, At

LEMMA OneBoardSteps ==
  ASSUME TypeInv, OneBoardPerSocket, NEW s \in DOMAIN Sockets, SocketStep(s)
  PROVE  OneBoardPerSocket'
<1>1. sockets \in [DOMAIN Sockets -> Socket] /\ OneBoard(sockets[s]) /\ sockets[s] \in Socket
  BY TaskFacts DEF OneBoardPerSocket, OneBoard, BoardsOf
<1>2. ASSUME NEW view, OneBoard(view), sockets' = [sockets EXCEPT ![s] = view]
      PROVE  OneBoardPerSocket'
  <2>1. \A c \in DOMAIN Sockets : sockets'[c] = IF c = s THEN view ELSE sockets[c]
    BY <1>1, <1>2
  <2>2. DOMAIN sockets' = DOMAIN Sockets /\ DOMAIN sockets = DOMAIN Sockets
    BY <1>1, <1>2
  <2> QED BY <1>2, <2>1, <2>2 DEF OneBoardPerSocket, OneBoard, BoardsOf
<1>3. ASSUME NEW R, BoardsOf(R) = BoardsOf(sockets[s].rooms),
             sockets' = [sockets EXCEPT ![s].rooms = R]
      PROVE  OneBoardPerSocket'
  <2> DEFINE view == [sockets[s] EXCEPT !.rooms = R]
  <2>1. view.rooms = R /\ view.board = sockets[s].board
    BY <1>1 DEF Socket
  <2>2. OneBoard(view)
    BY <1>1, <1>3, <2>1 DEF OneBoard
  <2>3. sockets' = [sockets EXCEPT ![s] = view]
    BY <1>3
  <2> HIDE DEF view
  <2> QED BY <1>2, <2>2, <2>3
<1>4. ASSUME NEW w \in DOMAIN workspaces, Unsubscribe(s, w) PROVE OneBoardPerSocket'
  <2> DEFINE room == boardRoom(w)
             R == sockets[s].rooms \ {room}
             b == IF sockets[s].board = room THEN NoRoom ELSE sockets[s].board
             view == [sockets[s] EXCEPT !.rooms = R, !.board = b]
  <2>1. view.rooms = R /\ view.board = b
    BY <1>1 DEF Socket
  <2>2. room # NoRoom
    BY BoardFacts
  <2>3. OneBoard(view)
    <3> HIDE DEF view, room
    <3> QED BY <1>1, <2>1, <2>2 DEF OneBoard, BoardsOf
  <2>4. sockets' = [sockets EXCEPT ![s] = view]
    BY <1>4 DEF Unsubscribe
  <2> HIDE DEF view
  <2> QED BY <1>2, <2>3, <2>4
<1>5. CASE SubscribeMyTasks(s) \/ UnsubscribeMyTasks(s) \/ Connect(s)
  <2> DEFINE m == myTasksRoom(Sockets[s])
             C == RoomsOfUser(Sockets[s])
  <2>1. /\ m[1] # "board" /\ \A c \in C : c[1] # "board"
    BY BoardFacts DEF RoomsOfUser
  <2>2. PICK R \in {sockets[s].rooms \cup {m}, sockets[s].rooms \ {m}, sockets[s].rooms \cup C} :
          sockets' = [sockets EXCEPT ![s].rooms = R]
    BY <1>5 DEF SubscribeMyTasks, UnsubscribeMyTasks, Connect, SetRooms
  <2> HIDE DEF m, C
  <2>3. BoardsOf(R) = BoardsOf(sockets[s].rooms)
    BY <2>1 DEF BoardsOf
  <2> QED BY <1>3, <2>2, <2>3
<1>6. CASE Disconnect(s)
  <2>1. OneBoard([rooms |-> {}, board |-> NoRoom])
    BY DEF OneBoard, BoardsOf
  <2> QED BY <1>2, <1>6, <2>1 DEF Disconnect
<1> QED BY <1>4, <1>5, <1>6 DEF SocketStep

LEMMA OneBoardStep ==
  ASSUME TypeInv, OneBoardPerSocket, [Next]_workVars PROVE OneBoardPerSocket'
<1>1. ASSUME NEW r \in Requests, Join(r) PROVE OneBoardPerSocket'
  <2> DEFINE s == req[r].socket
             view == MoveTo(sockets[s], boardRoom(req[r].workspace))
  <2>1. s \in DOMAIN Sockets /\ sockets' = [sockets EXCEPT ![s] = view]
    BY <1>1, SocketView
  <2>2. sockets \in [DOMAIN Sockets -> Socket] /\ OneBoard(sockets[s])
    BY <2>1, TaskFacts DEF OneBoardPerSocket, OneBoard, BoardsOf
  <2>3. OneBoard(view)
    BY <2>1, <2>2, OneBoardMoves
  <2> HIDE DEF s, view
  <2>4. DOMAIN sockets' = DOMAIN sockets /\ sockets'[s] = view
        /\ \A c \in DOMAIN sockets \ {s} : sockets'[c] = sockets[c]
    BY <2>1, <2>2
  <2> QED BY <2>3, <2>4 DEF OneBoardPerSocket, OneBoard, BoardsOf
<1>2. CASE sockets' = sockets
  BY <1>2 DEF OneBoardPerSocket
<1>3. Kinds
  BY StepKinds
<1>4. \/ sockets' = sockets \/ \E r \in Requests : Join(r)
      \/ \E s \in DOMAIN Sockets : SocketStep(s)
  BY <1>3, ArrivalIsPure, FileStepLeaves, TaskStepLeaves, ChatStepLeaves, OthersLeave,
     AtOnceLeaves DEF Kinds, ChangeSubscription, Pure, roomVars, workVars
<1> QED BY <1>1, <1>2, <1>4, OneBoardSteps

\* A socket hears one board only, the one it subscribed to last.
THEOREM SocketHearsOneBoard == Spec => []OneBoardPerSocket
<1>1. WorkInit => TypeInv /\ OneBoardPerSocket
  BY TypesInit DEF WorkInit, OneBoardPerSocket
<1>2. TypeInv /\ OneBoardPerSocket /\ [Next]_workVars => TypeInv' /\ OneBoardPerSocket'
  BY TypesStep, OneBoardStep
<1> QED BY <1>1, <1>2, PTL DEF Spec

-----------------------------------------------------------------------------
(* Notifications: whoever is in a room of notifications is one that it is for. *)

RightRooms(s, rooms) ==
  /\ \A u \in Users : userRoom(u) \in rooms => u = Sockets[s]
  /\ adminRoom \in rooms => Role[Sockets[s]] = "admin"

RoomInv == \A s \in DOMAIN Sockets : RightRooms(s, sockets[s].rooms)

PushInv == RoomInv /\ PushMatchesList

LEMMA RoomKinds ==
  /\ \A u, v \in Nat : userRoom(u) = userRoom(v) => u = v
  /\ \A u, n \in Nat : /\ userRoom(u) # boardRoom(n) /\ userRoom(u) # myTasksRoom(n)
                       /\ userRoom(u) # adminRoom /\ adminRoom # boardRoom(n)
                       /\ adminRoom # myTasksRoom(n)
BY DEF userRoom, boardRoom, myTasksRoom, adminRoom

LEMMA RightMoves ==
  ASSUME TypeInv, NEW s \in DOMAIN Sockets, NEW rooms, RightRooms(s, rooms)
  PROVE  /\ \A room : RightRooms(s, rooms \ {room})
         /\ \A n \in Nat : RightRooms(s, rooms \cup {boardRoom(n)})
         /\ \A n \in Nat : RightRooms(s, rooms \cup {myTasksRoom(n)})
         /\ RightRooms(s, rooms \cup RoomsOfUser(Sockets[s]))
         /\ RightRooms(s, {})
<1>1. \A u \in Users : u \in Nat
  BY RoleAssumption
<1>2. Sockets[s] \in Nat
  BY RoleAssumption
<1> QED BY <1>1, <1>2, RoomKinds DEF RightRooms, RoomsOfUser

LEMMA RoomStep == ASSUME TypeInv, RoomInv, [Next]_workVars PROVE RoomInv'
<1>1. ASSUME NEW s \in DOMAIN Sockets, NEW view, RightRooms(s, view.rooms),
             sockets' = [sockets EXCEPT ![s] = view]
      PROVE  RoomInv'
  <2>1. \A c \in DOMAIN Sockets : sockets'[c] = IF c = s THEN view ELSE sockets[c]
    BY <1>1, TaskFacts
  <2> QED BY <1>1, <2>1 DEF RoomInv, RightRooms
<1>2. ASSUME NEW r \in Requests, Join(r) PROVE RoomInv'
  <2> DEFINE s == req[r].socket
             w == req[r].workspace
             view == MoveTo(sockets[s], boardRoom(w))
  <2>1. s \in DOMAIN Sockets /\ sockets' = [sockets EXCEPT ![s] = view]
    BY <1>2, SocketView
  <2>2. sockets[s] \in Socket /\ w \in Nat
    BY <1>2, <2>1, JoinFacts, SocketFacts DEF Join, At
  <2>3. view.rooms = (sockets[s].rooms \ {sockets[s].board}) \cup {boardRoom(w)}
    BY <2>2 DEF MoveTo, Socket
  <2>4. RightRooms(s, view.rooms)
    <3> DEFINE S == sockets[s].rooms \ {sockets[s].board}
    <3>1. RightRooms(s, S)
      BY <2>1, RightMoves DEF RoomInv
    <3>2. view.rooms = S \cup {boardRoom(w)}
      BY <2>3
    <3> HIDE DEF view, s, w, S
    <3>3. RightRooms(s, S \cup {boardRoom(w)})
      BY <2>1, <2>2, <3>1, RightMoves
    <3> QED BY <3>2, <3>3
  <2> HIDE DEF s, view
  <2> QED BY <1>1, <2>1, <2>4
<1>3. ASSUME NEW s \in DOMAIN Sockets, SocketStep(s) PROVE RoomInv'
  <2> DEFINE R == sockets[s].rooms
  <2>1. sockets[s] \in Socket /\ RightRooms(s, R) /\ Sockets[s] \in Nat
    BY SocketFacts DEF RoomInv
  <2>2. ASSUME NEW S, RightRooms(s, S), sockets' = [sockets EXCEPT ![s].rooms = S] PROVE RoomInv'
    <3> DEFINE view == [sockets[s] EXCEPT !.rooms = S]
    <3>1. view.rooms = S /\ sockets' = [sockets EXCEPT ![s] = view]
      BY <2>1, <2>2 DEF Socket
    <3> HIDE DEF view
    <3> QED BY <1>1, <2>2, <3>1
  <2>3. ASSUME NEW w \in DOMAIN workspaces, Unsubscribe(s, w) PROVE RoomInv'
    <3> DEFINE S == R \ {boardRoom(w)}
               b == IF sockets[s].board = boardRoom(w) THEN NoRoom ELSE sockets[s].board
               view == [sockets[s] EXCEPT !.rooms = S, !.board = b]
    <3>1. view.rooms = S /\ sockets' = [sockets EXCEPT ![s] = view]
      BY <2>1, <2>3 DEF Socket, Unsubscribe
    <3>2. RightRooms(s, S)
      BY <2>1, RightMoves
    <3> HIDE DEF view, S
    <3> QED BY <1>1, <3>1, <3>2
  <2>4. CASE SubscribeMyTasks(s)
    BY <2>1, <2>2, <2>4, RightMoves DEF SubscribeMyTasks, SetRooms
  <2>5. CASE UnsubscribeMyTasks(s)
    BY <2>1, <2>2, <2>5, RightMoves DEF UnsubscribeMyTasks, SetRooms
  <2>6. CASE Connect(s)
    BY <2>1, <2>2, <2>6, RightMoves DEF Connect, SetRooms
  <2>7. CASE Disconnect(s)
    <3>1. RightRooms(s, [rooms |-> {}, board |-> NoRoom].rooms)
      BY <2>1, RightMoves
    <3> QED BY <1>1, <2>7, <3>1 DEF Disconnect
  <2> QED BY <1>3, <2>3, <2>4, <2>5, <2>6, <2>7 DEF SocketStep
<1>4. CASE sockets' = sockets
  BY <1>4 DEF RoomInv
<1>5. Kinds
  BY StepKinds
<1>6. \/ sockets' = sockets \/ \E r \in Requests : Join(r)
      \/ \E s \in DOMAIN Sockets : SocketStep(s)
  BY <1>5, ArrivalIsPure, FileStepLeaves, TaskStepLeaves, ChatStepLeaves, OthersLeave,
     AtOnceLeaves DEF Kinds, ChangeSubscription, Pure, roomVars, workVars
<1> QED BY <1>2, <1>3, <1>4, <1>6

\* A notification is shown to those whom it is pushed to.
ShownTo(notice) ==
  \A u \in notice.pushed : InAudience(u, notice.to) \/ (~isTenantMember(u) /\ notice.to = u)

LEMMA ShownMeans ==
  PushMatchesList <=> \A n \in DOMAIN notices : ShownTo(notices[n])
BY DEF PushMatchesList, ShownTo, findRecentForAudience

LEMMA PushShown ==
  ASSUME TypeInv, RoomInv, NEW to \in Users \cup {Nobody}, NEW task
  PROVE  ShownTo([to |-> to, task |-> task, read |-> FALSE, pushed |-> Pushed(to)])
<1>1. ASSUME NEW s \in DOMAIN Sockets, RoomFor(to) \in sockets[s].rooms
      PROVE  \/ InAudience(Sockets[s], to)
             \/ ~isTenantMember(Sockets[s]) /\ to = Sockets[s]
  <2>1. RightRooms(s, sockets[s].rooms)
    BY DEF RoomInv
  <2>2. CASE to = Nobody
    BY <1>1, <2>1, <2>2 DEF RoomFor, RightRooms, InAudience, isTenantMember
  <2>3. CASE to # Nobody
    BY <1>1, <2>1, <2>3 DEF RoomFor, RightRooms, InAudience
  <2> QED BY <2>2, <2>3
<1> QED BY <1>1 DEF ShownTo, Pushed

\* What a step makes of the notifications.
NoticesGrow ==
  /\ DOMAIN notices \subseteq DOMAIN notices'
  /\ \A n \in DOMAIN notices : /\ notices'[n].to = notices[n].to
                               /\ notices'[n].task = notices[n].task
                               /\ notices'[n].pushed = notices[n].pushed
  /\ \A n \in DOMAIN notices' \ DOMAIN notices :
       \E to \in Users \cup {Nobody}, task \in Nat :
          notices'[n] = [to |-> to, task |-> task, read |-> FALSE, pushed |-> Pushed(to)]

LEMMA NoticeStepGrows ==
  ASSUME TypeInv, NEW to \in Users \cup {Nobody}, NEW task \in Nat, notifyTenant(to, task)
  PROVE  /\ NoticesGrow /\ DOMAIN notices' = 1 .. Len(notices) + 1
         /\ notices'[Len(notices) + 1].to = to /\ notices'[Len(notices) + 1].task = task
<1> DEFINE e == [to |-> to, task |-> task, read |-> FALSE, pushed |-> Pushed(to)]
<1>1. e \in Notice
  BY RoleAssumption DEF Notice, Pushed
<1>2. notices' = Append(notices, e)
  BY DEF notifyTenant
<1>3. e.to = to /\ e.task = task
  OBVIOUS
<1>4. e = [to |-> to, task |-> task, read |-> FALSE, pushed |-> Pushed(to)]
  OBVIOUS
<1> HIDE DEF e
<1>5. notices \in Seq(Notice) /\ Len(notices) \in Nat /\ DOMAIN notices = 1 .. Len(notices)
  BY TaskFacts, RowFacts
<1>6. /\ DOMAIN notices' = 1 .. Len(notices) + 1 /\ Len(notices') = Len(notices) + 1
      /\ \A n \in DOMAIN notices : notices'[n] = notices[n]
      /\ notices'[Len(notices) + 1] = e
  BY <1>1, <1>2, <1>5, SeqAdd
<1>7. \A n \in DOMAIN notices' \ DOMAIN notices : n = Len(notices) + 1
  BY <1>5, <1>6
<1>8. NoticesGrow
  BY <1>4, <1>5, <1>6, <1>7 DEF NoticesGrow
<1> QED BY <1>3, <1>6, <1>8

LEMMA NoticesRead ==
  ASSUME TypeInv, NEW u, MarkAllInAppRead(u) \/ \E n \in DOMAIN notices : MarkInAppRead(u, n)
  PROVE  NoticesGrow
<1>1. \A n \in DOMAIN notices : notices[n] \in Notice
  BY RowFacts
<1>2. CASE MarkAllInAppRead(u)
  <2>1. /\ DOMAIN notices' = DOMAIN notices
        /\ \A n \in DOMAIN notices :
             notices'[n] = IF n \in findRecentForAudience(u) THEN [notices[n] EXCEPT !.read = TRUE]
                           ELSE notices[n]
    BY <1>2 DEF MarkAllInAppRead
  <2>2. \A n \in DOMAIN notices : /\ notices'[n].to = notices[n].to
                                  /\ notices'[n].task = notices[n].task
                                  /\ notices'[n].pushed = notices[n].pushed
    BY <1>1, <2>1 DEF Notice
  <2> QED BY <2>1, <2>2 DEF NoticesGrow
<1>3. ASSUME NEW m \in DOMAIN notices, MarkInAppRead(u, m) PROVE NoticesGrow
  <2>1. notices' = [notices EXCEPT ![m].read = TRUE]
    BY <1>3 DEF MarkInAppRead
  <2>2. DOMAIN notices' = DOMAIN notices
    BY <2>1
  <2>3. \A n \in DOMAIN notices : /\ notices'[n].to = notices[n].to
                                  /\ notices'[n].task = notices[n].task
                                  /\ notices'[n].pushed = notices[n].pushed
    BY <1>1, <2>1 DEF Notice
  <2> QED BY <2>2, <2>3 DEF NoticesGrow
<1> QED BY <1>2, <1>3

LEMMA NotifyGrows ==
  ASSUME TypeInv, NEW r \in Requests, NotifyAssignee(r), notices' # notices
  PROVE  /\ NoticesGrow /\ tasks' = tasks /\ Len(notices) + 1 \in DOMAIN notices'
         /\ notices'[Len(notices) + 1].to = req[r].tell
         /\ notices'[Len(notices) + 1].task = req[r].task
<1>1. notifyTenant(req[r].tell, req[r].task) /\ tasks' = tasks /\ req[r].pc = "notify"
  BY DEF NotifyAssignee, At
<1>2. Len(notices) + 1 \in 1 .. Len(notices) + 1
  BY RowFacts
<1> QED BY <1>1, <1>2, NotifyFacts, NoticeStepGrows

LEMMA NoticesGrowAlways == ASSUME TypeInv, [Next]_workVars PROVE NoticesGrow
<1>1. CASE notices' = notices
  BY <1>1 DEF NoticesGrow
<1>2. ASSUME NEW r \in Requests, NotifyAssignee(r) PROVE NoticesGrow
  BY <1>1, <1>2, NotifyGrows
<1>3. CASE NoticeStep
  <2>1. ASSUME NEW to \in Users \cup {Nobody}, NotifyOf(to) PROVE NoticesGrow
    BY <2>1, NoticeStepGrows DEF NotifyOf
  <2> QED BY <1>3, <2>1, NoticesRead DEF NoticeStep, NotifyOfBilling, NotifyOfRegistration
<1>4. Kinds
  BY StepKinds
<1>5. notices' = notices \/ NoticeStep \/ \E r \in Requests : NotifyAssignee(r)
  BY <1>4, ArrivalIsPure, FileStepLeaves, TaskStepLeaves, ChatStepLeaves, OthersLeave,
     AtOnceLeaves DEF Kinds, ChangeSubscription, Pure, workVars
<1> QED BY <1>1, <1>2, <1>3, <1>5

LEMMA PushStep == ASSUME TypeInv, PushInv, [Next]_workVars PROVE PushInv'
<1>1. RoomInv'
  BY RoomStep DEF PushInv
<1>2. \A n \in DOMAIN notices' : ShownTo(notices'[n])
  <2>1. \A n \in DOMAIN notices : ShownTo(notices'[n])
    BY ShownMeans, NoticesGrowAlways DEF PushInv, NoticesGrow, ShownTo
  <2>2. \A n \in DOMAIN notices' \ DOMAIN notices : ShownTo(notices'[n])
    BY NoticesGrowAlways, PushShown DEF PushInv, NoticesGrow
  <2> QED BY <2>1, <2>2
<1>3. PushMatchesList'
  BY <1>2 DEF PushMatchesList, ShownTo, findRecentForAudience
<1> QED BY <1>1, <1>3 DEF PushInv

\* Nobody is pushed a notification that its list does not show, however the sockets come
\* and go: an invariant of the rooms, RoomInv, tells whom a push can reach.
THEOREM PushesMatchLists == Spec => []PushMatchesList
<1>1. WorkInit => TypeInv /\ PushInv
  <2>1. ASSUME WorkInit PROVE RoomInv /\ PushMatchesList
    <3>1. RoomInv
      BY <2>1 DEF WorkInit, RoomInv, RightRooms
    <3>2. PushMatchesList
      BY <2>1 DEF WorkInit, PushMatchesList
    <3> QED BY <3>1, <3>2
  <2> QED BY <2>1, TypesInit DEF PushInv
<1>2. TypeInv /\ PushInv /\ [Next]_workVars => TypeInv' /\ PushInv'
  BY TypesStep, PushStep
<1>3. PushInv => PushMatchesList
  BY DEF PushInv
<1> QED BY <1>1, <1>2, <1>3, PTL DEF Spec

-----------------------------------------------------------------------------
(* Chats: which messages are the first ones of a session. *)

LEMMA CountedFromZero ==
  ASSUME NEW n \in Nat PROVE IsFiniteSet(0 .. n - 1) /\ Cardinality(0 .. n - 1) = n
<1> DEFINE b == n - 1
<1>1. b \in Int /\ 0 \in Int /\ (IF 0 > b THEN 0 ELSE b - 0 + 1) = n
  OBVIOUS
<1> HIDE DEF b
<1>2. IsFiniteSet(0 .. b) /\ Cardinality(0 .. b) = n
  BY <1>1, FS_Interval
<1> QED BY <1>2 DEF b

LEMMA RankGrows ==
  ASSUME NEW S \in SUBSET Nat, IsFiniteSet(S), NEW m \in S, NEW n \in S, n < m
  PROVE  Cardinality({x \in S : x < n}) < Cardinality({x \in S : x < m})
<1> DEFINE A == {x \in S : x < n}
           B == {x \in S : x < m}
<1>1. IsFiniteSet(A) /\ IsFiniteSet(B)
  BY FS_Subset
<1>2. n \notin A /\ A \cup {n} \subseteq B
  <2>1. \A x \in S : x \in Int
    OBVIOUS
  <2>2. ASSUME NEW x \in S, x < n PROVE x < m
    BY <2>1, <2>2
  <2>3. ~(n < n)
    BY <2>1
  <2> QED BY <2>2, <2>3
<1> HIDE DEF A, B
<1>3. Cardinality(A \cup {n}) = Cardinality(A) + 1
  BY <1>1, <1>2, FS_AddElement
<1>4. Cardinality(A \cup {n}) <= Cardinality(B)
  BY <1>1, <1>2, FS_Subset
<1>5. Cardinality(A) \in Nat /\ Cardinality(B) \in Nat
  BY <1>1, FS_CardinalityType
<1>6. Cardinality(A) < Cardinality(B)
  BY <1>3, <1>4, <1>5
<1> QED BY <1>6 DEF A, B

\* Of a finite set of numbers as many are among the first c as can be: c, if there is one
\* that is not.
LEMMA FirstOnes ==
  ASSUME NEW S \in SUBSET Nat, IsFiniteSet(S), NEW c \in Nat \ {0}, NEW q \in S,
         Cardinality({x \in S : x < q}) >= c
  PROVE  Cardinality({m \in S : Cardinality({x \in S : x < m}) < c}) = c
<1> DEFINE rank == [m \in S |-> Cardinality({x \in S : x < m})]
           s == Cardinality(S)
           L == {m \in S : rank[m] < c}
           first == [m \in L |-> rank[m]]
<1>1. s \in Nat /\ \A m \in S : rank[m] \in Nat /\ rank[m] < s
  <2>1. ASSUME NEW m \in S PROVE rank[m] \in Nat /\ rank[m] < s
    <3> DEFINE A == {x \in S : x < m}
    <3>1. IsFiniteSet(S \ {m}) /\ Cardinality(S \ {m}) = s - 1
      BY FS_RemoveElement
    <3>2. A \in SUBSET (S \ {m})
      OBVIOUS
    <3>3. rank[m] = Cardinality(A)
      OBVIOUS
    <3> HIDE DEF A, rank
    <3>4. IsFiniteSet(A) /\ Cardinality(A) <= s - 1
      BY <3>1, <3>2, FS_Subset
    <3>5. Cardinality(A) \in Nat /\ s \in Nat
      BY <3>4, FS_CardinalityType
    <3> QED BY <3>3, <3>4, <3>5
  <2> HIDE DEF rank
  <2> QED BY <2>1, FS_CardinalityType
<1>2. \A m, n \in S : n < m => rank[n] < rank[m]
  BY RankGrows
<1>3. \A m, n \in S : rank[m] = rank[n] => m = n
  <2> HIDE DEF rank
  <2>1. ASSUME NEW m \in S, NEW n \in S, rank[m] = rank[n] PROVE m = n
    <3>1. m \in Nat /\ n \in Nat /\ rank[m] \in Nat /\ rank[n] \in Nat
      BY <1>1
    <3>2. ~(n < m) /\ ~(m < n)
      BY <1>2, <2>1, <3>1
    <3> QED BY <3>1, <3>2
  <2> QED BY <2>1
<1>4. rank[q] >= c /\ DOMAIN rank = S /\ rank = [m \in S |-> rank[m]]
  OBVIOUS
<1> HIDE DEF rank
<1>5. rank \in Surjection(S, 0 .. s - 1)
  <2>1. rank \in [S -> 0 .. s - 1]
    BY <1>1, <1>4
  <2>2. rank \in Injection(S, 0 .. s - 1)
    BY <1>3, <1>4, <2>1 DEF Injection, IsInjective
  <2>3. IsFiniteSet(0 .. s - 1) /\ Cardinality(0 .. s - 1) = s
    BY <1>1, CountedFromZero
  <2> HIDE DEF s
  <2> QED BY <2>2, <2>3, FS_Injection DEF s
<1>6. first \in [L -> 0 .. c - 1]
  <2>1. \A m \in L : rank[m] \in 0 .. c - 1
    <3>1. \A m \in L : rank[m] \in Nat /\ rank[m] < c
      BY <1>1
    <3> HIDE DEF L
    <3> QED BY <3>1
  <2> HIDE DEF L
  <2> QED BY <2>1
<1>7. first \in Surjection(L, 0 .. c - 1)
  <2>1. first \in [L -> 0 .. c - 1]
    BY <1>6
  <2>2. ASSUME NEW k \in 0 .. c - 1 PROVE \E m \in L : first[m] = k
    <3>1. rank[q] \in Nat /\ rank[q] < s /\ rank[q] >= c /\ s \in Nat
      BY <1>1, <1>4
    <3> HIDE DEF s, first, L
    <3>2. k \in 0 .. s - 1 /\ k < c
      BY <3>1
    <3>3. PICK m \in S : rank[m] = k
      BY <1>5, <3>2 DEF Surjection
    <3>4. m \in L /\ first[m] = rank[m]
      BY <3>2, <3>3 DEF L, first
    <3> QED BY <3>3, <3>4
  <2> HIDE DEF first, L
  <2> QED BY <2>1, <2>2 DEF Surjection
<1>8. first \in Injection(L, 0 .. c - 1)
  <2>1. first \in [L -> 0 .. c - 1]
    BY <1>6
  <2>2. \A m, n \in L : first[m] = first[n] => m = n
    BY <1>3
  <2>3. DOMAIN first = L
    OBVIOUS
  <2> HIDE DEF first, L
  <2> QED BY <2>1, <2>2, <2>3 DEF Injection, IsInjective
<1>9. IsFiniteSet(0 .. c - 1) /\ Cardinality(0 .. c - 1) = c
  BY FS_Interval
<1>10. Cardinality(L) = c
  <2> HIDE DEF first, L
  <2> QED BY <1>7, <1>8, <1>9, FS_Injection
<1>11. L = {m \in S : Cardinality({x \in S : x < m}) < c}
  BY DEF rank
<1> HIDE DEF L
<1> QED BY <1>10, <1>11

\* Where the question of a request is.
ChatInv ==
  \A r \in Requests :
     req[r].pc \in ChatPcs => messages[req[r].question].session = req[r].session

HistoryInv == ChatInv /\ HistoryHasQuestion

\* What a step makes of the messages.
MessagesGrow ==
  /\ DOMAIN messages \subseteq DOMAIN messages'
  /\ \A m \in DOMAIN messages : /\ messages'[m].session = messages[m].session
                                /\ messages'[m].stored => messages[m].stored

LEMMA MessagesSteps ==
  ASSUME TypeInv, NEW r \in Requests, ChatStep(r) PROVE MessagesGrow
<1>1. \A m \in DOMAIN messages : messages[m] \in Message
  BY RowFacts
<1>2. DOMAIN messages = 1 .. Len(messages) /\ Len(messages) \in Nat /\ messages \in Seq(Message)
  BY RowFacts, TaskFacts
<1>3. CASE messages' = messages
  BY <1>3 DEF MessagesGrow
<1>4. CASE DeleteMessages(r)
  <2> DEFINE S == MessagesOf(req[r].session)
  <2>1. /\ DOMAIN messages' = DOMAIN messages
        /\ \A m \in DOMAIN messages :
             messages'[m] = IF m \in S THEN [messages[m] EXCEPT !.stored = FALSE] ELSE messages[m]
    BY <1>4 DEF DeleteMessages, deleteBySessionForTenant
  <2> HIDE DEF S
  <2> QED BY <1>1, <2>1 DEF MessagesGrow, Message
<1>5. ASSUME NEW role \in {"user", "assistant"}, messages' = Stored(req[r].session, role),
             req[r].op = "sendMessage"
      PROVE  MessagesGrow
  <2>1. req[r].session \in Nat
    BY <1>5, SessionFacts
  <2>2. \A m \in DOMAIN messages : messages'[m] = messages[m]
    BY <1>5, <2>1, MessageStored
  <2>3. Len(messages') = Len(messages) + 1 /\ messages' \in Seq(Message)
    BY <1>5, <2>1, MessageStored
  <2>4. DOMAIN messages' = 1 .. Len(messages) + 1
    BY <2>3, LenProperties
  <2> QED BY <1>2, <2>2, <2>4 DEF MessagesGrow
<1>6. CASE StoreQuestion(r)
  BY <1>5, <1>6, ChatFacts DEF StoreQuestion, At
<1>7. CASE StoreAnswer(r)
  BY <1>5, <1>7, ChatFacts DEF StoreAnswer, At, ChatPcs
<1> QED BY <1>3, <1>4, <1>6, <1>7 DEF ChatStep, deleteForTenantUser, FindSession, TitleByContent,
        ListHistory, Complete, chatVars

LEMMA MessagesGrowAlways == ASSUME TypeInv, [Next]_workVars PROVE MessagesGrow
<1>1. CASE messages' = messages
  BY <1>1 DEF MessagesGrow
<1>2. Kinds
  BY StepKinds
<1>3. messages' = messages \/ \E r \in Requests : ChatStep(r)
  BY <1>2, ArrivalIsPure, FileStepLeaves, TaskStepLeaves, OthersLeave, AtOnceLeaves
     DEF Kinds, ChangeSubscription, Pure, chatVars, workVars
<1> QED BY <1>1, <1>3, MessagesSteps

\* What the requests on chats know, of the rows before a step and after it.
ChatHeld(q, rows) ==
  /\ q.pc \in ChatPcs => rows[q.question].session = q.session
  /\ q.pc = "complete" /\ rows[q.question].stored =>
       q.question \in q.history \/ Cardinality(q.history) = HistoryCap

LEMMA ChatHeldMeans ==
  /\ HistoryInv <=> \A r \in Requests : ChatHeld(req[r], messages)
  /\ HistoryInv' <=> \A r \in Requests : ChatHeld(req'[r], messages')
BY DEF HistoryInv, ChatInv, HistoryHasQuestion, ChatHeld, ChatPcs, At

LEMMA ChatHeldLater ==
  ASSUME TypeInv, MessagesGrow, NEW r \in Requests, ChatHeld(req[r], messages)
  PROVE  ChatHeld(req[r], messages')
<1>1. req[r].pc \in ChatPcs => req[r].question \in DOMAIN messages
  BY ReqFacts, RowFacts DEF RequestFits, NamesFit, Lengths
<1> QED BY <1>1 DEF ChatHeld, MessagesGrow, ChatPcs

LEMMA ListHolds ==
  ASSUME TypeInv, NEW r \in Requests, ListHistory(r), ChatHeld(req[r], messages)
  PROVE  ChatHeld(req'[r], messages)
<1> DEFINE s == req[r].session
           q == req[r].question
           S == MessagesOf(s)
<1>1. /\ req'[r].pc = "complete" /\ req'[r].question = q /\ req'[r].session = s
      /\ req'[r].history = listBySessionForTenant(s)
  BY ReqFacts DEF ListHistory, Request
<1>2. req[r].pc = "history" /\ messages[q].session = s /\ q \in DOMAIN messages
  BY ReqFacts, RowFacts DEF ListHistory, At, ChatHeld, ChatPcs, RequestFits, NamesFit, Lengths
<1>3. ASSUME messages[q].stored
      PROVE  \/ q \in listBySessionForTenant(s)
             \/ Cardinality(listBySessionForTenant(s)) = HistoryCap
  <2>1. q \in S
    BY <1>2, <1>3 DEF MessagesOf
  <2>2. IsFiniteSet(S) /\ S \in SUBSET Nat
    <3>1. IsFiniteSet(1 .. Len(messages)) /\ S \subseteq 1 .. Len(messages)
      BY RowFacts, FS_Interval DEF MessagesOf
    <3> QED BY <3>1, FS_Subset
  <2> HIDE DEF S, q, s
  <2>3. CASE Cardinality({n \in S : n < q}) < HistoryCap
    BY <2>1, <2>3 DEF listBySessionForTenant, S
  <2>4. CASE ~(Cardinality({n \in S : n < q}) < HistoryCap)
    <3>1. Cardinality({n \in S : n < q}) \in Nat
      <4>1. {n \in S : n < q} \in SUBSET S
        OBVIOUS
      <4> QED BY <2>2, <4>1, FS_Subset, FS_CardinalityType
    <3>2. Cardinality({n \in S : n < q}) >= HistoryCap /\ HistoryCap \in Nat \ {0}
      BY <2>4, <3>1, WorkBoundsAssumption
    <3>3. Cardinality({m \in S : Cardinality({n \in S : n < m}) < HistoryCap}) = HistoryCap
      BY <2>1, <2>2, <3>2, FirstOnes
    <3> QED BY <3>3 DEF listBySessionForTenant, S
  <2> QED BY <2>3, <2>4
<1> QED BY <1>1, <1>2, <1>3 DEF ChatHeld

\* A request that is not at a chat after a step knows nothing.
LEMMA NoChatHeld == ASSUME NEW q, q.pc \notin ChatPcs, NEW rows PROVE ChatHeld(q, rows)
BY DEF ChatHeld, ChatPcs

LEMMA ChatStepHolds ==
  ASSUME TypeInv, NEW r \in Requests, ChatStep(r), ChatHeld(req[r], messages)
  PROVE  ChatHeld(req'[r], messages')
<1>1. req[r] \in Request /\ req \in [Requests -> Request] /\ MessagesGrow
  BY ReqFacts, MessagesSteps
<1>2. CASE Finish(r)
  BY <1>1, <1>2, NoChatHeld DEF Finish, IdleRequest, ChatPcs
<1>3. CASE DeleteMessages(r)
  BY <1>1, <1>3, NoChatHeld DEF DeleteMessages, Goto, ChatPcs, Request
<1>4. CASE FindSession(r) /\ ~Finish(r)
  BY <1>1, <1>4, NoChatHeld DEF FindSession, ChatPcs, Request
<1>5. CASE StoreQuestion(r)
  <2>1. req[r].session \in Nat
    BY <1>5, ChatFacts, SessionFacts DEF StoreQuestion, At
  <2>2. messages'[Len(messages) + 1].session = req[r].session
    <3>1. messages' = Stored(req[r].session, "user")
      BY <1>5 DEF StoreQuestion
    <3>2. messages'[Len(messages) + 1]
            = [session |-> req[r].session, role |-> "user", stored |-> TRUE]
      BY <2>1, <3>1, MessageStored
    <3> QED BY <3>2
  <2>3. /\ req'[r].pc \in {"title", "history"} /\ req'[r].question = Len(messages) + 1
        /\ req'[r].session = req[r].session
    BY <1>1, <1>5 DEF StoreQuestion, Request
  <2> QED BY <2>2, <2>3 DEF ChatHeld
<1>6. CASE TitleByContent(r)
  <2>1. /\ req'[r].pc = "history" /\ req'[r].question = req[r].question
        /\ req'[r].session = req[r].session /\ req[r].pc = "title" /\ messages' = messages
    BY <1>1, <1>6 DEF TitleByContent, Goto, At, Request
  <2> QED BY <2>1 DEF ChatHeld, ChatPcs
<1>7. CASE ListHistory(r)
  BY <1>7, ListHolds DEF ListHistory, chatVars
<1>8. CASE Complete(r) /\ ~Finish(r)
  <2>1. /\ req'[r].pc \in {"answer", "complete"} /\ req'[r].question = req[r].question
        /\ req'[r].session = req[r].session /\ req[r].pc = "complete" /\ messages' = messages
        /\ req'[r].history = req[r].history
    BY <1>1, <1>8 DEF Complete, Goto, At, Request, chatVars
  <2> QED BY <2>1 DEF ChatHeld, ChatPcs
<1> QED BY <1>2, <1>3, <1>4, <1>5, <1>6, <1>7, <1>8 DEF ChatStep, deleteForTenantUser, StoreAnswer

\* Only a chat comes to the points of a chat.
LEMMA OtherPcs ==
  ASSUME TypeInv, NEW r \in Requests,
         FileStep(r) \/ TaskStep(r) \/ Join(r) \/ NotifyAssignee(r) \/ Crash(r)
  PROVE  req'[r].pc \notin ChatPcs
<1>1. req \in [Requests -> Request] /\ req[r] \in Request
  BY ReqFacts
<1>2. Finish(r) => req'[r].pc \notin ChatPcs
  BY <1>1 DEF Finish, IdleRequest, ChatPcs
<1>3. \A pc \in Pcs \ ChatPcs : Goto(r, pc) => req'[r].pc \notin ChatPcs
  BY <1>1 DEF Goto, Request
<1>4. CASE Sweep(r) \/ SweepDestroy(r) \/ SweepUnlist(r)
  <2>1. req[r].pc \in {"sweep", "destroy"} => req[r].next \in Pcs \ ChatPcs
    BY ReqFacts DEF RequestFits, NextFits, Sweeping, ChatPcs, Pcs
  <2>2. "destroy" \in Pcs \ ChatPcs
    BY DEF Pcs, ChatPcs
  <2>3. req[r].pc \in {"sweep", "destroy"} /\ Onward(r) => req'[r].pc \notin ChatPcs
    BY <1>2, <1>3, <2>1 DEF Onward
  <2>4. CASE Sweep(r)
    BY <1>1, <2>3, <2>4 DEF Sweep, At, Request, ChatPcs
  <2>5. CASE SweepDestroy(r)
    <3>1. CASE req[r].batch = {} /\ Onward(r)
      BY <2>3, <2>5, <3>1 DEF SweepDestroy, At
    <3>2. CASE \E d \in req[r].batch :
                 req' = [req EXCEPT ![r].pc = "unlist", ![r].doc = d, ![r].batch = @ \ {d}]
      BY <1>1, <3>2 DEF Request, ChatPcs
    <3>3. CASE \E d \in req[r].batch : req' = [req EXCEPT ![r].batch = @ \ {d}]
      BY ZenonT(60), <1>1, <2>5, <3>3 DEF SweepDestroy, At, Request, ChatPcs
    <3> QED BY <2>5, <3>1, <3>2, <3>3 DEF SweepDestroy
  <2> QED BY <1>3, <1>4, <2>2, <2>4, <2>5 DEF SweepUnlist
<1>5. CASE CountFiles(r) \/ Sign(r) \/ UploadBuffer(r) \/ FindExisting(r)
  BY <1>1, <1>2, <1>5 DEF CountFiles, Sign, UploadBuffer, FindExisting, Goto, Request, ChatPcs
<1>6. CASE SumFinalizedBytes(r) \/ CreateAsset(r)
  <2>1. CASE SumFinalizedBytes(r)
    BY <1>1, <2>1 DEF SumFinalizedBytes, Request, ChatPcs
  <2>2. CASE CreateAsset(r)
    <3>1. Finish(r) \/ req' = [req EXCEPT ![r].pc = "sweep", ![r].next = "find"]
      BY <2>2 DEF CreateAsset
    <3> QED BY <1>1, <1>2, <3>1 DEF Request, ChatPcs
  <2> QED BY <1>6, <2>1, <2>2
<1>7. req' = RollbackRenamed(r) => req'[r].pc \notin ChatPcs
  BY <1>1 DEF RollbackRenamed, Request, ChatPcs
<1>8. CASE FindTemporaryAssets(r) \/ Rollback(r)
  <2>1. CASE FindTemporaryAssets(r)
    <3>1. "commit" \in Pcs \ ChatPcs /\ "rename" \in Pcs \ ChatPcs
      BY DEF Pcs, ChatPcs
    <3>2. Finish(r) \/ Goto(r, "commit") \/ Goto(r, "rename")
      BY <2>1 DEF FindTemporaryAssets, Abort
    <3> QED BY <1>2, <1>3, <3>1, <3>2
  <2>2. CASE Rollback(r)
    <3>1. Finish(r) \/ \E d \in req[r].batch : req' = [req EXCEPT ![r].batch = @ \ {d}]
      BY <2>2 DEF Rollback, Abort
    <3> QED BY <1>1, <1>2, <2>2, <3>1 DEF Rollback, At, Request, ChatPcs
  <2> QED BY <1>8, <2>1, <2>2
<1>9. CASE RenameAsset(r)
  BY <1>1, <1>7, <1>9 DEF RenameAsset, RenameRefused, Request, ChatPcs
<1>10. CASE FinalizeRow(r)
  BY <1>1, <1>2, <1>7, <1>10 DEF FinalizeRow, FinalizeInTransaction, FinalizeAlone, Request, ChatPcs
<1>11. CASE DestroyAsset(r) \/ UnlistAsset(r)
  BY <1>1, <1>2, <1>11 DEF DestroyAsset, UnlistAsset, Goto, Request, ChatPcs
<1>12. CASE CountWorkspaces(r) \/ assertWithinWorkspaceLimit(r) \/ InsertWorkspace(r)
  <2>1. "insert" \in Pcs \ ChatPcs
    BY DEF Pcs, ChatPcs
  <2>2. CASE CountWorkspaces(r)
    BY <1>1, <2>2 DEF CountWorkspaces, Request, ChatPcs
  <2> QED BY <1>2, <1>3, <1>12, <2>1, <2>2 DEF assertWithinWorkspaceLimit, InsertWorkspace
<1>13. \A f \in [Requests -> Request] : \A S :
        req' = Spoilt(f, S) => req'[r].pc = f[r].pc
  BY DEF Spoilt, Request
<1>14. CASE Cascade(r)
  <2>1. [req EXCEPT ![r] = IdleRequest] \in [Requests -> Request]
    BY <1>1, IdleFits
  <2>2. [req EXCEPT ![r] = IdleRequest][r].pc = "idle"
    BY <1>1 DEF IdleRequest
  <2> QED BY <1>2, <1>13, <1>14, <2>1, <2>2 DEF Cascade, ChatPcs
<1>15. CASE DraftTask(r) \/ ReadTask(r) \/ FindTask(r) \/ Publish(r)
  <2>1. CASE DraftTask(r)
    BY <1>1, <2>1 DEF DraftTask, Request, ChatPcs
  <2>2. CASE ReadTask(r)
    BY <1>1, <1>2, <2>2 DEF ReadTask, Request, ChatPcs
  <2>3. CASE FindTask(r)
    BY <1>1, <1>2, <2>3 DEF FindTask, Request, ChatPcs
  <2> QED BY <1>2, <1>15, <2>1, <2>2, <2>3 DEF Publish
<1>16. CASE CommitCreate(r) \/ CommitUpdate(r)
  <2>1. ASSUME NEW told \in Users \cup {Nobody}, NEW was \in Users \cup {Nobody},
               NEW now \in Users \cup {Nobody}, Committed(r, told, was, now)
        PROVE  req'[r].pc \notin ChatPcs
    BY <1>16, <2>1, CommitKinds, CommitMoves DEF Moves, ChatPcs
  <2> QED BY <1>2, <1>16, <2>1, CommitKinds DEF CommitFails
<1>17. CASE softDeleteByIdAndWorkspace(r)
  <2>1. [req EXCEPT ![r].pc = "publish"] \in [Requests -> Request]
    BY <1>1, GoType DEF Pcs
  <2>2. [req EXCEPT ![r].pc = "publish"][r].pc = "publish"
    BY <1>1 DEF Request
  <2> QED BY <1>2, <1>13, <1>17, <2>1, <2>2 DEF softDeleteByIdAndWorkspace, ChatPcs
<1>18. CASE Join(r) \/ NotifyAssignee(r) \/ Crash(r)
  BY <1>1, <1>2, <1>18 DEF Join, NotifyAssignee, Crash, Goto, Request, ChatPcs
<1> QED BY <1>4, <1>5, <1>6, <1>8, <1>9, <1>10, <1>11, <1>12, <1>14, <1>15, <1>16, <1>17, <1>18
        DEF FileStep, TaskStep

LEMMA SpoiltChats == ASSUME TypeInv, NEW r \in Requests, SpoiltBy(r) PROVE req'[r].pc \notin ChatPcs
BY ReqFacts DEF SpoiltBy, Open, Request, ChatPcs

LEMMA HistoryStep == ASSUME TypeInv, HistoryInv, [Next]_workVars PROVE HistoryInv'
<1>1. MessagesGrow /\ Kinds /\ \A r \in Requests : ChatHeld(req[r], messages)
  BY MessagesGrowAlways, StepKinds, ChatHeldMeans
<1>2. ASSUME NEW r \in Requests, req'[r] = req[r] PROVE ChatHeld(req'[r], messages')
  BY <1>1, <1>2, ChatHeldLater
<1>3. ASSUME NEW r \in Requests, SpoiltBy(r) PROVE ChatHeld(req'[r], messages')
  BY <1>3, SpoiltChats, NoChatHeld
<1>4. ASSUME NEW r \in Requests, Elsewhere(r) \/ ElsewhereSpoilt(r),
             ChatHeld(req'[r], messages')
      PROVE  \A p \in Requests : ChatHeld(req'[p], messages')
  BY <1>2, <1>3, <1>4 DEF Elsewhere, ElsewhereSpoilt
<1>5. CASE req' = req
  BY <1>2, <1>5, ChatHeldMeans
<1>6. ASSUME NEW r \in Requests, Arrival(r) PROVE HistoryInv'
  BY <1>4, <1>6, ArrivalRequests, NoChatHeld, ChatHeldMeans DEF Begun, Starting
<1>7. ASSUME NEW r \in Requests, FileStep(r) \/ TaskStep(r) \/ Join(r) \/ NotifyAssignee(r) \/ Crash(r)
      PROVE  HistoryInv'
  <2>1. req'[r].pc \notin ChatPcs /\ ElsewhereSpoilt(r)
    BY <1>7, OtherPcs, StepElsewhere
  <2> QED BY <1>4, <2>1, NoChatHeld, ChatHeldMeans
<1>8. ASSUME NEW r \in Requests, ChatStep(r) PROVE HistoryInv'
  BY <1>1, <1>4, <1>8, ChatStepHolds, StepElsewhere, ChatHeldMeans
<1> QED BY <1>1, <1>5, <1>6, <1>7, <1>8, AtOnceLeaves, OthersLeave
        DEF Kinds, ChangeSubscription, workVars

\* Unless the question was deleted, the model is asked with it in the prompt, or with a
\* prompt full of older messages, whatever is stored in the session meanwhile.
THEOREM ModelSeesQuestion == Spec => []HistoryHasQuestion
<1>1. WorkInit => TypeInv /\ HistoryInv
  <2>1. ASSUME WorkInit PROVE HistoryInv
    <3>1. \A r \in Requests : req[r].pc = "idle"
      BY <2>1 DEF WorkInit, IdleRequest
    <3> QED BY <3>1 DEF HistoryInv, ChatInv, HistoryHasQuestion, ChatPcs, At
  <2> QED BY <2>1, TypesInit
<1>2. TypeInv /\ HistoryInv /\ [Next]_workVars => TypeInv' /\ HistoryInv'
  BY TypesStep, HistoryStep
<1>3. HistoryInv => HistoryHasQuestion
  BY DEF HistoryInv
<1> QED BY <1>1, <1>2, <1>3, PTL DEF Spec

-----------------------------------------------------------------------------
(* Rooms that show a change: RoomsSignalled is inductive as it stands. *)

ToldBy(q) == RoomsOf(q.workspace, {q.was, q.assignedTo})

Signalled(room) ==
  \/ room \in silenced
  \/ \E r \in Requests : req[r].pc \in Announcing /\ room \in ToldBy(req[r])

LEMMA SignalledMeans ==
  /\ RoomsSignalled <=> \A room \in unsignalled : Signalled(room)
  /\ RoomsSignalled' <=> \A room \in unsignalled' : Signalled(room)'
BY DEF RoomsSignalled, Signalled, PublishRooms, ToldBy, Announcing

\* A room stays signalled while the request that has announced nothing yet stays what it is.
LEMMA StaysSignalled ==
  ASSUME NEW r \in Requests, ElsewhereSpoilt(r), silenced \subseteq silenced',
         TypeInv,
         req[r].pc \in Announcing =>
           req'[r].pc \in Announcing /\ ToldBy(req'[r]) = ToldBy(req[r]),
         NEW room, Signalled(room)
  PROVE  Signalled(room)'
<1>1. CASE room \in silenced
  BY <1>1 DEF Signalled
<1>2. ASSUME NEW p \in Requests, req[p].pc \in Announcing, room \in ToldBy(req[p])
      PROVE  Signalled(room)'
  <2>1. CASE p = r
    BY <1>2, <2>1 DEF Signalled
  <2>2. CASE p # r
    <3>1. req'[p] = req[p]
      BY <1>2, <2>2 DEF ElsewhereSpoilt, SpoiltBy, Open, Announcing
    <3> QED BY <1>2, <3>1 DEF Signalled
  <2> QED BY <2>1, <2>2
<1> QED BY <1>1, <1>2 DEF Signalled

\* Only three steps leave the points where something is to be announced.
LEMMA AnnouncingSteps ==
  ASSUME TypeInv, NEW r \in Requests, req[r].pc \in Announcing
  PROVE  /\ ~Arrival(r) /\ ~FileStep(r) /\ ~Join(r) /\ ~ChatStep(r)
         /\ TaskStep(r) => Publish(r)
<1>1. ~Arrival(r)
  BY ArrivalRequests DEF Begun, Announcing
<1>2. ~FileStep(r)
  BY DEF Announcing, FileStep, At, Sweep, SweepDestroy, SweepUnlist, CountFiles, Sign, UploadBuffer,
     FindExisting, SumFinalizedBytes, CreateAsset, FindTemporaryAssets, RenameAsset, FinalizeRow,
     Rollback, DestroyAsset, UnlistAsset
<1>3. ~Join(r) /\ ~ChatStep(r)
  BY DEF Announcing, At, Join, ChatStep, DeleteMessages, deleteForTenantUser, FindSession,
     StoreQuestion, TitleByContent, ListHistory, Complete, StoreAnswer
<1>4. TaskStep(r) => Publish(r)
  BY DEF Announcing, At, TaskStep, CountWorkspaces, assertWithinWorkspaceLimit, InsertWorkspace,
     Cascade, DraftTask, CommitCreate, ReadTask, CommitUpdate, FindTask, softDeleteByIdAndWorkspace
<1> QED BY <1>1, <1>2, <1>3, <1>4

\* The changes that a step shows are announced later or silenced.
LEMMA ShownSignalled ==
  ASSUME TypeInv, NEW r \in Requests, TaskStep(r), NEW room \in unsignalled' \ unsignalled
  PROVE  Signalled(room)'
<1>1. CASE Cascade(r)
  BY <1>1 DEF Cascade, Shown, Signalled, roomVars
<1>2. CASE CommitCreate(r) \/ CommitUpdate(r)
  <2>1. ~CommitFails(r)
    BY <1>2 DEF CommitFails, roomVars
  <2>2. PICK told \in Users \cup {Nobody}, was \in Users \cup {Nobody},
             now \in Users \cup {Nobody} : Committed(r, told, was, now)
    BY <1>2, <2>1, CommitKinds
  <2> DEFINE q == AfterCommit(r, told, was, now)
  <2>3. req'[r] = q
    BY <1>2, <2>2, CommitKinds, CommitMoves DEF Moves
  <2>4. /\ q.pc \in Announcing /\ q.workspace = req[r].workspace /\ q.was = was
        /\ q.assignedTo = now
    BY ReqFacts DEF AfterCommit, Request, Announcing
  <2>5. room \in RoomsOf(req[r].workspace, {was, now})
    BY <2>2 DEF Committed, Shown
  <2> HIDE DEF q
  <2>6. req'[r].pc \in Announcing /\ room \in ToldBy(req'[r])
    BY <2>3, <2>4, <2>5 DEF ToldBy
  <2> QED BY <2>6 DEF Signalled
<1>3. CASE softDeleteByIdAndWorkspace(r)
  <2> DEFINE q == [req[r] EXCEPT !.pc = "publish"]
             a == tasks[req[r].task].assignedTo
             w == req[r].workspace
  <2>1. /\ room \in RoomsOf(w, {a}) /\ (room \in silenced' \/ room \in RoomsOf(w, {req[r].was}))
        /\ req' = Spoilt([req EXCEPT ![r].pc = "publish"], {req[r].task})
    BY <1>3 DEF softDeleteByIdAndWorkspace, Shown, roomVars
  <2>2. q \in Request /\ ~Open(q) /\ q.pc = "publish" /\ q.workspace = w /\ q.was = req[r].was
    <3>1. req[r] \in Request /\ "publish" \in Pcs
      BY ReqFacts DEF Pcs
    <3>2. q \in Request
      BY <3>1, GoType
    <3>3. q.pc = "publish" /\ q.workspace = w /\ q.was = req[r].was
      BY <3>1 DEF Request
    <3> HIDE DEF q
    <3> QED BY <3>2, <3>3 DEF Open
  <2>3. req' = Spoilt([req EXCEPT ![r] = q], {req[r].task})
    BY <2>1
  <2> HIDE DEF q
  <2>4. req'[r] = q
    BY <2>2, <2>3, SpoiltMoves DEF Moves
  <2>5. RoomsOf(w, {req[r].was}) \subseteq RoomsOf(w, {req[r].was, q.assignedTo})
    BY DEF RoomsOf
  <2> QED BY <2>1, <2>2, <2>4, <2>5 DEF Signalled, ToldBy, Announcing
<1>4. Cascade(r) \/ CommitCreate(r) \/ CommitUpdate(r) \/ softDeleteByIdAndWorkspace(r)
  BY DEF TaskStep, CountWorkspaces, assertWithinWorkspaceLimit, InsertWorkspace, DraftTask,
     ReadTask, FindTask, Publish, roomVars
<1> QED BY <1>1, <1>2, <1>3, <1>4

LEMMA SilencedGrows ==
  ASSUME NEW r \in Requests,
         \/ Arrival(r) \/ FileStep(r) \/ TaskStep(r) \/ Join(r) \/ NotifyAssignee(r)
         \/ ChatStep(r) \/ Crash(r)
  PROVE  silenced \subseteq silenced' /\ (~TaskStep(r) => unsignalled' = unsignalled)
<1>1. CASE TaskStep(r)
  BY <1>1 DEF TaskStep, CountWorkspaces, assertWithinWorkspaceLimit, InsertWorkspace, Cascade,
     DraftTask, CommitCreate, ReadTask, CommitUpdate, FindTask, softDeleteByIdAndWorkspace,
     Publish, Committed, CommitFails, Shown, roomVars
<1>2. CASE Crash(r)
  BY <1>2 DEF Crash
<1>3. CASE Arrival(r) \/ FileStep(r) \/ Join(r) \/ NotifyAssignee(r) \/ ChatStep(r)
  BY <1>3, ArrivalIsPure, FileStepLeaves, ChatStepLeaves, OthersLeave DEF Pure, roomVars
<1> QED BY <1>1, <1>2, <1>3

LEMMA SignalsStep == ASSUME TypeInv, RoomsSignalled, [Next]_workVars PROVE RoomsSignalled'
<1>1. Kinds /\ \A room \in unsignalled : Signalled(room)
  BY StepKinds, SignalledMeans
<1>2. CASE UNCHANGED <<unsignalled, silenced, req>>
  BY <1>2 DEF RoomsSignalled, PublishRooms
<1>3. ASSUME NEW r \in Requests,
             Arrival(r) \/ FileStep(r) \/ Join(r) \/ ChatStep(r) \/ (TaskStep(r) /\ ~Publish(r))
      PROVE  RoomsSignalled'
  <2>1. req[r].pc \notin Announcing
    BY <1>3, AnnouncingSteps
  <2>2. \A room \in unsignalled : Signalled(room)'
    BY <1>1, <1>3, <2>1, StaysSignalled, StepElsewhere, SilencedGrows
  <2> QED BY <1>3, <2>2, ShownSignalled, SilencedGrows, SignalledMeans
<1>4. ASSUME NEW r \in Requests, NotifyAssignee(r) PROVE RoomsSignalled'
  <2>1. req'[r].pc \in Announcing /\ ToldBy(req'[r]) = ToldBy(req[r])
    <3>1. req' = [req EXCEPT ![r].pc = "publish"]
      BY <1>4 DEF NotifyAssignee, Goto
    <3> QED BY <3>1, ReqFacts DEF Request, ToldBy, Announcing
  <2>2. \A room \in unsignalled : Signalled(room)'
    BY <1>1, <1>4, <2>1, StaysSignalled, StepElsewhere, SilencedGrows
  <2> QED BY <1>4, <2>2, SignalledMeans, OthersLeave DEF roomVars
<1>5. ASSUME NEW r \in Requests, Publish(r) PROVE RoomsSignalled'
  <2>1. ASSUME NEW room \in unsignalled' PROVE Signalled(room)'
    <3>1. room \in unsignalled /\ room \notin ToldBy(req[r]) /\ silenced' = silenced
      BY <1>5 DEF Publish, PublishRooms, ToldBy
    <3>2. CASE room \in silenced
      BY <3>1, <3>2 DEF Signalled
    <3>3. CASE room \notin silenced
      <4>1. PICK p \in Requests : req[p].pc \in Announcing /\ room \in ToldBy(req[p])
        BY <1>1, <3>1, <3>3 DEF Signalled
      <4>2. req'[p] = req[p]
        BY <1>5, <3>1, <4>1, StepElsewhere DEF TaskStep, ElsewhereSpoilt, SpoiltBy, Open, Announcing
      <4> QED BY <4>1, <4>2 DEF Signalled
    <3> QED BY <3>2, <3>3
  <2> QED BY <2>1, SignalledMeans
<1>6. ASSUME NEW r \in Requests, Crash(r) PROVE RoomsSignalled'
  <2>1. unsignalled' = unsignalled /\ silenced \subseteq silenced' /\ Elsewhere(r)
    BY <1>6, OthersLeave, SilencedGrows, ReqFacts DEF Crash, Finish, Elsewhere
  <2>2. ASSUME NEW room \in unsignalled PROVE Signalled(room)'
    <3>1. CASE room \in silenced
      BY <2>1, <3>1 DEF Signalled
    <3>2. ASSUME NEW p \in Requests, req[p].pc \in Announcing, room \in ToldBy(req[p])
          PROVE  Signalled(room)'
      <4>1. CASE p = r
        BY <1>6, <3>2, <4>1 DEF Crash, PublishRooms, ToldBy, Signalled, Announcing
      <4>2. CASE p # r
        BY <2>1, <3>2, <4>2 DEF Elsewhere, Signalled
      <4> QED BY <4>1, <4>2
    <3> QED BY <1>1, <2>2, <3>1, <3>2 DEF Signalled
  <2> QED BY <2>1, <2>2, SignalledMeans
<1> QED BY <1>1, <1>2, <1>3, <1>4, <1>5, <1>6, AtOnceLeaves, OthersLeave
        DEF Kinds, ChangeSubscription, workVars, roomVars

\* Every board and task list that shows a change is told to refetch, unless the change was
\* kept from it for good: whatever is done with the task before its request announces it.
THEOREM ChangesAreSignalled == Spec => []RoomsSignalled
<1>1. WorkInit => TypeInv /\ RoomsSignalled
  BY TypesInit DEF WorkInit, RoomsSignalled
<1>2. TypeInv /\ RoomsSignalled /\ [Next]_workVars => TypeInv' /\ RoomsSignalled'
  BY TypesStep, SignalsStep
<1> QED BY <1>1, <1>2, PTL DEF Spec
===============================================================================
