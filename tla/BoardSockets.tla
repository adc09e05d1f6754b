------------------------------ MODULE BoardSockets ------------------------------
(***************************************************************************)
(* The two websocket gateways: a socket of the boards subscribes to one    *)
(* workspace and to its user's task list; a socket of /notifications is in *)
(* the room of its user and, for an admin of the tenant, of the admins.    *)
(* The in-memory adapter of Socket.IO joins and leaves at once.            *)
(***************************************************************************)
EXTENDS WorkspaceTasks

SetRooms(s, rooms) ==
  /\ sockets' = [sockets EXCEPT ![s].rooms = rooms]
  /\ UNCHANGED <<taskVars, files, unsignalled, silenced, notices, chatVars>>

\* handleSubscribe looks the workspace up, then moves the socket.
Subscribe(r, s, w) ==
  /\ assertWorkspaceBelongsToTenant(w)
  /\ Begin(r, [IdleRequest EXCEPT !.op = "subscribe", !.pc = "join", !.socket = s,
                                  !.workspace = w])
  /\ UNCHANGED <<taskVars, files, roomVars, notices, chatVars>>

\* Mutant: the board left behind goes on being heard.
JoinRoom(view, room) == [view EXCEPT !.rooms = @ \cup {room}, !.board = room]

MoveTo(view, room) ==
  [view EXCEPT !.rooms = (@ \ {view.board}) \cup {room}, !.board = room]

Join(r) ==
  /\ At(r, "join")
  /\ sockets' = [sockets EXCEPT ![req[r].socket] = MoveTo(@, boardRoom(req[r].workspace))]
  /\ Finish(r)
  /\ UNCHANGED <<taskVars, files, unsignalled, silenced, notices, chatVars>>

Unsubscribe(s, w) ==
  /\ sockets' = [sockets EXCEPT ![s].rooms = @ \ {boardRoom(w)},
                                ![s].board = IF @ = boardRoom(w) THEN NoRoom ELSE @]
  /\ UNCHANGED <<taskVars, files, unsignalled, silenced, notices, chatVars, req>>

SubscribeMyTasks(s) ==
  SetRooms(s, sockets[s].rooms \cup {myTasksRoom(Sockets[s])}) /\ UNCHANGED req

UnsubscribeMyTasks(s) ==
  SetRooms(s, sockets[s].rooms \ {myTasksRoom(Sockets[s])}) /\ UNCHANGED req

\* Mutant: whoever connects hears what is for the admins.
RoomsOfAnyUser(u) == {userRoom(u), adminRoom}

RoomsOfUser(u) == {userRoom(u)} \cup (IF Role[u] = "admin" THEN {adminRoom} ELSE {})

Connect(s) ==
  SetRooms(s, sockets[s].rooms \cup RoomsOfUser(Sockets[s])) /\ UNCHANGED req

\* Socket.IO empties the rooms; a subscription under way is over.
Disconnect(s) ==
  /\ \A r \in Requests : ~(At(r, "join") /\ req[r].socket = s)
  /\ sockets' = [sockets EXCEPT ![s] = [rooms |-> {}, board |-> NoRoom]]
  /\ UNCHANGED <<taskVars, files, unsignalled, silenced, notices, chatVars, req>>
===============================================================================
