----------------------------- MODULE Notifications -----------------------------
(***************************************************************************)
(* NotificationService and its listeners: a row for one user, or for the   *)
(* admins when it names nobody, which is then pushed to the sockets of the *)
(* room it is for.  Whoever missed the push finds the row in a list.       *)
(***************************************************************************)
EXTENDS BoardSockets

\* findRecentForAudience: a member has the rows that name it, the others those that name
\* nobody.
InAudience(u, to) == IF isTenantMember(u) THEN to = u ELSE to = Nobody
findRecentForAudience(u) == {n \in DOMAIN notices : InAudience(u, notices[n].to)}

\* publishCreated.
RoomFor(to) == IF to = Nobody THEN adminRoom ELSE userRoom(to)
Pushed(to) == {Sockets[s] : s \in {c \in DOMAIN Sockets : RoomFor(to) \in sockets[c].rooms}}

\* notifyTenant: the row, and the push once it is stored.
notifyTenant(to, task) ==
  notices' = Append(notices, [to |-> to, task |-> task, read |-> FALSE, pushed |-> Pushed(to)])

\* onTaskAssigned, which swallows a failure.
NotifyAssignee(r) ==
  /\ At(r, "notify")
  /\ \/ notifyTenant(req[r].tell, req[r].task) /\ UNCHANGED tasks
     \/ /\ MayFail
        /\ tasks' = [tasks EXCEPT ![req[r].task].untold = @ \cup {req[r].tell}]
        /\ UNCHANGED notices
  /\ Goto(r, "publish")
  /\ UNCHANGED <<workspaces, files, roomVars, chatVars>>

\* A listener of billing tells the admins, one of the registrations the founder.
NotifyOf(to) ==
  /\ RoomToNotify(1)
  /\ notifyTenant(to, 0)
  /\ UNCHANGED <<taskVars, files, roomVars, chatVars, req>>
NotifyOfBilling == NotifyOf(Nobody)
NotifyOfRegistration(u) == Role[u] = "admin" /\ NotifyOf(u)

\* A member marks its own, the others any of the tenant.
MarkInAppRead(u, n) ==
  /\ ~notices[n].read
  /\ isTenantMember(u) => notices[n].to = u
  /\ notices' = [notices EXCEPT ![n].read = TRUE]
  /\ UNCHANGED <<taskVars, files, roomVars, chatVars, req>>

MarkAllInAppRead(u) ==
  /\ notices' = [n \in DOMAIN notices |->
       IF n \in findRecentForAudience(u) THEN [notices[n] EXCEPT !.read = TRUE]
       ELSE notices[n]]
  /\ UNCHANGED <<taskVars, files, roomVars, chatVars, req>>
===============================================================================
