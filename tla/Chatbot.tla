-------------------------------- MODULE Chatbot --------------------------------
(***************************************************************************)
(* ChatbotService: sessions of a user and their messages.  A question is   *)
(* stored before the model providers are asked, one after the other; the   *)
(* prompt carries the oldest messages of the session.                      *)
(***************************************************************************)
EXTENDS Notifications

hasAiChatbotAccess == resolveAiChatbotAccess(entitled.subscription, entitled.plan)

BeginChat(r, op, pc, u, s) ==
  /\ hasAiChatbotAccess
  /\ Begin(r, [IdleRequest EXCEPT !.op = op, !.pc = pc, !.caller = u, !.session = s])
  /\ UNCHANGED <<taskVars, files, roomVars, notices, chatVars>>

\* findByIdForTenantUser.
OwnSession(u, s) == sessions[s].stored /\ sessions[s].user = u
MessagesOf(s) == {m \in DOMAIN messages : messages[m].session = s /\ messages[m].stored}

Stored(s, role) == Append(messages, [session |-> s, role |-> role, stored |-> TRUE])

\* createSession and patchSession: one write after the check.
CreateSession(u, title) ==
  /\ "createSession" \in scenario.operations /\ hasAiChatbotAccess
  /\ Len(sessions) < scenario.maxSessions
  /\ sessions' = Append(sessions, [user |-> u, stored |-> TRUE, title |-> title])
  /\ UNCHANGED <<taskVars, files, roomVars, notices, messages, req>>

updateTitle(u, s, title) ==
  sessions' = IF OwnSession(u, s) THEN [sessions EXCEPT ![s].title = title] ELSE sessions

PatchSession(u, s) ==
  /\ hasAiChatbotAccess
  /\ OwnSession(u, s)
  /\ updateTitle(u, s, "chosen")
  /\ UNCHANGED <<taskVars, files, roomVars, notices, messages, req>>

(* deleteSession: the messages, whoever has the session, and then the session. *)

DeleteSession(r, u, s) == BeginChat(r, "deleteSession", "messages", u, s)

deleteBySessionForTenant(s) ==
  [m \in DOMAIN messages |-> IF m \in MessagesOf(s) THEN [messages[m] EXCEPT !.stored = FALSE]
                             ELSE messages[m]]

DeleteMessages(r) ==
  /\ At(r, "messages")
  /\ messages' = deleteBySessionForTenant(req[r].session)
  /\ Goto(r, "session")
  /\ UNCHANGED <<taskVars, files, roomVars, notices, sessions>>

deleteForTenantUser(r) ==
  /\ At(r, "session") /\ Doing(r, "deleteSession")
  /\ sessions' = IF OwnSession(req[r].caller, req[r].session)
                 THEN [sessions EXCEPT ![req[r].session].stored = FALSE] ELSE sessions
  /\ Finish(r)
  /\ UNCHANGED <<taskVars, files, roomVars, notices, messages>>

(* sendMessage *)

SendMessage(r, u, s) ==
  /\ Len(messages) + 2 * Creating("sendMessage") + 1 < scenario.maxMessages
  /\ BeginChat(r, "sendMessage", "session", u, s)

FindSession(r) ==
  /\ At(r, "session") /\ Doing(r, "sendMessage")
  /\ IF OwnSession(req[r].caller, req[r].session)
     THEN req' = [req EXCEPT ![r].pc = "question",
                             ![r].untitled = sessions[req[r].session].title = "default"]
     ELSE Finish(r)
  /\ UNCHANGED <<taskVars, files, roomVars, notices, chatVars>>

StoreQuestion(r) ==
  /\ At(r, "question")
  /\ messages' = Stored(req[r].session, "user")
  /\ req' = [req EXCEPT ![r].pc = IF req[r].untitled THEN "title" ELSE "history",
                        ![r].question = Len(messages) + 1]
  /\ UNCHANGED <<taskVars, files, roomVars, notices, sessions>>

\* The title may have been chosen since it was read.
TitleByContent(r) ==
  /\ At(r, "title")
  /\ updateTitle(req[r].caller, req[r].session, "automatic")
  /\ Goto(r, "history")
  /\ UNCHANGED <<taskVars, files, roomVars, notices, messages>>

\* Mutant: one message less than the prompt may carry.
OldestButOne(s) ==
  {m \in MessagesOf(s) : Cardinality({n \in MessagesOf(s) : n < m}) < HistoryCap - 1}

\* listBySessionForTenant: from the oldest on.
listBySessionForTenant(s) ==
  {m \in MessagesOf(s) : Cardinality({n \in MessagesOf(s) : n < m}) < HistoryCap}

ListHistory(r) ==
  /\ At(r, "history")
  /\ req' = [req EXCEPT ![r].pc = "complete", ![r].seen = 1,
                        ![r].history = listBySessionForTenant(req[r].session)]
  /\ UNCHANGED <<taskVars, files, roomVars, notices, chatVars>>

\* LlmRouterService.complete: a provider that fails hands on to the next one.
Complete(r) ==
  /\ At(r, "complete")
  /\ \/ Goto(r, "answer")
     \/ /\ MayFail /\ req[r].seen < Providers
        /\ req' = [req EXCEPT ![r].seen = @ + 1]
     \/ MayFail /\ req[r].seen = Providers /\ Finish(r)
  /\ UNCHANGED <<taskVars, files, roomVars, notices, chatVars>>

\* bumpUpdatedAt, which follows, only orders the list of sessions.
StoreAnswer(r) ==
  /\ At(r, "answer")
  /\ messages' = Stored(req[r].session, "assistant")
  /\ Finish(r)
  /\ UNCHANGED <<taskVars, files, roomVars, notices, sessions>>

ChatStep(r) ==
  \/ DeleteMessages(r) \/ deleteForTenantUser(r)
  \/ FindSession(r) \/ StoreQuestion(r) \/ TitleByContent(r) \/ ListHistory(r)
  \/ Complete(r) \/ StoreAnswer(r)
===============================================================================
