------------------------- MODULE ChannelConversation -------------------------
(***************************************************************************)
(* Conversations held with teams from an external channel: the webhook     *)
(* route, the default router and its context, the YAML binding file with   *)
(* its in-memory index, the dispatcher of replies, and the delete route    *)
(* that releases bindings.                                                 *)
(*                                                                         *)
(* Handlers run on one event loop and interleave only where they await a   *)
(* worker thread, which is where TeamService is called; the file and the   *)
(* index are written by the loop alone, and the index is read by the       *)
(* teams' actor threads.  A message the server does not answer with a 2xx  *)
(* is delivered again by its channel.  A stopped team is live here: the    *)
(* delivery revives it (module TeamLifecycle).                             *)
(***************************************************************************)
EXTENDS Naturals, FiniteSets

CONSTANTS Chats, NoChat,       \* conversations, and the absence of one
          Messages, NoMessage, \* inbound messages
          MaxInHand,      \* webhook requests the server can have in hand
          MaxTeams,       \* teams that can be created
          Led,            \* those created with a supervisor beside the entry point
          MaxIncidents,   \* crashes, failed creations, redeliveries of messages in
                          \* hand, restores, deletions
          Inbox           \* what can be asked: <<message, chat, kind>>

Handlers == 1 .. MaxInHand
Teams == 1 .. MaxTeams
\* The spawned names: the entry point's, the supervisor's, and nobody's.
Agents == {"entry", "lead", "typo"}
Crew(t) == IF t \in Led THEN {"entry", "lead"} ELSE {"entry"}
Slots == Teams \X Agents
Unbound == <<0, "none">>

AllKinds == {"text", "named", "misnamed", "blank", "new", "unregister", "status",
             "register", "misregister"}
Spoken == {"text", "named", "misnamed", "blank"}
\* Kinds that are to reach a team.
Said == {"text", "named", "misnamed", "new"}

ASSUME ChannelAssumption ==
  /\ MaxTeams \in Nat /\ MaxIncidents \in Nat /\ MaxInHand \in Nat
  /\ Led \subseteq Teams /\ Inbox \subseteq Messages \X Chats \X AllKinds
  /\ NoChat \notin Chats /\ NoMessage \notin Messages

VARIABLES
  teams,     \* team -> "none", "live" or "deleted"
  file,      \* chat -> binding in the YAML file: <<team, agent>> or Unbound
  index,     \* binding -> the chat _sync_index has for it, or NoChat
  stale,     \* a _commit has written the file and not replaced the index yet
  down,      \* the server does not boot: its file is no YAML
  chat, kind, state,  \* message -> whose, what it asks, "unsent", "pending" or "acked"
  pc, msg, held,      \* handler -> its next step, message, binding in hand
  doomed,    \* deleted teams whose delete route has bindings to release yet
  due,       \* <<message, binding>> a team has an answer to
  log,       \* answers given: what a restore replays
  script,    \* answers the restore in progress has still to replay
  replaying, \* the dispatcher's _restoring
  incidents,
  \* history
  told,      \* messages answered with a notice
  sent,      \* message -> times a team was sent it
  got,       \* message -> answers to it its chat received
  lost,      \* messages with a live answer that reached no chat
  disturbed, \* messages whose chat was bound or released by somebody else
  doubted    \* messages the channel delivered again although they were in hand

registry == <<file, index, stale, down>>
bindings == <<registry, disturbed>>
inbound == <<chat, kind, state>>
handlers == <<pc, msg, held>>
outbound == <<due, log, script, replaying, got, lost>>
history == <<told, sent, disturbed, doubted>>
vars == <<teams, registry, inbound, handlers, doomed, outbound, incidents, history>>

-----------------------------------------------------------------------------
(* Shared parts *)

\* No handler is between writing the file and replacing the index.
LoopFree == ~stale

InHand == {msg[h] : h \in {g \in Handlers : pc[g] # "free"}}

\* The handler is at a step, with a binding in hand.
Goto(h, step, b) ==
  /\ pc' = [pc EXCEPT ![h] = step]
  /\ held' = [held EXCEPT ![h] = b]
  /\ UNCHANGED <<msg, state, told>>

Leave(h) ==
  /\ pc' = [pc EXCEPT ![h] = "free"]
  /\ msg' = [msg EXCEPT ![h] = NoMessage]
  /\ held' = [held EXCEPT ![h] = Unbound]

\* 2xx: with or without a notice to the chat.
Ack(h, noticed) ==
  /\ Leave(h)
  /\ state' = [state EXCEPT ![msg[h]] = "acked"]
  /\ told' = IF noticed THEN told \cup {msg[h]} ELSE told

\* An exception leaves the route: 5xx, and the channel has the message still.
Fail(h) == Leave(h) /\ UNCHANGED <<state, told>>

\* Messages of the chats whose binding f changes, but for m's own.
Unsettled(f, m) == {n \in Messages \ {m} : \E c \in Chats : f[c] # file[c] /\ chat[n] = c}

\* _commit: the file is written, the index follows in Reindex.
Commit(f, m) ==
  /\ file' = f
  /\ stale' = TRUE
  /\ disturbed' = disturbed \cup Unsettled(f, m)
  /\ UNCHANGED down

BindUnindexed(c, b, m) ==
  /\ file' = [file EXCEPT ![c] = b]
  /\ disturbed' = disturbed \cup Unsettled(file', m)
  /\ UNCHANGED <<index, stale, down>>

\* register(binding): whatever the chat was bound to is replaced.
Bind(c, b, m) == Commit([file EXCEPT ![c] = b], m) /\ UNCHANGED index

\* find_binding, then deregister if there is one.
Release(c, m) ==
  IF file[c] = Unbound
  THEN UNCHANGED bindings
  ELSE Bind(c, Unbound, m)

\* _index_from_data: of two chats with one binding the one later in the mapping
\* stays, and what is later depends on names and on what is new in the file.
Indexed(f, last) ==
  [s \in Slots |-> IF f[last] = s THEN last
                   ELSE IF \E d \in Chats : f[d] = s THEN CHOOSE d \in Chats : f[d] = s
                   ELSE NoChat]

Reindex ==
  /\ stale
  /\ \E last \in Chats : index' = Indexed(file, last)
  /\ stale' = FALSE
  /\ UNCHANGED <<teams, file, down, inbound, handlers, doomed, outbound, incidents, history>>

-----------------------------------------------------------------------------
(* The webhook and the router's commands *)

\* A message arrives, or arrives again: after a failure, or while the server
\* still works on it.
Deliver(h, m) ==
  /\ ~down
  /\ pc[h] = "free" /\ \A g \in 1 .. h - 1 : pc[g] # "free"
  /\ \/ /\ state[m] = "unsent"
        /\ \E c \in Chats, k \in AllKinds :
             /\ <<m, c, k>> \in Inbox
             /\ chat' = [chat EXCEPT ![m] = c]
             /\ kind' = [kind EXCEPT ![m] = k]
        /\ UNCHANGED <<incidents, doubted>>
     \/ /\ state[m] = "pending"
        /\ m \notin InHand
        /\ UNCHANGED <<chat, kind, incidents, doubted>>
     \/ /\ state[m] = "pending"
        /\ m \in InHand
        /\ incidents < MaxIncidents
        /\ incidents' = incidents + 1
        /\ doubted' = doubted \cup {m}
        /\ UNCHANGED <<chat, kind>>
  /\ state' = [state EXCEPT ![m] = "pending"]
  /\ msg' = [msg EXCEPT ![h] = m]
  /\ pc' = [pc EXCEPT ![h] = "route"]
  /\ UNCHANGED <<teams, bindings, held, doomed, outbound, told, sent>>

Routes(h, kinds) == pc[h] = "route" /\ LoopFree /\ kind[msg[h]] \in kinds
routeRest == <<teams, chat, kind, doomed, outbound, incidents, sent, doubted>>

\* The notice says whether there was a binding.
CommandUnregister(h) ==
  /\ Routes(h, {"unregister"})
  /\ Release(chat[msg[h]], msg[h])
  /\ Ack(h, TRUE)
  /\ UNCHANGED routeRest

\* Reads the binding and the team, and tells.
CommandStatus(h) ==
  /\ Routes(h, {"status"})
  /\ Ack(h, TRUE)
  /\ UNCHANGED <<bindings, routeRest>>

\* bind_team: nothing is verified.  Told apart is only whether a user names an
\* agent of that team.  Unreadable or not allowed, it is a notice.
CommandRegister(h) ==
  /\ Routes(h, {"register", "misregister"})
  /\ \/ \E t \in Teams, a \in Agents :
          /\ (kind[msg[h]] = "register") = (a \in Crew(t))
          /\ Bind(chat[msg[h]], <<t, a>>, msg[h])
     \/ UNCHANGED bindings
  /\ Ack(h, TRUE)
  /\ UNCHANGED routeRest

\* Releases first, then starts a session.
CommandNew(h) ==
  /\ Routes(h, {"new"})
  /\ Release(chat[msg[h]], msg[h])
  /\ Goto(h, "create", Unbound)
  /\ UNCHANGED routeRest

-----------------------------------------------------------------------------
(* Starting a session: create, bind, send the first message, tell *)

OnUnbound(h) ==
  /\ Routes(h, Spoken)
  /\ file[chat[msg[h]]] = Unbound
  /\ Goto(h, "create", Unbound)
  /\ UNCHANGED <<bindings, routeRest>>

\* create_team on a thread.
CreateTeam(h) ==
  /\ pc[h] = "create" /\ LoopFree
  /\ \/ /\ incidents < MaxIncidents
        /\ incidents' = incidents + 1
        /\ Fail(h)
        /\ UNCHANGED teams
     \/ /\ \E t \in Teams :
             /\ teams[t] = "none" /\ \A u \in 1 .. t - 1 : teams[u] # "none"
             /\ teams' = [teams EXCEPT ![t] = "live"]
             /\ Goto(h, "bind", <<t, "entry">>)
        /\ UNCHANGED incidents
  /\ UNCHANGED <<bindings, chat, kind, doomed, outbound, sent, doubted>>

BindSessionForgotten(h) ==
  /\ pc[h] = "bind" /\ LoopFree
  /\ Goto(h, "first", held[h])
  /\ UNCHANGED <<bindings, routeRest>>

\* A blank first message is not sent, and the notice ends the request.
BindSession(h) ==
  /\ pc[h] = "bind" /\ LoopFree
  /\ Bind(chat[msg[h]], held[h], msg[h])
  /\ IF kind[msg[h]] = "blank" THEN Ack(h, TRUE) ELSE Goto(h, "first", held[h])
  /\ UNCHANGED routeRest

\* send_message, send_message_from_to on a thread: a deleted team, or a name it
\* does not have, raises.  Else the team has an answer for the agent that spoke.
SendOrRaise(h, known) ==
  /\ LoopFree
  /\ IF teams[held[h][1]] = "live" /\ known
     THEN /\ sent' = [sent EXCEPT ![msg[h]] = @ + 1]
          /\ due' = due \cup {<<msg[h], held[h]>>}
          /\ Goto(h, "finish", Unbound)
     ELSE Fail(h) /\ UNCHANGED <<sent, due>>
  /\ UNCHANGED <<teams, bindings, chat, kind, doomed, log, script, replaying, got, lost,
                 incidents, doubted>>

SendFirst(h) == pc[h] = "first" /\ SendOrRaise(h, TRUE)

FinishRaising(h) ==
  /\ pc[h] = "finish" /\ LoopFree
  /\ Ack(h, TRUE) \/ Fail(h)
  /\ UNCHANGED <<bindings, routeRest>>

\* notify swallows what the channel's API answers; then the 204.
Finish(h) ==
  /\ pc[h] = "finish" /\ LoopFree
  /\ Ack(h, TRUE)
  /\ UNCHANGED <<bindings, routeRest>>

-----------------------------------------------------------------------------
(* Replying to the bound team *)

OnBound(h) ==
  /\ Routes(h, Spoken)
  /\ file[chat[msg[h]]] # Unbound
  /\ IF kind[msg[h]] = "blank" THEN Ack(h, FALSE)
     ELSE Goto(h, "check", file[chat[msg[h]]])
  /\ UNCHANGED <<bindings, routeRest>>

BoundProcessAny(h) ==
  /\ pc[h] = "check" /\ LoopFree
  /\ IF teams[held[h][1]] # "none" THEN Goto(h, "reread", Unbound) ELSE Ack(h, TRUE)
  /\ UNCHANGED <<bindings, routeRest>>

BoundProcessSilent(h) ==
  /\ pc[h] = "check" /\ LoopFree
  /\ IF teams[held[h][1]] = "live" THEN Goto(h, "reread", Unbound) ELSE Ack(h, FALSE)
  /\ UNCHANGED <<bindings, routeRest>>

\* bound_process on a thread: a team that is not there is told, nothing sent.
BoundProcess(h) ==
  /\ pc[h] = "check" /\ LoopFree
  /\ IF teams[held[h][1]] = "live" THEN Goto(h, "reread", Unbound) ELSE Ack(h, TRUE)
  /\ UNCHANGED <<bindings, routeRest>>

RereadUnguarded(h) ==
  /\ pc[h] = "reread" /\ LoopFree
  /\ Goto(h, IF kind[msg[h]] = "text" THEN "who" ELSE "send", file[chat[msg[h]]])
  /\ UNCHANGED <<bindings, routeRest>>

\* send and send_to read the binding again; released meanwhile, they answer
\* False and nobody asks.
Reread(h) ==
  /\ pc[h] = "reread" /\ LoopFree
  /\ LET b == file[chat[msg[h]]] IN
       IF b = Unbound THEN Ack(h, FALSE)
       ELSE Goto(h, IF kind[msg[h]] = "text" THEN "who" ELSE "send", b)
  /\ UNCHANGED <<bindings, routeRest>>

\* _default_recipient on a thread: somebody of the team who is not the speaker.
DefaultRecipient(h) ==
  /\ pc[h] = "who" /\ LoopFree
  /\ IF teams[held[h][1]] = "none" THEN Fail(h)
     ELSE IF Crew(held[h][1]) \subseteq {held[h][2]} THEN Ack(h, TRUE)
     ELSE Goto(h, "send", held[h])
  /\ UNCHANGED <<bindings, routeRest>>

Send(h) ==
  /\ pc[h] = "send"
  /\ SendOrRaise(h, held[h][2] \in Crew(held[h][1]) /\ kind[msg[h]] # "misnamed")

-----------------------------------------------------------------------------
(* The dispatcher: answers, and replays of them *)

\* on_message of an answer to message m for binding s.  It is lost when its
\* chat has no rival for the binding and does not get it.
Dispatch(m, s) ==
  IF s[1] \in replaying THEN UNCHANGED <<got, lost>>
  ELSE IF index[s] = chat[m]
  THEN got' = [got EXCEPT ![m] = @ + 1] /\ UNCHANGED lost
  ELSE /\ lost' = IF LoopFree /\ index[s] = NoChat THEN lost \cup {m} ELSE lost
       /\ UNCHANGED got

Answer(d) ==
  /\ d \in due
  /\ teams[d[2][1]] = "live"
  /\ Dispatch(d[1], d[2])
  /\ due' = due \ {d}
  /\ log' = log \cup {d}
  /\ UNCHANGED <<teams, registry, inbound, handlers, doomed, script, replaying, incidents, history>>

\* set_restoring(team, TRUE): a stopped team starts again.
Restore(t) ==
  /\ teams[t] = "live" /\ t \notin replaying /\ ~down
  /\ incidents < MaxIncidents
  /\ incidents' = incidents + 1
  /\ replaying' = replaying \cup {t}
  /\ script' = script \cup {d \in log : d[2][1] = t}
  /\ UNCHANGED <<teams, registry, inbound, handlers, doomed, due, log, got, lost, history>>

Replay(d) ==
  /\ d \in script
  /\ Dispatch(d[1], d[2])
  /\ script' = script \ {d}
  /\ UNCHANGED <<teams, registry, inbound, handlers, doomed, due, log, replaying, incidents, history>>

Restored(t) ==
  /\ t \in replaying /\ \A d \in script : d[2][1] # t
  /\ replaying' = replaying \ {t}
  /\ UNCHANGED <<teams, registry, inbound, handlers, doomed, due, log, script, got, lost,
                 incidents, history>>

-----------------------------------------------------------------------------
(* The delete route, and a crash *)

\* delete_team on a thread; on_stop discards the restore.
DeleteTeam(t) ==
  /\ teams[t] = "live" /\ ~down
  /\ incidents < MaxIncidents
  /\ incidents' = incidents + 1
  /\ teams' = [teams EXCEPT ![t] = "deleted"]
  /\ doomed' = doomed \cup {t}
  /\ replaying' = replaying \ {t}
  /\ script' = {d \in script : d[2][1] # t}
  /\ UNCHANGED <<registry, inbound, handlers, due, log, got, lost, history>>

\* deregister_team, back on the loop; nothing to prune commits nothing.
DeregisterTeam(t) ==
  /\ t \in doomed /\ LoopFree
  /\ LET bound == {c \in Chats : file[c][1] = t} IN
     IF bound = {} THEN UNCHANGED bindings
     ELSE /\ Commit([c \in Chats |-> IF c \in bound THEN Unbound ELSE file[c]], NoMessage)
          /\ UNCHANGED index
  /\ doomed' = doomed \ {t}
  /\ UNCHANGED <<teams, inbound, handlers, outbound, incidents, told, sent, doubted>>

\* YamlChannelRegistry.__init__ on a file it can parse, with what it holds of the
\* chats' bindings.
Boot(kept) ==
  /\ file' = [c \in Chats |-> IF c \in kept THEN file[c] ELSE Unbound]
  /\ \E last \in Chats : index' = Indexed(file', last)
  /\ down' = FALSE
  /\ disturbed' = disturbed \cup Unsettled(file', NoMessage)

\* The process dies with all it had in hand, and starts again.  A file being
\* written is cut short: it may hold some of its records, or be no YAML at all,
\* and safe_load then raises out of the constructor.
Crash ==
  /\ ~down
  /\ incidents < MaxIncidents
  /\ incidents' = incidents + 1
  /\ \/ LoopFree /\ Boot(Chats)
     \/ stale /\ \E kept \in SUBSET Chats : Boot(kept)
     \/ /\ stale
        /\ down' = TRUE
        /\ index' = [s \in Slots |-> NoChat]
        /\ UNCHANGED <<file, disturbed>>
  /\ stale' = FALSE
  /\ pc' = [h \in Handlers |-> "free"]
  /\ msg' = [h \in Handlers |-> NoMessage] /\ held' = [h \in Handlers |-> Unbound]
  /\ doubted' = doubted \cup InHand
  /\ doomed' = {} /\ replaying' = {} /\ script' = {} /\ due' = {}
  /\ UNCHANGED <<teams, inbound, log, got, lost, told, sent>>

\* An operator saves what can be saved of the file, and the server boots.
Repair ==
  /\ down
  /\ \E kept \in SUBSET Chats : Boot(kept)
  /\ UNCHANGED <<teams, stale, inbound, handlers, doomed, outbound, incidents, told, sent, doubted>>

-----------------------------------------------------------------------------
Init ==
  /\ teams = [t \in Teams |-> "none"]
  /\ file = [c \in Chats |-> Unbound]
  /\ index = [s \in Slots |-> NoChat]
  /\ stale = FALSE /\ down = FALSE
  /\ chat = [m \in Messages |-> NoChat] /\ kind = [m \in Messages |-> "none"]
  /\ state = [m \in Messages |-> "unsent"]
  /\ pc = [h \in Handlers |-> "free"] /\ msg = [h \in Handlers |-> NoMessage]
  /\ held = [h \in Handlers |-> Unbound]
  /\ doomed = {} /\ due = {} /\ log = {} /\ script = {} /\ replaying = {}
  /\ incidents = 0
  /\ told = {} /\ sent = [m \in Messages |-> 0]
  /\ got = [m \in Messages |-> 0] /\ lost = {} /\ disturbed = {} /\ doubted = {}

Handle(h) ==
  \/ CommandUnregister(h) \/ CommandStatus(h) \/ CommandRegister(h) \/ CommandNew(h)
  \/ OnUnbound(h) \/ CreateTeam(h) \/ BindSession(h) \/ SendFirst(h) \/ Finish(h)
  \/ OnBound(h) \/ BoundProcess(h) \/ Reread(h) \/ DefaultRecipient(h) \/ Send(h)

Next ==
  \/ \E h \in Handlers, m \in Messages : Deliver(h, m)
  \/ \E h \in Handlers : Handle(h)
  \/ Reindex
  \/ \E d \in due : Answer(d)
  \/ \E d \in script : Replay(d)
  \/ \E t \in Teams : Restore(t) \/ Restored(t) \/ DeleteTeam(t) \/ DeregisterTeam(t)
  \/ Crash
  \/ Repair

Spec == Init /\ [][Next]_vars

\* The loop and its threads run, and the channel delivers again what failed.
FairSpec ==
  /\ Spec
  /\ WF_vars(Reindex)
  /\ \A h \in Handlers : WF_vars(Handle(h))
  /\ \A m \in Messages : WF_vars(/\ state[m] = "pending" /\ m \notin InHand
                                 /\ \E h \in Handlers : Deliver(h, m))

-----------------------------------------------------------------------------
(* Properties *)

\* Every variable has its type, and a handler that is to use a binding has one.
TypeOK ==
  /\ teams \in [Teams -> {"none", "live", "deleted"}]
  /\ file \in [Chats -> Slots \cup {Unbound}]
  /\ index \in [Slots -> Chats \cup {NoChat}]
  /\ stale \in BOOLEAN /\ down \in BOOLEAN
  /\ chat \in [Messages -> Chats \cup {NoChat}] /\ kind \in [Messages -> AllKinds \cup {"none"}]
  /\ state \in [Messages -> {"unsent", "pending", "acked"}]
  /\ pc \in [Handlers -> {"free", "route", "create", "bind", "first", "finish",
                          "check", "reread", "who", "send"}]
  /\ msg \in [Handlers -> Messages \cup {NoMessage}] /\ held \in [Handlers -> Slots \cup {Unbound}]
  /\ \A h \in Handlers :
       /\ (pc[h] = "free") = (msg[h] = NoMessage)
       /\ pc[h] \in {"bind", "first", "check", "who", "send"} => held[h] # Unbound
  /\ doomed \subseteq Teams /\ replaying \subseteq Teams
  /\ due \subseteq Messages \X Slots /\ log \subseteq Messages \X Slots /\ script \subseteq log
  /\ incidents \in 0 .. MaxIncidents
  /\ told \subseteq Messages /\ sent \in [Messages -> Nat]
  /\ got \in [Messages -> Nat] /\ lost \subseteq Messages
  /\ disturbed \subseteq Messages /\ doubted \subseteq Messages

\* Whenever the server is up and no commit is between its two writes, the index
\* the actor threads read and the file the loop reads hold the same
\* conversations: whatever is in the file is found, and nothing else
\* (YamlChannelRegistry._commit).
IndexMatchesFile ==
  LoopFree /\ ~down => \A s \in Slots : IF \E c \in Chats : file[c] = s
                               THEN index[s] # NoChat /\ file[index[s]] = s
                               ELSE index[s] = NoChat

\* A message meant for a team and answered 2xx was sent to one, or its user was
\* told, or somebody else changed the chat's binding in the meantime: only that
\* makes ctx.send answer False unnoticed.
AckedMessagesAreAccounted ==
  \A m \in Messages : state[m] = "acked" /\ kind[m] \in Said
                      => sent[m] > 0 \/ m \in told \/ m \in disturbed

\* No team is sent one message twice and no chat shown one answer twice, unless
\* the channel delivered the message while the server still had it or the
\* server died with it: no error is reported after a message has been sent, and
\* what a restore replays reaches no chat.
NothingTwice ==
  \A m \in Messages : /\ sent[m] > 1 => m \in doubted
                      /\ got[m] <= sent[m]

\* An answer given while its team is not being restored finds a chat, the very
\* first one included, unless the binding of the chat that asked was changed by
\* somebody else or by a second delivery, or is being written
\* (ChannelRouteContext.initiate_team).
AnswersFindTheirChat == lost \subseteq disturbed \cup doubted

\* Whatever a message asks, the server eventually answers it 2xx, so that the
\* channel stops delivering it: a retry always changes something, unless the
\* server does not boot.
EveryMessageAcknowledged ==
  \A m \in Messages : state[m] = "pending" ~> (state[m] = "acked" \/ down)
=============================================================================
