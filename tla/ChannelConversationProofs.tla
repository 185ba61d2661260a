---------------------- MODULE ChannelConversationProofs ----------------------
(***************************************************************************)
(* Proofs about ChannelConversation: for any chats, messages, teams,       *)
(* webhook requests in hand and incidents, the reply index follows the     *)
(* binding file, no message is lost in silence or repeated by the server,  *)
(* and an answer finds the chat that asked.                                *)
(***************************************************************************)
EXTENDS ChannelConversation, FiniteSetTheorems, TLAPS

Steps == {"create", "bind", "first", "finish", "check", "reread", "who", "send"}
Bindings == Slots \cup {Unbound}

------------------------------------------------------------------------------
(* The type invariant in parts, one for each group of variables *)

RegistryTypes ==
  /\ file \in [Chats -> Bindings]
  /\ index \in [Slots -> Chats \cup {NoChat}]
  /\ stale \in BOOLEAN /\ down \in BOOLEAN
  /\ disturbed \subseteq Messages

HandlerTypes ==
  /\ state \in [Messages -> {"unsent", "pending", "acked"}]
  /\ pc \in [Handlers -> {"free", "route"} \cup Steps]
  /\ msg \in [Handlers -> Messages \cup {NoMessage}]
  /\ held \in [Handlers -> Bindings]
  /\ \A h \in Handlers :
       /\ (pc[h] = "free") = (msg[h] = NoMessage)
       /\ pc[h] \in {"bind", "first", "check", "who", "send"} => held[h] # Unbound
  /\ told \subseteq Messages

OutboundTypes ==
  /\ due \subseteq Messages \X Slots /\ log \subseteq Messages \X Slots /\ script \subseteq log
  /\ replaying \subseteq Teams
  /\ sent \in [Messages -> Nat] /\ got \in [Messages -> Nat] /\ lost \subseteq Messages

InboundTypes ==
  /\ chat \in [Messages -> Chats \cup {NoChat}] /\ kind \in [Messages -> AllKinds \cup {"none"}]
  /\ doubted \subseteq Messages

ServerTypes ==
  /\ teams \in [Teams -> {"none", "live", "deleted"}]
  /\ doomed \subseteq Teams
  /\ incidents \in 0 .. MaxIncidents

\* A message that was delivered has a chat and a kind, and a handler works on a
\* delivered message.
Known ==
  /\ \A m \in Messages : state[m] # "unsent" => chat[m] \in Chats /\ kind[m] \in AllKinds
  /\ \A h \in Handlers : pc[h] # "free" => state[msg[h]] # "unsent"

Typed == RegistryTypes /\ HandlerTypes /\ OutboundTypes /\ InboundTypes /\ ServerTypes /\ Known

\* The parts are the type invariant.
LEMMA TypedIsTypeOK == Typed => TypeOK
<1> SUFFICES ASSUME Typed PROVE TypeOK
  OBVIOUS
<1>1. pc \in [Handlers -> {"free", "route", "create", "bind", "first", "finish",
                           "check", "reread", "who", "send"}]
  BY DEF Typed, HandlerTypes, Steps
<1>2. QED
  BY <1>1 DEF Typed, TypeOK, RegistryTypes, HandlerTypes, OutboundTypes, InboundTypes,
              ServerTypes, Bindings

------------------------------------------------------------------------------
(* Bindings, the file and the index *)

\* A binding names a team and an agent; Unbound is none.
LEMMA SlotFacts ==
  /\ Unbound \notin Slots
  /\ \A s \in Slots : s = <<s[1], s[2]>> /\ s[1] \in Teams /\ s[2] \in Agents
  /\ \A t \in Teams, a \in Agents : <<t, a>> \in Slots
<1>1. 0 \notin Teams
  BY DEF Teams
<1>2. QED
  BY <1>1 DEF Slots, Unbound

\* The names of the crew are names.
LEMMA CrewFacts == \A t : Crew(t) \subseteq Agents /\ "entry" \in Agents
  BY DEF Crew, Agents

\* _index_from_data finds a chat for each binding in the file and for no other.
LEMMA IndexedFacts ==
  ASSUME NEW f \in [Chats -> Bindings], NEW last \in Chats
  PROVE  /\ Indexed(f, last) \in [Slots -> Chats \cup {NoChat}]
         /\ \A s \in Slots : IF \E c \in Chats : f[c] = s
                             THEN /\ Indexed(f, last)[s] \in Chats
                                  /\ f[Indexed(f, last)[s]] = s
                             ELSE Indexed(f, last)[s] = NoChat
<1> DEFINE At(s) == IF f[last] = s THEN last
                    ELSE IF \E d \in Chats : f[d] = s THEN CHOOSE d \in Chats : f[d] = s
                    ELSE NoChat
<1>1. Indexed(f, last) = [s \in Slots |-> At(s)]
  BY DEF Indexed
<1>2. ASSUME NEW s \in Slots
      PROVE  IF \E c \in Chats : f[c] = s THEN At(s) \in Chats /\ f[At(s)] = s
                                          ELSE At(s) = NoChat
  <2>1. CASE f[last] = s
    BY <2>1
  <2>2. CASE f[last] # s /\ \E d \in Chats : f[d] = s
    <3>1. (CHOOSE d \in Chats : f[d] = s) \in Chats /\ f[CHOOSE d \in Chats : f[d] = s] = s
      BY <2>2
    <3>2. QED
      BY <2>2, <3>1
  <2>3. CASE ~\E d \in Chats : f[d] = s
    BY <2>3
  <2>4. QED
    BY <2>1, <2>2, <2>3
<1>3. \A s \in Slots : At(s) \in Chats \cup {NoChat}
  BY <1>2
<1> HIDE DEF At
<1>4. QED
  BY <1>1, <1>2, <1>3

\* Writing one conversation's binding.
LEMMA BindFacts ==
  ASSUME RegistryTypes, NEW c \in Chats, NEW b \in Bindings, NEW m, Bind(c, b, m)
  PROVE  /\ RegistryTypes' /\ stale' /\ down' = down
         /\ file' = [file EXCEPT ![c] = b]
         /\ disturbed \subseteq disturbed'
         /\ \A n \in Messages \ {m} : n \in disturbed' \/ chat[n] # c \/ file' = file
<1>1. file' = [file EXCEPT ![c] = b] /\ stale' = TRUE /\ UNCHANGED <<index, down>>
      /\ disturbed' = disturbed \cup Unsettled(file', m)
  BY DEF Bind, Commit
<1>2. Unsettled(file', m) \subseteq Messages
  BY DEF Unsettled
<1>3. file' \in [Chats -> Bindings]
  BY <1>1 DEF RegistryTypes
<1>4. ASSUME NEW n \in Messages \ {m}, n \notin disturbed', chat[n] = c PROVE file' = file
  <2>1. n \notin Unsettled(file', m)
    BY <1>1, <1>4
  <2>2. file'[c] = file[c]
    BY <2>1, <1>4 DEF Unsettled
  <2>3. QED
    BY <2>2, <1>1, <1>3 DEF RegistryTypes
<1>5. QED
  BY <1>1, <1>2, <1>3, <1>4 DEF RegistryTypes

\* Pruning a deleted team's bindings.
LEMMA PruneFacts ==
  ASSUME RegistryTypes, NEW t, DeregisterTeam(t)
  PROVE  /\ RegistryTypes' /\ down' = down
         /\ stale' \/ UNCHANGED <<file, index>>
         /\ disturbed \subseteq disturbed'
         /\ \A n \in Messages : n \in disturbed' \/ chat[n] \notin Chats
                                \/ file'[chat[n]] = file[chat[n]]
<1> DEFINE bound == {c \in Chats : file[c][1] = t}
           f == [c \in Chats |-> IF c \in bound THEN Unbound ELSE file[c]]
<1>1. CASE bound = {}
  <2>1. UNCHANGED bindings
    BY <1>1 DEF DeregisterTeam
  <2>2. QED
    BY <2>1 DEF bindings, registry, RegistryTypes
<1>2. CASE bound # {}
  <2>1. Commit(f, NoMessage) /\ UNCHANGED index
    BY <1>2 DEF DeregisterTeam
  <2>2. f \in [Chats -> Bindings]
    BY DEF RegistryTypes, Bindings
  <2> HIDE DEF f, bound
  <2>3. file' = f /\ stale' = TRUE /\ UNCHANGED <<index, down>>
        /\ disturbed' = disturbed \cup Unsettled(f, NoMessage)
    BY <2>1 DEF Commit
  <2>4. Unsettled(f, NoMessage) \subseteq Messages
    BY DEF Unsettled
  <2>5. ASSUME NEW n \in Messages, n \notin disturbed', chat[n] \in Chats
        PROVE  file'[chat[n]] = file[chat[n]]
    BY <2>3, <2>5, ChannelAssumption DEF Unsettled
  <2>6. QED
    BY <2>2, <2>3, <2>4, <2>5 DEF RegistryTypes
<1>3. QED
  BY <1>1, <1>2

\* Starting on a file: of what is gone from it, the messages are disturbed.
LEMMA BootFacts ==
  ASSUME RegistryTypes, NEW kept \in SUBSET Chats, Boot(kept)
  PROVE  /\ file' \in [Chats -> Bindings] /\ index' \in [Slots -> Chats \cup {NoChat}]
         /\ \E last \in Chats : index' = Indexed(file', last)
         /\ down' = FALSE
         /\ disturbed \subseteq disturbed' /\ disturbed' \subseteq Messages
         /\ \A n \in Messages : n \in disturbed' \/ chat[n] \notin Chats
                                \/ file'[chat[n]] = file[chat[n]]
<1>1. file' = [c \in Chats |-> IF c \in kept THEN file[c] ELSE Unbound]
  BY DEF Boot
<1>2. file' \in [Chats -> Bindings]
  BY <1>1 DEF RegistryTypes, Bindings
<1>3. PICK last \in Chats : index' = Indexed(file', last)
  BY DEF Boot
<1>4. index' \in [Slots -> Chats \cup {NoChat}]
  BY <1>2, <1>3, IndexedFacts
<1>5. disturbed' = disturbed \cup Unsettled(file', NoMessage) /\ down' = FALSE
  BY DEF Boot
<1>6. Unsettled(file', NoMessage) \subseteq Messages
  BY DEF Unsettled
<1>7. ASSUME NEW n \in Messages, n \notin disturbed', chat[n] \in Chats
      PROVE  file'[chat[n]] = file[chat[n]]
  BY <1>5, <1>7, ChannelAssumption DEF Unsettled
<1>8. QED
  BY <1>2, <1>3, <1>4, <1>5, <1>6, <1>7 DEF RegistryTypes

\* What a crash leaves of the registry: a server that has started, or none.
LEMMA CrashFacts ==
  ASSUME RegistryTypes, Crash
  PROVE  /\ RegistryTypes'
         /\ down' \/ \E last \in Chats : index' = Indexed(file', last)
         /\ disturbed \subseteq disturbed'
<1>1. ASSUME NEW kept \in SUBSET Chats, Boot(kept)
      PROVE  /\ RegistryTypes'
             /\ down' \/ \E last \in Chats : index' = Indexed(file', last)
             /\ disturbed \subseteq disturbed'
  <2>1. stale' = FALSE
    BY DEF Crash
  <2>2. QED
    BY <1>1, <2>1, BootFacts DEF RegistryTypes
<1>2. CASE down' = TRUE /\ index' = [s \in Slots |-> NoChat] /\ UNCHANGED <<file, disturbed>>
  <2>1. stale' = FALSE
    BY DEF Crash
  <2>2. QED
    BY <1>2, <2>1 DEF RegistryTypes
<1>3. QED
  BY <1>1, <1>2 DEF Crash

------------------------------------------------------------------------------
(* What a handler's step can be: it goes on, answers, fails or has sent *)

GoesOn(h) ==
  /\ pc[h] \notin {"free", "finish"}
  /\ \E step \in Steps \ {"finish"}, b \in Bindings :
       /\ Goto(h, step, b)
       /\ step \in {"bind", "first", "check", "who", "send"} => b # Unbound
  /\ UNCHANGED <<sent, due>>

Answers(h) ==
  /\ pc[h] # "free"
  /\ \E noticed \in BOOLEAN : Ack(h, noticed)
  /\ UNCHANGED <<sent, due>>

Fails(h) ==
  /\ pc[h] \notin {"free", "finish"}
  /\ Fail(h)
  /\ UNCHANGED <<sent, due>>

HasSent(h) ==
  /\ pc[h] \in {"first", "send"}
  /\ Goto(h, "finish", Unbound)
  /\ sent' = [sent EXCEPT ![msg[h]] = @ + 1]
  /\ due' = due \cup {<<msg[h], held[h]>>}
  /\ UNCHANGED bindings

\* The chat of a handler's message, and the binding it holds.
LEMMA InHandFacts ==
  ASSUME Typed, NEW h \in Handlers, pc[h] # "free"
  PROVE  /\ msg[h] \in Messages /\ chat[msg[h]] \in Chats /\ kind[msg[h]] \in AllKinds
         /\ file[chat[msg[h]]] \in Bindings /\ held[h] \in Bindings
<1>1. msg[h] \in Messages
  BY DEF Typed, HandlerTypes
<1>2. chat[msg[h]] \in Chats /\ kind[msg[h]] \in AllKinds
  BY <1>1 DEF Typed, Known
<1>3. QED
  BY <1>1, <1>2 DEF Typed, HandlerTypes, RegistryTypes

\* What every step of a handler leaves alone, and what it may do to the file.
LEMMA HandleFrame ==
  ASSUME Typed, NEW h \in Handlers, Handle(h)
  PROVE  /\ LoopFree
         /\ UNCHANGED <<chat, kind, doomed, log, script, replaying, got, lost, doubted>>
         /\ \/ UNCHANGED bindings
            \/ /\ pc[h] \in {"route", "bind"}
               /\ \E b \in Bindings : Bind(chat[msg[h]], b, msg[h])
<1>1. CASE CommandUnregister(h)
  BY <1>1 DEF CommandUnregister, Routes, routeRest, outbound, Release, Bindings
<1>2. CASE CommandStatus(h)
  BY <1>2 DEF CommandStatus, Routes, routeRest, outbound
<1>3. CASE CommandRegister(h)
  <2>1. \/ UNCHANGED bindings
        \/ \E t \in Teams, a \in Agents : Bind(chat[msg[h]], <<t, a>>, msg[h])
    BY <1>3 DEF CommandRegister
  <2>2. UNCHANGED bindings \/ \E b \in Bindings : Bind(chat[msg[h]], b, msg[h])
    BY <2>1, SlotFacts DEF Bindings
  <2>3. QED
    BY <1>3, <2>2 DEF CommandRegister, Routes, routeRest, outbound
<1>4. CASE CommandNew(h)
  BY <1>4 DEF CommandNew, Routes, routeRest, outbound, Release, Bindings
<1>5. CASE OnUnbound(h)
  BY <1>5 DEF OnUnbound, Routes, routeRest, outbound
<1>6. CASE CreateTeam(h)
  BY <1>6 DEF CreateTeam, outbound
<1>7. CASE BindSession(h)
  <2>1. held[h] \in Bindings
    BY DEF Typed, HandlerTypes
  <2>2. QED
    BY <1>7, <2>1 DEF BindSession, routeRest, outbound
<1>8. CASE SendFirst(h)
  BY <1>8 DEF SendFirst, SendOrRaise
<1>9. CASE Finish(h)
  BY <1>9 DEF Finish, routeRest, outbound
<1>10. CASE OnBound(h)
  BY <1>10 DEF OnBound, Routes, routeRest, outbound
<1>11. CASE BoundProcess(h)
  BY <1>11 DEF BoundProcess, routeRest, outbound
<1>12. CASE Reread(h)
  BY <1>12 DEF Reread, routeRest, outbound
<1>13. CASE DefaultRecipient(h)
  BY <1>13 DEF DefaultRecipient, routeRest, outbound
<1>14. CASE Send(h)
  BY <1>14 DEF Send, SendOrRaise
<1>15. QED
  BY <1>1, <1>2, <1>3, <1>4, <1>5, <1>6, <1>7, <1>8, <1>9, <1>10, <1>11, <1>12, <1>13,
     <1>14 DEF Handle

\* Sending, or failing to.
LEMMA SendShape ==
  ASSUME Typed, NEW h \in Handlers, NEW known \in BOOLEAN,
         pc[h] \in {"first", "send"}, SendOrRaise(h, known)
  PROVE  Fails(h) \/ HasSent(h)
<1>1. CASE teams[held[h][1]] = "live" /\ known
  BY <1>1 DEF SendOrRaise, HasSent
<1>2. CASE ~(teams[held[h][1]] = "live" /\ known)
  BY <1>2 DEF SendOrRaise, Fails
<1>3. QED
  BY <1>1, <1>2

\* Every step of a handler is one of the four.
LEMMA HandleShape ==
  ASSUME Typed, NEW h \in Handlers, Handle(h)
  PROVE  GoesOn(h) \/ Answers(h) \/ Fails(h) \/ HasSent(h)
<1> Unbound \in Bindings
  BY DEF Bindings
<1>1. CASE CommandUnregister(h) \/ CommandStatus(h) \/ CommandRegister(h)
  BY <1>1 DEF CommandUnregister, CommandStatus, CommandRegister, Routes, routeRest, outbound,
              Answers
<1>2. CASE CommandNew(h) \/ OnUnbound(h)
  <2>1. pc[h] = "route" /\ Goto(h, "create", Unbound) /\ UNCHANGED <<sent, due>>
    BY <1>2 DEF CommandNew, OnUnbound, Routes, routeRest, outbound
  <2>2. QED
    BY <2>1 DEF GoesOn, Steps
<1>3. CASE CreateTeam(h)
  <2>1. pc[h] = "create" /\ UNCHANGED <<sent, due>>
        /\ (Fail(h) \/ \E t \in Teams : Goto(h, "bind", <<t, "entry">>))
    BY <1>3 DEF CreateTeam, outbound
  <2>2. ASSUME NEW t \in Teams, Goto(h, "bind", <<t, "entry">>)
        PROVE  GoesOn(h)
    <3>1. <<t, "entry">> \in Slots /\ <<t, "entry">> # Unbound
      BY SlotFacts, CrewFacts
    <3>2. QED
      BY <2>1, <2>2, <3>1 DEF GoesOn, Bindings, Steps
  <2>3. QED
    BY <2>1, <2>2 DEF Fails
<1>4. CASE BindSession(h)
  <2>1. pc[h] = "bind" /\ UNCHANGED <<sent, due>> /\ (Ack(h, TRUE) \/ Goto(h, "first", held[h]))
    BY <1>4 DEF BindSession, routeRest, outbound
  <2>2. held[h] \in Bindings /\ held[h] # Unbound
    BY <2>1 DEF Typed, HandlerTypes
  <2>3. QED
    BY <2>1, <2>2 DEF GoesOn, Answers, Steps
<1>5. CASE SendFirst(h) \/ Send(h)
  <2>1. \E known \in BOOLEAN : pc[h] \in {"first", "send"} /\ SendOrRaise(h, known)
    BY <1>5 DEF SendFirst, Send
  <2>2. QED
    BY <2>1, SendShape
<1>6. CASE Finish(h)
  BY <1>6 DEF Finish, routeRest, outbound, Answers
<1>7. CASE OnBound(h)
  <2>1. /\ pc[h] = "route" /\ UNCHANGED <<sent, due>> /\ file[chat[msg[h]]] # Unbound
        /\ (Ack(h, FALSE) \/ Goto(h, "check", file[chat[msg[h]]]))
    BY <1>7 DEF OnBound, Routes, routeRest, outbound
  <2>2. file[chat[msg[h]]] \in Bindings
    BY <2>1, InHandFacts
  <2>3. QED
    BY <2>1, <2>2 DEF GoesOn, Answers, Steps
<1>8. CASE BoundProcess(h)
  <2>1. /\ pc[h] = "check" /\ UNCHANGED <<sent, due>>
        /\ (Ack(h, TRUE) \/ Goto(h, "reread", Unbound))
    BY <1>8 DEF BoundProcess, routeRest, outbound
  <2>2. Goto(h, "reread", Unbound) => GoesOn(h)
    BY <2>1 DEF GoesOn, Steps
  <2>3. Ack(h, TRUE) => Answers(h)
    BY <2>1 DEF Answers
  <2>4. QED
    BY <2>1, <2>2, <2>3
<1>9. CASE Reread(h)
  <2>1. /\ pc[h] = "reread" /\ UNCHANGED <<sent, due>>
        /\ \/ Ack(h, FALSE)
           \/ /\ file[chat[msg[h]]] # Unbound
              /\ \E step \in {"who", "send"} : Goto(h, step, file[chat[msg[h]]])
    BY <1>9 DEF Reread, routeRest, outbound
  <2>2. file[chat[msg[h]]] \in Bindings
    BY <2>1, InHandFacts
  <2>3. QED
    BY <2>1, <2>2 DEF GoesOn, Answers, Steps
<1>10. CASE DefaultRecipient(h)
  <2>1. /\ pc[h] = "who" /\ UNCHANGED <<sent, due>>
        /\ (Fail(h) \/ Ack(h, TRUE) \/ Goto(h, "send", held[h]))
    BY <1>10 DEF DefaultRecipient, routeRest, outbound
  <2>2. held[h] \in Bindings /\ held[h] # Unbound
    BY <2>1 DEF Typed, HandlerTypes
  <2>3. QED
    BY <2>1, <2>2 DEF GoesOn, Answers, Fails, Steps
<1>11. QED
  BY <1>1, <1>2, <1>3, <1>4, <1>5, <1>6, <1>7, <1>8, <1>9, <1>10 DEF Handle

------------------------------------------------------------------------------
(* Every step keeps the types *)

\* A handler that goes on.
LEMMA GoesOnTypes ==
  ASSUME Typed, NEW h \in Handlers, GoesOn(h) \/ HasSent(h)
  PROVE  HandlerTypes'
<1>1. PICK step \in Steps, b \in Bindings :
         /\ pc[h] # "free" /\ Goto(h, step, b)
         /\ step \in {"bind", "first", "check", "who", "send"} => b # Unbound
  BY DEF GoesOn, HasSent, Steps, Bindings
<1>2. pc' = [pc EXCEPT ![h] = step] /\ held' = [held EXCEPT ![h] = b]
      /\ UNCHANGED <<msg, state, told>>
  BY <1>1 DEF Goto
<1>3. step # "free" /\ step \in {"free", "route"} \cup Steps
  BY DEF Steps
<1>4. pc' \in [Handlers -> {"free", "route"} \cup Steps] /\ held' \in [Handlers -> Bindings]
  BY <1>2, <1>3 DEF Typed, HandlerTypes
<1>5. \A g \in Handlers :
        /\ (pc'[g] = "free") = (msg'[g] = NoMessage)
        /\ pc'[g] \in {"bind", "first", "check", "who", "send"} => held'[g] # Unbound
  BY <1>1, <1>2, <1>3 DEF Typed, HandlerTypes
<1>6. QED
  BY <1>2, <1>4, <1>5 DEF Typed, HandlerTypes

\* A handler that is done.
LEMMA LeaveTypes ==
  ASSUME Typed, NEW h \in Handlers, Answers(h) \/ Fails(h)
  PROVE  HandlerTypes'
<1>1. /\ pc' = [pc EXCEPT ![h] = "free"] /\ msg' = [msg EXCEPT ![h] = NoMessage]
      /\ held' = [held EXCEPT ![h] = Unbound]
  BY DEF Answers, Fails, Ack, Fail, Leave
<1>2. msg[h] \in Messages
  BY InHandFacts DEF Answers, Fails
<1>3. \/ UNCHANGED <<state, told>>
      \/ state' = [state EXCEPT ![msg[h]] = "acked"] /\ told' \in {told, told \cup {msg[h]}}
  BY DEF Answers, Fails, Ack, Fail
<1>4. state' \in [Messages -> {"unsent", "pending", "acked"}] /\ told' \subseteq Messages
  BY <1>2, <1>3 DEF Typed, HandlerTypes
<1>5. /\ pc' \in [Handlers -> {"free", "route"} \cup Steps]
      /\ msg' \in [Handlers -> Messages \cup {NoMessage}]
      /\ held' \in [Handlers -> Bindings]
  BY <1>1 DEF Typed, HandlerTypes, Bindings
<1>6. \A g \in Handlers :
        /\ (pc'[g] = "free") = (msg'[g] = NoMessage)
        /\ pc'[g] \in {"bind", "first", "check", "who", "send"} => held'[g] # Unbound
  BY <1>1 DEF Typed, HandlerTypes
<1>7. QED
  BY <1>4, <1>5, <1>6 DEF HandlerTypes

\* What is known of a handler's message stays known.
LEMMA HandleKnown ==
  ASSUME Typed, NEW h \in Handlers, Handle(h)
  PROVE  Known'
<1>1. UNCHANGED <<chat, kind>>
  BY HandleFrame
<1>2. \A m \in Messages : state'[m] # "unsent" => state[m] # "unsent" \/ m = msg[h]
  BY HandleShape DEF GoesOn, HasSent, Answers, Fails, Goto, Ack, Fail, Typed, HandlerTypes
<1>3. \A m \in Messages : state[m] # "unsent" => state'[m] # "unsent"
  BY HandleShape DEF GoesOn, HasSent, Answers, Fails, Goto, Ack, Fail, Typed, HandlerTypes
<1>4. pc[h] # "free"
  BY HandleShape DEF GoesOn, HasSent, Answers, Fails
<1>5. state[msg[h]] # "unsent"
  BY <1>4 DEF Typed, Known
<1>6. \A g \in Handlers : pc'[g] # "free" => pc[g] # "free" /\ msg'[g] = msg[g]
  BY <1>4, HandleShape DEF GoesOn, HasSent, Answers, Fails, Goto, Ack, Fail, Leave, Typed,
                           HandlerTypes
<1>7. \A g \in Handlers : pc[g] # "free" => msg[g] \in Messages
  BY DEF Typed, HandlerTypes
<1>8. QED
  BY <1>1, <1>2, <1>3, <1>5, <1>6, <1>7 DEF Typed, Known

\* What is sent has a binding.
LEMMA HandleOutbound ==
  ASSUME Typed, NEW h \in Handlers, Handle(h)
  PROVE  OutboundTypes'
<1>1. UNCHANGED <<log, script, replaying, got, lost>>
  BY HandleFrame
<1>2. CASE UNCHANGED <<sent, due>>
  BY <1>1, <1>2 DEF Typed, OutboundTypes
<1>3. CASE HasSent(h)
  <2>1. msg[h] \in Messages /\ held[h] \in Slots
    BY <1>3, InHandFacts DEF HasSent, Typed, HandlerTypes, Bindings
  <2>2. due' \subseteq Messages \X Slots
    BY <1>3, <2>1 DEF HasSent, Typed, OutboundTypes
  <2>3. sent' \in [Messages -> Nat]
    BY <1>3, <2>1 DEF HasSent, Typed, OutboundTypes
  <2>4. QED
    BY <1>1, <2>2, <2>3 DEF Typed, OutboundTypes
<1>4. QED
  BY <1>2, <1>3, HandleShape DEF GoesOn, Answers, Fails

\* Only CreateTeam touches teams and incidents.
LEMMA HandleServer ==
  ASSUME Typed, NEW h \in Handlers, Handle(h)
  PROVE  ServerTypes'
<1>1. CASE CreateTeam(h)
  <2>1. teams' \in [Teams -> {"none", "live", "deleted"}]
    BY <1>1 DEF CreateTeam, Typed, ServerTypes
  <2>2. incidents' \in 0 .. MaxIncidents
    BY <1>1, ChannelAssumption DEF CreateTeam, Typed, ServerTypes
  <2>3. QED
    BY <2>1, <2>2, HandleFrame DEF Typed, ServerTypes
<1>2. CASE ~CreateTeam(h)
  <2>1. UNCHANGED <<teams, incidents>>
    BY <1>2 DEF Handle, CommandUnregister, CommandStatus, CommandRegister, CommandNew, OnUnbound,
                BindSession, SendFirst, Finish, OnBound, BoundProcess, Reread, DefaultRecipient,
                Send, SendOrRaise, routeRest
  <2>2. QED
    BY <2>1, HandleFrame DEF Typed, ServerTypes
<1>3. QED
  BY <1>1, <1>2

\* Every step of a handler.
LEMMA HandleTypes ==
  ASSUME Typed, NEW h \in Handlers, Handle(h)
  PROVE  Typed'
<1>1. RegistryTypes'
  <2>1. CASE UNCHANGED bindings
    BY <2>1 DEF bindings, registry, Typed, RegistryTypes
  <2>2. ASSUME NEW b \in Bindings, Bind(chat[msg[h]], b, msg[h]), pc[h] # "free"
        PROVE  RegistryTypes'
    BY <2>2, InHandFacts, BindFacts DEF Typed
  <2>3. QED
    BY <2>1, <2>2, HandleFrame
<1>2. HandlerTypes'
  BY HandleShape, GoesOnTypes, LeaveTypes
<1>3. InboundTypes'
  BY HandleFrame DEF Typed, InboundTypes
<1>4. QED
  BY <1>1, <1>2, <1>3, HandleOutbound, HandleServer, HandleKnown DEF Typed

\* A message arrives.
LEMMA DeliverTypes ==
  ASSUME Typed, NEW h \in Handlers, NEW m \in Messages, Deliver(h, m)
  PROVE  Typed'
<1>1. /\ state' = [state EXCEPT ![m] = "pending"] /\ msg' = [msg EXCEPT ![h] = m]
      /\ pc' = [pc EXCEPT ![h] = "route"] /\ pc[h] = "free"
      /\ UNCHANGED <<teams, file, index, stale, down, disturbed, held, doomed, due, log,
                     script, replaying, got, lost, told, sent>>
  BY DEF Deliver, bindings, registry, outbound
<1>2. HandlerTypes'
  <2>1. /\ state' \in [Messages -> {"unsent", "pending", "acked"}]
        /\ pc' \in [Handlers -> {"free", "route"} \cup Steps]
        /\ msg' \in [Handlers -> Messages \cup {NoMessage}]
    BY <1>1 DEF Typed, HandlerTypes
  <2>2. \A g \in Handlers :
          /\ (pc'[g] = "free") = (msg'[g] = NoMessage)
          /\ pc'[g] \in {"bind", "first", "check", "who", "send"} => held'[g] # Unbound
    BY <1>1, ChannelAssumption DEF Typed, HandlerTypes
  <2>3. QED
    BY <1>1, <2>1, <2>2 DEF Typed, HandlerTypes
<1>3. CASE UNCHANGED <<chat, kind>> /\ state[m] = "pending"
  <2>1. InboundTypes'
    BY <1>3 DEF Deliver, Typed, InboundTypes
  <2>2. Known'
    BY <1>1, <1>3 DEF Typed, Known, HandlerTypes
  <2>3. incidents' \in 0 .. MaxIncidents
    BY ChannelAssumption DEF Deliver, Typed, ServerTypes
  <2>4. QED
    BY <1>1, <1>2, <2>1, <2>2, <2>3 DEF Typed, RegistryTypes, OutboundTypes, ServerTypes
<1>4. CASE state[m] = "unsent"
  <2>1. PICK c \in Chats, k \in AllKinds :
           chat' = [chat EXCEPT ![m] = c] /\ kind' = [kind EXCEPT ![m] = k]
    BY <1>4 DEF Deliver
  <2>2. UNCHANGED <<incidents, doubted>>
    BY <1>4 DEF Deliver
  <2>3. InboundTypes'
    BY <2>1, <2>2 DEF Typed, InboundTypes
  <2>4. \A n \in Messages : state'[n] # "unsent" => chat'[n] \in Chats /\ kind'[n] \in AllKinds
    BY <1>1, <2>1 DEF Typed, Known, HandlerTypes, InboundTypes
  <2>5. \A g \in Handlers : pc'[g] # "free" => state'[msg'[g]] # "unsent"
    BY <1>1 DEF Typed, Known, HandlerTypes
  <2>6. QED
    BY <1>1, <1>2, <2>2, <2>3, <2>4, <2>5 DEF Typed, Known, RegistryTypes, OutboundTypes,
                                              ServerTypes
<1>5. QED
  BY <1>3, <1>4 DEF Deliver

\* An answer is dispatched: its chat gets it, or it is lost, or neither.
LEMMA DispatchTypes ==
  ASSUME Typed, NEW d \in Messages \X Slots, Dispatch(d[1], d[2])
  PROVE  got' \in [Messages -> Nat] /\ lost' \subseteq Messages
<1>1. d[1] \in Messages
  OBVIOUS
<1>2. got' = got \/ got' = [got EXCEPT ![d[1]] = @ + 1]
  BY DEF Dispatch
<1>3. lost' \subseteq lost \cup {d[1]}
  BY DEF Dispatch
<1>4. QED
  BY <1>1, <1>2, <1>3 DEF Typed, OutboundTypes

\* A step beside the handlers that leaves them and their messages alone.
LEMMA BesideTypes ==
  ASSUME Typed, RegistryTypes', OutboundTypes', ServerTypes',
         UNCHANGED <<inbound, handlers, told, doubted>>
  PROVE  Typed'
<1>1. UNCHANGED <<chat, kind, state, pc, msg, held, told, doubted>>
  BY DEF inbound, handlers
<1>2. QED
  BY <1>1 DEF Typed, HandlerTypes, InboundTypes, Known

\* The steps of the dispatcher and of the index.
LEMMA DispatcherTypes ==
  ASSUME Typed,
         \/ Reindex
         \/ \E d \in due : Answer(d)
         \/ \E d \in script : Replay(d)
         \/ \E t \in Teams : Restore(t) \/ Restored(t)
  PROVE  Typed'
<1>1. CASE Reindex
  <2>1. PICK last \in Chats : index' = Indexed(file, last)
    BY <1>1 DEF Reindex
  <2>2. index' \in [Slots -> Chats \cup {NoChat}]
    BY <2>1, IndexedFacts DEF Typed, RegistryTypes
  <2>3. RegistryTypes'
    BY <1>1, <2>2 DEF Reindex, history, Typed, RegistryTypes
  <2>4. OutboundTypes' /\ ServerTypes'
    BY <1>1 DEF Reindex, history, outbound, Typed, OutboundTypes, ServerTypes
  <2>5. QED
    BY <1>1, <2>3, <2>4, BesideTypes DEF Reindex, history
<1>2. ASSUME NEW d \in due, Answer(d) PROVE Typed'
  <2>1. d \in Messages \X Slots
    BY DEF Typed, OutboundTypes
  <2>2. got' \in [Messages -> Nat] /\ lost' \subseteq Messages
    BY <1>2, <2>1, DispatchTypes DEF Answer
  <2>3. OutboundTypes'
    BY <1>2, <2>1, <2>2 DEF Answer, history, Typed, OutboundTypes
  <2>4. RegistryTypes' /\ ServerTypes'
    BY <1>2 DEF Answer, history, registry, Typed, RegistryTypes, ServerTypes
  <2>5. QED
    BY <1>2, <2>3, <2>4, BesideTypes DEF Answer, history
<1>3. ASSUME NEW d \in script, Replay(d) PROVE Typed'
  <2>1. d \in Messages \X Slots
    BY DEF Typed, OutboundTypes
  <2>2. got' \in [Messages -> Nat] /\ lost' \subseteq Messages
    BY <1>3, <2>1, DispatchTypes DEF Replay
  <2>3. OutboundTypes'
    BY <1>3, <2>1, <2>2 DEF Replay, history, Typed, OutboundTypes
  <2>4. RegistryTypes' /\ ServerTypes'
    BY <1>3 DEF Replay, history, registry, Typed, RegistryTypes, ServerTypes
  <2>5. QED
    BY <1>3, <2>3, <2>4, BesideTypes DEF Replay, history
<1>4. ASSUME NEW t \in Teams, Restore(t) PROVE Typed'
  <2>1. OutboundTypes'
    BY <1>4 DEF Restore, history, Typed, OutboundTypes
  <2>2. RegistryTypes' /\ ServerTypes'
    BY <1>4, ChannelAssumption DEF Restore, history, registry, Typed, RegistryTypes, ServerTypes
  <2>3. QED
    BY <1>4, <2>1, <2>2, BesideTypes DEF Restore, history
<1>5. ASSUME NEW t \in Teams, Restored(t) PROVE Typed'
  <2>1. OutboundTypes'
    BY <1>5 DEF Restored, history, Typed, OutboundTypes
  <2>2. RegistryTypes' /\ ServerTypes'
    BY <1>5 DEF Restored, history, registry, Typed, RegistryTypes, ServerTypes
  <2>3. QED
    BY <1>5, <2>1, <2>2, BesideTypes DEF Restored, history
<1>6. QED
  BY <1>1, <1>2, <1>3, <1>4, <1>5

\* The delete route.
LEMMA DeletionTypes ==
  ASSUME Typed, NEW t \in Teams, DeleteTeam(t) \/ DeregisterTeam(t)
  PROVE  Typed'
<1>1. CASE DeleteTeam(t)
  <2>1. OutboundTypes'
    BY <1>1 DEF DeleteTeam, history, Typed, OutboundTypes
  <2>2. RegistryTypes'
    BY <1>1 DEF DeleteTeam, history, registry, Typed, RegistryTypes
  <2>3. teams' \in [Teams -> {"none", "live", "deleted"}] /\ doomed' \subseteq Teams
    BY <1>1 DEF DeleteTeam, Typed, ServerTypes
  <2>4. incidents' \in 0 .. MaxIncidents
    BY <1>1, ChannelAssumption DEF DeleteTeam, Typed, ServerTypes
  <2>5. QED
    BY <1>1, <2>1, <2>2, <2>3, <2>4, BesideTypes DEF DeleteTeam, history, ServerTypes
<1>2. CASE DeregisterTeam(t)
  <2>1. RegistryTypes'
    BY <1>2, PruneFacts DEF Typed
  <2>2. OutboundTypes' /\ ServerTypes'
    BY <1>2 DEF DeregisterTeam, outbound, Typed, OutboundTypes, ServerTypes
  <2>3. QED
    BY <1>2, <2>1, <2>2, BesideTypes DEF DeregisterTeam
<1>3. QED
  BY <1>1, <1>2

\* A crash empties the hands of the server and may take from its file.
LEMMA CrashTypes ==
  ASSUME Typed, Crash
  PROVE  Typed'
<1>4. RegistryTypes'
  BY CrashFacts DEF Typed
<1>5. HandlerTypes'
  <2>1. \A h \in Handlers : pc'[h] = "free" /\ msg'[h] = NoMessage /\ held'[h] = Unbound
    BY DEF Crash
  <2>2. pc' \in [Handlers -> {"free", "route"} \cup Steps]
        /\ msg' \in [Handlers -> Messages \cup {NoMessage}] /\ held' \in [Handlers -> Bindings]
    BY DEF Crash, Bindings
  <2>3. state' = state /\ told' = told
    BY DEF Crash, inbound
  <2>4. QED
    BY <2>1, <2>2, <2>3 DEF Typed, HandlerTypes
<1>6. OutboundTypes'
  BY DEF Crash, Typed, OutboundTypes
<1>7. InboundTypes'
  <2>1. InHand \subseteq Messages
    BY DEF InHand, Typed, HandlerTypes
  <2>2. QED
    BY <2>1 DEF Crash, inbound, Typed, InboundTypes
<1>8. ServerTypes'
  BY ChannelAssumption DEF Crash, Typed, ServerTypes
<1>9. Known'
  BY DEF Crash, inbound, Typed, Known
<1>10. QED
  BY <1>4, <1>5, <1>6, <1>7, <1>8, <1>9 DEF Typed

\* A file that was repaired.
LEMMA RepairTypes ==
  ASSUME Typed, Repair
  PROVE  Typed'
<1>1. PICK kept \in SUBSET Chats : Boot(kept)
  BY DEF Repair
<1>2. RegistryTypes'
  BY <1>1, BootFacts DEF Repair, Typed, RegistryTypes
<1>3. OutboundTypes' /\ ServerTypes'
  BY DEF Repair, outbound, Typed, OutboundTypes, ServerTypes
<1>4. QED
  BY <1>2, <1>3, BesideTypes DEF Repair

\* One step per action.
LEMMA TypedStep == Typed /\ [Next]_vars => Typed'
<1> SUFFICES ASSUME Typed, [Next]_vars PROVE Typed'
  OBVIOUS
<1>1. CASE UNCHANGED vars
  <2>1. UNCHANGED <<teams, file, index, stale, down, chat, kind, state, pc, msg, held, doomed, due,
                    log, script, replaying, got, lost, incidents, told, sent, disturbed, doubted>>
    BY <1>1 DEF vars, registry, inbound, handlers, outbound, history
  <2>2. QED
    BY <2>1 DEF Typed, RegistryTypes, HandlerTypes, OutboundTypes, InboundTypes, ServerTypes,
                Known
<1>2. QED
  BY <1>1, DeliverTypes, HandleTypes, DispatcherTypes, DeletionTypes, CrashTypes, RepairTypes DEF Next

\* A server that has seen nothing.
LEMMA TypedInit == Init => Typed
<1> SUFFICES ASSUME Init PROVE Typed
  OBVIOUS
<1>1. RegistryTypes
  BY DEF Init, RegistryTypes, Bindings
<1>2. HandlerTypes
  BY DEF Init, HandlerTypes, Bindings
<1>3. OutboundTypes /\ InboundTypes
  BY DEF Init, OutboundTypes, InboundTypes
<1>4. ServerTypes /\ Known
  BY ChannelAssumption DEF Init, ServerTypes, Known
<1>5. QED
  BY <1>1, <1>2, <1>3, <1>4 DEF Typed

------------------------------------------------------------------------------
(* The index follows the file *)

\* Whoever writes the file leaves it to Reindex, or is Reindex, or starts anew.
LEMMA IndexStep ==
  ASSUME Typed, IndexMatchesFile, [Next]_vars
  PROVE  IndexMatchesFile'
<1>1. CASE UNCHANGED registry
  BY <1>1 DEF registry, IndexMatchesFile, LoopFree
<1>2. ASSUME stale' PROVE IndexMatchesFile'
  BY <1>2 DEF IndexMatchesFile, LoopFree
<1>3. ASSUME NEW last \in Chats, index' = Indexed(file', last), file' \in [Chats -> Bindings]
      PROVE  IndexMatchesFile'
  <2>1. \A s \in Slots : IF \E c \in Chats : file'[c] = s
                         THEN index'[s] \in Chats /\ file'[index'[s]] = s
                         ELSE index'[s] = NoChat
    BY <1>3, IndexedFacts
  <2>2. QED
    BY <2>1, ChannelAssumption DEF IndexMatchesFile
<1>4. CASE Reindex
  BY <1>3, <1>4 DEF Reindex, Typed, RegistryTypes
<1>5. CASE Crash \/ Repair
  <2>1. RegistryTypes'
    BY <1>5, CrashTypes, RepairTypes DEF Typed
  <2>2. down' \/ \E last \in Chats : index' = Indexed(file', last)
    BY <1>5, CrashFacts, BootFacts DEF Repair, Typed
  <2>3. down' => IndexMatchesFile'
    BY DEF IndexMatchesFile
  <2>4. QED
    BY <1>3, <2>1, <2>2, <2>3 DEF RegistryTypes
<1>6. ASSUME NEW h \in Handlers, Handle(h) PROVE IndexMatchesFile'
  <2>1. CASE UNCHANGED bindings
    BY <1>1, <2>1 DEF bindings
  <2>2. ASSUME NEW b \in Bindings, Bind(chat[msg[h]], b, msg[h]) PROVE IndexMatchesFile'
    BY <1>2, <2>2 DEF Bind, Commit
  <2>3. QED
    BY <1>6, <2>1, <2>2, HandleFrame
<1>7. ASSUME NEW t \in Teams, DeregisterTeam(t) PROVE IndexMatchesFile'
  <2>1. CASE UNCHANGED <<file, index>>
    <3>1. stale' \/ UNCHANGED registry
      BY <1>7 DEF DeregisterTeam, Commit, bindings
    <3>2. QED
      BY <1>1, <1>2, <3>1
  <2>2. QED
    BY <1>2, <1>7, <2>1, PruneFacts DEF Typed
<1>8. ASSUME NEW h \in Handlers, NEW m \in Messages, Deliver(h, m) PROVE IndexMatchesFile'
  BY <1>1, <1>8 DEF Deliver, bindings
<1>9. CASE \/ \E d \in due : Answer(d)
           \/ \E d \in script : Replay(d)
           \/ \E t \in Teams : Restore(t) \/ Restored(t) \/ DeleteTeam(t)
  BY <1>1, <1>9 DEF Answer, Replay, Restore, Restored, DeleteTeam
<1>10. CASE UNCHANGED vars
  BY <1>1, <1>10 DEF vars
<1>11. QED
  BY <1>4, <1>5, <1>6, <1>7, <1>8, <1>9, <1>10 DEF Next

------------------------------------------------------------------------------
(* What a handler knows when it gets to a step, and when it answers *)

Asking == {"text", "named", "misnamed"}

\* Where a step of a handler takes it from, and what it has read.
LEMMA HandleLands ==
  ASSUME Typed, NEW h \in Handlers, Handle(h)
  PROVE  /\ pc'[h] = "check" => /\ kind[msg[h]] \in Asking /\ file[chat[msg[h]]] # Unbound
                                /\ UNCHANGED bindings
         /\ pc'[h] = "reread" => pc[h] = "check" /\ UNCHANGED bindings
         /\ pc'[h] \in {"who", "send"} =>
              /\ UNCHANGED bindings
              /\ \/ pc[h] = "reread" /\ held'[h] = file[chat[msg[h]]]
                 \/ pc[h] = "who" /\ held'[h] = held[h]
         /\ pc'[h] = "first" => held'[h] = file'[chat[msg[h]]]
<1> pc \in [Handlers -> {"free", "route"} \cup Steps] /\ held \in [Handlers -> Bindings]
  BY DEF Typed, HandlerTypes
<1>1. CASE CommandUnregister(h) \/ CommandStatus(h) \/ CommandRegister(h) \/ Finish(h)
  <2>1. pc'[h] = "free"
    BY <1>1 DEF CommandUnregister, CommandStatus, CommandRegister, Finish, Ack, Leave
  <2>2. QED
    BY <2>1
<1>2. CASE CommandNew(h) \/ OnUnbound(h)
  <2>1. pc'[h] = "create"
    BY <1>2 DEF CommandNew, OnUnbound, Goto
  <2>2. QED
    BY <2>1
<1>3. CASE CreateTeam(h)
  <2>1. pc'[h] \in {"free", "bind"}
    BY <1>3 DEF CreateTeam, Goto, Fail, Leave
  <2>2. QED
    BY <2>1
<1>4. CASE BindSession(h)
  <2>1. pc'[h] \in {"free", "first"} /\ (pc'[h] = "first" => held'[h] = held[h])
    BY <1>4 DEF BindSession, Goto, Ack, Leave
  <2>2. file' = [file EXCEPT ![chat[msg[h]]] = held[h]]
    BY <1>4 DEF BindSession, Bind, Commit
  <2>3. chat[msg[h]] \in Chats
    BY <1>4, InHandFacts DEF BindSession
  <2>4. QED
    BY <2>1, <2>2, <2>3 DEF Typed, RegistryTypes
<1>5. CASE SendFirst(h) \/ Send(h)
  <2>1. pc'[h] \in {"free", "finish"}
    BY <1>5 DEF SendFirst, Send, SendOrRaise, Goto, Fail, Leave
  <2>2. QED
    BY <2>1
<1>6. CASE OnBound(h)
  <2>1. pc'[h] \in {"free", "check"} /\ (pc'[h] = "check" => kind[msg[h]] # "blank")
    BY <1>6 DEF OnBound, Goto, Ack, Leave
  <2>2. kind[msg[h]] \in Spoken /\ file[chat[msg[h]]] # Unbound /\ UNCHANGED bindings
    BY <1>6 DEF OnBound, Routes
  <2>3. QED
    BY <2>1, <2>2 DEF Spoken, Asking
<1>7. CASE BoundProcess(h)
  <2>1. pc[h] = "check" /\ pc'[h] \in {"free", "reread"} /\ UNCHANGED bindings
    BY <1>7 DEF BoundProcess, Goto, Ack, Leave
  <2>2. QED
    BY <2>1
<1>8. CASE Reread(h)
  <2>1. /\ pc[h] = "reread" /\ pc'[h] \in {"free", "who", "send"} /\ UNCHANGED bindings
        /\ pc'[h] # "free" => held'[h] = file[chat[msg[h]]]
    BY <1>8 DEF Reread, Goto, Ack, Leave
  <2>2. QED
    BY <2>1
<1>9. CASE DefaultRecipient(h)
  <2>1. /\ pc[h] = "who" /\ pc'[h] \in {"free", "send"} /\ UNCHANGED bindings
        /\ pc'[h] # "free" => held'[h] = held[h]
    BY <1>9 DEF DefaultRecipient, Goto, Ack, Fail, Leave
  <2>2. QED
    BY <2>1
<1>10. QED
  BY <1>1, <1>2, <1>3, <1>4, <1>5, <1>6, <1>7, <1>8, <1>9 DEF Handle

\* A message that a step answers without a word was blank, or its binding is gone.
LEMMA QuietAnswer ==
  ASSUME Typed, NEW h \in Handlers, Handle(h), pc[h] # "free",
         state[msg[h]] # "acked", state'[msg[h]] = "acked", msg[h] \notin told'
  PROVE  \/ kind[msg[h]] = "blank"
         \/ pc[h] = "reread" /\ file[chat[msg[h]]] = Unbound
<1>1. ~Ack(h, TRUE) /\ ~Fail(h) /\ \A step, b : ~Goto(h, step, b)
  BY DEF Ack, Fail, Goto
<1>2. ~CommandUnregister(h) /\ ~CommandStatus(h) /\ ~CommandRegister(h) /\ ~CommandNew(h)
  BY <1>1 DEF CommandUnregister, CommandStatus, CommandRegister, CommandNew
<1>3. ~OnUnbound(h) /\ ~CreateTeam(h) /\ ~BindSession(h) /\ ~Finish(h)
  BY <1>1 DEF OnUnbound, CreateTeam, BindSession, Finish
<1>4. ~SendFirst(h) /\ ~Send(h)
  BY <1>1 DEF SendFirst, Send, SendOrRaise
<1>5. ~BoundProcess(h) /\ ~DefaultRecipient(h)
  BY <1>1 DEF BoundProcess, DefaultRecipient
<1>6. CASE OnBound(h)
  BY <1>1, <1>6 DEF OnBound
<1>7. CASE Reread(h)
  BY <1>1, <1>7 DEF Reread
<1>8. QED
  BY <1>2, <1>3, <1>4, <1>5, <1>6, <1>7 DEF Handle

------------------------------------------------------------------------------
(* Acknowledged messages *)

\* Only a message that is meant for the bound team gets past the check.
KindsFit ==
  \A h \in Handlers : pc[h] \in {"check", "reread", "who", "send"} => kind[msg[h]] \in Asking

\* A handler that found a binding finds one again, unless somebody else changed it.
StillBound ==
  \A h \in Handlers : pc[h] \in {"check", "reread"}
                      => msg[h] \in disturbed \/ file[chat[msg[h]]] # Unbound

ReplyInv == KindsFit /\ StillBound /\ AckedMessagesAreAccounted

\* A message in hand has been delivered, so that a delivery of another one, or of
\* the same one again, leaves its chat and its kind.
LEMMA DeliverFrame ==
  ASSUME Typed, NEW h \in Handlers, NEW m \in Messages, Deliver(h, m)
  PROVE  /\ \A n \in Messages : state[n] # "unsent" => chat'[n] = chat[n] /\ kind'[n] = kind[n]
         /\ pc' = [pc EXCEPT ![h] = "route"] /\ msg' = [msg EXCEPT ![h] = m]
         /\ state' = [state EXCEPT ![m] = "pending"] /\ state[m] # "acked" /\ pc[h] = "free"
         /\ UNCHANGED <<file, index, stale, down, disturbed, held, told, sent, due, got, lost,
                        script, replaying>>
         /\ doubted \subseteq doubted'
<1>1. CASE state[m] = "unsent"
  <2>1. \E c \in Chats, k \in AllKinds :
           chat' = [chat EXCEPT ![m] = c] /\ kind' = [kind EXCEPT ![m] = k]
    BY <1>1 DEF Deliver
  <2>2. \A n \in Messages : state[n] # "unsent" => chat'[n] = chat[n] /\ kind'[n] = kind[n]
    BY <1>1, <2>1 DEF Typed, InboundTypes
  <2>3. QED
    BY <1>1, <2>2 DEF Deliver, bindings, registry, outbound
<1>2. CASE state[m] = "pending"
  BY <1>2 DEF Deliver, bindings, registry, outbound
<1>3. QED
  BY <1>1, <1>2 DEF Deliver

\* A binding that a handler of an asking message has found stays, or the message is
\* disturbed: the message itself can only bind its chat anew.
LEMMA BindingStays ==
  ASSUME Typed, NEW h \in Handlers, Handle(h),
         NEW n \in Messages, kind[n] \in Asking, chat[n] \in Chats,
         n \in disturbed \/ file[chat[n]] # Unbound
  PROVE  n \in disturbed' \/ file'[chat[n]] # Unbound
<1>1. CASE UNCHANGED bindings
  BY <1>1 DEF bindings, registry
<1>2. CASE ~UNCHANGED bindings
  <2>1. PICK b \in Bindings : Bind(chat[msg[h]], b, msg[h])
    BY <1>2, HandleFrame
  <2>2. pc[h] # "free"
    BY HandleShape DEF GoesOn, Answers, Fails, HasSent
  <2>3. msg[h] \in Messages /\ chat[msg[h]] \in Chats
    BY <2>2, InHandFacts
  <2>4. /\ file' = [file EXCEPT ![chat[msg[h]]] = b] /\ disturbed \subseteq disturbed'
        /\ \A k \in Messages \ {msg[h]} :
             k \in disturbed' \/ chat[k] # chat[msg[h]] \/ file' = file
    BY <2>1, <2>3, BindFacts DEF Typed
  <2>5. CASE n # msg[h]
    <3>1. n \in disturbed' \/ file'[chat[n]] = file[chat[n]]
      BY <2>3, <2>4, <2>5 DEF Typed, RegistryTypes
    <3>2. QED
      BY <2>4, <3>1
  <2>6. CASE n = msg[h]
    <3>1. BindSession(h)
      <4>1. ~CommandUnregister(h) /\ ~CommandStatus(h) /\ ~CommandRegister(h) /\ ~CommandNew(h)
        BY <2>6 DEF CommandUnregister, CommandStatus, CommandRegister, CommandNew, Routes, Asking
      <4>2. ~OnUnbound(h) /\ ~CreateTeam(h) /\ ~Finish(h) /\ ~OnBound(h)
        BY <1>2 DEF OnUnbound, CreateTeam, Finish, OnBound
      <4>3. ~BoundProcess(h) /\ ~Reread(h) /\ ~DefaultRecipient(h) /\ ~Send(h) /\ ~SendFirst(h)
        BY <1>2 DEF BoundProcess, Reread, DefaultRecipient, Send, SendFirst, SendOrRaise
      <4>4. QED
        BY <4>1, <4>2, <4>3 DEF Handle
    <3>2. file' = [file EXCEPT ![chat[msg[h]]] = held[h]]
      BY <3>1 DEF BindSession, Bind, Commit
    <3>3. held[h] # Unbound
      BY <3>1 DEF BindSession, Typed, HandlerTypes
    <3>4. QED
      BY <2>3, <2>6, <3>2, <3>3 DEF Typed, RegistryTypes
  <2>7. QED
    BY <2>5, <2>6
<1>3. QED
  BY <1>1, <1>2

\* A handler's step.
LEMMA HandleReply ==
  ASSUME Typed, ReplyInv, NEW h \in Handlers, Handle(h)
  PROVE  ReplyInv'
<1>1. UNCHANGED <<chat, kind>>
  BY HandleFrame
<1>2. pc[h] # "free" /\ msg[h] \in Messages /\ chat[msg[h]] \in Chats
  BY HandleShape, InHandFacts DEF GoesOn, Answers, Fails, HasSent
<1>3. \A g \in Handlers : pc'[g] # "free" => msg'[g] = msg[g]
  BY HandleShape DEF GoesOn, HasSent, Answers, Fails, Goto, Ack, Fail, Leave, Typed, HandlerTypes
<1>4. \A g \in Handlers \ {h} : pc'[g] = pc[g]
  BY HandleShape DEF GoesOn, HasSent, Answers, Fails, Goto, Ack, Fail, Leave, Typed, HandlerTypes
<1>5. KindsFit'
  <2>1. ASSUME NEW g \in Handlers, pc'[g] \in {"check", "reread", "who", "send"}
        PROVE  kind[msg[g]] \in Asking
    BY <1>4, <2>1, HandleLands DEF ReplyInv, KindsFit
  <2>2. QED
    BY <1>1, <1>3, <2>1 DEF KindsFit
<1>6. StillBound'
  <2>1. ASSUME NEW g \in Handlers, pc'[g] \in {"check", "reread"}
        PROVE  msg[g] \in disturbed' \/ file'[chat[msg[g]]] # Unbound
    <3>1. kind[msg[g]] \in Asking
      BY <1>1, <1>3, <1>5, <2>1 DEF KindsFit
    <3>2. msg[g] \in disturbed \/ file[chat[msg[g]]] # Unbound
      BY <1>4, <2>1, HandleLands DEF ReplyInv, StillBound
    <3>3. pc[g] # "free"
      BY <1>2, <1>4, <2>1
    <3>4. msg[g] \in Messages /\ chat[msg[g]] \in Chats
      BY <3>3, InHandFacts
    <3>5. QED
      BY <3>1, <3>2, <3>4, BindingStays
  <2>2. QED
    BY <1>1, <1>3, <2>1 DEF StillBound
<1>7. AckedMessagesAreAccounted'
  <2>1. /\ told \subseteq told' /\ disturbed \subseteq disturbed'
        /\ \A m \in Messages : sent[m] > 0 => sent'[m] > 0
    <3>1. told \subseteq told'
      BY HandleShape DEF GoesOn, HasSent, Answers, Fails, Goto, Ack, Fail
    <3>2. disturbed \subseteq disturbed'
      BY <1>2, HandleFrame, BindFacts DEF bindings, Typed
    <3>3. \A m \in Messages : sent[m] > 0 => sent'[m] > 0
      <4>1. CASE HasSent(h)
        BY <1>2, <4>1 DEF HasSent, Typed, OutboundTypes
      <4>2. QED
        BY <4>1, HandleShape DEF GoesOn, Answers, Fails
    <3>4. QED
      BY <3>1, <3>2, <3>3
  <2>2. ASSUME NEW m \in Messages, state'[m] = "acked", kind[m] \in Said
        PROVE  sent'[m] > 0 \/ m \in told' \/ m \in disturbed'
    <3>1. CASE state[m] = "acked"
      BY <2>1, <2>2, <3>1 DEF ReplyInv, AckedMessagesAreAccounted
    <3>2. CASE state[m] # "acked" /\ m \notin told'
      <4>1. m = msg[h]
        BY <2>2, <3>2, HandleShape DEF GoesOn, HasSent, Answers, Fails, Goto, Ack, Fail, Typed,
                                       HandlerTypes
      <4>2. kind[m] # "blank"
        BY <2>2 DEF Said
      <4>3. pc[h] = "reread" /\ file[chat[m]] = Unbound
        BY <1>2, <2>2, <3>2, <4>1, <4>2, QuietAnswer
      <4>4. m \in disturbed
        BY <4>1, <4>3 DEF ReplyInv, StillBound
      <4>5. QED
        BY <2>1, <4>4
    <3>3. QED
      BY <3>1, <3>2
  <2>3. QED
    BY <1>1, <2>2 DEF AckedMessagesAreAccounted
<1>8. QED
  BY <1>5, <1>6, <1>7 DEF ReplyInv

\* The other steps.
LEMMA ReplyStep ==
  ASSUME Typed, ReplyInv, [Next]_vars
  PROVE  ReplyInv'
<1>1. ASSUME NEW h \in Handlers, NEW m \in Messages, Deliver(h, m) PROVE ReplyInv'
  <2>1. \A n \in Messages : state[n] # "unsent" => chat'[n] = chat[n] /\ kind'[n] = kind[n]
    BY <1>1, DeliverFrame
  <2>2. /\ pc' = [pc EXCEPT ![h] = "route"] /\ msg' = [msg EXCEPT ![h] = m]
        /\ state' = [state EXCEPT ![m] = "pending"]
        /\ UNCHANGED <<file, disturbed, told, sent>>
    BY <1>1, DeliverFrame
  <2>3. \A g \in Handlers : pc'[g] \in {"check", "reread", "who", "send"}
                            => /\ pc[g] = pc'[g] /\ msg'[g] = msg[g]
                               /\ chat'[msg[g]] = chat[msg[g]] /\ kind'[msg[g]] = kind[msg[g]]
    BY <2>1, <2>2 DEF Typed, HandlerTypes, Known
  <2>4. KindsFit' /\ StillBound'
    BY <2>2, <2>3 DEF ReplyInv, KindsFit, StillBound
  <2>5. AckedMessagesAreAccounted'
    BY <2>1, <2>2 DEF ReplyInv, AckedMessagesAreAccounted, Typed, HandlerTypes
  <2>6. QED
    BY <2>4, <2>5 DEF ReplyInv
<1>2. CASE Repair \/ \E t \in Teams : DeregisterTeam(t)
  <2>1. UNCHANGED <<chat, kind, state, pc, msg, told, sent>>
    BY <1>2 DEF Repair, DeregisterTeam, inbound, handlers
  <2>2. /\ disturbed \subseteq disturbed'
        /\ \A n \in Messages : \/ n \in disturbed' \/ chat[n] \notin Chats
                                \/ file'[chat[n]] = file[chat[n]]
    BY <1>2, PruneFacts, BootFacts DEF Repair, Typed
  <2>4. \A g \in Handlers : pc[g] # "free" => msg[g] \in Messages /\ chat[msg[g]] \in Chats
    BY InHandFacts
  <2>5. StillBound'
    BY <2>1, <2>2, <2>4 DEF ReplyInv, StillBound
  <2>6. QED
    BY <2>1, <2>2, <2>5 DEF ReplyInv, KindsFit, AckedMessagesAreAccounted
<1>3. CASE Crash
  <2>1. /\ \A h \in Handlers : pc'[h] = "free"
        /\ UNCHANGED <<chat, kind, state, told, sent>>
    BY <1>3 DEF Crash, inbound
  <2>2. disturbed \subseteq disturbed'
    BY <1>3, CrashFacts DEF Typed
  <2>3. KindsFit' /\ StillBound'
    BY <2>1 DEF KindsFit, StillBound
  <2>4. AckedMessagesAreAccounted'
    BY <2>1, <2>2 DEF ReplyInv, AckedMessagesAreAccounted
  <2>5. QED
    BY <2>3, <2>4 DEF ReplyInv
<1>4. CASE \/ Reindex
           \/ \E d \in due : Answer(d)
           \/ \E d \in script : Replay(d)
           \/ \E t \in Teams : Restore(t) \/ Restored(t) \/ DeleteTeam(t)
           \/ UNCHANGED vars
  <2>1. UNCHANGED <<file, inbound, handlers, history>>
    BY <1>4 DEF Reindex, Answer, Replay, Restore, Restored, DeleteTeam, registry, vars
  <2>2. UNCHANGED <<file, chat, kind, state, pc, msg, told, sent, disturbed>>
    BY <2>1 DEF inbound, handlers, history
  <2>3. QED
    BY <2>2 DEF ReplyInv, KindsFit, StillBound, AckedMessagesAreAccounted
<1>5. QED
  BY <1>1, <1>2, <1>3, <1>4, HandleReply DEF Next

------------------------------------------------------------------------------
(* Messages that the channel delivered once *)

OneHandler ==
  \A g, h \in Handlers : msg[g] = msg[h] /\ msg[g] \in Messages \ doubted => g = h

\* It has not been sent as long as something can still go wrong with it.
NotYetSent ==
  \A h \in Handlers : msg[h] \in Messages \ doubted
                      => state[msg[h]] = "pending" /\ (pc[h] # "finish" => sent[msg[h]] = 0)

\* Sent and not acknowledged, it is in the hands of the handler that finishes it.
SentOnce ==
  \A m \in Messages \ doubted :
    /\ sent[m] <= 1
    /\ sent[m] > 0 => state[m] = "acked" \/ \E h \in Handlers : msg[h] = m

DueSent == \A d \in due : sent[d[1]] > 0

OnceInv == OneHandler /\ NotYetSent /\ SentOnce /\ DueSent

\* What a handler's step does to hands, states and counts.
LEMMA HandleHands ==
  ASSUME Typed, NEW h \in Handlers, Handle(h)
  PROVE  /\ pc[h] # "free" /\ msg[h] \in Messages
         /\ \A g \in Handlers \ {h} : pc'[g] = pc[g] /\ msg'[g] = msg[g] /\ held'[g] = held[g]
         /\ \A m \in Messages \ {msg[h]} : state'[m] = state[m] /\ sent'[m] = sent[m]
         /\ \/ /\ msg'[h] = msg[h] /\ state' = state /\ pc[h] # "finish"
               /\ \/ pc'[h] # "finish" /\ sent' = sent
                  \/ pc'[h] = "finish" /\ sent'[msg[h]] = sent[msg[h]] + 1
            \/ msg'[h] = NoMessage /\ sent' = sent /\ state'[msg[h]] = "acked"
            \/ msg'[h] = NoMessage /\ sent' = sent /\ state' = state /\ pc[h] # "finish"
<1>1. pc[h] # "free"
  BY HandleShape DEF GoesOn, Answers, Fails, HasSent
<1>2. msg[h] \in Messages
  BY <1>1, InHandFacts
<1> /\ pc \in [Handlers -> {"free", "route"} \cup Steps] /\ held \in [Handlers -> Bindings]
    /\ msg \in [Handlers -> Messages \cup {NoMessage}]
    /\ state \in [Messages -> {"unsent", "pending", "acked"}] /\ sent \in [Messages -> Nat]
  BY DEF Typed, HandlerTypes, OutboundTypes
<1>3. CASE GoesOn(h)
  BY <1>1, <1>2, <1>3 DEF GoesOn, Goto
<1>4. CASE Answers(h)
  BY <1>1, <1>2, <1>4 DEF Answers, Ack, Leave
<1>5. CASE Fails(h)
  BY <1>1, <1>2, <1>5 DEF Fails, Fail, Leave
<1>6. CASE HasSent(h)
  BY <1>1, <1>2, <1>6 DEF HasSent, Goto
<1>7. QED
  BY <1>3, <1>4, <1>5, <1>6, HandleShape

\* A handler's step.
LEMMA HandleOnce ==
  ASSUME Typed, OnceInv, NEW h \in Handlers, Handle(h)
  PROVE  OnceInv'
<1> DEFINE m == msg[h]
<1>1. doubted' = doubted
  BY HandleFrame
<1>2. m \in Messages /\ NoMessage \notin Messages
  BY HandleHands, ChannelAssumption
<1>3. /\ \A g \in Handlers \ {h} : pc'[g] = pc[g] /\ msg'[g] = msg[g]
      /\ \A n \in Messages \ {m} : state'[n] = state[n] /\ sent'[n] = sent[n]
  BY HandleHands
<1>4. \/ /\ msg'[h] = m /\ state' = state /\ pc[h] # "finish"
         /\ \/ pc'[h] # "finish" /\ sent' = sent
            \/ pc'[h] = "finish" /\ sent'[m] = sent[m] + 1
      \/ msg'[h] = NoMessage /\ sent' = sent /\ state'[m] = "acked"
      \/ msg'[h] = NoMessage /\ sent' = sent /\ state' = state /\ pc[h] # "finish"
  BY HandleHands
<1>5. sent \in [Messages -> Nat]
  BY DEF Typed, OutboundTypes
<1> HIDE DEF m
<1>6. m \notin doubted => \A g \in Handlers \ {h} : msg[g] # m
  BY <1>2 DEF OnceInv, OneHandler, m
<1>7. m \notin doubted /\ pc[h] # "finish" => sent[m] = 0 /\ state[m] = "pending"
  BY <1>2 DEF OnceInv, NotYetSent, m
<1>8. m \notin doubted => sent[m] <= 1
  BY <1>2 DEF OnceInv, SentOnce
<1>9. OneHandler'
  BY <1>1, <1>2, <1>3, <1>4 DEF OnceInv, OneHandler, m
<1>10. NotYetSent'
  <2>1. ASSUME NEW g \in Handlers \ {h}, msg'[g] \in Messages \ doubted
        PROVE  state'[msg'[g]] = "pending" /\ (pc'[g] # "finish" => sent'[msg'[g]] = 0)
    BY <1>3, <1>6, <2>1 DEF OnceInv, NotYetSent
  <2>2. ASSUME msg'[h] \in Messages \ doubted
        PROVE  state'[msg'[h]] = "pending" /\ (pc'[h] # "finish" => sent'[msg'[h]] = 0)
    BY <1>2, <1>4, <1>7, <2>2
  <2>3. QED
    BY <1>1, <2>1, <2>2 DEF NotYetSent
<1>11. SentOnce'
  <2>1. ASSUME NEW n \in Messages \ doubted, n # m
        PROVE  /\ sent'[n] <= 1
               /\ sent'[n] > 0 => state'[n] = "acked" \/ \E g \in Handlers : msg'[g] = n
    <3>1. sent'[n] = sent[n] /\ state'[n] = state[n]
      BY <1>3, <2>1
    <3>2. \A g \in Handlers : msg[g] = n => msg'[g] = n
      BY <1>3, <2>1 DEF m
    <3>3. QED
      BY <2>1, <3>1, <3>2 DEF OnceInv, SentOnce
  <2>2. ASSUME m \notin doubted
        PROVE  /\ sent'[m] <= 1
               /\ sent'[m] > 0 => state'[m] = "acked" \/ \E g \in Handlers : msg'[g] = m
    BY <1>2, <1>4, <1>5, <1>7, <1>8, <2>2
  <2>3. QED
    BY <1>1, <2>1, <2>2 DEF SentOnce
<1>12. DueSent'
  <2>1. \A n \in Messages : sent[n] > 0 => sent'[n] > 0
    BY <1>2, <1>3, <1>4, <1>5
  <2>2. CASE due' = due
    BY <2>1, <2>2 DEF OnceInv, DueSent, Typed, OutboundTypes
  <2>3. CASE HasSent(h)
    <3>1. sent' = [sent EXCEPT ![m] = @ + 1] /\ due' = due \cup {<<m, held[h]>>}
      BY <2>3 DEF HasSent, m
    <3>2. sent'[m] > 0
      BY <1>2, <1>5, <3>1
    <3>3. QED
      BY <2>1, <3>1, <3>2 DEF OnceInv, DueSent, Typed, OutboundTypes
  <2>4. QED
    BY <2>2, <2>3, HandleShape DEF GoesOn, Answers, Fails
<1>13. QED
  BY <1>9, <1>10, <1>11, <1>12 DEF OnceInv

\* A delivery: again in hand is doubted, and what nobody has in hand was not sent.
LEMMA DeliverOnce ==
  ASSUME Typed, OnceInv, NEW h \in Handlers, NEW m \in Messages, Deliver(h, m)
  PROVE  OnceInv'
<1>1. /\ pc' = [pc EXCEPT ![h] = "route"] /\ msg' = [msg EXCEPT ![h] = m]
      /\ state' = [state EXCEPT ![m] = "pending"] /\ state[m] # "acked" /\ pc[h] = "free"
      /\ UNCHANGED <<sent, due>> /\ doubted \subseteq doubted'
  BY DeliverFrame
<1>2. /\ pc \in [Handlers -> {"free", "route"} \cup Steps]
      /\ msg \in [Handlers -> Messages \cup {NoMessage}]
      /\ state \in [Messages -> {"unsent", "pending", "acked"}] /\ sent \in [Messages -> Nat]
  BY DEF Typed, HandlerTypes, OutboundTypes
<1>3. msg[h] \notin Messages
  BY <1>1, ChannelAssumption DEF Typed, HandlerTypes
<1>4. m \notin doubted' => \A g \in Handlers : msg[g] # m
  <2>1. ASSUME NEW g \in Handlers, msg[g] = m, state[m] = "unsent" PROVE FALSE
    BY <2>1, ChannelAssumption DEF Typed, HandlerTypes, Known
  <2>2. ASSUME NEW g \in Handlers, msg[g] = m PROVE m \in InHand
    BY <2>2, ChannelAssumption DEF InHand, Typed, HandlerTypes
  <2>3. QED
    BY <2>1, <2>2 DEF Deliver
<1>5. m \notin doubted' => sent[m] = 0
  BY <1>1, <1>2, <1>4 DEF OnceInv, SentOnce
<1>6. OneHandler'
  BY <1>1, <1>2, <1>4 DEF OnceInv, OneHandler
<1>7. NotYetSent'
  BY <1>1, <1>2, <1>5 DEF OnceInv, NotYetSent
<1>8. SentOnce'
  <2>1. ASSUME NEW n \in Messages \ doubted', n # m
        PROVE  /\ sent'[n] <= 1
               /\ sent'[n] > 0 => state'[n] = "acked" \/ \E g \in Handlers : msg'[g] = n
    <3>1. \A g \in Handlers : msg[g] = n => msg'[g] = n
      BY <1>1, <1>2, <1>3
    <3>2. QED
      BY <1>1, <1>2, <2>1, <3>1 DEF OnceInv, SentOnce
  <2>2. m \notin doubted' => sent'[m] = 0
    BY <1>1, <1>5
  <2>3. QED
    BY <2>1, <2>2 DEF SentOnce
<1>9. DueSent'
  BY <1>1 DEF OnceInv, DueSent
<1>10. QED
  BY <1>6, <1>7, <1>8, <1>9 DEF OnceInv

\* All steps.
LEMMA OnceStep ==
  ASSUME Typed, OnceInv, [Next]_vars
  PROVE  OnceInv'
<1>1. CASE Crash
  <2>1. /\ \A h \in Handlers : msg'[h] = NoMessage
        /\ due' = {} /\ doubted' = doubted \cup InHand /\ UNCHANGED <<state, sent>>
    BY <1>1 DEF Crash, inbound
  <2>2. \A m \in Messages \ doubted' : \A h \in Handlers : msg[h] # m
    BY <2>1, ChannelAssumption DEF InHand, Typed, HandlerTypes
  <2>3. SentOnce'
    BY <2>1, <2>2 DEF OnceInv, SentOnce
  <2>4. OneHandler' /\ NotYetSent'
    BY <2>1, ChannelAssumption DEF OneHandler, NotYetSent
  <2>5. QED
    BY <2>1, <2>3, <2>4 DEF OnceInv, DueSent
<1>2. CASE \/ Reindex
           \/ \E d \in due : Answer(d)
           \/ \E d \in script : Replay(d)
           \/ \E t \in Teams : Restore(t) \/ Restored(t) \/ DeleteTeam(t) \/ DeregisterTeam(t)
           \/ Repair
           \/ UNCHANGED vars
  <2>1. UNCHANGED <<state, pc, msg, sent, doubted>>
    BY <1>2 DEF Reindex, Answer, Replay, Restore, Restored, DeleteTeam, DeregisterTeam, Repair,
                vars, inbound, handlers, history
  <2>2. due' \subseteq due
    BY <1>2 DEF Reindex, Answer, Replay, Restore, Restored, DeleteTeam, DeregisterTeam, Repair,
                vars, outbound
  <2>3. QED
    BY <2>1, <2>2 DEF OnceInv, OneHandler, NotYetSent, SentOnce, DueSent
<1>3. QED
  BY <1>1, <1>2, HandleOnce, DeliverOnce DEF Next

------------------------------------------------------------------------------
(* Answers and the chats that asked *)

\* What a handler sends with, and what a team answers under, is the binding of the
\* chat that asked.
HeldIsBinding ==
  \A h \in Handlers : pc[h] \in {"first", "who", "send"}
                      => msg[h] \in disturbed \cup doubted \/ held[h] = file[chat[msg[h]]]
DueIsBinding ==
  \A d \in due : d[1] \in disturbed \cup doubted \/ d[2] = file[chat[d[1]]]

\* What a restore replays is of a team that is being restored.
ReplayIsSilent == \A d \in script : d[2][1] \in replaying

ChatInv == HeldIsBinding /\ DueIsBinding /\ ReplayIsSilent /\ AnswersFindTheirChat

\* The file of another message's chat stays, or that message is disturbed.
LEMMA OthersBindingStays ==
  ASSUME Typed, NEW h \in Handlers, Handle(h),
         NEW n \in Messages, n # msg[h] \/ UNCHANGED bindings, chat[n] \in Chats
  PROVE  /\ n \in disturbed' \/ file'[chat[n]] = file[chat[n]]
         /\ disturbed \subseteq disturbed'
<1>1. CASE UNCHANGED bindings
  BY <1>1 DEF bindings, registry
<1>2. CASE ~UNCHANGED bindings
  <2>1. PICK b \in Bindings : Bind(chat[msg[h]], b, msg[h])
    BY <1>2, HandleFrame
  <2>2. chat[msg[h]] \in Chats
    BY HandleHands, InHandFacts
  <2>3. /\ file' = [file EXCEPT ![chat[msg[h]]] = b] /\ disturbed \subseteq disturbed'
        /\ \A k \in Messages \ {msg[h]} :
             k \in disturbed' \/ chat[k] # chat[msg[h]] \/ file' = file
    BY <2>1, <2>2, BindFacts DEF Typed
  <2>4. QED
    BY <1>2, <2>2, <2>3 DEF Typed, RegistryTypes
<1>3. QED
  BY <1>1, <1>2

\* A message with an answer due has been delivered.
LEMMA DueIsKnown ==
  ASSUME Typed, OnceInv, NEW d \in due
  PROVE  /\ d[1] \in Messages /\ d[2] \in Slots
         /\ d[1] \notin doubted => state[d[1]] # "unsent" /\ chat[d[1]] \in Chats
<1>1. d[1] \in Messages /\ d[2] \in Slots
  BY DEF Typed, OutboundTypes
<1>2. ASSUME d[1] \notin doubted PROVE state[d[1]] # "unsent"
  <2>1. state[d[1]] = "acked" \/ \E h \in Handlers : msg[h] = d[1]
    BY <1>1, <1>2 DEF OnceInv, DueSent, SentOnce
  <2>2. ASSUME NEW h \in Handlers, msg[h] = d[1] PROVE state[d[1]] # "unsent"
    BY <1>1, <2>2, ChannelAssumption DEF Typed, HandlerTypes, Known
  <2>3. QED
    BY <2>1, <2>2
<1>3. QED
  BY <1>1, <1>2 DEF Typed, Known

\* A handler's step.
LEMMA HandleChat ==
  ASSUME Typed, OnceInv, ChatInv, NEW h \in Handlers, Handle(h)
  PROVE  ChatInv'
<1>1. UNCHANGED <<chat, doubted, script, replaying, lost>>
  BY HandleFrame
<1>2. pc[h] # "free" /\ msg[h] \in Messages
  BY HandleHands
<1>3. disturbed \subseteq disturbed'
  BY <1>2, InHandFacts, BindFacts, HandleFrame DEF bindings, Typed
<1>4. ASSUME NEW g \in Handlers, pc'[g] \in {"first", "who", "send"},
             msg'[g] \notin disturbed' \cup doubted
      PROVE  held'[g] = file'[chat[msg'[g]]]
  <2>1. CASE g = h
    <3>1. msg'[h] = msg[h]
      BY <1>4, <2>1, ChannelAssumption, HandleHands, HandleTypes DEF Typed, HandlerTypes
    <3>2. CASE pc'[h] = "first"
      BY <2>1, <3>1, <3>2, HandleLands
    <3>3. CASE pc'[h] \in {"who", "send"} /\ pc[h] = "reread"
      <4>1. UNCHANGED bindings /\ held'[h] = file[chat[msg[h]]]
        BY <3>3, HandleLands
      <4>2. QED
        BY <2>1, <3>1, <4>1 DEF bindings, registry
    <3>4. CASE pc'[h] \in {"who", "send"} /\ pc[h] # "reread"
      <4>1. UNCHANGED bindings /\ held'[h] = held[h] /\ pc[h] = "who"
        BY <3>4, HandleLands
      <4>2. held[h] = file[chat[msg[h]]]
        BY <1>3, <1>4, <2>1, <3>1, <4>1 DEF ChatInv, HeldIsBinding
      <4>3. QED
        BY <2>1, <3>1, <4>1, <4>2 DEF bindings, registry
    <3>5. QED
      BY <1>4, <2>1, <3>2, <3>3, <3>4
  <2>2. CASE g # h
    <3>1. pc'[g] = pc[g] /\ msg'[g] = msg[g] /\ held'[g] = held[g]
      BY <2>2, HandleHands
    <3>2. held[g] = file[chat[msg[g]]]
      BY <1>3, <1>4, <3>1 DEF ChatInv, HeldIsBinding
    <3>3. msg[g] \in Messages /\ chat[msg[g]] \in Chats
      BY <1>4, <3>1, InHandFacts
    <3>4. msg[g] # msg[h]
      BY <1>4, <2>2, <3>1, <3>3 DEF OnceInv, OneHandler
    <3>5. file'[chat[msg[g]]] = file[chat[msg[g]]]
      BY <1>4, <3>1, <3>3, <3>4, OthersBindingStays
    <3>6. QED
      BY <3>1, <3>2, <3>5
  <2>3. QED
    BY <2>1, <2>2
<1>5. ASSUME NEW d \in due', d[1] \notin disturbed' \cup doubted
      PROVE  d[2] = file'[chat[d[1]]]
  <2>1. CASE d \in due
    <3>1. d[1] \in Messages /\ chat[d[1]] \in Chats
      BY <1>5, <2>1, DueIsKnown
    <3>2. d[2] = file[chat[d[1]]]
      BY <1>3, <1>5, <2>1 DEF ChatInv, DueIsBinding
    <3>3. d[1] # msg[h] \/ UNCHANGED bindings
      <4>1. ASSUME d[1] = msg[h] PROVE pc[h] = "finish"
        <5>1. sent[msg[h]] > 0
          BY <2>1, <4>1 DEF OnceInv, DueSent
        <5>2. QED
          BY <1>2, <1>5, <4>1, <5>1 DEF OnceInv, NotYetSent
      <4>2. QED
        BY <4>1, HandleFrame
    <3>4. QED
      BY <1>5, <3>1, <3>2, <3>3, OthersBindingStays
  <2>2. CASE d \notin due
    <3>1. HasSent(h)
      BY <2>2, <1>5, HandleShape DEF GoesOn, Answers, Fails
    <3>2. d = <<msg[h], held[h]>> /\ pc[h] \in {"first", "send"} /\ UNCHANGED bindings
      BY <1>5, <2>2, <3>1 DEF HasSent
    <3>3. d[1] = msg[h] /\ d[2] = held[h]
      BY <3>2
    <3>4. held[h] = file[chat[msg[h]]]
      BY <1>3, <1>5, <3>2, <3>3 DEF ChatInv, HeldIsBinding
    <3>5. QED
      BY <3>2, <3>3, <3>4 DEF bindings, registry
  <2>3. QED
    BY <2>1, <2>2
<1>6. HeldIsBinding' /\ DueIsBinding'
  BY <1>1, <1>4, <1>5 DEF HeldIsBinding, DueIsBinding
<1>7. ReplayIsSilent' /\ AnswersFindTheirChat'
  BY <1>1, <1>3 DEF ChatInv, ReplayIsSilent, AnswersFindTheirChat
<1>8. QED
  BY <1>6, <1>7 DEF ChatInv

\* A delivery changes the chat of nothing that is in hand or due.
LEMMA DeliverChat ==
  ASSUME Typed, OnceInv, ChatInv, NEW h \in Handlers, NEW m \in Messages, Deliver(h, m)
  PROVE  ChatInv'
<1>1. /\ \A n \in Messages : state[n] # "unsent" => chat'[n] = chat[n]
      /\ pc' = [pc EXCEPT ![h] = "route"] /\ msg' = [msg EXCEPT ![h] = m]
      /\ UNCHANGED <<file, disturbed, held, due, lost, script, replaying>>
      /\ doubted \subseteq doubted'
  BY DeliverFrame
<1>2. \A g \in Handlers : pc'[g] \in {"first", "who", "send"}
                          => /\ pc[g] = pc'[g] /\ msg'[g] = msg[g]
                             /\ chat'[msg[g]] = chat[msg[g]]
  BY <1>1 DEF Typed, HandlerTypes, Known
<1>3. HeldIsBinding'
  BY <1>1, <1>2 DEF ChatInv, HeldIsBinding
<1>4. DueIsBinding'
  BY <1>1, DueIsKnown DEF ChatInv, DueIsBinding
<1>5. QED
  BY <1>1, <1>3, <1>4 DEF ChatInv, ReplayIsSilent, AnswersFindTheirChat

\* A server that is down has nothing in hand.
Silent ==
  down => /\ ~stale /\ doomed = {} /\ due = {} /\ script = {}
          /\ \A h \in Handlers : pc[h] = "free"

\* Only a crash takes the server down, and nothing starts before it boots.
LEMMA SilentStep ==
  ASSUME Typed, Silent, [Next]_vars
  PROVE  Silent'
<1>1. CASE Crash
  BY <1>1 DEF Crash, Silent
<1>2. CASE Repair
  <2>1. down' = FALSE
    BY <1>2 DEF Repair, Boot
  <2>2. QED
    BY <2>1 DEF Silent
<1>3. ASSUME NEW h \in Handlers, Handle(h) PROVE Silent'
  <2>1. ~down
    BY <1>3, HandleHands DEF Silent
  <2>2. down' = down
    BY <1>3, HandleFrame, HandleHands, InHandFacts, BindFacts DEF bindings, registry, Typed
  <2>3. QED
    BY <2>1, <2>2 DEF Silent
<1>4. ASSUME NEW h \in Handlers, NEW m \in Messages, Deliver(h, m) PROVE Silent'
  BY <1>4, DeliverFrame DEF Deliver, Silent
<1>5. CASE Reindex \/ (\E d \in due : Answer(d)) \/ \E d \in script : Replay(d)
  BY <1>5 DEF Reindex, Answer, Replay, registry, Silent
<1>6. ASSUME NEW t \in Teams, Restore(t) \/ DeleteTeam(t) PROVE Silent'
  BY <1>6 DEF Restore, DeleteTeam, registry, Silent
<1>7. ASSUME NEW t \in Teams, Restored(t) PROVE Silent'
  BY <1>7 DEF Restored, registry, handlers, Silent
<1>8. ASSUME NEW t \in Teams, DeregisterTeam(t) PROVE Silent'
  <2>1. ~down
    BY <1>8 DEF DeregisterTeam, Silent
  <2>2. down' = down
    BY <1>8, PruneFacts DEF Typed
  <2>3. QED
    BY <2>1, <2>2 DEF Silent
<1>9. CASE UNCHANGED vars
  BY <1>9 DEF vars, registry, handlers, outbound, Silent
<1>10. QED
  BY <1>1, <1>2, <1>3, <1>4, <1>5, <1>6, <1>7, <1>8, <1>9 DEF Next

\* An undisturbed answer has a chat in the index, so that it is not lost.
LEMMA AnswerFinds ==
  ASSUME Typed, IndexMatchesFile, Silent, OnceInv, ChatInv, NEW d \in due,
         Dispatch(d[1], d[2])
  PROVE  lost' \subseteq disturbed \cup doubted
<1>1. ASSUME d[1] \notin disturbed \cup doubted, LoopFree PROVE index[d[2]] # NoChat
  <2>1. d[2] \in Slots /\ chat[d[1]] \in Chats
    BY <1>1, DueIsKnown
  <2>2. file[chat[d[1]]] = d[2]
    BY <1>1 DEF ChatInv, DueIsBinding
  <2>3. ~down
    BY DEF Silent
  <2>4. QED
    BY <1>1, <2>1, <2>2, <2>3 DEF IndexMatchesFile
<1>2. lost' = lost \/ (lost' = lost \cup {d[1]} /\ LoopFree /\ index[d[2]] = NoChat)
  BY DEF Dispatch
<1>3. QED
  BY <1>1, <1>2 DEF ChatInv, AnswersFindTheirChat

\* All steps.
LEMMA ChatStep ==
  ASSUME Typed, IndexMatchesFile, Silent, OnceInv, ChatInv, [Next]_vars
  PROVE  ChatInv'
<1>1. ASSUME NEW d \in due, Answer(d) PROVE ChatInv'
  <2>1. UNCHANGED <<file, chat, pc, msg, held, script, replaying, disturbed, doubted>>
        /\ due' \subseteq due
    BY <1>1 DEF Answer, registry, inbound, handlers, history
  <2>2. lost' \subseteq disturbed \cup doubted
    BY <1>1, AnswerFinds DEF Answer
  <2>3. QED
    BY <2>1, <2>2 DEF ChatInv, HeldIsBinding, DueIsBinding, ReplayIsSilent, AnswersFindTheirChat
<1>2. ASSUME NEW d \in script, Replay(d) PROVE ChatInv'
  <2>1. UNCHANGED <<file, chat, pc, msg, held, due, replaying, disturbed, doubted>>
        /\ script' \subseteq script
    BY <1>2 DEF Replay, registry, inbound, handlers, history
  <2>2. lost' = lost
    BY <1>2 DEF Replay, Dispatch, ChatInv, ReplayIsSilent
  <2>3. QED
    BY <2>1, <2>2 DEF ChatInv, HeldIsBinding, DueIsBinding, ReplayIsSilent, AnswersFindTheirChat
<1>3. ASSUME NEW t \in Teams, Restore(t) \/ Restored(t) \/ DeleteTeam(t) PROVE ChatInv'
  <2>1. UNCHANGED <<file, chat, pc, msg, held, due, lost, disturbed, doubted>>
    BY <1>3 DEF Restore, Restored, DeleteTeam, registry, inbound, handlers, history
  <2>2. ReplayIsSilent'
    BY <1>3 DEF Restore, Restored, DeleteTeam, ChatInv, ReplayIsSilent
  <2>3. QED
    BY <2>1, <2>2 DEF ChatInv, HeldIsBinding, DueIsBinding, AnswersFindTheirChat
<1>4. CASE Repair \/ \E t \in Teams : DeregisterTeam(t)
  <2>1. UNCHANGED <<chat, pc, msg, held, due, lost, script, replaying, doubted>>
    BY <1>4 DEF Repair, DeregisterTeam, inbound, handlers, outbound
  <2>2. /\ disturbed \subseteq disturbed'
        /\ \A n \in Messages : \/ n \in disturbed' \/ chat[n] \notin Chats
                                \/ file'[chat[n]] = file[chat[n]]
    BY <1>4, PruneFacts, BootFacts DEF Repair, Typed
  <2>3. HeldIsBinding'
    BY <2>1, <2>2, InHandFacts DEF ChatInv, HeldIsBinding
  <2>4. DueIsBinding'
    BY <2>1, <2>2, DueIsKnown DEF ChatInv, DueIsBinding
  <2>5. QED
    BY <2>1, <2>2, <2>3, <2>4 DEF ChatInv, ReplayIsSilent, AnswersFindTheirChat
<1>5. CASE Crash
  <2>1. /\ \A h \in Handlers : pc'[h] = "free"
        /\ due' = {} /\ script' = {} /\ lost' = lost /\ doubted \subseteq doubted'
    BY <1>5 DEF Crash
  <2>2. disturbed \subseteq disturbed'
    BY <1>5, CrashFacts DEF Typed
  <2>3. QED
    BY <2>1, <2>2 DEF ChatInv, HeldIsBinding, DueIsBinding, ReplayIsSilent, AnswersFindTheirChat
<1>6. CASE Reindex \/ UNCHANGED vars
  <2>1. UNCHANGED <<file, chat, pc, msg, held, due, lost, script, replaying, disturbed, doubted>>
    BY <1>6 DEF Reindex, vars, registry, inbound, handlers, outbound, history
  <2>2. QED
    BY <2>1 DEF ChatInv, HeldIsBinding, DueIsBinding, ReplayIsSilent, AnswersFindTheirChat
<1>7. QED
  BY <1>1, <1>2, <1>3, <1>4, <1>5, <1>6, HandleChat, DeliverChat DEF Next

------------------------------------------------------------------------------
(* Every answer a chat gets has been asked for *)

Waiting(m) == {d \in due : d[1] = m}

Counting == /\ IsFiniteSet(due)
            /\ \A m \in Messages : Cardinality(Waiting(m)) + got[m] <= sent[m]

\* The answers a message waits for are finitely many.
LEMMA WaitingFinite ==
  ASSUME Counting, NEW m
  PROVE  IsFiniteSet(Waiting(m)) /\ Cardinality(Waiting(m)) \in Nat
<1>1. Waiting(m) \subseteq due
  BY DEF Waiting
<1>2. QED
  BY <1>1, FS_Subset, FS_CardinalityType DEF Counting

\* One more sent is one more to wait for, at most.
LEMMA SentCounts ==
  ASSUME Typed, Counting, NEW h \in Handlers, Handle(h), HasSent(h)
  PROVE  Counting'
<1> DEFINE n == msg[h]  x == <<msg[h], held[h]>>
<1>1. n \in Messages /\ got' = got
  BY HandleHands, HandleFrame
<1>2. sent' = [sent EXCEPT ![n] = @ + 1] /\ due' = due \cup {x} /\ x[1] = n
  BY DEF HasSent
<1>3. sent \in [Messages -> Nat] /\ got \in [Messages -> Nat]
  BY DEF Typed, OutboundTypes
<1> HIDE DEF n, x
<1>4. IsFiniteSet(due')
  BY <1>2, FS_AddElement DEF Counting
<1>5. ASSUME NEW m \in Messages PROVE Cardinality(Waiting(m)') + got'[m] <= sent'[m]
  <2>1. CASE m # n
    <3>1. Waiting(m)' = Waiting(m)
      BY <1>2, <2>1 DEF Waiting
    <3>2. QED
      BY <1>1, <1>2, <2>1, <3>1, <1>3 DEF Counting
  <2>2. CASE m = n
    <3>1. Waiting(m)' = Waiting(m) \cup {x}
      BY <1>2, <2>2 DEF Waiting
    <3>2. Cardinality(Waiting(m)') <= Cardinality(Waiting(m)) + 1 /\ Cardinality(Waiting(m)') \in Nat
      <4>1. IsFiniteSet(Waiting(m)) /\ Cardinality(Waiting(m)) \in Nat
        BY WaitingFinite
      <4>2. /\ IsFiniteSet(Waiting(m) \cup {x})
            /\ \/ Cardinality(Waiting(m) \cup {x}) = Cardinality(Waiting(m))
               \/ Cardinality(Waiting(m) \cup {x}) = Cardinality(Waiting(m)) + 1
        BY <4>1, FS_AddElement
      <4>3. QED
        BY <3>1, <4>1, <4>2
    <3>3. sent'[m] = sent[m] + 1
      BY <1>2, <1>3, <2>2
    <3>4. Cardinality(Waiting(m)) + got[m] <= sent[m] /\ Cardinality(Waiting(m)) \in Nat
      BY WaitingFinite DEF Counting
    <3>5. sent[m] \in Nat /\ got[m] \in Nat /\ got'[m] = got[m]
      BY <1>1, <1>3
    <3>6. QED
      BY <3>2, <3>3, <3>4, <3>5
  <2>3. QED
    BY <2>1, <2>2
<1>6. QED
  BY <1>4, <1>5 DEF Counting

\* One answer given is one less to wait for.
LEMMA AnswerCounts ==
  ASSUME Typed, Counting, NEW d \in due, Answer(d)
  PROVE  Counting'
<1>1. d[1] \in Messages
  BY DEF Typed, OutboundTypes
<1>2. due' = due \ {d} /\ sent' = sent
  BY DEF Answer, history
<1>3. got' = got \/ got' = [got EXCEPT ![d[1]] = @ + 1]
  BY DEF Answer, Dispatch
<1>4. sent \in [Messages -> Nat] /\ got \in [Messages -> Nat]
  BY DEF Typed, OutboundTypes
<1>5. IsFiniteSet(due')
  BY <1>2, FS_RemoveElement DEF Counting
<1>6. ASSUME NEW m \in Messages PROVE Cardinality(Waiting(m)') + got'[m] <= sent'[m]
  <2>1. CASE m # d[1]
    <3>1. Waiting(m)' = Waiting(m)
      BY <1>2, <2>1 DEF Waiting
    <3>2. got'[m] = got[m]
      BY <1>3, <2>1, <1>4
    <3>3. QED
      BY <1>2, <3>1, <3>2 DEF Counting
  <2>2. CASE m = d[1]
    <3>1. Waiting(m)' = Waiting(m) \ {d} /\ d \in Waiting(m)
      BY <1>2, <2>2 DEF Waiting
    <3>2. Cardinality(Waiting(m)') = Cardinality(Waiting(m)) - 1
      BY <3>1, WaitingFinite, FS_RemoveElement
    <3>3. got'[m] \in {got[m], got[m] + 1}
      BY <1>1, <1>3, <1>4, <2>2
    <3>4. Cardinality(Waiting(m)) + got[m] <= sent[m] /\ Cardinality(Waiting(m)) \in Nat
      BY WaitingFinite DEF Counting
    <3>5. QED
      BY <1>2, <1>4, <3>2, <3>3, <3>4
  <2>3. QED
    BY <2>1, <2>2
<1>7. QED
  BY <1>5, <1>6 DEF Counting

\* All steps.
LEMMA CountingStep ==
  ASSUME Typed, ReplayIsSilent, Counting, [Next]_vars
  PROVE  Counting'
<1>1. ASSUME UNCHANGED <<due, got, sent>> PROVE Counting'
  BY <1>1 DEF Counting, Waiting
<1>2. ASSUME NEW h \in Handlers, Handle(h) PROVE Counting'
  <2>1. CASE HasSent(h)
    BY <1>2, <2>1, SentCounts
  <2>2. CASE ~HasSent(h)
    <3>1. UNCHANGED <<due, sent>>
      BY <1>2, <2>2, HandleShape DEF GoesOn, Answers, Fails
    <3>2. QED
      BY <1>1, <1>2, <3>1, HandleFrame
  <2>3. QED
    BY <2>1, <2>2
<1>3. ASSUME NEW h \in Handlers, NEW m \in Messages, Deliver(h, m) PROVE Counting'
  BY <1>1, <1>3, DeliverFrame
<1>4. CASE \E d \in due : Answer(d)
  BY <1>4, AnswerCounts
<1>5. CASE \E d \in script : Replay(d)
  BY <1>1, <1>5 DEF Replay, Dispatch, ReplayIsSilent, history
<1>6. CASE \/ Reindex
           \/ \E t \in Teams : Restore(t) \/ Restored(t) \/ DeleteTeam(t) \/ DeregisterTeam(t)
           \/ Repair
           \/ UNCHANGED vars
  BY <1>1, <1>6 DEF Reindex, Restore, Restored, DeleteTeam, DeregisterTeam, Repair, vars, outbound,
                    history
<1>7. CASE Crash
  <2>1. due' = {} /\ UNCHANGED <<got, sent>>
    BY <1>7 DEF Crash
  <2>2. ASSUME NEW m \in Messages PROVE Cardinality(Waiting(m)') + got'[m] <= sent'[m]
    <3>1. Waiting(m)' = {}
      BY <2>1 DEF Waiting
    <3>2. Cardinality(Waiting(m)') = 0
      BY <3>1, FS_EmptySet
    <3>3. Cardinality(Waiting(m)) + got[m] <= sent[m] /\ Cardinality(Waiting(m)) \in Nat
          /\ got[m] \in Nat /\ sent[m] \in Nat
      BY WaitingFinite DEF Counting, Typed, OutboundTypes
    <3>4. QED
      BY <2>1, <3>2, <3>3
  <2>3. QED
    BY <2>1, <2>2, FS_EmptySet DEF Counting
<1>8. QED
  BY <1>2, <1>3, <1>4, <1>5, <1>6, <1>7 DEF Next

------------------------------------------------------------------------------
(* The invariant, and the properties that follow *)

ChannelInv == Typed /\ IndexMatchesFile /\ Silent /\ ReplyInv /\ OnceInv /\ ChatInv /\ Counting

\* Nothing has been delivered.
LEMMA ChannelStart == Init => ChannelInv
<1> SUFFICES ASSUME Init PROVE ChannelInv
  OBVIOUS
<1>1. Typed
  BY TypedInit
<1>2. IndexMatchesFile /\ Silent
  BY SlotFacts DEF Init, IndexMatchesFile, Silent
<1>3. ReplyInv
  BY DEF Init, ReplyInv, KindsFit, StillBound, AckedMessagesAreAccounted
<1>4. OnceInv
  BY ChannelAssumption DEF Init, OnceInv, OneHandler, NotYetSent, SentOnce, DueSent
<1>5. ChatInv
  BY DEF Init, ChatInv, HeldIsBinding, DueIsBinding, ReplayIsSilent, AnswersFindTheirChat
<1>6. Counting
  <2>1. due = {} /\ \A m \in Messages : got[m] = 0 /\ sent[m] = 0
    BY DEF Init
  <2>2. \A m \in Messages : Waiting(m) = {}
    BY <2>1 DEF Waiting
  <2>3. QED
    BY <2>1, <2>2, FS_EmptySet DEF Counting
<1>7. QED
  BY <1>1, <1>2, <1>3, <1>4, <1>5, <1>6 DEF ChannelInv

\* The invariant holds in every behaviour.
THEOREM ChannelInvariant == Spec => []ChannelInv
<1>1. ChannelInv /\ [Next]_vars => ChannelInv'
  <2> SUFFICES ASSUME ChannelInv, [Next]_vars PROVE ChannelInv'
    OBVIOUS
  <2>1. Typed /\ IndexMatchesFile /\ Silent /\ ReplyInv /\ OnceInv /\ ChatInv /\ Counting
    BY DEF ChannelInv
  <2>2. Typed'
    BY <2>1, TypedStep
  <2>3. IndexMatchesFile' /\ Silent' /\ ReplyInv' /\ OnceInv' /\ ChatInv'
    BY <2>1, IndexStep, SilentStep, ReplyStep, OnceStep, ChatStep
  <2>4. Counting'
    BY <2>1, CountingStep DEF ChatInv
  <2>5. QED
    BY <2>2, <2>3, <2>4 DEF ChannelInv
<1>2. QED
  BY ChannelStart, <1>1, PTL DEF Spec

\* Type correctness, and a handler that is to use a binding has one.
THEOREM ChannelTypeOK == Spec => []TypeOK
<1>1. ChannelInv => TypeOK
  BY TypedIsTypeOK DEF ChannelInv
<1>2. QED
  BY <1>1, ChannelInvariant, PTL

\* Between commits of a server that runs, the reply index holds the conversations of the
\* binding file, after a crash too (YamlChannelRegistry._commit).
THEOREM ChannelIndexMatchesFile == Spec => []IndexMatchesFile
<1>1. ChannelInv => IndexMatchesFile
  BY DEF ChannelInv
<1>2. QED
  BY <1>1, ChannelInvariant, PTL

\* No acknowledged message is lost in silence, unless its binding was changed by
\* somebody else (webhook, on_unbound and on_bound).
THEOREM ChannelAckedAreAccounted == Spec => []AckedMessagesAreAccounted
<1>1. ChannelInv => AckedMessagesAreAccounted
  BY DEF ChannelInv, ReplyInv
<1>2. QED
  BY <1>1, ChannelInvariant, PTL

\* No message is sent twice and no answer shown twice, but for messages the channel
\* itself delivered twice at once.
THEOREM ChannelNothingTwice == Spec => []NothingTwice
<1>1. ASSUME ChannelInv, NEW m \in Messages
      PROVE  (sent[m] > 1 => m \in doubted) /\ got[m] <= sent[m]
  <2>1. sent[m] \in Nat /\ got[m] \in Nat
    BY <1>1 DEF ChannelInv, Typed, OutboundTypes
  <2>2. sent[m] > 1 => m \in doubted
    BY <1>1, <2>1 DEF ChannelInv, OnceInv, SentOnce
  <2>3. Cardinality(Waiting(m)) + got[m] <= sent[m] /\ Cardinality(Waiting(m)) \in Nat
    BY <1>1, WaitingFinite DEF ChannelInv, Counting
  <2>4. QED
    BY <2>1, <2>2, <2>3
<1>2. ChannelInv => NothingTwice
  BY <1>1 DEF NothingTwice
<1>3. QED
  BY <1>2, ChannelInvariant, PTL

\* An answer is lost only if its chat's binding was changed by somebody else or its
\* message delivered twice at once (ChannelDispatcher.on_message).
THEOREM ChannelAnswersFindChat == Spec => []AnswersFindTheirChat
<1>1. ChannelInv => AnswersFindTheirChat
  BY DEF ChannelInv, ChatInv
<1>2. QED
  BY <1>1, ChannelInvariant, PTL
==============================================================================
