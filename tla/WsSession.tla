------------------------------ MODULE WsSession ------------------------------
(***************************************************************************)
(* The WebSocket sessions of one team (server/routes/ws.py).               *)
(*                                                                         *)
(* Session handlers are coroutines of one event loop: between two awaits   *)
(* (a section) no other handler runs.  restore_team is a plain function,   *)
(* so notify_restore runs on a threadpool thread, between any two          *)
(* operations of a section, and shares the ConnectionManager's dict of     *)
(* lists and its flags with the event loop without a lock.                 *)
(*                                                                         *)
(* What a stream carries is EventStream's subject: here a session has a    *)
(* stream object, which somebody seals when the team stops.                *)
(***************************************************************************)
EXTENDS Naturals, Sequences, SequencesExt, FiniteSets

CONSTANTS Sessions,      \* WebSocket connections, each with its handler
          NoSession,     \* not a session
          Notifiers,     \* threads that serve POST /teams/{id}/restore
          MaxStops       \* bound: times the team is stopped

ASSUME WsSessionAssumption ==
  /\ MaxStops \in Nat
  /\ IsFiniteSet(Sessions) /\ IsFiniteSet(Notifiers)
  /\ NoSession \notin Sessions

\* Every stop may leave a client that opens a stream nobody feeds, which the
\* next start adopts; a deletion may leave one more.
Streams  == 1 .. MaxStops + 2
NoStream == 0

\* Enough list objects for the dict's entry, the section under way and each
\* notifier's two references.
Lists  == 1 .. 2 + 2 * Cardinality(Notifiers)
NoList == 0

VARIABLES
  team,      \* the status in the team's record
  stops,     \* times the team was stopped
  current,   \* the team's entry in LocalEventStream._streams
  born,      \* stream objects created
  removing,  \* streams a remove() has popped and not closed yet
  sealed,    \* sealed[s]  : the stream object is closed
  restored,  \* the team is in ConnectionManager._restored
  entry,     \* the list object at _waiting[team_id]
  list,      \* list[l] : the sessions in list object l
  pc,        \* pc[c] : where c's handler is
  seen,      \* seen[c] : the status c's handler read when it began
  open,      \* open[c] : client_state is CONNECTED
  hungup,    \* hungup[c] : the client has left
  source,    \* source[c] : the stream c is served from
  depth,     \* depth[c] : the idle loops c's handler is inside of
  conns,     \* the list object the present section works on
  npc, held, index, \* a notifier: step, the list it popped, its position there
  ws, target,       \* the session it re-adds, and the list it re-adds it to
  told,      \* sessions a notifier found waiting, that have not resumed (history)
  wiped,     \* clear_restored ran since the told were told (history)
  raced      \* two threads worked on the lists at once (history)

teamVars == <<team, stops, current, born, removing, sealed>>
managerVars == <<restored, entry, list>>
sessionVars == <<pc, seen, open, hungup, source, depth, conns>>
notifierVars == <<npc, held, index, ws, target>>
historyVars == <<told, wiped>>
vars == <<teamVars, managerVars, sessionVars, notifierVars, historyVars, raced>>

-----------------------------------------------------------------------------
(* Shared parts *)

\* Steps inside a section, between two awaits of a handler.
SectionSteps == {"lookup", "register", "clear", "enlist", "append",
                 "unwind", "prune", "drop"}

\* The event loop can resume a handler.
LoopFree == \A c \in Sessions : pc[c] \notin SectionSteps

Goto(c, step) == pc' = [pc EXCEPT ![c] = step]

\* The handler has no reader any more.
Detach(c) == source' = [source EXCEPT ![c] = NoStream]

\* A list object nobody refers to any more.
FreshList ==
  CHOOSE l \in Lists :
    /\ l # entry /\ l # conns
    /\ \A n \in Notifiers : l # held[n] /\ l # target[n]

\* self._waiting.setdefault(team_id, []) : l is the list it returns.
SetDefault(l) ==
  IF entry # NoList
  THEN /\ l = entry
       /\ UNCHANGED <<entry, list>>
  ELSE /\ l = FreshList
       /\ entry' = l
       /\ list' = [list EXCEPT ![l] = <<>>]

\* A stream the team's entry has, or a new one: as append and subscribe do.
Entry(s) ==
  IF current # NoStream
  THEN s = current /\ UNCHANGED <<current, born>>
  ELSE s = born + 1 /\ s \in Streams /\ current' = s /\ born' = s

-----------------------------------------------------------------------------
(* What happens to the team meanwhile: the record changes in one step with  *)
(* what TeamManager's call does to the stream's dict entry.                 *)

\* event_stream.remove(team_id), its section under the dict's lock.  Whoever
\* was told of an earlier restore has nothing to expect of it now.
PopStream ==
  /\ removing' = removing \cup ({current} \ {NoStream})
  /\ current' = NoStream
  /\ told' = {}
  /\ UNCHANGED <<born, sealed, managerVars, sessionVars, notifierVars, wiped>>

\* Its section under the lock of the stream it popped, on the same thread:
\* handlers and notifiers run between the two.
CloseRemoved(s) ==
  /\ s \in removing
  /\ removing' = removing \ {s}
  /\ sealed' = [sealed EXCEPT ![s] = TRUE]
  /\ UNCHANGED <<team, stops, current, born, managerVars, sessionVars,
                 notifierVars, historyVars>>

StopTeam ==
  /\ team = "running"
  /\ stops < MaxStops
  /\ team' = "stopped"
  /\ stops' = stops + 1
  /\ PopStream

DeleteTeam ==
  /\ team # "gone"
  /\ team' = "gone"
  /\ PopStream
  /\ UNCHANGED stops

StartAfresh ==
  /\ team = "stopped"
  /\ team' = "running"
  /\ born + 1 \in Streams
  /\ current' = born + 1
  /\ born' = born + 1
  /\ UNCHANGED <<stops, removing, sealed, managerVars, sessionVars, historyVars>>

\* The team starts again: what it replays lands in the stream its entry has,
\* which may be one that a handler opened while the team was stopped.
Started ==
  /\ team = "stopped"
  /\ team' = "running"
  /\ \E s \in Streams : Entry(s)
  /\ UNCHANGED <<stops, removing, sealed, managerVars, sessionVars, historyVars>>

\* A delivery revives the team; only the restore route notifies.
ReviveTeam == Started /\ UNCHANGED notifierVars

-----------------------------------------------------------------------------
(* websocket_events *)

Connect(c) ==
  /\ pc[c] = "new"
  /\ LoopFree
  /\ IF team = "gone"
     THEN Goto(c, "ended") /\ UNCHANGED seen
     ELSE Goto(c, "accept") /\ seen' = [seen EXCEPT ![c] = team]
  /\ UNCHANGED <<teamVars, managerVars, open, hungup, source, depth,
                 conns, notifierVars, historyVars>>

\* After the awaits of the access check and of accept(): the status read
\* before them decides.
Accept(c) ==
  /\ pc[c] = "accept"
  /\ LoopFree
  /\ open' = [open EXCEPT ![c] = TRUE]
  /\ Goto(c, IF seen[c] = "running" THEN "lookup" ELSE "enlist")
  /\ seen' = [seen EXCEPT ![c] = "none"]
  /\ UNCHANGED <<teamVars, managerVars, hungup, source, depth,
                 conns, notifierVars, historyVars>>

Forbid(c) ==
  /\ pc[c] = "accept"
  /\ LoopFree
  /\ Goto(c, "ended")
  /\ seen' = [seen EXCEPT ![c] = "none"]
  /\ UNCHANGED <<teamVars, managerVars, open, hungup, source, depth,
                 conns, notifierVars, historyVars>>

\* The client closes its socket; the handler learns of it by receiving.
HangUp(c) ==
  /\ open[c]
  /\ ~hungup[c]
  /\ hungup' = [hungup EXCEPT ![c] = TRUE]
  /\ UNCHANGED <<teamVars, managerVars, pc, seen, open, source, depth,
                 conns, notifierVars, historyVars>>

-----------------------------------------------------------------------------
(* _run_streaming_loop *)

\* subscribe(team_id, cursor=0), its two lock sections.
Lookup(c) ==
  /\ pc[c] = "lookup"
  /\ \E s \in Streams :
       /\ Entry(s)
       /\ source' = [source EXCEPT ![c] = s]
  /\ Goto(c, "register")
  /\ UNCHANGED <<team, stops, removing, sealed, managerVars, seen, open, hungup,
                 depth, conns, notifierVars, historyVars>>

Register(c) ==
  /\ pc[c] = "register"
  /\ Goto(c, IF sealed[source[c]] THEN "clear" ELSE "streaming")
  /\ UNCHANGED <<teamVars, managerVars, seen, open, hungup, source, depth,
                 conns, notifierVars, historyVars>>

\* conn_mgr.clear_restored(team_id), then _run_idle_loop.
ClearRestored(c) ==
  /\ pc[c] = "clear"
  /\ restored' = FALSE
  /\ wiped' = (wiped \/ told # {})
  /\ Goto(c, "enlist")
  /\ UNCHANGED <<teamVars, entry, list, seen, open, hungup, source, depth,
                 conns, notifierVars, told>>

\* The pump has seen the end; the client's frame may have come with it.
StreamOver(c) ==
  /\ pc[c] = "streaming"
  /\ sealed[source[c]]
  /\ LoopFree
  /\ Goto(c, "clear")
  /\ \E b \in {TRUE, ~hungup[c]} : open' = [open EXCEPT ![c] = b]
  /\ Detach(c)
  /\ UNCHANGED <<teamVars, managerVars, seen, hungup, depth,
                 conns, notifierVars, historyVars>>

-----------------------------------------------------------------------------
(* _run_idle_loop *)

\* add_waiting on entry.
Enlist(c) ==
  /\ pc[c] = "enlist"
  /\ \E l \in Lists : SetDefault(l) /\ conns' = l
  /\ Goto(c, "append")
  /\ UNCHANGED <<teamVars, restored, seen, open, hungup, source, depth,
                 notifierVars, historyVars>>

AppendWaiting(c) ==
  /\ pc[c] = "append"
  /\ list' = [list EXCEPT ![conns] = Append(@, c)]
  /\ depth' = [depth EXCEPT ![c] = @ + 1]
  /\ conns' = NoList
  /\ Goto(c, "idle")
  /\ UNCHANGED <<teamVars, restored, entry, seen, open, hungup, source,
                 notifierVars, historyVars>>

PollStreamsOnce(c) ==
  /\ pc[c] = "idle"
  /\ LoopFree
  /\ open[c]
  /\ restored
  /\ restored' = FALSE
  /\ Goto(c, "lookup")
  /\ told' = told \ {c}
  /\ UNCHANGED <<teamVars, entry, list, seen, open, hungup, source, depth,
                 conns, notifierVars, wiped>>

\* The one-second wait runs out and the flag is set.
Poll(c) ==
  /\ pc[c] = "idle"
  /\ LoopFree
  /\ open[c]
  /\ restored
  /\ Goto(c, "lookup")
  /\ told' = told \ {c}
  /\ UNCHANGED <<teamVars, managerVars, seen, open, hungup, source, depth,
                 conns, notifierVars, wiped>>

NoticeIdleOnly(c) ==
  /\ hungup[c]
  /\ pc[c] = "idle"
  /\ LoopFree
  /\ open' = [open EXCEPT ![c] = FALSE]
  /\ told' = told \ {c}
  /\ Detach(c)
  /\ Goto(c, "unwind")
  /\ UNCHANGED <<teamVars, managerVars, seen, hungup, depth,
                 conns, notifierVars, wiped>>

\* The disconnect frame is received, or a receive after it raises: the handler
\* leaves the loop it is in.
Notice(c) ==
  /\ hungup[c]
  /\ pc[c] \in {"idle", "streaming"}
  /\ LoopFree
  /\ open' = [open EXCEPT ![c] = FALSE]
  /\ told' = told \ {c}
  /\ Detach(c)
  /\ Goto(c, "unwind")
  /\ UNCHANGED <<teamVars, managerVars, seen, hungup, depth,
                 conns, notifierVars, wiped>>

\* One idle loop is left.
Left(c) ==
  /\ depth' = [depth EXCEPT ![c] = @ - 1]
  /\ conns' = NoList
  /\ Goto(c, "unwind")

\* remove_waiting of each idle loop the handler returns through, inner first:
\* conns = self._waiting.get(team_id)
Unwind(c) ==
  /\ pc[c] = "unwind"
  /\ IF depth[c] = 0
     THEN Goto(c, "ended") /\ UNCHANGED <<depth, conns>>
     ELSE IF entry = NoList THEN Left(c)
     ELSE Goto(c, "prune") /\ conns' = entry /\ UNCHANGED depth
  /\ UNCHANGED <<teamVars, managerVars, seen, open, hungup, source,
                 notifierVars, historyVars>>

\* conns.remove(ws); if not conns:
Prune(c) ==
  /\ pc[c] = "prune"
  /\ list' = [list EXCEPT ![conns] = RemoveFirst(@, c)]
  /\ IF list'[conns] = <<>>
     THEN Goto(c, "drop") /\ UNCHANGED <<depth, conns>>
     ELSE Left(c)
  /\ UNCHANGED <<teamVars, restored, entry, seen, open, hungup, source,
                 notifierVars, historyVars>>

\* del self._waiting[team_id], whichever list is there by now; a missing entry
\* raises, and the handler unwinds with the exception instead.
Drop(c) ==
  /\ pc[c] = "drop"
  /\ entry' = NoList
  /\ Left(c)
  /\ UNCHANGED <<teamVars, restored, list, seen, open, hungup, source,
                 notifierVars, historyVars>>

-----------------------------------------------------------------------------
(* restore_team (the route) and notify_restore, on a threadpool thread *)

Restore(n) ==
  /\ npc[n] = "free"
  /\ Started
  /\ npc' = [npc EXCEPT ![n] = "pop"]
  /\ UNCHANGED <<held, index, ws, target>>

PopWaiting(n) ==
  /\ npc[n] = "pop"
  /\ IF entry = NoList
     THEN npc' = [npc EXCEPT ![n] = "free"] /\ UNCHANGED <<held, entry>>
     ELSE /\ npc' = [npc EXCEPT ![n] = "check"]
          /\ held' = [held EXCEPT ![n] = entry]
          /\ entry' = NoList
  /\ UNCHANGED <<teamVars, restored, list, sessionVars, index, ws, target,
                 historyVars>>

\* if not waiting: return
CheckWaiting(n) ==
  /\ npc[n] = "check"
  /\ IF list[held[n]] = <<>>
     THEN /\ npc' = [npc EXCEPT ![n] = "free"]
          /\ held' = [held EXCEPT ![n] = NoList]
     ELSE npc' = [npc EXCEPT ![n] = "mark"] /\ UNCHANGED held
  /\ UNCHANGED <<teamVars, managerVars, sessionVars, index, ws, target,
                 historyVars>>

\* The idle sessions it found are told of a team that still runs.
MarkRestored(n) ==
  /\ npc[n] = "mark"
  /\ restored' = TRUE
  /\ wiped' = FALSE
  /\ told' = told \cup {c \in Range(list[held[n]]) :
                          team = "running" /\ pc[c] = "idle" /\ open[c]}
  /\ npc' = [npc EXCEPT ![n] = "visit"]
  /\ index' = [index EXCEPT ![n] = 1]
  /\ UNCHANGED <<teamVars, entry, list, sessionVars, held, ws, target>>

\* for ws in waiting: the list object is iterated by position.  What nobody
\* refers to afterwards is emptied.
Visit(n) ==
  /\ npc[n] = "visit"
  /\ LET waiting == list[held[n]] IN
     IF index[n] > Len(waiting)
     THEN /\ npc' = [npc EXCEPT ![n] = "free"]
          /\ held' = [held EXCEPT ![n] = NoList]
          /\ index' = [index EXCEPT ![n] = 0]
          /\ list' = [list EXCEPT ![held[n]] = IF conns = held[n] THEN @ ELSE <<>>]
          /\ UNCHANGED ws
     ELSE /\ index' = [index EXCEPT ![n] = @ + 1]
          /\ IF open[waiting[index[n]]]
             THEN /\ npc' = [npc EXCEPT ![n] = "readd"]
                  /\ ws' = [ws EXCEPT ![n] = waiting[index[n]]]
             ELSE UNCHANGED <<npc, ws>>
          /\ UNCHANGED <<held, list>>
  /\ UNCHANGED <<teamVars, restored, entry, sessionVars, target, historyVars>>

\* conn_mgr.add_waiting of a session that is still connected.
Readd(n) ==
  /\ npc[n] = "readd"
  /\ \E l \in Lists : SetDefault(l) /\ target' = [target EXCEPT ![n] = l]
  /\ npc' = [npc EXCEPT ![n] = "reappend"]
  /\ UNCHANGED <<teamVars, restored, sessionVars, held, index, ws,
                 historyVars>>

ForgetToReappend(n) ==
  /\ npc[n] = "reappend"
  /\ target' = [target EXCEPT ![n] = NoList]
  /\ ws' = [ws EXCEPT ![n] = NoSession]
  /\ npc' = [npc EXCEPT ![n] = "visit"]
  /\ UNCHANGED <<teamVars, managerVars, sessionVars, held, index,
                 historyVars>>

Reappend(n) ==
  /\ npc[n] = "reappend"
  /\ list' = [list EXCEPT ![target[n]] = Append(@, ws[n])]
  /\ target' = [target EXCEPT ![n] = NoList]
  /\ ws' = [ws EXCEPT ![n] = NoSession]
  /\ npc' = [npc EXCEPT ![n] = "visit"]
  /\ UNCHANGED <<teamVars, restored, entry, sessionVars, held, index,
                 historyVars>>

-----------------------------------------------------------------------------
(* The specification *)

\* The flag may be left over: nothing clears it when the sessions a restore found
\* waiting leave, or when the team ends.
Init ==
  /\ stops = 0
  /\ \/ team = "running" /\ current = 1
     \/ team = "stopped" /\ current = NoStream
  /\ born = current
  /\ removing = {}
  /\ sealed = [s \in Streams |-> FALSE]
  /\ restored \in BOOLEAN /\ entry = NoList /\ list = [l \in Lists |-> <<>>]
  /\ pc = [c \in Sessions |-> "new"]
  /\ seen = [c \in Sessions |-> "none"]
  /\ open = [c \in Sessions |-> FALSE]
  /\ hungup = [c \in Sessions |-> FALSE]
  /\ source = [c \in Sessions |-> NoStream]
  /\ depth = [c \in Sessions |-> 0]
  /\ conns = NoList
  /\ npc = [n \in Notifiers |-> "free"]
  /\ held = [n \in Notifiers |-> NoList]
  /\ index = [n \in Notifiers |-> 0]
  /\ ws = [n \in Notifiers |-> NoSession]
  /\ target = [n \in Notifiers |-> NoList]
  /\ told = {} /\ wiped = FALSE /\ raced = FALSE

TeamStep ==
  \/ StopTeam \/ DeleteTeam \/ ReviveTeam
  \/ \E s \in Streams : CloseRemoved(s)

\* What the event loop does for a session, apart from receiving its client's
\* disconnect, which another task may wait for.
HandlerStep(c) ==
  \/ Accept(c)
  \/ Lookup(c) \/ Register(c) \/ ClearRestored(c)
  \/ StreamOver(c)
  \/ Enlist(c) \/ AppendWaiting(c) \/ Poll(c)
  \/ Unwind(c) \/ Prune(c) \/ Drop(c)

NotifierStep(n) ==
  \/ PopWaiting(n) \/ CheckWaiting(n) \/ MarkRestored(n)
  \/ Visit(n) \/ Readd(n) \/ Reappend(n)

\* The notifiers that hold a popped list; while one does, no handler and no other
\* notifier should work on lists.
Sweepers ==
  {n \in Notifiers : npc[n] \in {"check", "mark", "visit", "readd", "reappend"}}
Sweeping == Sweepers # {}
Racing ==
  \/ Sweeping /\ \E c \in Sessions : pc[c] \in {"append", "unwind", "prune", "drop"}
  \/ \E m, n \in Sweepers : m # n

Step ==
  \/ TeamStep
  \/ \E c \in Sessions :
       Connect(c) \/ Forbid(c) \/ HangUp(c) \/ Notice(c) \/ HandlerStep(c)
  \/ \E n \in Notifiers : Restore(n) \/ NotifierStep(n)

Tracked(A) == A /\ raced' = (raced \/ Racing')

Next == Tracked(Step)

Spec == Init /\ [][Next]_vars

\* The event loop resumes every task that can go on (a handler, and the task
\* that receives), and sections are finite; clients pause for a second between
\* frames, so an idle loop's wait runs out; the pump reads a sealed stream to its
\* end; a notifier's thread runs, and so does one inside remove().  Nothing is assumed of a client's leaving, of
\* the team or of new requests.
Fairness ==
  /\ \A c \in Sessions :
       /\ WF_vars(Tracked(HandlerStep(c)))
       /\ WF_vars(Tracked(Notice(c)))
  /\ \A n \in Notifiers : WF_vars(Tracked(NotifierStep(n)))
  /\ \A s \in Streams : WF_vars(Tracked(CloseRemoved(s)))

FairSpec == Spec /\ Fairness

-----------------------------------------------------------------------------
(* Properties *)

\* The type invariant.
TypeOK ==
  /\ team \in {"running", "stopped", "gone"}
  /\ stops \in 0 .. MaxStops
  /\ current \in {NoStream} \cup Streams
  /\ born \in 0 .. MaxStops + 2
  /\ removing \in SUBSET Streams
  /\ sealed \in [Streams -> BOOLEAN]
  /\ restored \in BOOLEAN
  /\ entry \in {NoList} \cup Lists
  /\ list \in [Lists -> Seq(Sessions)]
  /\ pc \in [Sessions -> {"new", "accept", "streaming", "idle", "ended"}
                        \cup SectionSteps]
  /\ seen \in [Sessions -> {"none", "running", "stopped"}]
  /\ open \in [Sessions -> BOOLEAN]
  /\ hungup \in [Sessions -> BOOLEAN]
  /\ source \in [Sessions -> {NoStream} \cup Streams]
  /\ depth \in [Sessions -> Nat]
  /\ conns \in {NoList} \cup Lists
  /\ npc \in [Notifiers -> {"free", "pop", "check", "mark", "visit", "readd",
                           "reappend"}]
  /\ held \in [Notifiers -> {NoList} \cup Lists]
  /\ index \in [Notifiers -> Nat]
  /\ ws \in [Notifiers -> Sessions \cup {NoSession}]
  /\ target \in [Notifiers -> {NoList} \cup Lists]
  /\ told \in SUBSET Sessions
  /\ wiped \in BOOLEAN
  /\ raced \in BOOLEAN

\* How often a session is in the list the next restore will pop.
Listings(c) == IF entry = NoList THEN 0
               ELSE Cardinality({i \in DOMAIN list[entry] : list[entry][i] = c})

\* Unless a handler and a notifier, or two notifiers, ever worked on the lists at
\* once, between their steps the waiting list has a connected session once for each
\* idle loop its handler is inside of, so the next restore finds it, and has nothing
\* of a session that ended (add_waiting, remove_waiting, notify_restore).
ListMatchesLoops ==
  ~raced /\ LoopFree /\ ~Sweeping =>
    \A c \in Sessions :
      /\ open[c] => Listings(c) = depth[c]
      /\ pc[c] = "ended" => Listings(c) = 0

\* Sections do not interleave: at most one handler is between two awaits.
OneSection ==
  \A c, d \in Sessions : pc[c] \in SectionSteps /\ pc[d] \in SectionSteps => c = d

\* A step that goes on with a stream, a list or a session has it.
OperandsAreThere ==
  /\ \A c \in Sessions :
       /\ pc[c] \in {"register", "streaming"} => source[c] \in Streams
       /\ pc[c] \in {"append", "prune", "drop"} => conns \in Lists
       /\ pc[c] \in {"prune", "drop"} => depth[c] > 0
  /\ \A n \in Notifiers :
       /\ npc[n] \in {"check", "mark", "visit", "readd", "reappend"} => held[n] \in Lists
       /\ npc[n] \in {"visit", "readd", "reappend"} => index[n] > 0
       /\ npc[n] \in {"readd", "reappend"} => ws[n] \in Sessions
       /\ npc[n] = "reappend" => target[n] \in Lists

\* Every stream object ever made is in one place: the team's entry, where the
\* next append and the next remove find it, in the hands of a remove(), or closed.
StreamsAreAccountedFor ==
  /\ current # NoStream => current \in 1 .. born
  /\ removing \subseteq 1 .. born
  /\ \A s \in 1 .. born :
       /\ s = current => s \notin removing /\ ~sealed[s]
       /\ s \in removing => ~sealed[s]
       /\ s = current \/ s \in removing \/ sealed[s]
  /\ \A s \in Streams : sealed[s] => s <= born
  /\ \A c \in Sessions : source[c] <= born

\* The inductive invariant: sections do not interleave, steps have what they work
\* on, and no stream is dropped by the team without somebody about to close it
\* (websocket_events, subscribe, remove, notify_restore).
SessionInv ==
  TypeOK /\ OneSection /\ OperandsAreThere /\ StreamsAreAccountedFor

\* No handler is left behind on a stream the team has left: although handlers
\* look streams up on a status or a flag that is stale by then, for a stopped
\* team, around a remove() that has popped and not closed yet, or around a start,
\* a handler whose stream is not the team's entry leaves it or is served from
\* the entry again (websocket_events, subscribe, remove).
NobodyIsLeftBehind ==
  \A c \in Sessions :
    (pc[c] = "streaming" /\ source[c] # current)
      ~> (pc[c] # "streaming" \/ source[c] = current)

\* A client that leaves is noticed whatever its handler is doing, and the
\* handler ends, through all the loops it is inside of.
HungUpHandlersEnd ==
  \A c \in Sessions : hungup[c] ~> pc[c] = "ended"

\* A session a restore found waiting streams again, unless it leaves, the team
\* is stopped once more, or a clear_restored has come between.
ToldSessionsResume ==
  \A c \in Sessions : c \in told ~> (c \notin told \/ wiped)

\* "Each idle loop detects this on its next timeout iteration and starts
\* streaming" (docstring of notify_restore): while the team stays up, a session
\* a restore found waiting finds the flag set.
ToldSessionsSeeTheFlag == told # {} => restored
===============================================================================
