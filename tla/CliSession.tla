----------------------------- MODULE CliSession -----------------------------
(***************************************************************************)
(* An interactive session of the command-line client: one user, one        *)
(* background task that reads the team's event stream, and the connection  *)
(* manager they share.  The user's commands and the reader are two         *)
(* coroutines of one event loop: each runs until it awaits the network, so *)
(* that a switch, a reconnection asked for by hand and a reconnection the  *)
(* reader started by itself can be under way at the same time, all writing *)
(* the manager's socket.                                                   *)
(*                                                                         *)
(* Both front ends are here: the line-based session (repl.py with the      *)
(* handlers of repl_commands.py) and the full-screen one (tui/app.py with  *)
(* tui/command_adapter.py and tui/screens/team_select.py).                 *)
(***************************************************************************)
EXTENDS Naturals, Sequences, FiniteSets

CONSTANTS
    Fronts,      \* the front ends to explore, of "repl" and "tui"
    ChatTeams,   \* the teams a session can be opened on
    NoTeam,      \* the session of `chat` with no team chosen yet
    MaxRetries,  \* ConnectionManager.max_retries
    MaxSockets,  \* bound: connections the server accepts
    MaxLosses,   \* bound: connections the network or the server drops
    MaxOrders    \* bound: commands the user gives

ASSUME CliAssumption ==
    /\ Fronts \subseteq {"repl", "tui"}
    /\ NoTeam \notin ChatTeams
    /\ MaxRetries \in Nat \ {0}
    /\ {MaxSockets, MaxLosses, MaxOrders} \subseteq Nat

VARIABLES
    front,     \* which front end runs
    team,      \* the team the session shows and sends to
    managers,  \* connection managers, the last one current: socket, team, state
    sockets,   \* every connection ever accepted: its team and its condition
    reader,    \* the receive task: where it is, the socket it awaits, its dial
    user,      \* the user's coroutine: where it is and the team it is after
    crossed,   \* a dial for one team ended after the manager moved to another
    byHand,    \* the line-based /reconnect was used
    losses,    \* connections dropped so far
    orders     \* commands given so far

cliVars == <<front, team, managers, sockets, reader, user, crossed, byHand,
             losses, orders>>

------------------------------------------------------------------------------
Current == Len(managers)
Manager == managers[Current]
OpenSockets == {s \in DOMAIN sockets : sockets[s].st = "open"}

Idle == [at |-> "idle", to |-> NoTeam]
Over == [at |-> "over", on |-> 0, to |-> NoTeam, tries |-> 0]
Dialling(at, t, n) == [at |-> at, on |-> 0, to |-> t, tries |-> n]

\* receive_event: wait on the manager's socket, or give up when it has none.
Reading(mgr) ==
    IF mgr.ws = 0 THEN Over
                  ELSE [at |-> "read", on |-> mgr.ws, to |-> NoTeam, tries |-> 0]

\* connect() from its first line to its await: the state is CONNECTING.  A
\* reconnection sets RECONNECTING and calls connect() in the same breath, so
\* nobody ever sees RECONNECTING.
Connecting(mgr) == [mgr EXCEPT !.state = "CONNECTING"]

\* The receive task is cancelled and a new one started on the manager `mgr`:
\* the line-based session reads at once, stream_events first connects when the
\* manager says DISCONNECTED.
Restart(mgr) ==
    IF front = "tui" /\ mgr.state = "DISCONNECTED"
    THEN /\ reader' = Dialling("open", mgr.team, 0)
         /\ managers' = [managers EXCEPT ![Current] = Connecting(mgr)]
    ELSE /\ reader' = Reading(mgr)
         /\ managers' = [managers EXCEPT ![Current] = mgr]

\* WsClient.connect is accepted: a new socket for team t, and the manager that
\* holds it.
Accepted(t) ==
    /\ Len(sockets) < MaxSockets
    /\ sockets' = Append(sockets, [team |-> t, st |-> "open"])
Holding(mgr) == [mgr EXCEPT !.ws = Len(sockets) + 1, !.state = "CONNECTED"]

Refused(mgr) == [mgr EXCEPT !.state = "DISCONNECTED"]

Order == /\ user = Idle
         /\ orders < MaxOrders
         /\ orders' = orders + 1
         /\ UNCHANGED <<front, losses, crossed>>

------------------------------------------------------------------------------
(* The user's coroutine. *)

\* ChatSession.run enters the manager's context: a refused connection ends the
\* session before it began.
Enter ==
    /\ user.at = "start"
    /\ \/ /\ Accepted(team)
          /\ managers' = <<Holding(Manager)>>
          /\ reader' = Reading(Holding(Manager))
          /\ user' = Idle
       \/ /\ managers' = <<Refused(Manager)>>
          /\ user' = [Idle EXCEPT !.at = "gone"]
          /\ UNCHANGED <<sockets, reader>>
    /\ UNCHANGED <<front, team, crossed, byHand, losses, orders>>

\* ChatApp: the team is chosen on the selection screen, at the start or after
\* Escape.  A new manager replaces the old one, whose socket nobody closes.
Pick(t) ==
    /\ front = "tui" /\ Order
    /\ team' = t
    /\ managers' = Append(managers, [ws |-> 0, team |-> t, state |-> "CONNECTING"])
    /\ reader' = Dialling("open", t, 0)
    /\ UNCHANGED <<sockets, user, byHand>>

\* switch_team up to its first await, for /switch, /create and /restore.
Switch(t) ==
    /\ team # NoTeam /\ Order
    /\ user' = [at |-> "dial", to |-> t]
    /\ UNCHANGED <<team, managers, sockets, reader, byHand>>

\* A plausible slip: the manager's team is set before the dial and stays set.
SwitchRefusedTooLate ==
    /\ user.at = "dial"
    /\ user' = Idle
    /\ managers' = [managers EXCEPT ![Current].team = user.to]
    /\ UNCHANGED <<front, team, sockets, reader, crossed, byHand, losses, orders>>

\* "Switch failed": the session and the manager stay where they are.
SwitchRefused ==
    /\ user.at = "dial"
    /\ user' = Idle
    /\ UNCHANGED <<front, team, managers, sockets, reader, crossed, byHand,
                   losses, orders>>

\* What the handlers do once switch_team returned: the line-based session moves
\* to the team and replaces its receive task at once; the full-screen one moves
\* and mounts a message first, and its reader runs on meanwhile.
Moved(mgr) ==
    /\ team' = user.to
    /\ IF front = "repl"
       THEN Restart(mgr) /\ user' = Idle
       ELSE /\ managers' = [managers EXCEPT ![Current] = mgr]
            /\ user' = [user EXCEPT !.at = "announce"]
            /\ UNCHANGED reader

\* A plausible slip: the old socket is left to the garbage collector.
SwitchForgetsOld ==
    /\ user.at = "dial"
    /\ Accepted(user.to)
    /\ Moved([Manager EXCEPT !.ws = Len(sockets) + 1, !.team = user.to])
    /\ UNCHANGED <<front, crossed, byHand, losses, orders>>

\* The new socket is up: the manager takes it and its team, its state stays what
\* it was.  Closing an open socket is awaited; a dead one closes without.
SwitchDialled ==
    /\ user.at = "dial"
    /\ Accepted(user.to)
    /\ LET mgr == [Manager EXCEPT !.ws = Len(sockets) + 1, !.team = user.to]
       IN IF Manager.ws # 0 /\ sockets[Manager.ws].st = "open"
          THEN /\ managers' = [managers EXCEPT ![Current] = mgr]
               /\ user' = [at |-> "close", to |-> user.to, old |-> Manager.ws]
               /\ UNCHANGED <<team, reader>>
          ELSE Moved(mgr)
    /\ UNCHANGED <<front, crossed, byHand, losses, orders>>

\* The closing handshake ends and wakes the user's coroutine and, if it was
\* waiting on that socket, the reader: when the reader runs first it has started
\* to dial before it is cancelled.
SwitchClosed ==
    /\ user.at = "close"
    /\ sockets' = [sockets EXCEPT ![user.old].st = "closed"]
    /\ \/ Moved(Manager)
       \/ /\ front = "repl" /\ reader.at = "read" /\ reader.on = user.old
          /\ Moved(Connecting(Manager))
    /\ UNCHANGED <<front, crossed, byHand, losses, orders>>

\* The message is mounted: stream_events takes the place of the reader.
Announced ==
    /\ user.at = "announce"
    /\ Restart(Manager)
    /\ user' = Idle
    /\ UNCHANGED <<front, team, sockets, crossed, byHand, losses, orders>>

\* /reconnect: connect() whatever the reader is doing.
Reconnect ==
    /\ team # NoTeam /\ Order
    /\ user' = [at |-> "redial", to |-> Manager.team]
    /\ managers' = [managers EXCEPT ![Current] = Connecting(Manager)]
    /\ byHand' = (byHand \/ front = "repl")
    /\ UNCHANGED <<team, sockets, reader>>

\* Only the full-screen session restarts its receive task afterwards, when it has
\* mounted its message.
Reconnected ==
    /\ user.at = "redial"
    /\ \/ /\ Accepted(user.to)
          /\ managers' = [managers EXCEPT ![Current] = Holding(Manager)]
          /\ user' = IF front = "tui" THEN [user EXCEPT !.at = "announce"] ELSE Idle
       \/ /\ managers' = [managers EXCEPT ![Current] = Refused(Manager)]
          /\ user' = Idle
          /\ UNCHANGED sockets
    /\ UNCHANGED <<front, team, reader, crossed, byHand, losses, orders>>

\* The session ends.  ChatSession.run cancels the receive task and waits for
\* it, then the manager closes the socket it holds; the full-screen session
\* leaves its sockets to the end of the process.
Leave ==
    /\ user = Idle
    /\ reader' = Over
    /\ user' = [Idle EXCEPT !.at = "gone"]
    /\ IF front = "repl"
       THEN /\ managers' = <<[Manager EXCEPT !.ws = 0, !.state = "DISCONNECTED"]>>
            /\ sockets' = IF Manager.ws = 0 THEN sockets
                          ELSE [sockets EXCEPT ![Manager.ws].st = "closed"]
       ELSE UNCHANGED <<managers, sockets>>
    /\ UNCHANGED <<front, team, crossed, byHand, losses, orders>>

------------------------------------------------------------------------------
(* The reader. *)

ReaderStep == UNCHANGED <<front, team, user, byHand, losses, orders>>

\* The end of a dial takes an exchange with the server: a coroutine that is ready
\* to run by then, as the switch is when the socket it closes is gone, runs first.
DialMayEnd ==
    /\ reader.at \in {"open", "dial"}
    /\ user.at = "close" => sockets[user.old].st = "open"

\* An event arrives: the next wait is on the socket the manager holds now.
Event ==
    /\ reader.at = "read" /\ sockets[reader.on].st = "open"
    /\ reader' = Reading(Manager)
    /\ ReaderStep /\ UNCHANGED <<managers, sockets, crossed>>

\* ConnectionClosed: _reconnect starts its first attempt, for the team the
\* manager is on now.
Noticed ==
    /\ reader.at = "read" /\ sockets[reader.on].st # "open"
    /\ reader' = Dialling("dial", Manager.team, 1)
    /\ managers' = [managers EXCEPT ![Current] = Connecting(Manager)]
    /\ ReaderStep /\ UNCHANGED <<sockets, crossed>>

\* A dial of the reader succeeds: the manager holds the new socket, whatever it
\* held, and the reader waits on it.
Dialled ==
    /\ DialMayEnd
    /\ Accepted(reader.to)
    /\ managers' = [managers EXCEPT ![Current] = Holding(Manager)]
    /\ reader' = Reading(Holding(Manager))
    /\ crossed' = (crossed \/ reader.to # Manager.team)
    /\ ReaderStep

\* A dial of the reader fails: stream_events goes on to read what there is, a
\* reconnection sleeps before its next attempt.
DialRefused ==
    /\ DialMayEnd
    /\ managers' = [managers EXCEPT ![Current] = Refused(Manager)]
    /\ reader' = IF reader.at = "open" THEN Reading(Manager)
                                       ELSE [reader EXCEPT !.at = "sleep"]
    /\ ReaderStep /\ UNCHANGED <<sockets, crossed>>

\* A plausible slip: the attempts are never counted, and the user never told.
RetriesForEver ==
    /\ reader.at = "sleep"
    /\ reader' = [reader EXCEPT !.at = "dial"]
    /\ managers' = [managers EXCEPT ![Current] = Connecting(Manager)]
    /\ ReaderStep /\ UNCHANGED <<sockets, crossed>>

\* The backoff is over: the next attempt, or the end of the task, which tells
\* the user "Connection lost".
Wake ==
    /\ reader.at = "sleep"
    /\ IF reader.tries < MaxRetries
       THEN /\ reader' = Dialling("dial", Manager.team, reader.tries + 1)
            /\ managers' = [managers EXCEPT ![Current] = Connecting(Manager)]
       ELSE /\ reader' = Over
            /\ managers' = [managers EXCEPT ![Current] = Refused(Manager)]
    /\ ReaderStep /\ UNCHANGED <<sockets, crossed>>

\* The network, or the server stopping or deleting the team, drops a connection.
Lose ==
    /\ losses < MaxLosses
    /\ \E s \in OpenSockets : sockets' = [sockets EXCEPT ![s].st = "lost"]
    /\ losses' = losses + 1
    /\ UNCHANGED <<front, team, managers, reader, user, crossed, byHand, orders>>

------------------------------------------------------------------------------
\* The line-based session starts by connecting, the full-screen one by starting
\* its reader, or by asking for a team when the command named none.
CliInit ==
    /\ front \in Fronts
    /\ team \in ChatTeams \cup (IF front = "tui" THEN {NoTeam} ELSE {})
    /\ managers = <<[ws |-> 0, team |-> team,
                     state |-> IF team = NoTeam THEN "DISCONNECTED"
                                                ELSE "CONNECTING"]>>
    /\ sockets = <<>>
    /\ reader = IF front = "tui" /\ team # NoTeam THEN Dialling("open", team, 0)
                                                  ELSE Over
    /\ user = IF front = "repl" THEN [Idle EXCEPT !.at = "start"] ELSE Idle
    /\ crossed = FALSE /\ byHand = FALSE
    /\ losses = 0 /\ orders = 0

ReaderNext == Noticed \/ Dialled \/ DialRefused \/ Wake

UserNext == Enter \/ SwitchRefused \/ SwitchDialled \/ SwitchClosed
            \/ Announced \/ Reconnected

CliNext ==
    \/ ReaderNext \/ UserNext
    \/ Event \/ Lose
    \/ \E t \in ChatTeams : Pick(t) \/ Switch(t)
    \/ Reconnect \/ Leave

CliSpec == CliInit /\ [][CliNext]_cliVars

\* The event loop runs a coroutine whose await has ended, a dial ends by
\* connecting, failing or timing out, and a sleep ends.  Whether the user gives
\* commands, events arrive or connections drop is not assumed.
CliFairness == WF_cliVars(ReaderNext) /\ WF_cliVars(UserNext)

------------------------------------------------------------------------------
\* Every variable has its type, and a reader that reads has a socket.
CliTypeOK ==
    /\ front \in Fronts /\ team \in ChatTeams \cup {NoTeam}
    /\ \A s \in DOMAIN sockets :
          sockets[s] \in [team : ChatTeams, st : {"open", "lost", "closed"}]
    /\ \A m \in DOMAIN managers :
          managers[m] \in [ws : 0..Len(sockets), team : ChatTeams \cup {NoTeam},
                           state : {"CONNECTING", "CONNECTED", "DISCONNECTED"}]
    /\ reader.at \in {"open", "read", "dial", "sleep", "over"}
    /\ reader.at = "read" => reader.on \in DOMAIN sockets
    /\ reader.tries \in 0..MaxRetries
    /\ user.at \in {"start", "idle", "dial", "close", "announce", "redial", "gone"}
    /\ losses \in 0..MaxLosses /\ orders \in 0..MaxOrders

\* Between two commands the events on the screen are those of the team the user
\* writes to: whatever the reader was doing when a switch landed, the live
\* socket it waits on belongs to the session's team.  The one exception is a
\* reconnection of the reader that began for the old team and ended after the
\* switch (switch_team does not stop the reader): `crossed`.
StreamIsTheTeams ==
    user = Idle /\ reader.at = "read" /\ ~crossed
       => LET s == sockets[reader.on]
          IN s.st = "open" => s.team = team

\* The line-based session never leaves a connection behind: between commands
\* the only live socket is the manager's, and once the session is over there is
\* none, through any interleaving of switches, drops and reconnections, as long
\* as /reconnect was not used (it connects over a socket that may be live).
NoStreamIsLeft ==
    front = "repl" /\ ~byHand
       => /\ user = Idle => OpenSockets \subseteq {Manager.ws}
          /\ user.at = "gone" => OpenSockets = {} /\ reader = Over

\* A reader that waits on a dead connection does not wait for ever: it comes to
\* read a live one, or it gives up and the user is told.
DeadStreamIsNoticed ==
    (reader.at = "read" /\ sockets[reader.on].st # "open")
       ~> (reader.at = "over" \/ (reader.at = "read" /\ sockets[reader.on].st = "open"))
=============================================================================
