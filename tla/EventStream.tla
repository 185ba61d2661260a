------------------------------ MODULE EventStream ------------------------------
(***************************************************************************)
(* The community tier's in-memory event stream                             *)
(* (adapters/community/local_event_stream.py) at the granularity its       *)
(* docstrings argue about: one action per lock section or per lock-free    *)
(* access of shared data.                                                  *)
(*                                                                         *)
(* One team's entry of the dict _streams is modelled.  Each _TeamStream    *)
(* created for it is an incarnation 1, 2, ..; a thread keeps the object it *)
(* looked up even after remove() popped the entry.                         *)
(***************************************************************************)
EXTENDS Integers, Sequences

CONSTANTS Writers,       \* threads that append (orchestrator actors)
          Removers,      \* threads that remove (on_stop, stop_team, delete_team)
          Readers,       \* LocalStreamReader objects, each made by one subscribe
          StartCursors,  \* cursors subscribe is called with
          MaxStreams,    \* bound: incarnations created for the team
          MaxEvents      \* bound: events issued

ASSUME EventStreamAssumption ==
  /\ MaxStreams \in Nat
  /\ MaxEvents \in Nat
  /\ StartCursors \subseteq Nat

Streams  == 1 .. MaxStreams
NoStream == 0

VARIABLES
  current,   \* the team's entry in _streams, NoStream when absent
  born,      \* incarnations created so far
  events,    \* events[s]  : the list _TeamStream.events
  closed,    \* closed[s]  : the flag _TeamStream.closed
  signals,   \* signals[s] : the readers registered in _TeamStream.signals
  issued,    \* events handed to append so far; the next event is issued + 1
  wpc, wstream, wevent, wseq,   \* an append call: step, stream, event, result
  xpc, xstream,                 \* a remove call: step, stream
  rpc, phase,                   \* a reader: step, and which drain of read_next
  rstream, start, cursor,       \* its stream, first and present cursor
  signal,    \* signal[r]  : its threading.Event is set
  closing,   \* closing[r] : progress of its own close()
  got        \* got[r]     : the events read_next returned (history)

streamVars == <<current, born, events, closed, signals>>
writerVars == <<issued, wpc, wstream, wevent, wseq>>
removerVars == <<xpc, xstream>>
readerVars == <<rpc, phase, rstream, start, cursor, signal, closing, got>>
vars == <<streamVars, writerVars, removerVars, readerVars>>

-----------------------------------------------------------------------------
(* Shared steps *)

\* First section of append and subscribe, under _lock: the entry's stream,
\* created when there is none.
Lookup(s) ==
  \/ /\ current = s
     /\ UNCHANGED <<current, born>>
  \/ /\ current = NoStream
     /\ s = born + 1
     /\ current' = s
     /\ born' = s

\* Threads between the write and the release of a stream's lock.
Signalling(s) ==
  \/ \E w \in Writers : wpc[w] = "signal" /\ wstream[w] = s
  \/ \E x \in Removers : xpc[x] = "signal" /\ xstream[x] = s

\* _TeamStream.lock can be acquired: it is held across two steps only by an
\* append or a remove that has written and not yet set the signals.
LockFree(s) == ~Signalling(s)

\* for sig in ts.signals: sig.set()
SetSignals(s) == signal' = [r \in Readers |-> signal[r] \/ r \in signals[s]]

-----------------------------------------------------------------------------
(* append() *)

AppendLookup(w) ==
  /\ wpc[w] = "idle"
  /\ issued < MaxEvents
  /\ issued' = issued + 1
  /\ \E s \in Streams :
       /\ Lookup(s)
       /\ wstream' = [wstream EXCEPT ![w] = s]
  /\ wevent' = [wevent EXCEPT ![w] = issued + 1]
  /\ wseq' = [wseq EXCEPT ![w] = 0]
  /\ wpc' = [wpc EXCEPT ![w] = "lock"]
  /\ UNCHANGED <<events, closed, signals, removerVars, readerVars>>

\* append() on a removed stream discards the event and returns -1.
AppendRefused(w) ==
  /\ wpc[w] = "lock"
  /\ LockFree(wstream[w])
  /\ closed[wstream[w]]
  /\ wseq' = [wseq EXCEPT ![w] = -1]
  /\ wpc' = [wpc EXCEPT ![w] = "idle"]
  /\ UNCHANGED <<issued, wstream, wevent, streamVars, removerVars, readerVars>>

\* list.append is visible to lock-free readers before any signal is set.
AppendWrite(w) ==
  /\ wpc[w] = "lock"
  /\ LockFree(wstream[w])
  /\ ~closed[wstream[w]]
  /\ events' = [events EXCEPT ![wstream[w]] = Append(@, wevent[w])]
  /\ wpc' = [wpc EXCEPT ![w] = "signal"]
  /\ UNCHANGED <<current, born, closed, signals, issued, wstream, wevent, wseq,
                 removerVars, readerVars>>

\* seq = len(ts.events), every registered signal set, lock released.
AppendSignal(w) ==
  /\ wpc[w] = "signal"
  /\ wseq' = [wseq EXCEPT ![w] = Len(events[wstream[w]])]
  /\ SetSignals(wstream[w])
  /\ wpc' = [wpc EXCEPT ![w] = "idle"]
  /\ UNCHANGED <<issued, wstream, wevent, streamVars, removerVars,
                 rpc, phase, rstream, start, cursor, closing, got>>

-----------------------------------------------------------------------------
(* remove() *)

RemovePopUnlessRead(x) ==
  /\ xpc[x] = "idle"
  /\ current # NoStream
  /\ xstream' = [xstream EXCEPT ![x] = current]
  /\ current' = NoStream
  /\ xpc' = [xpc EXCEPT ![x] = IF signals[current] = {} THEN "idle" ELSE "lock"]
  /\ UNCHANGED <<born, events, closed, signals, writerVars, readerVars>>

\* Pops the entry under _lock; with no entry remove() returns at once.
RemovePop(x) ==
  /\ xpc[x] = "idle"
  /\ current # NoStream
  /\ xstream' = [xstream EXCEPT ![x] = current]
  /\ current' = NoStream
  /\ xpc' = [xpc EXCEPT ![x] = "lock"]
  /\ UNCHANGED <<born, events, closed, signals, writerVars, readerVars>>

RemoveClose(x) ==
  /\ xpc[x] = "lock"
  /\ LockFree(xstream[x])
  /\ closed' = [closed EXCEPT ![xstream[x]] = TRUE]
  /\ xpc' = [xpc EXCEPT ![x] = "signal"]
  /\ UNCHANGED <<current, born, events, signals, xstream, writerVars, readerVars>>

RemoveSilently(x) ==
  /\ xpc[x] = "signal"
  /\ xpc' = [xpc EXCEPT ![x] = "idle"]
  /\ UNCHANGED <<xstream, streamVars, writerVars, readerVars>>

RemoveSignal(x) ==
  /\ xpc[x] = "signal"
  /\ SetSignals(xstream[x])
  /\ xpc' = [xpc EXCEPT ![x] = "idle"]
  /\ UNCHANGED <<xstream, streamVars, writerVars,
                 rpc, phase, rstream, start, cursor, closing, got>>

-----------------------------------------------------------------------------
(* subscribe() *)

SubscribeLookup(r) ==
  /\ rpc[r] = "new"
  /\ \E s \in Streams :
       /\ Lookup(s)
       /\ rstream' = [rstream EXCEPT ![r] = s]
  /\ \E c \in StartCursors :
       /\ start' = [start EXCEPT ![r] = c]
       /\ cursor' = [cursor EXCEPT ![r] = c]
  /\ rpc' = [rpc EXCEPT ![r] = "register"]
  /\ UNCHANGED <<events, closed, signals, writerVars, removerVars,
                 phase, signal, closing, got>>

\* The stream was removed between the two sections: StreamClosed.
SubscribeRefused(r) ==
  /\ rpc[r] = "register"
  /\ LockFree(rstream[r])
  /\ closed[rstream[r]]
  /\ rpc' = [rpc EXCEPT ![r] = "refused"]
  /\ UNCHANGED <<streamVars, writerVars, removerVars,
                 phase, rstream, start, cursor, signal, closing, got>>

SubscribeRegister(r) ==
  /\ rpc[r] = "register"
  /\ LockFree(rstream[r])
  /\ ~closed[rstream[r]]
  /\ signals' = [signals EXCEPT ![rstream[r]] = @ \cup {r}]
  /\ rpc' = [rpc EXCEPT ![r] = "self"]
  /\ UNCHANGED <<current, born, events, closed, writerVars, removerVars,
                 phase, rstream, start, cursor, signal, closing, got>>

-----------------------------------------------------------------------------
(* read_next(), called again and again by the pump until it raises.  Each of  *)
(* its three drains is _drain_or_raise(): steps "self", "advance", "flag" and *)
(* "final".  phase names the drain.                                           *)

readerRest == <<rstream, start, closing>>

Available(r) == cursor[r] < Len(events[rstream[r]])

\* _advance() returned an event: read_next returns it and is called afresh.
Return(r) ==
  /\ got' = [got EXCEPT ![r] = Append(@, events[rstream[r]][cursor[r] + 1])]
  /\ cursor' = [cursor EXCEPT ![r] = @ + 1]
  /\ phase' = [phase EXCEPT ![r] = "replay"]
  /\ rpc' = [rpc EXCEPT ![r] = "self"]

\* if self._closed: raise StreamClosed()
CheckSelf(r) ==
  /\ rpc[r] = "self"
  /\ rpc' = [rpc EXCEPT ![r] = IF closing[r] = "open" THEN "advance" ELSE "aborted"]
  /\ UNCHANGED <<streamVars, writerVars, removerVars, phase, cursor, signal, got, readerRest>>

Advance(r) ==
  /\ rpc[r] = "advance"
  /\ \/ Available(r) /\ Return(r)
     \/ /\ ~Available(r)
        /\ rpc' = [rpc EXCEPT ![r] = "flag"]
        /\ UNCHANGED <<phase, cursor, got>>
  /\ UNCHANGED <<streamVars, writerVars, removerVars, signal, readerRest>>

CheckClosedOnce(r) ==
  /\ rpc[r] = "flag"
  /\ rpc' = [rpc EXCEPT ![r] =
               IF closed[rstream[r]] THEN "ended"
               ELSE IF phase[r] = "replay" THEN "clear"
               ELSE IF phase[r] = "recheck" THEN "wait" ELSE "self"]
  /\ phase' = [phase EXCEPT ![r] = IF @ = "woken" /\ ~closed[rstream[r]]
                                   THEN "replay" ELSE @]
  /\ UNCHANGED <<streamVars, writerVars, removerVars, cursor, signal, got, readerRest>>

\* if self._team_stream.closed: advance once more, else return None.  None
\* from the first drain leads to the clear, from the second to the wait, and
\* from the third out of read_next, which the pump calls again.
CheckClosed(r) ==
  /\ rpc[r] = "flag"
  /\ rpc' = [rpc EXCEPT ![r] =
               IF closed[rstream[r]] THEN "final"
               ELSE IF phase[r] = "replay" THEN "clear"
               ELSE IF phase[r] = "recheck" THEN "wait" ELSE "self"]
  /\ phase' = [phase EXCEPT ![r] = IF @ = "woken" /\ ~closed[rstream[r]]
                                   THEN "replay" ELSE @]
  /\ UNCHANGED <<streamVars, writerVars, removerVars, cursor, signal, got, readerRest>>

\* The repeated advance after closed was seen; empty again, it is the end.
AdvanceFinal(r) ==
  /\ rpc[r] = "final"
  /\ \/ Available(r) /\ Return(r)
     \/ /\ ~Available(r)
        /\ rpc' = [rpc EXCEPT ![r] = "ended"]
        /\ UNCHANGED <<phase, cursor, got>>
  /\ UNCHANGED <<streamVars, writerVars, removerVars, signal, readerRest>>

ClearWithoutRecheck(r) ==
  /\ rpc[r] = "clear"
  /\ signal' = [signal EXCEPT ![r] = FALSE]
  /\ phase' = [phase EXCEPT ![r] = "recheck"]
  /\ rpc' = [rpc EXCEPT ![r] = "wait"]
  /\ UNCHANGED <<streamVars, writerVars, removerVars, cursor, got, readerRest>>

\* self._signal.clear(), then the re-check.
ClearSignal(r) ==
  /\ rpc[r] = "clear"
  /\ signal' = [signal EXCEPT ![r] = FALSE]
  /\ phase' = [phase EXCEPT ![r] = "recheck"]
  /\ rpc' = [rpc EXCEPT ![r] = "self"]
  /\ UNCHANGED <<streamVars, writerVars, removerVars, cursor, got, readerRest>>

\* self._signal.wait() returns because the event is set ..
Wake(r) ==
  /\ rpc[r] = "wait"
  /\ signal[r]
  /\ phase' = [phase EXCEPT ![r] = "woken"]
  /\ rpc' = [rpc EXCEPT ![r] = "self"]
  /\ UNCHANGED <<streamVars, writerVars, removerVars, cursor, signal, got, readerRest>>

\* .. or because the timeout ran out.
Timeout(r) ==
  /\ rpc[r] = "wait"
  /\ ~signal[r]
  /\ phase' = [phase EXCEPT ![r] = "woken"]
  /\ rpc' = [rpc EXCEPT ![r] = "self"]
  /\ UNCHANGED <<streamVars, writerVars, removerVars, cursor, signal, got, readerRest>>

-----------------------------------------------------------------------------
(* The reader's own close(), called by another thread than the one that may   *)
(* still be inside read_next.                                                 *)

Unopened == {"new", "register", "refused"}

CloseFlag(r) ==
  /\ rpc[r] \notin Unopened
  /\ closing[r] = "open"
  /\ closing' = [closing EXCEPT ![r] = "flagged"]
  /\ UNCHANGED <<streamVars, writerVars, removerVars,
                 rpc, phase, rstream, start, cursor, signal, got>>

CloseDiscard(r) ==
  /\ closing[r] = "flagged"
  /\ LockFree(rstream[r])
  /\ signals' = [signals EXCEPT ![rstream[r]] = @ \ {r}]
  /\ closing' = [closing EXCEPT ![r] = "closed"]
  /\ UNCHANGED <<current, born, events, closed, writerVars, removerVars,
                 rpc, phase, rstream, start, cursor, signal, got>>

-----------------------------------------------------------------------------

Init ==
  /\ current = NoStream
  /\ born = 0
  /\ events = [s \in Streams |-> <<>>]
  /\ closed = [s \in Streams |-> FALSE]
  /\ signals = [s \in Streams |-> {}]
  /\ issued = 0
  /\ wpc = [w \in Writers |-> "idle"]
  /\ wstream = [w \in Writers |-> NoStream]
  /\ wevent = [w \in Writers |-> 0]
  /\ wseq = [w \in Writers |-> 0]
  /\ xpc = [x \in Removers |-> "idle"]
  /\ xstream = [x \in Removers |-> NoStream]
  /\ rpc = [r \in Readers |-> "new"]
  /\ phase = [r \in Readers |-> "replay"]
  /\ rstream = [r \in Readers |-> NoStream]
  /\ start = [r \in Readers |-> 0]
  /\ cursor = [r \in Readers |-> 0]
  /\ signal = [r \in Readers |-> FALSE]
  /\ closing = [r \in Readers |-> "open"]
  /\ got = [r \in Readers |-> <<>>]

WriterStep(w) ==
  AppendLookup(w) \/ AppendRefused(w) \/ AppendWrite(w) \/ AppendSignal(w)

RemoverStep(x) == RemovePop(x) \/ RemoveClose(x) \/ RemoveSignal(x)

SubscribeStep(r) ==
  SubscribeLookup(r) \/ SubscribeRefused(r) \/ SubscribeRegister(r)

\* The steps of read_next that need no lock and no clock.
ReadStep(r) ==
  \/ CheckSelf(r) \/ Advance(r) \/ CheckClosed(r) \/ AdvanceFinal(r)
  \/ ClearSignal(r) \/ Wake(r)

CloseStep(r) == CloseFlag(r) \/ CloseDiscard(r)

Next ==
  \/ \E w \in Writers : WriterStep(w)
  \/ \E x \in Removers : RemoverStep(x)
  \/ \E r \in Readers : SubscribeStep(r) \/ ReadStep(r) \/ Timeout(r) \/ CloseStep(r)

Spec == Init /\ [][Next]_vars

\* A running thread keeps running: the pump calls read_next again, and a
\* thread holding the lock or about to close a popped stream goes on.  No
\* fairness is assumed of Timeout, of new calls, or of the reader's close().
Fairness ==
  /\ \A r \in Readers : WF_vars(ReadStep(r))
  /\ \A w \in Writers : WF_vars(AppendSignal(w))
  /\ \A x \in Removers : WF_vars(RemoveClose(x)) /\ WF_vars(RemoveSignal(x))

FairSpec == Spec /\ Fairness

-----------------------------------------------------------------------------
(* Properties *)

ReaderSteps == {"self", "advance", "flag", "final", "clear", "wait"}

\* Every variable holds a value of its type; a thread past its lookup holds a
\* stream object.
TypeOK ==
  /\ born \in 0 .. MaxStreams
  /\ current \in {NoStream} \cup (1 .. born)
  /\ events \in [Streams -> Seq(Nat)]
  /\ closed \in [Streams -> BOOLEAN]
  /\ signals \in [Streams -> SUBSET Readers]
  /\ issued \in 0 .. MaxEvents
  /\ wpc \in [Writers -> {"idle", "lock", "signal"}]
  /\ wstream \in [Writers -> Streams \cup {NoStream}]
  /\ wevent \in [Writers -> 0 .. MaxEvents]
  /\ wseq \in [Writers -> Nat \cup {-1}]
  /\ \A w \in Writers :
       wpc[w] # "idle" => wstream[w] \in Streams /\ wevent[w] \in 1 .. MaxEvents
  /\ xpc \in [Removers -> {"idle", "lock", "signal"}]
  /\ xstream \in [Removers -> Streams \cup {NoStream}]
  /\ \A x \in Removers : xpc[x] # "idle" => xstream[x] \in Streams
  /\ rpc \in [Readers -> Unopened \cup ReaderSteps \cup {"ended", "aborted"}]
  /\ phase \in [Readers -> {"replay", "recheck", "woken"}]
  /\ rstream \in [Readers -> Streams \cup {NoStream}]
  /\ \A r \in Readers : rpc[r] # "new" => rstream[r] \in Streams
  /\ start \in [Readers -> Nat]
  /\ cursor \in [Readers -> Nat]
  /\ signal \in [Readers -> BOOLEAN]
  /\ closing \in [Readers -> {"open", "flagged", "closed"}]
  /\ got \in [Readers -> Seq(Nat)]

\* A reader blocked on its own Event with something to read, or with its
\* stream closed, has its Event set, or the thread that wrote is about to set
\* it: the clear-then-recheck of read_next loses no wake-up.
NoLostWakeup ==
  \A r \in Readers :
    /\ rpc[r] = "wait"
    /\ closing[r] = "open"
    /\ Available(r) \/ closed[rstream[r]]
    => signal[r] \/ Signalling(rstream[r])

\* A reader is told StreamClosed (by the stream, not by its own close) only
\* when the stream is closed and every event ever written to it lies before
\* its cursor: closed never hides what was written (issue #412).
EndedMeansDrained ==
  \A r \in Readers :
    rpc[r] = "ended" => closed[rstream[r]] /\ ~Available(r)

\* The number append() returns is the position of that very event, whatever
\* other appends and removes ran meanwhile.
ReceiptIsPosition ==
  \A w \in Writers :
    wpc[w] = "idle" /\ wseq[w] > 0 =>
      /\ wseq[w] <= Len(events[wstream[w]])
      /\ events[wstream[w]][wseq[w]] = wevent[w]

\* A stream object that is no longer the team's entry is closed, or the
\* remover that popped it is on its way to close it: no reader is left
\* blocked on an object that nobody can reach to write to or to close.
NoOrphanStream ==
  \A s \in 1 .. born :
    \/ s = current
    \/ closed[s]
    \/ \E x \in Removers : xpc[x] = "lock" /\ xstream[x] = s

\* The strengthening that makes the invariants above inductive.
\* A stream's lock is held by one thread at a time between its write and its
\* signals, and the last event is then the holder's.
LockIsExclusive ==
  /\ \A v, w \in Writers :
       wpc[v] = "signal" /\ wpc[w] = "signal" /\ wstream[v] = wstream[w] => v = w
  /\ \A w \in Writers, x \in Removers :
       wpc[w] = "signal" /\ xpc[x] = "signal" => wstream[w] # xstream[x]
  /\ \A w \in Writers : wpc[w] = "signal" =>
       /\ Len(events[wstream[w]]) > 0
       /\ events[wstream[w]][Len(events[wstream[w]])] = wevent[w]

\* A reader past subscribe() is registered until its own close() ends.
Registered ==
  \A r \in Readers :
    /\ rpc[r] \in Unopened => closing[r] = "open"
    /\ rpc[r] \notin Unopened /\ closing[r] # "closed" => r \in signals[rstream[r]]

\* From the moment the second drain has found the list empty, any write is
\* either signalled or about to be.
RecheckCovers ==
  \A r \in Readers :
    /\ rpc[r] = "wait" => phase[r] = "recheck"
    /\ rpc[r] \in {"flag", "wait"} /\ phase[r] = "recheck"
       /\ closing[r] = "open" /\ Available(r)
         => signal[r] \/ Signalling(rstream[r])

\* A reader that has seen the closed flag reads a list that is final.
ClosedIsFinal ==
  \A r \in Readers : rpc[r] \in {"final", "ended"} => closed[rstream[r]]

\* What a reader was given is what lies between its two cursors.
CursorCounts ==
  \A r \in Readers :
    /\ cursor[r] = start[r] + Len(got[r])
    /\ rpc[r] \in Unopened => got[r] = <<>>

StreamInv ==
  /\ TypeOK
  /\ NoLostWakeup
  /\ EndedMeansDrained
  /\ ReceiptIsPosition
  /\ NoOrphanStream
  /\ LockIsExclusive
  /\ Registered
  /\ RecheckCovers
  /\ ClosedIsFinal
  /\ CursorCounts

\* The abstract log this module implements.
Status(r) ==
  IF rpc[r] \in Unopened THEN "new"
  ELSE IF rpc[r] \in {"ended", "aborted"} THEN rpc[r] ELSE "reading"

AllStreams == Streams \cup {NoStream}
LogEvents == [s \in AllStreams |-> IF s = NoStream THEN <<>> ELSE events[s]]
LogSealed == [s \in AllStreams |-> IF s = NoStream THEN FALSE ELSE closed[s]]
LogStatus == [r \in Readers |-> Status(r)]

Log == INSTANCE EventLog WITH
         Streams <- AllStreams,
         Events <- 1 .. MaxEvents,
         log <- LogEvents,
         sealed <- LogSealed,
         status <- LogStatus,
         source <- rstream,
         delivered <- got

\* Threads, locks, signals and cursors implement the abstract log: a reader
\* gets the stream's events from its start cursor, in order, each once, and
\* the end only after the last of them.
ImplementsEventLog == Log!Spec

\* With no help from the timeout, an open reader gets every event written to
\* its stream.
EveryEventDelivered ==
  \A r \in Readers : \A n \in 1 .. MaxEvents :
    (Status(r) = "reading" /\ Len(events[rstream[r]]) >= n)
      ~> (cursor[r] >= n \/ closing[r] # "open")

\* With no help from the timeout, an open reader whose stream is removed is
\* told so.
EveryReaderEnds ==
  \A r \in Readers :
    (Status(r) = "reading" /\ rstream[r] # current)
      ~> (Status(r) = "ended" \/ closing[r] # "open")
===============================================================================
