------------------------------- MODULE EventLog -------------------------------
(***************************************************************************)
(* What the community event stream promises its callers, stated without    *)
(* threads, locks or wake-ups.                                             *)
(*                                                                         *)
(* A stream object is an append-only log that is sealed once and for all   *)
(* when the team's stream is removed.  A reader opens one log at a start   *)
(* position and is given the log's entries from there, in order, each      *)
(* once.  It is told the stream is over only when the log is sealed and    *)
(* nothing is left to give; a reader that gives up itself may stop early.  *)
(***************************************************************************)
EXTENDS Naturals, Sequences

CONSTANTS Streams,       \* identities of stream objects
          Readers,       \* identities of reader objects
          Events,        \* what may be written
          StartCursors   \* positions a reader may open at

VARIABLES log,           \* log[s] : the events written to stream s
          sealed,        \* sealed[s] : no more writes to s
          status,        \* status[r] : what reader r is doing
          source,        \* source[r] : the stream r reads
          start,         \* start[r] : where r opened it
          delivered      \* delivered[r] : the events r was given

vars == <<log, sealed, status, source, start, delivered>>

\* The entry the reader is given next.
Position(r) == start[r] + Len(delivered[r]) + 1

Init ==
  /\ log = [s \in Streams |-> <<>>]
  /\ sealed = [s \in Streams |-> FALSE]
  /\ status = [r \in Readers |-> "new"]
  /\ source \in [Readers -> Streams]
  /\ start = [r \in Readers |-> 0]
  /\ delivered = [r \in Readers |-> <<>>]

Append1(s) ==
  /\ ~sealed[s]
  /\ \E e \in Events : log' = [log EXCEPT ![s] = Append(@, e)]
  /\ UNCHANGED <<sealed, status, source, start, delivered>>

Seal(s) ==
  /\ sealed' = [sealed EXCEPT ![s] = TRUE]
  /\ UNCHANGED <<log, status, source, start, delivered>>

\* Choosing what to read is not yet reading it.
Choose(r) ==
  /\ status[r] = "new"
  /\ \E s \in Streams : source' = [source EXCEPT ![r] = s]
  /\ \E c \in StartCursors : start' = [start EXCEPT ![r] = c]
  /\ UNCHANGED <<log, sealed, status, delivered>>

Open(r) ==
  /\ status[r] = "new"
  /\ ~sealed[source[r]]
  /\ status' = [status EXCEPT ![r] = "reading"]
  /\ UNCHANGED <<log, sealed, source, start, delivered>>

Deliver(r) ==
  /\ status[r] = "reading"
  /\ Position(r) <= Len(log[source[r]])
  /\ delivered' = [delivered EXCEPT ![r] = Append(@, log[source[r]][Position(r)])]
  /\ UNCHANGED <<log, sealed, status, source, start>>

\* The end is reported only for a sealed log read to its end.
End(r) ==
  /\ status[r] = "reading"
  /\ sealed[source[r]]
  /\ Position(r) > Len(log[source[r]])
  /\ status' = [status EXCEPT ![r] = "ended"]
  /\ UNCHANGED <<log, sealed, source, start, delivered>>

Abort(r) ==
  /\ status[r] = "reading"
  /\ status' = [status EXCEPT ![r] = "aborted"]
  /\ UNCHANGED <<log, sealed, source, start, delivered>>

Next ==
  \/ \E s \in Streams : Append1(s) \/ Seal(s)
  \/ \E r \in Readers : Choose(r) \/ Open(r) \/ Deliver(r) \/ End(r) \/ Abort(r)

Spec == Init /\ [][Next]_vars
===============================================================================
