\* Two appending threads, two removing threads and one reader, over two
\* incarnations of the team's stream; no fairness on the timeout.  Symmetry is
\* unsound for liveness and not used.
SPECIFICATION FairSpec
CONSTANTS
  Writers = {w1, w2}
  Removers = {x1, x2}
  Readers = {r1}
  StartCursors = {0, 1}
  MaxStreams = 2
  MaxEvents = 2
INVARIANTS
  NoLostWakeup
  NoOrphanStream
PROPERTIES
  ImplementsEventLog
  EveryEventDelivered
  EveryReaderEnds
\* The bounds on events and incarnations stop the instance.
CHECK_DEADLOCK FALSE
