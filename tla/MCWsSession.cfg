\* Two sessions and a restore on a threadpool thread; the team stops and starts.
SPECIFICATION Spec
SYMMETRY SessionSymmetry
CONSTANTS
  Sessions = {c1, c2}
  NoSession = NoSession
  Notifiers = {n1}
  MaxStops = 1
INVARIANTS
  ListMatchesLoops
CHECK_DEADLOCK FALSE
