\* The flag of a restore, and the handlers that clear it.
SPECIFICATION Spec
CONSTANTS
  Sessions = {c1, c2}
  NoSession = NoSession
  Notifiers = {n1}
  MaxStops = 1
INVARIANTS
  ToldSessionsSeeTheFlag
CHECK_DEADLOCK FALSE
