\* Liveness: two sessions of a team found running or stopped, started once and
\* deleted.  Symmetry is unsound here and not used.
SPECIFICATION FairSpec
CONSTANTS
  Sessions = {c1, c2}
  NoSession = NoSession
  Notifiers = {n1}
  MaxStops = 0
PROPERTIES
  NobodyIsLeftBehind
  HungUpHandlersEnd
  ToldSessionsResume
CHECK_DEADLOCK FALSE
