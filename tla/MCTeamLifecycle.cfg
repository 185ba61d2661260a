\* Two request threads and the boot thread: four requests and one crash, the
\* inactivity timer armed, deleted teams purged.
SPECIFICATION ServiceSpec
CONSTANTS
  Callers = {main, c1, c2}
  Main = main
  Users = {u1}
  NoUser = NoUser
  MaxCalls = 5
  MaxOps = 4
  MaxCrashes = 1
  Retire = FALSE
  TimerStops = TRUE
INVARIANTS
  HandleMatchesRecord
PROPERTIES
  LoneRequestsHeal
  OnlyEndingsLoseMessages
  LoneDeliveryArrives
  TreesOutliveRecord
CHECK_DEADLOCK FALSE
SYMMETRY ThreadSymmetry
