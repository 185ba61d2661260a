SPECIFICATION ClientSpec
CONSTANTS
  Processes = {p1, p2}
  MaxGrants = 3
  MaxMishaps = 1
  CodeLifetime = 2
  Fronts = {"repl", "tui"}
  ChatTeams = {ta, tb}
  NoTeam = NoTeam
  MaxRetries = 2
  MaxSockets = 4
  MaxLosses = 2
  MaxOrders = 2
INVARIANTS ClientTypeOK CacheIsUsable StreamIsTheTeams NoStreamIsLeft
PROPERTIES EveryCommandEnds DeadStreamIsNoticed
\* Every command has ended, or the session is over.
CHECK_DEADLOCK FALSE
