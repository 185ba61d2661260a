\* local_placement.py:168-171 and team_service.py:782: concurrent deliveries to
\* a stopped team share one revival.  Two request threads and no timer.
SPECIFICATION ServiceSpec
CONSTANTS
  Callers = {main, c1, c2}
  Main = main
  Users = {u1}
  NoUser = NoUser
  MaxCalls = 4
  MaxOps = 4
  MaxCrashes = 0
  Retire = FALSE
  TimerStops = FALSE
PROPERTY RevivalsShare
CHECK_DEADLOCK FALSE
