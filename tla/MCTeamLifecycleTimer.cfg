\* README.md:388 lists RuntimeCacheEvictionSubscriber among the subscribers
\* wiring.py passes to TeamManager; its docstring promises eviction "on EVERY
\* stop path (..) AND the inactivity-timer auto-stop".  One request thread.
SPECIFICATION ServiceSpec
CONSTANTS
  Callers = {main, c1}
  Main = main
  Users = {u1}
  NoUser = NoUser
  MaxCalls = 2
  MaxOps = 2
  MaxCrashes = 0
  Retire = FALSE
  TimerStops = TRUE
PROPERTY EveryStopEvicts
CHECK_DEADLOCK FALSE
