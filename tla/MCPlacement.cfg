\* Three callers, two users, deleted teams purged; every call returns with no
\* help from the timeout.  Symmetry is unsound for that and not used.
SPECIFICATION FairSpec
CONSTANTS
  Callers = {c1, c2, c3}
  Users = {u1, u2}
  NoUser = NoUser
  MaxCalls = 3
  Retire = FALSE
INVARIANTS
  OneRuntime
  NoForeignTeam
PROPERTIES
  NeverRecreated
  EveryCallReturns
CHECK_DEADLOCK FALSE
