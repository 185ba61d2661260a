SPECIFICATION EdgeSpec
CONSTANTS
  alice = alice  root = root  t1 = t1  t2 = t2  n1 = n1  k1 = k1  q1 = q1  q2 = q2
  e1 = e1  e2 = e2  p1 = p1  blank = blank  x1 = x1  x2 = x2  c1 = c1  c2 = c2
  Compositions <- MCCompositions
  Stock <- MCStock
  Clients = {c1, c2}
  LifespanFails <- MCAllFails
  Principals = {alice, root}
  Admins = {root}
  WsTeams = {t1, t2}
  Profiles <- MCProfiles
  Cases = {k1}
  NoCase = NoCase
  Shared = Shared
  Omitted = Omitted
  Malformed = Malformed
  Names = {n1}
  Policies = {"own tree", "keep all"}
  MaxFiles = 1
  MaxRequests = 1
  ApiTeams = {1, 2}
  ApiUsers = {alice, root}
  ApiAdmins = {root}
  Slots = {q1, q2}
  Archives <- MCArchives
  Clauses <- MCClauses
  Queries <- MCQueries
  Starts <- MCStarts
  Blank = blank
  ListNames = {c1, c2}
  Texts = {x1, x2}
  NoText = NoText
  MaxPageSize = 2
  MaxServed = 3
  Hands = {q1, q2}
  MaxOrders = 5
  MaxDeaths = 1
SYMMETRY EdgeSymmetry
INVARIANTS EdgeTypeOK ServingIsWired DrainReachesEveryClient TenantsAreApart OwnTreesGo
           UserTextStands AnswersAreTrue ListingIsExact HandlesAreLive
PROPERTY LivingTeamsKeepTheirFiles
\* The app is down, every team is deleted, every request is served.
CHECK_DEADLOCK FALSE
