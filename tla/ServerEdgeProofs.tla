--------------------------- MODULE ServerEdgeProofs ---------------------------
(***************************************************************************)
(* Proofs about the edge of the server, for any users, teams, profiles,    *)
(* clients, threads and numbers of requests: tenants are kept apart and no *)
(* deletion takes another team's files (WorkspaceAccess), a worker's       *)
(* handles are live (WorkerTeams), an app that serves is wired as its      *)
(* modules declare and its drain reaches every client (AppAssembly), and   *)
(* the types of all parts (MCServerEdge).                                  *)
(***************************************************************************)
EXTENDS MCServerEdge, TeamApiProofs, FiniteSetTheorems

-----------------------------------------------------------------------------
(* WorkspaceAccess: who reaches which tree *)

Records == {NoTeamYet}
             \cup [st : {"live", "deleting", "deleted"}, owner : Principals,
                   cards : SUBSET Layouts, meta : Cases \cup {NoCase}, readable : BOOLEAN]
Created(t) == t \in WsTeams /\ team[t] # NoTeamYet

\* p is a tree that team t may have to do with: shared or its owner's, and a
\* team's own tree only when it is t's.
TreeOf(t, p) ==
    /\ p.scope # Shared => p.scope = team[t].owner
    /\ p.kind = "_team" => p.leaf = t

FilesHaveTheirTeam == \A f \in files : Created(f.team) /\ TreeOf(f.team, f.path)

OpenIsAllowed ==
    ask.at = "open" => /\ Created(ask.team) /\ TreeOf(ask.team, ask.path)
                       /\ ask.path.scope # Shared
                       /\ Allowed(ask.user, ask.path.scope)

SeenIsOwn ==
    ask.at = "answered" =>
        /\ \A t \in ask.seen : Created(t)
        /\ ask.user \notin Admins => \A t \in ask.seen : team[t].owner = ask.user
        /\ ~ask.entitled => ask.code = 404

TenantInv ==
    /\ team \in [WsTeams -> Records]
    /\ FilesHaveTheirTeam /\ OpenIsAllowed /\ SeenIsOwn

------------------------------------------------------------------------------
\* A created team has a record, and owner and cards of the types they have.
LEMMA CreatedHasRecord ==
    ASSUME team \in [WsTeams -> Records], NEW t, Created(t)
    PROVE  /\ team[t] \in [st : {"live", "deleting", "deleted"}, owner : Principals,
                           cards : SUBSET Layouts, meta : Cases \cup {NoCase},
                           readable : BOOLEAN]
           /\ t \in WsTeams
  BY DEF Records, Created

\* Whatever a team's cards declare is a tree of that team (_declared_layout
\* takes the scope from the team's owner).
LEMMA DeclaredIsTreeOf ==
    ASSUME team \in [WsTeams -> Records], NEW t, Created(t),
           NEW p \in Declared(t, team[t])
    PROVE  TreeOf(t, p)
<1>1. team[t].cards \subseteq Layouts
  BY CreatedHasRecord
<1>2. PICK c \in team[t].cards : p = Resolved(t, team[t], c)
  BY DEF Declared
<1>3. c.kind \in {"_team", "_id", "_meta"}
  BY <1>1, <1>2 DEF Layouts
<1>4. CASE c.kind = "_team"
  BY <1>2, <1>4 DEF Resolved, OwnTree, Path, ScopeOf, TreeOf
<1>5. CASE c.kind = "_id"
  BY <1>2, <1>5 DEF Resolved, Path, ScopeOf, TreeOf
<1>6. CASE c.kind = "_meta"
  BY <1>2, <1>6 DEF Resolved, Path, ScopeOf, TreeOf
<1>7. QED
  BY <1>3, <1>4, <1>5, <1>6

\* What the workspace gate selects is a tree of the team it is asked about,
\* whatever the selector names.
LEMMA MatchIsTreeOf ==
    ASSUME team \in [WsTeams -> Records], NEW t, Created(t), NEW selector,
           NEW p \in Matches(t, team[t], selector)
    PROVE  TreeOf(t, p)
<1>1. CASE selector = Omitted
  <2>1. PICK sharing : p = OwnTree(t, team[t], sharing)
    BY <1>1 DEF Matches
  <2>2. /\ p.kind = "_team" /\ p.leaf = t
        /\ p.scope = ScopeOf(team[t], sharing)
    BY <2>1 DEF OwnTree, Path
  <2>3. QED
    BY <2>2 DEF ScopeOf, TreeOf
<1>2. CASE selector # Omitted
  <2>1. p \in Declared(t, team[t])
    BY <1>2 DEF Matches
  <2>2. QED
    BY <2>1, DeclaredIsTreeOf
<1>3. QED
  BY <1>1, <1>2

------------------------------------------------------------------------------
\* Nothing has been created, written or asked.
LEMMA InitTenants == WorkspaceInit => TenantInv
  BY DEF WorkspaceInit, TenantInv, Records, FilesHaveTheirTeam, OpenIsAllowed, SeenIsOwn, Free

\* What the workspace gate does with a request.
TurnedAway(user, t) ==
    \/ Answered(user, t, 400, TRUE, {})
    \/ Answered(user, t, 404, TRUE, {})
    \/ Answered(user, t, 500, TRUE, {})
LetOn(user, t, selector, op) ==
    \E p \in Matches(t, team[t], selector) : StashChecked(user, t, selector, op, p)

\* The workspace gate refuses, or goes on with one of the paths it selects.
LEMMA GateAnswers ==
    ASSUME NEW user, NEW t, NEW selector, NEW op, WorkspaceGate(user, t, selector, op)
    PROVE  \/ TurnedAway(user, t)
           \/ ~Unanswerable(t, team[t], selector) /\ LetOn(user, t, selector, op)
<1> USE DEF TurnedAway, LetOn
<1>1. CASE selector = Malformed
  BY <1>1 DEF WorkspaceGate
<1>2. CASE selector # Malformed /\ NamesForeignTeam(user, selector)
  BY <1>2 DEF WorkspaceGate
<1>3. CASE selector # Malformed /\ ~NamesForeignTeam(user, selector)
  <2>1. CASE Unanswerable(t, team[t], selector)
    BY <1>3, <2>1 DEF WorkspaceGate
  <2>2. CASE ~Unanswerable(t, team[t], selector) /\ Matches(t, team[t], selector) = {}
    BY <1>3, <2>2 DEF WorkspaceGate
  <2>3. CASE ~Unanswerable(t, team[t], selector) /\ Matches(t, team[t], selector) # {}
    BY <1>3, <2>3 DEF WorkspaceGate
  <2>4. QED
    BY <2>1, <2>2, <2>3
<1>4. QED
  BY <1>1, <1>2, <1>3

\* A request that is refused, or let in with the path of a tree that is not
\* shared and whose scope the policy allows.
LEMMA RequestTenants ==
    ASSUME TenantInv, NEW user \in Principals, NEW t \in WsTeams, NEW selector,
           NEW op \in {"read", "upload"}, Request(user, t, selector, op)
    PROVE  TenantInv'
<1>1. UNCHANGED <<team, files>>
  BY DEF Request
<1>2. /\ team' \in [WsTeams -> Records]
      /\ FilesHaveTheirTeam'
  BY <1>1 DEF TenantInv, FilesHaveTheirTeam, Created, TreeOf
<1>3. CASE ~(Known(t) /\ Allowed(user, team[t].owner))
  BY <1>1, <1>2, <1>3 DEF Request, Answered, TenantInv, OpenIsAllowed, SeenIsOwn
<1>4. CASE Known(t) /\ Allowed(user, team[t].owner)
  <2>1. Created(t)
    BY <1>4 DEF Known, Created, NoTeamYet
  <2>2. WorkspaceGate(user, t, selector, op)
    BY <1>4 DEF Request
  <2>3. ASSUME NEW code, Answered(user, t, code, TRUE, {})
        PROVE  TenantInv'
    BY <1>2, <2>3 DEF Answered, TenantInv, OpenIsAllowed, SeenIsOwn
  <2>4. CASE \E p \in Matches(t, team[t], selector) :
                /\ ScopeChecked(user, p) = 200
                /\ ask' = [at |-> "open", user |-> user, team |-> t,
                           selector |-> selector, op |-> op, path |-> p]
    <3>1. PICK p \in Matches(t, team[t], selector) :
             /\ ScopeChecked(user, p) = 200
             /\ ask' = [at |-> "open", user |-> user, team |-> t,
                        selector |-> selector, op |-> op, path |-> p]
      BY <2>4
    <3>2. TreeOf(t, p)
      BY <2>1, MatchIsTreeOf DEF TenantInv
    <3>3. p.scope # Shared /\ Allowed(user, p.scope)
      BY <3>1 DEF ScopeChecked
    <3>4. OpenIsAllowed'
      BY <1>1, <2>1, <3>1, <3>2, <3>3 DEF OpenIsAllowed, Created, TreeOf, Allowed
    <3>5. SeenIsOwn'
      BY <3>1 DEF SeenIsOwn
    <3>6. QED
      BY <1>2, <3>4, <3>5 DEF TenantInv
  <2>5. TurnedAway(user, t) \/ LetOn(user, t, selector, op)
    BY <2>2, GateAnswers
  <2>6. CASE TurnedAway(user, t)
    BY <2>3, <2>6 DEF TurnedAway
  <2>7. CASE LetOn(user, t, selector, op)
    <3>1. PICK p \in Matches(t, team[t], selector) : StashChecked(user, t, selector, op, p)
      BY <2>7 DEF LetOn
    <3>2. CASE ScopeChecked(user, p) = 200
      <4>1. ask' = [at |-> "open", user |-> user, team |-> t,
                    selector |-> selector, op |-> op, path |-> p]
        BY <3>1, <3>2 DEF StashChecked
      <4>2. QED
        BY <2>4, <3>2, <4>1
    <3>3. CASE ScopeChecked(user, p) # 200
      <4>1. Answered(user, t, ScopeChecked(user, p), TRUE, {})
        BY <3>1, <3>3 DEF StashChecked
      <4>2. QED
        BY <2>3, <4>1
    <3>4. QED
      BY <3>2, <3>3
  <2>8. QED
    BY <2>5, <2>6, <2>7
<1>5. QED
  BY <1>3, <1>4

\* A request that is open has its answer, and an upload adds its file.
LEMMA OpenReplies ==
    ASSUME Open
    PROVE  /\ \E code, seen :
                 /\ Answered(ask.user, ask.team, code, TRUE, seen)
                 /\ seen = {} \/ seen = {f.team : f \in {g \in files : g.path = ask.path}}
           /\ \/ files' = files
              \/ files' = files \cup {[path |-> ask.path, team |-> ask.team, by |-> "upload"]}
<1>1. CASE /\ Answered(ask.user, ask.team, 404, TRUE, {}) /\ UNCHANGED files
  BY <1>1
<1>2. CASE /\ Answered(ask.user, ask.team, 200, TRUE,
                       {f.team : f \in {g \in files : g.path = ask.path}})
           /\ UNCHANGED files
  BY <1>2
<1>3. CASE /\ files' = files \cup {[path |-> ask.path, team |-> ask.team, by |-> "upload"]}
           /\ Answered(ask.user, ask.team, 201, TRUE, {})
  BY <1>3
<1>4. QED
  BY <1>1, <1>2, <1>3 DEF Open

\* The route reads or writes the tree the gates let it have.
LEMMA OpenTenants ==
    ASSUME TenantInv, Open
    PROVE  TenantInv'
<1>1. UNCHANGED team /\ ask.at = "open"
  BY DEF Open
<1>2. PICK code, seen : /\ Answered(ask.user, ask.team, code, TRUE, seen)
                        /\ seen = {} \/ seen = {f.team : f \in {g \in files : g.path = ask.path}}
  BY OpenReplies DEF TenantInv
<1>3. files' = files \/ files' = files \cup {[path |-> ask.path, team |-> ask.team,
                                              by |-> "upload"]}
  BY OpenReplies DEF TenantInv
<1>4. FilesHaveTheirTeam'
  BY <1>1, <1>3 DEF TenantInv, FilesHaveTheirTeam, OpenIsAllowed, Created, TreeOf
<1>5. ASSUME NEW t \in seen
      PROVE  /\ Created(t)
             /\ ask.user \notin Admins => team[t].owner = ask.user
  <2>1. PICK f \in files : f.path = ask.path /\ f.team = t
    BY <1>2, <1>5
  <2>2. Created(t) /\ TreeOf(t, ask.path)
    BY <2>1 DEF TenantInv, FilesHaveTheirTeam
  <2>3. ask.path.scope # Shared /\ Allowed(ask.user, ask.path.scope)
    BY <1>1 DEF TenantInv, OpenIsAllowed
  <2>4. QED
    BY <2>2, <2>3 DEF TreeOf, Allowed
<1>6. SeenIsOwn'
  BY <1>1, <1>2, <1>5 DEF SeenIsOwn, Answered, Created
<1>7. OpenIsAllowed'
  BY <1>2 DEF OpenIsAllowed, Answered
<1>8. QED
  BY <1>1, <1>4, <1>6, <1>7 DEF TenantInv

\* A step that keeps every record, or changes one without its owner, and adds
\* only files of a tree of their team, keeps the tenants apart.
LEMMA RecordsChange ==
    ASSUME TenantInv, team' \in [WsTeams -> Records], UNCHANGED ask,
           \A t \in WsTeams : team[t] # NoTeamYet =>
               team'[t] # NoTeamYet /\ team'[t].owner = team[t].owner,
           \A f \in files' \ files : Created(f.team) /\ TreeOf(f.team, f.path)
    PROVE  TenantInv'
<1>1. \A t : Created(t) => Created(t)' /\ team'[t].owner = team[t].owner
  BY DEF Created
<1>2. \A t, p : Created(t) /\ TreeOf(t, p) => team'[t].owner = team[t].owner /\ TreeOf(t, p)'
  BY <1>1 DEF TreeOf
<1>3. FilesHaveTheirTeam'
  BY <1>1, <1>2 DEF TenantInv, FilesHaveTheirTeam
<1>4. OpenIsAllowed'
  BY <1>1, <1>2 DEF TenantInv, OpenIsAllowed, Allowed
<1>5. SeenIsOwn'
  BY <1>1 DEF TenantInv, SeenIsOwn
<1>6. QED
  BY <1>3, <1>4, <1>5 DEF TenantInv

\* Every step of the teams, their agents and their deletion.
LEMMA TeamTenants ==
    ASSUME TenantInv, NEW t \in WsTeams,
           CreateTeam(t) \/ UpdateMetadata(t) \/ AgentWrites(t)
             \/ DeleteTeam(t) \/ DeleteRecord(t) \/ RemoveTree(t)
    PROVE  TenantInv'
<1>0. team \in [WsTeams -> Records] /\ UNCHANGED ask
  BY DEF TenantInv, CreateTeam, UpdateMetadata, AgentWrites, DeleteTeam, DeleteRecord, RemoveTree
<1>1. CASE CreateTeam(t)
  <2>1. PICK p \in Profiles[t] :
           team' = [team EXCEPT ![t] = [st |-> "live", owner |-> p.owner, cards |-> p.cards,
                                        meta |-> p.meta, readable |-> p.readable]]
    BY <1>1 DEF CreateTeam
  <2>2. IsProfile(p)
    BY WorkspaceAssumption
  <2>3. team' \in [WsTeams -> Records]
    BY <1>0, <2>1, <2>2 DEF IsProfile, Records
  <2>4. team[t] = NoTeamYet /\ files' = files
    BY <1>1 DEF CreateTeam
  <2>5. QED
    BY <1>0, <2>1, <2>3, <2>4, RecordsChange
<1>2. CASE UpdateMetadata(t)
  <2>1. Created(t) /\ files' = files
    BY <1>2 DEF UpdateMetadata, Live, Created, NoTeamYet
  <2>2. PICK meta \in Cases \cup {NoCase} : team' = [team EXCEPT ![t].meta = meta]
    BY <1>2 DEF UpdateMetadata
  <2>3. team' = [team EXCEPT ![t] = [team[t] EXCEPT !.meta = meta]]
    BY <2>2
  <2>4. /\ [team[t] EXCEPT !.meta = meta] \in Records \ {NoTeamYet}
        /\ [team[t] EXCEPT !.meta = meta].owner = team[t].owner
    BY <1>0, <2>1, CreatedHasRecord DEF Records, NoTeamYet
  <2>5. QED
    BY <1>0, <2>1, <2>3, <2>4, RecordsChange
<1>3. CASE AgentWrites(t)
  <2>1. PICK p \in Declared(t, team[t]) :
           files' = files \cup {[path |-> p, team |-> t, by |-> "agent"]}
    BY <1>3 DEF AgentWrites
  <2>2. Created(t) /\ team' = team
    BY <1>3 DEF AgentWrites, Live, Created, NoTeamYet
  <2>3. TreeOf(t, p)
    BY <1>0, <2>2, DeclaredIsTreeOf
  <2>4. QED
    BY <1>0, <2>1, <2>2, <2>3, RecordsChange
<1>4. CASE DeleteTeam(t) \/ DeleteRecord(t)
  <2>1. Created(t) /\ files' = files
    <3>1. team[t].st \in {"live", "deleting"} /\ files' = files
      BY <1>4 DEF DeleteTeam, DeleteRecord, Live
    <3>2. team[t] # NoTeamYet
      BY <3>1 DEF NoTeamYet
    <3>3. QED
      BY <3>1, <3>2 DEF Created
  <2>2. PICK st \in {"deleting", "deleted"} : team' = [team EXCEPT ![t].st = st]
    <3>1. \/ team' = [team EXCEPT ![t].st = "deleting"]
          \/ team' = [team EXCEPT ![t].st = "deleted"]
      BY <1>4 DEF DeleteTeam, DeleteRecord
    <3>2. QED
      BY <3>1
  <2>3. team' = [team EXCEPT ![t] = [team[t] EXCEPT !.st = st]]
    BY <2>2
  <2>4. /\ [team[t] EXCEPT !.st = st] \in Records \ {NoTeamYet}
        /\ [team[t] EXCEPT !.st = st].owner = team[t].owner
    BY <1>0, <2>1, CreatedHasRecord DEF Records, NoTeamYet
  <2>5. QED
    BY <1>0, <2>1, <2>3, <2>4, RecordsChange
<1>5. CASE RemoveTree(t)
  <2>1. team' = team /\ files' \subseteq files
    BY <1>5 DEF RemoveTree
  <2>2. QED
    BY <1>0, <2>1, RecordsChange
<1>6. QED
  BY <1>1, <1>2, <1>3, <1>4, <1>5

\* The invariant is inductive.
LEMMA NextTenants == TenantInv /\ [WorkspaceNext]_wsVars => TenantInv'
<1> SUFFICES ASSUME TenantInv, [WorkspaceNext]_wsVars
             PROVE  TenantInv'
  OBVIOUS
<1>1. CASE \E u \in Principals, t \in WsTeams, s \in Selectors, op \in {"read", "upload"} :
              Request(u, t, s, op)
  BY <1>1, RequestTenants
<1>2. CASE Open
  BY <1>2, OpenTenants
<1>3. CASE Done
  BY <1>3 DEF Done, Free, TenantInv, FilesHaveTheirTeam, OpenIsAllowed, SeenIsOwn, Created, TreeOf
<1>4. CASE \E t \in WsTeams : CreateTeam(t) \/ UpdateMetadata(t) \/ AgentWrites(t)
                                \/ DeleteTeam(t) \/ DeleteRecord(t) \/ RemoveTree(t)
  BY <1>4, TeamTenants
<1>5. CASE UNCHANGED wsVars
  BY <1>5 DEF wsVars, TenantInv, FilesHaveTheirTeam, OpenIsAllowed, SeenIsOwn, Created, TreeOf,
              Allowed
<1>6. QED
  BY <1>1, <1>2, <1>3, <1>4, <1>5 DEF WorkspaceNext

------------------------------------------------------------------------------
\* At all times, every file lies in a tree of the team it was written for, and
\* a request that passed both gates holds a tree its caller may see.
THEOREM WorkspaceInvariant == WorkspaceSpec => []TenantInv
  BY InitTenants, NextTenants, PTL DEF WorkspaceSpec

\* An ordinary caller never reads a file of a team it does not own, and a caller
\* the policy denies the team is answered 404 (require_workspace_access).
THEOREM WorkspaceTenantsAreApart == WorkspaceSpec => []TenantsAreApart
<1>1. TenantInv => TenantsAreApart
  BY DEF TenantInv, SeenIsOwn, TenantsAreApart
<1>2. QED
  BY <1>1, WorkspaceInvariant, PTL

\* The trees a deletion removes held files of deleted teams only
\* (_remove_workspace_trees under team_tree_only_policy).
THEOREM WorkspaceLivingKeepFiles == WorkspaceSpec => LivingTeamsKeepTheirFiles
<1> DEFINE LostByDeletion == \A f \in files \ files' : team[f.team].st = "deleted"
<1>1. TenantInv /\ [WorkspaceNext]_wsVars => [LostByDeletion]_wsVars
  <2> SUFFICES ASSUME TenantInv, WorkspaceNext PROVE LostByDeletion
    OBVIOUS
  <2>1. ASSUME NEW t \in WsTeams, RemoveTree(t)
        PROVE  LostByDeletion
    <3>1. team[t].st = "deleted"
      BY <2>1 DEF RemoveTree
    <3>2. PICK p \in doomed[t] :
             files' = files \/ (MayDelete(t, p) /\ files' = {f \in files : f.path # p})
      BY <2>1 DEF RemoveTree
    <3>3. ASSUME NEW f \in files \ files'
          PROVE  f.team = t
      <4>1. f.path = p /\ MayDelete(t, p)
        BY <3>2, <3>3
      <4>2. TreeOf(f.team, f.path)
        BY DEF TenantInv, FilesHaveTheirTeam
      <4>3. QED
        BY <4>1, <4>2 DEF MayDelete, TreeOf
    <3>4. QED
      BY <3>1, <3>3
  <2>2. CASE ~ \E t \in WsTeams : RemoveTree(t)
    <3>1. CASE Open
      BY <3>1, OpenReplies DEF TenantInv
    <3>2. CASE ~Open
      <4>1. files \subseteq files'
        BY <2>2, <3>2 DEF WorkspaceNext, Request, Done, CreateTeam, UpdateMetadata, AgentWrites,
                          DeleteTeam, DeleteRecord
      <4>2. QED
        BY <4>1
    <3>3. QED
      BY <3>1, <3>2
  <2>3. QED
    BY <2>1, <2>2
<1>2. QED
  BY <1>1, WorkspaceInvariant, PTL DEF WorkspaceSpec, LivingTeamsKeepTheirFiles

------------------------------------------------------------------------------
(* The own tree of a deleted team *)

\* The trees the default cards of a team give it, in the scopes they name.
HomeTrees(t) == {OwnTree(t, team[t], c.sharable) : c \in {d \in team[t].cards : d.kind = "_team"}}

\* What agents wrote to the own tree of t.
AgentsOwn(t) == {f \in files : f.by = "agent" /\ f.path.kind = "_team" /\ f.path.leaf = t}

\* While the team lives its agents' files are where its cards say; from the deletion
\* on they are in trees still to be considered, and the policy lets them go.
Tracked(t) ==
    t \notin excused =>
      /\ Live(t) => \A f \in AgentsOwn(t) : f.path \in HomeTrees(t)
      /\ team[t].st \in {"deleting", "deleted"} =>
            policy = "own tree" /\ \A f \in AgentsOwn(t) : f.path \in doomed[t]

OwnInv == DOMAIN doomed = WsTeams /\ \A t \in WsTeams : Tracked(t)

\* Nothing of a team changes while others' do.
LEMMA TrackedStays ==
    ASSUME NEW t, Tracked(t), team'[t] = team[t], doomed'[t] = doomed[t], UNCHANGED policy,
           excused \subseteq excused', AgentsOwn(t)' \subseteq AgentsOwn(t)
    PROVE  Tracked(t)'
<1>1. HomeTrees(t)' = HomeTrees(t)
  BY DEF HomeTrees
<1>2. QED
  BY <1>1 DEF Tracked, Live

\* What an agent writes to its team's own tree is in a tree a default card gives.
LEMMA DeclaredHome ==
    ASSUME team \in [WsTeams -> Records], NEW t, Created(t),
           NEW p \in Declared(t, team[t]), p.kind = "_team"
    PROVE  p \in HomeTrees(t)
<1>1. PICK c \in team[t].cards : p = Resolved(t, team[t], c) /\ c \in Layouts
  BY CreatedHasRecord DEF Declared
<1>2. c.kind \in {"_team", "_id", "_meta"}
  BY <1>1 DEF Layouts
<1>3. c.kind = "_team"
  BY <1>1, <1>2 DEF Resolved, Path
<1>4. p = OwnTree(t, team[t], c.sharable)
  BY <1>1, <1>3 DEF Resolved
<1>5. QED
  BY <1>1, <1>3, <1>4 DEF HomeTrees

\* A deletion that resolves its candidates considers every such tree.
LEMMA HomeIsCandidate ==
    ASSUME NEW t, team[t].readable, Resolvable(team[t])
    PROVE  HomeTrees(t) \subseteq Candidates(t, team[t])
<1>1. ASSUME NEW c \in team[t].cards, c.kind = "_team"
      PROVE  OwnTree(t, team[t], c.sharable) \in Declared(t, team[t])
  <2>1. Resolved(t, team[t], c) = OwnTree(t, team[t], c.sharable)
    BY <1>1 DEF Resolved
  <2>2. QED
    BY <2>1 DEF Declared
<1>2. HomeTrees(t) \subseteq Declared(t, team[t])
  BY <1>1 DEF HomeTrees
<1>3. QED
  BY <1>2 DEF Candidates

\* A team that is created has no file yet: every file is of a created team.
LEMMA CreateOwn ==
    ASSUME TenantInv, OwnInv, NEW u \in WsTeams, CreateTeam(u)
    PROVE  OwnInv'
<1>1. team[u] = NoTeamYet /\ UNCHANGED <<files, doomed, policy, excused>>
  BY DEF CreateTeam
<1>2. team'[u].st = "live"
  BY DEF CreateTeam, TenantInv
<1>3. \A t \in WsTeams \ {u} : team'[t] = team[t]
  BY DEF CreateTeam, TenantInv
<1>4. AgentsOwn(u) = {}
  BY <1>1 DEF TenantInv, FilesHaveTheirTeam, TreeOf, Created, AgentsOwn
<1>5. \A t : AgentsOwn(t)' = AgentsOwn(t)
  BY <1>1 DEF AgentsOwn
<1>6. Tracked(u)'
  BY <1>2, <1>4, <1>5 DEF Tracked
<1>7. ASSUME NEW t \in WsTeams, t # u PROVE Tracked(t)'
  BY <1>1, <1>3, <1>5, <1>7, TrackedStays DEF OwnInv
<1>8. QED
  BY <1>1, <1>6, <1>7 DEF OwnInv

\* The metadata of a team moves its metadata trees only.
LEMMA MetadataOwn ==
    ASSUME TenantInv, OwnInv, NEW u \in WsTeams, UpdateMetadata(u)
    PROVE  OwnInv'
<1>1. UNCHANGED <<files, doomed, policy, excused>> /\ Live(u)
  BY DEF UpdateMetadata
<1>2. PICK meta \in Cases \cup {NoCase} : team' = [team EXCEPT ![u].meta = meta]
  BY DEF UpdateMetadata
<1>3. Created(u)
  BY <1>1 DEF Live, Created, NoTeamYet
<1>4. /\ team'[u].cards = team[u].cards /\ team'[u].owner = team[u].owner
      /\ team'[u].st = team[u].st
  BY <1>2, <1>3, CreatedHasRecord DEF TenantInv
<1>5. HomeTrees(u)' = HomeTrees(u)
  BY <1>4 DEF HomeTrees, OwnTree, ScopeOf
<1>6. \A t : AgentsOwn(t)' = AgentsOwn(t)
  BY <1>1 DEF AgentsOwn
<1>7. Tracked(u)'
  BY <1>1, <1>4, <1>5, <1>6 DEF Tracked, OwnInv, Live
<1>8. ASSUME NEW t \in WsTeams, t # u PROVE Tracked(t)'
  <2>1. team'[t] = team[t]
    BY <1>2, <1>8 DEF TenantInv
  <2>2. QED
    BY <1>1, <1>6, <2>1, TrackedStays DEF OwnInv
<1>9. QED
  BY <1>1, <1>7, <1>8 DEF OwnInv

\* An agent writes where its team's cards say, never to another team's own tree.
LEMMA WriteOwn ==
    ASSUME TenantInv, OwnInv, NEW u \in WsTeams, AgentWrites(u)
    PROVE  OwnInv'
<1>1. UNCHANGED <<team, doomed, policy, excused>> /\ Live(u) /\ Created(u)
  BY DEF AgentWrites, Live, Created, NoTeamYet
<1>2. PICK p \in Declared(u, team[u]) :
         files' = files \cup {[path |-> p, team |-> u, by |-> "agent"]}
  BY DEF AgentWrites
<1>3. TreeOf(u, p) /\ (p.kind = "_team" => p \in HomeTrees(u))
  BY <1>1, DeclaredIsTreeOf, DeclaredHome DEF TenantInv
<1>4. \A t : HomeTrees(t)' = HomeTrees(t)
  BY <1>1 DEF HomeTrees
<1>5. ASSUME NEW f \in AgentsOwn(u)'
      PROVE  f \in AgentsOwn(u) \/ (f.path = p /\ p.kind = "_team")
  <2>1. f \in files' /\ f.by = "agent" /\ f.path.kind = "_team" /\ f.path.leaf = u
    BY DEF AgentsOwn
  <2>2. CASE f \in files
    BY <2>1, <2>2 DEF AgentsOwn
  <2>3. CASE f = [path |-> p, team |-> u, by |-> "agent"]
    BY <2>1, <2>3
  <2>4. QED
    BY <1>2, <2>1, <2>2, <2>3
<1>6. Tracked(u)'
  BY <1>1, <1>3, <1>4, <1>5 DEF Tracked, OwnInv, Live
<1>7. ASSUME NEW t \in WsTeams, t # u PROVE Tracked(t)'
  <2>1. AgentsOwn(t)' \subseteq AgentsOwn(t)
    BY <1>2, <1>3, <1>7 DEF AgentsOwn, TreeOf
  <2>2. QED
    BY <1>1, <2>1, TrackedStays DEF OwnInv
<1>8. QED
  BY <1>1, <1>6, <1>7 DEF OwnInv

\* A deletion takes the trees of the living team for its candidates, or excuses it.
LEMMA DeleteOwn ==
    ASSUME TenantInv, OwnInv, NEW u \in WsTeams, DeleteTeam(u)
    PROVE  OwnInv'
<1>1. UNCHANGED <<files, policy>> /\ Live(u) /\ Created(u)
  <2>1. UNCHANGED <<files, policy>> /\ Live(u)
    BY DEF DeleteTeam
  <2>2. QED
    BY <2>1 DEF Live, Created, NoTeamYet
<1>2. /\ \A t \in WsTeams \ {u} : team'[t] = team[t] /\ doomed'[t] = doomed[t]
      /\ team'[u].st = "deleting" /\ doomed'[u] = Candidates(u, team[u])
      /\ DOMAIN doomed' = WsTeams
  <2>1. team[u].st = "live" /\ team' = [team EXCEPT ![u] = [team[u] EXCEPT !.st = "deleting"]]
    BY <1>1 DEF DeleteTeam, Live
  <2>2. team[u] \in [st : {"live", "deleting", "deleted"}, owner : Principals,
                     cards : SUBSET Layouts, meta : Cases \cup {NoCase}, readable : BOOLEAN]
    BY <1>1, CreatedHasRecord DEF TenantInv
  <2>3. QED
    BY <2>1, <2>2 DEF DeleteTeam, TenantInv, OwnInv
<1>3. excused \subseteq excused'
      /\ (u \notin excused' => team[u].readable /\ Resolvable(team[u]) /\ policy = "own tree")
  BY DEF DeleteTeam
<1>4. \A t : AgentsOwn(t)' = AgentsOwn(t)
  BY <1>1 DEF AgentsOwn
<1>5. u \notin excused' => \A f \in AgentsOwn(u) : f.path \in Candidates(u, team[u])
  BY <1>1, <1>3, HomeIsCandidate DEF OwnInv, Tracked
<1>6. Tracked(u)'
  BY <1>1, <1>2, <1>3, <1>4, <1>5 DEF Tracked, Live
<1>7. ASSUME NEW t \in WsTeams, t # u PROVE Tracked(t)'
  BY <1>1, <1>2, <1>3, <1>4, <1>7, TrackedStays DEF OwnInv
<1>8. QED
  BY <1>2, <1>6, <1>7 DEF OwnInv

\* The record goes, the files and the candidates stay.
LEMMA RecordOwn ==
    ASSUME TenantInv, OwnInv, NEW u \in WsTeams, DeleteRecord(u)
    PROVE  OwnInv'
<1>1. UNCHANGED <<files, doomed, policy, excused>> /\ team[u].st = "deleting"
  BY DEF DeleteRecord
<1>2. team'[u].st = "deleted" /\ \A t \in WsTeams \ {u} : team'[t] = team[t]
  <2>1. Created(u)
    BY <1>1 DEF Created, NoTeamYet
  <2>2. team' = [team EXCEPT ![u] = [team[u] EXCEPT !.st = "deleted"]]
    BY DEF DeleteRecord
  <2>3. QED
    BY <2>1, <2>2, CreatedHasRecord DEF TenantInv
<1>3. \A t : AgentsOwn(t)' = AgentsOwn(t)
  BY <1>1 DEF AgentsOwn
<1>4. Tracked(u)'
  BY <1>1, <1>2, <1>3 DEF Tracked, OwnInv, Live
<1>5. ASSUME NEW t \in WsTeams, t # u PROVE Tracked(t)'
  BY <1>1, <1>2, <1>3, <1>5, TrackedStays DEF OwnInv
<1>6. QED
  BY <1>1, <1>4, <1>5 DEF OwnInv

\* A candidate that is considered is removed, as the policy says, or excuses its team.
LEMMA RemoveOwn ==
    ASSUME TenantInv, OwnInv, NEW u \in WsTeams, RemoveTree(u)
    PROVE  OwnInv'
<1>1. UNCHANGED <<team, policy>> /\ team[u].st = "deleted" /\ files' \subseteq files
      /\ excused \subseteq excused'
  BY DEF RemoveTree
<1>2. PICK p \in doomed[u] :
         /\ doomed' = [doomed EXCEPT ![u] = @ \ {p}]
         /\ \/ files' = IF MayDelete(u, p) THEN {f \in files : f.path # p} ELSE files
            \/ u \in excused'
  BY DEF RemoveTree
<1>3. /\ \A t \in WsTeams \ {u} : doomed'[t] = doomed[t]
      /\ doomed'[u] = doomed[u] \ {p} /\ DOMAIN doomed' = WsTeams
  BY <1>2 DEF OwnInv
<1>4. \A t : AgentsOwn(t)' \subseteq AgentsOwn(t)
  BY <1>1 DEF AgentsOwn
<1>5. ASSUME u \notin excused', NEW f \in AgentsOwn(u)'
      PROVE  policy = "own tree" /\ f.path \in doomed[u] \ {p}
  <2>1. policy = "own tree" /\ f.path \in doomed[u]
    BY <1>1, <1>4, <1>5 DEF OwnInv, Tracked
  <2>2. ASSUME f.path = p PROVE FALSE
    <3>1. MayDelete(u, p)
      BY <1>5, <2>1, <2>2 DEF MayDelete, AgentsOwn
    <3>2. QED
      BY <1>2, <1>5, <2>2, <3>1 DEF AgentsOwn
  <2>3. QED
    BY <2>1, <2>2
<1>6. Tracked(u)'
  BY <1>1, <1>3, <1>5 DEF Tracked, OwnInv, Live
<1>7. ASSUME NEW t \in WsTeams, t # u PROVE Tracked(t)'
  BY <1>1, <1>3, <1>4, <1>7, TrackedStays DEF OwnInv
<1>8. QED
  BY <1>3, <1>6, <1>7 DEF OwnInv

\* Requests add uploads at most, which no agent wrote.
LEMMA RequestsOwn ==
    ASSUME TenantInv, OwnInv, UNCHANGED <<team, doomed, policy, excused>>,
           \A f \in files' \ files : f.by = "upload"
    PROVE  OwnInv'
<1>1. \A t : AgentsOwn(t)' \subseteq AgentsOwn(t)
  BY DEF AgentsOwn
<1>2. QED
  BY <1>1, TrackedStays DEF OwnInv

\* The invariant is inductive.
LEMMA NextOwn == TenantInv /\ OwnInv /\ [WorkspaceNext]_wsVars => OwnInv'
<1> SUFFICES ASSUME TenantInv, OwnInv, [WorkspaceNext]_wsVars
             PROVE  OwnInv'
  OBVIOUS
<1>1. CASE \E u \in Principals, t \in WsTeams, s \in Selectors, op \in {"read", "upload"} :
              Request(u, t, s, op)
  BY <1>1, RequestsOwn DEF Request
<1>2. CASE Open
  <2>1. UNCHANGED <<team, doomed, policy, excused>>
    BY <1>2 DEF Open
  <2>2. files' = files \/ files' = files \cup {[path |-> ask.path, team |-> ask.team,
                                                by |-> "upload"]}
    BY <1>2, OpenReplies
  <2>3. QED
    BY <2>1, <2>2, RequestsOwn
<1>3. CASE Done \/ UNCHANGED wsVars
  BY <1>3, RequestsOwn DEF Done, wsVars
<1>4. CASE \E t \in WsTeams : CreateTeam(t) \/ UpdateMetadata(t) \/ AgentWrites(t)
                                \/ DeleteTeam(t) \/ DeleteRecord(t) \/ RemoveTree(t)
  BY <1>4, CreateOwn, MetadataOwn, WriteOwn, DeleteOwn, RecordOwn, RemoveOwn
<1>5. QED
  BY <1>1, <1>2, <1>3, <1>4 DEF WorkspaceNext

\* Nothing has been created or deleted.
LEMMA InitOwn == WorkspaceInit => OwnInv
<1> SUFFICES ASSUME WorkspaceInit PROVE OwnInv
  OBVIOUS
<1>1. DOMAIN doomed = WsTeams
  BY DEF WorkspaceInit
<1>2. \A t \in WsTeams : team[t].st = "none"
  BY DEF WorkspaceInit, NoTeamYet
<1>3. QED
  BY <1>1, <1>2 DEF OwnInv, Tracked, Live

\* Once a deletion has considered its candidates, nothing an agent wrote to the team's
\* own tree is left, in whatever scope its cards put it, unless it was excused
\* (deletion_candidate_paths and _remove_workspace_trees).
THEOREM WorkspaceOwnTreesGo == WorkspaceSpec => []OwnTreesGo
<1>1. OwnInv => OwnTreesGo
  BY DEF OwnInv, Tracked, AgentsOwn, OwnTreesGo
<1>2. QED
  BY <1>1, InitOwn, NextOwn, WorkspaceInvariant, PTL DEF WorkspaceSpec

------------------------------------------------------------------------------
(* Types of the workspaces *)

PathOK(p) == /\ p.scope \in Principals \cup {Shared}
             /\ p.kind \in {"_team", "_id", "_meta"} /\ p.leaf \in Leaves

\* A request that passed the gates holds the path of a tree and names a team.
WorkspaceTypes ==
    WorkspaceTypeOK /\ (ask.at = "open" => PathOK(ask.path) /\ ask.team \in WsTeams)

\* What the cards of a team declare are trees, when its metadata satisfies them.
LEMMA DeclaredTyped ==
    ASSUME team \in [WsTeams -> Records], NEW t, Created(t), Resolvable(team[t]),
           NEW p \in Declared(t, team[t])
    PROVE  PathOK(p)
<1>1. PICK c \in team[t].cards : p = Resolved(t, team[t], c) /\ c \in Layouts
  BY CreatedHasRecord DEF Declared
<1>2. /\ c.kind \in {"_team", "_id", "_meta"} /\ c.sharable \in BOOLEAN
      /\ c.kind = "_id" => c.leaf \in Names \cup WsTeams
  BY <1>1 DEF Layouts
<1>3. /\ team[t].owner \in Principals /\ team[t].meta \in Cases \cup {NoCase} /\ t \in WsTeams
      /\ c.kind = "_meta" => team[t].meta # NoCase
  BY <1>1, CreatedHasRecord DEF Resolvable
<1>4. ScopeOf(team[t], c.sharable) \in Principals \cup {Shared}
  BY <1>3 DEF ScopeOf
<1>5. CASE c.kind = "_team"
  BY <1>1, <1>3, <1>4, <1>5 DEF Resolved, OwnTree, Path, PathOK, Leaves
<1>6. CASE c.kind = "_id"
  BY <1>1, <1>2, <1>4, <1>6 DEF Resolved, Path, PathOK, Leaves
<1>7. CASE c.kind = "_meta"
  BY <1>1, <1>3, <1>4, <1>7 DEF Resolved, Path, PathOK, Leaves
<1>8. QED
  BY <1>2, <1>5, <1>6, <1>7

\* What the workspace gate selects is a tree, when it can be answered at all.
LEMMA MatchTyped ==
    ASSUME team \in [WsTeams -> Records], NEW t, Created(t), NEW selector,
           ~Unanswerable(t, team[t], selector), NEW p \in Matches(t, team[t], selector)
    PROVE  PathOK(p)
<1>1. CASE selector = Omitted
  <2>1. PICK sharing : p = OwnTree(t, team[t], sharing)
    BY <1>1 DEF Matches
  <2>2. team[t].owner \in Principals /\ t \in WsTeams
    BY CreatedHasRecord
  <2>3. QED
    BY <2>1, <2>2 DEF OwnTree, Path, ScopeOf, PathOK, Leaves
<1>2. CASE selector # Omitted
  <2>1. p \in Declared(t, team[t]) /\ Resolvable(team[t])
    BY <1>2 DEF Matches, Unanswerable
  <2>2. QED
    BY <2>1, DeclaredTyped
<1>3. QED
  BY <1>1, <1>2

\* A request is answered, or open with a path of the team it names.
LEMMA RequestAsks ==
    ASSUME TenantInv, NEW user \in Principals, NEW t \in WsTeams, NEW selector,
           NEW op \in {"read", "upload"}, Request(user, t, selector, op)
    PROVE  \/ ask'.at = "answered"
           \/ ask'.at = "open" /\ PathOK(ask'.path) /\ ask'.team \in WsTeams
<1>1. CASE \E code, entitled : Answered(user, t, code, entitled, {})
  BY <1>1 DEF Answered
<1>2. CASE Known(t) /\ Allowed(user, team[t].owner)
           /\ ~ \E code, entitled : Answered(user, t, code, entitled, {})
  <2>1. Created(t) /\ WorkspaceGate(user, t, selector, op)
    <3>1. Created(t)
      BY <1>2 DEF Known, Created, NoTeamYet
    <3>2. QED
      BY <1>2, <3>1 DEF Request
  <2>2. ~Unanswerable(t, team[t], selector) /\ LetOn(user, t, selector, op)
    <3>1. ~TurnedAway(user, t)
      BY <1>2 DEF TurnedAway
    <3> QED
      BY <2>1, <3>1, GateAnswers
  <2>3. PICK p \in Matches(t, team[t], selector) : StashChecked(user, t, selector, op, p)
    BY <2>2 DEF LetOn
  <2>4. ask' = [at |-> "open", user |-> user, team |-> t, selector |-> selector,
                op |-> op, path |-> p]
    BY <1>2, <2>3 DEF StashChecked
  <2>5. PathOK(p)
    BY <2>1, <2>2, MatchTyped DEF TenantInv
  <2>6. QED
    BY <2>4, <2>5
<1>3. CASE ~(Known(t) /\ Allowed(user, team[t].owner))
  BY <1>1, <1>3 DEF Request
<1>4. QED
  BY <1>1, <1>2, <1>3

\* A file that is added is in a tree and of a team.
LEMMA FilesTyped ==
    ASSUME WorkspaceTypes, NEW p, NEW t \in WsTeams, NEW by, PathOK(p),
           files' \subseteq files \cup {[path |-> p, team |-> t, by |-> by]}
    PROVE  \A f \in files' : PathOK(f.path) /\ f.team \in WsTeams
  BY DEF WorkspaceTypes, WorkspaceTypeOK, PathOK

\* Types are kept by every step.
LEMMA NextWorkspaceTypes ==
    TenantInv /\ WorkspaceTypes /\ [WorkspaceNext]_wsVars => WorkspaceTypes'
<1> SUFFICES ASSUME TenantInv, WorkspaceTypes, [WorkspaceNext]_wsVars
             PROVE  WorkspaceTypes'
  OBVIOUS
<1>1. \A t \in WsTeams : team'[t].st \in {"none", "live", "deleting", "deleted"}
  <2>1. team' \in [WsTeams -> Records]
    BY NextTenants DEF TenantInv
  <2>2. QED
    BY <2>1 DEF Records, NoTeamYet
<1>2. CASE \E u \in Principals, t \in WsTeams, s \in Selectors, op \in {"read", "upload"} :
              Request(u, t, s, op)
  <2>1. PICK u \in Principals, t \in WsTeams, s \in Selectors, op \in {"read", "upload"} :
              Request(u, t, s, op)
    BY <1>2
  <2>2. /\ UNCHANGED <<files, excused>> /\ asked' \in 0 .. MaxRequests
    <3>1. MaxRequests \in Nat /\ asked \in 0 .. MaxRequests
      BY WorkspaceAssumption DEF WorkspaceTypes, WorkspaceTypeOK
    <3>2. asked < MaxRequests /\ asked' = asked + 1 /\ UNCHANGED <<files, excused>>
      BY <2>1 DEF Request
    <3>3. QED
      BY <3>1, <3>2
  <2>3. \/ ask'.at = "answered"
        \/ ask'.at = "open" /\ PathOK(ask'.path) /\ ask'.team \in WsTeams
    BY <2>1, RequestAsks
  <2>4. QED
    BY <1>1, <2>2, <2>3 DEF WorkspaceTypes, WorkspaceTypeOK, PathOK
<1>3. CASE Open
  <2>1. ask.at = "open" /\ UNCHANGED <<asked, excused>>
    BY <1>3 DEF Open
  <2>2. ask'.at = "answered"
    BY <1>3, OpenReplies DEF Answered
  <2>3. files' \subseteq files \cup {[path |-> ask.path, team |-> ask.team, by |-> "upload"]}
    BY <1>3, OpenReplies
  <2>4. \A f \in files' : PathOK(f.path) /\ f.team \in WsTeams
    BY <2>1, <2>3, FilesTyped DEF WorkspaceTypes
  <2>5. QED
    BY <1>1, <2>1, <2>2, <2>4 DEF WorkspaceTypes, WorkspaceTypeOK, PathOK
<1>4. CASE Done \/ UNCHANGED wsVars
  <2>1. UNCHANGED <<files, asked, excused>> /\ (ask' = ask \/ ask'.at = "free")
    BY <1>4 DEF Done, Free, wsVars
  <2>2. QED
    BY <1>1, <2>1 DEF WorkspaceTypes, WorkspaceTypeOK, PathOK
<1>5. ASSUME NEW t \in WsTeams, CreateTeam(t) \/ UpdateMetadata(t) \/ AgentWrites(t)
                                  \/ DeleteTeam(t) \/ DeleteRecord(t) \/ RemoveTree(t)
      PROVE  WorkspaceTypes'
  <2>1. UNCHANGED <<ask, asked>> /\ excused' \subseteq excused \cup {t}
    BY <1>5 DEF CreateTeam, UpdateMetadata, AgentWrites, DeleteTeam, DeleteRecord, RemoveTree
  <2>2. \A f \in files' : PathOK(f.path) /\ f.team \in WsTeams
    <3>1. CASE AgentWrites(t)
      <4>1. PICK p \in Declared(t, team[t]) :
               files' = files \cup {[path |-> p, team |-> t, by |-> "agent"]}
        BY <3>1 DEF AgentWrites
      <4>2. Created(t) /\ Resolvable(team[t])
        BY <3>1 DEF AgentWrites, Live, Created, NoTeamYet
      <4>3. PathOK(p)
        BY <4>2, DeclaredTyped DEF TenantInv
      <4>4. QED
        BY <4>1, <4>3, FilesTyped
    <3>2. CASE ~AgentWrites(t)
      <4>1. files' \subseteq files
        BY <1>5, <3>2 DEF CreateTeam, UpdateMetadata, DeleteTeam, DeleteRecord, RemoveTree
      <4>2. QED
        BY <4>1 DEF WorkspaceTypes, WorkspaceTypeOK, PathOK
    <3>3. QED
      BY <3>1, <3>2
  <2>3. QED
    BY <1>1, <2>1, <2>2 DEF WorkspaceTypes, WorkspaceTypeOK, PathOK
<1>6. QED
  BY <1>2, <1>3, <1>4, <1>5 DEF WorkspaceNext

\* Nothing has been written or asked.
LEMMA InitWorkspaceTypes == WorkspaceInit => WorkspaceTypes
<1> SUFFICES ASSUME WorkspaceInit PROVE WorkspaceTypes
  OBVIOUS
<1>1. \A t \in WsTeams : team[t].st = "none"
  BY DEF WorkspaceInit, NoTeamYet
<1>2. asked \in 0 .. MaxRequests
  <2>1. MaxRequests \in Nat /\ asked = 0
    BY WorkspaceAssumption DEF WorkspaceInit
  <2>2. QED
    BY <2>1
<1>3. files = {} /\ excused = {} /\ ask.at = "free"
  BY DEF WorkspaceInit, Free
<1>4. QED
  BY <1>1, <1>2, <1>3 DEF WorkspaceTypes, WorkspaceTypeOK

-----------------------------------------------------------------------------
(* WorkerTeams: what the worker's routes keep *)

\* While no start has met another start or an ending, one thread at most moves the
\* team; what it has read of the record is so still, a team that does not run has no
\* runtime and no handle, and a start finds the cache empty.
Alone ==
    ~crossed =>
    /\ \A g, h \in Moving : g = h
    /\ stored # "running" => alive = {} /\ cached = NoHandle
    /\ cached \in alive \cup {NoHandle}
    /\ \A h \in Hands : /\ stage[h] = "build" => stored = "absent"
                        /\ stage[h] = "reviving" => stored = "stopped"
                        /\ stage[h] = "evict" => stored # "running"
                        /\ stage[h] = "store" => cached = NoHandle /\ alive = {inHand[h]}
                                                     /\ stored = "running"
    /\ (\A h \in Hands : stage[h] # "store") => alive \subseteq {cached}

WorkerInv == WorkerTypeOK /\ Alone

------------------------------------------------------------------------------
(* A request is taken, or goes on without a change of runtime or handle. *)

\* A start or an ending that is taken in an uncrossed worker is the only one.
LEMMA TakeAlone ==
    ASSUME WorkerInv, NEW h \in Hands, NEW step \in {"build", "revive", "halt", "erase", "send"},
           Take(h, step), step = "build" => stored = "absent",
           UNCHANGED <<stored, alive, cached>>,
           \A g \in Hands \ {h} : inHand'[g] = inHand[g]
    PROVE  Alone'
<1>1. stage' = [stage EXCEPT ![h] = step] /\ stage \in [Hands -> Stages] /\ stage[h] = "free"
  BY DEF Take, WorkerInv, WorkerTypeOK
<1>2. SUFFICES ASSUME ~crossed' PROVE Alone'
  BY DEF Alone
<1>3. ~crossed /\ (step # "send" => Moving = {})
  BY <1>2 DEF Take, Starting, Ending
<1>4. Moving' \subseteq Moving \cup {h} /\ (step = "send" => Moving' \subseteq Moving)
  BY <1>1 DEF Moving, Starting, Ending
<1>5. \A f, g \in Moving' : f = g
  BY <1>3, <1>4 DEF Alone, WorkerInv
<1>6. \A g \in Hands : /\ stage'[g] = "build" => stored' = "absent"
                       /\ stage'[g] = "reviving" => stored' = "stopped"
                       /\ stage'[g] = "evict" => stored' # "running"
                       /\ stage'[g] = "store" => cached' = NoHandle /\ alive' = {inHand'[g]}
                                                 /\ stored' = "running"
  BY <1>1, <1>3 DEF Alone, WorkerInv
<1>7. (\A g \in Hands : stage'[g] # "store") => alive' \subseteq {cached'}
  BY <1>1, <1>3 DEF Alone, WorkerInv
<1>8. QED
  BY <1>3, <1>5, <1>6, <1>7 DEF Alone, WorkerInv

\* A thread goes on to a step that asks no more of the record than holds.
LEMMA PassAlone ==
    ASSUME WorkerInv, NEW h \in Hands, NEW step \in {"free", "reviving"}, Pass(h, step),
           stage[h] \notin {"free", "store"}, stage[h] = "send" => step = "free",
           step = "reviving" => stored = "stopped",
           UNCHANGED <<stored, alive, cached, inHand, crossed>>
    PROVE  Alone'
<1>1. stage' = [stage EXCEPT ![h] = step] /\ stage \in [Hands -> Stages]
  BY DEF Pass, WorkerInv, WorkerTypeOK
<1>2. SUFFICES ASSUME ~crossed PROVE Alone'
  BY DEF Alone
<1>3. Moving' \subseteq Moving
  BY <1>1 DEF Moving, Starting, Ending, Stages
<1>4. \A f, g \in Moving' : f = g
  BY <1>2, <1>3 DEF Alone, WorkerInv
<1>5. \A g \in Hands : /\ stage'[g] = "build" => stored' = "absent"
                       /\ stage'[g] = "reviving" => stored' = "stopped"
                       /\ stage'[g] = "evict" => stored' # "running"
                       /\ stage'[g] = "store" => cached' = NoHandle /\ alive' = {inHand'[g]}
                                                 /\ stored' = "running"
  BY <1>1, <1>2 DEF Alone, WorkerInv
<1>6. (\A g \in Hands : stage'[g] # "store") => alive' \subseteq {cached'}
  BY <1>1, <1>2 DEF Alone, WorkerInv
<1>7. QED
  BY <1>2, <1>4, <1>5, <1>6 DEF Alone, WorkerInv

------------------------------------------------------------------------------
(* The steps that change the runtimes or the cache. *)

\* A new runtime is the only one, and no other is cached.
LEMMA SpawnAlone ==
    ASSUME WorkerInv, NEW h \in Hands, BuildTeam(h) \/ Revived(h)
    PROVE  Alone'
<1>1. Spawn(h) /\ stage[h] \in {"build", "reviving"}
  BY DEF BuildTeam, Revived
<1>2. /\ stage' = [stage EXCEPT ![h] = "store"] /\ inHand' = [inHand EXCEPT ![h] = built + 1]
      /\ stored' = "running" /\ alive' = alive \cup {built + 1} /\ cached' = cached
      /\ crossed' = crossed
      /\ stage \in [Hands -> Stages] /\ inHand \in [Hands -> 0 .. built]
  BY <1>1 DEF Spawn, Pass, WorkerInv, WorkerTypeOK
<1>3. SUFFICES ASSUME ~crossed PROVE Alone'
  BY <1>2 DEF Alone
<1>4. h \in Moving /\ \A g \in Hands \ {h} : g \notin Moving
  BY <1>1, <1>3 DEF Moving, Starting, Ending, Alone, WorkerInv
<1>5. alive = {} /\ cached = NoHandle
  BY <1>1, <1>3 DEF Alone, WorkerInv
<1>6. \A f, g \in Moving' : f = g
  BY <1>2, <1>4 DEF Moving
<1>7. \A g \in Hands \ {h} : stage'[g] \notin {"build", "reviving", "evict", "store"}
  BY <1>2, <1>4 DEF Moving, Starting, Ending
<1>8. stage'[h] = "store" /\ inHand'[h] = built + 1
  BY <1>2
<1>9. QED
  BY <1>2, <1>5, <1>6, <1>7, <1>8 DEF Alone

\* The handle that is stored is of the runtime that lives.
LEMMA StoreAlone ==
    ASSUME WorkerInv, NEW h \in Hands, Store(h)
    PROVE  Alone'
<1>1. /\ stage[h] = "store" /\ stage' = [stage EXCEPT ![h] = "free"] /\ cached' = inHand[h]
      /\ UNCHANGED <<stored, alive, inHand, crossed>>
      /\ stage \in [Hands -> Stages]
  BY DEF Store, Pass, WorkerInv, WorkerTypeOK
<1>2. SUFFICES ASSUME ~crossed PROVE Alone'
  BY <1>1 DEF Alone
<1>3. h \in Moving /\ \A g \in Hands \ {h} : g \notin Moving
  BY <1>1, <1>2 DEF Moving, Starting, Ending, Alone, WorkerInv
<1>4. \A f, g \in Moving' : f = g
  BY <1>1, <1>3 DEF Moving
<1>5. \A g \in Hands : stage'[g] \notin {"build", "reviving", "evict", "store"}
  BY <1>1, <1>3 DEF Moving, Starting, Ending
<1>6. alive = {inHand[h]} /\ stored = "running"
  BY <1>1, <1>2 DEF Alone, WorkerInv
<1>7. QED
  BY <1>1, <1>4, <1>5, <1>6 DEF Alone

\* A team that is stopped or deleted has no runtime and no handle.
LEMMA EndAlone ==
    ASSUME WorkerInv, NEW h \in Hands, HaltFor(h) \/ Erase(h)
    PROVE  Alone'
<1>1. /\ stage[h] \in {"halt", "erase"} /\ stage' = [stage EXCEPT ![h] = "evict"]
      /\ stored' # "running" /\ crossed' = crossed
      /\ stage \in [Hands -> Stages]
  BY DEF HaltFor, Halt, Erase, Pass, WorkerInv, WorkerTypeOK
<1>2. SUFFICES ASSUME ~crossed PROVE Alone'
  BY <1>1 DEF Alone
<1>3. h \in Moving /\ \A g \in Hands \ {h} : g \notin Moving
  BY <1>1, <1>2 DEF Moving, Starting, Ending, Alone, WorkerInv
<1>4. alive' = {} /\ cached' = NoHandle
  BY <1>2 DEF HaltFor, Halt, Erase, Alone, WorkerInv
<1>5. \A f, g \in Moving' : f = g
  BY <1>1, <1>3 DEF Moving
<1>6. \A g \in Hands : stage'[g] \notin {"build", "reviving", "store"}
  BY <1>1, <1>3 DEF Moving, Starting, Ending
<1>7. QED
  BY <1>1, <1>4, <1>5, <1>6 DEF Alone

\* The late removal finds nothing to remove.
LEMMA EvictAlone ==
    ASSUME WorkerInv, NEW h \in Hands, Evict(h)
    PROVE  Alone'
<1>1. /\ stage[h] = "evict" /\ stage' = [stage EXCEPT ![h] = "free"] /\ cached' = NoHandle
      /\ UNCHANGED <<stored, alive, inHand, crossed>>
      /\ stage \in [Hands -> Stages]
  BY DEF Evict, Pass, WorkerInv, WorkerTypeOK
<1>2. SUFFICES ASSUME ~crossed PROVE Alone'
  BY <1>1 DEF Alone
<1>3. h \in Moving /\ \A g \in Hands \ {h} : g \notin Moving
  BY <1>1, <1>2 DEF Moving, Starting, Ending, Alone, WorkerInv
<1>4. stored' # "running" /\ alive' = {}
  BY <1>1, <1>2 DEF Alone, WorkerInv
<1>5. \A f, g \in Moving' : f = g
  BY <1>1, <1>3 DEF Moving
<1>6. \A g \in Hands : stage'[g] \notin {"build", "reviving", "store"}
  BY <1>1, <1>3 DEF Moving, Starting, Ending
<1>7. QED
  BY <1>1, <1>4, <1>5, <1>6 DEF Alone

\* The timer meets no start in an uncrossed worker, and empties the cache itself.
LEMMA TimerAlone ==
    ASSUME WorkerInv, TimerStop
    PROVE  Alone'
<1>1. /\ stored = "running" /\ stored' = "stopped" /\ alive' = {} /\ cached' = NoHandle
      /\ UNCHANGED <<stage, inHand>>
      /\ crossed' = (crossed \/ \E h \in Hands : stage[h] = "store")
  BY DEF TimerStop, Halt
<1>2. SUFFICES ASSUME ~crossed' PROVE Alone'
  BY DEF Alone
<1>3. ~crossed /\ \A h \in Hands : stage[h] # "store"
  BY <1>1, <1>2
<1>4. \A h \in Hands : stage'[h] \notin {"build", "store"}
  BY <1>1, <1>3 DEF Alone, WorkerInv
<1>5. \A f, g \in Moving' : f = g
  BY <1>1, <1>3 DEF Moving, Alone, WorkerInv
<1>6. QED
  BY <1>1, <1>4, <1>5 DEF Alone

\* A worker that starts again has nothing in hand.
LEMMA DeathAlone == Death => Alone'
<1> SUFFICES ASSUME Death PROVE Alone'
  OBVIOUS
<1>1. alive' = {} /\ cached' = NoHandle /\ \A h \in Hands : stage'[h] = "free"
  BY DEF Death
<1>2. Moving' = {}
  BY <1>1 DEF Moving, Starting, Ending
<1>3. QED
  BY <1>1, <1>2 DEF Alone

------------------------------------------------------------------------------
(* The types. *)

\* A request is taken within the bound.
LEMMA TakeTypes ==
    ASSUME WorkerTypeOK, NEW h \in Hands, NEW step \in Stages, Take(h, step)
    PROVE  orders' \in 0 .. MaxOrders /\ stage' \in [Hands -> Stages] /\ crossed' \in BOOLEAN
<1>1. orders' \in 0 .. MaxOrders
  BY WorkerAssumption DEF Take, WorkerTypeOK
<1>2. stage' \in [Hands -> Stages]
  BY DEF Take, WorkerTypeOK
<1>3. crossed' \in BOOLEAN
  BY DEF Take
<1>4. QED
  BY <1>1, <1>2, <1>3

\* A new runtime has the next number.
LEMMA SpawnTypes ==
    ASSUME WorkerTypeOK, NEW h \in Hands, Spawn(h)
    PROVE  WorkerTypeOK'
<1>1. built' \in Nat /\ 0 .. built \subseteq 0 .. built' /\ alive' \subseteq 1 .. built'
      /\ built' \in 0 .. built'
  BY DEF Spawn, WorkerTypeOK
<1>2. stage' \in [Hands -> Stages]
  BY DEF Spawn, Pass, WorkerTypeOK, Stages, Starting
<1>3. inHand' \in [Hands -> 0 .. built']
  BY <1>1 DEF Spawn, WorkerTypeOK
<1>4. cached' \in 0 .. built'
  BY <1>1 DEF Spawn, WorkerTypeOK
<1>5. stored' = "running" /\ UNCHANGED <<orders, deaths, crossed>>
  BY DEF Spawn
<1>6. QED
  BY <1>1, <1>2, <1>3, <1>4, <1>5 DEF WorkerTypeOK

\* A request that is taken.
LEMMA AskTypes ==
    ASSUME WorkerTypeOK, NEW h \in Hands,
           AskCreate(h) \/ AskResume(h) \/ AskStop(h) \/ AskDelete(h) \/ LookUp(h)
    PROVE  WorkerTypeOK'
<1>1. PICK step \in {"build", "revive", "halt", "erase", "send"} : Take(h, step)
  BY DEF AskCreate, AskResume, AskStop, AskDelete, LookUp
<1>2. step \in Stages
  BY DEF Stages, Starting, Ending
<1>3. orders' \in 0 .. MaxOrders /\ stage' \in [Hands -> Stages] /\ crossed' \in BOOLEAN
  BY <1>1, <1>2, TakeTypes
<1>4. inHand' \in [Hands -> 0 .. built]
  BY DEF AskCreate, AskResume, AskStop, AskDelete, LookUp, WorkerTypeOK
<1>5. UNCHANGED <<stored, alive, built, cached, deaths>>
  BY DEF AskCreate, AskResume, AskStop, AskDelete, LookUp
<1>6. QED
  BY <1>3, <1>4, <1>5 DEF WorkerTypeOK

\* The steps that end or pass on.
LEMMA PassTypes ==
    ASSUME WorkerTypeOK, NEW h \in Hands,
           \/ ReviveBegins(h) \/ StartFails(h) \/ Store(h) \/ HaltFor(h)
           \/ Erase(h) \/ EndingRefused(h) \/ Evict(h) \/ Send(h)
    PROVE  WorkerTypeOK'
<1>1. PICK step \in {"reviving", "free", "evict"} : Pass(h, step)
  BY DEF ReviveBegins, StartFails, Store, HaltFor, Erase, EndingRefused, Evict, Send
<1>2. stage' \in [Hands -> Stages]
  BY <1>1 DEF Pass, WorkerTypeOK, Stages, Starting, Ending
<1>3. cached' \in 0 .. built
  BY DEF ReviveBegins, StartFails, Store, HaltFor, Halt, Erase, EndingRefused, Evict, Send,
         NoHandle, WorkerTypeOK
<1>4. alive' \subseteq 1 .. built
  BY DEF ReviveBegins, StartFails, Store, HaltFor, Halt, Erase, EndingRefused, Evict, Send,
         WorkerTypeOK
<1>5. stored' \in {"absent", "running", "stopped", "deleted"}
  BY DEF ReviveBegins, StartFails, Store, HaltFor, Halt, Erase, EndingRefused, Evict, Send,
         WorkerTypeOK
<1>6. UNCHANGED <<built, inHand, orders, deaths, crossed>>
  BY DEF ReviveBegins, StartFails, Store, HaltFor, Erase, EndingRefused, Evict, Send
<1>7. QED
  BY <1>2, <1>3, <1>4, <1>5, <1>6 DEF WorkerTypeOK

\* What happens beside the routes.
LEMMA BesideTypes ==
    ASSUME WorkerTypeOK, TimerStop \/ Death
    PROVE  WorkerTypeOK'
<1>1. CASE TimerStop
  <2>1. stored' = "stopped" /\ alive' = {} /\ cached' = NoHandle /\ crossed' \in BOOLEAN
        /\ UNCHANGED <<built, stage, inHand, orders, deaths>>
    BY <1>1 DEF TimerStop, Halt
  <2>2. QED
    BY <2>1 DEF WorkerTypeOK, NoHandle
<1>2. CASE Death
  <2>1. deaths' \in 0 .. MaxDeaths
    BY <1>2, WorkerAssumption DEF Death, WorkerTypeOK
  <2>2. stage' \in [Hands -> Stages]
    BY <1>2 DEF Death, Stages
  <2>3. alive' = {} /\ cached' = NoHandle /\ crossed' \in BOOLEAN
        /\ UNCHANGED <<stored, built, inHand, orders>>
    BY <1>2 DEF Death
  <2>4. QED
    BY <2>1, <2>2, <2>3 DEF WorkerTypeOK, NoHandle
<1>3. QED
  BY <1>1, <1>2

------------------------------------------------------------------------------
(* The invariant, and what follows from it. *)

\* Nothing has been orders, and no team is there.
LEMMA WorkerStart == WorkerInit => WorkerInv
<1> SUFFICES ASSUME WorkerInit PROVE WorkerInv
  OBVIOUS
<1>1. WorkerTypeOK
  <2>1. stage \in [Hands -> Stages]
    BY DEF WorkerInit, Stages
  <2>2. cached = 0 /\ built = 0 /\ inHand \in [Hands -> 0 .. built]
    BY DEF WorkerInit, NoHandle
  <2>3. orders \in 0 .. MaxOrders /\ deaths \in 0 .. MaxDeaths
    BY WorkerAssumption DEF WorkerInit
  <2>4. crossed \in BOOLEAN /\ alive = {} /\ stored = "absent"
    BY DEF WorkerInit
  <2>5. QED
    BY <2>1, <2>2, <2>3, <2>4 DEF WorkerTypeOK
<1>2. Moving = {}
  BY DEF WorkerInit, Moving, Starting, Ending
<1>3. Alone
  BY <1>2 DEF WorkerInit, Alone
<1>4. QED
  BY <1>1, <1>3 DEF WorkerInv

\* One step per action.
LEMMA WorkerStep == WorkerInv /\ [WorkerNext]_workerVars => WorkerInv'
<1> SUFFICES ASSUME WorkerInv, [WorkerNext]_workerVars PROVE WorkerInv'
  OBVIOUS
<1> WorkerTypeOK
  BY DEF WorkerInv
<1>1. ASSUME NEW h \in Hands, BuildTeam(h) \/ Revived(h) PROVE WorkerInv'
  <2>1. Spawn(h)
    BY <1>1 DEF BuildTeam, Revived
  <2>2. QED
    BY <1>1, <2>1, SpawnTypes, SpawnAlone DEF WorkerInv
<1>2. ASSUME NEW h \in Hands,
             AskCreate(h) \/ AskResume(h) \/ AskStop(h) \/ AskDelete(h) \/ LookUp(h)
      PROVE  WorkerInv'
  <2>1. PICK step \in {"build", "revive", "halt", "erase", "send"} :
           Take(h, step) /\ (step = "build" => stored = "absent")
    BY <1>2 DEF AskCreate, AskResume, AskStop, AskDelete, LookUp
  <2>2. UNCHANGED <<stored, alive, cached>> /\ \A g \in Hands \ {h} : inHand'[g] = inHand[g]
    BY <1>2 DEF AskCreate, AskResume, AskStop, AskDelete, LookUp, WorkerTypeOK
  <2>3. Alone'
    BY <2>1, <2>2, TakeAlone
  <2>4. QED
    BY <1>2, <2>3, AskTypes DEF WorkerInv
<1>3. ASSUME NEW h \in Hands, ReviveBegins(h) PROVE WorkerInv'
  <2>1. Pass(h, "reviving") /\ stage[h] = "revive" /\ stored = "stopped"
        /\ UNCHANGED <<stored, alive, cached, inHand, crossed>>
    BY <1>3 DEF ReviveBegins
  <2>2. Alone'
    BY <2>1, PassAlone
  <2>3. QED
    BY <1>3, <2>2, PassTypes DEF WorkerInv
<1>4. ASSUME NEW h \in Hands, StartFails(h) \/ EndingRefused(h) \/ Send(h) PROVE WorkerInv'
  <2>1. Pass(h, "free") /\ stage[h] \notin {"free", "store"}
        /\ UNCHANGED <<stored, alive, cached, inHand, crossed>>
    BY <1>4 DEF StartFails, EndingRefused, Send
  <2>2. Alone'
    BY <2>1, PassAlone
  <2>3. QED
    BY <1>4, <2>2, PassTypes DEF WorkerInv
<1>5. ASSUME NEW h \in Hands, Store(h) PROVE WorkerInv'
  BY <1>5, StoreAlone, PassTypes DEF WorkerInv
<1>6. ASSUME NEW h \in Hands, HaltFor(h) \/ Erase(h) PROVE WorkerInv'
  BY <1>6, EndAlone, PassTypes DEF WorkerInv
<1>7. ASSUME NEW h \in Hands, Evict(h) PROVE WorkerInv'
  BY <1>7, EvictAlone, PassTypes DEF WorkerInv
<1>8. CASE TimerStop \/ Death
  BY <1>8, TimerAlone, DeathAlone, BesideTypes DEF WorkerInv
<1>9. CASE UNCHANGED workerVars
  <2>1. WorkerTypeOK'
    BY <1>9 DEF workerVars, WorkerTypeOK
  <2>2. Alone'
    BY <1>9 DEF workerVars, WorkerInv, Alone, Moving
  <2>3. QED
    BY <2>1, <2>2 DEF WorkerInv
<1>10. QED
  BY <1>1, <1>2, <1>3, <1>4, <1>5, <1>6, <1>7, <1>8, <1>9 DEF WorkerNext

\* The invariant holds in every behaviour.
THEOREM WorkerInvariant == WorkerSpec => []WorkerInv
BY WorkerStart, WorkerStep, PTL DEF WorkerSpec

\* Type correctness, for any number of threads and requests.
THEOREM WorkerTypes == WorkerSpec => []WorkerTypeOK
<1>1. WorkerInv => WorkerTypeOK
  BY DEF WorkerInv
<1>2. QED
  BY <1>1, WorkerInvariant, PTL

\* The cache holds the handle of the living runtime, of any number of runtimes, unless
\* a start has met another start or an ending (worker/routes/teams.py).
THEOREM WorkerHandlesAreLive == WorkerSpec => []HandlesAreLive
<1>1. ASSUME WorkerInv, ~crossed PROVE cached \in alive \cup {NoHandle}
  BY <1>1 DEF WorkerInv, Alone
<1>2. ASSUME WorkerInv, ~crossed
      PROVE  \A r \in alive : r = cached \/ \E h \in Hands : stage[h] = "store" /\ r = inHand[h]
  BY <1>2 DEF WorkerInv, Alone
<1>3. WorkerInv => HandlesAreLive
  BY <1>1, <1>2 DEF HandlesAreLive
<1>4. QED
  BY <1>3, WorkerInvariant, PTL
-----------------------------------------------------------------------------
(* AppAssembly: the order of lifespans, and the drain *)

EnteredInOrder == /\ mods \in Compositions /\ entered \in Seq(Nat)
                  /\ \A i \in Index(entered) : entered[i] = i
                  /\ Len(entered) <= Len(mods)

\* What was left was entered after everything that is still entered.
LeftInReverse == /\ exits \in Seq(Nat)
                 /\ \A i \in Index(exits) : exits[i] > Len(entered)
                 /\ \A i, j \in Index(exits) : i < j => exits[i] > exits[j]
                 /\ phase \notin {"stopping", "aborting", "down"} => exits = <<>>

\* A client that is still open is tracked, to be closed by the drain under way, or
\* refused to be closed, or came too late for it.
NobodyForgotten ==
    /\ drain # "no" => phase = "stopping" /\ entered # <<>>
    /\ phase = "aborting" => raised
    /\ open \subseteq active \cup broken \cup late
    /\ drain = "closing" => open \subseteq closing \cup broken \cup late
    /\ drain = "stopping" \/ drained = "stopped" => open \subseteq broken \cup late

AssemblyTypes ==
    /\ phase \in {"composing", "collecting", "refused", "starting", "serving", "stopping",
                  "aborting", "down"}
    /\ slots \subseteq UNION {ToSet(mods[i].entries) \cup mods[i].populates : i \in Index(mods)}
    /\ raised \in BOOLEAN
    /\ drain \in {"no", "flag", "delay", "closing", "stopping"}
    /\ active \subseteq open \cup broken /\ open \subseteq Clients /\ closing \subseteq Clients
    /\ broken \subseteq Clients /\ late \subseteq Clients
    /\ drained \in {"no", "stopped", "skipped"}

AssemblyInv == AssemblyTypes /\ EnteredInOrder /\ LeftInReverse /\ NobodyForgotten

\* The list of modules has a length.
LEMMA ModsHaveLength == ASSUME EnteredInOrder PROVE Len(mods) \in Nat /\ Len(entered) \in Nat
  BY AssemblyAssumption DEF EnteredInOrder, Composable

\* Leaving the lifespan entered last keeps both orders.
LEMMA PopKeeps ==
    ASSUME EnteredInOrder, LeftInReverse, entered # <<>>, Pop, UNCHANGED mods,
           phase' \in {"stopping", "aborting", "down"}
    PROVE  EnteredInOrder' /\ LeftInReverse'
<1> DEFINE n == Len(entered)
<1>1. n \in Nat /\ n > 0 /\ Top = n
  BY DEF EnteredInOrder, Top, Index
<1>2. /\ entered' = SubSeq(entered, 1, n - 1) /\ entered' \in Seq(Nat)
      /\ Len(entered') = n - 1 /\ \A i \in 1 .. n - 1 : entered'[i] = entered[i]
  <2>1. entered' = SubSeq(entered, 1, n - 1)
    BY DEF Pop, Front
  <2>2. entered \in Seq(Nat)
    BY DEF EnteredInOrder
  <2> QED
    BY <1>1, <2>1, <2>2
<1>3. /\ exits' = Append(exits, n) /\ exits' \in Seq(Nat) /\ Len(exits') = Len(exits) + 1
      /\ \A i \in 1 .. Len(exits) : exits'[i] = exits[i]
      /\ exits'[Len(exits) + 1] = n
  BY <1>1 DEF Pop, LeftInReverse
<1>4. EnteredInOrder'
  BY <1>1, <1>2, ModsHaveLength DEF EnteredInOrder, Index
<1>5. ASSUME NEW i \in 1 .. Len(exits) + 1 PROVE exits'[i] > n - 1
  <2>1. CASE i = Len(exits) + 1
    BY <1>1, <1>3, <2>1
  <2>2. CASE i \in 1 .. Len(exits)
    <3>1. exits'[i] = exits[i] /\ exits[i] > n /\ exits[i] \in Nat
      BY <1>3, <2>2 DEF LeftInReverse, Index
    <3>2. QED
      BY <1>1, <3>1
  <2>3. QED
    BY <2>1, <2>2 DEF LeftInReverse
<1>6. ASSUME NEW i \in 1 .. Len(exits) + 1, NEW j \in 1 .. Len(exits) + 1, i < j
      PROVE  exits'[i] > exits'[j]
  <2>0. Len(exits) \in Nat
    BY DEF LeftInReverse
  <2>1. i \in 1 .. Len(exits) /\ exits'[i] = exits[i] /\ exits[i] > n
    BY <1>3, <1>6, <2>0 DEF LeftInReverse, Index
  <2>2. CASE j = Len(exits) + 1
    BY <1>3, <2>1, <2>2
  <2>3. CASE j \in 1 .. Len(exits)
    <3>1. exits'[j] = exits[j] /\ exits[i] > exits[j]
      BY <1>3, <1>6, <2>1, <2>3 DEF LeftInReverse, Index
    <3>2. QED
      BY <2>1, <3>1
  <2>4. QED
    BY <2>0, <2>2, <2>3
<1>7. LeftInReverse'
  BY <1>2, <1>3, <1>5, <1>6 DEF LeftInReverse, Index
<1>8. QED
  BY <1>4, <1>7

\* Orders are kept when nothing is entered or left.
LEMMA OrdersStay ==
    ASSUME EnteredInOrder, LeftInReverse, UNCHANGED <<mods, entered, exits>>,
           phase \in {"stopping", "aborting", "down"} => phase' \in {"stopping", "aborting", "down"}
    PROVE  EnteredInOrder' /\ LeftInReverse'
  BY DEF EnteredInOrder, LeftInReverse

\* The app is built, started and taken down.
LEMMA ServingKeeps ==
    ASSUME AssemblyInv, Serving PROVE AssemblyInv'
<1>1. UNCHANGED <<mods, drain, clients, exits, drained>>
  BY DEF Serving, Validate, Build, Enter, VerifyStartupState, Shutdown, Exited
<1>2. /\ phase' \in {"composing", "collecting", "refused", "starting", "serving", "stopping",
                     "aborting", "down"}
      /\ raised' \in BOOLEAN
      /\ phase \in {"stopping", "aborting", "down"} => phase' \in {"stopping", "aborting", "down"}
  BY DEF Serving, Validate, Build, Enter, VerifyStartupState, Shutdown, Exited, AssemblyInv,
         AssemblyTypes
<1>3. phase' = phase \/ (drain = "no")
  BY DEF Serving, Validate, Build, Enter, VerifyStartupState, Shutdown, Exited, AssemblyInv,
         NobodyForgotten
<1>4. phase' = "aborting" => raised'
  BY DEF Serving, Validate, Build, Enter, VerifyStartupState, Shutdown, Exited
<1>5. CASE Enter
  <2>1. /\ phase = "starting" /\ Len(entered) + 1 <= Len(mods)
        /\ drain = "no"
    BY <1>5 DEF Enter, AssemblyInv, NobodyForgotten
  <2>2. entered' = entered \/ entered' = Append(entered, Len(entered) + 1)
    BY <1>5 DEF Enter
  <2>3. slots' = slots \/ (slots' = slots \cup mods[Len(entered) + 1].populates)
    BY <1>5 DEF Enter
  <2>4. Len(entered) + 1 \in Index(mods)
    BY <2>1, ModsHaveLength DEF AssemblyInv, Index
  <2>5. slots' \subseteq UNION {ToSet(mods[i].entries) \cup mods[i].populates : i \in Index(mods)}
    BY <2>3, <2>4 DEF AssemblyInv, AssemblyTypes
  <2>6. EnteredInOrder'
    BY <1>1, <2>1, <2>2 DEF AssemblyInv, EnteredInOrder, Index
  <2>7. exits' = <<>> /\ LeftInReverse'
    BY <1>1, <2>1 DEF AssemblyInv, LeftInReverse, Index
  <2>8. AssemblyTypes'
    BY <1>1, <1>2, <2>5 DEF AssemblyInv, AssemblyTypes, clients
  <2>9. NobodyForgotten'
    BY <1>1, <2>1, <1>4 DEF AssemblyInv, NobodyForgotten, clients
  <2>10. QED
    BY <2>6, <2>7, <2>8, <2>9 DEF AssemblyInv
<1>6. CASE ~Enter
  <2>1. UNCHANGED entered
    BY <1>6 DEF Serving, Validate, Build, VerifyStartupState, Shutdown, Exited
  <2>2. slots' = slots \/ slots' = UNION {ToSet(mods[i].entries) : i \in Index(mods)}
    BY <1>6 DEF Serving, Validate, Build, VerifyStartupState, Shutdown, Exited
  <2>3. slots' \subseteq UNION {ToSet(mods[i].entries) \cup mods[i].populates : i \in Index(mods)}
    BY <2>2 DEF AssemblyInv, AssemblyTypes
  <2>4. AssemblyTypes'
    BY <1>1, <1>2, <2>3 DEF AssemblyInv, AssemblyTypes, clients
  <2>5. NobodyForgotten'
    BY <1>1, <1>3, <1>4, <2>1 DEF AssemblyInv, NobodyForgotten, clients
  <2>6. EnteredInOrder' /\ LeftInReverse'
    BY <1>1, <1>2, <2>1, OrdersStay DEF AssemblyInv
  <2>7. QED
    BY <2>4, <2>5, <2>6 DEF AssemblyInv
<1>7. QED
  BY <1>5, <1>6

\* Clients come and go, tracked.
LEMMA ClientsKeep ==
    ASSUME AssemblyInv, NEW c \in Clients, Connect(c) \/ Disconnect(c) PROVE AssemblyInv'
<1>1. UNCHANGED <<mods, phase, slots, entered, raised, drain, closing, broken, exits, drained>>
  BY DEF Connect, Disconnect
<1>2. \/ /\ open' = open \cup {c} /\ active' = active \cup {c}
         /\ late' = late \/ late' = late \cup {c}
         /\ drain \in {"closing", "stopping"} \/ drained # "no" => c \in late'
      \/ open' = open \ {c} /\ active' = active \ {c} /\ late' = late
  BY DEF Connect, Disconnect
<1>3. AssemblyTypes'
  BY <1>1, <1>2 DEF AssemblyInv, AssemblyTypes
<1>4. NobodyForgotten'
  BY <1>1, <1>2 DEF AssemblyInv, NobodyForgotten
<1>5. EnteredInOrder' /\ LeftInReverse'
  BY <1>1, OrdersStay DEF AssemblyInv
<1>6. QED
  BY <1>3, <1>4, <1>5 DEF AssemblyInv

\* A lifespan is left, or its drain begins.
LEMMA ExitKeeps ==
    ASSUME AssemblyInv, Exit PROVE AssemblyInv'
<1>1. /\ phase \in {"stopping", "aborting"} /\ entered # <<>> /\ drain = "no"
      /\ UNCHANGED <<mods, phase, slots, clients>>
  BY DEF Exit
<1>2. CASE drain' = "flag" /\ UNCHANGED <<entered, exits, raised, drained>> /\ ~raised
  <2>1. phase = "stopping"
    BY <1>1, <1>2 DEF AssemblyInv, NobodyForgotten
  <2>2. QED
    BY <1>1, <1>2, <2>1, OrdersStay DEF AssemblyInv, AssemblyTypes, NobodyForgotten, clients
<1>3. CASE /\ Pop /\ UNCHANGED drain
           /\ raised' \in {raised, TRUE} /\ drained' \in {"skipped", drained}
  <2>1. EnteredInOrder' /\ LeftInReverse'
    BY <1>1, <1>3, PopKeeps DEF AssemblyInv
  <2>2. raised' \in BOOLEAN /\ (raised => raised')
    <3>1. raised \in BOOLEAN
      BY DEF AssemblyInv, AssemblyTypes
    <3>2. raised' = raised \/ raised' = TRUE
      BY <1>3, Zenon
    <3>3. QED
      BY <3>1, <3>2
  <2>3. AssemblyTypes'
    BY <1>1, <1>3, <2>2 DEF AssemblyInv, AssemblyTypes, clients
  <2>4. NobodyForgotten'
    BY <1>1, <1>3, <2>2 DEF AssemblyInv, NobodyForgotten, clients
  <2>5. QED
    BY <2>1, <2>3, <2>4 DEF AssemblyInv
<1>4. QED
  BY <1>2, <1>3 DEF Exit

\* The steps of the drain.
LEMMA DrainKeeps ==
    ASSUME AssemblyInv, DrainFlag \/ DrainSnapshot \/ DrainClear PROVE AssemblyInv'
<1>1. UNCHANGED <<mods, phase, slots, entered, raised, open, broken, late, exits, drained>>
  BY DEF DrainFlag, DrainSnapshot, DrainClear, clients
<1>2. AssemblyTypes'
  BY <1>1 DEF DrainFlag, DrainSnapshot, DrainClear, AssemblyInv, AssemblyTypes, clients
<1>3. NobodyForgotten'
  BY <1>1 DEF DrainFlag, DrainSnapshot, DrainClear, AssemblyInv, NobodyForgotten, clients
<1>4. EnteredInOrder' /\ LeftInReverse'
  BY <1>1, OrdersStay DEF AssemblyInv
<1>5. QED
  BY <1>2, <1>3, <1>4 DEF AssemblyInv

\* A client of the snapshot is closed, or refuses to be.
LEMMA CloseKeeps ==
    ASSUME AssemblyInv, NEW c \in Clients, DrainClose(c) PROVE AssemblyInv'
<1>1. UNCHANGED <<mods, phase, slots, entered, raised, drain, late, exits, drained>>
      /\ drain = "closing" /\ closing' = closing \ {c}
  BY DEF DrainClose
<1>2. \/ open' = open \ {c} /\ active' = active \ {c} /\ broken' = broken
      \/ c \in open /\ broken' = broken \cup {c} /\ open' = open /\ active' = active
  BY DEF DrainClose
<1>3. AssemblyTypes'
  BY <1>1, <1>2 DEF AssemblyInv, AssemblyTypes
<1>4. NobodyForgotten'
  BY <1>1, <1>2 DEF AssemblyInv, NobodyForgotten
<1>5. EnteredInOrder' /\ LeftInReverse'
  BY <1>1, OrdersStay DEF AssemblyInv
<1>6. QED
  BY <1>3, <1>4, <1>5 DEF AssemblyInv

\* The teams are stopped, and the lifespan of the drain is left.
LEMMA StopAllKeeps ==
    ASSUME AssemblyInv, DrainStopAll PROVE AssemblyInv'
<1>1. /\ drain = "stopping" /\ drain' = "no" /\ drained' = "stopped" /\ Pop
      /\ UNCHANGED <<mods, phase, slots, raised, clients>>
  BY DEF DrainStopAll
<1>2. EnteredInOrder' /\ LeftInReverse'
  BY <1>1, PopKeeps DEF AssemblyInv, NobodyForgotten
<1>3. AssemblyTypes' /\ NobodyForgotten'
  BY <1>1 DEF AssemblyInv, AssemblyTypes, NobodyForgotten, clients
<1>4. QED
  BY <1>2, <1>3 DEF AssemblyInv

\* An app is composed of a list of modules, and nothing has happened to it yet.
LEMMA InitAssembly == AssemblyInit => AssemblyInv
<1> SUFFICES ASSUME AssemblyInit PROVE AssemblyInv
  OBVIOUS
<1>1. EnteredInOrder
  BY AssemblyAssumption DEF AssemblyInit, EnteredInOrder, Index, Composable
<1>2. LeftInReverse
  BY DEF AssemblyInit, LeftInReverse, Index
<1>3. AssemblyTypes /\ NobodyForgotten
  BY DEF AssemblyInit, AssemblyTypes, NobodyForgotten
<1>4. QED
  BY <1>1, <1>2, <1>3 DEF AssemblyInv

\* The invariant is inductive.
LEMMA NextAssembly == AssemblyInv /\ [AssemblyNext]_assemblyVars => AssemblyInv'
<1> SUFFICES ASSUME AssemblyInv, [AssemblyNext]_assemblyVars PROVE AssemblyInv'
  OBVIOUS
<1>1. CASE UNCHANGED assemblyVars
  <2>1. AssemblyTypes' /\ NobodyForgotten'
    BY <1>1 DEF assemblyVars, clients, AssemblyInv, AssemblyTypes, NobodyForgotten
  <2>2. EnteredInOrder' /\ LeftInReverse'
    BY <1>1, OrdersStay DEF assemblyVars, AssemblyInv
  <2>3. QED
    BY <2>1, <2>2 DEF AssemblyInv
<1>2. CASE Draining
  BY <1>2, ExitKeeps, DrainKeeps, StopAllKeeps, CloseKeeps DEF Draining
<1>3. QED
  BY <1>1, <1>2, ServingKeeps, ClientsKeep DEF AssemblyNext

\* The types, the orders and the clients are kept for any composition.
THEOREM AssemblyInvariant == AssemblySpec => []AssemblyInv
  BY InitAssembly, NextAssembly, PTL DEF AssemblySpec

\* Lifespans are left in reverse, and no team is stopped before every client of the
\* snapshot was closed or refused to be (CoreModule's lifespan and disconnect_all).
THEOREM AssemblyDrainReachesEveryClient == AssemblySpec => []DrainReachesEveryClient
<1>1. AssemblyInv => DrainReachesEveryClient
  BY DEF AssemblyInv, LeftInReverse, NobodyForgotten, DrainReachesEveryClient
<1>2. QED
  BY <1>1, AssemblyInvariant, PTL

-----------------------------------------------------------------------------
(* AppAssembly: what the builder makes of a composition, and what then serves *)

\* The i-th of p sequences starts behind at[i] in their join, which has nothing else.
Places(flat, pages, p, at) ==
    /\ at \in [1 .. p -> Nat]
    /\ \A i \in 1 .. p : at[i] + Len(pages[i]) <= Len(flat)
    /\ \A i \in 1 .. p : \A k \in 1 .. Len(pages[i]) : flat[at[i] + k] = pages[i][k]
    /\ \A q \in 1 .. Len(flat) : \E i \in 1 .. p : \E k \in 1 .. Len(pages[i]) : q = at[i] + k
    /\ \A i, j \in 1 .. p : i < j => at[i] + Len(pages[i]) <= at[j]

\* One more sequence starts where the join ended.
LEMMA PlaceNext ==
    ASSUME NEW S, NEW N \in Nat, NEW pages \in [1 .. N -> Seq(S)], NEW p \in Nat, p + 1 <= N,
           NEW flat \in Seq(S), NEW at, Places(flat, pages, p, at)
    PROVE  \E bt : Places(flat \o pages[p + 1], pages, p + 1, bt)
<1> DEFINE n == Len(flat)
           last == pages[p + 1]
           m == Len(last)
           all == flat \o last
           bt == [i \in 1 .. p + 1 |-> IF i = p + 1 THEN n ELSE at[i]]
<1>1. /\ last \in Seq(S) /\ n \in Nat /\ m \in Nat
      /\ \A i \in 1 .. p + 1 : pages[i] \in Seq(S) /\ Len(pages[i]) \in Nat
  <2>1. \A i \in 1 .. p + 1 : i \in 1 .. N
    OBVIOUS
  <2>2. p + 1 \in 1 .. p + 1
    OBVIOUS
  <2>3. QED
    BY <2>1, <2>2
<1>2. /\ all \in Seq(S) /\ Len(all) = n + m
      /\ \A i \in 1 .. n : all[i] = flat[i]
      /\ \A k \in 1 .. m : all[n + k] = last[k]
  <2>1. /\ all \in Seq(S) /\ Len(all) = n + m
        /\ \A i \in 1 .. n + m : all[i] = IF i <= n THEN flat[i] ELSE last[i - n]
    BY <1>1, ConcatProperties
  <2>2. \A k \in 1 .. m : n + k \in 1 .. n + m /\ ~ (n + k <= n) /\ n + k - n = k
    BY <1>1
  <2>3. \A i \in 1 .. n : i \in 1 .. n + m /\ i <= n
    BY <1>1
  <2> HIDE DEF n, m, all, last
  <2>4. ASSUME NEW i \in 1 .. n PROVE all[i] = flat[i]
    BY <2>1, <2>3
  <2>5. ASSUME NEW k \in 1 .. m PROVE all[n + k] = last[k]
    <3>1. PICK i \in 1 .. n + m : i = n + k /\ ~ (i <= n) /\ i - n = k
      BY <1>1, <2>2
    <3>2. all[i] = last[i - n]
      BY <2>1, <3>1
    <3>3. QED
      BY <3>1, <3>2
  <2>6. QED
    BY <2>1, <2>4, <2>5
<1>3. /\ bt \in [1 .. p + 1 -> Nat] /\ bt[p + 1] = n
      /\ \A i \in 1 .. p : bt[i] = at[i] /\ i \in 1 .. p + 1 /\ i # p + 1
      /\ \A i \in 1 .. p + 1 : i \in 1 .. p \/ i = p + 1
  <2>1. at \in [1 .. p -> Nat]
    BY DEF Places
  <2>2. \A i \in 1 .. p + 1 : i \in 1 .. p \/ i = p + 1
    OBVIOUS
  <2>3. \A i \in 1 .. p : i \in 1 .. p + 1 /\ i # p + 1
    OBVIOUS
  <2>4. p + 1 \in 1 .. p + 1
    OBVIOUS
  <2> HIDE DEF n
  <2>5. QED
    BY <1>1, <2>1, <2>2, <2>3, <2>4
<1> HIDE DEF bt, all
<1>4. ASSUME NEW i \in 1 .. p + 1
      PROVE  /\ bt[i] + Len(pages[i]) <= n + m
             /\ \A k \in 1 .. Len(pages[i]) : all[bt[i] + k] = pages[i][k]
  <2>1. CASE i = p + 1
    <3>1. pages[i] = last /\ bt[i] = n /\ Len(last) = m
      BY <1>3, <2>1
    <3>2. n \in Nat /\ m \in Nat
      BY <1>1
    <3> HIDE DEF n, m, last
    <3>3. QED
      BY <1>2, <3>1, <3>2
  <2>2. CASE i \in 1 .. p
    <3>1. /\ at[i] \in Nat /\ at[i] + Len(pages[i]) <= n /\ bt[i] = at[i]
          /\ \A k \in 1 .. Len(pages[i]) : flat[at[i] + k] = pages[i][k]
      BY <1>3, <2>2 DEF Places
    <3>2. Len(pages[i]) \in Nat /\ n \in Nat /\ m \in Nat
      BY <1>1
    <3> HIDE DEF n, m
    <3>3. \A k \in 1 .. Len(pages[i]) : at[i] + k \in 1 .. n
      <4>1. ASSUME NEW a \in Nat, NEW l \in Nat, a + l <= n, NEW k \in 1 .. l
            PROVE  a + k \in 1 .. n
        BY <3>2, <4>1
      <4> QED
        BY <3>1, <3>2, <4>1
    <3>4. ASSUME NEW k \in 1 .. Len(pages[i]) PROVE all[bt[i] + k] = pages[i][k]
      <4>1. all[at[i] + k] = flat[at[i] + k]
        BY <1>2, <3>3
      <4>2. QED
        BY <3>1, <4>1
    <3>5. QED
      BY <3>1, <3>2, <3>4
  <2>3. QED
    BY <1>3, <2>1, <2>2
<1>5. ASSUME NEW q \in 1 .. n + m
      PROVE  \E i \in 1 .. p + 1 : \E k \in 1 .. Len(pages[i]) : q = bt[i] + k
  <2>1. CASE q \in 1 .. n
    <3>1. PICK i \in 1 .. p : \E k \in 1 .. Len(pages[i]) : q = at[i] + k
      BY <2>1 DEF Places
    <3>2. QED
      BY <1>3, <3>1
  <2>2. CASE q \notin 1 .. n
    <3>1. q - n \in 1 .. m /\ q = n + (q - n)
      BY <1>1, <2>2
    <3>2. p + 1 \in 1 .. p + 1
      OBVIOUS
    <3>3. QED
      BY <1>3, <3>1, <3>2
  <2>3. QED
    BY <2>1, <2>2
<1>6. ASSUME NEW i \in 1 .. p + 1, NEW j \in 1 .. p + 1, i < j
      PROVE  bt[i] + Len(pages[i]) <= bt[j]
  <2>1. i \in 1 .. p
    BY <1>6
  <2>2. CASE j = p + 1
    BY <1>3, <2>1, <2>2 DEF Places
  <2>3. CASE j \in 1 .. p
    BY <1>3, <1>6, <2>1, <2>3 DEF Places
  <2>4. QED
    BY <1>3, <2>2, <2>3
<1>7. Places(all, pages, p + 1, bt)
  BY <1>2, <1>3, <1>4, <1>5, <1>6 DEF Places
<1>8. QED
  BY <1>7 DEF all

\* So each sequence has its place in the join of all.
LEMMA FlattenPlaces ==
    ASSUME NEW S, NEW N \in Nat, NEW pages \in [1 .. N -> Seq(S)]
    PROVE  FlattenSeq(pages) \in Seq(S) /\ \E at : Places(FlattenSeq(pages), pages, N, at)
<1>1. CASE N = 0
  <2> DEFINE at == [i \in 1 .. 0 |-> 0]
  <2>1. pages \in Seq(Seq(S)) /\ Len(pages) = 0
    BY <1>1
  <2>2. pages \in Seq(S)
    BY <2>1
  <2>3. FlattenSeq(pages) = pages
    BY <2>1 DEF FlattenSeq
  <2>4. at \in [1 .. 0 -> Nat] /\ 1 .. 0 = {}
    OBVIOUS
  <2> HIDE DEF at
  <2>5. Places(pages, pages, 0, at)
    BY <2>1, <2>4 DEF Places
  <2>6. QED
    BY <1>1, <2>2, <2>3, <2>5
<1>2. CASE N # 0
  <2> DEFINE Joined(p, g) == /\ g \in [1 .. p -> Seq(S)] /\ g[1] = pages[1]
                             /\ \A q \in 1 .. p : q > 1 => g[q - 1] \o pages[q] = g[q]
             Placed(p) == \E g, at : Joined(p, g) /\ Places(g[p], pages, p, at)
  <2>1. Placed(1)
    <3> DEFINE g == [q \in 1 .. 1 |-> pages[1]]
               at == [i \in 1 .. 1 |-> 0]
    <3>1. 1 \in 1 .. N /\ 1 .. 1 = {1}
      BY <1>2
    <3>2. pages[1] \in Seq(S) /\ Len(pages[1]) \in Nat
      BY <3>1
    <3>3. Joined(1, g) /\ g[1] = pages[1]
      BY <3>1, <3>2
    <3>4. at \in [1 .. 1 -> Nat] /\ at[1] = 0
      BY <3>1
    <3> HIDE DEF g, at, Joined
    <3>5. Places(pages[1], pages, 1, at)
      BY <3>1, <3>2, <3>4 DEF Places
    <3>6. QED
      BY <3>3, <3>5
  <2>2. ASSUME NEW p \in 1 .. N, p > 1, Placed(p - 1) PROVE Placed(p)
    <3>1. PICK g, at : Joined(p - 1, g) /\ Places(g[p - 1], pages, p - 1, at)
      BY <2>2
    <3> DEFINE flat == g[p - 1] \o pages[p]
               h == [q \in 1 .. p |-> IF q = p THEN flat ELSE g[q]]
    <3>2. /\ p - 1 \in Nat /\ p - 1 + 1 = p /\ p - 1 + 1 <= N /\ p - 1 \in 1 .. p - 1
          /\ \A q \in 1 .. p : q = p \/ q \in 1 .. p - 1
          /\ \A q \in 1 .. p : q > 1 => q - 1 \in 1 .. p - 1
          /\ \A q \in 1 .. p - 1 : q \in 1 .. p /\ q # p
          /\ p \in 1 .. p /\ 1 \in 1 .. p - 1
      BY <2>2
    <3>3. g[p - 1] \in Seq(S) /\ flat \in Seq(S)
      <4>1. pages[p] \in Seq(S) /\ g[p - 1] \in Seq(S)
        BY <3>1, <3>2
      <4>2. QED
        BY <4>1, ConcatProperties
    <3>4. PICK bt : Places(g[p - 1] \o pages[p - 1 + 1], pages, p - 1 + 1, bt)
      BY <3>1, <3>2, <3>3, PlaceNext
    <3> HIDE DEF flat
    <3>5. /\ h[p] = flat /\ h \in [1 .. p -> Seq(S)]
          /\ \A q \in 1 .. p - 1 : h[q] = g[q]
      BY <3>1, <3>2, <3>3
    <3> HIDE DEF h
    <3>6. h[1] = pages[1]
      BY <3>1, <3>2, <3>5
    <3>7. ASSUME NEW q \in 1 .. p, q > 1 PROVE h[q - 1] \o pages[q] = h[q]
      <4>1. q - 1 \in 1 .. p - 1 /\ h[q - 1] = g[q - 1]
        BY <3>2, <3>5, <3>7
      <4>2. CASE q = p
        BY <3>5, <4>1, <4>2 DEF flat
      <4>3. CASE q \in 1 .. p - 1
        BY <3>1, <3>5, <3>7, <4>1, <4>3
      <4>4. QED
        BY <3>2, <4>2, <4>3
    <3>8. Joined(p, h)
      BY <3>5, <3>6, <3>7
    <3>9. Places(h[p], pages, p, bt)
      BY <3>2, <3>4, <3>5 DEF flat
    <3> HIDE DEF Joined
    <3>10. QED
      BY <3>8, <3>9
  <2> HIDE DEF Placed
  <2>3. Placed(N)
    <3> DEFINE Odd == {p \in 1 .. N : ~Placed(p)}
    <3>1. SUFFICES ASSUME Odd # {} PROVE FALSE
      <4>1. N \in 1 .. N
        BY <1>2
      <4>2. QED
        BY <4>1
    <3>2. PICK p \in Odd : \A q \in Odd : p <= q
      <4>1. Odd \subseteq Nat
        OBVIOUS
      <4> HIDE DEF Odd
      <4>2. QED
        BY <3>1, <4>1, LeastMember
    <3>3. p \in 1 .. N /\ ~Placed(p) /\ p # 1
      BY <2>1
    <3>4. p > 1 /\ p - 1 \in 1 .. N /\ ~ (p <= p - 1)
      BY <3>3
    <3>5. Placed(p - 1)
      BY <3>2, <3>4
    <3>6. QED
      BY <2>2, <3>3, <3>4, <3>5
  <2>4. PICK g, at : Joined(N, g) /\ Places(g[N], pages, N, at)
    BY <2>3 DEF Placed
  <2>5. FlattenSeq(pages) = g[N] /\ g[N] \in Seq(S)
    <3>1. N \in Nat \ {0} /\ N \in 1 .. N
      BY <1>2
    <3>2. /\ g \in [1 .. N -> Seq(S)] /\ pages[1] = g[1]
          /\ \A q \in 1 .. N : q > 1 => g[q - 1] \o pages[q] = g[q]
      BY <2>4
    <3>3. QED
      BY <3>1, <3>2, FlattenJoins, ZenonT(40)
  <2> HIDE DEF Joined
  <2>6. QED
    BY <2>4, <2>5
<1>3. QED
  BY <1>1, <1>2

\* Two sequences of values that begin alike and go on alike end alike.
LEMMA SameSteps ==
    ASSUME NEW N \in Nat, NEW f, NEW g, f[0] = g[0],
           \A k \in 1 .. N : f[k - 1] = g[k - 1] => f[k] = g[k]
    PROVE  f[N] = g[N]
<1> DEFINE Odd == {k \in 0 .. N : f[k] # g[k]}
<1>1. SUFFICES ASSUME Odd # {} PROVE FALSE
  <2>1. N \in 0 .. N
    OBVIOUS
  <2>2. QED
    BY <2>1
<1>2. PICK k \in Odd : \A q \in Odd : k <= q
  <2>1. Odd \subseteq Nat
    OBVIOUS
  <2> HIDE DEF Odd
  <2>2. QED
    BY <1>1, <2>1, LeastMember
<1>3. k \in 0 .. N /\ f[k] # g[k] /\ k # 0
  OBVIOUS
<1>4. k \in 1 .. N /\ k - 1 \in 0 .. N /\ ~ (k <= k - 1)
  BY <1>3
<1>5. f[k - 1] = g[k - 1]
  BY <1>2, <1>4
<1>6. QED
  BY <1>3, <1>4, <1>5

\* What add_middleware makes of the sorted list, from its end on, is that list.
LEMMA StackedIsOrdered ==
    ASSUME NEW ms, NEW S, Ordered(ms) \in Seq(S)
    PROVE  Stacked(ms) = Ordered(ms)
<1> DEFINE o == Ordered(ms)
           n == Len(o)
           added == Reverse(o)
           Stacks(f) == f = [k \in 0 .. Len(added) |-> IF k = 0 THEN <<>>
                                                      ELSE <<added[k]>> \o f[k - 1]]
           stack == CHOOSE f : Stacks(f)
           last == [k \in 0 .. n |-> [i \in 1 .. k |-> o[n - k + i]]]
<1>1. n \in Nat /\ o \in Seq(S) /\ \A i \in 1 .. n : o[i] \in S
  OBVIOUS
<1>2. Stacked(ms) = stack[Len(added)]
  BY DEF Stacked
<1>3. Len(added) = n /\ \A k \in 1 .. n : added[k] = o[n - k + 1]
  <2>1. added = [i \in 1 .. n |-> o[n - i + 1]]
    BY DEF Reverse
  <2> HIDE DEF added, o, n
  <2>2. QED
    BY <1>1, <2>1
<1> HIDE DEF o, added
<1>4. ASSUME NEW k \in 0 .. n
      PROVE  last[k] \in Seq(S) /\ Len(last[k]) = k /\ \A i \in 1 .. k : last[k][i] = o[n - k + i]
  <2>1. last[k] = [i \in 1 .. k |-> o[n - k + i]]
    OBVIOUS
  <2>2. \A i \in 1 .. k : n - k + i \in 1 .. n
    BY <1>1
  <2>3. \A i \in 1 .. k : o[n - k + i] \in S
    BY <1>1, <2>2
  <2> HIDE DEF last
  <2>4. k \in Nat
    BY <1>1
  <2>5. QED
    BY <2>1, <2>3, <2>4
<1>5. last[0] = <<>>
  <2>1. 0 \in 0 .. n
    BY <1>1
  <2>2. last[0] \in Seq(S) /\ Len(last[0]) = 0
    BY <1>4, <2>1
  <2> HIDE DEF last
  <2>3. QED
    BY <2>2
<1>6. last[n] = o
  <2>1. n \in 0 .. n /\ \A i \in 1 .. n : n - n + i = i
    BY <1>1
  <2>2. last[n] \in Seq(S) /\ Len(last[n]) = n /\ \A i \in 1 .. n : last[n][i] = o[n - n + i]
    BY <1>4, <2>1
  <2>3. \A i \in 1 .. n : last[n][i] = o[i]
    BY <2>1, <2>2
  <2> HIDE DEF last
  <2>4. QED
    BY <1>1, <2>2, <2>3, SeqEqual
<1>7. DOMAIN last = 0 .. n /\ last = [k \in DOMAIN last |-> last[k]]
  OBVIOUS
<1> HIDE DEF last, n
<1>8. ASSUME NEW k \in 1 .. n PROVE <<added[k]>> \o last[k - 1] = last[k]
  <2> DEFINE e == added[k]
             q == last[k - 1]
             all == <<e>> \o q
  <2>1. /\ k \in 0 .. n /\ k - 1 \in 0 .. n /\ n - k + 1 \in 1 .. n
        /\ k \in Nat /\ k - 1 \in Nat
    BY <1>1
  <2>2. e = o[n - k + 1] /\ e \in S
    BY <1>1, <1>3, <2>1
  <2>3. /\ q \in Seq(S) /\ Len(q) = k - 1
        /\ \A i \in 1 .. k - 1 : q[i] = o[n - (k - 1) + i]
    BY <1>4, <2>1
  <2>4. <<e>> \in Seq(S) /\ Len(<<e>>) = 1 /\ <<e>>[1] = e
    BY <2>2
  <2>5. /\ all \in Seq(S) /\ Len(all) = Len(<<e>>) + Len(q)
        /\ \A i \in 1 .. Len(<<e>>) + Len(q) :
             all[i] = IF i <= Len(<<e>>) THEN <<e>>[i] ELSE q[i - Len(<<e>>)]
    <3> HIDE DEF e, q
    <3>1. QED
      BY <2>3, <2>4, ConcatProperties
  <2>6. 1 + (k - 1) = k
    BY <2>1
  <2> HIDE DEF e, q, all
  <2>7. Len(all) = k /\ \A i \in 1 .. k : all[i] = IF i <= 1 THEN <<e>>[i] ELSE q[i - 1]
    BY <2>3, <2>4, <2>5, <2>6
  <2>8. ASSUME NEW i \in 1 .. k PROVE all[i] = last[k][i]
    <3>1. last[k][i] = o[n - k + i]
      BY <1>4, <2>1
    <3>2. CASE i = 1
      BY <2>2, <2>4, <2>7, <3>1, <3>2
    <3>3. CASE i # 1
      <4>1. ~ (i <= 1) /\ i - 1 \in 1 .. k - 1 /\ n - (k - 1) + (i - 1) = n - k + i
        BY <1>1, <2>1, <3>3
      <4>2. all[i] = q[i - 1] /\ q[i - 1] = o[n - (k - 1) + (i - 1)]
        BY <2>3, <2>7, <4>1
      <4>3. QED
        BY <3>1, <4>1, <4>2
    <3>4. QED
      BY <3>2, <3>3
  <2>9. last[k] \in Seq(S) /\ Len(last[k]) = k
    BY <1>4, <2>1
  <2>10. all = last[k]
    BY <2>5, <2>7, <2>8, <2>9, SeqEqual
  <2>11. QED
    BY <2>10 DEF all, e, q
<1>9. Stacks(stack)
  <2>1. Stacks(last)
    <3>1. \A k \in 0 .. n : last[k] = IF k = 0 THEN <<>> ELSE <<added[k]>> \o last[k - 1]
      <4>1. ASSUME NEW k \in 0 .. n, k # 0 PROVE last[k] = <<added[k]>> \o last[k - 1]
        <5>1. k \in 1 .. n
          BY <1>1, <4>1
        <5>2. QED
          BY <1>8, <5>1
      <4>2. QED
        BY <1>5, <4>1
    <3>2. QED
      BY <1>3, <1>7, <3>1
  <2> HIDE DEF Stacks
  <2>2. QED
    BY <2>1
<1> HIDE DEF stack
<1> DEFINE Part(k) == IF k = 0 THEN <<>> ELSE <<added[k]>> \o stack[k - 1]
<1>10. stack = [k \in 0 .. n |-> Part(k)]
  BY <1>3, <1>9
<1>11. ASSUME NEW k \in 1 .. n PROVE stack[k] = <<added[k]>> \o stack[k - 1]
  <2>1. k \in 0 .. n /\ k # 0
    BY <1>1
  <2>2. Part(k) = <<added[k]>> \o stack[k - 1]
    BY <2>1, Zenon
  <2> HIDE DEF Part
  <2>3. QED
    BY <1>10, <2>1, <2>2
<1>12. stack[0] = <<>>
  <2>1. 0 \in 0 .. n /\ Part(0) = <<>>
    BY <1>1
  <2> HIDE DEF Part
  <2>2. QED
    BY <1>10, <2>1
<1>13. stack[n] = last[n]
  <2>1. \A k \in 1 .. n : stack[k - 1] = last[k - 1] => stack[k] = last[k]
    BY <1>8, <1>11
  <2>2. QED
    BY <1>1, <1>5, <1>12, <2>1, SameSteps
<1>14. QED
  BY <1>2, <1>3, <1>6, <1>13 DEF o

\* e leads each place of o, in order, to the places of s that have a member of T.
Leads(e, s, o, T) ==
    /\ e \in [1 .. Len(o) -> 1 .. Len(s)]
    /\ \A j, l \in 1 .. Len(o) : j < l => e[j] < e[l]
    /\ \A j \in 1 .. Len(o) : s[e[j]] = o[j]
    /\ \A i \in 1 .. Len(s) : s[i] \in T <=> \E j \in 1 .. Len(o) : e[j] = i

\* Then the members kept of s are o.
LEMMA KeptIsOrder ==
    ASSUME NEW S, NEW s \in Seq(S), NEW o \in Seq(S), NEW T, NEW e, Leads(e, s, o, T)
    PROVE  Kept(s, T) = o
<1> DEFINE n == Len(s)
           m == Len(o)
           Keeping(f) == f = [k \in 0 .. n |-> IF k = 0 THEN <<>>
                                ELSE IF s[k] \in T THEN Append(f[k - 1], s[k]) ELSE f[k - 1]]
           kept == CHOOSE f : Keeping(f)
           Upto(k, c) == \A j \in 1 .. m : e[j] <= k <=> j <= c
           count == [k \in 0 .. n |-> CHOOSE c \in 0 .. m : Upto(k, c)]
           first == [k \in 0 .. n |-> SubSeq(o, 1, count[k])]
<1>1. /\ n \in Nat /\ m \in Nat /\ \A j \in 1 .. m : e[j] \in 1 .. n /\ o[j] \in S
      /\ \A j, l \in 1 .. m : j < l => e[j] < e[l]
      /\ \A j \in 1 .. m : s[e[j]] = o[j]
      /\ \A i \in 1 .. n : s[i] \in T <=> \E j \in 1 .. m : e[j] = i
  <2>1. n \in Nat /\ m \in Nat /\ \A j \in 1 .. m : o[j] \in S
    OBVIOUS
  <2>2. \A j \in 1 .. m : e[j] \in 1 .. n
    BY DEF Leads
  <2> QED
    BY <2>1, <2>2 DEF Leads
<1>2. Kept(s, T) = kept[n]
  BY DEF Kept
<1> HIDE DEF n, m
<1>3. ASSUME NEW k \in 0 .. n PROVE \E c \in 0 .. m : Upto(k, c)
  <2> DEFINE J == {j \in 1 .. m : k < e[j]}
  <2>1. CASE J = {}
    <3>1. ASSUME NEW j \in 1 .. m PROVE e[j] <= k /\ j <= m
      <4>1. e[j] \in 1 .. n /\ ~ (k < e[j])
        BY <1>1, <2>1
      <4>2. QED
        BY <1>1, <4>1
    <3>2. m \in 0 .. m
      BY <1>1
    <3>3. QED
      BY <3>1, <3>2
  <2>2. CASE J # {}
    <3>1. PICK l \in J : \A j \in J : l <= j
      <4>1. J \in SUBSET Nat
        BY <1>1
      <4> HIDE DEF J
      <4>2. QED
        BY <2>2, <4>1, LeastMember
    <3>2. l \in 1 .. m /\ k < e[l] /\ l - 1 \in 0 .. m
      BY <1>1, <3>1
    <3>3. ASSUME NEW j \in 1 .. m PROVE e[j] <= k <=> j <= l - 1
      <4>1. e[j] \in Nat /\ e[l] \in Nat /\ k \in Nat
        BY <1>1, <3>2
      <4>2. CASE j < l
        <5>1. j \notin J
          BY <1>1, <3>1, <3>2, <4>2
        <5>2. QED
          BY <1>1, <3>2, <4>1, <4>2, <5>1
      <4>3. CASE j = l
        BY <1>1, <3>2, <4>1, <4>3
      <4>4. CASE l < j
        BY <1>1, <3>2, <4>1, <4>4
      <4>5. QED
        BY <1>1, <3>2, <4>2, <4>3, <4>4
    <3>4. QED
      BY <3>2, <3>3
  <2>3. QED
    BY <2>1, <2>2
<1>4. ASSUME NEW k \in 0 .. n PROVE count[k] \in 0 .. m /\ Upto(k, count[k])
  <2>1. count[k] = CHOOSE c \in 0 .. m : Upto(k, c)
    OBVIOUS
  <2> HIDE DEF count, Upto
  <2>2. QED
    BY <1>3, <2>1
<1> HIDE DEF count
<1>5. /\ DOMAIN first = 0 .. n /\ first = [k \in DOMAIN first |-> first[k]]
      /\ \A k \in 0 .. n : first[k] = SubSeq(o, 1, count[k])
  OBVIOUS
<1> HIDE DEF first
<1>6. ASSUME NEW k \in 0 .. n
      PROVE  /\ first[k] \in Seq(S) /\ Len(first[k]) = count[k]
             /\ \A i \in 1 .. count[k] : first[k][i] = o[i]
  <2> DEFINE c == count[k]
  <2>1. c \in 0 .. m /\ first[k] = SubSeq(o, 1, c)
    BY <1>4, <1>5
  <2> HIDE DEF c
  <2>2. 1 \in Int /\ c \in Int /\ \A i \in 1 .. c : o[i] \in S
    BY <1>1, <2>1
  <2>3. /\ SubSeq(o, 1, c) \in Seq(S)
        /\ Len(SubSeq(o, 1, c)) = IF 1 <= c THEN c - 1 + 1 ELSE 0
        /\ \A i \in 1 .. c - 1 + 1 : SubSeq(o, 1, c)[i] = o[1 + i - 1]
    BY <2>2, SubSeqProperties
  <2>4. c - 1 + 1 = c /\ (~ (1 <= c) => c = 0) /\ \A i \in 1 .. c : 1 + i - 1 = i
    BY <1>1, <2>1
  <2>5. Len(SubSeq(o, 1, c)) = c
    <3>1. CASE 1 <= c
      BY <2>3, <2>4, <3>1
    <3>2. CASE ~ (1 <= c)
      BY <2>3, <2>4, <3>2
    <3>3. QED
      BY <3>1, <3>2
  <2>6. \A i \in 1 .. c : SubSeq(o, 1, c)[i] = o[i]
    BY <2>3, <2>4
  <2>7. QED
    BY <2>1, <2>3, <2>5, <2>6 DEF c
<1>7. first[0] = <<>>
  <2>1. 0 \in 0 .. n /\ count[0] \in 0 .. m /\ Upto(0, count[0])
    BY <1>1, <1>4
  <2>2. count[0] = 0
    <3>1. SUFFICES ASSUME count[0] # 0 PROVE FALSE
      OBVIOUS
    <3>2. count[0] \in 1 .. m /\ e[count[0]] <= 0
      BY <1>1, <2>1, <3>1
    <3>3. e[count[0]] \in 1 .. n
      BY <1>1, <3>2
    <3>4. QED
      BY <3>2, <3>3
  <2>3. first[0] \in Seq(S) /\ Len(first[0]) = 0
    BY <1>6, <2>1, <2>2
  <2>4. QED
    BY <2>3
<1>8. first[n] = o
  <2>1. n \in 0 .. n /\ count[n] \in 0 .. m /\ Upto(n, count[n])
    BY <1>1, <1>4
  <2>2. count[n] = m
    <3>1. SUFFICES ASSUME count[n] # m PROVE FALSE
      OBVIOUS
    <3>2. m \in 1 .. m /\ ~ (m <= count[n])
      BY <1>1, <2>1, <3>1
    <3>3. e[m] \in 1 .. n
      BY <1>1, <3>2
    <3>4. e[m] <= n
      BY <1>1, <3>3
    <3>5. QED
      BY <2>1, <3>2, <3>4
  <2>3. first[n] \in Seq(S) /\ Len(first[n]) = m /\ \A i \in 1 .. m : first[n][i] = o[i]
    BY <1>6, <2>1, <2>2
  <2>4. Len(o) = m
    BY DEF m
  <2>5. QED
    BY <2>3, <2>4, SeqEqual
<1>9. ASSUME NEW k \in 1 .. n, s[k] \in T PROVE first[k] = Append(first[k - 1], s[k])
  <2> DEFINE b == count[k - 1]
             c == count[k]
  <2>1. k \in 0 .. n /\ k - 1 \in 0 .. n
    BY <1>1
  <2>2. b \in 0 .. m /\ Upto(k - 1, b) /\ c \in 0 .. m /\ Upto(k, c)
    BY <1>4, <2>1
  <2>3. PICK j \in 1 .. m : e[j] = k
    BY <1>1, <1>9
  <2>4. j \in Nat /\ k \in Nat /\ b \in Nat /\ c \in Nat /\ m \in Nat
    BY <1>1, <2>2
  <2>5. b < j /\ j <= c /\ o[j] = s[k] /\ o[j] \in S
    <3>1. ~ (e[j] <= k - 1) /\ e[j] <= k
      BY <2>3, <2>4
    <3>2. o[j] = s[k] /\ o[j] \in S
      BY <1>1, <2>3
    <3>3. ~ (j <= b) /\ j <= c
      BY <2>2, <3>1
    <3> HIDE DEF b, c
    <3>4. QED
      BY <2>4, <3>2, <3>3
  <2>6. j = 1 \/ j - 1 <= b
    <3>1. SUFFICES ASSUME j # 1 PROVE j - 1 <= b
      OBVIOUS
    <3>2. j - 1 \in 1 .. m /\ j - 1 < j
      BY <2>4, <3>1
    <3>3. e[j - 1] < e[j] /\ e[j - 1] \in 1 .. n
      BY <1>1, <3>2
    <3>4. e[j - 1] <= k - 1
      BY <1>1, <2>3, <2>4, <3>3
    <3>5. QED
      BY <2>2, <3>2, <3>4
  <2>7. ~ (j + 1 <= c)
    <3>1. SUFFICES ASSUME j + 1 <= c PROVE FALSE
      OBVIOUS
    <3>2. j + 1 \in 1 .. m /\ j < j + 1
      <4> HIDE DEF b, c
      <4>1. QED
        BY <2>2, <2>4, <3>1
    <3>3. e[j] < e[j + 1] /\ e[j + 1] \in 1 .. n
      BY <1>1, <3>2
    <3>4. e[j + 1] <= k
      BY <2>2, <3>1, <3>2
    <3>5. QED
      BY <2>3, <2>4, <3>3, <3>4
  <2>8. b = j - 1 /\ c = j
    <3> HIDE DEF b, c
    <3>1. QED
      BY <2>4, <2>5, <2>6, <2>7
  <2>9. /\ first[k - 1] \in Seq(S) /\ Len(first[k - 1]) = j - 1
        /\ \A i \in 1 .. j - 1 : first[k - 1][i] = o[i]
        /\ first[k] \in Seq(S) /\ Len(first[k]) = j
        /\ \A i \in 1 .. j : first[k][i] = o[i]
    BY <1>6, <2>1, <2>8
  <2> DEFINE p == first[k - 1]
             q == first[k]
  <2>10. /\ Append(p, o[j]) \in Seq(S) /\ Len(Append(p, o[j])) = Len(p) + 1
         /\ \A i \in 1 .. Len(p) : Append(p, o[j])[i] = p[i]
         /\ Append(p, o[j])[Len(p) + 1] = o[j]
    <3> HIDE DEF p
    <3>1. p \in Seq(S)
      BY <2>9 DEF p
    <3>2. QED
      BY <2>5, <3>1, AppendProperties
  <2> HIDE DEF b, c, p, q
  <2>11. Len(p) = j - 1 /\ Len(p) + 1 = j /\ Len(q) = j
    BY <2>4, <2>9 DEF p, q
  <2>12. ASSUME NEW i \in 1 .. j PROVE q[i] = Append(p, o[j])[i]
    <3>1. q[i] = o[i]
      BY <2>9 DEF q
    <3>2. CASE i = j
      BY <2>10, <2>11, <3>1, <3>2
    <3>3. CASE i # j
      <4>1. i \in 1 .. j - 1
        BY <2>4, <3>3
      <4>2. p[i] = o[i]
        BY <2>9, <4>1 DEF p
      <4>3. Append(p, o[j])[i] = p[i]
        BY <2>10, <2>11, <4>1
      <4>4. QED
        BY <3>1, <4>2, <4>3
    <3>4. QED
      BY <3>2, <3>3
  <2>13. q \in Seq(S)
    BY <2>9 DEF q
  <2>14. q = Append(p, o[j])
    BY <2>10, <2>11, <2>12, <2>13, SeqEqual
  <2>15. QED
    BY <2>5, <2>14 DEF p, q
<1>10. ASSUME NEW k \in 1 .. n, s[k] \notin T PROVE first[k] = first[k - 1]
  <2> DEFINE b == count[k - 1]
             c == count[k]
  <2>1. k \in 0 .. n /\ k - 1 \in 0 .. n
    BY <1>1
  <2>2. b \in 0 .. m /\ Upto(k - 1, b) /\ c \in 0 .. m /\ Upto(k, c)
    BY <1>4, <2>1
  <2>3. \A j \in 1 .. m : e[j] # k
    BY <1>1, <1>10
  <2>4. \A j \in 1 .. m : e[j] <= k <=> e[j] <= k - 1
    <3>1. ASSUME NEW j \in 1 .. m PROVE e[j] <= k <=> e[j] <= k - 1
      <4>1. e[j] \in Nat /\ k \in Nat /\ e[j] # k
        BY <1>1, <2>3
      <4>2. QED
        BY <4>1
    <3>2. QED
      BY <3>1
  <2>5. \A j \in 1 .. m : j <= b <=> j <= c
    BY <2>2, <2>4
  <2> HIDE DEF b, c
  <2>6. b = c
    <3>1. b \in 0 .. m /\ c \in 0 .. m
      BY <2>2
    <3> HIDE DEF Upto
    <3>2. ~ (b < c)
      <4>1. SUFFICES ASSUME b < c PROVE FALSE
        OBVIOUS
      <4>2. c \in 1 .. m /\ ~ (c <= b) /\ c <= c
        BY <1>1, <3>1, <4>1
      <4>3. QED
        BY <2>5, <4>2
    <3>3. ~ (c < b)
      <4>1. SUFFICES ASSUME c < b PROVE FALSE
        OBVIOUS
      <4>2. b \in 1 .. m /\ ~ (b <= c) /\ b <= b
        BY <1>1, <3>1, <4>1
      <4>3. QED
        BY <2>5, <4>2
    <3>4. QED
      BY <1>1, <3>1, <3>2, <3>3
  <2>7. QED
    BY <1>5, <2>1, <2>6 DEF b, c
<1> HIDE DEF Upto
<1>11. Keeping(kept)
  <2>1. Keeping(first)
    <3>1. \A k \in 0 .. n : first[k] = IF k = 0 THEN <<>>
                               ELSE IF s[k] \in T THEN Append(first[k - 1], s[k]) ELSE first[k - 1]
      <4>1. ASSUME NEW k \in 0 .. n, k # 0
            PROVE  first[k] = IF s[k] \in T THEN Append(first[k - 1], s[k]) ELSE first[k - 1]
        <5>1. k \in 1 .. n
          BY <1>1, <4>1
        <5>2. QED
          BY <1>9, <1>10, <5>1
      <4>2. QED
        BY <1>7, <4>1
    <3>2. QED
      BY <1>5, <3>1
  <2> HIDE DEF Keeping
  <2>2. QED
    BY <2>1
<1> HIDE DEF kept
<1> DEFINE Part(k) == IF k = 0 THEN <<>>
                      ELSE IF s[k] \in T THEN Append(kept[k - 1], s[k]) ELSE kept[k - 1]
<1>12. kept = [k \in 0 .. n |-> Part(k)]
  BY <1>11
<1>13. ASSUME NEW k \in 1 .. n
       PROVE  kept[k] = IF s[k] \in T THEN Append(kept[k - 1], s[k]) ELSE kept[k - 1]
  <2>1. k \in 0 .. n /\ k # 0
    BY <1>1
  <2>2. Part(k) = IF s[k] \in T THEN Append(kept[k - 1], s[k]) ELSE kept[k - 1]
    BY <2>1, Zenon
  <2> HIDE DEF Part
  <2>3. kept[k] = Part(k)
    BY <1>12, <2>1
  <2>4. QED
    BY <2>2, <2>3, Zenon
<1>14. kept[0] = <<>>
  <2>1. 0 \in 0 .. n /\ Part(0) = <<>>
    BY <1>1
  <2> HIDE DEF Part
  <2>2. QED
    BY <1>12, <2>1
<1>15. kept[n] = first[n]
  <2>1. ASSUME NEW k \in 1 .. n, kept[k - 1] = first[k - 1] PROVE kept[k] = first[k]
    <3>1. CASE s[k] \in T
      <4>1. first[k] = Append(first[k - 1], s[k])
        BY <1>9, <3>1
      <4>2. kept[k] = Append(kept[k - 1], s[k])
        BY <1>13, <3>1
      <4>3. QED
        BY <2>1, <4>1, <4>2
    <3>2. CASE s[k] \notin T
      <4>1. first[k] = first[k - 1]
        BY <1>10, <3>2
      <4>2. kept[k] = kept[k - 1]
        BY <1>13, <3>2
      <4>3. QED
        BY <2>1, <4>1, <4>2
    <3>3. QED
      BY <3>1, <3>2
  <2>2. QED
    BY <1>1, <1>7, <1>14, <2>1, SameSteps
<1>16. QED
  BY <1>2, <1>8, <1>15

\* The spec in place k of the list of module i.
Spec(ms, i, k) == <<ms[i].middleware[k].layer, i, k, ms[i].middleware[k].requires>>

\* The specs of a composition, one for each place in a module's list.
LEMMA SpecsAre ==
    ASSUME NEW ms, Composable(ms)
    PROVE  /\ IsFiniteSet(Specs(ms))
           /\ \A e : e \in Specs(ms) <=>
                 \E i \in Index(ms) : \E k \in Index(ms[i].middleware) : e = Spec(ms, i, k)
           /\ \A e \in Specs(ms) : /\ e[1] \in Int /\ e[2] \in Index(ms) /\ e[2] \in Nat
                                   /\ e[3] \in Index(ms[e[2]].middleware) /\ e[3] \in Nat
                                   /\ e = Spec(ms, e[2], e[3])
<1> DEFINE Of(i) == {Spec(ms, i, k) : k \in Index(ms[i].middleware)}
           All == {Of(i) : i \in Index(ms)}
<1>1. Specs(ms) = UNION All
  BY DEF Specs, Spec
<1>2. ASSUME NEW i \in Index(ms) PROVE IsFiniteSet(Of(i)) /\ Index(ms[i].middleware) \subseteq Nat
  <2>1. Len(ms[i].middleware) \in Nat
    BY DEF Composable
  <2> DEFINE n == Len(ms[i].middleware)
  <2> HIDE DEF n
  <2>2. 1 \in Int /\ n \in Int
    BY <2>1 DEF n
  <2>3. IsFiniteSet(1 .. n)
    BY <2>2, FS_Interval
  <2>4. IsFiniteSet({Spec(ms, i, k) : k \in 1 .. n})
    <3> DEFINE f == [k \in 1 .. n |-> Spec(ms, i, k)]
               T == {Spec(ms, i, k) : k \in 1 .. n}
    <3>1. f \in Surjection(1 .. n, T)
      BY DEF Surjection
    <3> HIDE DEF f, T
    <3>2. IsFiniteSet(T)
      BY <2>3, <3>1, FS_Surjection
    <3>3. QED
      BY <3>2 DEF T
  <2>5. 1 .. n \subseteq Nat
    BY <2>2
  <2>6. QED
    BY <2>4, <2>5 DEF n, Index
<1>3. IsFiniteSet(All) /\ Index(ms) \subseteq Nat
  <2> DEFINE n == Len(ms)
  <2>1. 1 \in Int /\ n \in Int
    BY DEF Composable
  <2> HIDE DEF n, Of
  <2>2. IsFiniteSet(1 .. n) /\ 1 .. n \subseteq Nat
    BY <2>1, FS_Interval
  <2>3. IsFiniteSet({Of(i) : i \in 1 .. n})
    <3> DEFINE f == [i \in 1 .. n |-> Of(i)]
               T == {Of(i) : i \in 1 .. n}
    <3>1. f \in Surjection(1 .. n, T)
      BY DEF Surjection
    <3> HIDE DEF f, T
    <3>2. IsFiniteSet(T)
      BY <2>2, <3>1, FS_Surjection
    <3>3. QED
      BY <3>2 DEF T
  <2>4. QED
    BY <2>2, <2>3 DEF n, Index
<1>4. IsFiniteSet(UNION All)
  <2>1. \A T \in All : IsFiniteSet(T)
    <3> HIDE DEF Of
    <3>1. QED
      BY <1>2
  <2> HIDE DEF All
  <2>2. QED
    BY <1>3, <2>1, FS_UNION
<1>5. \A e : e \in UNION All <=>
         \E i \in Index(ms) : \E k \in Index(ms[i].middleware) : e = Spec(ms, i, k)
  OBVIOUS
<1> HIDE DEF All, Of
<1>6. ASSUME NEW e \in Specs(ms)
      PROVE  /\ e[1] \in Int /\ e[2] \in Index(ms) /\ e[2] \in Nat
             /\ e[3] \in Index(ms[e[2]].middleware) /\ e[3] \in Nat
             /\ e = Spec(ms, e[2], e[3])
  <2>1. PICK i \in Index(ms) : \E k \in Index(ms[i].middleware) : e = Spec(ms, i, k)
    BY <1>1, <1>5
  <2>2. PICK k \in Index(ms[i].middleware) : e = Spec(ms, i, k)
    BY <2>1
  <2>3. e[1] = ms[i].middleware[k].layer /\ e[2] = i /\ e[3] = k
    BY <2>2 DEF Spec
  <2>4. ms[i].middleware[k].layer \in Int
    BY DEF Composable
  <2>5. QED
    BY <1>2, <1>3, <2>2, <2>3, <2>4
<1>7. QED
  BY <1>1, <1>4, <1>5, <1>6

\* The layer triple is a strict order, and no two specs are equal in it.
LEMMA OuterIsOrder ==
    ASSUME NEW ms, Composable(ms)
    PROVE  \A a, b, c \in Specs(ms) : /\ ~Outer(a, a)
                                      /\ Outer(a, b) /\ Outer(b, c) => Outer(a, c)
                                      /\ a # b => Outer(a, b) \/ Outer(b, a)
<1> TAKE a, b, c \in Specs(ms)
<1> DEFINE la == a[1]  ma == a[2]  sa == a[3]
           lb == b[1]  mb == b[2]  sb == b[3]
           lc == c[1]  mc == c[2]  sc == c[3]
<1>1. /\ la \in Int /\ ma \in Int /\ sa \in Int /\ lb \in Int /\ mb \in Int /\ sb \in Int
      /\ lc \in Int /\ mc \in Int /\ sc \in Int
  BY SpecsAre
<1>2. /\ Outer(a, a) <=> \/ la < la
                         \/ la = la /\ ma < ma
                         \/ la = la /\ ma = ma /\ sa < sa
      /\ Outer(a, b) <=> \/ la < lb
                         \/ la = lb /\ ma < mb
                         \/ la = lb /\ ma = mb /\ sa < sb
      /\ Outer(b, a) <=> \/ lb < la
                         \/ lb = la /\ mb < ma
                         \/ lb = la /\ mb = ma /\ sb < sa
      /\ Outer(b, c) <=> \/ lb < lc
                         \/ lb = lc /\ mb < mc
                         \/ lb = lc /\ mb = mc /\ sb < sc
      /\ Outer(a, c) <=> \/ la < lc
                         \/ la = lc /\ ma < mc
                         \/ la = lc /\ ma = mc /\ sa < sc
  BY DEF Outer
<1>3. ma = mb /\ sa = sb => a = b
  BY SpecsAre
<1> HIDE DEF la, ma, sa, lb, mb, sb, lc, mc, sc
<1>4. ~Outer(a, a)
  BY <1>1, <1>2
<1>5. Outer(a, b) /\ Outer(b, c) => Outer(a, c)
  BY <1>1, <1>2
<1>6. a # b => Outer(a, b) \/ Outer(b, a)
  BY <1>1, <1>2, <1>3
<1>7. QED
  BY <1>4, <1>5, <1>6

\* Sorting gives each spec its place.
LEMMA OrderedIsSorted ==
    ASSUME NEW ms, Composable(ms)
    PROVE  /\ Ordered(ms) \in Seq(Specs(ms))
           /\ \A i, j \in Index(Ordered(ms)) : i < j => Outer(Ordered(ms)[i], Ordered(ms)[j])
           /\ \A e \in Specs(ms) : \E i \in Index(Ordered(ms)) : Ordered(ms)[i] = e
<1> DEFINE T == Specs(ms)
           R == {p \in T \X T : Outer(p[1], p[2])}
           A(t) == {s \in T : Outer(s, t)}
           B(t) == {s \in T : <<s, t>> \in R}
<1>1. \A a, b \in T : <<a, b>> \in R <=> Outer(a, b)
  OBVIOUS
<1>2. Ordered(ms) = [p \in 1 .. Cardinality(T) |-> CHOOSE t \in T : Cardinality(A(t)) = p - 1]
  BY DEF Ordered
<1>3. IsFiniteSet(T) /\ \A a, b, c \in T : /\ ~Outer(a, a)
                                           /\ Outer(a, b) /\ Outer(b, c) => Outer(a, c)
                                           /\ a # b => Outer(a, b) \/ Outer(b, a)
  BY SpecsAre, OuterIsOrder
<1> HIDE DEF T, R
<1>4. \A a, b, c \in T : /\ <<a, a>> \notin R
                         /\ <<a, b>> \in R /\ <<b, c>> \in R => <<a, c>> \in R
                         /\ a # b => <<a, b>> \in R \/ <<b, a>> \in R
  BY <1>1, <1>3
<1>5. \A t \in T : A(t) = B(t)
  BY <1>1
<1> HIDE DEF A
<1>6. Ordered(ms) = Ranked(T, R)
  <2> HIDE DEF B
  <2>1. \A p : (CHOOSE t \in T : Cardinality(A(t)) = p - 1)
                 = (CHOOSE t \in T : Cardinality(B(t)) = p - 1)
    BY <1>5
  <2>2. Ordered(ms) = [p \in 1 .. Cardinality(T) |-> CHOOSE t \in T : Cardinality(B(t)) = p - 1]
    BY <1>2, <2>1
  <2>3. QED
    BY <2>2 DEF B, Ranked
<1> HIDE DEF B
<1>7. /\ Cardinality(T) \in Nat
      /\ Ordered(ms) \in [1 .. Cardinality(T) -> T]
      /\ \A i, j \in 1 .. Cardinality(T) : i < j => <<Ordered(ms)[i], Ordered(ms)[j]>> \in R
      /\ \A t \in T : \E i \in 1 .. Cardinality(T) : Ordered(ms)[i] = t
  BY <1>3, <1>4, <1>6, RanksSort
<1> DEFINE n == Cardinality(T)
           o == Ordered(ms)
<1>8. o \in Seq(T) /\ Len(o) = n
  <2>1. n \in Nat /\ o \in [1 .. n -> T]
    BY <1>7
  <2> HIDE DEF n, o
  <2>2. QED
    BY <2>1
<1>9. \A i, j \in 1 .. n : i < j => Outer(o[i], o[j])
  <2>1. \A i \in 1 .. n : o[i] \in T
    BY <1>7
  <2>2. QED
    BY <1>1, <1>7, <2>1
<1>10. QED
  BY <1>7, <1>8, <1>9 DEF T, Index

\* The join flat of N sequences has what is in them and nothing else, and what comes of
\* an earlier one is before what comes of a later one.
JoinHas(flat, pages, N) ==
    \A i \in 1 .. N : \A k \in 1 .. Len(pages[i]) : \E p \in 1 .. Len(flat) : flat[p] = pages[i][k]
JoinOnly(flat, pages, N) ==
    \A p \in 1 .. Len(flat) : \E i \in 1 .. N : \E k \in 1 .. Len(pages[i]) : flat[p] = pages[i][k]
JoinInOrder(flat, pages, N) ==
    \A i, j \in 1 .. N : i < j =>
      \A k \in 1 .. Len(pages[i]) : \A l \in 1 .. Len(pages[j]) :
         \E p, q \in 1 .. Len(flat) : p < q /\ flat[p] = pages[i][k] /\ flat[q] = pages[j][l]
JoinSorted(flat, pages, N) ==
    \A p, q \in 1 .. Len(flat) : p < q =>
      \E i, j \in 1 .. N : /\ i <= j
                           /\ \E k \in 1 .. Len(pages[i]) : flat[p] = pages[i][k]
                           /\ \E l \in 1 .. Len(pages[j]) : flat[q] = pages[j][l]

\* FlattenSeq is such a join.
LEMMA FlattenJoinsAll ==
    ASSUME NEW S, NEW N \in Nat, NEW pages \in [1 .. N -> Seq(S)]
    PROVE  /\ FlattenSeq(pages) \in Seq(S)
           /\ JoinHas(FlattenSeq(pages), pages, N)
           /\ JoinOnly(FlattenSeq(pages), pages, N)
           /\ JoinInOrder(FlattenSeq(pages), pages, N)
           /\ JoinSorted(FlattenSeq(pages), pages, N)
<1> DEFINE flat == FlattenSeq(pages)
<1>1. PICK at : flat \in Seq(S) /\ Places(flat, pages, N, at)
  BY FlattenPlaces
<1> HIDE DEF flat
<1>2. at \in [1 .. N -> Nat] /\ Len(flat) \in Nat
  BY <1>1 DEF Places
<1>3. ASSUME NEW i \in 1 .. N
      PROVE  Len(pages[i]) \in Nat /\ at[i] \in Nat /\ at[i] + Len(pages[i]) <= Len(flat)
  <2>1. pages[i] \in Seq(S) /\ at[i] \in Nat
    BY <1>2
  <2>2. at[i] + Len(pages[i]) <= Len(flat)
    BY <1>1 DEF Places
  <2>3. QED
    BY <2>1, <2>2
<1>4. ASSUME NEW i \in 1 .. N, NEW k \in 1 .. Len(pages[i])
      PROVE  at[i] + k \in 1 .. Len(flat) /\ flat[at[i] + k] = pages[i][k]
  <2>1. at[i] + k \in 1 .. Len(flat)
    BY <1>2, <1>3
  <2>2. flat[at[i] + k] = pages[i][k]
    BY <1>1 DEF Places
  <2>3. QED
    BY <2>1, <2>2
<1>5. JoinHas(flat, pages, N)
  BY <1>4 DEF JoinHas
<1>6. JoinOnly(flat, pages, N)
  <2>1. SUFFICES ASSUME NEW p \in 1 .. Len(flat)
                 PROVE  \E i \in 1 .. N : \E k \in 1 .. Len(pages[i]) : flat[p] = pages[i][k]
    BY DEF JoinOnly
  <2>2. PICK i \in 1 .. N : \E k \in 1 .. Len(pages[i]) : p = at[i] + k
    BY <1>1 DEF Places
  <2>3. PICK k \in 1 .. Len(pages[i]) : p = at[i] + k
    BY <2>2
  <2>4. QED
    BY <1>4, <2>3
<1>7. JoinInOrder(flat, pages, N)
  <2>1. SUFFICES ASSUME NEW i \in 1 .. N, NEW j \in 1 .. N, i < j,
                        NEW k \in 1 .. Len(pages[i]), NEW l \in 1 .. Len(pages[j])
                 PROVE  \E p, q \in 1 .. Len(flat) :
                           p < q /\ flat[p] = pages[i][k] /\ flat[q] = pages[j][l]
    BY DEF JoinInOrder
  <2>2. at[i] + Len(pages[i]) <= at[j]
    BY <1>1, <2>1 DEF Places
  <2> DEFINE x == Len(pages[i])  u == at[i]  v == at[j]
  <2>3. x \in Nat /\ u \in Nat /\ v \in Nat /\ u + x <= v /\ k \in 1 .. x /\ l \in Nat /\ l > 0
    BY <1>3, <2>2
  <2> HIDE DEF x, u, v
  <2>4. u + k < v + l
    BY <2>3
  <2>5. at[i] + k < at[j] + l
    BY <2>4 DEF u, v
  <2>6. QED
    BY <1>4, <2>5
<1>8. JoinSorted(flat, pages, N)
  <2>1. SUFFICES ASSUME NEW p \in 1 .. Len(flat), NEW q \in 1 .. Len(flat), p < q
                 PROVE  \E i, j \in 1 .. N :
                           /\ i <= j
                           /\ \E k \in 1 .. Len(pages[i]) : flat[p] = pages[i][k]
                           /\ \E l \in 1 .. Len(pages[j]) : flat[q] = pages[j][l]
    BY DEF JoinSorted
  <2>2. PICK i \in 1 .. N : \E k \in 1 .. Len(pages[i]) : p = at[i] + k
    BY <1>1 DEF Places
  <2>3. PICK k \in 1 .. Len(pages[i]) : p = at[i] + k
    BY <2>2
  <2>4. PICK j \in 1 .. N : \E l \in 1 .. Len(pages[j]) : q = at[j] + l
    BY <1>1 DEF Places
  <2>5. PICK l \in 1 .. Len(pages[j]) : q = at[j] + l
    BY <2>4
  <2>6. i <= j
    <3>1. SUFFICES ASSUME j < i PROVE FALSE
      OBVIOUS
    <3>2. at[j] + Len(pages[j]) <= at[i]
      BY <1>1, <3>1 DEF Places
    <3> DEFINE x == Len(pages[j])  u == at[i]  v == at[j]
    <3>3. /\ x \in Nat /\ u \in Nat /\ v \in Nat /\ v + x <= u /\ l \in 1 .. x /\ k \in Nat /\ k > 0
          /\ u + k < v + l
      BY <1>3, <2>1, <2>3, <2>5, <3>2
    <3> HIDE DEF x, u, v
    <3>4. QED
      BY <3>3
  <2>7. QED
    BY <1>4, <2>3, <2>5, <2>6
<1>9. QED
  BY <1>1, <1>5, <1>6, <1>7, <1>8 DEF flat

\* A state key has one producer: no two modules name it, at build time or for their
\* lifespans.
LEMMA KeysHaveOneProducer ==
    ASSUME NEW ms, Composable(ms), Valid(ms), NEW key,
           NEW i \in Index(ms), key \in ToSet(ms[i].entries) \cup ms[i].populates,
           NEW j \in Index(ms), key \in ToSet(ms[j].entries) \cup ms[j].populates
    PROVE  i = j
<1> DEFINE N == Len(ms)
           S == UNION {ToSet(ms[m].entries) \cup ToSet(ms[m].provides) : m \in Index(ms)}
           es == [m \in 1 .. N |-> ms[m].entries]
           ps == [m \in 1 .. N |-> ms[m].provides]
           E == FlattenSeq(es)
           P == FlattenSeq(ps)
<1>1. N \in Nat
  BY DEF Composable
<1>2. ASSUME NEW m \in 1 .. N
      PROVE  /\ ms[m].entries \in Seq(S) /\ ms[m].provides \in Seq(S)
             /\ ms[m].populates \subseteq ToSet(ms[m].provides)
  <2>1. m \in Index(ms)
    BY DEF Index
  <2>2. /\ ms[m].entries \in Seq(ToSet(ms[m].entries))
        /\ ms[m].provides \in Seq(ToSet(ms[m].provides))
        /\ ms[m].populates \subseteq ToSet(ms[m].provides)
    BY <2>1 DEF Composable
  <2>3. ToSet(ms[m].entries) \subseteq S /\ ToSet(ms[m].provides) \subseteq S
    BY <2>1
  <2> HIDE DEF S
  <2>4. QED
    BY <2>2, <2>3
<1> HIDE DEF S
<1>3. es \in [1 .. N -> Seq(S)] /\ ps \in [1 .. N -> Seq(S)]
  BY <1>2
<1>4. Claims(ms) = E \o P
  BY DEF Claims, Index
<1>5. i \in 1 .. N /\ j \in 1 .. N /\ \A m \in 1 .. N : es[m] = ms[m].entries /\ ps[m] = ms[m].provides
  BY DEF Index
<1> HIDE DEF N, es, ps
<1>6. /\ E \in Seq(S) /\ JoinHas(E, es, N) /\ JoinInOrder(E, es, N)
      /\ P \in Seq(S) /\ JoinHas(P, ps, N) /\ JoinInOrder(P, ps, N)
  BY <1>1, <1>3, FlattenJoinsAll
<1>7. ASSUME NEW m \in 1 .. N, key \in ToSet(ms[m].entries) \cup ms[m].populates
      PROVE  \/ \E k \in 1 .. Len(es[m]) : es[m][k] = key
             \/ \E k \in 1 .. Len(ps[m]) : ps[m][k] = key
  <2>1. /\ es[m] \in Seq(S) /\ ps[m] \in Seq(S)
        /\ key \in ToSet(es[m]) \/ key \in ToSet(ps[m])
    BY <1>2, <1>3, <1>5, <1>7
  <2>2. DOMAIN es[m] = 1 .. Len(es[m]) /\ DOMAIN ps[m] = 1 .. Len(ps[m])
    BY <2>1
  <2>3. QED
    BY <2>1, <2>2 DEF ToSet
<1> DEFINE a == Len(E)
           b == Len(P)
<1>8. /\ a \in Nat /\ b \in Nat
      /\ \A p, q \in 1 .. a : E[p] = key /\ E[q] = key => p = q
      /\ \A p, q \in 1 .. b : P[p] = key /\ P[q] = key => p = q
      /\ \A p \in 1 .. a : \A q \in 1 .. b : ~ (E[p] = key /\ P[q] = key)
  <2> DEFINE C == E \o P
  <2>1. /\ C \in Seq(S) /\ Len(C) = a + b
        /\ \A p \in 1 .. a + b : C[p] = IF p <= a THEN E[p] ELSE P[p - a]
    BY <1>6, ConcatProperties
  <2>2. \A p, q \in DOMAIN C : C[p] = C[q] => p = q
    BY <1>4 DEF Valid, IsInjective
  <2>3. a \in Nat /\ b \in Nat
    BY <1>6
  <2>4. DOMAIN C = 1 .. a + b
    BY <2>1
  <2> HIDE DEF C, E, P, a, b
  <2>5. ASSUME NEW p \in 1 .. a PROVE p \in 1 .. a + b /\ C[p] = E[p]
    <3>1. p \in 1 .. a + b /\ p <= a
      BY <2>3
    <3>2. QED
      BY <2>1, <3>1
  <2>6. ASSUME NEW q \in 1 .. b PROVE a + q \in 1 .. a + b /\ C[a + q] = P[q]
    <3>1. PICK p \in 1 .. a + b : p = a + q /\ ~ (p <= a) /\ p - a = q
      BY <2>3
    <3>2. C[p] = P[p - a]
      BY <2>1, <3>1
    <3>3. QED
      BY <3>1, <3>2
  <2>7. ASSUME NEW p \in 1 .. a, NEW q \in 1 .. a, E[p] = key, E[q] = key PROVE p = q
    BY <2>2, <2>4, <2>5, <2>7
  <2>8. ASSUME NEW p \in 1 .. b, NEW q \in 1 .. b, P[p] = key, P[q] = key PROVE p = q
    <3>1. a + p = a + q
      BY <2>2, <2>4, <2>6, <2>8
    <3>2. QED
      BY <2>3, <3>1
  <2>9. ASSUME NEW p \in 1 .. a, NEW q \in 1 .. b, E[p] = key, P[q] = key PROVE FALSE
    <3>1. p = a + q
      BY <2>2, <2>4, <2>5, <2>6, <2>9
    <3>2. QED
      BY <2>3, <3>1
  <2>10. QED
    BY <2>3, <2>7, <2>8, <2>9
<1>9. ASSUME NEW m \in 1 .. N, NEW l \in 1 .. N, m < l,
             key \in ToSet(ms[m].entries) \cup ms[m].populates,
             key \in ToSet(ms[l].entries) \cup ms[l].populates
      PROVE  FALSE
  <2>1. CASE /\ \E k \in 1 .. Len(es[m]) : es[m][k] = key
             /\ \E k \in 1 .. Len(es[l]) : es[l][k] = key
    <3>1. PICK k \in 1 .. Len(es[m]), h \in 1 .. Len(es[l]) : es[m][k] = key /\ es[l][h] = key
      BY <2>1
    <3>2. \E p, q \in 1 .. a : p < q /\ E[p] = es[m][k] /\ E[q] = es[l][h]
      <4>1. JoinInOrder(E, es, N)
        BY <1>6
      <4> QED
        BY <1>9, <4>1 DEF JoinInOrder
    <3> HIDE DEF a, E
    <3>3. PICK p, q \in 1 .. a : p < q /\ E[p] = key /\ E[q] = key
      BY <3>1, <3>2
    <3>4. QED
      BY <1>8, <3>3
  <2>2. CASE /\ \E k \in 1 .. Len(ps[m]) : ps[m][k] = key
             /\ \E k \in 1 .. Len(ps[l]) : ps[l][k] = key
    <3>1. PICK k \in 1 .. Len(ps[m]), h \in 1 .. Len(ps[l]) : ps[m][k] = key /\ ps[l][h] = key
      BY <2>2
    <3>2. \E p, q \in 1 .. b : p < q /\ P[p] = ps[m][k] /\ P[q] = ps[l][h]
      BY <1>6, <1>9 DEF JoinInOrder
    <3> HIDE DEF b, P
    <3>3. PICK p, q \in 1 .. b : p < q /\ P[p] = key /\ P[q] = key
      BY <3>1, <3>2
    <3>4. QED
      BY <1>8, <3>3
  <2>3. ASSUME NEW g \in 1 .. N, NEW h \in 1 .. N,
               \E k \in 1 .. Len(es[g]) : es[g][k] = key,
               \E k \in 1 .. Len(ps[h]) : ps[h][k] = key
        PROVE  FALSE
    <3>1. PICK k \in 1 .. Len(es[g]), f \in 1 .. Len(ps[h]) : es[g][k] = key /\ ps[h][f] = key
      BY <2>3
    <3>2. \E p \in 1 .. a : E[p] = es[g][k]
      BY <1>6 DEF JoinHas
    <3>3. \E q \in 1 .. b : P[q] = ps[h][f]
      BY <1>6 DEF JoinHas
    <3> HIDE DEF a, b, E, P
    <3>4. QED
      BY <1>8, <3>1, <3>2, <3>3
  <2>4. QED
    BY <1>7, <1>9, <2>1, <2>2, <2>3
<1>10. ~ (i < j) /\ ~ (j < i)
  BY <1>5, <1>9
<1>11. QED
  BY <1>1, <1>5, <1>10

\* The routes of a composition in the order they are mounted: each module's, and the
\* modules in the order of the list.
LEMMA ContributedAre ==
    ASSUME NEW ms, Composable(ms)
    PROVE  /\ Len(Contributed(ms)) \in Nat
           /\ \A q \in Index(Contributed(ms)) :
                 \E i \in Index(ms) : \E k \in Index(ms[i].routes) :
                    Contributed(ms)[q] = <<i, ms[i].routes[k]>>
           /\ \A i \in Index(ms) : \A k \in Index(ms[i].routes) :
                 \E q \in Index(Contributed(ms)) : Contributed(ms)[q] = <<i, ms[i].routes[k]>>
           /\ \A p, q \in Index(Contributed(ms)) :
                 p < q => Contributed(ms)[p][1] <= Contributed(ms)[q][1]
<1> DEFINE N == Len(ms)
           of(i) == [k \in Index(ms[i].routes) |-> <<i, ms[i].routes[k]>>]
           pages == [i \in 1 .. N |-> of(i)]
           S == UNION {{<<i, ms[i].routes[k]>> : k \in Index(ms[i].routes)} : i \in 1 .. N}
           cs == FlattenSeq(pages)
<1>1. N \in Nat
  BY DEF Composable
<1>2. Contributed(ms) = cs
  BY DEF Contributed, Index
<1>3. ASSUME NEW i \in 1 .. N
      PROVE  /\ of(i) \in Seq(S) /\ Len(of(i)) = Len(ms[i].routes)
             /\ \A k \in 1 .. Len(ms[i].routes) : of(i)[k] = <<i, ms[i].routes[k]>>
  <2> DEFINE n == Len(ms[i].routes)
             f == of(i)
  <2>1. n \in Nat
    BY DEF Composable, Index
  <2>2. f = [k \in 1 .. n |-> <<i, ms[i].routes[k]>>]
    BY DEF Index
  <2>3. \A k \in 1 .. n : <<i, ms[i].routes[k]>> \in S
    BY DEF Index
  <2> HIDE DEF S, n, f
  <2>4. f \in [1 .. n -> S]
    BY <2>2, <2>3
  <2>5. f \in Seq(S) /\ Len(f) = n /\ \A k \in 1 .. n : f[k] = <<i, ms[i].routes[k]>>
    BY <2>1, <2>2, <2>4
  <2>6. QED
    BY <2>5 DEF f, n
<1> HIDE DEF of, S
<1>4. pages \in [1 .. N -> Seq(S)] /\ \A i \in 1 .. N : pages[i] = of(i)
  BY <1>3
<1> HIDE DEF pages
<1>5. /\ cs \in Seq(S) /\ JoinHas(cs, pages, N) /\ JoinOnly(cs, pages, N)
      /\ JoinSorted(cs, pages, N)
  BY <1>1, <1>4, FlattenJoinsAll
<1> HIDE DEF cs, N
<1>6. ASSUME NEW q \in 1 .. Len(cs)
      PROVE  \E i \in 1 .. N : \E k \in 1 .. Len(ms[i].routes) : cs[q] = <<i, ms[i].routes[k]>>
  <2>1. PICK i \in 1 .. N : \E k \in 1 .. Len(pages[i]) : cs[q] = pages[i][k]
    BY <1>5 DEF JoinOnly
  <2>2. PICK k \in 1 .. Len(pages[i]) : cs[q] = pages[i][k]
    BY <2>1
  <2>3. k \in 1 .. Len(ms[i].routes) /\ pages[i][k] = <<i, ms[i].routes[k]>>
    BY <1>3, <1>4
  <2>4. QED
    BY <2>2, <2>3
<1>7. ASSUME NEW i \in 1 .. N, NEW k \in 1 .. Len(ms[i].routes)
      PROVE  \E q \in 1 .. Len(cs) : cs[q] = <<i, ms[i].routes[k]>>
  <2>1. k \in 1 .. Len(pages[i]) /\ pages[i][k] = <<i, ms[i].routes[k]>>
    BY <1>3, <1>4
  <2>2. \E q \in 1 .. Len(cs) : cs[q] = pages[i][k]
    BY <1>5, <2>1 DEF JoinHas
  <2>3. QED
    BY <2>1, <2>2
<1>8. ASSUME NEW p \in 1 .. Len(cs), NEW q \in 1 .. Len(cs), p < q PROVE cs[p][1] <= cs[q][1]
  <2>1. PICK i \in 1 .. N, j \in 1 .. N :
           /\ i <= j
           /\ \E k \in 1 .. Len(pages[i]) : cs[p] = pages[i][k]
           /\ \E l \in 1 .. Len(pages[j]) : cs[q] = pages[j][l]
    BY <1>5, <1>8 DEF JoinSorted
  <2>2. \A m \in 1 .. N : \A k \in 1 .. Len(pages[m]) : pages[m][k][1] = m
    BY <1>3, <1>4
  <2>3. cs[p][1] = i /\ cs[q][1] = j
    BY <2>1, <2>2
  <2>4. QED
    BY <2>1, <2>3
<1>9. Len(cs) \in Nat
  BY <1>5
<1>10. QED
  BY <1>2, <1>6, <1>7, <1>8, <1>9 DEF Index, N

\* The module that answers a key is that of the first route with the key, which
\* is not behind any other.
LEMMA FirstAnswers ==
    ASSUME NEW ms, Composable(ms), NEW key,
           NEW q \in Index(Contributed(ms)), key \in Contributed(ms)[q][2].keys
    PROVE  \E f \in Index(Contributed(ms)) :
              /\ f <= q /\ key \in Contributed(ms)[f][2].keys
              /\ \A k \in 1 .. f - 1 : key \notin Contributed(ms)[k][2].keys
              /\ Answers(ms, key) = Contributed(ms)[f][1]
<1> DEFINE cs == Contributed(ms)
           First(f) == /\ key \in cs[f][2].keys
                       /\ \A k \in 1 .. f - 1 : key \notin cs[k][2].keys
           H == {p \in Index(cs) : key \in cs[p][2].keys}
           w == CHOOSE f \in Index(cs) : First(f)
<1>1. Len(cs) \in Nat
  BY ContributedAre
<1>2. Answers(ms, key) = cs[w][1]
  BY DEF Answers
<1>3. q \in Index(cs) /\ key \in cs[q][2].keys
  OBVIOUS
<1> HIDE DEF cs
<1>4. \E f \in Index(cs) : First(f)
  <2>1. PICK f \in H : \A p \in H : f <= p
    <3>1. H \subseteq Nat /\ H # {}
      BY <1>1, <1>3 DEF Index
    <3> HIDE DEF H
    <3>2. QED
      BY <3>1, LeastMember
  <2>2. ASSUME NEW k \in 1 .. f - 1 PROVE key \notin cs[k][2].keys
    <3>1. k \in Index(cs) /\ ~ (f <= k)
      BY <1>1 DEF Index
    <3>2. QED
      BY <2>1, <3>1
  <2>3. QED
    BY <2>1, <2>2
<1> HIDE DEF First
<1>5. w \in Index(cs) /\ First(w)
  BY <1>4
<1> HIDE DEF w
<1>6. w <= q
  <2>1. SUFFICES ASSUME ~ (w <= q) PROVE FALSE
    OBVIOUS
  <2>2. q \in 1 .. w - 1
    BY <1>1, <1>3, <1>5, <2>1 DEF Index
  <2>3. QED
    BY <1>3, <1>5, <2>2 DEF First
<1>7. QED
  BY <1>2, <1>5, <1>6 DEF First, cs

\* No module answers a request for another's route without saying so.
LEMMA ShadowsAreDeclared ==
    ASSUME NEW ms, Composable(ms), ~Collides(Contributed(ms)),
           NEW i \in Index(ms), NEW k \in Index(ms[i].routes),
           NEW key \in ms[i].routes[k].keys, Answers(ms, key) # i
    PROVE  \E l \in Index(ms[Answers(ms, key)].routes) :
              key \in ms[Answers(ms, key)].routes[l].overrides
<1> DEFINE cs == Contributed(ms)
<1>1. Len(cs) \in Nat
  BY ContributedAre
<1>2. PICK q \in Index(cs) : cs[q] = <<i, ms[i].routes[k]>>
  BY ContributedAre
<1>3. key \in cs[q][2].keys
  BY <1>2
<1>4. PICK f \in Index(cs) :
         /\ f <= q /\ key \in cs[f][2].keys
         /\ \A p \in 1 .. f - 1 : key \notin cs[p][2].keys
         /\ Answers(ms, key) = cs[f][1]
  BY <1>3, FirstAnswers
<1>5. PICK j \in Index(ms) : \E l \in Index(ms[j].routes) : cs[f] = <<j, ms[j].routes[l]>>
  BY ContributedAre
<1>6. PICK l \in Index(ms[j].routes) : cs[f] = <<j, ms[j].routes[l]>>
  BY <1>5
<1>7. f \in 1 .. q - 1
  <2>1. f # q
    BY <1>2, <1>4
  <2> HIDE DEF cs
  <2>2. QED
    BY <1>1, <1>4, <2>1 DEF Index
<1> DEFINE before == {p \in 1 .. q - 1 : key \in cs[p][2].keys}
           least == CHOOSE p \in before : \A m \in before : p <= m
<1>8. before # {} => key \in cs[least][2].overrides
  BY <1>3 DEF Collides
<1> HIDE DEF cs
<1>9. f \in before /\ \A m \in before : f <= m
  <2>1. f \in before
    BY <1>4, <1>7
  <2>2. ASSUME NEW m \in before, ~ (f <= m) PROVE FALSE
    <3>1. m \in 1 .. f - 1
      BY <1>7, <2>2
    <3>2. QED
      BY <1>4, <3>1
  <2>3. QED
    BY <2>1, <2>2
<1>10. least = f
  <2>1. \A p \in before : p \in Nat
    BY <1>1 DEF Index
  <2> HIDE DEF before
  <2>2. \A p \in before : (\A m \in before : p <= m) => p = f
    BY <1>9, <2>1
  <2>3. QED
    BY <1>9, <2>2
<1>11. key \in cs[f][2].overrides
  BY <1>8, <1>9, <1>10
<1>12. QED
  BY <1>4, <1>6, <1>11

\* The route table is the keys of the modules' routes.
LEMMA RouteTableIs ==
    ASSUME NEW ms, Composable(ms)
    PROVE  \A key : key \in RouteTable(ms) <=>
              \E i \in Index(ms) : \E k \in Index(ms[i].routes) : key \in ms[i].routes[k].keys
<1> DEFINE cs == Contributed(ms)
<1>1. /\ \A q \in Index(cs) : \E i \in Index(ms) : \E k \in Index(ms[i].routes) :
            cs[q] = <<i, ms[i].routes[k]>>
      /\ \A i \in Index(ms) : \A k \in Index(ms[i].routes) :
            \E q \in Index(cs) : cs[q] = <<i, ms[i].routes[k]>>
  BY ContributedAre
<1>2. \A key : key \in RouteTable(ms) <=> \E q \in Index(cs) : key \in cs[q][2].keys
  BY DEF RouteTable
<1> HIDE DEF cs
<1>3. TAKE key
<1>4. ASSUME NEW q \in Index(cs), key \in cs[q][2].keys
      PROVE  \E i \in Index(ms) : \E k \in Index(ms[i].routes) : key \in ms[i].routes[k].keys
  <2>1. PICK i \in Index(ms) : \E k \in Index(ms[i].routes) : cs[q] = <<i, ms[i].routes[k]>>
    BY <1>1
  <2>2. PICK k \in Index(ms[i].routes) : cs[q] = <<i, ms[i].routes[k]>>
    BY <2>1
  <2>3. cs[q][2] = ms[i].routes[k]
    BY <2>2
  <2>4. QED
    BY <1>4, <2>3
<1>5. ASSUME NEW i \in Index(ms), NEW k \in Index(ms[i].routes), key \in ms[i].routes[k].keys
      PROVE  \E q \in Index(cs) : key \in cs[q][2].keys
  <2>1. PICK q \in Index(cs) : cs[q] = <<i, ms[i].routes[k]>>
    BY <1>1
  <2>2. cs[q][2] = ms[i].routes[k]
    BY <2>1
  <2>3. QED
    BY <1>5, <2>2
<1>6. QED
  BY <1>2, <1>4, <1>5

\* Stacked, too, holds each spec once, sorted.
LEMMA StackedIsSorted ==
    ASSUME NEW ms, Composable(ms)
    PROVE  /\ Stacked(ms) \in Seq(Specs(ms))
           /\ \A i, j \in Index(Stacked(ms)) : i < j => Outer(Stacked(ms)[i], Stacked(ms)[j])
           /\ \A e \in Specs(ms) : \E i \in Index(Stacked(ms)) : Stacked(ms)[i] = e
<1>1. Ordered(ms) \in Seq(Specs(ms))
  BY OrderedIsSorted
<1>2. Stacked(ms) = Ordered(ms)
  BY <1>1, StackedIsOrdered
<1>3. QED
  BY <1>2, OrderedIsSorted

\* A layer is outside every higher one.
LEMMA LayersNest ==
    ASSUME NEW ms, Composable(ms), NEW k \in Index(Stacked(ms)), NEW l \in Index(Stacked(ms)), k < l
    PROVE  Stacked(ms)[k][1] <= Stacked(ms)[l][1]
<1> DEFINE a == Stacked(ms)[k]
           b == Stacked(ms)[l]
<1>1. Outer(a, b)
  BY StackedIsSorted
<1>2. a \in Specs(ms) /\ b \in Specs(ms)
  BY StackedIsSorted DEF Index
<1> HIDE DEF a, b
<1>3. a[1] \in Int /\ b[1] \in Int
  BY <1>2, SpecsAre
<1>4. a[1] < b[1] \/ a[1] = b[1]
  BY <1>1 DEF Outer
<1>5. a[1] <= b[1]
  BY <1>3, <1>4
<1>6. QED
  BY <1>5 DEF a, b

\* A prefix is at most as long, and agrees place by place.
LEMMA PrefixAgrees ==
    ASSUME NEW s, NEW t, Composable(s), Composable(t), IsPrefix(s, t)
    PROVE  \A i \in Index(s) : i \in Index(t) /\ s[i] = t[i]
<1> DEFINE n == Len(s)
           m == Len(t)
           S == ToSet(s)
           T == ToSet(t)
<1>1. s \in Seq(S) /\ t \in Seq(T) /\ n \in Nat /\ m \in Nat
  BY DEF Composable
<1>2. n <= m /\ SubSeq(s, 1, n) = SubSeq(t, 1, n)
  BY DEF IsPrefix
<1>3. SubSeq(s, 1, n) = s
  BY <1>1, SubSeqFull
<1> HIDE DEF S, T
<1>4. \A i \in 1 .. m : t[i] \in T
  BY <1>1
<1> HIDE DEF n, m
<1>5. \A i \in 1 .. n : i \in 1 .. m /\ t[i] \in T
  BY <1>1, <1>2, <1>4
<1>6. 1 \in Int /\ n \in Int /\ n - 1 + 1 = n /\ \A i \in 1 .. n : 1 + i - 1 = i
  BY <1>1
<1>7. \A i \in 1 .. n - 1 + 1 : SubSeq(t, 1, n)[i] = t[1 + i - 1]
  BY <1>5, <1>6, SubSeqProperties
<1>8. \A i \in 1 .. n : s[i] = t[i]
  BY <1>2, <1>3, <1>6, <1>7
<1>9. QED
  BY <1>5, <1>8 DEF Index, n, m

\* What is spliced behind a list takes no route from it: the table keeps its keys, and
\* one of its own modules answers each of them.
LEMMA RoutesStay ==
    ASSUME NEW s, NEW t, Composable(s), Composable(t), IsPrefix(s, t), NEW key \in RouteTable(s)
    PROVE  key \in RouteTable(t) /\ Answers(t, key) \in Index(s)
<1>1. PICK i \in Index(s) : \E k \in Index(s[i].routes) : key \in s[i].routes[k].keys
  BY RouteTableIs
<1>2. PICK k \in Index(s[i].routes) : key \in s[i].routes[k].keys
  BY <1>1
<1>3. i \in Index(t) /\ s[i] = t[i]
  BY PrefixAgrees
<1>4. k \in Index(t[i].routes) /\ key \in t[i].routes[k].keys
  BY <1>2, <1>3
<1>5. key \in RouteTable(t)
  BY <1>3, <1>4, RouteTableIs
<1>6. PICK q \in Index(Contributed(t)) : Contributed(t)[q] = <<i, t[i].routes[k]>>
  BY <1>3, <1>4, ContributedAre
<1>7. Contributed(t)[q][1] = i /\ key \in Contributed(t)[q][2].keys
  BY <1>4, <1>6
<1>8. PICK f \in Index(Contributed(t)) : f <= q /\ Answers(t, key) = Contributed(t)[f][1]
  BY <1>7, FirstAnswers
<1>9. PICK j \in Index(t) : \E l \in Index(t[j].routes) : Contributed(t)[f] = <<j, t[j].routes[l]>>
  BY ContributedAre
<1>10. Contributed(t)[f][1] = j
  BY <1>9
<1>11. f = q \/ f < q
  BY <1>8, ContributedAre DEF Index
<1>12. j <= i
  <2>1. j \in Int /\ i \in Int
    BY <1>3, <1>9 DEF Index
  <2>2. f < q => Contributed(t)[f][1] <= Contributed(t)[q][1]
    BY ContributedAre
  <2>3. QED
    BY <1>7, <1>10, <1>11, <2>1, <2>2
<1>13. j \in Index(s)
  <2>1. Len(s) \in Nat /\ Len(t) \in Nat
    BY DEF Composable
  <2> DEFINE n == Len(s)
             m == Len(t)
  <2> HIDE DEF n, m
  <2>2. n \in Nat /\ m \in Nat /\ i \in 1 .. n /\ j \in 1 .. m
    BY <1>9, <2>1 DEF Index, n, m
  <2>3. j \in 1 .. n
    BY <1>12, <2>2
  <2>4. QED
    BY <2>3 DEF Index, n
<1>14. QED
  BY <1>5, <1>8, <1>10, <1>13

\* All of a sequence is kept if T has all of it, and nothing if T has none of it.
LEMMA KeptAll ==
    ASSUME NEW S, NEW s \in Seq(S), NEW T, \A i \in 1 .. Len(s) : s[i] \in T
    PROVE  Kept(s, T) = s
<1> DEFINE n == Len(s)
           e == [j \in 1 .. n |-> j]
<1>1. n \in Nat /\ \A i \in 1 .. n : s[i] \in T
  OBVIOUS
<1>2. e \in [1 .. n -> 1 .. n] /\ \A j \in 1 .. n : e[j] = j
  OBVIOUS
<1> HIDE DEF e
<1>3. \A j, l \in 1 .. n : j < l => e[j] < e[l]
  BY <1>2
<1>4. \A j \in 1 .. n : s[e[j]] = s[j]
  BY <1>2
<1>5. \A i \in 1 .. n : s[i] \in T <=> \E j \in 1 .. n : e[j] = i
  BY <1>1, <1>2
<1>6. Leads(e, s, s, T)
  BY <1>2, <1>3, <1>4, <1>5 DEF Leads
<1>7. QED
  BY <1>6, KeptIsOrder

LEMMA KeptNone ==
    ASSUME NEW S, NEW s \in Seq(S), NEW T, \A i \in 1 .. Len(s) : s[i] \notin T
    PROVE  Kept(s, T) = <<>>
<1> DEFINE o == <<>>
           e == [j \in 1 .. 0 |-> 1]
<1>1. o \in Seq(S) /\ Len(o) = 0 /\ 1 .. 0 = {}
  OBVIOUS
<1>2. e \in [1 .. Len(o) -> 1 .. Len(s)]
  BY <1>1
<1> HIDE DEF e, o
<1>3. Leads(e, s, o, T)
  BY <1>1, <1>2 DEF Leads
<1>4. o \in Seq(S)
  BY <1>1
<1>5. Kept(s, T) = o
  BY <1>3, <1>4, KeptIsOrder
<1>6. QED
  BY <1>5 DEF o

\* As many are kept as there are places with a member of T.
LEMMA KeptCounts ==
    ASSUME NEW S, NEW s \in Seq(S), NEW T
    PROVE  LET K == {i \in 1 .. Len(s) : s[i] \in T}
           IN IsFiniteSet(K) /\ Len(Kept(s, T)) = Cardinality(K)
<1> DEFINE n == Len(s)
           K == {i \in 1 .. n : s[i] \in T}
           R == {p \in K \X K : p[1] < p[2]}
           c == Cardinality(K)
           e == Ranked(K, R)
           o == [j \in 1 .. c |-> s[e[j]]]
<1>1. n \in Nat /\ \A i \in 1 .. n : s[i] \in S
  OBVIOUS
<1>2. K \subseteq 1 .. n /\ \A i \in 1 .. n : i \in K <=> s[i] \in T
  OBVIOUS
<1>3. \A i, k \in K : <<i, k>> \in R <=> i < k
  OBVIOUS
<1> HIDE DEF n, K, R
<1>4. IsFiniteSet(K)
  <2>1. IsFiniteSet(1 .. n)
    BY <1>1, FS_Interval
  <2>2. QED
    BY <1>2, <2>1, FS_Subset
<1>5. \A i, k, l \in K : /\ <<i, i>> \notin R
                         /\ <<i, k>> \in R /\ <<k, l>> \in R => <<i, l>> \in R
                         /\ i # k => <<i, k>> \in R \/ <<k, i>> \in R
  <2>1. SUFFICES ASSUME NEW i \in K, NEW k \in K, NEW l \in K
                 PROVE  /\ ~(i < i)
                        /\ i < k /\ k < l => i < l
                        /\ i # k => i < k \/ k < i
    BY <1>3
  <2>2. i \in Int /\ k \in Int /\ l \in Int
    BY <1>2
  <2>3. QED
    BY <2>2
<1>6. /\ c \in Nat /\ e \in [1 .. c -> K]
      /\ \A i, j \in 1 .. c : i < j => <<e[i], e[j]>> \in R
      /\ \A t \in K : \E i \in 1 .. c : e[i] = t
  BY <1>4, <1>5, RanksSort
<1> HIDE DEF c, e
<1>7. o \in Seq(S) /\ Len(o) = c /\ \A j \in 1 .. c : o[j] = s[e[j]]
  <2>1. \A j \in 1 .. c : s[e[j]] \in S
    BY <1>1, <1>2, <1>6
  <2>2. o \in [1 .. c -> S]
    BY <2>1
  <2>3. \A j \in 1 .. c : o[j] = s[e[j]]
    OBVIOUS
  <2> HIDE DEF o
  <2>4. QED
    BY <1>6, <2>2, <2>3
<1> HIDE DEF o
<1>8. Leads(e, s, o, T)
  <2>1. e \in [1 .. Len(o) -> 1 .. Len(s)]
    BY <1>2, <1>6, <1>7 DEF n
  <2>2. \A j, l \in 1 .. Len(o) : j < l => e[j] < e[l]
    BY <1>3, <1>6, <1>7
  <2>3. \A j \in 1 .. Len(o) : s[e[j]] = o[j]
    BY <1>7
  <2>4. \A i \in 1 .. Len(s) : s[i] \in T <=> \E j \in 1 .. Len(o) : e[j] = i
    BY <1>2, <1>6, <1>7 DEF n
  <2>5. QED
    BY <2>1, <2>2, <2>3, <2>4 DEF Leads
<1>9. Kept(s, T) = o
  BY <1>7, <1>8, KeptIsOrder
<1>10. QED
  BY <1>4, <1>7, <1>9 DEF K, n, c

\* What is spliced behind a list takes no middleware from it, and leaves its order
\* alone unless it brings a class the list has: then more is kept than there was.
LEMMA OrderStays ==
    ASSUME NEW s, NEW t, Composable(s), Composable(t), IsPrefix(s, t)
    PROVE  LET old == Middleware(s)
               new == Middleware(t)
           IN /\ Kept(new, ToSet(old)) = old <=> ~Repeats(s, t)
              /\ Kept(old, ToSet(new)) = old
              /\ Kept(old, ToSet(old) \ ToSet(new)) = <<>>
<1> DEFINE a == Stacked(s)
           b == Stacked(t)
           n == Len(a)
           m == Len(b)
           old == Middleware(s)
           new == Middleware(t)
           e == [j \in 1 .. n |-> CHOOSE i \in 1 .. m : b[i] = a[j]]
           S == ToSet(old) \cup ToSet(new)
<1>1. /\ a \in Seq(Specs(s)) /\ n \in Nat /\ b \in Seq(Specs(t)) /\ m \in Nat
      /\ \A j, l \in 1 .. n : j < l => Outer(a[j], a[l])
      /\ \A i, k \in 1 .. m : i < k => Outer(b[i], b[k])
      /\ \A x \in Specs(t) : \E i \in 1 .. m : b[i] = x
  BY StackedIsSorted DEF Index
<1>2. /\ old = [j \in 1 .. n |-> s[a[j][2]].middleware[a[j][3]].cls]
      /\ new = [i \in 1 .. m |-> t[b[i][2]].middleware[b[i][3]].cls]
  BY DEF Middleware, Index
<1> HIDE DEF a, b, n, m, old, new
<1>3. /\ \A j \in 1 .. n : a[j] \in Specs(s)
      /\ \A i \in 1 .. m : b[i] \in Specs(t)
  BY <1>1 DEF n, m
<1>4. ASSUME NEW x \in Specs(s)
      PROVE  x \in Specs(t) /\ x[2] \in Index(t) /\ s[x[2]] = t[x[2]]
  <2>1. x[2] \in Index(s) /\ x[3] \in Index(s[x[2]].middleware) /\ x = Spec(s, x[2], x[3])
    BY SpecsAre
  <2>2. x[2] \in Index(t) /\ s[x[2]] = t[x[2]]
    BY <2>1, PrefixAgrees
  <2>3. x = Spec(t, x[2], x[3]) /\ x[3] \in Index(t[x[2]].middleware)
    BY <2>1, <2>2 DEF Spec
  <2>4. QED
    BY <2>2, <2>3, SpecsAre
<1>5. e \in [1 .. n -> 1 .. m] /\ \A j \in 1 .. n : b[e[j]] = a[j]
  <2>1. \A j \in 1 .. n : \E i \in 1 .. m : b[i] = a[j]
    BY <1>1, <1>3, <1>4
  <2>2. QED
    BY <2>1
<1> HIDE DEF e
<1>6. ASSUME NEW i \in 1 .. m, NEW k \in 1 .. m, Outer(b[i], b[k]) \/ b[i] = b[k]
      PROVE  i <= k
  <2>1. SUFFICES ASSUME k < i PROVE FALSE
    BY <1>1
  <2>2. Outer(b[k], b[i])
    BY <1>1, <2>1
  <2>3. ~Outer(b[k], b[k]) /\ (Outer(b[k], b[i]) /\ Outer(b[i], b[k]) => Outer(b[k], b[k]))
    BY <1>3, OuterIsOrder
  <2>4. QED
    BY <1>6, <2>2, <2>3
<1>7. ASSUME NEW i \in 1 .. m, NEW k \in 1 .. m, b[i] = b[k] PROVE i = k
  <2>1. i <= k /\ k <= i
    BY <1>6, <1>7
  <2>2. QED
    BY <1>1, <2>1
<1>8. ASSUME NEW j \in 1 .. n, NEW l \in 1 .. n, j < l PROVE e[j] < e[l]
  <2>1. e[j] \in 1 .. m /\ e[l] \in 1 .. m /\ b[e[j]] = a[j] /\ b[e[l]] = a[l]
    BY <1>5
  <2>2. Outer(b[e[j]], b[e[l]])
    BY <1>1, <1>8, <2>1
  <2>3. e[j] <= e[l]
    BY <1>6, <2>1, <2>2
  <2>4. b[e[j]] # b[e[l]]
    BY <1>3, <2>1, <2>2, OuterIsOrder
  <2>5. e[j] # e[l]
    BY <2>4
  <2>6. QED
    BY <1>1, <2>1, <2>3, <2>5
<1>9. ASSUME NEW j \in 1 .. n PROVE new[e[j]] = old[j]
  <2>1. e[j] \in 1 .. m /\ b[e[j]] = a[j] /\ a[j] \in Specs(s)
    BY <1>3, <1>5
  <2>2. s[a[j][2]] = t[a[j][2]]
    BY <1>4, <2>1
  <2>3. QED
    BY <1>2, <2>1, <2>2
<1>10. /\ old \in Seq(S) /\ Len(old) = n /\ DOMAIN old = 1 .. n
       /\ new \in Seq(S) /\ Len(new) = m /\ DOMAIN new = 1 .. m
  <2>1. \A j \in 1 .. n : old[j] \in S
    BY <1>2 DEF ToSet
  <2>2. \A i \in 1 .. m : new[i] \in S
    BY <1>2 DEF ToSet
  <2> HIDE DEF S
  <2>3. old \in [1 .. n -> S] /\ new \in [1 .. m -> S]
    BY <1>2, <2>1, <2>2
  <2>4. QED
    BY <1>1, <2>3
<1> HIDE DEF S
<1>11. ASSUME ~Repeats(s, t) PROVE Kept(new, ToSet(old)) = old
  <2>1. ASSUME NEW i \in 1 .. m PROVE new[i] \in ToSet(old) <=> \E j \in 1 .. n : e[j] = i
    <3>1. \A j \in 1 .. n : e[j] = i => new[i] \in ToSet(old)
      BY <1>9, <1>10 DEF ToSet
    <3>2. ASSUME new[i] \in ToSet(old) PROVE \E j \in 1 .. n : e[j] = i
      <4> DEFINE x == b[i]
      <4>1. x \in Specs(t) /\ t[x[2]].middleware[x[3]].cls \in ToSet(old)
        BY <1>2, <1>3, <3>2
      <4> HIDE DEF x
      <4>2. x[2] \in Index(s)
        BY <1>11, <4>1 DEF Repeats, old
      <4>3. x[3] \in Index(t[x[2]].middleware) /\ x = Spec(t, x[2], x[3])
        BY <4>1, SpecsAre
      <4>4. s[x[2]] = t[x[2]]
        BY <4>2, PrefixAgrees
      <4>5. x \in Specs(s)
        <5>1. x = Spec(s, x[2], x[3]) /\ x[3] \in Index(s[x[2]].middleware)
          BY <4>3, <4>4 DEF Spec
        <5>2. QED
          BY <4>2, <5>1, SpecsAre
      <4>6. PICK j \in 1 .. n : a[j] = x
        BY <4>5, StackedIsSorted DEF Index, a, n
      <4>7. b[e[j]] = b[i] /\ e[j] \in 1 .. m
        BY <1>5, <4>6 DEF x
      <4>8. QED
        BY <1>7, <4>7
    <3>3. QED
      BY <3>1, <3>2
  <2>2. Leads(e, new, old, ToSet(old))
    BY <1>5, <1>8, <1>9, <1>10, <2>1 DEF Leads
  <2>3. QED
    BY <1>10, <2>2, KeptIsOrder
<1>12. ASSUME Repeats(s, t) PROVE Kept(new, ToSet(old)) # old
  <2> DEFINE K == {i \in 1 .. Len(new) : new[i] \in ToSet(old)}
  <2>1. PICK x \in Specs(t) : x[2] \notin Index(s) /\ t[x[2]].middleware[x[3]].cls \in ToSet(old)
    BY <1>12 DEF Repeats, old
  <2>2. PICK i \in 1 .. m : b[i] = x
    BY <1>1
  <2>3. i \in K
    BY <1>2, <1>10, <2>1, <2>2
  <2>4. ASSUME NEW j \in 1 .. n PROVE e[j] \in K /\ e[j] # i
    <3>1. e[j] \in K
      BY <1>5, <1>9, <1>10 DEF ToSet
    <3>2. a[j] \in Specs(s) /\ b[e[j]] = a[j]
      BY <1>3, <1>5
    <3>3. b[e[j]][2] \in Index(s)
      BY <3>2, SpecsAre
    <3>4. QED
      BY <2>1, <2>2, <3>1, <3>3
  <2>5. \A j, l \in 1 .. n : e[j] = e[l] => j = l
    <3>1. SUFFICES ASSUME NEW j \in 1 .. n, NEW l \in 1 .. n, e[j] = e[l], j # l PROVE FALSE
      OBVIOUS
    <3>2. e[j] \in Int /\ e[l] \in Int /\ (j < l \/ l < j)
      BY <1>1, <1>5, <3>1
    <3>3. e[j] < e[l] \/ e[l] < e[j]
      BY <1>8, <3>2
    <3>4. QED
      BY <3>1, <3>2, <3>3
  <2>6. IsFiniteSet(K) /\ Len(Kept(new, ToSet(old))) = Cardinality(K)
    BY <1>10, KeptCounts
  <2> HIDE DEF K
  <2>7. e \in Injection(1 .. n, K) /\ e \notin Surjection(1 .. n, K)
    <3>1. e \in [1 .. n -> K]
      BY <1>5, <2>4
    <3>2. e \in Injection(1 .. n, K)
      BY <2>5, <3>1 DEF Injection, IsInjective
    <3>3. e \notin Surjection(1 .. n, K)
      BY <2>3, <2>4 DEF Surjection
    <3>4. QED
      BY <3>2, <3>3
  <2>8. Cardinality(1 .. n) # Cardinality(K)
    BY <2>6, <2>7, FS_Injection
  <2>9. Cardinality(1 .. n) = n
    BY <1>1, FS_Interval
  <2>10. QED
    BY <1>10, <2>6, <2>8, <2>9
<1>13. \A j \in 1 .. Len(old) : old[j] \in ToSet(new)
  BY <1>5, <1>9, <1>10 DEF ToSet
<1>14. Kept(old, ToSet(new)) = old
  BY <1>10, <1>13, KeptAll
<1>15. Kept(old, ToSet(old) \ ToSet(new)) = <<>>
  <2>1. \A j \in 1 .. Len(old) : old[j] \notin ToSet(old) \ ToSet(new)
    BY <1>13
  <2>2. QED
    BY <1>10, <2>1, KeptNone
<1>16. QED
  BY <1>11, <1>12, <1>14, <1>15 DEF old, new

\* What the builder refused never starts, and an app serves once its slots are populated.
WiredInv == /\ phase = "collecting" => Valid(mods)
            /\ phase \in {"starting", "serving"} => Builds(mods)
            /\ phase = "serving" => Required(mods) \subseteq slots

\* Each step to a later phase makes the check that this phase rests on.
LEMMA NextWired == WiredInv /\ [AssemblyNext]_assemblyVars => WiredInv'
<1> SUFFICES ASSUME WiredInv, [AssemblyNext]_assemblyVars PROVE WiredInv'
  OBVIOUS
<1>1. CASE Validate
  <2>1. mods' = mods /\ phase' \in {"collecting", "refused"} /\ (phase' = "collecting" => Valid(mods))
    BY <1>1 DEF Validate
  <2>2. QED
    BY <2>1 DEF WiredInv
<1>2. CASE Build
  <2>1. mods' = mods /\ phase = "collecting" /\ phase' \in {"starting", "refused"}
    BY <1>2 DEF Build
  <2>2. phase' = "starting" => ~Collides(Contributed(mods)) /\ Produced(mods)
    BY <1>2 DEF Build
  <2>3. phase' = "starting" => Builds(mods)
    BY <2>1, <2>2 DEF WiredInv, Builds
  <2>4. QED
    BY <2>1, <2>3 DEF WiredInv
<1>3. CASE Enter
  <2>1. mods' = mods /\ phase = "starting" /\ phase' \in {"starting", "aborting"}
    BY <1>3 DEF Enter
  <2>2. QED
    BY <2>1 DEF WiredInv
<1>4. CASE VerifyStartupState
  <2>1. /\ mods' = mods /\ slots' = slots /\ phase = "starting"
        /\ phase' \in {"serving", "aborting"}
        /\ phase' = "serving" => Required(mods) \subseteq slots
    BY <1>4 DEF VerifyStartupState
  <2>2. QED
    BY <2>1 DEF WiredInv
<1>5. CASE Shutdown \/ Exited
  <2>1. phase' \in {"stopping", "down"}
    BY <1>5 DEF Shutdown, Exited
  <2>2. QED
    BY <2>1 DEF WiredInv
<1>6. CASE Draining
  <2>1. UNCHANGED <<mods, phase, slots>>
    BY <1>6 DEF Draining, Exit, DrainFlag, DrainSnapshot, DrainClear, DrainStopAll, DrainClose
  <2>2. QED
    BY <2>1 DEF WiredInv
<1>7. CASE \E c \in Clients : Connect(c) \/ Disconnect(c)
  <2>1. UNCHANGED <<mods, phase, slots>>
    BY <1>7 DEF Connect, Disconnect
  <2>2. QED
    BY <2>1 DEF WiredInv
<1>8. CASE UNCHANGED assemblyVars
  BY <1>8 DEF WiredInv, assemblyVars
<1>9. QED
  BY <1>1, <1>2, <1>3, <1>4, <1>5, <1>6, <1>7, <1>8 DEF AssemblyNext, Serving

\* One module populates a slot.
LEMMA SlotHasOneProducer ==
    ASSUME AssemblyInv, Valid(mods), NEW key \in slots
    PROVE  Cardinality({i \in Index(mods) :
                          key \in ToSet(mods[i].entries) \cup mods[i].populates}) = 1
<1> DEFINE By(i) == ToSet(mods[i].entries) \cup mods[i].populates
           P == {i \in Index(mods) : key \in By(i)}
<1>1. PICK i \in Index(mods) : key \in By(i)
  BY DEF AssemblyInv, AssemblyTypes
<1>2. Composable(mods)
  BY AssemblyAssumption DEF AssemblyInv, EnteredInOrder
<1>3. ASSUME NEW j \in Index(mods), key \in By(j) PROVE j = i
  BY <1>1, <1>2, <1>3, KeysHaveOneProducer
<1> HIDE DEF By
<1>4. P = {i}
  BY <1>1, <1>3
<1> HIDE DEF P
<1>5. Cardinality(P) = 1
  BY <1>4, FS_Singleton
<1>6. QED
  BY <1>5 DEF P, By

\* An app that serves is wired as its modules declare (server/assembly.py: build_app's
\* checks, _verify_startup_state, and manifest_delta of what is spliced behind a list).
THEOREM AssemblyServingIsWired == AssemblySpec => []ServingIsWired
<1>1. AssemblyInit => WiredInv
  BY DEF AssemblyInit, WiredInv
<1>2. AssemblyInv /\ WiredInv => ServingIsWired
  <2> SUFFICES ASSUME AssemblyInv, WiredInv, phase = "serving"
               PROVE  /\ Required(mods) \subseteq slots
                      /\ \A key \in slots : Cardinality({i \in Index(mods) :
                            key \in ToSet(mods[i].entries) \cup mods[i].populates}) = 1
                      /\ \A i \in Index(mods) : \A k \in Index(mods[i].routes) :
                           \A key \in mods[i].routes[k].keys :
                             Answers(mods, key) # i =>
                               \E l \in Index(mods[Answers(mods, key)].routes) :
                                 key \in mods[Answers(mods, key)].routes[l].overrides
                      /\ \A k, l \in Index(Stacked(mods)) :
                           k < l => Stacked(mods)[k][1] <= Stacked(mods)[l][1]
                      /\ IsPrefix(Stock, mods) =>
                           /\ LET d == ManifestDelta(Stock, mods)
                              IN /\ d.removed = {} /\ d.gone = <<>>
                                 /\ d.reordered <=> Repeats(Stock, mods)
                           /\ \A key \in RouteTable(Stock) : Answers(mods, key) \in Index(Stock)
    BY DEF ServingIsWired
  <2>1. Composable(mods) /\ Composable(Stock)
    BY AssemblyAssumption DEF AssemblyInv, EnteredInOrder
  <2>2. Valid(mods) /\ ~Collides(Contributed(mods)) /\ Required(mods) \subseteq slots
    BY DEF WiredInv, Builds
  <2>3. ASSUME NEW key \in slots
        PROVE  Cardinality({i \in Index(mods) :
                  key \in ToSet(mods[i].entries) \cup mods[i].populates}) = 1
    BY <2>2, SlotHasOneProducer
  <2>4. ASSUME NEW i \in Index(mods), NEW k \in Index(mods[i].routes),
               NEW key \in mods[i].routes[k].keys, Answers(mods, key) # i
        PROVE  \E l \in Index(mods[Answers(mods, key)].routes) :
                  key \in mods[Answers(mods, key)].routes[l].overrides
    BY <2>1, <2>2, <2>4, ShadowsAreDeclared
  <2>5. ASSUME NEW k \in Index(Stacked(mods)), NEW l \in Index(Stacked(mods)), k < l
        PROVE  Stacked(mods)[k][1] <= Stacked(mods)[l][1]
    BY <2>1, <2>5, LayersNest
  <2>6. ASSUME IsPrefix(Stock, mods)
        PROVE  /\ LET d == ManifestDelta(Stock, mods)
                  IN /\ d.removed = {} /\ d.gone = <<>>
                     /\ d.reordered <=> Repeats(Stock, mods)
               /\ \A key \in RouteTable(Stock) : Answers(mods, key) \in Index(Stock)
    <3>1. \A key \in RouteTable(Stock) : /\ key \in RouteTable(mods)
                                         /\ Answers(mods, key) \in Index(Stock)
      BY <2>1, <2>6, RoutesStay
    <3> DEFINE old == Middleware(Stock)
               new == Middleware(mods)
               d == ManifestDelta(Stock, mods)
    <3>2. /\ Kept(new, ToSet(old)) = old <=> ~Repeats(Stock, mods)
          /\ Kept(old, ToSet(new)) = old
          /\ Kept(old, ToSet(old) \ ToSet(new)) = <<>>
      BY <2>1, <2>6, OrderStays
    <3>3. /\ d.removed = RouteTable(Stock) \ RouteTable(mods)
          /\ d.gone = Kept(old, ToSet(old) \ ToSet(new))
          /\ d.reordered <=> (Kept(new, ToSet(old)) # Kept(old, ToSet(new)))
      BY DEF ManifestDelta
    <3> HIDE DEF d, old, new
    <3>4. d.removed = {} /\ d.gone = <<>> /\ (d.reordered <=> Repeats(Stock, mods))
      BY <3>1, <3>2, <3>3
    <3>5. QED
      BY <3>1, <3>4 DEF d
  <2>7. QED
    BY <2>2, <2>3, <2>4, <2>5, <2>6
<1>3. AssemblySpec => []WiredInv
  BY <1>1, NextWired, PTL DEF AssemblySpec
<1>4. QED
  BY <1>2, <1>3, AssemblyInvariant, PTL

-----------------------------------------------------------------------------
(* The edge as a whole *)

\* The invariants of the four parts.
EdgeInv == /\ TenantInv /\ WorkspaceTypes /\ OwnInv /\ ApiInv /\ WorkerInv /\ AssemblyInv

\* The types of a part are those of its invariant.
LEMMA EdgeInvTypes == EdgeInv => EdgeTypeOK
<1> SUFFICES ASSUME EdgeInv PROVE EdgeTypeOK
  OBVIOUS
<1>1. AssemblyTypeOK
  BY DEF EdgeInv, AssemblyInv, AssemblyTypes, EnteredInOrder, AssemblyTypeOK, Index
<1>2. WorkspaceTypeOK
  BY DEF EdgeInv, WorkspaceTypes
<1>3. ApiTypeOK
  BY DEF EdgeInv, ApiInv, ApiTypeOK, RecType, ReqType, JobType
<1>4. WorkerTypeOK
  BY DEF EdgeInv, WorkerInv
<1>5. QED
  BY <1>1, <1>2, <1>3, <1>4 DEF EdgeTypeOK

\* A step of one part leaves the others alone.
LEMMA NextEdge == EdgeInv /\ [EdgeNext]_edgeVars => EdgeInv'
<1> SUFFICES ASSUME EdgeInv, [EdgeNext]_edgeVars PROVE EdgeInv'
  OBVIOUS
<1>1. [WorkspaceNext]_wsVars /\ [ApiNext]_apiVars
  BY DEF EdgeNext, edgeVars
<1>2. [WorkerNext]_workerVars /\ [AssemblyNext]_assemblyVars
  BY DEF EdgeNext, edgeVars
<1>3. TenantInv' /\ WorkspaceTypes' /\ OwnInv'
  BY <1>1, NextTenants, NextWorkspaceTypes, NextOwn DEF EdgeInv
<1>4. ApiInv' /\ WorkerInv' /\ AssemblyInv'
  BY <1>1, <1>2, StepApi, WorkerStep, NextAssembly DEF EdgeInv
<1>5. QED
  BY <1>3, <1>4 DEF EdgeInv

\* The invariants of the four parts hold where they stand side by side.
THEOREM EdgeInvariant == EdgeSpec => []EdgeInv
<1>1. EdgeInit => EdgeInv
  BY InitTenants, InitWorkspaceTypes, InitOwn, InitApi, WorkerStart, InitAssembly
     DEF EdgeInit, EdgeInv
<1>2. QED
  BY <1>1, NextEdge, PTL DEF EdgeSpec

\* Every variable of the edge keeps its type.
THEOREM EdgeTypes == EdgeSpec => []EdgeTypeOK
  BY EdgeInvariant, EdgeInvTypes, PTL
===============================================================================
