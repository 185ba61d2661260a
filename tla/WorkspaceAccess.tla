--------------------------- MODULE WorkspaceAccess ---------------------------
(***************************************************************************)
(* Who may open which workspace tree, and which trees a deletion removes.  *)
(*                                                                         *)
(* A tree is a directory <scope>/<kind>/<leaf> that the agents of a team   *)
(* write to; which one follows from the team's cards, through one          *)
(* resolver.  A request passes the team gate, then the workspace gate,     *)
(* which selects one path and decides from its scope, then the route that  *)
(* opens that path, in a thread of its own: agents and a deletion run      *)
(* between the gates and the route.  A deletion resolves its candidates,   *)
(* deletes the record, and removes the trees its policy approves, one by   *)
(* one.                                                                    *)
(*                                                                         *)
(* A file is modelled by its tree, the team it was written for and whether *)
(* an agent or an upload wrote it.                                         *)
(***************************************************************************)
EXTENDS FiniteSets, Naturals

CONSTANTS
    Principals,    \* users
    Admins,        \* those with the admin role
    WsTeams,       \* team ids; a team id is also a possible leaf
    Profiles,      \* what each team may be created with: owner, cards, metadata
    Cases,         \* metadata values a team may carry, as leaves
    NoCase,        \* a team without metadata
    Shared,        \* the reserved scope `_shared`
    Omitted,       \* a request without ?workspace_id=
    Malformed,     \* a value leaf_segment refuses
    Names,         \* leaves a card or a request may name
    Policies,      \* workspace deletion policies: "own tree", "keep all"
    MaxFiles,      \* bound: files in the workspaces
    MaxRequests    \* bound: requests

\* A layout is what one WorkspaceTool card declares: the kind of its tree, the
\* leaf when it names one, and whether the tree is shared.
Layouts == [kind : {"_team", "_meta"}, leaf : {Omitted}, sharable : BOOLEAN]
             \cup [kind : {"_id"}, leaf : Names \cup WsTeams, sharable : BOOLEAN]

\* What a team is created with: its owner, its cards' layouts, its metadata, and
\* whether the card blobs its record references are in the store.
IsProfile(p) ==
    /\ p.owner \in Principals /\ p.cards \subseteq Layouts
    /\ p.meta \in Cases \cup {NoCase} /\ p.readable \in BOOLEAN

Leaves == Names \cup Cases \cup WsTeams

ASSUME WorkspaceAssumption ==
    /\ Admins \subseteq Principals /\ Shared \notin Principals
    /\ \A t \in WsTeams : \A p \in Profiles[t] : IsProfile(p)
    /\ {Omitted, Malformed, NoCase} \cap Leaves = {}
    /\ Policies \subseteq {"own tree", "keep all"}
    /\ {MaxFiles, MaxRequests} \subseteq Nat

VARIABLES
    team,      \* the record of each team, NoTeamYet before it is created
    files,     \* the files in the workspaces
    ask,       \* the request being served
    asked,     \* requests so far
    doomed,    \* each team's deletion: the candidate trees not yet considered
    policy,    \* the wired WorkspaceDeletionPolicy
    excused    \* teams whose own tree a deletion knowingly left

wsVars == <<team, files, ask, asked, doomed, policy, excused>>

------------------------------------------------------------------------------
(* From cards to paths. *)

NoTeamYet == [st |-> "none"]
Live(t) == team[t].st = "live"
Known(t) == team[t].st \in {"live", "deleting"}

Path(scope, kind, leaf) == [scope |-> scope, kind |-> kind, leaf |-> leaf]
ScopeOf(p, sharable) == IF sharable THEN Shared ELSE p.owner

\* The team's own tree under the given sharing.
OwnTree(t, p, sharable) == Path(ScopeOf(p, sharable), "_team", t)

\* One layout through the resolver of akgentic.tool: the scope from the team's
\* owner, never the caller's.
Resolved(t, p, card) ==
    CASE card.kind = "_team" -> OwnTree(t, p, card.sharable)
      [] card.kind = "_id"   -> Path(ScopeOf(p, card.sharable), "_id", card.leaf)
      [] card.kind = "_meta" -> Path(ScopeOf(p, card.sharable), "_meta", p.meta)

\* A metadata card the team's metadata cannot satisfy is a ValueError.
Resolvable(p) == p.meta # NoCase \/ \A c \in p.cards : c.kind # "_meta"

Declared(t, p) == {Resolved(t, p, c) : c \in p.cards}
DefaultSharing(p) == {c.sharable : c \in {d \in p.cards : d.kind = "_team"}}

\* The tree of a team whose default cards do not disagree: private without one.
DefaultTree(t, p) == OwnTree(t, p, TRUE \in DefaultSharing(p))

\* What _resolve_declared ends in: the paths the selector names, none standing for
\* the membership 404, or several (or none that can be known) for the 500.
Matches(t, p, selector) ==
    IF selector = Omitted
    THEN {OwnTree(t, p, s) : s \in IF DefaultSharing(p) = {} THEN {FALSE}
                                                           ELSE DefaultSharing(p)}
    ELSE {d \in Declared(t, p) : d.leaf = selector}

Unanswerable(t, p, selector) ==
    \/ ~p.readable
    \/ selector # Omitted /\ ~Resolvable(p)
    \/ Cardinality(Matches(t, p, selector)) > 1

\* The old defect: deletion answers the sharing axis itself.
CandidatesPrivateOnly(t, p) == {OwnTree(t, p, FALSE)}

\* deletion_candidate_paths, and the empty list when it raises.
Candidates(t, p) ==
    IF ~p.readable \/ ~Resolvable(p) THEN {}
    ELSE Declared(t, p)
           \cup (IF Cardinality(DefaultSharing(p)) > 1 THEN {} ELSE {DefaultTree(t, p)})

------------------------------------------------------------------------------
(* Requests. *)

Free == [at |-> "free"]
Allowed(user, owner) == user = owner \/ user \in Admins

\* The answer leaves before anything else happens: it is looked at, then gone.
Answered(user, t, code, entitled, seen) ==
    ask' = [at |-> "answered", user |-> user, team |-> t, code |-> code,
            entitled |-> entitled, seen |-> seen]
Done == /\ ask.at = "answered" /\ ask' = Free
        /\ UNCHANGED <<team, files, asked, doomed, policy, excused>>

\* _deny_foreign_named_team: the selector is the id of a team of somebody else.
NamesForeignTeam(user, selector) ==
    /\ selector \in WsTeams
    /\ Known(selector) /\ ~Allowed(user, team[selector].owner)

\* The status of check_workspace_scope on a selected path, 200 when it passes; and
\* the reading of `_shared` as "nothing to check".
ScopeSkipsShared(user, path) ==
    IF path.scope = Shared \/ Allowed(user, path.scope) THEN 200 ELSE 404

ScopeChecked(user, path) ==
    CASE path.scope = Shared -> 403
      [] path.scope # Shared -> IF Allowed(user, path.scope) THEN 200 ELSE 404

\* The selected path is stashed for the route, or its scope refuses the caller.
StashChecked(user, t, selector, op, path) ==
    IF ScopeChecked(user, path) = 200
    THEN ask' = [at |-> "open", user |-> user, team |-> t, selector |-> selector,
                 op |-> op, path |-> path]
    ELSE Answered(user, t, ScopeChecked(user, path), TRUE, {})

\* require_workspace_access: validate, select, check the scope, stash.
WorkspaceGate(user, t, selector, op) ==
    LET matches == Matches(t, team[t], selector)
        Refuse(code) == Answered(user, t, code, TRUE, {})
    IN IF selector = Malformed THEN Refuse(400)
       ELSE IF NamesForeignTeam(user, selector) THEN Refuse(404)
       ELSE IF Unanswerable(t, team[t], selector) THEN Refuse(500)
       ELSE IF matches = {} THEN Refuse(404)
       ELSE \E p \in matches : StashChecked(user, t, selector, op, p)

\* The two gates of a route, run one after the other without a wait: the wired
\* policy awaits nothing.  require_team_access answers a missing team and a
\* denied caller alike.
Request(user, t, selector, op) ==
    /\ ask = Free /\ asked < MaxRequests
    /\ asked' = asked + 1
    /\ IF Known(t) /\ Allowed(user, team[t].owner)
       THEN WorkspaceGate(user, t, selector, op)
       ELSE Answered(user, t, 404, FALSE, {})
    /\ UNCHANGED <<team, files, doomed, policy, excused>>

\* The route: only the stashed path, and only when its leaf is the selector; a
\* read sees the files there, an upload adds one.
Open ==
    /\ ask.at = "open"
    /\ LET named == IF ask.selector = Omitted THEN ask.team ELSE ask.selector
           Reply(code, seen) == Answered(ask.user, ask.team, code, TRUE, seen)
       IN \/ /\ ask.path.leaf # named
             /\ Reply(404, {}) /\ UNCHANGED files
          \/ /\ ask.path.leaf = named /\ ask.op = "read"
             /\ Reply(200, {f.team : f \in {g \in files : g.path = ask.path}})
             /\ UNCHANGED files
          \/ /\ ask.path.leaf = named /\ ask.op = "upload"
             /\ Cardinality(files) < MaxFiles
             /\ files' = files \cup {[path |-> ask.path, team |-> ask.team, by |-> "upload"]}
             /\ Reply(201, {})
    /\ UNCHANGED <<team, asked, doomed, policy, excused>>

------------------------------------------------------------------------------
(* Teams, their agents and their deletion. *)

\* A team is created by a principal, who owns it.
CreateTeam(t) ==
    /\ team[t] = NoTeamYet
    /\ \E p \in Profiles[t] :
          team' = [team EXCEPT ![t] =
                     [st |-> "live", owner |-> p.owner, cards |-> p.cards,
                      meta |-> p.meta, readable |-> p.readable]]
    /\ UNCHANGED <<files, ask, asked, doomed, policy, excused>>

\* PATCH metadata, which an empty document clears: the metadata trees move with it.
UpdateMetadata(t) ==
    /\ Live(t) /\ \E c \in team[t].cards : c.kind = "_meta"
    /\ \E meta \in Cases \cup {NoCase} : team' = [team EXCEPT ![t].meta = meta]
    /\ UNCHANGED <<files, ask, asked, doomed, policy, excused>>

\* An agent of a live team writes to a tree a card of its gives it.
AgentWrites(t) ==
    /\ Live(t) /\ Resolvable(team[t])
    /\ Cardinality(files) < MaxFiles
    /\ \E p \in Declared(t, team[t]) :
          files' = files \cup {[path |-> p, team |-> t, by |-> "agent"]}
    /\ UNCHANGED <<team, ask, asked, doomed, policy, excused>>

\* delete_team up to the worker's delete: the team is stopped, and the
\* candidates are resolved while its cards are surely there.
DeleteTeam(t) ==
    /\ Live(t)
    /\ team' = [team EXCEPT ![t].st = "deleting"]
    /\ doomed' = [doomed EXCEPT ![t] = Candidates(t, team[t])]
    /\ excused' = IF team[t].readable /\ Resolvable(team[t]) /\ policy = "own tree"
                  THEN excused ELSE excused \cup {t}
    /\ UNCHANGED <<files, ask, asked, policy>>

\* The worker deletes the record; the files are touched only afterwards.
DeleteRecord(t) ==
    /\ team[t].st = "deleting"
    /\ team' = [team EXCEPT ![t].st = "deleted"]
    /\ UNCHANGED <<files, ask, asked, doomed, policy, excused>>

\* may_delete of the wired policy, and a policy that forgets the leaf or kind.
MayDeleteAny(t, p) == policy = "own tree"

MayDelete(t, p) == policy = "own tree" /\ p.kind = "_team" /\ p.leaf = t

\* One candidate of _remove_workspace_trees: kept, removed with its sidecars, or
\* left by a removal that fails, which is logged and swallowed.
RemoveTree(t) ==
    /\ team[t].st = "deleted"
    /\ \E p \in doomed[t] :
          /\ doomed' = [doomed EXCEPT ![t] = @ \ {p}]
          /\ \/ /\ files' = IF MayDelete(t, p) THEN {f \in files : f.path # p} ELSE files
                /\ UNCHANGED excused
             \/ /\ MayDelete(t, p)
                /\ excused' = excused \cup {t}
                /\ UNCHANGED files
    /\ UNCHANGED <<team, ask, asked, policy>>

------------------------------------------------------------------------------
Selectors == Leaves \cup {Omitted, Malformed}

WorkspaceInit ==
    /\ team = [t \in WsTeams |-> NoTeamYet]
    /\ files = {} /\ doomed = [t \in WsTeams |-> {}]
    /\ ask = Free /\ asked = 0
    /\ policy \in Policies
    /\ excused = {}

WorkspaceNext ==
    \/ \E u \in Principals, t \in WsTeams, s \in Selectors, op \in {"read", "upload"} :
          Request(u, t, s, op)
    \/ Open \/ Done
    \/ \E t \in WsTeams : ask.at # "answered" /\
          \/ CreateTeam(t) \/ UpdateMetadata(t) \/ AgentWrites(t)
          \/ DeleteTeam(t) \/ DeleteRecord(t) \/ RemoveTree(t)

WorkspaceSpec == WorkspaceInit /\ [][WorkspaceNext]_wsVars

------------------------------------------------------------------------------
\* Every variable has its type.
WorkspaceTypeOK ==
    /\ \A t \in WsTeams : team[t].st \in {"none", "live", "deleting", "deleted"}
    /\ \A f \in files : /\ f.path.scope \in Principals \cup {Shared}
                        /\ f.path.kind \in {"_team", "_id", "_meta"}
                        /\ f.path.leaf \in Leaves
                        /\ f.team \in WsTeams
    /\ ask.at \in {"free", "open", "answered"}
    /\ asked \in 0..MaxRequests
    /\ excused \subseteq WsTeams

\* Tenants are kept apart, whatever cards they declare and whatever they name:
\* an ordinary caller only ever reads files written for teams it owns, and one
\* the policy denies the team is answered as if the team did not exist.
TenantsAreApart ==
    ask.at = "answered"
       => /\ ask.user \notin Admins =>
                \A t \in ask.seen : team[t].owner = ask.user
          /\ ~ask.entitled => ask.code = 404

\* Deleting a team never takes a file another team still has: what a step
\* removes was written for a team that is deleted itself.
LivingTeamsKeepTheirFiles ==
    [][\A f \in files \ files' : team[f.team].st = "deleted"]_wsVars

\* Nothing an agent of a deleted team wrote to the team's own tree outlives the
\* deletion, in either scope, unless the policy keeps it, its cards could not
\* be read or the removal failed.  An upload admitted before the deletion may
\* still land after it, and is left out.
OwnTreesGo ==
    \A t \in WsTeams \ excused :
       team[t].st = "deleted" /\ doomed[t] = {}
          => \A f \in files : ~(f.by = "agent" /\ f.path.kind = "_team" /\ f.path.leaf = t)
=============================================================================
