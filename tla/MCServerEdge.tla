---------------------------- MODULE MCServerEdge ----------------------------
(***************************************************************************)
(* The edge of the server for TLC: how the app is assembled, started and   *)
(* drained, who reaches which workspace tree, how the /teams routes        *)
(* answer, and the routes of a worker of the distributed tiers.  The four  *)
(* share no state, so a behaviour is one of one part, with the others at   *)
(* rest.                                                                   *)
(***************************************************************************)
EXTENDS MCAppAssembly, WorkspaceAccess, TeamApi, WorkerTeams, TLC

CONSTANTS alice, root,        \* users, the second one an administrator
          t1, t2, n1, k1,     \* teams with files, a named tree, a metadata tree
          q1, q2,             \* requests served at once
          e1, e2, p1, blank,  \* index entries, a term both begin with, a blank one
          x1, x2, c1, c2      \* texts, catalog namespaces

VARIABLE part

edgeVars == <<part, assemblyVars, wsVars, apiVars, workerVars>>

-----------------------------------------------------------------------------
(* Teams with workspaces: private, shared, named, contradicting and unreadable *)

Card(kind, leaf, sharable) == [kind |-> kind, leaf |-> leaf, sharable |-> sharable]
Profile(owner, cards, meta, readable) ==
    [owner |-> owner, cards |-> cards, meta |-> meta, readable |-> readable]
Own(sharable) == Card("_team", Omitted, sharable)
Named(leaf, sharable) == Card("_id", leaf, sharable)

MCProfiles == [t \in WsTeams |->
    IF t = t1
    THEN {Profile(alice, {Own(FALSE), Own(TRUE)}, NoCase, TRUE),
          Profile(alice, {Own(TRUE), Named(t2, FALSE)}, NoCase, TRUE),
          Profile(alice, {Named(n1, TRUE), Named(n1, FALSE)}, NoCase, TRUE),
          Profile(alice, {Card("_meta", Omitted, FALSE), Named(n1, FALSE)}, k1, TRUE),
          Profile(root, {Own(FALSE)}, NoCase, TRUE),
          Profile(alice, {Named(n1, TRUE)}, NoCase, TRUE),
          Profile(alice, {Own(TRUE)}, NoCase, FALSE)}
    ELSE {Profile(alice, {Own(FALSE), Named(n1, FALSE)}, NoCase, TRUE),
          Profile(root, {Named(n1, TRUE), Own(FALSE)}, NoCase, TRUE)}]

-----------------------------------------------------------------------------
(* Teams in the store: alice's, next to none, to another's, to a retired one *)

Row(st, owner, ns, entries, created) ==
    [st |-> st, owner |-> owner, ns |-> ns, entries |-> entries, created |-> created,
     desc |-> NoText, origin |-> "AUTO"]
MCArchives == {<<Row("running", alice, c1, {e1}, 0), NoRecord>>,
               <<Row("stopped", alice, c1, {e1}, 0), Row("stopped", root, c2, {e2}, 0)>>,
               <<Row("stopped", alice, c1, {e1}, 0), Row("deleted", alice, c1, {e1, e2}, 1)>>}
\* A policy of two clauses, and one that lists everything.
MCClauses == [u \in ApiUsers |->
    IF u = alice THEN {[users |-> {alice}, groups |-> {}],
                       [users |-> ApiUsers, groups |-> {{e2}}]}
                 ELSE {[users |-> ApiUsers, groups |-> {}]}]
MCQueries == {{}, {{blank}}, {{e1, blank}}, {{p1}}, {{e1}, {e2, blank}}}
MCStarts == (e1 :> {e1, p1, blank}) @@ (e2 :> {e2, p1, blank})

-----------------------------------------------------------------------------
EdgeInit ==
    /\ part \in {"assembly", "workspaces", "routes", "worker"}
    /\ AssemblyInit /\ (part = "assembly" \/ mods = Stock)
    /\ WorkspaceInit /\ (part = "workspaces" \/ policy = "own tree")
    /\ ApiInit /\ (part = "routes" \/ rec[2] = NoRecord)
    /\ WorkerInit

EdgeNext ==
    /\ UNCHANGED part
    /\ \/ part = "assembly" /\ AssemblyNext /\ UNCHANGED <<wsVars, apiVars, workerVars>>
       \/ part = "workspaces" /\ WorkspaceNext /\ UNCHANGED <<assemblyVars, apiVars, workerVars>>
       \/ part = "routes" /\ ApiNext /\ UNCHANGED <<assemblyVars, wsVars, workerVars>>
       \/ part = "worker" /\ WorkerNext /\ UNCHANGED <<assemblyVars, wsVars, apiVars>>

EdgeSpec == EdgeInit /\ [][EdgeNext]_edgeVars

\* The slots that serve requests are interchangeable, and so are the texts.
EdgeSymmetry == Permutations(Slots) \cup Permutations(Texts)

\* Every variable of the four parts has its type.
EdgeTypeOK == AssemblyTypeOK /\ WorkspaceTypeOK /\ ApiTypeOK /\ WorkerTypeOK
=============================================================================
