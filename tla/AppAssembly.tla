------------------------------ MODULE AppAssembly ------------------------------
(***************************************************************************)
(* The layered builder of the server (server/assembly.py): what it accepts *)
(* of an ordered list of modules, the app it makes of them, and the life   *)
(* of that app: start-up in list order, the verification of state slots,   *)
(* shutdown in reverse, and the drain that CoreModule's lifespan runs      *)
(* (server/modules/core.py).                                               *)
(*                                                                         *)
(* A module is a record                                                    *)
(*   [name, entries, provides, populates, routes, middleware, drains]      *)
(* with the state keys it sets at build time, those its lifespan declares, *)
(* those it does populate, its RouteSpecs [keys, overrides], its           *)
(* MiddlewareSpecs [cls, layer, requires], and whether its lifespan is the      *)
(* drain.  A route key is a "METHOD /path" as written.                     *)
(***************************************************************************)
EXTENDS Integers, FiniteSets, Sequences, SequencesExt

CONSTANTS Compositions,  \* the lists of modules to assemble
          Stock,         \* the tier's own list, which clients splice into
          Clients,       \* WebSocket clients
          LifespanFails  \* whether a lifespan may raise at start-up, and on the way out

Index(ms) == 1 .. Len(ms)

\* A lifespan populates what its module provides (AppModule.provides_state).
Composable(ms) ==
  /\ ms \in Seq(ToSet(ms))
  /\ \A i \in Index(ms) :
       /\ ms[i].entries \in Seq(ToSet(ms[i].entries))
       /\ ms[i].provides \in Seq(ToSet(ms[i].provides))
       /\ ms[i].populates \subseteq ToSet(ms[i].provides)
       /\ ms[i].routes \in Seq(ToSet(ms[i].routes))
       /\ ms[i].middleware \in Seq(ToSet(ms[i].middleware))
       /\ \A k \in Index(ms[i].middleware) : ms[i].middleware[k].layer \in Int

ASSUME AssemblyAssumption ==
  /\ LifespanFails \in BOOLEAN \X BOOLEAN
  /\ Composable(Stock) /\ \A ms \in Compositions : Composable(ms)

VARIABLES
  mods,      \* the composition
  phase,     \* of the app
  slots,     \* app.state: the keys populated
  entered,   \* the exit stack: indices of modules, the last entered last
  raised,    \* an exception is on its way through the exit stack
  drain,     \* step of the drain, or "no"
  active,    \* ConnectionManager._active
  open,      \* clients connected
  closing,   \* disconnect_all's snapshot, what is left of it
  \* history
  broken,    \* clients whose close failed
  late,      \* clients that connected after the snapshot
  exits,     \* indices of modules in the order their lifespans were left
  drained    \* how the drain of a started app ended: "no", "stopped", "skipped"

clients == <<active, open, closing, broken, late>>
assemblyVars == <<mods, phase, slots, entered, raised, drain, clients, exits, drained>>

-----------------------------------------------------------------------------
(* What the builder makes of a list of modules *)

\* All state keys in the order they are claimed: entries first, of all modules.
Claims(ms) == FlattenSeq([i \in Index(ms) |-> ms[i].entries])
              \o FlattenSeq([i \in Index(ms) |-> ms[i].provides])

\* Unique names, and one producer of each key over both phases.
Valid(ms) == /\ \A i, j \in Index(ms) : ms[i].name = ms[j].name => i = j
             /\ IsInjective(Claims(ms))

\* _collect_routes: <<module index, spec>>, in composition order.
Contributed(ms) ==
  FlattenSeq([i \in Index(ms) |-> [k \in Index(ms[i].routes) |-> <<i, ms[i].routes[k]>>]])

\* _validate_route_collisions: the earliest spec of a key wins it, and has to
\* declare it when there is another.
Collides(cs) ==
  \E j \in Index(cs) : \E key \in cs[j][2].keys :
    LET before == {i \in 1 .. j - 1 : key \in cs[i][2].keys} IN
      before # {} /\ key \notin cs[CHOOSE i \in before : \A k \in before : i <= k][2].overrides

\* _collect_middleware: <<layer, module index, spec index, requires>>, sorted: in
\* place p is the one with p - 1 others outside.
Specs(ms) == UNION {{<<ms[i].middleware[k].layer, i, k, ms[i].middleware[k].requires>> :
                        k \in Index(ms[i].middleware)} : i \in Index(ms)}
Outer(a, b) == \/ a[1] < b[1]
               \/ a[1] = b[1] /\ a[2] < b[2]
               \/ a[1] = b[1] /\ a[2] = b[2] /\ a[3] < b[3]
Ordered(ms) ==
  [p \in 1 .. Cardinality(Specs(ms)) |->
      CHOOSE e \in Specs(ms) : Cardinality({f \in Specs(ms) : Outer(f, e)}) = p - 1]

Required(ms) == UNION {Ordered(ms)[k][4] : k \in Index(Ordered(ms))}

\* _validate_required_state.
Produced(ms) == Required(ms) \subseteq ToSet(Claims(ms))

\* _add_middleware: add_middleware puts each in front of those added before.
Stacked(ms) ==
  LET added    == Reverse(Ordered(ms))
      stack[k \in 0 .. Len(added)] == IF k = 0 THEN <<>> ELSE <<added[k]>> \o stack[k - 1]
  IN stack[Len(added)]

Builds(ms) == Valid(ms) /\ ~Collides(Contributed(ms)) /\ Produced(ms)

\* _mount_routes, and Starlette's first match: the module that answers a key.
Answers(ms, key) ==
  LET cs == Contributed(ms)
  IN cs[CHOOSE i \in Index(cs) : /\ key \in cs[i][2].keys
                                 /\ \A k \in 1 .. i - 1 : key \notin cs[k][2].keys][1]

\* build_manifest and manifest_delta: of a middleware it knows the class name only.
RouteTable(ms) == UNION {Contributed(ms)[i][2].keys : i \in Index(Contributed(ms))}
Middleware(ms) ==
  [k \in Index(Stacked(ms)) |-> ms[Stacked(ms)[k][2]].middleware[Stacked(ms)[k][3]].cls]
Kept(list, names) ==
  LET kept[k \in 0 .. Len(list)] ==
        IF k = 0 THEN <<>>
        ELSE IF list[k] \in names THEN Append(kept[k - 1], list[k]) ELSE kept[k - 1]
  IN kept[Len(list)]
ManifestDelta(stock, composed) ==
  LET old == Middleware(stock)
      new == Middleware(composed)
  IN [added |-> RouteTable(composed) \ RouteTable(stock),
      removed |-> RouteTable(stock) \ RouteTable(composed),
      came |-> Kept(new, ToSet(new) \ ToSet(old)),
      gone |-> Kept(old, ToSet(old) \ ToSet(new)),
      reordered |-> Kept(new, ToSet(old)) # Kept(old, ToSet(new))]

-----------------------------------------------------------------------------
(* Assembling and starting *)

\* build_app up to _validate_composition: no module has built a router yet.
Validate ==
  /\ phase = "composing"
  /\ phase' = IF Valid(mods) THEN "collecting" ELSE "refused"
  /\ UNCHANGED <<mods, slots, entered, raised, drain, clients, exits, drained>>

\* The rest of build_app; state entries are readable before any lifespan.
Build ==
  /\ phase = "collecting"
  /\ IF ~Collides(Contributed(mods)) /\ Produced(mods)
     THEN /\ phase' = "starting"
          /\ slots' = UNION {ToSet(mods[i].entries) : i \in Index(mods)}
     ELSE phase' = "refused" /\ UNCHANGED slots
  /\ UNCHANGED <<mods, entered, raised, drain, clients, exits, drained>>

\* enter_async_context of the next module.
Enter ==
  LET i == Len(entered) + 1 IN
  /\ phase = "starting" /\ i <= Len(mods)
  /\ \/ /\ entered' = Append(entered, i)
        /\ slots' = slots \cup mods[i].populates
        /\ UNCHANGED <<phase, raised>>
     \/ /\ LifespanFails[1]
        /\ phase' = "aborting" /\ raised' = TRUE
        /\ UNCHANGED <<entered, slots>>
  /\ UNCHANGED <<mods, drain, clients, exits, drained>>

\* A plausible slip: what the lifespans declared is taken for what they did.
VerifyNothing ==
  /\ phase = "starting" /\ Len(entered) = Len(mods)
  /\ phase' = "serving"
  /\ UNCHANGED <<mods, slots, entered, raised, drain, clients, exits, drained>>

\* _verify_startup_state: a required slot nobody populated aborts the boot.
VerifyStartupState ==
  /\ phase = "starting" /\ Len(entered) = Len(mods)
  /\ IF Required(mods) \subseteq slots
     THEN phase' = "serving" /\ UNCHANGED raised
     ELSE phase' = "aborting" /\ raised' = TRUE
  /\ UNCHANGED <<mods, slots, entered, drain, clients, exits, drained>>

-----------------------------------------------------------------------------
(* Clients, while the app serves and while it drains: nothing refuses them *)

Up == phase \in {"serving", "stopping"}

\* accept() and track().
Connect(c) ==
  /\ Up /\ c \notin open
  /\ open' = open \cup {c}
  /\ active' = active \cup {c}
  /\ late' = IF drain \in {"closing", "stopping"} \/ drained # "no" THEN late \cup {c} ELSE late
  /\ UNCHANGED <<mods, phase, slots, entered, raised, drain, closing, broken, exits, drained>>

\* A plausible slip: the handler of a client that left does not untrack it.
DisconnectStaysTracked(c) ==
  /\ Up /\ c \in open
  /\ open' = open \ {c}
  /\ UNCHANGED <<mods, phase, slots, entered, raised, drain, active, closing, broken, late, exits, drained>>

\* The client leaves, and its handler untracks it.
Disconnect(c) ==
  /\ Up /\ c \in open
  /\ open' = open \ {c}
  /\ active' = active \ {c}
  /\ UNCHANGED <<mods, phase, slots, entered, raised, drain, closing, broken, late, exits, drained>>

-----------------------------------------------------------------------------
(* Shutdown *)

Shutdown ==
  /\ phase = "serving"
  /\ phase' = "stopping"
  /\ UNCHANGED <<mods, slots, entered, raised, drain, clients, exits, drained>>

Top == entered[Len(entered)]
Pop == /\ entered' = Front(entered)
       /\ exits' = Append(exits, Top)

\* The lifespan entered last is left.  What is after its yield runs only when no
\* exception is thrown in there.
Exit ==
  /\ phase \in {"stopping", "aborting"} /\ entered # <<>> /\ drain = "no"
  /\ IF mods[Top].drains /\ ~raised
     THEN drain' = "flag" /\ UNCHANGED <<entered, exits, raised, drained>>
     ELSE /\ Pop
          /\ raised' \in IF LifespanFails[2] THEN {raised, TRUE} ELSE {raised}
          /\ drained' = IF mods[Top].drains THEN "skipped" ELSE drained
          /\ UNCHANGED drain
  /\ UNCHANGED <<mods, phase, slots, clients>>

\* DRAINING.set, then the pre-drain delay.
DrainFlag ==
  /\ drain = "flag"
  /\ drain' = "delay"
  /\ UNCHANGED <<mods, phase, slots, entered, raised, clients, exits, drained>>

\* disconnect_all: set(self._active).
DrainSnapshot ==
  /\ drain = "delay"
  /\ drain' = "closing"
  /\ closing' = active
  /\ UNCHANGED <<mods, phase, slots, entered, raised, active, open, broken, late, exits, drained>>

\* A plausible slip: the first close that fails ends the loop.
DrainCloseOrStop(c) ==
  /\ drain = "closing" /\ c \in closing
  /\ \/ /\ closing' = closing \ {c}
        /\ open' = open \ {c} /\ active' = active \ {c}
        /\ UNCHANGED broken
     \/ /\ closing' = {}
        /\ broken' = broken \cup {c}
        /\ UNCHANGED <<open, active>>
  /\ UNCHANGED <<mods, phase, slots, entered, raised, drain, late, exits, drained>>

\* One close(1001); it may fail, which is skipped.
DrainClose(c) ==
  /\ drain = "closing" /\ c \in closing
  /\ closing' = closing \ {c}
  /\ \/ open' = open \ {c} /\ active' = active \ {c} /\ UNCHANGED broken
     \/ c \in open /\ broken' = broken \cup {c} /\ UNCHANGED <<open, active>>
  /\ UNCHANGED <<mods, phase, slots, entered, raised, drain, late, exits, drained>>

\* self._active.clear().
DrainClear ==
  /\ drain = "closing" /\ closing = {}
  /\ drain' = "stopping"
  /\ active' = {}
  /\ UNCHANGED <<mods, phase, slots, entered, raised, open, closing, broken, late, exits, drained>>

\* stop_all on a thread, for shutdown_drain_timeout at most; then the pool.
DrainStopAll ==
  /\ drain = "stopping"
  /\ drain' = "no"
  /\ drained' = "stopped"
  /\ Pop
  /\ UNCHANGED <<mods, phase, slots, raised, clients>>

Exited ==
  /\ phase \in {"stopping", "aborting"} /\ entered = <<>>
  /\ phase' = "down"
  /\ UNCHANGED <<mods, slots, entered, raised, drain, clients, exits, drained>>

-----------------------------------------------------------------------------
AssemblyInit ==
  /\ mods \in Compositions
  /\ phase = "composing" /\ slots = {} /\ entered = <<>>
  /\ raised = FALSE /\ drain = "no"
  /\ active = {} /\ open = {} /\ closing = {} /\ broken = {} /\ late = {}
  /\ exits = <<>> /\ drained = "no"

Serving == \/ Validate \/ Build \/ Enter \/ VerifyStartupState \/ Shutdown \/ Exited
Draining == \/ Exit \/ DrainFlag \/ DrainSnapshot \/ DrainClear \/ DrainStopAll
            \/ \E c \in Clients : DrainClose(c)

AssemblyNext == \/ Serving \/ Draining
                \/ \E c \in Clients : Connect(c) \/ Disconnect(c)

AssemblySpec == AssemblyInit /\ [][AssemblyNext]_assemblyVars

-----------------------------------------------------------------------------
(* Properties *)

\* Every variable has its type; what is on the exit stack is a prefix of the list.
AssemblyTypeOK ==
  /\ phase \in {"composing", "collecting", "refused", "starting", "serving", "stopping",
               "aborting", "down"}
  /\ slots \subseteq UNION {ToSet(mods[i].entries) \cup mods[i].populates : i \in Index(mods)}
  /\ entered = [i \in Index(entered) |-> i] /\ Len(entered) <= Len(mods)
  /\ raised \in BOOLEAN
  /\ drain \in {"no", "flag", "delay", "closing", "stopping"}
  /\ active \subseteq open \cup broken /\ open \subseteq Clients /\ closing \subseteq Clients
  /\ broken \subseteq Clients /\ late \subseteq Clients
  /\ drained \in {"no", "stopped", "skipped"}

\* A module spliced in behind stock brings one more middleware of a class stock has.
Repeats(stock, ms) ==
  \E e \in Specs(ms) : /\ e[2] \notin Index(stock)
                       /\ ms[e[2]].middleware[e[3]].cls \in ToSet(Middleware(stock))

\* An app that serves has every slot a middleware asks for, populated by one
\* module; no module answers a request for another without saying so; a layer
\* is outside every higher one; and splicing modules behind the tier's own takes
\* no route and no middleware from those (app.py's rule for adding), and reads as
\* a change of their order exactly when one brings a class they have, wherever it
\* slots in (manifest_delta).
ServingIsWired ==
  phase = "serving" =>
    /\ Required(mods) \subseteq slots
    /\ \A key \in slots : Cardinality({i \in Index(mods) :
                              key \in ToSet(mods[i].entries) \cup mods[i].populates}) = 1
    /\ \A i \in Index(mods) : \A k \in Index(mods[i].routes) : \A key \in mods[i].routes[k].keys :
         LET w == Answers(mods, key) IN
           w # i => \E l \in Index(mods[w].routes) : key \in mods[w].routes[l].overrides
    /\ \A k, l \in Index(Stacked(mods)) : k < l => Stacked(mods)[k][1] <= Stacked(mods)[l][1]
    /\ IsPrefix(Stock, mods) =>
         /\ LET d == ManifestDelta(Stock, mods)
            IN d.removed = {} /\ d.gone = <<>> /\ (d.reordered <=> Repeats(Stock, mods))
         /\ \A key \in RouteTable(Stock) : Answers(mods, key) \in Index(Stock)

\* Lifespans are left in the reverse of the order they were entered in, each
\* once, also when the start-up failed half-way; and the teams are stopped only
\* after every client that was there before the drain's snapshot was closed, or
\* refused to be (disconnect_all skips what fails).
DrainReachesEveryClient ==
  /\ \A i, j \in Index(exits) : i < j => exits[i] > exits[j]
  /\ drained = "stopped" => open \subseteq broken \cup late

=============================================================================
