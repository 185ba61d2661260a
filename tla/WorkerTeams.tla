----------------------------- MODULE WorkerTeams -----------------------------
(***************************************************************************)
(* The team routes of a worker (worker/routes/teams.py), for the tiers     *)
(* whose server keeps no runtimes: a second front to TeamManager, with its *)
(* own handle cache, and with RuntimeCacheEvictionSubscriber among the     *)
(* orchestrator's subscribers.                                             *)
(*                                                                         *)
(* The routes are plain functions on threadpool threads.  Each calls       *)
(* TeamManager and then changes the cache, and nothing orders two of them: *)
(* the placement that collapses concurrent starts is the server's.  One    *)
(* team; TeamManager behaves as in module Placement.                       *)
(***************************************************************************)
EXTENDS Naturals

CONSTANTS Hands,      \* threads that serve requests
          MaxOrders,   \* bound: requests
          MaxDeaths   \* bound: deaths of the worker process

ASSUME WorkerAssumption == MaxOrders \in Nat /\ MaxDeaths \in Nat

NoHandle == 0

VARIABLES
    stored,     \* the status in the team's record
    alive,      \* runtimes whose actors live
    built,      \* runtimes built so far
    cached,     \* runtime_cache: the runtime of the cached handle
    stage,      \* where each thread is in its request
    inHand,     \* the runtime a thread has built or looked up
    orders, deaths,
    crossed     \* history: a start met another start or an ending

workerVars == <<stored, alive, built, cached, stage, inHand, orders, deaths, crossed>>

Starting == {"build", "revive", "reviving", "store"}
Ending   == {"halt", "erase", "evict"}
Stages   == {"free", "send"} \cup Starting \cup Ending
Moving   == {h \in Hands : stage[h] \in Starting \cup Ending}

Take(h, step) ==
    /\ stage[h] = "free" /\ orders < MaxOrders
    /\ orders' = orders + 1
    /\ stage' = [stage EXCEPT ![h] = step]
    /\ crossed' = (crossed \/ (step \in Starting \cup Ending /\ Moving # {}))

Pass(h, step) == stage' = [stage EXCEPT ![h] = step]

------------------------------------------------------------------------------
(* Starts: create and resume, which end in runtime_cache.store *)

\* The server asks for a creation under a key that names no team.
AskCreate(h) ==
    /\ stored = "absent" /\ Take(h, "build")
    /\ UNCHANGED <<stored, alive, built, cached, inHand, deaths>>

AskResume(h) ==
    /\ Take(h, "revive")
    /\ UNCHANGED <<stored, alive, built, cached, inHand, deaths>>

\* A new runtime, whose handle the thread has.
Spawn(h) ==
    /\ built' = built + 1
    /\ alive' = alive \cup {built + 1}
    /\ inHand' = [inHand EXCEPT ![h] = built + 1]
    /\ stored' = "running"
    /\ Pass(h, "store")
    /\ UNCHANGED <<cached, orders, deaths, crossed>>

\* team_manager.create_team looks at no record.
BuildTeam(h) == stage[h] = "build" /\ Spawn(h)

\* team_manager.resume_team refuses all but a stopped team, and marks the record
\* last.
ReviveBegins(h) ==
    /\ stage[h] = "revive" /\ stored = "stopped"
    /\ Pass(h, "reviving")
    /\ UNCHANGED <<stored, alive, built, cached, inHand, orders, deaths, crossed>>

Revived(h) ==
    /\ stage[h] = "reviving" /\ stored \in {"stopped", "running"}
    /\ Spawn(h)

\* Invalid metadata, a failure, or a ValueError of TeamManager: nothing is stored.
StartFails(h) ==
    /\ \/ stage[h] \in {"build", "reviving"}
       \/ stage[h] = "revive" /\ stored # "stopped"
    /\ Pass(h, "free")
    /\ UNCHANGED <<stored, alive, built, cached, inHand, orders, deaths, crossed>>

\* runtime_cache.store, and the record is read for the response.
Store(h) ==
    /\ stage[h] = "store"
    /\ cached' = inHand[h]
    /\ Pass(h, "free")
    /\ UNCHANGED <<stored, alive, built, inHand, orders, deaths, crossed>>

------------------------------------------------------------------------------
(* Endings: stop and delete, which end in runtime_cache.remove *)

AskStop(h) ==
    /\ Take(h, "halt")
    /\ UNCHANGED <<stored, alive, built, cached, inHand, deaths>>

AskDelete(h) ==
    /\ Take(h, "erase")
    /\ UNCHANGED <<stored, alive, built, cached, inHand, deaths>>

\* A plausible slip: nobody subscribed for the stop.
HaltUnheard ==
    /\ stored = "running"
    /\ stored' = "stopped" /\ alive' = {}
    /\ UNCHANGED cached

\* TeamManager stops a running team; on_stop of the subscriber evicts the handle.
Halt ==
    /\ stored = "running"
    /\ stored' = "stopped" /\ alive' = {}
    /\ cached' = NoHandle

HaltFor(h) ==
    /\ stage[h] = "halt" /\ Halt
    /\ Pass(h, "evict")
    /\ UNCHANGED <<built, inHand, orders, deaths, crossed>>

\* worker_handle.delete_team purges or retires a stopped team.
Erase(h) ==
    /\ stage[h] = "erase" /\ stored = "stopped"
    /\ stored' \in {"deleted", "absent"}
    /\ Pass(h, "evict")
    /\ UNCHANGED <<alive, built, cached, inHand, orders, deaths, crossed>>

\* A ValueError of TeamManager leaves the route before the removal.
EndingRefused(h) ==
    /\ \/ stage[h] = "halt" /\ stored # "running"
       \/ stage[h] = "erase" /\ stored # "stopped"
    /\ Pass(h, "free")
    /\ UNCHANGED <<stored, alive, built, cached, inHand, orders, deaths, crossed>>

Evict(h) ==
    /\ stage[h] = "evict"
    /\ cached' = NoHandle
    /\ Pass(h, "free")
    /\ UNCHANGED <<stored, alive, built, inHand, orders, deaths, crossed>>

------------------------------------------------------------------------------
(* Deliveries: messages, notifications and human input *)

\* runtime_cache.get, or 404; human input finds its message next.
LookUp(h) ==
    /\ cached # NoHandle /\ Take(h, "send")
    /\ inHand' = [inHand EXCEPT ![h] = cached]
    /\ UNCHANGED <<stored, alive, built, cached, deaths>>

\* The handle takes the message, if its runtime lives still.
Send(h) ==
    /\ stage[h] = "send"
    /\ Pass(h, "free")
    /\ UNCHANGED <<stored, alive, built, cached, inHand, orders, deaths, crossed>>

------------------------------------------------------------------------------
(* What happens beside the routes *)

\* The inactivity timer: TeamManager stops the team, whatever is in flight.
TimerStop ==
    /\ Halt
    /\ crossed' = (crossed \/ \E h \in Hands : stage[h] = "store")
    /\ UNCHANGED <<built, stage, inHand, orders, deaths>>

\* The worker dies and starts again, with an empty cache; records stay.
Death ==
    /\ deaths < MaxDeaths
    /\ deaths' = deaths + 1
    /\ alive' = {} /\ cached' = NoHandle
    /\ stage' = [h \in Hands |-> "free"]
    /\ crossed' = FALSE
    /\ UNCHANGED <<stored, built, inHand, orders>>

WorkerInit ==
    /\ stored = "absent" /\ alive = {} /\ built = 0 /\ cached = NoHandle
    /\ stage = [h \in Hands |-> "free"] /\ inHand = [h \in Hands |-> NoHandle]
    /\ orders = 0 /\ deaths = 0 /\ crossed = FALSE

WorkerNext ==
    \/ \E h \in Hands :
          \/ AskCreate(h) \/ BuildTeam(h)
          \/ AskResume(h) \/ ReviveBegins(h) \/ Revived(h)
          \/ StartFails(h) \/ Store(h)
          \/ AskStop(h) \/ HaltFor(h) \/ AskDelete(h) \/ Erase(h)
          \/ EndingRefused(h) \/ Evict(h)
          \/ LookUp(h) \/ Send(h)
    \/ TimerStop \/ Death

WorkerSpec == WorkerInit /\ [][WorkerNext]_workerVars

------------------------------------------------------------------------------
\* Every variable has its type, and a thread with a runtime has one that was built.
WorkerTypeOK ==
    /\ stored \in {"absent", "running", "stopped", "deleted"}
    /\ alive \subseteq 1 .. built /\ built \in Nat
    /\ cached \in 0 .. built
    /\ stage \in [Hands -> Stages]
    /\ inHand \in [Hands -> 0 .. built]
    /\ orders \in 0 .. MaxOrders /\ deaths \in 0 .. MaxDeaths /\ crossed \in BOOLEAN

\* Whatever stops, the timer included, and whatever is started again, the handle a
\* delivery finds is of a living runtime, and a living runtime is found, but for the
\* moment before its start stores it: on a worker every stop path evicts
\* (runtime_cache_eviction_subscriber.py), and the two writers of the cache leave no
\* ghost and no orphan.  The excuse is a start that met another start or an ending,
\* until the worker is started anew.
HandlesAreLive ==
    ~crossed => /\ cached \in alive \cup {NoHandle}
                /\ alive \subseteq {cached} \cup {inHand[h] : h \in {g \in Hands : stage[g] = "store"}}
==============================================================================
