----------------------------- MODULE TeamLifecycle -----------------------------
(***************************************************************************)
(* A team's life as server/services/team_service.py runs it, over the      *)
(* community placement: creation, restore, deliveries that revive, stop,   *)
(* delete, the stop an inactivity timer makes behind the service's back,   *)
(* and the boot that warms the runtime cache after the process died.       *)
(*                                                                         *)
(* Each operation is the sequence of its calls: every read or write of the *)
(* record, the handle cache, the event stream and the workspace trees is a *)
(* step, and requests run in threads that interleave between them.  The    *)
(* placement's own steps are those of Placement, conjoined with what they  *)
(* do to the stream; TeamManager stays external.  One team id.             *)
(***************************************************************************)
EXTENDS Placement, FiniteSets

CONSTANTS Main,         \* the thread that boots the server; it serves nothing
          MaxOps,       \* bound: requests made
          MaxCrashes,   \* bound: deaths of the process
          TimerStops    \* whether the inactivity timer is armed

ASSUME TeamLifecycleAssumption ==
  /\ Main \in Callers
  /\ MaxOps \in Nat
  /\ MaxCrashes \in Nat
  /\ TimerStops \in BOOLEAN
  /\ MaxOps + MaxCrashes <= MaxCalls

Threads   == Callers \ {Main}
NoRuntime == NoClaim
Nobody    == Main        \* of the history variable solo

VARIABLES
  cache,           \* LocalRuntimeCache: the runtime of the cached handle
  stream,          \* the runtimes whose events, replayed or live, the stream holds
                   \* from the first one on
  trees,           \* the team's workspace trees are on disk
  job, step,       \* a thread's request and where it is in it
  seen,            \* the record's status when the request first read it
  handed,          \* the runtime whose handle a delivery obtained
  verdict,         \* how the thread's last request ended
  ops, crashes,    \* requests and crashes so far
  clean, solo      \* history, see below

serviceVars == <<cache, stream, trees, job, step, seen, handed, verdict,
                 ops, crashes, clean, solo>>
placementVars == <<teamVars, tableVars, future, callVars>>
svars == <<placementVars, serviceVars>>

(***************************************************************************)
(* History.  clean turns FALSE when something ends the team unseen by the  *)
(* cache (the timer, a failed stop at boot) or while another request is in *)
(* flight, and TRUE again at a restart or when a stop or delete has run    *)
(* alone.  solo is the request that has had the service to itself so far    *)
(* (the timer meets every request under way).                              *)
(***************************************************************************)
Busy   == {c \in Callers : step[c] # "idle"}
Ending == {"stop", "delete"}

Enter(c) ==
  /\ solo' = IF Busy = {} THEN c ELSE Nobody
  /\ clean' = (clean /\ ~(\E d \in Busy : job[d] \in Ending))

EnterToEnd(c) ==
  /\ solo' = IF Busy = {} THEN c ELSE Nobody
  /\ clean' = (clean /\ Busy = {})

-----------------------------------------------------------------------------
(* Beginning and ending a request *)

\* Requests are served once the boot is over.
Ask(c, kind) ==
  /\ step[Main] = "idle"
  /\ step[c] = "idle"
  /\ ops < MaxOps
  /\ ops' = ops + 1
  /\ job' = [job EXCEPT ![c] = kind]
  /\ seen' = [seen EXCEPT ![c] = record]
  /\ handed' = [handed EXCEPT ![c] = NoRuntime]

At(c, s)  == step' = [step EXCEPT ![c] = s]

Finish(c, how) ==
  /\ At(c, "idle")
  /\ verdict' = [verdict EXCEPT ![c] = how]

\* A request that is under way.
Proceed(c, s) == At(c, s) /\ verdict' = [verdict EXCEPT ![c] = "none"]

\* self._services.placement.resume_team(team_id)
AskPlacement(c) == ResumeTeam(c)

-----------------------------------------------------------------------------
(* create_resolved_team *)

AskCreate(c) ==
  /\ Ask(c, "create")
  /\ CreateTeam(c)
  /\ Proceed(c, "placing")
  /\ Enter(c)
  /\ UNCHANGED <<cache, stream, trees, crashes>>

\* get_team() after the store.
RereadCreated(c) ==
  /\ step[c] = "reread"
  /\ job[c] = "create"
  /\ Finish(c, IF record = "absent" THEN "inconsistent" ELSE "done")
  /\ UNCHANGED <<cache, stream, trees, job, seen, handed, ops, crashes, clean, solo,
                 placementVars>>

-----------------------------------------------------------------------------
(* restore_team *)

RefuseRestore(c) ==
  /\ Ask(c, "restore")
  /\ record # "stopped"
  /\ Finish(c, "refused")
  /\ Enter(c)
  /\ UNCHANGED <<cache, stream, trees, crashes, placementVars>>

AskRestore(c) ==
  /\ Ask(c, "restore")
  /\ record = "stopped"
  /\ AskPlacement(c)
  /\ Proceed(c, "placing")
  /\ Enter(c)
  /\ UNCHANGED <<cache, stream, trees, crashes>>

RereadRestored(c) ==
  /\ step[c] = "reread"
  /\ job[c] = "restore"
  /\ Finish(c, IF record = "absent" THEN "inconsistent" ELSE "done")
  /\ UNCHANGED <<cache, stream, trees, job, seen, handed, ops, crashes, clean, solo,
                 placementVars>>

-----------------------------------------------------------------------------
(* The deliveries: send_message and its kin, over _get_or_revive_handle *)

\* An unknown or deleted team is not found.
RefuseDelivery(c) ==
  /\ Ask(c, "deliver")
  /\ record \in {"absent", "deleted"}
  /\ Finish(c, "notfound")
  /\ Enter(c)
  /\ UNCHANGED <<cache, stream, trees, crashes, placementVars>>

AskDeliver(c) ==
  /\ Ask(c, "deliver")
  /\ record \notin {"absent", "deleted"}
  /\ Proceed(c, "lookup")
  /\ Enter(c)
  /\ UNCHANGED <<cache, stream, trees, crashes, placementVars>>

LookupHit(c) ==
  /\ step[c] = "lookup"
  /\ cache # NoRuntime
  /\ handed' = [handed EXCEPT ![c] = cache]
  /\ Proceed(c, "send")
  /\ UNCHANGED <<cache, stream, trees, job, seen, ops, crashes, clean, solo,
                 placementVars>>

Revive(c) ==
  /\ step[c] = "lookup"
  /\ cache = NoRuntime
  /\ AskPlacement(c)
  /\ Proceed(c, "placing")
  /\ UNCHANGED <<cache, stream, trees, job, seen, handed, ops, crashes, clean, solo>>

\* The handle is read back from the cache after the store.
Reget(c) ==
  /\ step[c] = "reread"
  /\ job[c] = "deliver"
  /\ IF cache = NoRuntime
       THEN Finish(c, "nohandle") /\ UNCHANGED handed
       ELSE /\ handed' = [handed EXCEPT ![c] = cache]
            /\ Proceed(c, "send")
  /\ UNCHANGED <<cache, stream, trees, job, seen, ops, crashes, clean, solo,
                 placementVars>>

\* handle.send(..): a runtime whose actors are gone takes nothing.
Send(c) ==
  /\ step[c] = "send"
  /\ Finish(c, IF handed[c] \in live THEN "delivered" ELSE "lost")
  /\ UNCHANGED <<cache, stream, trees, job, seen, handed, ops, crashes, clean, solo,
                 placementVars>>

-----------------------------------------------------------------------------
(* The placement call within a request *)

ServiceOnly == <<cache, trees, job, step, seen, handed, ops, crashes, clean, solo>>

\* TeamManager.create_team starts the actors, whose events fill the stream,
\* and so does resume_team, which replays the persisted ones first.  Both add
\* to whatever the stream holds already.
PlacementBuilds(c) ==
  /\ step[c] = "placing"
  /\ Build(c)
  /\ stream' = stream \cup {ticket[c]}
  /\ trees' = TRUE
  /\ UNCHANGED <<cache, job, step, seen, handed, verdict, ops, crashes, clean, solo>>

ReplaysNothing(c) ==
  /\ step[c] = "placing"
  /\ ResumeBegins(c)
  /\ UNCHANGED <<ServiceOnly, stream, verdict>>

PlacementReplays(c) ==
  /\ step[c] = "placing"
  /\ ResumeBegins(c)
  /\ stream' = stream \cup {ticket[c]}
  /\ UNCHANGED <<ServiceOnly, verdict>>

\* A resume that TeamManager refuses ("currently running") is told from one
\* that fails: the refusal says the service asked for the wrong thing.
PlacementRefuses(c) ==
  /\ step[c] = "placing"
  /\ ResumeRefused(c)
  /\ verdict' = [verdict EXCEPT ![c] = "refused"]
  /\ UNCHANGED <<ServiceOnly, stream>>

\* A creation that fails may have started actors first.  Neither it nor a
\* resume that fails takes back what is in the stream by then.
PlacementGivesUp(c) ==
  /\ step[c] = "placing"
  /\ \/ BuildFails(c) /\ stream' \in {stream, stream \cup {ticket[c]}}
     \/ ResumeFails(c) /\ UNCHANGED stream
  /\ UNCHANGED <<ServiceOnly, verdict>>

PlacementGoesOn(c) ==
  /\ step[c] = "placing"
  /\ \/ ReadOwner(c) \/ RefuseExisting(c) \/ Claim(c) \/ Park(c) \/ RefuseForeign(c)
     \/ ResumeBuilds(c) \/ Resolve(c) \/ Release(c) \/ Unpark(c) \/ ParkTimeout(c)
  /\ UNCHANGED serviceVars

StoreNothing(c) ==
  /\ step[c] = "placing"
  /\ pc[c] = "idle"
  /\ outcome[c] = "handle"
  /\ IF job[c] = "warm" THEN Finish(c, "done") ELSE Proceed(c, "reread")
  /\ UNCHANGED <<cache, stream, trees, job, seen, handed, ops, crashes, clean, solo,
                 placementVars>>

\* The placement returned a handle: self._cache.store(team_id, handle).
Store(c) ==
  /\ step[c] = "placing"
  /\ pc[c] = "idle"
  /\ outcome[c] = "handle"
  /\ cache' = ticket[c]
  /\ IF job[c] = "warm" THEN Finish(c, "done") ELSE Proceed(c, "reread")
  /\ UNCHANGED <<stream, trees, job, seen, handed, ops, crashes, clean, solo,
                 placementVars>>

\* It raised: so does the request (warm() logs and skips the team).
PlacementRaised(c) ==
  /\ step[c] = "placing"
  /\ pc[c] = "idle"
  /\ outcome[c] # "handle"
  /\ Finish(c, IF verdict[c] = "refused" THEN "refused" ELSE "failed")
  /\ UNCHANGED <<cache, stream, trees, job, seen, handed, ops, crashes, clean, solo,
                 placementVars>>

-----------------------------------------------------------------------------
(* stop_team and delete_team *)

RefuseStop(c) ==
  /\ Ask(c, "stop")
  /\ record # "running"
  /\ Finish(c, "refused")
  /\ EnterToEnd(c)
  /\ UNCHANGED <<cache, stream, trees, crashes, placementVars>>

AskStop(c) ==
  /\ Ask(c, "stop")
  /\ record = "running"
  /\ Proceed(c, "stopping")
  /\ EnterToEnd(c)
  /\ UNCHANGED <<cache, stream, trees, crashes, placementVars>>

RefuseDelete(c) ==
  /\ Ask(c, "delete")
  /\ record \in {"absent", "deleted"}
  /\ Finish(c, "notfound")
  /\ EnterToEnd(c)
  /\ UNCHANGED <<cache, stream, trees, crashes, placementVars>>

AskDelete(c) ==
  /\ Ask(c, "delete")
  /\ record \notin {"absent", "deleted"}
  /\ Proceed(c, IF record = "running" THEN "stopping" ELSE "evict")
  /\ EnterToEnd(c)
  /\ UNCHANGED <<cache, stream, trees, crashes, placementVars>>

\* worker_handle.stop_team: the actors stop, and EventStreamSubscriber.on_stop
\* removes the stream.
Halt(c) ==
  /\ step[c] = "stopping"
  /\ StopTeam
  /\ stream' = {}
  /\ Proceed(c, IF job[c] = "warm" THEN "revive" ELSE "evict")
  /\ UNCHANGED <<cache, trees, job, seen, handed, ops, crashes, clean, solo>>

\* TeamManager refuses to stop what is no longer running.
HaltRefused(c) ==
  /\ step[c] = "stopping"
  /\ record # "running"
  /\ Finish(c, "refused")
  /\ UNCHANGED <<cache, stream, trees, job, seen, handed, ops, crashes, clean, solo,
                 placementVars>>

EvictNothing(c) ==
  /\ step[c] = "evict"
  /\ Proceed(c, "unstream")
  /\ UNCHANGED <<cache, stream, trees, job, seen, handed, ops, crashes, clean, solo,
                 placementVars>>

Evict(c) ==
  /\ step[c] = "evict"
  /\ cache' = NoRuntime
  /\ Proceed(c, "unstream")
  /\ UNCHANGED <<stream, trees, job, seen, handed, ops, crashes, clean, solo,
                 placementVars>>

\* event_stream.remove, the safety net, is the last step of a stop.
Unstream(c) ==
  /\ step[c] = "unstream"
  /\ stream' = {}
  /\ IF job[c] = "stop"
       THEN Finish(c, "done") /\ clean' = (clean \/ solo = c)
       ELSE Proceed(c, "erase") /\ UNCHANGED clean
  /\ UNCHANGED <<cache, trees, job, seen, handed, ops, crashes, solo, placementVars>>

\* worker_handle.delete_team, which may find the team running again or gone.
Erase(c) ==
  /\ step[c] = "erase"
  /\ DeleteTeam
  /\ Proceed(c, "clear")
  /\ UNCHANGED <<cache, stream, trees, job, seen, handed, ops, crashes, clean, solo>>

EraseRefused(c) ==
  /\ step[c] = "erase"
  /\ record # "stopped"
  /\ Finish(c, "refused")
  /\ UNCHANGED <<cache, stream, trees, job, seen, handed, ops, crashes, clean, solo,
                 placementVars>>

ClearTreesEarly(c) ==
  /\ step[c] \in {"evict", "clear"}
  /\ job[c] = "delete"
  /\ trees' = FALSE
  /\ IF step[c] = "evict" THEN Proceed(c, "unstream") ELSE Finish(c, "done")
  /\ clean' = IF step[c] = "evict" THEN clean ELSE clean \/ solo = c
  /\ UNCHANGED <<cache, stream, job, seen, handed, ops, crashes, solo, placementVars>>

\* _remove_workspace_trees runs last; a tree it cannot remove, or the policy
\* keeps, is left without a word.
ClearTrees(c) ==
  /\ step[c] = "clear"
  /\ trees' \in {trees, FALSE}
  /\ Finish(c, "done")
  /\ clean' = (clean \/ solo = c)
  /\ UNCHANGED <<cache, stream, job, seen, handed, ops, crashes, solo, placementVars>>

-----------------------------------------------------------------------------
(* The inactivity timer, the death of the process, and the boot *)

\* TeamManager stops the team by itself: subscribers remove the stream and
\* release the channel; none of them evicts the cached handle.
TimerStop ==
  /\ TimerStops
  /\ step[Main] = "idle"
  /\ StopTeam
  /\ stream' = {}
  /\ clean' = FALSE
  /\ solo' = Nobody
  /\ UNCHANGED <<cache, trees, job, step, seen, handed, verdict, ops, crashes>>

\* stop_all() at shutdown leaves the same state: no actor, records untouched.
Crash ==
  /\ crashes < MaxCrashes
  /\ crashes' = crashes + 1
  /\ Restart
  /\ cache' = NoRuntime
  /\ stream' = {}
  /\ job' = [c \in Callers |-> IF c = Main THEN "warm" ELSE "none"]
  /\ step' = [c \in Callers |-> IF c = Main THEN "list" ELSE "idle"]
  /\ seen' = [c \in Callers |-> "absent"]
  /\ handed' = [c \in Callers |-> NoRuntime]
  /\ verdict' = [c \in Callers |-> "none"]
  /\ clean' = TRUE
  /\ solo' = Nobody
  /\ UNCHANGED <<trees, ops>>

WarmNothing(c) ==
  /\ step[c] = "list"
  /\ Finish(c, "done")
  /\ UNCHANGED <<cache, stream, trees, job, seen, handed, ops, crashes, clean, solo,
                 placementVars>>

\* warm(): the teams the event store lists as RUNNING.
WarmList(c) ==
  /\ step[c] = "list"
  /\ IF record = "running" THEN Proceed(c, "stopping") ELSE Finish(c, "done")
  /\ UNCHANGED <<cache, stream, trees, job, seen, handed, ops, crashes, clean, solo,
                 placementVars>>

\* A team that cannot be stopped is skipped, RUNNING and without a runtime.
WarmSkips(c) ==
  /\ job[c] = "warm"
  /\ step[c] = "stopping"
  /\ Finish(c, "failed")
  /\ clean' = FALSE
  /\ UNCHANGED <<cache, stream, trees, job, seen, handed, ops, crashes, solo,
                 placementVars>>

WarmResume(c) ==
  /\ step[c] = "revive"
  /\ AskPlacement(c)
  /\ Proceed(c, "placing")
  /\ UNCHANGED <<cache, stream, trees, job, seen, handed, ops, crashes, clean, solo>>

-----------------------------------------------------------------------------

ServiceInit ==
  /\ Init
  /\ cache = NoRuntime
  /\ stream = {}
  /\ trees = FALSE
  /\ job = [c \in Callers |-> "none"]
  /\ step = [c \in Callers |-> "idle"]
  /\ seen = [c \in Callers |-> "absent"]
  /\ handed = [c \in Callers |-> NoRuntime]
  /\ verdict = [c \in Callers |-> "none"]
  /\ ops = 0
  /\ crashes = 0
  /\ clean = TRUE
  /\ solo = Nobody

Arrive(c) ==
  \/ AskCreate(c)
  \/ RefuseRestore(c) \/ AskRestore(c)
  \/ RefuseDelivery(c) \/ AskDeliver(c)
  \/ RefuseStop(c) \/ AskStop(c)
  \/ RefuseDelete(c) \/ AskDelete(c)

Serve(c) ==
  \/ RereadCreated(c) \/ RereadRestored(c)
  \/ LookupHit(c) \/ Revive(c) \/ Reget(c) \/ Send(c)
  \/ PlacementBuilds(c) \/ PlacementReplays(c) \/ PlacementRefuses(c)
  \/ PlacementGivesUp(c) \/ PlacementGoesOn(c) \/ Store(c) \/ PlacementRaised(c)
  \/ Halt(c) \/ HaltRefused(c) \/ Evict(c) \/ Unstream(c)
  \/ Erase(c) \/ EraseRefused(c) \/ ClearTrees(c)
  \/ WarmList(c) \/ WarmSkips(c) \/ WarmResume(c)

ServiceNext ==
  \/ \E c \in Threads : Arrive(c)
  \/ \E c \in Callers : Serve(c)
  \/ TimerStop
  \/ Crash

ServiceSpec == ServiceInit /\ [][ServiceNext]_svars

-----------------------------------------------------------------------------
(* Properties *)

Jobs     == {"none", "create", "restore", "deliver", "stop", "delete", "warm"}
JobSteps == {"idle", "placing", "reread", "lookup", "send", "stopping", "evict",
             "unstream", "erase", "clear", "list", "revive"}
Verdicts == {"none", "done", "refused", "failed", "notfound", "inconsistent",
             "nohandle", "delivered", "lost"}

\* Every variable holds a value of its type; a thread inside the placement is
\* a request waiting for it, and only the boot thread boots.
ServiceTypeOK ==
  /\ TypeOK
  /\ cache \in Claims \cup {NoRuntime}
  /\ stream \subseteq Claims
  /\ trees \in BOOLEAN
  /\ job \in [Callers -> Jobs]
  /\ step \in [Callers -> JobSteps]
  /\ seen \in [Callers -> Statuses]
  /\ handed \in [Callers -> Claims \cup {NoRuntime}]
  /\ verdict \in [Callers -> Verdicts]
  /\ ops \in 0 .. MaxOps
  /\ crashes \in 0 .. MaxCrashes
  /\ clean \in BOOLEAN
  /\ solo \in Callers
  /\ \A c \in Callers : pc[c] # "idle" => step[c] = "placing"
  /\ \A c \in Callers : step[c] \in {"list", "revive"} => c = Main

\* Record, cache and stream agree: a RUNNING team has a cached handle to its
\* live runtime, whose events the stream holds from the first on; any other has
\* no handle.  What else is in the stream comes from resumes and creations that
\* failed: nothing takes it out before the next stop or delete, and the replay
\* of a later resume comes behind it.
Consistent ==
  /\ IF record = "running" THEN cache \in live \cap stream ELSE cache = NoRuntime
  /\ \A t \in stream \ {cache} : future[t] = "failed"

\* With no request in flight, and nothing having ended the team behind the
\* cache's back, record, cache and stream agree.  A restart that warms the
\* cache restores this.
HandleMatchesRecord == clean /\ Busy = {} => Consistent

\* Whatever overlapping requests, timer stops and boots that skipped the team
\* have left (a RUNNING team nobody holds, a handle to a dead runtime, a
\* runtime without a stream), a restore, a stop or a delete that has the
\* service to itself and succeeds puts right.
LoneRequestsHeal ==
  [][\A c \in Threads :
       /\ job[c] \in {"restore", "stop", "delete"}
       /\ step[c] # "idle" /\ step'[c] = "idle"
       /\ verdict'[c] = "done" /\ solo = c
       => Consistent']_svars

\* A message is taken by a runtime that is already dead, or a request meets
\* one of the states the code calls a bug ("created but not found", "revived
\* but has no live handle"), only if a stop or delete overlapped it or the
\* timer fired: creations, restores and deliveries among themselves never do
\* that.
OnlyEndingsLoseMessages ==
  [][\A c \in Callers :
       verdict'[c] # verdict[c] /\ verdict'[c] \in {"lost", "inconsistent", "nohandle"}
         => ~clean]_svars

\* A delivery that has the service to itself reaches a live runtime, reviving
\* the team if it was stopped, unless TeamManager fails to build one or the
\* team does not exist.
LoneDeliveryArrives ==
  [][\A c \in Threads :
       /\ job[c] = "deliver" /\ step[c] # "idle" /\ step'[c] = "idle"
       /\ crashes' = crashes
       /\ clean /\ solo = c
       => verdict'[c] \in {"delivered", "failed"}]_svars

\* The trees of a team are removed only once its record is: a deletion that
\* TeamManager refuses leaves them, and so do the steps before it.
TreesOutliveRecord ==
  [][trees /\ ~trees' /\ clean => record \in {"absent", "deleted"}]_svars

\* A team that stops while no request is in flight leaves no cached handle:
\* the handle is evicted "on EVERY stop path (..) AND the inactivity-timer
\* auto-stop".
EveryStopEvicts ==
  [][Busy = {} /\ record = "running" /\ record' = "stopped"
       => cache' = NoRuntime]_svars

\* A delivery that found the team stopped is never refused because another
\* request has revived it meanwhile: "one runtime starts and both callers get
\* the same handle".
RevivalsShare ==
  [][\A c \in Threads :
       /\ job[c] = "deliver" /\ step[c] # "idle" /\ step'[c] = "idle"
       /\ seen[c] = "stopped" /\ clean
       => verdict'[c] # "refused"]_svars
===============================================================================
