-------------------------- MODULE TeamLifecycleProofs --------------------------
(***************************************************************************)
(* The service drives the placement only through the placement's own       *)
(* actions, so what PlacementProofs proves of every placement holds of the *)
(* whole service, for any number of threads, requests and crashes.         *)
(***************************************************************************)
EXTENDS TeamLifecycle, PlacementProofs

\* The arrival of a request begins a placement call or leaves the placement
\* alone.
LEMMA ArriveStep ==
  ASSUME NEW c \in Threads, Arrive(c)
  PROVE  Next \/ UNCHANGED vars
PROOF
<1>0. c \in Callers
  BY DEF Threads
<1>1. CASE AskCreate(c)
  BY <1>0, <1>1 DEF AskCreate, Next
<1>2. CASE AskRestore(c)
  BY <1>0, <1>2 DEF AskRestore, AskPlacement, Next
<1>3. CASE \/ RefuseRestore(c) \/ RefuseDelivery(c) \/ AskDeliver(c) \/ RefuseStop(c)
           \/ AskStop(c) \/ RefuseDelete(c) \/ AskDelete(c)
  BY <1>3 DEF RefuseRestore, RefuseDelivery, AskDeliver, RefuseStop, AskStop,
              RefuseDelete, AskDelete, placementVars, vars
<1> QED
  BY <1>1, <1>2, <1>3 DEF Arrive

\* So does every step of a request under way and of the boot.
LEMMA ServeStep ==
  ASSUME NEW c \in Callers, Serve(c)
  PROVE  Next \/ UNCHANGED vars
PROOF
<1>1. CASE Revive(c) \/ WarmResume(c)
  BY <1>1 DEF Revive, WarmResume, AskPlacement, Next
<1>2. CASE PlacementBuilds(c)
  BY <1>2 DEF PlacementBuilds, CallStep, Next
<1>3. CASE PlacementReplays(c)
  BY <1>3 DEF PlacementReplays, CallStep, Next
<1>4. CASE PlacementRefuses(c)
  BY <1>4 DEF PlacementRefuses, CallStep, Next
<1>5. CASE PlacementGivesUp(c)
  BY <1>5 DEF PlacementGivesUp, CallStep, Next
<1>6. CASE PlacementGoesOn(c)
  BY <1>6 DEF PlacementGoesOn, CallStep, Next
<1>7. CASE Halt(c) \/ Erase(c)
  BY <1>7 DEF Halt, Erase, Next
<1>8. CASE \/ RereadCreated(c) \/ RereadRestored(c) \/ LookupHit(c) \/ Reget(c)
           \/ Send(c) \/ Store(c) \/ PlacementRaised(c)
  BY <1>8 DEF RereadCreated, RereadRestored, LookupHit, Reget, Send, Store,
              PlacementRaised, placementVars, vars
<1>9. CASE \/ HaltRefused(c) \/ Evict(c) \/ Unstream(c) \/ EraseRefused(c)
           \/ ClearTrees(c) \/ WarmList(c) \/ WarmSkips(c)
  BY <1>9 DEF HaltRefused, Evict, Unstream, EraseRefused, ClearTrees, WarmList,
              WarmSkips, placementVars, vars
<1> QED
  BY <1>1, <1>2, <1>3, <1>4, <1>5, <1>6, <1>7, <1>8, <1>9 DEF Serve

\* The service's module takes the placement's own actions or leaves its state
\* alone, so what is proved of the placement holds within the service.
LEMMA ServiceDrivesPlacement == ServiceSpec => Spec
PROOF
<1>1. ServiceInit => Init
  BY DEF ServiceInit
<1>2. [ServiceNext]_svars => [Next]_vars
  <2> SUFFICES ASSUME [ServiceNext]_svars
               PROVE  Next \/ UNCHANGED vars
    OBVIOUS
  <2>1. CASE \E c \in Threads : Arrive(c)
    BY <2>1, ArriveStep
  <2>2. CASE \E c \in Callers : Serve(c)
    BY <2>2, ServeStep
  <2>3. CASE TimerStop
    BY <2>3 DEF TimerStop, Next
  <2>4. CASE Crash
    BY <2>4 DEF Crash, Next
  <2>5. CASE UNCHANGED svars
    BY <2>5 DEF svars, placementVars, vars
  <2> QED
    BY <2>1, <2>2, <2>3, <2>4, <2>5 DEF ServiceNext
<1> QED
  BY <1>1, <1>2, PTL DEF ServiceSpec, Spec

\* Whatever requests, timer stops, crashes and boots interleave, a team never
\* has two live runtimes, nor a live one while its record does not say RUNNING.
THEOREM ServiceOneRuntime == ServiceSpec => []OneRuntime
PROOF
  BY ServiceDrivesPlacement, PlacementOneRuntime, PTL

\* A creation that goes through the service never overwrites an existing
\* team's record.
THEOREM ServiceNeverRecreates == ServiceSpec => NeverRecreated
PROOF
  BY ServiceDrivesPlacement, PlacementNeverRecreated, PTL

-----------------------------------------------------------------------------
(* The invariant of the service *)

Leaving == {"evict", "unstream", "erase", "clear"}

\* Which requests take which steps.
Fits(c) ==
  /\ step[c] \in {"list", "revive"} => job[c] = "warm"
  /\ step[c] = "stopping" => job[c] \in Ending \cup {"warm"}
  /\ step[c] \in Leaving => job[c] \in Ending
  /\ step[c] \in {"lookup", "send"} => job[c] = "deliver"
  /\ step[c] = "placing" => job[c] \in {"create", "restore", "deliver", "warm"}
  /\ step[c] = "reread" => job[c] \in {"create", "restore", "deliver"}
  /\ job[c] = "warm" => c = Main

\* While the server boots nothing else runs.
Control ==
  /\ \A c \in Callers : Fits(c)
  /\ step[Main] # "idle" => job[Main] = "warm" /\ Busy = {Main}

\* A claim's future is pending until its holder resolves it.
Futures ==
  /\ \A t \in Claims : t > claims => future[t] = "pending"
  /\ \A c \in Callers :
       pc[c] \in {"run", "reviving", "built", "broken"} => future[ticket[c]] = "pending"

\* A stop or delete that nothing has met takes the team down step by step.
Takedown(c) ==
  /\ step[c] = "stopping" /\ clean => record = "running"
  /\ step[c] \in {"evict", "unstream", "erase"} => record = "stopped"
  /\ step[c] = "clear" => record \in {"absent", "deleted"}
  /\ step[c] \in Leaving \ {"evict"} => cache = NoRuntime
  /\ step[c] \in {"erase", "clear"} => stream = {}

\* An ending that is clean, or has had the service to itself, runs alone.
Endings ==
  /\ \A c \in Callers : job[c] \in Ending /\ step[c] # "idle" /\ (clean \/ solo = c)
                        => Busy = {c} /\ Takedown(c)
  /\ \A c \in Callers : step[c] # "idle" /\ solo = c => Busy = {c}

\* Nothing of the dead process is left when the server boots.
Booted ==
  step[Main] \in {"list", "stopping"} => live = {} /\ cache = NoRuntime /\ stream = {}

\* Nothing ends the team, and no boot is about to.
Steady ==
  /\ clean /\ step[Main] \notin {"list", "stopping"}
  /\ \A c \in Callers : step[c] \notin Leaving

\* A call that has, or is going to be given, the handle of its ticket's runtime.
Promised(c) ==
  /\ step[c] = "placing"
  /\ \/ pc[c] = "built"
     \/ pc[c] \in {"release", "park"} /\ future[ticket[c]] = "done"
     \/ pc[c] \in {"release", "idle"} /\ outcome[c] = "handle"

\* A call that is going to store its handle, with nobody else's help.
Storing(c) ==
  /\ step[c] = "placing"
  /\ pc[c] = "built" \/ (pc[c] \in {"release", "idle"} /\ outcome[c] = "handle")

\* A delivery with the service to itself finds the team as its first read did.
Lone(c) ==
  solo = c /\ job[c] = "deliver" =>
    /\ step[c] = "lookup" => record \notin {"absent", "deleted"}
    /\ step[c] = "placing" => /\ verdict[c] = "none"
                              /\ pc[c] \in {"owner", "claim", "run"} => record = "stopped"

\* What a request counts on.
Relies(c) ==
  /\ pc[c] = "reviving" => ticket[c] \in stream
  /\ Promised(c) => ticket[c] \in live
  /\ step[c] = "reread" => cache # NoRuntime
  /\ step[c] = "send" => handed[c] \in live
  /\ Lone(c)

\* Record, cache and stream agree, or somebody is about to make them agree.
Agreed ==
  /\ cache # NoRuntime => cache \in live
  /\ live \subseteq stream
  /\ record = "running" /\ cache = NoRuntime => \E c \in Callers : Storing(c)
  /\ \A c \in Callers : Relies(c)

Settled == Steady => Agreed

\* A resume under way in the placement, whose replay is in the stream, or one
\* that has failed and is about to say so.
Unsettled(c, t) == pc[c] \in {"reviving", "broken"} /\ ticket[c] = t

\* Beside the live runtime's, the stream holds the events of failed claims only.
Leftovers ==
  \A t \in stream \ live : future[t] = "failed" \/ \E c \in Callers : Unsettled(c, t)

\* A restore with the service to itself, on whatever was left before it.
Restores(c) ==
  /\ step[c] = "placing" =>
       /\ pc[c] # "park"
       /\ pc[c] = "reviving" => ticket[c] \in stream
       /\ Storing(c) => record = "running" /\ ticket[c] \in live \cap stream
  /\ step[c] = "reread" => record = "running" /\ cache \in live \cap stream

Restoring ==
  \A c \in Threads : solo = c /\ job[c] = "restore" /\ step[c] # "idle" => Restores(c)

ServiceInv ==
  /\ PlacementInv /\ ServiceTypeOK /\ Control /\ Futures /\ Endings /\ Booted /\ Settled
  /\ Leftovers /\ Restoring

-----------------------------------------------------------------------------
(* Futures *)

\* A placement call changes its own thread only.
PlaceMoves(c) ==
  \A d \in Callers \ {c} : /\ pc'[d] = pc[d] /\ op'[d] = op[d]
                           /\ ticket'[d] = ticket[d] /\ outcome'[d] = outcome[d]

\* So does each of its actions.
LEMMA CallMoves ==
  ASSUME TypeOK, NEW c \in Callers,
         CreateTeam(c) \/ ResumeTeam(c) \/ CallStep(c) \/ ParkTimeout(c)
  PROVE  PlaceMoves(c)
<1>1. /\ pc \in [Callers -> Steps] /\ op \in [Callers -> {"none", "create", "resume"}]
      /\ ticket \in [Callers -> Claims \cup {NoClaim}]
      /\ outcome \in [Callers -> {"none", "handle", "conflict", "failed", "timeout"}]
  BY DEF TypeOK
<1>2. CASE CreateTeam(c) \/ ResumeTeam(c)
  BY <1>1, <1>2 DEF CreateTeam, ResumeTeam, Begin, Goto, PlaceMoves
<1>3. CASE ReadOwner(c) \/ RefuseExisting(c) \/ Claim(c) \/ Park(c) \/ RefuseForeign(c)
  BY <1>1, <1>3 DEF ReadOwner, RefuseExisting, Claim, Park, RefuseForeign, Goto, Return,
                    PlaceMoves
<1>4. CASE Build(c) \/ BuildFails(c) \/ ResumeRefused(c) \/ ResumeBegins(c)
           \/ ResumeBuilds(c) \/ ResumeFails(c)
  BY <1>1, <1>4 DEF Build, BuildFails, ResumeRefused, ResumeBegins, ResumeBuilds,
                    ResumeFails, Goto, PlaceMoves
<1>5. CASE Resolve(c) \/ Release(c) \/ Unpark(c) \/ ParkTimeout(c)
  BY <1>1, <1>5 DEF Resolve, Release, Unpark, ParkTimeout, Goto, Return, PlaceMoves
<1> QED
  BY <1>2, <1>3, <1>4, <1>5 DEF CallStep

\* Unless it makes a claim or resolves one, a step leaves the futures alone.
LEMMA FuturesStay ==
  ASSUME Futures, UNCHANGED <<future, claims>>, NEW c \in Callers, PlaceMoves(c),
         pc'[c] \in {"run", "reviving", "built", "broken"}
            => pc[c] \in {"run", "reviving"} /\ ticket'[c] = ticket[c]
  PROVE  Futures'
BY DEF Futures, PlaceMoves

\* What a placement step does to the futures.
LEMMA FuturesNext ==
  ASSUME PlacementInv, Futures, [Next]_vars
  PROVE  Futures'
<1>1. /\ TypeOK /\ pc \in [Callers -> Steps] /\ ticket \in [Callers -> Claims \cup {NoClaim}]
      /\ \A c \in Callers : pc[c] \in Holding \cup {"park"} => ticket[c] \in 1 .. claims
      /\ claims \in 0 .. MaxCalls /\ future \in [Claims -> {"pending", "done", "failed"}]
  BY DEF PlacementInv, TypeOK
<1>2. ASSUME NEW c \in Callers, CreateTeam(c) \/ ResumeTeam(c) PROVE Futures'
  BY <1>1, <1>2, CallMoves, FuturesStay DEF CreateTeam, ResumeTeam, Begin, Goto, tableVars
<1>3. ASSUME NEW c \in Callers, CallStep(c) \/ ParkTimeout(c) PROVE Futures'
  <2>1. PlaceMoves(c)
    BY <1>1, <1>3, CallMoves
  <2>2. CASE ReadOwner(c) \/ RefuseExisting(c) \/ Park(c) \/ RefuseForeign(c)
    BY <1>1, <2>1, <2>2, FuturesStay DEF ReadOwner, RefuseExisting, Park, RefuseForeign, Goto,
                                         Return, tableVars
  <2>3. CASE Claim(c)
    <3>1. /\ claims < MaxCalls /\ claims' = claims + 1 /\ pc'[c] = "run"
          /\ ticket'[c] = claims + 1 /\ UNCHANGED future
      BY <1>1, <2>3 DEF Claim, Goto
    <3>2. MaxCalls \in Nat /\ claims \in Nat /\ claims + 1 \in Claims
      BY <1>1, <3>1, PlacementAssumption DEF Claims
    <3>3. future[claims + 1] = "pending"
      BY <3>2 DEF Futures
    <3>4. \A t \in Claims : t > claims + 1 => future[t] = "pending"
      BY <3>2 DEF Futures, Claims
    <3> QED
      BY <2>1, <3>1, <3>3, <3>4 DEF Futures, PlaceMoves
  <2>4. CASE Build(c) \/ BuildFails(c) \/ ResumeRefused(c) \/ ResumeBegins(c)
    BY <1>1, <2>1, <2>4, FuturesStay DEF Build, BuildFails, ResumeRefused, ResumeBegins, Goto,
                                         tableVars
  <2>5. CASE ResumeBuilds(c) \/ ResumeFails(c)
    BY <1>1, <2>1, <2>5, FuturesStay DEF ResumeBuilds, ResumeFails, Goto, tableVars
  <2>6. CASE Resolve(c)
    <3>1. /\ pc[c] \in {"built", "broken"} /\ pc'[c] = "release" /\ UNCHANGED <<claims, ticket>>
          /\ \A t \in Claims : t # ticket[c] => future'[t] = future[t]
      BY <1>1, <2>6 DEF Resolve, Goto, tableVars
    <3>2. ticket[c] \in 1 .. claims /\ MaxCalls \in Nat
      BY <1>1, <3>1, PlacementAssumption DEF Holding
    <3>3. \A t \in Claims : t > claims => future'[t] = "pending"
      BY <1>1, <3>1, <3>2 DEF Futures, Claims
    <3>4. \A d \in Callers \ {c} : pc[d] \notin Holding
      BY <3>1 DEF PlacementInv, ClaimIsHeld, Holding
    <3> QED
      BY <2>1, <3>1, <3>3, <3>4 DEF Futures, PlaceMoves, Holding
  <2>7. CASE Release(c) \/ Unpark(c) \/ ParkTimeout(c)
    BY <1>1, <2>1, <2>7, FuturesStay DEF Release, Unpark, ParkTimeout, Goto, Return, tableVars
  <2> QED
    BY <1>3, <2>2, <2>3, <2>4, <2>5, <2>6, <2>7 DEF CallStep
<1>4. CASE StopTeam \/ DeleteTeam \/ UNCHANGED vars
  <2>1. UNCHANGED <<future, claims, pc, ticket>>
    BY <1>4 DEF StopTeam, DeleteTeam, vars, tableVars, callVars
  <2> QED
    BY <2>1 DEF Futures
<1>5. CASE Restart
  BY <1>5 DEF Restart, Futures
<1> QED
  BY <1>2, <1>3, <1>4, <1>5 DEF Next

-----------------------------------------------------------------------------
(* Types *)

\* The variables of the service, without the two relations between them.
Typed ==
  /\ cache \in Claims \cup {NoRuntime} /\ stream \subseteq Claims
  /\ trees \in BOOLEAN
  /\ job \in [Callers -> Jobs] /\ step \in [Callers -> JobSteps]
  /\ seen \in [Callers -> Statuses] /\ handed \in [Callers -> Claims \cup {NoRuntime}]
  /\ verdict \in [Callers -> Verdicts]
  /\ ops \in 0 .. MaxOps /\ crashes \in 0 .. MaxCrashes
  /\ clean \in BOOLEAN /\ solo \in Callers

\* They and the two relations are the type invariant.
LEMMA TypedIs ==
  ServiceTypeOK <=> /\ TypeOK /\ Typed
                    /\ \A c \in Callers : pc[c] # "idle" => step[c] = "placing"
                    /\ \A c \in Callers : step[c] \in {"list", "revive"} => c = Main
BY DEF ServiceTypeOK, Typed

\* The tickets and statuses that steps copy are of the types they are copied to.
LEMMA Copied ==
  ASSUME TypeOK
  PROVE  /\ \A c \in Callers : ticket[c] \in Claims \cup {NoRuntime}
         /\ record \in Statuses
         /\ MaxOps \in Nat /\ MaxCrashes \in Nat /\ Main \in Callers /\ Threads \subseteq Callers
         /\ \A c \in Threads : c # Main
BY TeamLifecycleAssumption DEF TypeOK, NoRuntime, Threads

\* Beginning a request, and the history with it.
LEMMA AskTyped ==
  ASSUME TypeOK, Typed, NEW c \in Threads, NEW kind \in Jobs, Ask(c, kind),
         Enter(c) \/ EnterToEnd(c)
  PROVE  /\ job' \in [Callers -> Jobs] /\ seen' \in [Callers -> Statuses]
         /\ handed' \in [Callers -> Claims \cup {NoRuntime}]
         /\ ops' \in 0 .. MaxOps /\ clean' \in BOOLEAN /\ solo' \in Callers
<1>1. ops \in 0 .. MaxOps /\ MaxOps \in Nat /\ ops < MaxOps /\ ops' = ops + 1
  BY Copied DEF Typed, Ask
<1>2. ops' \in 0 .. MaxOps
  BY <1>1
<1>3. solo' \in Callers
  BY Copied DEF Enter, EnterToEnd, Nobody
<1>4. clean' \in BOOLEAN
  BY DEF Enter, EnterToEnd
<1> QED
  BY <1>2, <1>3, <1>4, Copied DEF Typed, Ask, NoRuntime

\* A thread's step and verdict, and its handle, take values of their types.
LEMMA AtTyped ==
  ASSUME Typed, NEW c \in Callers, NEW s \in JobSteps, NEW v \in Verdicts,
         At(c, s), verdict' \in {verdict, [verdict EXCEPT ![c] = v]}
  PROVE  step' \in [Callers -> JobSteps] /\ verdict' \in [Callers -> Verdicts]
BY DEF Typed, At

\* A request that arrives leaves every variable its type.
LEMMA ArriveTyped ==
  ASSUME TypeOK, Typed, NEW c \in Threads, Arrive(c)
  PROVE  Typed'
<1>0. c \in Callers /\ UNCHANGED <<cache, stream, trees, crashes>>
  BY Copied DEF Arrive, AskCreate, RefuseRestore, AskRestore, RefuseDelivery, AskDeliver,
                RefuseStop, AskStop, RefuseDelete, AskDelete
<1>1. PICK kind \in Jobs : Ask(c, kind) /\ (Enter(c) \/ EnterToEnd(c))
  BY DEF Arrive, AskCreate, RefuseRestore, AskRestore, RefuseDelivery, AskDeliver,
         RefuseStop, AskStop, RefuseDelete, AskDelete, Jobs
<1>2. PICK s \in JobSteps, v \in Verdicts : At(c, s) /\ verdict' = [verdict EXCEPT ![c] = v]
  <2>1. CASE RefuseRestore(c) \/ RefuseDelivery(c) \/ RefuseStop(c) \/ RefuseDelete(c)
    BY <2>1 DEF RefuseRestore, RefuseDelivery, RefuseStop, RefuseDelete, Finish, JobSteps, Verdicts
  <2>2. CASE AskCreate(c) \/ AskRestore(c) \/ AskDeliver(c) \/ AskStop(c)
    BY <2>2 DEF AskCreate, AskRestore, AskDeliver, AskStop, Proceed, JobSteps, Verdicts
  <2>3. CASE AskDelete(c)
    BY <2>3 DEF AskDelete, Proceed, JobSteps, Verdicts
  <2> QED
    BY <2>1, <2>2, <2>3 DEF Arrive
<1> QED
  BY <1>0, <1>1, <1>2, AskTyped, AtTyped DEF Typed

\* So does a step of a request under way or of the boot.
LEMMA ServeTyped ==
  ASSUME TypeOK, Typed, NEW c \in Callers, Serve(c)
  PROVE  Typed'
<1>1. CASE RereadCreated(c) \/ RereadRestored(c) \/ Send(c)
  <2>1. /\ UNCHANGED <<cache, stream, trees, job, seen, handed, ops, crashes, clean, solo>>
        /\ \E v \in Verdicts : Finish(c, v)
    BY <1>1 DEF RereadCreated, RereadRestored, Send, Verdicts
  <2> QED
    BY <2>1, AtTyped DEF Typed, Finish, JobSteps
<1>2. CASE LookupHit(c) \/ Reget(c)
  <2>1. /\ UNCHANGED <<cache, stream, trees, job, seen, ops, crashes, clean, solo>>
        /\ handed' \in {handed, [handed EXCEPT ![c] = cache]}
        /\ Finish(c, "nohandle") \/ Proceed(c, "send")
    BY <1>2 DEF LookupHit, Reget
  <2>2. step' \in [Callers -> JobSteps] /\ verdict' \in [Callers -> Verdicts]
    BY <2>1 DEF Typed, Finish, Proceed, At, JobSteps, Verdicts
  <2> QED
    BY <2>1, <2>2 DEF Typed
<1>3. CASE Revive(c) \/ WarmResume(c)
  <2>1. /\ UNCHANGED <<cache, stream, trees, job, seen, handed, ops, crashes, clean, solo>>
        /\ Proceed(c, "placing")
    BY <1>3 DEF Revive, WarmResume
  <2> QED
    BY <2>1, AtTyped DEF Typed, Proceed, JobSteps, Verdicts
<1>4. CASE PlacementBuilds(c) \/ PlacementReplays(c) \/ PlacementRefuses(c)
           \/ PlacementGivesUp(c) \/ PlacementGoesOn(c)
  <2>1. /\ UNCHANGED <<cache, job, step, seen, handed, ops, crashes, clean, solo>>
        /\ trees' \in {trees, TRUE}
        /\ UNCHANGED stream \/ (pc[c] = "run" /\ stream' = stream \cup {ticket[c]})
        /\ verdict' \in {verdict, [verdict EXCEPT ![c] = "refused"]}
    BY <1>4 DEF PlacementBuilds, PlacementReplays, PlacementRefuses, PlacementGivesUp,
                PlacementGoesOn, ServiceOnly, serviceVars, Build, ResumeBegins, BuildFails
  <2>2. pc[c] = "run" => ticket[c] \in Claims
    BY PlacementAssumption DEF TypeOK, Holding, Claims
  <2> QED
    BY <2>1, <2>2 DEF Typed, Verdicts
<1>5. CASE Store(c) \/ PlacementRaised(c)
  <2>1. /\ UNCHANGED <<stream, trees, job, seen, handed, ops, crashes, clean, solo>>
        /\ cache' \in {cache, ticket[c]}
        /\ \/ Proceed(c, "reread") \/ Finish(c, "done")
           \/ Finish(c, "refused") \/ Finish(c, "failed")
    BY <1>5 DEF Store, PlacementRaised
  <2>2. step' \in [Callers -> JobSteps] /\ verdict' \in [Callers -> Verdicts]
    BY <2>1 DEF Typed, Finish, Proceed, At, JobSteps, Verdicts
  <2> QED
    BY <2>1, <2>2, Copied DEF Typed
<1>6. CASE Halt(c) \/ HaltRefused(c) \/ Evict(c) \/ Erase(c) \/ EraseRefused(c)
  <2>1. /\ UNCHANGED <<trees, job, seen, handed, ops, crashes, clean, solo>>
        /\ cache' \in {cache, NoRuntime} /\ stream' \in {stream, {}}
        /\ \/ Proceed(c, "revive") \/ Proceed(c, "evict") \/ Proceed(c, "unstream")
           \/ Proceed(c, "clear") \/ Finish(c, "refused")
    BY <1>6 DEF Halt, HaltRefused, Evict, Erase, EraseRefused
  <2>2. step' \in [Callers -> JobSteps] /\ verdict' \in [Callers -> Verdicts]
    BY <2>1 DEF Typed, Finish, Proceed, At, JobSteps, Verdicts
  <2> QED
    BY <2>1, <2>2 DEF Typed
<1>7. CASE Unstream(c) \/ ClearTrees(c)
  <2>1. /\ UNCHANGED <<cache, job, seen, handed, ops, crashes, solo>>
        /\ trees' \in {trees, FALSE} /\ stream' \in {stream, {}}
        /\ clean' = (clean \/ solo = c) \/ UNCHANGED clean
        /\ Finish(c, "done") \/ Proceed(c, "erase")
    BY <1>7 DEF Unstream, ClearTrees
  <2>2. step' \in [Callers -> JobSteps] /\ verdict' \in [Callers -> Verdicts]
    BY <2>1 DEF Typed, Finish, Proceed, At, JobSteps, Verdicts
  <2>3. clean' \in BOOLEAN
    BY <2>1 DEF Typed
  <2> QED
    BY <2>1, <2>2, <2>3 DEF Typed
<1>8. CASE WarmList(c) \/ WarmSkips(c)
  <2>1. /\ UNCHANGED <<cache, stream, trees, job, seen, handed, ops, crashes, solo>>
        /\ UNCHANGED clean \/ clean' = FALSE
        /\ Proceed(c, "stopping") \/ Finish(c, "done") \/ Finish(c, "failed")
    BY <1>8 DEF WarmList, WarmSkips
  <2>2. step' \in [Callers -> JobSteps] /\ verdict' \in [Callers -> Verdicts]
    BY <2>1 DEF Typed, Finish, Proceed, At, JobSteps, Verdicts
  <2> QED
    BY <2>1, <2>2 DEF Typed
<1> QED
  BY <1>1, <1>2, <1>3, <1>4, <1>5, <1>6, <1>7, <1>8 DEF Serve

\* The timer and a crash leave every variable its type.
LEMMA TimerAndCrashTyped ==
  ASSUME TypeOK, Typed, TimerStop \/ Crash
  PROVE  Typed'
<1>1. CASE TimerStop
  BY <1>1, Copied DEF TimerStop, Typed, Nobody
<1>2. CASE Crash
  <2>1. MaxCrashes \in Nat /\ crashes \in 0 .. MaxCrashes /\ crashes < MaxCrashes
        /\ crashes' = crashes + 1
    BY <1>2, Copied DEF Crash, Typed
  <2>2. crashes' \in 0 .. MaxCrashes
    BY <2>1
  <2>3. /\ job' \in [Callers -> Jobs] /\ step' \in [Callers -> JobSteps]
        /\ seen' \in [Callers -> Statuses] /\ verdict' \in [Callers -> Verdicts]
        /\ handed' \in [Callers -> Claims \cup {NoRuntime}]
    BY <1>2 DEF Crash, Jobs, JobSteps, Statuses, Verdicts
  <2> QED
    BY <1>2, <2>2, <2>3, Copied DEF Crash, Typed, Nobody
<1> QED
  BY <1>1, <1>2

-----------------------------------------------------------------------------
(* What steps leave alone *)

\* A thread's step changes its own request and its own placement call only.
OneMoves(c) ==
  /\ \A d \in Callers \ {c} : /\ step'[d] = step[d] /\ job'[d] = job[d]
                              /\ handed'[d] = handed[d] /\ verdict'[d] = verdict[d]
  /\ PlaceMoves(c)

\* The facts about a state that the steps start from.
LEMMA ServiceFacts ==
  ASSUME ServiceInv
  PROVE  /\ PlacementInv /\ TypeOK /\ Typed /\ OneRuntime /\ ClaimIsHeld
         /\ Control /\ Futures /\ Endings /\ Booted /\ Settled /\ Leftovers /\ Restoring
         /\ \A c \in Callers : pc[c] # "idle" => step[c] = "placing"
         /\ \A c \in Callers : Fits(c)
         /\ \A c \in Callers : c \in Busy <=> step[c] # "idle"
         /\ live \subseteq Claims /\ record \in Statuses
BY TypedIs DEF ServiceInv, PlacementInv, TypeOK, Control, Busy

\* A step of the service's own leaves the placement's calls alone.
LEMMA PlacementStays ==
  ASSUME UNCHANGED placementVars, NEW c
  PROVE  /\ PlaceMoves(c) /\ UNCHANGED <<record, owner, live, future>>
         /\ UNCHANGED <<pc, op, ticket, outcome, claims>>
BY DEF placementVars, teamVars, tableVars, callVars, PlaceMoves

\* A request that arrives, and what it finds.
LEMMA ArriveShape ==
  ASSUME ServiceInv, NEW c \in Threads, Arrive(c)
  PROVE  /\ c \in Callers /\ c # Main /\ step[Main] = "idle" /\ step[c] = "idle"
         /\ OneMoves(c) /\ UNCHANGED <<cache, stream, record, live, future>>
         /\ \/ job'[c] \in Ending /\ EnterToEnd(c)
            \/ job'[c] \in {"create", "restore", "deliver"} /\ Enter(c)
         /\ \/ step'[c] = "idle" /\ pc'[c] = "idle"
            \/ /\ step'[c] = "placing" /\ job'[c] \in {"create", "restore"}
               /\ pc'[c] \in {"claim", "owner"}
            \/ /\ step'[c] = "lookup" /\ job'[c] = "deliver" /\ pc'[c] = "idle"
               /\ record \notin {"absent", "deleted"}
            \/ /\ step'[c] = "stopping" /\ job'[c] \in Ending /\ pc'[c] = "idle"
               /\ record = "running"
            \/ /\ step'[c] = "evict" /\ job'[c] \in Ending /\ pc'[c] = "idle"
               /\ record = "stopped"
<1>0. c \in Callers /\ c # Main /\ TypeOK /\ Typed /\ record \in Statuses
  BY ServiceFacts, Copied
<1>1. UNCHANGED <<cache, stream>>
  BY DEF Arrive, AskCreate, RefuseRestore, AskRestore, RefuseDelivery, AskDeliver,
         RefuseStop, AskStop, RefuseDelete, AskDelete
<1>2. PICK kind \in {"create", "restore", "deliver", "stop", "delete"} :
        /\ Ask(c, kind)
        /\ \/ kind \in Ending /\ EnterToEnd(c)
           \/ kind \in {"create", "restore", "deliver"} /\ Enter(c)
  BY DEF Arrive, AskCreate, RefuseRestore, AskRestore, RefuseDelivery, AskDeliver,
         RefuseStop, AskStop, RefuseDelete, AskDelete, Ending
<1>3. /\ job \in [Callers -> Jobs] /\ step \in [Callers -> JobSteps]
      /\ handed \in [Callers -> Claims \cup {NoRuntime}] /\ verdict \in [Callers -> Verdicts]
      /\ pc \in [Callers -> Steps]
  BY <1>0 DEF Typed, TypeOK
<1>4. /\ step[Main] = "idle" /\ step[c] = "idle" /\ job' = [job EXCEPT ![c] = kind]
      /\ handed' = [handed EXCEPT ![c] = NoRuntime]
  BY <1>2 DEF Ask
<1>5. pc[c] = "idle"
  BY <1>0, <1>4, ServiceFacts
<1>6. CASE RefuseRestore(c) \/ RefuseDelivery(c) \/ RefuseStop(c) \/ RefuseDelete(c)
  <2>1. UNCHANGED placementVars /\ \E v \in Verdicts : Finish(c, v)
    BY <1>6 DEF RefuseRestore, RefuseDelivery, RefuseStop, RefuseDelete, Verdicts
  <2>2. step'[c] = "idle" /\ OneMoves(c)
    BY <1>3, <1>4, <2>1, PlacementStays DEF Finish, At, OneMoves
  <2> QED
    BY <1>0, <1>1, <1>2, <1>3, <1>4, <1>5, <2>1, <2>2, PlacementStays
<1>7. CASE AskCreate(c) \/ AskRestore(c)
  <2>1. Proceed(c, "placing") /\ (CreateTeam(c) \/ ResumeTeam(c))
    BY <1>7 DEF AskCreate, AskRestore, AskPlacement
  <2>2. kind \in {"create", "restore"}
    BY <1>0, <1>3, <1>4, <1>7 DEF AskCreate, AskRestore, Ask, Typed
  <2>5. PlaceMoves(c)
    BY <1>0, <2>1, CallMoves
  <2>3. step'[c] = "placing" /\ OneMoves(c)
    BY <1>0, <1>3, <1>4, <2>1, <2>5 DEF Proceed, At, OneMoves
  <2>4. pc'[c] \in {"claim", "owner"} /\ UNCHANGED <<record, live, future>>
    BY <1>0, <1>3, <2>1 DEF CreateTeam, ResumeTeam, Begin, Goto, teamVars
  <2> QED
    BY <1>0, <1>1, <1>2, <1>3, <1>4, <2>2, <2>3, <2>4
<1>8. CASE AskDeliver(c) \/ AskStop(c) \/ AskDelete(c)
  <2>1. /\ UNCHANGED placementVars
        /\ \/ /\ Proceed(c, "lookup") /\ Ask(c, "deliver") /\ record \notin {"absent", "deleted"}
           \/ /\ Proceed(c, "stopping") /\ (Ask(c, "stop") \/ Ask(c, "delete"))
              /\ record = "running"
           \/ /\ Proceed(c, "evict") /\ Ask(c, "delete")
              /\ record \notin {"absent", "deleted", "running"}
    BY <1>8 DEF AskDeliver, AskStop, AskDelete
  <2>2. OneMoves(c)
    BY <1>3, <1>4, <2>1, PlacementStays DEF Proceed, At, OneMoves
  <2>3. \/ step'[c] = "lookup" /\ job'[c] = "deliver" /\ record \notin {"absent", "deleted"}
        \/ step'[c] = "stopping" /\ job'[c] \in Ending /\ record = "running"
        \/ step'[c] = "evict" /\ job'[c] \in Ending /\ record = "stopped"
    BY <1>0, <1>3, <2>1 DEF Proceed, At, Ask, Ending, Statuses
  <2> QED
    BY <1>0, <1>1, <1>2, <1>3, <1>4, <1>5, <2>1, <2>2, <2>3, PlacementStays
<1> QED
  BY <1>6, <1>7, <1>8 DEF Arrive

-----------------------------------------------------------------------------
(* What steps have in common *)

\* A step of a request under way keeps requests and steps in order.
LEMMA ControlNext ==
  ASSUME ServiceInv, NEW c \in Callers, step[c] # "idle", OneMoves(c),
         job'[c] = job[c], Fits(c)'
  PROVE  Control'
<1>1. \A d \in Callers : d # c => Fits(d)'
  BY ServiceFacts DEF Fits, OneMoves
<1>2. ASSUME step'[Main] # "idle" PROVE job'[Main] = "warm" /\ Busy' = {Main}
  <2>1. Main \in Callers
    BY ServiceFacts, Copied
  <2>2. step[Main] # "idle"
    BY <1>2, <2>1 DEF OneMoves
  <2>3. job[Main] = "warm" /\ Busy = {Main}
    BY <2>2, ServiceFacts DEF Control
  <2>4. c = Main
    BY <2>3 DEF Busy
  <2>5. \A d \in Callers : d # Main => step'[d] = "idle"
    BY <2>3, <2>4 DEF Busy, OneMoves
  <2> QED
    BY <1>2, <2>1, <2>3, <2>4, <2>5 DEF Busy
<1> QED
  BY <1>1, <1>2 DEF Control

\* An ending that runs alone goes on running alone.
LEMMA EndingsNext ==
  ASSUME ServiceInv, NEW c \in Callers, step[c] # "idle", OneMoves(c),
         job'[c] = job[c], UNCHANGED solo, clean' => clean \/ solo = c,
         job[c] \in Ending /\ step'[c] # "idle" /\ (clean \/ solo = c) => Takedown(c)'
  PROVE  Endings'
<1>1. ASSUME Busy = {c}, step'[c] # "idle" PROVE Busy' = {c}
  BY <1>1 DEF Busy, OneMoves
<1>2. ASSUME NEW d \in Callers, step'[d] # "idle", solo' = d PROVE d = c /\ Busy' = {c}
  <2>1. CASE d = c
    BY <1>1, <1>2, <2>1, ServiceFacts DEF Endings
  <2>2. CASE d # c
    <3>1. step[d] # "idle" /\ solo = d
      BY <1>2, <2>2 DEF OneMoves
    <3>2. Busy = {d}
      BY <3>1, ServiceFacts DEF Endings
    <3> QED
      BY <2>2, <3>2 DEF Busy
  <2> QED
    BY <2>1, <2>2
<1>3. ASSUME NEW d \in Callers, job'[d] \in Ending, step'[d] # "idle", clean' \/ solo' = d
      PROVE  Busy' = {d} /\ Takedown(d)'
  <2>1. CASE d = c
    <3>1. job[c] \in Ending /\ (clean \/ solo = c)
      BY <1>3, <2>1
    <3>2. Busy = {c}
      BY <3>1, ServiceFacts DEF Endings
    <3> QED
      BY <1>1, <1>3, <2>1, <3>1, <3>2
  <2>2. CASE d # c
    <3>1. job[d] \in Ending /\ step[d] # "idle"
      BY <1>3, <2>2 DEF OneMoves
    <3>2. CASE solo = d \/ clean
      <4>1. Busy = {d}
        BY <3>1, <3>2, ServiceFacts DEF Endings
      <4> QED
        BY <2>2, <4>1 DEF Busy
    <3>3. CASE solo = c
      <4>1. Busy = {c}
        BY <3>3, ServiceFacts DEF Endings
      <4> QED
        BY <2>2, <3>1, <4>1 DEF Busy
    <3> QED
      BY <1>3, <3>2, <3>3
  <2> QED
    BY <2>1, <2>2
<1> QED
  BY <1>2, <1>3 DEF Endings

\* While a request is served the boot thread is at rest, and what the boot found stays.
LEMMA BootedNext ==
  ASSUME ServiceInv, NEW c \in Callers, step[c] # "idle", OneMoves(c),
         c = Main => step'[c] \notin {"list", "stopping"}
  PROVE  Booted'
<1>1. Main \in Callers
  BY ServiceFacts, Copied
<1>2. CASE c = Main
  BY <1>2 DEF Booted
<1>3. CASE c # Main
  <2>1. step[Main] = "idle"
    BY <1>3, ServiceFacts DEF Control, Busy
  <2>2. step'[Main] = "idle"
    BY <1>1, <1>3, <2>1 DEF OneMoves
  <2> QED
    BY <2>2 DEF Booted
<1> QED
  BY <1>2, <1>3

\* A request that is no stop and no delete keeps all but the agreement by its kind.
LEMMA Serving ==
  ASSUME ServiceInv, NEW c \in Callers, OneMoves(c),
         step[c] \in {"placing", "reread", "lookup", "send", "revive"},
         step'[c] \in {"idle", "placing", "reread", "send"}, Fits(c)',
         UNCHANGED <<job, solo, clean>>, Steady => Agreed'
  PROVE  Control' /\ Endings' /\ Booted' /\ Settled'
<1>1. Fits(c) /\ step[c] # "idle"
  BY ServiceFacts
<1>2. job[c] \notin Ending
  BY <1>1 DEF Fits, Ending
<1>3. Control'
  BY <1>1, ControlNext
<1>4. Endings'
  BY <1>1, <1>2, EndingsNext
<1>5. Booted'
  BY <1>1, BootedNext
<1>6. Steady' => Steady
  <2>1. Main \in Callers
    BY ServiceFacts, Copied
  <2> QED
    BY <2>1 DEF Steady, OneMoves, Leaving
<1> QED
  BY <1>3, <1>4, <1>5, <1>6 DEF Settled

\* What others rely on stays while record, cache, stream, runtimes and futures do.
LEMMA OthersRely ==
  ASSUME NEW c, OneMoves(c), UNCHANGED <<record, live, cache, stream, future>>,
         NEW d \in Callers \ {c}, Relies(d), solo' = d => solo = d \/ step[d] = "idle"
  PROVE  Relies(d)'
<1>1. /\ step'[d] = step[d] /\ job'[d] = job[d] /\ handed'[d] = handed[d]
      /\ verdict'[d] = verdict[d] /\ pc'[d] = pc[d] /\ ticket'[d] = ticket[d]
      /\ outcome'[d] = outcome[d]
  BY DEF OneMoves, PlaceMoves
<1>2. Promised(d)' => Promised(d)
  BY <1>1 DEF Promised
<1>3. Lone(d)'
  BY <1>1 DEF Relies, Lone
<1> QED
  BY <1>1, <1>2, <1>3 DEF Relies

\* The agreement stays while record, cache, stream, runtimes and futures do.
LEMMA PlainAgrees ==
  ASSUME Agreed, NEW c \in Callers, OneMoves(c),
         UNCHANGED <<record, live, cache, stream, future>>,
         Storing(c) => Storing(c)', pc[c] # "reviving", Relies(c)',
         \A d \in Callers \ {c} : solo' = d => solo = d \/ step[d] = "idle"
  PROVE  Agreed'
<1>1. \A d \in Callers : Relies(d)'
  BY OthersRely DEF Agreed
<1>2. \A d \in Callers : Storing(d) => Storing(d)'
  BY DEF Storing, OneMoves, PlaceMoves
<1> QED
  BY <1>1, <1>2 DEF Agreed

\* At rest, without a running team, all that is asked is an empty cache.
LEMMA RestAgrees ==
  ASSUME \A d \in Callers : step'[d] \in {"idle", "revive"} /\ pc'[d] = "idle",
         record' # "running", cache' = NoRuntime, live' = {}
  PROVE  Agreed'
<1>1. ASSUME NEW d \in Callers PROVE Relies(d)'
  BY DEF Relies, Promised, Lone
<1> QED
  BY <1>1 DEF Agreed

-----------------------------------------------------------------------------
(* Requests arrive *)

\* Whoever arrives, what the history says of endings stays true.
LEMMA ArriveEndings ==
  ASSUME ServiceInv, NEW c \in Threads, Arrive(c)
  PROVE  Endings'
<1>1. /\ c \in Callers /\ c # Main /\ step[Main] = "idle" /\ step[c] = "idle"
      /\ OneMoves(c) /\ UNCHANGED record
      /\ \/ job'[c] \in Ending /\ EnterToEnd(c)
         \/ job'[c] \in {"create", "restore", "deliver"} /\ Enter(c)
  BY ArriveShape
<1>2. step'[c] \in {"idle", "placing", "lookup", "stopping", "evict"}
      /\ (step'[c] = "stopping" => record = "running")
      /\ (step'[c] = "evict" => record = "stopped")
  BY ArriveShape
<1>3. step'[Main] = "idle" /\ Main \in Callers
  BY <1>1, Copied, ServiceFacts DEF OneMoves
<1>4. solo' = IF Busy = {} THEN c ELSE Main
  BY <1>1 DEF Enter, EnterToEnd, Nobody
<1>5. ASSUME Busy = {}, step'[c] # "idle" PROVE Busy' = {c}
  BY <1>1, <1>5 DEF Busy, OneMoves
<1>6. ASSUME NEW d \in Callers, step'[d] # "idle", solo' = d PROVE Busy' = {d}
  BY <1>3, <1>4, <1>5, <1>6
<1>7. ASSUME NEW d \in Callers, job'[d] \in Ending, step'[d] # "idle", clean' \/ solo' = d
      PROVE  Busy' = {d} /\ Takedown(d)'
  <2>1. d # Main
    BY <1>3, <1>7
  <2>2. CASE d = c
    <3>1. EnterToEnd(c)
      BY <1>1, <1>7, <2>2 DEF Ending
    <3>2. Busy = {}
      BY <1>4, <1>7, <2>1, <3>1 DEF EnterToEnd
    <3>3. Takedown(c)'
      BY <1>1, <1>2 DEF Takedown, Leaving
    <3> QED
      BY <1>5, <1>7, <2>2, <3>2, <3>3
  <2>3. CASE d # c
    <3>1. step[d] # "idle" /\ job[d] \in Ending /\ d \in Busy
      BY <1>1, <1>7, <2>3 DEF OneMoves, Busy
    <3>2. ~clean'
      BY <1>1, <3>1 DEF Enter, EnterToEnd
    <3>3. solo' # d
      BY <1>4, <2>1, <2>3
    <3> QED
      BY <1>7, <3>2, <3>3
  <2> QED
    BY <2>2, <2>3
<1> QED
  BY <1>6, <1>7 DEF Endings

\* A request that arrives keeps the invariant: it finds what its first read says.
LEMMA ArriveKeeps ==
  ASSUME ServiceInv, NEW c \in Threads, Arrive(c)
  PROVE  Control' /\ Endings' /\ Booted' /\ Settled'
<1>1. /\ c \in Callers /\ c # Main /\ step[Main] = "idle" /\ step[c] = "idle"
      /\ OneMoves(c) /\ UNCHANGED <<cache, stream, record, live, future>>
      /\ Enter(c) \/ EnterToEnd(c)
  BY ArriveShape
<1>2. step'[Main] = "idle" /\ Main \in Callers
  BY <1>1, Copied, ServiceFacts DEF OneMoves
<1>3. Control'
  <2>1. Fits(c)'
    <3>1. job'[c] # "warm"
      BY ArriveShape DEF Ending
    <3> QED
      BY <3>1, ArriveShape DEF Fits, Leaving
  <2>2. \A d \in Callers : d # c => Fits(d)'
    BY <1>1, ServiceFacts DEF Fits, OneMoves
  <2> QED
    BY <1>2, <2>1, <2>2 DEF Control
<1>4. Booted'
  BY <1>2 DEF Booted
<1>5. ASSUME Steady' PROVE Agreed'
  <2>1. Steady
    <3>1. clean
      BY <1>1, <1>5 DEF Steady, Enter, EnterToEnd
    <3> QED
      BY <1>1, <1>5, <3>1 DEF Steady, OneMoves, Leaving
  <2>2. Agreed
    BY <2>1, ServiceFacts DEF Settled
  <2>3. pc[c] = "idle"
    BY <1>1, ServiceFacts
  <2>4. Relies(c)'
    <3>1. pc'[c] \in {"idle", "claim", "owner"}
      BY ArriveShape
    <3>2. step'[c] \notin {"reread", "send"} /\ (step'[c] = "placing" => pc'[c] # "idle")
      BY ArriveShape
    <3>3. ~Promised(c)'
      BY <3>1, <3>2 DEF Promised
    <3>4. Lone(c)'
      BY <1>1, ArriveShape DEF Lone
    <3> QED
      BY <3>1, <3>2, <3>3, <3>4 DEF Relies
  <2>5. solo' \in {c, Main}
    BY <1>1 DEF Enter, EnterToEnd, Nobody
  <2>6. ~Storing(c)
    BY <1>1 DEF Storing
  <2> QED
    BY <1>1, <2>2, <2>3, <2>4, <2>5, <2>6, PlainAgrees
<1> QED
  BY <1>3, <1>4, <1>5, ArriveEndings DEF Settled

-----------------------------------------------------------------------------
(* Requests under way *)

\* The service's own steps of a request that is no stop and no delete.
OwnShape(c) ==
  /\ step'[c] \in {"idle", "send"} /\ UNCHANGED <<cache, stream, job, clean, solo>>
  /\ UNCHANGED placementVars /\ OneMoves(c)

\* A step that ends a request, or finds it a handle, is such a step.
LEMMA OwnSteps ==
  ASSUME ServiceInv, NEW c \in Callers,
         \/ RereadCreated(c) \/ RereadRestored(c) \/ Send(c) \/ LookupHit(c) \/ Reget(c)
         \/ PlacementRaised(c)
  PROVE  /\ OwnShape(c) /\ step[c] \in {"reread", "send", "lookup", "placing"}
         /\ step'[c] = "send" => /\ cache # NoRuntime /\ handed'[c] = cache
                                 /\ job[c] = "deliver"
         /\ step[c] = "placing" => outcome[c] # "handle" /\ pc[c] = "idle"
<1>1. /\ job \in [Callers -> Jobs] /\ step \in [Callers -> JobSteps]
      /\ handed \in [Callers -> Claims \cup {NoRuntime}] /\ verdict \in [Callers -> Verdicts]
  BY ServiceFacts DEF Typed
<1>2. CASE RereadCreated(c) \/ RereadRestored(c) \/ Send(c) \/ PlacementRaised(c)
  <2>1. /\ UNCHANGED <<cache, stream, job, handed, clean, solo, placementVars>>
        /\ step' = [step EXCEPT ![c] = "idle"]
        /\ \E v \in Verdicts : verdict' = [verdict EXCEPT ![c] = v]
        /\ step[c] \in {"reread", "send", "lookup", "placing"}
        /\ step[c] = "placing" => outcome[c] # "handle" /\ pc[c] = "idle"
    BY <1>2 DEF RereadCreated, RereadRestored, Send, PlacementRaised, Finish, At, Verdicts
  <2> QED
    BY <1>1, <2>1, PlacementStays DEF OwnShape, OneMoves
<1>3. CASE LookupHit(c) \/ Reget(c)
  <2>1. /\ UNCHANGED <<cache, stream, job, clean, solo, placementVars>>
        /\ step[c] \in {"reread", "lookup"} /\ job[c] = "deliver"
        /\ \/ Proceed(c, "send") /\ cache # NoRuntime /\ handed' = [handed EXCEPT ![c] = cache]
           \/ Finish(c, "nohandle") /\ UNCHANGED handed
    BY <1>3, ServiceFacts DEF LookupHit, Reget, Fits
  <2> QED
    BY <1>1, <2>1, PlacementStays DEF OwnShape, OneMoves, Proceed, Finish, At
<1> QED
  BY <1>2, <1>3

\* A request that ends, or that finds a handle, leaves the agreement.
LEMMA OwnKeeps ==
  ASSUME ServiceInv, NEW c \in Callers,
         \/ RereadCreated(c) \/ RereadRestored(c) \/ Send(c) \/ LookupHit(c) \/ Reget(c)
         \/ PlacementRaised(c)
  PROVE  Control' /\ Endings' /\ Booted' /\ Settled'
<1>1. /\ OwnShape(c) /\ step[c] \in {"reread", "send", "lookup", "placing"}
      /\ step'[c] = "send" => /\ cache # NoRuntime /\ handed'[c] = cache
                              /\ job[c] = "deliver"
      /\ step[c] = "placing" => outcome[c] # "handle" /\ pc[c] = "idle"
  BY OwnSteps
<1>2. /\ UNCHANGED <<record, live, cache, stream, future, pc, ticket, outcome, job, solo, clean>>
      /\ OneMoves(c) /\ step'[c] \in {"idle", "send"}
  BY <1>1, PlacementStays DEF OwnShape
<1>3. Fits(c)'
  BY <1>1, <1>2, ServiceFacts DEF Fits, Leaving
<1>4. pc[c] = "idle" /\ pc'[c] = "idle"
  BY <1>1, <1>2, ServiceFacts
<1>5. ASSUME Steady PROVE Agreed'
  <2>1. Agreed
    BY <1>5, ServiceFacts DEF Settled
  <2>2. ~Storing(c)
    BY <1>1, <1>4 DEF Storing
  <2>3. Relies(c)'
    <3>1. ~Promised(c)' /\ Lone(c)'
      BY <1>2 DEF Promised, Lone
    <3>2. step'[c] = "send" => handed'[c] \in live'
      BY <1>1, <1>2, <2>1 DEF Agreed
    <3> QED
      BY <1>2, <1>4, <3>1, <3>2 DEF Relies
  <2> QED
    BY <1>2, <1>4, <2>1, <2>2, <2>3, PlainAgrees
<1> QED
  BY <1>1, <1>2, <1>3, <1>5, Serving

\* A delivery without a cached handle, and the boot, turn to the placement.
LEMMA ReviveKeeps ==
  ASSUME ServiceInv, NEW c \in Callers, Revive(c) \/ WarmResume(c)
  PROVE  Control' /\ Endings' /\ Booted' /\ Settled'
<1>1. /\ job \in [Callers -> Jobs] /\ step \in [Callers -> JobSteps]
      /\ handed \in [Callers -> Claims \cup {NoRuntime}] /\ verdict \in [Callers -> Verdicts]
      /\ pc \in [Callers -> Steps]
  BY ServiceFacts DEF Typed, TypeOK
<1>2. /\ UNCHANGED <<cache, stream, job, handed, clean, solo>> /\ ResumeTeam(c)
      /\ Proceed(c, "placing")
      /\ \/ step[c] = "lookup" /\ cache = NoRuntime
         \/ step[c] = "revive"
  BY DEF Revive, WarmResume, AskPlacement
<1>3. PlaceMoves(c)
  BY <1>2, CallMoves, ServiceFacts
<1>4. /\ UNCHANGED <<record, live, cache, stream, future, job, solo, clean>> /\ OneMoves(c)
      /\ step'[c] = "placing" /\ pc'[c] = "owner" /\ verdict'[c] = "none"
  BY <1>1, <1>2, <1>3 DEF ResumeTeam, Begin, Goto, teamVars, OneMoves, Proceed, At
<1>5. pc[c] = "idle" /\ Fits(c)
  BY <1>2, ServiceFacts
<1>6. Fits(c)'
  BY <1>2, <1>4, <1>5 DEF Fits, Leaving
<1>7. ASSUME Steady PROVE Agreed'
  <2>1. Agreed
    BY <1>7, ServiceFacts DEF Settled
  <2>2. ~Storing(c) /\ ~Promised(c)'
    BY <1>2, <1>4 DEF Storing, Promised
  <2>3. ASSUME solo = c, job[c] = "deliver" PROVE record = "stopped"
    <3>1. Busy = {c}
      BY <1>2, <2>3, ServiceFacts DEF Endings
    <3>2. step[c] = "lookup" /\ cache = NoRuntime
      BY <1>2, <1>5, <2>3 DEF Fits
    <3>3. record \notin {"absent", "deleted"}
      BY <2>1, <2>3, <3>2 DEF Agreed, Relies, Lone
    <3>4. record # "running"
      <4>1. \A d \in Callers : ~Storing(d)
        BY <3>1, <3>2 DEF Storing, Busy
      <4> QED
        BY <2>1, <3>2, <4>1 DEF Agreed
    <3> QED
      BY <3>3, <3>4, ServiceFacts DEF Statuses
  <2>4. Relies(c)'
    <3>1. Lone(c)'
      BY <1>4, <2>3 DEF Lone
    <3> QED
      BY <1>4, <2>2, <3>1 DEF Relies
  <2> QED
    BY <1>4, <1>5, <2>1, <2>2, <2>4, PlainAgrees
<1> QED
  BY <1>2, <1>4, <1>6, <1>7, Serving

\* What the placement's steps within a request leave alone.
LEMMA PlacingShape ==
  ASSUME ServiceInv, NEW c \in Callers,
         \/ PlacementBuilds(c) \/ PlacementReplays(c) \/ PlacementRefuses(c)
         \/ PlacementGivesUp(c) \/ PlacementGoesOn(c)
  PROVE  /\ step[c] = "placing" /\ UNCHANGED <<cache, job, step, handed, clean, solo>>
         /\ CallStep(c) \/ ParkTimeout(c)
         /\ OneMoves(c)
         /\ PlacementRefuses(c) \/ UNCHANGED verdict
<1>1. verdict \in [Callers -> Verdicts]
  BY ServiceFacts DEF Typed
<1>2. CallStep(c) \/ ParkTimeout(c)
  BY DEF PlacementBuilds, PlacementReplays, PlacementRefuses, PlacementGivesUp,
         PlacementGoesOn, CallStep
<1>3. PlaceMoves(c)
  BY <1>2, CallMoves, ServiceFacts
<1>4. /\ step[c] = "placing" /\ UNCHANGED <<cache, job, step, handed, clean, solo>>
      /\ UNCHANGED verdict \/ verdict' = [verdict EXCEPT ![c] = "refused"]
      /\ PlacementRefuses(c) \/ UNCHANGED verdict
  BY DEF PlacementBuilds, PlacementReplays, PlacementRefuses, PlacementGivesUp,
         PlacementGoesOn, ServiceOnly, serviceVars
<1> QED
  BY <1>1, <1>2, <1>3, <1>4 DEF OneMoves

\* Whatever step of the placement it is, all but the agreement is kept by its kind.
LEMMA PlacingKeeps ==
  ASSUME ServiceInv, NEW c \in Callers,
         \/ PlacementBuilds(c) \/ PlacementReplays(c) \/ PlacementRefuses(c)
         \/ PlacementGivesUp(c) \/ PlacementGoesOn(c),
         Agreed => Agreed'
  PROVE  Control' /\ Endings' /\ Booted' /\ Settled'
<1>1. /\ step[c] = "placing" /\ UNCHANGED <<cache, job, step, handed, clean, solo>>
      /\ OneMoves(c)
  BY PlacingShape
<1>2. Fits(c)'
  BY <1>1, ServiceFacts DEF Fits
<1>3. Steady => Agreed'
  BY ServiceFacts DEF Settled
<1> QED
  BY <1>1, <1>2, <1>3, Serving

\* A resolved claim has a handle only if its runtime lives.
LEMMA DoneIsPromised ==
  ASSUME ServiceInv, Agreed, inFlight # NoClaim, future[inFlight] = "done"
  PROVE  inFlight \in live
<1>1. PICK h \in Callers : pc[h] \in Holding /\ ticket[h] = inFlight
  BY ServiceFacts DEF ClaimIsHeld
<1>2. pc[h] = "release"
  BY <1>1, ServiceFacts DEF Futures, Holding
<1>3. Promised(h)
  BY <1>1, <1>2, ServiceFacts DEF Promised
<1> QED
  BY <1>1, <1>3 DEF Agreed, Relies

\* The steps that change neither the team nor a future: they go on with what
\* was promised, and promise nothing that is not there.
LEMMA GoesOnAgrees ==
  ASSUME ServiceInv, NEW c \in Callers, Agreed, step[c] = "placing",
         \/ ReadOwner(c) \/ RefuseExisting(c) \/ Claim(c) \/ Park(c) \/ RefuseForeign(c)
         \/ Release(c) \/ Unpark(c) \/ ParkTimeout(c) \/ ResumeRefused(c),
         OneMoves(c), UNCHANGED <<cache, stream, job, step, handed, solo>>,
         UNCHANGED verdict \/ ResumeRefused(c)
  PROVE  Agreed'
<1>1. /\ pc \in [Callers -> Steps] /\ ticket \in [Callers -> Claims \cup {NoClaim}]
      /\ outcome \in [Callers -> {"none", "handle", "conflict", "failed", "timeout"}]
  BY ServiceFacts DEF TypeOK
<1>2. Relies(c)
  BY DEF Agreed
<1>3. UNCHANGED <<record, live, future>>
  BY DEF ReadOwner, RefuseExisting, Claim, Park, RefuseForeign, Release, Unpark,
         ParkTimeout, ResumeRefused, teamVars
<1>4. pc[c] \notin {"reviving", "built"} /\ pc'[c] \notin {"reviving", "built"}
  BY <1>1 DEF ReadOwner, RefuseExisting, Claim, Park, RefuseForeign, Release,
              Unpark, ParkTimeout, ResumeRefused, Return, Goto, Admitted
<1>5. Storing(c) => Storing(c)'
  <2>1. CASE Release(c)
    BY <1>1, <2>1 DEF Storing, Release, Goto
  <2>2. CASE ~Release(c)
    <3>1. pc[c] \notin {"idle", "release"}
      BY <2>2 DEF ReadOwner, RefuseExisting, Claim, Park, RefuseForeign, Unpark,
                  ParkTimeout, ResumeRefused, Admitted
    <3> QED
      BY <1>4, <3>1 DEF Storing
  <2> QED
    BY <2>1, <2>2
<1>6. ASSUME Promised(c)' PROVE ticket'[c] \in live
  <2>1. CASE ReadOwner(c) \/ Claim(c) \/ ResumeRefused(c)
    BY <1>1, <1>6, <2>1 DEF Promised, ReadOwner, Claim, ResumeRefused, Goto
  <2>2. CASE RefuseExisting(c) \/ RefuseForeign(c) \/ ParkTimeout(c)
    BY <1>1, <1>6, <2>2 DEF Promised, RefuseExisting, RefuseForeign, ParkTimeout, Return, Goto
  <2>3. CASE Park(c)
    <3>1. pc'[c] = "park" /\ ticket'[c] = inFlight /\ inFlight # NoClaim
      BY <1>1, <2>3 DEF Park, Goto
    <3>2. future[inFlight] = "done"
      BY <1>3, <1>6, <3>1 DEF Promised
    <3> QED
      BY <3>1, <3>2, DoneIsPromised
  <2>4. CASE Release(c)
    <3>1. pc[c] = "release" /\ pc'[c] = "idle" /\ UNCHANGED <<outcome, ticket>>
      BY <1>1, <2>4 DEF Release, Goto
    <3>2. Promised(c)
      BY <1>6, <3>1 DEF Promised
    <3> QED
      BY <1>2, <3>1, <3>2 DEF Relies
  <2>5. CASE Unpark(c)
    <3>1. /\ pc[c] = "park" /\ pc'[c] = "idle" /\ UNCHANGED ticket
          /\ outcome'[c] = IF future[ticket[c]] = "done" THEN "handle" ELSE "failed"
      BY <1>1, <2>5 DEF Unpark, Return, Goto
    <3>2. Promised(c)
      BY <1>6, <3>1 DEF Promised
    <3> QED
      BY <1>2, <3>1, <3>2 DEF Relies
  <2> QED
    BY <2>1, <2>2, <2>3, <2>4, <2>5
<1>7. Lone(c)'
  <2>1. CASE ResumeRefused(c)
    <3>1. pc[c] = "run" /\ record # "stopped"
      BY <2>1 DEF ResumeRefused
    <3> QED
      BY <1>2, <3>1 DEF Relies, Lone
  <2>2. CASE ReadOwner(c) \/ Claim(c)
    <3>1. pc[c] \in {"owner", "claim"} /\ UNCHANGED <<record, verdict>>
      BY <1>3, <2>2 DEF ReadOwner, Claim, Admitted, ResumeRefused
    <3> QED
      BY <1>2, <3>1 DEF Relies, Lone
  <2>3. CASE ~(ResumeRefused(c) \/ ReadOwner(c) \/ Claim(c))
    <3>1. pc'[c] \notin {"owner", "claim", "run"} /\ UNCHANGED verdict
      BY <1>1, <2>3 DEF RefuseExisting, Park, RefuseForeign, Release, Unpark,
                        ParkTimeout, Return, Goto
    <3> QED
      BY <1>2, <3>1 DEF Relies, Lone
  <2> QED
    BY <2>1, <2>2, <2>3
<1>8. Relies(c)'
  <2>1. step'[c] = "placing"
    OBVIOUS
  <2> QED
    BY <1>3, <1>4, <1>6, <1>7, <2>1 DEF Relies
<1> QED
  BY <1>3, <1>4, <1>5, <1>8, PlainAgrees

\* While a call holds the key no other does.
LEMMA SoleHolder ==
  ASSUME ServiceInv, NEW c \in Callers, pc[c] \in Holding, NEW d \in Callers \ {c}
  PROVE  pc[d] \notin Holding
BY ServiceFacts DEF ClaimIsHeld

\* Resolving a claim hands its runtime to those parked on it.
LEMMA ResolveAgrees ==
  ASSUME ServiceInv, NEW c \in Callers, Agreed, step[c] = "placing", Resolve(c), OneMoves(c),
         UNCHANGED <<cache, stream, job, step, handed, verdict, solo>>
  PROVE  Agreed'
<1>1. /\ pc \in [Callers -> Steps] /\ ticket \in [Callers -> Claims \cup {NoClaim}]
      /\ outcome \in [Callers -> {"none", "handle", "conflict", "failed", "timeout"}]
      /\ future \in [Claims -> {"pending", "done", "failed"}]
      /\ \A d \in Callers : pc[d] \in Holding \cup {"park"} => ticket[d] \in Claims
  BY ServiceFacts, PlacementAssumption DEF TypeOK, Claims
<1>2. /\ pc[c] \in {"built", "broken"} /\ pc'[c] = "release"
      /\ UNCHANGED <<ticket, record, live>>
      /\ outcome'[c] = IF pc[c] = "built" THEN "handle" ELSE "failed"
      /\ \A t \in Claims : t # ticket[c] => future'[t] = future[t]
      /\ pc[c] # "built" => future'[ticket[c]] # "done"
  BY <1>1 DEF Resolve, Goto, teamVars, Holding
<1>3. pc[c] = "built" => ticket[c] \in live
  BY DEF Agreed, Relies, Promised
<1>4. Relies(c)'
  <2>1. Promised(c)' => pc[c] = "built"
    BY <1>2 DEF Promised
  <2>2. Lone(c)'
    <3>1. Lone(c) /\ step'[c] = "placing"
      BY DEF Agreed, Relies
    <3> QED
      BY <1>2, <3>1 DEF Lone
  <2> QED
    BY <1>2, <1>3, <2>1, <2>2 DEF Relies
<1>5. ASSUME NEW d \in Callers \ {c} PROVE Relies(d)'
  <2>1. /\ step'[d] = step[d] /\ job'[d] = job[d] /\ handed'[d] = handed[d]
        /\ verdict'[d] = verdict[d] /\ pc'[d] = pc[d] /\ ticket'[d] = ticket[d]
        /\ outcome'[d] = outcome[d]
    BY DEF OneMoves, PlaceMoves
  <2>2. Relies(d) /\ pc[d] \notin Holding
    BY <1>2, SoleHolder DEF Agreed, Holding
  <2>3. Promised(d)' => ticket'[d] \in live
    <3>1. CASE pc[d] = "park" /\ ticket[d] = ticket[c]
      BY <1>2, <1>3, <2>1, <3>1 DEF Promised
    <3>2. CASE pc[d] = "park" /\ ticket[d] # ticket[c]
      BY <1>1, <1>2, <2>1, <2>2, <3>2 DEF Promised, Relies
    <3>3. CASE pc[d] # "park"
      BY <2>1, <2>2, <3>3 DEF Promised, Relies, Holding
    <3> QED
      BY <3>1, <3>2, <3>3
  <2>4. Lone(d)'
    BY <1>2, <2>1, <2>2 DEF Relies, Lone
  <2> QED
    BY <1>2, <2>1, <2>2, <2>3, <2>4 DEF Relies
<1>6. \A d \in Callers : Storing(d) => Storing(d)'
  BY <1>2 DEF Storing, OneMoves, PlaceMoves
<1> QED
  BY <1>2, <1>4, <1>5, <1>6 DEF Agreed

\* Without a runtime nobody else has been given anything; so nobody minds what
\* the holder of the key does to the team.
LEMMA OthersWaitFor ==
  ASSUME ServiceInv, NEW c \in Callers, Agreed, pc[c] \in {"run", "reviving"}, live = {},
         OneMoves(c), UNCHANGED <<cache, job, step, handed, verdict, solo, future>>
  PROVE  cache = NoRuntime /\ \A d \in Callers \ {c} : Relies(d)'
<1>1. cache = NoRuntime
  BY DEF Agreed
<1>2. ASSUME NEW d \in Callers \ {c} PROVE Relies(d)'
  <2>1. /\ step'[d] = step[d] /\ job'[d] = job[d] /\ handed'[d] = handed[d]
        /\ verdict'[d] = verdict[d] /\ pc'[d] = pc[d] /\ ticket'[d] = ticket[d]
        /\ outcome'[d] = outcome[d]
    BY DEF OneMoves, PlaceMoves
  <2>2. Relies(d) /\ pc[d] # "reviving"
    BY SoleHolder DEF Agreed, Holding
  <2>3. ~Promised(d)'
    BY <2>1, <2>2 DEF Promised, Relies
  <2>4. step[d] \notin {"reread", "send"}
    BY <1>1, <2>2 DEF Relies
  <2>5. Lone(d)'
    <3>1. CASE step[d] # "idle" /\ solo = d
      <4>1. Busy = {d} /\ step[c] = "placing"
        BY <3>1, ServiceFacts DEF Endings
      <4> QED
        BY <4>1 DEF Busy
    <3>2. CASE ~(step[d] # "idle" /\ solo = d)
      BY <2>1, <3>2 DEF Lone
    <3> QED
      BY <3>1, <3>2
  <2> QED
    BY <2>1, <2>2, <2>3, <2>4, <2>5 DEF Relies
<1> QED
  BY <1>1, <1>2

\* A runtime that is built is its team's only one, and its events are in the stream.
LEMMA BuildsAgrees ==
  ASSUME ServiceInv, NEW c \in Callers, Agreed, step[c] = "placing",
         \/ Build(c) /\ stream' = stream \cup {ticket[c]}
         \/ ResumeBuilds(c) /\ UNCHANGED stream,
         OneMoves(c), UNCHANGED <<cache, job, step, handed, verdict, solo>>
  PROVE  Agreed'
<1>1. /\ pc \in [Callers -> Steps] /\ pc[c] \in {"run", "reviving"} /\ pc'[c] = "built"
      /\ record' = "running" /\ live' = live \cup {ticket[c]} /\ UNCHANGED <<ticket, future>>
  BY ServiceFacts DEF TypeOK, Build, ResumeBuilds, Goto
<1>2. live = {}
  <2>1. record # "running"
    BY ServiceFacts DEF PlacementInv, AdmissionHolds, Build, ResumeBuilds
  <2> QED
    BY <2>1, ServiceFacts DEF OneRuntime
<1>3. ticket[c] \in stream'
  BY DEF ResumeBuilds, Agreed, Relies
<1>4. cache = NoRuntime /\ \A d \in Callers \ {c} : Relies(d)'
  BY <1>1, <1>2, OthersWaitFor
<1>5. Relies(c)'
  <2>1. Lone(c)'
    <3>1. Lone(c)
      BY DEF Agreed, Relies
    <3> QED
      BY <1>1, <3>1 DEF Lone
  <2> QED
    BY <1>1, <2>1 DEF Relies
<1>6. Storing(c)'
  BY <1>1 DEF Storing
<1> QED
  BY <1>1, <1>2, <1>3, <1>4, <1>5, <1>6 DEF Agreed

\* A resume that begins adds its replay to the stream.
LEMMA BeginsAgrees ==
  ASSUME ServiceInv, NEW c \in Callers, Agreed, step[c] = "placing",
         ResumeBegins(c), stream' = stream \cup {ticket[c]},
         OneMoves(c), UNCHANGED <<cache, job, step, handed, verdict, solo>>
  PROVE  Agreed'
<1>1. /\ pc \in [Callers -> Steps] /\ pc[c] = "run" /\ pc'[c] = "reviving"
      /\ record = "stopped" /\ UNCHANGED <<record, live, ticket, future>>
  BY ServiceFacts DEF TypeOK, ResumeBegins, Goto, teamVars
<1>2. live = {}
  BY <1>1, ServiceFacts DEF OneRuntime
<1>3. cache = NoRuntime /\ \A d \in Callers \ {c} : Relies(d)'
  BY <1>1, <1>2, OthersWaitFor
<1>4. Relies(c)'
  <2>1. ~Promised(c)'
    BY <1>1 DEF Promised
  <2>2. Lone(c)'
    <3>1. Lone(c)
      BY DEF Agreed, Relies
    <3> QED
      BY <1>1, <3>1 DEF Lone
  <2> QED
    BY <1>1, <2>1, <2>2 DEF Relies
<1> QED
  BY <1>1, <1>2, <1>3, <1>4 DEF Agreed

\* A resume or a creation that fails leaves in the stream what it has put there.
LEMMA GivesUpAgrees ==
  ASSUME ServiceInv, NEW c \in Callers, Agreed, step[c] = "placing",
         \/ BuildFails(c) /\ stream' \in {stream, stream \cup {ticket[c]}}
         \/ ResumeFails(c) /\ UNCHANGED stream,
         OneMoves(c), UNCHANGED <<cache, job, step, handed, verdict, solo>>
  PROVE  Agreed'
<1>1. /\ pc \in [Callers -> Steps] /\ pc[c] \in {"run", "reviving"} /\ pc'[c] = "broken"
      /\ UNCHANGED <<record, live, ticket, future>>
  BY ServiceFacts DEF TypeOK, BuildFails, ResumeFails, Goto, teamVars
<1>2. record # "running"
  BY <1>1, ServiceFacts DEF PlacementInv, AdmissionHolds, BuildFails, ResumeFails
<1>3. live = {}
  BY <1>2, ServiceFacts DEF OneRuntime
<1>4. cache = NoRuntime /\ \A d \in Callers \ {c} : Relies(d)'
  BY <1>1, <1>3, OthersWaitFor
<1>6. Relies(c)'
  <2>1. ~Promised(c)'
    BY <1>1 DEF Promised
  <2>2. Lone(c)'
    <3>1. Lone(c)
      BY DEF Agreed, Relies
    <3> QED
      BY <1>1, <3>1 DEF Lone
  <2> QED
    BY <1>1, <2>1, <2>2 DEF Relies
<1> QED
  BY <1>1, <1>2, <1>3, <1>4, <1>6 DEF Agreed

\* The steps of a placement call within a request keep the invariant.
LEMMA PlacementKeeps ==
  ASSUME ServiceInv, NEW c \in Callers,
         \/ PlacementBuilds(c) \/ PlacementReplays(c) \/ PlacementRefuses(c)
         \/ PlacementGivesUp(c) \/ PlacementGoesOn(c)
  PROVE  Control' /\ Endings' /\ Booted' /\ Settled'
<1> SUFFICES ASSUME Agreed PROVE Agreed'
  BY PlacingKeeps
<1>1. /\ step[c] = "placing" /\ UNCHANGED <<cache, job, step, handed, clean, solo>>
      /\ OneMoves(c) /\ (PlacementRefuses(c) \/ UNCHANGED verdict)
  BY PlacingShape
<1>2. CASE PlacementBuilds(c)
  <2>1. /\ Build(c) /\ stream' = stream \cup {ticket[c]}
        /\ UNCHANGED <<cache, job, step, handed, verdict, solo>>
    BY <1>2 DEF PlacementBuilds
  <2> QED
    BY <1>1, <2>1, BuildsAgrees
<1>3. CASE PlacementReplays(c)
  BY <1>1, <1>3, BeginsAgrees DEF PlacementReplays
<1>4. CASE PlacementRefuses(c)
  BY <1>1, <1>4, GoesOnAgrees DEF PlacementRefuses
<1>5. CASE PlacementGivesUp(c)
  BY <1>1, <1>5, GivesUpAgrees DEF PlacementGivesUp
<1>6. CASE PlacementGoesOn(c)
  <2>1. UNCHANGED <<cache, stream, job, step, handed, verdict, solo>>
    BY <1>6 DEF PlacementGoesOn, serviceVars
  <2>2. CASE Resolve(c)
    BY <1>1, <2>1, <2>2, ResolveAgrees
  <2>3. CASE ResumeBuilds(c)
    BY <1>1, <2>1, <2>3, BuildsAgrees
  <2>4. CASE ~(Resolve(c) \/ ResumeBuilds(c))
    BY <1>1, <1>6, <2>1, <2>4, GoesOnAgrees DEF PlacementGoesOn
  <2> QED
    BY <2>2, <2>3, <2>4
<1> QED
  BY <1>2, <1>3, <1>4, <1>5, <1>6

\* Storing the handle of a live runtime is what the others were waiting for.
LEMMA StoreKeeps ==
  ASSUME ServiceInv, NEW c \in Callers, Store(c)
  PROVE  Control' /\ Endings' /\ Booted' /\ Settled'
<1>1. step \in [Callers -> JobSteps] /\ verdict \in [Callers -> Verdicts]
  BY ServiceFacts DEF Typed
<1>2. /\ step[c] = "placing" /\ pc[c] = "idle" /\ outcome[c] = "handle" /\ cache' = ticket[c]
      /\ UNCHANGED <<stream, job, handed, clean, solo, placementVars>>
  BY DEF Store
<1>3. /\ step'[c] = IF job[c] = "warm" THEN "idle" ELSE "reread"
      /\ OneMoves(c)
  BY <1>1, <1>2, PlacementStays DEF Store, Finish, Proceed, At, OneMoves
<1>4. UNCHANGED <<record, live, future, pc, ticket, outcome>>
  BY <1>2, PlacementStays
<1>5. Fits(c)'
  BY <1>2, <1>3, ServiceFacts DEF Fits, Leaving
<1>6. ASSUME Steady PROVE Agreed'
  <2>1. Agreed
    BY <1>6, ServiceFacts DEF Settled
  <2>2. cache' \in live
    BY <1>2, <2>1 DEF Agreed, Relies, Promised
  <2>3. cache' # NoRuntime
    BY <2>2, ServiceFacts DEF Claims, NoRuntime, NoClaim
  <2>4. ASSUME NEW d \in Callers PROVE Relies(d)'
    <3>1. CASE d = c
      BY <1>2, <1>3, <1>4, <2>3, <3>1 DEF Relies, Promised, Lone
    <3>2. CASE d # c
      <4>1. /\ step'[d] = step[d] /\ job'[d] = job[d] /\ handed'[d] = handed[d]
            /\ verdict'[d] = verdict[d]
        BY <1>3, <3>2 DEF OneMoves
      <4>2. Promised(d)' => Promised(d)
        BY <1>4, <4>1 DEF Promised
      <4>3. Relies(d)
        BY <2>1 DEF Agreed
      <4>4. Lone(d)'
        BY <1>2, <1>4, <4>1, <4>3 DEF Relies, Lone
      <4> QED
        BY <1>2, <1>4, <2>3, <4>1, <4>2, <4>3, <4>4 DEF Relies
    <3> QED
      BY <3>1, <3>2
  <2> QED
    BY <1>2, <1>4, <2>1, <2>2, <2>3, <2>4 DEF Agreed
<1> QED
  BY <1>2, <1>3, <1>5, <1>6, Serving

-----------------------------------------------------------------------------
(* The endings and the boot *)

\* What a stop, a delete and the boot leave alone.
LEMMA EndShape ==
  ASSUME ServiceInv, NEW c \in Callers,
         \/ Halt(c) \/ HaltRefused(c) \/ Evict(c) \/ Unstream(c) \/ Erase(c)
         \/ EraseRefused(c) \/ ClearTrees(c) \/ WarmList(c) \/ WarmSkips(c)
  PROVE  /\ OneMoves(c) /\ UNCHANGED <<job, solo, pc, ticket, outcome, future>>
         /\ step[c] \in Leaving \cup {"stopping", "list"} /\ pc[c] = "idle" /\ Fits(c)
<1>1. /\ job \in [Callers -> Jobs] /\ step \in [Callers -> JobSteps]
      /\ verdict \in [Callers -> Verdicts]
  BY ServiceFacts DEF Typed
<1>2. /\ UNCHANGED <<job, handed, solo>> /\ step[c] \in Leaving \cup {"stopping", "list"}
      /\ UNCHANGED placementVars \/ StopTeam \/ DeleteTeam
      /\ \E s \in JobSteps, v \in Verdicts :
           step' = [step EXCEPT ![c] = s] /\ verdict' = [verdict EXCEPT ![c] = v]
  <2>1. CASE Halt(c) \/ WarmList(c)
    BY <2>1 DEF Halt, WarmList, Proceed, Finish, At, JobSteps, Verdicts
  <2>2. CASE Evict(c) \/ Erase(c)
    BY <2>2 DEF Evict, Erase, Proceed, At, JobSteps, Verdicts, Leaving
  <2>3. CASE HaltRefused(c) \/ EraseRefused(c) \/ ClearTrees(c) \/ WarmSkips(c)
    BY <2>3 DEF HaltRefused, EraseRefused, ClearTrees, WarmSkips, Finish, At, JobSteps,
                Verdicts, Leaving
  <2>4. CASE Unstream(c)
    BY <2>4 DEF Unstream, Proceed, Finish, At, JobSteps, Verdicts, Leaving
  <2> QED
    BY <2>1, <2>2, <2>3, <2>4
<1>3. UNCHANGED <<pc, op, ticket, outcome, future>>
  BY <1>2, PlacementStays DEF StopTeam, DeleteTeam, callVars
<1>4. pc[c] = "idle" /\ Fits(c)
  BY <1>2, ServiceFacts DEF Leaving
<1> QED
  BY <1>1, <1>2, <1>3, <1>4 DEF OneMoves, PlaceMoves

\* An ending that nothing has met has taken the team down as far as its step says.
LEMMA TakenDown ==
  ASSUME ServiceInv, NEW c \in Callers, job[c] \in Ending, step[c] # "idle",
         clean \/ solo = c
  PROVE  Busy = {c} /\ Takedown(c)
BY ServiceFacts DEF Endings

\* The boot's step leaves only itself; so does that of an ending that runs alone.
LEMMA AloneAtRest ==
  ASSUME ServiceInv, NEW c \in Callers, OneMoves(c), UNCHANGED pc, pc[c] = "idle",
         Busy = {c}, step'[c] \in {"idle", "revive"},
         record' # "running", cache' = NoRuntime, live' = {}
  PROVE  Agreed'
<1>1. ASSUME NEW d \in Callers PROVE step'[d] \in {"idle", "revive"} /\ pc'[d] = "idle"
  <2>1. CASE d = c
    BY <2>1
  <2>2. CASE d # c
    <3>1. step[d] = "idle"
      BY <2>2 DEF Busy
    <3>2. pc[d] = "idle"
      BY <3>1, ServiceFacts
    <3> QED
      BY <2>2, <3>1, <3>2 DEF OneMoves
  <2> QED
    BY <2>1, <2>2
<1> QED
  BY <1>1, RestAgrees

\* A step of the boot: nothing runs beside it, and nothing is left of before.
LEMMA Booting ==
  ASSUME ServiceInv, NEW c \in Callers, job[c] = "warm", step[c] \in {"list", "stopping"}
  PROVE  c = Main /\ Busy = {c} /\ live = {} /\ cache = NoRuntime /\ stream = {}
<1>1. c = Main
  BY ServiceFacts DEF Fits
<1> QED
  BY <1>1, ServiceFacts DEF Control, Booted

\* worker_handle.stop_team within a stop, a delete or the boot.
LEMMA HaltKeeps ==
  ASSUME ServiceInv, NEW c \in Callers, Halt(c)
  PROVE  Control' /\ Endings' /\ Booted' /\ Settled'
<1>1. /\ OneMoves(c) /\ UNCHANGED <<job, solo, pc>> /\ pc[c] = "idle" /\ Fits(c)
  BY EndShape
<1>2. step \in [Callers -> JobSteps]
  BY ServiceFacts DEF Typed
<1>3. /\ step[c] = "stopping" /\ record' = "stopped" /\ stream' = {} /\ live' = {}
      /\ UNCHANGED <<cache, clean>>
      /\ step'[c] = IF job[c] = "warm" THEN "revive" ELSE "evict"
  BY <1>2 DEF Halt, StopTeam, Proceed, At
<1>4. Fits(c)'
  BY <1>1, <1>3 DEF Fits, Leaving
<1>5. job[c] # "warm" => job[c] \in Ending
  BY <1>1, <1>3 DEF Fits
<1>6. Control'
  BY <1>1, <1>3, <1>4, ControlNext
<1>7. Endings'
  <2>1. job[c] \in Ending => Takedown(c)'
    BY <1>3 DEF Takedown, Leaving, Ending
  <2> QED
    BY <1>1, <1>3, <2>1, EndingsNext
<1>8. Booted'
  BY <1>1, <1>3, BootedNext
<1>9. Steady' => Agreed'
  <2>1. CASE job[c] = "warm"
    BY <1>1, <1>3, <2>1, Booting, AloneAtRest
  <2>2. CASE job[c] # "warm"
    BY <1>3, <2>2 DEF Steady, Leaving
  <2> QED
    BY <2>1, <2>2
<1> QED
  BY <1>6, <1>7, <1>8, <1>9 DEF Settled

\* An ending whose stop or delete is refused, and a team the boot skips.
LEMMA RefusedKeeps ==
  ASSUME ServiceInv, NEW c \in Callers, HaltRefused(c) \/ EraseRefused(c) \/ WarmSkips(c)
  PROVE  Control' /\ Endings' /\ Booted' /\ Settled'
<1>1. /\ OneMoves(c) /\ UNCHANGED <<job, solo, pc>> /\ pc[c] = "idle" /\ Fits(c)
  BY EndShape
<1>2. step \in [Callers -> JobSteps]
  BY ServiceFacts DEF Typed
<1>3. /\ step[c] \in {"stopping", "erase"} /\ step'[c] = "idle"
      /\ UNCHANGED <<cache, record, live>> /\ (UNCHANGED clean \/ clean' = FALSE)
  BY <1>2, PlacementStays DEF HaltRefused, EraseRefused, WarmSkips, Finish, At
<1>4. Fits(c)'
  BY <1>1, <1>3 DEF Fits, Leaving
<1>5. Control'
  BY <1>1, <1>3, <1>4, ControlNext
<1>6. Endings'
  BY <1>1, <1>3, EndingsNext
<1>7. Booted'
  BY <1>1, <1>3, BootedNext
<1>8. ASSUME Steady' PROVE Agreed'
  <2>1. clean /\ ~WarmSkips(c)
    BY <1>3, <1>8 DEF Steady, WarmSkips
  <2>2. \/ step[c] = "stopping" /\ record # "running"
        \/ step[c] = "erase" /\ record # "stopped"
    BY <2>1 DEF HaltRefused, EraseRefused
  <2>3. job[c] \notin Ending
    BY <1>3, <2>1, <2>2, TakenDown DEF Takedown
  <2>4. job[c] = "warm" /\ step[c] = "stopping"
    BY <1>1, <1>3, <2>3 DEF Fits, Leaving
  <2> QED
    BY <1>1, <1>3, <2>2, <2>4, Booting, AloneAtRest
<1> QED
  BY <1>5, <1>6, <1>7, <1>8 DEF Settled

\* The steps between a stop or delete and its end.
LEMMA LeavingKeeps ==
  ASSUME ServiceInv, NEW c \in Callers, Evict(c) \/ Erase(c) \/ (Unstream(c) /\ job[c] # "stop")
  PROVE  Control' /\ Endings' /\ Booted' /\ Settled'
<1>1. /\ OneMoves(c) /\ UNCHANGED <<job, solo, pc>> /\ pc[c] = "idle" /\ Fits(c)
  BY EndShape
<1>2. step \in [Callers -> JobSteps]
  BY ServiceFacts DEF Typed
<1>3. /\ step[c] \in Leaving /\ step'[c] \in {"unstream", "erase", "clear"} /\ UNCHANGED clean
  BY <1>2 DEF Evict, Erase, Unstream, Proceed, At, Leaving
<1>4. job[c] \in Ending
  BY <1>1, <1>3 DEF Fits
<1>5. Fits(c)'
  BY <1>1, <1>3, <1>4 DEF Fits, Leaving, Ending
<1>6. step[c] # "idle"
  BY <1>3 DEF Leaving
<1>7. Control'
  BY <1>1, <1>5, <1>6, ControlNext
<1>8. ASSUME clean \/ solo = c PROVE Takedown(c)'
  <2>1. Takedown(c)
    BY <1>4, <1>6, <1>8, TakenDown
  <2>2. CASE Evict(c)
    <3>1. /\ step[c] = "evict" /\ step'[c] = "unstream" /\ cache' = NoRuntime
          /\ UNCHANGED record
      BY <1>2, <2>2, PlacementStays DEF Evict, Proceed, At
    <3> QED
      BY <2>1, <3>1 DEF Takedown, Leaving
  <2>3. CASE Unstream(c) /\ job[c] # "stop"
    <3>1. /\ step[c] = "unstream" /\ step'[c] = "erase" /\ stream' = {}
          /\ UNCHANGED <<cache, record>>
      BY <1>2, <2>3, PlacementStays DEF Unstream, Proceed, At
    <3> QED
      BY <2>1, <3>1 DEF Takedown, Leaving
  <2>4. CASE Erase(c)
    <3>1. /\ step[c] = "erase" /\ step'[c] = "clear" /\ UNCHANGED <<cache, stream>>
          /\ record' \in {"absent", "deleted"}
      BY <1>2, <2>4 DEF Erase, DeleteTeam, Proceed, At
    <3> QED
      BY <2>1, <3>1 DEF Takedown, Leaving
  <2> QED
    BY <2>2, <2>3, <2>4
<1>9. Endings'
  BY <1>1, <1>3, <1>6, <1>8, EndingsNext
<1>10. Booted'
  BY <1>1, <1>3, <1>6, BootedNext
<1>11. ~Steady'
  BY <1>3 DEF Steady, Leaving
<1> QED
  BY <1>7, <1>9, <1>10, <1>11 DEF Settled

\* The last step of a stop or delete: if it ran alone, all is as it should be.
LEMMA LastKeeps ==
  ASSUME ServiceInv, NEW c \in Callers, ClearTrees(c) \/ (Unstream(c) /\ job[c] = "stop")
  PROVE  Control' /\ Endings' /\ Booted' /\ Settled'
<1>1. /\ OneMoves(c) /\ UNCHANGED <<job, solo, pc>> /\ pc[c] = "idle" /\ Fits(c)
  BY EndShape
<1>2. step \in [Callers -> JobSteps]
  BY ServiceFacts DEF Typed
<1>3. /\ step[c] \in {"unstream", "clear"} /\ step'[c] = "idle" /\ clean' = (clean \/ solo = c)
      /\ UNCHANGED <<cache, record, live>>
  BY <1>2, PlacementStays DEF ClearTrees, Unstream, Finish, At
<1>4. job[c] \in Ending
  BY <1>1, <1>3 DEF Fits, Leaving
<1>5. Fits(c)'
  BY <1>1, <1>3 DEF Fits, Leaving
<1>6. Control'
  BY <1>1, <1>3, <1>5, ControlNext
<1>7. Endings'
  BY <1>1, <1>3, EndingsNext
<1>8. Booted'
  BY <1>1, <1>3, BootedNext
<1>9. ASSUME Steady' PROVE Agreed'
  <2>1. Busy = {c} /\ Takedown(c)
    BY <1>3, <1>4, <1>9, TakenDown DEF Steady
  <2>2. record # "running" /\ cache = NoRuntime /\ live = {}
    BY <1>3, <2>1, ServiceFacts DEF Takedown, Leaving, OneRuntime
  <2> QED
    BY <1>1, <1>3, <2>1, <2>2, AloneAtRest
<1> QED
  BY <1>6, <1>7, <1>8, <1>9 DEF Settled

\* The boot lists the team, or finds nothing to warm.
LEMMA ListKeeps ==
  ASSUME ServiceInv, NEW c \in Callers, WarmList(c)
  PROVE  Control' /\ Endings' /\ Booted' /\ Settled'
<1>1. /\ OneMoves(c) /\ UNCHANGED <<job, solo, pc>> /\ pc[c] = "idle" /\ Fits(c)
  BY EndShape
<1>2. step \in [Callers -> JobSteps]
  BY ServiceFacts DEF Typed
<1>3. /\ step[c] = "list" /\ UNCHANGED <<cache, stream, record, live, clean>>
      /\ step'[c] = IF record = "running" THEN "stopping" ELSE "idle"
  BY <1>2, PlacementStays DEF WarmList, Proceed, Finish, At
<1>4. job[c] = "warm"
  BY <1>1, <1>3 DEF Fits
<1>5. c = Main /\ Busy = {c} /\ live = {} /\ cache = NoRuntime /\ stream = {}
  BY <1>3, <1>4, Booting
<1>6. Control'
  <2>1. Fits(c)'
    BY <1>1, <1>3, <1>4 DEF Fits, Leaving
  <2> QED
    BY <1>1, <1>3, <2>1, ControlNext
<1>7. Endings'
  <2>1. job[c] \notin Ending
    BY <1>4 DEF Ending
  <2> QED
    BY <1>1, <1>3, <2>1, EndingsNext
<1>8. Booted'
  BY <1>3, <1>5 DEF Booted
<1>9. Steady' => Agreed'
  <2>1. CASE record = "running"
    BY <1>3, <1>5, <2>1 DEF Steady
  <2>2. CASE record # "running"
    BY <1>1, <1>3, <1>5, <2>2, AloneAtRest
  <2> QED
    BY <2>1, <2>2
<1> QED
  BY <1>6, <1>7, <1>8, <1>9 DEF Settled

\* The timer ends the team unseen, and from then on nothing is promised.
LEMMA TimerKeeps ==
  ASSUME ServiceInv, TimerStop
  PROVE  Control' /\ Endings' /\ Booted' /\ Settled'
<1>1. /\ step[Main] = "idle" /\ UNCHANGED <<job, step, cache>> /\ clean' = FALSE
      /\ solo' = Main /\ record = "running" /\ record' = "stopped"
  BY DEF TimerStop, StopTeam, Nobody
<1>2. Control'
  BY <1>1, ServiceFacts DEF Control, Fits, Busy
<1>3. Booted'
  BY <1>1 DEF Booted
<1>4. Endings'
  BY <1>1 DEF Endings
<1>5. ~Steady'
  BY <1>1 DEF Steady
<1> QED
  BY <1>2, <1>3, <1>4, <1>5 DEF Settled

\* A crash leaves the boot and nothing else.
LEMMA CrashKeeps ==
  ASSUME ServiceInv, Crash
  PROVE  Control' /\ Endings' /\ Booted' /\ Settled'
<1>1. Main \in Callers
  BY ServiceFacts, Copied
<1>2. /\ live' = {} /\ cache' = NoRuntime /\ stream' = {}
      /\ \A c \in Callers : /\ job'[c] = IF c = Main THEN "warm" ELSE "none"
                            /\ step'[c] = IF c = Main THEN "list" ELSE "idle"
  BY DEF Crash, Restart
<1>3. Busy' = {Main}
  BY <1>1, <1>2 DEF Busy
<1>4. Control'
  BY <1>1, <1>2, <1>3 DEF Control, Fits, Leaving
<1>5. Endings'
  <2>1. \A c \in Callers : job'[c] \notin Ending
    BY <1>2 DEF Ending
  <2>2. \A c \in Callers : step'[c] # "idle" => Busy' = {c}
    BY <1>2, <1>3
  <2> QED
    BY <2>1, <2>2 DEF Endings
<1>6. Booted'
  BY <1>2 DEF Booted
<1>7. ~Steady'
  BY <1>1, <1>2 DEF Steady
<1> QED
  BY <1>4, <1>5, <1>6, <1>7 DEF Settled

\* A server that has just been installed keeps the invariant.
LEMMA ServiceStarts ==
  ASSUME ServiceInit
  PROVE  ServiceInv
<1>1. /\ Init /\ cache = NoRuntime /\ stream = {} /\ live = {} /\ clean = TRUE
      /\ \A c \in Callers : job[c] = "none" /\ step[c] = "idle" /\ pc[c] = "idle"
      /\ record = "absent"
  BY DEF ServiceInit, Init
<1>2. Main \in Callers
  BY TeamLifecycleAssumption
<1>3. PlacementInv
  BY <1>1, InitInv
<1>4. ServiceTypeOK
  <2>1. TypeOK
    BY <1>3 DEF PlacementInv
  <2>2. 0 \in 0 .. MaxOps /\ 0 \in 0 .. MaxCrashes
    BY TeamLifecycleAssumption
  <2>3. Typed
    BY <1>2, <2>2 DEF Typed, ServiceInit, Jobs, JobSteps, Verdicts, Statuses, Nobody
  <2> QED
    BY <1>1, <2>1, <2>3, TypedIs
<1>5. Control /\ Endings /\ Booted
  BY <1>1, <1>2 DEF Control, Fits, Endings, Booted, Leaving, Ending
<1>6. Futures
  BY <1>1 DEF Futures, Init
<1>7. Settled
  <2>1. \A c \in Callers : Relies(c)
    BY <1>1 DEF Relies, Promised, Lone
  <2> QED
    BY <1>1, <2>1 DEF Settled, Agreed
<1>8. Leftovers /\ Restoring
  BY <1>1, <1>2 DEF Leftovers, Restoring, Threads
<1> QED
  BY <1>3, <1>4, <1>5, <1>6, <1>7, <1>8 DEF ServiceInv

\* The service's steps are the placement's or leave the placement alone.
LEMMA ServiceStep ==
  ASSUME [ServiceNext]_svars
  PROVE  [Next]_vars
<1>1. CASE \E c \in Threads : Arrive(c)
  BY <1>1, ArriveStep
<1>2. CASE \E c \in Callers : Serve(c)
  BY <1>2, ServeStep
<1>3. CASE TimerStop
  BY <1>3 DEF TimerStop, Next
<1>4. CASE Crash
  BY <1>4 DEF Crash, Next
<1>5. CASE UNCHANGED svars
  BY <1>5 DEF svars, placementVars, vars
<1> QED
  BY <1>1, <1>2, <1>3, <1>4, <1>5 DEF ServiceNext

\* Every step of a request under way keeps the invariant.
LEMMA ServeKeeps ==
  ASSUME ServiceInv, NEW c \in Callers, Serve(c)
  PROVE  Control' /\ Endings' /\ Booted' /\ Settled'
<1>1. CASE \/ RereadCreated(c) \/ RereadRestored(c) \/ Send(c) \/ LookupHit(c) \/ Reget(c)
           \/ PlacementRaised(c)
  BY <1>1, OwnKeeps
<1>2. CASE Revive(c) \/ WarmResume(c)
  BY <1>2, ReviveKeeps
<1>3. CASE \/ PlacementBuilds(c) \/ PlacementReplays(c) \/ PlacementRefuses(c)
           \/ PlacementGivesUp(c) \/ PlacementGoesOn(c)
  BY <1>3, PlacementKeeps
<1>4. CASE Store(c)
  BY <1>4, StoreKeeps
<1>5. CASE Halt(c)
  BY <1>5, HaltKeeps
<1>6. CASE HaltRefused(c) \/ EraseRefused(c) \/ WarmSkips(c)
  BY <1>6, RefusedKeeps
<1>7. CASE Evict(c) \/ Erase(c) \/ (Unstream(c) /\ job[c] # "stop")
  BY <1>7, LeavingKeeps
<1>8. CASE ClearTrees(c) \/ (Unstream(c) /\ job[c] = "stop")
  BY <1>8, LastKeeps
<1>9. CASE WarmList(c)
  BY <1>9, ListKeeps
<1> QED
  BY <1>1, <1>2, <1>3, <1>4, <1>5, <1>6, <1>7, <1>8, <1>9 DEF Serve

-----------------------------------------------------------------------------
(* What failed claims leave in the stream, and the restore that is alone *)

\* What is in the stream stays accounted for when a step leaves the futures
\* alone and its own claim, if that was to account for something, goes on.
LEMMA LeftoversStay ==
  ASSUME Leftovers, NEW c \in Callers, PlaceMoves(c), UNCHANGED future, live \subseteq live',
         stream' \subseteq stream \cup {ticket[c]},
         pc[c] \in {"reviving", "broken"} \/ stream' # stream =>
           UNCHANGED ticket /\ (pc'[c] \in {"reviving", "broken"} \/ ticket[c] \in live')
  PROVE  Leftovers'
<1> SUFFICES ASSUME NEW t \in stream', t \notin live'
             PROVE  future'[t] = "failed" \/ \E d \in Callers : Unsettled(d, t)'
  BY DEF Leftovers
<1>1. CASE t \notin stream
  <2>1. t = ticket[c] /\ UNCHANGED ticket /\ pc'[c] \in {"reviving", "broken"}
    BY <1>1
  <2> QED
    BY <2>1 DEF Unsettled
<1>2. CASE t \in stream
  <2>1. future[t] = "failed" \/ \E d \in Callers : Unsettled(d, t)
    BY <1>2 DEF Leftovers
  <2>2. ASSUME NEW d \in Callers, Unsettled(d, t) PROVE Unsettled(d, t)'
    <3>1. CASE d = c
      BY <2>2, <3>1 DEF Unsettled
    <3>2. CASE d # c
      BY <2>2, <3>2 DEF Unsettled, PlaceMoves
    <3> QED
      BY <3>1, <3>2
  <2> QED
    BY <2>1, <2>2
<1> QED
  BY <1>1, <1>2

\* A claim that is resolved as failed accounts for its replay from then on; one
\* that is resolved as built had nothing in the stream but its runtime's events.
LEMMA ResolvedLeftovers ==
  ASSUME ServiceInv, NEW c \in Callers, Resolve(c), UNCHANGED stream, PlaceMoves(c)
  PROVE  Leftovers'
<1>1. /\ pc \in [Callers -> Steps] /\ future \in [Claims -> {"pending", "done", "failed"}]
      /\ \A d \in Callers : pc[d] \in Holding \cup {"park"} => ticket[d] \in Claims
  BY ServiceFacts, PlacementAssumption DEF TypeOK, Claims
<1>2. /\ pc[c] \in {"built", "broken"} /\ UNCHANGED <<ticket, live>>
      /\ \A t \in Claims : t # ticket[c] => future'[t] = future[t]
      /\ pc[c] = "broken" => future'[ticket[c]] = "failed"
  BY <1>1 DEF Resolve, teamVars, Holding
<1>3. ASSUME NEW t \in stream, t \notin live
      PROVE  future'[t] = "failed" \/ \E d \in Callers : Unsettled(d, t)'
  <2>0. t \in Claims
    BY ServiceFacts DEF Typed
  <2>1. future[t] = "failed" \/ \E d \in Callers : Unsettled(d, t)
    BY <1>3, ServiceFacts DEF Leftovers
  <2>2. ASSUME NEW d \in Callers, Unsettled(d, t) PROVE d = c
    BY <1>2, <2>2, SoleHolder DEF Unsettled, Holding
  <2>3. CASE t = ticket[c]
    <3>1. future[t] # "failed"
      BY <1>2, <2>3, ServiceFacts DEF Futures
    <3>2. Unsettled(c, t)
      BY <2>1, <2>2, <3>1
    <3> QED
      BY <1>2, <2>3, <3>2 DEF Unsettled
  <2>4. CASE t # ticket[c]
    <3>1. ~Unsettled(c, t)
      BY <2>4 DEF Unsettled
    <3> QED
      BY <1>2, <2>0, <2>1, <2>2, <2>4, <3>1
  <2> QED
    BY <2>3, <2>4
<1> QED
  BY <1>2, <1>3 DEF Leftovers

\* The steps of a placement call keep what the stream holds accounted for.
LEMMA PlacementLeftovers ==
  ASSUME ServiceInv, NEW c \in Callers,
         \/ PlacementBuilds(c) \/ PlacementReplays(c) \/ PlacementRefuses(c)
         \/ PlacementGivesUp(c) \/ PlacementGoesOn(c)
  PROVE  Leftovers'
<1>1. PlaceMoves(c) /\ Leftovers
  BY PlacingShape, ServiceFacts DEF OneMoves
<1>2. pc \in [Callers -> Steps] /\ ticket \in [Callers -> Claims \cup {NoClaim}]
  BY ServiceFacts DEF TypeOK
<1>3. CASE PlacementBuilds(c)
  <2>1. /\ stream' = stream \cup {ticket[c]} /\ live' = live \cup {ticket[c]}
        /\ UNCHANGED <<future, ticket>> /\ pc[c] = "run"
    BY <1>3 DEF PlacementBuilds, Build
  <2> QED
    BY <1>1, <2>1, LeftoversStay
<1>4. CASE PlacementReplays(c)
  <2>1. /\ stream' = stream \cup {ticket[c]} /\ UNCHANGED <<future, ticket, live>>
        /\ pc[c] = "run" /\ pc'[c] = "reviving"
    BY <1>2, <1>4 DEF PlacementReplays, ResumeBegins, Goto, teamVars
  <2> QED
    BY <1>1, <2>1, LeftoversStay
<1>5. CASE PlacementGivesUp(c)
  <2>1. /\ stream' \in {stream, stream \cup {ticket[c]}} /\ UNCHANGED <<future, ticket, live>>
        /\ pc'[c] = "broken"
    BY <1>2, <1>5 DEF PlacementGivesUp, BuildFails, ResumeFails, Goto, teamVars
  <2> QED
    BY <1>1, <2>1, LeftoversStay
<1>6. CASE PlacementRefuses(c)
  <2>1. UNCHANGED <<stream, future, ticket, live>> /\ pc[c] = "run"
    BY <1>6 DEF PlacementRefuses, ResumeRefused, teamVars
  <2> QED
    BY <1>1, <2>1, LeftoversStay
<1>7. CASE PlacementGoesOn(c)
  <2>1. UNCHANGED stream
    BY <1>7 DEF PlacementGoesOn, serviceVars
  <2>2. CASE Resolve(c)
    BY <1>1, <2>1, <2>2, ResolvedLeftovers
  <2>3. CASE ResumeBuilds(c)
    <3>1. live' = live \cup {ticket[c]} /\ UNCHANGED <<future, ticket>>
      BY <2>3 DEF ResumeBuilds
    <3> QED
      BY <1>1, <2>1, <3>1, LeftoversStay
  <2>4. CASE ~(Resolve(c) \/ ResumeBuilds(c))
    <3>1. UNCHANGED <<future, live>> /\ pc[c] \notin {"reviving", "broken"}
      BY <1>7, <2>4 DEF PlacementGoesOn, ReadOwner, RefuseExisting, Claim, Park, RefuseForeign,
                        Release, Unpark, ParkTimeout, Admitted, teamVars
    <3> QED
      BY <1>1, <2>1, <3>1, LeftoversStay
  <2> QED
    BY <1>7, <2>2, <2>3, <2>4 DEF PlacementGoesOn
<1> QED
  BY <1>3, <1>4, <1>5, <1>6, <1>7

\* So do all steps: whatever kills the runtime empties the stream with it.
LEMMA LeftoversNext ==
  ASSUME ServiceInv, [ServiceNext]_svars
  PROVE  Leftovers'
<1>1. Leftovers
  BY ServiceFacts
<1>2. CASE stream' = {}
  BY <1>2 DEF Leftovers
<1>3. ASSUME NEW c \in Callers, PlaceMoves(c), UNCHANGED <<stream, future, live>>,
             pc[c] \notin {"reviving", "broken"}
      PROVE  Leftovers'
  BY <1>1, <1>3, LeftoversStay
<1>4. ASSUME NEW c \in Threads, Arrive(c) PROVE Leftovers'
  <2>1. /\ c \in Callers /\ PlaceMoves(c) /\ UNCHANGED <<stream, future, live>>
        /\ step[c] = "idle"
    BY <1>4, ArriveShape DEF OneMoves
  <2>2. pc[c] = "idle"
    BY <2>1, ServiceFacts
  <2> QED
    BY <1>3, <2>1, <2>2
<1>5. ASSUME NEW c \in Callers, Serve(c) PROVE Leftovers'
  <2>1. CASE \/ RereadCreated(c) \/ RereadRestored(c) \/ Send(c) \/ LookupHit(c) \/ Reget(c)
             \/ PlacementRaised(c)
    <3>1. OwnShape(c) /\ step[c] \in {"reread", "send", "lookup", "placing"}
          /\ (step[c] = "placing" => pc[c] = "idle")
      BY <2>1, OwnSteps
    <3>2. pc[c] = "idle"
      BY <3>1, ServiceFacts
    <3> QED
      BY <1>3, <3>1, <3>2, PlacementStays DEF OwnShape
  <2>2. CASE Revive(c) \/ WarmResume(c)
    <3>1. ResumeTeam(c) /\ UNCHANGED stream
      BY <2>2 DEF Revive, WarmResume, AskPlacement
    <3>2. PlaceMoves(c) /\ UNCHANGED <<future, live>> /\ pc[c] = "idle"
      BY <3>1, CallMoves, ServiceFacts DEF ResumeTeam, Begin, teamVars
    <3> QED
      BY <1>3, <3>1, <3>2
  <2>3. CASE \/ PlacementBuilds(c) \/ PlacementReplays(c) \/ PlacementRefuses(c)
             \/ PlacementGivesUp(c) \/ PlacementGoesOn(c)
    BY <2>3, PlacementLeftovers
  <2>4. CASE Store(c)
    <3>1. pc[c] = "idle" /\ UNCHANGED <<stream, placementVars>>
      BY <2>4 DEF Store
    <3> QED
      BY <1>3, <3>1, PlacementStays
  <2>5. CASE Halt(c) \/ Unstream(c)
    BY <1>2, <2>5 DEF Halt, Unstream
  <2>6. CASE \/ HaltRefused(c) \/ Evict(c) \/ Erase(c) \/ EraseRefused(c) \/ ClearTrees(c)
             \/ WarmList(c) \/ WarmSkips(c)
    <3>1. PlaceMoves(c) /\ pc[c] = "idle" /\ UNCHANGED future
      BY <2>6, EndShape DEF OneMoves
    <3>2. UNCHANGED <<stream, live>>
      BY <2>6, PlacementStays DEF HaltRefused, Evict, Erase, EraseRefused, ClearTrees, WarmList,
                                  WarmSkips, DeleteTeam
    <3> QED
      BY <1>3, <3>1, <3>2
  <2> QED
    BY <1>5, <2>1, <2>2, <2>3, <2>4, <2>5, <2>6 DEF Serve
<1>6. CASE TimerStop \/ Crash
  BY <1>2, <1>6 DEF TimerStop, Crash
<1>7. CASE UNCHANGED svars
  <2>1. UNCHANGED <<stream, live, future, pc, ticket>>
    BY <1>7 DEF svars, serviceVars, placementVars, teamVars, callVars
  <2> QED
    BY <1>1, <2>1 DEF Leftovers, Unsettled
<1> QED
  BY <1>4, <1>5, <1>6, <1>7 DEF ServiceNext

\* A step of a request changes no other request.
LEMMA ServeMoves ==
  ASSUME ServiceInv, NEW c \in Callers, Serve(c)
  PROVE  OneMoves(c)
<1>1. /\ step \in [Callers -> JobSteps] /\ verdict \in [Callers -> Verdicts]
  BY ServiceFacts DEF Typed
<1>2. CASE Revive(c) \/ WarmResume(c)
  <2>1. ResumeTeam(c) /\ Proceed(c, "placing") /\ UNCHANGED <<job, handed>>
    BY <1>2 DEF Revive, WarmResume, AskPlacement
  <2>2. PlaceMoves(c)
    BY <2>1, CallMoves, ServiceFacts
  <2> QED
    BY <1>1, <2>1, <2>2 DEF Proceed, At, OneMoves
<1>3. CASE Store(c)
  <2>1. /\ UNCHANGED <<job, handed, placementVars>>
        /\ Finish(c, "done") \/ Proceed(c, "reread")
    BY <1>3 DEF Store
  <2> QED
    BY <1>1, <2>1, PlacementStays DEF Finish, Proceed, At, OneMoves
<1>4. CASE ~(Revive(c) \/ WarmResume(c) \/ Store(c))
  BY <1>4, OwnSteps, PlacingShape, EndShape DEF Serve, OwnShape
<1> QED
  BY <1>2, <1>3, <1>4

\* Nor does it change what was asked and who is alone.
LEMMA ServeAlone ==
  ASSUME ServiceInv, NEW c \in Callers, Serve(c)
  PROVE  UNCHANGED <<job, solo>> /\ step[c] # "idle" /\ OneMoves(c)
<1>1. OneMoves(c)
  BY ServeMoves
<1>2. CASE Revive(c) \/ WarmResume(c) \/ Store(c)
  BY <1>1, <1>2 DEF Revive, WarmResume, Store
<1>3. CASE ~(Revive(c) \/ WarmResume(c) \/ Store(c))
  BY <1>1, <1>3, OwnSteps, PlacingShape, EndShape DEF Serve, OwnShape, Leaving
<1> QED
  BY <1>2, <1>3

\* A restore that is alone meets no claim to park on.
LEMMA NoParkAlone ==
  ASSUME ServiceInv, NEW c \in Callers, Busy = {c}, Park(c)
  PROVE  FALSE
<1>1. pc[c] = "claim" /\ inFlight # NoClaim
  BY DEF Park, Admitted
<1>2. PICK d \in Callers : pc[d] \in Holding
  BY <1>1, ServiceFacts DEF ClaimIsHeld
<1>3. pc[d] # "idle"
  BY <1>2 DEF Holding
<1>4. d = c
  BY <1>3, ServiceFacts DEF Busy
<1> QED
  BY <1>1, <1>2, <1>4 DEF Holding

\* The placement's steps within a restore that is alone.
LEMMA PlacingRestores ==
  ASSUME ServiceInv, NEW c \in Callers, Busy = {c}, Restores(c),
         \/ PlacementBuilds(c) \/ PlacementReplays(c) \/ PlacementRefuses(c)
         \/ PlacementGivesUp(c) \/ PlacementGoesOn(c)
  PROVE  Restores(c)'
<1>1. /\ pc \in [Callers -> Steps] /\ ticket \in [Callers -> Claims \cup {NoClaim}]
      /\ outcome \in [Callers -> {"none", "handle", "conflict", "failed", "timeout"}]
  BY ServiceFacts DEF TypeOK
<1>2. step[c] = "placing" /\ step'[c] = "placing" /\ pc[c] # "park"
  BY PlacingShape DEF Restores
<1>3. CASE PlacementBuilds(c)
  <2>1. /\ pc'[c] = "built" /\ record' = "running" /\ UNCHANGED ticket
        /\ live' = live \cup {ticket[c]} /\ stream' = stream \cup {ticket[c]}
    BY <1>1, <1>3 DEF PlacementBuilds, Build, Goto
  <2> QED
    BY <1>2, <2>1 DEF Restores
<1>4. CASE PlacementReplays(c)
  <2>1. /\ pc'[c] = "reviving" /\ UNCHANGED ticket /\ stream' = stream \cup {ticket[c]}
    BY <1>1, <1>4 DEF PlacementReplays, ResumeBegins, Goto
  <2> QED
    BY <1>2, <2>1 DEF Restores, Storing
<1>5. CASE PlacementRefuses(c) \/ PlacementGivesUp(c)
  <2>1. pc'[c] = "broken"
    BY <1>1, <1>5 DEF PlacementRefuses, PlacementGivesUp, ResumeRefused, BuildFails, ResumeFails,
                      Goto
  <2> QED
    BY <1>2, <2>1 DEF Restores, Storing
<1>6. CASE PlacementGoesOn(c)
  <2>1. UNCHANGED stream
    BY <1>6 DEF PlacementGoesOn, serviceVars
  <2>2. CASE ResumeBuilds(c)
    <3>1. /\ pc[c] = "reviving" /\ pc'[c] = "built" /\ record' = "running" /\ UNCHANGED ticket
          /\ live' = live \cup {ticket[c]}
      BY <1>1, <2>2 DEF ResumeBuilds, Goto
    <3> QED
      BY <1>2, <2>1, <3>1 DEF Restores
  <2>3. CASE Resolve(c)
    <3>1. /\ pc[c] \in {"built", "broken"} /\ pc'[c] = "release"
          /\ UNCHANGED <<ticket, record, live>>
          /\ outcome'[c] = IF pc[c] = "built" THEN "handle" ELSE "failed"
      BY <1>1, <2>3 DEF Resolve, Goto, teamVars
    <3> QED
      BY <1>2, <2>1, <3>1 DEF Restores, Storing
  <2>4. CASE Release(c)
    <3>1. /\ pc[c] = "release" /\ pc'[c] = "idle" /\ UNCHANGED <<ticket, record, live, outcome>>
      BY <1>1, <2>4 DEF Release, Goto, teamVars
    <3> QED
      BY <1>2, <2>1, <3>1 DEF Restores, Storing
  <2>5. CASE ReadOwner(c) \/ Claim(c)
    <3>1. pc'[c] \in {"claim", "run"}
      BY <1>1, <2>5 DEF ReadOwner, Claim, Goto
    <3> QED
      BY <1>2, <3>1 DEF Restores, Storing
  <2>6. CASE RefuseExisting(c) \/ RefuseForeign(c)
    <3>1. pc'[c] = "idle" /\ outcome'[c] = "conflict"
      BY <1>1, <2>6 DEF RefuseExisting, RefuseForeign, Return, Goto
    <3> QED
      BY <1>2, <3>1 DEF Restores, Storing
  <2>7. CASE Unpark(c) \/ ParkTimeout(c)
    BY <1>2, <2>7 DEF Unpark, ParkTimeout
  <2> QED
    BY <1>6, <2>2, <2>3, <2>4, <2>5, <2>6, <2>7, NoParkAlone DEF PlacementGoesOn
<1> QED
  BY <1>3, <1>4, <1>5, <1>6

\* Every step of a restore that is alone, and every step beside it, which ends
\* its being alone.
LEMMA RestoringNext ==
  ASSUME ServiceInv, [ServiceNext]_svars
  PROVE  Restoring'
<1> SUFFICES ASSUME NEW c \in Threads, solo' = c, job'[c] = "restore", step'[c] # "idle"
             PROVE  Restores(c)'
  BY DEF Restoring
<1>0. c \in Callers /\ c # Main
  BY ServiceFacts, Copied
<1>1. ASSUME NEW d \in Threads, Arrive(d) PROVE Restores(c)'
  <2>1. solo' = IF Busy = {} THEN d ELSE Main
    BY <1>1, ArriveShape DEF Enter, EnterToEnd, Nobody
  <2>2. d = c
    BY <1>0, <2>1
  <2>3. step'[c] = "placing" /\ pc'[c] \in {"claim", "owner"}
    BY <1>1, <2>2, ArriveShape DEF Ending
  <2> QED
    BY <2>3 DEF Restores, Storing
<1>2. ASSUME NEW d \in Callers, Serve(d) PROVE Restores(c)'
  <2>1. UNCHANGED <<job, solo>> /\ step[d] # "idle" /\ OneMoves(d)
    BY <1>2, ServeAlone
  <2>2. step[c] # "idle"
    <3>1. CASE c = d
      BY <2>1, <3>1
    <3>2. CASE c # d
      BY <1>0, <2>1, <3>2 DEF OneMoves
    <3> QED
      BY <3>1, <3>2
  <2>3. Busy = {c} /\ Restores(c) /\ Fits(c)
    BY <1>0, <2>1, <2>2, ServiceFacts DEF Endings, Restoring
  <2>4. d = c
    BY <2>1, <2>3 DEF Busy
  <2>5. step[c] \in {"placing", "reread"}
    BY <2>1, <2>2, <2>3, ServiceFacts DEF Fits, Leaving, Ending, Typed, JobSteps
  <2>6. CASE \/ PlacementBuilds(c) \/ PlacementReplays(c) \/ PlacementRefuses(c)
             \/ PlacementGivesUp(c) \/ PlacementGoesOn(c)
    BY <1>0, <2>3, <2>6, PlacingRestores
  <2>7. CASE Store(c)
    <3>1. /\ step[c] = "placing" /\ pc[c] = "idle" /\ outcome[c] = "handle"
          /\ cache' = ticket[c] /\ UNCHANGED <<stream, placementVars>>
          /\ Proceed(c, "reread")
      BY <2>1, <2>7 DEF Store
    <3>2. record = "running" /\ ticket[c] \in live \cap stream
      BY <2>3, <3>1 DEF Restores, Storing
    <3>3. step'[c] = "reread" /\ UNCHANGED <<record, live>>
      BY <1>0, <3>1, PlacementStays, ServiceFacts DEF Proceed, At, Typed
    <3> QED
      BY <3>1, <3>2, <3>3 DEF Restores
  <2>8. CASE RereadCreated(c) \/ RereadRestored(c) \/ PlacementRaised(c)
    BY <1>0, <2>8, ServiceFacts DEF RereadCreated, RereadRestored, PlacementRaised, Finish, At,
                                    Typed
  <2>9. CASE Reget(c)
    BY <2>1, <2>9 DEF Reget
  <2> QED
    BY <1>2, <2>4, <2>5, <2>6, <2>7, <2>8, <2>9
       DEF Serve, LookupHit, Revive, Send, Halt, HaltRefused, Evict, Unstream, Erase,
           EraseRefused, ClearTrees, WarmList, WarmSkips, WarmResume
<1>3. CASE TimerStop \/ Crash
  BY <1>0, <1>3 DEF TimerStop, Crash, Nobody
<1>4. CASE UNCHANGED svars
  <2>1. UNCHANGED <<stream, live, record, cache, pc, ticket, outcome, step, job, solo>>
    BY <1>4 DEF svars, serviceVars, placementVars, teamVars, callVars
  <2>2. Restores(c)
    BY <2>1, ServiceFacts DEF Restoring
  <2> QED
    BY <2>1, <2>2 DEF Restores, Storing
<1> QED
  BY <1>1, <1>2, <1>3, <1>4 DEF ServiceNext

\* Only a request that waits for the placement has a call in it.
LEMMA ServeWaits ==
  ASSUME ServiceInv, NEW c \in Callers, Serve(c), NEW d \in Callers, pc'[d] # "idle"
  PROVE  step'[d] = "placing"
<1>1. /\ step \in [Callers -> JobSteps] /\ pc \in [Callers -> Steps]
      /\ \A e \in Callers : pc[e] # "idle" => step[e] = "placing"
  BY ServiceFacts DEF Typed, TypeOK
<1>2. CASE \/ RereadCreated(c) \/ RereadRestored(c) \/ Send(c) \/ LookupHit(c) \/ Reget(c)
           \/ PlacementRaised(c)
  <2>1. UNCHANGED pc /\ OneMoves(c) /\ pc[c] = "idle"
    BY <1>1, <1>2, OwnSteps, PlacementStays DEF OwnShape
  <2> QED
    BY <1>1, <2>1 DEF OneMoves
<1>3. CASE Revive(c) \/ WarmResume(c)
  <2>1. step' = [step EXCEPT ![c] = "placing"] /\ ResumeTeam(c)
    BY <1>3 DEF Revive, WarmResume, AskPlacement, Proceed, At
  <2>2. PlaceMoves(c)
    BY <2>1, CallMoves, ServiceFacts
  <2> QED
    BY <1>1, <2>1, <2>2 DEF PlaceMoves
<1>4. CASE \/ PlacementBuilds(c) \/ PlacementReplays(c) \/ PlacementRefuses(c)
           \/ PlacementGivesUp(c) \/ PlacementGoesOn(c)
  <2>1. step[c] = "placing" /\ UNCHANGED step /\ PlaceMoves(c)
    BY <1>4, PlacingShape DEF OneMoves
  <2> QED
    BY <1>1, <2>1 DEF PlaceMoves
<1>5. CASE Store(c)
  <2>1. /\ UNCHANGED pc /\ pc[c] = "idle"
        /\ \E s \in JobSteps : step' = [step EXCEPT ![c] = s]
    BY <1>5, PlacementStays DEF Store, Finish, Proceed, At, JobSteps
  <2> QED
    BY <1>1, <2>1
<1>6. CASE \/ Halt(c) \/ HaltRefused(c) \/ Evict(c) \/ Unstream(c) \/ Erase(c)
           \/ EraseRefused(c) \/ ClearTrees(c) \/ WarmList(c) \/ WarmSkips(c)
  <2>1. UNCHANGED pc /\ OneMoves(c) /\ pc[c] = "idle"
    BY <1>6, EndShape
  <2> QED
    BY <1>1, <2>1 DEF OneMoves
<1> QED
  BY <1>2, <1>3, <1>4, <1>5, <1>6 DEF Serve

\* So every step keeps the invariant of the service.
LEMMA ServiceKeeps ==
  ASSUME ServiceInv, [ServiceNext]_svars
  PROVE  ServiceInv'
<1>1. PlacementInv' /\ Futures'
  BY ServiceStep, ServiceFacts, NextInv, FuturesNext
<1>2. Control' /\ Endings' /\ Booted' /\ Settled'
  <2>1. CASE UNCHANGED svars
    <3>1. Control'
      BY <2>1, ServiceFacts DEF svars, serviceVars, Control, Fits, Busy
    <3>2. Endings'
      BY <2>1, ServiceFacts DEF svars, serviceVars, placementVars, teamVars, Endings, Takedown,
                                Busy
    <3>3. Booted'
      BY <2>1, ServiceFacts DEF svars, serviceVars, placementVars, teamVars, Booted
    <3>4. Settled'
      BY <2>1, ServiceFacts DEF svars, serviceVars, placementVars, teamVars, callVars, Settled,
                                Steady, Agreed, Relies, Promised, Storing, Lone
    <3> QED
      BY <3>1, <3>2, <3>3, <3>4
  <2> QED
    BY <2>1, ArriveKeeps, ServeKeeps, TimerKeeps, CrashKeeps DEF ServiceNext
<1>3. ServiceTypeOK'
  <2>1. TypeOK'
    BY <1>1 DEF PlacementInv
  <2>2. Typed'
    <3>1. CASE UNCHANGED svars
      BY <3>1, ServiceFacts DEF Typed, svars, serviceVars
    <3> QED
      BY <3>1, ServiceFacts, ArriveTyped, ServeTyped, TimerAndCrashTyped DEF ServiceNext
  <2>3. \A c \in Callers : step'[c] \in {"list", "revive"} => c = Main
    BY <1>2 DEF Control, Fits
  <2>4. ASSUME NEW d \in Callers, pc'[d] # "idle" PROVE step'[d] = "placing"
    <3>1. ASSUME NEW c \in Threads, Arrive(c) PROVE step'[d] = "placing"
      <4>1. OneMoves(c) /\ (pc'[c] # "idle" => step'[c] = "placing")
        BY <3>1, ArriveShape
      <4> QED
        BY <2>4, <4>1, ServiceFacts DEF OneMoves, PlaceMoves
    <3>2. ASSUME NEW c \in Callers, Serve(c) PROVE step'[d] = "placing"
      BY <2>4, <3>2, ServeWaits
    <3>3. CASE TimerStop \/ UNCHANGED svars
      <4>1. UNCHANGED <<pc, step>>
        BY <3>3 DEF TimerStop, StopTeam, svars, serviceVars, placementVars, callVars
      <4> QED
        BY <2>4, <4>1, ServiceFacts
    <3>4. CASE Crash
      BY <2>4, <3>4 DEF Crash, Restart
    <3> QED
      BY <3>1, <3>2, <3>3, <3>4 DEF ServiceNext
  <2> QED
    BY <2>1, <2>2, <2>3, <2>4 DEF ServiceTypeOK, Typed
<1>4. Leftovers' /\ Restoring'
  BY LeftoversNext, RestoringNext
<1> QED
  BY <1>1, <1>2, <1>3, <1>4 DEF ServiceInv

-----------------------------------------------------------------------------
(* The theorems about the service *)

\* The inductive invariant: what holds between any two calls of any requests,
\* timers, crashes and boots.
THEOREM ServiceInvariant == ServiceSpec => []ServiceInv
PROOF
<1>1. ServiceInit => ServiceInv
  BY ServiceStarts
<1>2. ServiceInv /\ [ServiceNext]_svars => ServiceInv'
  BY ServiceKeeps
<1> QED
  BY <1>1, <1>2, PTL DEF ServiceSpec

\* Every variable of the service keeps its type; a thread inside the placement
\* is a request waiting for it, and only the boot thread boots.
THEOREM ServiceTypes == ServiceSpec => []ServiceTypeOK
PROOF
<1>1. ServiceInv => ServiceTypeOK
  BY DEF ServiceInv
<1> QED
  BY <1>1, ServiceInvariant, PTL

\* With the call of the only request that was under way over, the stream holds
\* the live runtime's events and those of failed claims.
LEMMA OnlyFailuresLinger ==
  ASSUME ServiceInv, \A d \in Callers : pc[d] = "idle", NEW t \in stream, t \notin live
  PROVE  future[t] = "failed"
BY ServiceFacts DEF Leftovers, Unsettled

\* Between requests, unless something ended the team behind the cache's back,
\* a RUNNING team has a cached handle to its live runtime, whose events the
\* stream holds, and any other team has no handle; what else the stream holds
\* is of claims that failed.
THEOREM ServiceHandleMatchesRecord == ServiceSpec => []HandleMatchesRecord
PROOF
<1>1. ASSUME ServiceInv, clean, Busy = {}
      PROVE  Consistent
  <2>1. Main \in Callers
    BY <1>1, ServiceFacts, Copied
  <2>2. \A c \in Callers : step[c] = "idle" /\ pc[c] = "idle"
    BY <1>1, ServiceFacts DEF Busy
  <2>3. Agreed
    BY <1>1, <2>1, <2>2, ServiceFacts DEF Settled, Steady, Leaving
  <2>4. \A c \in Callers : ~Storing(c)
    BY <2>2 DEF Storing
  <2>5. \A t \in stream : t \notin live => future[t] = "failed"
    BY <1>1, <2>2, OnlyFailuresLinger
  <2>6. CASE record = "running"
    <3>1. cache \in live /\ cache \in stream
      BY <2>3, <2>4, <2>6 DEF Agreed
    <3>2. \A t \in live : t = cache
      BY <1>1, <3>1, ServiceFacts DEF OneRuntime
    <3> QED
      BY <2>5, <2>6, <3>1, <3>2 DEF Consistent
  <2>7. CASE record # "running"
    <3>1. live = {}
      BY <1>1, <2>7, ServiceFacts DEF OneRuntime
    <3>2. cache = NoRuntime
      BY <2>3, <3>1 DEF Agreed
    <3> QED
      BY <2>5, <2>7, <3>1, <3>2 DEF Consistent
  <2> QED
    BY <2>6, <2>7
<1>2. ServiceInv => HandleMatchesRecord
  BY <1>1 DEF HandleMatchesRecord
<1> QED
  BY <1>2, ServiceInvariant, PTL

\* A stop or delete that is alone, and a restore that is, ends with record,
\* cache and stream in agreement.
LEMMA AloneAgrees ==
  ASSUME ServiceInv, NEW c \in Threads, Serve(c), job[c] \in {"restore", "stop", "delete"},
         step'[c] = "idle", verdict'[c] = "done", solo = c
  PROVE  Consistent'
<1>1. /\ c \in Callers /\ step[c] # "idle" /\ Fits(c) /\ OneMoves(c)
      /\ step \in [Callers -> JobSteps] /\ verdict \in [Callers -> Verdicts]
  BY ServeAlone, ServiceFacts, Copied DEF Typed
<1>2. Busy = {c}
  BY <1>1, ServiceFacts DEF Endings
<1>3. \A d \in Callers : d # c => pc[d] = "idle"
  BY <1>2, ServiceFacts DEF Busy
<1>4. CASE RereadRestored(c)
  <2>1. /\ step[c] = "reread" /\ job[c] = "restore"
        /\ UNCHANGED <<cache, stream, placementVars>>
    BY <1>4 DEF RereadRestored
  <2>2. record = "running" /\ cache \in live \cap stream
    BY <1>1, <2>1, ServiceFacts DEF Restoring, Restores
  <2>3. pc[c] = "idle"
    BY <1>1, <2>1, ServiceFacts
  <2>4. \A t \in live : t = cache
    BY <2>2, ServiceFacts DEF OneRuntime
  <2>5. \A t \in stream \ {cache} : future[t] = "failed"
    BY <1>3, <2>3, <2>4, OnlyFailuresLinger
  <2> QED
    BY <2>1, <2>2, <2>5, PlacementStays DEF Consistent
<1>5. CASE Unstream(c) \/ ClearTrees(c)
  <2>1. step[c] \in {"unstream", "clear"} /\ job[c] \in Ending
    BY <1>1, <1>5 DEF Unstream, ClearTrees, Fits, Leaving
  <2>2. Takedown(c)
    BY <1>1, <2>1, TakenDown
  <2>3. UNCHANGED <<cache, record>> /\ (stream' = {} \/ (step[c] = "clear" /\ UNCHANGED stream))
    BY <1>5, PlacementStays DEF Unstream, ClearTrees
  <2>4. record' # "running" /\ cache' = NoRuntime /\ stream' = {}
    BY <2>1, <2>2, <2>3 DEF Takedown, Leaving
  <2> QED
    BY <2>4 DEF Consistent
<1>6. CASE HaltRefused(c) \/ EraseRefused(c) \/ WarmSkips(c) \/ PlacementRaised(c)
  BY <1>1, <1>6 DEF HaltRefused, EraseRefused, WarmSkips, PlacementRaised, Finish
<1>7. CASE \/ PlacementBuilds(c) \/ PlacementReplays(c) \/ PlacementRefuses(c)
           \/ PlacementGivesUp(c) \/ PlacementGoesOn(c)
  BY <1>1, <1>7, PlacingShape
<1>8. CASE Halt(c) \/ Evict(c) \/ Erase(c) \/ Revive(c) \/ WarmResume(c)
  BY <1>1, <1>8 DEF Halt, Evict, Erase, Revive, WarmResume, Proceed, At
<1>9. CASE Store(c)
  <2>1. job[c] # "warm"
    OBVIOUS
  <2> QED
    BY <1>1, <1>9, <2>1 DEF Store, Proceed, At
<1>10. CASE RereadCreated(c) \/ Reget(c) \/ Send(c) \/ LookupHit(c) \/ WarmList(c)
  BY <1>1, <1>10 DEF RereadCreated, Reget, Send, LookupHit, WarmList, Fits
<1> QED
  BY <1>4, <1>5, <1>6, <1>7, <1>8, <1>9, <1>10 DEF Serve

\* Whatever overlapping endings, timer stops and skipped boots have left, a
\* restore, a stop or a delete that has the service to itself and succeeds
\* brings record, cache and stream back into agreement.
THEOREM ServiceLoneRequestsHeal == ServiceSpec => LoneRequestsHeal
PROOF
<1>1. ASSUME ServiceInv, [ServiceNext]_svars, NEW c \in Threads,
             job[c] \in {"restore", "stop", "delete"}, step[c] # "idle", step'[c] = "idle",
             verdict'[c] = "done", solo = c
      PROVE  Consistent'
  <2>1. c \in Callers
    BY <1>1, Copied, ServiceFacts
  <2>2. ASSUME NEW d \in Threads, Arrive(d) PROVE FALSE
    <3>1. step[d] = "idle" /\ OneMoves(d)
      BY <1>1, <2>2, ArriveShape
    <3> QED
      BY <1>1, <2>1, <3>1 DEF OneMoves
  <2>3. ASSUME NEW d \in Callers, Serve(d) PROVE Consistent'
    <3>1. d = c
      BY <1>1, <2>1, <2>3, ServeMoves DEF OneMoves
    <3> QED
      BY <1>1, <2>3, <3>1, AloneAgrees
  <2>4. CASE TimerStop \/ UNCHANGED svars
    BY <1>1, <2>4 DEF TimerStop, svars, serviceVars
  <2>5. CASE Crash
    BY <1>1, <2>1, <2>5 DEF Crash
  <2> QED
    BY <1>1, <2>2, <2>3, <2>4, <2>5 DEF ServiceNext
<1>2. ServiceInv /\ [ServiceNext]_svars =>
        [\A c \in Threads :
           /\ job[c] \in {"restore", "stop", "delete"}
           /\ step[c] # "idle" /\ step'[c] = "idle"
           /\ verdict'[c] = "done" /\ solo = c
           => Consistent']_svars
  BY <1>1
<1> QED
  BY <1>2, ServiceInvariant, PTL DEF ServiceSpec, LoneRequestsHeal

\* While nothing ends the team unseen, a request under way has a steady service.
LEMMA SteadyBeside ==
  ASSUME ServiceInv, NEW c \in Callers, clean,
         step[c] \in {"placing", "reread", "lookup", "send"}
  PROVE  Agreed
<1>1. step[Main] \notin {"list", "stopping"}
  <2>1. CASE c = Main
    BY <2>1
  <2>2. CASE c # Main
    BY <2>2, ServiceFacts DEF Control, Busy
  <2> QED
    BY <2>1, <2>2
<1>2. ASSUME NEW d \in Callers, step[d] \in Leaving PROVE FALSE
  <2>1. job[d] \in Ending /\ step[d] # "idle"
    BY <1>2, ServiceFacts DEF Fits, Leaving
  <2>2. Busy = {d}
    BY <2>1, TakenDown
  <2>3. c = d
    BY <2>2 DEF Busy
  <2> QED
    BY <1>2, <2>3 DEF Leaving
<1> QED
  BY <1>1, <1>2, ServiceFacts DEF Settled, Steady

\* The three ways the code calls a bug, or a message is lost.
Mishaps == {"lost", "inconsistent", "nohandle"}

\* Only a read-back or a send can end like that.
LEMMA MishapsFrom ==
  ASSUME ServiceInv, NEW c \in Callers, Serve(c), verdict'[c] # verdict[c],
         verdict'[c] \in Mishaps
  PROVE  \/ step[c] = "reread" /\ (record = "absent" \/ cache = NoRuntime)
         \/ step[c] = "send" /\ handed[c] \notin live
<1>1. verdict \in [Callers -> Verdicts]
  BY ServiceFacts DEF Typed
<1>2. CASE RereadCreated(c) \/ RereadRestored(c)
  BY <1>1, <1>2 DEF RereadCreated, RereadRestored, Finish, Mishaps
<1>3. CASE Reget(c)
  BY <1>1, <1>3 DEF Reget, Finish, Proceed, Mishaps
<1>4. CASE Send(c)
  BY <1>1, <1>4 DEF Send, Finish, Mishaps
<1>5. CASE LookupHit(c) \/ Revive(c) \/ WarmResume(c) \/ Store(c) \/ PlacementRaised(c)
  BY <1>1, <1>5 DEF LookupHit, Revive, WarmResume, Store, PlacementRaised, Finish, Proceed,
                    Mishaps
<1>6. CASE \/ PlacementBuilds(c) \/ PlacementReplays(c) \/ PlacementRefuses(c)
           \/ PlacementGivesUp(c) \/ PlacementGoesOn(c)
  <2>1. verdict' \in {verdict, [verdict EXCEPT ![c] = "refused"]}
    BY <1>6, PlacingShape DEF PlacementRefuses
  <2> QED
    BY <1>1, <2>1 DEF Mishaps
<1>7. CASE \/ Halt(c) \/ HaltRefused(c) \/ Evict(c) \/ Unstream(c) \/ Erase(c)
           \/ EraseRefused(c) \/ ClearTrees(c)
  BY <1>1, <1>7 DEF Halt, HaltRefused, Evict, Unstream, Erase, EraseRefused, ClearTrees,
                    Finish, Proceed, Mishaps
<1>8. CASE WarmList(c) \/ WarmSkips(c)
  BY <1>1, <1>8 DEF WarmList, WarmSkips, Finish, Proceed, Mishaps
<1> QED
  BY <1>2, <1>3, <1>4, <1>5, <1>6, <1>7, <1>8 DEF Serve

\* Nor can a request end like that while nothing ends the team unseen.
LEMMA NoMishap ==
  ASSUME ServiceInv, clean, NEW c \in Callers, Serve(c), verdict'[c] # verdict[c]
  PROVE  verdict'[c] \notin Mishaps
<1> SUFFICES ASSUME verdict'[c] \in Mishaps PROVE FALSE
  OBVIOUS
<1>1. \/ step[c] = "reread" /\ (record = "absent" \/ cache = NoRuntime)
      \/ step[c] = "send" /\ handed[c] \notin live
  BY MishapsFrom
<1>2. Agreed
  BY <1>1, SteadyBeside
<1>3. CASE step[c] = "send"
  BY <1>1, <1>2, <1>3 DEF Agreed, Relies
<1>4. CASE step[c] = "reread"
  <2>1. cache # NoRuntime /\ cache \in live
    BY <1>2, <1>4 DEF Agreed, Relies
  <2>2. record = "running"
    BY <2>1, ServiceFacts DEF OneRuntime
  <2> QED
    BY <1>1, <1>4, <2>1, <2>2
<1> QED
  BY <1>1, <1>3, <1>4

\* Creations, restores and deliveries among themselves lose no message and meet
\* none of the states the code calls a bug: only a stop or delete that overlaps
\* them, or the timer, can do that.
THEOREM ServiceOnlyEndingsLoseMessages == ServiceSpec => OnlyEndingsLoseMessages
PROOF
<1>1. ASSUME ServiceInv, [ServiceNext]_svars, NEW c \in Callers, verdict'[c] # verdict[c],
             verdict'[c] \in {"lost", "inconsistent", "nohandle"}
      PROVE  ~clean
  <2>1. ASSUME NEW d \in Threads, Arrive(d) PROVE FALSE
    <3>1. verdict \in [Callers -> Verdicts] /\ d \in Callers
      BY <1>1, ServiceFacts, Copied DEF Typed
    <3>2. PICK v \in {"none", "refused", "notfound"} : verdict' = [verdict EXCEPT ![d] = v]
      BY <2>1 DEF Arrive, AskCreate, RefuseRestore, AskRestore, RefuseDelivery, AskDeliver,
                  RefuseStop, AskStop, RefuseDelete, AskDelete, Finish, Proceed
    <3> QED
      BY <1>1, <3>1, <3>2
  <2>2. ASSUME NEW d \in Callers, Serve(d), clean PROVE FALSE
    <3>1. d = c
      BY <1>1, <2>2, ServeMoves DEF OneMoves
    <3> QED
      BY <1>1, <2>2, <3>1, NoMishap DEF Mishaps
  <2>3. CASE TimerStop \/ UNCHANGED svars
    BY <1>1, <2>3 DEF TimerStop, svars, serviceVars
  <2>4. CASE Crash
    BY <1>1, <2>4 DEF Crash
  <2> QED
    BY <1>1, <2>1, <2>2, <2>3, <2>4 DEF ServiceNext
<1>2. ServiceInv /\ [ServiceNext]_svars =>
        [\A c \in Callers :
           verdict'[c] # verdict[c] /\ verdict'[c] \in {"lost", "inconsistent", "nohandle"}
             => ~clean]_svars
  BY <1>1
<1> QED
  BY <1>2, ServiceInvariant, PTL DEF ServiceSpec, OnlyEndingsLoseMessages

\* A delivery that has the service to itself ends by sending, or by a build that
\* failed: no step of its own, and nobody else's, can end it otherwise.
LEMMA LoneEnds ==
  ASSUME ServiceInv, NEW c \in Callers, Serve(c), job[c] = "deliver", step'[c] = "idle",
         clean, solo = c
  PROVE  verdict'[c] \in {"delivered", "failed"}
<1>1. step \in [Callers -> JobSteps] /\ verdict \in [Callers -> Verdicts] /\ Fits(c)
  BY ServiceFacts DEF Typed
<1>2. CASE Send(c)
  <2>1. handed[c] \in live
    <3>1. step[c] = "send"
      BY <1>2 DEF Send
    <3> QED
      BY <3>1, SteadyBeside DEF Agreed, Relies
  <2> QED
    BY <1>1, <1>2, <2>1 DEF Send, Finish
<1>3. CASE PlacementRaised(c)
  <2>1. step[c] = "placing" /\ Finish(c, IF verdict[c] = "refused" THEN "refused" ELSE "failed")
    BY <1>3 DEF PlacementRaised
  <2>2. verdict[c] = "none"
    BY <2>1, SteadyBeside DEF Agreed, Relies, Lone
  <2> QED
    BY <1>1, <2>1, <2>2 DEF Finish
<1>4. CASE Reget(c)
  <2>1. step[c] = "reread"
    BY <1>4 DEF Reget
  <2>2. cache # NoRuntime
    BY <2>1, SteadyBeside DEF Agreed, Relies
  <2> QED
    BY <1>1, <1>4, <2>2 DEF Reget, Proceed, At
<1>5. CASE RereadCreated(c) \/ RereadRestored(c) \/ WarmSkips(c)
  BY <1>5 DEF RereadCreated, RereadRestored, WarmSkips
<1>6. CASE LookupHit(c) \/ Revive(c) \/ WarmResume(c) \/ Store(c)
  BY <1>1, <1>6 DEF LookupHit, Revive, WarmResume, Store, Proceed, At
<1>7. CASE \/ PlacementBuilds(c) \/ PlacementReplays(c) \/ PlacementRefuses(c)
           \/ PlacementGivesUp(c) \/ PlacementGoesOn(c)
  BY <1>7, PlacingShape
<1>8. CASE \/ Halt(c) \/ HaltRefused(c) \/ Evict(c) \/ Unstream(c) \/ Erase(c)
           \/ EraseRefused(c) \/ ClearTrees(c) \/ WarmList(c)
  BY <1>8, EndShape DEF Fits, Ending, Leaving
<1> QED
  BY <1>2, <1>3, <1>4, <1>5, <1>6, <1>7, <1>8 DEF Serve

\* A delivery that nobody interferes with reaches a live runtime, reviving the
\* team if it was stopped, unless TeamManager fails to build one.
THEOREM ServiceLoneDeliveryArrives == ServiceSpec => LoneDeliveryArrives
PROOF
<1>1. ASSUME ServiceInv, [ServiceNext]_svars, NEW c \in Threads, job[c] = "deliver",
             step[c] # "idle", step'[c] = "idle", crashes' = crashes, clean, solo = c
      PROVE  verdict'[c] \in {"delivered", "failed"}
  <2>1. c \in Callers
    BY <1>1, ServiceFacts, Copied
  <2>2. ASSUME NEW d \in Threads, Arrive(d) PROVE FALSE
    <3>1. step[d] = "idle" /\ OneMoves(d)
      BY <1>1, <2>2, ArriveShape
    <3> QED
      BY <1>1, <2>1, <3>1 DEF OneMoves
  <2>3. ASSUME NEW d \in Callers, Serve(d) PROVE verdict'[c] \in {"delivered", "failed"}
    <3>1. d = c
      BY <1>1, <2>1, <2>3, ServeMoves DEF OneMoves
    <3> QED
      BY <1>1, <2>1, <2>3, <3>1, LoneEnds
  <2>4. CASE TimerStop \/ UNCHANGED svars
    BY <1>1, <2>4 DEF TimerStop, svars, serviceVars
  <2>5. CASE Crash
    <3>1. crashes \in 0 .. MaxCrashes /\ crashes' = crashes + 1
      BY <1>1, <2>5, ServiceFacts DEF Typed, Crash
    <3> QED
      BY <1>1, <3>1
  <2> QED
    BY <1>1, <2>2, <2>3, <2>4, <2>5 DEF ServiceNext
<1>2. ServiceInv /\ [ServiceNext]_svars =>
        [\A c \in Threads :
           /\ job[c] = "deliver" /\ step[c] # "idle" /\ step'[c] = "idle"
           /\ crashes' = crashes
           /\ clean /\ solo = c
           => verdict'[c] \in {"delivered", "failed"}]_svars
  BY <1>1
<1> QED
  BY <1>2, ServiceInvariant, PTL DEF ServiceSpec, LoneDeliveryArrives

\* Whatever overlaps, a team that nothing ended unseen loses its trees only
\* after its record: a deletion that TeamManager refuses leaves them.
THEOREM ServiceTreesOutliveRecord == ServiceSpec => TreesOutliveRecord
PROOF
<1>1. ASSUME ServiceInv, [ServiceNext]_svars, trees, ~trees', clean
      PROVE  record \in {"absent", "deleted"}
  <2>1. ASSUME NEW c \in Callers, ClearTrees(c) PROVE record \in {"absent", "deleted"}
    <3>1. step[c] = "clear" /\ job[c] \in Ending
      BY <1>1, <2>1, ServiceFacts DEF ClearTrees, Fits, Leaving
    <3>2. Takedown(c)
      BY <1>1, <3>1, TakenDown
    <3> QED
      BY <3>1, <3>2 DEF Takedown
  <2>2. ASSUME NEW c \in Callers, Serve(c), ~ClearTrees(c) PROVE FALSE
    <3>1. CASE \/ RereadCreated(c) \/ RereadRestored(c) \/ LookupHit(c) \/ Revive(c)
               \/ Reget(c) \/ Send(c) \/ Store(c) \/ PlacementRaised(c) \/ WarmResume(c)
      BY <1>1, <3>1 DEF RereadCreated, RereadRestored, LookupHit, Revive, Reget, Send, Store,
                        PlacementRaised, WarmResume
    <3>2. CASE \/ PlacementBuilds(c) \/ PlacementReplays(c) \/ PlacementRefuses(c)
               \/ PlacementGivesUp(c) \/ PlacementGoesOn(c)
      BY <1>1, <3>2 DEF PlacementBuilds, PlacementReplays, PlacementRefuses, PlacementGivesUp,
                        PlacementGoesOn, ServiceOnly, serviceVars
    <3>3. CASE \/ Halt(c) \/ HaltRefused(c) \/ Evict(c) \/ Unstream(c) \/ Erase(c)
               \/ EraseRefused(c) \/ WarmList(c) \/ WarmSkips(c)
      BY <1>1, <3>3 DEF Halt, HaltRefused, Evict, Unstream, Erase, EraseRefused, WarmList,
                        WarmSkips
    <3> QED
      BY <2>2, <3>1, <3>2, <3>3 DEF Serve
  <2>3. ASSUME NEW c \in Threads, Arrive(c) PROVE FALSE
    BY <1>1, <2>3 DEF Arrive, AskCreate, RefuseRestore, AskRestore, RefuseDelivery, AskDeliver,
                      RefuseStop, AskStop, RefuseDelete, AskDelete
  <2>4. CASE TimerStop \/ Crash \/ UNCHANGED svars
    BY <1>1, <2>4 DEF TimerStop, Crash, svars, serviceVars
  <2> QED
    BY <1>1, <2>1, <2>2, <2>3, <2>4 DEF ServiceNext
<1>2. ServiceInv /\ [ServiceNext]_svars =>
        [trees /\ ~trees' /\ clean => record \in {"absent", "deleted"}]_svars
  BY <1>1
<1> QED
  BY <1>2, ServiceInvariant, PTL DEF ServiceSpec, TreesOutliveRecord
===============================================================================
