---------------------------- MODULE PlacementProofs ----------------------------
(***************************************************************************)
(* Placement's invariants for any number of callers, users and calls, and  *)
(* for both deletion modes.  PlacementInv is inductive: one lemma shows    *)
(* that the initial states satisfy it, one per kind of step that the step  *)
(* preserves it, one conjunct at a time; the invariants and the action     *)
(* property follow.                                                        *)
(***************************************************************************)
EXTENDS Placement, TLAPS

\* Every initial state satisfies the inductive invariant.
LEMMA InitInv == Init => PlacementInv
  BY PlacementAssumption
  DEF Init, PlacementInv, TypeOK, OneRuntime, ClaimIsHeld, AdmissionHolds,
      TicketsMatch, NoResumeForCreator, RuntimesAreOwned, Claims, NoClaim,
      Statuses, Steps, Holding

\* A stuttering step preserves it.
LEMMA StutterInv == PlacementInv /\ UNCHANGED vars => PlacementInv'
  BY DEF PlacementInv, TypeOK, OneRuntime, ClaimIsHeld, AdmissionHolds, TicketsMatch,
         NoResumeForCreator, RuntimesAreOwned, vars, teamVars, tableVars, callVars

\* A caller that was idle holds nothing and gets no ticket.
LEMMA CreateTeamInv ==
  ASSUME PlacementInv, NEW c \in Callers, CreateTeam(c)
  PROVE  PlacementInv'
  <1> USE PlacementAssumption
      DEF Claims, NoClaim, Steps, Holding, Statuses, TypeOK, PlacementInv, CreateTeam,
          Begin, Return, Goto, Admitted, teamVars, tableVars, callVars
  <1>1. TypeOK'
    OBVIOUS
  <1>2. OneRuntime'
    BY DEF OneRuntime
  <1>3. ClaimIsHeld'
    BY DEF ClaimIsHeld
  <1>4. AdmissionHolds'
    BY DEF AdmissionHolds
  <1>5. TicketsMatch'
    BY DEF TicketsMatch
  <1>6. NoResumeForCreator'
    BY DEF NoResumeForCreator
  <1>7. RuntimesAreOwned'
    BY DEF RuntimesAreOwned
  <1> QED
    BY <1>1, <1>2, <1>3, <1>4, <1>5, <1>6, <1>7

\* The same for a resume.
LEMMA ResumeTeamInv ==
  ASSUME PlacementInv, NEW c \in Callers, ResumeTeam(c)
  PROVE  PlacementInv'
  <1> USE PlacementAssumption
      DEF Claims, NoClaim, Steps, Holding, Statuses, TypeOK, PlacementInv, ResumeTeam,
          Begin, Return, Goto, Admitted, teamVars, tableVars, callVars
  <1>1. TypeOK'
    OBVIOUS
  <1>2. OneRuntime'
    BY DEF OneRuntime
  <1>3. ClaimIsHeld'
    BY DEF ClaimIsHeld
  <1>4. AdmissionHolds'
    BY DEF AdmissionHolds
  <1>5. TicketsMatch'
    BY DEF TicketsMatch
  <1>6. NoResumeForCreator'
    BY DEF NoResumeForCreator
  <1>7. RuntimesAreOwned'
    BY DEF RuntimesAreOwned
  <1> QED
    BY <1>1, <1>2, <1>3, <1>4, <1>5, <1>6, <1>7

\* The owner that was read concerns a call without a ticket.
LEMMA ReadOwnerInv ==
  ASSUME PlacementInv, NEW c \in Callers, ReadOwner(c)
  PROVE  PlacementInv'
  <1> USE PlacementAssumption
      DEF Claims, NoClaim, Steps, Holding, Statuses, TypeOK, PlacementInv, ReadOwner,
          Begin, Return, Goto, Admitted, teamVars, tableVars, callVars
  <1>1. TypeOK'
    OBVIOUS
  <1>2. OneRuntime'
    BY DEF OneRuntime
  <1>3. ClaimIsHeld'
    BY DEF ClaimIsHeld
  <1>4. AdmissionHolds'
    BY DEF AdmissionHolds
  <1>5. TicketsMatch'
    BY DEF TicketsMatch
  <1>6. NoResumeForCreator'
    BY DEF NoResumeForCreator
  <1>7. RuntimesAreOwned'
    BY DEF RuntimesAreOwned, TicketsMatch
  <1> QED
    BY <1>1, <1>2, <1>3, <1>4, <1>5, <1>6, <1>7

\* A refused creation leaves the table alone.
LEMMA RefuseExistingInv ==
  ASSUME PlacementInv, NEW c \in Callers, RefuseExisting(c)
  PROVE  PlacementInv'
  <1> USE PlacementAssumption
      DEF Claims, NoClaim, Steps, Holding, Statuses, TypeOK, PlacementInv, RefuseExisting,
          Begin, Return, Goto, Admitted, teamVars, tableVars, callVars
  <1>1. TypeOK'
    OBVIOUS
  <1>2. OneRuntime'
    BY DEF OneRuntime
  <1>3. ClaimIsHeld'
    BY DEF ClaimIsHeld
  <1>4. AdmissionHolds'
    BY DEF AdmissionHolds
  <1>5. TicketsMatch'
    BY DEF TicketsMatch
  <1>6. NoResumeForCreator'
    BY DEF NoResumeForCreator
  <1>7. RuntimesAreOwned'
    BY DEF RuntimesAreOwned
  <1> QED
    BY <1>1, <1>2, <1>3, <1>4, <1>5, <1>6, <1>7

\* The new claim is the only one: the table was empty, so nobody held the key.
\* Its number is larger than every ticket and every runtime.
LEMMA ClaimInv ==
  ASSUME PlacementInv, NEW c \in Callers, Claim(c)
  PROVE  PlacementInv'
  <1> USE PlacementAssumption
      DEF Claims, NoClaim, Steps, Holding, Statuses, TypeOK, PlacementInv, Claim,
          Begin, Return, Goto, Admitted, teamVars, tableVars, callVars
  <1>1. TypeOK'
    OBVIOUS
  <1>2. OneRuntime'
    BY DEF OneRuntime
  <1>3. ClaimIsHeld'
    BY DEF ClaimIsHeld
  <1>4. AdmissionHolds'
    BY DEF AdmissionHolds
  <1>5. TicketsMatch'
    BY DEF TicketsMatch
  <1>6. NoResumeForCreator'
    BY DEF NoResumeForCreator, TicketsMatch, ClaimIsHeld
  <1>7. RuntimesAreOwned'
    BY DEF RuntimesAreOwned
  <1> QED
    BY <1>1, <1>2, <1>3, <1>4, <1>5, <1>6, <1>7

\* The parked call takes the ticket of the call that holds the key; if it is a
\* creation, there is no record and so no runtime.
LEMMA ParkInv ==
  ASSUME PlacementInv, NEW c \in Callers, Park(c)
  PROVE  PlacementInv'
  <1> USE PlacementAssumption
      DEF Claims, NoClaim, Steps, Holding, Statuses, TypeOK, PlacementInv, Park,
          Begin, Return, Goto, Admitted, teamVars, tableVars, callVars
  <1>0. inFlight \in 1 .. claims
    BY DEF ClaimIsHeld
  <1>1. TypeOK'
    BY <1>0
  <1>2. OneRuntime'
    BY DEF OneRuntime
  <1>3. ClaimIsHeld'
    BY DEF ClaimIsHeld
  <1>4. AdmissionHolds'
    BY DEF AdmissionHolds
  <1>5. TicketsMatch'
    BY <1>0 DEF TicketsMatch
  <1>6. NoResumeForCreator'
    BY DEF NoResumeForCreator
  <1>7. RuntimesAreOwned'
    BY <1>0 DEF RuntimesAreOwned, OneRuntime
  <1> QED
    BY <1>1, <1>2, <1>3, <1>4, <1>5, <1>6, <1>7

\* A refused duplicate leaves the table alone.
LEMMA RefuseForeignInv ==
  ASSUME PlacementInv, NEW c \in Callers, RefuseForeign(c)
  PROVE  PlacementInv'
  <1> USE PlacementAssumption
      DEF Claims, NoClaim, Steps, Holding, Statuses, TypeOK, PlacementInv, RefuseForeign,
          Begin, Return, Goto, Admitted, teamVars, tableVars, callVars
  <1>1. TypeOK'
    OBVIOUS
  <1>2. OneRuntime'
    BY DEF OneRuntime
  <1>3. ClaimIsHeld'
    BY DEF ClaimIsHeld
  <1>4. AdmissionHolds'
    BY DEF AdmissionHolds
  <1>5. TicketsMatch'
    BY DEF TicketsMatch
  <1>6. NoResumeForCreator'
    BY DEF NoResumeForCreator
  <1>7. RuntimesAreOwned'
    BY DEF RuntimesAreOwned
  <1> QED
    BY <1>1, <1>2, <1>3, <1>4, <1>5, <1>6, <1>7

\* The claimant builds on an absent team, so on one without a runtime.
LEMMA BuildInv ==
  ASSUME PlacementInv, NEW c \in Callers, Build(c)
  PROVE  PlacementInv'
  <1> USE PlacementAssumption
      DEF Claims, NoClaim, Steps, Holding, Statuses, TypeOK, PlacementInv, Build,
          Begin, Return, Goto, Admitted, teamVars, tableVars, callVars
  <1>a. record = "absent" /\ live = {}
    BY DEF AdmissionHolds, OneRuntime
  <1>b. ticket[c] \in Claims /\ ticket[c] \in 1 .. claims
    OBVIOUS
  <1>c. live' = {ticket[c]} /\ record' = "running"
    BY <1>a
  <1>d. \A d \in Callers : pc[d] \in Holding => d = c
    BY DEF ClaimIsHeld
  <1>e. \A d \in Callers : ticket[d] = ticket[c] => user[d] = user[c]
    BY <1>b DEF TicketsMatch
  <1>f. builtFor'[ticket[c]] = user[c]
    BY <1>b
  <1>1. TypeOK'
    BY <1>b, <1>c
  <1>2. OneRuntime'
    BY <1>c DEF OneRuntime
  <1>3. ClaimIsHeld'
    BY DEF ClaimIsHeld
  <1>4. AdmissionHolds'
    BY <1>d DEF AdmissionHolds
  <1>5. TicketsMatch'
    BY DEF TicketsMatch
  <1>6. NoResumeForCreator'
    BY <1>d DEF NoResumeForCreator
  <1>7. RuntimesAreOwned'
    BY <1>b, <1>c, <1>e, <1>f DEF RuntimesAreOwned
  <1> QED
    BY <1>1, <1>2, <1>3, <1>4, <1>5, <1>6, <1>7

\* A failed creation changes no team.
LEMMA BuildFailsInv ==
  ASSUME PlacementInv, NEW c \in Callers, BuildFails(c)
  PROVE  PlacementInv'
  <1> USE PlacementAssumption
      DEF Claims, NoClaim, Steps, Holding, Statuses, TypeOK, PlacementInv, BuildFails,
          Begin, Return, Goto, Admitted, teamVars, tableVars, callVars
  <1>1. TypeOK'
    OBVIOUS
  <1>2. OneRuntime'
    BY DEF OneRuntime
  <1>3. ClaimIsHeld'
    BY DEF ClaimIsHeld
  <1>4. AdmissionHolds'
    BY DEF AdmissionHolds
  <1>5. TicketsMatch'
    BY DEF TicketsMatch
  <1>6. NoResumeForCreator'
    BY DEF NoResumeForCreator
  <1>7. RuntimesAreOwned'
    BY DEF RuntimesAreOwned
  <1> QED
    BY <1>1, <1>2, <1>3, <1>4, <1>5, <1>6, <1>7

\* A refused resume changes no team.
LEMMA ResumeRefusedInv ==
  ASSUME PlacementInv, NEW c \in Callers, ResumeRefused(c)
  PROVE  PlacementInv'
  <1> USE PlacementAssumption
      DEF Claims, NoClaim, Steps, Holding, Statuses, TypeOK, PlacementInv, ResumeRefused,
          Begin, Return, Goto, Admitted, teamVars, tableVars, callVars
  <1>1. TypeOK'
    OBVIOUS
  <1>2. OneRuntime'
    BY DEF OneRuntime
  <1>3. ClaimIsHeld'
    BY DEF ClaimIsHeld
  <1>4. AdmissionHolds'
    BY DEF AdmissionHolds
  <1>5. TicketsMatch'
    BY DEF TicketsMatch
  <1>6. NoResumeForCreator'
    BY DEF NoResumeForCreator
  <1>7. RuntimesAreOwned'
    BY DEF RuntimesAreOwned
  <1> QED
    BY <1>1, <1>2, <1>3, <1>4, <1>5, <1>6, <1>7

\* The resume saw the team STOPPED, so no creation had parked on it.
LEMMA ResumeBeginsInv ==
  ASSUME PlacementInv, NEW c \in Callers, ResumeBegins(c)
  PROVE  PlacementInv'
  <1> USE PlacementAssumption
      DEF Claims, NoClaim, Steps, Holding, Statuses, TypeOK, PlacementInv, ResumeBegins,
          Begin, Return, Goto, Admitted, teamVars, tableVars, callVars
  <1>1. TypeOK'
    OBVIOUS
  <1>2. OneRuntime'
    BY DEF OneRuntime
  <1>3. ClaimIsHeld'
    BY DEF ClaimIsHeld
  <1>4. AdmissionHolds'
    BY DEF AdmissionHolds
  <1>5. TicketsMatch'
    BY DEF TicketsMatch
  <1>6. NoResumeForCreator'
    BY DEF NoResumeForCreator
  <1>7. RuntimesAreOwned'
    BY DEF RuntimesAreOwned
  <1> QED
    BY <1>1, <1>2, <1>3, <1>4, <1>5, <1>6, <1>7

\* The team being resumed is not RUNNING, so it had no runtime, and no creation
\* waits for this one.
LEMMA ResumeBuildsInv ==
  ASSUME PlacementInv, NEW c \in Callers, ResumeBuilds(c)
  PROVE  PlacementInv'
  <1> USE PlacementAssumption
      DEF Claims, NoClaim, Steps, Holding, Statuses, TypeOK, PlacementInv, ResumeBuilds,
          Begin, Return, Goto, Admitted, teamVars, tableVars, callVars
  <1>a. record = "stopped" /\ live = {}
    BY DEF AdmissionHolds, OneRuntime
  <1>b. ticket[c] \in Claims /\ ticket[c] \in 1 .. claims
    OBVIOUS
  <1>c. live' = {ticket[c]} /\ record' = "running"
    BY <1>a
  <1>d. \A d \in Callers : pc[d] \in Holding => d = c
    BY DEF ClaimIsHeld
  <1>e. \A d \in Callers : op[d] = "create" => ticket[d] # ticket[c]
    BY <1>a DEF NoResumeForCreator, AdmissionHolds
  <1>1. TypeOK'
    BY <1>b, <1>c
  <1>2. OneRuntime'
    BY <1>c DEF OneRuntime
  <1>3. ClaimIsHeld'
    BY DEF ClaimIsHeld
  <1>4. AdmissionHolds'
    BY <1>d DEF AdmissionHolds
  <1>5. TicketsMatch'
    BY DEF TicketsMatch
  <1>6. NoResumeForCreator'
    BY <1>d DEF NoResumeForCreator
  <1>7. RuntimesAreOwned'
    BY <1>b, <1>c, <1>e DEF RuntimesAreOwned
  <1> QED
    BY <1>1, <1>2, <1>3, <1>4, <1>5, <1>6, <1>7

\* A failed resume changes no team.
LEMMA ResumeFailsInv ==
  ASSUME PlacementInv, NEW c \in Callers, ResumeFails(c)
  PROVE  PlacementInv'
  <1> USE PlacementAssumption
      DEF Claims, NoClaim, Steps, Holding, Statuses, TypeOK, PlacementInv, ResumeFails,
          Begin, Return, Goto, Admitted, teamVars, tableVars, callVars
  <1>1. TypeOK'
    OBVIOUS
  <1>2. OneRuntime'
    BY DEF OneRuntime
  <1>3. ClaimIsHeld'
    BY DEF ClaimIsHeld
  <1>4. AdmissionHolds'
    BY DEF AdmissionHolds
  <1>5. TicketsMatch'
    BY DEF TicketsMatch
  <1>6. NoResumeForCreator'
    BY DEF NoResumeForCreator
  <1>7. RuntimesAreOwned'
    BY DEF RuntimesAreOwned
  <1> QED
    BY <1>1, <1>2, <1>3, <1>4, <1>5, <1>6, <1>7

\* The claimant keeps the key while it resolves its future.
LEMMA ResolveInv ==
  ASSUME PlacementInv, NEW c \in Callers, Resolve(c)
  PROVE  PlacementInv'
  <1> USE PlacementAssumption
      DEF Claims, NoClaim, Steps, Holding, Statuses, TypeOK, PlacementInv, Resolve,
          Begin, Return, Goto, Admitted, teamVars, tableVars, callVars
  <1>1. TypeOK'
    OBVIOUS
  <1>2. OneRuntime'
    BY DEF OneRuntime
  <1>3. ClaimIsHeld'
    BY DEF ClaimIsHeld
  <1>4. AdmissionHolds'
    BY DEF AdmissionHolds
  <1>5. TicketsMatch'
    BY DEF TicketsMatch
  <1>6. NoResumeForCreator'
    BY DEF NoResumeForCreator
  <1>7. RuntimesAreOwned'
    BY DEF RuntimesAreOwned
  <1> QED
    BY <1>1, <1>2, <1>3, <1>4, <1>5, <1>6, <1>7

\* The entry popped is the claimant's own, and nobody else holds the key.
LEMMA ReleaseInv ==
  ASSUME PlacementInv, NEW c \in Callers, Release(c)
  PROVE  PlacementInv'
  <1> USE PlacementAssumption
      DEF Claims, NoClaim, Steps, Holding, Statuses, TypeOK, PlacementInv, Release,
          Begin, Return, Goto, Admitted, teamVars, tableVars, callVars
  <1>1. TypeOK'
    OBVIOUS
  <1>2. OneRuntime'
    BY DEF OneRuntime
  <1>3. ClaimIsHeld'
    BY DEF ClaimIsHeld
  <1>4. AdmissionHolds'
    BY DEF AdmissionHolds
  <1>5. TicketsMatch'
    BY DEF TicketsMatch
  <1>6. NoResumeForCreator'
    BY DEF NoResumeForCreator
  <1>7. RuntimesAreOwned'
    BY DEF RuntimesAreOwned
  <1> QED
    BY <1>1, <1>2, <1>3, <1>4, <1>5, <1>6, <1>7

\* A parked call leaves with what the future holds.
LEMMA UnparkInv ==
  ASSUME PlacementInv, NEW c \in Callers, Unpark(c)
  PROVE  PlacementInv'
  <1> USE PlacementAssumption
      DEF Claims, NoClaim, Steps, Holding, Statuses, TypeOK, PlacementInv, Unpark,
          Begin, Return, Goto, Admitted, teamVars, tableVars, callVars
  <1>1. TypeOK'
    OBVIOUS
  <1>2. OneRuntime'
    BY DEF OneRuntime
  <1>3. ClaimIsHeld'
    BY DEF ClaimIsHeld
  <1>4. AdmissionHolds'
    BY DEF AdmissionHolds
  <1>5. TicketsMatch'
    BY DEF TicketsMatch
  <1>6. NoResumeForCreator'
    BY DEF NoResumeForCreator
  <1>7. RuntimesAreOwned'
    BY DEF RuntimesAreOwned
  <1> QED
    BY <1>1, <1>2, <1>3, <1>4, <1>5, <1>6, <1>7

\* A parked call gives up.
LEMMA ParkTimeoutInv ==
  ASSUME PlacementInv, NEW c \in Callers, ParkTimeout(c)
  PROVE  PlacementInv'
  <1> USE PlacementAssumption
      DEF Claims, NoClaim, Steps, Holding, Statuses, TypeOK, PlacementInv, ParkTimeout,
          Begin, Return, Goto, Admitted, teamVars, tableVars, callVars
  <1>1. TypeOK'
    OBVIOUS
  <1>2. OneRuntime'
    BY DEF OneRuntime
  <1>3. ClaimIsHeld'
    BY DEF ClaimIsHeld
  <1>4. AdmissionHolds'
    BY DEF AdmissionHolds
  <1>5. TicketsMatch'
    BY DEF TicketsMatch
  <1>6. NoResumeForCreator'
    BY DEF NoResumeForCreator
  <1>7. RuntimesAreOwned'
    BY DEF RuntimesAreOwned
  <1> QED
    BY <1>1, <1>2, <1>3, <1>4, <1>5, <1>6, <1>7

\* Stopping ends the only runtime.
LEMMA StopTeamInv ==
  ASSUME PlacementInv, StopTeam
  PROVE  PlacementInv'
  <1> USE PlacementAssumption
      DEF Claims, NoClaim, Steps, Holding, Statuses, TypeOK, PlacementInv, StopTeam,
          Begin, Return, Goto, Admitted, teamVars, tableVars, callVars
  <1>1. TypeOK'
    OBVIOUS
  <1>2. OneRuntime'
    BY DEF OneRuntime
  <1>3. ClaimIsHeld'
    BY DEF ClaimIsHeld
  <1>4. AdmissionHolds'
    BY DEF AdmissionHolds
  <1>5. TicketsMatch'
    BY DEF TicketsMatch
  <1>6. NoResumeForCreator'
    BY DEF NoResumeForCreator
  <1>7. RuntimesAreOwned'
    BY DEF RuntimesAreOwned
  <1> QED
    BY <1>1, <1>2, <1>3, <1>4, <1>5, <1>6, <1>7

\* A restarted process holds no key and runs no team.
LEMMA RestartInv ==
  ASSUME PlacementInv, Restart
  PROVE  PlacementInv'
  <1> USE PlacementAssumption
      DEF Claims, NoClaim, Steps, Holding, Statuses, TypeOK, PlacementInv, Restart,
          Begin, Return, Goto, Admitted, teamVars, tableVars, callVars
  <1>1. TypeOK'
    OBVIOUS
  <1>2. OneRuntime'
    BY DEF OneRuntime
  <1>3. ClaimIsHeld'
    BY DEF ClaimIsHeld
  <1>4. AdmissionHolds'
    BY DEF AdmissionHolds
  <1>5. TicketsMatch'
    BY DEF TicketsMatch
  <1>6. NoResumeForCreator'
    BY DEF NoResumeForCreator
  <1>7. RuntimesAreOwned'
    BY DEF RuntimesAreOwned
  <1> QED
    BY <1>1, <1>2, <1>3, <1>4, <1>5, <1>6, <1>7

\* A team that is deleted is STOPPED and has no runtime.
LEMMA DeleteTeamInv ==
  ASSUME PlacementInv, DeleteTeam
  PROVE  PlacementInv'
  <1> USE PlacementAssumption
      DEF Claims, NoClaim, Steps, Holding, Statuses, TypeOK, PlacementInv, DeleteTeam,
          Begin, Return, Goto, Admitted, teamVars, tableVars, callVars
  <1>1. TypeOK'
    OBVIOUS
  <1>2. OneRuntime'
    BY DEF OneRuntime
  <1>3. ClaimIsHeld'
    BY DEF ClaimIsHeld
  <1>4. AdmissionHolds'
    BY DEF AdmissionHolds
  <1>5. TicketsMatch'
    BY DEF TicketsMatch
  <1>6. NoResumeForCreator'
    BY DEF NoResumeForCreator
  <1>7. RuntimesAreOwned'
    BY DEF RuntimesAreOwned
  <1> QED
    BY <1>1, <1>2, <1>3, <1>4, <1>5, <1>6, <1>7

\* Every step of Next preserves the inductive invariant.
LEMMA NextInv == PlacementInv /\ [Next]_vars => PlacementInv'
  <1> SUFFICES ASSUME PlacementInv, [Next]_vars
               PROVE  PlacementInv'
    OBVIOUS
  <1>1. ASSUME NEW c \in Callers, CreateTeam(c) \/ ResumeTeam(c)
        PROVE  PlacementInv'
    BY <1>1, CreateTeamInv, ResumeTeamInv
  <1>2. ASSUME NEW c \in Callers, CallStep(c)
        PROVE  PlacementInv'
    BY <1>2, ReadOwnerInv, RefuseExistingInv, ClaimInv, ParkInv, RefuseForeignInv,
       BuildInv, BuildFailsInv, ResumeRefusedInv, ResumeBeginsInv, ResumeBuildsInv,
       ResumeFailsInv, ResolveInv, ReleaseInv, UnparkInv
    DEF CallStep
  <1>3. ASSUME NEW c \in Callers, ParkTimeout(c)
        PROVE  PlacementInv'
    BY <1>3, ParkTimeoutInv
  <1> QED
    BY <1>1, <1>2, <1>3, StopTeamInv, DeleteTeamInv, RestartInv, StutterInv DEF Next

\* The inductive invariant holds of every behaviour of the placement.
THEOREM PlacementInvariant == Spec => []PlacementInv
  BY InitInv, NextInv, PTL DEF Spec

\* Every variable of the placement keeps its type.
THEOREM PlacementTypeOK == Spec => []TypeOK
  <1>1. PlacementInv => TypeOK
    BY DEF PlacementInv
  <1> QED
    BY <1>1, PlacementInvariant, PTL

\* However creations, resumes, stops and deletions overlap, the team never has
\* two runtimes, nor one while its record does not say RUNNING.
THEOREM PlacementOneRuntime == Spec => []OneRuntime
  <1>1. PlacementInv => OneRuntime
    BY DEF PlacementInv
  <1> QED
    BY <1>1, PlacementInvariant, PTL

\* The table's entry always belongs to exactly one call that will pop it.
THEOREM PlacementClaimIsHeld == Spec => []ClaimIsHeld
  <1>1. PlacementInv => ClaimIsHeld
    BY DEF PlacementInv
  <1> QED
    BY <1>1, PlacementInvariant, PTL

\* A creation that returns the handle of a live team returns its caller's own.
THEOREM PlacementNoForeignTeam == Spec => []NoForeignTeam
  <1>1. PlacementInv => NoForeignTeam
    BY DEF PlacementInv, RuntimesAreOwned, NoForeignTeam
  <1> QED
    BY <1>1, PlacementInvariant, PTL

\* TeamManager.create_team is only ever reached for a team without a record.
THEOREM PlacementNeverRecreated == Spec => NeverRecreated
  <1>1. PlacementInv /\ [Next]_vars =>
          [\A c \in Callers :
             pc[c] = "run" /\ op[c] = "create" /\ pc'[c] = "built"
               => record = "absent"]_vars
    BY DEF PlacementInv, AdmissionHolds
  <1> QED
    BY <1>1, PlacementInvariant, PTL DEF Spec, NeverRecreated
===============================================================================
