------------------------------- MODULE Placement -------------------------------
(***************************************************************************)
(* The community placement (adapters/community/local_placement.py): every  *)
(* creation under a caller-supplied team id, and every resume, goes        *)
(* through one table of claims.  The claimant builds the runtime; a        *)
(* duplicate for the same user parks on the claimant's future.             *)
(*                                                                         *)
(* One team id is modelled: the table's entries do not interact.  A claim  *)
(* builds at most one runtime, so a claim's number also names its future   *)
(* and its runtime.  TeamManager is external: its create and resume take   *)
(* time and may fail, its record of the team changes atomically.           *)
(***************************************************************************)
EXTENDS Naturals

CONSTANTS Callers,   \* threads calling the placement
          Users,     \* user ids
          NoUser,    \* the "" owner of a team without a record
          MaxCalls,  \* bound: placement calls made
          Retire     \* team_delete_mode: TRUE keeps a DELETED record

ASSUME PlacementAssumption ==
  /\ NoUser \notin Users
  /\ MaxCalls \in Nat
  /\ Retire \in BOOLEAN

Claims  == 1 .. MaxCalls
NoClaim == 0

VARIABLES
  record, owner,   \* TeamManager: the team's persisted status and user_id
  live,            \* runtimes whose actors are alive
  builtFor,        \* builtFor[t] : the owner runtime t was built for (history)
  inFlight,        \* the claim _in_flight holds for the key, or NoClaim
  claims,          \* claims made so far
  claimUser,       \* claimUser[t] : the user id in claim t's table entry
  future,          \* future[t]    : "pending", "done" or "failed"
  calls,           \* calls made so far
  pc, op, user,    \* a call: its step, operation and the user it presents
  ticket,          \* the claim the call made or parked on
  outcome          \* how the caller's last call ended

teamVars  == <<record, owner, live, builtFor>>
tableVars == <<inFlight, claims, claimUser>>
callVars  == <<calls, pc, op, user, ticket, outcome>>
vars == <<teamVars, tableVars, future, callVars>>

Goto(c, step) == pc' = [pc EXCEPT ![c] = step]

Return(c, how) ==
  /\ Goto(c, "idle")
  /\ outcome' = [outcome EXCEPT ![c] = how]

Begin(c, kind, step) ==
  /\ pc[c] = "idle"
  /\ calls < MaxCalls
  /\ calls' = calls + 1
  /\ op' = [op EXCEPT ![c] = kind]
  /\ ticket' = [ticket EXCEPT ![c] = NoClaim]
  /\ outcome' = [outcome EXCEPT ![c] = "none"]
  /\ Goto(c, step)

-----------------------------------------------------------------------------
(* create_team and resume_team up to the claim *)

\* create_team(team_id = the key) on behalf of u.
CreateTeam(c) ==
  /\ Begin(c, "create", "claim")
  /\ \E u \in Users : user' = [user EXCEPT ![c] = u]
  /\ UNCHANGED <<teamVars, tableVars, future>>

\* The service resumes a team whose record it has read (restore_team a stopped
\* one, _get_or_revive_handle any that is not deleted): a team that was created
\* once, whatever has become of it since.
ResumeTeam(c) ==
  /\ owner # NoUser
  /\ Begin(c, "resume", "owner")
  /\ UNCHANGED <<user, teamVars, tableVars, future>>

\* The owner is read before the lock is taken.
ReadOwner(c) ==
  /\ pc[c] = "owner"
  /\ user' = [user EXCEPT ![c] = IF record = "absent" THEN NoUser ELSE owner]
  /\ Goto(c, "claim")
  /\ UNCHANGED <<calls, op, ticket, outcome, teamVars, tableVars, future>>

\* Under the lock: a key naming an existing team, retired ones included.
RefuseExisting(c) ==
  /\ pc[c] = "claim"
  /\ op[c] = "create"
  /\ record # "absent"
  /\ Return(c, "conflict")
  /\ UNCHANGED <<calls, op, user, ticket, teamVars, tableVars, future>>

AdmittedAlways(c) == pc[c] = "claim"

Admitted(c) ==
  /\ pc[c] = "claim"
  /\ op[c] = "create" => record = "absent"

ClaimBlindly(c) ==
  /\ Admitted(c)
  /\ claims < MaxCalls
  /\ claims' = claims + 1
  /\ inFlight' = claims + 1
  /\ claimUser' = [claimUser EXCEPT ![claims + 1] = user[c]]
  /\ ticket' = [ticket EXCEPT ![c] = claims + 1]
  /\ Goto(c, "run")
  /\ UNCHANGED <<calls, op, user, outcome, teamVars, future>>

\* Still under the lock: the key is free and the call takes it.  (A call makes
\* at most one claim, so the bound on claims never stops one.)
Claim(c) ==
  /\ Admitted(c)
  /\ inFlight = NoClaim
  /\ claims < MaxCalls
  /\ claims' = claims + 1
  /\ inFlight' = claims + 1
  /\ claimUser' = [claimUser EXCEPT ![claims + 1] = user[c]]
  /\ ticket' = [ticket EXCEPT ![c] = claims + 1]
  /\ Goto(c, "run")
  /\ UNCHANGED <<calls, op, user, outcome, teamVars, future>>

ParkAnyone(c) ==
  /\ Admitted(c)
  /\ inFlight # NoClaim
  /\ ticket' = [ticket EXCEPT ![c] = inFlight]
  /\ Goto(c, "park")
  /\ UNCHANGED <<calls, op, user, outcome, teamVars, tableVars, future>>

\* The key is in flight for the same user: wait for that claim's future.
Park(c) ==
  /\ Admitted(c)
  /\ inFlight # NoClaim
  /\ claimUser[inFlight] = user[c]
  /\ ticket' = [ticket EXCEPT ![c] = inFlight]
  /\ Goto(c, "park")
  /\ UNCHANGED <<calls, op, user, outcome, teamVars, tableVars, future>>

\* The key is in flight for another user.
RefuseForeign(c) ==
  /\ Admitted(c)
  /\ inFlight # NoClaim
  /\ claimUser[inFlight] # user[c]
  /\ Return(c, "conflict")
  /\ UNCHANGED <<calls, op, user, ticket, teamVars, tableVars, future>>

-----------------------------------------------------------------------------
(* The claimant's call of TeamManager *)

\* create_team builds the actors and then writes the record, with no check of
\* its own for a team that is already there.
Build(c) ==
  /\ pc[c] = "run"
  /\ op[c] = "create"
  /\ record' = "running"
  /\ owner' = user[c]
  /\ live' = live \cup {ticket[c]}
  /\ builtFor' = [builtFor EXCEPT ![ticket[c]] = user[c]]
  /\ Goto(c, "built")
  /\ UNCHANGED <<calls, op, user, ticket, outcome, tableVars, future>>

BuildFails(c) ==
  /\ pc[c] = "run"
  /\ op[c] = "create"
  /\ Goto(c, "broken")
  /\ UNCHANGED <<calls, op, user, ticket, outcome, teamVars, tableVars, future>>

\* resume_team refuses an unknown, a running and a deleted team ..
ResumeRefused(c) ==
  /\ pc[c] = "run"
  /\ op[c] = "resume"
  /\ record # "stopped"
  /\ Goto(c, "broken")
  /\ UNCHANGED <<calls, op, user, ticket, outcome, teamVars, tableVars, future>>

\* .. and spawns actors for a stopped one, without yet marking it RUNNING ..
ResumeBegins(c) ==
  /\ pc[c] = "run"
  /\ op[c] = "resume"
  /\ record = "stopped"
  /\ Goto(c, "reviving")
  /\ UNCHANGED <<calls, op, user, ticket, outcome, teamVars, tableVars, future>>

\* .. which it does last, if the team is still there.
ResumeBuilds(c) ==
  /\ pc[c] = "reviving"
  /\ record \in {"stopped", "running"}
  /\ record' = "running"
  /\ live' = live \cup {ticket[c]}
  /\ builtFor' = [builtFor EXCEPT ![ticket[c]] = owner]
  /\ Goto(c, "built")
  /\ UNCHANGED <<owner, calls, op, user, ticket, outcome, tableVars, future>>

ResumeFails(c) ==
  /\ pc[c] = "reviving"
  /\ Goto(c, "broken")
  /\ UNCHANGED <<calls, op, user, ticket, outcome, teamVars, tableVars, future>>

-----------------------------------------------------------------------------
(* The end of a claim *)

ResolveSuccessOnly(c) ==
  /\ pc[c] \in {"built", "broken"}
  /\ future' = [future EXCEPT ![ticket[c]] = IF pc[c] = "built" THEN "done" ELSE @]
  /\ outcome' = [outcome EXCEPT ![c] = IF pc[c] = "built" THEN "handle" ELSE "failed"]
  /\ Goto(c, "release")
  /\ UNCHANGED <<calls, op, user, ticket, teamVars, tableVars>>

\* set_result or set_exception, before the entry is popped.
Resolve(c) ==
  /\ pc[c] \in {"built", "broken"}
  /\ future' = [future EXCEPT ![ticket[c]] = IF pc[c] = "built" THEN "done" ELSE "failed"]
  /\ outcome' = [outcome EXCEPT ![c] = IF pc[c] = "built" THEN "handle" ELSE "failed"]
  /\ Goto(c, "release")
  /\ UNCHANGED <<calls, op, user, ticket, teamVars, tableVars>>

\* finally: _in_flight.pop(team_id, None), whoever's entry that is.
Release(c) ==
  /\ pc[c] = "release"
  /\ inFlight' = NoClaim
  /\ Goto(c, "idle")
  /\ UNCHANGED <<claims, claimUser, calls, op, user, ticket, outcome,
                 teamVars, future>>

\* The parked call gets the claimant's handle or its exception ..
Unpark(c) ==
  /\ pc[c] = "park"
  /\ future[ticket[c]] # "pending"
  /\ Return(c, IF future[ticket[c]] = "done" THEN "handle" ELSE "failed")
  /\ UNCHANGED <<calls, op, user, ticket, teamVars, tableVars, future>>

\* .. or a 503 when _PARKED_CREATION_TIMEOUT_S runs out first.
ParkTimeout(c) ==
  /\ pc[c] = "park"
  /\ future[ticket[c]] = "pending"
  /\ Return(c, "timeout")
  /\ UNCHANGED <<calls, op, user, ticket, teamVars, tableVars, future>>

-----------------------------------------------------------------------------
(* What other callers of TeamManager do to the team meanwhile *)

StopTeam ==
  /\ record = "running"
  /\ record' = "stopped"
  /\ live' = {}
  /\ UNCHANGED <<owner, builtFor, tableVars, future, callVars>>

\* delete_team refuses a running team; the record is purged or retired.
DeleteTeam ==
  /\ record = "stopped"
  /\ record' = IF Retire THEN "deleted" ELSE "absent"
  /\ UNCHANGED <<owner, live, builtFor, tableVars, future, callVars>>

\* The process ends: threads, actors and the table are gone, records are not.
Restart ==
  /\ pc' = [c \in Callers |-> "idle"]
  /\ op' = [c \in Callers |-> "none"]
  /\ ticket' = [c \in Callers |-> NoClaim]
  /\ outcome' = [c \in Callers |-> "none"]
  /\ inFlight' = NoClaim
  /\ live' = {}
  /\ UNCHANGED <<record, owner, builtFor, claims, claimUser, future, calls, user>>

-----------------------------------------------------------------------------

Init ==
  /\ record = "absent"
  /\ owner = NoUser
  /\ live = {}
  /\ builtFor = [t \in Claims |-> NoUser]
  /\ inFlight = NoClaim
  /\ claims = 0
  /\ claimUser = [t \in Claims |-> NoUser]
  /\ future = [t \in Claims |-> "pending"]
  /\ calls = 0
  /\ pc = [c \in Callers |-> "idle"]
  /\ op = [c \in Callers |-> "none"]
  /\ user = [c \in Callers |-> NoUser]
  /\ ticket = [c \in Callers |-> NoClaim]
  /\ outcome = [c \in Callers |-> "none"]

\* What a call does by itself once begun, the timeout apart.
CallStep(c) ==
  \/ ReadOwner(c) \/ RefuseExisting(c) \/ Claim(c) \/ Park(c) \/ RefuseForeign(c)
  \/ Build(c) \/ BuildFails(c)
  \/ ResumeRefused(c) \/ ResumeBegins(c) \/ ResumeBuilds(c) \/ ResumeFails(c)
  \/ Resolve(c) \/ Release(c) \/ Unpark(c)

Next ==
  \/ \E c \in Callers :
       CreateTeam(c) \/ ResumeTeam(c) \/ CallStep(c) \/ ParkTimeout(c)
  \/ StopTeam
  \/ DeleteTeam
  \/ Restart

Spec == Init /\ [][Next]_vars

\* Threads run and TeamManager's calls return or raise; nobody is obliged to
\* call, to stop, to delete, or to wait out the timeout.
FairSpec == Spec /\ \A c \in Callers : WF_vars(CallStep(c))

-----------------------------------------------------------------------------
(* Properties *)

Statuses == {"absent", "running", "stopped", "deleted"}
Holding  == {"run", "reviving", "built", "broken", "release"}
Steps    == Holding \cup {"idle", "owner", "claim", "park"}

\* Every variable holds a value of its type, and a call that holds or awaits a
\* claim names one that was made.
TypeOK ==
  /\ record \in Statuses
  /\ owner \in Users \cup {NoUser}
  /\ live \subseteq Claims
  /\ builtFor \in [Claims -> Users \cup {NoUser}]
  /\ inFlight \in Claims \cup {NoClaim}
  /\ claims \in 0 .. MaxCalls
  /\ claimUser \in [Claims -> Users \cup {NoUser}]
  /\ future \in [Claims -> {"pending", "done", "failed"}]
  /\ calls \in 0 .. MaxCalls
  /\ pc \in [Callers -> Steps]
  /\ op \in [Callers -> {"none", "create", "resume"}]
  /\ user \in [Callers -> Users \cup {NoUser}]
  /\ ticket \in [Callers -> Claims \cup {NoClaim}]
  /\ \A c \in Callers : pc[c] \in Holding \cup {"park"} => ticket[c] \in 1 .. claims
  /\ outcome \in [Callers -> {"none", "handle", "conflict", "failed", "timeout"}]

\* Whatever creations, resumes, stops and deletions overlap, the team has at
\* most one runtime, and only while its record says RUNNING.
OneRuntime ==
  /\ \A s, t \in live : s = t
  /\ live # {} => record = "running"

\* The entry of the table is the claim of a call that is still going to pop
\* it, and two calls never hold the key: pop(team_id), which does not look at
\* the entry, pops the caller's own and no key stays locked.
ClaimIsHeld ==
  /\ inFlight # NoClaim => \E c \in Callers : pc[c] \in Holding
  /\ \A c \in Callers : pc[c] \in Holding => ticket[c] = inFlight /\ inFlight # NoClaim
  /\ \A c, d \in Callers : pc[c] \in Holding /\ pc[d] \in Holding => c = d

\* A creation never overwrites a team: when TeamManager.create_team writes the
\* record, none exists, though the check was made in another step.
NeverRecreated ==
  [][\A c \in Callers :
       pc[c] = "run" /\ op[c] = "create" /\ pc'[c] = "built" => record = "absent"]_vars

\* Parking never hands one user's team to another: a creation that returns a
\* handle returns one of a team of that user, or of a team already gone.
NoForeignTeam ==
  \A c \in Callers :
    op[c] = "create" /\ outcome[c] = "handle" /\ ticket[c] \in live
      => builtFor[ticket[c]] = user[c]

\* The strengthening that makes the four invariants above inductive.
\* Admission: while a creation holds the key there is no record, and while a
\* resume builds the record is not RUNNING, so what the claimant checked
\* still holds when TeamManager writes.
AdmissionHolds ==
  \A c \in Callers :
    /\ pc[c] = "run" /\ op[c] = "create" => record = "absent"
    /\ pc[c] = "reviving" => op[c] = "resume" /\ record # "running"

\* A ticket names a claim made for the same user; a call that has not got past
\* the lock has none.
TicketsMatch ==
  \A c \in Callers :
    /\ ticket[c] \in 0 .. claims
    /\ ticket[c] # NoClaim => claimUser[ticket[c]] = user[c]
    /\ pc[c] \in {"owner", "claim"} => ticket[c] = NoClaim

\* A creation parks on a resume only after the team's deletion, and then that
\* resume can no longer build one.
NoResumeForCreator ==
  \A c, d \in Callers :
    /\ pc[c] \in {"run", "reviving"} /\ op[c] = "resume"
    /\ op[d] = "create" /\ ticket[d] = ticket[c]
    => record = "absent"

\* Runtimes are those of claims, and a creator's ticket to one that is alive
\* is a ticket to a team of that creator.
RuntimesAreOwned ==
  /\ live \subseteq 1 .. claims
  /\ \A c \in Callers :
       op[c] = "create" /\ ticket[c] \in live => builtFor[ticket[c]] = user[c]

PlacementInv ==
  /\ TypeOK
  /\ OneRuntime
  /\ ClaimIsHeld
  /\ AdmissionHolds
  /\ TicketsMatch
  /\ NoResumeForCreator
  /\ RuntimesAreOwned

\* Every call returns, parked duplicates too, though no timeout ever fires.
EveryCallReturns ==
  \A c \in Callers : pc[c] # "idle" ~> pc[c] = "idle"

===============================================================================
