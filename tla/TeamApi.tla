------------------------------- MODULE TeamApi -------------------------------
(***************************************************************************)
(* The /teams routes (server/routes/teams.py) over the team service, with  *)
(* the description generator that works behind them.                       *)
(*                                                                         *)
(* A request is served in up to three moments: the access gate reads the   *)
(* record, the service reads it again, and the write or delivery happens;  *)
(* other requests, and the generator's one thread, run in between.  What   *)
(* becomes of runtimes, handles and streams is in TeamLifecycle; here a    *)
(* team is its record.                                                     *)
(***************************************************************************)
EXTENDS Naturals, FiniteSets, Sequences, SequencesExt

CONSTANTS
    ApiTeams,      \* team ids, naturals: the second sort key of a listing
    ApiUsers, ApiAdmins,
    Slots,         \* requests served at a time
    Archives,      \* the records the server may start with
    Clauses,       \* what the policy's list_filters gives each user
    Queries,       \* what the ?meta. parameters ask for: sets of groups of terms
    Starts,        \* the terms each index entry begins with
    Blank,         \* a blank term
    ListNames,     \* catalog namespaces
    Texts,         \* what messages carry, and what users write
    NoText,
    MaxPageSize,   \* MAX_PAGE_SIZE
    MaxServed      \* bound: requests

\* A team's record, as far as the routes read and write it.
NoRecord == [st |-> "none"]
Rows == [st : {"running", "stopped", "deleted", "gone"}, owner : ApiUsers, ns : ListNames,
         entries : SUBSET DOMAIN Starts, created : Nat,
         desc : Texts \cup {NoText}, origin : {"AUTO", "USER"}]

ASSUME ApiAssumption ==
    /\ ApiTeams \subseteq Nat /\ IsFiniteSet(ApiTeams) /\ ApiAdmins \subseteq ApiUsers
    /\ Archives \subseteq [ApiTeams -> Rows \cup {NoRecord}]
    /\ NoText \notin Texts
    /\ \A e \in DOMAIN Starts : e \in Starts[e]
    /\ MaxPageSize \in Nat \ {0} /\ MaxServed \in Nat

VARIABLES
    rec,       \* the stored record of each team
    req,       \* the request in each slot
    served,    \* requests so far
    jobs,      \* the generator's queue, the first one being worked on
    frames,    \* history: description notifications emitted, <<team, text>>
    stood,     \* history: generated texts the store took, <<team, text>>
    mine       \* history: the text each team's user wrote last

apiVars == <<rec, req, served, jobs, frames, stood, mine>>

Stored(t) == rec[t].st \notin {"none", "gone"}
Retired(t) == rec[t].st \in {"deleted", "gone"}

\* get_team of the service: a retired record is not found.
Found(t) == rec[t].st \in {"running", "stopped"}
Entitled(u, t) == rec[t].st # "none" /\ (rec[t].owner = u \/ u \in ApiAdmins)

Nothing == [at |-> "free"]

------------------------------------------------------------------------------
(* The listing. *)

\* _parse_metadata_filter: blank terms ask nothing, nor do groups of them.
Parsed(query) == {g \ {Blank} : g \in query} \ {{}}

\* EventStore.list_teams and _matches_caller_metadata: a term is a prefix, the terms
\* of a group are alternatives, groups narrow.
Begun(row, groups) ==
    \A g \in groups : \E term \in g : \E e \in row.entries : term \in Starts[e]
InStatus(row, status) == IF status = "any" THEN row.st \in {"running", "stopped"}
                                           ELSE row.st = status

\* _matches_policy_filter: exact, after the push-down.  A clause is
\* [users, groups]: whose teams, and groups of whole entries.
Covered(row, c) ==
    /\ row.owner \in c.users
    /\ \A g \in c.groups : g \cap row.entries # {}

\* A plausible slip: a clause's own metadata stands in for the caller's.
MatchedByClause(u, status, query, names) ==
    UNION {{t \in ApiTeams : /\ Stored(t) /\ InStatus(rec[t], status)
                             /\ Begun(rec[t], IF c.groups = {} THEN Parsed(query) ELSE c.groups)
                             /\ Covered(rec[t], c)
                             /\ names = {} \/ rec[t].ns \in names} : c \in Clauses[u]}

\* list_teams_for_policy up to the sort.
Matched(u, status, query, names) ==
    {t \in UNION {{t \in ApiTeams :
                     /\ Stored(t) /\ InStatus(rec[t], status)
                     /\ Begun(rec[t], IF c.groups = {} THEN Parsed(query) ELSE c.groups)
                     /\ Covered(rec[t], c)} : c \in Clauses[u]} :
        Begun(rec[t], Parsed(query)) /\ (names = {} \/ rec[t].ns \in names)}

Newest(s, t) == \/ rec[s].created > rec[t].created
                \/ rec[s].created = rec[t].created /\ s > t

\* Sort (in place p is the team with p - 1 others before it), clamp, slice.
Sorted(teams) ==
    [p \in 1 .. Cardinality(teams) |->
        CHOOSE t \in teams : Cardinality({s \in teams : Newest(s, t)}) = p - 1]
Clamp(size) == IF size < 1 THEN 1 ELSE IF size > MaxPageSize THEN MaxPageSize ELSE size
Page(teams, page, size) ==
    LET rows  == Sorted(teams)
        start == ((IF page < 1 THEN 1 ELSE page) - 1) * Clamp(size)
    IN SubSeq(rows, start + 1, IF start + Clamp(size) < Len(rows) THEN start + Clamp(size)
                                                                  ELSE Len(rows))

------------------------------------------------------------------------------
(* Answers. *)

Answer(q, code, lack) ==
    req' = [req EXCEPT ![q] = [at |-> "answered", op |-> @.op, team |-> @.team,
                               entitled |-> TRUE, code |-> code, lack |-> lack]]

\* A plausible slip: the words are looked for in the wrong order of cases.
AnswerForAny(reason) == 404

\* _raise_action_error, by the words of the message; _raise_state_conflict and
\* TeamNotFoundError say the same of the typed errors, but for a deleted record.
AnswerFor(reason) == IF reason \in {"absent", "deleted"} THEN 404 ELSE 409

------------------------------------------------------------------------------
(* Moments of a request. *)

\* What is asked of one team; a "send" without text stands for a message from one
\* agent to another and for a notification, which never start a generation.
ByTeam == {"read", "send", "input", "stop", "restore", "delete", "metadata", "describe"}

\* require_team_access: a missing team and a denied caller are answered alike.
Gate(q, u, t, op, text) ==
    /\ req[q] = Nothing /\ served < MaxServed
    /\ served' = served + 1
    /\ req' = [req EXCEPT ![q] =
                  IF Found(t) /\ Entitled(u, t)
                  THEN [at |-> "gated", op |-> op, team |-> t, text |-> text, was |-> NoRecord]
                  ELSE [at |-> "answered", op |-> op, team |-> t, entitled |-> FALSE,
                        code |-> 404, lack |-> FALSE]]
    /\ UNCHANGED <<rec, jobs, frames, stood, mine>>

\* POST /teams: the catalog and the metadata are resolved, the policy is asked.
\* An absent namespace and one without a team are 404, an invalid one 409.
Create(q, u, t) ==
    /\ req[q] = Nothing /\ served < MaxServed /\ rec[t] = NoRecord
    /\ served' = served + 1
    /\ \E code \in {201, 403, 404, 409, 422} :
          /\ req' = [req EXCEPT ![q] = [at |-> "answered", op |-> "create", team |-> t,
                                        entitled |-> TRUE, code |-> code,
                                        lack |-> code = 404]]
          /\ IF code = 201
             THEN \E ns \in ListNames :
                     rec' = [rec EXCEPT ![t] = [st |-> "running", owner |-> u, ns |-> ns,
                                                entries |-> {}, created |-> t, desc |-> NoText,
                                                origin |-> "AUTO"]]
             ELSE UNCHANGED rec
    /\ UNCHANGED <<jobs, frames, stood, mine>>

\* The service's own read of the record, which decides from the status then.
Refusal(op, st) ==
    CASE st \in {"none", "gone"}                         -> "absent"
      [] st = "deleted" /\ op = "describe"                -> "conflict"
      [] st = "deleted" /\ op # "describe"                -> "deleted"
      [] st = "stopped" /\ op = "stop"                    -> "stopped"
      [] st = "running" /\ op = "restore"                 -> "running"
      [] OTHER                                            -> "none"

Decide(q) ==
    /\ req[q].at = "gated"
    /\ LET r == Refusal(req[q].op, rec[req[q].team].st)
       IN IF req[q].op = "input" /\ r \in {"none", "deleted"}
          THEN \/ Answer(q, AnswerFor("absent"), TRUE)   \* _find_message comes first
               \/ IF r = "none" THEN req' = [req EXCEPT ![q].at = "decided"]
                                ELSE Answer(q, AnswerFor(r), FALSE)
          ELSE IF r # "none" THEN Answer(q, AnswerFor(r), FALSE)
          ELSE IF req[q].op = "read"
          THEN \E code \in {200, 400} : Answer(q, code, FALSE)   \* 400 for a stale cursor
          ELSE req' = [req EXCEPT ![q].at = "decided", ![q].was = rec[req[q].team]]
    /\ UNCHANGED <<rec, served, jobs, frames, stood, mine>>

\* stop_team, resume_team and delete_team of the worker.  The record may have changed
\* since, and a team being deleted may be revived between its stop and its deletion:
\* the worker's ValueErrors say what is wrong; of a deletion the route says not found.
EndOrRestart(q) ==
    /\ req[q].at = "decided" /\ req[q].op \in {"stop", "restore", "delete"}
    /\ LET t == req[q].team
           op == req[q].op
           fits == rec[t].st = req[q].was.st
       IN \/ /\ Found(t) /\ fits
             /\ \E st \in CASE op = "stop" -> {"stopped"} [] op = "restore" -> {"running"}
                            [] op = "delete" -> {"deleted", "gone"} :
                   rec' = [rec EXCEPT ![t].st = st]
             /\ Answer(q, IF op = "restore" THEN 200 ELSE 204, FALSE)
          \/ /\ ~fits \/ (op = "delete" /\ req[q].was.st = "running")
             /\ Answer(q, IF op = "delete" \/ Retired(t) THEN 404 ELSE AnswerFor("conflict"), FALSE)
             /\ UNCHANGED rec
    /\ UNCHANGED <<served, jobs, frames, stood, mine>>

\* maybe_generate's trigger.
Undescribed(row) == row.desc = NoText /\ row.origin = "AUTO"

\* The deliveries: a stopped team is revived; a runtime without a handle is refused;
\* an agent nobody knows is found out last.  A message that carries text is shown to
\* the generator with the record the service read.
Deliver(q) ==
    /\ req[q].at = "decided" /\ req[q].op \in {"send", "input"}
    /\ LET t == req[q].team
           Revive == rec' = [rec EXCEPT ![t].st = "running"]
       IN \/ /\ Retired(t)
             /\ Answer(q, AnswerFor("absent"), FALSE) /\ UNCHANGED <<rec, jobs>>
          \/ /\ rec[t].st = "running"
             /\ Answer(q, AnswerFor("running"), FALSE) /\ UNCHANGED <<rec, jobs>>
          \/ /\ Found(t) /\ req[q].op # "input"
             /\ Revive /\ Answer(q, AnswerFor("absent"), TRUE) /\ UNCHANGED jobs
          \/ /\ Found(t)
             /\ Revive /\ Answer(q, 204, FALSE)
             /\ jobs' = IF req[q].op = "send" /\ req[q].text # NoText /\ Undescribed(req[q].was)
                        THEN Append(jobs, [team |-> t, text |-> req[q].text, at |-> "think"])
                        ELSE jobs
    /\ UNCHANGED <<served, frames, stood, mine>>

\* The store's update as USER: the value lands whatever the origin, and latches it.
Describe(q) ==
    /\ req[q].at = "decided" /\ req[q].op = "describe"
    /\ LET t == req[q].team IN
         IF Stored(t)
         THEN /\ rec' = [rec EXCEPT ![t].desc = req[q].text, ![t].origin = "USER"]
              /\ mine' = [mine EXCEPT ![t] = {req[q].text}]
              /\ Answer(q, 200, FALSE)
         ELSE Answer(q, AnswerFor("absent"), FALSE) /\ UNCHANGED <<rec, mine>>
    /\ UNCHANGED <<served, jobs, frames, stood>>

\* The document and its index are replaced in one write, after validation.
Document(q) ==
    /\ req[q].at = "decided" /\ req[q].op = "metadata"
    /\ LET t == req[q].team IN
         \/ Answer(q, 422, FALSE) /\ UNCHANGED rec
         \/ /\ Found(t) /\ Answer(q, 200, FALSE)
            /\ \E es \in SUBSET DOMAIN Starts : rec' = [rec EXCEPT ![t].entries = es]
         \/ Retired(t) /\ Answer(q, AnswerFor("absent"), FALSE) /\ UNCHANGED rec
    /\ UNCHANGED <<served, jobs, frames, stood, mine>>

Sent(q) == /\ req[q].at = "answered" /\ req' = [req EXCEPT ![q] = Nothing]
           /\ UNCHANGED <<rec, served, jobs, frames, stood, mine>>

------------------------------------------------------------------------------
(* The generator's thread: one job at a time, in order. *)

Working(at) == jobs # <<>> /\ Head(jobs).at = at
JobTeam == Head(jobs).team
OnTo(at) == jobs' = [jobs EXCEPT ![1].at = at]

\* The model answers, with nothing usable or not at all.
Think == /\ Working("think")
         /\ OnTo("commit") \/ jobs' = Tail(jobs)
         /\ UNCHANGED <<rec, req, served, frames, stood, mine>>

\* A plausible slip: the check was made when the job was queued.
CommitUnchecked ==
    /\ Working("commit")
    /\ IF Stored(JobTeam)
       THEN /\ rec' = [rec EXCEPT ![JobTeam].desc = Head(jobs).text]
            /\ stood' = stood \cup {<<JobTeam, Head(jobs).text>>}
            /\ OnTo("notify")
       ELSE jobs' = Tail(jobs) /\ UNCHANGED <<rec, stood>>
    /\ UNCHANGED <<req, served, frames, mine>>

\* The store's update as AUTO, refused once the origin is USER.  It may also refuse
\* to replace a generated text; the page is told when the answer carries this one.
Commit ==
    /\ Working("commit")
    /\ \/ /\ Stored(JobTeam) /\ rec[JobTeam].origin = "AUTO"
          /\ rec' = [rec EXCEPT ![JobTeam].desc = Head(jobs).text]
          /\ stood' = stood \cup {<<JobTeam, Head(jobs).text>>}
          /\ OnTo("notify")
       \/ /\ ~Stored(JobTeam) \/ rec[JobTeam].origin = "USER"
             \/ rec[JobTeam].desc \notin {NoText, Head(jobs).text}
          /\ jobs' = Tail(jobs) /\ UNCHANGED <<rec, stood>>
    /\ UNCHANGED <<req, served, frames, mine>>

\* emit_message, which revives a team stopped meanwhile, or fails.
Notify ==
    /\ Working("notify")
    /\ jobs' = Tail(jobs)
    /\ \/ /\ Found(JobTeam)
          /\ rec' = [rec EXCEPT ![JobTeam].st = "running"]
          /\ frames' = frames \cup {<<JobTeam, Head(jobs).text>>}
       \/ UNCHANGED <<rec, frames>>
    /\ UNCHANGED <<req, served, stood, mine>>

------------------------------------------------------------------------------
ApiInit ==
    /\ rec \in Archives
    /\ req = [q \in Slots |-> Nothing] /\ served = 0
    /\ jobs = <<>> /\ frames = {} /\ stood = {}
    /\ mine = [t \in ApiTeams |-> {}]

ApiNext ==
    \/ \E q \in Slots :
          \/ \E u \in ApiUsers, t \in ApiTeams :
                \/ Create(q, u, t)
                \/ \E op \in ByTeam : \E text \in IF op \in {"send", "describe"}
                                                 THEN Texts \cup {NoText} ELSE {NoText} :
                      Gate(q, u, t, op, text)
          \/ Decide(q) \/ EndOrRestart(q) \/ Deliver(q) \/ Describe(q) \/ Document(q)
          \/ Sent(q)
    \/ Think \/ Commit \/ Notify

ApiSpec == ApiInit /\ [][ApiNext]_apiVars

------------------------------------------------------------------------------
Pending == [at : {"gated", "decided"}, op : ByTeam, team : ApiTeams,
            text : Texts \cup {NoText}, was : Rows \cup {NoRecord}]
Replies == [at : {"answered"}, op : ByTeam \cup {"create"}, team : ApiTeams,
            entitled : BOOLEAN, code : Nat, lack : BOOLEAN]
Jobs == [team : ApiTeams, text : Texts, at : {"think", "commit", "notify"}]

\* Every variable has its type, and only the first job has been started.
ApiTypeOK ==
    /\ rec \in [ApiTeams -> Rows \cup {NoRecord}]
    /\ req \in [Slots -> {Nothing} \cup Pending \cup Replies]
    /\ served \in 0..MaxServed
    /\ jobs \in Seq(Jobs)
    /\ \A i \in DOMAIN jobs : i > 1 => jobs[i].at = "think"

\* What a user wrote stands: once a description was set or cleared, the record
\* carries it, whatever generations were queued before, are under way or come
\* later, and no page is told of a generated text the store refused.
UserTextStands ==
    /\ \A t \in ApiTeams : mine[t] # {} => rec[t].desc \in mine[t] /\ rec[t].origin = "USER"
    /\ frames \subseteq stood

\* A status says what is the case.  A caller the policy denies is answered 404
\* whatever it asks; to one it admits, 404 says that the team is retired, or that
\* what the request names is missing, also when the team was there at the gate.
\* The one exception is a deletion the worker refused, which the route answers
\* 404 although the team is there (delete_team's `except ValueError`).
AnswersAreTrue ==
    \A q \in Slots : req[q].at = "answered" =>
       /\ req[q].code = 409 => req[q].entitled
       /\ req[q].code = 404 /\ req[q].entitled
            => req[q].lack \/ Retired(req[q].team) \/ req[q].op = "delete"
       /\ ~req[q].entitled => req[q].code = 404

\* Page after page a listing gives every team the policy lets the caller list and
\* the caller asked for, newest first, each once and no other, after any requests;
\* no query, blank terms and odd sizes included, widens it beyond what the policy
\* allows.
ListingIsExact ==
    (served > 0 /\ jobs = <<>> /\ \A q \in Slots : req[q] = Nothing) =>
    \A u \in ApiUsers, query \in Queries, status \in {"any", "stopped", "deleted"},
       names \in {{}} \cup {{n} : n \in ListNames}, size \in {0, 1, MaxPageSize + 1} :
       LET teams == Matched(u, status, query, names)
           pages == FlattenSeq([p \in 1 .. Cardinality(ApiTeams) |-> Page(teams, p, size)])
       IN /\ teams = {t \in ApiTeams : /\ Stored(t) /\ InStatus(rec[t], status)
                                       /\ \E c \in Clauses[u] : Covered(rec[t], c)
                                       /\ \A g \in query : \/ g \subseteq {Blank}
                                                             \/ Begun(rec[t], {g \ {Blank}})
                                       /\ names = {} \/ rec[t].ns \in names}
          /\ \A t \in teams : \E i \in DOMAIN pages : pages[i] = t
          /\ \A i, j \in DOMAIN pages : i < j => Newest(pages[i], pages[j])
==============================================================================
