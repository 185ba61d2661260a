---------------------------- MODULE TeamApiProofs ----------------------------
(***************************************************************************)
(* Proofs about TeamApi: for any teams, users, texts, slots and requests,  *)
(* what a user wrote stands, every status says what is the case, and the   *)
(* pages of a listing have each listable team once, newest first.          *)
(***************************************************************************)
EXTENDS TeamApi, SequenceTheorems, FiniteSetTheorems, WellFoundedInduction, TLAPS

\* A text that has been written to a record is the record's and latched.
Latched ==
    \A t \in ApiTeams : mine[t] # {} => /\ rec[t] # NoRecord /\ rec[t].origin = "USER"
                                        /\ rec[t].desc \in mine[t]

\* A job that is about to notify carries a text the store took.
NotifiesStood ==
    /\ \A i \in DOMAIN jobs : jobs[i].at = "notify" => <<jobs[i].team, jobs[i].text>> \in stood
    /\ frames \subseteq stood

\* A request past the gate is about a team that had a record.
PendingHasRecord == \A q \in Slots : req[q] \in Pending => rec[req[q].team] # NoRecord

\* What AnswersAreTrue says of one reply, row being its team's record.
IsRetired(row) == row.st \in {"deleted", "gone"}
TrueReply(r, row) ==
    /\ r.code = 409 => r.entitled
    /\ r.code = 404 /\ r.entitled => r.lack \/ IsRetired(row) \/ r.op = "delete"
    /\ ~r.entitled => r.code = 404
RepliesAreTrue == \A q \in Slots : req[q] \in Replies => TrueReply(req[q], rec[req[q].team])

RecType == rec \in [ApiTeams -> Rows \cup {NoRecord}]
ReqType == req \in [Slots -> {Nothing} \cup Pending \cup Replies]
JobType == jobs \in Seq(Jobs) /\ \A i \in DOMAIN jobs : i > 1 => jobs[i].at = "think"
MineType == mine \in [ApiTeams -> SUBSET (Texts \cup {NoText})]

ApiInv ==
    /\ RecType /\ ReqType /\ JobType /\ MineType /\ served \in 0..MaxServed
    /\ Latched /\ NotifiesStood /\ PendingHasRecord /\ RepliesAreTrue

------------------------------------------------------------------------------
(* Records, requests and jobs. *)

\* A stored team has a whole record, and a pending request one team.
LEMMA FoundHasRow ==
    ASSUME RecType, NEW t \in ApiTeams
    PROVE  /\ rec[t] # NoRecord => rec[t] \in Rows
           /\ Stored(t) => rec[t] # NoRecord
           /\ Found(t) => rec[t] # NoRecord /\ Stored(t)
           /\ Retired(t) => rec[t] # NoRecord
  BY DEF RecType, Stored, Found, Retired, NoRecord

\* The three kinds of request differ in where they are.
LEMMA KindOfRequest ==
    ASSUME ReqType, NEW q \in Slots
    PROVE  /\ req[q] \in {Nothing} \cup Pending \cup Replies
           /\ req[q].at \in {"gated", "decided"} => req[q] \in Pending
           /\ req[q].at = "answered" => req[q] \in Replies
           /\ req[q] \in Pending => req[q].team \in ApiTeams
           /\ req[q] \in Replies => req[q].team \in ApiTeams /\ req[q].at = "answered"
           /\ req[q] \in Pending => req[q] \notin Replies
  BY DEF ReqType, Nothing, Pending, Replies

\* A step keeps or replaces the text of a team that has a record, and never
\* takes a record away; a team that is retired stays so.
Keeps == \A t \in ApiTeams : /\ rec[t] # NoRecord => rec'[t] # NoRecord
                             /\ IsRetired(rec[t]) => IsRetired(rec'[t])

\* What a step may do to the records without a word about the descriptions.
KeepsTexts == \A t \in ApiTeams : rec[t] # NoRecord =>
                  rec'[t].desc = rec[t].desc /\ rec'[t].origin = rec[t].origin

\* Requests that stay what they were stay true, when the records are kept.
LEMMA OthersStayTrue ==
    ASSUME ApiInv, Keeps, NEW q \in Slots, req'[q] = req[q]
    PROVE  /\ req'[q] \in Pending => rec'[req'[q].team] # NoRecord
           /\ req'[q] \in Replies => TrueReply(req'[q], rec'[req'[q].team])
<1>1. CASE req[q] \in Pending
  <2>1. req[q].team \in ApiTeams /\ rec[req[q].team] # NoRecord /\ req[q] \notin Replies
    BY <1>1, KindOfRequest DEF ApiInv, PendingHasRecord
  <2>2. QED
    BY <2>1 DEF Keeps
<1>2. CASE req[q] \in Replies
  <2>1. req[q].team \in ApiTeams /\ TrueReply(req[q], rec[req[q].team])
        /\ req[q] \notin Pending
    BY <1>2, KindOfRequest DEF ApiInv, RepliesAreTrue
  <2>2. IsRetired(rec[req[q].team]) => IsRetired(rec'[req[q].team])
    BY <2>1 DEF Keeps
  <2>3. TrueReply(req[q], rec'[req[q].team])
    BY <2>1, <2>2 DEF TrueReply
  <2>4. QED
    BY <2>1, <2>3
<1>3. CASE req[q] \notin Pending /\ req[q] \notin Replies
  BY <1>3
<1>4. QED
  BY <1>1, <1>2, <1>3

\* A step that changes one request, to one that is well formed and true.
LEMMA OneRequest ==
    ASSUME ApiInv, Keeps, NEW q \in Slots, NEW r,
           req' = [req EXCEPT ![q] = r],
           r \in {Nothing} \cup Pending \cup Replies,
           r \in Pending => rec'[r.team] # NoRecord,
           r \in Replies => TrueReply(r, rec'[r.team])
    PROVE  ReqType' /\ PendingHasRecord' /\ RepliesAreTrue'
<1>1. req'[q] = r /\ \A p \in Slots \ {q} : req'[p] = req[p]
  BY DEF ApiInv, ReqType
<1>2. ReqType'
  BY DEF ApiInv, ReqType
<1>3. \A p \in Slots \ {q} : /\ req'[p] \in Pending => rec'[req'[p].team] # NoRecord
                             /\ req'[p] \in Replies => TrueReply(req'[p], rec'[req'[p].team])
  BY <1>1, OthersStayTrue
<1>4. PendingHasRecord'
  BY <1>1, <1>3 DEF PendingHasRecord
<1>5. RepliesAreTrue'
  BY <1>1, <1>3 DEF RepliesAreTrue
<1>6. QED
  BY <1>2, <1>4, <1>5

\* A step that leaves every request alone.
LEMMA NoRequest ==
    ASSUME ApiInv, Keeps, UNCHANGED req
    PROVE  ReqType' /\ PendingHasRecord' /\ RepliesAreTrue'
<1>1. \A p \in Slots : /\ req'[p] \in Pending => rec'[req'[p].team] # NoRecord
                       /\ req'[p] \in Replies => TrueReply(req'[p], rec'[req'[p].team])
  BY OthersStayTrue
<1>2. QED
  BY <1>1 DEF ApiInv, ReqType, PendingHasRecord, RepliesAreTrue

\* An answer to a pending request, with a code that is true.
LEMMA AnswerIsTrue ==
    ASSUME ApiInv, Keeps, NEW q \in Slots, req[q] \in Pending, NEW code \in Nat,
           NEW lack \in BOOLEAN, Answer(q, code, lack),
           code = 404 => lack \/ IsRetired(rec'[req[q].team]) \/ req[q].op = "delete"
    PROVE  ReqType' /\ PendingHasRecord' /\ RepliesAreTrue'
<1> DEFINE r == [at |-> "answered", op |-> req[q].op, team |-> req[q].team,
                 entitled |-> TRUE, code |-> code, lack |-> lack]
<1>1. req' = [req EXCEPT ![q] = r]
  BY DEF Answer, ApiInv, ReqType
<1>2. r \in Replies
  BY DEF Pending, Replies
<1>3. r \notin Pending
  BY DEF Pending
<1>4. TrueReply(r, rec'[r.team])
  BY DEF TrueReply
<1>5. QED
  BY <1>1, <1>2, <1>3, <1>4, OneRequest

\* An answer of another status than 404.
Plain(q, code) == Answer(q, code, FALSE)

\* Such an answer is well formed and true.
LEMMA PlainAnswerIsTrue ==
    ASSUME ApiInv, Keeps, NEW q \in Slots, req[q] \in Pending, NEW code \in Nat \ {404},
           Plain(q, code)
    PROVE  ReqType' /\ PendingHasRecord' /\ RepliesAreTrue'
  BY AnswerIsTrue DEF Plain

\* A record that changes only in its status, to another one of a team, keeps every
\* text; a team that is found is not retired.
LEMMA StatusChange ==
    ASSUME RecType, NEW t \in ApiTeams, Found(t),
           NEW st \in {"running", "stopped", "deleted", "gone"},
           rec' = [rec EXCEPT ![t].st = st]
    PROVE  RecType' /\ Keeps /\ KeepsTexts
<1>1. rec[t] \in Rows
  BY FoundHasRow
<1>2. /\ rec'[t] = [rec[t] EXCEPT !.st = st]
      /\ \A s \in ApiTeams \ {t} : rec'[s] = rec[s]
  BY DEF RecType
<1>3. /\ rec'[t] \in Rows
      /\ rec'[t].desc = rec[t].desc /\ rec'[t].origin = rec[t].origin
  BY <1>1, <1>2 DEF Rows
<1>4. RecType'
  BY <1>3 DEF RecType
<1>5. rec'[t] # NoRecord /\ ~IsRetired(rec[t])
  BY <1>3 DEF Rows, NoRecord, Found, IsRetired
<1>6. QED
  BY <1>2, <1>3, <1>4, <1>5 DEF Keeps, KeepsTexts

\* The same of a change of the index entries, whatever they become.
LEMMA EntriesChange ==
    ASSUME RecType, NEW t \in ApiTeams, Found(t), NEW es \in SUBSET DOMAIN Starts,
           rec' = [rec EXCEPT ![t].entries = es]
    PROVE  RecType' /\ Keeps /\ KeepsTexts
<1>1. rec[t] \in Rows
  BY FoundHasRow
<1>2. /\ rec'[t] = [rec[t] EXCEPT !.entries = es]
      /\ \A s \in ApiTeams \ {t} : rec'[s] = rec[s]
  BY DEF RecType
<1>3. /\ rec'[t] \in Rows
      /\ rec'[t].desc = rec[t].desc /\ rec'[t].origin = rec[t].origin
  BY <1>1, <1>2 DEF Rows
<1>4. RecType'
  BY <1>3 DEF RecType
<1>5. rec'[t] # NoRecord /\ ~IsRetired(rec[t])
  BY <1>3 DEF Rows, NoRecord, Found, IsRetired
<1>6. QED
  BY <1>2, <1>3, <1>4, <1>5 DEF Keeps, KeepsTexts

\* A step that leaves the records alone.
LEMMA NoChange ==
    ASSUME RecType, UNCHANGED rec
    PROVE  RecType' /\ Keeps /\ KeepsTexts
  BY DEF RecType, Keeps, KeepsTexts

\* Texts that are kept are latched as before.
LEMMA LatchedKept ==
    ASSUME ApiInv, Keeps, KeepsTexts, UNCHANGED mine
    PROVE  Latched' /\ MineType'
<1>1. ASSUME NEW t \in ApiTeams, mine'[t] # {}
      PROVE  rec'[t] # NoRecord /\ rec'[t].origin = "USER" /\ rec'[t].desc \in mine'[t]
  <2>1. rec[t] # NoRecord /\ rec[t].origin = "USER" /\ rec[t].desc \in mine[t]
    BY <1>1 DEF ApiInv, Latched
  <2>2. QED
    BY <2>1 DEF Keeps, KeepsTexts
<1>2. QED
  BY <1>1 DEF Latched, MineType, ApiInv

\* The first job ends; those behind it have not been started.
LEMMA JobEnds ==
    ASSUME JobType, jobs # <<>>, jobs' = Tail(jobs)
    PROVE  JobType' /\ \A i \in DOMAIN jobs' : jobs'[i].at = "think"
<1>1. jobs' \in Seq(Jobs)
  BY DEF JobType
<1>2. ASSUME NEW i \in DOMAIN jobs'
      PROVE  jobs'[i].at = "think"
  <2>1. i + 1 \in DOMAIN jobs /\ i + 1 > 1 /\ jobs'[i] = jobs[i + 1]
    BY DEF JobType
  <2>2. QED
    BY <2>1 DEF JobType
<1>3. QED
  BY <1>1, <1>2 DEF JobType

\* The first job goes on.
LEMMA JobGoesOn ==
    ASSUME JobType, jobs # <<>>, NEW at \in {"commit", "notify"}, OnTo(at)
    PROVE  /\ JobType'
           /\ \A i \in DOMAIN jobs' : i > 1 => jobs'[i].at = "think"
           /\ jobs'[1] = [jobs[1] EXCEPT !.at = at] /\ jobs[1] \in Jobs /\ Head(jobs) = jobs[1]
<1>1. jobs[1] \in Jobs /\ 1 \in DOMAIN jobs /\ Head(jobs) = jobs[1]
  BY DEF JobType
<1>2. [jobs[1] EXCEPT !.at = at] \in Jobs
  BY <1>1 DEF Jobs
<1>3. jobs' = [jobs EXCEPT ![1] = [jobs[1] EXCEPT !.at = at]]
  BY DEF OnTo
<1>4. /\ jobs' \in Seq(Jobs) /\ DOMAIN jobs' = DOMAIN jobs
      /\ jobs'[1] = [jobs[1] EXCEPT !.at = at]
      /\ \A i \in DOMAIN jobs : i > 1 => jobs'[i] = jobs[i]
  BY <1>1, <1>2, <1>3 DEF JobType
<1>5. \A i \in DOMAIN jobs' : i > 1 => jobs'[i].at = "think"
  BY <1>4 DEF JobType
<1>6. QED
  BY <1>1, <1>4, <1>5 DEF JobType

\* Jobs that have not been started, or are left alone, notify of nothing new.
LEMMA NotifiesKept ==
    ASSUME NotifiesStood, stood \subseteq stood', frames' = frames,
           UNCHANGED jobs \/ \A i \in DOMAIN jobs' : jobs'[i].at = "think"
    PROVE  NotifiesStood'
  BY DEF NotifiesStood

------------------------------------------------------------------------------
(* The requests' steps. *)

\* The records the server starts with have their type, and nothing is asked.
LEMMA InitApi == ApiInit => ApiInv
<1> SUFFICES ASSUME ApiInit PROVE ApiInv
  OBVIOUS
<1>1. RecType
  BY ApiAssumption DEF ApiInit, RecType
<1>2. \A q \in Slots : req[q] = Nothing
  BY DEF ApiInit
<1>3. ReqType
  BY DEF ApiInit, ReqType
<1>4. PendingHasRecord /\ RepliesAreTrue
  <2>1. Nothing \notin Pending /\ Nothing \notin Replies
    BY DEF Nothing, Pending, Replies
  <2>2. QED
    BY <1>2, <2>1 DEF PendingHasRecord, RepliesAreTrue
<1>5. <<>> \in Seq(Jobs)
  OBVIOUS
<1>6. JobType /\ NotifiesStood
  BY <1>5 DEF ApiInit, JobType, NotifiesStood
<1>7. MineType /\ Latched /\ served \in 0..MaxServed
  BY ApiAssumption DEF ApiInit, MineType, Latched
<1>8. QED
  BY <1>1, <1>3, <1>4, <1>6, <1>7 DEF ApiInv

\* The gate lets a request on about a team that is found, or answers 404.
LEMMA GateApi ==
    ASSUME ApiInv, NEW q \in Slots, NEW u \in ApiUsers, NEW t \in ApiTeams, NEW op \in ByTeam,
           NEW text \in Texts \cup {NoText}, Gate(q, u, t, op, text)
    PROVE  ApiInv'
<1>1. RecType' /\ Keeps /\ KeepsTexts
  BY NoChange DEF Gate, ApiInv
<1>2. Latched' /\ MineType'
  BY <1>1, LatchedKept DEF Gate
<1>3. NotifiesStood' /\ JobType' /\ served' \in 0..MaxServed
  BY ApiAssumption DEF Gate, ApiInv, NotifiesStood, JobType
<1> DEFINE pending == [at |-> "gated", op |-> op, team |-> t, text |-> text, was |-> NoRecord]
           refused == [at |-> "answered", op |-> op, team |-> t, entitled |-> FALSE,
                       code |-> 404, lack |-> FALSE]
<1>4. CASE Found(t) /\ Entitled(u, t)
  <2>1. req' = [req EXCEPT ![q] = pending]
    BY <1>4 DEF Gate
  <2>2. pending \in Pending /\ pending \notin Replies
    BY DEF Pending, Replies
  <2>3. rec'[pending.team] # NoRecord
    BY <1>1, <1>4, FoundHasRow DEF Keeps, ApiInv
  <2> HIDE DEF pending
  <2>4. ReqType' /\ PendingHasRecord' /\ RepliesAreTrue'
    BY <1>1, <2>1, <2>2, <2>3, OneRequest
  <2>5. QED
    BY <1>1, <1>2, <1>3, <2>4 DEF ApiInv
<1>5. CASE ~(Found(t) /\ Entitled(u, t))
  <2>1. req' = [req EXCEPT ![q] = refused]
    BY <1>5 DEF Gate
  <2>2. refused \in Replies /\ refused \notin Pending
    BY DEF Pending, Replies
  <2>3. TrueReply(refused, rec'[refused.team])
    BY DEF TrueReply
  <2> HIDE DEF refused
  <2>4. ReqType' /\ PendingHasRecord' /\ RepliesAreTrue'
    BY <1>1, <2>1, <2>2, <2>3, OneRequest
  <2>5. QED
    BY <1>1, <1>2, <1>3, <2>4 DEF ApiInv
<1>6. QED
  BY <1>4, <1>5

\* A team is created where there is no record, described by nobody.
LEMMA CreateApi ==
    ASSUME ApiInv, NEW q \in Slots, NEW u \in ApiUsers, NEW t \in ApiTeams, Create(q, u, t)
    PROVE  ApiInv'
<1>1. PICK code \in {201, 403, 404, 409, 422} :
         /\ req' = [req EXCEPT ![q] = [at |-> "answered", op |-> "create", team |-> t,
                                       entitled |-> TRUE, code |-> code, lack |-> code = 404]]
         /\ IF code = 201
            THEN \E ns \in ListNames :
                    rec' = [rec EXCEPT ![t] = [st |-> "running", owner |-> u, ns |-> ns,
                                               entries |-> {}, created |-> t, desc |-> NoText,
                                               origin |-> "AUTO"]]
            ELSE UNCHANGED rec
  BY DEF Create
<1>2. RecType' /\ Keeps /\ KeepsTexts
  <2>1. CASE code # 201
    BY <1>1, <2>1, NoChange DEF ApiInv
  <2>2. CASE code = 201
    <3>1. PICK ns \in ListNames :
             rec' = [rec EXCEPT ![t] = [st |-> "running", owner |-> u, ns |-> ns,
                                        entries |-> {}, created |-> t, desc |-> NoText,
                                        origin |-> "AUTO"]]
      BY <1>1, <2>2
    <3>2. [st |-> "running", owner |-> u, ns |-> ns, entries |-> {}, created |-> t,
           desc |-> NoText, origin |-> "AUTO"] \in Rows
      BY ApiAssumption DEF Rows
    <3>3. RecType'
      BY <3>1, <3>2 DEF RecType, ApiInv
    <3>4. rec[t] = NoRecord /\ \A s \in ApiTeams \ {t} : rec'[s] = rec[s]
      BY <3>1 DEF Create, RecType, ApiInv
    <3>5. Keeps /\ KeepsTexts
      BY <3>4 DEF Keeps, KeepsTexts, NoRecord, IsRetired
    <3>6. QED
      BY <3>3, <3>5
  <2>3. QED
    BY <2>1, <2>2
<1>3. Latched' /\ MineType'
  BY <1>2, LatchedKept DEF Create
<1>4. NotifiesStood' /\ JobType' /\ served' \in 0..MaxServed
  BY ApiAssumption DEF Create, ApiInv, NotifiesStood, JobType
<1> DEFINE r == [at |-> "answered", op |-> "create", team |-> t, entitled |-> TRUE,
                 code |-> code, lack |-> code = 404]
<1>5. r \in Replies /\ r \notin Pending
  BY DEF Replies, Pending
<1>6. TrueReply(r, rec'[r.team])
  BY DEF TrueReply
<1>7. req' = [req EXCEPT ![q] = r]
  BY <1>1
<1>8. ReqType' /\ PendingHasRecord' /\ RepliesAreTrue'
  <2> HIDE DEF r
  <2>1. QED
    BY <1>2, <1>5, <1>6, <1>7, OneRequest
<1>9. QED
  BY <1>2, <1>3, <1>4, <1>8 DEF ApiInv

\* The answer is sent.
LEMMA SentApi ==
    ASSUME ApiInv, NEW q \in Slots, Sent(q)
    PROVE  ApiInv'
<1>1. RecType' /\ Keeps /\ KeepsTexts
  BY NoChange DEF Sent, ApiInv
<1>2. Latched' /\ MineType'
  BY <1>1, LatchedKept DEF Sent
<1>3. NotifiesStood' /\ JobType' /\ served' \in 0..MaxServed
  BY DEF Sent, ApiInv, NotifiesStood, JobType
<1>4. Nothing \notin Pending /\ Nothing \notin Replies
  BY DEF Nothing, Pending, Replies
<1>5. ReqType' /\ PendingHasRecord' /\ RepliesAreTrue'
  BY <1>1, <1>4, OneRequest DEF Sent
<1>6. QED
  BY <1>1, <1>2, <1>3, <1>5 DEF ApiInv

\* What is asked, and a record that keeps the service busy.
LEMMA DecidedIsPending ==
    ASSUME ApiInv, NEW q \in Slots, req[q].at \in {"gated", "decided"}
    PROVE  /\ req[q] \in Pending /\ req[q].team \in ApiTeams
           /\ rec[req[q].team] # NoRecord /\ rec[req[q].team] \in Rows
<1>1. req[q] \in Pending /\ req[q].team \in ApiTeams
  BY KindOfRequest DEF ApiInv
<1>2. rec[req[q].team] # NoRecord
  BY <1>1 DEF ApiInv, PendingHasRecord
<1>3. QED
  BY <1>1, <1>2, FoundHasRow DEF ApiInv

\* The status of a refusal, which is 404 for the reasons that say so.
LEMMA StatusOfReason ==
    ASSUME NEW r
    PROVE  AnswerFor(r) \in Nat /\ (AnswerFor(r) = 404 => r \in {"absent", "deleted"})
  BY DEF AnswerFor

\* The service reads the record and refuses, answers or goes on.
LEMMA DecideApi ==
    ASSUME ApiInv, NEW q \in Slots, Decide(q)
    PROVE  ApiInv'
<1>1. RecType' /\ Keeps /\ KeepsTexts /\ UNCHANGED rec
  BY NoChange DEF Decide, ApiInv
<1>2. Latched' /\ MineType'
  BY <1>1, LatchedKept DEF Decide
<1>3. NotifiesStood' /\ JobType' /\ served' \in 0..MaxServed
  BY DEF Decide, ApiInv, NotifiesStood, JobType
<1>4. req[q].at = "gated"
  BY DEF Decide
<1>5. /\ req[q] \in Pending /\ req[q].team \in ApiTeams
      /\ rec[req[q].team] # NoRecord /\ rec[req[q].team] \in Rows
  BY <1>4, DecidedIsPending
<1> DEFINE st == rec[req[q].team].st
           on == [req[q] EXCEPT !.at = "decided"]
           onWith == [req[q] EXCEPT !.at = "decided", !.was = rec[req[q].team]]
<1>6. st \in {"running", "stopped", "deleted", "gone"}
  BY <1>5 DEF Rows
<1>7. Refusal(req[q].op, st) \in {"absent", "deleted"} => IsRetired(rec[req[q].team])
  BY <1>6 DEF Refusal, IsRetired
<1>8. \/ Answer(q, AnswerFor("absent"), TRUE)
      \/ \E r \in {"absent", "conflict", "deleted", "stopped", "running"} :
            r = Refusal(req[q].op, st) /\ Answer(q, AnswerFor(r), FALSE)
      \/ Plain(q, 200) \/ Plain(q, 400)
      \/ req' = [req EXCEPT ![q] = on]
      \/ req' = [req EXCEPT ![q] = onWith]
  <2> DEFINE r == Refusal(req[q].op, st)
  <2>1. \/ r = "none"
        \/ r \in {"absent", "conflict", "deleted", "stopped", "running"}
    BY <1>6 DEF Refusal
  <2>2. CASE req[q].op = "input" /\ r \in {"none", "deleted"}
    <3>1. \/ Answer(q, AnswerFor("absent"), TRUE)
          \/ IF r = "none" THEN req' = [req EXCEPT ![q].at = "decided"]
                           ELSE Answer(q, AnswerFor(r), FALSE)
      BY <2>2 DEF Decide
    <3>2. QED
      BY <2>1, <3>1
  <2>3. CASE ~(req[q].op = "input" /\ r \in {"none", "deleted"}) /\ r # "none"
    <3>1. Answer(q, AnswerFor(r), FALSE)
      BY <2>3 DEF Decide
    <3>2. QED
      BY <2>1, <2>3, <3>1
  <2>4. CASE ~(req[q].op = "input" /\ r \in {"none", "deleted"}) /\ r = "none"
    <3>1. IF req[q].op = "read"
          THEN Plain(q, 200) \/ Plain(q, 400)
          ELSE req' = [req EXCEPT ![q].at = "decided", ![q].was = rec[req[q].team]]
      BY <2>4 DEF Decide, Plain
    <3>2. QED
      BY <3>1
  <2>5. QED
    BY <2>2, <2>3, <2>4
<1>9. ReqType' /\ PendingHasRecord' /\ RepliesAreTrue'
  <2>1. CASE Answer(q, AnswerFor("absent"), TRUE)
    <3>1. AnswerFor("absent") \in Nat
      BY StatusOfReason
    <3>2. QED
      BY <1>1, <1>5, <2>1, <3>1, AnswerIsTrue
  <2>2. ASSUME NEW r \in {"absent", "conflict", "deleted", "stopped", "running"},
               r = Refusal(req[q].op, st), Answer(q, AnswerFor(r), FALSE)
        PROVE  ReqType' /\ PendingHasRecord' /\ RepliesAreTrue'
    <3>1. AnswerFor(r) \in Nat /\ (AnswerFor(r) = 404 => r \in {"absent", "deleted"})
      BY StatusOfReason
    <3>2. AnswerFor(r) = 404 => IsRetired(rec'[req[q].team])
      BY <1>1, <1>7, <2>2, <3>1
    <3>3. QED
      BY <1>1, <1>5, <2>2, <3>1, <3>2, AnswerIsTrue
  <2>3. CASE Plain(q, 200) \/ Plain(q, 400)
    BY <1>1, <1>5, <2>3, PlainAnswerIsTrue
  <2>4. CASE req' = [req EXCEPT ![q] = on]
    <3>1. on \in Pending /\ on \notin Replies /\ on.team = req[q].team
      BY <1>5 DEF Pending, Replies
    <3>2. QED
      <4> HIDE DEF on
      <4>1. QED
        BY <1>1, <1>5, <2>4, <3>1, OneRequest
  <2>5. CASE req' = [req EXCEPT ![q] = onWith]
    <3>1. onWith \in Pending /\ onWith \notin Replies /\ onWith.team = req[q].team
      BY <1>5 DEF Pending, Replies
    <3>2. QED
      <4> HIDE DEF onWith
      <4>1. QED
        BY <1>1, <1>5, <2>5, <3>1, OneRequest
  <2>6. QED
    BY <1>8, <2>1, <2>2, <2>3, <2>4, <2>5
<1>10. QED
  BY <1>1, <1>2, <1>3, <1>9 DEF ApiInv

\* A record and what its deletion, its end or its restart makes of it.
LEMMA EndOrRestartApi ==
    ASSUME ApiInv, NEW q \in Slots, EndOrRestart(q)
    PROVE  ApiInv'
<1> DEFINE t == req[q].team
           op == req[q].op
<1>1. req[q].at = "decided" /\ op \in {"stop", "restore", "delete"}
  BY DEF EndOrRestart
<1>2. req[q] \in Pending /\ t \in ApiTeams /\ rec[t] # NoRecord /\ rec[t] \in Rows
  BY <1>1, DecidedIsPending
<1>3. NotifiesStood' /\ JobType' /\ served' \in 0..MaxServed /\ UNCHANGED mine
  BY DEF EndOrRestart, ApiInv, NotifiesStood, JobType
<1>4. \/ /\ Found(t)
         /\ \E st \in {"running", "stopped", "deleted", "gone"} : rec' = [rec EXCEPT ![t].st = st]
         /\ (Plain(q, 200) \/ Plain(q, 204))
      \/ /\ Answer(q, IF op = "delete" \/ Retired(t) THEN 404 ELSE AnswerFor("conflict"), FALSE)
         /\ UNCHANGED rec
  <2>1. CASE op = "stop"
    BY <2>1 DEF EndOrRestart, Plain
  <2>2. CASE op = "restore"
    BY <2>2 DEF EndOrRestart, Plain
  <2>3. CASE op = "delete"
    BY <2>3 DEF EndOrRestart, Plain
  <2>4. QED
    BY <1>1, <2>1, <2>2, <2>3
<1>5. CASE /\ Found(t)
           /\ \E st \in {"running", "stopped", "deleted", "gone"} : rec' = [rec EXCEPT ![t].st = st]
           /\ (Plain(q, 200) \/ Plain(q, 204))
  <2>1. RecType' /\ Keeps /\ KeepsTexts
    <3>1. PICK st \in {"running", "stopped", "deleted", "gone"} : rec' = [rec EXCEPT ![t].st = st]
      BY <1>5
    <3>2. QED
      BY <1>2, <1>5, <3>1, StatusChange DEF ApiInv
  <2>2. ReqType' /\ PendingHasRecord' /\ RepliesAreTrue'
    BY <1>2, <1>5, <2>1, PlainAnswerIsTrue
  <2>3. QED
    BY <1>3, <2>1, <2>2, LatchedKept DEF ApiInv
<1>6. CASE /\ Answer(q, IF op = "delete" \/ Retired(t) THEN 404 ELSE AnswerFor("conflict"), FALSE)
           /\ UNCHANGED rec
  <2>1. RecType' /\ Keeps /\ KeepsTexts
    BY <1>6, NoChange DEF ApiInv
  <2> DEFINE code == IF op = "delete" \/ Retired(t) THEN 404 ELSE AnswerFor("conflict")
  <2>2. code \in Nat /\ (code = 404 => IsRetired(rec'[t]) \/ op = "delete")
    BY <1>6 DEF AnswerFor, Retired, IsRetired
  <2>3. Answer(q, code, FALSE)
    BY <1>6
  <2>4. ReqType' /\ PendingHasRecord' /\ RepliesAreTrue'
    <3> HIDE DEF code
    <3>1. QED
      BY <1>2, <2>1, <2>2, <2>3, AnswerIsTrue
  <2>5. QED
    BY <1>3, <2>1, <2>4, LatchedKept DEF ApiInv
<1>7. QED
  BY <1>4, <1>5, <1>6

\* An answer that gives a reason, which is true of the team as it stands.
LEMMA ReasonIsTrue ==
    ASSUME ApiInv, Keeps, NEW q \in Slots, req[q] \in Pending,
           NEW r, NEW lack \in BOOLEAN, Answer(q, AnswerFor(r), lack),
           r \in {"absent", "deleted"} => lack \/ IsRetired(rec'[req[q].team])
    PROVE  ReqType' /\ PendingHasRecord' /\ RepliesAreTrue'
<1>1. AnswerFor(r) \in Nat /\ (AnswerFor(r) = 404 => r \in {"absent", "deleted"})
  BY StatusOfReason
<1>2. QED
  BY <1>1, AnswerIsTrue

\* A job joins the queue, not started.
LEMMA JobJoins ==
    ASSUME JobType, NotifiesStood, NEW j \in Jobs, j.at = "think", jobs' = Append(jobs, j),
           UNCHANGED <<stood, frames>>
    PROVE  JobType' /\ NotifiesStood'
<1>1. jobs' \in Seq(Jobs) /\ Len(jobs') = Len(jobs) + 1
  BY DEF JobType
<1>2. ASSUME NEW i \in DOMAIN jobs'
      PROVE  (i \in DOMAIN jobs /\ jobs'[i] = jobs[i]) \/ jobs'[i] = j
  BY DEF JobType
<1>3. JobType'
  BY <1>1, <1>2 DEF JobType
<1>4. NotifiesStood'
  BY <1>2 DEF NotifiesStood
<1>5. QED
  BY <1>3, <1>4

\* A message is delivered, which may start the team, or is refused; one that
\* carries text may queue a generation.
LEMMA DeliverApi ==
    ASSUME ApiInv, NEW q \in Slots, Deliver(q)
    PROVE  ApiInv'
<1> DEFINE t == req[q].team
           revived == [rec EXCEPT ![t].st = "running"]
           job == [team |-> t, text |-> req[q].text, at |-> "think"]
<1>1. req[q].at = "decided" /\ UNCHANGED <<served, frames, stood, mine>>
  BY DEF Deliver
<1>2. req[q] \in Pending /\ t \in ApiTeams
  BY <1>1, DecidedIsPending
<1>3. \/ Retired(t) /\ Answer(q, AnswerFor("absent"), FALSE) /\ UNCHANGED <<rec, jobs>>
      \/ Answer(q, AnswerFor("running"), FALSE) /\ UNCHANGED <<rec, jobs>>
      \/ /\ Found(t) /\ rec' = revived
         /\ Answer(q, AnswerFor("absent"), TRUE) /\ UNCHANGED jobs
      \/ /\ Found(t) /\ rec' = revived /\ Plain(q, 204)
         /\ UNCHANGED jobs \/ (req[q].text # NoText /\ jobs' = Append(jobs, job))
  BY DEF Deliver, Plain
<1>4. RecType' /\ Keeps /\ KeepsTexts
  <2>1. CASE UNCHANGED rec
    BY <2>1, NoChange DEF ApiInv
  <2>2. CASE Found(t) /\ rec' = revived
    BY <1>2, <2>2, StatusChange DEF ApiInv
  <2>3. QED
    BY <1>3, <2>1, <2>2
<1>5. Latched' /\ MineType' /\ served' \in 0..MaxServed
  BY <1>1, <1>4, LatchedKept DEF ApiInv
<1>6. JobType' /\ NotifiesStood'
  <2>1. CASE UNCHANGED jobs
    BY <1>1, <2>1 DEF ApiInv, JobType, NotifiesStood
  <2>2. CASE req[q].text # NoText /\ jobs' = Append(jobs, job)
    <3>1. job \in Jobs /\ job.at = "think"
      BY <1>2, <2>2 DEF Jobs, Pending
    <3>2. QED
      <4> HIDE DEF job
      <4>1. QED
        BY <1>1, <2>2, <3>1, JobJoins DEF ApiInv
  <2>3. QED
    BY <1>3, <2>1, <2>2
<1>7. ReqType' /\ PendingHasRecord' /\ RepliesAreTrue'
  <2>1. CASE Retired(t) /\ Answer(q, AnswerFor("absent"), FALSE) /\ UNCHANGED rec
    <3>1. IsRetired(rec'[t])
      BY <2>1 DEF Retired, IsRetired
    <3>2. QED
      BY <1>2, <1>4, <2>1, <3>1, ReasonIsTrue
  <2>2. CASE Answer(q, AnswerFor("running"), FALSE)
    BY <1>2, <1>4, <2>2, ReasonIsTrue
  <2>3. CASE Answer(q, AnswerFor("absent"), TRUE)
    BY <1>2, <1>4, <2>3, ReasonIsTrue
  <2>4. CASE Plain(q, 204)
    BY <1>2, <1>4, <2>4, PlainAnswerIsTrue
  <2>5. QED
    BY <1>3, <2>1, <2>2, <2>3, <2>4
<1>8. QED
  BY <1>4, <1>5, <1>6, <1>7 DEF ApiInv

\* A user's text is written and latched.
LEMMA DescribeApi ==
    ASSUME ApiInv, NEW q \in Slots, Describe(q)
    PROVE  ApiInv'
<1> DEFINE t == req[q].team
           text == req[q].text
<1>1. req[q].at = "decided" /\ UNCHANGED <<served, jobs, frames, stood>>
  BY DEF Describe
<1>2. /\ req[q] \in Pending /\ t \in ApiTeams
      /\ rec[t] # NoRecord /\ rec[t] \in Rows /\ text \in Texts \cup {NoText}
  BY <1>1, DecidedIsPending DEF Pending
<1>3. NotifiesStood' /\ JobType' /\ served' \in 0..MaxServed
  BY <1>1 DEF ApiInv, NotifiesStood, JobType
<1>4. CASE /\ rec' = [rec EXCEPT ![t].desc = text, ![t].origin = "USER"]
           /\ mine' = [mine EXCEPT ![t] = {text}]
           /\ Plain(q, 200)
  <2>1. /\ rec'[t] = [rec[t] EXCEPT !.desc = text, !.origin = "USER"]
        /\ \A s \in ApiTeams \ {t} : rec'[s] = rec[s]
    BY <1>2, <1>4 DEF ApiInv, RecType
  <2>2. /\ rec'[t] \in Rows
        /\ rec'[t].desc = text /\ rec'[t].origin = "USER" /\ rec'[t].st = rec[t].st
    BY <1>2, <2>1 DEF Rows
  <2>3. RecType'
    BY <1>4, <2>2 DEF ApiInv, RecType
  <2>4. rec'[t] # NoRecord
    BY <2>2 DEF Rows, NoRecord
  <2>5. Keeps
    <3>1. ASSUME NEW s \in ApiTeams
          PROVE  /\ rec[s] # NoRecord => rec'[s] # NoRecord
                 /\ IsRetired(rec[s]) => IsRetired(rec'[s])
      <4>1. CASE s = t
        BY <2>2, <2>4, <4>1 DEF IsRetired
      <4>2. CASE s # t
        BY <2>1, <4>2
      <4>3. QED
        BY <4>1, <4>2
    <3>2. QED
      BY <3>1 DEF Keeps
  <2>6. mine'[t] = {text} /\ \A s \in ApiTeams \ {t} : mine'[s] = mine[s]
    BY <1>2, <1>4 DEF ApiInv, MineType
  <2>7. Latched'
    <3>1. ASSUME NEW s \in ApiTeams, mine'[s] # {}
          PROVE  rec'[s] # NoRecord /\ rec'[s].origin = "USER" /\ rec'[s].desc \in mine'[s]
      <4>1. CASE s = t
        BY <2>2, <2>4, <2>6, <4>1
      <4>2. CASE s # t
        BY <2>1, <2>6, <3>1, <4>2 DEF ApiInv, Latched
      <4>3. QED
        BY <4>1, <4>2
    <3>2. QED
      BY <3>1 DEF Latched
  <2>8. MineType'
    BY <1>2, <1>4 DEF ApiInv, MineType
  <2>9. ReqType' /\ PendingHasRecord' /\ RepliesAreTrue'
    BY <1>2, <1>4, <2>5, PlainAnswerIsTrue
  <2>10. QED
    BY <1>3, <2>3, <2>7, <2>8, <2>9 DEF ApiInv
<1>5. CASE ~Stored(t) /\ Answer(q, AnswerFor("absent"), FALSE) /\ UNCHANGED <<rec, mine>>
  <2>1. RecType' /\ Keeps /\ KeepsTexts
    BY <1>5, NoChange DEF ApiInv
  <2>2. Latched' /\ MineType'
    BY <1>5, <2>1, LatchedKept
  <2>3. IsRetired(rec'[t])
    BY <1>2, <1>5 DEF Stored, IsRetired, Rows
  <2>4. ReqType' /\ PendingHasRecord' /\ RepliesAreTrue'
    BY <1>2, <1>5, <2>1, <2>3, ReasonIsTrue
  <2>5. QED
    BY <1>3, <2>1, <2>2, <2>4 DEF ApiInv
<1>6. QED
  BY <1>4, <1>5 DEF Describe, Plain

\* The metadata is replaced, or refused.
LEMMA DocumentApi ==
    ASSUME ApiInv, NEW q \in Slots, Document(q)
    PROVE  ApiInv'
<1> DEFINE t == req[q].team
<1>1. req[q].at = "decided" /\ UNCHANGED <<served, jobs, frames, stood, mine>>
  BY DEF Document
<1>2. req[q] \in Pending /\ t \in ApiTeams
  BY <1>1, DecidedIsPending
<1>3. \/ Plain(q, 422) /\ UNCHANGED rec
      \/ /\ Found(t) /\ Plain(q, 200)
         /\ \E es \in SUBSET DOMAIN Starts : rec' = [rec EXCEPT ![t].entries = es]
      \/ Retired(t) /\ Answer(q, AnswerFor("absent"), FALSE) /\ UNCHANGED rec
  BY DEF Document, Plain
<1>4. RecType' /\ Keeps /\ KeepsTexts
  <2>1. CASE UNCHANGED rec
    BY <2>1, NoChange DEF ApiInv
  <2>2. ASSUME Found(t), NEW es \in SUBSET DOMAIN Starts, rec' = [rec EXCEPT ![t].entries = es]
        PROVE  RecType' /\ Keeps /\ KeepsTexts
    BY <1>2, <2>2, EntriesChange DEF ApiInv
  <2>3. QED
    BY <1>3, <2>1, <2>2
<1>5. Latched' /\ MineType'
  BY <1>1, <1>4, LatchedKept
<1>6. NotifiesStood' /\ JobType' /\ served' \in 0..MaxServed
  BY <1>1 DEF ApiInv, NotifiesStood, JobType
<1>7. ReqType' /\ PendingHasRecord' /\ RepliesAreTrue'
  <2>1. CASE Plain(q, 422) \/ Plain(q, 200)
    BY <1>2, <1>4, <2>1, PlainAnswerIsTrue
  <2>2. CASE Retired(t) /\ Answer(q, AnswerFor("absent"), FALSE) /\ UNCHANGED rec
    <3>1. IsRetired(rec'[t])
      BY <2>2 DEF Retired, IsRetired
    <3>2. QED
      BY <1>2, <1>4, <2>2, <3>1, ReasonIsTrue
  <2>3. QED
    BY <1>3, <2>1, <2>2
<1>8. QED
  BY <1>4, <1>5, <1>6, <1>7 DEF ApiInv

------------------------------------------------------------------------------
(* The generator's steps. *)

\* The first job is a job of a team.
LEMMA FirstJob ==
    ASSUME ApiInv, NEW at, Working(at)
    PROVE  /\ jobs # <<>> /\ 1 \in DOMAIN jobs /\ Head(jobs) = jobs[1]
           /\ jobs[1] \in Jobs /\ JobTeam \in ApiTeams
<1>1. jobs # <<>> /\ jobs \in Seq(Jobs)
  BY DEF Working, ApiInv, JobType
<1>2. 1 \in DOMAIN jobs /\ Head(jobs) = jobs[1] /\ jobs[1] \in Jobs
  BY <1>1
<1>3. JobTeam \in ApiTeams
  BY <1>2 DEF JobTeam, Jobs
<1>4. QED
  BY <1>1, <1>2, <1>3

\* The model answers, or the job ends.
LEMMA ThinkApi ==
    ASSUME ApiInv, Think
    PROVE  ApiInv'
<1>1. UNCHANGED <<rec, req, served, frames, stood, mine>> /\ Working("think")
  BY DEF Think
<1>2. RecType' /\ Keeps /\ KeepsTexts
  BY <1>1, NoChange DEF ApiInv
<1>3. Latched' /\ MineType' /\ ReqType' /\ PendingHasRecord' /\ RepliesAreTrue'
  BY <1>1, <1>2, LatchedKept, NoRequest
<1>4. JobType' /\ NotifiesStood'
  <2>1. CASE jobs' = Tail(jobs)
    BY <1>1, <2>1, FirstJob, JobEnds, NotifiesKept DEF ApiInv
  <2>2. CASE OnTo("commit")
    <3>1. /\ JobType' /\ jobs'[1].at = "commit"
          /\ \A i \in DOMAIN jobs' : i > 1 => jobs'[i].at = "think"
      BY <1>1, <2>2, FirstJob, JobGoesOn DEF ApiInv, Jobs
    <3>2. \A i \in DOMAIN jobs' : jobs'[i].at # "notify"
      BY <3>1 DEF JobType
    <3>3. QED
      BY <1>1, <3>1, <3>2 DEF ApiInv, NotifiesStood
  <2>3. QED
    BY <2>1, <2>2 DEF Think
<1>5. QED
  BY <1>1, <1>2, <1>3, <1>4 DEF ApiInv

\* A generated text is written to a record that no user described.
LEMMA CommitApi ==
    ASSUME ApiInv, Commit
    PROVE  ApiInv'
<1> DEFINE t == JobTeam
           text == Head(jobs).text
<1>1. UNCHANGED <<req, served, frames, mine>> /\ Working("commit")
  BY DEF Commit
<1>2. /\ jobs # <<>> /\ 1 \in DOMAIN jobs /\ Head(jobs) = jobs[1]
      /\ jobs[1] \in Jobs /\ t \in ApiTeams
  BY <1>1, FirstJob
<1>3. CASE /\ Stored(t) /\ rec[t].origin = "AUTO"
           /\ rec' = [rec EXCEPT ![t].desc = text]
           /\ stood' = stood \cup {<<t, text>>}
           /\ OnTo("notify")
  <2>1. rec[t] \in Rows /\ text \in Texts
    BY <1>2, <1>3, FoundHasRow DEF ApiInv, Jobs
  <2>2. /\ rec'[t] = [rec[t] EXCEPT !.desc = text]
        /\ \A s \in ApiTeams \ {t} : rec'[s] = rec[s]
    BY <1>2, <1>3 DEF ApiInv, RecType
  <2>3. rec'[t] \in Rows /\ rec'[t].st = rec[t].st
    BY <2>1, <2>2 DEF Rows
  <2>4. RecType'
    BY <1>3, <2>3 DEF ApiInv, RecType
  <2>5. rec'[t] # NoRecord
    BY <2>3 DEF Rows, NoRecord
  <2>6. Keeps
    <3>1. ASSUME NEW s \in ApiTeams
          PROVE  /\ rec[s] # NoRecord => rec'[s] # NoRecord
                 /\ IsRetired(rec[s]) => IsRetired(rec'[s])
      <4>1. CASE s = t
        BY <2>3, <2>5, <4>1 DEF IsRetired
      <4>2. CASE s # t
        BY <2>2, <4>2
      <4>3. QED
        BY <4>1, <4>2
    <3>2. QED
      BY <3>1 DEF Keeps
  <2>7. mine[t] = {}
    BY <1>2, <1>3 DEF ApiInv, Latched
  <2>8. Latched' /\ MineType'
    BY <1>1, <2>2, <2>7 DEF ApiInv, Latched, MineType
  <2>9. ReqType' /\ PendingHasRecord' /\ RepliesAreTrue'
    BY <1>1, <2>6, NoRequest
  <2>10. /\ JobType' /\ \A i \in DOMAIN jobs' : i > 1 => jobs'[i].at = "think"
         /\ jobs'[1] = [jobs[1] EXCEPT !.at = "notify"]
    BY <1>2, <1>3, JobGoesOn DEF ApiInv
  <2>11. jobs'[1].team = t /\ jobs'[1].text = text
    BY <1>2, <2>10 DEF Jobs, JobTeam
  <2>12. NotifiesStood'
    <3>1. ASSUME NEW i \in DOMAIN jobs', jobs'[i].at = "notify"
          PROVE  <<jobs'[i].team, jobs'[i].text>> \in stood'
      <4>1. i = 1
        BY <2>10, <3>1 DEF JobType
      <4>2. QED
        BY <1>3, <2>11, <4>1
    <3>2. frames' \subseteq stood'
      BY <1>1, <1>3 DEF ApiInv, NotifiesStood
    <3>3. QED
      BY <3>1, <3>2 DEF NotifiesStood
  <2>13. QED
    BY <1>1, <2>4, <2>8, <2>9, <2>10, <2>12 DEF ApiInv
<1>4. CASE jobs' = Tail(jobs) /\ UNCHANGED <<rec, stood>>
  <2>1. RecType' /\ Keeps /\ KeepsTexts
    BY <1>4, NoChange DEF ApiInv
  <2>2. Latched' /\ MineType' /\ ReqType' /\ PendingHasRecord' /\ RepliesAreTrue'
    BY <1>1, <2>1, LatchedKept, NoRequest
  <2>3. JobType' /\ NotifiesStood'
    BY <1>1, <1>2, <1>4, JobEnds, NotifiesKept DEF ApiInv
  <2>4. QED
    BY <1>1, <2>1, <2>2, <2>3 DEF ApiInv
<1>5. QED
  BY <1>3, <1>4 DEF Commit

\* The page is told of a text the store took, and the team may start.
LEMMA NotifyApi ==
    ASSUME ApiInv, Notify
    PROVE  ApiInv'
<1> DEFINE t == JobTeam
<1>1. UNCHANGED <<req, served, stood, mine>> /\ Working("notify") /\ jobs' = Tail(jobs)
  BY DEF Notify
<1>2. /\ jobs # <<>> /\ 1 \in DOMAIN jobs /\ Head(jobs) = jobs[1]
      /\ jobs[1] \in Jobs /\ t \in ApiTeams
  BY <1>1, FirstJob
<1>3. RecType' /\ Keeps /\ KeepsTexts
  <2>1. CASE UNCHANGED rec
    BY <2>1, NoChange DEF ApiInv
  <2>2. CASE Found(t) /\ rec' = [rec EXCEPT ![t].st = "running"]
    BY <1>2, <2>2, StatusChange DEF ApiInv
  <2>3. QED
    BY <2>1, <2>2 DEF Notify
<1>4. Latched' /\ MineType' /\ ReqType' /\ PendingHasRecord' /\ RepliesAreTrue'
  BY <1>1, <1>3, LatchedKept, NoRequest
<1>5. JobType' /\ \A i \in DOMAIN jobs' : jobs'[i].at = "think"
  BY <1>1, <1>2, JobEnds DEF ApiInv
<1>6. frames' \subseteq stood'
  <2>1. <<t, Head(jobs).text>> \in stood
    BY <1>1, <1>2 DEF ApiInv, NotifiesStood, Working, JobTeam
  <2>2. QED
    BY <1>1, <2>1 DEF Notify, ApiInv, NotifiesStood
<1>7. NotifiesStood'
  BY <1>5, <1>6 DEF NotifiesStood
<1>8. QED
  BY <1>1, <1>3, <1>4, <1>5, <1>7 DEF ApiInv

------------------------------------------------------------------------------
(* The theorems. *)

\* Every step keeps the invariant.
LEMMA StepApi == ApiInv /\ [ApiNext]_apiVars => ApiInv'
<1> SUFFICES ASSUME ApiInv, [ApiNext]_apiVars PROVE ApiInv'
  OBVIOUS
<1>1. CASE UNCHANGED apiVars
  <2>1. RecType' /\ Keeps /\ KeepsTexts
    BY <1>1, NoChange DEF ApiInv, apiVars
  <2>2. Latched' /\ MineType' /\ ReqType' /\ PendingHasRecord' /\ RepliesAreTrue'
    BY <1>1, <2>1, LatchedKept, NoRequest DEF apiVars
  <2>3. JobType' /\ NotifiesStood' /\ served' \in 0..MaxServed
    BY <1>1 DEF ApiInv, JobType, NotifiesStood, apiVars
  <2>4. QED
    BY <2>1, <2>2, <2>3 DEF ApiInv
<1>2. ASSUME NEW q \in Slots, NEW u \in ApiUsers, NEW t \in ApiTeams, Create(q, u, t)
      PROVE  ApiInv'
  BY <1>2, CreateApi
<1>3. ASSUME NEW q \in Slots, NEW u \in ApiUsers, NEW t \in ApiTeams, NEW op \in ByTeam,
             NEW text \in IF op \in {"send", "describe"} THEN Texts \cup {NoText} ELSE {NoText},
             Gate(q, u, t, op, text)
      PROVE  ApiInv'
  <2>1. text \in Texts \cup {NoText}
    OBVIOUS
  <2>2. QED
    BY <1>3, <2>1, GateApi
<1>4. ASSUME NEW q \in Slots, Decide(q) \/ EndOrRestart(q) \/ Deliver(q) \/ Describe(q)
                                 \/ Document(q) \/ Sent(q)
      PROVE  ApiInv'
  BY <1>4, DecideApi, EndOrRestartApi, DeliverApi, DescribeApi, DocumentApi, SentApi
<1>5. CASE Think \/ Commit \/ Notify
  BY <1>5, ThinkApi, CommitApi, NotifyApi
<1>6. QED
  BY <1>1, <1>2, <1>3, <1>4, <1>5 DEF ApiNext

\* The strengthened invariant of the routes and the generator (server/routes/teams.py,
\* server/description.py) holds, whatever teams, users, texts and slots there are.
THEOREM ApiInvariant == ApiSpec => []ApiInv
  BY InitApi, StepApi, PTL DEF ApiSpec

\* Every variable of the routes and the generator keeps its type.
THEOREM ApiTypes == ApiSpec => []ApiTypeOK
<1>1. ApiInv => ApiTypeOK
  BY DEF ApiInv, ApiTypeOK, RecType, ReqType, JobType
<1>2. QED
  BY <1>1, ApiInvariant, PTL

\* Once a user has set or cleared a description it stands, whatever was queued or is
\* generated, and only texts the store took are shown (description.py, _commit).
THEOREM ApiUserTextStands == ApiSpec => []UserTextStands
<1>1. ApiInv => UserTextStands
  BY DEF ApiInv, Latched, NotifiesStood, UserTextStands
<1>2. QED
  BY <1>1, ApiInvariant, PTL

\* A status says what is the case, of any number of requests that run in between
\* each other's reads (server/routes/teams.py).
THEOREM ApiAnswersAreTrue == ApiSpec => []AnswersAreTrue
<1>1. ASSUME ApiInv, NEW q \in Slots, req[q].at = "answered"
      PROVE  /\ req[q].code = 409 => req[q].entitled
             /\ req[q].code = 404 /\ req[q].entitled
                  => req[q].lack \/ Retired(req[q].team) \/ req[q].op = "delete"
             /\ ~req[q].entitled => req[q].code = 404
  <2>1. req[q] \in Replies
    BY <1>1, KindOfRequest DEF ApiInv
  <2>2. TrueReply(req[q], rec[req[q].team])
    BY <1>1, <2>1 DEF ApiInv, RepliesAreTrue
  <2>3. QED
    BY <2>2 DEF TrueReply, IsRetired, Retired
<1>2. ApiInv => AnswersAreTrue
  BY <1>1 DEF AnswersAreTrue
<1>3. QED
  BY <1>2, ApiInvariant, PTL

------------------------------------------------------------------------------
(* The listing: what is matched, in which order, cut into which pages. *)

\* The stored teams the policy covers and the caller asked for: what a listing owes.
Listed(u, status, query, names) ==
    {t \in ApiTeams : /\ Stored(t) /\ InStatus(rec[t], status)
                      /\ \E c \in Clauses[u] : Covered(rec[t], c)
                      /\ \A g \in query : \/ g \subseteq {Blank}
                                            \/ Begun(rec[t], {g \ {Blank}})
                      /\ names = {} \/ rec[t].ns \in names}

\* What all pages together are, and that they have each of the teams once, in order.
AllPages(teams, size) ==
    FlattenSeq([p \in 1 .. Cardinality(ApiTeams) |-> Page(teams, p, size)])
PagesExact(teams, pages) ==
    /\ \A t \in teams : \E i \in DOMAIN pages : pages[i] = t
    /\ \A i, j \in DOMAIN pages : i < j => Newest(pages[i], pages[j])

\* A whole entry is begun by itself, so the push-down of a clause's own metadata
\* costs no team the clause covers, and the caller's terms are asked of all.
LEMMA MatchedIsReference ==
    ASSUME RecType, NEW u, NEW status, NEW query, NEW names
    PROVE  Matched(u, status, query, names) = Listed(u, status, query, names)
<1>1. ASSUME NEW t \in ApiTeams
      PROVE  Begun(rec[t], Parsed(query))
                <=> \A g \in query : g \subseteq {Blank} \/ Begun(rec[t], {g \ {Blank}})
  <2>1. \A g : Begun(rec[t], {g \ {Blank}})
                  <=> \E term \in g \ {Blank} : \E e \in rec[t].entries : term \in Starts[e]
    BY DEF Begun
  <2>2. \A g : g \subseteq {Blank} <=> g \ {Blank} = {}
    OBVIOUS
  <2>3. Begun(rec[t], Parsed(query))
           <=> \A g \in query : g \ {Blank} # {} =>
                  \E term \in g \ {Blank} : \E e \in rec[t].entries : term \in Starts[e]
    <3> DEFINE Met(h) == \E term \in h : \E e \in rec[t].entries : term \in Starts[e]
    <3>1. Begun(rec[t], Parsed(query)) <=> \A h \in Parsed(query) : Met(h)
      BY DEF Begun
    <3>2. \A h : h \in Parsed(query) <=> h # {} /\ \E g \in query : h = g \ {Blank}
      BY DEF Parsed
    <3> HIDE DEF Met
    <3>3. Begun(rec[t], Parsed(query))
             <=> \A g \in query : g \ {Blank} # {} => Met(g \ {Blank})
      BY <3>1, <3>2
    <3>4. QED
      BY <3>3 DEF Met
  <2>4. QED
    BY <2>1, <2>2, <2>3
<1>2. ASSUME NEW t \in ApiTeams, Stored(t), NEW c \in Clauses[u], Covered(rec[t], c)
      PROVE  Begun(rec[t], c.groups)
  <2>1. rec[t] \in Rows
    BY <1>2, FoundHasRow
  <2>2. \A e \in rec[t].entries : e \in Starts[e]
    BY <2>1, ApiAssumption DEF Rows
  <2>3. QED
    BY <1>2, <2>2 DEF Covered, Begun
<1>3. ASSUME NEW t
      PROVE  t \in Matched(u, status, query, names)
                <=> /\ t \in ApiTeams
                    /\ Stored(t) /\ InStatus(rec[t], status)
                    /\ \E c \in Clauses[u] : Covered(rec[t], c)
                    /\ \A g \in query : g \subseteq {Blank} \/ Begun(rec[t], {g \ {Blank}})
                    /\ names = {} \/ rec[t].ns \in names
  <2>1. t \in Matched(u, status, query, names)
           <=> /\ \E c \in Clauses[u] :
                     /\ t \in ApiTeams /\ Stored(t) /\ InStatus(rec[t], status)
                     /\ Begun(rec[t], IF c.groups = {} THEN Parsed(query) ELSE c.groups)
                     /\ Covered(rec[t], c)
               /\ Begun(rec[t], Parsed(query)) /\ (names = {} \/ rec[t].ns \in names)
    BY DEF Matched
  <2>2. CASE t \in ApiTeams /\ Stored(t) /\ Begun(rec[t], Parsed(query))
    <3>1. \A c \in Clauses[u] : Covered(rec[t], c) =>
             Begun(rec[t], IF c.groups = {} THEN Parsed(query) ELSE c.groups)
      BY <1>2, <2>2
    <3>2. QED
      BY <1>1, <2>1, <2>2, <3>1
  <2>3. CASE ~ (t \in ApiTeams /\ Stored(t) /\ Begun(rec[t], Parsed(query)))
    BY <1>1, <2>1, <2>3
  <2>4. QED
    BY <2>2, <2>3
<1>4. Matched(u, status, query, names) \subseteq ApiTeams
  BY DEF Matched
<1>5. QED
  BY <1>3, <1>4 DEF Listed

\* Newest first is a strict order, and two teams are never equal in it.
LEMMA NewestIsOrder ==
    ASSUME RecType, NEW T \in SUBSET ApiTeams, \A t \in T : Stored(t)
    PROVE  \A a, b, c \in T : /\ ~Newest(a, a)
                              /\ Newest(a, b) /\ Newest(b, c) => Newest(a, c)
                              /\ a # b => Newest(a, b) \/ Newest(b, a)
<1>1. \A t \in T : t \in Nat /\ rec[t].created \in Nat
  BY ApiAssumption, FoundHasRow DEF Rows
<1>2. TAKE a, b, c \in T
<1> DEFINE x == rec[a].created
           y == rec[b].created
           z == rec[c].created
<1>3. a \in Nat /\ b \in Nat /\ c \in Nat /\ x \in Nat /\ y \in Nat /\ z \in Nat
  BY <1>1
<1>4. /\ Newest(a, a) <=> x > x \/ (x = x /\ a > a)
      /\ Newest(a, b) <=> x > y \/ (x = y /\ a > b)
      /\ Newest(b, a) <=> y > x \/ (y = x /\ b > a)
      /\ Newest(b, c) <=> y > z \/ (y = z /\ b > c)
      /\ Newest(a, c) <=> x > z \/ (x = z /\ a > c)
  BY DEF Newest
<1> HIDE DEF x, y, z
<1>5. QED
  BY <1>3, <1>4

\* The members of T, each in the place of as many as R has before it.
Ranked(T, R) == [p \in 1 .. Cardinality(T) |->
                    CHOOSE t \in T : Cardinality({s \in T : <<s, t>> \in R}) = p - 1]

\* In a finite set with a strict total order R, the number of members before a member
\* differs from member to member, so there is one in each place, in order.
LEMMA RanksSort ==
    ASSUME NEW T, IsFiniteSet(T), NEW R,
           \A a, b, c \in T : /\ <<a, a>> \notin R
                              /\ <<a, b>> \in R /\ <<b, c>> \in R => <<a, c>> \in R
                              /\ a # b => <<a, b>> \in R \/ <<b, a>> \in R
    PROVE  /\ Cardinality(T) \in Nat
           /\ Ranked(T, R) \in [1 .. Cardinality(T) -> T]
           /\ \A i, j \in 1 .. Cardinality(T) :
                 i < j => <<Ranked(T, R)[i], Ranked(T, R)[j]>> \in R
           /\ \A t \in T : \E i \in 1 .. Cardinality(T) : Ranked(T, R)[i] = t
<1> DEFINE n == Cardinality(T)
           Before(t) == {s \in T : <<s, t>> \in R}
           place == [t \in T |-> Cardinality(Before(t)) + 1]
           Places == 1 .. n
           row == Ranked(T, R)
<1>1. IsFiniteSet(T) /\ n \in Nat
  BY FS_CardinalityType
<1>2. /\ DOMAIN row = Places /\ row = [p \in DOMAIN row |-> row[p]]
      /\ \A p \in Places : row[p] = CHOOSE t \in T : Cardinality(Before(t)) = p - 1
  <2>1. row = [p \in Places |-> CHOOSE t \in T : Cardinality(Before(t)) = p - 1]
    BY DEF Ranked
  <2> HIDE DEF row, Places, Before
  <2>2. QED
    BY <2>1
<1> HIDE DEF row
<1>3. IsFiniteSet(Places) /\ Cardinality(Places) = n
  <2>1. 1 \in Int /\ n \in Int
    BY <1>1
  <2> HIDE DEF n
  <2>2. QED
    BY <1>1, <2>1, FS_Interval
<1>4. ASSUME NEW t \in T PROVE /\ IsFiniteSet(Before(t)) /\ Cardinality(Before(t)) \in Nat
                               /\ Cardinality(Before(t)) <= n - 1
  <2>1. IsFiniteSet(T \ {t}) /\ Cardinality(T \ {t}) = n - 1
    BY <1>1, FS_RemoveElement
  <2>2. Before(t) \subseteq T \ {t}
    OBVIOUS
  <2> HIDE DEF Before, n
  <2>3. QED
    BY <2>1, <2>2, FS_Subset, FS_CardinalityType
<1>5. ASSUME NEW a \in T, NEW b \in T, <<a, b>> \in R PROVE place[a] < place[b]
  <2>1. a \notin Before(a) /\ Before(a) \cup {a} \subseteq Before(b)
    BY <1>5
  <2>2. /\ IsFiniteSet(Before(a)) /\ Cardinality(Before(a)) \in Nat
        /\ IsFiniteSet(Before(b)) /\ Cardinality(Before(b)) \in Nat
    BY <1>4
  <2>3. place[a] = Cardinality(Before(a)) + 1 /\ place[b] = Cardinality(Before(b)) + 1
    OBVIOUS
  <2> HIDE DEF Before, place
  <2>4. Cardinality(Before(a) \cup {a}) = Cardinality(Before(a)) + 1
    BY <2>1, <2>2, FS_AddElement
  <2>5. Cardinality(Before(a) \cup {a}) <= Cardinality(Before(b))
    BY <2>1, <2>2, FS_Subset
  <2>6. QED
    BY <2>2, <2>3, <2>4, <2>5
<1>6. place \in [T -> Places] /\ \A t \in T : place[t] \in Int
  <2>1. ASSUME NEW t \in T PROVE place[t] \in Places
    <3>1. place[t] = Cardinality(Before(t)) + 1
      OBVIOUS
    <3> HIDE DEF Before, place, n
    <3>2. QED
      BY <1>1, <1>4, <3>1
  <2>2. QED
    BY <2>1
<1>7. \A i \in Places : \E t \in T : place[t] = i
  <2>1. ASSUME NEW a \in T, NEW b \in T, place[a] = place[b] PROVE a = b
    <3>1. ~ (place[a] < place[b]) /\ ~ (place[b] < place[a])
      <4>1. place[a] \in Int /\ place[b] \in Int
        BY <1>6
      <4> HIDE DEF place
      <4>2. QED
        BY <2>1, <4>1
    <3>2. <<a, b>> \notin R /\ <<b, a>> \notin R
      BY <1>5, <3>1
    <3>3. QED
      BY <3>2
  <2> HIDE DEF place, n, Places
  <2>2. place \in Injection(T, Places)
    BY <1>6, <2>1 DEF Injection, IsInjective
  <2>3. place \in Surjection(T, Places)
    BY <1>3, <2>2, FS_Injection DEF n
  <2>4. QED
    BY <2>3 DEF Surjection
<1>8. ASSUME NEW i \in Places PROVE row[i] \in T /\ place[row[i]] = i
  <2>1. PICK t \in T : place[t] = i
    BY <1>7
  <2>2. Cardinality(Before(t)) \in Nat /\ Cardinality(Before(t)) + 1 = i
    BY <1>4, <2>1
  <2>3. Cardinality(Before(t)) = i - 1
    <3> HIDE DEF Before
    <3>1. QED
      BY <2>2
  <2>4. row[i] = CHOOSE u \in T : Cardinality(Before(u)) = i - 1
    BY <1>2
  <2>5. row[i] \in T /\ Cardinality(Before(row[i])) = i - 1
    <3> HIDE DEF Before
    <3>1. QED
      BY <2>3, <2>4
  <2>6. place[row[i]] = (i - 1) + 1 /\ i \in Int
    BY <1>1, <2>5
  <2> HIDE DEF place
  <2>7. QED
    BY <2>5, <2>6
<1>9. row \in [Places -> T]
  <2> HIDE DEF Places
  <2>1. QED
    BY <1>2, <1>8
<1> HIDE DEF Before, place
<1>10. \A t \in T : \E i \in Places : row[i] = t
  <2>1. ASSUME NEW t \in T PROVE row[place[t]] = t
    <3>1. place[t] \in Places
      BY <1>6
    <3>2. row[place[t]] \in T /\ place[row[place[t]]] = place[t]
      BY <1>8, <3>1
    <3>3. ~ (place[row[place[t]]] < place[t]) /\ ~ (place[t] < place[row[place[t]]])
      <4>1. place[t] \in Int
        BY <1>6
      <4>2. QED
        BY <3>2, <4>1
    <3>4. <<row[place[t]], t>> \notin R /\ <<t, row[place[t]]>> \notin R
      BY <1>5, <3>2, <3>3
    <3>5. QED
      BY <3>2, <3>4
  <2>2. QED
    BY <1>6, <2>1
<1>11. \A i, j \in Places : i < j => <<row[i], row[j]>> \in R
  <2>1. ASSUME NEW i \in Places, NEW j \in Places, i < j PROVE <<row[i], row[j]>> \in R
    <3>1. row[i] \in T /\ row[j] \in T /\ place[row[i]] = i /\ place[row[j]] = j
      BY <1>8
    <3>2. row[i] # row[j] /\ i \in Int /\ j \in Int
      BY <1>1, <2>1, <3>1
    <3>3. <<row[j], row[i]>> \notin R
      <4>1. SUFFICES ASSUME <<row[j], row[i]>> \in R PROVE FALSE
        OBVIOUS
      <4>2. j < i
        BY <1>5, <3>1, <4>1
      <4>3. QED
        BY <2>1, <3>2, <4>2
    <3>4. QED
      BY <3>1, <3>2, <3>3
  <2>2. QED
    BY <2>1
<1>12. QED
  BY <1>1, <1>9, <1>10, <1>11 DEF row

\* A listing before it is cut into pages: each team in its place.
LEMMA SortedIsSorted ==
    ASSUME RecType, NEW T \in SUBSET ApiTeams, \A t \in T : Stored(t)
    PROVE  /\ Cardinality(T) \in Nat /\ Cardinality(T) <= Cardinality(ApiTeams)
           /\ Sorted(T) \in [1 .. Cardinality(T) -> T]
           /\ \A i, j \in 1 .. Cardinality(T) : i < j => Newest(Sorted(T)[i], Sorted(T)[j])
           /\ \A t \in T : \E i \in 1 .. Cardinality(T) : Sorted(T)[i] = t
<1> DEFINE R == {p \in T \X T : Newest(p[1], p[2])}
<1>1. IsFiniteSet(T) /\ Cardinality(T) <= Cardinality(ApiTeams)
  BY ApiAssumption, FS_Subset
<1>2. \A a, b \in T : <<a, b>> \in R <=> Newest(a, b)
  OBVIOUS
<1> HIDE DEF R
<1>3. \A a, b, c \in T : /\ <<a, a>> \notin R
                         /\ <<a, b>> \in R /\ <<b, c>> \in R => <<a, c>> \in R
                         /\ a # b => <<a, b>> \in R \/ <<b, a>> \in R
  BY <1>2, NewestIsOrder
<1>4. \A t \in T : {s \in T : Newest(s, t)} = {s \in T : <<s, t>> \in R}
  BY <1>2
<1>5. Sorted(T) = Ranked(T, R)
  <2> DEFINE A(t) == {s \in T : Newest(s, t)}
             B(t) == {s \in T : <<s, t>> \in R}
  <2>1. Sorted(T) = [p \in 1 .. Cardinality(T) |-> CHOOSE t \in T : Cardinality(A(t)) = p - 1]
    BY DEF Sorted
  <2>2. \A t \in T : A(t) = B(t)
    BY <1>4
  <2> HIDE DEF A, B
  <2>3. \A p : (CHOOSE t \in T : Cardinality(A(t)) = p - 1)
                 = (CHOOSE t \in T : Cardinality(B(t)) = p - 1)
    BY <2>2
  <2>4. Sorted(T) = [p \in 1 .. Cardinality(T) |-> CHOOSE t \in T : Cardinality(B(t)) = p - 1]
    BY <2>1, <2>3
  <2>5. QED
    BY <2>4 DEF B, Ranked
<1>6. /\ Cardinality(T) \in Nat
      /\ Sorted(T) \in [1 .. Cardinality(T) -> T]
      /\ \A i, j \in 1 .. Cardinality(T) : i < j => <<Sorted(T)[i], Sorted(T)[j]>> \in R
      /\ \A t \in T : \E i \in 1 .. Cardinality(T) : Sorted(T)[i] = t
  BY <1>1, <1>3, <1>5, RanksSort
<1>7. QED
  BY <1>1, <1>2, <1>6

\* A set of naturals that is not empty has a least member.
LEMMA LeastMember ==
    ASSUME NEW I \in SUBSET Nat, I # {}
    PROVE  \E m \in I : \A i \in I : m <= i
<1>1. PICK m \in I : \A i \in I : ~ (<<i, m>> \in OpToRel(<, Nat))
  BY NatLessThanWellFounded, WFMin
<1>2. ASSUME NEW i \in I PROVE m <= i
  <2>1. <<i, m>> \in Nat \X Nat /\ ~ (i < m)
    BY <1>1 DEF OpToRel
  <2>2. QED
    BY <2>1
<1>3. QED
  BY <1>2

\* The rows up to a, as far as there are any (m), and the next ones up to k are the
\* rows up to k.
LEMMA PrefixGrows ==
    ASSUME NEW S, NEW rows \in Seq(S), NEW a \in Nat, NEW m \in Nat, NEW k \in Nat,
           m <= a, m <= k, k <= Len(rows), a < k => m = a, k <= a => k = m
    PROVE  SubSeq(rows, 1, m) \o SubSeq(rows, a + 1, k) = SubSeq(rows, 1, k)
<1> DEFINE n == Len(rows)
           u == SubSeq(rows, 1, m)
           v == SubSeq(rows, a + 1, k)
           w == SubSeq(rows, 1, k)
<1>1. /\ n \in Nat /\ m \in Nat /\ k \in Nat /\ m <= k /\ k <= n /\ m <= a
      /\ a + 1 <= k => m = a
      /\ ~ (a + 1 <= k) => k = m
      /\ \A i \in 1 .. n : rows[i] \in S
  OBVIOUS
<1>2. u \in Seq(S) /\ Len(u) = m /\ \A i \in 1 .. m : u[i] = rows[i]
  <2>1. 1 \in Int /\ m \in Int /\ \A i \in 1 .. m : rows[i] \in S
    BY <1>1
  <2>2. QED
    BY <1>1, <2>1, SubSeqProperties
<1>3. w \in Seq(S) /\ Len(w) = k /\ \A i \in 1 .. k : w[i] = rows[i]
  <2>1. 1 \in Int /\ k \in Int /\ \A i \in 1 .. k : rows[i] \in S
    BY <1>1
  <2>2. QED
    BY <1>1, <2>1, SubSeqProperties
<1>4. /\ v \in Seq(S)
      /\ Len(v) = IF a + 1 <= k THEN k - a ELSE 0
      /\ \A i \in 1 .. k - a : v[i] = rows[a + i]
  <2>1. a + 1 \in Int /\ k \in Int /\ \A i \in a + 1 .. k : rows[i] \in S
    BY <1>1
  <2>2. /\ v \in Seq(S)
        /\ Len(v) = IF a + 1 <= k THEN k - (a + 1) + 1 ELSE 0
        /\ \A i \in 1 .. k - (a + 1) + 1 : v[i] = rows[a + 1 + i - 1]
    BY <2>1, SubSeqProperties
  <2>3. k - (a + 1) + 1 = k - a /\ \A i \in 1 .. k - a : a + 1 + i - 1 = a + i
    BY <1>1
  <2> HIDE DEF v
  <2>4. QED
    BY <2>2, <2>3
<1> HIDE DEF u, v, w, n
<1>5. Len(u) + Len(v) = k
  <2>1. CASE a + 1 <= k
    <3>1. Len(v) = k - a /\ Len(u) = a
      BY <1>1, <1>2, <1>4, <2>1
    <3>2. QED
      BY <1>1, <3>1
  <2>2. CASE ~ (a + 1 <= k)
    <3>1. Len(v) = 0 /\ Len(u) = k
      BY <1>1, <1>2, <1>4, <2>2
    <3>2. QED
      BY <1>1, <3>1
  <2>3. QED
    BY <2>1, <2>2
<1>6. /\ u \o v \in Seq(S) /\ Len(u \o v) = k
      /\ \A i \in 1 .. k : (u \o v)[i] = IF i <= m THEN u[i] ELSE v[i - m]
  <2>1. /\ u \o v \in Seq(S) /\ Len(u \o v) = Len(u) + Len(v)
        /\ \A i \in 1 .. Len(u) + Len(v) :
             (u \o v)[i] = IF i <= Len(u) THEN u[i] ELSE v[i - Len(u)]
    <3>1. u \in Seq(S) /\ v \in Seq(S)
      BY <1>2, <1>4
    <3>2. QED
      BY <3>1, ConcatProperties
  <2>2. Len(u) = m
    BY <1>2
  <2>3. QED
    BY <1>5, <2>1, <2>2
<1>7. ASSUME NEW i \in 1 .. k PROVE (u \o v)[i] = w[i]
  <2>1. CASE i <= m
    <3>1. i \in 1 .. m
      BY <1>1, <2>1
    <3>2. u[i] = rows[i] /\ w[i] = rows[i]
      BY <1>2, <1>3, <3>1
    <3>3. QED
      BY <1>6, <2>1, <3>2
  <2>2. CASE ~ (i <= m)
    <3>1. m = a /\ i - m \in 1 .. k - a /\ a + (i - m) = i
      BY <1>1, <2>2
    <3>2. v[i - m] = rows[a + (i - m)]
      BY <1>4, <3>1
    <3>3. QED
      BY <1>3, <1>6, <2>2, <3>1, <3>2
  <2>3. QED
    BY <2>1, <2>2
<1>8. u \o v = w
  BY <1>3, <1>6, <1>7, SeqEqual
<1>9. QED
  BY <1>8 DEF u, v, w

\* FlattenSeq joins its sequences one by one: by the least one up to which it is not
\* the join given.
LEMMA FlattenJoins ==
    ASSUME NEW S, NEW N \in Nat \ {0}, NEW pages \in [1 .. N -> Seq(S)],
           NEW first \in [1 .. N -> Seq(S)], pages[1] = first[1],
           \A p \in 1 .. N : p > 1 => first[p - 1] \o pages[p] = first[p]
    PROVE  FlattenSeq(pages) = first[N]
<1> DEFINE Joins(f) == f = [i \in 1 .. N |-> IF i = 1 THEN pages[i] ELSE f[i - 1] \o pages[i]]
           joined == CHOOSE f : Joins(f)
<1>1. pages \in Seq(Seq(S)) /\ Len(pages) = N
  OBVIOUS
<1>2. Joins(joined)
  <2>1. Joins(first)
    <3>1. \A i \in 1 .. N : first[i] = IF i = 1 THEN pages[i] ELSE first[i - 1] \o pages[i]
      <4>1. ASSUME NEW i \in 1 .. N, i # 1 PROVE first[i] = first[i - 1] \o pages[i]
        BY <4>1
      <4>2. QED
        BY <4>1
    <3>2. first = [i \in 1 .. N |-> first[i]]
      OBVIOUS
    <3>3. QED
      BY <3>1, <3>2
  <2> HIDE DEF Joins
  <2>2. QED
    BY <2>1
<1>3. FlattenSeq(pages) = joined[N]
  BY <1>1 DEF FlattenSeq
<1> HIDE DEF joined
<1> DEFINE Part(i) == IF i = 1 THEN pages[i] ELSE joined[i - 1] \o pages[i]
           body == [i \in 1 .. N |-> Part(i)]
<1>4. joined = body
  BY <1>2
<1>5. /\ joined[1] = pages[1]
      /\ \A p \in 1 .. N : p > 1 => joined[p] = joined[p - 1] \o pages[p]
  <2>1. 1 \in 1 .. N
    OBVIOUS
  <2>2. body[1] = pages[1]
    BY <2>1
  <2>3. ASSUME NEW p \in 1 .. N, p > 1 PROVE body[p] = joined[p - 1] \o pages[p]
    <3>1. p # 1
      BY <2>3
    <3>2. Part(p) = joined[p - 1] \o pages[p]
      BY <3>1, Zenon
    <3> HIDE DEF Part
    <3>3. QED
      BY <3>2
  <2> HIDE DEF body
  <2>4. QED
    BY <1>4, <2>2, <2>3
<1> HIDE DEF body
<1>6. joined[N] = first[N]
  <2> DEFINE Odd == {p \in 1 .. N : joined[p] # first[p]}
  <2>1. SUFFICES ASSUME Odd # {} PROVE FALSE
    <3>1. N \in 1 .. N
      OBVIOUS
    <3>2. QED
      BY <3>1
  <2>2. PICK p \in Odd : \A q \in Odd : p <= q
    <3>1. Odd \subseteq Nat
      OBVIOUS
    <3> HIDE DEF Odd
    <3>2. QED
      BY <2>1, <3>1, LeastMember
  <2>3. CASE p = 1
    BY <1>5, <2>3
  <2>4. CASE p # 1
    <3>1. p \in 1 .. N /\ p > 1 /\ p - 1 \in 1 .. N /\ ~ (p <= p - 1)
      BY <2>4
    <3>2. joined[p - 1] = first[p - 1]
      BY <2>2, <3>1
    <3>3. joined[p] = first[p]
      BY <1>5, <3>1, <3>2
    <3>4. QED
      BY <3>3
  <2>5. QED
    BY <2>3, <2>4
<1>7. QED
  BY <1>3, <1>6

\* Where the rows end before a cut, both cuts are at the end.
LEMMA CutsGrow ==
    ASSUME NEW n \in Nat, NEW b \in Nat, NEW c \in Nat, b <= c, NEW m, NEW k,
           m = IF b < n THEN b ELSE n, k = IF c < n THEN c ELSE n
    PROVE  /\ m \in Nat /\ k \in Nat /\ m <= b /\ m <= k /\ k <= n
           /\ b < k => m = b
           /\ k <= b => k = m
<1>1. CASE b < n
  <2>1. CASE c < n
    BY <1>1, <2>1
  <2>2. CASE ~ (c < n)
    BY <1>1, <2>2
  <2>3. QED
    BY <2>1, <2>2
<1>2. CASE ~ (b < n)
  BY <1>2
<1>3. QED
  BY <1>1, <1>2

\* Page after page is the whole sequence: joined with those before it, a page of z
\* rows makes the first p * z of them.
LEMMA PagesJoin ==
    ASSUME NEW S, NEW rows \in Seq(S), NEW N \in Nat \ {0}, NEW z \in Nat \ {0},
           Len(rows) <= N, NEW pages, DOMAIN pages = 1 .. N,
           pages = [p \in DOMAIN pages |-> pages[p]],
           \A p \in 1 .. N :
              pages[p] = SubSeq(rows, (p - 1) * z + 1,
                                IF (p - 1) * z + z < Len(rows) THEN (p - 1) * z + z
                                                               ELSE Len(rows))
    PROVE  FlattenSeq(pages) = rows
<1> DEFINE n == Len(rows)
           Cut(x) == IF x < n THEN x ELSE n
           at == [p \in 0 .. N |-> p * z]
           first == [p \in 1 .. N |-> SubSeq(rows, 1, Cut(at[p]))]
<1>1. n \in Nat /\ n <= N /\ \A i \in 1 .. n : rows[i] \in S
  OBVIOUS
<1>2. /\ at[0] = 0 /\ at[N] >= N
      /\ \A p \in 0 .. N : at[p] \in Nat
      /\ \A p \in 1 .. N : at[p] = at[p - 1] + z
  <2>1. 0 * z = 0 /\ N * z >= N
    <3>1. N * (z - 1) \in Nat /\ N * z = N * (z - 1) + N
      OBVIOUS
    <3>2. QED
      BY <3>1
  <2>2. ASSUME NEW p \in 0 .. N PROVE p * z \in Nat
    OBVIOUS
  <2>3. ASSUME NEW p \in 1 .. N PROVE p * z = (p - 1) * z + z
    OBVIOUS
  <2>4. at[0] = 0 * z /\ at[N] = N * z
    OBVIOUS
  <2>5. \A p \in 0 .. N : at[p] = p * z
    OBVIOUS
  <2>6. \A p \in 1 .. N : p \in 0 .. N /\ p - 1 \in 0 .. N
    OBVIOUS
  <2> HIDE DEF at
  <2>7. QED
    BY <2>1, <2>2, <2>3, <2>4, <2>5, <2>6
<1>3. ASSUME NEW p \in 1 .. N
      PROVE  pages[p] = SubSeq(rows, at[p - 1] + 1, Cut(at[p - 1] + z))
  <2>1. p - 1 \in 0 .. N
    OBVIOUS
  <2>2. at[p - 1] = (p - 1) * z
    BY <2>1
  <2> HIDE DEF at
  <2>3. QED
    BY <2>2
<1> HIDE DEF at
<1>4. pages \in [1 .. N -> Seq(S)]
  <2>1. ASSUME NEW p \in 1 .. N PROVE pages[p] \in Seq(S)
    <3> DEFINE b == at[p - 1]
               k == Cut(b + z)
    <3>1. b \in Nat /\ pages[p] = SubSeq(rows, b + 1, k)
      <4>1. p - 1 \in 0 .. N
        OBVIOUS
      <4>2. QED
        BY <1>2, <1>3, <4>1
    <3> HIDE DEF b
    <3>2. b + 1 \in Int /\ k \in Int /\ b + 1 >= 1 /\ k <= n
      <4>1. n \in Nat /\ b \in Nat /\ b + z \in Nat
        BY <1>1, <3>1
      <4> HIDE DEF n
      <4>2. QED
        BY <4>1
    <3> HIDE DEF k, n
    <3>3. \A i \in b + 1 .. k : rows[i] \in S
      BY <1>1, <3>1, <3>2
    <3>4. QED
      BY <3>1, <3>2, <3>3, SubSeqProperties
  <2>2. QED
    BY <2>1
<1>5. first \in [1 .. N -> Seq(S)]
  <2>1. ASSUME NEW p \in 1 .. N PROVE SubSeq(rows, 1, Cut(at[p])) \in Seq(S)
    <3> DEFINE k == Cut(at[p])
    <3>1. at[p] \in Nat
      BY <1>2
    <3>2. k \in Int /\ 1 \in Int /\ \A i \in 1 .. k : rows[i] \in S
      BY <1>1, <3>1
    <3> HIDE DEF k
    <3>3. SubSeq(rows, 1, k) \in Seq(S)
      BY <3>2, SubSeqProperties
    <3>4. QED
      BY <3>3 DEF k
  <2>2. QED
    BY <2>1
<1>6. ASSUME NEW p \in 1 .. N, p > 1 PROVE first[p - 1] \o pages[p] = first[p]
  <2> DEFINE b == at[p - 1]
             m == Cut(b)
             k == Cut(b + z)
  <2>1. p - 1 \in 1 .. N /\ b \in Nat /\ at[p] = b + z
    <3>1. p - 1 \in 1 .. N /\ p - 1 \in 0 .. N
      BY <1>6
    <3>2. QED
      BY <1>2, <3>1
  <2>2. first[p - 1] = SubSeq(rows, 1, m) /\ first[p] = SubSeq(rows, 1, k)
    BY <2>1
  <2>3. pages[p] = SubSeq(rows, b + 1, k)
    BY <1>3
  <2>4. /\ m \in Nat /\ k \in Nat /\ m <= b /\ m <= k /\ k <= Len(rows)
        /\ b < k => m = b
        /\ k <= b => k = m
    <3>1. /\ n \in Nat /\ b \in Nat /\ b + z \in Nat /\ b <= b + z
          /\ ~ (b + z <= b)
      <4>1. n \in Nat /\ b \in Nat /\ z \in Nat /\ z > 0
        BY <1>1, <2>1
      <4> HIDE DEF b, n
      <4>2. QED
        BY <4>1
    <3>2. m = (IF b < n THEN b ELSE n) /\ k = (IF b + z < n THEN b + z ELSE n)
      BY Zenon
    <3>3. Len(rows) = n
      OBVIOUS
    <3> HIDE DEF b, n, m, k
    <3>4. QED
      BY <3>1, <3>2, <3>3, CutsGrow
  <2> HIDE DEF b, m, k, first
  <2>5. SubSeq(rows, 1, m) \o SubSeq(rows, b + 1, k) = SubSeq(rows, 1, k)
    <3>1. /\ b \in Nat /\ m \in Nat /\ k \in Nat
          /\ m <= b /\ m <= k /\ k <= Len(rows)
          /\ b < k => m = b
          /\ k <= b => k = m
      BY <2>1, <2>4
    <3>2. QED
      BY <3>1, PrefixGrows, ZenonT(40)
  <2>6. QED
    BY <2>2, <2>3, <2>5
<1>7. pages[1] = first[1]
  <2>1. 1 \in 1 .. N /\ 1 - 1 = 0
    OBVIOUS
  <2>2. at[1] = 0 + z /\ at[1 - 1] = 0 /\ 0 + 1 = 1
    BY <1>2, <2>1
  <2>3. pages[1] = SubSeq(rows, 1, Cut(0 + z))
    <3>1. pages[1] = SubSeq(rows, at[1 - 1] + 1, Cut(at[1 - 1] + z))
      BY <1>3, <2>1
    <3> HIDE DEF Cut
    <3>2. QED
      BY <2>2, <3>1
  <2>4. first[1] = SubSeq(rows, 1, Cut(at[1]))
    BY <2>1
  <2> HIDE DEF Cut, first
  <2>5. QED
    BY <2>2, <2>3, <2>4
<1>8. first[N] = rows
  <2>1. Cut(at[N]) = n
    BY <1>1, <1>2
  <2>2. first[N] = SubSeq(rows, 1, Cut(at[N]))
    <3>1. N \in 1 .. N
      OBVIOUS
    <3>2. QED
      BY <3>1
  <2>3. first[N] = SubSeq(rows, 1, Len(rows))
    BY <2>1, <2>2
  <2> HIDE DEF first
  <2>4. QED
    BY <2>3, SubSeqFull
<1> HIDE DEF first
<1>9. FlattenSeq(pages) = first[N]
  <2>1. \A p \in 1 .. N : p > 1 => first[p - 1] \o pages[p] = first[p]
    BY <1>6, Zenon
  <2>2. QED
    BY <1>4, <1>5, <1>7, <2>1, FlattenJoins, ZenonT(40)
<1>10. QED
  BY <1>8, <1>9

\* Page after page a listing gives every team the policy lets the caller list and
\* the caller asked for, newest first, each once and no other, whatever teams,
\* policies, queries and page sizes there are (list_teams_for_policy, list_teams).
THEOREM ApiListingIsExact == ApiSpec => []ListingIsExact
<1>1. ASSUME ApiInv, NEW u, NEW query, NEW status, NEW names, NEW size \in Int
      PROVE  LET teams == Matched(u, status, query, names)
             IN PagesExact(teams, AllPages(teams, size))
  <2> DEFINE teams == Matched(u, status, query, names)
             N == Cardinality(ApiTeams)
             z == Clamp(size)
             listed == [p \in 1 .. N |-> Page(teams, p, size)]
             rows == Sorted(teams)
             n == Cardinality(teams)
  <2>1. SUFFICES PagesExact(teams, FlattenSeq(listed))
    BY DEF AllPages
  <2>2. RecType /\ teams \in SUBSET ApiTeams /\ \A t \in teams : Stored(t)
    BY <1>1 DEF ApiInv, Matched
  <2>3. N \in Nat /\ z \in Nat \ {0}
    BY <1>1, ApiAssumption, FS_CardinalityType DEF Clamp
  <2>4. \A p \in 1 .. N :
           listed[p] = SubSeq(rows, (p - 1) * z + 1,
                              IF (p - 1) * z + z < Len(rows) THEN (p - 1) * z + z
                                                             ELSE Len(rows))
    <3>1. ASSUME NEW p \in 1 .. N
          PROVE  Page(teams, p, size)
                    = SubSeq(rows, (p - 1) * z + 1,
                             IF (p - 1) * z + z < Len(rows) THEN (p - 1) * z + z
                                                            ELSE Len(rows))
      <4>1. (IF p < 1 THEN 1 ELSE p) = p
        OBVIOUS
      <4> HIDE DEF teams
      <4>2. QED
        BY <4>1 DEF Page
    <3> HIDE DEF teams, z, rows
    <3>2. QED
      BY <3>1
  <2>5. DOMAIN listed = 1 .. N /\ listed = [p \in DOMAIN listed |-> listed[p]]
    OBVIOUS
  <2> HIDE DEF teams
  <2>6. /\ n \in Nat /\ n <= N
        /\ rows \in [1 .. n -> teams]
        /\ \A i, j \in 1 .. n : i < j => Newest(rows[i], rows[j])
        /\ \A t \in teams : \E i \in 1 .. n : rows[i] = t
    BY <2>2, SortedIsSorted
  <2> HIDE DEF rows, n, z
  <2>7. rows \in Seq(teams) /\ Len(rows) = n /\ DOMAIN rows = 1 .. n
    BY <2>6
  <2>8. CASE N = 0
    <3>1. teams = {}
      <4>1. ApiTeams = {}
        BY <2>8, ApiAssumption, FS_EmptySet
      <4>2. QED
        BY <2>2, <4>1
    <3>2. listed = <<>>
      BY <2>8
    <3>3. FlattenSeq(<<>>) = <<>> /\ DOMAIN <<>> = {}
      BY DEF FlattenSeq
    <3> HIDE DEF listed
    <3>4. QED
      BY <3>1, <3>2, <3>3 DEF PagesExact
  <2>9. CASE N # 0
    <3> HIDE DEF listed, N
    <3>1. FlattenSeq(listed) = rows
      BY <2>3, <2>4, <2>5, <2>6, <2>7, <2>9, PagesJoin
    <3>2. QED
      BY <2>6, <2>7, <3>1 DEF PagesExact
  <2>10. QED
    BY <2>8, <2>9
<1>2. ASSUME ApiInv PROVE ListingIsExact
  <2>1. RecType /\ \A size \in {0, 1, MaxPageSize + 1} : size \in Int
    BY <1>2, ApiAssumption DEF ApiInv
  <2>2. ASSUME NEW u \in ApiUsers, NEW query \in Queries,
               NEW status \in {"any", "stopped", "deleted"},
               NEW names \in {{}} \cup {{n} : n \in ListNames},
               NEW size \in {0, 1, MaxPageSize + 1}
        PROVE  LET teams == Matched(u, status, query, names)
               IN teams = Listed(u, status, query, names) /\ PagesExact(teams, AllPages(teams, size))
    <3>1. size \in Int
      BY <2>1
    <3>2. Matched(u, status, query, names) = Listed(u, status, query, names)
      BY <2>1, MatchedIsReference
    <3>3. QED
      BY <1>1, <1>2, <3>1, <3>2
  <2>3. QED
    BY <2>2, Zenon DEF ListingIsExact, Listed, PagesExact, AllPages
<1>3. QED
  BY <1>2, ApiInvariant, PTL

=============================================================================
