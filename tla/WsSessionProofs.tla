---------------------------- MODULE WsSessionProofs ----------------------------
(***************************************************************************)
(* The sessions' types, the fate of the streams they are served from, and  *)
(* the waiting list, for any number of sessions, restore requests and      *)
(* stops.  SessionInv is inductive, and ListInv beside it: one lemma per   *)
(* action or part of Next.                                                 *)
(***************************************************************************)
EXTENDS WsSession, TLAPS, SequenceTheorems, WellFoundedInduction, FiniteSetTheorems

\* list.remove(ws) takes an occurrence of ws out of the list.
LEMMA RemoveFirstPlace ==
  ASSUME NEW S, NEW q \in Seq(S), NEW e, \E i \in 1 .. Len(q) : q[i] = e
  PROVE  \E k \in 1 .. Len(q) :
           /\ q[k] = e
           /\ RemoveFirst(q, e) = SubSeq(q, 1, k - 1) \o SubSeq(q, k + 1, Len(q))
PROOF
<1> DEFINE I == {i \in 1 .. Len(q) : q[i] = e}
           k == Min(I)
<1>1. \E x \in I : \A y \in I : x =< y
  <2>1. PICK i \in I : TRUE
    OBVIOUS
  <2>2. I \subseteq Nat
    OBVIOUS
  <2>3. IsWellFoundedOn(OpToRel(<, Nat), Nat)
    BY NatLessThanWellFounded
  <2>4. PICK x \in I : \A y \in I : ~ (<<y, x>> \in OpToRel(<, Nat))
    BY <2>1, <2>2, <2>3, WFMin
  <2>5. OpToRel(<, Nat) = {ss \in Nat \X Nat : ss[1] < ss[2]}
    BY DEF OpToRel
  <2>6. ASSUME NEW y \in I PROVE x =< y
    <3>1. ~ (<<y, x>> \in {ss \in Nat \X Nat : ss[1] < ss[2]})
      BY <2>4, <2>5
    <3>2. x \in Nat /\ y \in Nat
      BY <2>2
    <3> HIDE DEF I
    <3>3. ~ (y < x)
      BY <3>1, <3>2
    <3> QED
      BY <3>2, <3>3
  <2> QED
    BY <2>6
<1>2. k \in I
  BY <1>1 DEF Min
<1>3. k \in 1 .. Len(q) /\ q[k] = e
  BY <1>2
<1>4. RemoveFirst(q, e) = SubSeq(q, 1, k - 1) \o SubSeq(q, k + 1, Len(q))
  BY <1>2 DEF RemoveFirst, RemoveAt, SelectInSeq
<1> QED
  BY <1>3, <1>4

\* What is left is the list without that place.
LEMMA RemoveFirstShape ==
  ASSUME NEW S, NEW q \in Seq(S), NEW e, \E i \in 1 .. Len(q) : q[i] = e
  PROVE  /\ RemoveFirst(q, e) \in Seq(S)
         /\ Len(RemoveFirst(q, e)) = Len(q) - 1
         /\ \E k \in 1 .. Len(q) :
              /\ q[k] = e
              /\ \A i \in 1 .. Len(q) - 1 :
                   RemoveFirst(q, e)[i] = IF i < k THEN q[i] ELSE q[i + 1]
PROOF
<1>1. PICK k \in 1 .. Len(q) :
        /\ q[k] = e
        /\ RemoveFirst(q, e) = SubSeq(q, 1, k - 1) \o SubSeq(q, k + 1, Len(q))
  BY RemoveFirstPlace
<1> DEFINE u == SubSeq(q, 1, k - 1)
           v == SubSeq(q, k + 1, Len(q))
<1>2. u \in Seq(S) /\ Len(u) = k - 1 /\ \A i \in 1 .. k - 1 : u[i] = q[i]
  <2>1. \A i \in 1 .. k - 1 : q[i] \in S
    OBVIOUS
  <2>2. 1 \in Int /\ k - 1 \in Int /\ k \in 1 .. Len(q)
    OBVIOUS
  <2> QED
    BY <2>1, <2>2, SubSeqProperties
<1>3. v \in Seq(S) /\ Len(v) = Len(q) - k /\ \A i \in 1 .. Len(q) - k : v[i] = q[k + i]
  <2>1. \A i \in k + 1 .. Len(q) : q[i] \in S
    OBVIOUS
  <2>2. k + 1 \in Int /\ Len(q) \in Int /\ k \in 1 .. Len(q)
    OBVIOUS
  <2> QED
    BY <2>1, <2>2, SubSeqProperties
<1>4. /\ u \o v \in Seq(S) /\ Len(u \o v) = Len(q) - 1
      /\ \A i \in 1 .. Len(q) - 1 : (u \o v)[i] = IF i < k THEN q[i] ELSE q[i + 1]
  <2> HIDE DEF u, v
  <2>1. /\ u \o v \in Seq(S) /\ Len(u \o v) = Len(u) + Len(v)
        /\ \A i \in 1 .. Len(u) + Len(v) :
             (u \o v)[i] = IF i <= Len(u) THEN u[i] ELSE v[i - Len(u)]
    BY <1>2, <1>3, ConcatProperties
  <2>2. Len(q) \in Nat /\ k \in 1 .. Len(q) /\ Len(u) + Len(v) = Len(q) - 1
    BY <1>2, <1>3
  <2>3. ASSUME NEW i \in 1 .. Len(q) - 1
        PROVE  (u \o v)[i] = IF i < k THEN q[i] ELSE q[i + 1]
    <3>1. CASE i < k
      BY <1>2, <2>1, <2>2, <3>1
    <3>2. CASE ~ (i < k)
      <4> DEFINE j == i - Len(u)
      <4>1. Len(u) = k - 1 /\ Len(q) \in Nat /\ k \in 1 .. Len(q) /\ i \in 1 .. Len(q) - 1
        BY <1>2, <2>2
      <4>2. j \in 1 .. Len(q) - k /\ k + j = i + 1
        BY <3>2, <4>1
      <4>3. (u \o v)[i] = v[j]
        <5>1. i \in 1 .. Len(u) + Len(v) /\ ~ (i <= Len(u))
          BY <2>2, <3>2, <4>1
        <5> QED
          BY <2>1, <5>1
      <4> HIDE DEF j
      <4>4. v[j] = q[k + j]
        BY <1>3, <4>2
      <4> QED
        BY <3>2, <4>2, <4>3, <4>4
    <3> QED
      BY <3>1, <3>2
  <2> QED
    BY <2>1, <2>2, <2>3
<1> QED
  BY <1>1, <1>4

\* list.remove(ws) leaves a list of sessions.
LEMMA RemoveFirstType ==
  ASSUME NEW S, NEW q \in Seq(S), NEW e
  PROVE  RemoveFirst(q, e) \in Seq(S)
PROOF
<1>1. CASE ~ \E i \in 1 .. Len(q) : q[i] = e
  BY <1>1 DEF RemoveFirst
<1>2. CASE \E i \in 1 .. Len(q) : q[i] = e
  BY <1>2, RemoveFirstShape
<1> QED
  BY <1>1, <1>2

-----------------------------------------------------------------------------
(* Counting places in a list *)

\* How often e is in q, and how often from position k on.
Occurs(q, e)   == Cardinality({i \in DOMAIN q : q[i] = e})
Ahead(q, k, e) == Cardinality({i \in DOMAIN q : i >= k /\ q[i] = e})

\* The places of an element are finitely many.
LEMMA PlacesAreFinite ==
  ASSUME NEW S, NEW q \in Seq(S), NEW e, NEW k \in Nat
  PROVE  /\ IsFiniteSet({i \in DOMAIN q : q[i] = e})
         /\ IsFiniteSet({i \in DOMAIN q : i >= k /\ q[i] = e})
         /\ Occurs(q, e) \in Nat /\ Ahead(q, k, e) \in Nat
PROOF
<1>1. DOMAIN q = 1 .. Len(q) /\ Len(q) \in Nat
  OBVIOUS
<1>2. IsFiniteSet(DOMAIN q)
  BY <1>1, FS_Interval
<1>3. IsFiniteSet({i \in DOMAIN q : q[i] = e})
  BY <1>2, FS_Subset
<1>4. IsFiniteSet({i \in DOMAIN q : i >= k /\ q[i] = e})
  BY <1>2, FS_Subset
<1> QED
  BY <1>3, <1>4, FS_CardinalityType DEF Occurs, Ahead

\* An empty list has nobody.
LEMMA OccursInNone ==
  ASSUME NEW e
  PROVE  Occurs(<<>>, e) = 0
PROOF
<1>1. {i \in DOMAIN <<>> : <<>>[i] = e} = {}
  OBVIOUS
<1> QED
  BY <1>1, FS_EmptySet DEF Occurs

\* list.append(ws) adds one place, of ws.
LEMMA OccursAppended ==
  ASSUME NEW S, NEW q \in Seq(S), NEW d \in S, NEW e
  PROVE  Occurs(Append(q, d), e) = Occurs(q, e) + (IF d = e THEN 1 ELSE 0)
PROOF
<1> DEFINE P == {i \in DOMAIN q : q[i] = e}
           Q == {i \in DOMAIN Append(q, d) : Append(q, d)[i] = e}
<1>1. /\ DOMAIN q = 1 .. Len(q) /\ Len(q) \in Nat
      /\ DOMAIN Append(q, d) = 1 .. Len(q) + 1
      /\ \A i \in 1 .. Len(q) : Append(q, d)[i] = q[i]
      /\ Append(q, d)[Len(q) + 1] = d
  BY AppendProperties
<1>2. IsFiniteSet(P) /\ Cardinality(P) \in Nat /\ Len(q) + 1 \notin P
  <2>1. 0 \in Nat
    OBVIOUS
  <2>2. IsFiniteSet(P) /\ Cardinality(P) \in Nat
    BY <2>1, PlacesAreFinite DEF Occurs
  <2>3. Len(q) + 1 \notin P
    BY <1>1
  <2> QED
    BY <2>2, <2>3
<1>3. CASE d = e
  <2>1. Q = P \cup {Len(q) + 1}
    BY <1>1, <1>3
  <2>2. Cardinality(Q) = Cardinality(P) + 1
    <3> HIDE DEF P, Q
    <3> QED
      BY <1>2, <2>1, FS_AddElement
  <2> QED
    BY <1>3, <2>2 DEF Occurs
<1>4. CASE d # e
  <2>1. Q = P
    BY <1>1, <1>4
  <2>2. Cardinality(Q) = Cardinality(P) + 0
    <3> HIDE DEF P, Q
    <3> QED
      BY <1>2, <2>1
  <2> QED
    BY <1>4, <2>2 DEF Occurs
<1> QED
  BY <1>3, <1>4

\* list.remove(ws) takes one place of ws away, and no other's.
LEMMA OccursRemoved ==
  ASSUME NEW S, NEW q \in Seq(S), NEW d, NEW e
  PROVE  Occurs(RemoveFirst(q, d), e) =
           IF e = d /\ Occurs(q, d) > 0 THEN Occurs(q, e) - 1 ELSE Occurs(q, e)
PROOF
<1> DEFINE P == {i \in DOMAIN q : q[i] = e}
           r == RemoveFirst(q, d)
           R == {i \in DOMAIN r : r[i] = e}
<1>1. DOMAIN q = 1 .. Len(q) /\ Len(q) \in Nat
  OBVIOUS
<1>2. CASE ~ \E i \in 1 .. Len(q) : q[i] = d
  <2>1. r = q
    BY <1>2 DEF RemoveFirst
  <2>2. Occurs(q, d) = 0
    <3>1. {i \in DOMAIN q : q[i] = d} = {}
      BY <1>1, <1>2
    <3> QED
      BY <3>1, FS_EmptySet DEF Occurs
  <2> QED
    BY <2>1, <2>2
<1>3. CASE \E i \in 1 .. Len(q) : q[i] = d
  <2>1. PICK k \in 1 .. Len(q) :
          /\ q[k] = d
          /\ \A i \in 1 .. Len(q) - 1 : r[i] = IF i < k THEN q[i] ELSE q[i + 1]
    BY <1>3, RemoveFirstShape
  <2>2. r \in Seq(S) /\ DOMAIN r = 1 .. Len(q) - 1
    <3>1. r \in Seq(S) /\ Len(r) = Len(q) - 1
      BY <1>3, RemoveFirstShape
    <3> QED
      BY <3>1
  <2>3. IsFiniteSet(R) /\ IsFiniteSet(P) /\ Cardinality(P) \in Nat
    <3>1. IsFiniteSet(P) /\ Cardinality(P) \in Nat
      BY PlacesAreFinite DEF Occurs
    <3>2. IsFiniteSet(R)
      <4> HIDE DEF r
      <4> QED
        BY <2>2, PlacesAreFinite
    <3> QED
      BY <3>1, <3>2
  <2> DEFINE f == [i \in R |-> IF i < k THEN i ELSE i + 1]
  <2>4. f \in Bijection(R, P \ {k})
    <3> HIDE DEF r
    <3>1. \A i \in R : i \in 1 .. Len(q) - 1 /\ r[i] = e
      BY <2>2
    <3>2. f \in [R -> P \ {k}]
      <4>1. ASSUME NEW i \in R PROVE f[i] \in P \ {k}
        <5>1. i \in 1 .. Len(q) - 1 /\ r[i] = e
          BY <3>1
        <5>2. f[i] \in 1 .. Len(q) /\ f[i] # k /\ q[f[i]] = e
          BY <1>1, <2>1, <5>1
        <5> QED
          BY <1>1, <5>2
      <4> QED
        BY <4>1
    <3>3. \A i, j \in R : f[i] = f[j] => i = j
      BY <1>1, <3>1
    <3>4. ASSUME NEW j \in P \ {k} PROVE \E i \in R : f[i] = j
      <4>1. j \in 1 .. Len(q) /\ j # k /\ q[j] = e
        BY <1>1
      <4>2. CASE j < k
        <5>1. j \in 1 .. Len(q) - 1 /\ r[j] = e
          BY <1>1, <2>1, <4>1, <4>2
        <5>2. j \in R
          BY <2>2, <5>1
        <5> QED
          BY <4>2, <5>2
      <4>3. CASE j > k
        <5>1. j - 1 \in 1 .. Len(q) - 1 /\ r[j - 1] = e /\ ~ (j - 1 < k)
          BY <1>1, <2>1, <4>1, <4>3
        <5>2. j - 1 \in R
          BY <2>2, <5>1
        <5>3. f[j - 1] = j
          BY <4>1, <5>1, <5>2
        <5> QED
          BY <5>2, <5>3
      <4> QED
        BY <4>1, <4>2, <4>3
    <3> HIDE DEF f, P, R
    <3> QED
      BY <3>2, <3>3, <3>4 DEF Bijection, Injection, Surjection, IsInjective
  <2>5. Cardinality(R) = Cardinality(P \ {k})
    BY <2>3, <2>4, FS_Bijection DEF ExistsBijection
  <2>6. Cardinality(P \ {k}) = IF k \in P THEN Cardinality(P) - 1 ELSE Cardinality(P)
    BY <2>3, FS_RemoveElement
  <2>7. k \in P <=> e = d
    BY <1>1, <2>1
  <2>8. e = d => Occurs(q, d) > 0
    <3>1. e = d => Cardinality(P) # 0
      BY <2>3, <2>7, FS_EmptySet
    <3> QED
      BY <2>3, <3>1 DEF Occurs
  <2>9. Occurs(r, e) = Cardinality(R) /\ Occurs(q, e) = Cardinality(P)
    BY DEF Occurs
  <2> HIDE DEF P, R, f, r
  <2>10. Occurs(r, e) = IF e = d THEN Occurs(q, e) - 1 ELSE Occurs(q, e)
    BY <2>5, <2>6, <2>7, <2>9
  <2> QED
    BY <2>8, <2>10 DEF r
<1> QED
  BY <1>2, <1>3

\* An iteration has the whole list ahead of it at first, then one place less
\* with each position, and nothing once it is past the end.
LEMMA AheadSteps ==
  ASSUME NEW S, NEW q \in Seq(S), NEW e, NEW k \in Nat \ {0}
  PROVE  /\ Ahead(q, 1, e) = Occurs(q, e)
         /\ k <= Len(q) => Ahead(q, k, e) = Ahead(q, k + 1, e) + (IF q[k] = e THEN 1 ELSE 0)
         /\ k > Len(q) => Ahead(q, k, e) = 0
PROOF
<1>1. DOMAIN q = 1 .. Len(q) /\ Len(q) \in Nat
  OBVIOUS
<1>2. Ahead(q, 1, e) = Occurs(q, e)
  <2>1. {i \in DOMAIN q : i >= 1 /\ q[i] = e} = {i \in DOMAIN q : q[i] = e}
    BY <1>1
  <2> QED
    BY <2>1 DEF Ahead, Occurs
<1>3. ASSUME k > Len(q) PROVE Ahead(q, k, e) = 0
  <2>1. {i \in DOMAIN q : i >= k /\ q[i] = e} = {}
    BY <1>1, <1>3
  <2> QED
    BY <2>1, FS_EmptySet DEF Ahead
<1>4. ASSUME k <= Len(q)
      PROVE  Ahead(q, k, e) = Ahead(q, k + 1, e) + (IF q[k] = e THEN 1 ELSE 0)
  <2> DEFINE P == {i \in DOMAIN q : i >= k /\ q[i] = e}
             Q == {i \in DOMAIN q : i >= k + 1 /\ q[i] = e}
  <2>1. IsFiniteSet(Q) /\ Cardinality(Q) \in Nat
    <3>1. IsFiniteSet(DOMAIN q) /\ Q \subseteq DOMAIN q
      BY <1>1, FS_Interval
    <3> HIDE DEF Q
    <3> QED
      BY <3>1, FS_Subset, FS_CardinalityType
  <2>2. k \notin Q /\ P = IF q[k] = e THEN Q \cup {k} ELSE Q
    BY <1>1, <1>4
  <2>3. Cardinality(P) = Cardinality(Q) + (IF q[k] = e THEN 1 ELSE 0)
    <3> HIDE DEF P, Q
    <3>1. CASE q[k] = e
      <4>1. Cardinality(Q \cup {k}) = Cardinality(Q) + 1
        BY <2>1, <2>2, FS_AddElement
      <4> QED
        BY <2>2, <3>1, <4>1
    <3>2. CASE q[k] # e
      BY <2>1, <2>2, <3>2
    <3> QED
      BY <3>1, <3>2
  <2> QED
    BY <2>3 DEF Ahead
<1> QED
  BY <1>2, <1>3, <1>4

-----------------------------------------------------------------------------
(* The invariant of the streams *)

\* A handler inside a section moves, or one enters a section no other is in:
\* there is still at most one of them.
LEMMA SectionMove ==
  ASSUME OneSection, pc = [d \in Sessions |-> pc[d]], NEW c \in Sessions, NEW step,
         pc[c] \in SectionSteps \/ LoopFree, pc' = [pc EXCEPT ![c] = step]
  PROVE  OneSection'
PROOF
<1>1. \A d \in Sessions : d # c => pc'[d] = pc[d]
  OBVIOUS
<1>2. \A d \in Sessions : d # c => pc'[d] \notin SectionSteps
                                  \/ pc'[c] \notin SectionSteps
                                  \/ pc[c] \in SectionSteps
  BY <1>1 DEF LoopFree
<1>3. \A d \in Sessions : d # c /\ pc[c] \in SectionSteps => pc'[d] \notin SectionSteps
  BY <1>1 DEF OneSection
<1>4. \A d, e \in Sessions : d # c /\ e # c /\ pc'[d] \in SectionSteps
                               /\ pc'[e] \in SectionSteps => d = e
  BY <1>1 DEF OneSection
<1> QED
  BY <1>2, <1>3, <1>4 DEF OneSection

\* An accepted or refused connection changes no stream, list or section.
LEMMA ConnectInv ==
  ASSUME SessionInv, NEW c \in Sessions, Connect(c), raced' \in BOOLEAN
  PROVE  SessionInv'
PROOF
<1> USE DEF SessionInv, TypeOK, SectionSteps, NoStream, NoList,
    Connect, teamVars, managerVars, sessionVars, notifierVars, historyVars, Goto, LoopFree
<1>1. TypeOK'
  <2>1. CASE team = "gone"
    BY <2>1
  <2>2. CASE team # "gone"
    <3>1. seen' = [seen EXCEPT ![c] = team] /\ pc' = [pc EXCEPT ![c] = "accept"]
      BY <2>2
    <3>2. team \in {"running", "stopped"}
      BY <2>2
    <3>3. UNCHANGED <<teamVars, managerVars, open, hungup, source, depth, conns,
                      notifierVars, historyVars>>
      OBVIOUS
    <3> HIDE DEF Connect
    <3> QED
      BY <3>1, <3>2, <3>3
  <2> QED
    BY <2>1, <2>2
<1>2. OneSection'
  BY DEF OneSection
<1>3. OperandsAreThere'
  BY DEF OperandsAreThere, OneSection
<1>4. StreamsAreAccountedFor'
  BY DEF StreamsAreAccountedFor
<1> QED
  BY <1>1, <1>2, <1>3, <1>4

\* accept() opens a section, which no other handler is inside of.
LEMMA AcceptInv ==
  ASSUME SessionInv, NEW c \in Sessions, Accept(c), raced' \in BOOLEAN
  PROVE  SessionInv'
PROOF
<1> USE DEF SessionInv, TypeOK, SectionSteps, NoStream, NoList,
    Accept, teamVars, managerVars, sessionVars, notifierVars, historyVars, Goto, LoopFree
<1>1. TypeOK'
  OBVIOUS
<1>2. OneSection'
  BY DEF OneSection
<1>3. OperandsAreThere'
  BY DEF OperandsAreThere, OneSection
<1>4. StreamsAreAccountedFor'
  BY DEF StreamsAreAccountedFor
<1> QED
  BY <1>1, <1>2, <1>3, <1>4

\* A refusal ends the handler.
LEMMA ForbidInv ==
  ASSUME SessionInv, NEW c \in Sessions, Forbid(c), raced' \in BOOLEAN
  PROVE  SessionInv'
PROOF
<1> USE DEF SessionInv, TypeOK, SectionSteps, NoStream, NoList,
    Forbid, teamVars, managerVars, sessionVars, notifierVars, historyVars, Goto, LoopFree
<1>1. TypeOK'
  OBVIOUS
<1>2. OneSection'
  BY DEF OneSection
<1>3. OperandsAreThere'
  BY DEF OperandsAreThere, OneSection
<1>4. StreamsAreAccountedFor'
  BY DEF StreamsAreAccountedFor
<1> QED
  BY <1>1, <1>2, <1>3, <1>4

\* What a client does alone touches only its own flag.
LEMMA HangUpInv ==
  ASSUME SessionInv, NEW c \in Sessions, HangUp(c), raced' \in BOOLEAN
  PROVE  SessionInv'
PROOF
<1> USE DEF SessionInv, TypeOK, SectionSteps, NoStream, NoList,
    HangUp, teamVars, managerVars, sessionVars, notifierVars, historyVars
<1>1. TypeOK'
  OBVIOUS
<1>2. OneSection'
  BY DEF OneSection
<1>3. OperandsAreThere'
  BY DEF OperandsAreThere, OneSection
<1>4. StreamsAreAccountedFor'
  BY DEF StreamsAreAccountedFor
<1> QED
  BY <1>1, <1>2, <1>3, <1>4

\* A stream found is the team's; a new one is open and nobody removes it yet.
LEMMA EntryAccounts ==
  ASSUME TypeOK, StreamsAreAccountedFor, NEW s \in Streams, Entry(s),
         UNCHANGED <<removing, sealed>>,
         \A c \in Sessions : source'[c] \in {source[c], s}
  PROVE  StreamsAreAccountedFor'
PROOF
<1>1. /\ MaxStops \in Nat /\ born \in 0 .. MaxStops + 2
      /\ source \in [Sessions -> {0} \cup (1 .. MaxStops + 2)]
      /\ s \in 1 .. MaxStops + 2
      /\ sealed \in [Streams -> BOOLEAN]
      /\ NoStream = 0
  BY WsSessionAssumption DEF TypeOK, Streams, NoStream
<1>2. CASE current # NoStream
  <2>1. s = current /\ current' = current /\ born' = born
    BY <1>2 DEF Entry
  <2>2. s <= born
    BY <1>2, <2>1 DEF StreamsAreAccountedFor
  <2>3. \A c \in Sessions : source'[c] <= born'
    BY <2>1, <2>2 DEF StreamsAreAccountedFor
  <2> QED
    BY <2>1, <2>3 DEF StreamsAreAccountedFor
<1>3. CASE current = NoStream
  <2>1. s = born + 1 /\ current' = s /\ born' = s
    BY <1>3 DEF Entry
  <2>2. s \notin removing /\ ~sealed[s]
    BY <1>1, <2>1 DEF StreamsAreAccountedFor
  <2>3. removing' = removing /\ sealed' = sealed
    OBVIOUS
  <2>4. current' \in 1 .. born' /\ removing' \subseteq 1 .. born'
    BY <1>1, <2>1, <2>3 DEF StreamsAreAccountedFor
  <2>5. ASSUME NEW r \in 1 .. born'
        PROVE  /\ r = current' => r \notin removing' /\ ~sealed'[r]
               /\ r \in removing' => ~sealed'[r]
               /\ r = current' \/ r \in removing' \/ sealed'[r]
    <3>1. CASE r = s
      BY <2>1, <2>2, <2>3, <3>1
    <3>2. CASE r # s
      <4>1. r \in 1 .. born /\ r # current
        BY <1>1, <1>3, <2>1, <3>2
      <4> QED
        BY <2>1, <2>3, <3>2, <4>1 DEF StreamsAreAccountedFor
    <3> QED
      BY <3>1, <3>2
  <2>6. \A r \in Streams : sealed'[r] => r <= born'
    BY <1>1, <2>1, <2>3 DEF StreamsAreAccountedFor, Streams
  <2>7. \A c \in Sessions : source'[c] <= born'
    <3>1. ASSUME NEW c \in Sessions PROVE source'[c] <= born'
      <4>1. source[c] <= born /\ source[c] \in Int
        BY <1>1 DEF StreamsAreAccountedFor
      <4> QED
        BY <1>1, <2>1, <4>1
    <3> QED
      BY <3>1
  <2> QED
    BY <2>4, <2>5, <2>6, <2>7 DEF StreamsAreAccountedFor
<1> QED
  BY <1>2, <1>3

\* subscribe finds or makes the team's present stream.
LEMMA LookupInv ==
  ASSUME SessionInv, NEW c \in Sessions, Lookup(c), raced' \in BOOLEAN
  PROVE  SessionInv'
PROOF
<1> USE DEF SessionInv, TypeOK, SectionSteps, NoStream, NoList,
    Lookup, teamVars, managerVars, sessionVars, notifierVars, historyVars, Goto, Entry
<1>1. TypeOK'
  BY WsSessionAssumption DEF OperandsAreThere, Streams
<1>2. OneSection'
  BY DEF OneSection
<1>3. OperandsAreThere'
  BY DEF OperandsAreThere, OneSection
<1>4. StreamsAreAccountedFor'
  <2>1. PICK s \in Streams : Entry(s) /\ source' = [source EXCEPT ![c] = s]
    OBVIOUS
  <2>2. UNCHANGED <<removing, sealed>>
    OBVIOUS
  <2> QED
    BY <2>1, <2>2, EntryAccounts
<1> QED
  BY <1>1, <1>2, <1>3, <1>4

\* A registered reader's stream is the one it looked up.
LEMMA RegisterInv ==
  ASSUME SessionInv, NEW c \in Sessions, Register(c), raced' \in BOOLEAN
  PROVE  SessionInv'
PROOF
<1> USE DEF SessionInv, TypeOK, SectionSteps, NoStream, NoList,
    Register, teamVars, managerVars, sessionVars, notifierVars, historyVars, Goto
<1>1. TypeOK'
  OBVIOUS
<1>2. OneSection'
  BY DEF OneSection
<1>3. OperandsAreThere'
  BY DEF OperandsAreThere, OneSection
<1>4. StreamsAreAccountedFor'
  BY DEF StreamsAreAccountedFor
<1> QED
  BY <1>1, <1>2, <1>3, <1>4

\* Clearing the flag stays in the section.
LEMMA ClearRestoredInv ==
  ASSUME SessionInv, NEW c \in Sessions, ClearRestored(c), raced' \in BOOLEAN
  PROVE  SessionInv'
PROOF
<1> USE DEF SessionInv, TypeOK, SectionSteps, NoStream, NoList,
    ClearRestored, teamVars, managerVars, sessionVars, notifierVars, historyVars, Goto
<1>1. TypeOK'
  OBVIOUS
<1>2. OneSection'
  BY DEF OneSection
<1>3. OperandsAreThere'
  BY DEF OperandsAreThere, OneSection
<1>4. StreamsAreAccountedFor'
  BY DEF StreamsAreAccountedFor
<1> QED
  BY <1>1, <1>2, <1>3, <1>4

\* The end of a stream opens a section.
LEMMA StreamOverInv ==
  ASSUME SessionInv, NEW c \in Sessions, StreamOver(c), raced' \in BOOLEAN
  PROVE  SessionInv'
PROOF
<1> USE DEF SessionInv, TypeOK, SectionSteps, NoStream, NoList,
    StreamOver, teamVars, managerVars, sessionVars, notifierVars, historyVars, Goto, Detach, LoopFree
<1>1. TypeOK'
  <2>1. \E b \in BOOLEAN : open' = [open EXCEPT ![c] = b]
    OBVIOUS
  <2>2. pc' = [pc EXCEPT ![c] = "clear"] /\ source' = [source EXCEPT ![c] = NoStream]
    OBVIOUS
  <2>3. UNCHANGED <<teamVars, managerVars, seen, hungup, depth, conns, notifierVars, historyVars>>
    OBVIOUS
  <2> HIDE DEF StreamOver
  <2> QED
    BY <2>1, <2>2, <2>3
<1>2. OneSection'
  BY DEF OneSection
<1>3. OperandsAreThere'
  BY DEF OperandsAreThere, OneSection
<1>4. StreamsAreAccountedFor'
  BY DEF StreamsAreAccountedFor
<1> QED
  BY <1>1, <1>2, <1>3, <1>4

\* setdefault gives the section the list it appends to.
LEMMA EnlistInv ==
  ASSUME SessionInv, NEW c \in Sessions, Enlist(c), raced' \in BOOLEAN
  PROVE  SessionInv'
PROOF
<1> USE DEF SessionInv, TypeOK, SectionSteps, NoStream, NoList,
    Enlist, teamVars, managerVars, sessionVars, notifierVars, historyVars, Goto, SetDefault
<1>1. TypeOK'
  <2>1. PICK l \in Lists : SetDefault(l) /\ conns' = l
    OBVIOUS
  <2>2. <<>> \in Seq(Sessions)
    OBVIOUS
  <2>3. CASE entry # NoList
    BY <2>1, <2>3 DEF OperandsAreThere
  <2>4. CASE entry = NoList
    <3>1. list' = [list EXCEPT ![l] = <<>>]
      BY <2>1, <2>4
    <3>2. list' \in [Lists -> Seq(Sessions)]
      BY <2>2, <3>1
    <3> QED
      BY <2>1, <2>4, <3>2 DEF OperandsAreThere
  <2> QED
    BY <2>3, <2>4
<1>2. OneSection'
  BY DEF OneSection
<1>3. OperandsAreThere'
  BY DEF OperandsAreThere, OneSection
<1>4. StreamsAreAccountedFor'
  BY DEF StreamsAreAccountedFor
<1> QED
  BY <1>1, <1>2, <1>3, <1>4

\* The append ends the section.
LEMMA AppendWaitingInv ==
  ASSUME SessionInv, NEW c \in Sessions, AppendWaiting(c), raced' \in BOOLEAN
  PROVE  SessionInv'
PROOF
<1> USE DEF SessionInv, TypeOK, SectionSteps, NoStream, NoList,
    AppendWaiting, teamVars, managerVars, sessionVars, notifierVars, historyVars, Goto
<1>1. TypeOK'
  BY DEF OperandsAreThere
<1>2. OneSection'
  BY DEF OneSection
<1>3. OperandsAreThere'
  BY DEF OperandsAreThere, OneSection
<1>4. StreamsAreAccountedFor'
  BY DEF StreamsAreAccountedFor
<1> QED
  BY <1>1, <1>2, <1>3, <1>4

\* A poll that finds the flag opens a section.
LEMMA PollInv ==
  ASSUME SessionInv, NEW c \in Sessions, Poll(c), raced' \in BOOLEAN
  PROVE  SessionInv'
PROOF
<1> USE DEF SessionInv, TypeOK, SectionSteps, NoStream, NoList,
    Poll, teamVars, managerVars, sessionVars, notifierVars, historyVars, Goto, LoopFree
<1>1. TypeOK'
  BY DEF OperandsAreThere
<1>2. OneSection'
  BY DEF OneSection
<1>3. OperandsAreThere'
  BY DEF OperandsAreThere, OneSection
<1>4. StreamsAreAccountedFor'
  BY DEF StreamsAreAccountedFor
<1> QED
  BY <1>1, <1>2, <1>3, <1>4

\* A noticed disconnect opens a section that unwinds the loops.
LEMMA NoticeInv ==
  ASSUME SessionInv, NEW c \in Sessions, Notice(c), raced' \in BOOLEAN
  PROVE  SessionInv'
PROOF
<1> USE DEF SessionInv, TypeOK, SectionSteps, NoStream, NoList,
    Notice, teamVars, managerVars, sessionVars, notifierVars, historyVars, Goto, Detach, LoopFree
<1>1. TypeOK'
  OBVIOUS
<1>2. OneSection'
  BY DEF OneSection
<1>3. OperandsAreThere'
  BY DEF OperandsAreThere, OneSection
<1>4. StreamsAreAccountedFor'
  BY DEF StreamsAreAccountedFor
<1> QED
  BY <1>1, <1>2, <1>3, <1>4

\* One loop less, or the end.
LEMMA UnwindInv ==
  ASSUME SessionInv, NEW c \in Sessions, Unwind(c), raced' \in BOOLEAN
  PROVE  SessionInv'
PROOF
<1>2. OneSection'
  <2>1. OneSection /\ pc[c] \in SectionSteps
    BY DEF SessionInv, SectionSteps, Unwind
  <2>3. pc = [d \in Sessions |-> pc[d]]
    BY DEF SessionInv, TypeOK
  <2>2. \/ pc' = [pc EXCEPT ![c] = "ended"]
        \/ pc' = [pc EXCEPT ![c] = "unwind"]
        \/ pc' = [pc EXCEPT ![c] = "prune"]
    BY DEF Unwind, Goto, Left
  <2> QED
    BY <2>1, <2>2, <2>3, SectionMove
<1> USE DEF SessionInv, TypeOK, SectionSteps, NoStream, NoList,
    Unwind, teamVars, managerVars, sessionVars, notifierVars, historyVars, Goto, Left
<1>1. TypeOK'
  <2>1. CASE depth[c] = 0
    BY <2>1
  <2>2. CASE depth[c] # 0 /\ entry = NoList
    <3>1. depth[c] - 1 \in Nat
      BY <2>2
    <3>2. Left(c) /\ UNCHANGED <<teamVars, managerVars, seen, open, hungup, source>>
          /\ UNCHANGED <<notifierVars, historyVars>>
      BY <2>2
    <3> QED
      BY <3>1, <3>2
  <2>3. CASE depth[c] # 0 /\ entry # NoList
    BY <2>3
  <2> QED
    BY <2>1, <2>2, <2>3
<1>3. OperandsAreThere'
  BY DEF OperandsAreThere, OneSection
<1>4. StreamsAreAccountedFor'
  BY DEF StreamsAreAccountedFor
<1> QED
  BY <1>1, <1>2, <1>3, <1>4

\* The list stays a list of sessions.
LEMMA PruneInv ==
  ASSUME SessionInv, NEW c \in Sessions, Prune(c), raced' \in BOOLEAN
  PROVE  SessionInv'
PROOF
<1>2. OneSection'
  <2>1. OneSection /\ pc[c] \in SectionSteps
    BY DEF SessionInv, SectionSteps, Prune
  <2>3. pc = [d \in Sessions |-> pc[d]]
    BY DEF SessionInv, TypeOK
  <2>2. \/ pc' = [pc EXCEPT ![c] = "drop"]
        \/ pc' = [pc EXCEPT ![c] = "unwind"]
    BY DEF Prune, Goto, Left
  <2> QED
    BY <2>1, <2>2, <2>3, SectionMove
<1> USE DEF SessionInv, TypeOK, SectionSteps, NoStream, NoList,
    Prune, teamVars, managerVars, sessionVars, notifierVars, historyVars, Goto, Left
<1>1. TypeOK'
  <2>1. conns \in Lists /\ depth[c] \in Nat \ {0}
    BY DEF OperandsAreThere
  <2>2. RemoveFirst(list[conns], c) \in Seq(Sessions)
    BY <2>1, RemoveFirstType
  <2>3. list' \in [Lists -> Seq(Sessions)]
    BY <2>1, <2>2
  <2>4. CASE list'[conns] = <<>>
    BY <2>3, <2>4
  <2>5. CASE list'[conns] # <<>>
    <3>1. depth[c] - 1 \in Nat
      BY <2>1
    <3>2. /\ depth' = [depth EXCEPT ![c] = @ - 1] /\ conns' = NoList
          /\ pc' = [pc EXCEPT ![c] = "unwind"]
      BY <2>5
    <3>3. UNCHANGED <<teamVars, restored, entry, seen, open, hungup, source,
                      notifierVars, historyVars>>
      OBVIOUS
    <3> HIDE DEF Prune, Left
    <3> QED
      BY <2>3, <3>1, <3>2, <3>3
  <2> QED
    BY <2>4, <2>5
<1>3. OperandsAreThere'
  BY DEF OperandsAreThere, OneSection
<1>4. StreamsAreAccountedFor'
  BY DEF StreamsAreAccountedFor
<1> QED
  BY <1>1, <1>2, <1>3, <1>4

\* The entry goes, the section goes on.
LEMMA DropInv ==
  ASSUME SessionInv, NEW c \in Sessions, Drop(c), raced' \in BOOLEAN
  PROVE  SessionInv'
PROOF
<1> USE DEF SessionInv, TypeOK, SectionSteps, NoStream, NoList,
    Drop, teamVars, managerVars, sessionVars, notifierVars, historyVars, Goto, Left
<1>1. TypeOK'
  BY DEF OperandsAreThere
<1>2. OneSection'
  BY DEF OneSection
<1>3. OperandsAreThere'
  BY DEF OperandsAreThere, OneSection
<1>4. StreamsAreAccountedFor'
  BY DEF StreamsAreAccountedFor
<1> QED
  BY <1>1, <1>2, <1>3, <1>4

\* A notifier that goes on holds the popped list.
LEMMA PopWaitingInv ==
  ASSUME SessionInv, NEW n \in Notifiers, PopWaiting(n), raced' \in BOOLEAN
  PROVE  SessionInv'
PROOF
<1> USE DEF SessionInv, TypeOK, SectionSteps, NoStream, NoList,
    PopWaiting, teamVars, managerVars, sessionVars, notifierVars, historyVars
<1>1. TypeOK'
  OBVIOUS
<1>2. OneSection'
  BY DEF OneSection
<1>3. OperandsAreThere'
  BY DEF OperandsAreThere, OneSection
<1>4. StreamsAreAccountedFor'
  BY DEF StreamsAreAccountedFor
<1> QED
  BY <1>1, <1>2, <1>3, <1>4

\* A notifier that popped an empty list is done.
LEMMA CheckWaitingInv ==
  ASSUME SessionInv, NEW n \in Notifiers, CheckWaiting(n), raced' \in BOOLEAN
  PROVE  SessionInv'
PROOF
<1> USE DEF SessionInv, TypeOK, SectionSteps, NoStream, NoList,
    CheckWaiting, teamVars, managerVars, sessionVars, notifierVars, historyVars
<1>1. TypeOK'
  OBVIOUS
<1>2. OneSection'
  BY DEF OneSection
<1>3. OperandsAreThere'
  BY DEF OperandsAreThere, OneSection
<1>4. StreamsAreAccountedFor'
  BY DEF StreamsAreAccountedFor
<1> QED
  BY <1>1, <1>2, <1>3, <1>4

\* Marking changes the flag and starts the iteration.
LEMMA MarkRestoredInv ==
  ASSUME SessionInv, NEW n \in Notifiers, MarkRestored(n), raced' \in BOOLEAN
  PROVE  SessionInv'
PROOF
<1> USE DEF SessionInv, TypeOK, SectionSteps, NoStream, NoList,
    MarkRestored, teamVars, managerVars, sessionVars, notifierVars, historyVars
<1>1. TypeOK'
  <2>1. held[n] \in Lists
    BY DEF OperandsAreThere
  <2>2. Range(list[held[n]]) \subseteq Sessions
    BY <2>1 DEF Range
  <2>3. told' \in SUBSET Sessions
    BY <2>2
  <2> QED
    BY <2>3
<1>2. OneSection'
  BY DEF OneSection
<1>3. OperandsAreThere'
  BY DEF OperandsAreThere, OneSection
<1>4. StreamsAreAccountedFor'
  BY DEF StreamsAreAccountedFor
<1> QED
  BY <1>1, <1>2, <1>3, <1>4

\* A session visited is one of the list's.
LEMMA VisitInv ==
  ASSUME SessionInv, NEW n \in Notifiers, Visit(n), raced' \in BOOLEAN
  PROVE  SessionInv'
PROOF
<1> USE DEF SessionInv, TypeOK, SectionSteps, NoStream, NoList,
    Visit, teamVars, managerVars, sessionVars, notifierVars, historyVars
<1>1. TypeOK'
  <2>1. held[n] \in Lists /\ index[n] \in Nat \ {0}
    BY DEF OperandsAreThere
  <2>2. CASE index[n] > Len(list[held[n]])
    <3>1. <<>> \in Seq(Sessions)
      OBVIOUS
    <3>2. list' = [list EXCEPT ![held[n]] = IF conns = held[n] THEN @ ELSE <<>>]
      BY <2>2
    <3>3. list' \in [Lists -> Seq(Sessions)]
      BY <2>1, <3>1, <3>2
    <3>4. /\ npc' = [npc EXCEPT ![n] = "free"]
          /\ held' = [held EXCEPT ![n] = NoList]
          /\ index' = [index EXCEPT ![n] = 0]
          /\ UNCHANGED ws
      BY <2>2
    <3>5. UNCHANGED <<teamVars, restored, entry, sessionVars, target, historyVars>>
      OBVIOUS
    <3> HIDE DEF Visit
    <3> QED
      BY <3>3, <3>4, <3>5
  <2>3. CASE ~ (index[n] > Len(list[held[n]]))
    <3>1. list[held[n]][index[n]] \in Sessions
      BY <2>1, <2>3
    <3>2. index[n] + 1 \in Nat
      BY <2>1
    <3>3. UNCHANGED <<list, held>> /\ index' = [index EXCEPT ![n] = @ + 1]
      BY <2>3
    <3>4. npc' = npc \/ npc' = [npc EXCEPT ![n] = "readd"]
      BY <2>3
    <3>5. ws' \in [Notifiers -> Sessions \cup {NoSession}]
      BY <2>3, <3>1
    <3>6. UNCHANGED <<teamVars, restored, entry, sessionVars, target, historyVars>>
      OBVIOUS
    <3> HIDE DEF Visit
    <3>7. npc' \in [Notifiers -> {"free", "pop", "check", "mark", "visit",
                                  "readd", "reappend"}]
      BY <3>4
    <3> QED
      BY <3>2, <3>3, <3>5, <3>6, <3>7
  <2> QED
    BY <2>2, <2>3
<1>2. OneSection'
  BY DEF OneSection
<1>3. OperandsAreThere'
  BY DEF OperandsAreThere, OneSection
<1>4. StreamsAreAccountedFor'
  BY DEF StreamsAreAccountedFor
<1> QED
  BY <1>1, <1>2, <1>3, <1>4

\* setdefault gives the notifier a list to append to.
LEMMA ReaddInv ==
  ASSUME SessionInv, NEW n \in Notifiers, Readd(n), raced' \in BOOLEAN
  PROVE  SessionInv'
PROOF
<1> USE DEF SessionInv, TypeOK, SectionSteps, NoStream, NoList,
    Readd, teamVars, managerVars, sessionVars, notifierVars, historyVars, SetDefault
<1>1. TypeOK'
  <2>1. PICK l \in Lists : SetDefault(l) /\ target' = [target EXCEPT ![n] = l]
    OBVIOUS
  <2>2. <<>> \in Seq(Sessions)
    OBVIOUS
  <2>3. CASE entry # NoList
    BY <2>1, <2>3 DEF OperandsAreThere
  <2>4. CASE entry = NoList
    <3>1. list' = [list EXCEPT ![l] = <<>>]
      BY <2>1, <2>4
    <3>2. list' \in [Lists -> Seq(Sessions)]
      BY <2>2, <3>1
    <3> QED
      BY <2>1, <2>4, <3>2 DEF OperandsAreThere
  <2> QED
    BY <2>3, <2>4
<1>2. OneSection'
  BY DEF OneSection
<1>3. OperandsAreThere'
  BY DEF OperandsAreThere, OneSection
<1>4. StreamsAreAccountedFor'
  BY DEF StreamsAreAccountedFor
<1> QED
  BY <1>1, <1>2, <1>3, <1>4

\* What is appended is a session.
LEMMA ReappendInv ==
  ASSUME SessionInv, NEW n \in Notifiers, Reappend(n), raced' \in BOOLEAN
  PROVE  SessionInv'
PROOF
<1> USE DEF SessionInv, TypeOK, SectionSteps, NoStream, NoList,
    Reappend, teamVars, managerVars, sessionVars, notifierVars, historyVars
<1>1. TypeOK'
  BY DEF OperandsAreThere
<1>2. OneSection'
  BY DEF OneSection
<1>3. OperandsAreThere'
  BY DEF OperandsAreThere, OneSection
<1>4. StreamsAreAccountedFor'
  BY DEF StreamsAreAccountedFor
<1> QED
  BY <1>1, <1>2, <1>3, <1>4

\* A start takes the team's stream or makes one, as a lookup does.
LEMMA StartedInv ==
  ASSUME SessionInv, Started, raced' \in BOOLEAN, UNCHANGED notifierVars
  PROVE  SessionInv'
PROOF
<1> USE DEF SessionInv, TypeOK, SectionSteps, NoStream, NoList, Started,
    teamVars, managerVars, sessionVars, notifierVars, historyVars
<1>1. PICK s \in Streams : Entry(s)
  OBVIOUS
<1> USE <1>1, WsSessionAssumption DEF Entry, Streams
<1>2. TypeOK'
  OBVIOUS
<1>3. OneSection'
  BY DEF OneSection
<1>4. OperandsAreThere'
  BY DEF OperandsAreThere
<1>5. StreamsAreAccountedFor'
  BY EntryAccounts
<1> QED
  BY <1>2, <1>3, <1>4, <1>5

\* The restore route starts the team, and its thread goes on to notify.
LEMMA RestoreInv ==
  ASSUME SessionInv, NEW n \in Notifiers, Restore(n), raced' \in BOOLEAN
  PROVE  SessionInv'
PROOF
<1> USE DEF SessionInv, TypeOK, SectionSteps, NoStream, NoList, Started, Restore,
    teamVars, managerVars, sessionVars, notifierVars, historyVars
<1>1. PICK s \in Streams : Entry(s)
  OBVIOUS
<1> USE <1>1, WsSessionAssumption DEF Entry, Streams
<1>2. TypeOK'
  OBVIOUS
<1>3. OneSection'
  BY DEF OneSection
<1>4. OperandsAreThere'
  BY DEF OperandsAreThere
<1>5. StreamsAreAccountedFor'
  BY EntryAccounts
<1> QED
  BY <1>2, <1>3, <1>4, <1>5

\* What a remove() pops is in its hands.
LEMMA PopStreamInv ==
  ASSUME SessionInv, PopStream, team' \in {"stopped", "gone"}, stops' \in 0 .. MaxStops,
         raced' \in BOOLEAN
  PROVE  SessionInv'
PROOF
<1> USE DEF SessionInv, TypeOK, SectionSteps, NoStream, NoList,
        managerVars, sessionVars, notifierVars
<1>1. /\ removing' = removing \cup ({current} \ {NoStream})
      /\ current' = NoStream
      /\ told' = {}
      /\ UNCHANGED <<born, sealed, managerVars, sessionVars, notifierVars, wiped>>
  BY DEF PopStream
<1>2. TypeOK'
  BY <1>1
<1>3. OneSection'
  BY <1>1 DEF OneSection
<1>4. OperandsAreThere'
  BY <1>1 DEF OperandsAreThere
<1>5. StreamsAreAccountedFor'
  BY <1>1, WsSessionAssumption DEF StreamsAreAccountedFor, Streams
<1> QED
  BY <1>2, <1>3, <1>4, <1>5

\* It closes what it popped.
LEMMA CloseRemovedInv ==
  ASSUME SessionInv, NEW s \in Streams, CloseRemoved(s), raced' \in BOOLEAN
  PROVE  SessionInv'
PROOF
<1> USE DEF SessionInv, TypeOK, SectionSteps, NoStream, NoList, CloseRemoved,
        managerVars, sessionVars, notifierVars, historyVars
<1>1. TypeOK'
  OBVIOUS
<1>2. OneSection'
  BY DEF OneSection
<1>3. OperandsAreThere'
  BY DEF OperandsAreThere
<1>4. StreamsAreAccountedFor'
  BY DEF StreamsAreAccountedFor
<1> QED
  BY <1>1, <1>2, <1>3, <1>4

\* A stop or a deletion pops the team's stream, a start gives it one.
LEMMA TeamStepInv ==
  ASSUME SessionInv, TeamStep, raced' \in BOOLEAN
  PROVE  SessionInv'
PROOF
<1>1. CASE StopTeam
  <2>1. team' = "stopped" /\ stops' \in 0 .. MaxStops /\ PopStream
    BY <1>1, WsSessionAssumption DEF StopTeam, SessionInv, TypeOK
  <2> QED
    BY <2>1, PopStreamInv
<1>2. CASE DeleteTeam
  <2>1. team' = "gone" /\ stops' \in 0 .. MaxStops /\ PopStream
    BY <1>2 DEF DeleteTeam, SessionInv, TypeOK
  <2> QED
    BY <2>1, PopStreamInv
<1>3. CASE ReviveTeam
  BY <1>3, StartedInv DEF ReviveTeam
<1>4. CASE \E s \in Streams : CloseRemoved(s)
  BY <1>4, CloseRemovedInv
<1> QED
  BY <1>1, <1>2, <1>3, <1>4 DEF TeamStep

\* Every initial state satisfies the inductive invariant.
LEMMA InitInv == Init => SessionInv
PROOF
<1> SUFFICES ASSUME Init PROVE SessionInv
  OBVIOUS
<1> USE WsSessionAssumption DEF Init, SectionSteps, NoStream, NoList
<1>1. <<>> \in Seq(Sessions)
  OBVIOUS
<1>2. current \in {0, 1} /\ born = current /\ team \in {"running", "stopped"}
  OBVIOUS
<1>3. list \in [Lists -> Seq(Sessions)]
  BY <1>1
<1>4. TypeOK
  <2>1. /\ stops \in 0 .. MaxStops
        /\ current \in {NoStream} \cup Streams
        /\ born \in 0 .. MaxStops + 2
    BY <1>2 DEF Streams
  <2>2. sealed \in [Streams -> BOOLEAN]
    OBVIOUS
  <2>3. 0 \in Nat /\ NoStream \in {NoStream} \cup Streams
    OBVIOUS
  <2>4. /\ source \in [Sessions -> {NoStream} \cup Streams]
        /\ depth \in [Sessions -> Nat]
    BY <2>3
  <2>5. /\ pc \in [Sessions -> {"new", "accept", "streaming", "idle", "ended"}
                              \cup SectionSteps]
        /\ seen \in [Sessions -> {"none", "running", "stopped"}]
        /\ open \in [Sessions -> BOOLEAN]
        /\ hungup \in [Sessions -> BOOLEAN]
    OBVIOUS
  <2>6. /\ npc \in [Notifiers -> {"free", "pop", "check", "mark", "visit",
                                  "readd", "reappend"}]
        /\ held \in [Notifiers -> {NoList} \cup Lists]
        /\ index \in [Notifiers -> Nat]
        /\ ws \in [Notifiers -> Sessions \cup {NoSession}]
        /\ target \in [Notifiers -> {NoList} \cup Lists]
    OBVIOUS
  <2>7. /\ team \in {"running", "stopped", "gone"}
        /\ restored \in BOOLEAN /\ wiped \in BOOLEAN /\ raced \in BOOLEAN
        /\ entry \in {NoList} \cup Lists /\ conns \in {NoList} \cup Lists
        /\ told \in SUBSET Sessions
    BY <1>2
  <2> QED
    BY <1>3, <2>1, <2>2, <2>4, <2>5, <2>6, <2>7 DEF TypeOK
<1>5. OneSection
  BY DEF OneSection
<1>6. OperandsAreThere
  BY DEF OperandsAreThere
<1>7. StreamsAreAccountedFor
  BY <1>2 DEF StreamsAreAccountedFor, Streams
<1> QED
  BY <1>4, <1>5, <1>6, <1>7 DEF SessionInv

\* A stuttering step preserves it.
LEMMA StutterInv == SessionInv /\ UNCHANGED vars => SessionInv'
  BY DEF SessionInv, TypeOK, OneSection, OperandsAreThere,
         StreamsAreAccountedFor, vars, teamVars, managerVars, sessionVars, notifierVars,
         historyVars

\* Whoever acts, the invariant is preserved.
LEMMA NextInv == SessionInv /\ [Next]_vars => SessionInv'
PROOF
<1> SUFFICES ASSUME SessionInv, [Next]_vars PROVE SessionInv'
  OBVIOUS
<1>1. CASE UNCHANGED vars
  BY <1>1, StutterInv
<1>2. CASE Next
  <2>1. Step /\ raced' \in BOOLEAN
    BY <1>2 DEF Next, Tracked
  <2>2. CASE TeamStep
    BY <2>1, <2>2, TeamStepInv
  <2>3. ASSUME NEW c \in Sessions,
               Connect(c) \/ Forbid(c) \/ HangUp(c) \/ Notice(c) \/ HandlerStep(c)
        PROVE  SessionInv'
    BY <2>1, <2>3, ConnectInv, ForbidInv, HangUpInv, NoticeInv, AcceptInv, LookupInv,
       RegisterInv, ClearRestoredInv, StreamOverInv, EnlistInv, AppendWaitingInv,
       PollInv, UnwindInv, PruneInv, DropInv DEF HandlerStep
  <2>4. ASSUME NEW n \in Notifiers, Restore(n) \/ NotifierStep(n)
        PROVE  SessionInv'
    BY <2>1, <2>4, RestoreInv, PopWaitingInv, CheckWaitingInv, MarkRestoredInv,
       VisitInv, ReaddInv, ReappendInv DEF NotifierStep
  <2> QED
    BY <2>1, <2>2, <2>3, <2>4 DEF Step
<1> QED
  BY <1>1, <1>2

\* Any number of sessions, restores and stops: types hold, sections do not
\* interleave, every step has what it works on, and a stream the team has left is
\* closed or in the hands of a remove() (websocket_events, subscribe, remove).
THEOREM SessionInvariant == Spec => []SessionInv
  BY InitInv, NextInv, PTL DEF Spec

\* Every variable of the sessions keeps its type.
THEOREM SessionTypeOK == Spec => []TypeOK
PROOF
<1>1. SessionInv => TypeOK
  BY DEF SessionInv
<1> QED
  BY <1>1, SessionInvariant, PTL

-----------------------------------------------------------------------------
(* The invariant of the waiting list *)

\* A list object nobody refers to: there are more objects than references.
LEMMA FreshIsFresh ==
  ASSUME TypeOK, entry = NoList
  PROVE  /\ FreshList \in Lists /\ FreshList # conns
         /\ \A n \in Notifiers : FreshList # held[n] /\ FreshList # target[n]
PROOF
<1> DEFINE H == {held[n] : n \in Notifiers}
           T == {target[n] : n \in Notifiers}
           f == [n \in Notifiers |-> held[n]]
           g == [n \in Notifiers |-> target[n]]
           N == Cardinality(Notifiers)
<1>1. IsFiniteSet(Notifiers) /\ N \in Nat
  BY WsSessionAssumption, FS_CardinalityType
<1>2. IsFiniteSet(H) /\ Cardinality(H) <= N /\ Cardinality(H) \in Nat
  <2>1. f \in Surjection(Notifiers, H)
    BY DEF Surjection
  <2> QED
    BY <1>1, <2>1, FS_Surjection, FS_CardinalityType
<1>3. IsFiniteSet(T) /\ Cardinality(T) <= N /\ Cardinality(T) \in Nat
  <2>1. g \in Surjection(Notifiers, T)
    BY DEF Surjection
  <2> QED
    BY <1>1, <2>1, FS_Surjection, FS_CardinalityType
<1>4. IsFiniteSet(H \cup T) /\ Cardinality(H \cup T) <= N + N /\ Cardinality(H \cup T) \in Nat
  <2> HIDE DEF H, T, f, g, N
  <2>1. IsFiniteSet(H \cap T)
    BY <1>2, FS_Subset
  <2>2. Cardinality(H \cap T) \in Nat
    BY <2>1, FS_CardinalityType
  <2>3. /\ IsFiniteSet(H \cup T)
        /\ Cardinality(H \cup T) = Cardinality(H) + Cardinality(T) - Cardinality(H \cap T)
    BY <1>2, <1>3, FS_Union
  <2>4. Cardinality(H \cup T) \in Nat
    BY <2>3, FS_CardinalityType
  <2> QED
    BY <1>1, <1>2, <1>3, <2>2, <2>3, <2>4
<1> DEFINE U == H \cup T
           V == U \cup {conns}
<1>5. IsFiniteSet(V) /\ Cardinality(V) <= N + N + 1 /\ Cardinality(V) \in Nat
  <2>1. IsFiniteSet(U) /\ Cardinality(U) <= N + N /\ Cardinality(U) \in Nat
    BY <1>4
  <2> HIDE DEF U
  <2>2. /\ IsFiniteSet(V)
        /\ \/ Cardinality(V) = Cardinality(U)
           \/ Cardinality(V) = Cardinality(U) + 1
    BY <2>1, FS_AddElement
  <2> HIDE DEF V, N
  <2> QED
    BY <1>1, <2>1, <2>2
<1>6. Cardinality(Lists) = 2 + 2 * N /\ IsFiniteSet(Lists)
  <2> HIDE DEF N
  <2>1. Lists = 1 .. 2 + 2 * N
    BY DEF Lists, N
  <2>2. 1 \in Nat /\ 2 + 2 * N \in Nat
    BY <1>1
  <2> DEFINE m == 2 + 2 * N
  <2>3. Cardinality(1 .. m) = IF 1 > m THEN 0 ELSE m - 1 + 1
    <3>1. 1 \in Int /\ m \in Int
      BY <1>1
    <3> HIDE DEF m
    <3> QED
      BY <3>1, FS_Interval
  <2> QED
    BY <1>1, <2>1, <2>3, FS_Interval
<1>7. PICK l \in Lists : l \notin V
  <2> SUFFICES ASSUME Lists \subseteq V PROVE FALSE
    OBVIOUS
  <2> HIDE DEF V, N
  <2>1. Cardinality(Lists) <= Cardinality(V)
    BY <1>5, FS_Subset
  <2> QED
    BY <1>1, <1>5, <1>6, <2>1
<1>8. l # entry
  BY DEF Lists, NoList
<1>9. l # conns /\ \A n \in Notifiers : l # held[n] /\ l # target[n]
  BY <1>7
<1> QED
  BY <1>8, <1>9 DEF FreshList

\* A handler is inside of no loop before it is connected and after it has ended,
\* leaves its loops only when its client is gone, and serves only a connected one.
Depths ==
  \A c \in Sessions :
    /\ pc[c] \in {"new", "accept"} => ~open[c] /\ depth[c] = 0
    /\ pc[c] = "ended" => depth[c] = 0
    /\ pc[c] \in {"unwind", "prune", "drop"} => ~open[c]
    /\ pc[c] \in {"lookup", "register", "streaming"} => open[c]

\* Whoever acts, a handler's depth follows its loops.
LEMMA DepthsNext ==
  ASSUME SessionInv, Depths, Step
  PROVE  Depths'
PROOF
<1> USE DEF Depths, teamVars, managerVars, sessionVars, notifierVars, historyVars, Goto
<1>1. TypeOK
  BY DEF SessionInv
<1>2. CASE TeamStep
  <2>1. pc' = pc /\ open' = open /\ depth' = depth
    BY <1>2 DEF TeamStep, StopTeam, DeleteTeam, ReviveTeam, PopStream,
       CloseRemoved, Started
  <2> QED
    BY <2>1
<1>3. ASSUME NEW n \in Notifiers, Restore(n) \/ NotifierStep(n) PROVE Depths'
  <2>1. pc' = pc /\ open' = open /\ depth' = depth
    BY <1>3 DEF NotifierStep, Restore, Started, PopWaiting, CheckWaiting, MarkRestored,
       Visit, Readd, Reappend
  <2> QED
    BY <2>1
<1>4. ASSUME NEW c \in Sessions, Connect(c) \/ Forbid(c) \/ HangUp(c) \/ Notice(c)
      PROVE  Depths'
  <2>1. CASE Connect(c)
    BY <1>1, <2>1 DEF TypeOK, Connect
  <2>2. CASE Forbid(c)
    BY <1>1, <2>2 DEF TypeOK, Forbid
  <2>3. CASE HangUp(c)
    BY <1>1, <2>3 DEF TypeOK, HangUp
  <2>4. CASE Notice(c)
    BY <1>1, <2>4 DEF TypeOK, Notice
  <2> QED
    BY <1>4, <2>1, <2>2, <2>3, <2>4
<1>5. ASSUME NEW c \in Sessions, HandlerStep(c) PROVE Depths'
  <2>1. CASE Accept(c)
    BY <1>1, <2>1 DEF TypeOK, Accept
  <2>2. CASE Lookup(c)
    BY <1>1, <2>2 DEF TypeOK, Lookup
  <2>3. CASE Register(c)
    BY <1>1, <2>3 DEF TypeOK, Register
  <2>4. CASE ClearRestored(c)
    BY <1>1, <2>4 DEF TypeOK, ClearRestored
  <2>5. CASE StreamOver(c)
    BY <1>1, <2>5 DEF TypeOK, StreamOver
  <2>6. CASE Enlist(c)
    BY <1>1, <2>6 DEF TypeOK, Enlist
  <2>7. CASE AppendWaiting(c)
    BY <1>1, <2>7 DEF TypeOK, AppendWaiting
  <2>8. CASE Poll(c)
    BY <1>1, <2>8 DEF TypeOK, Poll
  <2>9. CASE Unwind(c)
    BY <1>1, <2>9 DEF TypeOK, Unwind, Left
  <2>10. CASE Prune(c)
    BY <1>1, <2>10 DEF TypeOK, Prune, Left
  <2>11. CASE Drop(c)
    BY <1>1, <2>11 DEF TypeOK, Drop, Left
  <2> QED
    BY <1>5, <2>1, <2>2, <2>3, <2>4, <2>5, <2>6, <2>7, <2>8, <2>9, <2>10, <2>11
       DEF HandlerStep
<1> QED
  BY <1>2, <1>3, <1>4, <1>5 DEF Step

-----------------------------------------------------------------------------
(* Where a list has a session *)

\* The position notifier n's iteration goes on from, whether it holds c to re-add
\* it, and so how often c is still ahead of it.
From(n)      == IF npc[n] \in {"visit", "readd", "reappend"} THEN index[n] ELSE 1
InHand(n, c) == IF npc[n] \in {"readd", "reappend"} /\ ws[n] = c THEN 1 ELSE 0
Share(n, c)  == Ahead(list[held[n]], From(n), c) + InHand(n, c)

\* t is right for c: one for each loop, or fewer once its client is gone.
Tally(c, t) == t <= depth[c] /\ (open[c] => t = depth[c])

\* A section works on the team's entry, which is empty when it is to be deleted; a
\* notifier's popped list is not the entry, which is absent until the first
\* session is re-added, and re-adding goes to the entry.
Orderly ==
  /\ \A c \in Sessions : pc[c] \in {"append", "prune", "drop"} => conns = entry
  /\ \A c \in Sessions : pc[c] = "drop" => list[entry] = <<>>
  /\ \A n \in Sweepers :
       /\ entry # held[n]
       /\ npc[n] \in {"check", "mark"} => entry = NoList
       /\ npc[n] = "reappend" => target[n] = entry

\* What is listed, with what a notifier has still to re-add, is right.
Counted ==
  \A c \in Sessions :
    /\ ~Sweeping => Tally(c, Listings(c))
    /\ \A n \in Sweepers : Tally(c, Listings(c) + Share(n, c))

\* The inductive invariant of the waiting list.
ListInv == Depths /\ (~raced => ~Racing /\ Orderly /\ Counted)

\* The waiting list has each session some number of times.
LEMMA ListingsOccur ==
  ASSUME NEW c
  PROVE  Listings(c) = IF entry = NoList THEN 0 ELSE Occurs(list[entry], c)
  BY DEF Listings, Occurs

\* What is counted is a number.
LEMMA CountsAreNumbers ==
  ASSUME TypeOK, OperandsAreThere, NEW c
  PROVE  /\ Listings(c) \in Nat
         /\ \A n \in Sweepers : Share(n, c) \in Nat
PROOF
<1>1. Listings(c) \in Nat
  <2>1. CASE entry = NoList
    BY <2>1, ListingsOccur
  <2>2. CASE entry # NoList
    <3>1. list[entry] \in Seq(Sessions)
      BY <2>2 DEF TypeOK
    <3>2. 0 \in Nat
      OBVIOUS
    <3> QED
      BY <2>2, <3>1, <3>2, ListingsOccur, PlacesAreFinite
  <2> QED
    BY <2>1, <2>2
<1>2. ASSUME NEW n \in Sweepers PROVE Share(n, c) \in Nat
  <2>1. n \in Notifiers /\ held[n] \in Lists
    BY DEF Sweepers, OperandsAreThere
  <2>2. list[held[n]] \in Seq(Sessions) /\ From(n) \in Nat
    BY <2>1 DEF TypeOK, From
  <2>3. Ahead(list[held[n]], From(n), c) \in Nat
    BY <2>2, PlacesAreFinite
  <2>4. InHand(n, c) \in Nat
    BY DEF InHand
  <2> QED
    BY <2>3, <2>4 DEF Share
<1> QED
  BY <1>1, <1>2

\* While a handler works on the list, no notifier does.
LEMMA HandlerAlone ==
  ASSUME ~Racing, NEW c \in Sessions, pc[c] \in {"append", "unwind", "prune", "drop"}
  PROVE  Sweepers = {}
  BY DEF Racing, Sweeping

\* A notifier that holds a popped list is the only one, and no handler works on the
\* lists.
LEMMA SweeperAlone ==
  ASSUME ~Racing, NEW n \in Sweepers
  PROVE  /\ Sweepers = {n}
         /\ \A c \in Sessions : pc[c] \notin {"append", "unwind", "prune", "drop"}
PROOF
<1>1. \A m \in Sweepers : m = n
  BY DEF Racing
<1>2. Sweepers = {n}
  BY <1>1
<1> QED
  BY <1>2 DEF Racing, Sweeping

\* A step that leaves the lists and the loops alone, and connects only clients
\* whose handlers are inside of no loop.
LEMMA ListFrame ==
  ASSUME TypeOK, OperandsAreThere, Orderly, Counted,
         UNCHANGED <<entry, list, conns, depth, held, index, ws, target>>,
         Sweepers' = Sweepers, \A n \in Sweepers : npc'[n] = npc[n],
         \A c \in Sessions : pc'[c] \in {"append", "prune", "drop"} => pc'[c] = pc[c],
         \A c \in Sessions : open'[c] => open[c] \/ depth[c] = 0
  PROVE  Orderly' /\ Counted'
PROOF
<1>1. Orderly'
  BY DEF Orderly
<1>2. ASSUME NEW c \in Sessions
      PROVE  /\ ~Sweeping' => Tally(c, Listings(c))'
             /\ \A n \in Sweepers' : Tally(c, Listings(c) + Share(n, c))'
  <2>1. Listings(c) \in Nat /\ depth[c] \in Nat
    BY CountsAreNumbers DEF TypeOK
  <2>2. Listings(c)' = Listings(c)
    BY DEF Listings
  <2>3. ASSUME NEW t \in Nat, Tally(c, t) PROVE t <= depth'[c] /\ (open'[c] => t = depth'[c])
    BY <2>1, <2>3 DEF Tally
  <2>4. ~Sweeping' => Tally(c, Listings(c))'
    <3>1. Sweeping' = Sweeping
      BY DEF Sweeping
    <3> QED
      BY <2>1, <2>2, <2>3, <3>1 DEF Counted, Tally
  <2>5. ASSUME NEW n \in Sweepers PROVE Tally(c, Listings(c) + Share(n, c))'
    <3>1. Share(n, c)' = Share(n, c)
      BY DEF Share, From, InHand
    <3>2. Share(n, c) \in Nat
      BY CountsAreNumbers
    <3>3. Listings(c) + Share(n, c) \in Nat /\ Tally(c, Listings(c) + Share(n, c))
      BY <2>1, <3>2 DEF Counted
    <3> QED
      BY <2>2, <2>3, <3>1, <3>3 DEF Tally
  <2> QED
    BY <2>4, <2>5
<1> QED
  BY <1>1, <1>2 DEF Counted

\* What touches no list keeps the counts: a client that comes, goes or is served,
\* what happens to the team, and a restore that begins.
LEMMA UnlistedStep ==
  ASSUME SessionInv, Depths, Orderly, Counted,
         \/ TeamStep
         \/ \E n \in Notifiers : Restore(n)
         \/ \E c \in Sessions :
              \/ Connect(c) \/ Forbid(c) \/ HangUp(c) \/ Notice(c) \/ Accept(c)
              \/ Lookup(c) \/ Register(c) \/ ClearRestored(c) \/ StreamOver(c) \/ Poll(c)
  PROVE  Orderly' /\ Counted'
PROOF
<1> USE DEF teamVars, managerVars, sessionVars, notifierVars, historyVars, Goto
<1>1. TypeOK /\ OperandsAreThere
  BY DEF SessionInv
<1>2. UNCHANGED <<entry, list, conns, depth, held, index, ws, target>>
  BY DEF TeamStep, StopTeam, DeleteTeam, ReviveTeam, PopStream,
       CloseRemoved, Started, Restore,
     Connect, Forbid, HangUp, Notice, Accept, Lookup, Register, ClearRestored,
     StreamOver, Poll, Detach
<1>3. Sweepers' = Sweepers /\ \A n \in Sweepers : npc'[n] = npc[n]
  <2>1. CASE npc' = npc
    BY <2>1 DEF Sweepers
  <2>2. ASSUME NEW n \in Notifiers, Restore(n)
        PROVE  Sweepers' = Sweepers /\ \A m \in Sweepers : npc'[m] = npc[m]
    <3>1. npc[n] = "free" /\ npc' = [npc EXCEPT ![n] = "pop"]
      BY <2>2 DEF Restore
    <3> QED
      BY <1>1, <3>1 DEF Sweepers, TypeOK
  <2> QED
    BY <2>1, <2>2 DEF TeamStep, StopTeam, DeleteTeam, ReviveTeam, PopStream, CloseRemoved,
       Connect, Forbid, HangUp, Notice, Accept, Lookup, Register, ClearRestored,
       StreamOver, Poll
<1> DEFINE Kept == \A c \in Sessions :
                      /\ pc'[c] \in {"append", "prune", "drop"} => pc'[c] = pc[c]
                      /\ open'[c] => open[c] \/ depth[c] = 0
<1>4. Kept
  <2>1. CASE pc' = pc /\ open' = open
    BY <2>1
  <2>2. ASSUME NEW c \in Sessions, NEW step,
               step \notin {"append", "prune", "drop"},
               pc' = [pc EXCEPT ![c] = step],
               \A d \in Sessions : open'[d] => open[d] \/ depth[d] = 0
        PROVE  Kept
    BY <1>1, <2>2 DEF TypeOK
  <2>3. ASSUME NEW c \in Sessions, Connect(c) \/ Forbid(c) \/ HangUp(c) \/ Accept(c)
        PROVE  Kept
    <3>1. CASE Connect(c)
      BY <2>2, <3>1 DEF Connect
    <3>2. CASE Forbid(c)
      BY <2>2, <3>2 DEF Forbid
    <3>3. CASE HangUp(c)
      BY <3>3 DEF HangUp
    <3>4. CASE Accept(c)
      <4>1. depth[c] = 0 /\ open' = [open EXCEPT ![c] = TRUE]
        BY <3>4 DEF Accept, Depths
      <4>2. \A d \in Sessions : open'[d] => open[d] \/ depth[d] = 0
        BY <1>1, <4>1 DEF TypeOK
      <4>3. CASE seen[c] = "running"
        BY <2>2, <3>4, <4>2, <4>3 DEF Accept
      <4>4. CASE seen[c] # "running"
        BY <2>2, <3>4, <4>2, <4>4 DEF Accept
      <4> QED
        BY <4>3, <4>4
    <3> QED
      BY <2>3, <3>1, <3>2, <3>3, <3>4
  <2>4. ASSUME NEW c \in Sessions,
               Lookup(c) \/ Register(c) \/ ClearRestored(c) \/ Poll(c)
        PROVE  Kept
    <3>1. open' = open
      BY <2>4 DEF Lookup, Register, ClearRestored, Poll
    <3>2. \E step \in {"register", "clear", "streaming", "enlist", "lookup"} :
             pc' = [pc EXCEPT ![c] = step]
      BY <2>4 DEF Lookup, Register, ClearRestored, Poll
    <3> QED
      BY <2>2, <3>1, <3>2
  <2>5. ASSUME NEW c \in Sessions, Notice(c) \/ StreamOver(c) PROVE Kept
    <3>1. CASE Notice(c)
      <4>1. open' = [open EXCEPT ![c] = FALSE] /\ pc' = [pc EXCEPT ![c] = "unwind"]
        BY <3>1 DEF Notice
      <4>2. \A d \in Sessions : open'[d] => open[d]
        BY <1>1, <4>1 DEF TypeOK
      <4> QED
        BY <2>2, <4>1, <4>2
    <3>2. CASE StreamOver(c)
      <4>1. PICK b \in {TRUE, ~hungup[c]} : open' = [open EXCEPT ![c] = b]
        BY <3>2 DEF StreamOver
      <4>2. \A d \in Sessions : open'[d] => open[d] \/ depth[d] = 0
        <5>1. open[c]
          BY <3>2 DEF StreamOver, Depths
        <5> QED
          BY <1>1, <4>1, <5>1 DEF TypeOK
      <4> QED
        BY <2>2, <3>2, <4>2 DEF StreamOver
    <3> QED
      BY <2>5, <3>1, <3>2
  <2> QED
    BY <2>1, <2>3, <2>4, <2>5 DEF TeamStep, StopTeam, DeleteTeam, ReviveTeam,
       PopStream, CloseRemoved, Started, Restore
<1> QED
  BY <1>1, <1>2, <1>3, <1>4, ListFrame

\* A section that works on the list leaves no section at work but itself, and no
\* notifier comes in between.
LEMMA SectionOnly ==
  ASSUME SessionInv, NEW c \in Sessions, pc[c] \in SectionSteps,
         npc' = npc, Sweepers = {}, NEW step, pc' = [pc EXCEPT ![c] = step]
  PROVE  /\ Sweepers' = {} /\ ~Sweeping' /\ pc'[c] = step
         /\ \A d \in Sessions : d # c => pc[d] \notin SectionSteps /\ pc'[d] = pc[d]
PROOF
<1>1. Sweepers' = Sweepers
  BY DEF Sweepers
<1>2. ~Sweeping'
  BY <1>1 DEF Sweeping
<1>3. pc = [d \in Sessions |-> pc[d]]
  BY DEF SessionInv, TypeOK
<1>4. pc'[c] = step /\ \A d \in Sessions : d # c => pc'[d] = pc[d]
  BY <1>3
<1>5. \A d \in Sessions : d # c => pc[d] \notin SectionSteps
  BY DEF SessionInv, OneSection
<1> QED
  BY <1>1, <1>2, <1>4, <1>5

\* What is left to show of a section on the list: it goes on with the entry, which
\* is empty if it is to be deleted, and the counts are right.
LEMMA SectionCounts ==
  ASSUME SessionInv, NEW c \in Sessions, pc[c] \in SectionSteps,
         npc' = npc, Sweepers = {}, NEW step, pc' = [pc EXCEPT ![c] = step],
         step \in {"append", "prune", "drop"} => conns' = entry',
         step = "drop" => list'[entry'] = <<>>,
         \A d \in Sessions : Tally(d, Listings(d))'
  PROVE  Orderly' /\ Counted'
PROOF
<1>1. /\ Sweepers' = {} /\ ~Sweeping' /\ pc'[c] = step
      /\ \A d \in Sessions : d # c => pc[d] \notin SectionSteps /\ pc'[d] = pc[d]
  BY SectionOnly
<1>2. \A d \in Sessions : pc'[d] \in {"append", "prune", "drop"} => d = c
  BY <1>1 DEF SectionSteps
<1>3. Orderly'
  BY <1>1, <1>2 DEF Orderly
<1>4. Counted'
  BY <1>1 DEF Counted
<1> QED
  BY <1>3, <1>4

\* add_waiting finds the team's list, or puts an empty one there.
LEMMA EnlistCounts ==
  ASSUME SessionInv, Orderly, Counted, ~Racing', NEW c \in Sessions, Enlist(c)
  PROVE  Orderly' /\ Counted'
PROOF
<1> USE DEF teamVars, managerVars, sessionVars, notifierVars, historyVars
<1>1. TypeOK
  BY DEF SessionInv
<1>2. pc[c] \in SectionSteps /\ npc' = npc /\ pc' = [pc EXCEPT ![c] = "append"]
      /\ depth' = depth /\ open' = open
  BY DEF Enlist, Goto, SectionSteps
<1>3. Sweepers = {}
  <2>1. pc'[c] = "append"
    BY <1>1, <1>2 DEF TypeOK
  <2>2. Sweepers' = Sweepers
    BY <1>2 DEF Sweepers
  <2> QED
    BY <2>1, <2>2 DEF Racing, Sweeping
<1>4. PICK l \in Lists : SetDefault(l) /\ conns' = l
  BY DEF Enlist
<1>5. conns' = entry'
  BY <1>4 DEF SetDefault
<1>6. \A d : Listings(d)' = Listings(d)
  <2>1. CASE entry # NoList
    BY <1>4, <2>1 DEF SetDefault, Listings
  <2>2. CASE entry = NoList
    <3>1. entry' = l /\ list' = [list EXCEPT ![l] = <<>>]
      BY <1>4, <2>2 DEF SetDefault
    <3>2. list'[entry'] = <<>> /\ entry' # NoList
      BY <1>1, <3>1 DEF TypeOK, Lists, NoList
    <3>3. ASSUME NEW d PROVE Listings(d)' = 0
      <4>1. Listings(d)' = Cardinality({i \in DOMAIN <<>> : <<>>[i] = d})
        BY <3>2 DEF Listings
      <4> QED
        BY <4>1, OccursInNone DEF Occurs
    <3> QED
      BY <2>2, <3>3 DEF Listings
  <2> QED
    BY <2>1, <2>2
<1>7. \A d \in Sessions : Tally(d, Listings(d))'
  BY <1>2, <1>3, <1>6 DEF Counted, Sweeping, Tally
<1> QED
  BY <1>2, <1>3, <1>5, <1>7, SectionCounts

\* The session is listed once more, and inside of one loop more.
LEMMA AppendWaitingCounts ==
  ASSUME SessionInv, ~Racing, Orderly, Counted, NEW c \in Sessions, AppendWaiting(c)
  PROVE  Orderly' /\ Counted'
PROOF
<1> USE DEF teamVars, managerVars, sessionVars, notifierVars, historyVars
<1>1. TypeOK /\ OperandsAreThere
  BY DEF SessionInv
<1>2. pc[c] = "append" /\ npc' = npc /\ pc' = [pc EXCEPT ![c] = "idle"]
      /\ open' = open /\ entry' = entry
  BY DEF AppendWaiting, Goto
<1>3. Sweepers = {}
  BY <1>2, HandlerAlone
<1>4. entry \in Lists /\ list' = [list EXCEPT ![entry] = Append(@, c)]
  BY <1>1, <1>2 DEF AppendWaiting, Orderly, OperandsAreThere
<1>5. entry # NoList /\ list[entry] \in Seq(Sessions) /\ list'[entry] = Append(list[entry], c)
  BY <1>1, <1>4 DEF TypeOK, Lists, NoList
<1>6. ASSUME NEW d \in Sessions PROVE Tally(d, Listings(d))'
  <2>1. Listings(d) = Occurs(list[entry], d) /\ Listings(d)' = Occurs(list'[entry], d)
    BY <1>2, <1>5 DEF Listings, Occurs
  <2>2. Listings(d)' = Listings(d) + (IF c = d THEN 1 ELSE 0)
    BY <1>5, <2>1, OccursAppended
  <2>3. depth'[d] = depth[d] + (IF c = d THEN 1 ELSE 0) /\ depth[d] \in Nat
    <3>1. depth' = [depth EXCEPT ![c] = @ + 1] /\ depth \in [Sessions -> Nat]
      BY <1>1 DEF TypeOK, AppendWaiting
    <3> QED
      BY <3>1
  <2>4. Listings(d) \in Nat /\ Tally(d, Listings(d))
    BY <1>1, <1>3, CountsAreNumbers DEF Counted, Sweeping
  <2> QED
    BY <1>2, <2>2, <2>3, <2>4 DEF Tally
<1> QED
  BY <1>2, <1>3, <1>6, SectionCounts DEF SectionSteps

\* One loop is left, with at most one place given up.
LEMMA LeftDepth ==
  ASSUME SessionInv, NEW c \in Sessions, Left(c)
  PROVE  /\ \A d \in Sessions : d # c => depth'[d] = depth[d]
         /\ depth'[c] = depth[c] - 1
         /\ pc' = [pc EXCEPT ![c] = "unwind"]
PROOF
<1>1. depth' = [depth EXCEPT ![c] = @ - 1] /\ depth \in [Sessions -> Nat]
  BY DEF SessionInv, TypeOK, Left
<1> QED
  BY <1>1 DEF Left, Goto

\* A handler that returns through its loops has its client gone, so that its place
\* in the list may be missing, and is inside of a loop or has ended.
LEMMA UnwindCounts ==
  ASSUME SessionInv, Depths, ~Racing, Orderly, Counted, NEW c \in Sessions, Unwind(c)
  PROVE  Orderly' /\ Counted'
PROOF
<1> USE DEF teamVars, managerVars, sessionVars, notifierVars, historyVars
<1>1. TypeOK
  BY DEF SessionInv
<1>2. pc[c] = "unwind" /\ npc' = npc /\ open' = open /\ entry' = entry /\ list' = list
  BY DEF Unwind
<1>3. Sweepers = {}
  BY <1>2, HandlerAlone
<1>4. \A d : Listings(d)' = Listings(d)
  BY <1>2 DEF Listings
<1>5. \A d \in Sessions : Tally(d, Listings(d))
  BY <1>3 DEF Counted, Sweeping
<1>6. pc[c] \in SectionSteps /\ ~open[c] /\ depth[c] \in Nat
  BY <1>1, <1>2 DEF SectionSteps, Depths, TypeOK
<1>7. CASE depth[c] = 0
  <2>1. pc' = [pc EXCEPT ![c] = "ended"] /\ depth' = depth
    BY <1>7 DEF Unwind, Goto
  <2>2. \A d \in Sessions : Tally(d, Listings(d))'
    BY <1>2, <1>4, <1>5, <2>1 DEF Tally
  <2> QED
    BY <1>2, <1>3, <1>6, <2>1, <2>2, SectionCounts
<1>8. CASE depth[c] # 0 /\ entry = NoList
  <2>1. Left(c)
    BY <1>8 DEF Unwind
  <2>2. \A d \in Sessions : Listings(d) = 0
    BY <1>8 DEF Listings
  <2>3. ASSUME NEW d \in Sessions PROVE Tally(d, Listings(d))'
    <3>1. CASE d = c
      <4>1. Listings(c)' = 0 /\ ~open'[c] /\ depth'[c] >= 0
        BY <1>2, <1>4, <1>6, <1>8, <2>1, <2>2, LeftDepth
      <4> QED
        BY <3>1, <4>1 DEF Tally
    <3>2. CASE d # c
      <4>1. depth'[d] = depth[d]
        BY <2>1, <3>2, LeftDepth
      <4> QED
        BY <1>2, <1>4, <1>5, <4>1 DEF Tally
    <3> QED
      BY <3>1, <3>2
  <2> QED
    BY <1>2, <1>3, <1>6, <2>1, <2>3, LeftDepth, SectionCounts
<1>9. CASE depth[c] # 0 /\ entry # NoList
  <2>1. pc' = [pc EXCEPT ![c] = "prune"] /\ depth' = depth /\ conns' = entry'
    BY <1>2, <1>9 DEF Unwind, Goto
  <2>2. \A d \in Sessions : Tally(d, Listings(d))'
    BY <1>2, <1>4, <1>5, <2>1 DEF Tally
  <2> QED
    BY <1>2, <1>3, <1>6, <2>1, <2>2, SectionCounts
<1> QED
  BY <1>7, <1>8, <1>9

\* remove_waiting gives up one place, if there is one, for the loop that is left.
LEMMA PruneCounts ==
  ASSUME SessionInv, Depths, ~Racing, Orderly, Counted, NEW c \in Sessions, Prune(c)
  PROVE  Orderly' /\ Counted'
PROOF
<1> USE DEF teamVars, managerVars, sessionVars, notifierVars, historyVars
<1>1. TypeOK /\ OperandsAreThere
  BY DEF SessionInv
<1>2. pc[c] = "prune" /\ npc' = npc /\ open' = open /\ entry' = entry
  BY DEF Prune
<1>3. Sweepers = {} /\ pc[c] \in SectionSteps
  BY <1>2, HandlerAlone DEF SectionSteps
<1>4. conns = entry /\ entry \in Lists /\ depth[c] \in Nat \ {0} /\ ~open[c]
  BY <1>1, <1>2 DEF Orderly, OperandsAreThere, Depths, TypeOK
<1>5. /\ entry # NoList /\ list[entry] \in Seq(Sessions)
      /\ list'[entry] = RemoveFirst(list[entry], c)
  <2>1. list' = [list EXCEPT ![entry] = RemoveFirst(@, c)]
    BY <1>4 DEF Prune
  <2>2. list \in [Lists -> Seq(Sessions)] /\ entry # NoList
    BY <1>1, <1>4 DEF TypeOK, Lists, NoList
  <2> QED
    BY <1>4, <2>1, <2>2
<1>6. \A d \in Sessions : /\ Tally(d, Listings(d)) /\ Listings(d) \in Nat
                          /\ Listings(d) = Occurs(list[entry], d)
                          /\ Listings(d)' = Occurs(list'[entry], d)
  BY <1>1, <1>2, <1>3, <1>5, CountsAreNumbers DEF Counted, Sweeping, Listings, Occurs
<1>7. \A d \in Sessions : d # c => Listings(d)' = Listings(d)
  BY <1>5, <1>6, OccursRemoved
<1>8. Listings(c)' = IF Listings(c) > 0 THEN Listings(c) - 1 ELSE Listings(c)
  BY <1>5, <1>6, OccursRemoved
<1>9. CASE list'[conns] = <<>>
  <2>1. pc' = [pc EXCEPT ![c] = "drop"] /\ depth' = depth /\ conns' = conns
    BY <1>9 DEF Prune, Goto
  <2>2. \A d \in Sessions : Tally(d, Listings(d))'
    <3>1. Listings(c)' <= depth[c]
      BY <1>4, <1>6, <1>8 DEF Tally
    <3> QED
      BY <1>2, <1>4, <1>6, <1>7, <2>1, <3>1 DEF Tally
  <2> QED
    BY <1>2, <1>3, <1>4, <1>9, <2>1, <2>2, SectionCounts
<1>10. CASE list'[conns] # <<>>
  <2>1. Left(c)
    BY <1>10 DEF Prune
  <2>2. ASSUME NEW d \in Sessions PROVE Tally(d, Listings(d))'
    <3>1. CASE d = c
      <4>1. Listings(c)' <= depth'[c]
        <5>1. depth'[c] = depth[c] - 1
          BY <2>1, LeftDepth
        <5> QED
          BY <1>4, <1>6, <1>8, <5>1 DEF Tally
      <4> QED
        BY <1>2, <1>4, <3>1, <4>1 DEF Tally
    <3>2. CASE d # c
      <4>1. depth'[d] = depth[d]
        BY <2>1, <3>2, LeftDepth
      <4> QED
        BY <1>2, <1>6, <1>7, <3>2, <4>1 DEF Tally
    <3> QED
      BY <3>1, <3>2
  <2> QED
    BY <1>2, <1>3, <2>1, <2>2, LeftDepth, SectionCounts
<1> QED
  BY <1>9, <1>10

\* The entry that is deleted was empty.
LEMMA DropCounts ==
  ASSUME SessionInv, Depths, ~Racing, Orderly, Counted, NEW c \in Sessions, Drop(c)
  PROVE  Orderly' /\ Counted'
PROOF
<1> USE DEF teamVars, managerVars, sessionVars, notifierVars, historyVars
<1>1. TypeOK /\ OperandsAreThere
  BY DEF SessionInv
<1>2. pc[c] = "drop" /\ npc' = npc /\ open' = open /\ entry' = NoList /\ Left(c)
  BY DEF Drop
<1>3. Sweepers = {} /\ pc[c] \in SectionSteps
  BY <1>2, HandlerAlone DEF SectionSteps
<1>4. depth[c] \in Nat \ {0} /\ ~open[c]
  BY <1>1, <1>2 DEF OperandsAreThere, Depths, TypeOK
<1>5. ASSUME NEW d PROVE Listings(d) = 0
  <2>1. list[entry] = <<>>
    BY <1>2 DEF Orderly
  <2> QED
    BY <2>1, ListingsOccur, OccursInNone
<1>6. \A d : Listings(d)' = 0
  BY <1>2 DEF Listings
<1>7. ASSUME NEW d \in Sessions PROVE Tally(d, Listings(d))'
  <2>1. CASE d = c
    <3>1. depth'[c] >= 0
      BY <1>2, <1>4, LeftDepth
    <3> QED
      BY <1>2, <1>4, <1>6, <2>1, <3>1 DEF Tally
  <2>2. CASE d # c
    <3>1. depth'[d] = depth[d] /\ Tally(d, Listings(d))
      BY <1>2, <1>3, <2>2, LeftDepth DEF Counted, Sweeping
    <3> QED
      BY <1>2, <1>5, <1>6, <3>1 DEF Tally
  <2> QED
    BY <2>1, <2>2
<1> QED
  BY <1>2, <1>3, <1>7, LeftDepth, SectionCounts

\* What is left to show of a notifier's step: it is still the only one, its list is
\* apart from the entry, and with what it has still to re-add the counts are right.
LEMMA SweepCounts ==
  ASSUME SessionInv, ~Racing', NEW n \in Notifiers, n \in Sweepers',
         entry' # held'[n], npc'[n] \in {"check", "mark"} => entry' = NoList,
         npc'[n] = "reappend" => target'[n] = entry',
         \A d \in Sessions : Tally(d, Listings(d) + Share(n, d))'
  PROVE  Orderly' /\ Counted'
PROOF
<1>1. /\ \A m \in Sweepers' : m = n
      /\ \A c \in Sessions : pc'[c] \notin {"append", "unwind", "prune", "drop"}
  BY DEF Racing, Sweeping
<1>2. Orderly'
  BY <1>1 DEF Orderly
<1>3. Counted'
  BY <1>1 DEF Counted, Sweeping
<1> QED
  BY <1>2, <1>3

\* A notifier that lets its list go leaves no notifier at work, and the entry's
\* counts are right.
LEMMA SweepOver ==
  ASSUME SessionInv, ~Racing, NEW n \in Sweepers,
         npc' = [npc EXCEPT ![n] = "free"], UNCHANGED <<entry, pc, conns, open, depth>>,
         \A d \in Sessions : Tally(d, Listings(d)) /\ Listings(d)' = Listings(d)
  PROVE  Orderly' /\ Counted'
PROOF
<1>1. Sweepers = {n} /\ \A c \in Sessions : pc[c] \notin {"append", "unwind", "prune", "drop"}
  BY SweeperAlone
<1>2. Sweepers' = {}
  <2>1. npc = [m \in Notifiers |-> npc[m]] /\ n \in Notifiers
    BY DEF SessionInv, TypeOK, Sweepers
  <2>2. \A m \in Notifiers : m # n => npc'[m] = npc[m]
    BY <2>1
  <2>3. npc'[n] = "free"
    BY <2>1
  <2> QED
    BY <1>1, <2>2, <2>3 DEF Sweepers
<1>3. Orderly'
  BY <1>1, <1>2 DEF Orderly
<1>4. Counted'
  BY <1>2 DEF Counted, Tally
<1> QED
  BY <1>3, <1>4

\* The popped list has what the entry had, all of it ahead.
LEMMA PopWaitingCounts ==
  ASSUME SessionInv, ~Racing, Orderly, Counted, ~Racing', NEW n \in Notifiers, PopWaiting(n)
  PROVE  Orderly' /\ Counted'
PROOF
<1> USE DEF teamVars, managerVars, sessionVars, notifierVars, historyVars
<1>1. TypeOK /\ OperandsAreThere
  BY DEF SessionInv
<1>2. /\ npc[n] = "pop" /\ n \notin Sweepers
      /\ UNCHANGED <<list, conns, depth, index, ws, target, pc, open>>
  BY DEF PopWaiting, Sweepers
<1>3. CASE entry = NoList
  <2>1. npc' = [npc EXCEPT ![n] = "free"] /\ UNCHANGED <<held, entry>>
    BY <1>3 DEF PopWaiting
  <2>2. Sweepers' = Sweepers /\ \A m \in Sweepers : npc'[m] = npc[m]
    BY <1>1, <1>2, <2>1 DEF Sweepers, TypeOK
  <2> QED
    BY <1>1, <1>2, <2>1, <2>2, ListFrame
<1>4. CASE entry # NoList
  <2>1. /\ npc' = [npc EXCEPT ![n] = "check"] /\ entry' = NoList
        /\ held' = [held EXCEPT ![n] = entry]
    BY <1>4 DEF PopWaiting
  <2>2. npc'[n] = "check" /\ held'[n] = entry /\ entry \in Lists
    BY <1>1, <1>4, <2>1 DEF TypeOK
  <2>3. n \in Sweepers' /\ Sweepers \subseteq Sweepers'
    <3>1. \A m \in Notifiers : m # n => npc'[m] = npc[m]
      BY <1>1, <2>1 DEF TypeOK
    <3> QED
      BY <1>2, <2>2, <3>1 DEF Sweepers
  <2>4. Sweepers = {}
    BY <1>2, <2>3 DEF Racing
  <2>5. ASSUME NEW d \in Sessions PROVE Tally(d, Listings(d) + Share(n, d))'
    <3>1. Listings(d)' = 0 /\ Listings(d) = Occurs(list[entry], d)
      BY <1>4, <2>1 DEF Listings, Occurs
    <3>2. Share(n, d)' = Ahead(list[entry], 1, d) + 0
      BY <1>2, <2>2 DEF Share, From, InHand
    <3>3. list[entry] \in Seq(Sessions) /\ 1 \in Nat \ {0}
      BY <1>1, <2>2 DEF TypeOK
    <3>4. Ahead(list[entry], 1, d) = Occurs(list[entry], d)
      BY <3>3, AheadSteps
    <3>5. Listings(d) \in Nat /\ Tally(d, Listings(d))
      BY <1>1, <2>4, CountsAreNumbers DEF Counted, Sweeping
    <3>6. (Listings(d) + Share(n, d))' = Listings(d)
      BY <3>1, <3>2, <3>4, <3>5
    <3> QED
      BY <1>2, <3>5, <3>6 DEF Tally
  <2>6. entry' # held'[n]
    BY <1>4, <2>1, <2>2
  <2> QED
    BY <2>1, <2>2, <2>3, <2>5, <2>6, SweepCounts
<1> QED
  BY <1>3, <1>4

\* An empty list is let go: nobody was waiting.
LEMMA CheckWaitingCounts ==
  ASSUME SessionInv, ~Racing, Orderly, Counted, ~Racing', NEW n \in Notifiers, CheckWaiting(n)
  PROVE  Orderly' /\ Counted'
PROOF
<1> USE DEF teamVars, managerVars, sessionVars, notifierVars, historyVars
<1>1. TypeOK /\ OperandsAreThere
  BY DEF SessionInv
<1>2. /\ npc[n] = "check" /\ n \in Sweepers
      /\ UNCHANGED <<entry, list, conns, depth, index, ws, target, pc, open>>
  BY DEF CheckWaiting, Sweepers
<1>3. entry = NoList /\ entry # held[n]
  BY <1>2 DEF Orderly
<1>4. \A d : Listings(d) = 0 /\ Listings(d)' = 0
  BY <1>2, <1>3 DEF Listings
<1>5. \A d \in Sessions : Tally(d, Listings(d) + Share(n, d))
  BY <1>2 DEF Counted
<1>6. \A d : Share(n, d) = Ahead(list[held[n]], 1, d) + 0
  BY <1>2 DEF Share, From, InHand
<1>7. CASE list[held[n]] = <<>>
  <2>1. npc' = [npc EXCEPT ![n] = "free"]
    BY <1>7 DEF CheckWaiting
  <2>2. ASSUME NEW d \in Sessions PROVE Share(n, d) = 0
    <3>1. list[held[n]] \in Seq(Sessions) /\ 1 \in Nat \ {0} /\ 1 > Len(list[held[n]])
      BY <1>7
    <3>2. Ahead(list[held[n]], 1, d) = 0
      BY <3>1, AheadSteps
    <3> QED
      BY <1>6, <3>2
  <2>3. \A d \in Sessions : Tally(d, Listings(d))
    BY <1>4, <1>5, <2>2
  <2> QED
    BY <1>2, <1>4, <2>1, <2>3, SweepOver
<1>8. CASE list[held[n]] # <<>>
  <2>1. npc' = [npc EXCEPT ![n] = "mark"] /\ held' = held
    BY <1>8 DEF CheckWaiting
  <2>2. npc'[n] = "mark" /\ n \in Sweepers'
    BY <1>1, <2>1 DEF TypeOK, Sweepers
  <2>3. \A d \in Sessions : Tally(d, Listings(d) + Share(n, d))'
    <3>1. \A d : Share(n, d)' = Share(n, d)
      BY <1>2, <1>6, <2>1, <2>2 DEF Share, From, InHand
    <3> QED
      BY <1>2, <1>4, <1>5, <3>1 DEF Tally
  <2>4. n \in Notifiers /\ entry' # held'[n] /\ entry' = NoList
    BY <1>2, <1>3, <2>1
  <2> QED
    BY <2>2, <2>3, <2>4, SweepCounts
<1> QED
  BY <1>7, <1>8

\* The iteration begins at the first place.
LEMMA MarkRestoredCounts ==
  ASSUME SessionInv, ~Racing, Orderly, Counted, ~Racing', NEW n \in Notifiers, MarkRestored(n)
  PROVE  Orderly' /\ Counted'
PROOF
<1> USE DEF teamVars, managerVars, sessionVars, notifierVars, historyVars
<1>1. TypeOK
  BY DEF SessionInv
<1>2. /\ npc[n] = "mark" /\ n \in Sweepers
      /\ UNCHANGED <<entry, list, conns, depth, ws, target, pc, open, held>>
      /\ npc' = [npc EXCEPT ![n] = "visit"] /\ index' = [index EXCEPT ![n] = 1]
  BY DEF MarkRestored, Sweepers
<1>3. npc'[n] = "visit" /\ index'[n] = 1 /\ n \in Sweepers'
  BY <1>1, <1>2 DEF TypeOK, Sweepers
<1>4. \A d : Listings(d)' = Listings(d) /\ Share(n, d)' = Share(n, d)
  BY <1>2, <1>3 DEF Listings, Share, From, InHand
<1>5. \A d \in Sessions : Tally(d, Listings(d) + Share(n, d))'
  BY <1>2, <1>4 DEF Counted, Tally
<1>6. n \in Notifiers /\ entry' # held'[n]
  BY <1>2 DEF Orderly
<1> QED
  BY <1>3, <1>5, <1>6, SweepCounts

\* A place is passed: a connected session is taken in hand, one whose client has gone
\* is passed over, and past the end there is nothing left.
LEMMA VisitCounts ==
  ASSUME SessionInv, ~Racing, Orderly, Counted, ~Racing', NEW n \in Notifiers, Visit(n)
  PROVE  Orderly' /\ Counted'
PROOF
<1> USE DEF teamVars, managerVars, sessionVars, notifierVars, historyVars
<1>1. TypeOK /\ OperandsAreThere
  BY DEF SessionInv
<1>2. /\ npc[n] = "visit" /\ n \in Sweepers
      /\ UNCHANGED <<entry, conns, depth, target, pc, open>>
  BY DEF Visit, Sweepers
<1> DEFINE q == list[held[n]]
           k == index[n]
<1>3. q \in Seq(Sessions) /\ k \in Nat \ {0} /\ held[n] \in Lists
  BY <1>1, <1>2 DEF TypeOK, OperandsAreThere
<1>4. entry # held[n]
  BY <1>2 DEF Orderly
<1>5. \A d \in Sessions : Listings(d) \in Nat /\ Tally(d, Listings(d) + Share(n, d))
  BY <1>1, <1>2, CountsAreNumbers DEF Counted
<1>6. \A d : Share(n, d) = Ahead(q, k, d) + 0
  BY <1>2 DEF Share, From, InHand
<1>7. CASE k > Len(q)
  <2>1. /\ npc' = [npc EXCEPT ![n] = "free"]
        /\ list' = [list EXCEPT ![held[n]] = IF conns = held[n] THEN @ ELSE <<>>]
    BY <1>7 DEF Visit
  <2>2. \A d : Listings(d)' = Listings(d)
    <3>1. entry # NoList => list'[entry] = list[entry]
      BY <1>1, <1>4, <2>1 DEF TypeOK
    <3> QED
      BY <1>2, <3>1 DEF Listings
  <2>3. \A d : Share(n, d) = 0
    <3> HIDE DEF q, k
    <3>1. \A d : Ahead(q, k, d) = 0
      BY <1>3, <1>7, AheadSteps
    <3> QED
      BY <1>6, <3>1
  <2>4. \A d \in Sessions : Tally(d, Listings(d)) /\ Listings(d)' = Listings(d)
    BY <1>5, <2>2, <2>3
  <2> QED
    BY <1>2, <2>1, <2>4, SweepOver
<1>8. CASE k <= Len(q)
  <2> DEFINE e == q[k]
  <2>1. /\ index' = [index EXCEPT ![n] = k + 1] /\ UNCHANGED <<held, list>>
    BY <1>3, <1>8 DEF Visit
  <2>2. index'[n] = k + 1 /\ e \in Sessions /\ k + 1 \in Nat
    BY <1>1, <1>3, <1>8, <2>1 DEF TypeOK
  <2>3. \A d : Listings(d)' = Listings(d)
    BY <1>2, <2>1 DEF Listings
  <2>4. \A d : Ahead(q, k, d) = Ahead(q, k + 1, d) + (IF e = d THEN 1 ELSE 0)
    <3> HIDE DEF q, k
    <3> QED
      BY <1>3, <1>8, AheadSteps DEF e
  <2>5. \A d : Ahead(q, k + 1, d) \in Nat
    <3> DEFINE m == k + 1
    <3>1. m \in Nat
      BY <2>2
    <3> HIDE DEF q, m
    <3>2. \A d : Ahead(q, m, d) \in Nat
      BY <1>3, <3>1, PlacesAreFinite
    <3> QED
      BY <3>2 DEF m
  <2>6. n \in Notifiers /\ entry' # held'[n]
    BY <1>2, <1>4, <2>1
  <2>7. CASE open[e]
    <3>1. npc' = [npc EXCEPT ![n] = "readd"] /\ ws' = [ws EXCEPT ![n] = e]
      BY <1>3, <1>8, <2>7 DEF Visit
    <3>2. npc'[n] = "readd" /\ ws'[n] = e /\ n \in Sweepers'
      BY <1>1, <3>1 DEF TypeOK, Sweepers
    <3>3. \A d : Share(n, d)' = Ahead(q, k + 1, d) + (IF e = d THEN 1 ELSE 0)
      BY <2>1, <2>2, <3>2 DEF Share, From, InHand
    <3>4. \A d \in Sessions : Tally(d, Listings(d) + Share(n, d))'
      <4>1. ASSUME NEW d \in Sessions PROVE (Listings(d) + Share(n, d))' = Listings(d) + Share(n, d)
        <5>1. Share(n, d)' = Share(n, d)
          <6> HIDE DEF q, k, e
          <6> QED
            BY <1>6, <2>4, <2>5, <3>3
        <5> QED
          BY <2>3, <5>1
      <4> QED
        BY <1>2, <1>5, <4>1 DEF Tally
    <3> QED
      BY <2>6, <3>2, <3>4, SweepCounts
  <2>8. CASE ~ open[e]
    <3>1. npc' = npc /\ ws' = ws
      BY <1>3, <1>8, <2>8 DEF Visit
    <3>2. npc'[n] = "visit" /\ n \in Sweepers'
      BY <1>2, <3>1 DEF Sweepers
    <3>3. \A d : Share(n, d)' = Ahead(q, k + 1, d) + 0
      BY <2>1, <2>2, <3>2 DEF Share, From, InHand
    <3>4. ASSUME NEW d \in Sessions PROVE Tally(d, Listings(d) + Share(n, d))'
      <4>1. /\ Listings(d)' = Listings(d) /\ Listings(d) \in Nat
            /\ Tally(d, Listings(d) + Share(n, d))
            /\ depth'[d] = depth[d] /\ open'[d] = open[d] /\ depth[d] \in Nat
        BY <1>1, <1>2, <1>5, <2>3 DEF TypeOK
      <4>2. d = e => ~ open[d]
        BY <2>8
      <4>3. Share(n, d) = Share(n, d)' + (IF e = d THEN 1 ELSE 0) /\ Share(n, d)' \in Nat
        <5> HIDE DEF q, k, e
        <5> QED
          BY <1>6, <2>4, <2>5, <3>3
      <4> HIDE DEF q, k, e
      <4> DEFINE s == Share(n, d)
                 u == Share(n, d)'
      <4>5. s = u + (IF e = d THEN 1 ELSE 0) /\ u \in Nat
        BY <4>3
      <4>6. (Listings(d) + Share(n, d))' = Listings(d) + u
        BY <4>1
      <4> HIDE DEF u
      <4>7. Listings(d) + s <= depth[d] /\ (open[d] => Listings(d) + s = depth[d])
        BY <4>1 DEF Tally
      <4> HIDE DEF s
      <4>8. Listings(d) + u <= depth[d]
        BY <4>1, <4>5, <4>7
      <4>9. open[d] => Listings(d) + u = depth[d]
        BY <4>1, <4>2, <4>5, <4>7
      <4> QED
        BY <4>1, <4>6, <4>8, <4>9 DEF Tally
    <3> QED
      BY <2>6, <3>2, <3>4, SweepCounts
  <2> QED
    BY <2>7, <2>8
<1> QED
  <2>1. k \in Nat /\ Len(q) \in Nat
    BY <1>3
  <2> QED
    BY <1>7, <1>8, <2>1

\* The session in hand is about to go to the entry, or to a new list that becomes it.
LEMMA ReaddCounts ==
  ASSUME SessionInv, ~Racing, Orderly, Counted, ~Racing', NEW n \in Notifiers, Readd(n)
  PROVE  Orderly' /\ Counted'
PROOF
<1> USE DEF teamVars, managerVars, sessionVars, notifierVars, historyVars
<1>1. TypeOK /\ OperandsAreThere
  BY DEF SessionInv
<1>2. /\ npc[n] = "readd" /\ n \in Sweepers
      /\ UNCHANGED <<conns, depth, index, held, ws, pc, open>>
      /\ npc' = [npc EXCEPT ![n] = "reappend"]
  BY DEF Readd, Sweepers
<1>3. npc'[n] = "reappend" /\ n \in Sweepers'
  BY <1>1, <1>2 DEF TypeOK, Sweepers
<1>4. PICK l \in Lists : SetDefault(l) /\ target' = [target EXCEPT ![n] = l]
  BY DEF Readd
<1>5. target'[n] = entry'
  BY <1>1, <1>4 DEF TypeOK, SetDefault
<1>6. entry # held[n] /\ held[n] \in Lists
  BY <1>1, <1>2 DEF Orderly, OperandsAreThere
<1>7. entry' # held[n] /\ list'[held[n]] = list[held[n]] /\ \A d : Listings(d)' = Listings(d)
  <2>1. CASE entry # NoList
    BY <1>4, <1>6, <2>1 DEF SetDefault, Listings
  <2>2. CASE entry = NoList
    <3>1. entry' = l /\ list' = [list EXCEPT ![l] = <<>>] /\ l # held[n]
      BY <1>1, <1>4, <2>2, FreshIsFresh DEF SetDefault
    <3>2. list'[entry'] = <<>> /\ entry' # NoList /\ list'[held[n]] = list[held[n]]
      BY <1>1, <1>6, <3>1 DEF TypeOK, Lists, NoList
    <3>3. ASSUME NEW d PROVE Listings(d)' = Listings(d)
      <4>1. Listings(d)' = Cardinality({i \in DOMAIN <<>> : <<>>[i] = d})
        BY <3>2 DEF Listings
      <4> QED
        BY <2>2, <4>1, OccursInNone DEF Occurs, Listings
    <3> QED
      BY <3>1, <3>2, <3>3
  <2> QED
    BY <2>1, <2>2
<1>8. \A d : Share(n, d)' = Share(n, d)
  BY <1>2, <1>3, <1>7 DEF Share, From, InHand
<1>9. \A d \in Sessions : Tally(d, Listings(d) + Share(n, d))'
  BY <1>2, <1>7, <1>8 DEF Counted, Tally
<1>10. n \in Notifiers /\ entry' # held'[n]
  BY <1>2, <1>7
<1> QED
  BY <1>3, <1>5, <1>9, <1>10, SweepCounts

\* The session passes from the notifier's hand into the entry.
LEMMA ReappendCounts ==
  ASSUME SessionInv, ~Racing, Orderly, Counted, ~Racing', NEW n \in Notifiers, Reappend(n)
  PROVE  Orderly' /\ Counted'
PROOF
<1> USE DEF teamVars, managerVars, sessionVars, notifierVars, historyVars
<1>1. TypeOK /\ OperandsAreThere
  BY DEF SessionInv
<1>2. /\ npc[n] = "reappend" /\ n \in Sweepers
      /\ UNCHANGED <<entry, conns, depth, index, held, pc, open>>
      /\ npc' = [npc EXCEPT ![n] = "visit"]
  BY DEF Reappend, Sweepers
<1>3. npc'[n] = "visit" /\ n \in Sweepers'
  BY <1>1, <1>2 DEF TypeOK, Sweepers
<1>4. /\ target[n] = entry /\ entry # held[n] /\ entry \in Lists /\ ws[n] \in Sessions
      /\ held[n] \in Lists
  BY <1>1, <1>2 DEF Orderly, OperandsAreThere
<1>5. /\ list'[entry] = Append(list[entry], ws[n]) /\ list'[held[n]] = list[held[n]]
      /\ list[entry] \in Seq(Sessions) /\ entry # NoList
  <2>1. list' = [list EXCEPT ![entry] = Append(@, ws[n])] /\ list \in [Lists -> Seq(Sessions)]
    BY <1>1, <1>4 DEF Reappend, TypeOK
  <2> QED
    BY <1>4, <2>1 DEF Lists, NoList
<1>6. ASSUME NEW d \in Sessions PROVE Tally(d, Listings(d) + Share(n, d))'
  <2> DEFINE a == Ahead(list[held[n]], index[n], d)
             h == IF ws[n] = d THEN 1 ELSE 0
  <2>1. Listings(d) = Occurs(list[entry], d) /\ Listings(d)' = Occurs(list'[entry], d)
    BY <1>2, <1>5 DEF Listings, Occurs
  <2>2. Listings(d)' = Listings(d) + h
    BY <1>4, <1>5, <2>1, OccursAppended
  <2>3. Share(n, d) = a + h
    BY <1>2 DEF Share, From, InHand
  <2>4. Share(n, d)' = a + 0
    BY <1>2, <1>3, <1>5 DEF Share, From, InHand
  <2>5. Listings(d) \in Nat /\ Share(n, d) \in Nat /\ Tally(d, Listings(d) + Share(n, d))
    BY <1>1, <1>2, CountsAreNumbers DEF Counted
  <2>6. a \in Nat /\ h \in Nat
    <3>1. list[held[n]] \in Seq(Sessions) /\ index[n] \in Nat
      BY <1>1, <1>4 DEF TypeOK
    <3> QED
      BY <3>1, PlacesAreFinite
  <2> HIDE DEF a, h
  <2>7. (Listings(d) + Share(n, d))' = Listings(d) + Share(n, d)
    BY <2>2, <2>3, <2>4, <2>5, <2>6
  <2> QED
    BY <1>2, <2>5, <2>7 DEF Tally
<1>7. n \in Notifiers /\ entry' # held'[n]
  BY <1>2, <1>4
<1> QED
  BY <1>3, <1>6, <1>7, SweepCounts

-----------------------------------------------------------------------------
(* The waiting list, whoever acts *)

\* Nobody has connected, and no list has anybody.
LEMMA ListInit == Init => ListInv
PROOF
<1> SUFFICES ASSUME Init PROVE ListInv
  OBVIOUS
<1>1. Depths
  BY DEF Init, Depths
<1>2. Sweepers = {}
  BY DEF Init, Sweepers
<1>3. ~Racing
  BY <1>2 DEF Racing, Sweeping
<1>4. Orderly
  BY <1>2 DEF Init, Orderly
<1>5. Counted
  <2>1. \A c \in Sessions : Listings(c) = 0 /\ depth[c] = 0
    BY DEF Init, Listings
  <2> QED
    BY <1>2, <2>1 DEF Counted, Tally
<1> QED
  BY <1>1, <1>3, <1>4, <1>5 DEF ListInv

\* A step after which nobody has raced keeps the lists in order and the counts right.
LEMMA ListStep ==
  ASSUME SessionInv, Depths, ~Racing, Orderly, Counted, ~Racing', Step
  PROVE  Orderly' /\ Counted'
PROOF
<1>1. CASE TeamStep
  BY <1>1, UnlistedStep
<1>2. ASSUME NEW c \in Sessions,
             Connect(c) \/ Forbid(c) \/ HangUp(c) \/ Notice(c) \/ HandlerStep(c)
      PROVE  Orderly' /\ Counted'
  BY <1>2, UnlistedStep, EnlistCounts, AppendWaitingCounts, UnwindCounts, PruneCounts,
     DropCounts DEF HandlerStep
<1>3. ASSUME NEW n \in Notifiers, Restore(n) \/ NotifierStep(n)
      PROVE  Orderly' /\ Counted'
  BY <1>3, UnlistedStep, PopWaitingCounts, CheckWaitingCounts, MarkRestoredCounts,
     VisitCounts, ReaddCounts, ReappendCounts DEF NotifierStep
<1> QED
  BY <1>1, <1>2, <1>3 DEF Step

\* The invariant of the waiting list is inductive beside SessionInv.
LEMMA ListNext == SessionInv /\ ListInv /\ [Next]_vars => ListInv'
PROOF
<1> SUFFICES ASSUME SessionInv, ListInv, [Next]_vars PROVE ListInv'
  OBVIOUS
<1>1. CASE UNCHANGED vars
  <2> USE <1>1 DEF vars, teamVars, managerVars, sessionVars, notifierVars, historyVars
  <2>1. Depths' /\ raced' = raced
    BY DEF ListInv, Depths
  <2>2. Sweepers' = Sweepers
    BY DEF Sweepers
  <2>3. (Sweeping' <=> Sweeping) /\ (Racing' <=> Racing)
    BY <2>2 DEF Racing, Sweeping
  <2>4. Orderly <=> Orderly'
    BY <2>2 DEF Orderly
  <2>5. \A d : Listings(d)' = Listings(d) /\ \A n : Share(n, d)' = Share(n, d)
    BY DEF Listings, Share, From, InHand
  <2>6. Counted => Counted'
    BY <2>2, <2>3, <2>5 DEF Counted, Tally
  <2> QED
    BY <2>1, <2>3, <2>4, <2>6 DEF ListInv
<1>2. CASE Next
  <2>1. Step /\ raced' = (raced \/ Racing')
    BY <1>2 DEF Next, Tracked
  <2>2. Depths'
    BY <2>1, DepthsNext DEF ListInv
  <2>3. ASSUME ~raced' PROVE ~Racing' /\ Orderly' /\ Counted'
    <3>1. ~raced /\ ~Racing'
      BY <2>1, <2>3
    <3> QED
      BY <2>1, <3>1, ListStep DEF ListInv
  <2> QED
    BY <2>2, <2>3 DEF ListInv
<1> QED
  BY <1>1, <1>2

\* Any number of sessions, restore requests and stops: while no two threads have
\* worked on the lists at once, between their steps the list the next restore
\* pops has a connected session once for each idle loop it is inside of, and
\* nothing of one that ended (add_waiting, remove_waiting, notify_restore).
THEOREM SessionListMatchesLoops == Spec => []ListMatchesLoops
PROOF
<1>1. SessionInv /\ ListInv => ListMatchesLoops
  <2> SUFFICES ASSUME SessionInv, ListInv, ~raced, ~Sweeping, NEW c \in Sessions
               PROVE  /\ open[c] => Listings(c) = depth[c]
                      /\ pc[c] = "ended" => Listings(c) = 0
    BY DEF ListMatchesLoops
  <2>1. Tally(c, Listings(c)) /\ Listings(c) \in Nat
    BY CountsAreNumbers DEF ListInv, Counted, SessionInv
  <2>2. pc[c] = "ended" => depth[c] = 0
    BY DEF ListInv, Depths
  <2> QED
    BY <2>1, <2>2 DEF Tally
<1> QED
  BY <1>1, ListInit, ListNext, SessionInvariant, PTL DEF Spec

===============================================================================
