----------------------------- MODULE ClientProofs -----------------------------
(***************************************************************************)
(* Proofs about the command-line client, for any number of processes,      *)
(* teams, grants, connections and commands: the token cache stays usable   *)
(* (OidcCredentials), the events shown are those of the session's team and *)
(* no connection is left behind (CliSession), and the types of both parts. *)
(***************************************************************************)
EXTENDS MCClient, FiniteSetTheorems, FunctionTheorems, TLAPS

-----------------------------------------------------------------------------
(* OidcCredentials: the invariant *)

Steps == {"idle", "load", "read", "forget", "refresh", "purge", "authorize",
          "poll", "open", "write", "replace", "send", "done", "failed"}
Stages == {"preflight", "first", "replay"}
Saving == {"open", "write", "replace"}

\* Where a process is, and what it holds there.
ProcessTypes ==
    /\ step \in [Processes -> Steps]
    /\ stage \in [Processes -> Stages]
    /\ token \in [Processes -> Tokens \cup {NoToken}]
    /\ \A p \in Processes : step[p] \in Changing \cup {"send"} => token[p] # NoToken

FileTypes ==
    /\ content \in [Inodes -> Tokens \cup {NoToken}]
    /\ cache \in Inodes \cup {NoInode} /\ tmp \in Inodes \cup {NoInode}
    /\ fd \in [Processes -> Inodes \cup {NoInode}]
    /\ \A p \in Processes : (step[p] = "write") = (fd[p] # NoInode)

\* The issuer asks to poll slower once per poll at most.
ClockTypes ==
    /\ waited \in [Processes -> Nat] /\ interval \in [Processes -> 1 .. CodeLifetime + 1]
    /\ \A p \in Processes : interval[p] <= waited[p] + 1

IssuerTypes ==
    /\ issued \in Tokens /\ mishaps \in 0 .. MaxMishaps
    /\ live \subseteq Tokens /\ unexpired \subseteq Tokens /\ accepted \subseteq Tokens

\* Until two processes have met, one at most changes the cache.
OneChanges ==
    ~collided => \A p, q \in Processes : step[p] \in Changing /\ step[q] \in Changing => p = q

\* Until then, whoever writes has the temporary file to itself, saves a token that is
\* still good for a refresh, and puts a whole file in the cache's place.
Tidy ==
    ~collided =>
      /\ \A p \in Processes : /\ step[p] = "write" => fd[p] = tmp
                              /\ step[p] = "replace" => tmp # NoInode /\ content[tmp] = token[p]
                              /\ step[p] \in Saving => token[p] \in live
      /\ cache # NoInode => content[cache] # NoToken /\ tmp # cache

\* Until then, the refresh token in the cache is good, or is about to be replaced.
Fresh ==
    cache # NoInode /\ ~collided =>
      \/ content[cache] \in live \/ cut
      \/ \E p \in Processes : step[p] \in Saving \cup {"purge"}

CredInv == /\ ProcessTypes /\ FileTypes /\ ClockTypes /\ IssuerTypes
           /\ OneChanges /\ Tidy /\ Fresh

\* Numbers of tokens and inodes are not the numbers that stand for none.
LEMMA NoneIsNone == NoToken \notin Tokens /\ NoInode \notin Inodes /\ Inodes \subseteq Nat
  BY CredentialsAssumption, FS_CardinalityType DEF NoToken, Tokens, NoInode, Inodes

-----------------------------------------------------------------------------
(* Steps of a process that write no file *)

\* Entering a change of the cache while another is under way is remembered.
LEMMA ToKeepsOne ==
    ASSUME ProcessTypes, OneChanges, NEW p \in Processes, NEW s \in Steps, To(p, s)
    PROVE  /\ step' = [step EXCEPT ![p] = s] /\ step' \in [Processes -> Steps]
           /\ cut' = cut /\ (~collided' => ~collided)
           /\ ~collided' /\ s \in Changing => \A q \in Processes \ {p} : step[q] \notin Changing
           /\ OneChanges'
<1>1. /\ step' = [step EXCEPT ![p] = s] /\ step' \in [Processes -> Steps] /\ cut' = cut
  BY DEF To, ProcessTypes
<1>2. /\ ~collided' => ~collided
      /\ ~collided' /\ s \in Changing => \A q \in Processes \ {p} : step[q] \notin Changing
  BY DEF To
<1>3. OneChanges'
  BY <1>1, <1>2 DEF OneChanges, ProcessTypes
<1>4. QED
  BY <1>1, <1>2, <1>3

\* A step that leaves the files alone, or deletes the cache; when it costs the token its
\* process was to refresh, the cache is about to be purged.
LEMMA QuietKeeps ==
    ASSUME CredInv, NEW p \in Processes, NEW s \in Steps, To(p, s),
           s \notin Saving, step[p] \notin Saving,
           stage' \in [Processes -> Stages], token' \in [Processes -> Tokens \cup {NoToken}],
           \A q \in Processes \ {p} : token'[q] = token[q],
           s \in Changing \cup {"send"} => token'[p] # NoToken,
           UNCHANGED <<content, tmp, fd, issued, unexpired, accepted>>,
           cache' = cache \/ cache' = NoInode, step[p] = "purge" => cache' = NoInode,
           live' = live \/ (s = "purge" /\ live' \subseteq live),
           mishaps' \in 0 .. MaxMishaps, ClockTypes'
    PROVE  CredInv'
<1>1. /\ step' = [step EXCEPT ![p] = s] /\ step' \in [Processes -> Steps]
      /\ cut' = cut /\ (~collided' => ~collided)
      /\ ~collided' /\ s \in Changing => \A q \in Processes \ {p} : step[q] \notin Changing
      /\ OneChanges'
  BY ToKeepsOne DEF CredInv
<1>2. /\ step'[p] = s /\ \A q \in Processes \ {p} : step'[q] = step[q]
  BY <1>1 DEF CredInv, ProcessTypes
<1>3. ProcessTypes'
  BY <1>1, <1>2 DEF CredInv, ProcessTypes
<1>4. FileTypes'
  <2>1. s # "write" /\ step[p] # "write"
    BY DEF Saving
  <2>2. QED
    BY <1>2, <2>1 DEF CredInv, FileTypes
<1>5. IssuerTypes'
  BY DEF CredInv, IssuerTypes
<1>6. Tidy'
  <2> SUFFICES ASSUME ~collided' PROVE Tidy'
    BY DEF Tidy
  <2>1. ~collided /\ (s = "purge" => \A q \in Processes \ {p} : step[q] \notin Saving)
    BY <1>1 DEF Changing, Saving
  <2>2. ASSUME NEW q \in Processes, step'[q] \in Saving
        PROVE  q # p /\ step'[q] = step[q] /\ token'[q] = token[q] /\ live' = live
    BY <1>2, <2>1, <2>2
  <2>3. ASSUME NEW q \in Processes
        PROVE  /\ step'[q] = "write" => fd'[q] = tmp'
               /\ step'[q] = "replace" => tmp' # NoInode /\ content'[tmp'] = token'[q]
               /\ step'[q] \in Saving => token'[q] \in live'
    BY <2>1, <2>2 DEF CredInv, Tidy, Saving
  <2>4. QED
    BY <2>1, <2>3 DEF CredInv, Tidy
<1>7. Fresh'
  <2> SUFFICES ASSUME ~collided', cache' # NoInode PROVE Fresh'
    BY DEF Fresh
  <2>1. cache' = cache /\ step[p] # "purge" /\ ~collided /\ content' = content
    BY <1>1
  <2>2. CASE s = "purge"
    BY <1>2, <2>2 DEF Fresh
  <2>3. CASE s # "purge"
    <3>1. CASE content[cache] \in live \/ cut
      BY <1>1, <2>1, <2>3, <3>1 DEF Fresh
    <3>2. CASE \E q \in Processes : step[q] \in Saving \cup {"purge"}
      <4>1. PICK q \in Processes : step[q] \in Saving \cup {"purge"}
        BY <3>2
      <4>2. q # p
        BY <2>1, <4>1
      <4>3. QED
        BY <1>2, <4>1, <4>2 DEF Fresh
    <3>3. QED
      BY <2>1, <3>1, <3>2 DEF CredInv, Fresh
  <2>4. QED
    BY <2>2, <2>3
<1>8. QED
  BY <1>1, <1>3, <1>4, <1>5, <1>6, <1>7 DEF CredInv

\* A grant is new, and its process the only one to save one, until two meet.
LEMMA GrantKeeps ==
    ASSUME CredInv, NEW p \in Processes, NEW spent, NEW how, Grant(p, spent, how),
           step[p] \in {"refresh", "poll"}, UNCHANGED <<content, cache, tmp, fd, mishaps>>,
           ClockTypes'
    PROVE  CredInv'
<1> DEFINE t == issued + 1
<1>1. /\ issued < MaxGrants /\ issued' = t /\ live' = (live \ spent) \cup {t}
      /\ unexpired' = unexpired \cup {t} /\ accepted' = accepted \cup {t}
      /\ token' = [token EXCEPT ![p] = t] /\ UNCHANGED stage
      /\ To(p, "open")
  BY DEF Grant
<1>2. t \in Tokens /\ t # NoToken
  BY <1>1, CredentialsAssumption DEF CredInv, IssuerTypes, Tokens, NoToken
<1> HIDE DEF t
<1>3. /\ step' = [step EXCEPT ![p] = "open"] /\ step' \in [Processes -> Steps]
      /\ ~collided' => ~collided /\ \A q \in Processes \ {p} : step[q] \notin Changing
      /\ OneChanges'
  BY <1>1, ToKeepsOne DEF CredInv, Steps, Changing
<1>4. /\ step'[p] = "open" /\ \A q \in Processes \ {p} : step'[q] = step[q] /\ token'[q] = token[q]
      /\ token'[p] = t
  BY <1>1, <1>3 DEF CredInv, ProcessTypes
<1>5. ProcessTypes'
  BY <1>1, <1>2, <1>3, <1>4 DEF CredInv, ProcessTypes
<1>6. FileTypes'
  BY <1>4 DEF CredInv, FileTypes
<1>7. IssuerTypes'
  BY <1>1, <1>2 DEF CredInv, IssuerTypes
<1>8. Tidy'
  <2> SUFFICES ASSUME ~collided' PROVE Tidy'
    BY DEF Tidy
  <2>1. \A q \in Processes : step'[q] \in Saving => q = p
    BY <1>3, <1>4 DEF Saving, Changing
  <2>2. t \in live'
    BY <1>1
  <2>3. QED
    BY <1>3, <1>4, <2>1, <2>2 DEF CredInv, Tidy, Saving
<1>9. Fresh'
  BY <1>4 DEF Fresh, Saving
<1>10. QED
  BY <1>3, <1>5, <1>6, <1>7, <1>8, <1>9 DEF CredInv

-----------------------------------------------------------------------------
(* save_token_cache *)

\* There is always an inode that is neither the cache nor open in another process.
LEMMA FreeInode ==
    ASSUME CredInv, NEW p \in Processes, fd[p] = NoInode
    PROVE  \E j \in Inodes : j # cache /\ \A q \in Processes : fd[q] # j
<1> DEFINE S == Processes \ {p}
           T == {fd[q] : q \in S}
           f == [q \in S |-> fd[q]]
           n == Cardinality(Processes)
<1>1. /\ IsFiniteSet(S) /\ Cardinality(S) = n - 1 /\ n \in Nat
  BY CredentialsAssumption, FS_RemoveElement, FS_CardinalityType
<1>2. f \in Surjection(S, T)
  BY DEF Surjection
<1>3. IsFiniteSet(T) /\ Cardinality(T) <= n - 1 /\ Cardinality(T) \in Nat
  BY <1>1, <1>2, FS_Surjection, FS_CardinalityType
<1>4. IsFiniteSet(T \cup {cache}) /\ Cardinality(T \cup {cache}) <= n
      /\ Cardinality(T \cup {cache}) \in Nat
  <2> HIDE DEF T, S, f, n
  <2>1. /\ IsFiniteSet(T \cup {cache})
        /\ \/ Cardinality(T \cup {cache}) = Cardinality(T)
           \/ Cardinality(T \cup {cache}) = Cardinality(T) + 1
    BY <1>3, FS_AddElement
  <2>2. QED
    BY <1>1, <1>3, <2>1
<1>5. Cardinality(Inodes) = n + 1
  BY <1>1, FS_Interval DEF Inodes
<1>6. PICK j \in Inodes : j \notin T \cup {cache}
  <2>1. SUFFICES ASSUME Inodes \subseteq T \cup {cache} PROVE FALSE
    OBVIOUS
  <2>2. Cardinality(Inodes) <= Cardinality(T \cup {cache})
    BY <1>4, <2>1, FS_Subset
  <2>3. QED
    BY <1>1, <1>4, <1>5, <2>2
<1>7. \A q \in Processes : fd[q] # j
  BY <1>6, NoneIsNone
<1>8. QED
  BY <1>6, <1>7

\* The temporary file is truncated, never the cache.
LEMMA OpenKeeps ==
    ASSUME CredInv, NEW p \in Processes, Open(p)
    PROVE  CredInv'
<1>1. step[p] = "open" /\ fd[p] = NoInode
  BY DEF Open, CredInv, FileTypes
<1> DEFINE free == CHOOSE j \in Inodes : j # cache /\ \A q \in Processes : fd[q] # j
           i == IF tmp # NoInode THEN tmp ELSE free
<1>2. /\ fd' = [fd EXCEPT ![p] = i] /\ content' = [content EXCEPT ![i] = NoToken]
      /\ tmp' = i
  BY DEF Open
<1>3. /\ i \in Inodes /\ i # NoInode
      /\ ~collided => i # cache
  <2>1. CASE tmp # NoInode
    BY <2>1, NoneIsNone DEF CredInv, FileTypes, Tidy
  <2>2. CASE tmp = NoInode
    <3>1. free \in Inodes /\ free # cache
      BY <1>1, FreeInode
    <3>2. QED
      BY <2>2, <3>1, NoneIsNone
  <2>3. QED
    BY <2>1, <2>2
<1> HIDE DEF i, free
<1>4. /\ To(p, "write") /\ UNCHANGED <<cache, mishaps, token, stage>>
      /\ UNCHANGED <<issued, live, unexpired, accepted, waited, interval>>
  BY DEF Open, Stay, issuer
<1>5. /\ step' = [step EXCEPT ![p] = "write"] /\ step' \in [Processes -> Steps] /\ cut' = cut
      /\ ~collided' => ~collided /\ \A q \in Processes \ {p} : step[q] \notin Changing
      /\ OneChanges'
  BY <1>4, ToKeepsOne DEF CredInv, Steps, Changing
<1>6. step'[p] = "write" /\ \A q \in Processes \ {p} : step'[q] = step[q]
  BY <1>5 DEF CredInv, ProcessTypes
<1>7. fd'[p] = i /\ \A q \in Processes \ {p} : fd'[q] = fd[q]
  BY <1>2 DEF CredInv, FileTypes
<1>8. ProcessTypes'
  BY <1>1, <1>4, <1>5, <1>6 DEF CredInv, ProcessTypes, Changing
<1>9. FileTypes'
  <2>1. content' \in [Inodes -> Tokens \cup {NoToken}] /\ fd' \in [Processes -> Inodes \cup {NoInode}]
    BY <1>2, <1>3 DEF CredInv, FileTypes
  <2>2. \A q \in Processes : (step'[q] = "write") = (fd'[q] # NoInode)
    BY <1>3, <1>6, <1>7 DEF CredInv, FileTypes
  <2>3. QED
    BY <1>2, <1>3, <1>4, <2>1, <2>2 DEF CredInv, FileTypes
<1>10. ClockTypes' /\ IssuerTypes'
  BY <1>4 DEF CredInv, ClockTypes, IssuerTypes
<1>11. Tidy'
  <2> SUFFICES ASSUME ~collided' PROVE Tidy'
    BY DEF Tidy
  <2>1. \A q \in Processes : step'[q] \in Saving => q = p
    BY <1>5, <1>6 DEF Saving, Changing
  <2>2. token[p] \in live
    BY <1>1, <1>5 DEF CredInv, Tidy, Saving
  <2>3. ASSUME NEW q \in Processes
        PROVE  /\ step'[q] = "write" => fd'[q] = tmp'
               /\ step'[q] = "replace" => tmp' # NoInode /\ content'[tmp'] = token'[q]
               /\ step'[q] \in Saving => token'[q] \in live'
    BY <1>2, <1>4, <1>6, <1>7, <2>1, <2>2 DEF Saving
  <2>4. cache' # NoInode => content'[cache'] # NoToken /\ tmp' # cache'
    BY <1>2, <1>3, <1>4, <1>5 DEF CredInv, FileTypes, Tidy
  <2>5. QED
    BY <2>3, <2>4 DEF Tidy
<1>12. Fresh'
  BY <1>6 DEF Fresh, Saving
<1>13. QED
  BY <1>5, <1>8, <1>9, <1>10, <1>11, <1>12 DEF CredInv

\* The token is written to the file the process has open.
LEMMA WriteKeeps ==
    ASSUME CredInv, NEW p \in Processes, Write(p)
    PROVE  CredInv'
<1>1. /\ step[p] = "write" /\ fd[p] \in Inodes /\ token[p] \in Tokens
  BY DEF Write, CredInv, FileTypes, ProcessTypes, Changing
<1>2. /\ content' = [content EXCEPT ![fd[p]] = token[p]] /\ fd' = [fd EXCEPT ![p] = NoInode]
      /\ To(p, "replace") /\ UNCHANGED <<cache, tmp, mishaps, token, stage>>
      /\ UNCHANGED <<issued, live, unexpired, accepted, waited, interval>>
  BY DEF Write, Stay, issuer
<1>3. /\ step' = [step EXCEPT ![p] = "replace"] /\ step' \in [Processes -> Steps] /\ cut' = cut
      /\ ~collided' => ~collided /\ \A q \in Processes \ {p} : step[q] \notin Changing
      /\ OneChanges'
  BY <1>2, ToKeepsOne DEF CredInv, Steps, Changing
<1>4. step'[p] = "replace" /\ \A q \in Processes \ {p} : step'[q] = step[q]
  BY <1>3 DEF CredInv, ProcessTypes
<1>5. fd'[p] = NoInode /\ \A q \in Processes \ {p} : fd'[q] = fd[q]
  BY <1>2 DEF CredInv, FileTypes
<1>6. ProcessTypes'
  BY <1>1, <1>2, <1>3, <1>4, NoneIsNone DEF CredInv, ProcessTypes
<1>7. FileTypes'
  <2>1. content' \in [Inodes -> Tokens \cup {NoToken}] /\ fd' \in [Processes -> Inodes \cup {NoInode}]
    BY <1>1, <1>2 DEF CredInv, FileTypes
  <2>2. \A q \in Processes : (step'[q] = "write") = (fd'[q] # NoInode)
    BY <1>4, <1>5 DEF CredInv, FileTypes
  <2>3. QED
    BY <1>2, <2>1, <2>2 DEF CredInv, FileTypes
<1>8. ClockTypes' /\ IssuerTypes'
  BY <1>2 DEF CredInv, ClockTypes, IssuerTypes
<1>9. Tidy'
  <2> SUFFICES ASSUME ~collided' PROVE Tidy'
    BY DEF Tidy
  <2>1. \A q \in Processes : step'[q] \in Saving => q = p
    BY <1>3, <1>4 DEF Saving, Changing
  <2>2. token[p] \in live /\ fd[p] = tmp
    BY <1>1, <1>3 DEF CredInv, Tidy, Saving
  <2>3. content'[tmp] = token[p] /\ tmp \in Inodes
    BY <1>1, <1>2, <2>2 DEF CredInv, FileTypes
  <2>4. ASSUME NEW q \in Processes
        PROVE  /\ step'[q] = "write" => fd'[q] = tmp'
               /\ step'[q] = "replace" => tmp' # NoInode /\ content'[tmp'] = token'[q]
               /\ step'[q] \in Saving => token'[q] \in live'
    BY <1>2, <1>4, <2>1, <2>2, <2>3, NoneIsNone DEF Saving
  <2>5. cache' # NoInode => content'[cache'] # NoToken /\ tmp' # cache'
    BY <1>2, <1>3, <2>2 DEF CredInv, FileTypes, Tidy
  <2>6. QED
    BY <2>4, <2>5 DEF Tidy
<1>10. Fresh'
  BY <1>4 DEF Fresh, Saving
<1>11. QED
  BY <1>3, <1>6, <1>7, <1>8, <1>9, <1>10 DEF CredInv

\* The whole temporary file takes the place of the cache, or another writer has.
LEMMA ReplaceKeeps ==
    ASSUME CredInv, NEW p \in Processes, Replace(p)
    PROVE  CredInv'
<1>1. step[p] = "replace" /\ token[p] \in Tokens /\ token[p] # NoToken
  BY NoneIsNone DEF Replace, CredInv, ProcessTypes, Changing
<1>2. PICK s \in {"failed", "done", "load", "send"} :
         /\ To(p, s) /\ UNCHANGED <<content, fd, mishaps, issued, live, unexpired, accepted>>
         /\ stage' \in [Processes -> Stages]
         /\ token' = [token EXCEPT ![p] = token[p]] /\ UNCHANGED <<waited, interval>>
         /\ IF tmp = NoInode THEN UNCHANGED <<cache, tmp>> ELSE cache' = tmp /\ tmp' = NoInode
  <2>1. token \in [Processes -> Tokens \cup {NoToken}] /\ stage \in [Processes -> Stages]
    BY DEF CredInv, ProcessTypes
  <2>2. token = [token EXCEPT ![p] = token[p]]
    BY <2>1
  <2>3. UNCHANGED <<content, fd, mishaps, issued, live, unexpired, accepted>>
    BY DEF Replace, issuer
  <2>4. IF tmp = NoInode THEN UNCHANGED <<cache, tmp>> ELSE cache' = tmp /\ tmp' = NoInode
    BY DEF Replace
  <2>5. \E s \in {"failed", "done", "load", "send"} :
           To(p, s) /\ stage' \in [Processes -> Stages]
             /\ token' = [token EXCEPT ![p] = token[p]] /\ UNCHANGED <<waited, interval>>
    <3>1. CASE (To(p, "failed") \/ To(p, "done")) /\ Stay
      BY <2>1, <2>2, <3>1 DEF Stay
    <3>2. CASE HaveToken(p, token[p])
      BY <2>1, <3>2 DEF HaveToken, Stages
    <3>3. CASE /\ stage' = [stage EXCEPT ![p] = IF @ = "preflight" THEN "first" ELSE @]
               /\ To(p, "load") /\ UNCHANGED <<job, token, via, waited, interval>>
      BY <2>1, <2>2, <3>3 DEF Stages
    <3>4. QED
      BY <3>1, <3>2, <3>3 DEF Replace
  <2>6. QED
    BY <2>3, <2>4, <2>5
<1>3. token' = token
  BY <1>2 DEF CredInv, ProcessTypes
<1>4. /\ step' = [step EXCEPT ![p] = s] /\ step' \in [Processes -> Steps] /\ cut' = cut
      /\ (~collided' => ~collided) /\ OneChanges'
  BY <1>2, ToKeepsOne DEF CredInv, Steps
<1>5. step'[p] = s /\ \A q \in Processes \ {p} : step'[q] = step[q]
  BY <1>4 DEF CredInv, ProcessTypes
<1>6. ProcessTypes'
  BY <1>1, <1>2, <1>3, <1>4, <1>5 DEF CredInv, ProcessTypes, Changing
<1>7. FileTypes'
  BY <1>1, <1>2, <1>5 DEF CredInv, FileTypes
<1>8. ClockTypes' /\ IssuerTypes'
  BY <1>2 DEF CredInv, ClockTypes, IssuerTypes
<1>9. ASSUME ~collided'
      PROVE  /\ \A q \in Processes : step'[q] \notin Saving
             /\ cache' = tmp /\ cache' # NoInode /\ tmp' = NoInode
             /\ content'[cache'] = token[p] /\ token[p] \in live'
  <2>1. ~collided
    BY <1>4, <1>9
  <2>2. \A q \in Processes \ {p} : step[q] \notin Saving
    BY <1>1, <2>1 DEF CredInv, OneChanges, Changing, Saving
  <2>3. s \notin Saving
    BY DEF Saving
  <2>4. tmp # NoInode /\ content[tmp] = token[p] /\ token[p] \in live
    BY <1>1, <2>1 DEF CredInv, Tidy, Saving
  <2>5. QED
    BY <1>2, <1>5, <2>2, <2>3, <2>4
<1>10. Tidy'
  BY <1>1, <1>9 DEF Tidy, Saving
<1>11. Fresh'
  BY <1>9 DEF Fresh
<1>12. QED
  BY <1>4, <1>6, <1>7, <1>8, <1>10, <1>11 DEF CredInv

\* A killed process leaves its files, and an interrupted change is remembered.
LEMMA KillKeeps ==
    ASSUME CredInv, NEW p \in Processes, Kill(p)
    PROVE  CredInv'
<1>1. /\ step' = [step EXCEPT ![p] = "failed"] /\ fd' = [fd EXCEPT ![p] = NoInode]
      /\ cut' = (cut \/ step[p] \in Changing)
      /\ UNCHANGED <<content, cache, tmp, collided, stage, token, waited, interval>>
      /\ UNCHANGED <<issued, live, unexpired, accepted>> /\ mishaps' = mishaps + 1
      /\ mishaps < MaxMishaps
  BY DEF Kill, Stay, issuer, Mishap
<1>2. /\ step' \in [Processes -> Steps] /\ fd' \in [Processes -> Inodes \cup {NoInode}]
      /\ step'[p] = "failed" /\ \A q \in Processes \ {p} : step'[q] = step[q]
      /\ fd'[p] = NoInode /\ \A q \in Processes \ {p} : fd'[q] = fd[q]
  BY <1>1 DEF CredInv, ProcessTypes, FileTypes, Steps
<1>3. ProcessTypes'
  BY <1>1, <1>2 DEF CredInv, ProcessTypes, Changing
<1>4. FileTypes'
  BY <1>1, <1>2 DEF CredInv, FileTypes
<1>5. ClockTypes' /\ IssuerTypes'
  BY <1>1, CredentialsAssumption DEF CredInv, ClockTypes, IssuerTypes
<1>6. OneChanges'
  BY <1>1, <1>2 DEF CredInv, OneChanges, Changing
<1>7. Tidy'
  BY <1>1, <1>2 DEF CredInv, Tidy, Saving
<1>8. Fresh'
  <2>1. CASE step[p] \in Changing
    BY <1>1, <2>1 DEF Fresh
  <2>2. CASE step[p] \notin Changing
    <3>1. step[p] \notin Saving \cup {"purge"}
      BY <2>2 DEF Changing, Saving
    <3>2. QED
      BY <1>1, <1>2, <2>2, <3>1 DEF CredInv, Fresh
  <2>3. QED
    BY <2>1, <2>2
<1>9. QED
  BY <1>3, <1>4, <1>5, <1>6, <1>7, <1>8 DEF CredInv

-----------------------------------------------------------------------------
(* The other steps of a process, and the world *)

\* A command begins at the cache, at the device flow or at its deletion.
LEMMA StartKeeps ==
    ASSUME CredInv, NEW p \in Processes, Start(p)
    PROVE  CredInv'
<1>1. \E s \in {"load", "authorize"} : To(p, s)
  BY DEF Start
<1>3. PICK s \in {"load", "authorize"} : To(p, s)
  BY <1>1
<1>4. /\ step[p] = "idle" /\ UNCHANGED <<stage, token, waited, interval, content, cache, tmp, fd>>
      /\ UNCHANGED <<issued, live, unexpired, accepted, mishaps>>
  BY DEF Start, files, issuer
<1>5. QED
  BY <1>3, <1>4, QuietKeeps
     DEF CredInv, ProcessTypes, IssuerTypes, ClockTypes, Steps, Saving, Changing

\* Nothing but p's own step and stage changes.
LEMMA StayKeeps ==
    ASSUME CredInv, NEW p \in Processes, NEW s \in {"failed", "done", "authorize", "load", "read", "forget",
                                              "send"},
           To(p, s), step[p] \notin Saving, s = "send" => token[p] # NoToken,
           stage' \in [Processes -> Stages], UNCHANGED <<token, waited, interval>>,
           UNCHANGED <<content, tmp, fd, issued, unexpired, accepted>>,
           cache' = cache \/ cache' = NoInode, step[p] = "purge" => cache' = NoInode,
           UNCHANGED live, mishaps' \in 0 .. MaxMishaps
    PROVE  CredInv'
<1>1. ClockTypes'
  BY DEF CredInv, ClockTypes
<1>2. /\ s \in Steps /\ s \notin Saving
      /\ s \in Changing \cup {"send"} => s = "send"
  BY DEF Steps, Saving, Changing
<1>3. token' \in [Processes -> Tokens \cup {NoToken}]
  BY DEF CredInv, ProcessTypes
<1>4. QED
  BY <1>1, <1>2, <1>3, QuietKeeps

\* Logging out deletes the cache.
LEMMA ForgetKeeps ==
    ASSUME CredInv, NEW p \in Processes, Forget(p)
    PROVE  CredInv'
<1>1. /\ step[p] = "forget" /\ To(p, "done") /\ cache' = NoInode
      /\ UNCHANGED <<stage, token, waited, interval>>
      /\ UNCHANGED <<content, tmp, fd, issued, live, unexpired, accepted, mishaps>>
  BY DEF Forget, Stay, issuer
<1>2. /\ stage \in [Processes -> Stages] /\ mishaps' \in 0 .. MaxMishaps
      /\ step[p] \notin Saving /\ step[p] # "purge"
  BY <1>1 DEF CredInv, ProcessTypes, IssuerTypes, Saving
<1>3. QED
  BY <1>1, <1>2, StayKeeps

\* Having no usable token leads to the device flow or ends the command.
LEMMA ReAuthKeeps ==
    ASSUME CredInv, NEW p \in Processes, ReAuth(p), step[p] \notin Saving,
           UNCHANGED <<content, tmp, fd, issued, live, unexpired, accepted, mishaps>>,
           cache' = cache \/ cache' = NoInode, step[p] = "purge" => cache' = NoInode
    PROVE  CredInv'
<1>1. /\ stage' \in [Processes -> Stages] /\ UNCHANGED <<token, waited, interval>>
      /\ mishaps' \in 0 .. MaxMishaps
  BY DEF ReAuth, Stay, CredInv, ProcessTypes, IssuerTypes
<1>2. CASE To(p, "authorize")
  BY <1>1, <1>2, StayKeeps
<1>3. CASE To(p, "failed")
  BY <1>1, <1>3, StayKeeps
<1>4. QED
  BY <1>2, <1>3 DEF ReAuth

\* A cache that is there is read; one that is not is a reason to authenticate.
LEMMA LoadKeeps ==
    ASSUME CredInv, NEW p \in Processes, Load(p)
    PROVE  CredInv'
<1>1. /\ step[p] = "load" /\ step[p] \notin Saving /\ step[p] # "purge"
      /\ UNCHANGED <<content, cache, tmp, fd, issued, live, unexpired, accepted, mishaps>>
      /\ mishaps' \in 0 .. MaxMishaps
  BY DEF Load, files, issuer, Saving, CredInv, IssuerTypes
<1>2. CASE ReAuth(p)
  BY <1>1, <1>2, ReAuthKeeps
<1>3. CASE Stay /\ (To(p, "read") \/ To(p, "forget"))
  <2>1. stage' \in [Processes -> Stages] /\ UNCHANGED <<token, waited, interval>>
    BY <1>3 DEF Stay, CredInv, ProcessTypes
  <2>2. QED
    BY <1>1, <1>3, <2>1, StayKeeps
<1>4. QED
  BY <1>2, <1>3 DEF Load

\* What is read is used while it has not expired, and refreshed otherwise.
LEMMA ReadKeeps ==
    ASSUME CredInv, NEW p \in Processes, Read(p)
    PROVE  CredInv'
<1>1. /\ step[p] = "read" /\ step[p] \notin Saving /\ step[p] # "purge"
      /\ UNCHANGED <<content, cache, tmp, fd, issued, live, unexpired, accepted, mishaps>>
      /\ mishaps' \in 0 .. MaxMishaps
  BY DEF Read, files, issuer, Saving, CredInv, IssuerTypes
<1>2. stage \in [Processes -> Stages] /\ token \in [Processes -> Tokens \cup {NoToken}]
  BY DEF CredInv, ProcessTypes
<1> DEFINE t == IF cache = NoInode THEN NoToken ELSE content[cache]
<1>4. CASE Stay /\ (To(p, "failed") \/ To(p, "forget"))
  BY <1>1, <1>2, <1>4, StayKeeps DEF Stay
<1>5. t \in Tokens \cup {NoToken}
  BY DEF CredInv, FileTypes
<1> HIDE DEF t
<1>6. CASE HaveToken(p, t) /\ t \in Tokens
  <2>1. /\ token' = [token EXCEPT ![p] = t] /\ token' \in [Processes -> Tokens \cup {NoToken}]
        /\ stage' \in [Processes -> Stages] /\ UNCHANGED <<waited, interval>>
        /\ token'[p] # NoToken /\ \A q \in Processes \ {p} : token'[q] = token[q]
    BY <1>2, <1>6, NoneIsNone DEF HaveToken, Stages
  <2>2. ClockTypes'
    BY <2>1 DEF CredInv, ClockTypes
  <2>3. To(p, "load") \/ To(p, "send")
    BY <1>6 DEF HaveToken
  <2>4. /\ "load" \in Steps \ Saving /\ "send" \in Steps \ Saving
    BY DEF Steps, Saving
  <2>5. QED
    BY <1>1, <2>1, <2>2, <2>3, <2>4, QuietKeeps
<1>7. CASE /\ token' = [token EXCEPT ![p] = t] /\ t \in Tokens /\ To(p, "refresh")
           /\ UNCHANGED <<job, stage, via, waited, interval>>
  <2>1. /\ token' \in [Processes -> Tokens \cup {NoToken}] /\ stage' \in [Processes -> Stages]
        /\ token'[p] # NoToken /\ \A q \in Processes \ {p} : token'[q] = token[q]
    BY <1>2, <1>7, NoneIsNone
  <2>2. ClockTypes'
    BY <1>7 DEF CredInv, ClockTypes
  <2>3. "refresh" \in Steps \ Saving
    BY DEF Steps, Saving
  <2>4. QED
    BY <1>1, <1>7, <2>1, <2>2, <2>3, QuietKeeps
<1>8. QED
  BY <1>4, <1>5, <1>6, <1>7 DEF Read, t

\* A refresh brings a new token, or leads to the purge, or never begins.
LEMMA RefreshKeeps ==
    ASSUME CredInv, NEW p \in Processes, Refresh(p)
    PROVE  CredInv'
<1>1. /\ step[p] = "refresh" /\ step[p] \notin Saving /\ UNCHANGED <<content, cache, tmp, fd>>
      /\ token[p] # NoToken
  BY DEF Refresh, files, Saving, CredInv, ProcessTypes, Changing
<1>2. stage \in [Processes -> Stages] /\ token \in [Processes -> Tokens \cup {NoToken}]
  BY DEF CredInv, ProcessTypes
<1>3. CASE Grant(p, {token[p]}, "refresh") /\ NoMishap /\ UNCHANGED <<waited, interval>>
  <2>1. ClockTypes' /\ UNCHANGED mishaps
    BY <1>3 DEF CredInv, ClockTypes, NoMishap
  <2>2. QED
    BY <1>1, <1>3, <2>1, GrantKeeps
<1>4. ASSUME Stay, NoMishap \/ Mishap
      PROVE  /\ ClockTypes' /\ mishaps' \in 0 .. MaxMishaps
             /\ stage' \in [Processes -> Stages] /\ UNCHANGED <<token, waited, interval>>
  <2>1. UNCHANGED <<stage, token, waited, interval>>
    BY <1>4 DEF Stay
  <2>2. mishaps' \in 0 .. MaxMishaps
    BY <1>4, CredentialsAssumption DEF NoMishap, Mishap, CredInv, IssuerTypes
  <2>3. QED
    BY <1>2, <2>1, <2>2 DEF CredInv, ClockTypes
<1>5. CASE To(p, "purge") /\ Stay /\ (NoMishap \/ Mishap)
           /\ (live' = live \/ live' = live \ {token[p]}) /\ UNCHANGED <<issued, unexpired, accepted>>
  <2>1. "purge" \in Steps \ Saving
    BY DEF Steps, Saving
  <2>2. QED
    BY <1>1, <1>2, <1>4, <1>5, <2>1, QuietKeeps
<1>6. CASE To(p, "failed") /\ Stay /\ Mishap /\ UNCHANGED issuer
  <2>1. UNCHANGED <<issued, live, unexpired, accepted>>
    BY <1>6 DEF issuer
  <2>2. QED
    BY <1>1, <1>4, <1>6, <2>1, StayKeeps
<1>7. CASE /\ To(p, "purge") /\ Mishap /\ live' = live \ {token[p]}
           /\ UNCHANGED <<issued, unexpired, accepted, stage, token, waited, interval>>
  <2>1. "purge" \in Steps \ Saving
    BY DEF Steps, Saving
  <2>2. mishaps' \in 0 .. MaxMishaps /\ ClockTypes'
    BY <1>7, CredentialsAssumption DEF Mishap, CredInv, IssuerTypes, ClockTypes
  <2>3. QED
    BY <1>1, <1>2, <1>7, <2>1, <2>2, QuietKeeps
<1>8. QED
  BY <1>3, <1>5, <1>6, <1>7 DEF Refresh, issuer

\* The cache is deleted, whatever it is by now.
LEMMA PurgeKeeps ==
    ASSUME CredInv, NEW p \in Processes, Purge(p)
    PROVE  CredInv'
<1>1. /\ cache' = NoInode /\ step[p] \notin Saving
      /\ UNCHANGED <<content, tmp, fd, issued, live, unexpired, accepted, mishaps>>
  BY DEF Purge, issuer, Saving
<1>2. CASE ReAuth(p)
  BY <1>1, <1>2, ReAuthKeeps
<1>3. CASE To(p, "failed") /\ Stay
  <2>1. /\ stage' \in [Processes -> Stages] /\ UNCHANGED <<token, waited, interval>>
        /\ mishaps' \in 0 .. MaxMishaps
    BY <1>1, <1>3 DEF Stay, CredInv, ProcessTypes, IssuerTypes
  <2>2. QED
    BY <1>1, <1>3, <2>1, StayKeeps
<1>4. QED
  BY <1>2, <1>3 DEF Purge

\* The clock of the device code starts.
LEMMA AuthorizeKeeps ==
    ASSUME CredInv, NEW p \in Processes, Authorize(p)
    PROVE  CredInv'
<1>1. /\ step[p] = "authorize" /\ step[p] \notin Saving
      /\ UNCHANGED <<content, cache, tmp, fd, issued, live, unexpired, accepted>>
  BY DEF Authorize, files, issuer, Saving
<1>2. stage \in [Processes -> Stages] /\ token \in [Processes -> Tokens \cup {NoToken}]
  BY DEF CredInv, ProcessTypes
<1>3. CASE /\ waited' = [waited EXCEPT ![p] = 0] /\ interval' = [interval EXCEPT ![p] = 1]
           /\ To(p, "poll") /\ NoMishap /\ UNCHANGED <<job, stage, token, via>>
  <2>1. ClockTypes'
    BY <1>3, CredentialsAssumption DEF CredInv, ClockTypes
  <2>2. "poll" \in Steps \ Saving /\ "poll" \notin Changing \cup {"send"}
    BY DEF Steps, Saving, Changing
  <2>3. mishaps' \in 0 .. MaxMishaps
    BY <1>3 DEF NoMishap, CredInv, IssuerTypes
  <2>4. QED
    BY <1>1, <1>2, <1>3, <2>1, <2>2, <2>3, QuietKeeps
<1>4. CASE To(p, "failed") /\ Mishap /\ Stay
  <2>1. mishaps' \in 0 .. MaxMishaps
    BY <1>4, CredentialsAssumption DEF Mishap, CredInv, IssuerTypes
  <2>2. QED
    BY <1>1, <1>2, <1>4, <2>1, StayKeeps DEF Stay
<1>5. QED
  BY <1>3, <1>4 DEF Authorize

\* A poll is answered pending, with a grant, or not at all; the interval grows by one
\* at most, and only while the code is good.
LEMMA PollKeeps ==
    ASSUME CredInv, NEW p \in Processes, Poll(p)
    PROVE  CredInv'
<1>1. step[p] = "poll" /\ step[p] \notin Saving /\ UNCHANGED <<content, tmp, fd>>
  BY DEF Poll, Saving
<1>2. stage \in [Processes -> Stages] /\ token \in [Processes -> Tokens \cup {NoToken}]
  BY DEF CredInv, ProcessTypes
<1>3. CASE waited[p] >= CodeLifetime
  <2>1. To(p, "failed") /\ Stay /\ NoMishap
        /\ UNCHANGED <<cache, issued, live, unexpired, accepted>>
    BY <1>3 DEF Poll, issuer
  <2>2. mishaps' \in 0 .. MaxMishaps
    BY <2>1 DEF NoMishap, CredInv, IssuerTypes
  <2>3. QED
    BY <1>1, <1>2, <2>1, <2>2, StayKeeps DEF Stay
<1>4. CASE ~(waited[p] >= CodeLifetime)
  <2>1. waited' = [waited EXCEPT ![p] = @ + interval[p]]
    BY <1>4 DEF Poll
  <2>2. /\ waited[p] \in Nat /\ interval[p] \in Nat /\ interval[p] >= 1
        /\ interval[p] <= waited[p] + 1 /\ interval[p] <= CodeLifetime
    BY <1>4, CredentialsAssumption DEF CredInv, ClockTypes
  <2>3. ASSUME interval' = interval \/ interval' = [interval EXCEPT ![p] = @ + 1]
        PROVE  ClockTypes'
    <3>1. waited' \in [Processes -> Nat]
      BY <2>1, <2>2 DEF CredInv, ClockTypes
    <3>2. interval[p] + 1 \in 1 .. CodeLifetime + 1
      BY <2>2, CredentialsAssumption
    <3>3. interval' \in [Processes -> 1 .. CodeLifetime + 1]
      BY <2>3, <3>2 DEF CredInv, ClockTypes
    <3>4. \A q \in Processes : interval'[q] <= waited'[q] + 1
      <4>1. \A q \in Processes \ {p} : interval'[q] = interval[q] /\ waited'[q] = waited[q]
        BY <2>1, <2>3 DEF CredInv, ClockTypes
      <4>2. waited'[p] = waited[p] + interval[p] /\ interval'[p] \in {interval[p], interval[p] + 1}
        BY <2>1, <2>3 DEF CredInv, ClockTypes
      <4>3. interval'[p] <= waited'[p] + 1
        BY <2>2, <4>2
      <4>4. QED
        BY <4>1, <4>3 DEF CredInv, ClockTypes
    <3>5. QED
      BY <3>1, <3>3, <3>4 DEF ClockTypes
  <2>4. CASE /\ To(p, "poll") /\ interval' \in {interval, [interval EXCEPT ![p] = @ + 1]}
             /\ NoMishap /\ UNCHANGED <<job, stage, token, via, cache, issuer>>
    <3>1. "poll" \in Steps \ Saving /\ "poll" \notin Changing \cup {"send"}
      BY DEF Steps, Saving, Changing
    <3>2. mishaps' \in 0 .. MaxMishaps /\ UNCHANGED <<issued, live, unexpired, accepted>>
      BY <2>4 DEF NoMishap, CredInv, IssuerTypes, issuer
    <3>3. QED
      BY <1>1, <1>2, <2>3, <2>4, <3>1, <3>2, QuietKeeps
  <2>5. CASE Grant(p, {}, "device") /\ NoMishap /\ UNCHANGED <<interval, cache>>
    BY <1>1, <2>3, <2>5, GrantKeeps DEF NoMishap
  <2>6. CASE /\ To(p, "failed") /\ Mishap /\ cache' \in {cache, NoInode}
             /\ UNCHANGED <<job, stage, token, via, interval, issuer>>
    <3>1. "failed" \in Steps \ Saving /\ "failed" \notin Changing \cup {"send"}
      BY DEF Steps, Saving, Changing
    <3>2. mishaps' \in 0 .. MaxMishaps /\ UNCHANGED <<issued, live, unexpired, accepted>>
      BY <2>6, CredentialsAssumption DEF Mishap, CredInv, IssuerTypes, issuer
    <3>3. QED
      BY <1>1, <1>2, <2>3, <2>6, <3>1, <3>2, QuietKeeps
  <2>7. QED
    BY <1>4, <2>4, <2>5, <2>6 DEF Poll
<1>5. QED
  BY <1>3, <1>4

\* A request is answered, or is to be replayed with a new token.
LEMMA SendKeeps ==
    ASSUME CredInv, NEW p \in Processes, Send(p)
    PROVE  CredInv'
<1>1. /\ step[p] = "send" /\ step[p] \notin Saving /\ step[p] # "purge"
      /\ UNCHANGED <<content, cache, tmp, fd, issued, live, unexpired, accepted, mishaps>>
  BY DEF Send, files, issuer, Saving
<1>2. stage \in [Processes -> Stages] /\ mishaps' \in 0 .. MaxMishaps
  BY <1>1 DEF CredInv, ProcessTypes, IssuerTypes
<1>3. CASE (To(p, "done") \/ To(p, "failed")) /\ Stay
  <2>1. UNCHANGED <<stage, token, waited, interval>>
    BY <1>3 DEF Stay
  <2>2. QED
    BY <1>1, <1>2, <1>3, <2>1, StayKeeps
<1>4. CASE /\ stage' = [stage EXCEPT ![p] = "replay"] /\ To(p, "authorize")
           /\ UNCHANGED <<job, token, via, waited, interval>>
  <2>1. stage' \in [Processes -> Stages]
    BY <1>2, <1>4 DEF Stages
  <2>2. QED
    BY <1>1, <1>2, <1>4, <2>1, StayKeeps
<1>5. QED
  BY <1>3, <1>4 DEF Send

\* A token expires or is no longer accepted; its refresh token is not concerned.
LEMMA AgeKeeps ==
    ASSUME CredInv, NEW t \in Tokens, Age(t)
    PROVE  CredInv'
<1>1. /\ UNCHANGED <<step, stage, token, waited, interval, content, cache, tmp, fd>>
      /\ UNCHANGED <<issued, live, collided, cut>> /\ Mishap
      /\ unexpired' \subseteq unexpired /\ accepted' \subseteq accepted
  BY DEF Age, processVars, files
<1>2. IssuerTypes'
  BY <1>1, CredentialsAssumption DEF Mishap, CredInv, IssuerTypes
<1>3. ProcessTypes' /\ FileTypes' /\ ClockTypes'
  BY <1>1 DEF CredInv, ProcessTypes, FileTypes, ClockTypes
<1>4. OneChanges' /\ Tidy' /\ Fresh'
  BY <1>1 DEF CredInv, OneChanges, Tidy, Fresh
<1>5. QED
  BY <1>2, <1>3, <1>4 DEF CredInv

-----------------------------------------------------------------------------
\* The cache is missing or whole at first, and its refresh token good.
LEMMA InitCred == CredentialsInit => CredInv
<1> SUFFICES ASSUME CredentialsInit PROVE CredInv
  OBVIOUS
<1>1. 1 \in Tokens /\ 1 \in Inodes
  BY CredentialsAssumption, FS_CardinalityType DEF Tokens, Inodes
<1>2. ProcessTypes
  BY DEF CredentialsInit, ProcessTypes, Steps, Stages, Changing
<1>3. FileTypes
  BY <1>1 DEF CredentialsInit, FileTypes
<1>4. ClockTypes
  BY CredentialsAssumption DEF CredentialsInit, ClockTypes
<1>5. IssuerTypes
  BY <1>1, CredentialsAssumption DEF CredentialsInit, IssuerTypes
<1>6. \A p \in Processes : step[p] = "idle"
  BY DEF CredentialsInit
<1>7. OneChanges
  BY <1>6 DEF OneChanges, Changing
<1>8. cache # NoInode => cache = 1 /\ content[cache] = 1 /\ tmp # cache /\ 1 \in live
  BY <1>1 DEF CredentialsInit, NoInode
<1>9. Tidy
  BY <1>1, <1>6, <1>8, NoneIsNone DEF Tidy, Saving
<1>10. Fresh
  BY <1>8 DEF Fresh
<1>11. QED
  BY <1>2, <1>3, <1>4, <1>5, <1>7, <1>9, <1>10 DEF CredInv

\* The invariant is inductive.
LEMMA NextCred == CredInv /\ [CredentialsNext]_credentialVars => CredInv'
<1> SUFFICES ASSUME CredInv, [CredentialsNext]_credentialVars PROVE CredInv'
  OBVIOUS
<1>1. CASE UNCHANGED credentialVars
  <2>1. UNCHANGED <<step, stage, token, waited, interval, content, cache, tmp, fd>>
    BY <1>1 DEF credentialVars, processVars, files
  <2>2. UNCHANGED <<issued, live, unexpired, accepted, mishaps, collided, cut>>
    BY <1>1 DEF credentialVars, issuer
  <2>3. ProcessTypes' /\ FileTypes' /\ ClockTypes' /\ IssuerTypes'
    BY <2>1, <2>2 DEF CredInv, ProcessTypes, FileTypes, ClockTypes, IssuerTypes
  <2>4. OneChanges' /\ Tidy' /\ Fresh'
    BY <2>1, <2>2 DEF CredInv, OneChanges, Tidy, Fresh
  <2>5. QED
    BY <2>3, <2>4 DEF CredInv
<1>2. ASSUME NEW p \in Processes, Start(p) \/ Kill(p) PROVE CredInv'
  BY <1>2, StartKeeps, KillKeeps
<1>3. ASSUME NEW p \in Processes, ProcessStep(p) PROVE CredInv'
  BY <1>3, LoadKeeps, ReadKeeps, ForgetKeeps, RefreshKeeps, PurgeKeeps, AuthorizeKeeps, PollKeeps,
     OpenKeeps, WriteKeeps, ReplaceKeeps, SendKeeps DEF ProcessStep
<1>4. ASSUME NEW t \in Tokens, Age(t) PROVE CredInv'
  BY <1>4, AgeKeeps
<1>5. QED
  BY <1>1, <1>2, <1>3, <1>4 DEF CredentialsNext

\* The types, the order of savers and the state of the cache hold in every behaviour.
THEOREM CredentialsInvariant == CredentialsSpec => []CredInv
  BY InitCred, NextCred, PTL DEF CredentialsSpec

\* The types the runs check are among those of the invariant.
LEMMA CredTypes == CredInv => CredentialsTypeOK
  BY DEF CredInv, ProcessTypes, FileTypes, ClockTypes, IssuerTypes, Steps, Stages,
         CredentialsTypeOK

\* Whoever loads the cache finds a whole one, and no rotated token is left behind in
\* it (save_token_cache and _refresh_and_return).
THEOREM CredentialsCacheIsUsable == CredentialsSpec => []CacheIsUsable
<1>1. CredInv => CacheIsUsable
  BY DEF CredInv, Tidy, Fresh, Saving, CacheIsUsable
<1>2. QED
  BY <1>1, CredentialsInvariant, PTL

-----------------------------------------------------------------------------
(* CliSession: the invariant *)

TeamOrNone == ChatTeams \cup {NoTeam}
SocketRec == [team : ChatTeams, st : {"open", "lost", "closed"}]
ManagerRec == [ws : Nat, team : TeamOrNone, state : {"CONNECTING", "CONNECTED", "DISCONNECTED"}]
ReaderRec == [at : {"open", "read", "dial", "sleep", "over"}, on : Nat, to : TeamOrNone,
              tries : 0 .. MaxRetries]
UserRec == [at : {"start", "idle", "dial", "announce", "redial", "gone"}, to : TeamOrNone]
             \cup [at : {"close", "announce"}, to : TeamOrNone, old : Nat]

CliTyped ==
    /\ front \in Fronts /\ team \in TeamOrNone
    /\ sockets \in Seq(SocketRec)
    /\ managers \in Seq(ManagerRec) /\ managers # <<>>
    /\ \A m \in 1 .. Len(managers) : managers[m].ws <= Len(sockets)
    /\ reader \in ReaderRec /\ (reader.at = "read" => reader.on \in 1 .. Len(sockets))
    /\ user \in UserRec
    /\ losses \in 0 .. MaxLosses /\ orders \in 0 .. MaxOrders

AfterSwitch == user.at \in {"close", "announce"}

\* The manager is on the session's team, or on the one the switch under way goes to.
OnTeam ==
    /\ user.at \in {"dial", "close", "announce", "redial"} => user.to \in ChatTeams
    /\ user.at = "redial" => user.to = team
    /\ (user.at = "close") => user.old \in 1 .. Len(sockets)
    /\ Manager.team = IF AfterSwitch THEN user.to ELSE team
    /\ reader.at # "over" => Manager.team # NoTeam
    /\ reader.at \in {"open", "dial"} => reader.to \in ChatTeams
    /\ user.at = "start" => /\ team # NoTeam /\ sockets = <<>> /\ reader = Over
                            /\ Len(managers) = 1 /\ front = "repl"
    /\ user.at = "announce" => front = "tui" /\ team = user.to

\* The manager's socket is its team's, and so is the live one the reader waits on, but
\* for the end of a switch.
Tuned ==
    ~crossed =>
      /\ Manager.ws # 0 => sockets[Manager.ws].team = Manager.team
      /\ reader.at = "read" /\ ~AfterSwitch /\ sockets[reader.on].st = "open"
            => sockets[reader.on].team = Manager.team

\* The sockets that may be live: the manager's, and the one a switch is closing.
Kept == {Manager.ws} \cup (IF user.at = "close" THEN {user.old} ELSE {})

\* The line-based session knows of every live connection, and its reader does not dial
\* over one.
Tended ==
    front = "repl" /\ ~byHand =>
      /\ Len(managers) = 1 /\ user.at # "redial"
      /\ OpenSockets \subseteq Kept
      /\ user.at \in {"start", "gone"} => OpenSockets = {} /\ reader = Over
      /\ reader.at # "open" /\ (reader.at = "read" => reader.on \in Kept)
      /\ reader.at = "sleep" => Manager.ws \notin OpenSockets
      /\ reader.at = "dial" => \/ Manager.ws \notin OpenSockets
                               \/ user.at = "close" /\ user.old \notin OpenSockets

CliInv == CliTyped /\ OnTeam /\ Tuned /\ Tended

-----------------------------------------------------------------------------
(* Sockets and managers *)

\* What any step does to the sockets there are: none changes team or opens again.
SocketsKept ==
    /\ sockets' \in Seq(SocketRec) /\ Len(sockets) <= Len(sockets')
    /\ \A s \in 1 .. Len(sockets) : /\ sockets'[s].team = sockets[s].team
                                    /\ sockets'[s].st = "open" => sockets[s].st = "open"

\* The live sockets are positions of the list.
LEMMA OpenIs ==
    ASSUME CliTyped
    PROVE  /\ OpenSockets = {s \in 1 .. Len(sockets) : sockets[s].st = "open"}
           /\ Len(sockets) \in Nat
  BY DEF OpenSockets, CliTyped

\* A new connection comes last and is live.
LEMMA AcceptedKeeps ==
    ASSUME CliTyped, NEW t \in ChatTeams, Accepted(t)
    PROVE  /\ SocketsKept /\ Len(sockets') = Len(sockets) + 1 /\ Len(sockets) \in Nat
           /\ sockets'[Len(sockets) + 1].team = t
           /\ OpenSockets' = OpenSockets \cup {Len(sockets) + 1}
<1> DEFINE new == [team |-> t, st |-> "open"]
<1>1. /\ sockets \in Seq(SocketRec) /\ new \in SocketRec /\ sockets' = Append(sockets, new)
  BY DEF CliTyped, Accepted, SocketRec
<1>2. /\ sockets' \in Seq(SocketRec) /\ Len(sockets') = Len(sockets) + 1 /\ Len(sockets) \in Nat
      /\ sockets'[Len(sockets) + 1] = new /\ \A s \in 1 .. Len(sockets) : sockets'[s] = sockets[s]
  BY <1>1
<1>3. OpenSockets' = OpenSockets \cup {Len(sockets) + 1}
  <2>1. OpenSockets = {s \in 1 .. Len(sockets) : sockets[s].st = "open"}
    BY OpenIs
  <2>2. OpenSockets' = {s \in 1 .. Len(sockets) + 1 : sockets'[s].st = "open"}
    BY <1>2 DEF OpenSockets
  <2>3. QED
    BY <1>2, <2>1, <2>2
<1>4. QED
  BY <1>2, <1>3 DEF SocketsKept

\* A connection that ends is no longer live.
LEMMA ShutKeeps ==
    ASSUME CliTyped, NEW s \in 1 .. Len(sockets), NEW st \in {"lost", "closed"},
           sockets' = [sockets EXCEPT ![s].st = st]
    PROVE  SocketsKept /\ Len(sockets') = Len(sockets) /\ OpenSockets' = OpenSockets \ {s}
<1>1. sockets \in Seq(SocketRec) /\ Len(sockets) \in Nat
  BY DEF CliTyped
<1>2. sockets[s] \in SocketRec /\ [sockets[s] EXCEPT !.st = st] \in SocketRec
  <2>1. sockets[s] \in SocketRec
    BY <1>1
  <2>2. QED
    BY <2>1 DEF SocketRec
<1>3. sockets' = [sockets EXCEPT ![s] = [sockets[s] EXCEPT !.st = st]]
  OBVIOUS
<1>4. /\ sockets' \in Seq(SocketRec) /\ Len(sockets') = Len(sockets)
      /\ \A r \in 1 .. Len(sockets) : r # s => sockets'[r] = sockets[r]
      /\ sockets'[s] = [sockets[s] EXCEPT !.st = st]
  BY <1>1, <1>2, <1>3
<1>5. sockets'[s].st = st /\ sockets'[s].team = sockets[s].team
  BY <1>2, <1>4 DEF SocketRec
<1>6. OpenSockets' = OpenSockets \ {s}
  <2>1. OpenSockets = {r \in 1 .. Len(sockets) : sockets[r].st = "open"}
    BY OpenIs
  <2>2. OpenSockets' = {r \in 1 .. Len(sockets) : sockets'[r].st = "open"}
    BY <1>1, <1>4 DEF OpenSockets
  <2>3. QED
    BY <1>4, <1>5, <2>1, <2>2
<1>7. QED
  BY <1>1, <1>4, <1>5, <1>6 DEF SocketsKept

\* Nothing happens to the sockets.
LEMMA SameSockets ==
    ASSUME CliTyped, UNCHANGED sockets
    PROVE  SocketsKept /\ OpenSockets' = OpenSockets
  BY DEF CliTyped, SocketsKept, OpenSockets

\* The current manager is the last of the list.
LEMMA ManagerIs ==
    ASSUME CliTyped
    PROVE  /\ Manager \in ManagerRec /\ Manager.ws \in Nat /\ Manager.ws <= Len(sockets)
           /\ Current \in 1 .. Len(managers) /\ Current = Len(managers)
<1>1. /\ managers \in Seq(ManagerRec) /\ managers # <<>> /\ Current = Len(managers)
      /\ \A m \in 1 .. Len(managers) : managers[m].ws <= Len(sockets)
  BY DEF CliTyped, Current
<1>2. Current \in 1 .. Len(managers)
  BY <1>1
<1>3. Manager \in ManagerRec /\ Manager.ws <= Len(sockets)
  BY <1>1, <1>2 DEF Manager
<1>4. Manager.ws \in Nat
  BY <1>3 DEF ManagerRec
<1>5. QED
  BY <1>1, <1>2, <1>3, <1>4

\* The ways a step changes the current manager to mgr.
Becomes(mgr) ==
    \/ managers' = [managers EXCEPT ![Current] = mgr]
    \/ managers' = managers /\ mgr = Manager
    \/ managers' = Append(managers, mgr)
    \/ managers' = <<mgr>>

\* The list of managers is kept, and the current one is mgr.
LEMMA ManagersKept ==
    ASSUME CliTyped, SocketsKept, NEW mgr \in ManagerRec, mgr.ws <= Len(sockets'), Becomes(mgr)
    PROVE  /\ managers' \in Seq(ManagerRec) /\ managers' # <<>> /\ Manager' = mgr
           /\ \A m \in 1 .. Len(managers') : managers'[m].ws <= Len(sockets')
<1>1. /\ managers \in Seq(ManagerRec) /\ managers # <<>> /\ Len(sockets) \in Nat
      /\ Len(sockets') \in Nat /\ Len(sockets) <= Len(sockets')
      /\ \A m \in 1 .. Len(managers) : managers[m] \in ManagerRec /\ managers[m].ws <= Len(sockets')
  <2>1. /\ managers \in Seq(ManagerRec) /\ managers # <<>> /\ Len(sockets) \in Nat
        /\ Len(sockets') \in Nat /\ Len(sockets) <= Len(sockets')
    BY DEF CliTyped, SocketsKept
  <2>2. ASSUME NEW m \in 1 .. Len(managers)
        PROVE  managers[m] \in ManagerRec /\ managers[m].ws <= Len(sockets')
    <3>1. managers[m] \in ManagerRec
      BY <2>1
    <3>2. managers[m].ws \in Nat /\ managers[m].ws <= Len(sockets)
      BY <3>1 DEF CliTyped, ManagerRec
    <3>3. QED
      BY <2>1, <3>1, <3>2
  <2>3. QED
    BY <2>1, <2>2
<1>2. CASE managers' = [managers EXCEPT ![Len(managers)] = mgr]
  <2>1. /\ managers' \in Seq(ManagerRec) /\ Len(managers') = Len(managers)
        /\ managers'[Len(managers)] = mgr /\ managers' # <<>>
        /\ \A m \in 1 .. Len(managers) : managers'[m] = managers[m] \/ managers'[m] = mgr
    BY <1>1, <1>2
  <2>2. QED
    BY <1>1, <2>1 DEF Manager, Current
<1>3. CASE managers' = managers /\ mgr = Manager
  BY <1>1, <1>3 DEF Manager, Current
<1>4. CASE managers' = Append(managers, mgr)
  <2>1. /\ managers' \in Seq(ManagerRec) /\ Len(managers') = Len(managers) + 1
        /\ managers'[Len(managers) + 1] = mgr /\ managers' # <<>>
        /\ \A m \in 1 .. Len(managers) : managers'[m] = managers[m]
    BY <1>1, <1>4
  <2>2. QED
    BY <1>1, <1>4, <2>1 DEF Manager, Current
<1>5. CASE managers' = <<mgr>>
  <2>1. managers' \in Seq(ManagerRec) /\ Len(managers') = 1 /\ managers'[1] = mgr /\ managers' # <<>>
    BY <1>5
  <2>2. QED
    BY <2>1 DEF Manager, Current
<1>6. QED
  BY <1>2, <1>3, <1>4, <1>5 DEF Becomes, Current

\* What a manager becomes when it dials, is refused or is given a socket.
LEMMA ManagerForms ==
    ASSUME NEW mgr \in ManagerRec
    PROVE  /\ Connecting(mgr) \in ManagerRec /\ Connecting(mgr).ws = mgr.ws
           /\ Connecting(mgr).team = mgr.team
           /\ Refused(mgr) \in ManagerRec /\ Refused(mgr).ws = mgr.ws
           /\ Refused(mgr).team = mgr.team
           /\ Len(sockets) \in Nat => /\ Holding(mgr) \in ManagerRec
                                      /\ Holding(mgr).ws = Len(sockets) + 1
                                      /\ Holding(mgr).team = mgr.team
<1>1. /\ Connecting(mgr) \in ManagerRec /\ Connecting(mgr).ws = mgr.ws
      /\ Connecting(mgr).team = mgr.team
  BY DEF Connecting, ManagerRec
<1>2. Refused(mgr) \in ManagerRec /\ Refused(mgr).ws = mgr.ws /\ Refused(mgr).team = mgr.team
  BY DEF Refused, ManagerRec
<1>3. ASSUME Len(sockets) \in Nat
      PROVE  /\ Holding(mgr) \in ManagerRec /\ Holding(mgr).ws = Len(sockets) + 1
             /\ Holding(mgr).team = mgr.team
  <2>1. Len(sockets) + 1 \in Nat
    BY <1>3
  <2> DEFINE n == Len(sockets) + 1
  <2> HIDE DEF n
  <2>2. n \in Nat /\ Holding(mgr) = [mgr EXCEPT !.ws = n, !.state = "CONNECTED"]
    BY <2>1 DEF Holding, n
  <2>3. Holding(mgr) \in ManagerRec /\ Holding(mgr).ws = n /\ Holding(mgr).team = mgr.team
    BY <2>2 DEF ManagerRec
  <2>4. QED
    BY <2>3 DEF n
<1>4. QED
  BY <1>1, <1>2, <1>3

\* A reader that goes on reads the manager's socket, or is over when there is none.
LEMMA ReadingIs ==
    ASSUME NEW mgr \in ManagerRec
    PROVE  /\ Reading(mgr) \in ReaderRec /\ Reading(mgr).at \in {"read", "over"}
           /\ Reading(mgr).at = "read" => Reading(mgr).on = mgr.ws /\ mgr.ws # 0
  BY CliAssumption DEF Reading, Over, ReaderRec, ManagerRec, TeamOrNone

\* A dial is for a team.
LEMMA DiallingIs ==
    ASSUME NEW at \in {"open", "dial", "sleep"}, NEW t \in TeamOrNone, NEW n \in 0 .. MaxRetries
    PROVE  /\ Dialling(at, t, n) \in ReaderRec /\ Dialling(at, t, n).at = at
           /\ Dialling(at, t, n).to = t
  BY DEF Dialling, ReaderRec

\* Starting the reader anew keeps the manager's socket and team.
LEMMA RestartIs ==
    ASSUME NEW mgr \in ManagerRec, Restart(mgr)
    PROVE  \E m \in ManagerRec :
             /\ managers' = [managers EXCEPT ![Current] = m] /\ m.ws = mgr.ws /\ m.team = mgr.team
             /\ \/ reader' = Reading(m)
                \/ front = "tui" /\ reader' = Dialling("open", m.team, 0)
<1>1. CASE front = "tui" /\ mgr.state = "DISCONNECTED"
  <2>1. /\ reader' = Dialling("open", mgr.team, 0)
        /\ managers' = [managers EXCEPT ![Current] = Connecting(mgr)]
    BY <1>1 DEF Restart
  <2>2. QED
    BY <1>1, <2>1, ManagerForms
<1>2. CASE ~(front = "tui" /\ mgr.state = "DISCONNECTED")
  BY <1>2 DEF Restart
<1>3. QED
  BY <1>1, <1>2

-----------------------------------------------------------------------------
(* What steps have in common *)

\* Types are kept by a step that gives the manager, the reader and the user values of
\* their types.
LEMMA TypedNext ==
    ASSUME CliTyped, SocketsKept, NEW mgr \in ManagerRec, mgr.ws <= Len(sockets'), Becomes(mgr),
           reader' \in ReaderRec, reader'.at = "read" => reader'.on \in 1 .. Len(sockets'),
           user' \in UserRec, UNCHANGED front, team' \in TeamOrNone,
           losses' \in 0 .. MaxLosses, orders' \in 0 .. MaxOrders
    PROVE  CliTyped'
  BY ManagersKept DEF CliTyped, SocketsKept

\* The manager's socket stays its team's when it is replaced by one for its team, or
\* the crossing is noted; the reader stays, reads the manager's socket, or waits for
\* the end of a switch.
LEMMA TunedNext ==
    ASSUME CliInv, SocketsKept, ~crossed' => ~crossed,
           Manager'.ws \in Nat, Manager.ws \in Nat, Manager.ws <= Len(sockets),
           \/ Manager'.ws = 0
           \/ Manager'.ws = Manager.ws /\ Manager'.team = Manager.team
           \/ sockets'[Manager'.ws].team = Manager'.team
           \/ crossed',
           \/ reader'.at # "read"
           \/ reader'.on = Manager'.ws /\ Manager'.ws # 0
           \/ AfterSwitch'
           \/ reader' = reader /\ ~AfterSwitch /\ Manager'.team = Manager.team
    PROVE  Tuned'
<1> SUFFICES ASSUME ~crossed' PROVE Tuned'
  BY DEF Tuned
<1>1. Manager'.ws # 0 => sockets'[Manager'.ws].team = Manager'.team
  <2>1. CASE Manager'.ws = Manager.ws /\ Manager'.team = Manager.team /\ Manager'.ws # 0
    <3>1. sockets[Manager.ws].team = Manager.team /\ Manager.ws \in 1 .. Len(sockets)
      BY <2>1 DEF CliInv, Tuned, CliTyped
    <3>2. QED
      BY <2>1, <3>1 DEF SocketsKept
  <2>2. QED
    BY <2>1
<1>2. ASSUME reader'.at = "read", ~AfterSwitch', sockets'[reader'.on].st = "open"
      PROVE  sockets'[reader'.on].team = Manager'.team
  <2>1. CASE reader'.on = Manager'.ws /\ Manager'.ws # 0
    BY <1>1, <2>1
  <2>2. CASE reader' = reader /\ ~AfterSwitch /\ Manager'.team = Manager.team
    <3>1. reader.on \in 1 .. Len(sockets)
      BY <1>2, <2>2 DEF CliInv, CliTyped
    <3>2. sockets[reader.on].st = "open" /\ sockets'[reader.on].team = sockets[reader.on].team
      BY <1>2, <2>2, <3>1 DEF SocketsKept
    <3>3. QED
      BY <1>2, <2>2, <3>2 DEF CliInv, Tuned
  <2>3. QED
    BY <1>2, <2>1, <2>2
<1>3. QED
  BY <1>1, <1>2 DEF Tuned

\* What the steps share: the manager, the reader and the user are given values of their
\* types, and the manager's socket is kept, is one for its team, or the crossing is noted.
LEMMA StepKeeps ==
    ASSUME CliInv, SocketsKept, NEW mgr \in ManagerRec, mgr.ws <= Len(sockets'), Becomes(mgr),
           reader' \in ReaderRec, reader'.at = "read" => reader'.on \in 1 .. Len(sockets'),
           user' \in UserRec, UNCHANGED front, team' \in TeamOrNone,
           losses' \in 0 .. MaxLosses, orders' \in 0 .. MaxOrders, ~crossed' => ~crossed,
           \/ mgr.ws = 0
           \/ mgr.ws = Manager.ws /\ mgr.team = Manager.team
           \/ sockets'[mgr.ws].team = mgr.team
           \/ crossed',
           \/ reader'.at # "read"
           \/ reader'.on = mgr.ws /\ mgr.ws # 0
           \/ AfterSwitch'
           \/ reader' = reader /\ ~AfterSwitch /\ mgr.team = Manager.team
    PROVE  CliTyped' /\ Tuned' /\ Manager' = mgr
<1>1. CliTyped /\ mgr.ws \in Nat
  BY DEF CliInv, ManagerRec
<1>2. Manager' = mgr
  BY <1>1, ManagersKept
<1>3. CliTyped'
  BY <1>1, TypedNext
<1>4. Manager.ws \in Nat /\ Manager.ws <= Len(sockets)
  BY <1>1, ManagerIs
<1>5. Tuned'
  BY <1>1, <1>2, <1>4, TunedNext
<1>6. QED
  BY <1>2, <1>3, <1>5

\* There is one manager still, unless one was appended.
LEMMA OneManager ==
    ASSUME CliTyped, Len(managers) = 1, NEW mgr \in ManagerRec,
           managers' \in {managers, [managers EXCEPT ![Current] = mgr], <<mgr>>}
    PROVE  Len(managers') = 1
<1>1. managers \in Seq(ManagerRec)
  BY DEF CliTyped
<1>2. CASE managers' = [managers EXCEPT ![Current] = mgr]
  BY <1>1, <1>2
<1>3. QED
  BY <1>2

\* The facts about a state that the steps start from.
LEMMA CliFacts ==
    ASSUME CliInv
    PROVE  /\ CliTyped /\ OnTeam /\ Tuned /\ Tended
           /\ Manager \in ManagerRec /\ Manager.ws \in Nat /\ Manager.ws <= Len(sockets)
           /\ Manager.team \in TeamOrNone /\ Len(sockets) \in Nat
           /\ team \in TeamOrNone /\ reader \in ReaderRec /\ user \in UserRec
           /\ losses \in 0 .. MaxLosses /\ orders \in 0 .. MaxOrders
           /\ front \in {"repl", "tui"}
           /\ reader.at = "read" => reader.on \in 1 .. Len(sockets)
<1>1. CliTyped /\ OnTeam /\ Tuned /\ Tended
  BY DEF CliInv
<1>2. Manager \in ManagerRec /\ Manager.ws \in Nat /\ Manager.ws <= Len(sockets)
  BY <1>1, ManagerIs
<1>3. Manager.team \in TeamOrNone
  BY <1>2 DEF ManagerRec
<1>4. front \in {"repl", "tui"}
  BY <1>1, CliAssumption DEF CliTyped
<1>5. QED
  BY <1>1, <1>2, <1>3, <1>4 DEF CliTyped

\* The user's and the reader's resting places have their types.
LEMMA RestIsTyped ==
    /\ Idle \in UserRec /\ Idle.at = "idle" /\ Over \in ReaderRec /\ Over.at = "over"
    /\ [Idle EXCEPT !.at = "gone"] \in UserRec /\ [Idle EXCEPT !.at = "gone"].at = "gone"
    /\ Idle # [Idle EXCEPT !.at = "gone"]
  BY CliAssumption DEF Idle, Over, UserRec, ReaderRec, TeamOrNone

\* Giving a command changes the count of commands.
LEMMA OrderIs ==
    ASSUME CliInv, Order
    PROVE  /\ user = Idle /\ user.at = "idle" /\ orders' \in 0 .. MaxOrders
           /\ losses' \in 0 .. MaxLosses /\ UNCHANGED <<front, losses, crossed>>
<1>1. {MaxSockets, MaxLosses, MaxOrders} \subseteq Nat
  BY CliAssumption
<1>2. MaxOrders \in Nat /\ orders \in 0 .. MaxOrders /\ losses \in 0 .. MaxLosses
  BY <1>1, CliFacts
<1>3. QED
  BY <1>2 DEF Order, Idle

-----------------------------------------------------------------------------
(* Every step of the user's coroutine keeps the invariant *)

\* The line-based session connects, or ends before it began.
LEMMA EnterKeeps ==
    ASSUME CliInv, Enter
    PROVE  CliInv'
<1>1. /\ user.at = "start" /\ team # NoTeam /\ sockets = <<>> /\ reader = Over
      /\ Len(managers) = 1 /\ front = "repl" /\ Manager.team = team
      /\ UNCHANGED <<front, team, crossed, byHand, losses, orders>>
  BY CliFacts DEF Enter, OnTeam, AfterSwitch
<1>2. CliTyped /\ Len(sockets) = 0 /\ OpenSockets = {} /\ team \in ChatTeams
  BY <1>1, CliFacts, OpenIs DEF TeamOrNone
<1>3. CASE /\ Accepted(team) /\ managers' = <<Holding(Manager)>>
           /\ reader' = Reading(Holding(Manager)) /\ user' = Idle
  <2> DEFINE mgr == Holding(Manager)
  <2>1. mgr \in ManagerRec /\ mgr.ws = 1 /\ mgr.team = team
    BY <1>1, <1>2, CliFacts, ManagerForms
  <2>2. SocketsKept /\ Len(sockets') = 1 /\ sockets'[1].team = team /\ OpenSockets' = {1}
    BY <1>2, <1>3, AcceptedKeeps
  <2>3. /\ reader' \in ReaderRec /\ reader'.at \in {"read", "over"}
        /\ reader'.at = "read" => reader'.on = 1
    BY <1>3, <2>1, ReadingIs
  <2>4. Becomes(mgr)
    BY <1>3 DEF Becomes
  <2> HIDE DEF mgr
  <2>5. CliTyped' /\ Tuned' /\ Manager' = mgr
    BY <1>1, <1>3, <2>1, <2>2, <2>3, <2>4, CliFacts, RestIsTyped, StepKeeps
  <2>6. OnTeam'
    BY <1>1, <1>2, <1>3, <2>1, <2>3, <2>5, RestIsTyped DEF OnTeam, AfterSwitch
  <2>7. Tended'
    BY <1>3, <2>1, <2>2, <2>3, <2>5, RestIsTyped DEF Tended, Kept
  <2>8. QED
    BY <2>5, <2>6, <2>7 DEF CliInv
<1>4. CASE /\ managers' = <<Refused(Manager)>> /\ user' = [Idle EXCEPT !.at = "gone"]
           /\ UNCHANGED <<sockets, reader>>
  <2> DEFINE mgr == Refused(Manager)
  <2>1. mgr \in ManagerRec /\ mgr.ws = Manager.ws /\ mgr.team = team
    BY <1>1, CliFacts, ManagerForms
  <2>2. SocketsKept /\ OpenSockets' = {}
    BY <1>2, <1>4, SameSockets
  <2>3. Becomes(mgr)
    BY <1>4 DEF Becomes
  <2>4. Len(managers') = 1 /\ reader' = Over
    BY <1>1, <1>4
  <2> HIDE DEF mgr
  <2>5. CliTyped' /\ Tuned' /\ Manager' = mgr
    BY <1>1, <1>4, <2>1, <2>2, <2>3, CliFacts, RestIsTyped, StepKeeps
  <2>6. OnTeam'
    BY <1>1, <1>4, <2>1, <2>4, <2>5, RestIsTyped DEF OnTeam, AfterSwitch
  <2>7. Tended'
    BY <1>4, <2>2, <2>4, RestIsTyped DEF Tended, Kept
  <2>8. QED
    BY <2>5, <2>6, <2>7 DEF CliInv
<1>5. QED
  BY <1>3, <1>4 DEF Enter

\* A team is picked on the selection screen: a manager without a socket, for that team.
LEMMA PickKeeps ==
    ASSUME CliInv, NEW t \in ChatTeams, Pick(t)
    PROVE  CliInv'
<1> DEFINE mgr == [ws |-> 0, team |-> t, state |-> "CONNECTING"]
<1>1. /\ front = "tui" /\ Order /\ team' = t /\ managers' = Append(managers, mgr)
      /\ reader' = Dialling("open", t, 0) /\ UNCHANGED <<sockets, user, byHand>>
  BY DEF Pick
<1>2. mgr \in ManagerRec /\ mgr.ws = 0 /\ mgr.team = t /\ t \in TeamOrNone /\ t # NoTeam
  BY CliAssumption DEF ManagerRec, TeamOrNone
<1>3. SocketsKept
  BY <1>1, CliFacts, SameSockets
<1>4. reader' \in ReaderRec /\ reader'.at = "open" /\ reader'.to = t
  BY <1>1, <1>2, CliAssumption, DiallingIs
<1>5. Becomes(mgr)
  BY <1>1 DEF Becomes
<1> HIDE DEF mgr
<1>6. CliTyped' /\ Tuned' /\ Manager' = mgr
  BY <1>1, <1>2, <1>3, <1>4, <1>5, CliFacts, OrderIs, StepKeeps
<1>7. OnTeam'
  BY <1>1, <1>2, <1>4, <1>6, OrderIs DEF OnTeam, AfterSwitch
<1>8. Tended'
  BY <1>1, OrderIs DEF Tended
<1>9. QED
  BY <1>6, <1>7, <1>8 DEF CliInv

\* A switch begins to dial.
LEMMA SwitchKeeps ==
    ASSUME CliInv, NEW t \in ChatTeams, Switch(t)
    PROVE  CliInv'
<1>1. /\ team # NoTeam /\ Order /\ user' = [at |-> "dial", to |-> t]
      /\ UNCHANGED <<team, managers, sockets, reader, byHand>>
  BY DEF Switch
<1>2. user' \in UserRec /\ user'.at = "dial" /\ user'.to = t
  BY <1>1 DEF UserRec, TeamOrNone
<1>3. SocketsKept /\ OpenSockets' = OpenSockets /\ Becomes(Manager) /\ Manager' = Manager
  BY <1>1, CliFacts, SameSockets DEF Becomes, Manager, Current
<1>4. /\ user.at = "idle" /\ orders' \in 0 .. MaxOrders /\ losses' \in 0 .. MaxLosses
      /\ UNCHANGED <<front, crossed>> /\ ~AfterSwitch
  BY <1>1, OrderIs DEF AfterSwitch
<1>5. CliTyped' /\ Tuned'
  BY <1>1, <1>2, <1>3, <1>4, CliFacts, StepKeeps
<1>6. OnTeam'
  BY <1>1, <1>2, <1>3, <1>4, CliFacts DEF OnTeam, AfterSwitch
<1>7. Tended'
  BY <1>1, <1>2, <1>3, <1>4, CliFacts DEF Tended, Kept
<1>8. QED
  BY <1>5, <1>6, <1>7 DEF CliInv

\* A refused switch leaves everything where it was.
LEMMA SwitchRefusedKeeps ==
    ASSUME CliInv, SwitchRefused
    PROVE  CliInv'
<1>1. /\ user.at = "dial" /\ user' = Idle
      /\ UNCHANGED <<front, team, managers, sockets, reader, crossed, byHand, losses, orders>>
  BY DEF SwitchRefused
<1>2. SocketsKept /\ OpenSockets' = OpenSockets /\ Becomes(Manager) /\ Manager' = Manager
  BY <1>1, CliFacts, SameSockets DEF Becomes, Manager, Current
<1>3. ~AfterSwitch
  BY <1>1 DEF AfterSwitch
<1>4. CliTyped' /\ Tuned'
  BY <1>1, <1>2, <1>3, CliFacts, RestIsTyped, StepKeeps
<1>5. OnTeam'
  BY <1>1, <1>2, CliFacts, RestIsTyped DEF OnTeam, AfterSwitch
<1>6. Tended'
  BY <1>1, <1>2, CliFacts, RestIsTyped DEF Tended, Kept
<1>7. QED
  BY <1>4, <1>5, <1>6 DEF CliInv

\* The handlers move to the new team: the manager holds a socket of it and no other live
\* one is left, or the end of the switch is still to be shown.
LEMMA MovedKeeps ==
    ASSUME CliInv, user.at \in {"dial", "close"}, SocketsKept,
           NEW mgr \in ManagerRec, mgr.ws <= Len(sockets'), mgr.team = user.to, Moved(mgr),
           \/ mgr.ws = 0
           \/ mgr.ws = Manager.ws /\ mgr.team = Manager.team
           \/ sockets'[mgr.ws].team = mgr.team,
           front = "repl" /\ ~byHand => OpenSockets' \subseteq {mgr.ws},
           UNCHANGED <<front, crossed, byHand, losses, orders>>
    PROVE  CliInv'
<1>1. user.to \in ChatTeams /\ user.to # NoTeam /\ user.to \in TeamOrNone
  BY CliFacts, CliAssumption DEF OnTeam, TeamOrNone
<1>2. /\ CliTyped /\ front \in {"repl", "tui"} /\ Len(sockets') \in Nat /\ team' = user.to
      /\ mgr.ws \in Nat
  BY CliFacts DEF Moved, SocketsKept, ManagerRec
<1>3. CASE front = "repl"
  <2>1. Restart(mgr) /\ user' = Idle
    BY <1>3 DEF Moved
  <2>2. managers' = [managers EXCEPT ![Current] = mgr] /\ reader' = Reading(mgr)
    BY <1>3, <2>1 DEF Restart
  <2>3. /\ reader' \in ReaderRec /\ reader'.at \in {"read", "over"}
        /\ reader'.at = "read" => reader'.on = mgr.ws /\ mgr.ws # 0
    BY <2>2, ReadingIs
  <2>4. Becomes(mgr)
    BY <2>2 DEF Becomes
  <2>5. CliTyped' /\ Tuned' /\ Manager' = mgr
    BY <1>1, <1>2, <2>1, <2>3, <2>4, CliFacts, RestIsTyped, StepKeeps
  <2>6. OnTeam'
    BY <1>1, <1>2, <2>1, <2>3, <2>5, RestIsTyped DEF OnTeam, AfterSwitch
  <2>7. ~byHand => Len(managers') = 1
    BY <1>2, <1>3, <2>2, CliFacts, OneManager DEF Tended
  <2>8. Tended'
    BY <1>3, <2>1, <2>3, <2>5, <2>7, RestIsTyped DEF Tended, Kept
  <2>9. QED
    BY <2>5, <2>6, <2>8 DEF CliInv
<1>4. CASE front = "tui"
  <2>1. /\ managers' = [managers EXCEPT ![Current] = mgr] /\ reader' = reader
        /\ user' = [user EXCEPT !.at = "announce"]
    BY <1>4 DEF Moved
  <2>2. user' \in UserRec /\ user'.at = "announce" /\ user'.to = user.to
    BY <2>1, CliFacts DEF UserRec
  <2>3. Becomes(mgr) /\ AfterSwitch'
    BY <2>1, <2>2 DEF Becomes, AfterSwitch
  <2>4. reader'.at = "read" => reader'.on \in 1 .. Len(sockets')
    BY <1>2, <2>1, CliFacts DEF SocketsKept
  <2>5. CliTyped' /\ Tuned' /\ Manager' = mgr
    BY <1>1, <1>2, <2>1, <2>2, <2>3, <2>4, CliFacts, StepKeeps
  <2>6. OnTeam'
    BY <1>1, <1>2, <1>4, <2>1, <2>2, <2>5, CliFacts DEF OnTeam, AfterSwitch
  <2>7. Tended'
    BY <1>4 DEF Tended
  <2>8. QED
    BY <2>5, <2>6, <2>7 DEF CliInv
<1>5. QED
  BY <1>2, <1>3, <1>4

\* The new socket of a switch is up: a live old one is to be closed first.
LEMMA SwitchDialledKeeps ==
    ASSUME CliInv, SwitchDialled
    PROVE  CliInv'
<1> DEFINE new == Len(sockets) + 1
           mgr == [Manager EXCEPT !.ws = new, !.team = user.to]
           alive == Manager.ws # 0 /\ sockets[Manager.ws].st = "open"
<1>1. /\ user.at = "dial" /\ Accepted(user.to)
      /\ UNCHANGED <<front, crossed, byHand, losses, orders>>
  BY DEF SwitchDialled
<1>2. user.to \in ChatTeams /\ user.to # NoTeam /\ user.to \in TeamOrNone /\ new \in Nat
  BY <1>1, CliFacts, CliAssumption DEF OnTeam, TeamOrNone
<1>3. /\ SocketsKept /\ Len(sockets') = new /\ sockets'[new].team = user.to
      /\ OpenSockets' = OpenSockets \cup {new}
  BY <1>1, <1>2, CliFacts, AcceptedKeeps
<1>4. \/ /\ alive /\ managers' = [managers EXCEPT ![Current] = mgr]
         /\ user' = [at |-> "close", to |-> user.to, old |-> Manager.ws]
         /\ UNCHANGED <<team, reader>>
      \/ ~alive /\ Moved(mgr)
  BY DEF SwitchDialled
<1> HIDE DEF new
<1>5. mgr \in ManagerRec /\ mgr.ws = new /\ mgr.team = user.to
  BY <1>2, CliFacts DEF ManagerRec
<1> HIDE DEF mgr
<1>6. CASE /\ alive /\ managers' = [managers EXCEPT ![Current] = mgr]
           /\ user' = [at |-> "close", to |-> user.to, old |-> Manager.ws]
           /\ UNCHANGED <<team, reader>>
  <2>1. /\ user' \in UserRec /\ user'.at = "close" /\ user'.to = user.to
        /\ user'.old = Manager.ws /\ Manager.ws \in 1 .. Len(sockets')
    BY <1>2, <1>3, <1>6, CliFacts DEF UserRec, new
  <2>2. Becomes(mgr) /\ AfterSwitch' /\ ~AfterSwitch
    BY <1>1, <1>6, <2>1 DEF Becomes, AfterSwitch
  <2>3. reader'.at = "read" => reader'.on \in 1 .. Len(sockets')
    BY <1>3, <1>6, CliFacts DEF SocketsKept
  <2>4. CliTyped' /\ Tuned' /\ Manager' = mgr
    BY <1>1, <1>2, <1>3, <1>5, <1>6, <2>1, <2>2, <2>3, CliFacts, StepKeeps
  <2>5. OnTeam'
    BY <1>1, <1>2, <1>5, <1>6, <2>1, <2>4, CliFacts DEF OnTeam, AfterSwitch
  <2>6. Manager.ws \in OpenSockets
    BY <1>6, CliFacts, OpenIs
  <2>7. Tended'
    <3> SUFFICES ASSUME front' = "repl", ~byHand' PROVE Tended'
      BY DEF Tended
    <3>1. /\ Len(managers) = 1 /\ OpenSockets \subseteq {Manager.ws} /\ reader.at # "open"
          /\ reader.at = "read" => reader.on = Manager.ws
          /\ reader.at \notin {"sleep", "dial"}
      BY <1>1, <2>6, CliFacts DEF Tended, Kept
    <3>2. Len(managers') = 1
      BY <1>5, <1>6, <3>1, CliFacts, OneManager
    <3>3. Kept' = {new, Manager.ws}
      BY <1>5, <2>1, <2>4 DEF Kept
    <3>4. QED
      BY <1>3, <1>6, <2>1, <3>1, <3>2, <3>3 DEF Tended
  <2>8. QED
    BY <2>4, <2>5, <2>7 DEF CliInv
<1>7. CASE ~alive /\ Moved(mgr)
  <2>1. Manager.ws \notin OpenSockets
    BY <1>7, CliFacts, OpenIs
  <2>2. front = "repl" /\ ~byHand => OpenSockets' \subseteq {mgr.ws}
    BY <1>1, <1>3, <1>5, <2>1, CliFacts DEF Tended, Kept
  <2>3. mgr.ws <= Len(sockets') /\ sockets'[mgr.ws].team = mgr.team
    BY <1>2, <1>3, <1>5
  <2>4. QED
    BY <1>1, <1>3, <1>5, <1>7, <2>2, <2>3, MovedKeeps
<1>8. QED
  BY <1>4, <1>6, <1>7

\* The old socket of a switch is closed.
LEMMA SwitchClosedKeeps ==
    ASSUME CliInv, SwitchClosed
    PROVE  CliInv'
<1>1. /\ user.at = "close" /\ sockets' = [sockets EXCEPT ![user.old].st = "closed"]
      /\ Moved(Manager) \/ Moved(Connecting(Manager))
      /\ UNCHANGED <<front, crossed, byHand, losses, orders>>
  BY DEF SwitchClosed
<1>2. user.old \in 1 .. Len(sockets) /\ Manager.team = user.to
  BY <1>1, CliFacts DEF OnTeam, AfterSwitch
<1>3. SocketsKept /\ Len(sockets') = Len(sockets) /\ OpenSockets' = OpenSockets \ {user.old}
  BY <1>1, <1>2, CliFacts, ShutKeeps
<1>4. front = "repl" /\ ~byHand => OpenSockets' \subseteq {Manager.ws}
  BY <1>1, <1>3, CliFacts DEF Tended, Kept
<1>5. PICK mgr \in ManagerRec : mgr.ws = Manager.ws /\ mgr.team = Manager.team /\ Moved(mgr)
  BY <1>1, CliFacts, ManagerForms
<1>6. mgr.ws <= Len(sockets') /\ mgr.team = user.to
  BY <1>2, <1>3, <1>5, CliFacts
<1>7. QED
  BY <1>1, <1>3, <1>4, <1>5, <1>6, MovedKeeps

\* The full-screen session restarts its reader for the team it moved to.
LEMMA AnnouncedKeeps ==
    ASSUME CliInv, Announced
    PROVE  CliInv'
<1>1. /\ user.at = "announce" /\ Restart(Manager) /\ user' = Idle
      /\ UNCHANGED <<front, team, sockets, crossed, byHand, losses, orders>>
  BY DEF Announced
<1>2. front = "tui" /\ Manager.team = team /\ team \in ChatTeams /\ team # NoTeam
  BY <1>1, CliFacts, CliAssumption DEF OnTeam, AfterSwitch
<1>3. PICK mgr \in ManagerRec :
        /\ managers' = [managers EXCEPT ![Current] = mgr]
        /\ mgr.ws = Manager.ws /\ mgr.team = Manager.team
        /\ reader' = Reading(mgr) \/ (front = "tui" /\ reader' = Dialling("open", mgr.team, 0))
  BY <1>1, CliFacts, RestartIs
<1>4. /\ reader' \in ReaderRec /\ reader'.at \in {"read", "over", "open"}
      /\ reader'.at = "read" => reader'.on = mgr.ws /\ mgr.ws # 0
      /\ reader'.at = "open" => reader'.to = team
  <2>1. 0 \in 0 .. MaxRetries /\ mgr.team \in TeamOrNone
    BY <1>3, CliAssumption, CliFacts
  <2>2. CASE reader' = Reading(mgr)
    BY <2>2, ReadingIs
  <2>3. CASE reader' = Dialling("open", mgr.team, 0)
    BY <1>2, <1>3, <2>1, <2>3, DiallingIs
  <2>4. QED
    BY <1>3, <2>2, <2>3
<1>5. SocketsKept /\ Becomes(mgr)
  BY <1>1, <1>3, CliFacts, SameSockets DEF Becomes
<1>6. CliTyped' /\ Tuned' /\ Manager' = mgr
  BY <1>1, <1>3, <1>4, <1>5, CliFacts, RestIsTyped, StepKeeps
<1>7. OnTeam'
  BY <1>1, <1>2, <1>3, <1>4, <1>6, RestIsTyped DEF OnTeam, AfterSwitch
<1>8. Tended'
  BY <1>1, <1>2 DEF Tended
<1>9. QED
  BY <1>6, <1>7, <1>8 DEF CliInv

\* /reconnect begins to dial for the team the session is on.
LEMMA ReconnectKeeps ==
    ASSUME CliInv, Reconnect
    PROVE  CliInv'
<1> DEFINE mgr == Connecting(Manager)
<1>1. /\ team # NoTeam /\ Order /\ user' = [at |-> "redial", to |-> Manager.team]
      /\ managers' = [managers EXCEPT ![Current] = mgr]
      /\ byHand' = (byHand \/ front = "repl") /\ UNCHANGED <<team, sockets, reader>>
  BY DEF Reconnect
<1>2. /\ user.at = "idle" /\ orders' \in 0 .. MaxOrders /\ losses' \in 0 .. MaxLosses
      /\ UNCHANGED <<front, crossed>> /\ ~AfterSwitch
  BY <1>1, OrderIs DEF AfterSwitch
<1>3. Manager.team = team /\ team \in ChatTeams
  BY <1>1, <1>2, CliFacts DEF OnTeam, TeamOrNone
<1>4. mgr \in ManagerRec /\ mgr.ws = Manager.ws /\ mgr.team = Manager.team
  BY CliFacts, ManagerForms
<1>5. SocketsKept /\ Becomes(mgr)
  BY <1>1, CliFacts, SameSockets DEF Becomes
<1>6. user' \in UserRec /\ user'.at = "redial" /\ user'.to = team /\ ~AfterSwitch'
  BY <1>1, <1>3 DEF UserRec, TeamOrNone, AfterSwitch
<1> HIDE DEF mgr
<1>7. CliTyped' /\ Tuned' /\ Manager' = mgr
  BY <1>1, <1>2, <1>4, <1>5, <1>6, CliFacts, StepKeeps
<1>8. OnTeam'
  BY <1>1, <1>2, <1>3, <1>4, <1>6, <1>7, CliFacts DEF OnTeam, AfterSwitch
<1>9. Tended'
  BY <1>1, <1>2 DEF Tended
<1>10. QED
  BY <1>7, <1>8, <1>9 DEF CliInv

\* A reconnection by hand ends.
LEMMA ReconnectedKeeps ==
    ASSUME CliInv, Reconnected
    PROVE  CliInv'
<1>1. user.at = "redial" /\ UNCHANGED <<front, team, reader, crossed, byHand, losses, orders>>
  BY DEF Reconnected
<1>2. /\ Manager.team = team /\ user.to = team /\ team \in ChatTeams /\ ~AfterSwitch
  BY <1>1, CliFacts, CliAssumption DEF OnTeam, AfterSwitch
<1>3. Tended'
  BY <1>1, CliFacts DEF Tended
<1>4. ASSUME NEW mgr \in ManagerRec, SocketsKept, mgr.ws <= Len(sockets'), mgr.team = team,
             mgr.ws = Manager.ws \/ sockets'[mgr.ws].team = team,
             managers' = [managers EXCEPT ![Current] = mgr],
             \/ user' = Idle
             \/ front = "tui" /\ user' = [user EXCEPT !.at = "announce"]
      PROVE  CliInv'
  <2>1. /\ reader' \in ReaderRec
        /\ reader'.at = "read" => reader' = reader \/ (reader'.on = mgr.ws /\ mgr.ws # 0)
        /\ reader'.at = "read" => reader'.on \in 1 .. Len(sockets')
    BY <1>1, <1>4, CliFacts DEF SocketsKept
  <2>2. Becomes(mgr)
    BY <1>4 DEF Becomes
  <2>3. /\ user' \in UserRec
        /\ user'.at = "idle" \/ (front = "tui" /\ user'.at = "announce" /\ user'.to = team)
    <3>1. CASE user' = Idle
      BY <3>1, RestIsTyped DEF Idle
    <3>2. CASE front = "tui" /\ user' = [user EXCEPT !.at = "announce"]
      BY <1>2, <3>2, CliFacts DEF UserRec
    <3>3. QED
      BY <1>4, <3>1, <3>2
  <2>4. CliTyped' /\ Tuned' /\ Manager' = mgr
    BY <1>1, <1>2, <1>4, <2>1, <2>2, <2>3, CliFacts, StepKeeps
  <2>5. OnTeam'
    BY <1>1, <1>2, <1>4, <2>1, <2>3, <2>4, CliFacts DEF OnTeam, AfterSwitch
  <2>6. QED
    BY <1>3, <2>4, <2>5 DEF CliInv
<1>5. CASE /\ Accepted(user.to)
           /\ managers' = [managers EXCEPT ![Current] = Holding(Manager)]
           /\ user' = IF front = "tui" THEN [user EXCEPT !.at = "announce"] ELSE Idle
  <2>1. /\ SocketsKept /\ Len(sockets') = Len(sockets) + 1 /\ Len(sockets) \in Nat
        /\ sockets'[Len(sockets) + 1].team = team
    BY <1>2, <1>5, CliFacts, AcceptedKeeps
  <2>2. /\ Holding(Manager) \in ManagerRec /\ Holding(Manager).ws = Len(sockets) + 1
        /\ Holding(Manager).team = team
    BY <1>2, <2>1, CliFacts, ManagerForms
  <2>3. user' = Idle \/ (front = "tui" /\ user' = [user EXCEPT !.at = "announce"])
    BY <1>5
  <2>4. /\ Holding(Manager).ws <= Len(sockets')
        /\ sockets'[Holding(Manager).ws].team = team
    BY <2>1, <2>2
  <2>5. QED
    BY <1>4, <1>5, <2>1, <2>2, <2>3, <2>4
<1>6. CASE /\ managers' = [managers EXCEPT ![Current] = Refused(Manager)]
           /\ user' = Idle /\ UNCHANGED sockets
  <2>1. SocketsKept /\ Refused(Manager) \in ManagerRec /\ Refused(Manager).ws = Manager.ws
        /\ Refused(Manager).team = team
    BY <1>2, <1>6, CliFacts, SameSockets, ManagerForms
  <2>2. Refused(Manager).ws <= Len(sockets')
    BY <1>6, <2>1, CliFacts
  <2>3. QED
    BY <1>4, <1>6, <2>1, <2>2
<1>7. QED
  BY <1>5, <1>6 DEF Reconnected

\* The session ends: the line-based one closes the socket its manager holds.
LEMMA LeaveKeeps ==
    ASSUME CliInv, Leave
    PROVE  CliInv'
<1> DEFINE shut == [Manager EXCEPT !.ws = 0, !.state = "DISCONNECTED"]
<1>1. /\ user = Idle /\ reader' = Over /\ user' = [Idle EXCEPT !.at = "gone"]
      /\ UNCHANGED <<front, team, crossed, byHand, losses, orders>>
  BY DEF Leave
<1>2. user.at = "idle" /\ Manager.team = team
  BY <1>1, CliFacts, RestIsTyped DEF OnTeam, AfterSwitch
<1>3. shut \in ManagerRec /\ shut.ws = 0 /\ shut.team = Manager.team
  <2>1. Manager \in ManagerRec
    BY CliFacts
  <2>2. QED
    BY <2>1 DEF ManagerRec
<1>4. CASE front = "repl"
  <2>1. /\ managers' = <<shut>>
        /\ sockets' = IF Manager.ws = 0 THEN sockets
                      ELSE [sockets EXCEPT ![Manager.ws].st = "closed"]
    BY <1>4 DEF Leave
  <2> HIDE DEF shut
  <2>2. SocketsKept /\ OpenSockets' = OpenSockets \ {Manager.ws}
    <3>1. CASE Manager.ws = 0
      <4>1. UNCHANGED sockets /\ 0 \notin OpenSockets
        BY <2>1, <3>1, CliFacts, OpenIs
      <4>2. SocketsKept /\ OpenSockets' = OpenSockets
        BY <4>1, CliFacts, SameSockets
      <4>3. QED
        BY <3>1, <4>1, <4>2
    <3>2. CASE Manager.ws # 0
      <4>1. /\ CliTyped /\ Manager.ws \in 1 .. Len(sockets)
            /\ sockets' = [sockets EXCEPT ![Manager.ws].st = "closed"]
        BY <2>1, <3>2, CliFacts
      <4>2. QED
        BY <4>1, ShutKeeps
    <3>3. QED
      BY <3>1, <3>2
  <2>3. Becomes(shut) /\ Len(managers') = 1 /\ Len(sockets') \in Nat
    BY <2>1, <2>2 DEF Becomes, SocketsKept
  <2>4. CliTyped' /\ Tuned' /\ Manager' = shut
    BY <1>1, <1>3, <2>2, <2>3, CliFacts, RestIsTyped, StepKeeps
  <2>5. OnTeam'
    BY <1>1, <1>2, <1>3, <2>4, RestIsTyped DEF OnTeam, AfterSwitch
  <2>6. ~byHand => OpenSockets' = {}
    BY <1>2, <1>4, <2>2, CliFacts DEF Tended, Kept
  <2>7. Tended'
    BY <1>1, <2>3, <2>6, RestIsTyped DEF Tended
  <2>8. QED
    BY <2>4, <2>5, <2>7 DEF CliInv
<1>5. CASE front # "repl"
  <2>1. UNCHANGED <<managers, sockets>>
    BY <1>5 DEF Leave
  <2>2. SocketsKept /\ Becomes(Manager) /\ Len(sockets') = Len(sockets)
    BY <2>1, CliFacts, SameSockets DEF Becomes
  <2>3. CliTyped' /\ Tuned' /\ Manager' = Manager
    BY <1>1, <2>2, CliFacts, RestIsTyped, StepKeeps
  <2>4. OnTeam'
    BY <1>1, <1>2, <2>3, RestIsTyped DEF OnTeam, AfterSwitch
  <2>5. Tended'
    BY <1>1, <1>5 DEF Tended
  <2>6. QED
    BY <2>3, <2>4, <2>5 DEF CliInv
<1>6. QED
  BY <1>4, <1>5

-----------------------------------------------------------------------------
(* Every step of the reader and of the network keeps the invariant *)

\* A step of the reader that gives the manager no other team and leaves the user alone:
\* what is left to show is that the session still knows of every live connection.
LEMMA ReaderKeeps ==
    ASSUME CliInv, reader.at # "over", UNCHANGED <<front, team, user, byHand, losses, orders>>,
           SocketsKept, NEW mgr \in ManagerRec, mgr.team = Manager.team,
           mgr.ws <= Len(sockets'), managers' \in {managers, [managers EXCEPT ![Current] = mgr]},
           managers' = managers => mgr = Manager,
           ~crossed' => ~crossed,
           mgr.ws = Manager.ws \/ sockets'[mgr.ws].team = mgr.team \/ crossed',
           \/ reader' = Reading(mgr) \/ reader' = Over
           \/ /\ reader' \in ReaderRec /\ reader'.at \in {"dial", "sleep"}
              /\ reader'.to \in ChatTeams,
           front = "repl" /\ ~byHand
              => /\ OpenSockets' \subseteq
                      {mgr.ws} \cup (IF user.at = "close" THEN {user.old} ELSE {})
                 /\ reader'.at = "sleep" => mgr.ws \notin OpenSockets'
                 /\ reader'.at = "dial" => \/ mgr.ws \notin OpenSockets'
                                           \/ user.at = "close" /\ user.old \notin OpenSockets'
    PROVE  CliInv'
<1>1. /\ reader' \in ReaderRec /\ reader'.at \in {"read", "over", "dial", "sleep"}
      /\ reader'.at = "read" => reader'.on = mgr.ws /\ mgr.ws # 0
      /\ reader'.at \in {"open", "dial"} => reader'.to \in ChatTeams
  <2>1. CASE reader' = Reading(mgr)
    BY <2>1, ReadingIs
  <2>2. CASE reader' = Over
    BY <2>2, RestIsTyped
  <2>3. CASE /\ reader' \in ReaderRec /\ reader'.at \in {"dial", "sleep"}
             /\ reader'.to \in ChatTeams
    BY <2>3
  <2>4. QED
    BY <2>1, <2>2, <2>3
<1>2. Becomes(mgr)
  BY DEF Becomes
<1>3. mgr.ws \in Nat /\ Len(sockets') \in Nat
  BY DEF ManagerRec, SocketsKept
<1>4. CliTyped' /\ Tuned' /\ Manager' = mgr
  BY <1>1, <1>2, <1>3, CliFacts, StepKeeps
<1>5. OnTeam'
  BY <1>1, <1>3, <1>4, CliFacts, RestIsTyped DEF OnTeam, AfterSwitch, SocketsKept
<1>6. Tended'
  <2> SUFFICES ASSUME front' = "repl", ~byHand' PROVE Tended'
    BY DEF Tended
  <2>1. Len(managers) = 1 /\ user.at # "redial" /\ user.at \notin {"start", "gone"}
    BY CliFacts, RestIsTyped DEF Tended
  <2>2. Len(managers') = 1
    BY <2>1, CliFacts, OneManager
  <2>3. Kept' = {mgr.ws} \cup (IF user.at = "close" THEN {user.old} ELSE {})
    BY <1>4 DEF Kept
  <2>4. QED
    BY <1>1, <1>4, <2>1, <2>2, <2>3 DEF Tended
<1>7. QED
  BY <1>4, <1>5, <1>6 DEF CliInv

\* A reader that is not over is of a session that has a team.
LEMMA ReaderHasTeam ==
    ASSUME CliInv, reader.at # "over"
    PROVE  Manager.team \in ChatTeams /\ Manager.team \in TeamOrNone
  BY CliFacts DEF OnTeam, TeamOrNone

\* An event arrives.
LEMMA EventKeeps ==
    ASSUME CliInv, Event
    PROVE  CliInv'
<1>1. /\ reader.at = "read" /\ reader' = Reading(Manager)
      /\ UNCHANGED <<front, team, user, byHand, losses, orders>>
      /\ UNCHANGED <<managers, sockets, crossed>>
  BY DEF Event, ReaderStep
<1>2. SocketsKept /\ OpenSockets' = OpenSockets
  BY <1>1, CliFacts, SameSockets
<1>3. reader'.at \in {"read", "over"}
  BY <1>1, CliFacts, ReadingIs
<1>4. front = "repl" /\ ~byHand => OpenSockets \subseteq Kept
  BY CliFacts DEF Tended
<1>5. QED
  BY <1>1, <1>2, <1>3, <1>4, CliFacts, ReaderKeeps DEF Kept

\* The reader's socket is gone: it dials for the team the manager is on.
LEMMA NoticedKeeps ==
    ASSUME CliInv, Noticed
    PROVE  CliInv'
<1> DEFINE mgr == Connecting(Manager)
<1>1. /\ reader.at = "read" /\ sockets[reader.on].st # "open"
      /\ reader' = Dialling("dial", Manager.team, 1)
      /\ managers' = [managers EXCEPT ![Current] = mgr]
      /\ UNCHANGED <<front, team, user, byHand, losses, orders>> /\ UNCHANGED <<sockets, crossed>>
  BY DEF Noticed, ReaderStep
<1>2. SocketsKept /\ OpenSockets' = OpenSockets
  BY <1>1, CliFacts, SameSockets
<1>3. mgr \in ManagerRec /\ mgr.ws = Manager.ws /\ mgr.team = Manager.team
  BY CliFacts, ManagerForms
<1>4. reader' \in ReaderRec /\ reader'.at = "dial" /\ reader'.to \in ChatTeams
  <2>1. 1 \in 0 .. MaxRetries
    BY CliAssumption
  <2>2. QED
    BY <1>1, <2>1, ReaderHasTeam, DiallingIs
<1>5. reader.on \notin OpenSockets
  BY <1>1, CliFacts, OpenIs
<1>6. front = "repl" /\ ~byHand =>
         /\ OpenSockets \subseteq {Manager.ws} \cup (IF user.at = "close" THEN {user.old} ELSE {})
         /\ \/ Manager.ws \notin OpenSockets
            \/ user.at = "close" /\ user.old \notin OpenSockets
  BY <1>1, <1>5, CliFacts DEF Tended, Kept
<1> HIDE DEF mgr
<1>7. managers' = managers => mgr = Manager
  <2>1. managers \in Seq(ManagerRec) /\ Current \in 1 .. Len(managers)
    BY CliFacts, ManagerIs DEF CliTyped
  <2>2. QED
    BY <1>1, <2>1 DEF Manager
<1>8. mgr.ws <= Len(sockets')
  BY <1>1, <1>3, CliFacts
<1>9. QED
  BY <1>1, <1>2, <1>3, <1>4, <1>6, <1>7, <1>8, ReaderKeeps

\* A dial of the reader ends well: what it replaces was not live.
LEMMA DialledKeeps ==
    ASSUME CliInv, Dialled
    PROVE  CliInv'
<1> DEFINE mgr == Holding(Manager)
<1>1. /\ DialMayEnd /\ Accepted(reader.to) /\ reader' = Reading(mgr)
      /\ managers' = [managers EXCEPT ![Current] = mgr]
      /\ crossed' = (crossed \/ reader.to # Manager.team)
      /\ UNCHANGED <<front, team, user, byHand, losses, orders>>
  BY DEF Dialled, ReaderStep
<1>2. reader.at \in {"open", "dial"} /\ reader.to \in ChatTeams
  BY <1>1, CliFacts DEF DialMayEnd, OnTeam
<1>3. /\ SocketsKept /\ Len(sockets') = Len(sockets) + 1 /\ Len(sockets) \in Nat
      /\ sockets'[Len(sockets) + 1].team = reader.to
      /\ OpenSockets' = OpenSockets \cup {Len(sockets) + 1}
  BY <1>1, <1>2, CliFacts, AcceptedKeeps
<1>4. mgr \in ManagerRec /\ mgr.ws = Len(sockets) + 1 /\ mgr.team = Manager.team
  BY <1>3, CliFacts, ManagerForms
<1>5. front = "repl" /\ ~byHand =>
         OpenSockets \subseteq (IF user.at = "close" THEN {user.old} ELSE {})
  <2>1. user.at = "close" => user.old \in OpenSockets
    BY <1>1, CliFacts, OpenIs DEF DialMayEnd, OnTeam
  <2>2. QED
    BY <1>2, <2>1, CliFacts DEF Tended, Kept
<1> HIDE DEF mgr
<1>6. reader'.at \in {"read", "over"}
  BY <1>1, <1>4, ReadingIs
<1>7. managers' = managers => mgr = Manager
  <2>1. managers \in Seq(ManagerRec) /\ Current \in 1 .. Len(managers)
    BY CliFacts, ManagerIs DEF CliTyped
  <2>2. QED
    BY <1>1, <2>1 DEF Manager
<1>8. mgr.ws <= Len(sockets') /\ (sockets'[mgr.ws].team = mgr.team \/ crossed')
  <2>1. reader.to # Manager.team => crossed'
    BY <1>1, Zenon
  <2>2. QED
    BY <1>3, <1>4, <2>1
<1>9. front = "repl" /\ ~byHand =>
         OpenSockets' \subseteq {mgr.ws} \cup (IF user.at = "close" THEN {user.old} ELSE {})
  BY <1>3, <1>4, <1>5
<1>10. QED
  BY <1>1, <1>2, <1>3, <1>4, <1>6, <1>7, <1>8, <1>9, ReaderKeeps

\* A dial of the reader ends badly.
LEMMA DialRefusedKeeps ==
    ASSUME CliInv, DialRefused
    PROVE  CliInv'
<1> DEFINE mgr == Refused(Manager)
<1>1. /\ DialMayEnd /\ managers' = [managers EXCEPT ![Current] = mgr]
      /\ reader' = IF reader.at = "open" THEN Reading(Manager)
                                         ELSE [reader EXCEPT !.at = "sleep"]
      /\ UNCHANGED <<front, team, user, byHand, losses, orders>> /\ UNCHANGED <<sockets, crossed>>
  BY DEF DialRefused, ReaderStep
<1>2. reader.at \in {"open", "dial"} /\ reader.to \in ChatTeams
  BY <1>1, CliFacts DEF DialMayEnd, OnTeam
<1>3. SocketsKept /\ OpenSockets' = OpenSockets
  BY <1>1, CliFacts, SameSockets
<1>4. mgr \in ManagerRec /\ mgr.ws = Manager.ws /\ mgr.team = Manager.team
  BY CliFacts, ManagerForms
<1>5. front = "repl" /\ ~byHand =>
         /\ OpenSockets \subseteq {Manager.ws} \cup (IF user.at = "close" THEN {user.old} ELSE {})
         /\ Manager.ws \notin OpenSockets
  <2>1. user.at = "close" => user.old \in OpenSockets
    BY <1>1, CliFacts, OpenIs DEF DialMayEnd, OnTeam
  <2>2. QED
    BY <1>2, <2>1, CliFacts DEF Tended, Kept
<1>6. \/ reader' = Reading(mgr)
      \/ reader' \in ReaderRec /\ reader'.at = "sleep" /\ reader'.to \in ChatTeams
  <2>1. Reading(mgr) = Reading(Manager)
    BY <1>4 DEF Reading
  <2>2. [reader EXCEPT !.at = "sleep"] \in ReaderRec
        /\ [reader EXCEPT !.at = "sleep"].at = "sleep"
        /\ [reader EXCEPT !.at = "sleep"].to = reader.to
    BY CliFacts DEF ReaderRec
  <2>3. QED
    BY <1>1, <1>2, <2>1, <2>2
<1> HIDE DEF mgr
<1>7. reader'.at \in {"read", "over", "sleep"}
  BY <1>4, <1>6, ReadingIs
<1>8. managers' = managers => mgr = Manager
  <2>1. managers \in Seq(ManagerRec) /\ Current \in 1 .. Len(managers)
    BY CliFacts, ManagerIs DEF CliTyped
  <2>2. QED
    BY <1>1, <2>1 DEF Manager
<1>9. mgr.ws <= Len(sockets')
  BY <1>1, <1>4, CliFacts
<1>10. QED
  BY <1>1, <1>2, <1>3, <1>4, <1>5, <1>6, <1>7, <1>8, <1>9, ReaderKeeps

\* The backoff ends with another attempt, or the reader gives up.
LEMMA WakeKeeps ==
    ASSUME CliInv, Wake
    PROVE  CliInv'
<1>1. /\ reader.at = "sleep"
      /\ UNCHANGED <<front, team, user, byHand, losses, orders>> /\ UNCHANGED <<sockets, crossed>>
  BY DEF Wake, ReaderStep
<1>2. SocketsKept /\ OpenSockets' = OpenSockets
  BY <1>1, CliFacts, SameSockets
<1>3. PICK mgr \in ManagerRec :
        /\ mgr.ws = Manager.ws /\ mgr.team = Manager.team
        /\ managers' = [managers EXCEPT ![Current] = mgr]
        /\ \/ /\ reader.tries < MaxRetries
              /\ reader' = Dialling("dial", Manager.team, reader.tries + 1)
           \/ reader' = Over
  BY CliFacts, ManagerForms DEF Wake
<1>4. front = "repl" /\ ~byHand =>
         /\ OpenSockets \subseteq {Manager.ws} \cup (IF user.at = "close" THEN {user.old} ELSE {})
         /\ Manager.ws \notin OpenSockets
  BY <1>1, CliFacts DEF Tended, Kept
<1>5. \/ reader' = Over
      \/ reader' \in ReaderRec /\ reader'.at = "dial" /\ reader'.to \in ChatTeams
  <2>1. reader.tries \in 0 .. MaxRetries /\ MaxRetries \in Nat
    BY CliFacts, CliAssumption DEF ReaderRec
  <2>2. reader.tries < MaxRetries => reader.tries + 1 \in 0 .. MaxRetries
    BY <2>1
  <2>3. QED
    BY <1>1, <1>3, <2>2, ReaderHasTeam, DiallingIs
<1>6. managers' = managers => mgr = Manager
  <2>1. managers \in Seq(ManagerRec) /\ Current \in 1 .. Len(managers)
    BY CliFacts, ManagerIs DEF CliTyped
  <2>2. QED
    BY <1>3, <2>1 DEF Manager
<1>7. mgr.ws <= Len(sockets')
  BY <1>1, <1>3, CliFacts
<1>8. reader'.at \in {"over", "dial"}
  BY <1>5, RestIsTyped
<1>9. QED
  BY <1>1, <1>2, <1>3, <1>4, <1>5, <1>6, <1>7, <1>8, ReaderKeeps

\* A connection is dropped.
LEMMA LoseKeeps ==
    ASSUME CliInv, Lose
    PROVE  CliInv'
<1>1. /\ losses < MaxLosses /\ losses' = losses + 1
      /\ UNCHANGED <<front, team, managers, reader, user, crossed, byHand, orders>>
  BY DEF Lose
<1>2. PICK s \in OpenSockets : sockets' = [sockets EXCEPT ![s].st = "lost"]
  BY DEF Lose
<1>3. SocketsKept /\ Len(sockets') = Len(sockets) /\ OpenSockets' = OpenSockets \ {s}
  <2>1. CliTyped /\ s \in 1 .. Len(sockets)
    BY CliFacts, OpenIs
  <2>2. QED
    BY <1>2, <2>1, ShutKeeps
<1>4. losses' \in 0 .. MaxLosses
  <2>1. {MaxSockets, MaxLosses, MaxOrders} \subseteq Nat
    BY CliAssumption
  <2>2. MaxLosses \in Nat /\ losses \in 0 .. MaxLosses
    BY <2>1, CliFacts
  <2>3. QED
    BY <1>1, <2>2
<1>5. Becomes(Manager) /\ Manager' = Manager
  BY <1>1 DEF Becomes, Manager, Current
<1>6. CliTyped'
  BY <1>1, <1>3, <1>4, <1>5, CliFacts, TypedNext
<1>7. OnTeam'
  BY <1>1, <1>3, <1>5, CliFacts DEF OnTeam, AfterSwitch
<1>8. Tuned'
  BY <1>1, <1>3, <1>5, CliFacts DEF Tuned, AfterSwitch, SocketsKept
<1>9. Tended'
  BY <1>1, <1>3, <1>5, CliFacts DEF Tended, Kept
<1>10. QED
  BY <1>6, <1>7, <1>8, <1>9 DEF CliInv

-----------------------------------------------------------------------------
(* The invariant of a session, and of the client *)

\* A session starts without connections, or with none but the ones to come.
LEMMA InitCli == CliInit => CliInv
<1> SUFFICES ASSUME CliInit PROVE CliInv
  OBVIOUS
<1> DEFINE mgr == [ws |-> 0, team |-> team,
                   state |-> IF team = NoTeam THEN "DISCONNECTED" ELSE "CONNECTING"]
<1>1. /\ front \in Fronts /\ front \in {"repl", "tui"} /\ team \in TeamOrNone
      /\ team = NoTeam => front = "tui"
  BY CliAssumption DEF CliInit, TeamOrNone
<1>2. mgr \in ManagerRec /\ mgr.ws = 0 /\ mgr.team = team
  BY <1>1 DEF ManagerRec
<1>3. managers = <<mgr>> /\ sockets = <<>>
  BY DEF CliInit
<1> HIDE DEF mgr
<1>4. /\ managers \in Seq(ManagerRec) /\ managers # <<>> /\ Len(managers) = 1
      /\ Manager = mgr /\ \A m \in 1 .. Len(managers) : managers[m].ws <= Len(sockets)
  BY <1>2, <1>3 DEF Manager, Current
<1>5. sockets \in Seq(SocketRec) /\ OpenSockets = {}
  BY <1>3 DEF OpenSockets
<1>6. /\ reader \in ReaderRec /\ reader.at \in {"open", "over"}
      /\ reader.at = "open" => front = "tui" /\ team # NoTeam /\ reader.to = team
      /\ front = "repl" => reader = Over
  <2>1. 0 \in 0 .. MaxRetries
    BY CliAssumption
  <2>2. CASE front = "tui" /\ team # NoTeam
    BY <1>1, <2>1, <2>2, DiallingIs DEF CliInit
  <2>3. CASE ~(front = "tui" /\ team # NoTeam)
    BY <1>1, <2>3, RestIsTyped DEF CliInit
  <2>4. QED
    BY <2>2, <2>3
<1>7. user \in UserRec /\ user.at \in {"start", "idle"} /\ (user.at = "start" => front = "repl")
  BY <1>1 DEF CliInit, Idle, UserRec, TeamOrNone
<1>8. losses \in 0 .. MaxLosses /\ orders \in 0 .. MaxOrders
  <2>1. {MaxSockets, MaxLosses, MaxOrders} \subseteq Nat
    BY CliAssumption
  <2>2. MaxLosses \in Nat /\ MaxOrders \in Nat
    BY <2>1
  <2>3. QED
    BY <2>2 DEF CliInit
<1>9. CliTyped
  BY <1>1, <1>4, <1>5, <1>6, <1>7, <1>8 DEF CliTyped
<1>10. OnTeam
  BY <1>1, <1>2, <1>3, <1>4, <1>6, <1>7 DEF OnTeam, AfterSwitch, TeamOrNone
<1>11. Tuned
  BY <1>2, <1>4, <1>6 DEF Tuned
<1>12. Tended
  BY <1>4, <1>5, <1>6, <1>7, RestIsTyped DEF Tended
<1>13. QED
  BY <1>9, <1>10, <1>11, <1>12 DEF CliInv

\* The invariant is inductive.
LEMMA NextCli == CliInv /\ [CliNext]_cliVars => CliInv'
<1> SUFFICES ASSUME CliInv, [CliNext]_cliVars PROVE CliInv'
  OBVIOUS
<1>1. CASE UNCHANGED cliVars
  <2>1. /\ UNCHANGED <<front, team, managers, sockets, reader, user>>
        /\ UNCHANGED <<crossed, byHand, losses, orders>>
    BY <1>1 DEF cliVars
  <2>2. Manager' = Manager /\ OpenSockets' = OpenSockets
    BY <2>1 DEF Manager, Current, OpenSockets
  <2>3. CliTyped'
    BY <2>1, CliFacts DEF CliTyped
  <2>4. OnTeam' /\ Tuned'
    BY <2>1, <2>2, CliFacts DEF OnTeam, Tuned, AfterSwitch
  <2>5. Tended'
    BY <2>1, <2>2, CliFacts DEF Tended, Kept
  <2>6. QED
    BY <2>3, <2>4, <2>5 DEF CliInv
<1>2. CASE ReaderNext
  BY <1>2, NoticedKeeps, DialledKeeps, DialRefusedKeeps, WakeKeeps DEF ReaderNext
<1>3. CASE UserNext
  BY <1>3, EnterKeeps, SwitchRefusedKeeps, SwitchDialledKeeps, SwitchClosedKeeps,
     AnnouncedKeeps, ReconnectedKeeps DEF UserNext
<1>4. CASE Event \/ Lose
  BY <1>4, EventKeeps, LoseKeeps
<1>5. ASSUME NEW t \in ChatTeams, Pick(t) \/ Switch(t) PROVE CliInv'
  BY <1>5, PickKeeps, SwitchKeeps
<1>6. CASE Reconnect \/ Leave
  BY <1>6, ReconnectKeeps, LeaveKeeps
<1>7. QED
  BY <1>1, <1>2, <1>3, <1>4, <1>5, <1>6 DEF CliNext

\* Types, teams and live connections stay in order in every behaviour of a session.
THEOREM CliInvariant == CliSpec => []CliInv
  BY InitCli, NextCli, PTL DEF CliSpec

\* Between two commands the live socket the reader waits on is of the session's team,
\* unless a reconnection for the old team landed after a switch (switch_team, _reconnect
\* and receive_event).
THEOREM CliStreamIsTheTeams == CliSpec => []StreamIsTheTeams
<1>1. CliInv => StreamIsTheTeams
  <2> SUFFICES ASSUME CliInv, user = Idle, reader.at = "read", ~crossed,
                      sockets[reader.on].st = "open"
               PROVE  sockets[reader.on].team = team
    BY DEF StreamIsTheTeams
  <2>1. ~AfterSwitch /\ Manager.team = team
    BY CliFacts, RestIsTyped DEF OnTeam, AfterSwitch
  <2>2. QED
    BY <2>1, CliFacts DEF Tuned
<1>2. QED
  BY <1>1, CliInvariant, PTL

\* The line-based session knows of every live connection, and leaves none when it ends
\* (switch_team, _reconnect and ConnectionManager.close).
THEOREM CliNoStreamIsLeft == CliSpec => []NoStreamIsLeft
<1>1. CliInv => NoStreamIsLeft
  BY CliFacts, RestIsTyped DEF Tended, Kept, NoStreamIsLeft
<1>2. QED
  BY <1>1, CliInvariant, PTL

\* The types the runs check are among those of the invariant.
LEMMA CliTypes == CliInv => CliTypeOK
<1> SUFFICES ASSUME CliInv PROVE CliTypeOK
  OBVIOUS
<1>1. CliTyped /\ Len(sockets) \in Nat
  BY CliFacts
<1>2. \A s \in DOMAIN sockets : sockets[s] \in SocketRec
  BY <1>1 DEF CliTyped
<1>3. ASSUME NEW m \in DOMAIN managers
      PROVE  managers[m] \in [ws : 0 .. Len(sockets), team : ChatTeams \cup {NoTeam},
                              state : {"CONNECTING", "CONNECTED", "DISCONNECTED"}]
  <2>1. managers[m] \in ManagerRec /\ m \in 1 .. Len(managers)
    BY <1>1 DEF CliTyped
  <2>2. managers[m].ws \in Nat /\ managers[m].ws <= Len(sockets)
    BY <1>1, <2>1 DEF CliTyped, ManagerRec
  <2>3. managers[m].ws \in 0 .. Len(sockets)
    BY <1>1, <2>2
  <2>4. QED
    BY <2>1, <2>3 DEF ManagerRec, TeamOrNone
<1>4. /\ reader.at \in {"open", "read", "dial", "sleep", "over"}
      /\ reader.at = "read" => reader.on \in DOMAIN sockets
      /\ reader.tries \in 0 .. MaxRetries
  <2>1. DOMAIN sockets = 1 .. Len(sockets)
    BY <1>1 DEF CliTyped
  <2>2. QED
    BY <1>1, <2>1 DEF CliTyped, ReaderRec
<1>5. user.at \in {"start", "idle", "dial", "close", "announce", "redial", "gone"}
  BY <1>1 DEF CliTyped, UserRec
<1>6. QED
  BY <1>1, <1>2, <1>3, <1>4, <1>5 DEF CliTyped, CliTypeOK, TeamOrNone, SocketRec

\* The client's two parts keep their invariants: each rests while the other runs.
THEOREM ClientInvariant == ClientSpec => [](CredInv /\ CliInv)
<1>1. ClientInit => CredInv /\ CliInv
  BY InitCred, InitCli DEF ClientInit
<1>2. CredInv /\ CliInv /\ [ClientNext]_clientVars => CredInv' /\ CliInv'
  <2>1. [ClientNext]_clientVars => [CredentialsNext]_credentialVars /\ [CliNext]_cliVars
    BY DEF ClientNext, clientVars
  <2>2. QED
    BY <2>1, NextCred, NextCli
<1>3. QED
  BY <1>1, <1>2, PTL DEF ClientSpec

\* Every variable of the client keeps its type: no process, file, connection or command
\* ever leaves the range its code gives it.
THEOREM ClientTypes == ClientSpec => []ClientTypeOK
<1>1. CredInv /\ CliInv => ClientTypeOK
  BY CredTypes, CliTypes DEF ClientTypeOK
<1>2. QED
  BY <1>1, ClientInvariant, PTL
===============================================================================
