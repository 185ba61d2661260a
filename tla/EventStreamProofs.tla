--------------------------- MODULE EventStreamProofs ---------------------------
(***************************************************************************)
(* EventStream's invariants for any number of writers, removers, readers,  *)
(* streams and events, and its refinement of EventLog.  StreamInv is       *)
(* inductive: one lemma for the initial states and one per action, one     *)
(* conjunct at a time.                                                     *)
(***************************************************************************)
EXTENDS EventStream, TLAPS

\* Every initial state satisfies the inductive invariant.
LEMMA InitInv == Init => StreamInv
  BY EventStreamAssumption
  DEF Init, StreamInv, TypeOK, NoLostWakeup, EndedMeansDrained, ReceiptIsPosition,
      NoOrphanStream, LockIsExclusive, Registered, RecheckCovers, ClosedIsFinal,
      CursorCounts, Streams, NoStream, Unopened, ReaderSteps

\* A stuttering step preserves it.
LEMMA StutterInv == StreamInv /\ UNCHANGED vars => StreamInv'
  <1> SUFFICES ASSUME StreamInv, UNCHANGED vars
               PROVE  StreamInv'
    OBVIOUS
  <1> USE DEF StreamInv, vars, streamVars, writerVars, removerVars, readerVars
  <1>s. \A s : Signalling(s)' <=> Signalling(s)
    BY DEF Signalling
  <1>1. TypeOK'
    BY <1>s DEF TypeOK, Available
  <1>2. NoLostWakeup'
    BY <1>s DEF NoLostWakeup, Available
  <1>3. EndedMeansDrained'
    BY <1>s DEF EndedMeansDrained, Available
  <1>4. ReceiptIsPosition'
    BY <1>s DEF ReceiptIsPosition, Available
  <1>5. NoOrphanStream'
    BY <1>s DEF NoOrphanStream, Available
  <1>6. LockIsExclusive'
    BY <1>s DEF LockIsExclusive, Available
  <1>7. Registered'
    BY <1>s DEF Registered, Available
  <1>8. RecheckCovers'
    BY <1>s DEF RecheckCovers, Available
  <1>9. ClosedIsFinal'
    BY <1>s DEF ClosedIsFinal, Available
  <1>10. CursorCounts'
    BY <1>s DEF CursorCounts, Available
  <1> QED
    BY <1>1, <1>2, <1>3, <1>4, <1>5, <1>6, <1>7, <1>8, <1>9, <1>10

\* append() finds or makes the team's stream; a new one is the team's entry.
LEMMA AppendLookupInv ==
  ASSUME StreamInv, NEW w \in Writers, AppendLookup(w)
  PROVE  StreamInv'
  <1> USE EventStreamAssumption
      DEF StreamInv, TypeOK, Streams, NoStream, Unopened, ReaderSteps, AppendLookup,
          streamVars, writerVars, removerVars, readerVars, readerRest
  <1>s. \A s : Signalling(s) => Signalling(s)'
    BY DEF Signalling
  <1>p. PICK s \in Streams : Lookup(s) /\ wstream' = [wstream EXCEPT ![w] = s]
    OBVIOUS
  <1>b. /\ xpc' = xpc /\ xstream' = xstream /\ closed' = closed
        /\ born' \in born .. MaxStreams /\ current' = s /\ s \in 1 .. born'
        /\ \A u \in 1 .. born' : u \in 1 .. born \/ u = s
        /\ current # NoStream => current' = current
    BY <1>p DEF Lookup
  <1>1. TypeOK'
    <2>1. /\ born' \in 0 .. MaxStreams
          /\ current' \in {NoStream} \cup (1 .. born')
          /\ issued' \in 0 .. MaxEvents
      BY <1>b
    <2>2. /\ wpc' \in [Writers -> {"idle", "lock", "signal"}]
          /\ wstream' \in [Writers -> Streams \cup {NoStream}]
          /\ wevent' \in [Writers -> 0 .. MaxEvents]
          /\ wseq' \in [Writers -> Nat \cup {-1}]
      BY <1>p
    <2>3. ASSUME NEW v \in Writers, wpc'[v] # "idle"
          PROVE  wstream'[v] \in Streams /\ wevent'[v] \in 1 .. MaxEvents
      BY <1>p, <2>3
    <2>4. QED
      BY <2>1, <2>2, <2>3
  <1>2. NoLostWakeup'
    BY <1>s DEF NoLostWakeup, Available
  <1>3. EndedMeansDrained'
    BY DEF EndedMeansDrained, Available
  <1>4. ReceiptIsPosition'
    BY DEF ReceiptIsPosition
  <1>5. NoOrphanStream'
    <2> SUFFICES ASSUME NEW u \in 1 .. born'
                 PROVE  \/ u = current' \/ closed'[u]
                        \/ \E x \in Removers : xpc'[x] = "lock" /\ xstream'[x] = u
      BY DEF NoOrphanStream
    <2>1. CASE u = s
      BY <1>b, <2>1
    <2>2. CASE u \in 1 .. born
      <3>1. u = current => u = current'
        BY <1>b, <2>2
      <3> QED
        BY <1>b, <2>2, <3>1 DEF NoOrphanStream
    <2> QED
      BY <1>b, <2>1, <2>2
  <1>6. LockIsExclusive'
    BY DEF LockIsExclusive
  <1>7. Registered'
    BY DEF Registered
  <1>8. RecheckCovers'
    BY <1>s DEF RecheckCovers, Available
  <1>9. ClosedIsFinal'
    BY DEF ClosedIsFinal
  <1>10. CursorCounts'
    BY DEF CursorCounts
  <1> QED
    BY <1>1, <1>2, <1>3, <1>4, <1>5, <1>6, <1>7, <1>8, <1>9, <1>10

\* A refused append writes nothing.
LEMMA AppendRefusedInv ==
  ASSUME StreamInv, NEW w \in Writers, AppendRefused(w)
  PROVE  StreamInv'
  <1> USE EventStreamAssumption
      DEF StreamInv, TypeOK, Streams, NoStream, Unopened, ReaderSteps, AppendRefused,
          streamVars, writerVars, removerVars, readerVars, readerRest
  <1>s. \A s : Signalling(s) => Signalling(s)'
    BY DEF Signalling
  <1>1. TypeOK'
    OBVIOUS
  <1>2. NoLostWakeup'
    BY <1>s DEF NoLostWakeup, Available
  <1>3. EndedMeansDrained'
    BY DEF EndedMeansDrained, Available
  <1>4. ReceiptIsPosition'
    BY DEF ReceiptIsPosition
  <1>5. NoOrphanStream'
    BY DEF NoOrphanStream
  <1>6. LockIsExclusive'
    BY DEF LockIsExclusive
  <1>7. Registered'
    BY DEF Registered
  <1>8. RecheckCovers'
    BY <1>s DEF RecheckCovers, Available
  <1>9. ClosedIsFinal'
    BY DEF ClosedIsFinal
  <1>10. CursorCounts'
    BY DEF CursorCounts
  <1> QED
    BY <1>1, <1>2, <1>3, <1>4, <1>5, <1>6, <1>7, <1>8, <1>9, <1>10

\* An append that writes holds the stream's lock, so it is signalling.
LEMMA AppendWriteInv ==
  ASSUME StreamInv, NEW w \in Writers, AppendWrite(w)
  PROVE  StreamInv'
  <1> USE EventStreamAssumption
      DEF StreamInv, TypeOK, Streams, NoStream, Unopened, ReaderSteps, AppendWrite,
          streamVars, writerVars, removerVars, readerVars, readerRest
  <1>s. \A s : Signalling(s) => Signalling(s)'
    BY DEF Signalling
  <1>g. Signalling(wstream[w])'
    BY DEF Signalling
  <1>1. TypeOK'
    BY SMTT(30)
  <1>2. NoLostWakeup'
    BY <1>s, <1>g DEF NoLostWakeup, Available
  <1>3. EndedMeansDrained'
    BY DEF EndedMeansDrained, Available
  <1>4. ReceiptIsPosition'
    BY SMTT(30) DEF ReceiptIsPosition
  <1>5. NoOrphanStream'
    BY DEF NoOrphanStream
  <1>6. LockIsExclusive'
    BY DEF LockIsExclusive, LockFree, Signalling
  <1>7. Registered'
    BY DEF Registered
  <1>8. RecheckCovers'
    BY <1>s, <1>g DEF RecheckCovers, Available
  <1>9. ClosedIsFinal'
    BY DEF ClosedIsFinal
  <1>10. CursorCounts'
    BY DEF CursorCounts
  <1> QED
    BY <1>1, <1>2, <1>3, <1>4, <1>5, <1>6, <1>7, <1>8, <1>9, <1>10

\* Setting the signals reaches every registered reader, so every open one.
LEMMA AppendSignalInv ==
  ASSUME StreamInv, NEW w \in Writers, AppendSignal(w)
  PROVE  StreamInv'
  <1> USE EventStreamAssumption
      DEF StreamInv, TypeOK, Streams, NoStream, Unopened, ReaderSteps, AppendSignal,
          streamVars, writerVars, removerVars, readerVars, readerRest
  <1>s. \A s : Signalling(s) => Signalling(s)' \/ s = wstream[w]
    BY DEF Signalling
  <1>g. \A q \in Readers : signal'[q] = (signal[q] \/ q \in signals[wstream[w]])
    BY DEF SetSignals
  <1>1. TypeOK'
    BY <1>g DEF SetSignals
  <1>2. NoLostWakeup'
    BY <1>s, <1>g DEF NoLostWakeup, Registered, Available
  <1>3. EndedMeansDrained'
    BY DEF EndedMeansDrained, Available
  <1>4. ReceiptIsPosition'
    BY DEF ReceiptIsPosition, LockIsExclusive
  <1>5. NoOrphanStream'
    BY DEF NoOrphanStream
  <1>6. LockIsExclusive'
    BY DEF LockIsExclusive
  <1>7. Registered'
    BY DEF Registered
  <1>8. RecheckCovers'
    BY <1>s, <1>g DEF RecheckCovers, Registered, Available
  <1>9. ClosedIsFinal'
    BY DEF ClosedIsFinal
  <1>10. CursorCounts'
    BY DEF CursorCounts
  <1> QED
    BY <1>1, <1>2, <1>3, <1>4, <1>5, <1>6, <1>7, <1>8, <1>9, <1>10

\* The popped stream stays within reach of the thread that popped it.
LEMMA RemovePopInv ==
  ASSUME StreamInv, NEW x \in Removers, RemovePop(x)
  PROVE  StreamInv'
  <1> USE EventStreamAssumption
      DEF StreamInv, TypeOK, Streams, NoStream, Unopened, ReaderSteps, RemovePop,
          streamVars, writerVars, removerVars, readerVars, readerRest
  <1>s. \A s : Signalling(s) => Signalling(s)'
    BY DEF Signalling
  <1>1. TypeOK'
    BY SMTT(30)
  <1>2. NoLostWakeup'
    BY <1>s DEF NoLostWakeup, Available
  <1>3. EndedMeansDrained'
    BY DEF EndedMeansDrained, Available
  <1>4. ReceiptIsPosition'
    BY DEF ReceiptIsPosition
  <1>5. NoOrphanStream'
    BY DEF NoOrphanStream
  <1>6. LockIsExclusive'
    BY DEF LockIsExclusive
  <1>7. Registered'
    BY DEF Registered
  <1>8. RecheckCovers'
    BY <1>s DEF RecheckCovers, Available
  <1>9. ClosedIsFinal'
    BY DEF ClosedIsFinal
  <1>10. CursorCounts'
    BY DEF CursorCounts
  <1> QED
    BY <1>1, <1>2, <1>3, <1>4, <1>5, <1>6, <1>7, <1>8, <1>9, <1>10

\* The closed flag is up before the signals are: the remover is signalling.
LEMMA RemoveCloseInv ==
  ASSUME StreamInv, NEW x \in Removers, RemoveClose(x)
  PROVE  StreamInv'
  <1> USE EventStreamAssumption
      DEF StreamInv, TypeOK, Streams, NoStream, Unopened, ReaderSteps, RemoveClose,
          streamVars, writerVars, removerVars, readerVars, readerRest
  <1>s. \A s : Signalling(s) => Signalling(s)'
    BY DEF Signalling
  <1>g. Signalling(xstream[x])'
    BY DEF Signalling
  <1>1. TypeOK'
    OBVIOUS
  <1>2. NoLostWakeup'
    BY <1>s, <1>g DEF NoLostWakeup, Available
  <1>3. EndedMeansDrained'
    BY DEF EndedMeansDrained, Available
  <1>4. ReceiptIsPosition'
    BY DEF ReceiptIsPosition
  <1>5. NoOrphanStream'
    BY DEF NoOrphanStream
  <1>6. LockIsExclusive'
    BY DEF LockIsExclusive, LockFree, Signalling
  <1>7. Registered'
    BY DEF Registered
  <1>8. RecheckCovers'
    BY <1>s, <1>g DEF RecheckCovers, Available
  <1>9. ClosedIsFinal'
    BY DEF ClosedIsFinal
  <1>10. CursorCounts'
    BY DEF CursorCounts
  <1> QED
    BY <1>1, <1>2, <1>3, <1>4, <1>5, <1>6, <1>7, <1>8, <1>9, <1>10

\* Setting the signals reaches every registered reader, so every open one.
LEMMA RemoveSignalInv ==
  ASSUME StreamInv, NEW x \in Removers, RemoveSignal(x)
  PROVE  StreamInv'
  <1> USE EventStreamAssumption
      DEF StreamInv, TypeOK, Streams, NoStream, Unopened, ReaderSteps, RemoveSignal,
          streamVars, writerVars, removerVars, readerVars, readerRest
  <1>s. \A s : Signalling(s) => Signalling(s)' \/ s = xstream[x]
    BY DEF Signalling
  <1>g. \A q \in Readers : signal'[q] = (signal[q] \/ q \in signals[xstream[x]])
    BY DEF SetSignals
  <1>1. TypeOK'
    BY <1>g DEF SetSignals
  <1>2. NoLostWakeup'
    BY <1>s, <1>g DEF NoLostWakeup, Registered, Available
  <1>3. EndedMeansDrained'
    BY DEF EndedMeansDrained, Available
  <1>4. ReceiptIsPosition'
    BY DEF ReceiptIsPosition
  <1>5. NoOrphanStream'
    BY DEF NoOrphanStream
  <1>6. LockIsExclusive'
    BY DEF LockIsExclusive
  <1>7. Registered'
    BY DEF Registered
  <1>8. RecheckCovers'
    BY <1>s, <1>g DEF RecheckCovers, Registered, Available
  <1>9. ClosedIsFinal'
    BY DEF ClosedIsFinal
  <1>10. CursorCounts'
    BY DEF CursorCounts
  <1> QED
    BY <1>1, <1>2, <1>3, <1>4, <1>5, <1>6, <1>7, <1>8, <1>9, <1>10

\* subscribe() finds or makes the team's stream; a new one is the team's entry.
LEMMA SubscribeLookupInv ==
  ASSUME StreamInv, NEW r \in Readers, SubscribeLookup(r)
  PROVE  StreamInv'
  <1> USE EventStreamAssumption
      DEF StreamInv, TypeOK, Streams, NoStream, Unopened, ReaderSteps, SubscribeLookup,
          streamVars, writerVars, removerVars, readerVars, readerRest
  <1>s. \A s : Signalling(s) => Signalling(s)'
    BY DEF Signalling
  <1>p. PICK s \in Streams : Lookup(s) /\ rstream' = [rstream EXCEPT ![r] = s]
    OBVIOUS
  <1>b. /\ xpc' = xpc /\ xstream' = xstream /\ closed' = closed
        /\ born' \in born .. MaxStreams /\ current' = s /\ s \in 1 .. born'
        /\ \A u \in 1 .. born' : u \in 1 .. born \/ u = s
        /\ current # NoStream => current' = current
    BY <1>p DEF Lookup
  <1>q. PICK c \in StartCursors : /\ start' = [start EXCEPT ![r] = c]
                                  /\ cursor' = [cursor EXCEPT ![r] = c]
    OBVIOUS
  <1>1. TypeOK'
    BY <1>p, <1>b, <1>q, SMTT(30)
  <1>2. NoLostWakeup'
    BY <1>p, <1>s DEF NoLostWakeup, Available
  <1>3. EndedMeansDrained'
    BY DEF EndedMeansDrained, Available
  <1>4. ReceiptIsPosition'
    BY DEF ReceiptIsPosition
  <1>5. NoOrphanStream'
    <2> SUFFICES ASSUME NEW u \in 1 .. born'
                 PROVE  \/ u = current' \/ closed'[u]
                        \/ \E x \in Removers : xpc'[x] = "lock" /\ xstream'[x] = u
      BY DEF NoOrphanStream
    <2>1. CASE u = s
      BY <1>b, <2>1
    <2>2. CASE u \in 1 .. born
      <3>1. u = current => u = current'
        BY <1>b, <2>2
      <3> QED
        BY <1>b, <2>2, <3>1 DEF NoOrphanStream
    <2> QED
      BY <1>b, <2>1, <2>2
  <1>6. LockIsExclusive'
    BY DEF LockIsExclusive
  <1>7. Registered'
    BY DEF Registered
  <1>8. RecheckCovers'
    BY <1>p, <1>s DEF RecheckCovers, Available
  <1>9. ClosedIsFinal'
    BY DEF ClosedIsFinal
  <1>10. CursorCounts'
    <2>1. \A q \in Readers : Len(got[q]) \in Nat /\ start[q] \in Nat /\ cursor[q] \in Nat
      OBVIOUS
    <2>2. ASSUME NEW q \in Readers
          PROVE  cursor'[q] = start'[q] + Len(got'[q])
      <3>1. got'[q] = got[q] /\ (q = r => got[q] = <<>> /\ Len(got[q]) = 0)
        BY <1>p DEF CursorCounts
      <3>2. CASE q = r
        <4>1. c \in Nat /\ start'[r] = c /\ cursor'[r] = c
          BY <1>q
        <4> QED
          BY <3>1, <3>2, <4>1
      <3>3. CASE q # r
        BY <1>q, <3>1, <3>3 DEF CursorCounts
      <3> QED
        BY <3>2, <3>3
    <2>3. ASSUME NEW q \in Readers, rpc'[q] \in Unopened
          PROVE  got'[q] = <<>>
      BY <1>p, <1>q, <2>3 DEF CursorCounts
    <2> QED
      BY <2>2, <2>3 DEF CursorCounts
  <1> QED
    BY <1>1, <1>2, <1>3, <1>4, <1>5, <1>6, <1>7, <1>8, <1>9, <1>10

\* A refused subscribe makes no reader.
LEMMA SubscribeRefusedInv ==
  ASSUME StreamInv, NEW r \in Readers, SubscribeRefused(r)
  PROVE  StreamInv'
  <1> USE EventStreamAssumption
      DEF StreamInv, TypeOK, Streams, NoStream, Unopened, ReaderSteps, SubscribeRefused,
          streamVars, writerVars, removerVars, readerVars, readerRest
  <1>s. \A s : Signalling(s) => Signalling(s)'
    BY DEF Signalling
  <1>1. TypeOK'
    OBVIOUS
  <1>2. NoLostWakeup'
    BY <1>s DEF NoLostWakeup, Available
  <1>3. EndedMeansDrained'
    BY DEF EndedMeansDrained, Available
  <1>4. ReceiptIsPosition'
    BY DEF ReceiptIsPosition
  <1>5. NoOrphanStream'
    BY DEF NoOrphanStream
  <1>6. LockIsExclusive'
    BY DEF LockIsExclusive
  <1>7. Registered'
    BY DEF Registered
  <1>8. RecheckCovers'
    BY <1>s DEF RecheckCovers, Available
  <1>9. ClosedIsFinal'
    BY DEF ClosedIsFinal
  <1>10. CursorCounts'
    BY DEF CursorCounts
  <1> QED
    BY <1>1, <1>2, <1>3, <1>4, <1>5, <1>6, <1>7, <1>8, <1>9, <1>10

\* The new reader is registered before it first looks at the list.
LEMMA SubscribeRegisterInv ==
  ASSUME StreamInv, NEW r \in Readers, SubscribeRegister(r)
  PROVE  StreamInv'
  <1> USE EventStreamAssumption
      DEF StreamInv, TypeOK, Streams, NoStream, Unopened, ReaderSteps, SubscribeRegister,
          streamVars, writerVars, removerVars, readerVars, readerRest
  <1>s. \A s : Signalling(s) => Signalling(s)'
    BY DEF Signalling
  <1>1. TypeOK'
    OBVIOUS
  <1>2. NoLostWakeup'
    BY <1>s DEF NoLostWakeup, Available
  <1>3. EndedMeansDrained'
    BY DEF EndedMeansDrained, Available
  <1>4. ReceiptIsPosition'
    BY DEF ReceiptIsPosition
  <1>5. NoOrphanStream'
    BY DEF NoOrphanStream
  <1>6. LockIsExclusive'
    BY DEF LockIsExclusive
  <1>7. Registered'
    BY DEF Registered
  <1>8. RecheckCovers'
    BY <1>s DEF RecheckCovers, Available
  <1>9. ClosedIsFinal'
    BY DEF ClosedIsFinal
  <1>10. CursorCounts'
    BY DEF CursorCounts
  <1> QED
    BY <1>1, <1>2, <1>3, <1>4, <1>5, <1>6, <1>7, <1>8, <1>9, <1>10

\* Looking at the reader's own flag changes only its step.
LEMMA CheckSelfInv ==
  ASSUME StreamInv, NEW r \in Readers, CheckSelf(r)
  PROVE  StreamInv'
  <1> USE EventStreamAssumption
      DEF StreamInv, TypeOK, Streams, NoStream, Unopened, ReaderSteps, CheckSelf,
          streamVars, writerVars, removerVars, readerVars, readerRest
  <1>s. \A s : Signalling(s) => Signalling(s)'
    BY DEF Signalling
  <1>1. TypeOK'
    OBVIOUS
  <1>2. NoLostWakeup'
    BY <1>s DEF NoLostWakeup, Available
  <1>3. EndedMeansDrained'
    BY DEF EndedMeansDrained, Available
  <1>4. ReceiptIsPosition'
    BY DEF ReceiptIsPosition
  <1>5. NoOrphanStream'
    BY DEF NoOrphanStream
  <1>6. LockIsExclusive'
    BY DEF LockIsExclusive
  <1>7. Registered'
    BY DEF Registered
  <1>8. RecheckCovers'
    BY <1>s DEF RecheckCovers, Available
  <1>9. ClosedIsFinal'
    BY DEF ClosedIsFinal
  <1>10. CursorCounts'
    BY DEF CursorCounts
  <1> QED
    BY <1>1, <1>2, <1>3, <1>4, <1>5, <1>6, <1>7, <1>8, <1>9, <1>10

\* A reader that found something starts afresh; one that found nothing has
\* nothing to be woken for.
LEMMA AdvanceInv ==
  ASSUME StreamInv, NEW r \in Readers, Advance(r)
  PROVE  StreamInv'
  <1> USE EventStreamAssumption
      DEF StreamInv, TypeOK, Streams, NoStream, Unopened, ReaderSteps, Advance,
          streamVars, writerVars, removerVars, readerVars, readerRest
  <1>s. \A s : Signalling(s) => Signalling(s)'
    BY DEF Signalling
  <1>a. events[rstream[r]] \in Seq(Nat) /\ cursor[r] \in Nat /\ got[r] \in Seq(Nat)
    OBVIOUS
  <1>b. PICK g \in Seq(Nat) :
           /\ got' = [got EXCEPT ![r] = g]
           /\ Len(g) = IF Available(r) THEN Len(got[r]) + 1 ELSE Len(got[r])
    <2>1. CASE Available(r)
      <3>1. events[rstream[r]][cursor[r] + 1] \in Nat
        BY <1>a, <2>1 DEF Available
      <3>2. /\ Append(got[r], events[rstream[r]][cursor[r] + 1]) \in Seq(Nat)
            /\ Len(Append(got[r], events[rstream[r]][cursor[r] + 1])) = Len(got[r]) + 1
        BY <1>a, <3>1
      <3>3. got' = [got EXCEPT ![r] = Append(got[r], events[rstream[r]][cursor[r] + 1])]
        BY <2>1 DEF Return
      <3> QED
        BY <2>1, <3>2, <3>3
    <2>2. CASE ~Available(r)
      BY <1>a, <2>2
    <2> QED
      BY <2>1, <2>2
  <1>c. rpc' = [rpc EXCEPT ![r] = IF Available(r) THEN "self" ELSE "flag"]
    BY DEF Return
  <1>d. /\ cursor' = [cursor EXCEPT ![r] = IF Available(r) THEN @ + 1 ELSE @]
        /\ phase' = [phase EXCEPT ![r] = IF Available(r) THEN "replay" ELSE @]
    BY DEF Return
  <1>f. rpc[r] = "advance" /\ UNCHANGED <<streamVars, writerVars, removerVars, signal, readerRest>>
    OBVIOUS
  <1> HIDE DEF Advance
  <1>1. TypeOK'
    BY <1>b, <1>c, <1>d, <1>f, SMTT(30)
  <1>2. NoLostWakeup'
    BY <1>s, <1>c, <1>d, <1>f DEF NoLostWakeup, Available
  <1>3. EndedMeansDrained'
    BY <1>c, <1>d, <1>f DEF EndedMeansDrained, Available
  <1>4. ReceiptIsPosition'
    BY <1>f DEF ReceiptIsPosition
  <1>5. NoOrphanStream'
    BY <1>f DEF NoOrphanStream
  <1>6. LockIsExclusive'
    BY <1>f DEF LockIsExclusive
  <1>7. Registered'
    BY <1>c, <1>f DEF Registered
  <1>8. RecheckCovers'
    BY <1>s, <1>c, <1>d, <1>f DEF RecheckCovers, Available
  <1>9. ClosedIsFinal'
    BY <1>c, <1>f DEF ClosedIsFinal
  <1>10. CursorCounts'
    <2>1. \A q \in Readers : Len(got[q]) \in Nat /\ start[q] \in Nat /\ cursor[q] \in Nat
      OBVIOUS
    <2>2. ASSUME NEW q \in Readers
          PROVE  cursor'[q] = start'[q] + Len(got'[q])
      BY <1>b, <1>c, <1>d, <1>f, <2>1 DEF CursorCounts
    <2>3. ASSUME NEW q \in Readers, rpc'[q] \in Unopened
          PROVE  got'[q] = <<>>
      BY <1>b, <1>c, <1>d, <1>f, <2>3 DEF CursorCounts
    <2> QED
      BY <2>2, <2>3 DEF CursorCounts
  <1> QED
    BY <1>1, <1>2, <1>3, <1>4, <1>5, <1>6, <1>7, <1>8, <1>9, <1>10

\* A reader goes to wait only if the stream was open at that moment.
LEMMA CheckClosedInv ==
  ASSUME StreamInv, NEW r \in Readers, CheckClosed(r)
  PROVE  StreamInv'
  <1> USE EventStreamAssumption
      DEF StreamInv, TypeOK, Streams, NoStream, Unopened, ReaderSteps, CheckClosed,
          streamVars, writerVars, removerVars, readerVars, readerRest
  <1>s. \A s : Signalling(s) => Signalling(s)'
    BY DEF Signalling
  <1>1. TypeOK'
    OBVIOUS
  <1>2. NoLostWakeup'
    BY <1>s DEF NoLostWakeup, RecheckCovers, Available
  <1>3. EndedMeansDrained'
    BY DEF EndedMeansDrained, Available
  <1>4. ReceiptIsPosition'
    BY DEF ReceiptIsPosition
  <1>5. NoOrphanStream'
    BY DEF NoOrphanStream
  <1>6. LockIsExclusive'
    BY DEF LockIsExclusive
  <1>7. Registered'
    BY DEF Registered
  <1>8. RecheckCovers'
    BY <1>s DEF RecheckCovers, Available
  <1>9. ClosedIsFinal'
    BY DEF ClosedIsFinal
  <1>10. CursorCounts'
    BY DEF CursorCounts
  <1> QED
    BY <1>1, <1>2, <1>3, <1>4, <1>5, <1>6, <1>7, <1>8, <1>9, <1>10

\* After the closed flag the list is final, so an empty drain is the end.
LEMMA AdvanceFinalInv ==
  ASSUME StreamInv, NEW r \in Readers, AdvanceFinal(r)
  PROVE  StreamInv'
  <1> USE EventStreamAssumption
      DEF StreamInv, TypeOK, Streams, NoStream, Unopened, ReaderSteps, AdvanceFinal,
          streamVars, writerVars, removerVars, readerVars, readerRest
  <1>s. \A s : Signalling(s) => Signalling(s)'
    BY DEF Signalling
  <1>a. events[rstream[r]] \in Seq(Nat) /\ cursor[r] \in Nat /\ got[r] \in Seq(Nat)
    OBVIOUS
  <1>b. PICK g \in Seq(Nat) :
           /\ got' = [got EXCEPT ![r] = g]
           /\ Len(g) = IF Available(r) THEN Len(got[r]) + 1 ELSE Len(got[r])
    <2>1. CASE Available(r)
      <3>1. events[rstream[r]][cursor[r] + 1] \in Nat
        BY <1>a, <2>1 DEF Available
      <3>2. /\ Append(got[r], events[rstream[r]][cursor[r] + 1]) \in Seq(Nat)
            /\ Len(Append(got[r], events[rstream[r]][cursor[r] + 1])) = Len(got[r]) + 1
        BY <1>a, <3>1
      <3>3. got' = [got EXCEPT ![r] = Append(got[r], events[rstream[r]][cursor[r] + 1])]
        BY <2>1 DEF Return
      <3> QED
        BY <2>1, <3>2, <3>3
    <2>2. CASE ~Available(r)
      BY <1>a, <2>2
    <2> QED
      BY <2>1, <2>2
  <1>c. rpc' = [rpc EXCEPT ![r] = IF Available(r) THEN "self" ELSE "ended"]
    BY DEF Return
  <1>d. /\ cursor' = [cursor EXCEPT ![r] = IF Available(r) THEN @ + 1 ELSE @]
        /\ phase' = [phase EXCEPT ![r] = IF Available(r) THEN "replay" ELSE @]
    BY DEF Return
  <1>f. rpc[r] = "final" /\ UNCHANGED <<streamVars, writerVars, removerVars, signal, readerRest>>
    OBVIOUS
  <1> HIDE DEF AdvanceFinal
  <1>1. TypeOK'
    BY <1>b, <1>c, <1>d, <1>f, SMTT(30)
  <1>2. NoLostWakeup'
    BY <1>s, <1>c, <1>d, <1>f DEF NoLostWakeup, Available
  <1>3. EndedMeansDrained'
    BY <1>c, <1>d, <1>f DEF EndedMeansDrained, ClosedIsFinal, Available
  <1>4. ReceiptIsPosition'
    BY <1>f DEF ReceiptIsPosition
  <1>5. NoOrphanStream'
    BY <1>f DEF NoOrphanStream
  <1>6. LockIsExclusive'
    BY <1>f DEF LockIsExclusive
  <1>7. Registered'
    BY <1>c, <1>f DEF Registered
  <1>8. RecheckCovers'
    BY <1>s, <1>c, <1>d, <1>f DEF RecheckCovers, Available
  <1>9. ClosedIsFinal'
    BY <1>c, <1>f DEF ClosedIsFinal
  <1>10. CursorCounts'
    <2>1. \A q \in Readers : Len(got[q]) \in Nat /\ start[q] \in Nat /\ cursor[q] \in Nat
      OBVIOUS
    <2>2. ASSUME NEW q \in Readers
          PROVE  cursor'[q] = start'[q] + Len(got'[q])
      BY <1>b, <1>c, <1>d, <1>f, <2>1 DEF CursorCounts
    <2>3. ASSUME NEW q \in Readers, rpc'[q] \in Unopened
          PROVE  got'[q] = <<>>
      BY <1>b, <1>c, <1>d, <1>f, <2>3 DEF CursorCounts
    <2> QED
      BY <2>2, <2>3 DEF CursorCounts
  <1> QED
    BY <1>1, <1>2, <1>3, <1>4, <1>5, <1>6, <1>7, <1>8, <1>9, <1>10

\* The signal is cleared before the drain that precedes the wait.
LEMMA ClearSignalInv ==
  ASSUME StreamInv, NEW r \in Readers, ClearSignal(r)
  PROVE  StreamInv'
  <1> USE EventStreamAssumption
      DEF StreamInv, TypeOK, Streams, NoStream, Unopened, ReaderSteps, ClearSignal,
          streamVars, writerVars, removerVars, readerVars, readerRest
  <1>s. \A s : Signalling(s) => Signalling(s)'
    BY DEF Signalling
  <1>1. TypeOK'
    OBVIOUS
  <1>2. NoLostWakeup'
    BY <1>s DEF NoLostWakeup, Available
  <1>3. EndedMeansDrained'
    BY DEF EndedMeansDrained, Available
  <1>4. ReceiptIsPosition'
    BY DEF ReceiptIsPosition
  <1>5. NoOrphanStream'
    BY DEF NoOrphanStream
  <1>6. LockIsExclusive'
    BY DEF LockIsExclusive
  <1>7. Registered'
    BY DEF Registered
  <1>8. RecheckCovers'
    BY <1>s DEF RecheckCovers, Available
  <1>9. ClosedIsFinal'
    BY DEF ClosedIsFinal
  <1>10. CursorCounts'
    BY DEF CursorCounts
  <1> QED
    BY <1>1, <1>2, <1>3, <1>4, <1>5, <1>6, <1>7, <1>8, <1>9, <1>10

\* A woken reader drains again.
LEMMA WakeInv ==
  ASSUME StreamInv, NEW r \in Readers, Wake(r)
  PROVE  StreamInv'
  <1> USE EventStreamAssumption
      DEF StreamInv, TypeOK, Streams, NoStream, Unopened, ReaderSteps, Wake,
          streamVars, writerVars, removerVars, readerVars, readerRest
  <1>s. \A s : Signalling(s) => Signalling(s)'
    BY DEF Signalling
  <1>1. TypeOK'
    OBVIOUS
  <1>2. NoLostWakeup'
    BY <1>s DEF NoLostWakeup, Available
  <1>3. EndedMeansDrained'
    BY DEF EndedMeansDrained, Available
  <1>4. ReceiptIsPosition'
    BY DEF ReceiptIsPosition
  <1>5. NoOrphanStream'
    BY DEF NoOrphanStream
  <1>6. LockIsExclusive'
    BY DEF LockIsExclusive
  <1>7. Registered'
    BY DEF Registered
  <1>8. RecheckCovers'
    BY <1>s DEF RecheckCovers, Available
  <1>9. ClosedIsFinal'
    BY DEF ClosedIsFinal
  <1>10. CursorCounts'
    BY DEF CursorCounts
  <1> QED
    BY <1>1, <1>2, <1>3, <1>4, <1>5, <1>6, <1>7, <1>8, <1>9, <1>10

\* So does one whose timeout ran out.
LEMMA TimeoutInv ==
  ASSUME StreamInv, NEW r \in Readers, Timeout(r)
  PROVE  StreamInv'
  <1> USE EventStreamAssumption
      DEF StreamInv, TypeOK, Streams, NoStream, Unopened, ReaderSteps, Timeout,
          streamVars, writerVars, removerVars, readerVars, readerRest
  <1>s. \A s : Signalling(s) => Signalling(s)'
    BY DEF Signalling
  <1>1. TypeOK'
    OBVIOUS
  <1>2. NoLostWakeup'
    BY <1>s DEF NoLostWakeup, Available
  <1>3. EndedMeansDrained'
    BY DEF EndedMeansDrained, Available
  <1>4. ReceiptIsPosition'
    BY DEF ReceiptIsPosition
  <1>5. NoOrphanStream'
    BY DEF NoOrphanStream
  <1>6. LockIsExclusive'
    BY DEF LockIsExclusive
  <1>7. Registered'
    BY DEF Registered
  <1>8. RecheckCovers'
    BY <1>s DEF RecheckCovers, Available
  <1>9. ClosedIsFinal'
    BY DEF ClosedIsFinal
  <1>10. CursorCounts'
    BY DEF CursorCounts
  <1> QED
    BY <1>1, <1>2, <1>3, <1>4, <1>5, <1>6, <1>7, <1>8, <1>9, <1>10

\* A reader that closes itself needs no wake-up any more.
LEMMA CloseFlagInv ==
  ASSUME StreamInv, NEW r \in Readers, CloseFlag(r)
  PROVE  StreamInv'
  <1> USE EventStreamAssumption
      DEF StreamInv, TypeOK, Streams, NoStream, Unopened, ReaderSteps, CloseFlag,
          streamVars, writerVars, removerVars, readerVars, readerRest
  <1>s. \A s : Signalling(s) => Signalling(s)'
    BY DEF Signalling
  <1>1. TypeOK'
    OBVIOUS
  <1>2. NoLostWakeup'
    BY <1>s DEF NoLostWakeup, Available
  <1>3. EndedMeansDrained'
    BY DEF EndedMeansDrained, Available
  <1>4. ReceiptIsPosition'
    BY DEF ReceiptIsPosition
  <1>5. NoOrphanStream'
    BY DEF NoOrphanStream
  <1>6. LockIsExclusive'
    BY DEF LockIsExclusive
  <1>7. Registered'
    BY DEF Registered
  <1>8. RecheckCovers'
    BY <1>s DEF RecheckCovers, Available
  <1>9. ClosedIsFinal'
    BY DEF ClosedIsFinal
  <1>10. CursorCounts'
    BY DEF CursorCounts
  <1> QED
    BY <1>1, <1>2, <1>3, <1>4, <1>5, <1>6, <1>7, <1>8, <1>9, <1>10

\* It leaves the stream's signals last.
LEMMA CloseDiscardInv ==
  ASSUME StreamInv, NEW r \in Readers, CloseDiscard(r)
  PROVE  StreamInv'
  <1> USE EventStreamAssumption
      DEF StreamInv, TypeOK, Streams, NoStream, Unopened, ReaderSteps, CloseDiscard,
          streamVars, writerVars, removerVars, readerVars, readerRest
  <1>s. \A s : Signalling(s) => Signalling(s)'
    BY DEF Signalling
  <1>1. TypeOK'
    OBVIOUS
  <1>2. NoLostWakeup'
    BY <1>s DEF NoLostWakeup, Available
  <1>3. EndedMeansDrained'
    BY DEF EndedMeansDrained, Available
  <1>4. ReceiptIsPosition'
    BY DEF ReceiptIsPosition
  <1>5. NoOrphanStream'
    BY DEF NoOrphanStream
  <1>6. LockIsExclusive'
    BY DEF LockIsExclusive
  <1>7. Registered'
    BY DEF Registered
  <1>8. RecheckCovers'
    BY <1>s DEF RecheckCovers, Available
  <1>9. ClosedIsFinal'
    BY DEF ClosedIsFinal
  <1>10. CursorCounts'
    BY DEF CursorCounts
  <1> QED
    BY <1>1, <1>2, <1>3, <1>4, <1>5, <1>6, <1>7, <1>8, <1>9, <1>10

\* Every step of Next preserves the inductive invariant.
LEMMA NextInv == StreamInv /\ [Next]_vars => StreamInv'
  <1> SUFFICES ASSUME StreamInv, [Next]_vars
               PROVE  StreamInv'
    OBVIOUS
  <1>1. ASSUME NEW w \in Writers, WriterStep(w)
        PROVE  StreamInv'
    BY <1>1, AppendLookupInv, AppendRefusedInv, AppendWriteInv, AppendSignalInv
    DEF WriterStep
  <1>2. ASSUME NEW x \in Removers, RemoverStep(x)
        PROVE  StreamInv'
    BY <1>2, RemovePopInv, RemoveCloseInv, RemoveSignalInv DEF RemoverStep
  <1>3. ASSUME NEW r \in Readers, SubscribeStep(r)
        PROVE  StreamInv'
    BY <1>3, SubscribeLookupInv, SubscribeRefusedInv, SubscribeRegisterInv
    DEF SubscribeStep
  <1>4. ASSUME NEW r \in Readers, ReadStep(r) \/ Timeout(r)
        PROVE  StreamInv'
    BY <1>4, CheckSelfInv, AdvanceInv, CheckClosedInv, AdvanceFinalInv, ClearSignalInv,
       WakeInv, TimeoutInv
    DEF ReadStep
  <1>5. ASSUME NEW r \in Readers, CloseStep(r)
        PROVE  StreamInv'
    BY <1>5, CloseFlagInv, CloseDiscardInv DEF CloseStep
  <1> QED
    BY <1>1, <1>2, <1>3, <1>4, <1>5, StutterInv DEF Next

\* The inductive invariant holds of every behaviour of the event stream.
THEOREM StreamInvariant == Spec => []StreamInv
  BY InitInv, NextInv, PTL DEF Spec

\* Every variable of the event stream keeps its type.
THEOREM StreamTypeOK == Spec => []TypeOK
  <1>1. StreamInv => TypeOK
    BY DEF StreamInv
  <1> QED
    BY <1>1, StreamInvariant, PTL

\* The clear-then-recheck of read_next loses no wake-up, with any number of
\* writers, removers and readers.
THEOREM StreamNoLostWakeup == Spec => []NoLostWakeup
  <1>1. StreamInv => NoLostWakeup
    BY DEF StreamInv
  <1> QED
    BY <1>1, StreamInvariant, PTL

\* A reader is told the stream is over only after every event written to it.
THEOREM StreamEndedMeansDrained == Spec => []EndedMeansDrained
  <1>1. StreamInv => EndedMeansDrained
    BY DEF StreamInv
  <1> QED
    BY <1>1, StreamInvariant, PTL

\* The number append() returns is the position of that event for ever.
THEOREM StreamReceiptIsPosition == Spec => []ReceiptIsPosition
  <1>1. StreamInv => ReceiptIsPosition
    BY DEF StreamInv
  <1> QED
    BY <1>1, StreamInvariant, PTL

\* A stream that left the table is closed, or is about to be.
THEOREM StreamNoOrphan == Spec => []NoOrphanStream
  <1>1. StreamInv => NoOrphanStream
    BY DEF StreamInv
  <1> QED
    BY <1>1, StreamInvariant, PTL

\* The initial states are initial states of the abstract log.
LEMMA InitRefines == Init => Log!Init
  <1> SUFFICES ASSUME Init
               PROVE  Log!Init
    OBVIOUS
  <1>1. LogEvents = [s \in AllStreams |-> <<>>] /\ LogSealed = [s \in AllStreams |-> FALSE]
    BY DEF Init, LogEvents, LogSealed, AllStreams
  <1>2. LogStatus = [r \in Readers |-> "new"]
    BY DEF Init, LogStatus, Status, Unopened
  <1>3. rstream \in [Readers -> AllStreams]
    BY DEF Init, AllStreams
  <1> QED
    BY <1>1, <1>2, <1>3 DEF Init, Log!Init

\* A step that leaves the lists, the flags and what readers have come to
\* unchanged is invisible in the abstract log.
LEMMA Invisible ==
  ASSUME UNCHANGED <<events, closed, rstream, start, got>>, LogStatus' = LogStatus
  PROVE  UNCHANGED Log!vars
  BY DEF Log!vars, LogEvents, LogSealed

\* What is seen of a writer is its event entering the list.
LEMMA WriterRefines ==
  ASSUME StreamInv, NEW w \in Writers, WriterStep(w)
  PROVE  [Log!Next]_(Log!vars)
  <1> USE DEF StreamInv, TypeOK, streamVars, writerVars, removerVars, readerVars
  <1>1. LogStatus' = LogStatus /\ UNCHANGED <<rstream, start, got>>
    BY DEF WriterStep, AppendLookup, AppendRefused, AppendWrite, AppendSignal,
           LogStatus, Status
  <1>2. CASE AppendWrite(w)
    <2>1. /\ wstream[w] \in AllStreams /\ wstream[w] # NoStream
          /\ wevent[w] \in 1 .. MaxEvents
      BY <1>2, EventStreamAssumption DEF AppendWrite, AllStreams, Streams, NoStream
    <2>2. LogEvents' = [LogEvents EXCEPT ![wstream[w]] = Append(@, wevent[w])]
      BY <1>2, <2>1 DEF AppendWrite, LogEvents, AllStreams
    <2>3. ~LogSealed[wstream[w]] /\ LogSealed' = LogSealed
      BY <1>2, <2>1 DEF AppendWrite, LogSealed
    <2>4. Log!Append1(wstream[w])
      BY <1>1, <2>1, <2>2, <2>3 DEF Log!Append1
    <2> QED
      BY <2>1, <2>4 DEF Log!Next
  <1>3. CASE ~AppendWrite(w)
    <2>1. UNCHANGED <<events, closed>>
      BY <1>3 DEF WriterStep, AppendLookup, AppendRefused, AppendSignal
    <2> QED
      BY <1>1, <2>1, Invisible
  <1> QED
    BY <1>2, <1>3

\* What is seen of a remover is the closed flag going up.
LEMMA RemoverRefines ==
  ASSUME StreamInv, NEW x \in Removers, RemoverStep(x)
  PROVE  [Log!Next]_(Log!vars)
  <1> USE DEF StreamInv, TypeOK, streamVars, writerVars, removerVars, readerVars
  <1>1. LogStatus' = LogStatus /\ UNCHANGED <<events, rstream, start, got>>
    BY DEF RemoverStep, RemovePop, RemoveClose, RemoveSignal, LogStatus, Status
  <1>2. CASE RemoveClose(x)
    <2>1. xstream[x] \in AllStreams /\ xstream[x] # NoStream
      BY <1>2, EventStreamAssumption DEF RemoveClose, AllStreams, Streams, NoStream
    <2>2. LogSealed' = [LogSealed EXCEPT ![xstream[x]] = TRUE] /\ LogEvents' = LogEvents
      BY <1>1, <1>2, <2>1 DEF RemoveClose, LogSealed, LogEvents, AllStreams
    <2>3. Log!Seal(xstream[x])
      BY <1>1, <2>2 DEF Log!Seal
    <2> QED
      BY <2>1, <2>3 DEF Log!Next
  <1>3. CASE ~RemoveClose(x)
    <2>1. UNCHANGED closed
      BY <1>3 DEF RemoverStep, RemovePop, RemoveSignal
    <2> QED
      BY <1>1, <2>1, Invisible
  <1> QED
    BY <1>2, <1>3

\* A subscription first chooses its log and then opens it.
LEMMA SubscribeRefines ==
  ASSUME StreamInv, NEW r \in Readers, SubscribeStep(r)
  PROVE  [Log!Next]_(Log!vars)
  <1> USE DEF StreamInv, TypeOK, streamVars, writerVars, removerVars, readerVars,
              Unopened
  <1>1. LogEvents' = LogEvents /\ LogSealed' = LogSealed /\ got' = got
    BY DEF SubscribeStep, SubscribeLookup, SubscribeRefused, SubscribeRegister,
           LogEvents, LogSealed
  <1>2. CASE SubscribeLookup(r)
    <2>1. LogStatus' = LogStatus /\ LogStatus[r] = "new"
      BY <1>2 DEF SubscribeLookup, LogStatus, Status
    <2>2. PICK s \in AllStreams : rstream' = [rstream EXCEPT ![r] = s]
      BY <1>2 DEF SubscribeLookup, AllStreams
    <2>3. PICK c \in StartCursors : start' = [start EXCEPT ![r] = c]
      BY <1>2 DEF SubscribeLookup
    <2>4. Log!Choose(r)
      BY <1>1, <2>1, <2>2, <2>3 DEF Log!Choose
    <2> QED
      BY <2>4 DEF Log!Next
  <1>3. CASE SubscribeRefused(r)
    <2>1. LogStatus' = LogStatus
      BY <1>3 DEF SubscribeRefused, LogStatus, Status
    <2> QED
      BY <1>3, <2>1, Invisible DEF SubscribeRefused
  <1>4. CASE SubscribeRegister(r)
    <2>1. LogStatus' = [LogStatus EXCEPT ![r] = "reading"] /\ LogStatus[r] = "new"
      BY <1>4 DEF SubscribeRegister, LogStatus, Status
    <2>2. ~LogSealed[rstream[r]]
      BY <1>4, EventStreamAssumption
      DEF SubscribeRegister, LogSealed, AllStreams, Streams, NoStream
    <2>3. Log!Open(r)
      BY <1>1, <1>4, <2>1, <2>2 DEF Log!Open, SubscribeRegister
    <2> QED
      BY <2>3 DEF Log!Next
  <1> QED
    BY <1>2, <1>3, <1>4 DEF SubscribeStep

\* A reader on an opened stream has the list and the flag of that stream.
LEMMA SourceOfReader ==
  ASSUME StreamInv, NEW r \in Readers, rpc[r] \notin Unopened
  PROVE  /\ rstream[r] \in AllStreams
         /\ LogEvents[rstream[r]] = events[rstream[r]]
         /\ LogSealed[rstream[r]] = closed[rstream[r]]
  <1>1. rstream[r] \in Streams /\ rstream[r] # NoStream
    BY EventStreamAssumption DEF StreamInv, TypeOK, Streams, NoStream, Unopened
  <1> QED
    BY <1>1 DEF LogEvents, LogSealed, AllStreams

\* Returning an event delivers the log's next entry.
LEMMA ReturnRefines ==
  ASSUME StreamInv, NEW r \in Readers, Status(r) = "reading", rpc[r] \notin Unopened,
         Available(r), Return(r), UNCHANGED <<events, closed, rstream, start>>
  PROVE  Log!Deliver(r)
  <1> USE DEF StreamInv, TypeOK, Unopened
  <1>1. LogStatus' = LogStatus /\ LogStatus[r] = "reading"
    BY DEF Return, LogStatus, Status
  <1>2. LogEvents' = LogEvents /\ LogSealed' = LogSealed
    BY DEF LogEvents, LogSealed
  <1>3. Log!Position(r) = cursor[r] + 1
    BY DEF CursorCounts, Log!Position
  <1>4. Log!Position(r) <= Len(LogEvents[rstream[r]])
    BY <1>3, SourceOfReader, SMTT(30) DEF Available
  <1>5. got' = [got EXCEPT ![r] = Append(@, LogEvents[rstream[r]][Log!Position(r)])]
    BY <1>3, SourceOfReader DEF Return
  <1> QED
    BY <1>1, <1>2, <1>4, <1>5 DEF Log!Deliver

\* What is seen of a reader is an event returned, the end, or its giving up.
LEMMA ReadRefines ==
  ASSUME StreamInv, NEW r \in Readers, ReadStep(r) \/ Timeout(r)
  PROVE  [Log!Next]_(Log!vars)
  <1> USE DEF StreamInv, TypeOK, streamVars, writerVars, removerVars, readerVars,
              readerRest, Unopened
  <1>1. /\ UNCHANGED <<events, closed, rstream, start>>
        /\ LogEvents' = LogEvents /\ LogSealed' = LogSealed
    BY DEF ReadStep, CheckSelf, Advance, CheckClosed, AdvanceFinal, ClearSignal, Wake,
           Timeout, LogEvents, LogSealed
  <1>2. CASE CheckSelf(r)
    <2>1. CASE closing[r] = "open"
      <3>1. LogStatus' = LogStatus
        BY <1>2, <2>1 DEF CheckSelf, LogStatus, Status
      <3> QED
        BY <1>1, <1>2, <3>1, Invisible DEF CheckSelf
    <2>2. CASE closing[r] # "open"
      <3>1. LogStatus' = [LogStatus EXCEPT ![r] = "aborted"] /\ LogStatus[r] = "reading"
        BY <1>2, <2>2 DEF CheckSelf, LogStatus, Status
      <3>2. Log!Abort(r)
        BY <1>1, <1>2, <3>1 DEF Log!Abort, CheckSelf
      <3> QED
        BY <3>2 DEF Log!Next
    <2> QED
      BY <2>1, <2>2
  <1>3. CASE (Advance(r) \/ AdvanceFinal(r)) /\ Available(r)
    <2>1. Return(r) /\ Status(r) = "reading" /\ rpc[r] \notin Unopened
      BY <1>3 DEF Advance, AdvanceFinal, Status
    <2> QED
      BY <1>1, <1>3, <2>1, ReturnRefines DEF Log!Next
  <1>4. CASE Advance(r) /\ ~Available(r)
    <2>1. LogStatus' = LogStatus /\ got' = got
      BY <1>4 DEF Advance, LogStatus, Status
    <2> QED
      BY <1>1, <2>1, Invisible
  <1>5. CASE AdvanceFinal(r) /\ ~Available(r)
    <2>1. /\ LogStatus' = [LogStatus EXCEPT ![r] = "ended"]
          /\ LogStatus[r] = "reading" /\ rpc[r] = "final" /\ got' = got
      BY <1>5 DEF AdvanceFinal, LogStatus, Status
    <2>2. LogSealed[rstream[r]]
      BY <2>1, SourceOfReader DEF ClosedIsFinal
    <2>3. Log!Position(r) = cursor[r] + 1
      BY DEF CursorCounts, Log!Position
    <2>4. events[rstream[r]] \in Seq(Nat) /\ cursor[r] \in Nat
      BY <2>1, EventStreamAssumption DEF Streams, NoStream
    <2>5. Log!Position(r) > Len(LogEvents[rstream[r]])
      <3>1. LogEvents[rstream[r]] = events[rstream[r]]
        BY <2>1, SourceOfReader
      <3>2. Len(events[rstream[r]]) \in Nat /\ cursor[r] >= Len(events[rstream[r]])
        BY <1>5, <2>4 DEF Available
      <3> QED
        BY <2>3, <2>4, <3>1, <3>2
    <2>6. Log!End(r)
      BY <1>1, <2>1, <2>2, <2>5 DEF Log!End
    <2> QED
      BY <2>6 DEF Log!Next
  <1>6. CASE CheckClosed(r) \/ ClearSignal(r) \/ Wake(r) \/ Timeout(r)
    <2>1. LogStatus' = LogStatus /\ got' = got
      BY <1>6 DEF CheckClosed, ClearSignal, Wake, Timeout, LogStatus, Status
    <2> QED
      BY <1>1, <2>1, Invisible
  <1> QED
    BY <1>2, <1>3, <1>4, <1>5, <1>6 DEF ReadStep

\* The reader's own close() is seen only once the reader notices it.
LEMMA CloseRefines ==
  ASSUME StreamInv, NEW r \in Readers, CloseStep(r)
  PROVE  [Log!Next]_(Log!vars)
  <1>1. LogStatus' = LogStatus /\ UNCHANGED <<events, closed, rstream, start, got>>
    BY DEF CloseStep, CloseFlag, CloseDiscard, LogStatus, Status, streamVars
  <1> QED
    BY <1>1, Invisible

\* Every step is a step of the abstract log or invisible in it.
LEMMA StepRefines == StreamInv /\ [Next]_vars => [Log!Next]_(Log!vars)
  <1> SUFFICES ASSUME StreamInv, [Next]_vars
               PROVE  [Log!Next]_(Log!vars)
    OBVIOUS
  <1>1. CASE UNCHANGED vars
    <2>1. LogStatus' = LogStatus /\ UNCHANGED <<events, closed, rstream, start, got>>
      BY <1>1 DEF vars, streamVars, readerVars, LogStatus, Status
    <2> QED
      BY <2>1, Invisible
  <1>2. CASE Next
    BY <1>2, WriterRefines, RemoverRefines, SubscribeRefines, ReadRefines, CloseRefines
    DEF Next
  <1> QED
    BY <1>1, <1>2

\* The event stream, with its threads, locks, signals and cursors, implements
\* the abstract log: each reader is given its stream's events from its start
\* cursor, in order, each once, and the end only after the last of them.
THEOREM StreamImplementsEventLog == Spec => ImplementsEventLog
  BY InitRefines, StepRefines, StreamInvariant, PTL
  DEF Spec, ImplementsEventLog, Log!Spec
===============================================================================
