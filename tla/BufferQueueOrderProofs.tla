---------------------- MODULE BufferQueueOrderProofs ----------------------
(***************************************************************************)
(* Order and delivery.  NoLoss, ContiguousSequences and InOrderProcessing  *)
(* are not inductive: a dequeue removes entries because of last_acked, and *)
(* a batch is finished because of handed, so the invariant ties the        *)
(* manifest to the history, and each consumer's cursors to what has been   *)
(* finished.  It needs callers that finish batches in the order they get   *)
(* them; it needs nothing of the object store, the clocks or the collector.*)
(***************************************************************************)
EXTENDS BufferQueueProofs

\* Manifest m holds the end of history h, each batch under its position.
LogMatches(m, h) ==
    /\ m.next_sequence = Len(h)
    /\ Len(m.entries) <= Len(h)
    /\ \A i \in 1..Len(m.entries) :
          /\ m.entries[i].sequence = Len(h) - Len(m.entries) + i - 1
          /\ m.entries[i].location = h[Len(h) - Len(m.entries) + i]

\* What has left the manifest is finished.
ForgottenFinished(m, h, done) ==
    \A s \in 0..(Len(h) - Len(m.entries) - 1) : s \in done

\* The finished batches are a prefix of the history.
FinishedPrefix(h, done) ==
    \A s \in done : s < Len(h) /\ \A t \in 0..s : t \in done

QueueInOrder(m, h, done) ==
    LogMatches(m, h) /\ ForgottenFinished(m, h, done) /\ FinishedPrefix(h, done)

\* Every batch up to s is finished or in the hands of con's caller.
Accounted(con, s, done) == \A t \in 0..s : t \in done \/ t \in con.handed

\* A consumer's cursors never run ahead of what is accounted for.
CursorsBehind(con, h, done) ==
    /\ con.last_acked # NoSeq => con.last_acked \in done
    /\ \A s \in con.handed : s < Len(h) /\ Accounted(con, s, done)
    /\ con.last_fetched # NoSeq =>
          con.last_fetched < Len(h) /\ Accounted(con, con.last_fetched, done)
    /\ con.phase = "fetch" =>
          /\ con.fetching.sequence \in 0..(Len(h) - 1)
          /\ Accounted(con, con.fetching.sequence - 1, done)

\* A watcher told that its batch is durable was told the truth.
ToldTheTruth ==
    \A l \in Locations : result[l] = "ok" => \E i \in DOMAIN log : log[i] = l

OrderInv ==
    /\ QueueInOrder(manifest, log, processed)
    /\ \A c \in Consumers : CursorsBehind(consumer[c], log, processed)
    /\ ToldTheTruth

\* An append extends the manifest and the history alike.
LEMMA AppendInOrder ==
    ASSUME NEW m \in Manifest, NEW h \in Seq(Locations), NEW done \in SUBSET Nat,
           NEW l \in Locations, QueueInOrder(m, h, done)
    PROVE  QueueInOrder(ManifestAppend(m, l), Append(h, l), done)
<1> DEFINE n == Len(m.entries)
           N == Len(h)
           e == [sequence |-> m.next_sequence, location |-> l]
           es == Append(m.entries, e)
           h2 == Append(h, l)
           m2 == ManifestAppend(m, l)
<1>1. m2.entries = es /\ m2.next_sequence = m.next_sequence + 1
  BY DEF Manifest, ManifestAppend
<1>2. m.entries \in Seq(Entry) /\ e \in Entry
  BY DEF Manifest, Entry
<1>3. /\ Len(es) = n + 1
      /\ \A i \in 1..n : es[i] = m.entries[i]
      /\ es[n + 1] = e
      /\ n \in Nat
  BY <1>2, AppendProperties, LenProperties
<1>4. /\ Len(h2) = N + 1
      /\ \A i \in 1..N : h2[i] = h[i]
      /\ h2[N + 1] = l
      /\ N \in Nat
  BY AppendProperties, LenProperties
<1>5. /\ m.next_sequence = N /\ n <= N
      /\ \A i \in 1..n : /\ m.entries[i].sequence = N - n + i - 1
                         /\ m.entries[i].location = h[N - n + i]
      /\ \A s \in 0..(N - n - 1) : s \in done
      /\ \A s \in done : s < N /\ \A t \in 0..s : t \in done
  BY DEF QueueInOrder, LogMatches, ForgottenFinished, FinishedPrefix
<1>6. e.sequence = N /\ e.location = l
  BY <1>5
<1> HIDE DEF e, es, h2, m2, n, N
<1>7. ASSUME NEW i \in 1..(n + 1)
      PROVE  /\ es[i].sequence = (N + 1) - (n + 1) + i - 1
             /\ es[i].location = h2[(N + 1) - (n + 1) + i]
  <2>0. (N + 1) - (n + 1) + i = N - n + i
    BY <1>3, <1>4
  <2>1. CASE i = n + 1
    <3>1. N - n + i = N + 1
      BY <1>3, <1>4, <2>1
    <3> QED
      BY <1>3, <1>4, <1>6, <2>0, <2>1, <3>1
  <2>2. CASE i \in 1..n
    <3>1. N - n + i \in 1..N
      BY <1>3, <1>4, <1>5, <2>2
    <3>2. es[i] = m.entries[i]
      BY <1>3, <2>2
    <3>3. h2[N - n + i] = h[N - n + i]
      BY <1>4, <3>1
    <3>4. es[i].sequence = N - n + i - 1 /\ es[i].location = h2[N - n + i]
      BY <1>5, <2>2, <3>2, <3>3
    <3> QED
      BY <1>3, <1>4, <2>0, <3>4
  <2> QED
    BY <1>3, <2>1, <2>2
<1>8. LogMatches(m2, h2)
  <2>1. Len(m2.entries) = n + 1 /\ Len(h2) = N + 1 /\ m2.next_sequence = N + 1
    BY <1>1, <1>3, <1>4, <1>5
  <2>2. n + 1 <= N + 1
    BY <1>3, <1>4, <1>5
  <2> QED
    BY <1>1, <1>7, <2>1, <2>2 DEF LogMatches
<1>9. ForgottenFinished(m2, h2, done)
  BY <1>1, <1>3, <1>4, <1>5 DEF ForgottenFinished
<1>10. FinishedPrefix(h2, done)
  BY <1>4, <1>5 DEF FinishedPrefix
<1> QED
  BY <1>8, <1>9, <1>10 DEF h2, m2, QueueInOrder

\* A dequeue through a finished batch removes finished batches only.
LEMMA DequeueInOrder ==
    ASSUME NEW m \in Manifest, NEW h \in Seq(Locations), NEW done \in SUBSET Nat,
           NEW last \in Nat \cup {NoSeq}, last = NoSeq \/ last \in done,
           QueueInOrder(m, h, done)
    PROVE  QueueInOrder(ManifestDequeue(m, last), h, done)
<1> DEFINE k == SplitEntries(m.entries, last)
           n == Len(m.entries)
           N == Len(h)
           es == SubSeq(m.entries, k + 1, n)
           m2 == ManifestDequeue(m, last)
<1>1. m2.entries = es /\ m2.next_sequence = m.next_sequence
  BY DEF Manifest, ManifestDequeue
<1>2. m.entries \in Seq(Entry) /\ last \in Int
  BY DEF Manifest, NoSeq
<1>3. /\ k \in 0..n /\ n \in Nat /\ N \in Nat
      /\ \A i \in 1..k : m.entries[i].sequence <= last
  BY <1>2, SplitEntriesSpec, LenProperties
<1>4. \A i \in (k + 1)..n : m.entries[i] \in Entry
  BY <1>2, <1>3, ElementOfSeq
<1>5. /\ m.next_sequence = N /\ n <= N
      /\ \A i \in 1..n : /\ m.entries[i].sequence = N - n + i - 1
                         /\ m.entries[i].location = h[N - n + i]
      /\ \A s \in 0..(N - n - 1) : s \in done
      /\ \A s \in done : s < N /\ \A t \in 0..s : t \in done
  BY DEF QueueInOrder, LogMatches, ForgottenFinished, FinishedPrefix
<1> HIDE DEF k, m2, n, N
<1>6. Len(es) = n - k /\ \A i \in 1..(n - k) : es[i] = m.entries[k + i]
  <2>1. /\ Len(es) = IF k + 1 <= n THEN n - (k + 1) + 1 ELSE 0
        /\ \A i \in 1..(n - (k + 1) + 1) : es[i] = m.entries[k + 1 + i - 1]
    BY <1>3, <1>4, SubSeqProperties
  <2> QED
    BY <1>3, <2>1
<1> HIDE DEF es
<1>7. ASSUME NEW i \in 1..(n - k)
      PROVE  /\ es[i].sequence = N - (n - k) + i - 1
             /\ es[i].location = h[N - (n - k) + i]
  <2>1. k + i \in 1..n /\ N - n + (k + i) = N - (n - k) + i
    BY <1>3
  <2>2. es[i] = m.entries[k + i]
    BY <1>6
  <2>3. /\ m.entries[k + i].sequence = N - n + (k + i) - 1
        /\ m.entries[k + i].location = h[N - n + (k + i)]
    BY <1>5, <2>1
  <2> QED
    BY <1>3, <2>1, <2>2, <2>3
<1>8. LogMatches(m2, h)
  <2>1. Len(m2.entries) = n - k /\ m2.next_sequence = N /\ Len(h) = N
    BY <1>1, <1>5, <1>6 DEF N
  <2>2. n - k <= N
    BY <1>3, <1>5
  <2> QED
    BY <1>1, <1>7, <2>1, <2>2 DEF LogMatches
<1>9. ForgottenFinished(m2, h, done)
  <2>1. ASSUME NEW s \in 0..(N - (n - k) - 1) PROVE s \in done
    <3>1. CASE s <= N - n - 1
      BY <1>3, <1>5, <3>1
    <3>2. CASE s > N - n - 1
      <4>1. s - (N - n) + 1 \in 1..k
        BY <1>3, <1>5, <3>2
      <4>2. m.entries[s - (N - n) + 1].sequence = s
        BY <1>3, <1>5, <4>1
      <4>3. s <= last
        BY <1>3, <4>1, <4>2
      <4> QED
        BY <1>3, <1>5, <4>3 DEF NoSeq
    <3> QED
      BY <1>3, <3>1, <3>2
  <2> QED
    BY <1>1, <1>6, <2>1 DEF ForgottenFinished, N
<1>10. FinishedPrefix(h, done)
  BY DEF QueueInOrder
<1> QED
  BY <1>8, <1>9, <1>10 DEF m2, QueueInOrder

\* Appending and finishing only help.
LEMMA CursorsStayBehind ==
    ASSUME NEW con \in Consumer, NEW h \in Seq(Locations),
           NEW h2 \in Seq(Locations), Len(h) <= Len(h2),
           NEW done, NEW done2, done \subseteq done2,
           CursorsBehind(con, h, done)
    PROVE  CursorsBehind(con, h2, done2)
<1>1. Len(h) \in Nat /\ Len(h2) \in Nat
  BY LenProperties
<1>2. con.handed \subseteq Nat /\ con.last_fetched \in Nat \cup {NoSeq}
  BY DEF Consumer
<1>3. \A s : Accounted(con, s, done) => Accounted(con, s, done2)
  BY DEF Accounted
<1> QED
  BY <1>1, <1>2, <1>3 DEF CursorsBehind, NoSeq

\* The cursors do not move, and no fetch is in progress.
SameCursors(con, con2) ==
    /\ con2.last_acked = con.last_acked
    /\ con2.last_fetched = con.last_fetched
    /\ con2.handed = con.handed
    /\ con2.phase # "fetch"

LEMMA SameCursorsStayBehind ==
    ASSUME NEW con, NEW con2, NEW h, NEW done,
           CursorsBehind(con, h, done),
           SameCursors(con, con2) \/ con2 = StoppedConsumer
    PROVE  CursorsBehind(con2, h, done)
<1>1. CASE SameCursors(con, con2)
  BY <1>1 DEF SameCursors, CursorsBehind, Accounted
<1>2. CASE con2 = StoppedConsumer
  BY <1>2 DEF StoppedConsumer, NewConsumer, CursorsBehind
<1> QED
  BY <1>1, <1>2

\* The steps that only talk to the object store about the manifest.
Quiet(c) ==
    \/ InitializeRead(c) \/ InitializeCas(c) \/ DequeueRead(c) \/ DequeueCas(c)
    \/ Flush(c) \/ Close(c) \/ ConsumerCrash(c)

LEMMA QuietKeepsCursors ==
    ASSUME TypeInv, NEW c \in Consumers, Quiet(c)
    PROVE  /\ \E con : /\ consumer' = [consumer EXCEPT ![c] = con]
                       /\ \/ SameCursors(consumer[c], con)
                          \/ con = StoppedConsumer
           /\ UNCHANGED <<result, processed, log>>
<1> DEFINE Me == consumer[c]
           Goal == \E con : /\ consumer' = [consumer EXCEPT ![c] = con]
                            /\ \/ SameCursors(Me, con)
                               \/ con = StoppedConsumer
<1>0. Me \in Consumer /\ consumer \in [Consumers -> Consumer]
  BY DEF TypeInv, TypeOK
<1>1. ASSUME NEW con, consumer' = [consumer EXCEPT ![c] = con],
             SameCursors(Me, con) \/ con = StoppedConsumer
      PROVE  Goal
  BY <1>1
<1>2. ASSUME NEW ok \in BOOLEAN, DequeueReturns(c, ok)
      PROVE  Goal
  <2> DEFINE con == [[Me EXCEPT !.snap = EmptyManifest, !.goal = "start"]
                        EXCEPT !.phase = "ready"]
  <2>1. SameCursors(Me, con)
    BY <1>0 DEF SameCursors, Consumer
  <2> QED
    BY <1>1, <1>2, <2>1 DEF DequeueReturns, Constructed
<1>3. CASE InitializeRead(c)
  <2>1. SameCursors(Me, [Me EXCEPT !.phase = "init_cas", !.snap = manifest])
    BY <1>0 DEF SameCursors, Consumer
  <2> QED
    BY <1>1, <1>3, <2>1 DEF InitializeRead
<1>4. CASE InitializeCas(c)
  <2> DEFINE idle == [Me EXCEPT !.snap = EmptyManifest]
             next == Me.snap.epoch + 1
  <2>1. /\ SameCursors(Me, [idle EXCEPT !.phase = "ready", !.epoch = next])
        /\ SameCursors(Me, [idle EXCEPT !.phase = "deq", !.goal = "start",
                                        !.epoch = next])
        /\ SameCursors(Me, [idle EXCEPT !.phase = "init"])
    <3> HIDE DEF next
    <3> QED
      BY <1>0 DEF SameCursors, Consumer
  <2> QED
    BY <1>1, <1>4, <2>1 DEF InitializeCas, Constructed
<1>5. CASE DequeueRead(c)
  <2>1. SameCursors(Me, [Me EXCEPT !.phase = "deq_cas", !.snap = manifest])
    BY <1>0 DEF SameCursors, Consumer
  <2> QED
    BY <1>1, <1>2, <1>5, <2>1 DEF DequeueRead
<1>6. CASE DequeueCas(c)
  <2>1. SameCursors(Me, [Me EXCEPT !.phase = "deq", !.snap = EmptyManifest])
    BY <1>0 DEF SameCursors, Consumer
  <2> QED
    BY <1>1, <1>2, <1>6, <2>1 DEF DequeueCas
<1>7. CASE Flush(c) \/ Close(c)
  <2>1. ASSUME NEW goal, FlushAcks(c, goal)
        PROVE  Goal /\ UNCHANGED <<result, processed, log>>
    <3>1. SameCursors(Me, [Me EXCEPT !.phase = "deq", !.goal = goal])
      BY <1>0 DEF SameCursors, Consumer
    <3> QED
      BY <1>1, <2>1, <3>1 DEF FlushAcks
  <2> QED
    BY <1>1, <1>7, <2>1 DEF Flush, Close
<1>8. CASE ConsumerCrash(c)
  BY <1>1, <1>8 DEF ConsumerCrash
<1> QED
  BY <1>3, <1>4, <1>5, <1>6, <1>7, <1>8 DEF Quiet

LEMMA SetEpochInOrder ==
    ASSUME NEW m \in Manifest, NEW h, NEW done, NEW e \in Nat,
           QueueInOrder(m, h, done)
    PROVE  QueueInOrder(ManifestSetEpoch(m, e), h, done)
<1>1. /\ ManifestSetEpoch(m, e).entries = m.entries
      /\ ManifestSetEpoch(m, e).next_sequence = m.next_sequence
  BY DEF ManifestSetEpoch, Manifest
<1> QED
  BY <1>1 DEF QueueInOrder, LogMatches, ForgottenFinished, FinishedPrefix

LEMMA OrderInit == Init => OrderInv
<1> SUFFICES ASSUME Init PROVE OrderInv
  OBVIOUS
<1>1. QueueInOrder(manifest, log, processed)
  BY DEF Init, EmptyManifest, QueueInOrder, LogMatches, ForgottenFinished,
         FinishedPrefix
<1>2. \A c \in Consumers : CursorsBehind(consumer[c], log, processed)
  BY DEF Init, NewConsumer, CursorsBehind
<1>3. ToldTheTruth
  BY DEF Init, ToldTheTruth
<1> QED
  BY <1>1, <1>2, <1>3 DEF OrderInv

\* EnqueueCas is the only producer step that touches the queue.
LEMMA OrderProducerStep ==
    ASSUME TypeInv, OrderInv, NEW p \in Producers,
           ProducerNext(p) \/ ProducerCrash(p)
    PROVE  OrderInv'
<1> DEFINE Me == producer[p]
<1>0. /\ Me \in Producer /\ log \in Seq(Locations) /\ manifest \in Manifest
      /\ result \in [Locations -> {"unused", "pending", "ok", "err"}]
      /\ processed \in SUBSET Nat /\ consumer \in [Consumers -> Consumer]
  BY DEF TypeInv, TypeOK
<1>1. ASSUME UNCHANGED <<manifest, consumer, processed, log>>,
             \A l \in Locations : result'[l] = "ok" => result[l] = "ok"
      PROVE  OrderInv'
  BY <1>1 DEF OrderInv, ToldTheTruth
<1>2. CASE StartBatch(p) \/ ProducerCrash(p)
  <2>1. \A l \in Locations : result'[l] = "ok" => result[l] = "ok"
    BY <1>0, <1>2 DEF StartBatch, ProducerCrash
  <2> QED
    BY <1>1, <1>2, <2>1 DEF StartBatch, ProducerCrash
<1>3. CASE PutBatchFile(p) \/ EnqueueRead(p)
  <2>1. \A l \in Locations : result'[l] = "ok" => result[l] = "ok"
    BY <1>0, <1>3 DEF PutBatchFile, EnqueueRead, FinishBatch
  <2> QED
    BY <1>1, <1>3, <2>1 DEF PutBatchFile, EnqueueRead
<1>4. CASE EnqueueCas(p)
  <2>1. Me.loc \in Locations /\ Me.snap \in Manifest
    BY <1>0, <1>4 DEF EnqueueCas, Producer, TypeInv, ProducerHasLocation
  <2>2. PICK answer \in {"ok", "conflict", "fatal"} :
            /\ PutManifest(Me.snap, ManifestAppend(Me.snap, Me.loc), answer)
            /\ \/ answer = "ok" /\ FinishBatch(p, "ok")
               \/ answer = "conflict" /\ UNCHANGED result
               \/ answer = "fatal" /\ FinishBatch(p, "err")
    BY <1>4 DEF EnqueueCas
  <2>3. UNCHANGED <<consumer, processed>>
    BY <1>4 DEF EnqueueCas
  <2>4. CASE manifest' = manifest
    <3>1. log' = log
      BY <1>4, <2>4 DEF EnqueueCas
    <3>2. answer # "ok"
      <4>1. ManifestAppend(manifest, Me.loc).next_sequence # manifest.next_sequence
        BY <1>0 DEF ManifestAppend, Manifest
      <4> QED
        BY <2>2, <2>4, <4>1, PutManifestOutcome
    <3>3. \A l \in Locations : result'[l] = "ok" => result[l] = "ok"
      BY <1>0, <2>2, <3>2 DEF FinishBatch
    <3> QED
      BY <1>1, <2>3, <2>4, <3>1, <3>3
  <2>5. CASE manifest' # manifest
    <3>1. manifest' = ManifestAppend(manifest, Me.loc)
      BY <2>2, <2>5, PutManifestOutcome
    <3>2. log' = Append(log, Me.loc)
      BY <1>4, <2>5 DEF EnqueueCas
    <3>3. /\ Len(log') = Len(log) + 1
          /\ \A i \in 1..Len(log) : log'[i] = log[i]
          /\ log'[Len(log) + 1] = Me.loc
          /\ log' \in Seq(Locations)
          /\ Len(log) \in Nat
          /\ DOMAIN log = 1..Len(log) /\ DOMAIN log' = 1..Len(log')
      BY <1>0, <2>1, <3>2, AppendProperties, LenProperties
    <3>4. QueueInOrder(manifest', log', processed')
      BY <1>0, <2>1, <2>3, <3>1, <3>2, AppendInOrder DEF OrderInv
    <3>5. \A c \in Consumers : CursorsBehind(consumer'[c], log', processed')
      BY <1>0, <2>3, <3>3, CursorsStayBehind DEF OrderInv
    <3>6. ToldTheTruth'
      <4> SUFFICES ASSUME NEW l \in Locations, result'[l] = "ok"
                   PROVE  \E i \in DOMAIN log' : log'[i] = l
        BY DEF ToldTheTruth
      <4>1. CASE l = Me.loc
        BY <3>3, <4>1
      <4>2. CASE l # Me.loc
        <5>1. result[l] = "ok"
          BY <1>0, <2>2, <4>2 DEF FinishBatch
        <5> QED
          BY <3>3, <5>1 DEF OrderInv, ToldTheTruth
      <4> QED
        BY <4>1, <4>2
    <3> QED
      BY <3>4, <3>5, <3>6 DEF OrderInv
  <2> QED
    BY <2>4, <2>5
<1> QED
  BY <1>2, <1>3, <1>4 DEF ProducerNext

\* Takeovers and dequeues.
LEMMA OrderQuietStep ==
    ASSUME TypeInv, OrderInv, NEW c \in Consumers, Quiet(c)
    PROVE  OrderInv'
<1> DEFINE Me == consumer[c]
<1>0. /\ Me \in Consumer /\ log \in Seq(Locations) /\ manifest \in Manifest
      /\ processed \in SUBSET Nat /\ consumer \in [Consumers -> Consumer]
  BY DEF TypeInv, TypeOK
<1>1. UNCHANGED <<result, processed, log>>
  BY QuietKeepsCursors
<1>2. PICK con : /\ consumer' = [consumer EXCEPT ![c] = con]
                 /\ SameCursors(Me, con) \/ con = StoppedConsumer
  BY QuietKeepsCursors
<1>3. \A d \in Consumers : CursorsBehind(consumer'[d], log, processed)
  <2>1. CursorsBehind(con, log, processed)
    BY <1>2, SameCursorsStayBehind DEF OrderInv
  <2> QED
    BY <1>0, <1>2, <2>1 DEF OrderInv
<1>4. QueueInOrder(manifest', log, processed)
  <2>1. CASE InitializeCas(c)
    <3>1. Me.snap.epoch + 1 \in Nat
      BY <1>0 DEF Consumer, Manifest
    <3>2. \/ UNCHANGED manifest
          \/ manifest' = ManifestSetEpoch(manifest, Me.snap.epoch + 1)
      BY <2>1, PutManifestOutcome DEF InitializeCas
    <3> QED
      BY <1>0, <3>1, <3>2, SetEpochInOrder DEF OrderInv
  <2>2. CASE DequeueCas(c)
    <3>1. /\ Me.last_acked \in Nat \cup {NoSeq}
          /\ Me.last_acked = NoSeq \/ Me.last_acked \in processed
      BY <1>0 DEF Consumer, OrderInv, CursorsBehind
    <3>2. \/ UNCHANGED manifest
          \/ manifest' = ManifestDequeue(manifest, Me.last_acked)
      BY <2>2, PutManifestOutcome DEF DequeueCas
    <3> QED
      BY <1>0, <3>1, <3>2, DequeueInOrder DEF OrderInv
  <2>3. CASE UNCHANGED manifest
    BY <2>3 DEF OrderInv
  <2> QED
    BY <2>1, <2>2, <2>3
    DEF Quiet, InitializeRead, DequeueRead, Flush, Close, FlushAcks,
        ConsumerCrash
<1> QED
  BY <1>1, <1>3, <1>4 DEF OrderInv, ToldTheTruth

\* The consumer steps that move a cursor, and the caller's Process.
LEMMA OrderCursorStep ==
    ASSUME TypeInv, TypeInv', OrderInv, InOrderCaller, NEW c \in Consumers,
           \/ StartConsumer(c) \/ NextBatch(c) \/ FetchBatch(c)
           \/ Process(c) \/ Ack(c)
    PROVE  OrderInv'
<1> DEFINE Me == consumer[c]
<1>0. /\ Me \in Consumer /\ log \in Seq(Locations) /\ manifest \in Manifest
      /\ processed \in SUBSET Nat /\ consumer \in [Consumers -> Consumer]
      /\ Len(log) \in Nat
  BY LenProperties DEF TypeInv, TypeOK
<1>1. /\ CursorsBehind(Me, log, processed)
      /\ QueueInOrder(manifest, log, processed)
  BY DEF OrderInv
<1>2. ASSUME NEW con, consumer' = [consumer EXCEPT ![c] = con],
             CursorsBehind(con, log, processed),
             UNCHANGED <<manifest, result, processed, log>>
      PROVE  OrderInv'
  <2>1. \A d \in Consumers : CursorsBehind(consumer'[d], log, processed)
    BY <1>0, <1>2 DEF OrderInv
  <2> QED
    BY <1>2, <2>1 DEF OrderInv, ToldTheTruth
<1>3. CASE StartConsumer(c)
  <2>1. PICK last \in ResumePoints :
            consumer' = [consumer EXCEPT ![c].phase = "init",
                                         ![c].last_acked = last,
                                         ![c].last_fetched = last]
    BY <1>3 DEF StartConsumer
  <2> DEFINE con == [Me EXCEPT !.phase = "init", !.last_acked = last,
                               !.last_fetched = last]
  <2>2. last = NoSeq \/ last \in processed
    BY DEF ResumePoints
  <2>3. /\ con.last_acked = last /\ con.last_fetched = last
        /\ con.handed = Me.handed /\ con.phase = "init"
    BY <1>0 DEF Consumer
  <2>4. last # NoSeq => last < Len(log) /\ Accounted(con, last, processed)
    BY <1>1, <2>2 DEF QueueInOrder, FinishedPrefix, Accounted
  <2>5. CursorsBehind(con, log, processed)
    BY <1>1, <2>2, <2>3, <2>4 DEF CursorsBehind, Accounted
  <2>6. consumer' = [consumer EXCEPT ![c] = con]
    BY <2>1
  <2> QED
    BY <1>2, <1>3, <2>5, <2>6 DEF StartConsumer
<1>4. CASE NextBatch(c)
  <2>1. PICK e \in NextEntry(c) :
            consumer' = [consumer EXCEPT ![c].phase = "fetch",
                                         ![c].fetching = e]
    BY <1>4 DEF NextBatch
  <2> DEFINE con == [Me EXCEPT !.phase = "fetch", !.fetching = e]
             n == Len(manifest.entries)
             N == Len(log)
  <2>2. /\ con.last_acked = Me.last_acked
        /\ con.last_fetched = Me.last_fetched
        /\ con.handed = Me.handed /\ con.phase = "fetch" /\ con.fetching = e
    BY <1>0 DEF Consumer
  <2>3. /\ n \in Nat /\ n <= N /\ N \in Nat
        /\ DOMAIN manifest.entries = 1..n
        /\ \A i \in 1..n : manifest.entries[i].sequence = N - n + i - 1
        /\ \A s \in 0..(N - n - 1) : s \in processed
    BY <1>0, <1>1, LenProperties
    DEF QueueInOrder, LogMatches, ForgottenFinished, Manifest
  <2>4. \E i \in 1..n : e = manifest.entries[i]
    <3>1. CASE e \in FirstEntry(manifest)
      <4>1. manifest.entries # <<>> /\ e = manifest.entries[1]
        BY <3>1 DEF FirstEntry
      <4>2. n # 0
        BY <1>0, <4>1, EmptySeq DEF Manifest
      <4>3. 1 \in 1..n
        BY <2>3, <4>2
      <4> QED
        BY <4>1, <4>3
    <3>2. CASE e \in EntryAt(manifest, Me.last_fetched + 1)
      BY <2>3, <3>2 DEF EntryAt
    <3> QED
      BY <2>1, <3>1, <3>2 DEF NextEntry
  <2>5. e.sequence \in 0..(N - 1)
    <3> HIDE DEF n, N
    <3> QED
      BY <2>3, <2>4
  <2>6. Accounted(con, e.sequence - 1, processed)
    <3>1. CASE Me.last_fetched = NoSeq
      <4>1. e = manifest.entries[1]
        BY <2>1, <3>1 DEF NextEntry, FirstEntry
      <4>2. n # 0
        BY <2>1, <3>1, <1>0, EmptySeq DEF NextEntry, FirstEntry, Manifest
      <4>3. e.sequence = N - n
        <5> HIDE DEF n, N
        <5> QED
          BY <2>3, <4>1, <4>2
      <4> HIDE DEF n, N
      <4> QED
        BY <2>3, <4>3 DEF Accounted
    <3>2. CASE Me.last_fetched # NoSeq
      <4>1. e.sequence = Me.last_fetched + 1
        BY <2>1, <3>2 DEF NextEntry, EntryAt
      <4>2. Me.last_fetched \in Nat
        BY <1>0, <3>2 DEF Consumer
      <4>3. Accounted(Me, Me.last_fetched, processed)
        BY <1>1, <3>2 DEF CursorsBehind
      <4> QED
        BY <2>2, <4>1, <4>2, <4>3 DEF Accounted
    <3> QED
      BY <3>1, <3>2
  <2>7. CursorsBehind(con, log, processed)
    BY <1>1, <2>2, <2>5, <2>6 DEF CursorsBehind, Accounted
  <2>8. consumer' = [consumer EXCEPT ![c] = con]
    BY <2>1
  <2> QED
    BY <1>2, <1>4, <2>7, <2>8 DEF NextBatch
<1>5. CASE FetchBatch(c)
  <2> DEFINE e == Me.fetching
             idle == [Me EXCEPT !.phase = "ready", !.fetching = NoEntry]
             con == [idle EXCEPT !.last_fetched = e.sequence,
                                 !.handed = @ \cup {e.sequence}]
  <2>1. /\ e.sequence \in 0..(Len(log) - 1)
        /\ Accounted(Me, e.sequence - 1, processed)
    BY <1>1, <1>5 DEF FetchBatch, CursorsBehind
  <2>2. CASE consumer' = [consumer EXCEPT ![c] = idle]
    <3>1. SameCursors(Me, idle)
      BY <1>0 DEF SameCursors, Consumer
    <3>2. CursorsBehind(idle, log, processed)
      BY <1>1, <3>1, SameCursorsStayBehind
    <3> QED
      BY <1>2, <1>5, <2>2, <3>2 DEF FetchBatch
  <2>3. CASE consumer' = [consumer EXCEPT ![c] = con]
    <3>1. /\ con.last_acked = Me.last_acked
          /\ con.last_fetched = e.sequence
          /\ con.handed = Me.handed \cup {e.sequence}
          /\ con.phase = "ready"
      BY <1>0 DEF Consumer
    <3>2. Accounted(con, e.sequence, processed)
      BY <1>0, <2>1, <3>1 DEF Accounted
    <3>3. \A s : Accounted(Me, s, processed) => Accounted(con, s, processed)
      BY <3>1 DEF Accounted
    <3>4. CursorsBehind(con, log, processed)
      BY <1>0, <1>1, <2>1, <3>1, <3>2, <3>3 DEF CursorsBehind
    <3> QED
      BY <1>2, <1>5, <2>3, <3>4 DEF FetchBatch
  <2> QED
    BY <1>5, <2>2, <2>3 DEF FetchBatch
<1>6. CASE Process(c)
  <2>1. PICK s \in Me.handed \ processed :
            /\ \A t \in Me.handed : t < s => t \in processed
            /\ processed' = processed \cup {s}
    BY <1>6 DEF Process
  <2>2. s \in Nat /\ s < Len(log) /\ Accounted(Me, s, processed)
    BY <1>0, <1>1 DEF Consumer, CursorsBehind
  <2>3. \A t \in 0..(s - 1) : t \in processed
    BY <2>1, <2>2 DEF Accounted
  <2>4. UNCHANGED <<manifest, result, consumer, log>>
    BY <1>6 DEF Process
  <2>5. QueueInOrder(manifest, log, processed')
    <3>1. FinishedPrefix(log, processed')
      BY <1>0, <1>1, <2>1, <2>2, <2>3 DEF QueueInOrder, FinishedPrefix
    <3> QED
      BY <1>1, <2>1, <3>1 DEF QueueInOrder, ForgottenFinished
  <2>6. \A d \in Consumers : CursorsBehind(consumer[d], log, processed')
    BY <1>0, <2>1, CursorsStayBehind DEF OrderInv
  <2> QED
    BY <2>4, <2>5, <2>6 DEF OrderInv, ToldTheTruth
<1>7. CASE Ack(c)
  <2> DEFINE count == (Me.ack_count + 1) % DequeueInterval
  <2>1. PICK s \in Me.handed \cap processed :
            consumer' = [consumer EXCEPT ![c] =
              [Me EXCEPT !.last_acked = s, !.ack_count = count,
                         !.handed = @ \ {s},
                         !.goal = IF count = 0 THEN "ack" ELSE "start",
                         !.phase = IF count = 0 THEN "deq" ELSE "ready"]]
    BY <1>7 DEF Ack
  <2> HIDE DEF count
  <2> DEFINE con == [Me EXCEPT !.last_acked = s, !.ack_count = count,
                         !.handed = @ \ {s},
                         !.goal = IF count = 0 THEN "ack" ELSE "start",
                         !.phase = IF count = 0 THEN "deq" ELSE "ready"]
  <2>2. /\ con.last_acked = s /\ con.last_fetched = Me.last_fetched
        /\ con.handed = Me.handed \ {s} /\ con.phase # "fetch"
    BY <1>0 DEF Consumer
  <2>3. \A t : Accounted(Me, t, processed) => Accounted(con, t, processed)
    BY <2>1, <2>2 DEF Accounted
  <2>4. CursorsBehind(con, log, processed)
    BY <1>1, <2>2, <2>3 DEF CursorsBehind
  <2> QED
    BY <1>2, <1>7, <2>1, <2>4 DEF Ack
<1> QED
  BY <1>3, <1>4, <1>5, <1>6, <1>7

LEMMA OrderNext ==
    InOrderCaller /\ TypeInv /\ TypeInv' /\ OrderInv /\ [Next]_vars => OrderInv'
<1> SUFFICES ASSUME InOrderCaller, TypeInv, TypeInv', OrderInv, [Next]_vars
             PROVE  OrderInv'
  OBVIOUS
<1>1. ASSUME UNCHANGED <<manifest, result, consumer, processed, log>>
      PROVE  OrderInv'
  BY <1>1 DEF OrderInv, ToldTheTruth
<1>2. ASSUME NEW c \in Consumers, GcNext(c)
      PROVE  OrderInv'
  BY <1>1, <1>2 DEF GcNext, GcStart, GcReadManifest, GcList, GcDelete, GcFinish
<1>3. CASE Tick \/ UNCHANGED vars
  BY <1>1, <1>3 DEF Tick, vars
<1> QED
  BY <1>2, <1>3, OrderProducerStep, OrderQuietStep, OrderCursorStep
  DEF Next, ConsumerNext, Quiet

\* The invariant holds throughout, given callers that finish in order.
LEMMA OrderAlways == InOrderCaller => (Spec => [](TypeInv /\ OrderInv))
<1> SUFFICES ASSUME InOrderCaller PROVE Spec => [](TypeInv /\ OrderInv)
  OBVIOUS
<1>1. Init => TypeInv /\ OrderInv
  BY TypeInit, OrderInit
<1>2. TypeInv /\ OrderInv /\ [Next]_vars => (TypeInv /\ OrderInv)'
  BY TypeNext, OrderNext
<1> QED
  BY <1>1, <1>2, PTL DEF Spec

\* With callers that finish batches in the order they get them, no batch whose
\* enqueue took effect is lost or moved before a caller has finished it, for any
\* number of producers, consumers, takeovers, faults and crashes.
THEOREM Delivery == InOrderCaller => (Spec => []NoLoss)
<1> SUFFICES ASSUME InOrderCaller PROVE Spec => []NoLoss
  OBVIOUS
<1>1. TypeInv /\ OrderInv => NoLoss
  <2> SUFFICES ASSUME TypeInv, OrderInv PROVE NoLoss
    OBVIOUS
  <2> DEFINE n == Len(manifest.entries)
             N == Len(log)
  <2>1. /\ n \in Nat /\ n <= N /\ N \in Nat
        /\ DOMAIN manifest.entries = 1..n /\ DOMAIN log = 1..N
        /\ \A i \in 1..n : /\ manifest.entries[i].sequence = N - n + i - 1
                           /\ manifest.entries[i].location = log[N - n + i]
                           /\ manifest.entries[i] \in Entry
        /\ \A s \in 0..(N - n - 1) : s \in processed
    BY LenProperties, ElementOfSeq
    DEF TypeInv, TypeOK, OrderInv, QueueInOrder, LogMatches, ForgottenFinished,
        Manifest
  <2> HIDE DEF n, N
  <2>2. ASSUME NEW i \in 1..N, i - 1 \notin processed
        PROVE  \E j \in 1..n : manifest.entries[j] =
                                   [sequence |-> i - 1, location |-> log[i]]
    <3> DEFINE j == i - (N - n)
    <3>1. j \in 1..n /\ N - n + j = i
      BY <2>1, <2>2
    <3>2. /\ manifest.entries[j].sequence = i - 1
          /\ manifest.entries[j].location = log[i]
          /\ manifest.entries[j] \in Entry
      BY <2>1, <3>1
    <3>3. manifest.entries[j] = [sequence |-> i - 1, location |-> log[i]]
      BY <3>2 DEF Entry
    <3> QED
      BY <3>1, <3>3
  <2>3. \A l \in Locations : result[l] = "ok" => \E i \in DOMAIN log : log[i] = l
    BY DEF OrderInv, ToldTheTruth
  <2>4. ASSUME NEW i \in DOMAIN log
        PROVE  \/ i - 1 \in processed
               \/ [sequence |-> i - 1, location |-> log[i]] \in
                    {manifest.entries[j] : j \in DOMAIN manifest.entries}
    <3>1. i \in 1..N /\ DOMAIN manifest.entries = 1..n
      BY <2>1
    <3> QED
      BY <2>2, <3>1
  <2> QED
    BY <2>3, <2>4 DEF NoLoss
<1> QED
  BY <1>1, OrderAlways, PTL

\* Under the same assumption, batches are finished in ingestion order across
\* takeovers and resumed checkpoints.
THEOREM ProcessingOrder == InOrderCaller => (Spec => []InOrderProcessing)
<1>1. TypeInv /\ OrderInv => InOrderProcessing
  BY DEF OrderInv, QueueInOrder, FinishedPrefix, InOrderProcessing
<1> QED
  BY <1>1, OrderAlways, PTL

\* Under the same assumption, the manifest never holds a gap or a repeated
\* sequence, so the cursor of next_batch meets every entry.
THEOREM Contiguity == InOrderCaller => (Spec => []ContiguousSequences)
<1>1. TypeInv /\ OrderInv => ContiguousSequences
  BY DEF OrderInv, QueueInOrder, LogMatches, ContiguousSequences
<1> QED
  BY <1>1, OrderAlways, PTL
=============================================================================
