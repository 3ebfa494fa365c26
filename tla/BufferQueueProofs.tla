------------------------- MODULE BufferQueueProofs -------------------------
(***************************************************************************)
(* Proofs about BufferQueue, for any number of producers, consumers,       *)
(* batches and takeovers.                                                  *)
(***************************************************************************)
EXTENDS BufferQueue, TLAPS, SequenceTheorems, FiniteSetTheorems,
        WellFoundedInduction

(***************************************************************************)
(* The manifest operations.                                                *)
(***************************************************************************)

\* Every non-empty set of naturals has a least element.
LEMMA LeastNat ==
    ASSUME NEW T \in SUBSET Nat, T # {}
    PROVE  \E x \in T : \A y \in T : x <= y
<1>1. \E x \in T : \A y \in T : ~ (<<y, x>> \in OpToRel(<, Nat))
  BY NatLessThanWellFounded, WFMin
<1>2. \A x, y \in Nat : <<y, x>> \in OpToRel(<, Nat) <=> y < x
  BY DEF OpToRel
<1>3. PICK x \in T : \A y \in T : ~ (<<y, x>> \in OpToRel(<, Nat))
  BY <1>1
<1>4. \A y \in T : x <= y
  <2> TAKE y \in T
  <2>1. ~ (y < x)
    BY <1>2, <1>3
  <2> QED
    BY <2>1
<1> QED
  BY <1>4

\* split_entries stops at the first entry beyond `through', wherever that is.
LEMMA SplitEntriesSpec ==
    ASSUME NEW entries \in Seq(Entry), NEW through \in Int
    PROVE  /\ SplitEntries(entries, through) \in 0..Len(entries)
           /\ \A i \in 1..SplitEntries(entries, through) :
                  entries[i].sequence <= through
           /\ SplitEntries(entries, through) < Len(entries) =>
                  entries[SplitEntries(entries, through) + 1].sequence > through
<1> DEFINE Beyond == {i \in 1..Len(entries) : entries[i].sequence > through}
           Stop(k) == /\ \A i \in 1..k : entries[i].sequence <= through
                      /\ k < Len(entries) => entries[k + 1].sequence > through
<1>0. /\ Len(entries) \in Nat
      /\ \A i \in 1..Len(entries) : entries[i].sequence \in Nat
  <2>1. \A i \in 1..Len(entries) : entries[i] \in Entry
    BY ElementOfSeq
  <2> QED
    BY <2>1, LenProperties DEF Entry
<1>1. \E k \in 0..Len(entries) : Stop(k)
  <2>1. CASE Beyond = {}
    <3>1. \A i \in 1..Len(entries) : entries[i].sequence <= through
      BY <1>0, <2>1
    <3> WITNESS Len(entries) \in 0..Len(entries)
    <3> QED
      BY <3>1, <1>0
  <2>2. CASE Beyond # {}
    <3>0. Beyond \in SUBSET Nat
      BY <1>0
    <3>1. PICK x \in Beyond : \A y \in Beyond : x <= y
      <4> HIDE DEF Beyond
      <4> QED
        BY <2>2, <3>0, LeastNat
    <3>2. x - 1 \in 0..Len(entries)
      BY <3>1, <1>0
    <3>3. \A i \in 1..(x - 1) : entries[i].sequence <= through
      BY <3>1, <1>0
    <3> WITNESS x - 1 \in 0..Len(entries)
    <3> QED
      BY <3>1, <3>3, <1>0
  <2> QED
    BY <2>1, <2>2
<1> QED
  BY <1>1 DEF SplitEntries

\* The three operations keep a manifest well formed.
LEMMA ManifestOperationsType ==
    ASSUME NEW m \in Manifest
    PROVE  /\ EmptyManifest \in Manifest
           /\ \A l \in Locations : ManifestAppend(m, l) \in Manifest
           /\ \A s \in Int : ManifestDequeue(m, s) \in Manifest
           /\ \A e \in Nat : ManifestSetEpoch(m, e) \in Manifest
<1>1. EmptyManifest \in Manifest
  BY DEF EmptyManifest, Manifest
<1>2. ASSUME NEW l \in Locations
      PROVE  ManifestAppend(m, l) \in Manifest
  <2>1. [sequence |-> m.next_sequence, location |-> l] \in Entry
    BY DEF Manifest, Entry
  <2> DEFINE longer ==
          Append(m.entries, [sequence |-> m.next_sequence, location |-> l])
  <2>2. longer \in Seq(Entry)
    BY <2>1, AppendProperties DEF Manifest
  <2> DEFINE next == m.next_sequence + 1
  <2>3. next \in Nat
    BY DEF Manifest
  <2>4. ManifestAppend(m, l) = [m EXCEPT !.entries = longer,
                                         !.next_sequence = next]
    BY DEF ManifestAppend
  <2> HIDE DEF longer, next
  <2> QED
    BY <2>2, <2>3, <2>4 DEF Manifest
<1>3. ASSUME NEW s \in Int
      PROVE  ManifestDequeue(m, s) \in Manifest
  <2> DEFINE k == SplitEntries(m.entries, s)
  <2>1. m.entries \in Seq(Entry)
    BY DEF Manifest
  <2>2. k \in 0..Len(m.entries)
    BY <2>1, SplitEntriesSpec
  <2>3. SubSeq(m.entries, k + 1, Len(m.entries)) \in Seq(Entry)
    <3>1. \A i \in (k + 1)..Len(m.entries) : m.entries[i] \in Entry
      BY <2>1, <2>2, ElementOfSeq
    <3> HIDE DEF k
    <3> QED
      BY <3>1, <2>1, <2>2, SubSeqProperties
  <2> QED
    BY <2>3 DEF Manifest, ManifestDequeue
<1>4. ASSUME NEW e \in Nat
      PROVE  ManifestSetEpoch(m, e) \in Manifest
  BY DEF Manifest, ManifestSetEpoch
<1> QED
  BY <1>1, <1>2, <1>3, <1>4

\* A conditional put changes the manifest only from what its writer read to what
\* it wrote, and it does so whenever it is answered with success.
LEMMA PutManifestOutcome ==
    ASSUME NEW old, NEW new, NEW answer, PutManifest(old, new, answer)
    PROVE  /\ \/ UNCHANGED manifest
              \/ manifest = old /\ manifest' = new
           /\ answer = "ok" => manifest = old /\ manifest' = new
BY DEF PutManifest
-----------------------------------------------------------------------------
(***************************************************************************)
(* Type correctness.  A producer's location is a real one while it is at   *)
(* work, which keeps NoLocation out of the manifest.                       *)
(***************************************************************************)

ProducerHasLocation ==
    \A p \in Producers : producer[p].phase # "idle" => producer[p].loc \in Locations

TypeInv == TypeOK /\ ProducerHasLocation

LEMMA TypeInit == Init => TypeInv
<1> SUFFICES ASSUME Init PROVE TypeInv
  OBVIOUS
<1>1. EmptyManifest \in Manifest
  BY DEF EmptyManifest, Manifest
<1>2. IdleProducer \in Producer
  BY <1>1 DEF IdleProducer, Producer, ProducerPhases
<1>3. NoEntry \in Entry \cup {NoEntry}
  OBVIOUS
<1>4. NewConsumer \in Consumer
  BY <1>1, <1>3, QueueConstants
  DEF NewConsumer, Consumer, ConsumerPhases, DequeueGoals, Uninitialized, NoSeq
<1>5. IdleCollector \in Collector
  BY DEF IdleCollector, Collector, CollectorPhases
<1>6. ProducerHasLocation
  BY DEF Init, ProducerHasLocation, IdleProducer
<1> QED
  BY <1>1, <1>2, <1>4, <1>5, <1>6 DEF Init, TypeInv, TypeOK

\* The values that reset a process.
LEMMA ResetValues ==
    /\ EmptyManifest \in Manifest
    /\ IdleProducer \in Producer
    /\ IdleProducer.phase = "idle"
    /\ StoppedConsumer \in Consumer
    /\ \A b \in BOOLEAN : [IdleCollector EXCEPT !.on = b] \in Collector
<1>1. EmptyManifest \in Manifest
  BY DEF EmptyManifest, Manifest
<1>2. NewConsumer \in Consumer
  BY <1>1, QueueConstants
  DEF NewConsumer, Consumer, ConsumerPhases, DequeueGoals, Uninitialized, NoSeq
<1> QED
  BY <1>1, <1>2
  DEF IdleProducer, Producer, ProducerPhases, StoppedConsumer, Consumer,
      ConsumerPhases, IdleCollector, Collector, CollectorPhases

LEMMA TypeProducerStep ==
    ASSUME TypeInv, NEW p \in Producers, ProducerNext(p) \/ ProducerCrash(p)
    PROVE  TypeInv'
<1> USE DEF TypeInv, TypeOK, ProducerHasLocation
<1> DEFINE Me == producer[p]
<1>0. Me \in Producer
  OBVIOUS
<1>1. CASE StartBatch(p)
  <2>1. PICK l \in Locations, ts \in (clock - MaxSkew)..(clock + MaxSkew) :
            /\ ulid_ts' = [ulid_ts EXCEPT ![l] = ts]
            /\ result' = [result EXCEPT ![l] = "pending"]
            /\ producer' = [producer EXCEPT ![p] =
                  [phase |-> "put", loc |-> l, since |-> clock,
                   snap |-> EmptyManifest]]
    BY <1>1 DEF StartBatch
  <2>2. ts \in Int
    BY QueueConstants
  <2>3. producer' \in [Producers -> Producer]
    BY <2>1, ResetValues DEF Producer, ProducerPhases
  <2>4. ProducerHasLocation'
    BY <2>1
  <2> QED
    BY <1>1, <2>1, <2>2, <2>3, <2>4 DEF StartBatch
<1>2. ASSUME NEW r \in {"ok", "err"}, FinishBatch(p, r), Me.loc \in Locations
      PROVE  /\ result' \in [Locations -> {"unused", "pending", "ok", "err"}]
             /\ producer' \in [Producers -> Producer]
             /\ ProducerHasLocation'
  BY <1>2, ResetValues DEF FinishBatch
<1>3. CASE PutBatchFile(p)
  <2>1. Me.loc \in Locations
    BY <1>3 DEF PutBatchFile
  <2>2. ASSUME producer' = [producer EXCEPT ![p].phase = "read"]
        PROVE  producer' \in [Producers -> Producer] /\ ProducerHasLocation'
    BY <2>1, <2>2 DEF Producer, ProducerPhases
  <2> QED
    BY <1>2, <1>3, <2>1, <2>2 DEF PutBatchFile
<1>4. CASE EnqueueRead(p)
  <2>1. Me.loc \in Locations
    BY <1>4 DEF EnqueueRead
  <2>2. ASSUME producer' = [producer EXCEPT ![p].phase = "cas",
                                            ![p].snap = manifest]
        PROVE  producer' \in [Producers -> Producer] /\ ProducerHasLocation'
    BY <2>1, <2>2 DEF Producer, ProducerPhases
  <2> QED
    BY <1>2, <1>4, <2>1, <2>2 DEF EnqueueRead
<1>5. CASE EnqueueCas(p)
  <2>1. Me.loc \in Locations /\ Me.snap \in Manifest
    BY <1>0, <1>5 DEF EnqueueCas, Producer
  <2>2. manifest' \in Manifest
    BY <1>5, <2>1, PutManifestOutcome, ManifestOperationsType DEF EnqueueCas
  <2>3. ASSUME producer' = [producer EXCEPT ![p].phase = "read",
                                            ![p].snap = EmptyManifest]
        PROVE  producer' \in [Producers -> Producer] /\ ProducerHasLocation'
    BY <2>1, <2>3, ResetValues DEF Producer, ProducerPhases
  <2>4. log' \in Seq(Locations)
    BY <1>5, <2>1, AppendProperties DEF EnqueueCas
  <2> QED
    BY <1>2, <1>5, <2>1, <2>2, <2>3, <2>4 DEF EnqueueCas
<1>6. CASE ProducerCrash(p)
  BY <1>6, ResetValues DEF ProducerCrash
<1> QED
  BY <1>1, <1>3, <1>4, <1>5, <1>6 DEF ProducerNext

LEMMA TypeConsumerStep ==
    ASSUME TypeInv, NEW c \in Consumers,
           ConsumerNext(c) \/ Flush(c) \/ Close(c) \/ ConsumerCrash(c)
    PROVE  TypeInv'
<1> USE DEF TypeInv, TypeOK, ProducerHasLocation
<1> DEFINE Me == consumer[c]
           ConsumersOK == consumer' \in [Consumers -> Consumer]
           CollectorsOK == gc' \in [Consumers -> Collector]
<1>0. Me \in Consumer
  OBVIOUS
<1>1. ASSUME NEW con \in Consumer, consumer' = [consumer EXCEPT ![c] = con]
      PROVE  ConsumersOK
  BY <1>1
<1>2. ASSUME NEW con \in Consumer, Constructed(c, con)
      PROVE  ConsumersOK /\ CollectorsOK
  BY <1>2 DEF Constructed, Collector
<1>3. ASSUME NEW ok \in BOOLEAN, DequeueReturns(c, ok)
      PROVE  ConsumersOK /\ CollectorsOK
  <2>1. [Me EXCEPT !.snap = EmptyManifest, !.goal = "start", !.phase = "ready"]
            \in Consumer
    BY <1>0, ResetValues DEF Consumer, ConsumerPhases, DequeueGoals
  <2>2. [[Me EXCEPT !.snap = EmptyManifest, !.goal = "start"]
            EXCEPT !.phase = "ready"] \in Consumer
    BY <1>0, ResetValues DEF Consumer, ConsumerPhases, DequeueGoals
  <2>3. [gc EXCEPT ![c].on = FALSE] \in [Consumers -> Collector]
    BY DEF Collector
  <2> QED
    BY <1>1, <1>2, <1>3, <2>2, <2>3, ResetValues DEF DequeueReturns
<1>4. CASE StartConsumer(c)
  <2>1. ResumePoints \subseteq Nat \cup {NoSeq}
    BY DEF ResumePoints, NoSeq
  <2>2. PICK last \in ResumePoints :
            consumer' = [consumer EXCEPT ![c].phase = "init",
                                         ![c].last_acked = last,
                                         ![c].last_fetched = last]
    BY <1>4 DEF StartConsumer
  <2>3. [Me EXCEPT !.phase = "init", !.last_acked = last, !.last_fetched = last]
            \in Consumer
    BY <1>0, <2>1, <2>2 DEF Consumer, ConsumerPhases
  <2>4. ConsumersOK
    BY <1>1, <2>2, <2>3
  <2> QED
    BY <1>4, <2>4 DEF StartConsumer
<1>5. CASE InitializeRead(c)
  <2>1. [Me EXCEPT !.phase = "init_cas", !.snap = manifest] \in Consumer
    BY <1>0 DEF Consumer, ConsumerPhases
  <2>2. ConsumersOK
    BY <1>1, <1>5, <2>1, ResetValues DEF InitializeRead
  <2> QED
    BY <1>5, <2>2 DEF InitializeRead
<1>6. CASE InitializeCas(c)
  <2> DEFINE snap == Me.snap
             next == snap.epoch + 1
             idle == [Me EXCEPT !.snap = EmptyManifest]
  <2>1. snap \in Manifest /\ next \in Nat
    BY <1>0 DEF Consumer, Manifest
  <2>2. manifest' \in Manifest
    BY <1>6, <2>1, PutManifestOutcome, ManifestOperationsType DEF InitializeCas
  <2>3. idle \in Consumer
    BY <1>0, ResetValues DEF Consumer
  <2>4. /\ [idle EXCEPT !.phase = "ready", !.epoch = next] \in Consumer
        /\ [idle EXCEPT !.phase = "deq", !.goal = "start", !.epoch = next]
              \in Consumer
        /\ [idle EXCEPT !.phase = "init"] \in Consumer
    <3> HIDE DEF next, idle
    <3> QED
      BY <2>1, <2>3 DEF Consumer, ConsumerPhases, DequeueGoals
  <2>5. ConsumersOK /\ CollectorsOK
    BY <1>1, <1>2, <1>6, <2>4, ResetValues DEF InitializeCas
  <2> QED
    BY <1>6, <2>2, <2>5 DEF InitializeCas
<1>7. CASE DequeueRead(c)
  <2>1. ASSUME consumer' = [consumer EXCEPT ![c].phase = "deq_cas",
                                            ![c].snap = manifest]
        PROVE  ConsumersOK
    <3>1. [Me EXCEPT !.phase = "deq_cas", !.snap = manifest] \in Consumer
      BY <1>0 DEF Consumer, ConsumerPhases
    <3> QED
      BY <1>1, <2>1, <3>1
  <2> QED
    BY <1>3, <1>7, <2>1 DEF DequeueRead
<1>8. CASE DequeueCas(c)
  <2>1. Me.snap \in Manifest /\ Me.last_acked \in Int
    BY <1>0 DEF Consumer, NoSeq
  <2>2. manifest' \in Manifest
    <3>1. ManifestDequeue(Me.snap, Me.last_acked) \in Manifest
      BY <2>1, ManifestOperationsType
    <3> QED
      BY <1>8, <3>1, PutManifestOutcome DEF DequeueCas
  <2>3. ASSUME consumer' = [consumer EXCEPT ![c].phase = "deq",
                                            ![c].snap = EmptyManifest]
        PROVE  ConsumersOK
    <3>1. [Me EXCEPT !.phase = "deq", !.snap = EmptyManifest] \in Consumer
      BY <1>0, ResetValues DEF Consumer, ConsumerPhases
    <3> QED
      BY <1>1, <2>3, <3>1
  <2> QED
    BY <1>3, <1>8, <2>2, <2>3 DEF DequeueCas
<1>9. CASE NextBatch(c)
  <2>1. NextEntry(c) \subseteq Entry
    BY ElementOfSeq DEF NextEntry, FirstEntry, EntryAt, Manifest
  <2>2. \A e \in Entry :
            [Me EXCEPT !.phase = "fetch", !.fetching = e] \in Consumer
    BY <1>0 DEF Consumer, ConsumerPhases
  <2>3. ConsumersOK
    BY <1>1, <1>9, <2>1, <2>2 DEF NextBatch
  <2> QED
    BY <1>9, <2>3 DEF NextBatch
<1>10. CASE FetchBatch(c)
  <2> DEFINE e == Me.fetching
             idle == [Me EXCEPT !.phase = "ready", !.fetching = NoEntry]
  <2>0. idle \in Consumer
    BY <1>0 DEF Consumer, ConsumerPhases
  <2>1. ConsumersOK
    <3>1. CASE e.location \in files
      <4>1. e.sequence \in Nat
        BY <1>0, <3>1, QueueConstants DEF Consumer, Entry, NoEntry
      <4>2. [idle EXCEPT !.last_fetched = e.sequence,
                         !.handed = @ \cup {e.sequence}] \in Consumer
        <5> HIDE DEF idle
        <5> QED
          BY <2>0, <4>1 DEF Consumer
      <4> QED
        BY <1>1, <1>10, <2>0, <4>2 DEF FetchBatch
    <3>2. CASE e.location \notin files
      BY <1>1, <1>10, <2>0, <3>2 DEF FetchBatch
    <3> QED
      BY <3>1, <3>2
  <2> QED
    BY <1>10, <2>1 DEF FetchBatch
<1>11. CASE Process(c)
  <2>1. Me.handed \subseteq Nat
    BY <1>0 DEF Consumer
  <2> QED
    BY <1>11, <2>1 DEF Process
<1>12. CASE Ack(c)
  <2> DEFINE count == (Me.ack_count + 1) % DequeueInterval
  <2>1. count \in 0..(DequeueInterval - 1)
    BY <1>0, QueueConstants DEF Consumer
  <2>2. ASSUME NEW s \in Nat
        PROVE  [Me EXCEPT !.last_acked = s, !.ack_count = count,
                          !.handed = @ \ {s},
                          !.goal = IF count = 0 THEN "ack" ELSE "start",
                          !.phase = IF count = 0 THEN "deq" ELSE "ready"]
                   \in Consumer
    <3> HIDE DEF count
    <3> QED
      BY <1>0, <2>1 DEF Consumer, ConsumerPhases, DequeueGoals
  <2>3. Me.handed \subseteq Nat
    BY <1>0 DEF Consumer
  <2>4. ConsumersOK
    BY <1>1, <1>12, <2>2, <2>3 DEF Ack
  <2> QED
    BY <1>12, <2>4 DEF Ack
<1>13. CASE Flush(c) \/ Close(c)
  <2>0. /\ \A goal \in DequeueGoals :
               [Me EXCEPT !.phase = "deq", !.goal = goal] \in Consumer
        /\ [gc EXCEPT ![c].on = FALSE] \in [Consumers -> Collector]
    <3>1. ASSUME NEW goal \in DequeueGoals
          PROVE  [Me EXCEPT !.phase = "deq", !.goal = goal] \in Consumer
      BY <1>0 DEF Consumer, ConsumerPhases
    <3>2. [gc EXCEPT ![c].on = FALSE] \in [Consumers -> Collector]
      BY DEF Collector
    <3> QED
      BY <3>1, <3>2
  <2>1. ConsumersOK
    <3>1. ASSUME NEW goal \in {"flush", "close"}, FlushAcks(c, goal)
          PROVE  ConsumersOK
      BY <1>1, <2>0, <3>1 DEF FlushAcks, DequeueGoals
    <3> QED
      BY <1>1, <1>13, <3>1, ResetValues DEF Flush, Close
  <2>2. CollectorsOK
    BY <1>13, <2>0 DEF Flush, Close, FlushAcks
  <2> QED
    BY <1>13, <2>1, <2>2 DEF Flush, Close, FlushAcks
<1>14. CASE ConsumerCrash(c)
  <2>1. IdleCollector \in Collector
    BY DEF IdleCollector, Collector, CollectorPhases
  <2> QED
    BY <1>14, <2>1, ResetValues DEF ConsumerCrash
<1> QED
  BY <1>4, <1>5, <1>6, <1>7, <1>8, <1>9, <1>10, <1>11, <1>12, <1>13, <1>14
  DEF ConsumerNext

LEMMA TypeCollectorStep ==
    ASSUME TypeInv, NEW c \in Consumers, GcNext(c)
    PROVE  TypeInv'
<1> USE DEF TypeInv, TypeOK, ProducerHasLocation
<1> DEFINE Me == gc[c]
           CollectorsOK == gc' \in [Consumers -> Collector]
<1>0. Me \in Collector
  OBVIOUS
<1>1. ASSUME NEW col \in Collector, gc' = [gc EXCEPT ![c] = col]
      PROVE  CollectorsOK
  BY <1>1
<1>2. [IdleCollector EXCEPT !.on = Me.on] \in Collector
  BY <1>0, ResetValues DEF Collector
<1>3. CASE GcStart(c)
  <2>1. [Me EXCEPT !.phase = "snapshot", !.now = clock] \in Collector
    BY <1>0 DEF Collector, CollectorPhases
  <2>2. CollectorsOK
    BY <1>1, <1>3, <2>1 DEF GcStart
  <2> QED
    BY <1>3, <2>2 DEF GcStart
<1>4. CASE GcReadManifest(c)
  <2> DEFINE referenced == ManifestLocations(manifest)
  <2>1. referenced \subseteq Locations
    <3>1. \A i \in DOMAIN manifest.entries : manifest.entries[i] \in Entry
      BY ElementOfSeq DEF Manifest
    <3> QED
      BY <3>1 DEF ManifestLocations, Entry
  <2>2. [Me EXCEPT !.phase = "list", !.locations = referenced] \in Collector
    <3> HIDE DEF referenced
    <3> QED
      BY <1>0, <2>1 DEF Collector, CollectorPhases
  <2>3. CollectorsOK
    BY <1>1, <1>2, <1>4, <2>2 DEF GcReadManifest
  <2> QED
    BY <1>4, <2>3 DEF GcReadManifest
<1>5. CASE GcList(c)
  <2> DEFINE old == {l \in files : Deletable(l, Me.now, Me.locations)}
  <2>1. old \subseteq Locations
    OBVIOUS
  <2>2. [Me EXCEPT !.phase = "delete", !.locations = {}, !.to_delete = old]
            \in Collector
    <3> HIDE DEF old
    <3> QED
      BY <1>0, <2>1 DEF Collector, CollectorPhases
  <2>3. CollectorsOK
    BY <1>1, <1>2, <1>5, <2>2 DEF GcList
  <2> QED
    BY <1>5, <2>3 DEF GcList
<1>6. CASE GcDelete(c)
  <2>1. \A l : [Me EXCEPT !.to_delete = @ \ {l}] \in Collector
    BY <1>0 DEF Collector
  <2>2. CollectorsOK
    BY <1>1, <1>6, <2>1 DEF GcDelete
  <2> QED
    BY <1>6, <2>2 DEF GcDelete
<1>7. CASE GcFinish(c)
  BY <1>2, <1>7 DEF GcFinish
<1> QED
  BY <1>3, <1>4, <1>5, <1>6, <1>7 DEF GcNext

LEMMA TypeNext == TypeInv /\ [Next]_vars => TypeInv'
<1> SUFFICES ASSUME TypeInv, [Next]_vars PROVE TypeInv'
  OBVIOUS
<1>1. CASE Tick
  BY <1>1 DEF Tick, TypeInv, TypeOK, ProducerHasLocation
<1>2. CASE UNCHANGED vars
  BY <1>2 DEF vars, TypeInv, TypeOK, ProducerHasLocation
<1> QED
  BY <1>1, <1>2, TypeProducerStep, TypeConsumerStep, TypeCollectorStep DEF Next

\* In every reachable state the manifest, the snapshots of it that are still
\* held, and the state of every producer, consumer and collector are well
\* formed, whatever the interleaving, faults and crashes.
THEOREM TypeCorrect == Spec => []TypeOK
<1>1. Spec => []TypeInv
  BY TypeInit, TypeNext, PTL DEF Spec
<1>2. TypeInv => TypeOK
  BY DEF TypeInv
<1> QED
  BY <1>1, <1>2, PTL
============================================================================
