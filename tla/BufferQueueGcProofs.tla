------------------------ MODULE BufferQueueGcProofs ------------------------
(***************************************************************************)
(* Fencing and garbage collection.  SingleOwner and ActiveFetchFindsFile   *)
(* rest on epochs that only grow; ManifestFilesExist rests on time: a file *)
(* old enough to be deleted belongs to no enqueue in progress, as long as  *)
(* enqueues and clock differences stay, together, below the grace period.  *)
(***************************************************************************)
EXTENDS BufferQueueProofs

EntriesOf(entries) == {entries[i] : i \in DOMAIN entries}

\* Epochs never run ahead of the manifest, a dequeue about to write has read its
\* own epoch, and what the owner is fetching is still in the manifest.
OwnerInv ==
    /\ \A c \in Consumers : consumer[c].epoch <= manifest.epoch
    /\ SingleOwner
    /\ \A c \in Consumers :
          consumer[c].phase = "deq_cas" =>
              consumer[c].snap.epoch = consumer[c].epoch
    /\ \A c \in Consumers :
          consumer[c].phase = "fetch" /\ consumer[c].epoch = manifest.epoch =>
              consumer[c].fetching \in EntriesOf(manifest.entries)

\* A file the collector that started at `now' may delete, by its age.
Old(l, now) == result[l] # "unused" /\ Age(now, ulid_ts[l]) >= GracePeriod

\* An enqueue in progress is young, and its file is there once it was put.
EnqueuesYoung ==
    \A p \in Producers :
        LET me == producer[p] IN
        me.phase # "idle" =>
            /\ result[me.loc] # "unused"
            /\ ulid_ts[me.loc] >= me.since - MaxSkew
            /\ me.since <= clock
            /\ clock - me.since <= MaxEnqueueDelay
            /\ me.phase # "put" => me.loc \in files

\* What a collector has found, or will find, to be deletable is unreferenced.
CollectorsSafe ==
    \A c \in Consumers :
        LET me == gc[c] IN
        /\ me.now <= clock
        /\ me.phase = "list" =>
              \A l \in Locations :
                  Old(l, me.now) /\ l \notin me.locations =>
                      l \notin ManifestLocations(manifest)
        /\ me.phase = "delete" =>
              \A l \in me.to_delete :
                  Old(l, me.now) /\ l \notin ManifestLocations(manifest)

CollectInv ==
    /\ \A l \in files : result[l] # "unused"
    /\ ManifestFilesExist
    /\ EnqueuesYoung
    /\ CollectorsSafe
-----------------------------------------------------------------------------
(***************************************************************************)
(* Fencing.                                                                *)
(***************************************************************************)

\* What the manifest operations do to the epoch and to the set of entries.
LEMMA ManifestOperationsEffect ==
    ASSUME NEW m \in Manifest
    PROVE  /\ \A l \in Locations :
                /\ ManifestAppend(m, l).epoch = m.epoch
                /\ EntriesOf(m.entries) \subseteq
                       EntriesOf(ManifestAppend(m, l).entries)
                /\ ManifestLocations(ManifestAppend(m, l)) \subseteq
                       ManifestLocations(m) \cup {l}
           /\ \A s \in Int :
                /\ ManifestDequeue(m, s).epoch = m.epoch
                /\ ManifestLocations(ManifestDequeue(m, s)) \subseteq
                       ManifestLocations(m)
           /\ \A e \in Nat :
                /\ ManifestSetEpoch(m, e).epoch = e
                /\ ManifestSetEpoch(m, e).entries = m.entries
                /\ ManifestLocations(ManifestSetEpoch(m, e)) =
                       ManifestLocations(m)
<1>0. /\ m.entries \in Seq(Entry) /\ Len(m.entries) \in Nat
      /\ DOMAIN m.entries = 1..Len(m.entries)
  BY LenProperties DEF Manifest
<1>1. ASSUME NEW l \in Locations
      PROVE  /\ ManifestAppend(m, l).epoch = m.epoch
             /\ EntriesOf(m.entries) \subseteq
                    EntriesOf(ManifestAppend(m, l).entries)
             /\ ManifestLocations(ManifestAppend(m, l)) \subseteq
                    ManifestLocations(m) \cup {l}
  <2> DEFINE n == Len(m.entries)
             e == [sequence |-> m.next_sequence, location |-> l]
             es == Append(m.entries, e)
  <2>1. ManifestAppend(m, l).epoch = m.epoch /\ ManifestAppend(m, l).entries = es
    BY DEF ManifestAppend, Manifest
  <2>2. e \in Entry /\ e.location = l
    BY DEF Manifest, Entry
  <2>3. /\ DOMAIN es = 1..(n + 1)
        /\ \A i \in 1..n : es[i] = m.entries[i]
        /\ es[n + 1] = e
    BY <1>0, <2>2, AppendProperties, LenProperties
  <2> HIDE DEF n, e, es
  <2>4. EntriesOf(m.entries) \subseteq EntriesOf(es)
    BY <1>0, <2>3 DEF EntriesOf, n
  <2>5. ASSUME NEW i \in DOMAIN es
        PROVE  es[i].location \in ManifestLocations(m) \cup {l}
    <3>1. CASE i = n + 1
      BY <2>2, <2>3, <3>1
    <3>2. CASE i \in 1..n
      BY <1>0, <2>3, <3>2 DEF ManifestLocations, n
    <3> QED
      BY <1>0, <2>3, <3>1, <3>2 DEF n
  <2> QED
    BY <2>1, <2>4, <2>5 DEF ManifestLocations
<1>2. ASSUME NEW s \in Int
      PROVE  /\ ManifestDequeue(m, s).epoch = m.epoch
             /\ ManifestLocations(ManifestDequeue(m, s)) \subseteq
                    ManifestLocations(m)
  <2> DEFINE k == SplitEntries(m.entries, s)
             n == Len(m.entries)
             es == SubSeq(m.entries, k + 1, n)
  <2>1. /\ ManifestDequeue(m, s).epoch = m.epoch
        /\ ManifestDequeue(m, s).entries = es
    BY DEF ManifestDequeue, Manifest
  <2>2. k \in 0..n /\ n \in Nat
    BY <1>0, SplitEntriesSpec
  <2>3. \A i \in (k + 1)..n : m.entries[i] \in Entry
    BY <1>0, <2>2, ElementOfSeq
  <2> HIDE DEF k, n
  <2>4. /\ es \in Seq(Entry)
        /\ Len(es) = IF k + 1 <= n THEN n - (k + 1) + 1 ELSE 0
        /\ \A i \in 1..(n - (k + 1) + 1) : es[i] = m.entries[k + 1 + i - 1]
    BY <2>2, <2>3, SubSeqProperties
  <2>5. DOMAIN es = 1..(n - k)
    BY <2>2, <2>4, LenProperties
  <2> HIDE DEF es
  <2>6. ASSUME NEW i \in DOMAIN es
        PROVE  es[i].location \in ManifestLocations(m)
    <3>1. k + 1 + i - 1 \in 1..n /\ i \in 1..(n - (k + 1) + 1)
      BY <2>2, <2>5
    <3>2. es[i] = m.entries[k + 1 + i - 1]
      BY <2>4, <3>1
    <3> QED
      BY <1>0, <3>1, <3>2 DEF ManifestLocations, n
  <2> QED
    BY <2>1, <2>6 DEF ManifestLocations
<1>3. ASSUME NEW e \in Nat
      PROVE  /\ ManifestSetEpoch(m, e).epoch = e
             /\ ManifestSetEpoch(m, e).entries = m.entries
             /\ ManifestLocations(ManifestSetEpoch(m, e)) = ManifestLocations(m)
  BY DEF ManifestSetEpoch, Manifest, ManifestLocations
<1> QED
  BY <1>1, <1>2, <1>3

\* A consumer that goes on without a manifest in hand, or gives up.
StepDown(con, con2) ==
    /\ con2.epoch \in {con.epoch, Uninitialized}
    /\ con2.phase \notin {"deq_cas", "fetch"}

LEMMA StepDownKeepsOwner ==
    ASSUME TypeInv, OwnerInv, NEW c \in Consumers, NEW con,
           consumer' = [consumer EXCEPT ![c] = con],
           StepDown(consumer[c], con),
           manifest'.epoch = manifest.epoch,
           \A d \in Consumers :
               /\ d # c
               /\ consumer[d].phase = "fetch"
               /\ consumer[d].epoch = manifest.epoch
               => consumer[d].fetching \in EntriesOf(manifest'.entries)
    PROVE  OwnerInv'
<1>0. /\ \A d \in Consumers : consumer[d].epoch \in Nat \cup {Uninitialized}
      /\ manifest.epoch \in Nat
      /\ consumer \in [Consumers -> Consumer]
  BY DEF TypeInv, TypeOK, Consumer, Manifest
<1>1. consumer'[c] = con /\ \A d \in Consumers \ {c} : consumer'[d] = consumer[d]
  BY <1>0
<1>2. \A d \in Consumers : consumer'[d].epoch <= manifest'.epoch
  BY <1>0, <1>1 DEF OwnerInv, StepDown, Uninitialized
<1>3. SingleOwner'
  BY <1>0, <1>1 DEF OwnerInv, SingleOwner, StepDown
<1> QED
  BY <1>1, <1>2, <1>3 DEF OwnerInv, StepDown

LEMMA OwnerConsumerStep ==
    ASSUME TypeInv, OwnerInv, NEW c \in Consumers,
           ConsumerNext(c) \/ Flush(c) \/ Close(c) \/ ConsumerCrash(c)
    PROVE  OwnerInv'
<1> DEFINE Me == consumer[c]
<1>0. /\ \A d \in Consumers : consumer[d].epoch \in Nat \cup {Uninitialized}
      /\ manifest \in Manifest /\ manifest.epoch \in Nat
      /\ consumer \in [Consumers -> Consumer] /\ Me \in Consumer
  BY DEF TypeInv, TypeOK, Consumer, Manifest
<1>1. ASSUME NEW con, consumer' = [consumer EXCEPT ![c] = con],
             StepDown(Me, con), UNCHANGED manifest
      PROVE  OwnerInv'
  BY <1>1, StepDownKeepsOwner DEF OwnerInv
<1>2. StepDown(Me, StoppedConsumer)
  BY DEF StepDown, StoppedConsumer, NewConsumer
<1>3. ASSUME NEW ok \in BOOLEAN, DequeueReturns(c, ok)
      PROVE  \E con : /\ consumer' = [consumer EXCEPT ![c] = con]
                      /\ StepDown(Me, con)
  <2> DEFINE con == [[Me EXCEPT !.snap = EmptyManifest, !.goal = "start"]
                        EXCEPT !.phase = "ready"]
  <2>1. StepDown(Me, con)
    BY <1>0 DEF StepDown, Consumer
  <2> QED
    BY <1>2, <1>3, <2>1 DEF DequeueReturns, Constructed
<1>4. CASE StartConsumer(c)
  <2>1. PICK last : consumer' = [consumer EXCEPT ![c].phase = "init",
                                                 ![c].last_acked = last,
                                                 ![c].last_fetched = last]
    BY <1>4 DEF StartConsumer
  <2> DEFINE con == [Me EXCEPT !.phase = "init", !.last_acked = last,
                               !.last_fetched = last]
  <2>2. StepDown(Me, con)
    BY <1>0 DEF StepDown, Consumer
  <2>3. consumer' = [consumer EXCEPT ![c] = con]
    BY <2>1
  <2> QED
    BY <1>1, <1>4, <2>2, <2>3 DEF StartConsumer
<1>5. CASE InitializeRead(c)
  <2>1. StepDown(Me, [Me EXCEPT !.phase = "init_cas", !.snap = manifest])
    BY <1>0 DEF StepDown, Consumer
  <2> QED
    BY <1>1, <1>2, <1>5, <2>1 DEF InitializeRead
<1>6. CASE InitializeCas(c)
  <2> DEFINE idle == [Me EXCEPT !.snap = EmptyManifest]
             next == Me.snap.epoch + 1
             m2 == ManifestSetEpoch(Me.snap, next)
  <2>1. PICK answer, con :
            /\ PutManifest(Me.snap, m2, answer)
            /\ consumer' = [consumer EXCEPT ![c] = con]
            /\ \/ /\ answer = "ok"
                  /\ con = [idle EXCEPT !.phase = "ready", !.epoch = next]
               \/ /\ answer = "ok"
                  /\ con = [idle EXCEPT !.phase = "deq", !.goal = "start",
                                        !.epoch = next]
               \/ answer # "ok" /\ con = [idle EXCEPT !.phase = "init"]
               \/ answer # "ok" /\ con = StoppedConsumer
    BY <1>6 DEF InitializeCas, Constructed
  <2>2. Me.snap \in Manifest /\ next \in Nat
    BY <1>0 DEF Consumer, Manifest
  <2> HIDE DEF next
  <2>3. /\ con.phase \notin {"deq_cas", "fetch"}
        /\ \/ answer = "ok" /\ con.epoch = next
           \/ answer # "ok" /\ StepDown(Me, con)
    <3>1. StepDown(Me, [idle EXCEPT !.phase = "init"])
      BY <1>0 DEF StepDown, Consumer
    <3>2. LET r == [idle EXCEPT !.phase = "ready", !.epoch = next]
          IN  r.phase = "ready" /\ r.epoch = next
      BY <1>0 DEF Consumer
    <3>3. LET r == [idle EXCEPT !.phase = "deq", !.goal = "start", !.epoch = next]
          IN  r.phase = "deq" /\ r.epoch = next
      BY <1>0 DEF Consumer
    <3> QED
      BY <1>2, <2>1, <3>1, <3>2, <3>3 DEF StepDown
  <2>4. CASE UNCHANGED manifest /\ answer # "ok"
    BY <1>1, <2>1, <2>3, <2>4
  <2>5. CASE manifest = Me.snap /\ manifest' = m2
    <3>1. /\ manifest'.epoch = next /\ next = manifest.epoch + 1
          /\ manifest'.entries = manifest.entries
      BY <2>2, <2>5, ManifestOperationsEffect DEF next
    <3>2. consumer'[c] = con /\ \A d \in Consumers \ {c} : consumer'[d] = consumer[d]
      BY <1>0, <2>1
    <3>3. \A d \in Consumers : consumer[d].epoch <= manifest.epoch
      BY DEF OwnerInv
    <3>4. \A d \in Consumers \ {c} : consumer'[d].epoch < manifest'.epoch
      BY <1>0, <3>1, <3>2, <3>3 DEF Uninitialized
    <3>5. \A d \in Consumers : consumer'[d].epoch <= manifest'.epoch
      BY <1>0, <2>3, <3>1, <3>2, <3>3 DEF StepDown, Uninitialized
    <3>6. SingleOwner'
      <4>1. \A d \in Consumers \ {c} :
                con.epoch = consumer[d].epoch => con.epoch = Uninitialized
        BY <1>0, <2>3, <3>1, <3>2, <3>4 DEF StepDown, OwnerInv, SingleOwner,
                                            Uninitialized
      <4> QED
        BY <3>2, <4>1 DEF OwnerInv, SingleOwner
    <3>7. \A d \in Consumers :
              consumer'[d].phase = "deq_cas" =>
                  consumer'[d].snap.epoch = consumer'[d].epoch
      BY <2>3, <3>2 DEF OwnerInv
    <3>8. \A d \in Consumers :
              consumer'[d].phase = "fetch" => consumer'[d].epoch # manifest'.epoch
      BY <1>0, <2>2, <2>3, <3>1, <3>2, <3>4 DEF Uninitialized
    <3> QED
      BY <3>5, <3>6, <3>7, <3>8 DEF OwnerInv
  <2> QED
    BY <2>1, <2>4, <2>5, PutManifestOutcome
<1>7. CASE DequeueRead(c)
  <2>1. CASE DequeueReturns(c, FALSE)
    BY <1>1, <1>3, <1>7, <2>1 DEF DequeueRead
  <2>2. CASE /\ manifest.epoch = Me.epoch
             /\ consumer' = [consumer EXCEPT ![c].phase = "deq_cas",
                                             ![c].snap = manifest]
    <3> DEFINE con == [Me EXCEPT !.phase = "deq_cas", !.snap = manifest]
    <3>1. /\ con.phase = "deq_cas" /\ con.snap = manifest
          /\ con.epoch = Me.epoch
      BY <1>0 DEF Consumer
    <3>2. consumer'[c] = con /\ \A d \in Consumers \ {c} : consumer'[d] = consumer[d]
      BY <1>0, <2>2
    <3>3. UNCHANGED manifest
      BY <1>7 DEF DequeueRead
    <3> HIDE DEF con
    <3>4. SingleOwner'
      BY <3>1, <3>2 DEF OwnerInv, SingleOwner
    <3>5. \A d \in Consumers : consumer'[d].epoch <= manifest'.epoch
      BY <3>1, <3>2, <3>3 DEF OwnerInv
    <3>6. \A d \in Consumers :
              consumer'[d].phase = "deq_cas" =>
                  consumer'[d].snap.epoch = consumer'[d].epoch
      BY <2>2, <3>1, <3>2 DEF OwnerInv
    <3>7. \A d \in Consumers :
              consumer'[d].phase = "fetch" /\ consumer'[d].epoch = manifest'.epoch
                  => consumer'[d].fetching \in EntriesOf(manifest'.entries)
      BY <3>1, <3>2, <3>3 DEF OwnerInv
    <3> QED
      BY <3>4, <3>5, <3>6, <3>7 DEF OwnerInv
  <2> QED
    BY <1>7, <2>1, <2>2 DEF DequeueRead
<1>8. CASE DequeueCas(c)
  <2>1. PICK answer, con :
            /\ PutManifest(Me.snap, ManifestDequeue(Me.snap, Me.last_acked),
                           answer)
            /\ consumer' = [consumer EXCEPT ![c] = con]
            /\ StepDown(Me, con)
    <3>1. StepDown(Me, [Me EXCEPT !.phase = "deq", !.snap = EmptyManifest])
      BY <1>0 DEF StepDown, Consumer
    <3> QED
      BY <1>3, <1>8, <3>1 DEF DequeueCas
  <2>2. CASE UNCHANGED manifest
    BY <1>1, <2>1, <2>2
  <2>3. CASE /\ manifest = Me.snap
             /\ manifest' = ManifestDequeue(Me.snap, Me.last_acked)
    <3>1. manifest'.epoch = manifest.epoch
      <4>1. Me.last_acked \in Int
        BY <1>0 DEF Consumer, NoSeq
      <4> QED
        BY <1>0, <2>3, <4>1, ManifestOperationsEffect
    <3>2. Me.epoch = manifest.epoch
      BY <1>8, <2>3 DEF DequeueCas, OwnerInv
    <3>3. \A d \in Consumers : d # c => consumer[d].epoch # manifest.epoch
      BY <1>0, <3>2 DEF OwnerInv, SingleOwner, Uninitialized
    <3> QED
      BY <2>1, <3>1, <3>3, StepDownKeepsOwner
  <2> QED
    BY <2>1, <2>2, <2>3, PutManifestOutcome
<1>9. CASE NextBatch(c)
  <2>1. PICK e \in NextEntry(c) :
            consumer' = [consumer EXCEPT ![c].phase = "fetch",
                                         ![c].fetching = e]
    BY <1>9 DEF NextBatch
  <2>2. e \in EntriesOf(manifest.entries)
    <3>1. CASE e \in FirstEntry(manifest)
      <4>1. manifest.entries # <<>> /\ e = manifest.entries[1]
        BY <3>1 DEF FirstEntry
      <4>2. 1 \in DOMAIN manifest.entries
        BY <1>0, <4>1, EmptySeq, LenProperties DEF Manifest
      <4> QED
        BY <4>1, <4>2 DEF EntriesOf
    <3>2. CASE e \in EntryAt(manifest, Me.last_fetched + 1)
      BY <3>2 DEF EntryAt, EntriesOf
    <3> QED
      BY <2>1, <3>1, <3>2 DEF NextEntry
  <2> DEFINE con == [Me EXCEPT !.phase = "fetch", !.fetching = e]
  <2>3. con.phase = "fetch" /\ con.fetching = e /\ con.epoch = Me.epoch
    BY <1>0 DEF Consumer
  <2>4. consumer'[c] = con /\ \A d \in Consumers \ {c} : consumer'[d] = consumer[d]
    BY <1>0, <2>1
  <2>5. UNCHANGED manifest
    BY <1>9 DEF NextBatch
  <2> HIDE DEF con
  <2>6. SingleOwner'
    BY <2>3, <2>4 DEF OwnerInv, SingleOwner
  <2> QED
    BY <2>2, <2>3, <2>4, <2>5, <2>6 DEF OwnerInv
<1>10. CASE FetchBatch(c)
  <2> DEFINE e == Me.fetching
             idle == [Me EXCEPT !.phase = "ready", !.fetching = NoEntry]
  <2>1. /\ StepDown(Me, idle)
        /\ StepDown(Me, [idle EXCEPT !.last_fetched = e.sequence,
                                     !.handed = @ \cup {e.sequence}])
    BY <1>0 DEF StepDown, Consumer
  <2> QED
    BY <1>1, <1>10, <2>1 DEF FetchBatch
<1>11. CASE Process(c)
  BY <1>11 DEF Process, OwnerInv, SingleOwner
<1>12. CASE Ack(c)
  <2> DEFINE count == (Me.ack_count + 1) % DequeueInterval
             con(s) == [Me EXCEPT !.last_acked = s, !.ack_count = count,
                          !.handed = @ \ {s},
                          !.goal = IF count = 0 THEN "ack" ELSE "start",
                          !.phase = IF count = 0 THEN "deq" ELSE "ready"]
  <2>1. /\ \E s : consumer' = [consumer EXCEPT ![c] = con(s)]
        /\ UNCHANGED manifest
    BY <1>12 DEF Ack
  <2> HIDE DEF count
  <2>2. \A s : StepDown(Me, con(s))
    BY <1>0 DEF StepDown, Consumer
  <2> QED
    BY <1>1, <2>1, <2>2
<1>13. CASE Flush(c) \/ Close(c)
  <2>1. ASSUME NEW goal, FlushAcks(c, goal)
        PROVE  OwnerInv'
    <3>1. StepDown(Me, [Me EXCEPT !.phase = "deq", !.goal = goal])
      BY <1>0 DEF StepDown, Consumer
    <3> QED
      BY <1>1, <2>1, <3>1 DEF FlushAcks
  <2> QED
    BY <1>1, <1>2, <1>13, <2>1 DEF Flush, Close
<1>14. CASE ConsumerCrash(c)
  BY <1>1, <1>2, <1>14 DEF ConsumerCrash
<1> QED
  BY <1>4, <1>5, <1>6, <1>7, <1>8, <1>9, <1>10, <1>11, <1>12, <1>13, <1>14
  DEF ConsumerNext

LEMMA OwnerProducerStep ==
    ASSUME TypeInv, OwnerInv, NEW p \in Producers,
           ProducerNext(p) \/ ProducerCrash(p)
    PROVE  OwnerInv'
<1> DEFINE Me == producer[p]
<1>0. Me \in Producer /\ manifest \in Manifest
  BY DEF TypeInv, TypeOK
<1>1. ASSUME UNCHANGED <<manifest, consumer>>
      PROVE  OwnerInv'
  BY <1>1 DEF OwnerInv, SingleOwner
<1>2. CASE EnqueueCas(p)
  <2>1. Me.loc \in Locations
    BY <1>2 DEF EnqueueCas, TypeInv, ProducerHasLocation
  <2>2. UNCHANGED manifest \/ manifest' = ManifestAppend(manifest, Me.loc)
    BY <1>2, PutManifestOutcome DEF EnqueueCas
  <2>3. /\ manifest'.epoch = manifest.epoch
        /\ EntriesOf(manifest.entries) \subseteq EntriesOf(manifest'.entries)
    BY <1>0, <2>1, <2>2, ManifestOperationsEffect
  <2>4. UNCHANGED consumer
    BY <1>2 DEF EnqueueCas
  <2> QED
    BY <2>3, <2>4 DEF OwnerInv, SingleOwner
<1> QED
  BY <1>1, <1>2 DEF ProducerNext, StartBatch, PutBatchFile, EnqueueRead,
                    ProducerCrash

LEMMA OwnerNext == TypeInv /\ OwnerInv /\ [Next]_vars => OwnerInv'
<1> SUFFICES ASSUME TypeInv, OwnerInv, [Next]_vars PROVE OwnerInv'
  OBVIOUS
<1>1. ASSUME UNCHANGED <<manifest, consumer>>
      PROVE  OwnerInv'
  BY <1>1 DEF OwnerInv, SingleOwner
<1>2. ASSUME NEW c \in Consumers, GcNext(c)
      PROVE  OwnerInv'
  BY <1>1, <1>2 DEF GcNext, GcStart, GcReadManifest, GcList, GcDelete, GcFinish
<1>3. CASE Tick \/ UNCHANGED vars
  BY <1>1, <1>3 DEF Tick, vars
<1> QED
  BY <1>2, <1>3, OwnerProducerStep, OwnerConsumerStep DEF Next

LEMMA OwnerAlways == Spec => [](TypeInv /\ OwnerInv)
<1>1. Init => TypeInv /\ OwnerInv
  <2>1. Init => OwnerInv
    BY DEF Init, OwnerInv, SingleOwner, NewConsumer, EmptyManifest, Uninitialized
  <2> QED
    BY <2>1, TypeInit
<1>2. TypeInv /\ OwnerInv /\ [Next]_vars => (TypeInv /\ OwnerInv)'
  BY TypeNext, OwnerNext
<1> QED
  BY <1>1, <1>2, PTL DEF Spec

\* Two consumers never hold the same epoch, however many initialize at once and
\* whichever of their conditional writes fail, are lost or are repeated.
THEOREM Fencing == Spec => []SingleOwner
<1>1. TypeInv /\ OwnerInv => SingleOwner
  BY DEF OwnerInv
<1> QED
  BY <1>1, OwnerAlways, PTL
-----------------------------------------------------------------------------
(***************************************************************************)
(* Garbage collection.                                                     *)
(***************************************************************************)

\* What the grace period is for.
GraceCoversEnqueue == MaxEnqueueDelay + MaxSkew < GracePeriod

\* No enqueue in progress has an old location.
LEMMA YoungIsNotOld ==
    ASSUME TypeInv, GraceCoversEnqueue, EnqueuesYoung, NEW p \in Producers,
           producer[p].phase # "idle", NEW now \in Nat, now <= clock
    PROVE  ~Old(producer[p].loc, now)
<1> DEFINE l == producer[p].loc
           since == producer[p].since
           ts == ulid_ts[l]
<1>1. l \in Locations /\ since \in Nat /\ ts \in Int /\ clock \in Nat
  BY DEF TypeInv, TypeOK, ProducerHasLocation, Producer
<1>2. ts >= since - MaxSkew /\ since <= clock /\ clock - since <= MaxEnqueueDelay
  BY DEF EnqueuesYoung
<1>3. Age(now, ts) < GracePeriod
  <2> HIDE DEF ts, since
  <2> QED
    BY <1>1, <1>2, QueueConstants DEF Age, GraceCoversEnqueue
<1>4. Age(now, ts) \in Int
  BY <1>1 DEF Age
<1> QED
  BY <1>3, <1>4, QueueConstants DEF Old

\* A collector that is where it was.
SameCycle(col, col2) ==
    /\ col2.phase = col.phase
    /\ col2.now = col.now
    /\ col2.locations = col.locations
    /\ col2.to_delete = col.to_delete

\* Steps that neither use a new location nor move the clock nor a collector:
\* the manifest may gain young locations and lose any.
LEMMA CollectFrame ==
    ASSUME TypeInv, CollectInv,
           UNCHANGED <<ulid_ts, clock>>,
           \A c \in Consumers :
               SameCycle(gc[c], gc'[c]) \/ gc'[c] = IdleCollector,
           \A l \in Locations : result'[l] = "unused" <=> result[l] = "unused",
           \A l \in files' : result[l] # "unused", files' \subseteq Locations,
           ManifestLocations(manifest') \subseteq files',
           \A l \in ManifestLocations(manifest') \ ManifestLocations(manifest) :
               \A now \in Nat : now <= clock => ~Old(l, now),
           EnqueuesYoung'
    PROVE  CollectInv'
<1>1. ASSUME NEW c \in Consumers, NEW l \in Locations
      PROVE  Old(l, gc[c].now)' <=> Old(l, gc'[c].now)
  BY DEF Old
<1>2. ManifestFilesExist' /\ \A l \in files' : result'[l] # "unused"
  BY DEF ManifestFilesExist
<1>3. CollectorsSafe'
  <2> DEFINE Safe(col) ==
        /\ col.now <= clock
        /\ col.phase = "list" =>
              \A l \in Locations : Old(l, col.now) /\ l \notin col.locations =>
                                    l \notin ManifestLocations(manifest')
        /\ col.phase = "delete" =>
              \A l \in col.to_delete : /\ l \in Locations
                                      /\ Old(l, col.now)
                                      /\ l \notin ManifestLocations(manifest')
  <2>1. ASSUME NEW c \in Consumers PROVE Safe(gc[c])
    <3>1. /\ gc[c].now \in Nat /\ gc[c].now <= clock
          /\ gc[c].to_delete \subseteq Locations
      BY DEF TypeInv, TypeOK, Collector, CollectInv, CollectorsSafe
    <3>2. ASSUME NEW l \in Locations, Old(l, gc[c].now),
                 l \notin ManifestLocations(manifest)
          PROVE  l \notin ManifestLocations(manifest')
      BY <3>1, <3>2
    <3> QED
      BY <3>1, <3>2 DEF CollectInv, CollectorsSafe
  <2>2. Safe(IdleCollector)
    BY DEF IdleCollector, TypeInv, TypeOK
  <2>3. \A c \in Consumers : Safe(gc'[c])
    BY <2>1, <2>2 DEF SameCycle
  <2> QED
    BY <1>1, <2>3 DEF CollectorsSafe
<1> QED
  BY <1>2, <1>3 DEF CollectInv

LEMMA CollectProducerStep ==
    ASSUME TypeInv, TypeInv', CollectInv, GraceCoversEnqueue,
           NEW p \in Producers, ProducerNext(p) \/ ProducerCrash(p)
    PROVE  CollectInv'
<1> DEFINE Me == producer[p]
           Young(me) == me.phase # "idle" =>
                            /\ result[me.loc] # "unused"
                            /\ ulid_ts[me.loc] >= me.since - MaxSkew
                            /\ me.since <= clock
                            /\ clock - me.since <= MaxEnqueueDelay
                            /\ me.phase # "put" => me.loc \in files
<1>0. /\ Me \in Producer /\ producer \in [Producers -> Producer]
      /\ result \in [Locations -> {"unused", "pending", "ok", "err"}]
      /\ files \subseteq Locations /\ manifest \in Manifest
      /\ ulid_ts \in [Locations -> Int] /\ clock \in Nat
      /\ \A q \in Producers :
            producer[q].phase # "idle" => producer[q].loc \in Locations
      /\ \A c \in Consumers : SameCycle(gc[c], gc[c])
  BY DEF TypeInv, TypeOK, ProducerHasLocation, SameCycle
<1>1. EnqueuesYoung /\ \A q \in Producers : Young(producer[q])
  BY DEF CollectInv, EnqueuesYoung
<1>2. CASE StartBatch(p)
  <2>1. PICK l \in Locations, ts \in (clock - MaxSkew)..(clock + MaxSkew) :
            /\ result[l] = "unused"
            /\ ulid_ts' = [ulid_ts EXCEPT ![l] = ts]
            /\ result' = [result EXCEPT ![l] = "pending"]
            /\ producer' = [producer EXCEPT ![p] =
                  [phase |-> "put", loc |-> l, since |-> clock,
                   snap |-> EmptyManifest]]
    BY <1>2 DEF StartBatch
  <2>2. UNCHANGED <<manifest, files, gc, clock>>
    BY <1>2 DEF StartBatch
  <2>3. /\ result'[l] = "pending" /\ ulid_ts'[l] = ts /\ ts \in Int
        /\ ts >= clock - MaxSkew
        /\ \A x \in Locations \ {l} :
              result'[x] = result[x] /\ ulid_ts'[x] = ulid_ts[x]
    BY <1>0, <2>1, QueueConstants
  <2>4. l \notin files /\ l \notin ManifestLocations(manifest)
    BY <2>1 DEF CollectInv, ManifestFilesExist
  <2>5. EnqueuesYoung'
    <3>1. ASSUME NEW q \in Producers, q # p, producer[q].phase # "idle"
          PROVE  producer[q].loc # l
      BY <1>1, <2>1, <3>1
    <3>2. ASSUME NEW q \in Producers
          PROVE  LET me == producer'[q] IN
                 me.phase # "idle" =>
                    /\ result'[me.loc] # "unused"
                    /\ ulid_ts'[me.loc] >= me.since - MaxSkew
                    /\ me.since <= clock
                    /\ clock - me.since <= MaxEnqueueDelay
                    /\ me.phase # "put" => me.loc \in files
      <4>1. CASE q = p
        BY <1>0, <2>1, <2>3, <4>1, QueueConstants
      <4>2. CASE q # p
        <5>1. producer'[q] = producer[q]
          BY <1>0, <2>1, <4>2
        <5> QED
          BY <1>0, <1>1, <2>3, <3>1, <4>2, <5>1
      <4> QED
        BY <4>1, <4>2
    <3> QED
      BY <2>2, <3>2 DEF EnqueuesYoung
  <2>6. CollectorsSafe'
    <3>1. ASSUME NEW c \in Consumers, NEW x \in Locations \ {l}
          PROVE  Old(x, gc[c].now)' <=> Old(x, gc[c].now)
      BY <2>2, <2>3 DEF Old
    <3>2. ASSUME NEW c \in Consumers
          PROVE  ~Old(l, gc[c].now)'
      <4>1. gc[c].now \in Nat /\ gc[c].now <= clock
        BY DEF TypeInv, TypeOK, Collector, CollectInv, CollectorsSafe
      <4>2. Age(gc[c].now, ts) < GracePeriod /\ Age(gc[c].now, ts) \in Int
        BY <1>0, <2>3, <4>1, QueueConstants DEF Age, GraceCoversEnqueue
      <4> QED
        BY <2>2, <2>3, <4>2, QueueConstants DEF Old
    <3>3. ASSUME NEW c \in Consumers, NEW x, Old(x, gc[c].now)
          PROVE  x # l
      BY <2>1, <3>3 DEF Old
    <3>4. \A c \in Consumers : gc[c].to_delete \subseteq Locations
      BY DEF TypeInv, TypeOK, Collector
    <3> QED
      BY <2>2, <3>1, <3>2, <3>3, <3>4 DEF CollectInv, CollectorsSafe
  <2>7. \A x \in files : result'[x] # "unused"
    BY <1>0, <2>3, <2>4 DEF CollectInv
  <2> QED
    BY <2>2, <2>5, <2>6, <2>7 DEF CollectInv, ManifestFilesExist
<1>3. ASSUME Me.phase # "idle",
             UNCHANGED <<ulid_ts, gc, clock>>,
             UNCHANGED result \/ \E r \in {"ok", "err"} :
                 result' = [result EXCEPT ![Me.loc] = r],
             files' = files \/ files' = files \cup {Me.loc},
             NEW me, producer' = [producer EXCEPT ![p] = me],
             \/ me.phase = "idle"
             \/ /\ me.loc = Me.loc /\ me.since = Me.since
                /\ Me.loc \in files',
             \/ UNCHANGED manifest
             \/ /\ manifest' = ManifestAppend(manifest, Me.loc)
                /\ Me.loc \in files
      PROVE  CollectInv'
  <2>0. Me.loc \in Locations /\ result[Me.loc] # "unused"
    BY <1>0, <1>1, <1>3
  <2>1. \A l \in Locations : result'[l] = "unused" <=> result[l] = "unused"
    BY <1>0, <1>3, <2>0
  <2>2. files \subseteq files' /\ files' \subseteq Locations
    BY <1>0, <1>3, <2>0
  <2>3. \A l \in files' : result[l] # "unused"
    BY <1>3, <2>0 DEF CollectInv
  <2>4. ManifestLocations(manifest') \subseteq ManifestLocations(manifest) \cup {Me.loc}
    BY <1>0, <1>3, <2>0, ManifestOperationsEffect
  <2>5. ManifestLocations(manifest') \subseteq files'
    <3>1. ManifestLocations(manifest) \subseteq files'
      BY <2>2 DEF CollectInv, ManifestFilesExist
    <3> QED
      BY <1>3, <2>2, <2>4, <3>1
  <2>6. \A now \in Nat : now <= clock => ~Old(Me.loc, now)
    BY <1>1, <1>3, YoungIsNotOld
  <2>7. EnqueuesYoung'
    <3>1. ASSUME NEW q \in Producers
          PROVE  LET you == producer'[q] IN
                 you.phase # "idle" =>
                    /\ result'[you.loc] # "unused"
                    /\ ulid_ts[you.loc] >= you.since - MaxSkew
                    /\ you.since <= clock
                    /\ clock - you.since <= MaxEnqueueDelay
                    /\ you.phase # "put" => you.loc \in files'
      <4>1. CASE q = p
        <5>1. producer'[q] = me
          BY <1>0, <1>3, <4>1
        <5> QED
          BY <1>1, <1>3, <2>0, <2>1, <5>1
      <4>2. CASE q # p
        <5>1. producer'[q] = producer[q]
          BY <1>0, <1>3, <4>2
        <5> QED
          BY <1>0, <1>1, <2>1, <2>2, <5>1
      <4> QED
        BY <4>1, <4>2
    <3> QED
      BY <1>3, <3>1 DEF EnqueuesYoung
  <2> QED
    BY <1>0, <1>3, <2>1, <2>2, <2>3, <2>4, <2>5, <2>6, <2>7, CollectFrame
<1>4. CASE PutBatchFile(p)
  <2> DEFINE me == [Me EXCEPT !.phase = "read"]
  <2>1. me.loc = Me.loc /\ me.since = Me.since
    BY <1>0 DEF Producer
  <2>2. CASE /\ files' = files \cup {Me.loc}
             /\ producer' = [producer EXCEPT ![p].phase = "read"]
             /\ UNCHANGED result
    <3>1. producer' = [producer EXCEPT ![p] = me]
      BY <2>2
    <3> QED
      BY <1>3, <1>4, <2>1, <2>2, <3>1 DEF PutBatchFile
  <2>3. CASE /\ FinishBatch(p, "err")
             /\ files' = files \/ files' = files \cup {Me.loc}
    BY <1>3, <1>4, <2>3, ResetValues DEF PutBatchFile, FinishBatch
  <2> QED
    BY <1>4, <2>2, <2>3 DEF PutBatchFile
<1>5. CASE EnqueueRead(p)
  <2> DEFINE me == [Me EXCEPT !.phase = "cas", !.snap = manifest]
  <2>1. me.loc = Me.loc /\ me.since = Me.since /\ Me.loc \in files
    BY <1>0, <1>1, <1>5 DEF Producer, EnqueueRead
  <2>2. CASE /\ producer' = [producer EXCEPT ![p].phase = "cas",
                                             ![p].snap = manifest]
             /\ UNCHANGED result
    <3>1. producer' = [producer EXCEPT ![p] = me]
      BY <2>2
    <3> QED
      BY <1>3, <1>5, <2>1, <2>2, <3>1 DEF EnqueueRead
  <2>3. CASE FinishBatch(p, "err")
    BY <1>3, <1>5, <2>3, ResetValues DEF EnqueueRead, FinishBatch
  <2> QED
    BY <1>5, <2>2, <2>3 DEF EnqueueRead
<1>6. CASE EnqueueCas(p)
  <2> DEFINE me == [Me EXCEPT !.phase = "read", !.snap = EmptyManifest]
  <2>1. me.loc = Me.loc /\ me.since = Me.since /\ Me.loc \in files
    BY <1>0, <1>1, <1>6 DEF Producer, EnqueueCas
  <2>2. UNCHANGED manifest \/ manifest' = ManifestAppend(manifest, Me.loc)
    BY <1>6, PutManifestOutcome DEF EnqueueCas
  <2>3. Me.phase # "idle" /\ UNCHANGED <<files, ulid_ts, gc, clock>>
    BY <1>6 DEF EnqueueCas
  <2>4. CASE /\ producer' = [producer EXCEPT ![p].phase = "read",
                                             ![p].snap = EmptyManifest]
             /\ UNCHANGED result
    <3>1. producer' = [producer EXCEPT ![p] = me]
      BY <2>4
    <3> QED
      BY <1>3, <2>1, <2>2, <2>3, <2>4, <3>1
  <2>5. ASSUME NEW r \in {"ok", "err"}, FinishBatch(p, r)
        PROVE  CollectInv'
    BY <1>3, <2>1, <2>2, <2>3, <2>5, ResetValues DEF FinishBatch
  <2> QED
    BY <1>6, <2>4, <2>5 DEF EnqueueCas
<1>7. CASE ProducerCrash(p)
  BY <1>3, <1>7, ResetValues DEF ProducerCrash
<1> QED
  BY <1>2, <1>4, <1>5, <1>6, <1>7 DEF ProducerNext

LEMMA CollectConsumerStep ==
    ASSUME TypeInv, CollectInv, NEW c \in Consumers,
           ConsumerNext(c) \/ Flush(c) \/ Close(c) \/ ConsumerCrash(c)
    PROVE  CollectInv'
<1> DEFINE Me == consumer[c]
<1>0. /\ Me \in Consumer /\ manifest \in Manifest /\ files \subseteq Locations
      /\ gc \in [Consumers -> Collector]
  BY DEF TypeInv, TypeOK
<1>1. UNCHANGED <<files, ulid_ts, result, producer, clock>>
  BY DEF ConsumerNext, StartConsumer, InitializeRead, InitializeCas, DequeueRead,
         DequeueCas, NextBatch, FetchBatch, Process, Ack, Flush, Close,
         FlushAcks, ConsumerCrash
<1>2. \A d \in Consumers : SameCycle(gc[d], gc'[d]) \/ gc'[d] = IdleCollector
  <2>1. \A b \in BOOLEAN, d \in Consumers :
            SameCycle(gc[d], [gc EXCEPT ![c].on = b][d])
    BY <1>0 DEF SameCycle, Collector
  <2> DEFINE Switched == \/ UNCHANGED gc
                         \/ \E b \in BOOLEAN : gc' = [gc EXCEPT ![c].on = b]
                         \/ gc' = [gc EXCEPT ![c] = IdleCollector]
  <2>2. Switched
    <3>1. ASSUME NEW ok \in BOOLEAN, DequeueReturns(c, ok) PROVE Switched
      BY <3>1 DEF DequeueReturns, Constructed
    <3>2. CASE DequeueRead(c) \/ DequeueCas(c)
      BY <3>1, <3>2 DEF DequeueRead, DequeueCas
    <3>3. CASE InitializeCas(c)
      BY <3>3 DEF InitializeCas, Constructed
    <3>4. CASE Close(c) \/ ConsumerCrash(c)
      BY <3>4 DEF Close, FlushAcks, ConsumerCrash
    <3> QED
      BY <3>2, <3>3, <3>4
      DEF ConsumerNext, StartConsumer, InitializeRead, NextBatch, FetchBatch,
          Process, Ack, Flush, FlushAcks
  <2>3. CASE \E b \in BOOLEAN : gc' = [gc EXCEPT ![c].on = b]
    <3>1. PICK b \in BOOLEAN : gc' = [gc EXCEPT ![c].on = b]
      BY <2>3
    <3> QED
      BY <2>1, <3>1
  <2>4. CASE UNCHANGED gc \/ gc' = [gc EXCEPT ![c] = IdleCollector]
    BY <1>0, <2>4 DEF SameCycle
  <2> QED
    BY <2>2, <2>3, <2>4
<1>3. ManifestLocations(manifest') \subseteq ManifestLocations(manifest)
  <2>1. CASE InitializeCas(c)
    <3>1. Me.snap.epoch + 1 \in Nat
      BY <1>0 DEF Consumer, Manifest
    <3>2. \/ UNCHANGED manifest
          \/ manifest' = ManifestSetEpoch(manifest, Me.snap.epoch + 1)
      BY <2>1, PutManifestOutcome DEF InitializeCas
    <3> QED
      BY <1>0, <3>1, <3>2, ManifestOperationsEffect
  <2>2. CASE DequeueCas(c)
    <3>1. Me.last_acked \in Int
      BY <1>0 DEF Consumer, NoSeq
    <3>2. \/ UNCHANGED manifest
          \/ manifest' = ManifestDequeue(manifest, Me.last_acked)
      BY <2>2, PutManifestOutcome DEF DequeueCas
    <3> QED
      BY <1>0, <3>1, <3>2, ManifestOperationsEffect
  <2>3. CASE UNCHANGED manifest
    BY <2>3
  <2> QED
    BY <2>1, <2>2, <2>3
    DEF ConsumerNext, StartConsumer, InitializeRead, DequeueRead, NextBatch,
        FetchBatch, Process, Ack, Flush, Close, FlushAcks, ConsumerCrash
<1>4. EnqueuesYoung' /\ ManifestLocations(manifest') \subseteq files
  BY <1>1, <1>3 DEF CollectInv, EnqueuesYoung, ManifestFilesExist
<1> QED
  BY <1>0, <1>1, <1>2, <1>3, <1>4, CollectFrame DEF CollectInv

LEMMA CollectCollectorStep ==
    ASSUME TypeInv, CollectInv, GraceCoversEnqueue, NEW c \in Consumers, GcNext(c)
    PROVE  CollectInv'
<1> DEFINE Me == gc[c]
           Safe(col) ==
             /\ col.now <= clock
             /\ col.phase = "list" =>
                  \A l \in Locations :
                      Old(l, col.now) /\ l \notin col.locations =>
                          l \notin ManifestLocations(manifest)
             /\ col.phase = "delete" =>
                  \A l \in col.to_delete :
                      Old(l, col.now) /\ l \notin ManifestLocations(manifest)
<1>0. /\ Me \in Collector /\ gc \in [Consumers -> Collector]
      /\ files \subseteq Locations /\ clock \in Nat /\ Me.now \in Nat
      /\ Me.to_delete \subseteq Locations
  BY DEF TypeInv, TypeOK, Collector
<1>1. \A d \in Consumers : Safe(gc[d])
  BY DEF CollectInv, CollectorsSafe
<1>2. UNCHANGED <<manifest, ulid_ts, result, producer, clock>>
  BY DEF GcNext, GcStart, GcReadManifest, GcList, GcDelete, GcFinish
<1>3. ASSUME NEW col, gc' = [gc EXCEPT ![c] = col], Safe(col)
      PROVE  CollectorsSafe'
  <2>1. \A d \in Consumers : Safe(gc'[d])
    BY <1>0, <1>1, <1>3
  <2>2. \A d \in Consumers : \A l : Old(l, gc[d].now)' <=> Old(l, gc'[d].now)
    BY <1>2 DEF Old
  <2> QED
    BY <1>2, <2>1, <2>2 DEF CollectorsSafe
<1>4. ASSUME UNCHANGED files, CollectorsSafe'
      PROVE  CollectInv'
  BY <1>2, <1>4 DEF CollectInv, EnqueuesYoung, ManifestFilesExist
<1>5. Safe([IdleCollector EXCEPT !.on = Me.on])
  BY <1>0 DEF IdleCollector
<1>6. CASE GcStart(c)
  <2>1. Safe([Me EXCEPT !.phase = "snapshot", !.now = clock])
    BY <1>0 DEF Collector
  <2> QED
    BY <1>3, <1>4, <1>6, <2>1 DEF GcStart
<1>7. CASE GcReadManifest(c)
  <2> DEFINE referenced == ManifestLocations(manifest)
             col == [Me EXCEPT !.phase = "list", !.locations = referenced]
  <2>1. /\ col.phase = "list" /\ col.locations = referenced
        /\ col.now = Me.now
    <3> HIDE DEF referenced
    <3> QED
      BY <1>0 DEF Collector
  <2>2. Safe(col)
    BY <1>1, <2>1
  <2> QED
    BY <1>3, <1>4, <1>5, <1>7, <2>2 DEF GcReadManifest
<1>8. CASE GcList(c)
  <2> DEFINE old == {l \in files : Deletable(l, Me.now, Me.locations)}
             col == [Me EXCEPT !.phase = "delete", !.locations = {},
                               !.to_delete = old]
  <2>1. \A l \in old : Old(l, Me.now) /\ l \notin ManifestLocations(manifest)
    BY <1>0, <1>1, <1>8 DEF GcList, Deletable, Old, CollectInv
  <2> HIDE DEF old
  <2>2. col.phase = "delete" /\ col.to_delete = old /\ col.now = Me.now
    BY <1>0 DEF Collector
  <2>3. Safe(col)
    BY <1>1, <2>1, <2>2
  <2> QED
    BY <1>3, <1>4, <1>5, <1>8, <2>3 DEF GcList, old
<1>9. CASE GcDelete(c)
  <2>1. PICK l \in Me.to_delete :
            /\ gc' = [gc EXCEPT ![c].to_delete = @ \ {l}]
            /\ files' = files \ {l} \/ UNCHANGED files
    BY <1>9 DEF GcDelete
  <2> DEFINE col == [Me EXCEPT !.to_delete = @ \ {l}]
  <2>2. /\ col.phase = Me.phase /\ col.now = Me.now
        /\ col.to_delete = Me.to_delete \ {l}
        /\ col.locations = Me.locations
    BY <1>0 DEF Collector
  <2>3. Safe(col)
    BY <1>1, <2>2
  <2>4. CollectorsSafe'
    BY <1>3, <2>1, <2>3
  <2>5. Old(l, Me.now) /\ l \notin ManifestLocations(manifest)
    BY <1>1, <1>9 DEF GcDelete
  <2>6. \A p \in Producers : producer[p].phase # "idle" => producer[p].loc # l
    <3>1. Me.now <= clock
      BY <1>1
    <3> QED
      BY <1>0, <2>5, <3>1, YoungIsNotOld DEF CollectInv
  <2>7. EnqueuesYoung' /\ ManifestFilesExist'
    BY <1>2, <2>1, <2>5, <2>6
    DEF CollectInv, EnqueuesYoung, ManifestFilesExist
  <2> QED
    BY <1>2, <2>1, <2>4, <2>7 DEF CollectInv
<1>10. CASE GcFinish(c)
  BY <1>3, <1>4, <1>5, <1>10 DEF GcFinish
<1> QED
  BY <1>6, <1>7, <1>8, <1>9, <1>10 DEF GcNext

LEMMA CollectNext ==
    GraceCoversEnqueue /\ TypeInv /\ TypeInv' /\ CollectInv /\ [Next]_vars
        => CollectInv'
<1> SUFFICES ASSUME GraceCoversEnqueue, TypeInv, TypeInv', CollectInv, [Next]_vars
             PROVE  CollectInv'
  OBVIOUS
<1>1. CASE Tick
  <2>1. /\ clock \in Nat /\ clock' = clock + 1
        /\ UNCHANGED <<manifest, files, ulid_ts, result, producer, gc>>
        /\ \A p \in Producers : producer[p].phase # "idle" =>
              clock - producer[p].since < MaxEnqueueDelay
        /\ \A p \in Producers : producer[p].since \in Nat
        /\ \A c \in Consumers : gc[c].now \in Nat
    BY <1>1 DEF Tick, TypeInv, TypeOK, Producer, Collector
  <2>2. EnqueuesYoung'
    BY <2>1, QueueConstants DEF CollectInv, EnqueuesYoung
  <2>3. \A c \in Consumers : \A l : Old(l, gc[c].now)' <=> Old(l, gc[c].now)
    BY <2>1 DEF Old
  <2>4. CollectorsSafe'
    BY <2>1, <2>3 DEF CollectInv, CollectorsSafe
  <2> QED
    BY <2>1, <2>2, <2>4 DEF CollectInv, ManifestFilesExist
<1>2. CASE UNCHANGED vars
  BY <1>2 DEF vars, CollectInv, EnqueuesYoung, CollectorsSafe, Old,
              ManifestFilesExist
<1> QED
  BY <1>1, <1>2, CollectProducerStep, CollectConsumerStep, CollectCollectorStep
  DEF Next

LEMMA CollectAlways ==
    GraceCoversEnqueue => (Spec => [](TypeInv /\ CollectInv))
<1> SUFFICES ASSUME GraceCoversEnqueue PROVE Spec => [](TypeInv /\ CollectInv)
  OBVIOUS
<1>1. Init => TypeInv /\ CollectInv
  <2> SUFFICES ASSUME Init PROVE CollectInv
    BY TypeInit
  <2>1. ManifestFilesExist
    BY DEF Init, ManifestFilesExist, ManifestLocations, EmptyManifest
  <2>2. EnqueuesYoung
    BY DEF Init, EnqueuesYoung, IdleProducer
  <2>3. CollectorsSafe
    BY DEF Init, CollectorsSafe, IdleCollector
  <2> QED
    BY <2>1, <2>2, <2>3 DEF Init, CollectInv
<1>2. TypeInv /\ CollectInv /\ [Next]_vars => (TypeInv /\ CollectInv)'
  BY TypeNext, CollectNext
<1> QED
  BY <1>1, <1>2, PTL DEF Spec

\* As long as the longest enqueue and the largest clock difference add up to
\* less than the grace period, no collector, of any number at work, deletes a
\* batch file the manifest refers to.
THEOREM CollectionSafety ==
    GraceCoversEnqueue => (Spec => []ManifestFilesExist)
<1>1. TypeInv /\ CollectInv => ManifestFilesExist
  BY DEF CollectInv
<1> QED
  BY <1>1, CollectAlways, PTL

\* Under the same bound, a consumer that has not been fenced finds the file of
\* the entry next_batch read, whatever rivals and collectors did in between.
THEOREM OwnerFindsFile ==
    GraceCoversEnqueue => (Spec => []ActiveFetchFindsFile)
<1>1. OwnerInv /\ CollectInv => ActiveFetchFindsFile
  BY DEF OwnerInv, CollectInv, ManifestFilesExist, ManifestLocations, EntriesOf,
         ActiveFetchFindsFile
<1> QED
  BY <1>1, OwnerAlways, CollectAlways, PTL
=============================================================================
