---------------------------- MODULE BufferQueue ----------------------------
(***************************************************************************)
(* The shared queue of the write buffer (crate `buffer`).                  *)
(*                                                                         *)
(* Producers upload a batch file and then append its location to one       *)
(* manifest object by read-modify-conditional-write.  Consumers take the   *)
(* queue over by raising the epoch kept in the manifest, read batches in   *)
(* sequence order, and remove what was acknowledged by the same            *)
(* conditional write.  Every consumer runs a garbage collector that        *)
(* deletes batch files no manifest entry refers to.                        *)
(*                                                                         *)
(* An object-store request is one step; everything between two requests    *)
(* is folded into the step of the later one.                               *)
(***************************************************************************)
EXTENDS Integers, Sequences, FiniteSets

CONSTANTS
    Producers,         \* batch-writer tasks, one per producer process
    Consumers,         \* Consumer instances; an instance is used once
    Collectors,        \* the consumers whose collector takes part (a bound)
    Locations,         \* the {ULID}.batch paths that may be generated
    DequeueInterval,   \* DEQUEUE_INTERVAL
    GracePeriod,       \* gc_grace_period
    MaxEnqueueDelay,   \* longest time from a ULID to the end of its enqueue
    MaxSkew,           \* largest distance of a producer's clock from a collector's
    Faults,            \* object-store faults that may occur, see FaultKinds
    ResumeModes,       \* what callers pass to Consumer::new, see ResumeKinds
    InOrderCaller,     \* whether callers finish and ack in delivery order
    Crashes,           \* whether processes may crash
    MaxClock,          \* bound on the clock
    MaxEpoch,          \* bound on takeovers, far below UNINITIALIZED_EPOCH
    MaxSequence,       \* bound on next_sequence
    NoLocation         \* the location of no batch

\* "fatal": the request fails and has no effect.  "lost": a conditional put
\* takes effect but its answer is an error.  "retried": a conditional put takes
\* effect, the client library repeats it, and the repetition is answered with a
\* failed precondition.
FaultKinds == {"fatal", "lost", "retried"}

\* "none": last_acked_sequence = None.  "checkpoint": Some of the highest
\* sequence the caller has processed when it builds the consumer.
ResumeKinds == {"none", "checkpoint"}

ASSUME QueueConstants ==
    /\ Collectors \subseteq Consumers
    /\ DequeueInterval \in Nat \ {0}
    /\ GracePeriod \in Nat
    /\ MaxEnqueueDelay \in Nat
    /\ MaxSkew \in Nat
    /\ Faults \subseteq FaultKinds
    /\ ResumeModes \subseteq ResumeKinds
    /\ InOrderCaller \in BOOLEAN
    /\ Crashes \in BOOLEAN
    /\ MaxClock \in Nat
    /\ MaxEpoch \in Nat
    /\ MaxSequence \in Nat
    /\ NoLocation \notin Locations

VARIABLES
    manifest,   \* the manifest object: entries, next_sequence, epoch
    files,      \* locations of the batch files in the object store
    ulid_ts,    \* timestamp inside the ULID of each generated location
    result,     \* what a location's DurabilityWatchers were told
    producer,   \* each batch writer's write_and_enqueue in progress
    consumer,   \* each Consumer and its request in progress
    gc,         \* each GarbageCollector and its cycle in progress
    clock,      \* real time
    processed,  \* sequences whose batch the callers have finished processing
    log         \* history: the locations in the order they were appended

vars == <<manifest, files, ulid_ts, result, producer, consumer, gc, clock,
          processed, log>>
----------------------------------------------------------------------------
(***************************************************************************)
(* The manifest and its operations.                                        *)
(***************************************************************************)

Entry == [sequence : Nat, location : Locations]

Manifest == [entries : Seq(Entry), next_sequence : Nat, epoch : Nat]

\* Manifest::empty, also what a read of an absent manifest object returns.
EmptyManifest == [entries |-> <<>>, next_sequence |-> 0, epoch |-> 0]

\* Mutant: next_sequence is not advanced.
ManifestAppendSameSequence(m, loc) ==
    [m EXCEPT !.entries = Append(@, [sequence |-> m.next_sequence,
                                     location |-> loc])]

ManifestAppend(m, loc) ==
    [m EXCEPT !.entries = Append(@, [sequence |-> m.next_sequence,
                                     location |-> loc]),
              !.next_sequence = @ + 1]

\* Mutant: one entry too many is removed.
SplitEntriesOneMore(entries, through) ==
    CHOOSE k \in 0..Len(entries) :
        /\ \A i \in 1..k : entries[i].sequence <= through + 1
        /\ k < Len(entries) => entries[k + 1].sequence > through + 1

\* split_entries: how many leading entries have a sequence up to `through'.
SplitEntries(entries, through) ==
    CHOOSE k \in 0..Len(entries) :
        /\ \A i \in 1..k : entries[i].sequence <= through
        /\ k < Len(entries) => entries[k + 1].sequence > through

ManifestDequeue(m, through) ==
    [m EXCEPT !.entries =
        SubSeq(@, SplitEntries(@, through) + 1, Len(@))]

\* Mutant: the epoch is not written.
ManifestSetEpochForgotten(m, epoch) == m

ManifestSetEpoch(m, epoch) == [m EXCEPT !.epoch = epoch]

\* QueueConsumer::peek and QueueConsumer::read: the entries a read may return.
EntryAt(m, sequence) ==
    {m.entries[i] : i \in {j \in DOMAIN m.entries :
                               m.entries[j].sequence = sequence}}

FirstEntry(m) == IF m.entries = <<>> THEN {} ELSE {m.entries[1]}

ManifestLocations(m) == {m.entries[i].location : i \in DOMAIN m.entries}

\* Mutant: the put is unconditional.
PutManifestBlind(old, new, answer) ==
    answer = "ok" /\ manifest' = new

\* ManifestStore::write: the answer the writer of `new' may get when the
\* manifest it read was `old'.  The UpdateVersion names the content it was read
\* with, so the precondition is that the content is still `old'.  A manifest
\* that was stored never equals the empty one, so PutMode::Create is covered.
PutManifest(old, new, answer) ==
    \/ /\ answer = "ok"
       /\ manifest = old
       /\ manifest' = new
    \/ /\ answer = "conflict"
       /\ manifest # old
       /\ UNCHANGED manifest
    \/ /\ answer = "conflict"
       /\ "retried" \in Faults
       /\ manifest = old
       /\ manifest' = new
    \/ /\ answer = "fatal"
       /\ "fatal" \in Faults
       /\ UNCHANGED manifest
    \/ /\ answer = "fatal"
       /\ "lost" \in Faults
       /\ manifest = old
       /\ manifest' = new
----------------------------------------------------------------------------
NoSeq == -1            \* Option::None for a sequence
Uninitialized == -1    \* UNINITIALIZED_EPOCH
NoEntry == [sequence |-> NoSeq, location |-> NoLocation]

ProducerPhases == {"idle", "put", "read", "cas"}

IdleProducer == [phase |-> "idle", loc |-> NoLocation, since |-> 0,
                 snap |-> EmptyManifest]

ConsumerPhases == {"off", "init", "init_cas", "deq", "deq_cas", "ready",
                   "fetch", "stopped"}

\* Why dequeue was called: by Consumer::new, ack, flush or close.
DequeueGoals == {"start", "ack", "flush", "close"}

NewConsumer ==
    [phase |-> "off", epoch |-> Uninitialized, last_acked |-> NoSeq,
     last_fetched |-> NoSeq, ack_count |-> 0, goal |-> "start",
     snap |-> EmptyManifest, fetching |-> NoEntry, handed |-> {}]

\* A Consumer that was never built, was closed, or whose process died.
StoppedConsumer == [NewConsumer EXCEPT !.phase = "stopped"]

CollectorPhases == {"idle", "snapshot", "list", "delete"}

IdleCollector == [on |-> FALSE, phase |-> "idle", now |-> 0,
                  locations |-> {}, to_delete |-> {}]

Init ==
    /\ manifest = EmptyManifest
    /\ files = {}
    /\ ulid_ts = [l \in Locations |-> 0]
    /\ result = [l \in Locations |-> "unused"]
    /\ producer = [p \in Producers |-> IdleProducer]
    /\ consumer = [c \in Consumers |-> NewConsumer]
    /\ gc = [c \in Consumers |-> IdleCollector]
    /\ clock = 0
    /\ processed = {}
    /\ log = <<>>
----------------------------------------------------------------------------
(***************************************************************************)
(* Producer: BatchWriterTask::write_and_enqueue and QueueProducer::enqueue.*)
(***************************************************************************)

\* A non-empty batch is taken and a fresh ULID is made from the producer's
\* clock.
StartBatch(p) ==
    /\ producer[p].phase = "idle"
    /\ \E l \in Locations, ts \in (clock - MaxSkew)..(clock + MaxSkew) :
        /\ result[l] = "unused"
        /\ ulid_ts' = [ulid_ts EXCEPT ![l] = ts]
        /\ result' = [result EXCEPT ![l] = "pending"]
        /\ producer' = [producer EXCEPT ![p] =
              [phase |-> "put", loc |-> l, since |-> clock,
               snap |-> EmptyManifest]]
    /\ UNCHANGED <<manifest, files, consumer, gc, clock, processed, log>>

\* write_and_enqueue returns r: write_batch drops the batch and tells r to all
\* its notifiers.
FinishBatch(p, r) ==
    /\ result' = [result EXCEPT ![producer[p].loc] = r]
    /\ producer' = [producer EXCEPT ![p] = IdleProducer]

\* object_store.put of the batch file.
PutBatchFile(p) ==
    /\ producer[p].phase = "put"
    /\ \/ /\ files' = files \cup {producer[p].loc}
          /\ producer' = [producer EXCEPT ![p].phase = "read"]
          /\ UNCHANGED result
       \/ /\ "fatal" \in Faults
          /\ FinishBatch(p, "err")
          /\ UNCHANGED files
       \/ /\ "lost" \in Faults
          /\ FinishBatch(p, "err")
          /\ files' = files \cup {producer[p].loc}
    /\ UNCHANGED <<manifest, ulid_ts, consumer, gc, clock, processed, log>>

\* The head of the enqueue loop: ManifestStore::read.
EnqueueRead(p) ==
    /\ producer[p].phase = "read"
    /\ \/ /\ producer' = [producer EXCEPT ![p].phase = "cas",
                                          ![p].snap = manifest]
          /\ UNCHANGED result
       \/ /\ "fatal" \in Faults
          /\ FinishBatch(p, "err")
    /\ UNCHANGED <<manifest, files, ulid_ts, consumer, gc, clock, processed,
                   log>>

\* The conditional write of the appended manifest and the three arms of the
\* match on its answer.
EnqueueCas(p) ==
    /\ producer[p].phase = "cas"
    /\ producer[p].snap.next_sequence < MaxSequence
    /\ \E answer \in {"ok", "conflict", "fatal"} :
        /\ PutManifest(producer[p].snap,
                       ManifestAppend(producer[p].snap, producer[p].loc),
                       answer)
        /\ \/ answer = "ok" /\ FinishBatch(p, "ok")
           \/ /\ answer = "conflict"
              /\ producer' = [producer EXCEPT ![p].phase = "read",
                                              ![p].snap = EmptyManifest]
              /\ UNCHANGED result
           \/ answer = "fatal" /\ FinishBatch(p, "err")
    /\ log' = IF manifest' = manifest THEN log
                                      ELSE Append(log, producer[p].loc)
    /\ UNCHANGED <<files, ulid_ts, consumer, gc, clock, processed>>

\* The producer process dies; nobody is told anything.
ProducerCrash(p) ==
    /\ Crashes
    /\ producer[p].phase # "idle"
    /\ producer' = [producer EXCEPT ![p] = IdleProducer]
    /\ UNCHANGED <<manifest, files, ulid_ts, result, consumer, gc, clock,
                   processed, log>>
----------------------------------------------------------------------------
(***************************************************************************)
(* Consumer.                                                               *)
(***************************************************************************)

\* What a caller may pass as last_acked_sequence.
ResumePoints ==
    (IF "none" \in ResumeModes THEN {NoSeq} ELSE {}) \cup
    (IF "checkpoint" \in ResumeModes
     THEN {s \in processed : \A t \in processed : t <= s} ELSE {})

\* Consumer::new is called.
StartConsumer(c) ==
    /\ consumer[c].phase = "off"
    /\ \E last \in ResumePoints :
        consumer' = [consumer EXCEPT ![c].phase = "init",
                                     ![c].last_acked = last,
                                     ![c].last_fetched = last]
    /\ UNCHANGED <<manifest, files, ulid_ts, result, producer, gc, clock,
                   processed, log>>

\* The head of the initialize loop.  An error makes Consumer::new fail.
InitializeRead(c) ==
    /\ consumer[c].phase = "init"
    /\ \/ consumer' = [consumer EXCEPT ![c].phase = "init_cas",
                                       ![c].snap = manifest]
       \/ /\ "fatal" \in Faults
          /\ consumer' = [consumer EXCEPT ![c] = StoppedConsumer]
    /\ UNCHANGED <<manifest, files, ulid_ts, result, producer, gc, clock,
                   processed, log>>

\* The constructed Consumer is handed to its caller and its collector spawned.
Constructed(c, con) ==
    /\ consumer' = [consumer EXCEPT ![c] = con]
    /\ gc' = [gc EXCEPT ![c].on = TRUE]

InitializeCas(c) ==
    LET snap == consumer[c].snap
        idle == [consumer[c] EXCEPT !.snap = EmptyManifest]
    IN
    /\ consumer[c].phase = "init_cas"
    /\ snap.epoch < MaxEpoch
    /\ \E answer \in {"ok", "conflict", "fatal"} :
        /\ PutManifest(snap, ManifestSetEpoch(snap, snap.epoch + 1), answer)
        /\ \/ /\ answer = "ok" /\ consumer[c].last_acked = NoSeq
              /\ Constructed(c, [idle EXCEPT !.phase = "ready",
                                             !.epoch = snap.epoch + 1])
           \/ /\ answer = "ok" /\ consumer[c].last_acked # NoSeq
              /\ consumer' = [consumer EXCEPT ![c] =
                    [idle EXCEPT !.phase = "deq", !.goal = "start",
                                 !.epoch = snap.epoch + 1]]
              /\ UNCHANGED gc
           \/ /\ answer = "conflict"
              /\ consumer' = [consumer EXCEPT ![c] =
                    [idle EXCEPT !.phase = "init"]]
              /\ UNCHANGED gc
           \/ /\ answer = "fatal"
              /\ consumer' = [consumer EXCEPT ![c] = StoppedConsumer]
              /\ UNCHANGED gc
    /\ UNCHANGED <<files, ulid_ts, result, producer, clock, processed, log>>

\* dequeue returns to whoever called it.  A failed Consumer::new yields no
\* consumer; a failed close leaves the collector running, since nothing cancels
\* it.
DequeueReturns(c, ok) ==
    LET idle == [consumer[c] EXCEPT !.snap = EmptyManifest, !.goal = "start"]
    IN
    \/ /\ consumer[c].goal = "start" /\ ok
       /\ Constructed(c, [idle EXCEPT !.phase = "ready"])
    \/ /\ consumer[c].goal = "start" /\ ~ok
       /\ consumer' = [consumer EXCEPT ![c] = StoppedConsumer]
       /\ UNCHANGED gc
    \/ /\ consumer[c].goal \in {"ack", "flush"}
       /\ consumer' = [consumer EXCEPT ![c] = [idle EXCEPT !.phase = "ready"]]
       /\ UNCHANGED gc
    \/ /\ consumer[c].goal = "close"
       /\ consumer' = [consumer EXCEPT ![c] = StoppedConsumer]
       /\ gc' = IF ok THEN [gc EXCEPT ![c].on = FALSE] ELSE gc

\* The head of the dequeue loop: read, and fail when fenced.
DequeueRead(c) ==
    /\ consumer[c].phase = "deq"
    /\ \/ /\ manifest.epoch = consumer[c].epoch
          /\ consumer' = [consumer EXCEPT ![c].phase = "deq_cas",
                                          ![c].snap = manifest]
          /\ UNCHANGED gc
       \/ /\ manifest.epoch # consumer[c].epoch \/ "fatal" \in Faults
          /\ DequeueReturns(c, FALSE)
    /\ UNCHANGED <<manifest, files, ulid_ts, result, producer, clock,
                   processed, log>>

DequeueCas(c) ==
    /\ consumer[c].phase = "deq_cas"
    /\ \E answer \in {"ok", "conflict", "fatal"} :
        /\ PutManifest(consumer[c].snap,
                       ManifestDequeue(consumer[c].snap,
                                       consumer[c].last_acked),
                       answer)
        /\ \/ answer = "ok" /\ DequeueReturns(c, TRUE)
           \/ /\ answer = "conflict"
              /\ consumer' = [consumer EXCEPT ![c].phase = "deq",
                                              ![c].snap = EmptyManifest]
              /\ UNCHANGED gc
           \/ answer = "fatal" /\ DequeueReturns(c, FALSE)
    /\ UNCHANGED <<files, ulid_ts, result, producer, clock, processed, log>>

\* Mutant: peek returns the newest entry.
NextEntryNewest(c) ==
    IF consumer[c].last_fetched = NoSeq
    THEN EntryAt(manifest, manifest.next_sequence - 1)
    ELSE EntryAt(manifest, consumer[c].last_fetched + 1)

\* next_batch up to the queue entry: peek for a new consumer, read of the
\* sequence after the last fetched one otherwise.  A fenced or failing read and
\* a missing entry leave the consumer as it was.
NextEntry(c) ==
    IF consumer[c].last_fetched = NoSeq
    THEN FirstEntry(manifest)
    ELSE EntryAt(manifest, consumer[c].last_fetched + 1)

NextBatch(c) ==
    /\ consumer[c].phase = "ready"
    /\ manifest.epoch = consumer[c].epoch
    /\ \E e \in NextEntry(c) :
        consumer' = [consumer EXCEPT ![c].phase = "fetch",
                                     ![c].fetching = e]
    /\ UNCHANGED <<manifest, files, ulid_ts, result, producer, gc, clock,
                   processed, log>>

\* fetch_batch: the GET of the batch file.  On an error the cursor stays.
FetchBatch(c) ==
    LET e == consumer[c].fetching
        idle == [consumer[c] EXCEPT !.phase = "ready", !.fetching = NoEntry]
    IN
    /\ consumer[c].phase = "fetch"
    /\ \/ /\ e.location \in files
          /\ consumer' = [consumer EXCEPT ![c] =
                [idle EXCEPT !.last_fetched = e.sequence,
                             !.handed = @ \cup {e.sequence}]]
       \/ /\ e.location \notin files \/ "fatal" \in Faults
          /\ consumer' = [consumer EXCEPT ![c] = idle]
    /\ UNCHANGED <<manifest, files, ulid_ts, result, producer, gc, clock,
                   processed, log>>

\* The caller (external) finishes a batch, in delivery order if InOrderCaller.
Process(c) ==
    /\ consumer[c].phase \in {"ready", "fetch", "deq", "deq_cas"}
    /\ \E s \in consumer[c].handed \ processed :
        /\ InOrderCaller =>
            \A t \in consumer[c].handed : t < s => t \in processed
        /\ processed' = processed \cup {s}
    /\ UNCHANGED <<manifest, files, ulid_ts, result, producer, consumer, gc,
                   clock, log>>

\* ack: in order once something was acked; every DequeueInterval-th ack goes on
\* to dequeue.  An out-of-order ack changes nothing.
Ack(c) ==
    LET con == consumer[c]
        count == (con.ack_count + 1) % DequeueInterval
    IN
    /\ con.phase = "ready"
    /\ \E s \in con.handed \cap processed :
        /\ InOrderCaller => \A t \in con.handed : s <= t
        /\ con.last_acked = NoSeq \/ s = con.last_acked + 1
        /\ consumer' = [consumer EXCEPT ![c] =
              [con EXCEPT !.last_acked = s, !.ack_count = count,
                          !.handed = @ \ {s},
                          !.goal = IF count = 0 THEN "ack" ELSE "start",
                          !.phase = IF count = 0 THEN "deq" ELSE "ready"]]
    /\ UNCHANGED <<manifest, files, ulid_ts, result, producer, gc, clock,
                   processed, log>>

\* flush, and close, which starts with a flush.
FlushAcks(c, goal) ==
    /\ consumer[c].phase = "ready"
    /\ consumer[c].last_acked # NoSeq
    /\ consumer' = [consumer EXCEPT ![c].phase = "deq", ![c].goal = goal]
    /\ UNCHANGED <<manifest, files, ulid_ts, result, producer, gc, clock,
                   processed, log>>

Flush(c) == FlushAcks(c, "flush")

Close(c) ==
    \/ FlushAcks(c, "close")
    \/ /\ consumer[c].phase = "ready"
       /\ consumer[c].last_acked = NoSeq
       /\ consumer' = [consumer EXCEPT ![c] = StoppedConsumer]
       /\ gc' = [gc EXCEPT ![c].on = FALSE]
       /\ UNCHANGED <<manifest, files, ulid_ts, result, producer, clock,
                      processed, log>>

\* The consumer process dies and its collector with it.
ConsumerCrash(c) ==
    /\ Crashes
    /\ consumer[c].phase \notin {"off", "stopped"}
    /\ consumer' = [consumer EXCEPT ![c] = StoppedConsumer]
    /\ gc' = [gc EXCEPT ![c] = IdleCollector]
    /\ UNCHANGED <<manifest, files, ulid_ts, result, producer, clock,
                   processed, log>>
----------------------------------------------------------------------------
(***************************************************************************)
(* GarbageCollector::collect_once, one request per step.                   *)
(***************************************************************************)

GcStart(c) ==
    /\ c \in Collectors
    /\ gc[c].on /\ gc[c].phase = "idle"
    /\ gc' = [gc EXCEPT ![c].phase = "snapshot", ![c].now = clock]
    /\ UNCHANGED <<manifest, files, ulid_ts, result, producer, consumer, clock,
                   processed, log>>

GcReadManifest(c) ==
    /\ gc[c].phase = "snapshot"
    /\ \/ gc' = [gc EXCEPT ![c].phase = "list",
                           ![c].locations = ManifestLocations(manifest)]
       \/ /\ "fatal" \in Faults
          /\ gc' = [gc EXCEPT ![c] = [IdleCollector EXCEPT !.on = gc[c].on]]
    /\ UNCHANGED <<manifest, files, ulid_ts, result, producer, consumer, clock,
                   processed, log>>

\* duration_since(..).unwrap_or_default(): a file from the future has age 0.
Age(now, ts) == IF now < ts THEN 0 ELSE now - ts

\* Mutant: the grace period is not checked.
DeletableAtOnce(l, now, locations) ==
    /\ \A k \in locations : ulid_ts[l] < ulid_ts[k]
    /\ l \notin locations

\* Mutant: only the grace period is checked.
DeletableByAge(l, now, locations) == Age(now, ulid_ts[l]) >= GracePeriod

\* None of the three reasons to keep a file holds.
Deletable(l, now, locations) ==
    /\ \A k \in locations : ulid_ts[l] < ulid_ts[k]
    /\ Age(now, ulid_ts[l]) >= GracePeriod
    /\ l \notin locations

GcList(c) ==
    /\ gc[c].phase = "list"
    /\ \/ gc' = [gc EXCEPT ![c].phase = "delete", ![c].locations = {},
                           ![c].to_delete =
                    {l \in files : Deletable(l, gc[c].now, gc[c].locations)}]
       \/ /\ "fatal" \in Faults
          /\ gc' = [gc EXCEPT ![c] = [IdleCollector EXCEPT !.on = gc[c].on]]
    /\ UNCHANGED <<manifest, files, ulid_ts, result, producer, consumer, clock,
                   processed, log>>

\* delete_stream: one file, which may fail without stopping the cycle.
GcDelete(c) ==
    /\ gc[c].phase = "delete"
    /\ \E l \in gc[c].to_delete :
        /\ gc' = [gc EXCEPT ![c].to_delete = @ \ {l}]
        /\ \/ files' = files \ {l}
           \/ "fatal" \in Faults /\ UNCHANGED files
    /\ UNCHANGED <<manifest, ulid_ts, result, producer, consumer, clock,
                   processed, log>>

GcFinish(c) ==
    /\ gc[c].phase = "delete"
    /\ gc[c].to_delete = {}
    /\ gc' = [gc EXCEPT ![c] = [IdleCollector EXCEPT !.on = gc[c].on]]
    /\ UNCHANGED <<manifest, files, ulid_ts, result, producer, consumer, clock,
                   processed, log>>
----------------------------------------------------------------------------
\* Time passes; no enqueue in progress is older than MaxEnqueueDelay.
Tick ==
    /\ clock < MaxClock
    /\ \A p \in Producers :
        producer[p].phase # "idle" =>
            clock - producer[p].since < MaxEnqueueDelay
    /\ clock' = clock + 1
    /\ UNCHANGED <<manifest, files, ulid_ts, result, producer, consumer, gc,
                   processed, log>>

ProducerNext(p) ==
    StartBatch(p) \/ PutBatchFile(p) \/ EnqueueRead(p) \/ EnqueueCas(p)

ConsumerNext(c) ==
    \/ StartConsumer(c) \/ InitializeRead(c) \/ InitializeCas(c)
    \/ DequeueRead(c) \/ DequeueCas(c)
    \/ NextBatch(c) \/ FetchBatch(c) \/ Process(c) \/ Ack(c)

GcNext(c) ==
    GcStart(c) \/ GcReadManifest(c) \/ GcList(c) \/ GcDelete(c) \/ GcFinish(c)

Next ==
    \/ \E p \in Producers : ProducerNext(p) \/ ProducerCrash(p)
    \/ \E c \in Consumers :
        ConsumerNext(c) \/ Flush(c) \/ Close(c) \/ ConsumerCrash(c) \/ GcNext(c)
    \/ Tick

Spec == Init /\ [][Next]_vars
----------------------------------------------------------------------------
(***************************************************************************)
(* Properties.                                                             *)
(***************************************************************************)

Producer == [phase : ProducerPhases, loc : Locations \cup {NoLocation},
             since : Nat, snap : Manifest]

Consumer ==
    [phase : ConsumerPhases, epoch : Nat \cup {Uninitialized},
     last_acked : Nat \cup {NoSeq}, last_fetched : Nat \cup {NoSeq},
     ack_count : 0..(DequeueInterval - 1), goal : DequeueGoals,
     snap : Manifest, fetching : Entry \cup {NoEntry}, handed : SUBSET Nat]

Collector == [on : BOOLEAN, phase : CollectorPhases, now : Nat,
              locations : SUBSET Locations, to_delete : SUBSET Locations]

\* Every variable holds a value of its type.
TypeOK ==
    /\ manifest \in Manifest
    /\ files \in SUBSET Locations
    /\ ulid_ts \in [Locations -> Int]
    /\ result \in [Locations -> {"unused", "pending", "ok", "err"}]
    /\ producer \in [Producers -> Producer]
    /\ consumer \in [Consumers -> Consumer]
    /\ gc \in [Consumers -> Collector]
    /\ clock \in Nat
    /\ processed \in SUBSET Nat
    /\ log \in Seq(Locations)

\* Delivery: a batch whose watchers were told it is durable was appended
\* (enqueue returned Ok only after its conditional write took effect), and
\* every appended batch stays in the manifest under the sequence it was given
\* until a caller has finished processing it, whatever producers, takeovers
\* and dequeues interleave.
NoLoss ==
    /\ \A l \in Locations :
        result[l] = "ok" => \E i \in DOMAIN log : log[i] = l
    /\ \A i \in DOMAIN log :
        \/ i - 1 \in processed
        \/ [sequence |-> i - 1, location |-> log[i]] \in
                {manifest.entries[j] : j \in DOMAIN manifest.entries}

\* The entries of the manifest carry consecutive sequences that end just before
\* next_sequence: Consumer::next_batch, which only ever asks for the sequence
\* after the last one, never meets a gap, and no sequence is given twice.
ContiguousSequences ==
    LET n == Len(manifest.entries) IN
    \A i \in 1..n :
        manifest.entries[i].sequence = manifest.next_sequence - n + i - 1

\* Fencing: initialize never gives one epoch to two consumers, so at most one
\* consumer passes the epoch test of peek, read and dequeue.
SingleOwner ==
    \A c, d \in Consumers :
        c # d /\ consumer[c].epoch = consumer[d].epoch =>
            consumer[c].epoch = Uninitialized

\* Batches are finished in ingestion order across takeovers: when one is
\* processed, so is every batch appended before it.
InOrderProcessing ==
    \A s \in processed : \A t \in 0..s : t \in processed

\* The collector never deletes a batch file that the manifest refers to, not
\* even one whose enqueue was still in flight when the file was listed.
ManifestFilesExist == ManifestLocations(manifest) \subseteq files

\* A consumer that has not been fenced finds the file of the entry it read: no
\* one dequeues the entry, and no collector deletes the file, in between.
ActiveFetchFindsFile ==
    \A c \in Consumers :
        consumer[c].phase = "fetch" /\ consumer[c].epoch = manifest.epoch =>
            consumer[c].fetching.location \in files

\* next_batch returns None to the active consumer only when it has fetched
\* every entry of the manifest ("If no entries are available, `None` is
\* returned").
NoneMeansDrained ==
    \A c \in Consumers :
        /\ consumer[c].phase = "ready"
        /\ consumer[c].epoch = manifest.epoch
        /\ NextEntry(c) = {}
        => \A i \in DOMAIN manifest.entries :
               manifest.entries[i].sequence <= consumer[c].last_fetched
----------------------------------------------------------------------------
\* How many batches are finished, and how many have left the manifest.
FinishedCount == Cardinality(processed)
ForgottenCount == manifest.next_sequence - Len(manifest.entries)

Fifo == INSTANCE FifoQueue WITH
            done <- FinishedCount, head <- ForgottenCount,
            epoch <- manifest.epoch

\* Every enqueue, initialize and dequeue loop, whatever it conflicts with, takes
\* effect at once or not at all, in the order of a log whose batches are
\* finished in order and forgotten only when finished.
ImplementsFifoQueue == Fifo!Spec

\* Some consumer holds the current epoch.
HasOwner == \E c \in Consumers : consumer[c].epoch = manifest.epoch
=============================================================================
