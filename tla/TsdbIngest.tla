----------------------------- MODULE TsdbIngest -----------------------------
(***************************************************************************)
(* Ingestion into the timeseries database (timeseries/src): the cache of   *)
(* buckets, loading and eviction, one write coordinator for each loaded    *)
(* bucket with its series ids, flush, queries and restarts.                *)
(*                                                                         *)
(* The write coordinator is modelled in detail by WriteCoordinator.  Here  *)
(* each MiniTsdb has a command queue, a current delta, frozen deltas and   *)
(* the Written watermark.  SlateDB is the sequence of batches it accepted, *)
(* of which the first `durable` survive a crash; a snapshot is the length  *)
(* of a prefix.                                                            *)
(*                                                                         *)
(* All series belong to one metric and differ in another label; a series   *)
(* stands for its labels and its fingerprint.  A call ingests at most one  *)
(* sample of a series into a bucket, so that sample is named by the call.  *)
(* The catalog of metric metadata, which only ingest_samples adds to and   *)
(* only find_metadata reads, is left out.                                  *)
(***************************************************************************)
EXTENDS Integers, Sequences, FiniteSets, Functions, FiniteSetsExt

CONSTANTS
    Buckets,         \* hours
    Series,          \* label sets
    Calls,           \* calls of ingest_samples
    Requests,        \* what the calls ingest, in each: buckets to sequences of series
    Flushes,         \* calls of flush
    Queries,         \* queries over all buckets
    QueueCapacity,   \* WriteCoordinatorConfig::queue_capacity
    Failures,        \* storage calls that may fail: "load", "apply", "flush"
    NoBucket,        \* no bucket
    MaxEvictions,    \* bound: evictions of idle buckets
    MaxRestarts      \* bound: crashes

ASSUME TsdbAssumption ==
    /\ \A r \in Requests : DOMAIN r = Calls /\ \A c \in Calls :
           DOMAIN r[c] \subseteq Buckets /\ \A b \in DOMAIN r[c] : r[c][b] \in Seq(Series) \ {<<>>}
    /\ Calls \cap Flushes = {}
    /\ QueueCapacity \in Nat \ {0}
    /\ Failures \subseteq {"load", "apply", "flush"}
    /\ NoBucket \notin Buckets
    /\ {MaxEvictions, MaxRestarts} \subseteq Nat

VARIABLES
    puts,       \* batches storage accepted, in order
    durable,    \* how many of them survive a crash
    cache,      \* ingest_cache: the index of the MiniTsdb of each bucket
    minis,      \* every MiniTsdb loaded since the database was opened
    ingests,    \* calls of ingest_samples and the point each has reached
    flushes,    \* calls of flush
    queries,    \* queries
    kept,       \* history: samples of calls that returned Ok
    flushed,    \* history: samples covered by a flush that returned Ok
    loads,      \* history: how often each bucket was loaded
    orphaned,   \* history: buckets whose cached MiniTsdb was replaced by another
    broken,     \* history: buckets a flush of which failed
    evictions,
    restarts

storage_vars == <<puts, durable>>
call_vars    == <<ingests, flushes, queries>>
history_vars == <<kept, flushed, loads, orphaned, broken, evictions, restarts>>
vars == <<storage_vars, cache, minis, call_vars, history_vars>>

NoMini == 0
Empty  == [s \in {} |-> 0]     \* a series dictionary without entries

-----------------------------------------------------------------------------
(* What storage holds in a prefix of n batches.  A batch is one flushed      *)
(* delta: its bucket, whether it adds the bucket to the bucket list, its new *)
(* series with their ids (the SeriesDictionary, ForwardIndex and             *)
(* InvertedIndex records are all made from these), and its samples by id.    *)

Of(b, n) == {i \in 1..n : puts[i].bucket = b}

BucketList(n) == {puts[i].bucket : i \in {j \in 1..n : puts[j].announce}}

\* SeriesDictionary: a later put of a fingerprint replaces an earlier one.
StoredDictionary(b, n) ==
    LET with(s) == {i \in Of(b, n) : s \in DOMAIN puts[i].new}
    IN  [s \in {t \in Series : with(t) # {}} |-> puts[Max(with(s))].new[s]]

\* InvertedIndex: the posting list of the metric name, which merges keep
\* growing.
Postings(b, n) == UNION {Range(puts[i].new) : i \in Of(b, n)}

\* ForwardIndex: the labels last put for an id.
Labels(b, n, id) ==
    LET last == puts[Max({i \in Of(b, n) : id \in Range(puts[i].new)})].new
    IN  CHOOSE s \in DOMAIN last : last[s] = id

\* TimeSeries: the samples merged under an id.
Samples(b, n, id) ==
    {x \in UNION {puts[i].samples : i \in Of(b, n)} : x.id = id}

StoredPoints(n) ==
    UNION {{[bucket |-> puts[i].bucket, series |-> x.series, call |-> x.call] :
                x \in puts[i].samples} : i \in 1..n}

\* What a reader of bucket b returns from snapshot n for the metric: each
\* sample under the labels of its id.
ReadBucket(b, n) ==
    UNION {{[bucket |-> b, labels |-> Labels(b, n, id),
             series |-> x.series, call |-> x.call] : x \in Samples(b, n, id)} :
               id \in Postings(b, n)}

-----------------------------------------------------------------------------
(* The delta of a bucket.                                                    *)

\* The lookup of ingest_sample: a series in neither dictionary gets the next
\* id.
Resolve(delta, s) ==
    IF s \in DOMAIN delta.new \cup DOMAIN delta.base THEN delta
    ELSE [delta EXCEPT !.new = [t \in DOMAIN @ \cup {s} |->
                                   IF t = s THEN delta.next_id ELSE @[t]],
                       !.next_id = @ + 1]

SeriesId(delta, s) ==
    IF s \in DOMAIN delta.new THEN delta.new[s] ELSE delta.base[s]

IngestSample(delta, s, c) ==
    LET resolved == Resolve(delta, s)
    IN  [resolved EXCEPT !.samples =
            @ \cup {[id |-> SeriesId(resolved, s), series |-> s, call |-> c]}]

\* Mutant: only the first series of the batch is applied.
ApplyFirst(delta, list, c) == IngestSample(delta, list[1], c)

\* TsdbWriteDelta::apply.  Samples were grouped by bucket, so none is outside
\* the bucket's range and no series fails.
Apply(delta, list, c) ==
    LET after[k \in 0..Len(list)] ==
            IF k = 0 THEN delta ELSE IngestSample(after[k - 1], list[k], c)
    IN  after[Len(list)]

\* TsdbWriteDelta::init.
InitDelta(base, next_id) ==
    [base |-> base, new |-> Empty, samples |-> {}, next_id |-> next_id]

\* load_series_dictionary: the largest id found, 0 without any.
MaxSeriesId(dictionary) == Max({0} \cup Range(dictionary))

\* flush_if_delta_has_writes: freeze the delta, if it holds writes, and start
\* another from the merged dictionary and the next id.
Freeze(m) ==
    IF m.epoch = m.delta_start THEN m
    ELSE LET merged == [s \in DOMAIN m.delta.base \cup DOMAIN m.delta.new |->
                           SeriesId(m.delta, s)]
         IN  [m EXCEPT !.frozen = Append(@, [new |-> m.delta.new, samples |-> m.delta.samples,
                                             epoch |-> m.epoch]),
                       !.delta_start = m.epoch,
                       !.delta = InitDelta(merged, m.delta.next_id)]

\* MiniTsdb::load, once the dictionary is read and the snapshot is taken.
NewMini(b, dictionary, next_id, n) ==
    [bucket |-> b, delta |-> InitDelta(dictionary, next_id), queue |-> <<>>,
     epoch |-> 0, delta_start |-> 0, frozen |-> <<>>, written |-> 0,
     snapshot |-> n, flusher |-> "idle", announced |-> FALSE]

-----------------------------------------------------------------------------
IdleIngest == [pc |-> "idle", request |-> Empty, todo |-> {}, bucket |-> NoBucket,
               mini |-> NoMini, dictionary |-> Empty]

IdleFlush == [pc |-> "idle", waits |-> {}, covers |-> {}]

IdleQuery == [pc |-> "idle", snapshot |-> 0, must |-> {}, result |-> {}]

Init ==
    /\ puts = <<>> /\ durable = 0
    /\ cache = [b \in Buckets |-> NoMini]
    /\ minis = <<>>
    /\ \E r \in Requests : ingests = [c \in Calls |-> [IdleIngest EXCEPT !.request = r[c]]]
    /\ flushes = [f \in Flushes |-> IdleFlush]
    /\ queries = [q \in Queries |-> IdleQuery]
    /\ kept = {} /\ flushed = {} /\ orphaned = {} /\ broken = {}
    /\ loads = [b \in Buckets |-> 0]
    /\ evictions = 0 /\ restarts = 0

\* A point is a sample as its caller knows it.
Points(c, request) ==
    UNION {{[bucket |-> b, series |-> s, call |-> c] : s \in Range(request[b])} :
              b \in DOMAIN request}

-----------------------------------------------------------------------------
(* Tsdb::ingest_samples.                                                     *)

\* The first pass groups the samples by bucket.
BeginIngest(c) ==
    /\ ingests[c].pc = "idle"
    /\ ingests' = [ingests EXCEPT ![c].pc = "pick", ![c].todo = DOMAIN ingests[c].request]
    /\ UNCHANGED <<storage_vars, cache, minis, flushes, queries, history_vars>>

\* The next bucket, in the order of a HashMap, and the lookup in the cache.
PickBucket(c) ==
    /\ ingests[c].pc = "pick"
    /\ \E b \in ingests[c].todo :
        ingests' = [ingests EXCEPT
            ![c].bucket = b,
            ![c].todo = @ \ {b},
            ![c].mini = cache[b],
            ![c].pc = IF cache[b] = NoMini THEN "load" ELSE "send"]
    /\ UNCHANGED <<storage_vars, cache, minis, flushes, queries, history_vars>>

\* All buckets are done.
EndIngest(c) ==
    /\ ingests[c].pc = "pick"
    /\ ingests[c].todo = {}
    /\ ingests' = [ingests EXCEPT ![c].pc = "ok"]
    /\ kept' = kept \cup Points(c, ingests[c].request)
    /\ UNCHANGED <<storage_vars, cache, minis, flushes, queries, flushed, loads, orphaned,
                   broken, evictions, restarts>>

\* The call ends with an error; the buckets before this one keep their samples.
IngestFails(c) ==
    ingests' = [ingests EXCEPT ![c].pc = "err", ![c].todo = {}, ![c].mini = NoMini,
                               ![c].bucket = NoBucket]

\* MiniTsdb::load reads the series dictionary from a first snapshot.
LoadDictionary(c) ==
    /\ ingests[c].pc = "load"
    /\ \/ ingests' = [ingests EXCEPT
              ![c].pc = "start",
              ![c].dictionary = StoredDictionary(ingests[c].bucket, Len(puts))]
       \/ "load" \in Failures /\ IngestFails(c)
    /\ UNCHANGED <<storage_vars, cache, minis, flushes, queries, history_vars>>

\* MiniTsdb::load takes a second snapshot and starts a coordinator, and
\* get_or_create_for_ingest inserts the MiniTsdb, which replaces one that was
\* inserted meanwhile.
StartMini(c) ==
    /\ ingests[c].pc = "start"
    /\ LET b == ingests[c].bucket
           d == ingests[c].dictionary
       IN  /\ minis' = Append(minis, NewMini(b, d, MaxSeriesId(d), Len(puts)))
           /\ cache' = [cache EXCEPT ![b] = Len(minis) + 1]
           /\ orphaned' = IF cache[b] = NoMini THEN orphaned ELSE orphaned \cup {b}
           /\ loads' = [loads EXCEPT ![b] = @ + 1]
    /\ ingests' = [ingests EXCEPT ![c].pc = "send", ![c].mini = Len(minis) + 1,
                                  ![c].dictionary = Empty]
    /\ UNCHANGED <<storage_vars, flushes, queries, kept, flushed, broken, evictions,
                   restarts>>

\* MiniTsdb::ingest_batch queues the write.  With a full queue try_write fails
\* at once and write_timeout when its time is up.
SendBatch(c) ==
    /\ ingests[c].pc = "send"
    /\ LET m == ingests[c].mini
       IN  \/ /\ Len(minis[m].queue) < QueueCapacity
              /\ minis' = [minis EXCEPT ![m].queue = Append(@, [op |-> "write", call |-> c])]
              /\ ingests' = [ingests EXCEPT ![c].pc = "wait"]
           \/ /\ Len(minis[m].queue) = QueueCapacity
              /\ IngestFails(c)
              /\ UNCHANGED minis
    /\ UNCHANGED <<storage_vars, cache, flushes, queries, history_vars>>

-----------------------------------------------------------------------------
(* The write task of MiniTsdb m.                                             *)

NextIs(m, op) == minis[m].queue # <<>> /\ Head(minis[m].queue).op = op

\* handle_write; the caller waits for Applied only.  The delta may have
\* reached the size threshold.
HandleWrite(m) ==
    /\ NextIs(m, "write")
    /\ LET c    == Head(minis[m].queue).call
           done == [minis[m] EXCEPT
                       !.queue = Tail(@), !.epoch = @ + 1,
                       !.delta = Apply(@, ingests[c].request[minis[m].bucket], c)]
       IN  /\ \E large \in BOOLEAN :
                 minis' = [minis EXCEPT ![m] = IF large THEN Freeze(done) ELSE done]
           /\ ingests' = [ingests EXCEPT ![c].pc = "pick", ![c].mini = NoMini,
                                         ![c].bucket = NoBucket]
    /\ UNCHANGED <<storage_vars, cache, flushes, queries, history_vars>>

\* A flush command is answered with the last epoch.
HandleFlush(m) ==
    /\ NextIs(m, "flush")
    /\ LET f == Head(minis[m].queue).call
       IN  flushes' = [flushes EXCEPT ![f].waits =
               {IF w.mini = m THEN [w EXCEPT !.epoch = minis[m].epoch] ELSE w : w \in @}]
    /\ minis' = [minis EXCEPT ![m] = Freeze([@ EXCEPT !.queue = Tail(@)])]
    /\ UNCHANGED <<storage_vars, cache, ingests, queries, history_vars>>

Held(m) ==
    \/ \E b \in Buckets : cache[b] = m
    \/ \E c \in Calls : ingests[c].mini = m
    \/ \E f \in Flushes : \E w \in flushes[f].waits : w.mini = m

\* Mutant: a MiniTsdb that nobody holds is not flushed.
TickHeld(m) ==
    /\ Held(m)
    /\ minis[m].epoch # minis[m].delta_start
    /\ minis' = [minis EXCEPT ![m] = Freeze(@)]
    /\ UNCHANGED <<storage_vars, cache, call_vars, history_vars>>

\* The flush interval, or the end of the loop when nobody holds the MiniTsdb
\* any more and its channel is closed.
Tick(m) ==
    /\ minis[m].epoch # minis[m].delta_start
    /\ Held(m) \/ minis[m].queue = <<>>
    /\ minis' = [minis EXCEPT ![m] = Freeze(@)]
    /\ UNCHANGED <<storage_vars, cache, call_vars, history_vars>>

-----------------------------------------------------------------------------
(* The flush task of MiniTsdb m: TsdbFlusher::flush_delta.                   *)

\* bucket_list_contains.
CheckBucket(m) ==
    /\ minis[m].flusher = "idle"
    /\ minis[m].frozen # <<>>
    /\ minis' = [minis EXCEPT ![m].flusher = "checked",
                              ![m].announced = minis[m].bucket \in BucketList(Len(puts))]
    /\ UNCHANGED <<storage_vars, cache, call_vars, history_vars>>

\* The operations made from the oldest frozen delta, applied as one batch.
Batch(m) ==
    LET frozen == Head(m.frozen)
    IN  [bucket |-> m.bucket, announce |-> ~m.announced,
         new |-> frozen.new, samples |-> frozen.samples]

StoreDelta(m) ==
    /\ minis[m].flusher = "checked"
    /\ puts' = Append(puts, Batch(minis[m]))
    /\ minis' = [minis EXCEPT ![m].flusher = "stored"]
    /\ UNCHANGED <<durable, cache, call_vars, history_vars>>

\* The check of the list, storage.apply or the snapshot after it fails, so the
\* batch is stored or not.  While the MiniTsdb is in
\* use this ends its flush task.  When it is being dropped the task drains what
\* is left, and the error only costs this delta.
StoreFails(m) ==
    /\ "apply" \in Failures
    /\ minis[m].flusher = "checked"
    /\ \/ puts' = Append(puts, Batch(minis[m]))
       \/ UNCHANGED puts
    /\ minis' = [minis EXCEPT ![m] =
           IF Held(m) THEN [@ EXCEPT !.flusher = "failed"]
           ELSE [@ EXCEPT !.flusher = "idle", !.frozen = Tail(@)]]
    /\ broken' = broken \cup {minis[m].bucket}
    /\ UNCHANGED <<durable, cache, call_vars, kept, flushed, loads, orphaned, evictions,
                   restarts>>

\* Mutant: the view keeps the snapshot the bucket was loaded with.
PublishDeltaStale(m) ==
    /\ minis[m].flusher = "stored"
    /\ minis' = [minis EXCEPT ![m].flusher = "idle",
                              ![m].written = Head(minis[m].frozen).epoch,
                              ![m].frozen = Tail(@)]
    /\ UNCHANGED <<storage_vars, cache, call_vars, history_vars>>

\* The new snapshot, the view and the Written watermark.
PublishDelta(m) ==
    /\ minis[m].flusher = "stored"
    /\ minis' = [minis EXCEPT ![m].flusher = "idle",
                              ![m].snapshot = Len(puts),
                              ![m].written = Head(minis[m].frozen).epoch,
                              ![m].frozen = Tail(@)]
    /\ UNCHANGED <<storage_vars, cache, call_vars, history_vars>>

-----------------------------------------------------------------------------
(* Tsdb::flush, also the first half of create_checkpoint and close.          *)

Pending == -1

Cached == {cache[b] : b \in Buckets} \ {NoMini}

\* flush_written on every cached MiniTsdb; the commands are sent before the
\* first wait.  A full queue fails the call, with any of the others sent.
BeginFlush(f) ==
    LET free == {m \in Cached : Len(minis[m].queue) < QueueCapacity}
    IN  /\ flushes[f].pc = "idle"
        /\ \E sent \in SUBSET free :
               /\ free = Cached => sent = Cached
               /\ minis' = [m \in DOMAIN minis |->
                      IF m \in sent
                      THEN [minis[m] EXCEPT !.queue = Append(@, [op |-> "flush", call |-> f])]
                      ELSE minis[m]]
        /\ flushes' = [flushes EXCEPT ![f] =
               [pc     |-> IF free = Cached THEN "wait" ELSE "err",
                waits  |-> IF free = Cached
                           THEN {[mini |-> m, epoch |-> Pending] : m \in Cached} ELSE {},
                covers |-> {p \in kept : free = Cached /\ p.bucket \notin orphaned \cup broken}]]
        /\ UNCHANGED <<storage_vars, cache, ingests, queries, history_vars>>

\* Mutant: the answer to the command is taken for the write itself.
AllWrittenAnswered(f) == \A w \in flushes[f].waits : w.epoch # Pending

AllWritten(f) ==
    \A w \in flushes[f].waits : w.epoch # Pending /\ minis[w.mini].written >= w.epoch

\* Every delta is in storage; storage.flush makes it durable.
EndFlush(f) ==
    /\ flushes[f].pc = "wait"
    /\ AllWritten(f)
    /\ \/ /\ durable' = Len(puts)
          /\ flushes' = [flushes EXCEPT ![f].pc = "ok", ![f].waits = {}]
          /\ flushed' = flushed \cup flushes[f].covers
       \/ /\ "flush" \in Failures
          /\ flushes' = [flushes EXCEPT ![f].pc = "err", ![f].waits = {}]
          /\ UNCHANGED <<durable, flushed>>
    /\ UNCHANGED <<puts, cache, minis, ingests, queries, kept, loads, orphaned, broken,
                   evictions, restarts>>

-----------------------------------------------------------------------------
(* Tsdb::query_reader.                                                       *)

\* A snapshot of storage, which lists the buckets.
BeginQuery(q) ==
    /\ queries[q].pc = "idle"
    /\ queries' = [queries EXCEPT ![q] =
           [pc |-> "build", snapshot |-> Len(puts), must |-> flushed, result |-> {}]]
    /\ UNCHANGED <<storage_vars, cache, minis, ingests, flushes, history_vars>>

\* build_readers: a bucket in the cache is read from the snapshot of its
\* coordinator's view, another from the snapshot of the query.
ReaderSnapshot(q, b) ==
    IF cache[b] = NoMini THEN queries[q].snapshot ELSE minis[cache[b]].snapshot

EndQuery(q) ==
    /\ queries[q].pc = "build"
    /\ queries' = [queries EXCEPT ![q].pc = "done", ![q].result =
           UNION {ReadBucket(b, ReaderSnapshot(q, b)) :
                      b \in BucketList(queries[q].snapshot)}]
    /\ UNCHANGED <<storage_vars, cache, minis, ingests, flushes, history_vars>>

-----------------------------------------------------------------------------
\* moka drops a bucket after 15 minutes without access.  Nobody uses it then,
\* and with a flush interval of 10 seconds its deltas are in storage unless its
\* flush task has ended.
Evict(b) ==
    /\ evictions < MaxEvictions
    /\ cache[b] # NoMini
    /\ LET m == minis[cache[b]]
       IN  /\ m.queue = <<>>
           /\ \/ m.epoch = m.delta_start /\ m.frozen = <<>>
              \/ m.flusher = "failed"
    /\ \A c \in Calls : ingests[c].bucket # b
    /\ cache' = [cache EXCEPT ![b] = NoMini]
    /\ evictions' = evictions + 1
    /\ UNCHANGED <<storage_vars, minis, call_vars, kept, flushed, loads, orphaned, broken,
                   restarts>>

\* The process dies, with SlateDB having made any more of its batches durable,
\* and the database is opened again, where coalesce_bucket_list rewrites the
\* bucket list as it is.
Crash ==
    /\ restarts < MaxRestarts
    /\ restarts' = restarts + 1
    /\ \E n \in durable..Len(puts) :
        /\ puts' = SubSeq(puts, 1, n)
        /\ durable' = n
        /\ kept' = kept \cap StoredPoints(n)
    /\ cache' = [b \in Buckets |-> NoMini]
    /\ minis' = <<>>
    /\ ingests' = [c \in Calls |-> [IdleIngest EXCEPT
                      !.pc = IF ingests[c].pc = "idle" THEN "idle" ELSE "gone",
                      !.request = ingests[c].request]]
    /\ flushes' = [f \in Flushes |-> [IdleFlush EXCEPT !.pc =
                      IF flushes[f].pc = "idle" THEN "idle" ELSE "gone"]]
    /\ queries' = [q \in Queries |-> IdleQuery]
    /\ UNCHANGED <<flushed, loads, orphaned, broken, evictions>>

Caller ==
    \/ \E c \in Calls : \/ BeginIngest(c) \/ PickBucket(c) \/ EndIngest(c)
                        \/ LoadDictionary(c) \/ StartMini(c) \/ SendBatch(c)
    \/ \E f \in Flushes : BeginFlush(f) \/ EndFlush(f)
    \/ \E q \in Queries : BeginQuery(q) \/ EndQuery(q)

WriteTask(m) == HandleWrite(m) \/ HandleFlush(m) \/ Tick(m)

FlushTask(m) == CheckBucket(m) \/ StoreDelta(m) \/ StoreFails(m) \/ PublishDelta(m)

\* Calls that were made, the tasks of the coordinators and their interval.
Progress ==
    \/ \E c \in Calls : \/ PickBucket(c) \/ EndIngest(c) \/ LoadDictionary(c)
                        \/ StartMini(c) \/ SendBatch(c)
    \/ \E m \in DOMAIN minis : WriteTask(m) \/ FlushTask(m)

Next ==
    \/ Caller
    \/ \E m \in DOMAIN minis : WriteTask(m) \/ FlushTask(m)
    \/ \E b \in Buckets : Evict(b)
    \/ Crash

Spec == Init /\ [][Next]_vars

-----------------------------------------------------------------------------
(* Properties.                                                               *)

\* Every variable has the type the code gives it.
TypeOK ==
    /\ durable \in 0..Len(puts)
    /\ \A i \in DOMAIN puts : puts[i].bucket \in Buckets /\ puts[i].announce \in BOOLEAN
    /\ cache \in [Buckets -> 0..Len(minis)]
    /\ \A m \in DOMAIN minis :
           /\ minis[m].bucket \in Buckets
           /\ minis[m].snapshot \in 0..Len(puts)
           /\ minis[m].written <= minis[m].delta_start
           /\ minis[m].delta_start <= minis[m].epoch
           /\ minis[m].flusher \in {"idle", "checked", "stored", "failed"}
           /\ Len(minis[m].queue) <= QueueCapacity
    /\ \A b \in Buckets : cache[b] # NoMini => minis[cache[b]].bucket = b
    /\ \A c \in Calls : ingests[c].pc \in {"idle", "pick", "load", "start", "send", "wait",
                                           "ok", "err", "gone"}
    /\ \A f \in Flushes : flushes[f].pc \in {"idle", "wait", "ok", "err", "gone"}
    /\ \A q \in Queries : queries[q].pc \in {"idle", "build", "done"}

InMemory ==
    UNION {{[bucket |-> minis[m].bucket, series |-> x.series, call |-> x.call] :
               x \in minis[m].delta.samples \cup
                     UNION {minis[m].frozen[i].samples : i \in DOMAIN minis[m].frozen}} :
              m \in DOMAIN minis}

\* A sample whose call returned Ok is in storage or in a delta that will be
\* flushed, also when its bucket was evicted or its MiniTsdb replaced in the
\* cache; only a failed flush of the bucket or a crash loses it.
IngestedIsKept ==
    \A p \in kept : p.bucket \in broken \/ p \in StoredPoints(Len(puts)) \cup InMemory

\* What had been ingested when flush() was called survives a crash once it
\* returns, if no MiniTsdb of the bucket was replaced in the cache before.
FlushMakesDurable == flushed \subseteq StoredPoints(durable)

\* A query that starts after a flush returned finds what it covered, whether it
\* reads the bucket through the cache or from its own snapshot, while buckets
\* are loaded, flushed and evicted.  Only a MiniTsdb that replaced another, and
\* keeps the older snapshot it was loaded with, hides it.
QueriesSeeFlushed ==
    \A q \in Queries : queries[q].pc = "done" =>
        \A p \in queries[q].must :
            \/ p.bucket \in orphaned
            \/ \E x \in queries[q].result :
                   x.bucket = p.bucket /\ x.series = p.series /\ x.call = p.call

\* In every snapshot the bucket list names every bucket with data, although
\* each flusher looks at the list before it writes and others write between.
BucketsAreListed ==
    \A n \in 0..Len(puts) : {puts[i].bucket : i \in 1..n} \subseteq BucketList(n)

\* What a call ingests into one bucket reaches storage as a whole or not at all,
\* whatever fails or crashes.
BucketBatchIsAtomic ==
    \A c \in Calls, n \in 0..Len(puts) : \A b \in DOMAIN ingests[c].request :
        LET batch == {[bucket |-> b, series |-> s, call |-> c] : s \in Range(ingests[c].request[b])}
        IN  batch \subseteq StoredPoints(n) \/ batch \cap StoredPoints(n) = {}

\* A series keeps its id through freezing, eviction, reloading and restarts.
SeriesKeepTheirId ==
    \A i, j \in DOMAIN puts :
        puts[i].bucket = puts[j].bucket /\ puts[i].bucket \notin orphaned =>
            \A s \in DOMAIN puts[i].new \cap DOMAIN puts[j].new :
                puts[i].new[s] = puts[j].new[s]

UniqueIds(b) ==
    \A i, j \in Of(b, Len(puts)) :
        \A s \in DOMAIN puts[i].new, t \in DOMAIN puts[j].new :
            puts[i].new[s] = puts[j].new[t] => s = t

\* As long as a bucket is loaded once, no two of its series share an id.
IdsAreUniqueOnceLoaded == \A b \in Buckets : loads[b] <= 1 => UniqueIds(b)

\* A series id is unique within its bucket, also when the bucket is loaded again
\* after an eviction or a restart.
SeriesIdsAreUnique == \A b \in Buckets \ orphaned : UniqueIds(b)

\* When no call, task or flush interval can go on, every call of ingest_samples
\* has returned and what was ingested is in storage without anybody having
\* called flush, also from a MiniTsdb that was evicted or replaced in the cache;
\* only a failed flush of the bucket keeps it from there.  As every step goes
\* forward, this is what eventually happens.
NothingIsStranded ==
    \/ ENABLED Progress
    \/ /\ \A c \in Calls : ingests[c].pc \in {"idle", "ok", "err", "gone"}
       /\ \A p \in kept : p \in StoredPoints(Len(puts)) \/ p.bucket \in broken

\* Whatever prefix of the accepted batches a snapshot or a crash keeps, it reads
\* as a whole: buckets with data are listed, the batches of calls are complete
\* and series are known by their ids.
SnapshotsAreConsistent ==
    TypeOK /\ BucketsAreListed /\ BucketBatchIsAtomic /\ SeriesKeepTheirId /\ IdsAreUniqueOnceLoaded

\* What ingest_samples accepted is never dropped on its way and does not stop
\* before it is in storage.
IngestedReachesStorage == IngestedIsKept /\ NothingIsStranded
=============================================================================
