------------------------------- MODULE LogDb -------------------------------
(***************************************************************************)
(* The log database (log/src): the writer task that gives appended records *)
(* their sequence numbers and segments and puts them into SlateDB, the     *)
(* subscriber task that turns the writer's views into the read view, the   *)
(* reads that wait for it, and restarts.                                   *)
(*                                                                         *)
(* SlateDB is external.  It is modelled by the sequence of write batches   *)
(* it accepted, of which the first `durable` survive a crash: the batch at *)
(* index i has storage sequence number i, and a snapshot is the length of  *)
(* a prefix.                                                               *)
(***************************************************************************)
EXTENDS Integers, Sequences, FiniteSets, SequencesExt, SequenceAllocator

CONSTANTS
    Keys,            \* user keys
    Batches,         \* record batches a caller may append (sequences of keys)
    Calls,           \* calls of append
    Flushes,         \* calls of flush
    Readers,         \* tasks that read
    Visibilities,    \* ReadVisibility values the database may be opened with
    SealInterval,    \* whether SegmentConfig::seal_interval is set
    QueueCapacity,   \* LogWriterConfig::queue_capacity
    Failures,        \* which storage calls may fail
    MaxReads,        \* bound: reads per reader
    MaxRestarts      \* bound: crashes and closes

ASSUME LogAssumption ==
    /\ Batches \subseteq Seq(Keys) \ {<<>>}
    /\ Visibilities \subseteq {"Memory", "Remote"}
    /\ SealInterval \in BOOLEAN
    /\ Calls \cap Flushes = {}
    /\ Failures \subseteq {"put", "snapshot", "flush", "refresh"}
    /\ QueueCapacity \in Nat \ {0}
    /\ {MaxReads, MaxRestarts} \subseteq Nat

VARIABLES
    puts,            \* batches SlateDB accepted, in order
    durable,         \* SlateDB's durable_seq
    durable_tx,      \* the durable_seq relayed to the subscriber
    queue,           \* WriterCommands in the mpsc channel
    calls,           \* what became of each append and flush call
    flushed,         \* append calls covered by a flush or close that succeeded
    writer,          \* LogWriter and the point its task has reached
    written_tx,      \* the watch channel of WrittenViews
    watermarks,      \* the writer's EpochWatermarks
    subscriber,      \* the read subscriber task
    read_view,       \* LogReadView
    reads,           \* read calls
    faults,          \* storage calls whose failure may still show
    restarts

storage_vars == <<puts, durable, durable_tx>>
writer_vars  == <<writer, written_tx, watermarks>>
read_vars    == <<subscriber, read_view>>
call_vars    == <<queue, calls, flushed>>
vars == <<storage_vars, writer_vars, read_vars, call_vars, reads, faults, restarts>>

NoId      == -1      \* Option<SegmentId>::None
NoSegment == [id |-> NoId, start_seq |-> 0]
NoCommand == [op |-> "none"]

-----------------------------------------------------------------------------
(* What storage holds after the batches of s.  A later put of the same      *)
(* storage key replaces an earlier one.                                     *)

\* The storage key of record j of batch i: segment, user key, and the
\* sequence number relative to the start of the segment.  A number before
\* the start (only possible after a failed put) wraps around in u64: a
\* negative one here, which like the wrapped one is in no range of a scan.
EntryKey(s, i, j) ==
    <<s[i].segment_id, s[i].keys[j], s[i].relative + j - 1>>

Positions(s) == UNION {{<<i, j>> : j \in DOMAIN s[i].keys} : i \in DOMAIN s}

StoredEntries(s) ==
    {p \in Positions(s) : \A q \in Positions(s) :
        q[1] > p[1] => EntryKey(s, q[1], q[2]) # EntryKey(s, p[1], p[2])}

\* scan_segments: the segment metadata records.
StoredSegments(s) ==
    LET Newest(i) == \A k \in i + 1 .. Len(s) : s[k].segment.id # s[i].segment.id
    IN  {s[i].segment : i \in {i \in DOMAIN s : Newest(i)}} \ {NoSegment}

StoredBlock(s) ==
    LET holders == {i \in DOMAIN s : s[i].block # NoBlock}
    IN  IF holders = {} THEN NoBlock ELSE s[Max(holders)].block

\* list_keys: the listing records of the segments in ids.
ListKeys(s, ids) == UNION {s[i].listed : i \in {i \in DOMAIN s : s[i].segment_id \in ids}}

Snapshot(n) == SubSeq(puts, 1, n)

-----------------------------------------------------------------------------
(* SegmentCache and ListingCache.                                           *)

Insert(segments, s) == {t \in segments : t.start_seq # s.start_seq} \cup {s}

Latest(segments) ==
    IF segments = {} THEN NoSegment
    ELSE CHOOSE s \in segments : \A t \in segments : t.start_seq <= s.start_seq

\* Mutant: the segment that starts before the range is left out.
FindCoveringStarts(segments, lo, hi) ==
    SetToSortSeq({s \in segments : lo <= s.start_seq /\ s.start_seq < hi},
                 LAMBDA s, t : s.start_seq < t.start_seq)

\* The segments a scan of [lo, hi) visits: the last one starting at or
\* before lo, and those starting inside the range.
FindCovering(segments, lo, hi) ==
    LET first  == Latest({s \in segments : s.start_seq <= lo})
        inside == {s \in segments : lo < s.start_seq /\ s.start_seq < hi}
    IN  IF lo >= hi THEN <<>>
        ELSE SetToSortSeq(({first} \ {NoSegment}) \cup inside,
                          LAMBDA s, t : s.start_seq < t.start_seq)

\* refresh: load the segments after the known one, or reload all of them.
Refresh(segments, s, after) ==
    LET loaded == {t \in StoredSegments(s) : t.id > after}
    IN  loaded \cup {t \in segments : /\ after # NoId
                                     /\ \A u \in loaded : u.start_seq # t.start_seq}

\* should_roll: the first write opens a segment; later ones do when the
\* seal interval has passed, and the clock may say so at any write.
ShouldRoll(segments) ==
    IF segments = {} THEN {TRUE} ELSE IF SealInterval THEN BOOLEAN ELSE {FALSE}

\* assign_segment: the segment a batch goes to and whether it is new.
AssignSegment(segments, start, roll) ==
    IF roll THEN [segment |-> [id |-> Latest(segments).id + 1, start_seq |-> start], is_new |-> TRUE]
    ELSE [segment |-> Latest(segments), is_new |-> FALSE]

\* The keys already listed in a segment: the cache forgets them when the
\* segment changes.
ListedKeys(cache, id) == IF cache.segment_id = id THEN cache.keys ELSE {}

-----------------------------------------------------------------------------
(* Opening the database: from_storage loads everything from the batches s   *)
(* that are in storage.                                                     *)

NewWriter(s) ==
    [pc |-> "idle", cmd |-> NoCommand, is_new |-> FALSE, epoch |-> 0,
     sequence_allocator |-> LoadAllocated(StoredBlock(s)),
     segment_cache      |-> StoredSegments(s),
     listing_cache      |-> [segment_id |-> NoId, keys |-> {}],
     last_segment_id    |-> Latest(StoredSegments(s)).id]

NewSubscriber(s, visibility) ==
    [visibility |-> visibility, changed |-> FALSE, pending |-> <<>>,
     known |-> Latest(StoredSegments(s)).id, last_durable |-> Len(s), mark |-> 0]

Remote == subscriber.visibility = "Remote"

NewReadView(s) == [snapshot |-> Len(s), segments |-> StoredSegments(s)]

WrittenView(epoch, n, seqnum, last) ==
    [epoch |-> epoch, snapshot |-> n, seqnum |-> seqnum, last_segment_id |-> last]

NewWrittenView(s) == WrittenView(0, Len(s), 0, Latest(StoredSegments(s)).id)

Init ==
    /\ puts = <<>> /\ durable = 0 /\ durable_tx = 0
    /\ queue = <<>>
    /\ calls = [c \in Calls \cup Flushes |-> "idle"]
    /\ flushed = {}
    /\ writer = NewWriter(<<>>)
    /\ written_tx = NewWrittenView(<<>>)
    /\ watermarks = [written |-> 0, durable |-> 0]
    /\ \E v \in Visibilities : subscriber = NewSubscriber(<<>>, v)
    /\ read_view = NewReadView(<<>>)
    /\ reads = [r \in Readers |-> [pc |-> "idle", target |-> 0, must |-> {}, count |-> 0]]
    /\ faults = {} /\ restarts = 0

\* The database opened again over the batches s, with nothing left of the
\* failures that only affected caches.
Reopen(s) ==
    /\ restarts < MaxRestarts
    /\ restarts' = restarts + 1
    /\ puts' = s /\ durable' = Len(s) /\ durable_tx' = Len(s)
    /\ queue' = <<>>
    /\ calls' = [c \in DOMAIN calls |->
                    IF calls[c] \in {"queued", "ok"} THEN "gone" ELSE calls[c]]
    /\ writer' = NewWriter(s)
    /\ written_tx' = NewWrittenView(s)
    /\ watermarks' = [written |-> 0, durable |-> 0]
    /\ \E v \in Visibilities : subscriber' = NewSubscriber(s, v)
    /\ read_view' = NewReadView(s)
    /\ reads' = [r \in Readers |-> [reads[r] EXCEPT !.pc = "idle", !.target = 0, !.must = {}]]
    /\ faults' = faults \cap {"put"}

\* The process dies: SlateDB keeps at least what it reported durable, and
\* calls in flight are never answered.
Crash ==
    /\ \E n \in durable .. Len(puts) : Reopen(Snapshot(n))
    /\ UNCHANGED flushed

\* close() consumes the database, so no call is in flight: it flushes,
\* ends the writer and closes storage.
Close ==
    /\ \A c \in DOMAIN calls : calls[c] # "queued"
    /\ \A r \in Readers : reads[r].pc = "idle"
    /\ Reopen(puts)
    /\ flushed' = flushed \cup {c \in Calls : calls[c] = "ok"}

-----------------------------------------------------------------------------
(* LogWriteHandle: calls put commands into the writer's queue.              *)

TryAppend(c, batch) ==
    /\ calls[c] = "idle"
    /\ Len(queue) < QueueCapacity
    /\ queue' = Append(queue, [op |-> "append", call |-> c, records |-> batch])
    /\ calls' = [calls EXCEPT ![c] = "queued"]
    /\ UNCHANGED <<storage_vars, writer_vars, read_vars, flushed, reads, faults, restarts>>

\* The queue is full: try_append gives up at once, append_timeout when its
\* deadline passes.
AppendRefused(c) ==
    /\ calls[c] = "idle"
    /\ Len(queue) = QueueCapacity
    /\ calls' = [calls EXCEPT ![c] = "refused"]
    /\ UNCHANGED <<storage_vars, writer_vars, read_vars, queue, flushed, reads, faults, restarts>>

\* flush() waits for room in the queue.  covers: the appends that had
\* returned when it was called.
CallFlush(f) ==
    /\ calls[f] = "idle"
    /\ Len(queue) < QueueCapacity
    /\ queue' = Append(queue, [op |-> "flush", call |-> f,
                               covers |-> {c \in Calls : calls[c] = "ok"}])
    /\ calls' = [calls EXCEPT ![f] = "queued"]
    /\ UNCHANGED <<storage_vars, writer_vars, read_vars, flushed, reads, faults, restarts>>

-----------------------------------------------------------------------------
(* LogWriter::run.                                                          *)

\* A storage call fails.  Bound: each kind of call once at a time.
Fault(kind) ==
    /\ kind \in Failures \ faults
    /\ faults' = faults \cup {kind}

Receive(op) ==
    /\ writer.pc = "idle"
    /\ queue # <<>>
    /\ Head(queue).op = op
    /\ queue' = Tail(queue)

Answer(c, answer) == calls' = [calls EXCEPT ![c] = answer]

\* Steps 1 to 4 of handle_append: the batch to put and the writer's caches
\* afterwards.  The caches change before the put.
Assign(w, cmd, roll) ==
    LET keys       == cmd.records
        allocation == Allocate(w.sequence_allocator, Len(keys))
        assignment == AssignSegment(w.segment_cache, allocation.base, roll)
        segment    == assignment.segment
        listed     == ListedKeys(w.listing_cache, segment.id)
    IN  [batch |-> [call       |-> cmd.call,
                    block      |-> allocation.record,
                    segment    |-> IF assignment.is_new THEN segment ELSE NoSegment,
                    segment_id |-> segment.id,
                    keys       |-> keys,
                    base       |-> allocation.base,
                    relative   |-> allocation.base - segment.start_seq,
                    listed     |-> Range(keys) \ listed],
         writer |-> [w EXCEPT
                        !.sequence_allocator = allocation.next,
                        !.segment_cache = IF assignment.is_new THEN Insert(@, segment) ELSE @,
                        !.listing_cache = [segment_id |-> segment.id,
                                           keys |-> listed \cup Range(keys)],
                        !.is_new = assignment.is_new]]

\* handle_append up to the put, which succeeds.
HandleAppend ==
    /\ Receive("append")
    /\ \E roll \in ShouldRoll(writer.segment_cache) :
        LET assigned == Assign(writer, Head(queue), roll)
        IN  /\ puts' = Append(puts, assigned.batch)
            /\ writer' = [assigned.writer EXCEPT !.pc = "put", !.cmd = Head(queue)]
    /\ UNCHANGED <<durable, durable_tx, written_tx, watermarks, read_vars, calls, flushed,
                   reads, faults, restarts>>

\* The put fails: the caller gets the error, the caches keep what they
\* learnt and the task goes on.
PutFails ==
    /\ Receive("append")
    /\ Fault("put")
    /\ \E roll \in ShouldRoll(writer.segment_cache) :
        writer' = Assign(writer, Head(queue), roll).writer
    /\ Answer(Head(queue).call, "error")
    /\ UNCHANGED <<storage_vars, written_tx, watermarks, read_vars, flushed, reads, restarts>>

\* Mutant: the segment the view reports is not updated.
BroadcastStale ==
    /\ writer.pc = "put"
    /\ writer' = [writer EXCEPT !.pc = "sent", !.epoch = @ + 1]
    /\ written_tx' = WrittenView(writer.epoch + 1, Len(puts), Len(puts), writer.last_segment_id)
    /\ subscriber' = [subscriber EXCEPT !.changed = TRUE]
    /\ UNCHANGED <<storage_vars, watermarks, read_view, call_vars, reads, faults, restarts>>

\* write_and_broadcast after the put: snapshot, epoch, new view.
Broadcast ==
    /\ writer.pc = "put"
    /\ LET last == IF writer.is_new THEN puts[Len(puts)].segment_id ELSE writer.last_segment_id
       IN  /\ writer' = [writer EXCEPT !.pc = "sent", !.epoch = @ + 1, !.last_segment_id = last]
           /\ written_tx' = WrittenView(writer.epoch + 1, Len(puts), Len(puts), last)
    /\ subscriber' = [subscriber EXCEPT !.changed = TRUE]
    /\ UNCHANGED <<storage_vars, watermarks, read_view, call_vars, reads, faults, restarts>>

\* The snapshot fails: the batch is in storage, but neither the epoch nor
\* last_segment_id tells of it.
SnapshotFails ==
    /\ writer.pc = "put"
    /\ Fault("snapshot")
    /\ writer' = [writer EXCEPT !.pc = "idle", !.cmd = NoCommand]
    /\ Answer(writer.cmd.call, "error")
    /\ UNCHANGED <<storage_vars, written_tx, watermarks, read_vars, queue, flushed, reads, restarts>>

\* update_written, and the answer to the caller.
AnnounceWritten ==
    /\ writer.pc = "sent"
    /\ watermarks' = [watermarks EXCEPT !.written = writer.epoch]
    /\ Answer(writer.cmd.call, "ok")
    /\ writer' = [writer EXCEPT !.pc = "idle", !.cmd = NoCommand]
    /\ UNCHANGED <<storage_vars, written_tx, read_vars, queue, flushed, reads, faults, restarts>>

\* handle_flush up to storage.flush(), which succeeds.
HandleFlush ==
    /\ Receive("flush")
    /\ durable' = Len(puts)
    /\ writer' = [writer EXCEPT !.pc = "flushed", !.cmd = Head(queue)]
    /\ UNCHANGED <<puts, durable_tx, written_tx, watermarks, read_vars, calls, flushed,
                   reads, faults, restarts>>

FlushFails ==
    /\ Receive("flush")
    /\ Fault("flush")
    /\ Answer(Head(queue).call, "error")
    /\ UNCHANGED <<storage_vars, writer_vars, read_vars, flushed, reads, restarts>>

\* update_durable, and the answer to the caller.
AnnounceDurable ==
    /\ writer.pc = "flushed"
    /\ watermarks' = [watermarks EXCEPT !.durable = writer.epoch]
    /\ Answer(writer.cmd.call, "ok")
    /\ flushed' = flushed \cup writer.cmd.covers
    /\ writer' = [writer EXCEPT !.pc = "idle", !.cmd = NoCommand]
    /\ UNCHANGED <<storage_vars, written_tx, read_vars, queue, reads, faults, restarts>>

-----------------------------------------------------------------------------
(* SlateDB and the relay of its durable sequence number (external, and     *)
(* the bridge task of SlateDbStorage).                                      *)

\* SlateDB writes some of its memory out by itself.
BackgroundFlush ==
    /\ durable < Len(puts)
    /\ durable' \in durable + 1 .. Len(puts)
    /\ UNCHANGED <<puts, durable_tx, writer_vars, read_vars, call_vars, reads, faults, restarts>>

\* The bridge task forwards the latest durable_seq.  It ends when it finds no
\* receiver: only Remote subscribes, for as long as the database is open.
RelayDurable ==
    /\ Remote
    /\ durable_tx # durable
    /\ durable_tx' = durable
    /\ UNCHANGED <<puts, durable, writer_vars, read_vars, call_vars, reads, faults, restarts>>

-----------------------------------------------------------------------------
(* The subscriber task (spawn_written_subscriber, spawn_durable_subscriber) *)
(* and its ViewTracker.                                                     *)

\* Mutant: the tracker drops one view too many.
DrainedTooFar(pending, through) ==
    IF pending = <<>> THEN 0
    ELSE IF pending[1].seqnum <= through + 1 THEN 1 ELSE 0

\* ViewTracker::advance: how many views leave the front of the queue.
Drained(pending, through) ==
    Max({k \in 0 .. Len(pending) : \A i \in 1 .. k : pending[i].seqnum <= through})

\* try_advance_read_view.  The watermark moves also when the segments
\* could not be loaded.
TryAdvanceReadView(sub, through, loads) ==
    LET k       == Drained(sub.pending, through)
        view    == sub.pending[k]
        news    == view.last_segment_id # sub.known
        refresh == news /\ loads
    IN  IF k = 0
        THEN /\ subscriber' = sub
             /\ UNCHANGED read_view
        ELSE /\ read_view' =
                  [snapshot |-> view.snapshot,
                   segments |-> IF refresh
                                THEN Refresh(read_view.segments, Snapshot(view.snapshot), sub.known)
                                ELSE read_view.segments]
             /\ subscriber' = [sub EXCEPT !.pending = SubSeq(@, k + 1, Len(@)),
                                          !.known = IF refresh THEN view.last_segment_id ELSE @,
                                          !.mark = view.epoch]

\* Loading segments may fail; the task logs it and goes on.
RefreshOutcome(loads) ==
    \/ loads /\ UNCHANGED faults
    \/ ~loads /\ Fault("refresh")

\* Mutant: a view whose batch is durable already is only queued.
ReceiveViewUnchecked ==
    /\ subscriber.changed
    /\ subscriber' = [subscriber EXCEPT !.changed = FALSE, !.pending = Append(@, written_tx)]
    /\ UNCHANGED <<storage_vars, writer_vars, read_view, call_vars, reads, faults, restarts>>

\* written_rx.changed(): the latest view is taken, earlier ones are lost.
ReceiveView ==
    /\ subscriber.changed
    /\ \E loads \in BOOLEAN :
        /\ RefreshOutcome(loads)
        /\ TryAdvanceReadView(
              [subscriber EXCEPT !.changed = FALSE, !.pending = Append(@, written_tx)],
              IF Remote THEN subscriber.last_durable ELSE written_tx.seqnum, loads)
    /\ UNCHANGED <<storage_vars, writer_vars, call_vars, reads, restarts>>

\* durable_rx.changed().
ReceiveDurable ==
    /\ Remote
    /\ subscriber.last_durable # durable_tx
    /\ \E loads \in BOOLEAN :
        /\ RefreshOutcome(loads)
        /\ TryAdvanceReadView([subscriber EXCEPT !.last_durable = durable_tx], durable_tx, loads)
    /\ UNCHANGED <<storage_vars, writer_vars, call_vars, reads, restarts>>

-----------------------------------------------------------------------------
(* Reads on LogDb: sync_reads, then the read view.                          *)

\* Appends a read that starts now has to return.
Promised == flushed \cup IF Remote THEN {} ELSE {c \in Calls : calls[c] = "ok"}

\* sync_reads takes its target.
BeginRead(r) ==
    /\ reads[r].pc = "idle"
    /\ reads[r].count < MaxReads
    /\ reads' = [reads EXCEPT ![r] =
                    [pc     |-> "waiting", count |-> @.count + 1, must |-> Promised,
                     target |-> IF Remote THEN watermarks.durable ELSE watermarks.written]]
    /\ UNCHANGED <<storage_vars, writer_vars, read_vars, call_vars, faults, restarts>>

CanRead(r) == reads[r].pc = "waiting" /\ subscriber.mark >= reads[r].target

\* The wait is over: scan, list_keys and list_segments use the read view.
EndRead(r) ==
    /\ CanRead(r)
    /\ reads' = [reads EXCEPT ![r].pc = "idle", ![r].target = 0, ![r].must = {}]
    /\ UNCHANGED <<storage_vars, writer_vars, read_vars, call_vars, faults, restarts>>

\* saturating_sub
Less(a, b) == IF a >= b THEN a - b ELSE 0

\* scan_entries: the entries of one segment, their sequence numbers decoded
\* from the segment's start, those outside the range skipped.
ScanEntries(s, segment, key, lo, hi) ==
    LET from   == Less(lo, segment.start_seq)
        to     == Less(hi, segment.start_seq)
        stored == StoredEntries(s)
        at(rel) == {p \in stored : EntryKey(s, p[1], p[2]) = <<segment.id, key, rel>>}
        found  == SelectSeq([k \in 1 .. to - from |-> from + k - 1], LAMBDA rel : at(rel) # {})
        entry(rel) == LET p == CHOOSE p \in at(rel) : TRUE
                      IN  [sequence |-> segment.start_seq + rel, call |-> s[p[1]].call, index |-> p[2]]
    IN  SelectSeq([k \in DOMAIN found |-> entry(found[k])],
                  LAMBDA e : lo <= e.sequence /\ e.sequence < hi)

\* LogIterator: the segments that cover the range, one after the other.
Scan(view, key, lo, hi) ==
    LET segments == FindCovering(view.segments, lo, hi)
        s        == Snapshot(view.snapshot)
    IN  FlattenSeq([i \in DOMAIN segments |-> ScanEntries(s, segments[i], key, lo, hi)])

-----------------------------------------------------------------------------
WriterStep ==
    \/ HandleAppend \/ PutFails \/ Broadcast \/ SnapshotFails \/ AnnounceWritten
    \/ HandleFlush \/ FlushFails \/ AnnounceDurable

SubscriberStep == ReceiveView \/ ReceiveDurable

Next ==
    \/ \E c \in Calls : (\E batch \in Batches : TryAppend(c, batch)) \/ AppendRefused(c)
    \/ \E f \in Flushes : CallFlush(f)
    \/ WriterStep
    \/ SubscriberStep
    \/ BackgroundFlush \/ RelayDurable
    \/ \E r \in Readers : BeginRead(r) \/ EndRead(r)
    \/ Crash \/ Close

Spec == Init /\ [][Next]_vars

\* Tasks that can run do run, and SlateDB writes its memory out in the end
\* (its flush interval).  Callers owe nothing.
Fairness ==
    /\ WF_vars(WriterStep)
    /\ WF_vars(SubscriberStep)
    /\ WF_vars(BackgroundFlush)
    /\ WF_vars(RelayDurable)
    /\ \A r \in Readers : WF_vars(EndRead(r))

LiveSpec == Spec /\ Fairness

-----------------------------------------------------------------------------
(* Properties.                                                              *)

Segment == [id : Nat, start_seq : Nat]
OptId   == Nat \cup {NoId}
View    == [epoch : Nat, snapshot : Nat, seqnum : Nat, last_segment_id : OptId]

\* The variables have the types of the fields they stand for.
TypeOK ==
    /\ \A i \in DOMAIN puts :
        /\ puts[i].call \in Calls
        /\ puts[i].block \in SeqBlock
        /\ puts[i].segment \in Segment \cup {NoSegment}
        /\ puts[i].segment_id \in Nat
        /\ puts[i].keys \in Batches
        /\ puts[i].base \in Nat
        /\ puts[i].relative \in Int /\ (puts[i].relative < 0 => "put" \in faults)
        /\ puts[i].listed \subseteq Keys
    /\ durable_tx <= durable /\ durable <= Len(puts)
    /\ Len(queue) <= QueueCapacity
    /\ calls \in [Calls \cup Flushes -> {"idle", "queued", "ok", "error", "refused", "gone"}]
    /\ flushed \subseteq Calls
    /\ writer.pc \in {"idle", "put", "sent", "flushed"}
    /\ writer.is_new \in BOOLEAN /\ writer.epoch \in Nat /\ writer.last_segment_id \in OptId
    /\ writer.sequence_allocator \in AllocatedSeqBlock
    /\ writer.segment_cache \subseteq Segment
    /\ writer.listing_cache \in [segment_id : OptId, keys : SUBSET Keys]
    /\ written_tx \in View
    /\ watermarks \in [written : Nat, durable : Nat]
    /\ subscriber.visibility \in Visibilities
    /\ subscriber.changed \in BOOLEAN /\ subscriber.known \in OptId
    /\ subscriber.pending \in Seq(View)
    /\ subscriber.last_durable \in Nat /\ subscriber.mark \in Nat
    /\ read_view.snapshot \in Nat /\ read_view.segments \subseteq Segment
    /\ reads \in [Readers -> [pc : {"idle", "waiting"}, target : Nat,
                              must : SUBSET Calls, count : 0 .. MaxReads]]
    /\ faults \subseteq Failures

\* No storage call of these kinds has failed.
NoneFailed(kinds) == faults \cap kinds = {}

\* "This may create gaps in the sequence space, but monotonicity is
\* preserved": sequence numbers grow in the order the batches reached
\* storage, without overlap, whatever fails.
MonotonicityIsPreserved ==
    \A i, j \in DOMAIN puts : i < j => puts[i].base + Len(puts[i].keys) <= puts[j].base

\* As long as no put fails, sequence numbers grow in the order the batches
\* reached storage, without overlap, also across crashes that lose the tail
\* of the last block (SequenceAllocator::load skips to the end of the
\* recorded block) and whatever other calls fail.
SequencesIncrease == NoneFailed({"put"}) => MonotonicityIsPreserved

\* As long as no put fails, a record is never put over another one: two puts never use the same
\* storage key (segment, user key, relative sequence number), whatever
\* segments were opened and restarts happened in between.
NoOverwrite == NoneFailed({"put"}) => StoredEntries(puts) = Positions(puts)

\* All that a scan of key over [lo, hi) should return from the snapshot:
\* every record of the key with an assigned number in the range, in the
\* order of the appends.
Recorded(s, key, lo, hi) ==
    LET number(p) == s[p[1]].base + p[2] - 1
        all == FlattenSeq([i \in DOMAIN s |-> [j \in DOMAIN s[i].keys |-> <<i, j>>]])
        due == SelectSeq(all, LAMBDA p : /\ s[p[1]].keys[p[2]] = key
                                         /\ lo <= number(p) /\ number(p) < hi)
    IN  [k \in DOMAIN due |-> [sequence |-> number(due[k]), call |-> s[due[k][1]].call,
                               index |-> due[k][2]]]

\* A scan through the cached segments returns exactly the records of the
\* view's snapshot that lie in the range, in sequence order: the segments
\* the view knows are those of its snapshot, FindCovering misses none of
\* them, and relative numbers decode to the ones that were assigned.
\* Failures of put, snapshot or refresh may hide a segment from the view.
ScanIsExact ==
    LET top == writer.sequence_allocator.next_sequence + 1
    IN  NoneFailed({"put", "snapshot", "refresh"}) => \A key \in Keys, lo \in 0 .. top : \A hi \in lo .. top :
            Scan(read_view, key, lo, hi) = Recorded(Snapshot(read_view.snapshot), key, lo, hi)

\* As long as no put fails, list_keys returns, for every segment, exactly the keys that have a
\* record in it, although the writer lists a key only the first time it
\* sees it in the segment.
ListingIsExact ==
    LET s   == Snapshot(read_view.snapshot)
        ids == {s[i].segment_id : i \in DOMAIN s}
    IN  NoneFailed({"put"}) => \A id \in ids :
            ListKeys(s, {id}) =
                UNION {Range(s[i].keys) : i \in {i \in DOMAIN s : s[i].segment_id = id}}

\* A read that may return sees every record of every append it was promised:
\* in Memory mode the appends that had returned when it started, in either
\* mode those covered by a flush or close that had returned.  Failures of
\* put, snapshot or refresh may hide a segment from the view until a restart.
ReadsSeeAcknowledged ==
    NoneFailed({"put", "snapshot", "refresh"}) => \A r \in Readers : CanRead(r) =>
        \A c \in reads[r].must : \E i \in 1 .. read_view.snapshot :
            /\ puts[i].call = c
            /\ \A j \in DOMAIN puts[i].keys :
                \E e \in Range(Scan(read_view, puts[i].keys[j], 0,
                                    writer.sequence_allocator.next_sequence)) :
                    e.call = c /\ e.index = j

\* In Remote mode nothing a read can return is ever lost: every step, a
\* crash included, keeps the batches of the read view's snapshot.
RemoteReadsSurvive ==
    [][Remote => \A i \in 1 .. read_view.snapshot :
                    i \in DOMAIN puts' /\ puts'[i] = puts[i]]_vars

\* Every call that entered the writer's queue is answered (or its process
\* dies), and every read returns once the view has caught up with it.  Calls
\* are finitely many: again and again nobody waits.
EventuallyAnswered ==
    []<>(/\ \A c \in Calls \cup Flushes : calls[c] # "queued"
         /\ \A r \in Readers : reads[r].pc = "idle")

\* Storage holds what the writer assigned: numbers grow without overlap and no
\* record is put over another one.
NumbersAreUnique == TypeOK /\ SequencesIncrease /\ NoOverwrite

\* Scans and listings return what storage holds, no more and no less.
ReadsAreExact == ScanIsExact /\ ListingIsExact
=============================================================================
