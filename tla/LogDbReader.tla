---------------------------- MODULE LogDbReader ----------------------------
(***************************************************************************)
(* LogDbReader (log/src/reader.rs) beside a running LogDb: a process that  *)
(* reads the same object store.  SlateDB's DbReader polls for new durable  *)
(* state, a refresh task loads new segments into the reader's cache, and a *)
(* consumer scans one key again and again from its checkpoint, the way the *)
(* documentation of LogDbReader shows.  The three are not synchronised.    *)
(***************************************************************************)
EXTENDS LogDb

CONSTANTS
    Key,             \* the key that is consumed
    ReaderApart      \* bound: a reader runs beside an undisturbed database only

ASSUME KeyAssumption == Key \in Keys /\ ReaderApart \in BOOLEAN

VARIABLES
    polled,          \* the batches DbReader knows of
    cached,          \* the reader's SegmentCache
    refreshing,      \* after_segment_id between the refresh task's two locks
    scan,            \* the consumer's LogIterator
    consumed         \* what the consumer was given, and its checkpoint

reader_vars == <<polled, cached, refreshing, scan, consumed>>
all_vars == <<vars, reader_vars>>

NotRefreshing == NoId - 1
NoScan == [segments |-> <<>>, from |-> 0]

\* The reader as LogDbReader::open leaves it on an empty log.
ReaderOpened ==
    /\ polled = 0
    /\ cached = {}
    /\ refreshing = NotRefreshing
    /\ scan = NoScan
    /\ consumed = [entries |-> <<>>, checkpoint |-> 0]

ReaderInit == Init /\ ReaderOpened

\* Nobody has called flush or read on the LogDb, and no storage call failed.
Undisturbed ==
    /\ faults = {}
    /\ \A f \in Flushes : calls[f] = "idle"
    /\ \A r \in Readers : reads[r].count = 0

\* SlateDB's DbReader picks up what has become durable.
Poll ==
    /\ polled < durable
    /\ polled' \in polled + 1 .. durable
    /\ UNCHANGED <<vars, cached, refreshing, scan, consumed>>

\* A tick of the refresh task: the latest segment under the read lock.
BeginRefresh ==
    /\ refreshing = NotRefreshing
    /\ refreshing' = Latest(cached).id
    /\ UNCHANGED <<vars, polled, cached, scan, consumed>>

\* Mutant: only the newest of the segments is loaded.
EndRefreshNewest ==
    /\ refreshing # NotRefreshing
    /\ cached' = cached \cup ({Latest(StoredSegments(Snapshot(polled)))} \ {NoSegment})
    /\ refreshing' = NotRefreshing
    /\ UNCHANGED <<vars, polled, scan, consumed>>

\* The segments after it under the write lock.
EndRefresh ==
    /\ refreshing # NotRefreshing
    /\ cached' = Refresh(cached, Snapshot(polled), refreshing)
    /\ refreshing' = NotRefreshing
    /\ UNCHANGED <<vars, polled, scan, consumed>>

\* Past every sequence number: the end of an open range.
Top == writer.sequence_allocator.next_sequence + 1

\* Mutant: the scan starts one past the checkpoint.
BeginScanLate ==
    /\ scan.segments = <<>>
    /\ scan' = [segments |-> FindCovering(cached, consumed.checkpoint + 1, Top),
                from |-> consumed.checkpoint + 1]
    /\ UNCHANGED <<vars, polled, cached, refreshing, consumed>>

\* scan(key, checkpoint..): the iterator takes the segments known now.
BeginScan ==
    /\ scan.segments = <<>>
    /\ scan' = [segments |-> FindCovering(cached, consumed.checkpoint, Top),
                from |-> consumed.checkpoint]
    /\ UNCHANGED <<vars, polled, cached, refreshing, consumed>>

\* advance_segment and the entries of that segment: a storage scan opened
\* now, so later segments are read from later states than earlier ones.
NextSegment ==
    /\ scan.segments # <<>>
    /\ LET entries == ScanEntries(Snapshot(polled), Head(scan.segments), Key, scan.from, Top)
       IN  consumed' = IF entries = <<>> THEN consumed
                       ELSE [entries    |-> consumed.entries \o entries,
                             checkpoint |-> entries[Len(entries)].sequence + 1]
    /\ scan' = [scan EXCEPT !.segments = Tail(@)]
    /\ UNCHANGED <<vars, polled, cached, refreshing>>

ReaderStep == Poll \/ BeginRefresh \/ EndRefresh \/ BeginScan \/ NextSegment

\* The bound: either the reader takes steps, or the LogDb is flushed, read or
\* failed; they share nothing but the batches in storage.
MayRun == ReaderApart => Undisturbed
MayDisturb == ReaderApart => ReaderOpened

ReaderNext ==
    \/ Next /\ (MayDisturb \/ Undisturbed') /\ UNCHANGED reader_vars
    \/ MayRun /\ ReaderStep

ReaderSpec == ReaderInit /\ [][ReaderNext]_all_vars

\* Polls, ticks and scans keep happening; so do the writer's steps.
ReaderLiveSpec ==
    /\ ReaderSpec
    /\ Fairness
    /\ WF_all_vars(MayRun /\ Poll)
    /\ WF_all_vars(MayRun /\ (BeginRefresh \/ EndRefresh))
    /\ WF_all_vars(MayRun /\ (BeginScan \/ NextSegment))

-----------------------------------------------------------------------------
Log(n) == Recorded(Snapshot(n), Key, 0, Top)

\* The consumer is given the records of its key in order, each once and
\* with none left out, although its segments, its storage view and its
\* checkpoint move independently and the writer crashes and rolls segments.
ConsumesThePrefix == IsPrefix(consumed.entries, Log(durable))

\* Whatever becomes durable reaches the consumer: no record is left behind
\* by a checkpoint that moved past it or a segment that is never refreshed.
\* Appends are finitely many: again and again the consumer has them all.
\* Claimed where the bound lets the reader run.
ConsumerCatchesUp ==
    []<>(MayRun => Range(Log(durable)) \subseteq Range(consumed.entries))
=============================================================================
