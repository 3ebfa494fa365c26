---------------------------- MODULE VectorIndex ----------------------------
(***************************************************************************)
(* The vector database's index (vector/src/write, vector/src/db.rs).  The  *)
(* flush task of a write coordinator hands one batch of writes at a time   *)
(* to VectorDbFlusher::flush_delta.  The indexer applies it to a private   *)
(* delta (WriteVectors, then per tree level MergeCentroids, SplitCentroids *)
(* and ReassignVectors, then SplitRoot), freezes the delta into its memory *)
(* and into record operations, and the flusher applies those, takes a      *)
(* snapshot and publishes it.  Queries run meanwhile on the snapshot they  *)
(* started with and on the centroid cache they share with the indexer.     *)
(*                                                                         *)
(* The beam of a search (100 centroids per level) is wider than the trees  *)
(* of the instances, and the panic after 1000 rounds of splits is a bound. *)
(***************************************************************************)
EXTENDS SequenceAllocator, VectorGeometry, Sequences, SequencesExt

CONSTANTS
    Attrs,              \* values of the one indexed metadata field
    Workloads,          \* sequences of batches of writes [id, attr, at]
    InitialCentroids,   \* the vectors open_with_centroids is given, a sequence
    SplitThreshold,     \* split_threshold_vectors
    RootThreshold,      \* root_threshold_vectors
    MergeThreshold,     \* merge_threshold_vectors
    Neighbourhood,      \* split_search_neighbourhood
    MaxRounds,          \* split rounds at one level before the panic (1000)
    MaxCrashes,
    MaxFaults           \* storage errors

VARIABLES
    todo,      \* the batches still to be flushed
    state,     \* VectorIndexState without its cache
    cache,     \* AllCentroidsCacheInner: node -> [ids, written_epoch]
    storage,   \* what storage holds in memory
    durable,   \* what of it survives a crash
    applied,   \* LastAppliedSnapshot and the flusher's last_snapshot: [snapshot, epoch]
    engine,    \* the QueryEngine of some query: a former value of applied
    flusher,   \* progress of flush_delta
    poisoned,
    epoch,
    crashes,
    faults

vars == <<todo, state, cache, storage, durable, applied, engine, flusher,
          poisoned, epoch, crashes, faults>>

(***************************************************************************)
(* Identifiers, with their vector: <<level, number, vector>>.  Data        *)
(* vectors have level 0, the leaf centroids level 1, the root level 255.   *)
(***************************************************************************)
Root == <<255, 0, <<0, 0>>>>
TopLevel(depth) == depth - 2          \* TreeDepth::max_inner_level

Empty == [x \in {} |-> x]
Get(f, x, default) == IF x \in DOMAIN f THEN f[x] ELSE default
Put(f, x, y) == (x :> y) @@ f
Without(f, S) == [x \in DOMAIN f \ S |-> f[x]]
Saturating(n) == IF n < 0 THEN 0 ELSE n

(***************************************************************************)
(* Storage: the records, and last_write, what an upsert-only store would   *)
(* hold (history, no record of its own).                                   *)
(***************************************************************************)
EmptyStorage ==
    [dict |-> Empty, data |-> Empty, idx |-> Empty, inv |-> [a \in Attrs |-> {}],
     depth |-> 0, info |-> Empty, stats |-> Empty, postings |-> Empty,
     seq |-> NoBlock, cseq |-> NoBlock, last_write |-> Empty]

StoredPostings(s, c) == Get(s.postings, c, {})

\* allocate_one: the number, the allocator and the block record last put.
AllocateOne(a, put) ==
    LET of(r) == [n |-> r.base, next |-> r.next, put |-> IF r.record = NoBlock THEN put ELSE r.record]
    IN  of(Allocate(a, 1))

\* bootstrap_tree_index_if_needed: number 0 is burnt for the root.
Bootstrap(s) ==
    LET root  == AllocateOne(LoadAllocated(s.cseq), s.cseq)
        alloc[i \in 0..Len(InitialCentroids)] ==
            IF i = 0 THEN root ELSE AllocateOne(alloc[i - 1].next, alloc[i - 1].put)
        ids   == {<<1, alloc[i].n, InitialCentroids[i]>> : i \in DOMAIN InitialCentroids}
    IN  IF s.depth # 0 THEN s
        ELSE [s EXCEPT !.depth = 3,
                       !.info = [c \in ids |-> Root],
                       !.stats = [c \in ids |-> 0],
                       !.postings = Root :> ids,
                       !.cseq = alloc[Len(InitialCentroids)].put]

(***************************************************************************)
(* The in-memory state and the cache, as loaded from a snapshot.           *)
(***************************************************************************)
LoadState(s) ==
    [dict |-> s.dict, depth |-> s.depth, root_count |-> Cardinality(s.postings[Root]),
     info |-> s.info, counts |-> s.stats,
     seq |-> LoadAllocated(s.seq), cseq |-> LoadAllocated(s.cseq)]

\* Posting lists found in storage above the leaf level; a centroid that has
\* no posting list yet gets no entry.
LoadCache(s) ==
    [c \in {Root} \cup {x \in DOMAIN s.postings : LevelOf(x) > 1 /\ x \in DOMAIN s.info} |->
        [ids |-> s.postings[c], written_epoch |-> 0]]

\* CachedCentroidReader: entries newer than the reader's snapshot are
\* ignored and the snapshot is read instead.
CachedPostings(reader, c) ==
    IF c \in DOMAIN cache /\ cache[c].written_epoch <= reader.epoch
    THEN cache[c].ids ELSE StoredPostings(reader.snapshot, c)

(***************************************************************************)
(* The delta of one update, and the view over delta, state and snapshot.   *)
(***************************************************************************)
NewDelta ==
    [dict |-> Empty, data |-> Empty, idx |-> Empty, dels |-> {},
     seq |-> state.seq, seq_put |-> NoBlock,
     inc |-> [a \in Attrs |-> {}], exc |-> [a \in Attrs |-> {}],
     depth |-> state.depth, info |-> Empty, new |-> {}, deleted |-> {}, counts |-> Empty,
     promoted |-> FALSE, root |-> {}, root_updates |-> Empty, root_count |-> state.root_count,
     updates |-> Empty, current |-> Empty, cseq |-> state.cseq, cseq_put |-> NoBlock,
     ok |-> TRUE]    \* no assertion failed so far

\* A posting list after a list of updates, of which the last per id counts.
ApplyUpdates(ids, updates) ==
    (ids \ DOMAIN updates) \cup {v \in DOMAIN updates : updates[v] = "append"}

\* DirtyCentroidReader
ViewPostings(d, c) ==
    CASE c = Root -> ApplyUpdates(IF d.promoted THEN d.root ELSE CachedPostings(applied, Root),
                                  d.root_updates)
      [] c \in d.deleted -> {}
      [] OTHER -> ApplyUpdates(CachedPostings(applied, c), Get(d.updates, c, Empty))

ViewCounts(d, level) ==
    [c \in {x \in (DOMAIN state.counts \cup DOMAIN d.counts) \ d.deleted : LevelOf(x) = level} |->
        Saturating(Get(state.counts, c, 0) + Get(d.counts, c, 0))]

ViewInfo(d) == d.info @@ Without(state.info, d.deleted)

ViewIndexData(d) == Without(d.idx @@ applied.snapshot.idx, d.dels)

\* The centroids of a level that a search from the root arrives at.
Reached(d, level) ==
    LET top == TopLevel(d.depth)
        at[l \in level..top] ==
            IF l = top THEN ViewPostings(d, Root)
            ELSE UNION {ViewPostings(d, c) : c \in at[l + 1]}
    IN  at[level]

(***************************************************************************)
(* Operations of the delta.                                                *)
(***************************************************************************)
AddToPosting(d, c, v) ==
    [d EXCEPT !.ok = @ /\ LevelOf(v) + 1 = LevelOf(c),
              !.current = Put(@, v, c),
              !.updates = Put(@, c, Put(Get(@, c, Empty), v, "append")),
              !.counts = Put(@, c, Get(@, c, 0) + 1)]

RemoveFromPosting(d, c, v) ==
    [d EXCEPT !.ok = @ /\ LevelOf(v) + 1 = LevelOf(c) /\ Get(d.current, v, c) = c,
              !.current = Without(@, {v}),
              !.updates = Put(@, c, Put(Get(@, c, Empty), v, "delete")),
              !.counts = Put(@, c, Get(@, c, 0) - 1)]

AddToRoot(d, c) ==
    [d EXCEPT !.ok = @ /\ LevelOf(c) = TopLevel(d.depth),
              !.root_updates = Put(@, c, "append"),
              !.root_count = @ + 1]

RemoveFromRoot(d, c) ==
    [d EXCEPT !.ok = @ /\ LevelOf(c) = TopLevel(d.depth) /\ d.root_count > 0,
              !.root_updates = Put(@, c, "delete"),
              !.root_count = Saturating(@ - 1)]

\* The id the next add_centroid at this level returns.
NextCentroid(d, level, at) == <<level, AllocateOne(d.cseq, d.cseq_put).n, at>>

AddCentroid(d, level, at, parent) ==
    LET add(id, a) ==
            [d EXCEPT !.ok = @ /\ LevelOf(parent) = IF level = TopLevel(d.depth) THEN 255 ELSE level + 1,
                      !.cseq = a.next, !.cseq_put = a.put,
                      !.counts = Put(@, id, 0),
                      !.info = Put(@, id, parent),
                      !.new = @ \cup {id}]
    IN  add(NextCentroid(d, level, at), AllocateOne(d.cseq, d.cseq_put))

UpdateCentroid(d, c, parent) ==
    [d EXCEPT !.ok = @ /\ LevelOf(parent) = IF LevelOf(c) = TopLevel(d.depth) THEN 255 ELSE LevelOf(c) + 1,
              !.info = Put(@, c, parent)]

DeleteCentroid(d, c) ==
    [d EXCEPT !.counts = Without(@, {c}), !.info = Without(@, {c}),
              !.updates = Without(@, {c}), !.new = @ \ {c}, !.deleted = @ \cup {c}]

\* A centroid leaves its parent, which is the root or another centroid.
Detach(d, c, parent) ==
    IF parent = Root THEN RemoveFromRoot(d, c) ELSE RemoveFromPosting(d, parent, c)

\* update_vector_index_data keeps the indexed fields read beforehand.
MoveVector(d, v, c, attr) == [d EXCEPT !.idx = Put(@, v, [posting |-> c, attr |-> attr])]

(***************************************************************************)
(* WriteVectors.execute: the last write per external id, each to the leaf  *)
(* the search found; an upsert removes the old vector first.               *)
(***************************************************************************)
\* Mutant: the first write of an external id wins.
FirstWrites(batch) ==
    [e \in {batch[i].id : i \in DOMAIN batch} |->
        batch[Min({i \in DOMAIN batch : batch[i].id = e})]]

\* compact_writes
CompactWrites(batch) ==
    [e \in {batch[i].id : i \in DOMAIN batch} |->
        batch[Max({i \in DOMAIN batch : batch[i].id = e})]]

\* Mutant: the old vector stays in the inverted index.
RemoveOldKeepAttr(d, old, data) ==
    RemoveFromPosting([d EXCEPT !.dels = @ \cup {old}, !.idx = Without(@, {old})], data.posting, old)

\* delete_vector, remove_from_posting and remove_from_inverted_index
RemoveOld(d, old, data) ==
    RemoveFromPosting([d EXCEPT !.dels = @ \cup {old}, !.idx = Without(@, {old}),
                                !.exc[data.attr] = @ \cup {old}], data.posting, old)

\* add_vector, add_to_posting, update_vector_index_data and add_to_inverted_index
AddVector(d, w, c) ==
    LET add(a, v) ==
            AddToPosting([d EXCEPT !.seq = a.next, !.seq_put = a.put,
                                   !.data = Put(@, v, w), !.dict = Put(@, w.id, v),
                                   !.idx = Put(@, v, [posting |-> c, attr |-> w.attr]),
                                   !.inc[w.attr] = @ \cup {v}], c, v)
        allocated(a) == add(a, <<0, a.n, w.at>>)
    IN  allocated(AllocateOne(d.seq, d.seq_put))

\* Inserts first; the leaves are all searched for before the first write.
WriteAll(d, writes) ==
    LET leaf(e)      == Closest(writes[e].at, Reached(d, 1))
        old(e)       == state.dict[e]
        insert(e, x) == AddVector(x, writes[e], leaf(e))
        upsert(e, x) == AddVector(RemoveOld(x, old(e), ViewIndexData(d)[old(e)]), writes[e], leaf(e))
        known        == DOMAIN writes \cap DOMAIN state.dict
    IN  FoldSet(upsert, FoldSet(insert, d, DOMAIN writes \ known), known)

(***************************************************************************)
(* MergeCentroids.execute: the small centroids of a level are deleted and  *)
(* their vectors are to be reassigned, unless no centroid would be left.   *)
(* Reassignments are a function from vector to the centroid it is under.   *)
(***************************************************************************)
ToMerge(d, level) ==
    LET counts == ViewCounts(d, level)
        small  == {c \in DOMAIN counts : counts[c] < MergeThreshold}
    IN  IF small = DOMAIN counts THEN {} ELSE small

MergeAll(d, level) ==
    LET merge(c, x) == Detach(DeleteCentroid(x, c), c, ViewInfo(d)[c])
    IN  FoldSet(merge, d, ToMerge(d, level))

MergedVectors(d, level) ==
    [v \in UNION {ViewPostings(d, c) : c \in ToMerge(d, level)} |->
        CHOOSE c \in ToMerge(d, level) : v \in ViewPostings(d, c)]

(***************************************************************************)
(* SplitCentroids.execute: each full centroid is replaced by the two of    *)
(* two-means, unless one of them gets no vector (ImbalancedClusters).      *)
(***************************************************************************)
ToSplit(d, level) ==
    LET counts == ViewCounts(d, level)
        full   == {c \in DOMAIN counts : counts[c] >= SplitThreshold}
        second(c) == SecondSide(ViewPostings(d, c), TwoMeans(ViewPostings(d, c)))
    IN  {c \in full : second(c) \notin {{}, ViewPostings(d, c)}}

\* A vector moves below c: a data vector's index data or a centroid's parent
\* is rewritten with the posting.
Attach(d, c, v) ==
    IF LevelOf(v) = 0
    THEN MoveVector(AddToPosting(d, c, v), v, c, ViewIndexData(d)[v].attr)
    ELSE UpdateCentroid(AddToPosting(d, c, v), v, c)

AddSplitCentroid(d, level, at, parent, members) ==
    LET link(x, id) == IF parent = Root THEN AddToRoot(x, id) ELSE AddToPosting(x, parent, id)
        fill(x, id) == FoldSet(LAMBDA v, y : Attach(y, id, v), link(x, id), members)
    IN  fill(AddCentroid(d, level, at, parent), NextCentroid(d, level, at))

SplitOne(d, c, parent, postings) ==
    LET add(x, at, members) == AddSplitCentroid(x, LevelOf(c), at, parent, members)
        divide(two, second) ==
            add(add(Detach(DeleteCentroid(d, c), c, parent), two[1], postings \ second), two[2], second)
        split(two) == divide(two, SecondSide(postings, two))
    IN  split(TwoMeans(postings))

SplitAll(d, level) ==
    LET split(c, x) == SplitOne(x, c, ViewInfo(d)[c], ViewPostings(d, c))
    IN  FoldSet(split, d, ToSplit(d, level))

\* What the splits ask to reassign: vectors of the centroid itself and of its
\* neighbours that a heuristic flags, and the new centroids one level up.
SplitReassigns(d, level, new) ==
    LET two(c)  == TwoMeans(ViewPostings(d, c))
        near(c) == IF Neighbourhood = 0 THEN {}
                   ELSE Ranked(At(c), Reached(d, level), Neighbourhood + 1)
        own(c)  == {<<v, c>> : v \in {p \in ViewPostings(d, c) : SplitHeuristic(At(p), At(c), two(c))}}
        theirs(c, n) == {<<v, n>> : v \in {p \in ViewPostings(d, n) :
                                             NeighbourSplitHeuristic(At(p), At(c), two(c))}}
        requests == UNION {own(c) \cup UNION {theirs(c, n) : n \in near(c)} : c \in ToSplit(d, level)}
    IN  [v \in {r[1] : r \in requests} |-> (CHOOSE r \in requests : r[1] = v)[2]]
        @@ [c \in {x \in DOMAIN new : new[x] # Root} |-> new[c]]

(***************************************************************************)
(* ReassignVectors.execute: each vector goes to its nearest centroid,      *)
(* unless it is there already.  All are searched for before the first move.*)
(***************************************************************************)
\* Mutant: the centroid a vector leaves is the one recorded with the request,
\* which the split or merge that asked for it may have replaced.
RecordedCentroid(d, reassigns, v) == reassigns[v]

CurrentCentroid(d, reassigns, v) == Get(d.current, v, reassigns[v])

\* For a data vector, the assertion that its index data agrees.
Move(d, v, from, to) ==
    LET ok == LevelOf(v) = 0 => ViewIndexData(d)[v].posting = from
    IN  IF to = from THEN d
        ELSE Attach(RemoveFromPosting([d EXCEPT !.ok = @ /\ ok], from, v), to, v)

MoveAll(d, reassigns, vs, level) ==
    LET move(v, x) == Move(x, v, CurrentCentroid(d, reassigns, v), Closest(At(v), Reached(d, level)))
    IN  FoldSet(move, d, vs)

(***************************************************************************)
(* SplitRoot.execute: a full root gets the two centroids of two-means, and *)
(* each of its former children goes under the nearer one.                  *)
(***************************************************************************)
PromoteRoot(d) ==
    LET children == ViewPostings(d, Root)
        level == TopLevel(d.depth + 1)
        two   == TwoMeans(children)
        d0 == [d EXCEPT !.depth = @ + 1]
        d1 == AddCentroid(d0, level, two[1], Root)
        d2 == AddCentroid(d1, level, two[2], Root)
        fill(top) == FoldSet(LAMBDA c, x : Attach(x, Closest(At(c), top), c),
                             [d2 EXCEPT !.promoted = TRUE, !.root = top, !.root_updates = Empty,
                                        !.root_count = 2],
                             children)
    IN  fill({NextCentroid(d0, level, two[1]), NextCentroid(d1, level, two[2])})

(***************************************************************************)
(* VectorIndexDelta.freeze: the state, the cache and the stored records.   *)
(***************************************************************************)
FrozenState(d) ==
    [dict |-> d.dict @@ state.dict, depth |-> d.depth, root_count |-> d.root_count,
     info |-> ViewInfo(d),
     counts |-> [c \in (DOMAIN state.counts \cup DOMAIN d.counts) \ d.deleted |->
                    Saturating(Get(state.counts, c, 0) + Get(d.counts, c, 0))],
     seq |-> d.seq, cseq |-> d.cseq]

\* The inner centroids whose cached posting list is updated.
CacheUpdated(d) == {c \in DOMAIN d.updates : LevelOf(c) > 1 /\ c \in DOMAIN ViewInfo(d)}

CacheMisses(d) ==
    {c \in CacheUpdated(d) : c \notin DOMAIN cache /\ c \notin d.new}

FrozenCache(d, e) ==
    LET root  == IF d.promoted \/ d.root_updates # Empty THEN {Root} ELSE {}
        inner == CacheUpdated(d) \cup {c \in d.new : LevelOf(c) > 1}
        base(c) == CASE c = Root /\ d.promoted -> d.root
                     [] c \in d.new            -> {}
                     [] OTHER                  -> cache[c].ids
    IN  Without([c \in root \cup inner |->
                    [ids |-> ApplyUpdates(base(c), IF c = Root THEN d.root_updates
                                                   ELSE Get(d.updates, c, Empty)),
                     written_epoch |-> e]] @@ cache, d.deleted)

\* The batch of record operations, as storage and its merge operators apply
\* it; st is the state after the freeze.
ApplyOps(s, d, st, batch) ==
    LET root   == IF d.promoted THEN d.root ELSE StoredPostings(s, Root)
        merged == [c \in DOMAIN d.updates |-> ApplyUpdates(StoredPostings(s, c), d.updates[c])]
    IN  [dict |-> d.dict @@ s.dict,
         data |-> Without(d.data @@ s.data, d.dels),
         idx |-> Without(d.idx @@ s.idx, d.dels),
         inv |-> [a \in Attrs |-> (s.inv[a] \ d.exc[a]) \cup d.inc[a]],
         depth |-> d.depth,
         info |-> Without(d.info @@ s.info, d.deleted),
         stats |-> [c \in DOMAIN d.counts \ d.deleted |-> st.counts[c]] @@ Without(s.stats, d.deleted),
         postings |-> Without((Root :> ApplyUpdates(root, d.root_updates)) @@ merged @@ s.postings,
                              d.deleted),
         seq |-> IF d.seq_put = NoBlock THEN s.seq ELSE d.seq_put,
         cseq |-> IF d.cseq_put = NoBlock THEN s.cseq ELSE d.cseq_put,
         last_write |-> [e \in {batch[i].id : i \in DOMAIN batch} |->
                            Last(SelectSeq(batch, LAMBDA w : w.id = e))] @@ s.last_write]

(***************************************************************************)
(* The flush task.  pc: idle, write, merge, reassign, split, root, freeze, *)
(* apply, snapshot, and panicked, from which only a restart leads on.      *)
(***************************************************************************)
Idle == [pc |-> "idle", batch |-> <<>>, delta |-> <<>>, level |-> 0, round |-> 0,
         reassigns |-> Empty]

Init ==
    /\ todo \in Workloads
    /\ durable = EmptyStorage
    /\ storage = Bootstrap(EmptyStorage)
    /\ state = LoadState(storage)
    /\ cache = LoadCache(storage)
    /\ applied = [snapshot |-> storage, epoch |-> 0]
    /\ engine = applied
    /\ flusher = Idle
    /\ poisoned = FALSE
    /\ epoch = 0
    /\ crashes = 0
    /\ faults = 0

\* An assertion of the delta's operations that fails ends the task.
Continue(pc, d, f) ==
    flusher' = [f EXCEPT !.pc = IF d.ok THEN pc ELSE "panicked", !.delta = d]

InMemory == <<todo, state, cache, storage, durable, applied, engine, poisoned, epoch, crashes, faults>>

BeginFlush ==
    /\ flusher.pc = "idle"
    /\ todo # <<>>
    /\ ~poisoned
    /\ todo' = Tail(todo)
    /\ epoch' = epoch + 1
    /\ flusher' = [Idle EXCEPT !.pc = "write", !.batch = Head(todo), !.delta = NewDelta]
    /\ UNCHANGED <<state, cache, storage, durable, applied, engine, poisoned, crashes, faults>>

\* A poisoned flusher refuses every batch; the coordinator drops it.
RefuseFlush ==
    /\ flusher.pc = "idle"
    /\ todo # <<>>
    /\ poisoned
    /\ todo' = Tail(todo)
    /\ epoch' = epoch + 1
    /\ UNCHANGED <<state, cache, storage, durable, applied, engine, flusher, poisoned, crashes, faults>>

WriteVectors ==
    /\ flusher.pc = "write"
    /\ Continue("merge", WriteAll(flusher.delta, CompactWrites(flusher.batch)),
                [flusher EXCEPT !.level = 1])
    /\ UNCHANGED InMemory

MergeCentroids ==
    /\ flusher.pc = "merge"
    /\ Continue("reassign", MergeAll(flusher.delta, flusher.level),
                [flusher EXCEPT !.reassigns = MergedVectors(flusher.delta, flusher.level),
                                !.round = 0])
    /\ UNCHANGED InMemory

\* reassign_vectors: the requests of the lowest level; when none are left the
\* next round of splits begins.
ReassignVectors ==
    /\ flusher.pc = "reassign"
    /\ LET rs    == flusher.reassigns
           level == Min({LevelOf(v) : v \in DOMAIN rs}) + 1
           vs    == {v \in DOMAIN rs : LevelOf(v) + 1 = level}
       IN  IF rs = Empty
           THEN flusher' = [flusher EXCEPT !.pc = "split"]
           ELSE Continue("reassign", MoveAll(flusher.delta, rs, vs, level),
                         [flusher EXCEPT !.reassigns = Without(rs, vs)])
    /\ UNCHANGED InMemory

SplitCentroids ==
    /\ flusher.pc = "split"
    /\ ToSplit(flusher.delta, flusher.level) # {}
    /\ \E e \in {SplitAll(flusher.delta, flusher.level)} :
        Continue("reassign", [e EXCEPT !.ok = @ /\ flusher.round + 1 < MaxRounds],
                 [flusher EXCEPT !.round = @ + 1,
                    !.reassigns = SplitReassigns(flusher.delta, flusher.level,
                                                 [c \in e.new \ flusher.delta.new |-> e.info[c]])])
    /\ UNCHANGED InMemory

\* No centroid was split: up to the next level, below the root the state had
\* when the update began.
SplitsDone ==
    /\ flusher.pc = "split"
    /\ ToSplit(flusher.delta, flusher.level) = {}
    /\ flusher' = IF flusher.level = TopLevel(state.depth)
                  THEN [flusher EXCEPT !.pc = "root"]
                  ELSE [flusher EXCEPT !.pc = "merge", !.level = @ + 1]
    /\ UNCHANGED InMemory

SplitRoot ==
    /\ flusher.pc = "root"
    /\ Continue("freeze",
                IF flusher.delta.root_count < RootThreshold THEN flusher.delta
                ELSE PromoteRoot(flusher.delta), flusher)
    /\ UNCHANGED InMemory

\* An error reading storage: the batch is dropped with its delta.
UpdateFails ==
    /\ flusher.pc \in {"write", "merge", "reassign", "split", "root"}
    /\ faults < MaxFaults
    /\ faults' = faults + 1
    /\ flusher' = Idle
    /\ UNCHANGED <<todo, state, cache, storage, durable, applied, engine, poisoned, epoch, crashes>>

\* A cache miss trips expect("unexpected missing centroid") with the lock of
\* the cache held: whoever takes it later panics as well.
Freeze ==
    /\ flusher.pc = "freeze"
    /\ IF CacheMisses(flusher.delta) # {}
       THEN /\ flusher' = [flusher EXCEPT !.pc = "panicked"]
            /\ UNCHANGED <<state, cache>>
       ELSE /\ state' = FrozenState(flusher.delta)
            /\ cache' = FrozenCache(flusher.delta, epoch)
            /\ flusher' = [flusher EXCEPT !.pc = "apply"]
    /\ UNCHANGED <<todo, storage, durable, applied, engine, poisoned, epoch, crashes, faults>>

StorageApply ==
    /\ flusher.pc = "apply"
    /\ storage' = ApplyOps(storage, flusher.delta, state, flusher.batch)
    /\ flusher' = [Idle EXCEPT !.pc = "snapshot"]
    /\ UNCHANGED <<todo, state, cache, durable, applied, engine, poisoned, epoch, crashes, faults>>

Publish ==
    /\ flusher.pc = "snapshot"
    /\ applied' = [snapshot |-> storage, epoch |-> epoch]
    /\ flusher' = Idle
    /\ UNCHANGED <<todo, state, cache, storage, durable, engine, poisoned, epoch, crashes, faults>>

\* Mutant: a failed apply does not poison the flusher.
ApplyFailsQuietly ==
    /\ flusher.pc \in {"apply", "snapshot"}
    /\ faults < MaxFaults
    /\ faults' = faults + 1
    /\ flusher' = Idle
    /\ UNCHANGED <<todo, state, cache, storage, durable, applied, engine, poisoned, epoch, crashes>>

\* The apply or the snapshot fails: the flusher is poisoned.
ApplyFails ==
    /\ flusher.pc \in {"apply", "snapshot"}
    /\ faults < MaxFaults
    /\ faults' = faults + 1
    /\ poisoned' = TRUE
    /\ flusher' = Idle
    /\ UNCHANGED <<todo, state, cache, storage, durable, applied, engine, epoch, crashes>>

(***************************************************************************)
(* Storage makes what it holds durable (flush_storage, or by itself); a    *)
(* query takes the published snapshot; the process dies and opens again.   *)
(***************************************************************************)
FlushStorage ==
    /\ durable # storage
    /\ durable' = storage
    /\ UNCHANGED <<todo, state, cache, storage, applied, engine, flusher, poisoned, epoch, crashes, faults>>

QueryEngine ==
    /\ flusher.pc # "panicked"
    /\ engine # applied
    /\ engine' = applied
    /\ UNCHANGED <<todo, state, cache, storage, durable, applied, flusher, poisoned, epoch, crashes, faults>>

Restart ==
    /\ crashes < MaxCrashes
    /\ crashes' = crashes + 1
    /\ storage' = Bootstrap(durable)
    /\ state' = LoadState(storage')
    /\ cache' = LoadCache(storage')
    /\ applied' = [snapshot |-> storage', epoch |-> 0]
    /\ engine' = applied'
    /\ flusher' = Idle
    /\ poisoned' = FALSE
    /\ epoch' = 0
    /\ UNCHANGED <<todo, durable, faults>>

Next ==
    \/ BeginFlush \/ RefuseFlush
    \/ WriteVectors \/ MergeCentroids \/ ReassignVectors \/ SplitCentroids \/ SplitsDone \/ SplitRoot
    \/ UpdateFails \/ Freeze \/ StorageApply \/ Publish \/ ApplyFails
    \/ FlushStorage \/ QueryEngine \/ Restart

Spec == Init /\ [][Next]_vars

(***************************************************************************)
(* Properties.                                                             *)
(***************************************************************************)
\* Counts are natural numbers, the cache always holds the root, and no reader's
\* epoch is ahead of the last update's.
TypeOK ==
    /\ flusher.pc \in {"idle", "write", "merge", "reassign", "split", "root", "freeze",
                       "apply", "snapshot", "panicked"}
    /\ poisoned \in BOOLEAN
    /\ state.root_count \in Nat \ {0}
    /\ \A c \in DOMAIN state.counts : state.counts[c] \in Nat
    /\ Root \in DOMAIN cache
    /\ engine.epoch <= applied.epoch /\ applied.epoch <= epoch

\* No update trips over an assertion of its own: postings link neighbouring
\* levels only, a vector is removed from the posting it was last written to, a
\* reassigned vector's index data names the centroid it leaves (state.rs,
\* vector.rs), splitting a level comes to an end (tree/mod.rs), and every inner
\* centroid that an update touches has a cached posting list (centroids.rs).
NoAssertionFails == flusher.pc # "panicked"

\* Whenever an update searches a level for the nearest centroid, the search
\* finds one: merging leaves at least one centroid per level (merge.rs), and
\* the expect("no centroids") of a reassignment never fires.
SearchesFindCentroids ==
    /\ flusher.pc = "write" => Reached(flusher.delta, 1) # {}
    /\ flusher.pc = "reassign" =>
          \A v \in DOMAIN flusher.reassigns : Reached(flusher.delta, LevelOf(v) + 1) # {}

\* What storage holds, and what would survive a crash, is a tree: every
\* centroid is in the posting list of its parent and in no other, one level
\* up; its stored count is the length of its own list; nothing refers to a
\* deleted centroid (validator.rs checks as much in debug builds).
IsTree(s) ==
    LET nodes == DOMAIN s.info \cup {Root}
        top   == TopLevel(s.depth)
    IN  /\ DOMAIN s.postings \subseteq nodes
        /\ DOMAIN s.stats = DOMAIN s.info
        /\ \A c \in DOMAIN s.info :
              /\ {n \in nodes : c \in StoredPostings(s, n)} = {s.info[c]}
              /\ LevelOf(c) \in 1..top
              /\ s.info[c] = Root <=> LevelOf(c) = top
              /\ s.info[c] # Root => LevelOf(s.info[c]) = LevelOf(c) + 1
              /\ s.stats[c] = Cardinality(StoredPostings(s, c))
        /\ \A n \in nodes : \A v \in StoredPostings(s, n) : LevelOf(v) > 0 => v \in DOMAIN s.info

TreeIsValid == IsTree(storage) /\ (durable # EmptyStorage => IsTree(durable))

\* Every vector of the dictionary, and no other, is in exactly one posting
\* list, the one its index data names, and in the inverted index under the
\* value of its field: an upsert leaves no trace of the vector it replaces,
\* a split or merge loses none.
IsIndexed(s) ==
    LET vectors == {s.dict[e] : e \in DOMAIN s.dict}
    IN  /\ DOMAIN s.data = vectors
        /\ DOMAIN s.idx = vectors
        /\ \A v \in vectors :
              /\ {c \in DOMAIN s.postings : v \in s.postings[c]} = {s.idx[v].posting}
              /\ s.idx[v].attr = s.data[v].attr
        /\ \A a \in Attrs : s.inv[a] = {v \in vectors : s.data[v].attr = a}
        /\ \A c \in DOMAIN s.postings : \A v \in s.postings[c] : LevelOf(v) = 0 => v \in vectors

VectorsAreIndexed == IsIndexed(storage) /\ IsIndexed(durable)

\* Each external id reads back its last write in the batches applied, whole
\* batches only, across failed updates, poisoned flushers and crashes.
LastWriteWins ==
    \A s \in {storage, durable, applied.snapshot, engine.snapshot} :
        /\ DOMAIN s.dict = DOMAIN s.last_write
        /\ \A e \in DOMAIN s.dict : s.data[s.dict[e]] = s.last_write[e]

\* A query, and the indexer itself, read through the shared cache exactly the
\* posting lists of the snapshot they hold, though the indexer overwrites the
\* cache before the records it stands for are applied or published.
CachedReadsMatchSnapshot ==
    \A reader \in {applied, engine} :
        \A c \in DOMAIN reader.snapshot.info \cup {Root} :
            LevelOf(c) > 1 => CachedPostings(reader, c) = StoredPostings(reader.snapshot, c)

\* Between updates the indexer's memory is what a restart would load from
\* storage, unless the flusher is poisoned: an apply that fails after the
\* freeze must not let a later update build on the diverged memory.
StateMatchesStorage ==
    flusher.pc = "idle" /\ ~poisoned =>
        /\ applied.snapshot = storage
        /\ state.dict = storage.dict
        /\ state.depth = storage.depth
        /\ state.info = storage.info
        /\ state.counts = storage.stats
        /\ state.root_count = Cardinality(StoredPostings(storage, Root))

\* No update panics, by an assertion or by a search that comes back empty.
NoPanic == NoAssertionFails /\ SearchesFindCentroids

\* Storage, now and after a crash, holds a tree of centroids in which every
\* vector has its one place.
IndexIsConsistent == TypeOK /\ TreeIsValid /\ VectorsAreIndexed

\* What is kept in memory besides storage, the indexer's state and the cached
\* centroid tree, agrees with the snapshot it is used with.
MemoryMatchesStorage == CachedReadsMatchSnapshot /\ StateMatchesStorage
=============================================================================
