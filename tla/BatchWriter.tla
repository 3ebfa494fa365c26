---------------------------- MODULE BatchWriter ----------------------------
(***************************************************************************)
(* The producer's side of the write buffer (crate `buffer`, producer.rs).  *)
(*                                                                         *)
(* Producer::produce queues a write on a bounded channel and returns a     *)
(* watcher.  One task takes messages from the channel, gathers writes into *)
(* a batch, and uploads and enqueues the batch when it is large enough,    *)
(* when the flush interval has passed, or when a caller flushes; then it   *)
(* tells every watcher of the batch the outcome.  What write_and_enqueue   *)
(* does to the object store is the subject of module BufferQueue; here it  *)
(* succeeds, fails, or takes effect and yet reports a failure, and a       *)
(* conditional put that the store's client repeats makes enqueue append    *)
(* the location of a batch again.                                          *)
(***************************************************************************)
EXTENDS Naturals, Sequences, FiniteSets, SequencesExt

CONSTANTS
    Writes,          \* the writes callers produce
    Callers,         \* the callers of flush
    Sizes,           \* possible sizes of a write: entries may be empty
    MaxEntrySize,    \* u32::MAX
    FlushSize,       \* flush_size_bytes
    MaxBuffered,     \* max_buffered_inputs, the channel's capacity
    WriteFails,      \* whether write_and_enqueue may fail
    MaxAppends       \* bound: how often one enqueue appends its location

ASSUME BatchWriterConstants ==
    /\ Sizes \subseteq Nat
    /\ MaxEntrySize \in Nat
    /\ FlushSize \in Nat \ {0}
    /\ MaxBuffered \in Nat \ {0}
    /\ WriteFails \in BOOLEAN
    /\ MaxAppends \in Nat \ {0}

VARIABLES
    watcher,     \* what each write's DurabilityWatcher shows
    channel,     \* messages from the callers to the task
    batch,       \* writes of the batch being gathered
    batch_size,  \* size_bytes
    task,        \* the task: selecting, writing a batch, or ended
    writing,     \* writes of the batch being written
    location,    \* the Ulids made so far: the newest is the batch's location
    reply_to,    \* the caller whose flush is being answered, or Nobody
    call,        \* each caller's flush
    owner,       \* the Producer: in use, closing, closed, failed or dropped
    cancelled,   \* the cancellation token
    owed,        \* history: writes accepted before each caller's flush
    accepted,    \* history: writes in the order the channel took them
    manifest     \* history: this producer's entries in the order they were
                 \* appended, each with its location and the writes found there

vars == <<watcher, channel, batch, batch_size, task, writing, location,
          reply_to, call, owner, cancelled, owed, accepted, manifest>>

Nobody == "nobody"
Closer == "closer"
Everyone == Callers \cup {Closer}

Add(w, size) == [kind |-> "add", write |-> w, size |-> size]
Flush(who) == [kind |-> "flush", who |-> who]

Settled == {"ok", "error", "closed"}

Init ==
    /\ watcher = [w \in Writes |-> "unused"]
    /\ channel = <<>>
    /\ batch = <<>>
    /\ batch_size = 0
    /\ task = "select"
    /\ writing = <<>>
    /\ location = 0
    /\ reply_to = Nobody
    /\ call = [c \in Everyone |-> "idle"]
    /\ owner = "open"
    /\ cancelled = FALSE
    /\ owed = [c \in Everyone |-> {}]
    /\ accepted = <<>>
    /\ manifest = <<>>
----------------------------------------------------------------------------
(* Callers.  A full channel makes produce and flush wait.                  *)

Produce(w, size) ==
    /\ owner = "open"
    /\ watcher[w] = "unused"
    /\ Len(channel) < MaxBuffered
    /\ channel' = Append(channel, Add(w, size))
    /\ watcher' = [watcher EXCEPT ![w] = "pending"]
    /\ accepted' = Append(accepted, w)
    /\ UNCHANGED <<batch, batch_size, task, writing, location, reply_to, call,
                   owner, cancelled, owed, manifest>>

SendFlush(who) ==
    /\ Len(channel) < MaxBuffered
    /\ channel' = Append(channel, Flush(who))
    /\ call' = [call EXCEPT ![who] = "waiting"]
    /\ owed' = [owed EXCEPT ![who] = {w \in Writes : watcher[w] # "unused"}]

CallFlush(c) ==
    /\ owner = "open"
    /\ call[c] # "waiting"
    /\ SendFlush(c)
    /\ UNCHANGED <<watcher, batch, batch_size, task, writing, location,
                   reply_to, owner, cancelled, accepted, manifest>>

\* close takes the Producer by value: no other call is in progress.
CallClose ==
    /\ owner = "open"
    /\ \A c \in Callers : call[c] # "waiting"
    /\ owner' = "closing"
    /\ SendFlush(Closer)
    /\ UNCHANGED <<watcher, batch, batch_size, task, writing, location,
                   reply_to, cancelled, accepted, manifest>>

\* The flush inside close returned.  Ok cancels the task; an error returns at
\* once and only drops the sender.
CloseFlushed ==
    /\ owner = "closing"
    /\ \/ call[Closer] = "ok" /\ cancelled' = TRUE /\ owner' = "joining"
       \/ call[Closer] = "error" /\ owner' = "close failed" /\ UNCHANGED cancelled
    /\ UNCHANGED <<watcher, channel, batch, batch_size, task, writing,
                   location, reply_to, call, owed, accepted, manifest>>

CloseJoined ==
    /\ owner = "joining"
    /\ task = "ended"
    /\ owner' = "closed"
    /\ UNCHANGED <<watcher, channel, batch, batch_size, task, writing,
                   location, reply_to, call, cancelled, owed, accepted,
                   manifest>>

\* The Producer is dropped without close.
Drop ==
    /\ owner = "open"
    /\ \A c \in Callers : call[c] # "waiting"
    /\ owner' = "dropped"
    /\ UNCHANGED <<watcher, channel, batch, batch_size, task, writing,
                   location, reply_to, call, cancelled, owed, accepted,
                   manifest>>
----------------------------------------------------------------------------
(* The task.  Its select is biased: shutdown, then the channel, then time. *)

\* Mutant: a flush is answered before the batch is written.
WriteBatchUnawaited(writes, who) ==
    /\ call' = IF who = Nobody THEN call ELSE [call EXCEPT ![who] = "ok"]
    /\ reply_to' = Nobody
    /\ IF writes = <<>>
       THEN UNCHANGED <<batch, batch_size, task, writing, location>>
       ELSE /\ task' = "writing"
            /\ writing' = writes
            /\ location' = location + 1
            /\ batch' = <<>>
            /\ batch_size' = 0

\* write_batch up to its await, for a batch of the given writes.
WriteBatch(writes, who) ==
    IF writes = <<>>
    THEN /\ call' = IF who = Nobody THEN call ELSE [call EXCEPT ![who] = "ok"]
         /\ UNCHANGED <<batch, batch_size, task, writing, location, reply_to>>
    ELSE /\ task' = "writing"
         /\ writing' = writes
         /\ location' = location + 1
         /\ reply_to' = who
         /\ batch' = <<>>
         /\ batch_size' = 0
         /\ UNCHANGED call

\* Batch::add refuses a write with an entry that is too large: its watcher is
\* told and the batch stays as it is.
RefuseAdd(w) ==
    /\ watcher' = [watcher EXCEPT ![w] = "error"]
    /\ UNCHANGED <<batch, batch_size, task, writing, location, reply_to, call>>

\* Mutant: the newest write is put first.
AddToBatchFront(w, size) ==
    /\ IF batch_size + size >= FlushSize
       THEN WriteBatch(<<w>> \o batch, Nobody)
       ELSE /\ batch' = <<w>> \o batch
            /\ batch_size' = batch_size + size
            /\ UNCHANGED <<task, writing, location, reply_to, call>>
    /\ UNCHANGED watcher

AddToBatch(w, size) ==
    /\ IF batch_size + size >= FlushSize
       THEN WriteBatch(Append(batch, w), Nobody)
       ELSE /\ batch' = Append(batch, w)
            /\ batch_size' = batch_size + size
            /\ UNCHANGED <<task, writing, location, reply_to, call>>
    /\ UNCHANGED watcher

TakeAdd ==
    /\ task = "select"
    /\ ~cancelled
    /\ channel # <<>>
    /\ Head(channel).kind = "add"
    /\ LET add == Head(channel)
       IN  IF add.size > MaxEntrySize
           THEN RefuseAdd(add.write)
           ELSE AddToBatch(add.write, add.size)
    /\ channel' = Tail(channel)
    /\ UNCHANGED <<owner, cancelled, owed, accepted, manifest>>

TakeFlush ==
    /\ task = "select"
    /\ ~cancelled
    /\ channel # <<>>
    /\ Head(channel).kind = "flush"
    /\ WriteBatch(batch, Head(channel).who)
    /\ channel' = Tail(channel)
    /\ UNCHANGED <<watcher, owner, cancelled, owed, accepted, manifest>>

\* Mutant: nothing happens when the interval has passed.
IntervalIgnored ==
    /\ FALSE
    /\ UNCHANGED vars

\* The sleep is polled only when the channel has nothing to offer.
IntervalElapsed ==
    /\ task = "select"
    /\ ~cancelled
    /\ channel = <<>>
    /\ batch # <<>>
    /\ WriteBatch(batch, Nobody)
    /\ UNCHANGED <<watcher, channel, owner, cancelled, owed, accepted,
                   manifest>>

\* write_and_enqueue returns, its location appended the given number of times:
\* every notifier, then the caller, is told.
BatchWritten(outcome, times) ==
    /\ task = "writing"
    /\ task' = "select"
    /\ writing' = <<>>
    /\ LET entry == [location |-> location, writes |-> writing]
       IN  manifest' = manifest \o [i \in 1..times |-> entry]
    /\ watcher' = [w \in Writes |-> IF w \in ToSet(writing) THEN outcome
                                                           ELSE watcher[w]]
    /\ call' = IF reply_to = Nobody THEN call
                                    ELSE [call EXCEPT ![reply_to] = outcome]
    /\ reply_to' = Nobody
    /\ UNCHANGED <<channel, batch, batch_size, location, owner, cancelled,
                   owed, accepted>>

\* A put that took effect and is repeated by the client of the store meets its
\* own effect as a conflict: enqueue reads the manifest again and appends again.
BatchSucceeds == \E times \in 1..MaxAppends : BatchWritten("ok", times)

BatchFails ==
    /\ WriteFails
    /\ \E times \in 0..MaxAppends : BatchWritten("error", times)

\* The task returns when it is cancelled, or when the senders are gone and the
\* channel is empty; the notifiers it holds, in the batch or still in the
\* channel, are dropped.
EndTask ==
    /\ task = "select"
    /\ \/ cancelled
       \/ owner \in {"dropped", "close failed"} /\ channel = <<>>
    /\ task' = "ended"
    /\ watcher' = [w \in Writes |-> IF watcher[w] = "pending" THEN "closed"
                                                             ELSE watcher[w]]
    /\ batch' = <<>>
    /\ batch_size' = 0
    /\ channel' = <<>>
    /\ UNCHANGED <<writing, location, reply_to, call, owner, cancelled, owed,
                   accepted, manifest>>
----------------------------------------------------------------------------
Task ==
    \/ TakeAdd
    \/ TakeFlush
    \/ IntervalElapsed
    \/ BatchSucceeds
    \/ BatchFails
    \/ EndTask

Next ==
    \/ \E w \in Writes, size \in Sizes : Produce(w, size)
    \/ \E c \in Callers : CallFlush(c)
    \/ CallClose
    \/ CloseFlushed
    \/ CloseJoined
    \/ Drop
    \/ Task

Spec == Init /\ [][Next]_vars

\* The runtime polls the task while it can proceed, and the object store
\* answers.  The interval is fair only in the weak sense: the task looks at it
\* only when it finds the channel empty.
LiveSpec == Spec /\ WF_vars(Task) /\ WF_vars(IntervalElapsed)
                 /\ WF_vars(CloseFlushed) /\ WF_vars(CloseJoined)
----------------------------------------------------------------------------
\* Every variable has the type the code gives it.
TypeOK ==
    /\ watcher \in [Writes -> Settled \cup {"unused", "pending"}]
    /\ ToSet(channel) \subseteq {Add(w, s) : w \in Writes, s \in Sizes}
                                    \cup {Flush(c) : c \in Everyone}
    /\ Len(channel) <= MaxBuffered
    /\ batch \in Seq(Writes)
    /\ batch_size \in 0..FlushSize - 1
    /\ task \in {"select", "writing", "ended"}
    /\ writing \in Seq(Writes)
    /\ location \in Nat
    /\ reply_to \in Everyone \cup {Nobody}
    /\ call \in [Everyone -> {"idle", "waiting", "ok", "error"}]
    /\ owner \in {"open", "closing", "joining", "closed", "close failed",
                  "dropped"}
    /\ cancelled \in BOOLEAN
    /\ owed \in [Everyone -> SUBSET Writes]

Enqueued == UNION {ToSet(manifest[i].writes) : i \in DOMAIN manifest}

\* A watcher tells the truth: "ok" only for a write that is in the queue, the
\* shutdown error only for one that is not.  A write reported failed may be there.
WatchersTellTheTruth ==
    \A w \in Writes :
        /\ watcher[w] = "ok" => w \in Enqueued
        /\ watcher[w] = "closed" => w \notin Enqueued

\* The entries without the repetitions of a location, which stand together.
Distinct ==
    LET fresh(i) == i = 1 \/ manifest[i] # manifest[i - 1]
    IN  [i \in DOMAIN manifest |-> IF fresh(i) THEN manifest[i].writes ELSE <<>>]

\* Writes are enqueued in the order produce accepted them and each in one batch,
\* whatever mixture of size, interval and flush cut them into batches and
\* whichever batches failed: only an append that is repeated, of a whole batch at
\* its one location, brings a write into the queue twice.
OrderIsKept ==
    FlattenSeq(Distinct) = SelectSeq(accepted, LAMBDA w : w \in Enqueued)

\* When a flush returns, with success or not, the fate of every write accepted
\* before the call is known: "blocking until all pending entries are durably
\* written".
FlushSettles ==
    \A c \in Everyone :
        call[c] \in {"ok", "error"} =>
            \A w \in owed[c] : watcher[w] \in Settled

\* A close that returns Ok has dropped no write: "flushing any remaining
\* buffered entries before returning".
CloseDropsNothing ==
    owner = "closed" =>
        \A w \in Writes : watcher[w] \in {"unused", "ok", "error"}

\* Every watcher is told something: the task never forgets a write it accepted,
\* whether the batch fills up, the interval passes, or callers flush, close or
\* drop the producer.
EventuallySettled ==
    \A w \in Writes : watcher[w] = "pending" ~> watcher[w] # "pending"

\* The queue is what produce was promised: each write in one batch at most, in
\* order, and as its watcher was told.
WritesAreAccountedFor == TypeOK /\ WatchersTellTheTruth /\ OrderIsKept

\* A flush or a close that returns leaves no earlier write undecided, and a
\* close that returns Ok dropped none.
CallersSettle == FlushSettles /\ CloseDropsNothing
=============================================================================
