-------------------------- MODULE WriteCoordinator --------------------------
(***************************************************************************)
(* The write coordinator (crate `common`, module `coordinator`).           *)
(*                                                                         *)
(* Clients queue commands on named channels.  The write task takes one     *)
(* command at a time, gives a write the next epoch and applies it to the   *)
(* current delta.  A flush freezes the delta, publishes it in the view and *)
(* sends it through a bounded channel to the flush task, which writes it   *)
(* to storage, publishes the new snapshot and advances the watermarks that *)
(* clients wait on.                                                        *)
(*                                                                         *)
(* A delta is the set of epochs whose write it holds.  Everything a task   *)
(* does between two awaits is one step, except where the code's order      *)
(* within it can be observed by another thread: the refreshed view and the *)
(* Written watermark are published by two steps.                           *)
(***************************************************************************)
EXTENDS Integers, Sequences, FiniteSets

CONSTANTS
    Channels,        \* the named input channels
    QueueCapacity,   \* queue_capacity of each
    FlushCapacity,   \* capacity of the channel to the flush task, 2 in new()
    FlusherFails,    \* whether the Flusher may return errors
    Loads,           \* bound: numbers of commands clients send to the channels
    MaxPauses        \* bound on calls of PauseHandle::pause

ASSUME CoordinatorConstants ==
    /\ QueueCapacity \in Nat \ {0}
    /\ FlushCapacity \in Nat \ {0}
    /\ FlusherFails \in BOOLEAN
    /\ Loads \subseteq [Channels -> Nat]
    /\ MaxPauses \in Nat

VARIABLES
    cmds,         \* every command sent, with its answer; its index is its id
    queue,        \* each channel's queue of command ids
    paused,       \* the value of each channel's pause watch
    armed,        \* receivers past their pause check, waiting for a command
    pauses,       \* number of pauses so far
    owner,        \* whether the WriteCoordinator is alive, stopped or dropped
    task,         \* the write task: its loop, its exit, its result
    epoch,        \* the epoch of the next write
    delta_start,  \* delta_start_epoch
    delta,        \* epochs of the writes in the current delta
    outbox,       \* flush events the write task is blocked on sending
    flush_queue,  \* the channel to the flush task
    flush_stop,   \* flush_stop_tok
    flusher,      \* the flush task and the event it is handling
    view,         \* the published View: frozen deltas, newest first, snapshot
    stored,       \* epochs whose write is in storage
    synced,       \* epochs whose write survives a crash of storage
    mark,         \* the three watermarks
    good          \* history: epochs whose write was applied without an error

inputVars == <<cmds, queue, paused, armed, pauses>>
writeVars == <<owner, task, epoch, delta_start, delta, outbox, good>>
flushVars == <<flusher, stored, synced>>
vars == <<inputVars, writeVars, flushVars, flush_queue, flush_stop, view, mark>>
----------------------------------------------------------------------------
(* Commands, flush events and the tasks' states.                           *)

\* "sync" is flush(true), a flush that also asks for durability.
Operations == {"write", "flush", "sync"}

\* "refused" is an ApplyError; "shutdown" is a result sender that was dropped.
Answers == {"queued", "ok", "refused", "shutdown"}

\* seen is history: the last epoch assigned when the command was sent.
Command == [ch : Channels, op : Operations, answer : Answers,
            epoch : Nat, seen : Nat]

\* An EpochStamped delta.  The range excludes its end.
Stamped == [from : Nat, to : Nat, val : SUBSET Nat]

\* FlushStorage carries no range in the code; here it has the empty range at
\* which it was requested.
FlushEvent == [kind : {"delta", "storage"}, frozen : Stamped]

FlushDelta(frozen) == [kind |-> "delta", frozen |-> frozen]

FlushStorage(at) ==
    [kind |-> "storage", frozen |-> [from |-> at, to |-> at, val |-> {}]]

NoEvent == FlushStorage(0)

Finished == {"done", "failed", "panicked"}

FlushPhases == {"recv", "flushing", "flushed", "viewed"} \cup Finished

\* last is last_flushed_epoch; snap is the snapshot flush_delta returned.
FlushTask == [pc : FlushPhases, draining : BOOLEAN, ev : FlushEvent,
              snap : SUBSET Nat, last : Nat, erred : BOOLEAN]

Tasks == {"run", "exit", "join", "ok", "flush error", "flush panic"}

Ended == {"ok", "flush error", "flush panic"}

View == [frozen : Seq(Stamped), snapshot : SUBSET Nat]

EpochWatermarks == [applied : Nat, written : Nat, durable : Nat]
----------------------------------------------------------------------------
Init ==
    /\ cmds = <<>>
    /\ queue = [ch \in Channels |-> <<>>]
    /\ paused = [ch \in Channels |-> FALSE]
    /\ armed = [ch \in Channels |-> FALSE]
    /\ pauses = 0
    /\ owner = "alive"
    /\ task = "run"
    /\ epoch = 1
    /\ delta_start = 1
    /\ delta = {}
    /\ outbox = <<>>
    /\ flush_queue = <<>>
    /\ flush_stop = FALSE
    /\ flusher = [pc |-> "recv", draining |-> FALSE, ev |-> NoEvent,
                  snap |-> {}, last |-> 0, erred |-> FALSE]
    /\ view = [frozen |-> <<>>, snapshot |-> {}]
    /\ stored = {}
    /\ synced = {}
    /\ mark = [applied |-> 0, written |-> 0, durable |-> 0]
    /\ good = {}
----------------------------------------------------------------------------
(***************************************************************************)
(* Clients.  try_write, write, write_timeout and flush differ in what they *)
(* do while the queue is full: fail, wait, or wait for some time.  None of *)
(* them changes the coordinator's state until there is room.               *)
(***************************************************************************)

\* Whether the bound admits one more command on a channel.
WithinLoad(ch) ==
    LET sent(c) == Cardinality({i \in DOMAIN cmds : cmds[i].ch = c})
    IN  \E load \in Loads :
            sent(ch) < load[ch] /\ \A c \in Channels : sent(c) <= load[c]

Send(ch, op) ==
    /\ WithinLoad(ch)
    /\ owner # "dropped"
    /\ task \notin Ended
    /\ Len(queue[ch]) < QueueCapacity
    /\ cmds' = Append(cmds, [ch |-> ch, op |-> op, answer |-> "queued",
                             epoch |-> 0, seen |-> epoch - 1])
    /\ queue' = [queue EXCEPT ![ch] = Append(@, Len(cmds) + 1)]
    /\ UNCHANGED <<paused, armed, pauses, writeVars, flushVars,
                   flush_queue, flush_stop, view, mark>>

Pause(ch) ==
    /\ owner # "dropped"
    /\ pauses < MaxPauses
    /\ pauses' = pauses + 1
    /\ paused' = [paused EXCEPT ![ch] = TRUE]
    /\ UNCHANGED <<cmds, queue, armed, writeVars, flushVars, flush_queue,
                   flush_stop, view, mark>>

Unpause(ch) ==
    /\ owner # "dropped"
    /\ paused[ch]
    /\ paused' = [paused EXCEPT ![ch] = FALSE]
    /\ UNCHANGED <<cmds, queue, armed, pauses, writeVars, flushVars,
                   flush_queue, flush_stop, view, mark>>

\* WriteCoordinator::stop cancels stop_tok and waits for the write task.
Stop ==
    /\ owner = "alive"
    /\ owner' = "stopped"
    /\ UNCHANGED <<inputVars, task, epoch, delta_start, delta, outbox, good,
                   flushVars, flush_queue, flush_stop, view, mark>>

\* The coordinator, its handles and its pause handles are dropped unstopped:
\* the pause checks end and the channels report their end once empty.
DropAll ==
    /\ owner = "alive"
    /\ owner' = "dropped"
    /\ paused' = [ch \in Channels |-> FALSE]
    /\ UNCHANGED <<cmds, queue, armed, pauses, task, epoch,
                   delta_start, delta, outbox, good, flushVars, flush_queue,
                   flush_stop, view, mark>>
----------------------------------------------------------------------------
(* The write task.                                                         *)

Selecting == task = "run" /\ outbox = <<>>

\* PausableReceiver::recv checks the pause flag once and then waits for a
\* command, across as many turns of the select loop as that takes.
Arm(ch) ==
    /\ Selecting
    /\ ~armed[ch]
    /\ ~paused[ch]
    /\ armed' = [armed EXCEPT ![ch] = TRUE]
    /\ UNCHANGED <<cmds, queue, paused, pauses, writeVars, flushVars,
                   flush_queue, flush_stop, view, mark>>

\* Takes the next command of a channel and answers it.
TakeCommand(ch, answer, at) ==
    LET id == Head(queue[ch])
    IN  /\ cmds' = [cmds EXCEPT ![id].answer = answer, ![id].epoch = at]
        /\ queue' = [queue EXCEPT ![ch] = Tail(@)]
        /\ armed' = [armed EXCEPT ![ch] = FALSE]

UpdateDeltaFrozen(frozen) ==
    view' = [view EXCEPT !.frozen = <<frozen>> \o @]

\* The synchronous part of handle_flush, for a delta that holds `contents` and
\* ends before `end`.  The view is updated here; the events are sent later.
HandleFlush(end, contents, flush_storage) ==
    LET frozen == [from |-> delta_start, to |-> end, val |-> contents]
        storage == IF flush_storage THEN <<FlushStorage(end)>> ELSE <<>>
    IN  IF end = delta_start
        THEN /\ outbox' = storage
             /\ delta' = contents
             /\ UNCHANGED <<delta_start, view>>
        ELSE /\ outbox' = <<FlushDelta(frozen)>> \o storage
             /\ delta' = {}
             /\ delta_start' = end
             /\ UpdateDeltaFrozen(frozen)

\* handle_write.  `applied` is the outcome of Delta::apply, `large` whether the
\* delta has reached flush_size_threshold.
HandleWrite(ch) ==
    \E applied, large \in BOOLEAN :
        LET contents == IF applied THEN delta \cup {epoch} ELSE delta
        IN  /\ TakeCommand(ch, IF applied THEN "ok" ELSE "refused", epoch)
            /\ epoch' = epoch + 1
            /\ good' = IF applied THEN good \cup {epoch} ELSE good
            /\ mark' = [mark EXCEPT !.applied = epoch]
            /\ IF large
               THEN HandleFlush(epoch + 1, contents, FALSE)
               ELSE /\ delta' = contents
                    /\ UNCHANGED <<outbox, delta_start, view>>

\* Mutant: the answer is the last epoch frozen before this flush.
HandleFlushCommandStale(ch) ==
    /\ TakeCommand(ch, "ok", delta_start - 1)
    /\ HandleFlush(epoch, delta, cmds[Head(queue[ch])].op = "sync")
    /\ UNCHANGED <<epoch, good, mark>>

\* A flush command is answered with the epoch of the last write processed.
HandleFlushCommand(ch) ==
    /\ TakeCommand(ch, "ok", epoch - 1)
    /\ HandleFlush(epoch, delta, cmds[Head(queue[ch])].op = "sync")
    /\ UNCHANGED <<epoch, good, mark>>

Process(ch) ==
    /\ Selecting
    /\ armed[ch]
    /\ queue[ch] # <<>>
    /\ IF cmds[Head(queue[ch])].op = "write"
       THEN HandleWrite(ch)
       ELSE HandleFlushCommand(ch)
    /\ UNCHANGED <<paused, pauses, owner, task, flushVars, flush_queue,
                   flush_stop>>

Tick ==
    /\ Selecting
    /\ epoch # delta_start
    /\ HandleFlush(epoch, delta, FALSE)
    /\ UNCHANGED <<inputVars, owner, task, epoch, good, flushVars, flush_queue,
                   flush_stop, mark>>

\* Mutant: a send does not notice that the flush task has ended.
SendFlushEventBlocks ==
    /\ outbox # <<>>
    /\ flusher.pc \notin Finished
    /\ Len(flush_queue) < FlushCapacity
    /\ flush_queue' = Append(flush_queue, Head(outbox))
    /\ outbox' = Tail(outbox)
    /\ UNCHANGED <<inputVars, owner, task, epoch, delta_start, delta, good,
                   flushVars, flush_stop, view, mark>>

\* The await of flush_tx.send.  A send to a flush task that has ended fails,
\* and the error is ignored.
SendFlushEvent ==
    /\ outbox # <<>>
    /\ \/ /\ flusher.pc \notin Finished
          /\ Len(flush_queue) < FlushCapacity
          /\ flush_queue' = Append(flush_queue, Head(outbox))
       \/ /\ flusher.pc \in Finished
          /\ UNCHANGED flush_queue
    /\ outbox' = Tail(outbox)
    /\ UNCHANGED <<inputVars, owner, task, epoch, delta_start, delta, good,
                   flushVars, flush_stop, view, mark>>

\* Mutant: what is left in the delta is not flushed.
ExitUnflushed ==
    /\ Selecting
    /\ \/ owner = "stopped"
       \/ owner = "dropped" /\ \A ch \in Channels : queue[ch] = <<>>
    /\ task' = "exit"
    /\ UNCHANGED <<inputVars, owner, epoch, delta_start, delta, outbox, good,
                   flushVars, flush_queue, flush_stop, view, mark>>

\* The select loop ends when stop_tok is cancelled or every channel has closed;
\* what is left in the delta is flushed.
Exit ==
    /\ Selecting
    /\ \/ owner = "stopped"
       \/ owner = "dropped" /\ \A ch \in Channels : queue[ch] = <<>>
    /\ task' = "exit"
    /\ HandleFlush(epoch, delta, FALSE)
    /\ UNCHANGED <<inputVars, owner, epoch, good, flushVars, flush_queue,
                   flush_stop, mark>>

StopFlushTask ==
    /\ task = "exit"
    /\ outbox = <<>>
    /\ task' = "join"
    /\ flush_stop' = TRUE
    /\ UNCHANGED <<inputVars, owner, epoch, delta_start, delta, outbox, good,
                   flushVars, flush_queue, view, mark>>

\* The flush task's result becomes the write task's.  Returning drops the
\* channels, and with them the commands that were never taken.
Join ==
    /\ task = "join"
    /\ flusher.pc \in Finished
    /\ task' = CASE flusher.pc = "done" -> "ok"
                 [] flusher.pc = "failed" -> "flush error"
                 [] flusher.pc = "panicked" -> "flush panic"
    /\ cmds' = [i \in DOMAIN cmds |->
                   IF cmds[i].answer = "queued"
                   THEN [cmds[i] EXCEPT !.answer = "shutdown"]
                   ELSE cmds[i]]
    /\ queue' = [ch \in Channels |-> <<>>]
    /\ UNCHANGED <<paused, armed, pauses, owner, epoch, delta_start,
                   delta, outbox, good, flushVars, flush_queue, flush_stop,
                   view, mark>>
----------------------------------------------------------------------------
(* The flush task.                                                         *)

\* recv in the main loop, try_recv in the drain.
ReceiveEvent ==
    /\ flusher.pc = "recv"
    /\ flush_queue # <<>>
    /\ flusher' = [flusher EXCEPT !.pc = "flushing", !.ev = Head(flush_queue)]
    /\ flush_queue' = Tail(flush_queue)
    /\ UNCHANGED <<inputVars, writeVars, stored, synced, flush_stop, view, mark>>

StartDrain ==
    /\ flusher.pc = "recv"
    /\ flush_stop
    /\ ~flusher.draining
    /\ flusher' = [flusher EXCEPT !.draining = TRUE]
    /\ UNCHANGED <<inputVars, writeVars, stored, synced, flush_queue,
                   flush_stop, view, mark>>

EndDrain ==
    /\ flusher.pc = "recv"
    /\ flusher.draining
    /\ flush_queue = <<>>
    /\ flusher' = [flusher EXCEPT !.pc = "done"]
    /\ UNCHANGED <<inputVars, writeVars, stored, synced, flush_queue,
                   flush_stop, view, mark>>

\* Flusher::flush_delta succeeds and returns a snapshot of storage.
FlushDeltaOk ==
    /\ flusher.pc = "flushing"
    /\ flusher.ev.kind = "delta"
    /\ stored' = stored \cup flusher.ev.frozen.val
    /\ flusher' = [flusher EXCEPT !.pc = "flushed", !.snap = stored',
                                  !.last = flusher.ev.frozen.to - 1]
    /\ UNCHANGED <<inputVars, writeVars, synced, flush_queue, flush_stop, view,
                   mark>>

\* Mutant: the flushed delta stays in the frozen list.
PublishFlushedKeeps ==
    /\ flusher.pc = "flushed"
    /\ view' = [view EXCEPT !.snapshot = flusher.snap]
    /\ flusher' = [flusher EXCEPT !.pc = "viewed"]
    /\ UNCHANGED <<inputVars, writeVars, stored, synced, flush_queue,
                   flush_stop, mark>>

\* update_flush_finished pops the oldest frozen delta and asserts its range.
PublishFlushed ==
    LET oldest == view.frozen[Len(view.frozen)]
    IN  /\ flusher.pc = "flushed"
        /\ \/ /\ view.frozen # <<>>
              /\ oldest.from = flusher.ev.frozen.from
              /\ oldest.to = flusher.ev.frozen.to
              /\ view' = [frozen |-> SubSeq(view.frozen, 1,
                                            Len(view.frozen) - 1),
                          snapshot |-> flusher.snap]
              /\ flusher' = [flusher EXCEPT !.pc = "viewed"]
           \/ /\ \/ view.frozen = <<>>
                 \/ oldest.from # flusher.ev.frozen.from
                 \/ oldest.to # flusher.ev.frozen.to
              /\ flusher' = [flusher EXCEPT !.pc = "panicked"]
              /\ UNCHANGED view
        /\ UNCHANGED <<inputVars, writeVars, stored, synced, flush_queue,
                       flush_stop, mark>>

\* Mutant: the end of the range is taken for its last epoch.
AnnounceWrittenEnd ==
    /\ flusher.pc = "viewed"
    /\ mark' = [mark EXCEPT !.written = flusher.ev.frozen.to]
    /\ flusher' = [flusher EXCEPT !.pc = "recv"]
    /\ UNCHANGED <<inputVars, writeVars, stored, synced, flush_queue,
                   flush_stop, view>>

AnnounceWritten ==
    /\ flusher.pc = "viewed"
    /\ mark' = [mark EXCEPT !.written = flusher.last]
    /\ flusher' = [flusher EXCEPT !.pc = "recv"]
    /\ UNCHANGED <<inputVars, writeVars, stored, synced, flush_queue,
                   flush_stop, view>>

\* Mutant: everything applied is reported Durable, not what was flushed.
FlushStorageOkApplied ==
    /\ flusher.pc = "flushing"
    /\ flusher.ev.kind = "storage"
    /\ synced' = stored
    /\ mark' = [mark EXCEPT !.durable = mark.applied]
    /\ flusher' = [flusher EXCEPT !.pc = "recv"]
    /\ UNCHANGED <<inputVars, writeVars, stored, flush_queue, flush_stop, view>>

\* Flusher::flush_storage succeeds and the Durable watermark follows.
FlushStorageOk ==
    /\ flusher.pc = "flushing"
    /\ flusher.ev.kind = "storage"
    /\ synced' = stored
    /\ mark' = [mark EXCEPT !.durable = flusher.last]
    /\ flusher' = [flusher EXCEPT !.pc = "recv"]
    /\ UNCHANGED <<inputVars, writeVars, stored, flush_queue, flush_stop, view>>

\* The Flusher returns an error; a delta may or may not have reached storage.
\* In the main loop the error ends the task and drops its channel.  In the
\* drain it is ignored.  erred remembers it for the properties.
FlushFails ==
    /\ FlusherFails
    /\ flusher.pc = "flushing"
    /\ stored' \in {stored, stored \cup flusher.ev.frozen.val}
    /\ \/ /\ flusher.draining
          /\ flusher' = [flusher EXCEPT !.pc = "recv", !.erred = TRUE]
          /\ UNCHANGED flush_queue
       \/ /\ ~flusher.draining
          /\ flusher' = [flusher EXCEPT !.pc = "failed", !.erred = TRUE]
          /\ flush_queue' = <<>>
    /\ UNCHANGED <<inputVars, writeVars, synced, flush_stop, view, mark>>
----------------------------------------------------------------------------
Client ==
    \/ \E ch \in Channels, op \in Operations : Send(ch, op)
    \/ \E ch \in Channels : Pause(ch) \/ Unpause(ch)
    \/ Stop
    \/ DropAll

WriteStep ==
    \/ \E ch \in Channels : Arm(ch) \/ Process(ch)
    \/ Tick
    \/ SendFlushEvent
    \/ Exit
    \/ StopFlushTask
    \/ Join

FlushStep ==
    \/ ReceiveEvent
    \/ StartDrain
    \/ EndDrain
    \/ FlushDeltaOk
    \/ PublishFlushed
    \/ AnnounceWritten
    \/ FlushStorageOk
    \/ FlushFails

Next == Client \/ WriteStep \/ FlushStep

Spec == Init /\ [][Next]_vars

\* Tokio runs every task that can proceed, select! picks its ready branches at
\* random, and the Flusher's calls return.
LiveSpec ==
    /\ Spec
    /\ \A ch \in Channels : WF_vars(Arm(ch)) /\ WF_vars(Process(ch))
    /\ WF_vars(Tick)
    /\ WF_vars(SendFlushEvent)
    /\ WF_vars(Exit)
    /\ WF_vars(StopFlushTask)
    /\ WF_vars(Join)
    /\ WF_vars(FlushStep)
----------------------------------------------------------------------------
(* Properties.                                                             *)

\* Every variable has the type the code gives it.
TypeOK ==
    /\ cmds \in Seq(Command)
    /\ queue \in [Channels -> Seq(Nat \ {0})]
    /\ paused \in [Channels -> BOOLEAN]
    /\ armed \in [Channels -> BOOLEAN]
    /\ pauses \in Nat
    /\ owner \in {"alive", "stopped", "dropped"}
    /\ task \in Tasks
    /\ epoch \in Nat \ {0}
    /\ delta_start \in Nat \ {0}
    /\ delta \in SUBSET Nat
    /\ outbox \in Seq(FlushEvent)
    /\ flush_queue \in Seq(FlushEvent)
    /\ flush_stop \in BOOLEAN
    /\ flusher \in FlushTask
    /\ view \in View
    /\ stored \in SUBSET Nat
    /\ synced \in SUBSET Nat
    /\ mark \in EpochWatermarks
    /\ good \in SUBSET Nat

Frozen == {view.frozen[i].val : i \in DOMAIN view.frozen}

\* A reader that merges the parts of the published view (the current delta, the
\* frozen deltas and the snapshot) meets every applied write, and meets it once:
\* a flush moves a delta from the frozen list to the snapshot in one update,
\* whatever is being frozen or flushed at the time and whether or not it fails.
ReadsExactlyOnce ==
    /\ good = view.snapshot \cup UNION Frozen \cup delta
    /\ view.snapshot \cap (UNION Frozen \cup delta) = {}
    /\ delta \cap UNION Frozen = {}
    /\ \A i, j \in DOMAIN view.frozen :
           i # j => view.frozen[i].val \cap view.frozen[j].val = {}

\* Whoever is woken by the Written watermark finds the write in the snapshot of
\* the current view: FlushTask::handle_flush publishes the view first.
WrittenIsReadable ==
    \A e \in good : e <= mark.written => e \in view.snapshot

\* What the Durable watermark covers has been through a flush of storage, with
\* deltas frozen and still in flight when the flush was requested.
DurableIsSynced ==
    \A e \in good : e <= mark.durable => e \in synced

\* The epoch a command is answered with reflects the order of calls: a command
\* queued behind another of its channel is answered after it with an epoch that
\* covers it, and a command covers everything that had an epoch when it was
\* sent, on whatever channel.  So a flush covers every write acknowledged
\* before it was requested.
EpochsFollowCalls ==
    \A j \in DOMAIN cmds :
        cmds[j].answer \in {"ok", "refused"} =>
            LET Covers(e) == IF cmds[j].op = "write" THEN e < cmds[j].epoch
                                                     ELSE e <= cmds[j].epoch
            IN  /\ Covers(cmds[j].seen)
                /\ \A i \in 1..(j - 1) :
                       cmds[i].ch = cmds[j].ch =>
                           /\ cmds[i].answer \in {"ok", "refused"}
                           /\ Covers(cmds[i].epoch)

\* The assertion on the range of the oldest frozen delta (update_flush_finished)
\* fails in one case only: in the drain of a shutdown, after a flush failed there
\* and the failure was ignored, which leaves its delta at the end of the list.
\* Otherwise deltas are flushed in the order they were frozen, and the list holds
\* each from before it is sent until it is flushed.
PanicNeedsIgnoredFailure ==
    flusher.pc = "panicked" => flusher.draining /\ flusher.erred

readable ==
    IF view.frozen = <<>>
    THEN delta_start - 1
    ELSE view.frozen[Len(view.frozen)].from - 1

Ladder == INSTANCE DurabilityLadder WITH
    log <- [e \in 1..(epoch - 1) |-> e \in good],
    readable <- readable,
    written <- mark.written,
    durable <- mark.durable

\* To its users the coordinator is a log whose writes become readable, then
\* Written, then Durable, none of which is ever taken back.
ImplementsLadder == Ladder!Spec

\* Every command that was queued is answered, unless its channel is paused.
\* Commands are finitely many: again and again none of them waits.
EventuallyAnswered ==
    []<>(\A i \in DOMAIN cmds : cmds[i].answer # "queued" \/ paused[cmds[i].ch])

\* Unless the Flusher fails, every command answered with an epoch sees it
\* Written (by the size threshold, a flush, the interval or the shutdown), and a
\* flush that asked for it sees it Durable.
EventuallyWritten ==
    []<>(\/ flusher.erred
         \/ \A i \in DOMAIN cmds :
               cmds[i].answer = "ok" =>
                   /\ mark.written >= cmds[i].epoch
                   /\ cmds[i].op = "sync" => mark.durable >= cmds[i].epoch)

\* stop(), and dropping the coordinator, end both tasks, even when the write
\* task is blocked on the full channel to a flush task that then fails.
ShutdownEnds == []<>(owner # "alive" => task \in Ended)

\* What readers find: the view holds every applied write once, in every state,
\* and the flush task's bookkeeping of frozen deltas fails its own assertion only
\* after a failure that the drain ignored.
ViewIsConsistent == TypeOK /\ ReadsExactlyOnce /\ PanicNeedsIgnoredFailure

\* What the watermarks report is so: Written writes are in the snapshot readers
\* get, Durable ones have been through a flush of storage.
WatermarksTellTheTruth == WrittenIsReadable /\ DurableIsSynced

\* Callers do not wait in vain: each command is answered, and what it was
\* answered with is Written and, if asked for, Durable in the end.
EventuallyServed == EventuallyAnswered /\ EventuallyWritten
=============================================================================
