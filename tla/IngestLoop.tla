----------------------------- MODULE IngestLoop -----------------------------
(***************************************************************************)
(* The buffer consumer of the timeseries server                            *)
(* (timeseries/src/server/buffer_consumer.rs) as the caller of BufferQueue.*)
(*                                                                         *)
(* Each consumer belongs to one server process.  collector_loop owns the   *)
(* Consumer: it prefetches batches into one channel and takes sequences to *)
(* acknowledge from another; poll_loop processes a batch and sends its     *)
(* sequence back.  Both channels hold one element.  The server stops the   *)
(* loops before it closes its database.                                    *)
(*                                                                         *)
(* A batch is known by its sequence.  Processing it leaves its samples in  *)
(* the memory of the server, unless the database refuses them: the entry   *)
(* is then skipped, and the batch acknowledged all the same.  The flushes  *)
(* that make samples durable while the server runs are left out, so what a *)
(* crash loses is counted too high; so are the garbage collectors and      *)
(* time.                                                                   *)
(***************************************************************************)
EXTENDS BufferQueue

CONSTANT IngestFails    \* whether the database may refuse the samples of a batch

ASSUME IngestFailsAssumption == IngestFails \in BOOLEAN

VARIABLES
    loop,       \* the two loops of each consumer and their channels
    memory,     \* sequences each server has applied, until it closes its database
    settled,    \* sequences made durable by a close, or lost in a crash
    skipped     \* sequences of batches some entry of which was skipped

loop_vars == <<loop, memory, settled, skipped>>
all_vars  == <<vars, loop_vars>>

NewLoop == [collector |-> "poll", poll |-> "recv", batches |-> <<>>, acks |-> <<>>,
            current |-> NoSeq, cancelled |-> FALSE]

PREFETCH_BATCH_BUFFER == 1
ACK_SEQUENCE_BUFFER   == 1

LoopInit ==
    /\ Init
    /\ loop = [c \in Consumers |-> NewLoop]
    /\ memory = [c \in Consumers |-> {}]
    /\ settled = {}
    /\ skipped = {}

\* collector_loop is at `where' and not inside a request of its Consumer.
Collecting(c, where) == loop[c].collector = where /\ consumer[c].phase = "ready"

\* The task of collector_loop has ended, and with it the receiver of the acks
\* and the sender of the batches.
CollectorDone(c) == loop[c].collector = "closing" /\ consumer[c].phase = "stopped"

\* poll_loop has left its loop and dropped ack_tx, and all acks were taken.
AcksClosed(c) == loop[c].poll \in {"join", "closed"} /\ loop[c].acks = <<>>

-----------------------------------------------------------------------------
(* collector_loop.  Its waits, for a delay, an ack, room or cancellation, are *)
(* the states in which none of its steps is enabled.                         *)

CollectorGoes(c, next) ==
    loop' = [loop EXCEPT ![c].collector = next] /\ UNCHANGED <<memory, settled, skipped>>

\* Consumer::ack of s, whose error for a sequence out of order is only logged.
AckOrLog(c, s) ==
    IF consumer[c].last_acked \in {NoSeq, s - 1}
    THEN Ack(c) /\ consumer'[c].last_acked = s
    ELSE UNCHANGED vars

\* Mutant: the sequence stays in the channel.
AckSequenceKept(c) ==
    /\ loop[c].acks # <<>>
    /\ AckOrLog(c, Head(loop[c].acks))
    /\ UNCHANGED loop_vars

\* ack_sequence of the next sequence in the channel.
AckSequence(c) ==
    /\ loop[c].acks # <<>>
    /\ AckOrLog(c, Head(loop[c].acks))
    /\ loop' = [loop EXCEPT ![c].acks = Tail(@)]
    /\ UNCHANGED <<memory, settled, skipped>>

\* A ready ack comes before anything else.
CollectorAcks(c) ==
    /\ Collecting(c, "poll")
    /\ ~loop[c].cancelled
    /\ AckSequence(c)

CollectorStops(c) ==
    /\ Collecting(c, "poll")
    /\ loop[c].cancelled \/ AcksClosed(c)
    /\ UNCHANGED vars
    /\ CollectorGoes(c, "drain")

\* With room in the channel, next_batch; None and errors change nothing.
CollectorReads(c) ==
    /\ Collecting(c, "poll")
    /\ ~loop[c].cancelled
    /\ loop[c].acks = <<>>
    /\ ~AcksClosed(c)
    /\ Len(loop[c].batches) < PREFETCH_BATCH_BUFFER
    /\ NextBatch(c)
    /\ UNCHANGED loop_vars

\* Mutant: a batch fetched while another is processed is dropped.
CollectorFetchesDropping(c) ==
    /\ FetchBatch(c)
    /\ loop' = [loop EXCEPT ![c].batches =
           IF consumer'[c].last_fetched = consumer[c].last_fetched \/ loop[c].poll # "recv" THEN @
           ELSE Append(@, consumer'[c].last_fetched)]
    /\ UNCHANGED <<memory, settled, skipped>>

\* The batch is fetched and sent: only this loop sends, so the room is still
\* there, and batch_rx lives until this task ends.
CollectorFetches(c) ==
    /\ FetchBatch(c)
    /\ loop' = [loop EXCEPT ![c].batches =
           IF consumer'[c].last_fetched = consumer[c].last_fetched THEN @
           ELSE Append(@, consumer'[c].last_fetched)]
    /\ UNCHANGED <<memory, settled, skipped>>

\* drain_pending_acks.
CollectorDrains(c) == Collecting(c, "drain") /\ AckSequence(c)

\* Mutant: what was fetched is flushed, not what was acked.
CollectorClosesFetched(c) ==
    /\ Collecting(c, "drain")
    /\ loop[c].acks = <<>>
    /\ consumer' = [consumer EXCEPT ![c].last_acked = consumer[c].last_fetched,
                                    ![c].phase = "deq", ![c].goal = "close"]
    /\ UNCHANGED <<manifest, files, ulid_ts, result, producer, gc, clock, processed, log>>
    /\ CollectorGoes(c, "closing")

\* No ack is in the channel: close, which flushes the acks.
CollectorCloses(c) ==
    /\ Collecting(c, "drain")
    /\ loop[c].acks = <<>>
    /\ Close(c)
    /\ CollectorGoes(c, "closing")

-----------------------------------------------------------------------------
(* poll_loop.                                                                *)

PollReceives(c) ==
    /\ loop[c].poll = "recv"
    /\ loop[c].batches # <<>>
    /\ loop' = [loop EXCEPT ![c].poll = "process", ![c].current = Head(loop[c].batches),
                            ![c].batches = Tail(@)]
    /\ UNCHANGED <<vars, memory, settled, skipped>>

PollStops(c) ==
    /\ loop[c].poll = "recv"
    /\ loop[c].cancelled \/ (CollectorDone(c) /\ loop[c].batches = <<>>)
    /\ loop' = [loop EXCEPT ![c].poll = "join"]
    /\ UNCHANGED <<vars, memory, settled, skipped>>

\* process_batch returns nothing: what it skips of a batch, because it cannot be
\* decoded or because ingest_samples fails, is logged, and the batch is finished.
PollProcesses(c) ==
    LET s == loop[c].current
    IN  /\ loop[c].poll = "process"
        /\ loop' = [loop EXCEPT ![c].poll = "ack"]
        /\ processed' = processed \cup {s}
        /\ \/ memory' = [memory EXCEPT ![c] = @ \cup {s}] /\ UNCHANGED skipped
           \/ IngestFails /\ skipped' = skipped \cup {s} /\ UNCHANGED memory
        /\ UNCHANGED <<manifest, files, ulid_ts, result, producer, consumer, gc, clock, log,
                       settled>>

\* Mutant: the send waits for a receiver that is gone.
PollSendsAckBlocked(c) ==
    /\ loop[c].poll = "ack"
    /\ ~CollectorDone(c)
    /\ Len(loop[c].acks) < ACK_SEQUENCE_BUFFER
    /\ loop' = [loop EXCEPT ![c].acks = Append(@, loop[c].current),
                            ![c].current = NoSeq,
                            ![c].poll = IF loop[c].cancelled THEN "join" ELSE "recv"]
    /\ UNCHANGED <<vars, memory, settled, skipped>>

\* The sequence is sent back as soon as there is room; an error, when the other
\* task has ended, or a cancellation ends the loop.
PollSendsAck(c) ==
    /\ loop[c].poll = "ack"
    /\ \/ /\ ~CollectorDone(c)
          /\ Len(loop[c].acks) < ACK_SEQUENCE_BUFFER
          /\ loop' = [loop EXCEPT ![c].acks = Append(@, loop[c].current),
                                  ![c].current = NoSeq,
                                  ![c].poll = IF loop[c].cancelled THEN "join" ELSE "recv"]
       \/ /\ CollectorDone(c)
          /\ loop' = [loop EXCEPT ![c].current = NoSeq, ![c].poll = "join"]
    /\ UNCHANGED <<vars, memory, settled, skipped>>

-----------------------------------------------------------------------------
(* The server.                                                               *)

\* ConsumerHandle::shutdown.
Shutdown(c) ==
    /\ consumer[c].phase \notin {"off", "init", "init_cas", "stopped"}
    /\ ~loop[c].cancelled
    /\ loop' = [loop EXCEPT ![c].cancelled = TRUE]
    /\ UNCHANGED <<vars, memory, settled, skipped>>

\* Both loops have ended, shutdown returns, and the database is closed, which
\* flushes it.
CloseDatabase(c) ==
    /\ loop[c].poll = "join"
    /\ CollectorDone(c)
    /\ loop' = [loop EXCEPT ![c].poll = "closed", ![c].batches = <<>>, ![c].acks = <<>>]
    /\ settled' = settled \cup memory[c]
    /\ memory' = [memory EXCEPT ![c] = {}]
    /\ UNCHANGED <<vars, skipped>>

\* What was applied and not yet flushed is gone with the process.
ServerCrash(c) ==
    /\ Crashes
    /\ loop[c].poll # "closed"
    /\ ConsumerCrash(c) \/ (consumer[c].phase = "stopped" /\ UNCHANGED vars)
    /\ loop' = [loop EXCEPT ![c] = [NewLoop EXCEPT !.collector = "closing", !.poll = "closed"]]
    /\ settled' = settled \cup memory[c]
    /\ memory' = [memory EXCEPT ![c] = {}]
    /\ UNCHANGED skipped

-----------------------------------------------------------------------------
CollectorStep(c) ==
    \/ CollectorAcks(c) \/ CollectorStops(c) \/ CollectorReads(c) \/ CollectorFetches(c)
    \/ CollectorDrains(c) \/ CollectorCloses(c)

PollStep(c) ==
    PollReceives(c) \/ PollStops(c) \/ PollProcesses(c) \/ PollSendsAck(c) \/ CloseDatabase(c)

LoopNext ==
    \/ \E p \in Producers : (ProducerNext(p) \/ ProducerCrash(p)) /\ UNCHANGED loop_vars
    \/ \E c \in Consumers :
        \/ /\ \/ StartConsumer(c) \/ InitializeRead(c) \/ InitializeCas(c)
              \/ DequeueRead(c) \/ DequeueCas(c)
           /\ UNCHANGED loop_vars
        \/ CollectorStep(c) \/ PollStep(c) \/ Shutdown(c) \/ ServerCrash(c)

LoopSpec == LoopInit /\ [][LoopNext]_all_vars

\* The tasks are polled and delays end.  Starting and stopping servers is left
\* to chance.
LoopLiveSpec ==
    /\ LoopSpec
    /\ \A p \in Producers :
        WF_all_vars((PutBatchFile(p) \/ EnqueueRead(p) \/ EnqueueCas(p)) /\ UNCHANGED loop_vars)
    /\ \A c \in Consumers :
        /\ WF_all_vars((InitializeRead(c) \/ InitializeCas(c) \/ DequeueRead(c) \/ DequeueCas(c))
                       /\ UNCHANGED loop_vars)
        /\ WF_all_vars(CollectorStep(c))
        /\ WF_all_vars(PollStep(c))

-----------------------------------------------------------------------------
(* Properties.                                                               *)

\* The loops and their channels have the states the code gives them.
LoopTypeOK ==
    \A c \in Consumers :
        /\ loop[c].collector \in {"poll", "drain", "closing"}
        /\ loop[c].poll \in {"recv", "process", "ack", "join", "closed"}
        /\ Len(loop[c].batches) <= PREFETCH_BATCH_BUFFER
        /\ Len(loop[c].acks) <= ACK_SEQUENCE_BUFFER
        /\ memory[c] \subseteq processed

\* The loops are the orderly caller that Consumer::ack asks for: a sequence on
\* its way back is the oldest batch that was handed out and not acked, with
\* prefetching, failed reads and cancellation in between.
AcksFollowEachOther ==
    \A c \in Consumers :
        loop[c].acks # <<>> /\ consumer[c].phase \in {"ready", "fetch"} =>
            /\ Head(loop[c].acks) \in consumer[c].handed
            /\ \A t \in consumer[c].handed : t >= Head(loop[c].acks)

\* A batch leaves the manifest only when its samples are in a server that will
\* still close its database, or were closed with it, or a crash took them, or the
\* database of a server that processed it refused them: stopping the consumer
\* before the database, a fenced consumer and a lost ack lose nothing.
StoppingLosesNothing ==
    \A s \in 0..(manifest.next_sequence - Len(manifest.entries) - 1) :
        \/ s \in settled \cup skipped
        \/ \E c \in Consumers : s \in memory[c] /\ loop[c].poll # "closed"

\* If some consumer in the end keeps the queue, its loops process every batch
\* that reached the manifest.
LoopProcessesAll ==
    <>[]HasOwner => []<>(0..(Len(log) - 1) \subseteq processed)

\* A server that is told to stop does stop: the loops never wait for each other
\* with full channels.
ShutdownEnds ==
    []<>(\A c \in Consumers : loop[c].cancelled => loop[c].poll = "closed")

\* With these loops as its caller the consumer hands out every batch, and
\* batches are processed and acked in the order of the queue.
LoopIsOrderly ==
    LoopTypeOK /\ InOrderProcessing /\ NoneMeansDrained /\ AcksFollowEachOther
=============================================================================
