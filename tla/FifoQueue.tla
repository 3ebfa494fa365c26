----------------------------- MODULE FifoQueue -----------------------------
(***************************************************************************)
(* What the write buffer promises its users: one log of batches, each      *)
(* finished at least once and in the order of the log, that forgets only   *)
(* finished batches.  There are no manifests, snapshots or retries here;   *)
(* BufferQueue implements this specification.                              *)
(***************************************************************************)
EXTENDS Naturals, Sequences

CONSTANT Locations

VARIABLES
    log,      \* every batch ever enqueued
    done,     \* how many of them have been finished
    head,     \* how many of them have been forgotten
    epoch     \* how often the queue changed hands

vars == <<log, done, head, epoch>>

Init ==
    /\ log = <<>>
    /\ done = 0
    /\ head = 0
    /\ epoch = 0

Enqueue ==
    /\ \E l \in Locations : log' = Append(log, l)
    /\ UNCHANGED <<done, head, epoch>>

Finish ==
    /\ done < Len(log)
    /\ done' = done + 1
    /\ UNCHANGED <<log, head, epoch>>

Forget ==
    /\ \E n \in (head + 1)..done : head' = n
    /\ UNCHANGED <<log, done, epoch>>

TakeOver ==
    /\ epoch' = epoch + 1
    /\ UNCHANGED <<log, done, head>>

Next == Enqueue \/ Finish \/ Forget \/ TakeOver

Spec == Init /\ [][Next]_vars
=============================================================================
