-------------------------- MODULE DurabilityLadder --------------------------
(***************************************************************************)
(* What the write coordinator promises its users: writes enter one log in  *)
(* the order of their epochs, and each climbs the rungs of `Durability` in *)
(* order.  A write is readable from the storage snapshot before it is      *)
(* reported Written, and Written before it is reported Durable.            *)
(***************************************************************************)
EXTENDS Naturals, Sequences

VARIABLES
    log,       \* the outcome of the write of each epoch: applied or refused
    readable,  \* epochs up to this one are covered by the readers' snapshot
    written,   \* epochs up to this one are reported Written
    durable    \* epochs up to this one are reported Durable

vars == <<log, readable, written, durable>>

Init ==
    /\ log = <<>>
    /\ readable = 0
    /\ written = 0
    /\ durable = 0

Apply ==
    /\ \E applied \in BOOLEAN : log' = Append(log, applied)
    /\ UNCHANGED <<readable, written, durable>>

Publish ==
    /\ \E n \in (readable + 1)..Len(log) : readable' = n
    /\ UNCHANGED <<log, written, durable>>

Write ==
    /\ \E n \in (written + 1)..readable : written' = n
    /\ UNCHANGED <<log, readable, durable>>

Sync ==
    /\ \E n \in (durable + 1)..written : durable' = n
    /\ UNCHANGED <<log, readable, written>>

Next == Apply \/ Publish \/ Write \/ Sync

Spec == Init /\ [][Next]_vars
=============================================================================
