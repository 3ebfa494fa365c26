---------------------------- MODULE PromqlQuery ----------------------------
(***************************************************************************)
(* One PromQL query from planning to its answer: the task that plans and   *)
(* drives it, the tasks that read ahead for its larger leaves, and the     *)
(* storage that answers their reads at any time, or fails.  The client may *)
(* go away while the query waits.                                          *)
(***************************************************************************)
EXTENDS PromqlOperators

CONSTANTS
    Queries,        \* the queries: [plan, grid, instant, cap]
    ChannelBound,   \* batches a channel holds
    MaxFaults       \* storage failures

VARIABLES
    query,      \* the query
    phase,      \* plan, run, then done, failed, panicked or cancelled
    m,          \* the machine
    out,        \* the batches the root has answered with
    why,        \* the error of a failed query
    faults      \* storage failures so far

vars == <<query, phase, m, out, why, faults>>

Init ==
    /\ query \in Queries
    /\ phase = "plan"
    /\ m = [plan |-> query.plan, grid |-> query.grid, st |-> <<>>, chan |-> <<>>, io |-> <<>>,
            woken |-> {}, mem |-> 0, cap |-> query.cap,
            source |-> "idle", wrap |-> TRUE, lost |-> FALSE]
    /\ out = <<>>
    /\ why = ""
    /\ faults = 0

Root == Len(query.plan)
Nodes == DOMAIN m.st
Tasks == {n \in Nodes : m.st[n].task}
Over == phase \in {"done", "failed", "panicked", "cancelled"}

----------------------------------------------------------------------------
(* The query task. *)

\* The query ends in some way and drops its plan.
End(how, machine) ==
    /\ phase' = how
    /\ m' = [DropNodes(machine, DOMAIN machine.st) EXCEPT !.woken = @ \ {0}]

\* build_physical_plan, one node at a time: tasks spawned for a leaf run while
\* the nodes after it are planned.
PlanNode ==
    LET last == Len(m.st) + 1 = Root
    IN  /\ phase = "plan"
        /\ \E b \in {BuildNode(m, Len(m.st) + 1)} :
            IF b.r = "error" THEN End("failed", b.m) /\ why' = b.why
            ELSE /\ m' = IF last THEN [b.m EXCEPT !.woken = @ \cup {0}] ELSE b.m
                 /\ phase' = IF last THEN "run" ELSE "plan"
                 /\ UNCHANGED why
        /\ UNCHANGED <<query, out, faults>>

\* Planning waits for the storage at the leaves only.
PlanWaits == phase = "plan" /\ query.plan[Len(m.st) + 1].op \in {"selector", "rollup", "subquery"}

\* resolve fails.
PlanFails ==
    /\ PlanWaits
    /\ faults < MaxFaults
    /\ faults' = faults + 1
    /\ why' = "storage"
    /\ End("failed", m)
    /\ UNCHANGED <<query, out>>

\* execute_query: poll the root until its end or an error.
Execute ==
    /\ phase = "run" /\ 0 \in m.woken
    /\ \E p \in {Poll(Root, 0, m)} :
        CASE p.r = "batch" -> /\ out' = Append(out, p.batch)
                              /\ m' = p.m
                              /\ UNCHANGED <<phase, why>>
          [] p.r = "pending" -> /\ m' = [p.m EXCEPT !.woken = @ \ {0}]
                                /\ UNCHANGED <<phase, out, why>>
          [] p.r = "error" -> /\ End(IF p.why = "panic" THEN "panicked" ELSE "failed", p.m)
                              /\ why' = p.why
                              /\ UNCHANGED out
          [] p.r = "end" -> End("done", p.m) /\ UNCHANGED <<out, why>>
    /\ UNCHANGED <<query, faults>>

\* The future of the query is dropped while it waits.
Cancel ==
    /\ PlanWaits \/ (phase = "run" /\ 0 \notin m.woken)
    /\ End("cancelled", m)
    /\ UNCHANGED <<query, out, why, faults>>

----------------------------------------------------------------------------
(* The task of a leaf (ConcurrentOp). *)


\* Mutant: a receiver that waits is not woken by the end of the task.
StopSilently(n, machine) ==
    [Close(Release(machine, n), n) EXCEPT
        !.chan[n] = [@ EXCEPT !.sending = FALSE, !.hand = <<>>], !.woken = @ \ {n}]

\* The task returns: its operator and its end of the channel are dropped.
Stop(n, machine) ==
    LET c == machine.chan[n]
    IN  [Close(Release(machine, n), n) EXCEPT
            !.chan[n] = [c EXCEPT !.sending = FALSE, !.hand = <<>>, !.waiting = FALSE],
            !.woken = (@ \ {n}) \cup (IF c.waiting THEN {0} ELSE {})]

\* Poll the leaf for its next answer.
TaskPoll(n) ==
    /\ n \in Tasks /\ n \in m.woken /\ m.chan[n].hand = <<>>
    /\ \E p \in {Poll(n, n, m)} :
        m' = CASE p.r = "pending" -> [p.m EXCEPT !.woken = @ \ {n}]
               [] p.r = "end" -> Stop(n, p.m)
               [] p.r \in {"batch", "error"} -> [p.m EXCEPT !.chan[n].hand = <<[p EXCEPT !.m = <<>>]>>]
    /\ UNCHANGED <<query, phase, out, why, faults>>

\* Send it: wait while the channel is full, stop when nobody will receive it
\* and after an error.
TaskSend(n) ==
    LET c == m.chan[n]
        sent == [m EXCEPT !.chan[n] = [c EXCEPT !.queue = @ \o c.hand, !.hand = <<>>, !.waiting = FALSE],
                          !.woken = @ \cup (IF c.waiting THEN {0} ELSE {})]
    IN  /\ n \in Tasks /\ n \in m.woken /\ c.hand # <<>>
        /\ m' = CASE ~c.open -> Stop(n, m)
                  [] c.open /\ Len(c.queue) < ChannelBound ->
                        IF c.hand[1].r = "error" THEN Stop(n, sent) ELSE sent
                  [] c.open /\ Len(c.queue) >= ChannelBound ->
                        [m EXCEPT !.chan[n].full = TRUE, !.woken = @ \ {n}]
        /\ UNCHANGED <<query, phase, out, why, faults>>

----------------------------------------------------------------------------
(* The storage. *)

\* A leaf or subquery that has a read in flight or will have one.
Reading(n) ==
    LET s == m.st[n]
        op == query.plan[n].op
    IN  /\ ~s.closed /\ s.roster # <<>> /\ m.grid.count > 0
        /\ \/ op \in {"selector", "rollup"} /\ (s.state \in {"init", "loading"}
                                                \/ s.chunk + SeriesChunk < Len(s.roster))
           \/ op = "subquery" /\ s.next < m.grid.count

\* A read is answered, possibly before it is first polled; the task whose
\* waker it holds is woken.
Answer(n, how) ==
    /\ n \in Nodes /\ Reading(n) /\ m.io[n] = "idle"
    /\ m' = [m EXCEPT !.io[n] = how,
                      !.woken = @ \cup (IF query.plan[n].op = "subquery" THEN {} ELSE m.st[n].waker)]
    /\ UNCHANGED <<query, phase, out, why>>

StorageAnswers(n) == Answer(n, "ready") /\ UNCHANGED faults

StorageFails(n) == faults < MaxFaults /\ faults' = faults + 1 /\ Answer(n, "failed")

----------------------------------------------------------------------------

Stopped == Over /\ \A n \in Tasks : ~m.chan[n].sending

Finished == Stopped /\ UNCHANGED vars

Next ==
    \/ PlanNode \/ PlanFails \/ Execute \/ Cancel \/ Finished
    \/ \E n \in 1..Root : TaskPoll(n) \/ TaskSend(n) \/ StorageAnswers(n) \/ StorageFails(n)

Spec == Init /\ [][Next]_vars

----------------------------------------------------------------------------
(* The answer. *)

\* reshape_instant and reshape_range: the valid cells in order of series and
\* time, or, for topk and bottomk at one instant, in order of value.
Reshape ==
    LET entries == UNION {{<<i, c>> : c \in DOMAIN out[i].cells} : i \in DOMAIN out}
        value(e) == out[e[1]].cells[e[2]]
        kind == IF query.plan[Root].op = "agg" /\ query.instant THEN query.plan[Root].kind ELSE ""
        place(e) == <<e[2][2], e[2][1], e[1]>>
        earlier(p, q) == \E i \in 1..3 : p[i] < q[i] /\ \A j \in 1..i - 1 : p[j] = q[j]
        before(d, e) ==
            IF kind \notin {"topk", "bottomk"} \/ value(d) = value(e) THEN earlier(place(d), place(e))
            ELSE CASE value(d) = NaN -> FALSE
                   [] value(e) = NaN -> TRUE
                   [] OTHER -> IF kind = "topk" THEN value(d) > value(e) ELSE value(d) < value(e)
        order == Sorted(entries, before)
    IN  [i \in DOMAIN order |->
            LET e == order[i]
            IN  [labels |-> out[e[1]].roster[e[2][2]], step |-> e[2][1], value |-> value(e)]]
=============================================================================
