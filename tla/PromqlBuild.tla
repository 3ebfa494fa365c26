----------------------------- MODULE PromqlBuild -----------------------------
(***************************************************************************)
(* The operators of a physical PromQL plan, their memory, and how a plan   *)
(* is built.                                                               *)
(*                                                                         *)
(* A machine m holds everything that planning and polling read and change: *)
(*   plan    the nodes in the order they are built, children first         *)
(*   grid    the step grid                                                 *)
(*   st      the state of each operator built so far                       *)
(*   chan    the channel of each leaf that runs on a task of its own       *)
(*   io      per leaf, the answer of the storage to its current read       *)
(*   woken   the tasks to be polled; 0 is the query, n the task of leaf n  *)
(*   mem     the bytes reserved of cap                                     *)
(*   source  what a read answers at once, before it is waited for          *)
(*   wrap    whether leaves may get tasks; lost, whether an operator       *)
(*           dropped batches it had taken from a child                     *)
(* One byte stands for one cell, sample, label set or counter.  A batch    *)
(* holds its valid cells only, <<step, series>> -> value.                  *)
(***************************************************************************)
EXTENDS PromqlPlan

CONSTANTS
    NaN, Stale,                 \* the values that are not numbers
    StepChunk, SeriesChunk,     \* BatchShape: the tiles the leaves emit
    Threshold                   \* series from which a leaf gets its own task

\* The answers of an operator (or, with the end for success, of the planner).
Ready(m, batch) == [r |-> "batch", batch |-> batch, m |-> m]
Pending(m) == [r |-> "pending", m |-> m]
Ended(m) == [r |-> "end", m |-> m]
Failed(m, why) == [r |-> "error", why |-> why, m |-> m]

BatchOf(steps, series, cells, roster) ==
    [steps |-> steps, series |-> series, cells |-> cells, src |-> <<>>, roster |-> roster]

\* done or errored: the operator answers every further poll with the end.
Close(m, n) == [m EXCEPT !.st[n].closed = TRUE]

----------------------------------------------------------------------------
(* The memory ledger. *)

\* try_grow
Fits(m, bytes) == bytes = 0 \/ m.mem + bytes <= m.cap

Reserve(m, n, bytes) == [m EXCEPT !.mem = @ + bytes, !.st[n].held = @ + bytes]

Release(m, n) == [m EXCEPT !.mem = @ - m.st[n].held, !.st[n].held = 0]

\* Output buffers are reserved while a batch is computed and released when it
\* is handed out.
Emit(m, n, batch) ==
    IF Fits(m, Cardinality(batch.steps) * Cardinality(batch.series))
    THEN Ready(m, batch) ELSE Failed(Close(m, n), "memory")

Kids(node) ==
    CASE node.op \in {"fn", "labels", "count", "scalar"} -> {node.child}
      [] node.op = "agg" -> {node.child} \cup ToSet(node.param)
      [] node.op = "binary" -> {node.lhs, node.rhs}
      [] OTHER -> {}

RECURSIVE Subtree(_, _)
Subtree(plan, n) == {n} \cup UNION {Subtree(plan, c) : c \in Kids(plan[n])}

\* Dropping operators releases what they hold.  Of a leaf with a task only the
\* receiver is dropped: a sender waiting for room is woken and will notice.
DropNodes(m, nodes) ==
    LET tasks == {n \in nodes : m.st[n].task}
        own == nodes \ tasks
    IN  [m EXCEPT !.mem = @ - MapThenSumSet(LAMBDA n : m.st[n].held, own),
                  !.st = [n \in DOMAIN @ |-> IF n \in own THEN [@[n] EXCEPT !.held = 0, !.closed = TRUE]
                                             ELSE @[n]],
                  !.chan = [n \in DOMAIN @ |->
                                IF n \in tasks THEN [@[n] EXCEPT !.open = FALSE, !.queue = <<>>] ELSE @[n]],
                  !.woken = @ \cup {n \in tasks : m.chan[n].full}]

DropTree(m, n) == DropNodes(m, Subtree(m.plan, n))

----------------------------------------------------------------------------
(* Building a node over the nodes before it. *)

Opened(roster) == [roster |-> roster, closed |-> FALSE, held |-> 0, task |-> FALSE, deferred |-> FALSE]

Built(m, state) ==
    [m EXCEPT !.st = Append(@, state), !.io = Append(@, m.source), !.chan = Append(@, [open |-> FALSE])]

\* A bounded channel: the answers in it, the one the task is about to send, and
\* who is alive and waiting at either end.
NewChannel ==
    [queue |-> <<>>, hand |-> <<>>, open |-> TRUE, sending |-> TRUE, full |-> FALSE, waiting |-> FALSE]

\* should_wrap_concurrent
ShouldWrapConcurrent(m, size) == m.wrap /\ size >= Threshold

\* resolve_leaf, the leaf operator, and its task when it has many series.  The
\* label bytes are reserved and belong to no operator: nothing releases them.
BuildLeafOver(m, n, leaf) ==
    LET size == Len(leaf.roster)
        task == ShouldWrapConcurrent(m, size)
        built == [Built(m, [state |-> "init", chunk |-> 0, next |-> 0, samples |-> <<>>,
                            cursors |-> <<>>, waker |-> {}, refs |-> leaf.refs]
                           @@ [Opened(leaf.roster) EXCEPT !.task = task])
                  EXCEPT !.mem = @ + size]
    IN  IF ~Fits(m, size) THEN Failed(m, "memory")
        ELSE Ended(IF task THEN [built EXCEPT !.chan[n] = NewChannel, !.woken = @ \cup {n}] ELSE built)

BuildLeaf(m, n) ==
    LET q == m.plan[n]
    IN  BuildLeafOver(m, n, ResolveLeaf(q.sel, SelectorTimeRange(m.grid, q.window, q.at, q.offset)))

IsBreaker(kind) == kind \in {"topk", "bottomk"}

\* AggregateOp::new_with_param reserves for the parameter, the grid of a
\* breaker and the scratch of the kind, in this order; when a later one is
\* refused the earlier ones stay reserved.
BuildAggregate(m, n) ==
    LET q == m.plan[n]
        roster == m.st[q.child].roster
        groups == BuildGroupMap(roster, q.grouping)
        count == m.grid.count
        k == IF q.param # <<>> THEN Len(roster) ELSE Max({0, Min({q.k, Len(roster)})})
        sizes == <<IF q.param # <<>> THEN count ELSE 0,
                   IF IsBreaker(q.kind) THEN count * Len(roster) ELSE 0,
                   Len(groups.roster) * (IF IsBreaker(q.kind) THEN k ELSE count)>>
        upto(i) == FoldLeft(+, 0, SubSeq(sizes, 1, i))
        fitting == Max({i \in 0..3 : \A j \in 1..i : Fits(m, upto(j)) \/ sizes[j] = 0})
    IN  IF fitting < 3
        THEN Failed([m EXCEPT !.mem = @ + upto(fitting)], "memory")
        ELSE Ended(Reserve(
                Built(m, Opened(IF IsBreaker(q.kind) THEN roster ELSE groups.roster)
                            @@ [of |-> groups.of, groups |-> DOMAIN groups.roster, acc |-> <<>>, k |-> <<>>,
                                loaded |-> q.param = <<>>, saw |-> FALSE, emitted |-> FALSE]),
                n, upto(3)))

(* A subquery plans and runs its inner plan once for each outer step, on    *)
(* the same ledger.  Inner leaves get no task in this model.               *)

InnerMachine(m, n, k, source) ==
    LET q == m.plan[n]
    IN  [m EXCEPT !.plan = q.inner, !.st = <<>>, !.chan = <<>>, !.io = <<>>, !.woken = {},
                  !.source = source, !.wrap = FALSE,
                  !.grid = InnerGrid(EffectiveTime(m.grid, k, q.at, q.offset), q.window, q.step)]

\* What is left of the inner plan once it is dropped: the ledger.
Absorb(m, inner) ==
    [m EXCEPT !.mem = inner.mem - MapThenSumSet(LAMBDA i : inner.st[i].held, DOMAIN inner.st),
              !.lost = inner.lost]

\* A child whose series are only known at run time (count_values) is refused
\* by the parents that need them.
NeedsSchema(q) ==
    CASE q.op = "binary" -> IF q.shape = "vv" THEN {q.lhs, q.rhs} ELSE {}
      [] q.op = "agg" -> {q.child}
      [] OTHER -> Kids(q)

RECURSIVE BuildNode(_, _)
RECURSIVE BuildAll(_)

\* build_subquery: plan the inner plan for the first outer step, keep its
\* roster, and drop it.
BuildSubquery(m, n) ==
    LET root == Len(m.plan[n].inner)
        over(probe, after) ==
            CASE probe.r = "error" -> Failed(after, probe.why)
              [] probe.r = "end" /\ probe.m.st[root].deferred -> Failed(after, "unsupported")
              [] OTHER -> Ended(Built(after, Opened(probe.m.st[root].roster) @@ [next |-> 0]))
        probed(probe) == over(probe, Absorb(m, probe.m))
    IN  probed(BuildAll(InnerMachine(m, n, 0, "idle")))

\* build_node: operators without state of their own to speak of, and the
\* buffers of the ones that drain their children.
BuildNode(m, n) ==
    LET q == m.plan[n]
        over(state) == Ended(Built(m, state))
        input == m.st[q.child].roster
        groups == IF q.grouping = [by |-> TRUE, labels |-> {}]
                  THEN [roster |-> << <<>> >>, of |-> [i \in DOMAIN input |-> 1]]
                  ELSE BuildGroupMap(input, q.grouping)
        manip == BuildLabelManip(input, q.kind)
        table == BuildMatchTable(m.st[q.lhs].roster, m.st[q.rhs].roster, q.matching, q.kind)
        vector == IF q.shape = "sv" THEN m.st[q.rhs] ELSE m.st[q.lhs]
    IN  CASE \E c \in NeedsSchema(q) : m.st[c].deferred -> Failed(m, "unsupported")
          [] q.op \in {"selector", "rollup"} -> BuildLeaf(m, n)
          [] q.op \in {"const", "time"} -> over(Opened(<< <<>> >>))
          [] q.op = "scalar" -> over(Opened(<< <<>> >>) @@ [acc |-> <<>>, started |-> FALSE])
          [] q.op = "fn" -> over(Opened(input))
          [] q.op = "labels" -> over(Opened(manip.roster) @@ [of |-> manip.of])
          [] q.op = "count" -> over([Opened(groups.roster) EXCEPT !.deferred = TRUE] @@ [of |-> groups.of])
          [] q.op = "agg" -> BuildAggregate(m, n)
          [] q.op = "subquery" -> BuildSubquery(m, n)
          [] q.op = "binary" /\ q.shape = "vv" ->
                over(Opened(table.roster)
                     @@ [table |-> table, l |-> <<>>, r |-> <<>>, ldone |-> FALSE, rdone |-> FALSE,
                         alloc |-> FALSE, saw |-> FALSE, emitted |-> FALSE])
          [] q.op = "binary" /\ q.shape = "ss" -> over(Opened(<< <<>> >>))
          [] q.op = "binary" /\ q.shape \in {"vs", "sv"} ->
                over([Opened(vector.roster) EXCEPT !.deferred = vector.deferred])

\* build_physical_plan: all nodes, or the first error.
BuildAll(m) ==
    LET rest(one) == IF one.r = "error" THEN one ELSE BuildAll(one.m)
    IN  IF Len(m.st) = Len(m.plan) THEN Ended(m) ELSE rest(BuildNode(m, Len(m.st) + 1))
=============================================================================
