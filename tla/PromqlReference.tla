-------------------------- MODULE PromqlReference --------------------------
(***************************************************************************)
(* What a PromQL query means, and what is promised about its execution.    *)
(* The meaning is a value for each label set and step, read off the stored *)
(* samples directly: no tiles, rosters, cursors, buffers, tasks or memory. *)
(***************************************************************************)
EXTENDS PromqlQuery

Stored == UNION {ToSet(b.series) : b \in ToSet(Buckets)}

\* The label sets a selector selects.
Selected(sel) ==
    {l \in {s.labels : s \in Stored} :
        /\ \A e \in sel.eq : e.label \in DOMAIN l /\ l[e.label] = e.value
        /\ \A e \in ToSet(sel.re) : e.label \in DOMAIN l /\ l[e.label] \in e.values
        /\ \A e \in sel.not : ~(e.label \in DOMAIN l /\ l[e.label] \in e.values)
        /\ sel.empty \cap DOMAIN l = {}}

\* The samples of a label set in (time - window, time], by time.
Window(l, time, window) ==
    LET all == UNION {ToSet(s.samples) : s \in {s \in Stored : s.labels = l}}
    IN  Sorted({x \in all : time - window < x[1] /\ x[1] <= time}, LAMBDA x, y : x[1] < y[1])

Fresh(samples) == SelectSeq(samples, LAMBDA x : x[2] # Stale)

\* The partial function with Value(l, k) = <<v>> where there is a value.
Vector(labels, grid, Value(_, _)) ==
    [x \in {x \in labels \X Steps(grid) : Value(x[1], x[2]) # <<>>} |-> Value(x[1], x[2])[1]]

LabelsOf(f) == {x[1] : x \in DOMAIN f}
ValueAt(f, l, k) == IF <<l, k>> \in DOMAIN f THEN <<f[<<l, k>>]>> ELSE <<>>

\* The value of an aggregation over the label sets ls of f at step k.
Aggregated(kind, f, ls, k) ==
    LET present == {l \in ls : <<l, k>> \in DOMAIN f}
        values == {f[<<l, k>>] : l \in present}
    IN  IF present = {} THEN <<>>
        ELSE <<CASE kind = "sum" -> MapThenSumSet(LAMBDA l : f[<<l, k>>], present)
                 [] kind = "count" -> Cardinality(present)
                 [] kind = "group" -> 1
                 [] kind = "min" -> Min(values)
                 [] kind = "max" -> Max(values)>>

\* The meaning of node n of a plan on a grid: <<labels, step>> -> value.
RECURSIVE Meaning(_, _, _)
Meaning(plan, n, grid) ==
    LET q == plan[n]
        time(k) == EffectiveTime(grid, k, q.at, q.offset)
        f == Meaning(plan, q.child, grid)
        l == Meaning(plan, q.lhs, grid)
        r == Meaning(plan, q.rhs, grid)
        none == <<>>
        scalar(value(_)) == [x \in {none} \X Steps(grid) |-> value(x[2])]
        \* Rollups and subqueries.
        newest(ls, k) == LET w == Window(ls, time(k), q.window)
                         IN  IF w = <<>> \/ Last(w)[2] = Stale THEN <<>> ELSE <<Last(w)>>
        rolled(w) == IF w = <<>> THEN <<>> ELSE <<Compute(q.kind, w)>>
        innerGrid(k) == InnerGrid(time(k), q.window, q.step)
        inner == [k \in Steps(grid) |-> Meaning(q.inner, Len(q.inner), innerGrid(k))]
        innerWindow(ls, k) ==
            LET steps == Sorted({x[2] : x \in {x \in DOMAIN inner[k] : x[1] = ls}}, LAMBDA x, y : x < y)
            IN  [j \in DOMAIN steps |-> <<StepTime(innerGrid(k), steps[j]), inner[k][<<ls, steps[j]>>]>>]
        \* Grouping.
        group(ls) == GroupKeyLabels(ls, q.grouping)
        members(g) == {ls \in LabelsOf(f) : group(ls) = g}
        limit(k) == IF q.param = <<>> THEN q.k ELSE
                    LET v == Meaning(plan, q.param[1], grid)[<<none, k>>] IN IF v = NaN THEN 0 ELSE v
        ahead(ls, k) == {o \in members(group(ls)) : <<o, k>> \in DOMAIN f /\
                            IF q.kind = "topk" THEN f[<<o, k>>] > f[<<ls, k>>] ELSE f[<<o, k>>] < f[<<ls, k>>]}
        counted(ls) == {x \in DOMAIN f : ls = Restrict(group(x[1]), DOMAIN group(x[1]) \ {q.label})
                                                @@ (q.label :> ToString(f[x]))}
        \* Matching: the partner of a row is the one label set with its key.
        key(ls) == MatchingKey(ls, q.matching)
        many == IF q.matching.card = "right" THEN r ELSE l
        one == IF q.matching.card = "right" THEN l ELSE r
        partner(ls) == {o \in LabelsOf(one) : key(o) = key(ls)}
        other(ls, k) == UNION {ToSet(ValueAt(one, o, k)) : o \in partner(ls)}
        pair(ls, k) == LET o == SetToSeq(other(ls, k))
                       IN  IF q.matching.card = "right" THEN WriteCell(q.kind, o, ValueAt(many, ls, k))
                           ELSE WriteCell(q.kind, ValueAt(many, ls, k), o)
        renamed(ls) == BuildMatchTable(IF q.matching.card = "right" THEN SetToSeq(partner(ls)) ELSE <<ls>>,
                                       IF q.matching.card = "right" THEN <<ls>> ELSE SetToSeq(partner(ls)),
                                       q.matching, q.kind).roster[1]
    IN  CASE q.op = "const" -> scalar(LAMBDA k : q.value)
          [] q.op = "time" -> scalar(LAMBDA k : StepTime(grid, k))
          [] q.op = "scalar" ->
                scalar(LAMBDA k : LET v == {x \in DOMAIN f : x[2] = k}
                                  IN  IF Cardinality(v) = 1 THEN f[CHOOSE x \in v : TRUE] ELSE NaN)
          [] q.op = "selector" ->
                Vector(Selected(q.sel), grid, LAMBDA ls, k : LET x == newest(ls, k)
                                                             IN  IF x = <<>> THEN <<>> ELSE <<x[1][2]>>)
          [] q.op = "rollup" ->
                Vector(Selected(q.sel), grid, LAMBDA ls, k : rolled(Fresh(Window(ls, time(k), q.window))))
          [] q.op = "subquery" ->
                Vector(UNION {LabelsOf(inner[k]) : k \in Steps(grid)}, grid,
                       LAMBDA ls, k : rolled(innerWindow(ls, k)))
          [] q.op = "fn" /\ q.fn.name = "timestamp" ->
                LET s == plan[q.child]
                    w(ls, k) == Window(ls, EffectiveTime(grid, k, s.at, s.offset), s.window)
                IN  [x \in DOMAIN f |-> Last(w(x[1], x[2]))[1]]
          [] q.op = "fn" /\ q.fn.name = "clamp" ->
                IF q.fn.min > q.fn.max THEN <<>>
                ELSE [x \in DOMAIN f |-> CHOOSE v \in q.fn.min..q.fn.max :
                                            \A w \in q.fn.min..q.fn.max : (v - f[x]) * (v - f[x]) <= (w - f[x]) * (w - f[x])]
          [] q.op = "labels" ->
                [x \in {<<LabelReplace(y[1], q.kind), y[2]>> : y \in DOMAIN f} |->
                    f[CHOOSE y \in DOMAIN f : y[2] = x[2] /\ LabelReplace(y[1], q.kind) = x[1]]]
          [] q.op = "count" ->
                Vector(UNION {{Restrict(group(x[1]), DOMAIN group(x[1]) \ {q.label}) @@ (q.label :> ToString(f[x]))} :
                                x \in DOMAIN f}, grid,
                       LAMBDA ls, k : LET c == Cardinality({x \in counted(ls) : x[2] = k})
                                      IN  IF c = 0 THEN <<>> ELSE <<c>>)
          [] q.op = "agg" /\ IsBreaker(q.kind) ->
                Restrict(f, {x \in DOMAIN f : Cardinality(ahead(x[1], x[2])) < limit(x[2])})
          [] q.op = "agg" /\ ~IsBreaker(q.kind) ->
                Vector({group(ls) : ls \in LabelsOf(f)}, grid, LAMBDA g, k : Aggregated(q.kind, f, members(g), k))
          [] q.op = "binary" /\ q.shape = "vv" ->
                LET rows == LabelsOf(many) \cup (IF q.kind = "or" THEN LabelsOf(one) ELSE {})
                    paired == Vector(rows, grid, pair)
                IN  [x \in {<<renamed(y[1]), y[2]>> : y \in DOMAIN paired} |->
                        paired[CHOOSE y \in DOMAIN paired : y[2] = x[2] /\ renamed(y[1]) = x[1]]]
          [] q.op = "binary" /\ q.shape \in {"vs", "ss"} ->
                Vector(LabelsOf(l), grid, LAMBDA ls, k : WriteCell(q.kind, ValueAt(l, ls, k), ValueAt(r, none, k)))
          [] q.op = "binary" /\ q.shape = "sv" ->
                Vector(LabelsOf(r), grid, LAMBDA ls, k : WriteCell(q.kind, ValueAt(l, none, k), ValueAt(r, ls, k)))

----------------------------------------------------------------------------
(* Plans that the operators are fit for.                                   *)

NodesOf == DOMAIN query.plan
IsLeaf(n) == query.plan[n].op \in {"selector", "rollup"}
IsPair(n) == query.plan[n].op = "binary" /\ query.plan[n].shape # "vv"
HasSubquery == \E n \in NodesOf : query.plan[n].op = "subquery"

\* The series of leaf n, and whether it gets a task.
RosterOf(n) ==
    LET q == query.plan[n]
    IN  ResolveLeaf(q.sel, SelectorTimeRange(query.grid, q.window, q.at, q.offset)).roster
Wrapped(n) == Len(RosterOf(n)) >= Threshold

\* Whether operator n may be Pending at all, and after it has answered with a
\* batch.
MayWait(n) ==
    \E c \in Subtree(query.plan, n) : query.plan[c].op = "subquery" \/ (IsLeaf(c) /\ RosterOf(c) # <<>>)
RECURSIVE WaitsBetween(_)
WaitsBetween(n) ==
    CASE IsLeaf(n) -> Wrapped(n) \/ Len(RosterOf(n)) > SeriesChunk
      [] IsPair(n) -> WaitsBetween(query.plan[n].lhs) \/ WaitsBetween(query.plan[n].rhs)
      [] query.plan[n].op = "fn" -> WaitsBetween(query.plan[n].child)
      [] OTHER -> query.plan[n].op = "subquery"

\* The steps of the batches that operator n answers with, in their order.
RECURSIVE TilesOf(_)
TilesOf(n) ==
    LET q == query.plan[n]
        grid == query.grid
        whole == <<Steps(grid)>>
        stepChunks == (grid.count + StepChunk - 1) \div StepChunk
        seriesChunks == (Len(RosterOf(n)) + SeriesChunk - 1) \div SeriesChunk
        chunk(i) == {k \in Steps(grid) : k \div StepChunk = (i - 1) % stepChunks}
    IN  CASE IsLeaf(n) -> [i \in 1..stepChunks * seriesChunks |-> chunk(i)]
          [] q.op = "subquery" -> [i \in 1..grid.count |-> {i - 1}]
          [] q.op = "fn" -> TilesOf(q.child)
          [] IsPair(n) -> TilesOf(IF q.shape = "sv" THEN q.rhs ELSE q.lhs)
          [] q.op = "agg" -> IF TilesOf(q.child) = <<>> THEN <<>> ELSE whole
          [] q.op = "binary" /\ ~IsPair(n) -> IF TilesOf(q.lhs) \o TilesOf(q.rhs) = <<>> THEN <<>> ELSE whole
          [] OTHER -> whole

\* The series of a subquery that the planner saw for the first outer step are
\* not, by number, the ones of some later step.
RosterDrifts ==
    \E n \in NodesOf :
        /\ query.plan[n].op = "subquery"
        /\ LET free == [m EXCEPT !.cap = m.mem + 1000, !.plan = query.plan]
               roster(k) == Last(BuildAll(InnerMachine(free, n, k, "ready")).m.st).roster
               drifts(first, later) == \E i \in DOMAIN later : i \notin DOMAIN first \/ first[i] # later[i]
           IN  \E k \in Steps(query.grid) : drifts(roster(0), roster(k))

\* A plan without the weaknesses of the operators: a drain that forgets what it
\* has when its child is Pending, a scalar operand whose partner comes in other
\* tiles or can be Pending after the scalar was taken, a roster that drifts.
SoundPlan ==
    /\ ~RosterDrifts
    /\ \A n \in NodesOf :
        LET q == query.plan[n]
        IN  /\ q.op \in {"count", "labels"} => ~WaitsBetween(q.child)
            /\ IsPair(n) => ~MayWait(q.rhs) /\ TilesOf(q.lhs) = TilesOf(q.rhs)

----------------------------------------------------------------------------
(* Properties. *)

\* The answer has exactly the values the query means, each once; topk and
\* bottomk at one instant come in order of value.
AnswerIsExact ==
    LET root == query.plan[Root]
        isExact(answer, meaning) ==
            /\ Len(answer) = Cardinality(DOMAIN meaning)
            /\ {<<<<e.labels, e.step>>, e.value>> : e \in ToSet(answer)} = {<<x, meaning[x]>> : x \in DOMAIN meaning}
            /\ query.instant /\ root.op = "agg" /\ IsBreaker(root.kind) =>
                    \A i \in 1..Len(answer) - 1 :
                        IF root.kind = "topk" THEN answer[i].value >= answer[i + 1].value
                                              ELSE answer[i].value <= answer[i + 1].value
    IN  isExact(Reshape, Meaning(query.plan, Root, query.grid))

\* The answer of a query (reshape_instant, reshape_range) is exact however
\* reads, tasks and polls were interleaved and wherever tiles begin and end.
\* Executions in which an operator dropped a batch (see SoundPlansSucceed and
\* DrainsChildFully) and drifting subquery rosters are exempt.
ResultIsExact ==
    phase = "done" /\ ~m.lost /\ ~RosterDrifts => AnswerIsExact

\* With a sound plan no operator drops what it has taken from a child, and the
\* query fails only for a reason that the query or the storage gave: a failed
\* read, memory, two series with values at one step that get the same labels, a
\* count_values below an operator that needs its series.  The operands of a
\* binary operator are never out of step, neither runs out before the other, and
\* no index is out of bounds, however reads and tasks are interleaved.
SoundPlansSucceed ==
    LET nodes(op) == {n \in NodesOf : query.plan[n].op = op}
        clash(n) == LET f == Meaning(query.plan, query.plan[n].child, query.grid)
                        to(x) == <<LabelReplace(x[1], query.plan[n].kind), x[2]>>
                    IN  \E x, y \in DOMAIN f : x # y /\ to(x) = to(y)
        justified == CASE why \in {"", "memory"} -> TRUE
                       [] why = "storage" -> faults > 0
                       [] why = "collision" -> \E n \in nodes("labels") : clash(n)
                       [] why = "unsupported" -> \E n \in nodes("count") : n # Root
                       [] OTHER -> FALSE
    IN  (~m.lost /\ justified) \/ ~SoundPlan

\* "It drains the child fully" (label_replace) and "drains the entire child"
\* (count_values): the answer of such an operator accounts for every batch its
\* child delivered, also when the child was Pending in between.
DrainsChildFully ==
    phase = "done" /\ query.plan[Root].op \in {"count", "labels"} => AnswerIsExact


\* The runtime polls woken tasks and the storage answers every read, as long as
\* there is one of either: weak fairness of Progress, with its enabling
\* condition written out.
Progress ==
    \/ PlanNode \/ Execute
    \/ \E n \in 1..Root : TaskPoll(n) \/ TaskSend(n) \/ StorageAnswers(n)
CanProgress ==
    \/ phase = "plan" \/ (phase = "run" /\ 0 \in m.woken)
    \/ \E n \in Nodes : (n \in Tasks /\ n \in m.woken) \/ (Reading(n) /\ m.io[n] = "idle")
LiveSpec == Spec /\ (([]<>~CanProgress) \/ []<><<Progress>>_vars)

\* Every query ends, with an answer or an error, and its tasks end after it,
\* also when the query was cancelled or failed while they read ahead.  Queries
\* with a subquery that waits for the storage are exempt: the waker is dropped.
QueryEnds == HasSubquery \/ <>Stopped
=============================================================================
