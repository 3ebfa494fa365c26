-------------------------- MODULE PromqlOperators --------------------------
(***************************************************************************)
(* Polling the operators of a plan.  An operator is polled with the waker  *)
(* of a task and answers with a batch, an error, the end of its stream or  *)
(* Pending.  One poll of a root is one step: within it the operators run   *)
(* to their answer, as the code does.                                      *)
(***************************************************************************)
EXTENDS PromqlBuild

\* next: poll operator n of machine m for task t.
RECURSIVE Poll(_, _, _)

----------------------------------------------------------------------------
(* Leaves: the vector selector, and a rollup over a matrix selector.       *)

\* The first sample at or after position i that is later than time.
FirstAfter(samples, i, time) ==
    Min({j \in i..Len(samples) : samples[j][1] > time} \cup {Len(samples) + 1})

\* VectorSelectorOp::build_batch: the newest sample of the lookback window,
\* unless it is a staleness marker, with its own time beside it.
SelectorBatch(q, s, grid, steps, series) ==
    LET time(k) == EffectiveTime(grid, k, q.at, q.offset)
        newest(c) == FirstAfter(s.samples[c[2]], 1, time(c[1])) - 1
        sample(c) == s.samples[c[2]][newest(c)]
        valid == {c \in steps \X series : newest(c) > 0 /\ sample(c)[1] > time(c[1]) - q.window
                                            /\ sample(c)[2] # Stale}
    IN  [BatchOf(steps, series, [c \in valid |-> sample(c)[2]], s.roster)
         EXCEPT !.src = [c \in valid |-> sample(c)[1]]]

\* Mutant: the window includes its left end.
AdvanceInclusive(cursor, samples, time, window) ==
    LET from == IF time < cursor.last THEN [lo |-> 1, hi |-> 1] ELSE cursor
        lo == IF from.lo > Len(samples) THEN from.lo ELSE FirstAfter(samples, from.lo, time - window - 1)
        hi == Max({lo, from.hi})
    IN  [lo |-> lo, hi |-> IF hi > Len(samples) THEN hi ELSE FirstAfter(samples, hi, time), last |-> time]

\* SeriesCursor::advance: both ends move on from where the last window left
\* them, and start over when the window moved back.
Advance(cursor, samples, time, window) ==
    LET from == IF time < cursor.last THEN [lo |-> 1, hi |-> 1] ELSE cursor
        lo == IF from.lo > Len(samples) THEN from.lo ELSE FirstAfter(samples, from.lo, time - window)
        hi == Max({lo, from.hi})
    IN  [lo |-> lo, hi |-> IF hi > Len(samples) THEN hi ELSE FirstAfter(samples, hi, time), last |-> time]

\* build_window_batch: the cursors of the series chunk walk the steps in order.
Windows(q, s, grid, steps) ==
    LET walk(acc, k) ==
            LET time == EffectiveTime(grid, k, q.at, q.offset)
                window(cursor, samples) == SelectSeq(SubSeq(samples, cursor.lo, cursor.hi - 1),
                                                     LAMBDA x : x[2] # Stale)
                at(cursors) ==
                    [cursors |-> cursors,
                     cells |-> acc.cells @@ [c \in {k} \X DOMAIN cursors |->
                                                window(cursors[c[2]], s.samples[c[2]])]]
            IN  at([i \in DOMAIN acc.cursors |-> Advance(acc.cursors[i], s.samples[i], time, q.window)])
    IN  FoldLeft(walk, [cursors |-> s.cursors, cells |-> <<>>],
                 Sorted(steps, LAMBDA x, y : x < y))

\* RollupKind::compute: no value for an empty window.
Compute(kind, window) ==
    LET values == [i \in DOMAIN window |-> window[i][2]]
    IN  CASE kind = "sum" -> FoldLeft(+, 0, values)
          [] kind = "max" -> Max(ToSet(values))
          [] kind = "count" -> Len(values)
          [] kind = "last" -> Last(values)

\* RollupOp::reduce_batch over the windows <<step, series>> -> samples.
ReduceBatch(kind, windows, steps, series, roster) ==
    LET valid == {c \in DOMAIN windows : windows[c] # <<>>}
    IN  BatchOf(steps, series, [c \in valid |-> Compute(kind, windows[c])], roster)

SampleCount(windows) == MapThenSumSet(LAMBDA c : Len(windows[c]), DOMAIN windows)

ChunkOf(s) == s.chunk + 1..Min({s.chunk + SeriesChunk, Len(s.roster)})

\* LoadingChunk: the answer of the storage to the read of a series chunk.
LoadChunk(n, t, m) ==
    LET q == m.plan[n]
        s == m.st[n]
        range == SelectorTimeRange(m.grid, q.window, q.at, q.offset)
        answered == [m EXCEPT !.io[n] = m.source, !.st[n].waker = {}]
        loaded(samples, size) ==
            IF ~Fits(m, size) THEN Failed(Close(answered, n), "memory")
            ELSE Poll(n, t, Reserve([answered EXCEPT
                    !.st[n].state = "emitting", !.st[n].next = 0, !.st[n].samples = samples,
                    !.st[n].cursors = [i \in ChunkOf(s) |-> [lo |-> 1, hi |-> 1, last |-> 0]]], n, size))
        counted(samples) == loaded(samples, SampleCount(samples))
    IN  CASE m.io[n] = "idle" -> Pending([m EXCEPT !.st[n].waker = {t}])
          [] m.io[n] = "failed" -> Failed(Close(answered, n), "storage")
          [] m.io[n] = "ready" -> counted([i \in ChunkOf(s) |-> SamplesIn(s.refs[i], range)])

\* The steps of the next step chunk.
StepChunkFrom(s, grid) == s.next..Min({s.next + StepChunk, grid.count}) - 1

\* Emitting: one batch for each step chunk.
EmitChunk(n, m) ==
    LET q == m.plan[n]
        s == m.st[n]
        steps == StepChunkFrom(s, m.grid)
        series == ChunkOf(s)
        emitted == [m EXCEPT !.st[n].next = @ + Cardinality(steps)]
        tile == Cardinality(steps) * Cardinality(series)
        reduced(windows) ==
            IF Fits(m, tile + SampleCount(windows.cells))
            THEN Emit([emitted EXCEPT !.st[n].cursors = windows.cursors], n,
                      ReduceBatch(q.kind, windows.cells, steps, series, s.roster))
            ELSE Failed(Close(Release(m, n), n), "memory")
    IN  CASE q.op = "selector" ->
                IF Fits(m, tile) THEN Ready(emitted, SelectorBatch(q, s, m.grid, steps, series))
                ELSE Failed(Close(Release(m, n), n), "memory")
          [] q.op = "rollup" -> reduced(Windows(q, s, m.grid, steps))

PollLeaf(n, t, m) ==
    LET s == m.st[n]
        empty == s.roster = <<>> \/ m.grid.count = 0
        last == s.chunk + SeriesChunk >= Len(s.roster)
        dropped == Release([m EXCEPT !.st[n].samples = <<>>, !.st[n].cursors = <<>>], n)
    IN  CASE s.state = "init" /\ empty -> Ended(Close(m, n))
          [] s.state = "init" /\ ~empty -> Poll(n, t, [m EXCEPT !.st[n].state = "loading"])
          [] s.state = "loading" -> LoadChunk(n, t, m)
          [] s.state = "emitting" /\ s.next < m.grid.count -> EmitChunk(n, m)
          [] s.state = "emitting" /\ s.next >= m.grid.count /\ last -> Ended(Close(dropped, n))
          [] s.state = "emitting" /\ s.next >= m.grid.count /\ ~last ->
                Poll(n, t, [dropped EXCEPT !.st[n].state = "loading", !.st[n].chunk = @ + SeriesChunk])

\* ConcurrentOp: receive from the task of the leaf.
PollChannel(n, m) ==
    LET c == m.chan[n]
        taken == [m EXCEPT !.chan[n].queue = Tail(@), !.chan[n].full = FALSE,
                           !.woken = @ \cup (IF c.full THEN {n} ELSE {})]
    IN  CASE c.queue # <<>> -> [Head(c.queue) EXCEPT !.m = taken]
          [] c.queue = <<>> /\ ~c.sending -> Ended(m)
          [] c.queue = <<>> /\ c.sending -> Pending([m EXCEPT !.chan[n].waiting = TRUE])

\* ConstScalarOp and TimeScalarOp: one batch over the whole grid.
PollScalar(n, m) ==
    LET q == m.plan[n]
        value(k) == IF q.op = "const" THEN q.value ELSE StepTime(m.grid, k)
        batch == BatchOf(Steps(m.grid), {1}, [c \in Steps(m.grid) \X {1} |-> value(c[1])], << <<>> >>)
    IN  IF m.grid.count = 0 THEN Ended(Close(m, n)) ELSE Emit(Close(m, n), n, batch)

----------------------------------------------------------------------------
(* Pointwise operators. *)

\* InstantFnKind::compute: timestamp() has the time of the sample where the
\* batch carries it; clamp with min > max has no value at all.
ApplyBatch(fn, grid, b) ==
    LET value(c) ==
            CASE fn.name = "timestamp" -> IF c \in DOMAIN b.src THEN b.src[c] ELSE StepTime(grid, c[1])
              [] b.cells[c] = NaN -> NaN
              [] fn.name = "clamp" -> Max({fn.min, Min({fn.max, b.cells[c]})})
        valid == IF fn.name = "clamp" /\ fn.min > fn.max THEN {} ELSE DOMAIN b.cells
    IN  [b EXCEPT !.cells = [c \in valid |-> value(c)], !.src = <<>>]

PollInstantFn(n, t, m) ==
    LET q == m.plan[n]
        on(c) == CASE c.r = "pending" -> c
                   [] c.r = "end" -> Ended(Close(c.m, n))
                   [] c.r = "error" -> Failed(Close(c.m, n), c.why)
                   [] c.r = "batch" -> Emit(c.m, n, ApplyBatch(q.fn, m.grid, c.batch))
    IN  on(Poll(q.child, t, m))

----------------------------------------------------------------------------
(* Operators that drain their child into state of their own. *)

Add(x, y) == IF NaN \in {x, y} THEN NaN ELSE x + y

\* Accumulator::absorb for every valid cell of a group: count, sum, and the
\* extremes of the values that are numbers.
NewAccumulator == [count |-> 0, sum |-> 0, reals |-> {}]
AbsorbStreaming(s, b) ==
    LET at(g) == {c \in DOMAIN b.cells : c[1] = g[1] /\ s.of[c[2]] = g[2]}
        old(g) == IF g \in DOMAIN s.acc THEN s.acc[g] ELSE NewAccumulator
        add(a, c) == [count |-> a.count + 1, sum |-> Add(a.sum, b.cells[c]),
                      reals |-> LET r == a.reals \cup ({b.cells[c]} \ {NaN})
                                IN  IF r = {} THEN {} ELSE {Min(r), Max(r)}]
        touched == {g \in b.steps \X s.groups : at(g) # {}}
    IN  [g \in touched |-> FoldLeft(add, old(g), SetToSeq(at(g)))] @@ s.acc

\* finalise_streaming: one value for each group that got one.
FinaliseStreaming(kind, s) ==
    LET value(a) == CASE kind = "sum" -> a.sum
                      [] kind = "count" -> a.count
                      [] kind = "group" -> 1
                      [] kind = "min" -> IF a.reals = {} THEN NaN ELSE Min(a.reals)
                      [] kind = "max" -> IF a.reals = {} THEN NaN ELSE Max(a.reals)
    IN  [g \in DOMAIN s.acc |-> value(s.acc[g])]

\* finalise_topk_or_bottomk: per step and group the k best cells; a number is
\* better than NaN and of two equal values the first series is.
FinaliseTopk(q, s) ==
    LET v(c) == s.acc[c]
        better(a, b) ==
            CASE v(a) = v(b) -> a[2] < b[2]
              [] v(b) = NaN -> TRUE
              [] v(a) = NaN -> FALSE
              [] OTHER -> IF q.kind = "topk" THEN v(a) > v(b) ELSE v(a) < v(b)
        k(step) == LET raw == IF q.param = <<>> THEN q.k
                              ELSE IF step \in DOMAIN s.k THEN s.k[step] ELSE 0
                   IN  Min({raw, Len(s.roster)})
        ahead(c) == {d \in DOMAIN s.acc : d[1] = c[1] /\ s.of[d[2]] = s.of[c[2]] /\ d # c /\ better(d, c)}
    IN  [c \in {c \in DOMAIN s.acc : Cardinality(ahead(c)) < k(c[1])} |-> v(c)]

\* load_param_values: the parameter of each step, NaN read as 0.
ParamValues(b) == [k \in b.steps |-> IF <<k, 1>> \in DOMAIN b.cells /\ b.cells[<<k, 1>>] # NaN
                                     THEN b.cells[<<k, 1>>] ELSE 0]

\* AggregateOp::next: the parameter first, then the child, both up to their
\* end; what was absorbed stays across Pending.
PollAggregate(n, t, m) ==
    LET q == m.plan[n]
        s == m.st[n]
        whole == BatchOf(Steps(m.grid), DOMAIN s.roster,
                         IF IsBreaker(q.kind) THEN FinaliseTopk(q, s) ELSE FinaliseStreaming(q.kind, s),
                         s.roster)
        absorbed(b) == IF IsBreaker(q.kind) THEN b.cells @@ s.acc ELSE AbsorbStreaming(s, b)
        on(c) ==
            CASE c.r = "pending" -> c
              [] c.r = "error" -> Failed(Close(c.m, n), c.why)
              [] c.r = "batch" /\ ~s.loaded -> Poll(n, t, [c.m EXCEPT !.st[n].k = ParamValues(c.batch) @@ @])
              [] c.r = "end" /\ ~s.loaded ->
                    Poll(n, t, DropTree([c.m EXCEPT !.st[n].loaded = TRUE], q.param[1]))
              [] c.r = "batch" /\ s.loaded ->
                    Poll(n, t, [c.m EXCEPT !.st[n].acc = absorbed(c.batch), !.st[n].saw = TRUE])
              [] c.r = "end" /\ s.loaded ->
                    IF s.saw THEN Emit([c.m EXCEPT !.st[n].emitted = TRUE], n, whole)
                    ELSE Ended(Close(c.m, n))
    IN  IF s.emitted THEN Ended(Close(m, n))
        ELSE on(Poll(IF s.loaded THEN q.child ELSE q.param[1], t, m))

\* ScalarizeOp: the value of a step with exactly one valid cell, else NaN.
PollScalarize(n, t, m) ==
    LET q == m.plan[n]
        s == m.st[n]
        value(k) == IF k \notin DOMAIN s.acc \/ s.acc[k].count > 1 THEN NaN ELSE s.acc[k].value
        seen(b, k) == {x \in DOMAIN b.cells : x[1] = k}
        old(k) == IF k \in DOMAIN s.acc THEN s.acc[k].count ELSE 0
        more(b) == [k \in {k \in b.steps : seen(b, k) # {}} |->
                       [count |-> old(k) + Cardinality(seen(b, k)),
                        value |-> b.cells[CHOOSE x \in seen(b, k) : TRUE]]]
        on(c) ==
            CASE c.r = "pending" -> c
              [] c.r = "error" -> Failed(Close(Release(c.m, n), n), c.why)
              [] c.r = "batch" -> Poll(n, t, [c.m EXCEPT !.st[n].acc = more(c.batch) @@ @])
              [] c.r = "end" ->
                    Ready(Close(Release(c.m, n), n),
                          BatchOf(Steps(m.grid), {1}, [x \in Steps(m.grid) \X {1} |-> value(x[1])], << <<>> >>))
    IN  IF ~s.started
        THEN IF Fits(m, m.grid.count)
             THEN Poll(n, t, Reserve([m EXCEPT !.st[n].started = TRUE], n, m.grid.count))
             ELSE Failed(Close(m, n), "memory")
        ELSE on(Poll(q.child, t, m))

\* drain_child of count_values and of label_replace: the batches are collected
\* in a local list, so a Pending child loses the ones it has delivered.
RECURSIVE DrainChild(_, _, _, _)
DrainChild(child, t, m, batches) ==
    LET on(c) ==
            CASE c.r = "pending" -> Pending([c.m EXCEPT !.lost = @ \/ batches # <<>>])
              [] c.r = "error" -> c
              [] c.r = "batch" -> DrainChild(child, t, c.m, Append(batches, c.batch))
              [] c.r = "end" -> [Ended(DropTree(c.m, child)) EXCEPT !.r = "drained"] @@ [batches |-> batches]
    IN  on(Poll(child, t, m))

CellsOf(batches) == FoldLeft(LAMBDA acc, b : acc @@ b.cells, <<>>, batches)

\* CountValuesOp::finalise: one output series for each value of a group, in
\* the order they are met; the counters are reserved one by one and kept.
FinaliseCount(n, m, batches) ==
    LET q == m.plan[n]
        s == m.st[n]
        cells == CellsOf(batches)
        inOrder(b) == Sorted(DOMAIN b.cells, LAMBDA x, y : x[1] < y[1] \/ (x[1] = y[1] /\ x[2] < y[2]))
        key(c) == <<s.of[c[2]], cells[c]>>
        met == FlattenSeq([i \in DOMAIN batches |->
                    [j \in DOMAIN inOrder(batches[i]) |-> key(inOrder(batches[i])[j])]])
        keys == FirstSeen(met)
        row(i) == Restrict(s.roster[keys[i][1]], DOMAIN s.roster[keys[i][1]] \ {q.label})
                  @@ (q.label :> ToString(keys[i][2]))
        count(k, i) == Cardinality({c \in DOMAIN cells : c[1] = k /\ key(c) = keys[i]})
        valid == {x \in Steps(m.grid) \X DOMAIN keys : count(x[1], x[2]) > 0}
        fitting == Min({Len(keys), (m.cap - m.mem) \div m.grid.count})
        counted == Reserve(m, n, fitting * m.grid.count)
        named == Reserve(counted, n, Len(keys))
    IN  IF fitting < Len(keys) \/ ~Fits(counted, Len(keys)) THEN Failed(Close(counted, n), "memory")
        ELSE Emit(Close(named, n), n,
                  BatchOf(Steps(m.grid), DOMAIN keys, [x \in valid |-> count(x[1], x[2])],
                          [i \in DOMAIN keys |-> row(i)]))

\* Mutant: two input series of one output series are a clash.
ClashOfSeries(s, cells) == Cardinality(Range(s.of)) < Len(s.of)

\* Two valid cells of one output series.
Clash(s, cells) ==
    \E c, d \in DOMAIN cells : c # d /\ c[1] = d[1] /\ s.of[c[2]] = s.of[d[2]]

\* LabelManipOp::merge_batches: two valid cells of one output series are an
\* error.
MergeBatches(n, m, batches) ==
    LET s == m.st[n]
        cells == CellsOf(batches)
        out(c) == <<c[1], s.of[c[2]]>>
        merged == [x \in {out(c) : c \in DOMAIN cells} |-> cells[CHOOSE c \in DOMAIN cells : out(c) = x]]
        whole == Emit(Close(m, n), n, BatchOf(Steps(m.grid), DOMAIN s.roster, merged, s.roster))
    IN  IF whole.r = "batch" /\ Clash(s, cells) THEN Failed(Close(m, n), "collision") ELSE whole

PollDraining(n, t, m) ==
    LET q == m.plan[n]
        on(d) == CASE d.r = "pending" -> d
                   [] d.r = "error" -> Failed(Close(d.m, n), d.why)
                   [] d.r = "drained" -> IF q.op = "count" THEN FinaliseCount(n, d.m, d.batches)
                                                           ELSE MergeBatches(n, d.m, d.batches)
    IN  on(DrainChild(q.child, t, m, <<>>))

----------------------------------------------------------------------------
(* Binary operators. *)

\* write_cell, with <<>> for an absent cell and <<v>> for a value.
WriteCell(kind, l, r) ==
    LET both == l # <<>> /\ r # <<>>
        nan == NaN \in {l[1], r[1]}
    IN  CASE kind = "or" -> IF l # <<>> THEN l ELSE r
          [] kind = "unless" -> IF r = <<>> THEN l ELSE <<>>
          [] kind \notin {"or", "unless"} /\ ~both -> <<>>
          [] kind = "and" /\ both -> l
          [] kind = "add" /\ both -> <<Add(l[1], r[1])>>
          [] kind = "sub" /\ both -> IF nan THEN <<NaN>> ELSE <<l[1] - r[1]>>
          [] kind = "mul" /\ both -> IF nan THEN <<NaN>> ELSE <<l[1] * r[1]>>
          [] kind = "gt" /\ both -> IF ~nan /\ l[1] > r[1] THEN l ELSE <<>>
          [] kind = "gtbool" /\ both -> IF ~nan /\ l[1] > r[1] THEN <<1>> ELSE <<0>>

CellOf(cells, c) == IF c \in DOMAIN cells THEN <<cells[c]>> ELSE <<>>

\* The cells Value(c) gives something for.
Present(all, Value(_)) == [c \in {c \in all : Value(c) # <<>>} |-> Value(c)[1]]

\* apply_vv: both sides are complete, and rows find their partner by its
\* number in the whole roster.
ApplyVv(q, s, grid) ==
    LET cell(cells, k, i) == IF i = 0 THEN <<>> ELSE CellOf(cells, <<k, i>>)
        value(c) == IF s.table.right
                    THEN WriteCell(q.kind, cell(s.l, c[1], s.table.partner[c[2]]), CellOf(s.r, c))
                    ELSE WriteCell(q.kind, CellOf(s.l, c), cell(s.r, c[1], s.table.partner[c[2]]))
    IN  BatchOf(Steps(grid), DOMAIN s.roster, Present(Steps(grid) \X DOMAIN s.roster, value), s.roster)

\* BufferedSide::allocate for the left side, then for the right one.
AllocateSides(n, t, m) ==
    LET q == m.plan[n]
        size(c) == m.grid.count * Len(m.st[c].roster)
        left == Reserve(m, n, size(q.lhs))
    IN  CASE ~Fits(m, size(q.lhs)) -> Failed(Close(m, n), "memory")
          [] Fits(m, size(q.lhs)) /\ ~Fits(left, size(q.rhs)) -> Failed(Close(left, n), "memory")
          [] Fits(m, size(q.lhs)) /\ Fits(left, size(q.rhs)) ->
                Poll(n, t, Reserve([left EXCEPT !.st[n].alloc = TRUE], n, size(q.rhs)))

\* One side of a round of drain_vv: a poll unless the side has ended.
DrainSide(child, done, t, m) == IF done THEN [r |-> "none", m |-> m] ELSE Poll(child, t, m)

\* drain_vv and the rest of next for two vectors: rounds of one poll of each
\* side until both have ended, then the one batch.
PollVectorVector(n, t, m) ==
    LET q == m.plan[n]
        s == m.st[n]
        onRight(r) ==
            CASE r.r = "pending" -> r
              [] r.r = "error" -> Failed(Close(r.m, n), r.why)
              [] r.r = "batch" -> Poll(n, t, [r.m EXCEPT !.st[n].r = r.batch.cells @@ @, !.st[n].saw = TRUE])
              [] r.r = "end" -> Poll(n, t, [r.m EXCEPT !.st[n].rdone = TRUE])
              [] r.r = "none" -> Poll(n, t, r.m)
        right(machine) == onRight(DrainSide(q.rhs, s.rdone, t, machine))
        onLeft(l) ==
            CASE l.r = "pending" -> l
              [] l.r = "error" -> Failed(Close(l.m, n), l.why)
              [] l.r = "batch" -> right([l.m EXCEPT !.st[n].l = l.batch.cells @@ @, !.st[n].saw = TRUE])
              [] l.r = "end" -> right([l.m EXCEPT !.st[n].ldone = TRUE])
              [] l.r = "none" -> right(l.m)
        out == ApplyVv(q, s, m.grid)
        fits == Fits(m, m.grid.count * Len(s.roster))
        emitted == Release([m EXCEPT !.st[n].emitted = TRUE, !.st[n].l = <<>>, !.st[n].r = <<>>], n)
    IN  CASE s.emitted -> Ended(Close(m, n))
          [] ~s.emitted /\ ~s.alloc -> AllocateSides(n, t, m)
          [] ~s.emitted /\ s.alloc /\ s.ldone /\ s.rdone ->
                IF ~s.saw THEN Ended(Close(emitted, n))
                ELSE IF fits THEN Ready(emitted, out) ELSE Failed(Close(emitted, n), "memory")
          [] ~s.emitted /\ s.alloc /\ ~(s.ldone /\ s.rdone) -> onLeft(DrainSide(q.lhs, s.ldone, t, m))

\* apply_vs and apply_ss: the scalar side has one series.
ApplyScalar(q, s, l, r) ==
    LET vector == IF q.shape = "sv" THEN r ELSE l
        scalar(b, c) == CellOf(b.cells, <<c[1], 1>>)
        value(c) == CASE q.shape = "vs" -> WriteCell(q.kind, CellOf(l.cells, c), scalar(r, c))
                      [] q.shape = "sv" -> WriteCell(q.kind, scalar(l, c), CellOf(r.cells, c))
                      [] q.shape = "ss" -> WriteCell(q.kind, scalar(l, c), scalar(r, c))
    IN  BatchOf(vector.steps, vector.series, Present(vector.steps \X vector.series, value), vector.roster)

\* pull_both, and next for an operand that is a scalar: one batch of each side
\* at a time.  The left batch is lost when the right side is Pending.
PollPair(n, t, m) ==
    LET q == m.plan[n]
        both(l, r) ==
            CASE r.r = "pending" -> Pending([r.m EXCEPT !.lost = @ \/ l.r = "batch"])
              [] r.r = "error" -> Failed(Close(r.m, n), r.why)
              [] l.r = "end" /\ r.r = "end" -> Ended(Close(r.m, n))
              [] l.r = "batch" /\ r.r = "batch" ->
                    IF l.batch.steps # r.batch.steps THEN Failed(Close(r.m, n), "misaligned")
                    ELSE Emit(r.m, n, ApplyScalar(q, m.st[n], l.batch, r.batch))
              [] OTHER -> Failed(Close(r.m, n), "exhausted")
        left(l) == CASE l.r = "pending" -> l
                     [] l.r = "error" -> Failed(Close(l.m, n), l.why)
                     [] l.r \in {"batch", "end"} -> both(l, Poll(q.rhs, t, l.m))
    IN  left(Poll(q.lhs, t, m))

----------------------------------------------------------------------------
(* Subqueries. *)

\* build_outer_step_batch: drain the inner plan into one window per series of
\* the roster the planner saw.  A value of a series beyond it is a panic.
RECURSIVE DrainInner(_, _, _, _)
DrainInner(t, inner, windows, roster) ==
    LET read(cells, order) ==
            [j \in DOMAIN order |-> <<StepTime(inner.grid, order[j][1]), cells[order[j]]>>]
        samples(cells, i) ==
            read(cells, Sorted({x \in DOMAIN cells : x[2] = i}, LAMBDA x, y : x[1] < y[1]))
        on(c) ==
            CASE c.r \in {"pending", "error"} -> c
              [] c.r = "end" -> Ended(c.m) @@ [windows |-> windows]
              [] c.r = "batch" ->
                    IF \E x \in DOMAIN c.batch.cells : x[2] \notin DOMAIN roster THEN Failed(c.m, "panic")
                    ELSE DrainInner(t, c.m, [i \in DOMAIN roster |-> windows[i] \o samples(c.batch.cells, i)],
                                    roster)
    IN  on(Poll(Len(inner.plan), t, inner))

\* SubqueryOp::windows and the rollup over it.  On Pending the inner plan is
\* dropped with the waker it holds, and the next poll starts from scratch.
PollSubquery(n, t, m) ==
    LET q == m.plan[n]
        s == m.st[n]
        k == s.next
        series == DOMAIN s.roster
        batch(windows) ==
            ReduceBatch(q.kind, [c \in {k} \X series |-> windows[c[2]]], {k}, series, s.roster)
        packed(d) == Absorb(m, [d.m EXCEPT !.mem = @ - Len(s.roster)])
        over(d, after) ==
            CASE d.r = "pending" -> Pending(packed(d))
              [] d.r = "error" -> Failed(Close(after, n), d.why)
              [] d.r = "end" ->
                    IF Fits(d.m, SampleCount(d.windows))
                    THEN Emit([after EXCEPT !.st[n].next = @ + 1], n, batch(d.windows))
                    ELSE Failed(Close(after, n), "memory")
        drained(d) == over(d, [packed(d) EXCEPT !.io[n] = m.source])
        built(child) ==
            CASE child.r = "error" -> Failed(Close(Absorb(m, child.m), n), child.why)
              [] child.r = "end" /\ ~Fits(child.m, Len(s.roster)) ->
                    Failed(Close(Absorb(m, child.m), n), "memory")
              [] child.r = "end" /\ Fits(child.m, Len(s.roster)) ->
                    drained(DrainInner(t, [child.m EXCEPT !.mem = @ + Len(s.roster)],
                                       [i \in series |-> <<>>], s.roster))
    IN  CASE k >= m.grid.count -> Ended(Close(m, n))
          [] k < m.grid.count /\ series = {} ->
                Ready([m EXCEPT !.st[n].next = @ + 1], BatchOf({k}, {}, <<>>, <<>>))
          [] k < m.grid.count /\ series # {} ->
                built(BuildAll(InnerMachine(m, n, k, m.io[n])))

----------------------------------------------------------------------------

Poll(n, t, m) ==
    LET op == m.plan[n].op
        s == m.st[n]
    IN  CASE s.task /\ t # n -> PollChannel(n, m)
          [] ~(s.task /\ t # n) /\ s.closed -> Ended(m)
          [] OTHER ->
                CASE op \in {"selector", "rollup"} -> PollLeaf(n, t, m)
                  [] op \in {"const", "time"} -> PollScalar(n, m)
                  [] op = "fn" -> PollInstantFn(n, t, m)
                  [] op = "agg" -> PollAggregate(n, t, m)
                  [] op = "scalar" -> PollScalarize(n, t, m)
                  [] op \in {"count", "labels"} -> PollDraining(n, t, m)
                  [] op = "binary" -> IF m.plan[n].shape = "vv" THEN PollVectorVector(n, t, m)
                                                                ELSE PollPair(n, t, m)
                  [] op = "subquery" -> PollSubquery(n, t, m)
=============================================================================
