------------------------------ MODULE MCPromql ------------------------------
(***************************************************************************)
(* Queries over two buckets of samples.  Metric "up" has three series in   *)
(* the first bucket and four, in another order, in the second: more than   *)
(* one tile, and enough for a task of its own.  Metric "on" has two series *)
(* and is read by the query itself.                                        *)
(***************************************************************************)
EXTENDS PromqlReference

Labels(name, job, i) == (Name :> name) @@ ("job" :> job) @@ ("i" :> i)
Series(name, job, i, samples) == [labels |-> Labels(name, job, i), samples |-> samples]

MCBuckets ==
    <<[lo |-> 0, hi |-> 4, series |->
         <<Series("up", "a", "1", << <<1, 5>>, <<3, 7>> >>), Series("up", "a", "2", << <<2, 4>> >>),
           Series("on", "a", "1", << <<1, 2>> >>), Series("up", "b", "1", << <<3, 9>> >>),
           Series("on", "b", "1", << <<2, 6>> >>)>>],
      [lo |-> 4, hi |-> 8, series |->
         <<Series("on", "a", "1", << <<5, 3>> >>), Series("up", "b", "1", << <<5, 1>> >>),
           Series("up", "c", "1", << <<6, 8>> >>), Series("up", "a", "1", << <<5, 2>> >>),
           Series("up", "a", "2", << <<6, Stale>> >>)>>]>>

NoPin == [pin |-> "none", time |-> 0]
Named(name) == [eq |-> {[label |-> Name, value |-> name]}, re |-> <<>>, not |-> {}, empty |-> {}]
Sel(sel) == [op |-> "selector", sel |-> sel, window |-> 3, at |-> NoPin, offset |-> 0]
Up == Sel(Named("up"))
On == Sel(Named("on"))
Const(v) == [op |-> "const", value |-> v]
By(labels) == [by |-> TRUE, labels |-> labels]
Agg(child, kind, k, grouping) ==
    [op |-> "agg", child |-> child, param |-> <<>>, kind |-> kind, k |-> k, grouping |-> grouping]
Matching(on, labels, card) == [on |-> on, labels |-> labels, card |-> card, include |-> {}]
Binary(l, r, shape, kind, matching) ==
    [op |-> "binary", lhs |-> l, rhs |-> r, shape |-> shape, kind |-> kind, matching |-> matching]
Plain(l, r, shape, kind) == Binary(l, r, shape, kind, Matching(FALSE, {}, "one"))

ThreeSteps == StepGridOf(2, 6, 2)
Q(plan, cap) == [plan |-> plan, grid |-> ThreeSteps, instant |-> FALSE, cap |-> cap]
Instant(plan, t, cap) == [plan |-> plan, grid |-> StepGridOf(t, t, 1), instant |-> TRUE, cap |-> cap]

Job(name, job) == [Named(name) EXCEPT !.eq = @ \cup {[label |-> "job", value |-> job]}]
Rollup(kind, sel, window, at, offset) ==
    [op |-> "rollup", sel |-> sel, window |-> window, at |-> at, offset |-> offset, kind |-> kind]
Pin(pin, time) == [pin |-> pin, time |-> time]
Fn(child, name, min, max) == [op |-> "fn", child |-> child, fn |-> [name |-> name, min |-> min, max |-> max]]
Replace(child, src, dst, replace) ==
    [op |-> "labels", child |-> child, kind |-> [src |-> src, dst |-> dst, replace |-> replace]]
CountValues(child, grouping) == [op |-> "count", child |-> child, label |-> "v", grouping |-> grouping]
Subquery(inner, kind) ==
    [op |-> "subquery", inner |-> inner, window |-> 3, step |-> 1, at |-> NoPin, offset |-> 0, kind |-> kind]
OnJob(card) == Matching(TRUE, {"job"}, card)

MCQueries ==
    {\* sum by (job) (up), with and without enough memory; min; count; without
     Q(<<Up, Agg(1, "sum", 0, By({"job"}))>>, 100),
     Q(<<Up, Agg(1, "sum", 0, By({"job"}))>>, 16),
     Q(<<On, Agg(1, "min", 0, By({}))>>, 100),
     Q(<<Up, Agg(1, "count", 0, [by |-> FALSE, labels |-> {"i"}])>>, 100),
     \* topk(scalar(on{job="b"}), up), bottomk by (job) (1, up) at one instant
     Q(<<Up, Sel(Job("on", "b")), [op |-> "scalar", child |-> 2],
         [Agg(1, "topk", 0, By({})) EXCEPT !.param = <<3>>]>>, 100),
     Q(<<Up, Const(2), [Agg(1, "topk", 0, By({})) EXCEPT !.param = <<2>>]>>, 20),
     Instant(<<Up, Agg(1, "bottomk", 2, By({}))>>, 5, 100),
     Instant(<<Up, Agg(1, "topk", 1, By({"job"}))>>, 5, 100),
     \* up + on(job) group_left() on, on > on(job) group_right() up, and, unless, or
     Q(<<Up, On, Binary(1, 2, "vv", "add", OnJob("left"))>>, 100),
     Q(<<On, Up, Binary(1, 2, "vv", "gt", OnJob("right"))>>, 100),
     Q(<<Up, On, Plain(1, 2, "vv", "and")>>, 40),
     Q(<<Up, On, Plain(1, 2, "vv", "unless"), Agg(3, "max", 0, By({"job"}))>>, 100),
     Q(<<On, [On EXCEPT !.offset = 2], Plain(1, 2, "vv", "or")>>, 100),
     \* up - up offset 2: two tasks, with ample memory, and with too little for
     \* both chunks beside the buffers
     Q(<<Up, [Up EXCEPT !.offset = 2], Plain(1, 2, "vv", "sub")>>, 100),
     Q(<<Up, [Up EXCEPT !.offset = 2], Plain(1, 2, "vv", "sub")>>, 43),
     Q(<<Up, On, Binary(1, 2, "vv", "mul", OnJob("left")), [Up EXCEPT !.offset = 2],
         Plain(3, 4, "vv", "add"), Agg(5, "sum", 0, By({"job"}))>>, 120),
     \* up * 2, 2 * up, 2 * on at one instant, sum(up) > 8, 8 - sum(up), time() - 1
     Q(<<Up, Const(2), Plain(1, 2, "vs", "mul")>>, 100),
     Q(<<Const(2), Up, Plain(1, 2, "sv", "mul")>>, 100),
     Instant(<<On, Const(2), Plain(1, 2, "vs", "gtbool")>>, 2, 100),
     Instant(<<Const(2), On, Plain(1, 2, "sv", "mul")>>, 2, 100),
     Q(<<Up, Agg(1, "sum", 0, By({})), Const(8), Plain(2, 3, "vs", "gt")>>, 100),
     Q(<<Const(8), Up, Agg(2, "sum", 0, By({})), Plain(1, 3, "sv", "sub")>>, 100),
     Q(<<[op |-> "time"], Const(1), Plain(1, 2, "ss", "sub")>>, 100),
     \* count_values("v", up), below an aggregation, label_replace with and
     \* without a collision
     Q(<<Up, CountValues(1, By({}))>>, 100),
     Q(<<On, CountValues(1, By({"job"}))>>, 100),
     Q(<<On, CountValues(1, By({})), Agg(2, "sum", 0, By({}))>>, 100),
     Q(<<Up, Replace(1, "job", "to", "a" :> "x" @@ "b" :> "y")>>, 100),
     Q(<<On, Replace(1, "job", "job", "a" :> "b")>>, 100),
     Instant(<<On, Replace(1, "job", "job", "a" :> "b")>>, 5, 100),
     Q(<<On, Replace(1, "job", "i", "a" :> "")>>, 100),
     \* rollups with offset and @, and their samples beyond memory
     Q(<<Rollup("sum", Named("up"), 4, NoPin, 1)>>, 100),
     Q(<<Rollup("max", Named("up"), 3, Pin("value", 5), 0)>>, 100),
     Q(<<Rollup("last", Named("up"), 4, NoPin, 0), Fn(1, "clamp", 2, 6)>>, 18),
     Q(<<Rollup("count", Named("on"), 4, Pin("start", 0), -3), Agg(1, "max", 0, By({}))>>, 100),
     Q(<<[Up EXCEPT !.at = Pin("end", 0)]>>, 100),
     \* timestamp(up), a regular expression with an exclusion
     Q(<<Up, Fn(1, "timestamp", 0, 0)>>, 100),
     Q(<<Sel([eq |-> {}, re |-> <<[label |-> "job", values |-> {"a", "c"}]>>,
              not |-> {[label |-> "i", values |-> {"2"}]}, empty |-> {"to"}]), Agg(1, "group", 0, By({"job"}))>>, 100),
     \* max_over_time(on[3:1]), and of up, whose series change
     Q(<<Subquery(<<On>>, "max")>>, 100),
     Q(<<Subquery(<<Up>>, "sum")>>, 100),
     Q(<<Subquery(<<On, Agg(1, "sum", 0, By({}))>>, "last")>>, 30)}

\* Those whose root drains its child before it answers.
DrainQueries == {q \in MCQueries : Last(q.plan).op \in {"count", "labels"}}
=============================================================================
