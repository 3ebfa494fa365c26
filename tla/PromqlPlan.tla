----------------------------- MODULE PromqlPlan -----------------------------
(***************************************************************************)
(* What the physical planner of the time series database computes before a *)
(* PromQL query runs: step grids and time windows, the roster of series of *)
(* a selector, group maps, match tables and output labels.                 *)
(*                                                                         *)
(* A label set is a function from label names to values, so the code's     *)
(* sorting of labels into a canonical order has no counterpart.  A roster  *)
(* is a sequence of label sets and series are numbered from 1.  One unit   *)
(* of time is one second.                                                  *)
(***************************************************************************)
EXTENDS Integers, Sequences, FiniteSets, SequencesExt, FiniteSetsExt, Functions, TLC

CONSTANT
    Buckets     \* the stored buckets by start: [lo, hi, series], each series
                \* [labels, samples] with samples <<time, value>> by time

\* The elements of a set in a strict total order.
Sorted(S, Before(_, _)) ==
    [i \in 1..Cardinality(S) |-> CHOOSE e \in S : Cardinality({d \in S : Before(d, e)}) = i - 1]

----------------------------------------------------------------------------
(* Time. *)

\* step_grid_from_ctx
StepGridOf(start, end, step) ==
    [start |-> start, end |-> end, step |-> step, count |-> ((end - start) \div step) + 1]

StepTime(grid, k) == grid.start + k * grid.step

Steps(grid) == 0..grid.count - 1

\* The time an "@" modifier pins step k to, less the offset.
EffectiveTime(grid, k, at, offset) ==
    (CASE at.pin = "none" -> StepTime(grid, k)
       [] at.pin = "start" -> grid.start
       [] at.pin = "end" -> grid.end
       [] at.pin = "value" -> at.time) - offset

\* The half-open range of time a selector asks the source for.
SelectorTimeRange(grid, window, at, offset) ==
    LET pinned(edge) == IF at.pin = "none" THEN edge - offset ELSE EffectiveTime(grid, 0, at, offset)
        lo == pinned(grid.start) - window
    IN  [lo |-> lo, hi |-> Max({pinned(grid.end) + 1, lo})]

\* The multiples of step in the window of length range that ends at t.
InnerGrid(t, range, step) ==
    LET first == -((-(t - range + 1)) \div step) * step
        last == (t \div step) * step
    IN  IF first > last THEN [start |-> t, end |-> t, step |-> step, count |-> 0]
        ELSE StepGridOf(first, last, step)

----------------------------------------------------------------------------
(* Series of a selector.  A selector has the equality matchers eq, the     *)
(* regular expressions re in order of appearance (each a label and the     *)
(* values its expression accepts), the negated matchers not, and the       *)
(* labels empty that must be absent.                                       *)

Having(series, label, values) ==
    {id \in DOMAIN series :
        label \in DOMAIN series[id].labels /\ series[id].labels[label] \in values}

\* find_candidates: the positive terms, then the negated ones and the
\* ones that match the empty string.  Without an equality matcher, the first
\* expression that has matches replaces an empty intermediate result.
FindCandidates(series, sel) ==
    LET and == IF sel.eq = {} THEN {}
               ELSE {id \in DOMAIN series : \A e \in sel.eq : id \in Having(series, e.label, {e.value})}
        group(found, e) ==
            LET any == Having(series, e.label, e.values)
            IN  IF sel.eq = {} /\ found = {} THEN any ELSE found \cap any
    IN  FoldLeft(group, and, sel.re)
            \ (UNION {Having(series, e.label, e.values) : e \in sel.not}
               \cup {id \in DOMAIN series : sel.empty \cap DOMAIN series[id].labels # {}})

\* resolve: one chunk for every bucket that overlaps the range, in order of
\* start, with the series by identifier.
Resolve(sel, range) ==
    LET overlaps(b) == range.lo < range.hi /\ b.lo < range.hi /\ b.hi > range.lo
        tagged(k, ids) == [i \in DOMAIN ids |-> <<k, ids[i]>>]
        chunk(k) == tagged(k, Sorted(FindCandidates(Buckets[k].series, sel), LAMBDA x, y : x < y))
    IN  FlattenSeq([k \in DOMAIN Buckets |-> IF overlaps(Buckets[k]) THEN chunk(k) ELSE <<>>])

\* The distinct elements of a sequence in the order they first appear, as the
\* planner's index maps number them, and the number an element gets.
FirstSeen(s) ==
    FoldLeft(LAMBDA seen, e : IF Contains(seen, e) THEN seen ELSE Append(seen, e), <<>>, s)
NumberOf(s, e) == SelectInSeq(s, LAMBDA x : x = e)

\* resolve_leaf: one roster row for each label set, with the stored series that
\* have it.
ResolveLeaf(sel, range) ==
    LET labels(ref) == Buckets[ref[1]].series[ref[2]].labels
        rows(refs, roster) ==
            [roster |-> roster,
             refs |-> [i \in DOMAIN roster |-> SelectSeq(refs, LAMBDA ref : labels(ref) = roster[i])]]
        grouped(refs) == rows(refs, FirstSeen([i \in DOMAIN refs |-> labels(refs[i])]))
    IN  grouped(Resolve(sel, range))

\* The samples of one roster row in [lo, hi), in the order of the buckets.
SamplesIn(refs, range) ==
    LET of(ref) == SelectSeq(Buckets[ref[1]].series[ref[2]].samples,
                             LAMBDA s : range.lo <= s[1] /\ s[1] < range.hi)
    IN  FlattenSeq([j \in DOMAIN refs |-> of(refs[j])])

----------------------------------------------------------------------------
(* Grouping and matching. *)

Name == "__name__"

DropName(labels) == Restrict(labels, DOMAIN labels \ {Name})

\* group_key_labels
GroupKeyLabels(labels, grouping) ==
    Restrict(labels, IF grouping.by THEN DOMAIN labels \cap grouping.labels
                                    ELSE DOMAIN labels \ (grouping.labels \cup {Name}))

\* build_group_map and build_label_manip: the distinct rows that the series of
\* a roster map to, in order of first appearance, and the row of each series.
MapRows(rows) ==
    LET numbered(out) == [roster |-> out, of |-> [i \in DOMAIN rows |-> NumberOf(out, rows[i])]]
    IN  numbered(FirstSeen(rows))

BuildGroupMap(roster, grouping) == MapRows([i \in DOMAIN roster |-> GroupKeyLabels(roster[i], grouping)])

\* rewrite_label under label_replace: the destination gets the replacement of
\* the source label's value when the expression matches it ("" removes it).
LabelReplace(labels, kind) ==
    LET value == IF kind.src \in DOMAIN labels THEN labels[kind.src] ELSE ""
        rest == Restrict(labels, DOMAIN labels \ {kind.dst})
    IN  CASE value \notin DOMAIN kind.replace -> labels
          [] kind.replace[value] = "" -> rest
          [] OTHER -> rest @@ (kind.dst :> kind.replace[value])

BuildLabelManip(roster, kind) == MapRows([i \in DOMAIN roster |-> LabelReplace(roster[i], kind)])

\* matching_key
MatchingKey(labels, m) ==
    DropName(Restrict(labels, IF m.on THEN DOMAIN labels \cap m.labels ELSE DOMAIN labels \ m.labels))

PreservesMetricName(op) == op \notin {"add", "sub", "mul", "gtbool"}

\* compose_group_labels: the labels of the many side and the included ones of
\* the one side (<<>> where there is none).
ComposeGroupLabels(many, one, include, keepName) ==
    LET own == IF keepName THEN many ELSE DropName(many)
    IN  IF one = <<>> THEN own
        ELSE Restrict(own, DOMAIN own \ include) @@ Restrict(one[1], DOMAIN one[1] \cap include)

\* build_match_table: rows follow the left side, or the right one under
\* group_right; partner 0 stands for none.  A key that appears twice on the
\* other side gives its first series.
BuildMatchTable(lhs, rhs, m, op) ==
    LET rows == IF m.card = "right" THEN rhs ELSE lhs
        others == IF m.card = "right" THEN lhs ELSE rhs
        keep == PreservesMetricName(op)
        partner(l) == SelectInSeq(others, LAMBDA o : MatchingKey(o, m) = MatchingKey(l, m))
        named(l) == IF keep THEN l ELSE DropName(l)
        labels(l) ==
            IF m.card = "one"
            THEN Restrict(named(l), IF m.on THEN DOMAIN named(l) \cap m.labels
                                            ELSE DOMAIN named(l) \ m.labels)
            ELSE ComposeGroupLabels(l, IF partner(l) = 0 THEN <<>> ELSE <<others[partner(l)]>>,
                                    m.include, keep)
    IN  [right |-> m.card = "right",
         partner |-> [i \in DOMAIN rows |-> partner(rows[i])],
         roster |-> [i \in DOMAIN rows |-> labels(rows[i])]]
=============================================================================
