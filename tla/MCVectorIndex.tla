--------------------------- MODULE MCVectorIndex ---------------------------
(***************************************************************************)
(* Instances of VectorIndex with searches.                                 *)
(***************************************************************************)
EXTENDS VectorQuery

CONSTANTS v1, v2, v3, v4, v5, v6, red, blue

W(id, attr, at) == [id |-> id, attr |-> attr, at |-> at]

\* Five vectors anywhere (which of v2 to v5 is where does not matter), then an
\* upsert of one of them, written twice, and a sixth, then another upsert.
TwoCentroids == << <<0, 0>>, <<60, 0>> >>
Places == {<<0, 0>>, <<20, 10>>, <<30, 0>>, <<40, 0>>}
Rising == {p \in [1..4 -> Places] : \A i \in 1..3 : p[i][1] <= p[i + 1][1]}
GrowThenUpsert ==
    {<< <<W(v1, red, <<0, 0>>), W(v2, blue, p[1]), W(v3, red, p[2]), W(v4, blue, p[3]), W(v5, red, p[4])>>,
        <<W(v1, red, <<0, 0>>), W(v1, blue, q[1]), W(v6, red, q[2])>>,
        <<W(v2, red, <<50, 0>>)>> >> :
        p \in Rising, q \in {<< <<0, 0>>, <<50, 10>> >>, << <<40, 0>>, <<20, 0>> >>}}

\* Searches that probe every leaf, and one that probes two and prunes.
Eq(v) == [op |-> "eq", value |-> v]
Neq(v) == [op |-> "neq", value |-> v]
And(fs) == [op |-> "and", of |-> fs]
Or(fs) == [op |-> "or", of |-> fs]
Search(at, nprobe, pruning, filter, limit) ==
    [at |-> at, nprobe |-> nprobe, pruning |-> pruning, filter |-> filter, limit |-> limit]
FewSearches ==
    {Search(<<25, 0>>, 9, -1, And({}), 3),
     Search(<<45, 5>>, 9, -1, Or({And({Neq(red), [op |-> "in", values |-> {red, blue}]}), Eq(blue)}), 9),
     Search(<<10, 0>>, 2, 1, Eq(red), 2)}
=============================================================================
