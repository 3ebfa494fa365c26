--------------------------- MODULE VectorGeometry ---------------------------
(***************************************************************************)
(* Distances, two-means clustering and the split heuristics                *)
(* (vector/src/math) for vectors of two dimensions with integer            *)
(* coordinates.  A posting is a tuple <<level, number, vector>>: the       *)
(* vector of an id never changes.  Means are rounded down.                 *)
(***************************************************************************)
EXTENDS Integers, FiniteSets, FiniteSetsExt

CONSTANTS
    Metric,          \* "L2" or "DotProduct"; Cosine is L2 on unit vectors
    MaxIterations    \* of the k-means loop (20)

LevelOf(p) == p[1]
At(p) == p[3]

L2Distance(u, v) == (u[1] - v[1]) * (u[1] - v[1]) + (u[2] - v[2]) * (u[2] - v[2])
DotProduct(u, v) == u[1] * v[1] + u[2] * v[2]

\* compute_distance, ordered so that less is closer.
Distance(u, v) == IF Metric = "DotProduct" THEN -DotProduct(u, v) ELSE L2Distance(u, v)

\* RankedPosting's order: the distance, then the id (number within a level).
Closest(x, ps) ==
    CHOOSE p \in ps : \A q \in ps :
        \/ Distance(x, At(p)) < Distance(x, At(q))
        \/ Distance(x, At(p)) = Distance(x, At(q)) /\ p[2] <= q[2]

\* score_and_rank: the k postings ranked first.
Ranked(x, ps, k) ==
    {p \in ps : Cardinality({q \in ps \ {p} : Closest(x, {p, q}) = q}) < k}

MeanVector(ps) ==
    LET mean(i) == FoldSet(LAMBDA p, sum : At(p)[i] + sum, 0, ps) \div Cardinality(ps)
    IN  <<mean(1), mean(2)>>

\* farthest_pair_init: always by L2; among equals the pair found first.
FarthestPair(ps) ==
    CHOOSE pair \in {pq \in ps \X ps : pq[1][2] < pq[2][2]} :
        \A other \in ps \X ps :
            L2Distance(At(pair[1]), At(pair[2])) >= L2Distance(At(other[1]), At(other[2]))

\* The postings strictly closer to the second of two centroids.
SecondSide(ps, c) == {p \in ps : Distance(At(p), c[2]) < Distance(At(p), c[1])}

\* two_means with kmeans_loop; a side that is empty keeps its centroid.  More
\* iterations than the assignment takes to settle change nothing.  This is the
\* start for up to 100 vectors; for more it is random (kmeans++) and left out.
TwoMeans(ps) ==
    LET pair == FarthestPair(ps)
        loop[i \in 0..MaxIterations] ==
            IF i = 0 THEN <<At(pair[1]), At(pair[2])>>
            ELSE LET c      == loop[i - 1]
                     second == SecondSide(ps, c)
                 IN  <<IF second = ps THEN c[1] ELSE MeanVector(ps \ second),
                       IF second = {} THEN c[2] ELSE MeanVector(second)>>
    IN  loop[MaxIterations]

\* A vector of the split centroid c may now be nearer to a neighbour of c.
SplitHeuristic(x, c, two) ==
    Distance(x, c) <= Distance(x, two[1]) /\ Distance(x, c) <= Distance(x, two[2])

\* A vector of a neighbour may now be nearer to one of the new centroids.
NeighbourSplitHeuristic(x, c, two) ==
    Distance(x, two[1]) <= Distance(x, c) \/ Distance(x, two[2]) <= Distance(x, c)
=============================================================================
