---------------------------- MODULE VectorQuery ----------------------------
(***************************************************************************)
(* Searches in the vector index (vector/src/query_engine.rs), evaluated on *)
(* the snapshot of a QueryEngine while the indexer of VectorIndex goes on. *)
(* A search reads the shared cache several times, the snapshot otherwise;  *)
(* here it does so at once, in every state.                                *)
(***************************************************************************)
EXTENDS VectorIndex

CONSTANT
    Queries    \* searches [at, nprobe, pruning, filter, limit]; pruning -1 is None

\* A filter on the one indexed field: [op, value] with op eq or neq, [op, values]
\* with op in, [op, of] with op and, or; no filter is an empty conjunction.
\* The candidates are what neq complements.
RECURSIVE EvaluateFilter(_, _, _)
EvaluateFilter(s, f, candidates) ==
    CASE f.op = "eq"  -> s.inv[f.value]
      [] f.op = "neq" -> candidates \ s.inv[f.value]
      [] f.op = "in"  -> UNION {s.inv[v] : v \in f.values}
      [] f.op = "and" -> IF f.of = {} THEN candidates
                         ELSE {v \in UNION {EvaluateFilter(s, g, candidates) : g \in f.of} :
                                  \A g \in f.of : v \in EvaluateFilter(s, g, candidates)}
      [] f.op = "or"  -> UNION {EvaluateFilter(s, g, candidates) : g \in f.of}

\* search_centroids: the leaves under the root of the reader's tree, by rank.
SearchCentroids(reader, at, k) ==
    LET top == TopLevel(reader.snapshot.depth)
        level[l \in 1..top] ==
            IF l = top THEN CachedPostings(reader, Root)
            ELSE UNION {CachedPostings(reader, c) : c \in level[l + 1]}
    IN  Ranked(at, level[1], k)

\* Centroids much farther than the closest are skipped; L2 is squared.
PruneCentroids(q, centroids) ==
    LET closest == Distance(q.at, At(Closest(q.at, centroids)))
        factor  == IF Metric = "DotProduct" THEN 1 + q.pruning ELSE (1 + q.pruning) * (1 + q.pruning)
    IN  IF centroids = {} \/ q.pruning = -1 \/ closest < 0 THEN centroids
        ELSE {c \in centroids : Distance(q.at, At(c)) <= factor * closest}

\* Mutant: the posting lists are read from storage as it is now.
LoadAndScoreLatest(reader, centroids) == UNION {StoredPostings(storage, c) : c \in centroids}

LoadAndScore(reader, centroids) == UNION {StoredPostings(reader.snapshot, c) : c \in centroids}

\* The closest candidates that have vector data; which of several at the same
\* distance is among them is left to their numbers.
ResolveTopK(s, at, candidates, k) == Ranked(at, candidates \cap DOMAIN s.data, k)

SearchWithOptions(reader, q) ==
    LET candidates == LoadAndScore(reader,
                          PruneCentroids(q, SearchCentroids(reader, q.at, q.nprobe)))
        allowed    == EvaluateFilter(reader.snapshot, q.filter, candidates)
    IN  ResolveTopK(reader.snapshot, q.at, candidates \cap allowed, q.limit)

(***************************************************************************)
(* The reference: what the snapshot holds, without tree, index or cache.   *)
(***************************************************************************)
RECURSIVE Satisfies(_, _)
Satisfies(attr, f) ==
    CASE f.op = "eq"  -> attr = f.value
      [] f.op = "neq" -> attr # f.value
      [] f.op = "in"  -> attr \in f.values
      [] f.op = "and" -> \A g \in f.of : Satisfies(attr, g)
      [] f.op = "or"  -> \E g \in f.of : Satisfies(attr, g)

Matching(s, q) == {v \in {s.dict[e] : e \in DOMAIN s.dict} : Satisfies(s.data[v].attr, q.filter)}

\* A search answers with vectors of its snapshot that satisfy the filter, never
\* with one an upsert replaced or the indexer is about to write; if it probes
\* every leaf and prunes none, with the closest of all of them.
SearchIsExact ==
    \A q \in Queries :
        LET found    == SearchWithOptions(engine, q)
            matching == Matching(engine.snapshot, q)
            leaves   == {c \in DOMAIN engine.snapshot.info : LevelOf(c) = 1}
        IN  /\ found \subseteq matching
            /\ q.nprobe >= Cardinality(leaves) /\ q.pruning = -1 =>
                  /\ Cardinality(found) = Min({q.limit, Cardinality(matching)})
                  /\ \A v \in found, w \in matching \ found :
                        Distance(q.at, At(v)) <= Distance(q.at, At(w))
=============================================================================
