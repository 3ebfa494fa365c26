--------------------------- MODULE MCBufferQueue ---------------------------
(* BufferQueue with model values for its processes and batch locations.    *)
EXTENDS BufferQueue, TLC

CONSTANTS p1, p2, c1, c2, l1, l2

TwoProducers == {p1, p2}
TwoConsumers == {c1, c2}
TwoLocations == {l1, l2}
OneProducer == {p1}

SymmetryOfLocations == Permutations(Locations)
Symmetry == Permutations(Producers) \cup Permutations(Consumers)
                \cup Permutations(Locations)
=============================================================================
