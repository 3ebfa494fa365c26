---------------------------- MODULE MCIngestLoop ----------------------------
(* IngestLoop with model values for its processes and batch locations. *)
EXTENDS IngestLoop, TLC

CONSTANTS p1, c1, c2, l1, l2

OneProducer    == {p1}
TwoConsumers   == {c1, c2}
TwoLocations   == {l1, l2}
=============================================================================
