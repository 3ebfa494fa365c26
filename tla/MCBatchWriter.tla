--------------------------- MODULE MCBatchWriter ---------------------------
(* BatchWriter with model values for its writes and callers.               *)
EXTENDS BatchWriter

CONSTANTS w1, w2, w3, f1, f2

ThreeWrites == {w1, w2, w3}
TwoCallers == {f1, f2}
=============================================================================
