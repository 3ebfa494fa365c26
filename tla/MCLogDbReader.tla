--------------------------- MODULE MCLogDbReader ---------------------------
(* A small instance of LogDb and LogDbReader for TLC. *)
EXTENDS LogDbReader

CONSTANTS k1, k2, a1, a2, f1, r1

TwoKeys     == {k1, k2}
OnePair     == {<<k1, k2>>}
TwoAppends  == {a1, a2}
OneFlush    == {f1}
OneReader   == {r1}
AllFailures == {"put", "snapshot", "flush", "refresh"}
=============================================================================
