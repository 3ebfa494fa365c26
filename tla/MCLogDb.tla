------------------------------ MODULE MCLogDb ------------------------------
(* A small instance of LogDb for TLC. *)
EXTENDS LogDb

CONSTANTS k1, a1, a2, a3, f1

OneKey       == {k1}
OneSingle    == {<<k1>>}
ThreeAppends == {a1, a2, a3}
OneFlush     == {f1}
None         == {}
PutFailure   == {"put"}
=============================================================================
