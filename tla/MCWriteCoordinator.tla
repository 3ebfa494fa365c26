------------------------- MODULE MCWriteCoordinator -------------------------
(* WriteCoordinator with model values for its channels.  Three commands on *)
(* one channel fill it and the channel to the flush task; a command on     *)
(* each of two channels lets them overtake one another.                    *)
EXTENDS WriteCoordinator, TLC

CONSTANTS a, b

TwoChannels == {a, b}
ThreeOrTwo == {(a :> 3) @@ (b :> 0), (a :> 1) @@ (b :> 1)}
=============================================================================
