---------------------------- MODULE MCTsdbIngest ----------------------------
(* Small instances of TsdbIngest for TLC. *)
EXTENDS TsdbIngest, TLC

CONSTANTS b1, b2, s1, s2, c1, c2, f1, q1

OneBucket  == {b1}
TwoBuckets == {b1, b2}
TwoSeries  == {s1, s2}
TwoCalls   == {c1, c2}
OneFlush   == {f1}
OneQuery   == {q1}
None       == {}

\* The calls meet in one bucket, write to different ones, or one spans both.
Nothing == [b \in {} |-> <<>>]
MeetingRequests ==
    {(c1 :> (b1 :> <<s2, s1>>)) @@ (c2 :> (b1 :> <<s1>>)),
     (c1 :> (b2 :> <<s1>>)) @@ (c2 :> (b1 :> <<s1>>)),
     (c1 :> ((b1 :> <<s2>>) @@ (b2 :> <<s1>>))) @@ (c2 :> Nothing)}

\* Each call writes one series of the same bucket.
SameBucketRequests == [TwoCalls -> {b1 :> <<s1>>, b1 :> <<s2>>}]
=============================================================================
