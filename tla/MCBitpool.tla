----------------------------- MODULE MCBitpool -----------------------------
(* The bitpool of sched_create: 64 buckets and BITPOOL_PERC_DEFAULT. *)
EXTENDS Bitpool, TLC

CONSTANTS p1, p2, x1, x2, x3, x4, x5, x6

Default == (0 :> 10) @@ (1 :> 15) @@ (2 :> 25) @@ (3 :> 50)

\* Two low payloads, one of each other range but real.
Mixed == {x1, x2, x3, x4}
MixedClass == (x1 :> 3) @@ (x2 :> 3) @@ (x3 :> 2) @@ (x4 :> 1)
TwoProducers == {p1, p2}
OneProducer == {p1}

\* As many real payloads as the real range has buckets.
Reals == {x1, x2, x3, x4, x5, x6}
RealSymmetry == Permutations(Reals)
RealClass == [x \in Reals |-> 0]

\* Low payloads only.
Lows == {x1, x2, x3}
LowClass == [x \in Lows |-> 3]
=============================================================================
