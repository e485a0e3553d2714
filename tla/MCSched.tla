------------------------------ MODULE MCSched ------------------------------
(* A scheduler as sched_create makes it (64 buckets, BITPOOL_PERC_DEFAULT), *)
(* with two clients that push two payloads, or three.                       *)
EXTENDS Sched, TLC

CONSTANTS p1, p2, x1, x2, x3

TwoClients == {p1, p2}
DefaultPerc == 0 :> 10 @@ 1 :> 15 @@ 2 :> 25 @@ 3 :> 50

TwoPayloads == {x1, x2}
RealAndLow == x1 :> 0 @@ x2 :> 3
BothHigh == x1 :> 1 @@ x2 :> 1

\* Of the 8 buckets of a smaller queue the high range has one.
ThreePayloads == {x1, x2, x3}
AllHigh == [x \in ThreePayloads |-> 1]

AllLoads == Payloads \cup {NoPayload}
=============================================================================
