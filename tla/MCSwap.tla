------------------------------- MODULE MCSwap -------------------------------
(* Instances of Swap for TLC: p1 and p2 use neighbouring pages, p3 one that *)
(* overlaps p2's and another.                                               *)
EXTENDS Swap, TLC

CONSTANTS p1, p2, p3

Neighbours == p1 :> {-1, 0} @@ p2 :> {2} @@ p3 :> {3, 6}
Tall == p1 :> {6}
SomePages == {<<1, 1>>, <<2, 2>>}
=============================================================================
