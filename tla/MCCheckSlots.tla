---------------------------- MODULE MCCheckSlots ----------------------------
(* Instances of CheckSlots: two children, one with two checks in a round.   *)
EXTENDS CheckSlots, TLC

CONSTANTS c1, c2, c3, c4, k1, k2

FourCalls == {c1, c2, c3, c4}
TwoChildren == {k1, k2}
FourOwners == (c1 :> k1) @@ (c2 :> k1) @@ (c3 :> k2) @@ (c4 :> k2)
ThreeCalls == {c1, c2, c3}
ThreeOwners == (c1 :> k1) @@ (c2 :> k1) @@ (c3 :> k2)

=============================================================================
