------------------------------ MODULE MCClaims ------------------------------
(* Instances of Claims: every writer's paths meet every other's.            *)
EXTENDS Claims, TLC

CONSTANTS w1, w2, w3

TwoWriters == {w1, w2}
ThreeWriters == {w1, w2, w3}
AllClash == Writer \X Writer
Once == [w \in Writer |-> 1]
Never == [w \in Writer |-> 0]
FirstTwice == [w \in Writer |-> IF w = w1 THEN 2 ELSE 1]
SecondOnce == [w \in Writer |-> IF w = w2 THEN 1 ELSE 0]
Symmetry == Permutations(Writer)

=============================================================================
