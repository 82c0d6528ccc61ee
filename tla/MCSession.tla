----------------------------- MODULE MCSession -----------------------------
(* Instances of Session: every ask may be the turn's own or a child's.      *)
EXTENDS Session, TLC

CONSTANTS c1, c2, a1, a2

TwoClients == {c1, c2}
OneClient == {c1}
TwoAsks == {a1, a2}
OneAsk == {a1}
NoAsk == {}
Symmetry == Permutations(Client) \cup Permutations(Ask)

=============================================================================
