---------------------------- MODULE MCChatSlots ----------------------------
(***************************************************************************)
(* Two sessions on one store.  One rewinds and keeps two saves under way,  *)
(* the other one save; each opens one chat or starts one conversation.     *)
(***************************************************************************)
EXTENDS ChatSlots, TLC

CONSTANTS p, q, s1, s2, s3, s4, bp, bq

MCBranch == (p :> bp) @@ (q :> bq)
MCInFlight == (p :> 1) @@ (q :> 2)
MCOneInFlight == (p :> 1) @@ (q :> 1)
MCSymmetry == Permutations(Names)

\* Bound: three messages between the two.  Two of one session are the least a
\* save can overlap another with, and one of the other takes the slot.
ThreeSaid == sess[p].said + sess[q].said <= 3

\* The sessions the last theorems of ChatSlotsProofs are about.
OrderlySpec == Init /\ [][Next /\ NoReturn]_vars
=============================================================================
