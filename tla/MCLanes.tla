------------------------------ MODULE MCLanes ------------------------------
(***************************************************************************)
(* Three items, two lanes, two files.  The first declares and writes f1;   *)
(* the second declares f2 but changes f1 too, so what either lands meets   *)
(* the other's work; the third waits for the first.  One hand edit, one    *)
(* crash, a checkpoint after every landing.                                *)
(***************************************************************************)
EXTENDS Lanes, TLC

CONSTANTS i1, i2, i3, f1, f2

MCOrder == <<i1, i2, i3>>
MCNeeds == [i \in Items |-> IF i = i3 THEN {i1} ELSE {}]
MCTouches == (i1 :> {f1}) @@ (i2 :> {f2}) @@ (i3 :> {})
MCWrites == (i1 :> {f1}) @@ (i2 :> {f1, f2}) @@ (i3 :> {f2})
=============================================================================
