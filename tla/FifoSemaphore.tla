--------------------------- MODULE FifoSemaphore ----------------------------
(***************************************************************************)
(* What the check throttle promises, with none of how it keeps it: at most *)
(* Size callers are in, everyone else stands in a line that only its head  *)
(* leaves for a slot, and a slot given back goes to the head in the same   *)
(* step.  A caller may walk away from the line at any time.                *)
(***************************************************************************)
EXTENDS Naturals, FiniteSets, SequencesExt

CONSTANTS Caller, Size

VARIABLES
  inside,     \* the callers that own a slot
  line        \* the callers waiting for one, in the order they arrived

vars == <<inside, line>>

Outside(c) == c \notin inside /\ ~Contains(line, c)

Init ==
  /\ inside = {}
  /\ line = <<>>

Arrive(c) ==
  /\ Outside(c)
  /\ \/ /\ Cardinality(inside) < Size /\ line = <<>>
        /\ inside' = inside \cup {c}
        /\ UNCHANGED line
     \/ /\ Cardinality(inside) = Size
        /\ line' = Append(line, c)
        /\ UNCHANGED inside

Depart(c) ==
  /\ c \in inside
  /\ \/ /\ line = <<>>
        /\ inside' = inside \ {c}
        /\ UNCHANGED line
     \/ /\ line # <<>>
        /\ inside' = (inside \ {c}) \cup {Head(line)}
        /\ line' = Tail(line)

WalkAway(i) ==
  /\ i \in DOMAIN line
  /\ line' = RemoveAt(line, i)
  /\ UNCHANGED inside

Next ==
  \/ \E c \in Caller : Arrive(c) \/ Depart(c)
  \/ \E i \in DOMAIN line : WalkAway(i)

Spec == Init /\ [][Next]_vars

=============================================================================
