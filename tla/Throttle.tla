------------------------------ MODULE Throttle ------------------------------
(***************************************************************************)
(* The value one process keeps about its check slots, and the changes its  *)
(* one lock makes to it: how many slots are out, and the calls waiting for *)
(* one, oldest first.  CheckSlots builds its actions from these operators. *)
(***************************************************************************)
EXTENDS Naturals, SequencesExt

CONSTANT
  Size      \* the slots: agents.check_slots, DefaultCheckSlots when unset

ASSUME SizeAssumption == Size \in Nat \ {0}

-----------------------------------------------------------------------------
\* Faulty variants, for the mutation runs only: one slot too many let in, a
\* waiter that jumps the queue, and a release that forgets who waits.
HasRoomOffByOne(t) == t.running <= Size /\ t.queue = <<>>
JoinAtFront(t, c) == [t EXCEPT !.queue = <<c>> \o @]
GiveBackToPool(t) == [t EXCEPT !.running = @ - 1]
-----------------------------------------------------------------------------
NewThrottle == [running |-> 0, queue |-> <<>>]

\* A take is let in at once only when nobody is in front of it.
HasRoom(t) == t.running < Size /\ t.queue = <<>>

Admit(t) == [t EXCEPT !.running = @ + 1]

Join(t, c) == [t EXCEPT !.queue = Append(@, c)]

Leave(t, i) == [t EXCEPT !.queue = RemoveAt(@, i)]

\* The call a release hands its slot to: the longest waiter, if any.
NextTurn(t) == IF t.queue = <<>> THEN {} ELSE {Head(t.queue)}

\* A release hands the slot over without returning it to the pool, so nobody
\* behind the longest waiter can take it; only an empty queue lowers running.
GiveBack(t) == IF t.queue = <<>>
               THEN [t EXCEPT !.running = @ - 1]
               ELSE [t EXCEPT !.queue = Tail(@)]

=============================================================================
