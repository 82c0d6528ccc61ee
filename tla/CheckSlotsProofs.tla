-------------------------- MODULE CheckSlotsProofs --------------------------
(***************************************************************************)
(* The throttle's invariants and its refinement of FifoSemaphore, for any  *)
(* number of slots, calls and children.  The inductive invariant is the    *)
(* conjunction of the ones the runs check: the count is only right while   *)
(* the queue is exactly the waiters, and the queue is only served rightly  *)
(* while nobody waits beside a free slot.                                  *)
(***************************************************************************)
EXTENDS CheckSlots, QueueLemmas, FiniteSetTheorems

ThrottleInv == TypeOK /\ SlotsAccounted /\ NoIdleSlot /\ QueueIsTheWaiters

IInv == ThrottleInv /\ LaneCountsWaits

-----------------------------------------------------------------------------
\* The owners and the drawn waits of a finite set of calls can be counted.
LEMMA OwnersFinite == IsFiniteSet(Owners) /\ Cardinality(Owners) \in Nat
<1>1. Owners \in SUBSET Call
  BY DEF Owners
<1> QED  BY <1>1, CallAssumption, FS_Subset, FS_CardinalityType

LEMMA DrawnFinite ==
  ASSUME NEW k
  PROVE  IsFiniteSet(Drawn(k)) /\ Cardinality(Drawn(k)) \in Nat
<1>1. Drawn(k) \in SUBSET Call
  BY DEF Drawn
<1> QED  BY <1>1, CallAssumption, FS_Subset, FS_CardinalityType

\* A release by a call that owns a slot keeps the throttle's part of the
\* invariant: the slot goes to the head of the queue, or the count drops.
LEMMA ReleaseStep ==
  ASSUME ThrottleInv, NEW c \in Call, NEW to \in {"lost", "out"},
         pc[c] \in {"held", "handed", "passing"},
         pc' = [pc EXCEPT ![c] = to],
         Release, ended' = ended
  PROVE  /\ slots' \in [running : 0..Size, queue : Seq(Call)]
         /\ turns' \subseteq Call
         /\ pc' \in [Call -> States]
         /\ SlotsAccounted' /\ NoIdleSlot' /\ QueueIsTheWaiters'
<1> USE SizeAssumption
<1>1. /\ slots \in [running : 0..Size, queue : Seq(Call)]
      /\ slots.running \in 0..Size /\ slots.queue \in Seq(Call)
      /\ pc \in [Call -> States] /\ turns \subseteq Call
  BY DEF ThrottleInv, TypeOK
<1>2. pc' \in [Call -> States]
  BY <1>1 DEF States
<1>3. Waiting' = Waiting /\ c \notin Waiting /\ Waiting \subseteq Call
  BY <1>1 DEF Waiting
<1>4. c \in Owners /\ slots.running = Cardinality(Owners)
  BY DEF Owners, ThrottleInv, SlotsAccounted
<1>5. /\ ToSet(slots.queue) = Waiting \ turns
      /\ IsInjective(slots.queue)
  BY DEF ThrottleInv, QueueIsTheWaiters
<1>6. CASE slots.queue = <<>>
  <2>1. /\ slots' = [slots EXCEPT !.running = @ - 1] /\ turns' = turns
    BY <1>6 DEF Release, GiveBack, NextTurn
  <2>2. slots'.queue = slots.queue /\ slots'.running = slots.running - 1
    BY <1>1, <2>1
  <2>3. Owners' = Owners \ {c}
    BY <1>1, <1>3, <2>1 DEF Owners, Waiting
  <2>4. Cardinality(Owners') = Cardinality(Owners) - 1 /\ Cardinality(Owners') \in Nat
    BY <1>4, <2>3, OwnersFinite, FS_RemoveElement, FS_CardinalityType
  <2>5. slots'.running \in 0..Size
    BY <1>1, <1>4, <2>2, <2>4
  <2>6. slots' \in [running : 0..Size, queue : Seq(Call)]
    BY <1>1, <2>1, <2>2, <2>5
  <2> QED
    BY <1>1, <1>2, <1>3, <1>4, <1>5, <1>6, <2>1, <2>2, <2>4, <2>6
    DEF SlotsAccounted, NoIdleSlot, QueueIsTheWaiters
<1>7. CASE slots.queue # <<>>
  <2> DEFINE h == Head(slots.queue)
  <2>1. /\ slots' = [slots EXCEPT !.queue = Tail(@)] /\ turns' = turns \cup {h}
    BY <1>7 DEF Release, GiveBack, NextTurn
  <2>2. slots'.queue = Tail(slots.queue) /\ slots'.running = slots.running
    BY <1>1, <2>1
  <2>3. /\ Tail(slots.queue) \in Seq(Call)
        /\ h \in Waiting \ turns
        /\ ToSet(Tail(slots.queue)) = (Waiting \ turns) \ {h}
        /\ IsInjective(Tail(slots.queue))
    BY <1>1, <1>5, <1>7, TailOfQueue
  <2> HIDE DEF h
  <2>4. h \in Call /\ h # c /\ h \notin Owners
    BY <1>3, <2>3 DEF Owners, Waiting
  <2>5. Owners' = (Owners \ {c}) \cup {h}
    BY <1>1, <1>3, <2>1, <2>3, <2>4 DEF Owners, Waiting
  <2>6. Cardinality(Owners') = Cardinality(Owners)
    <3>1. IsFiniteSet(Owners \ {c}) /\ Cardinality(Owners \ {c}) = Cardinality(Owners) - 1
      BY <1>4, OwnersFinite, FS_RemoveElement
    <3>2. h \notin Owners \ {c}
      BY <2>4
    <3>3. Cardinality((Owners \ {c}) \cup {h}) = Cardinality(Owners \ {c}) + 1
      BY <3>1, <3>2, FS_AddElement
    <3> QED  BY <2>5, <3>1, <3>3, OwnersFinite
  <2>7. slots' \in [running : 0..Size, queue : Seq(Call)]
    BY <1>1, <2>1, <2>2, <2>3
  <2>8. SlotsAccounted'
    BY <1>4, <2>2, <2>6 DEF SlotsAccounted
  <2>9. NoIdleSlot'
    BY <1>7, <2>2 DEF NoIdleSlot, ThrottleInv
  <2>10. QueueIsTheWaiters'
    <3>1. ToSet(slots'.queue) = Waiting' \ turns'
      BY <1>3, <2>1, <2>2, <2>3
    <3>2. IsInjective(slots'.queue)
      BY <2>2, <2>3
    <3> QED  BY <3>1, <3>2 DEF QueueIsTheWaiters
  <2> QED  BY <1>1, <1>2, <2>1, <2>4, <2>7, <2>8, <2>9, <2>10
<1> QED  BY <1>6, <1>7

\* One wait more or less on one lane moves that lane's count by one.
LEMMA DrawnMoves ==
  ASSUME TypeOK, LaneCountsWaits, NEW c \in Call
  PROVE  /\ (/\ Moves(c, "queued", "parked")
             /\ waiters' = [waiters EXCEPT ![Owner[c]] = @ + 1])
               => waiters' \in [Child -> Nat] /\ LaneCountsWaits'
         /\ (/\ Moves(c, "won", "held") \/ Moves(c, "lost", "out")
             /\ waiters' = [waiters EXCEPT ![Owner[c]] = @ - 1])
               => waiters' \in [Child -> Nat] /\ LaneCountsWaits'
<1> DEFINE k == Owner[c]
<1>1. /\ waiters \in [Child -> Nat] /\ pc \in [Call -> States] /\ k \in Child
      /\ \A j \in Child : waiters[j] = Cardinality(Drawn(j))
  BY OwnerAssumption DEF TypeOK, LaneCountsWaits
<1>2. ASSUME Moves(c, "queued", "parked"),
             waiters' = [waiters EXCEPT ![k] = @ + 1]
      PROVE  waiters' \in [Child -> Nat] /\ LaneCountsWaits'
  <2>1. Drawn(k)' = Drawn(k) \cup {c} /\ c \notin Drawn(k)
    BY <1>1, <1>2 DEF Drawn, Moves
  <2>2. \A j \in Child \ {k} : Drawn(j)' = Drawn(j)
    BY <1>1, <1>2 DEF Drawn, Moves
  <2>3. Cardinality(Drawn(k)') = Cardinality(Drawn(k)) + 1
    BY <2>1, DrawnFinite, FS_AddElement
  <2>4. /\ waiters' \in [Child -> Nat] /\ waiters'[k] = waiters[k] + 1
        /\ \A j \in Child \ {k} : waiters'[j] = waiters[j]
    BY <1>1, <1>2
  <2> QED  BY <1>1, <2>2, <2>3, <2>4 DEF LaneCountsWaits
<1>3. ASSUME Moves(c, "won", "held") \/ Moves(c, "lost", "out"),
             waiters' = [waiters EXCEPT ![k] = @ - 1]
      PROVE  waiters' \in [Child -> Nat] /\ LaneCountsWaits'
  <2>1. Drawn(k)' = Drawn(k) \ {c} /\ c \in Drawn(k)
    BY <1>1, <1>3 DEF Drawn, Moves
  <2>2. \A j \in Child \ {k} : Drawn(j)' = Drawn(j)
    BY <1>1, <1>3 DEF Drawn, Moves
  <2>3. /\ Cardinality(Drawn(k)') = Cardinality(Drawn(k)) - 1
        /\ Cardinality(Drawn(k)') \in Nat
    BY <2>1, DrawnFinite, FS_RemoveElement, FS_CardinalityType
  <2>4. waiters[k] - 1 \in Nat
    BY <1>1, <2>3
  <2>5. /\ waiters' \in [Child -> Nat] /\ waiters'[k] = waiters[k] - 1
        /\ \A j \in Child \ {k} : waiters'[j] = waiters[j]
    BY <1>1, <1>3, <2>4
  <2> QED  BY <1>1, <2>2, <2>3, <2>5 DEF LaneCountsWaits
<1> QED  BY <1>2, <1>3

\* A step that moves one call between two states the lane does not tell apart
\* leaves every lane's count.
LEMMA DrawnStays ==
  ASSUME TypeOK, LaneCountsWaits, NEW c \in Call, NEW to \in States,
         pc' = [pc EXCEPT ![c] = to], waiters' = waiters,
         pc[c] \in {"parked", "gaveup", "passing", "won", "lost"}
           <=> to \in {"parked", "gaveup", "passing", "won", "lost"}
  PROVE  LaneCountsWaits'
<1>1. \A k \in Child : Drawn(k)' = Drawn(k)
  BY DEF Drawn, TypeOK
<1> QED  BY <1>1 DEF LaneCountsWaits

-----------------------------------------------------------------------------
LEMMA InitInv == Init => IInv
<1> SUFFICES ASSUME Init PROVE IInv
  OBVIOUS
<1> USE SizeAssumption
<1>1. slots.running = 0 /\ slots.queue = <<>> /\ turns = {} /\ ended = {}
      /\ pc = [c \in Call |-> "out"] /\ waiters = [k \in Child |-> 0]
      /\ slots \in [running : 0..Size, queue : Seq(Call)]
  BY DEF Init, NewThrottle
<1>2. Owners = {} /\ Waiting = {} /\ \A k : Drawn(k) = {}
  BY <1>1 DEF Owners, Waiting, Drawn
<1>3. TypeOK
  BY <1>1 DEF TypeOK, States
<1>4. QueueIsTheWaiters
  BY <1>1, <1>2 DEF QueueIsTheWaiters, ToSet, IsInjective
<1> QED
  BY <1>1, <1>2, <1>3, <1>4, FS_EmptySet
  DEF IInv, ThrottleInv, SlotsAccounted, NoIdleSlot, LaneCountsWaits

LEMMA TakeInv == ASSUME IInv, NEW c \in Call, Take(c) PROVE IInv'
<1> USE SizeAssumption
<1>1. /\ slots \in [running : 0..Size, queue : Seq(Call)]
      /\ slots.running \in 0..Size /\ slots.queue \in Seq(Call)
      /\ pc \in [Call -> States] /\ turns \subseteq Call /\ ended \subseteq Call
      /\ ToSet(slots.queue) = Waiting \ turns /\ IsInjective(slots.queue)
      /\ slots.running = Cardinality(Owners)
      /\ waiters \in [Child -> Nat]
  BY DEF IInv, ThrottleInv, TypeOK, SlotsAccounted, QueueIsTheWaiters
<1>2. /\ pc[c] = "out" /\ turns' = turns \ {c} /\ ended' = ended \ {c}
      /\ waiters' = waiters
  BY DEF Take, Moves
<1>3. c \notin Waiting /\ c \notin Owners
  BY <1>2 DEF Waiting, Owners
<1>4. CASE HasRoom(slots) /\ slots' = Admit(slots) /\ Moves(c, "out", "held")
  <2>1. /\ slots'.running = slots.running + 1 /\ slots'.queue = <<>>
        /\ slots.queue = <<>> /\ slots.running < Size
        /\ slots' \in [running : 0..Size, queue : Seq(Call)]
    BY <1>1, <1>4 DEF HasRoom, Admit
  <2>2. pc' = [pc EXCEPT ![c] = "held"] /\ pc' \in [Call -> States]
    BY <1>1, <1>4 DEF Moves, States
  <2>3. Owners' = Owners \cup {c}
    BY <1>1, <1>2, <2>2 DEF Owners, Waiting
  <2>4. Waiting' = Waiting /\ Waiting' \ turns' = Waiting \ turns
    BY <1>1, <1>2, <1>3, <2>2 DEF Waiting
  <2>5. Cardinality(Owners') = Cardinality(Owners) + 1
    BY <1>3, <2>3, OwnersFinite, FS_AddElement
  <2>6. LaneCountsWaits'
    BY <1>2, <2>2, DrawnStays DEF IInv, ThrottleInv, States
  <2> QED
    BY <1>1, <1>2, <2>1, <2>2, <2>4, <2>5, <2>6
    DEF IInv, ThrottleInv, TypeOK, SlotsAccounted, NoIdleSlot, QueueIsTheWaiters
<1>5. CASE ~HasRoom(slots) /\ slots' = Join(slots, c) /\ Moves(c, "out", "queued")
  <2>1. slots'.running = slots.running /\ slots'.queue = Append(slots.queue, c)
    BY <1>1, <1>5 DEF Join
  <2>2. /\ Append(slots.queue, c) \in Seq(Call)
        /\ ToSet(Append(slots.queue, c)) = ToSet(slots.queue) \cup {c}
        /\ IsInjective(Append(slots.queue, c))
    BY <1>1, <1>3, AppendToQueue
  <2>3. slots' \in [running : 0..Size, queue : Seq(Call)]
    BY <1>1, <1>5, <2>2 DEF Join
  <2>4. pc' = [pc EXCEPT ![c] = "queued"] /\ pc' \in [Call -> States]
    BY <1>1, <1>5 DEF Moves, States
  <2>5. Waiting' = Waiting \cup {c}
    BY <1>1, <1>2, <2>4 DEF Waiting
  <2>6. Owners' = Owners
    BY <1>1, <1>2, <2>4 DEF Owners, Waiting
  <2>7. slots.running = Size
    BY <1>1, <1>5 DEF HasRoom, IInv, ThrottleInv, NoIdleSlot
  <2>8. LaneCountsWaits'
    BY <1>2, <2>4, DrawnStays DEF IInv, ThrottleInv, States
  <2>9. QueueIsTheWaiters'
    <3>1. ToSet(slots'.queue) = Waiting' \ turns'
      BY <1>1, <1>2, <2>1, <2>2, <2>5
    <3> QED  BY <2>1, <2>2, <3>1 DEF QueueIsTheWaiters
  <2> QED
    BY <1>1, <1>2, <2>1, <2>3, <2>4, <2>6, <2>7, <2>8, <2>9
    DEF IInv, ThrottleInv, TypeOK, SlotsAccounted, NoIdleSlot
<1> QED  BY <1>4, <1>5 DEF Take

\* The steps that move a call between states that own, and wait, alike.
LEMMA QuietInv ==
  ASSUME IInv, NEW c \in Call,
         Tell(c) \/ TurnComes(c) \/ GiveUp(c) \/ Settle(c) \/ HandOff(c)
  PROVE  IInv'
<1> USE SizeAssumption
<1>1. /\ slots \in [running : 0..Size, queue : Seq(Call)]
      /\ pc \in [Call -> States] /\ turns \subseteq Call /\ ended \subseteq Call
      /\ waiters \in [Child -> Nat] /\ TypeOK /\ LaneCountsWaits
      /\ slots.running = Cardinality(Owners)
  BY DEF IInv, ThrottleInv, TypeOK, SlotsAccounted
<1>2. slots' = slots /\ turns' = turns /\ ended' = ended
  BY DEF Tell, TurnComes, GiveUp, Settle, HandOff
<1>3. pc' \in [Call -> States]
  BY <1>1 DEF Tell, TurnComes, GiveUp, Settle, HandOff, Moves, States
<1>4. Owners' = Owners
  BY <1>1, <1>2 DEF Tell, TurnComes, GiveUp, Settle, HandOff, Moves, Owners, Waiting
<1>5. Waiting' \ turns' = Waiting \ turns
  BY <1>1, <1>2 DEF Tell, TurnComes, GiveUp, Settle, HandOff, Moves, Waiting
<1>6. waiters' \in [Child -> Nat] /\ LaneCountsWaits'
  <2>1. CASE Tell(c)
    BY <1>1, <2>1, DrawnMoves DEF Tell
  <2>2. CASE Settle(c)
    BY <1>1, <2>2, DrawnMoves DEF Settle
  <2>3. CASE TurnComes(c) \/ GiveUp(c)
    BY <1>1, <2>3, DrawnStays DEF TurnComes, GiveUp, Moves, States
  <2>4. CASE HandOff(c)
    BY <1>1, <2>4, DrawnStays DEF HandOff, Moves, States
  <2> QED  BY <2>1, <2>2, <2>3, <2>4
<1> QED
  BY <1>1, <1>2, <1>3, <1>4, <1>5, <1>6
  DEF IInv, ThrottleInv, TypeOK, SlotsAccounted, NoIdleSlot, QueueIsTheWaiters

LEMMA WithdrawInv == ASSUME IInv, NEW c \in Call, Withdraw(c) PROVE IInv'
<1> USE SizeAssumption
<1>1. /\ slots \in [running : 0..Size, queue : Seq(Call)]
      /\ slots.running \in 0..Size /\ slots.queue \in Seq(Call)
      /\ pc \in [Call -> States] /\ turns \subseteq Call /\ ended \subseteq Call
      /\ ToSet(slots.queue) = Waiting \ turns /\ IsInjective(slots.queue)
      /\ slots.running = Cardinality(Owners)
      /\ waiters \in [Child -> Nat] /\ TypeOK /\ LaneCountsWaits
  BY DEF IInv, ThrottleInv, TypeOK, SlotsAccounted, QueueIsTheWaiters
<1>2. /\ pc[c] = "gaveup" /\ turns' = turns /\ ended' = ended
      /\ waiters' = waiters /\ c \in Waiting
  BY DEF Withdraw, Moves, Waiting
<1>3. ASSUME NEW i \in DOMAIN slots.queue, slots.queue[i] = c,
             slots' = Leave(slots, i), Moves(c, "gaveup", "lost")
      PROVE  IInv'
  <2>1. slots'.running = slots.running /\ slots'.queue = RemoveAt(slots.queue, i)
    BY <1>1, <1>3 DEF Leave
  <2>2. /\ RemoveAt(slots.queue, i) \in Seq(Call)
        /\ ToSet(RemoveAt(slots.queue, i)) = ToSet(slots.queue) \ {c}
        /\ IsInjective(RemoveAt(slots.queue, i))
    BY <1>1, <1>3, RemoveFromQueue
  <2>3. slots' \in [running : 0..Size, queue : Seq(Call)]
    BY <1>1, <1>3, <2>2 DEF Leave
  <2>4. c \notin turns
    BY <1>1, <1>3 DEF ToSet
  <2>5. pc' = [pc EXCEPT ![c] = "lost"] /\ pc' \in [Call -> States]
    BY <1>1, <1>3 DEF Moves, States
  <2>6. Owners' = Owners /\ Waiting' = Waiting \ {c}
    BY <1>1, <1>2, <2>4, <2>5 DEF Owners, Waiting
  <2>7. LaneCountsWaits'
    BY <1>1, <1>2, <2>5, DrawnStays DEF States
  <2>8. QueueIsTheWaiters'
    <3>1. ToSet(slots'.queue) = Waiting' \ turns'
      BY <1>1, <1>2, <2>1, <2>2, <2>6
    <3> QED  BY <2>1, <2>2, <3>1 DEF QueueIsTheWaiters
  <2>9. slots.queue # <<>>
    BY <1>3
  <2>10. slots.running = Size
    BY <2>9 DEF IInv, ThrottleInv, NoIdleSlot
  <2> QED
    BY <1>1, <1>2, <2>1, <2>3, <2>5, <2>6, <2>7, <2>8, <2>10
    DEF IInv, ThrottleInv, TypeOK, SlotsAccounted, NoIdleSlot
<1>4. ASSUME ~Contains(slots.queue, c), Moves(c, "gaveup", "passing"), slots' = slots
      PROVE  IInv'
  <2>1. c \in turns
    <3>1. c \notin ToSet(slots.queue)
      BY <1>1, <1>4, LenProperties DEF Contains, ToSet
    <3> QED  BY <1>1, <1>2, <3>1
  <2>2. pc' = [pc EXCEPT ![c] = "passing"] /\ pc' \in [Call -> States]
    BY <1>1, <1>4 DEF Moves, States
  <2>3. Owners' = Owners /\ Waiting' \ turns' = Waiting \ turns
    BY <1>1, <1>2, <2>1, <2>2 DEF Owners, Waiting
  <2>4. LaneCountsWaits'
    BY <1>1, <1>2, <2>2, DrawnStays DEF States
  <2> QED
    BY <1>1, <1>2, <1>4, <2>2, <2>3, <2>4
    DEF IInv, ThrottleInv, TypeOK, SlotsAccounted, NoIdleSlot, QueueIsTheWaiters
<1> QED  BY <1>3, <1>4 DEF Withdraw

LEMMA ReleaseInv ==
  ASSUME IInv, NEW c \in Call, PassOn(c) \/ Return(c) \/ Exit(c)
  PROVE  IInv'
<1> DEFINE to == IF PassOn(c) THEN "lost" ELSE "out"
<1>1. /\ pc[c] \in {"held", "handed", "passing"} /\ pc' = [pc EXCEPT ![c] = to]
      /\ Release /\ ended' = ended /\ waiters' = waiters
      /\ pc[c] = "passing" <=> to = "lost"
  BY DEF PassOn, Return, Exit, Moves
<1>2. to \in {"lost", "out"} /\ ThrottleInv /\ TypeOK /\ LaneCountsWaits
  BY DEF IInv, ThrottleInv
<1> HIDE DEF to
<1>3. /\ slots' \in [running : 0..Size, queue : Seq(Call)]
      /\ turns' \subseteq Call
      /\ pc' \in [Call -> States]
      /\ SlotsAccounted' /\ NoIdleSlot' /\ QueueIsTheWaiters'
  BY <1>1, <1>2, ReleaseStep
<1>4. LaneCountsWaits'
  BY <1>1, <1>2, DrawnStays DEF States
<1>5. ended' \subseteq Call /\ waiters' \in [Child -> Nat]
  BY <1>1, <1>2 DEF TypeOK
<1> QED  BY <1>3, <1>4, <1>5 DEF IInv, ThrottleInv, TypeOK

LEMMA CancelInv == ASSUME IInv, NEW c \in Call, Cancel(c) PROVE IInv'
<1>1. UNCHANGED <<slots, turns, pc, waiters>> /\ ended' = ended \cup {c}
  BY DEF Cancel
<1>2. Owners' = Owners /\ Waiting' = Waiting /\ \A k \in Child : Drawn(k)' = Drawn(k)
  BY <1>1 DEF Owners, Waiting, Drawn
<1> QED
  BY <1>1, <1>2
  DEF IInv, ThrottleInv, TypeOK, SlotsAccounted, NoIdleSlot, QueueIsTheWaiters,
      LaneCountsWaits

LEMMA StutterInv == ASSUME IInv, UNCHANGED vars PROVE IInv'
<1>1. Owners' = Owners /\ Waiting' = Waiting /\ \A k \in Child : Drawn(k)' = Drawn(k)
  BY DEF vars, Owners, Waiting, Drawn
<1> QED
  BY <1>1
  DEF vars, IInv, ThrottleInv, TypeOK, SlotsAccounted, NoIdleSlot, QueueIsTheWaiters,
      LaneCountsWaits

LEMMA NextInv == IInv /\ [Next]_vars => IInv'
<1> SUFFICES ASSUME IInv, [Next]_vars PROVE IInv'
  OBVIOUS
<1>1. CASE UNCHANGED vars
  BY <1>1, StutterInv
<1>2. ASSUME NEW c \in Call,
             \/ Take(c) \/ Tell(c) \/ TurnComes(c) \/ GiveUp(c) \/ Withdraw(c)
             \/ PassOn(c) \/ Settle(c) \/ Return(c) \/ HandOff(c) \/ Exit(c)
             \/ Cancel(c)
      PROVE  IInv'
  BY <1>2, TakeInv, QuietInv, WithdrawInv, ReleaseInv, CancelInv
<1> QED  BY <1>1, <1>2 DEF Next

LEMMA Invariance == Spec => []IInv
  BY InitInv, NextInv, PTL DEF Spec

-----------------------------------------------------------------------------
\* Every variable keeps its type, so never more than Size slots are out and no
\* lane's count of waits goes below zero.
THEOREM TypeCorrect == Spec => []TypeOK
<1>1. IInv => TypeOK
  BY DEF IInv, ThrottleInv
<1> QED  BY Invariance, <1>1, PTL

\* The count equals the owners at every step: the slot handed to a call that
\* is giving up is passed on, never dropped and never counted twice.
THEOREM EverySlotAccounted == Spec => []SlotsAccounted
<1>1. IInv => SlotsAccounted
  BY DEF IInv, ThrottleInv
<1> QED  BY Invariance, <1>1, PTL

\* No check waits while a slot is free, and the queue is exactly the checks
\* that wait without having been handed one.
THEOREM NobodyWaitsInVain == Spec => [](NoIdleSlot /\ QueueIsTheWaiters)
<1>1. IInv => NoIdleSlot /\ QueueIsTheWaiters
  BY DEF IInv, ThrottleInv
<1> QED  BY Invariance, <1>1, PTL

\* A lane reads as waiting exactly while one of its checks does.
THEOREM LanesTellTheTruth == Spec => []LaneCountsWaits
<1>1. IInv => LaneCountsWaits
  BY DEF IInv
<1> QED  BY Invariance, <1>1, PTL

-----------------------------------------------------------------------------
\* The library operators FifoSemaphore is written with are the ones used here.
LEMMA SameOperators ==
  /\ \A S : Semaphore!Cardinality(S) = Cardinality(S)
  /\ \A q, x : Semaphore!Contains(q, x) <=> Contains(q, x)
  /\ \A q, i : Semaphore!RemoveAt(q, i) = RemoveAt(q, i)
<1>1. \A S : Semaphore!Cardinality(S) = Cardinality(S)
  BY DEF Semaphore!Cardinality, Cardinality
<1>2. \A q, x : Semaphore!Contains(q, x) <=> Contains(q, x)
  BY DEF Semaphore!Contains, Contains
<1>3. \A q, i : Semaphore!RemoveAt(q, i) = RemoveAt(q, i)
  BY DEF Semaphore!RemoveAt, RemoveAt
<1> QED  BY <1>1, <1>2, <1>3

\* What each step does to the owners and the queue, as the abstract semaphore
\* sees it: an arrival, a departure, somebody walking away, or nothing.
LEMMA TakeIsArrival ==
  ASSUME IInv, NEW c \in Call, Take(c)
  PROVE  Semaphore!Arrive(c)
<1>1. /\ slots \in [running : 0..Size, queue : Seq(Call)]
      /\ slots.running \in 0..Size /\ pc \in [Call -> States] /\ turns \subseteq Call
      /\ ToSet(slots.queue) = Waiting \ turns
      /\ slots.running = Cardinality(Owners)
      /\ slots.queue \in Seq(Call)
      /\ slots.queue # <<>> => slots.running = Size
  BY DEF IInv, ThrottleInv, TypeOK, SlotsAccounted, QueueIsTheWaiters, NoIdleSlot
<1>2. pc[c] = "out" /\ turns' = turns \ {c}
  BY DEF Take, Moves
<1>3. c \notin Owners /\ ~Contains(slots.queue, c)
  <2>1. c \notin ToSet(slots.queue) /\ c \notin Owners
    BY <1>1, <1>2 DEF Waiting, Owners
  <2> QED  BY <1>1, <2>1, LenProperties DEF Contains, ToSet
<1>4. CASE HasRoom(slots) /\ slots' = Admit(slots) /\ Moves(c, "out", "held")
  <2>1. slots'.queue = slots.queue /\ slots.queue = <<>> /\ Cardinality(Owners) < Size
    BY <1>1, <1>4 DEF HasRoom, Admit
  <2>2. Owners' = Owners \cup {c}
    BY <1>1, <1>2, <1>4 DEF Owners, Waiting, Moves
  <2> QED  BY <1>3, <2>1, <2>2, SameOperators DEF Semaphore!Arrive, Semaphore!Outside
<1>5. CASE ~HasRoom(slots) /\ slots' = Join(slots, c) /\ Moves(c, "out", "queued")
  <2>1. slots'.queue = Append(slots.queue, c)
    BY <1>1, <1>5 DEF Join
  <2>2. Cardinality(Owners) = Size
    BY <1>1, <1>5, SizeAssumption DEF HasRoom
  <2>3. Owners' = Owners
    BY <1>1, <1>2, <1>5 DEF Owners, Waiting, Moves
  <2> QED  BY <1>3, <2>1, <2>2, <2>3, SameOperators
           DEF Semaphore!Arrive, Semaphore!Outside
<1> QED  BY <1>4, <1>5 DEF Take

LEMMA ReleaseIsDeparture ==
  ASSUME IInv, NEW c \in Call, PassOn(c) \/ Return(c) \/ Exit(c)
  PROVE  Semaphore!Depart(c)
<1>1. /\ slots \in [running : 0..Size, queue : Seq(Call)]
      /\ slots.queue \in Seq(Call) /\ pc \in [Call -> States] /\ turns \subseteq Call
      /\ ToSet(slots.queue) = Waiting \ turns /\ IsInjective(slots.queue)
  BY DEF IInv, ThrottleInv, TypeOK, QueueIsTheWaiters
<1>2. PICK to \in {"lost", "out"} :
        /\ pc[c] \in {"held", "handed", "passing"} /\ pc' = [pc EXCEPT ![c] = to]
        /\ Release
  BY DEF PassOn, Return, Exit, Moves
<1>3. c \in Owners /\ c \notin Waiting
  BY <1>2 DEF Owners, Waiting
<1>4. CASE slots.queue = <<>>
  <2>1. turns' = turns /\ slots'.queue = slots.queue
    BY <1>1, <1>2, <1>4 DEF Release, NextTurn, GiveBack
  <2>2. Owners' = Owners \ {c}
    BY <1>1, <1>2, <2>1 DEF Owners, Waiting
  <2> QED  BY <1>3, <1>4, <2>1, <2>2 DEF Semaphore!Depart
<1>5. CASE slots.queue # <<>>
  <2> DEFINE h == Head(slots.queue)
  <2>1. turns' = turns \cup {h} /\ slots'.queue = Tail(slots.queue)
    BY <1>1, <1>2, <1>5 DEF Release, NextTurn, GiveBack
  <2>2. h \in Waiting \ turns
    BY <1>1, <1>5, TailOfQueue
  <2> HIDE DEF h
  <2>3. Owners' = (Owners \ {c}) \cup {h}
    BY <1>1, <1>2, <1>3, <2>1, <2>2 DEF Owners, Waiting
  <2> QED  BY <1>3, <1>5, <2>1, <2>3 DEF Semaphore!Depart, h
<1> QED  BY <1>4, <1>5

LEMMA WithdrawIsWalkingAway ==
  ASSUME IInv, NEW c \in Call, Withdraw(c)
  PROVE  \/ \E i \in DOMAIN slots.queue : Semaphore!WalkAway(i)
         \/ UNCHANGED Semaphore!vars
<1>1. /\ slots \in [running : 0..Size, queue : Seq(Call)]
      /\ slots.queue \in Seq(Call) /\ pc \in [Call -> States] /\ turns \subseteq Call
      /\ ToSet(slots.queue) = Waiting \ turns
  BY DEF IInv, ThrottleInv, TypeOK, QueueIsTheWaiters
<1>2. pc[c] = "gaveup" /\ turns' = turns /\ c \in Waiting
  BY DEF Withdraw, Moves, Waiting
<1>3. ASSUME NEW i \in DOMAIN slots.queue, slots.queue[i] = c,
             slots' = Leave(slots, i), Moves(c, "gaveup", "lost")
      PROVE  Semaphore!WalkAway(i)
  <2>1. slots'.queue = RemoveAt(slots.queue, i)
    BY <1>1, <1>3 DEF Leave
  <2>2. c \notin turns
    BY <1>1, <1>3 DEF ToSet
  <2>3. Owners' = Owners
    BY <1>1, <1>2, <1>3, <2>2 DEF Owners, Waiting, Moves
  <2> QED  BY <1>3, <2>1, <2>3, SameOperators DEF Semaphore!WalkAway
<1>4. ASSUME ~Contains(slots.queue, c), Moves(c, "gaveup", "passing"), slots' = slots
      PROVE  UNCHANGED Semaphore!vars
  <2>1. c \in turns
    <3>1. c \notin ToSet(slots.queue)
      BY <1>1, <1>4, LenProperties DEF Contains, ToSet
    <3> QED  BY <1>1, <1>2, <3>1
  <2>2. Owners' = Owners
    BY <1>1, <1>2, <1>4, <2>1 DEF Owners, Waiting, Moves
  <2> QED  BY <1>4, <2>2 DEF Semaphore!vars
<1> QED  BY <1>3, <1>4 DEF Withdraw

LEMMA QuietIsStutter ==
  ASSUME IInv, NEW c \in Call,
         \/ Tell(c) \/ TurnComes(c) \/ GiveUp(c) \/ Settle(c) \/ HandOff(c)
         \/ Cancel(c)
  PROVE  UNCHANGED Semaphore!vars
<1>1. pc \in [Call -> States] /\ slots' = slots /\ turns' = turns
  BY DEF IInv, ThrottleInv, TypeOK, Tell, TurnComes, GiveUp, Settle, HandOff, Cancel
<1>2. Owners' = Owners
  BY <1>1 DEF Tell, TurnComes, GiveUp, Settle, HandOff, Cancel, Moves, Owners, Waiting
<1> QED  BY <1>1, <1>2 DEF Semaphore!vars

LEMMA NextRefines == IInv /\ [Next]_vars => [Semaphore!Next]_(Semaphore!vars)
<1> SUFFICES ASSUME IInv, [Next]_vars PROVE [Semaphore!Next]_(Semaphore!vars)
  OBVIOUS
<1>1. CASE UNCHANGED vars
  BY <1>1 DEF vars, Semaphore!vars, Owners, Waiting
<1>2. ASSUME NEW c \in Call, Take(c) PROVE Semaphore!Next
  BY <1>2, TakeIsArrival DEF Semaphore!Next
<1>3. ASSUME NEW c \in Call, PassOn(c) \/ Return(c) \/ Exit(c) PROVE Semaphore!Next
  BY <1>3, ReleaseIsDeparture DEF Semaphore!Next
<1>4. ASSUME NEW c \in Call, Withdraw(c) PROVE [Semaphore!Next]_(Semaphore!vars)
  BY <1>4, WithdrawIsWalkingAway DEF Semaphore!Next
<1>5. ASSUME NEW c \in Call,
             \/ Tell(c) \/ TurnComes(c) \/ GiveUp(c) \/ Settle(c) \/ HandOff(c)
             \/ Cancel(c)
      PROVE  UNCHANGED Semaphore!vars
  BY <1>5, QuietIsStutter
<1> QED  BY <1>1, <1>2, <1>3, <1>4, <1>5 DEF Next

\* The throttle is a first-come first-served semaphore: every step of Take and
\* of the releasers is an arrival, a departure that serves the head of the
\* line, a waiter walking away, or nothing, as FifoSemaphore has them.
THEOREM ThrottleIsSemaphore == Spec => IsSemaphore
<1>1. Init => Semaphore!Init
  <2> SUFFICES ASSUME Init PROVE Semaphore!Init
    OBVIOUS
  <2>1. Owners = {} /\ slots.queue = <<>>
    BY DEF Init, Owners, Waiting, NewThrottle
  <2> QED  BY <2>1 DEF Semaphore!Init
<1> QED
  BY <1>1, NextRefines, Invariance, PTL DEF Spec, IsSemaphore, Semaphore!Spec

\* Nobody overtakes: a call that comes to own a slot was at the head of the
\* queue, or found no queue.
THEOREM ServedInOrder == Spec => InArrivalOrder
<1>1. ASSUME IInv, [Next]_vars, NEW c \in Owners' \ Owners
      PROVE  slots.queue = <<>> \/ c = Head(slots.queue)
  <2>1. [Semaphore!Next]_(Semaphore!vars)
    BY <1>1, NextRefines
  <2> QED
    BY <1>1, <2>1
    DEF Semaphore!Next, Semaphore!vars, Semaphore!Arrive, Semaphore!Depart,
        Semaphore!WalkAway
<1>2. IInv /\ [Next]_vars =>
        [\A c \in Owners' \ Owners : slots.queue = <<>> \/ c = Head(slots.queue)]_vars
  BY <1>1
<1> QED  BY <1>2, Invariance, PTL DEF Spec, InArrivalOrder

=============================================================================
