----------------------------- MODULE CheckSlots -----------------------------
(***************************************************************************)
(* One process's throttle on checks (internal/subagent/checkslots.go): the *)
(* quality gates and build commands of every child, and of the session,    *)
(* take one of Size slots before they run.  A take that finds none parks   *)
(* on a channel of its own; a release closes the channel of the longest    *)
(* waiter instead of returning the slot to a pool.  The wait can be given  *)
(* up, and the slot can be handed over while that is happening.            *)
(*                                                                         *)
(* A Call is one Take; it may be made again once it is over, with a fresh  *)
(* channel and a fresh context.  pc names where the call stands:           *)
(*   out      not in Take                                                  *)
(*   queued   in the queue, its child's lane not told yet                  *)
(*   parked   waiting on its turn or on the end of its context             *)
(*   gaveup   its context ended; the lock is not taken again yet           *)
(*   passing  it was handed a slot while giving up, and passes it on       *)
(*   won,lost Take has its answer; the lane is not told yet                *)
(*   held     the check runs                                               *)
(*   handed   the call returned, its command was handed to the process     *)
(*            supervisor and still runs                                    *)
(***************************************************************************)
EXTENDS Throttle, FiniteSets

CONSTANTS
  Call,     \* the takes that may be in flight at once
  Child,    \* the children (and the session) whose lanes draw a wait
  Owner     \* the child each call belongs to

ASSUME OwnerAssumption == Owner \in [Call -> Child]
ASSUME CallAssumption == IsFiniteSet(Call)

VARIABLES
  slots,    \* the throttle: running and queue, under CheckSlots.mu
  turns,    \* the calls whose turn channel has been closed
  pc,
  ended,    \* the calls whose context is done
  waiters   \* child.slotWaiters, the waits each lane is drawn with

vars == <<slots, turns, pc, ended, waiters>>

States == {"out", "queued", "parked", "gaveup", "passing",
           "won", "lost", "held", "handed"}

\* The calls that wait in the select, or are on their way in or out of it.
Waiting == {c \in Call : pc[c] \in {"queued", "parked", "gaveup"}}

\* The calls that own a slot, whether or not they have noticed.
Owners == {c \in Call : \/ pc[c] \in {"won", "held", "handed", "passing"}
                        \/ c \in Waiting /\ c \in turns}

\* The calls a child's lane is drawn waiting for: told, and not settled.
Drawn(k) == {c \in Call : /\ Owner[c] = k
                          /\ pc[c] \in {"parked", "gaveup", "passing", "won", "lost"}}

Moves(c, from, to) == pc[c] = from /\ pc' = [pc EXCEPT ![c] = to]

Init ==
  /\ slots = NewThrottle
  /\ turns = {}
  /\ pc = [c \in Call |-> "out"]
  /\ ended = {}
  /\ waiters = [k \in Child |-> 0]

-----------------------------------------------------------------------------
\* takeLocal under the lock: a free slot and nobody waiting, or the queue.
Take(c) ==
  /\ \/ /\ HasRoom(slots)
        /\ slots' = Admit(slots)
        /\ Moves(c, "out", "held")
     \/ /\ ~HasRoom(slots)
        /\ slots' = Join(slots, c)
        /\ Moves(c, "out", "queued")
  /\ turns' = turns \ {c}
  /\ ended' = ended \ {c}
  /\ UNCHANGED waiters

\* Faulty variant: the lane holds a flag rather than a count.
TellFlag(c) ==
  /\ Moves(c, "queued", "parked")
  /\ waiters' = [waiters EXCEPT ![Owner[c]] = 1]
  /\ UNCHANGED <<slots, turns, ended>>

\* The waiting callback takeCheckSlot passes, run after the lock is dropped.
Tell(c) ==
  /\ Moves(c, "queued", "parked")
  /\ waiters' = [waiters EXCEPT ![Owner[c]] = @ + 1]
  /\ UNCHANGED <<slots, turns, ended>>

\* The two arms of the select; either may be taken when both are ready.
TurnComes(c) ==
  /\ c \in turns
  /\ Moves(c, "parked", "won")
  /\ UNCHANGED <<slots, turns, ended, waiters>>

GiveUp(c) ==
  /\ c \in ended
  /\ Moves(c, "parked", "gaveup")
  /\ UNCHANGED <<slots, turns, ended, waiters>>

\* Faulty variant: a slot handed over while the wait was given up is dropped.
WithdrawDropping(c) ==
  /\ \/ \E i \in DOMAIN slots.queue :
          slots.queue[i] = c /\ slots' = Leave(slots, i)
     \/ ~Contains(slots.queue, c) /\ UNCHANGED slots
  /\ Moves(c, "gaveup", "lost")
  /\ UNCHANGED <<turns, ended, waiters>>

\* Back under the lock: out of the queue, or too late, the slot is here.
Withdraw(c) ==
  /\ \/ \E i \in DOMAIN slots.queue :
          /\ slots.queue[i] = c
          /\ slots' = Leave(slots, i)
          /\ Moves(c, "gaveup", "lost")
     \/ /\ ~Contains(slots.queue, c)
        /\ Moves(c, "gaveup", "passing")
        /\ UNCHANGED slots
  /\ UNCHANGED <<turns, ended, waiters>>

\* releaser: the slot goes to the longest waiter or back to the pool.
Release ==
  /\ turns' = turns \cup NextTurn(slots)
  /\ slots' = GiveBack(slots)

PassOn(c) ==
  /\ Moves(c, "passing", "lost")
  /\ Release
  /\ UNCHANGED <<ended, waiters>>

\* takeCheckSlot after a wait: the lane stops drawing this one.
Settle(c) ==
  /\ Moves(c, "won", "held") \/ Moves(c, "lost", "out")
  /\ waiters' = [waiters EXCEPT ![Owner[c]] = @ - 1]
  /\ UNCHANGED <<slots, turns, ended>>

\* checkedRun: the command ended, failed or was stopped; or it was handed to
\* the process supervisor at its ceiling and keeps the slot until it exits.
Return(c) ==
  /\ Moves(c, "held", "out")
  /\ Release
  /\ UNCHANGED <<ended, waiters>>

HandOff(c) ==
  /\ Moves(c, "held", "handed")
  /\ UNCHANGED <<slots, turns, ended, waiters>>

Exit(c) ==
  /\ Moves(c, "handed", "out")
  /\ Release
  /\ UNCHANGED <<ended, waiters>>

\* The context of a call that waits ends: its round was stopped, or its
\* attempt.  One that ends once the slot is won stops the command (Return).
Cancel(c) ==
  /\ pc[c] \in {"queued", "parked"} /\ c \notin ended
  /\ ended' = ended \cup {c}
  /\ UNCHANGED <<slots, turns, pc, waiters>>

Next ==
  \E c \in Call :
    \/ Take(c) \/ Tell(c) \/ TurnComes(c) \/ GiveUp(c) \/ Withdraw(c)
    \/ PassOn(c) \/ Settle(c) \/ Return(c) \/ HandOff(c) \/ Exit(c)
    \/ Cancel(c)

Spec == Init /\ [][Next]_vars

\* Goroutines run, a select with a ready arm fires, and a command in the
\* foreground ends or is handed over at its ceiling.  Nothing makes a process
\* in the background exit, a context end or a check start.
Fairness ==
  \A c \in Call :
    /\ WF_vars(Tell(c)) /\ WF_vars(TurnComes(c) \/ GiveUp(c))
    /\ WF_vars(Withdraw(c)) /\ WF_vars(PassOn(c)) /\ WF_vars(Settle(c))
    /\ WF_vars(Return(c) \/ HandOff(c))

FairSpec == Spec /\ Fairness

-----------------------------------------------------------------------------
\* Every variable has its type, and a lane never counts below zero waits.
TypeOK ==
  /\ slots \in [running : 0..Size, queue : Seq(Call)]
  /\ turns \subseteq Call
  /\ pc \in [Call -> States]
  /\ ended \subseteq Call
  /\ waiters \in [Child -> Nat]

\* The count and the owners agree at every step, a slot handed to a call that
\* is walking away included: "passed on rather than dropped, or the throttle
\* would be one slot short for the rest of the session".
SlotsAccounted == slots.running = Cardinality(Owners)

\* Nobody waits beside a free slot.
NoIdleSlot == slots.queue # <<>> => slots.running = Size

\* The queue holds each call that waits and was not handed a slot, once, and
\* nothing else: no slot is ever handed to a call that has left.
QueueIsTheWaiters ==
  /\ ToSet(slots.queue) = Waiting \ turns
  /\ IsInjective(slots.queue)

\* "the child reads as waiting while any of them does": a lane's count is the
\* number of its calls between the callback and the end of Take.
LaneCountsWaits == \A k \in Child : waiters[k] = Cardinality(Drawn(k))

\* "nobody behind it can take the slot it was waiting for": a call that comes
\* to own a slot was at the head of the queue, or there was no queue.
InArrivalOrder ==
  [][\A c \in Owners' \ Owners :
       slots.queue = <<>> \/ c = Head(slots.queue)]_vars

\* The throttle is a first-come first-served semaphore: what Take and the
\* releasers do refines FifoSemaphore under this mapping.
Semaphore == INSTANCE FifoSemaphore
             WITH Caller <- Call, inside <- Owners, line <- slots.queue
IsSemaphore == Semaphore!Spec

\* A wait ends, by a slot or by its context, provided that no background
\* process sits on a slot for ever.
EveryWaitEnds ==
  (\A c \in Call : []<>(pc[c] # "handed")) =>
    \A c \in Call : pc[c] = "parked" ~> pc[c] # "parked"

=============================================================================
