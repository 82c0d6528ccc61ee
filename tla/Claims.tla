------------------------------- MODULE Claims -------------------------------
(***************************************************************************)
(* The claims writers hold on files (internal/subagent/supervisor_claim.go *)
(* and its callers): a spawn is refused or queued behind a live writer     *)
(* whose paths meet its own, a queued writer asks again whenever a child   *)
(* ends, a failed writer may be retried and a finished one may be sent a   *)
(* follow-up, each of which asks about claims in its own way.              *)
(*                                                                         *)
(* A claim has no record of its own: it is held by being a live child in   *)
(* the list.  Asking is therefore a walk over the list that reads one      *)
(* child's status at a time, and children move between two reads.  Three   *)
(* actors can walk for one writer: its spawn, under claimMu; its own       *)
(* goroutine or the retry that replaces it; and a steer.                   *)
(*                                                                         *)
(* pc names where a writer's spawn or goroutine stands:                    *)
(*   none      no goroutine            working    past the slot, in a turn *)
(*   spawn     its spawn walks         failing    state set to failed,     *)
(*   begin     about to ask                       claims not released yet  *)
(*   asking    awaitClaim walks        answering  the same, for done       *)
(*   parked    waits on claimsFreed    answered   waits for a follow-up    *)
(*   clear     nothing in its way,     over       its done channel is      *)
(*             waits for a slot                   closed for good          *)
(***************************************************************************)
EXTENDS Naturals, FiniteSets

CONSTANTS
  Writer,       \* the writers a session may spawn
  Clash,        \* the pairs of writers whose declared paths overlap
  NoOne,        \* not a writer
  MaxSpawns,    \* bound: spawns asked for, refused ones included
  MaxAttempts,  \* bound: attempts of each child; 1 is no retry
  MaxSteers     \* bound: steers of each child

ASSUME ClashAssumption ==
  /\ Clash \subseteq Writer \X Writer
  /\ \A w, k \in Writer : <<w, k>> \in Clash => <<k, w>> \in Clash
ASSUME NoOneAssumption == NoOne \notin Writer
ASSUME BoundsAssumption ==
  /\ MaxSpawns \in Nat
  /\ MaxAttempts \in [Writer -> Nat \ {0}] /\ MaxSteers \in [Writer -> Nat]

VARIABLES
  claimMu,  \* the writer whose spawn holds Supervisor.claimMu, or NoOne
  spawned,  \* Supervisor.spawned
  st,       \* child.state; idle and blocked are running here
  pc,
  seq,      \* child.seq
  waits,    \* child.waitClaim
  shares,   \* child.overlap
  waitsOn,  \* child.waitsOn
  dead,     \* child.ctx is cancelled
  woken,    \* the claimsFreed channel awaitClaim holds is closed
  attempt,
  ask,      \* the walk of a writer's spawn, goroutine or retry
  retry,    \* where a Retry of the writer stands
  steer,    \* the walk of a Steer of the writer
  steers,   \* how many steers it was sent
  message   \* a message waits in child.steering

vars == <<claimMu, spawned, st, pc, seq, waits, shares, waitsOn, dead, woken,
          attempt, ask, retry, steer, steers, message>>
life == <<claimMu, spawned, seq, waits, shares>>
talk == <<steer, steers, message>>

Live == {"queued", "running"}
Listed == {k \in Writer : st[k] # "absent"}
Listening(w) == pc[w] \in {"answering", "answered"}

NoWalk == [kind |-> "no", left |-> {}, found |-> NoOne]

\* claimHeld takes its copy of the list before it reads any status.
Walk(kind) == [kind |-> kind, left |-> Listed, found |-> NoOne]

Over(a) == a.kind # "no" /\ a.left = {}

Init ==
  /\ claimMu = NoOne
  /\ spawned = 0
  /\ st = [w \in Writer |-> "absent"]
  /\ pc = [w \in Writer |-> "none"]
  /\ seq = [w \in Writer |-> 0]
  /\ waits = [w \in Writer |-> FALSE]
  /\ shares = [w \in Writer |-> FALSE]
  /\ waitsOn = [w \in Writer |-> NoOne]
  /\ dead = [w \in Writer |-> FALSE]
  /\ woken = [w \in Writer |-> FALSE]
  /\ attempt = [w \in Writer |-> 1]
  /\ ask = [w \in Writer |-> NoWalk]
  /\ retry = [w \in Writer |-> "no"]
  /\ steer = [w \in Writer |-> NoWalk]
  /\ steers = [w \in Writer |-> 0]
  /\ message = [w \in Writer |-> FALSE]

-----------------------------------------------------------------------------
\* Faulty variant, for the mutation runs only: a claim still queued does not
\* count.
CountsRunners(w, k, kind) ==
  /\ kind = "ahead" => seq[k] < seq[w]
  /\ st[k] = "running"
  /\ ~(shares[w] /\ shares[k])

\* Whether a walk of this kind counts the claim of k: "conflict" is
\* claimConflict (a spawn's first, a steer's), "ahead" is claimAhead,
\* "around" is claimAround.
Counts(w, k, kind) ==
  /\ kind = "ahead" => seq[k] < seq[w]
  /\ kind = "around" => k # w /\ (seq[k] < seq[w] \/ waitsOn[k] = NoOne)
  /\ ~(shares[w] /\ shares[k])

\* claimHeld: a claim is held by a live child nobody cancelled.
Holds(k) == st[k] \in Live /\ ~dead[k]

InTheWay(w, k, kind) == Counts(w, k, kind) /\ Holds(k) /\ <<w, k>> \in Clash

\* The child a walk reads next: nearest first only for claimAhead.
ReadsNext(a, k) ==
  /\ k \in a.left
  /\ \A j \in a.left : IF a.kind = "ahead" THEN seq[j] <= seq[k]
                                           ELSE seq[k] <= seq[j]

AfterReading(w, a, k) ==
  IF InTheWay(w, k, a.kind) THEN [a EXCEPT !.left = {}, !.found = k]
                            ELSE [a EXCEPT !.left = @ \ {k}]

Read(w) ==
  \E k \in Writer :
    /\ ReadsNext(ask[w], k)
    /\ ask' = [ask EXCEPT ![w] = AfterReading(w, @, k)]
    /\ UNCHANGED <<life, st, pc, waitsOn, dead, woken, attempt, retry, talk>>

-----------------------------------------------------------------------------
\* Faulty variant: a spawn that does not wait for claimMu.
SpawnBeginsUnlocked(w) ==
  /\ st[w] = "absent" /\ pc[w] = "none" /\ spawned < MaxSpawns
  /\ claimMu' = w
  /\ spawned' = spawned + 1
  /\ seq' = [seq EXCEPT ![w] = spawned + 1]
  /\ \E b, s \in BOOLEAN : /\ waits' = [waits EXCEPT ![w] = b]
                           /\ shares' = [shares EXCEPT ![w] = s]
  /\ pc' = [pc EXCEPT ![w] = "spawn"]
  /\ ask' = [ask EXCEPT ![w] = Walk("conflict")]
  /\ UNCHANGED <<st, waitsOn, dead, woken, attempt, retry, talk>>

\* spawn: a place in spawn order under claimMu, then the claim walk.
SpawnBegin(w) ==
  /\ claimMu = NoOne /\ st[w] = "absent" /\ spawned < MaxSpawns
  /\ claimMu' = w
  /\ spawned' = spawned + 1
  /\ seq' = [seq EXCEPT ![w] = spawned + 1]
  /\ \E b, s \in BOOLEAN : /\ waits' = [waits EXCEPT ![w] = b]
                           /\ shares' = [shares EXCEPT ![w] = s]
  /\ pc' = [pc EXCEPT ![w] = "spawn"]
  /\ ask' = [ask EXCEPT ![w] = Walk("conflict")]
  /\ UNCHANGED <<st, waitsOn, dead, woken, attempt, retry, talk>>

\* Refused for a claim, or by admission or the build that follow it.
SpawnRefused(w) ==
  /\ pc[w] = "spawn" /\ Over(ask[w])
  /\ claimMu' = NoOne
  /\ pc' = [pc EXCEPT ![w] = "none"]
  /\ ask' = [ask EXCEPT ![w] = NoWalk]
  /\ waitsOn' = [waitsOn EXCEPT ![w] = NoOne]
  /\ UNCHANGED <<spawned, st, seq, waits, shares, dead, woken, attempt, retry,
                 talk>>

\* A spawn that waits for the claim names the nearest writer ahead of it.
SpawnNamesNearest(w) ==
  /\ pc[w] = "spawn" /\ Over(ask[w]) /\ ask[w].kind = "conflict"
  /\ ask[w].found # NoOne /\ waits[w]
  /\ waitsOn' = [waitsOn EXCEPT ![w] = ask[w].found]
  /\ ask' = [ask EXCEPT ![w] = Walk("ahead")]
  /\ UNCHANGED <<life, st, pc, dead, woken, attempt, retry, talk>>

\* The child enters the list, claimMu is let go and its goroutine starts.
SpawnInsert(w) ==
  /\ pc[w] = "spawn" /\ Over(ask[w])
  /\ ask[w].kind = "ahead" \/ ask[w].found = NoOne
  /\ claimMu' = NoOne
  /\ st' = [st EXCEPT ![w] = "queued"]
  /\ pc' = [pc EXCEPT ![w] = IF waits[w] THEN "begin" ELSE "clear"]
  /\ waitsOn' = [waitsOn EXCEPT ![w] = IF ask[w].found = NoOne THEN @ ELSE ask[w].found]
  /\ ask' = [ask EXCEPT ![w] = NoWalk]
  /\ UNCHANGED <<spawned, seq, waits, shares, dead, woken, attempt, retry, talk>>

-----------------------------------------------------------------------------
\* awaitClaim takes the signal before it walks: claimAhead on a first attempt,
\* claimAround on a retry (claimInWay).
AwaitBegins(w) ==
  /\ pc[w] = "begin"
  /\ pc' = [pc EXCEPT ![w] = "asking"]
  /\ woken' = [woken EXCEPT ![w] = FALSE]
  /\ ask' = [ask EXCEPT ![w] = Walk(IF attempt[w] > 1 THEN "around" ELSE "ahead")]
  /\ UNCHANGED <<life, st, waitsOn, dead, attempt, retry, talk>>

\* Faulty variant: the signal is taken after the claims were read.
AwaitDecidesThenTakesSignal(w) ==
  /\ pc[w] = "asking" /\ Over(ask[w])
  /\ waitsOn' = [waitsOn EXCEPT ![w] = ask[w].found]
  /\ pc' = [pc EXCEPT ![w] = IF ask[w].found = NoOne THEN "clear" ELSE "parked"]
  /\ woken' = [woken EXCEPT ![w] = FALSE]
  /\ ask' = [ask EXCEPT ![w] = NoWalk]
  /\ UNCHANGED <<life, st, dead, attempt, retry, talk>>

AwaitDecides(w) ==
  /\ pc[w] = "asking" /\ Over(ask[w])
  /\ waitsOn' = [waitsOn EXCEPT ![w] = ask[w].found]
  /\ pc' = [pc EXCEPT ![w] = IF ask[w].found = NoOne THEN "clear" ELSE "parked"]
  /\ ask' = [ask EXCEPT ![w] = NoWalk]
  /\ UNCHANGED <<life, st, dead, woken, attempt, retry, talk>>

Wakes(w) ==
  /\ pc[w] = "parked" /\ woken[w]
  /\ pc' = [pc EXCEPT ![w] = "begin"]
  /\ UNCHANGED <<life, st, waitsOn, dead, woken, attempt, ask, retry, talk>>

\* The slot and the copy are taken; slots are CheckSlots' and are not counted.
Start(w) ==
  /\ pc[w] = "clear"
  /\ pc' = [pc EXCEPT ![w] = "working"]
  /\ st' = [st EXCEPT ![w] = "running"]
  /\ UNCHANGED <<life, waitsOn, dead, woken, attempt, ask, retry, talk>>

\* endAttempt sets the state; the claims are released a few calls later.
Fails(w) ==
  /\ \/ pc[w] \in {"clear", "parked"} /\ dead[w]
     \/ pc[w] = "working"
  /\ pc' = [pc EXCEPT ![w] = "failing"]
  /\ st' = [st EXCEPT ![w] = "failed"]
  /\ UNCHANGED <<life, waitsOn, dead, woken, attempt, ask, retry, talk>>

Answers(w) ==
  /\ pc[w] = "working"
  /\ pc' = [pc EXCEPT ![w] = "answering"]
  /\ st' = [st EXCEPT ![w] = "done"]
  /\ UNCHANGED <<life, waitsOn, dead, woken, attempt, ask, retry, talk>>

\* Faulty variant: a child that answered keeps the queue asleep.
ReleasesFailuresOnly(w) ==
  /\ pc[w] \in {"failing", "answering"}
  /\ pc' = [pc EXCEPT ![w] = IF @ = "failing" THEN "over" ELSE "answered"]
  /\ woken' = [k \in Writer |-> woken[k] \/ pc[w] = "failing"]
  /\ UNCHANGED <<life, st, waitsOn, dead, attempt, ask, retry, talk>>

\* releaseClaims wakes every writer that waits, whatever it waits behind.
Releases(w) ==
  /\ pc[w] \in {"failing", "answering"}
  /\ pc' = [pc EXCEPT ![w] = IF @ = "failing" THEN "over" ELSE "answered"]
  /\ woken' = [k \in Writer |-> TRUE]
  /\ UNCHANGED <<life, st, waitsOn, dead, attempt, ask, retry, talk>>

\* A kill, an ancestor's kill or the token budget: refused a finished child,
\* unless it listens and goes with an ancestor.
Cancel(w) ==
  /\ st[w] \in Live \/ (st[w] = "done" /\ Listening(w))
  /\ ~dead[w]
  /\ dead' = [dead EXCEPT ![w] = TRUE]
  /\ UNCHANGED <<life, st, pc, waitsOn, woken, attempt, ask, retry, talk>>

-----------------------------------------------------------------------------
\* Retry: the state is claimed at once, the attempt it replaces is waited for.
Retry(w) ==
  /\ st[w] = "failed" /\ retry[w] = "no" /\ attempt[w] < MaxAttempts[w]
  /\ st' = [st EXCEPT ![w] = "queued"]
  /\ dead' = [dead EXCEPT ![w] = FALSE]
  /\ retry' = [retry EXCEPT ![w] = "waiting"]
  /\ UNCHANGED <<life, pc, waitsOn, woken, attempt, ask, talk>>

\* restart: a writer that does not wait for claims asks claimAround here.
RetryBegins(w) ==
  /\ retry[w] = "waiting" /\ pc[w] = "over"
  /\ retry' = [retry EXCEPT ![w] = "asking"]
  /\ ask' = [ask EXCEPT ![w] = IF waits[w] THEN [NoWalk EXCEPT !.kind = "skip"]
                                           ELSE Walk("around")]
  /\ UNCHANGED <<life, st, pc, waitsOn, dead, woken, attempt, talk>>

\* The wait timed out or was killed, a claim is in the way, or the restart's
\* environment could not be built: failed again, and nobody is woken.
RetryAbandoned(w) ==
  /\ \/ retry[w] = "waiting"
     \/ retry[w] = "asking" /\ Over(ask[w])
  /\ st' = [st EXCEPT ![w] = "failed"]
  /\ retry' = [retry EXCEPT ![w] = "no"]
  /\ ask' = [ask EXCEPT ![w] = NoWalk]
  /\ UNCHANGED <<life, pc, waitsOn, dead, woken, attempt, talk>>

\* The new attempt, with a context of its own.
RetryStarts(w) ==
  /\ retry[w] = "asking" /\ Over(ask[w]) /\ ask[w].found = NoOne
  /\ retry' = [retry EXCEPT ![w] = "no"]
  /\ ask' = [ask EXCEPT ![w] = NoWalk]
  /\ attempt' = [attempt EXCEPT ![w] = @ + 1]
  /\ waitsOn' = [waitsOn EXCEPT ![w] = NoOne]
  /\ dead' = [dead EXCEPT ![w] = FALSE]
  /\ pc' = [pc EXCEPT ![w] = IF waits[w] THEN "begin" ELSE "clear"]
  /\ UNCHANGED <<life, st, woken, talk>>

-----------------------------------------------------------------------------
\* Steer: a finished writer's claim is asked about before its lock is taken.
SteerBegins(w) ==
  /\ st[w] # "absent" /\ steer[w] = NoWalk /\ steers[w] < MaxSteers[w]
  /\ steers' = [steers EXCEPT ![w] = @ + 1]
  /\ steer' = [steer EXCEPT ![w] = IF st[w] = "done" THEN Walk("conflict")
                                   ELSE [NoWalk EXCEPT !.kind = "skip"]]
  /\ UNCHANGED <<life, st, pc, waitsOn, dead, woken, attempt, ask, retry,
                 message>>

SteerReads(w) ==
  \E k \in Writer :
    /\ ReadsNext(steer[w], k)
    /\ steer' = [steer EXCEPT ![w] = AfterReading(w, @, k)]
    /\ UNCHANGED <<life, st, pc, waitsOn, dead, woken, attempt, ask, retry,
                   steers, message>>

\* Under the lock: a failed child, or a done one that no longer listens,
\* refuses; a done one is claimed for the follow-up; a live one is sent it.
SteerDecides(w) ==
  /\ Over(steer[w])
  /\ steer' = [steer EXCEPT ![w] = NoWalk]
  /\ LET taken == /\ steer[w].found = NoOne
                  /\ \/ st[w] \in Live
                     \/ st[w] = "done" /\ Listening(w) /\ ~dead[w]
     IN /\ message' = [message EXCEPT ![w] = @ \/ taken]
        /\ st' = [st EXCEPT ![w] = IF taken /\ @ = "done" THEN "running" ELSE @]
  /\ UNCHANGED <<life, pc, waitsOn, dead, woken, attempt, ask, retry, steers>>

\* A working child reads its messages at a round boundary.
ReadsMessage(w) ==
  /\ pc[w] = "working" /\ message[w]
  /\ message' = [message EXCEPT ![w] = FALSE]
  /\ UNCHANGED <<life, st, pc, waitsOn, dead, woken, attempt, ask, retry,
                 steer, steers>>

\* A message that waits when the child has answered is its follow-up, claimed
\* by a steer already or claimed here.
FollowsUp(w) ==
  /\ pc[w] = "answered" /\ message[w]
  /\ message' = [message EXCEPT ![w] = FALSE]
  /\ pc' = [pc EXCEPT ![w] = "working"]
  /\ st' = [st EXCEPT ![w] = "running"]
  /\ UNCHANGED <<life, waitsOn, dead, woken, attempt, ask, retry, steer, steers>>

\* Faulty variant: the claim a steer made meanwhile is not looked for.
StopsListeningQuietly(w) ==
  /\ pc[w] = "answered" /\ dead[w]
  /\ pc' = [pc EXCEPT ![w] = "over"]
  /\ UNCHANGED <<life, st, waitsOn, dead, woken, attempt, ask, retry, talk>>

\* A child cancelled after it answered stops listening; one a follow-up had
\* claimed by then has failed.
StopsListening(w) ==
  /\ pc[w] = "answered" /\ dead[w]
  /\ IF st[w] = "done"
     THEN pc' = [pc EXCEPT ![w] = "over"] /\ UNCHANGED st
     ELSE pc' = [pc EXCEPT ![w] = "failing"] /\ st' = [st EXCEPT ![w] = "failed"]
  /\ UNCHANGED <<life, waitsOn, dead, woken, attempt, ask, retry, talk>>

-----------------------------------------------------------------------------
Next ==
  \E w \in Writer :
    \/ SpawnBegin(w) \/ Read(w) \/ SpawnRefused(w) \/ SpawnNamesNearest(w)
    \/ SpawnInsert(w) \/ AwaitBegins(w) \/ AwaitDecides(w) \/ Wakes(w)
    \/ Start(w) \/ Fails(w) \/ Answers(w) \/ Releases(w) \/ Cancel(w)
    \/ Retry(w) \/ RetryBegins(w) \/ RetryAbandoned(w) \/ RetryStarts(w)
    \/ SteerBegins(w) \/ SteerReads(w) \/ SteerDecides(w) \/ ReadsMessage(w)
    \/ FollowsUp(w) \/ StopsListening(w)

Spec == Init /\ [][Next]_vars

\* Goroutines, spawn calls, steers and retries under way run, and a cancelled
\* wait ends.  Nothing makes a working child end, a person retry or steer, or
\* anything be cancelled.
Fairness ==
  \A w \in Writer :
    /\ WF_vars(Read(w)) /\ WF_vars(SpawnInsert(w) \/ SpawnRefused(w))
    /\ WF_vars(SpawnNamesNearest(w)) /\ WF_vars(AwaitBegins(w))
    /\ WF_vars(AwaitDecides(w)) /\ WF_vars(Wakes(w)) /\ WF_vars(Start(w))
    /\ WF_vars(Releases(w)) /\ WF_vars(pc[w] # "working" /\ Fails(w))
    /\ WF_vars(FollowsUp(w) \/ StopsListening(w))
    /\ WF_vars(SteerReads(w)) /\ WF_vars(SteerDecides(w))
    /\ WF_vars(RetryBegins(w) \/ RetryStarts(w) \/ RetryAbandoned(w))

FairSpec == Spec /\ Fairness

-----------------------------------------------------------------------------
\* Every variable has its type, and claimMu is the one spawn's that walks.
TypeOK ==
  /\ claimMu \in Writer \cup {NoOne}
  /\ \A w \in Writer : pc[w] = "spawn" <=> claimMu = w
  /\ spawned \in 0..MaxSpawns
  /\ st \in [Writer -> Live \cup {"absent", "done", "failed"}]
  /\ pc \in [Writer -> {"none", "spawn", "begin", "asking", "parked", "clear",
                        "working", "failing", "answering", "answered", "over"}]
  /\ seq \in [Writer -> 0..MaxSpawns]
  /\ \A w \in Writer : attempt[w] \in 1..MaxAttempts[w]
  /\ retry \in [Writer -> {"no", "waiting", "asking"}]
  /\ \A w \in Writer : steers[w] \in 0..MaxSteers[w]
  /\ waitsOn \in [Writer -> Writer \cup {NoOne}]
  /\ {waits, shares, dead, woken, message} \subseteq [Writer -> BOOLEAN]
  /\ \A a \in {ask[w] : w \in Writer} \cup {steer[w] : w \in Writer} :
       /\ a.kind \in {"no", "skip", "conflict", "ahead", "around"}
       /\ a.left \subseteq Writer /\ a.found \in Writer \cup {NoOne}

\* A live writer past its wait, which nobody cancelled: it works on its paths,
\* or will once it has a slot or reads the follow-up it was claimed for.
WorksOnItsPaths(w) ==
  Holds(w) /\ retry[w] = "no" /\ pc[w] \notin {"begin", "asking", "parked"}

MayShare(w, k) == <<w, k>> \in Clash => shares[w] /\ shares[k]

\* "two live writers over one file is what refusing an overlapping spawn
\* exists to prevent": no two writers work over one file unless both allowed it.
OneWriterPerFile ==
  \A w, k \in Writer :
    w # k /\ WorksOnItsPaths(w) /\ WorksOnItsPaths(k) => MayShare(w, k)

\* The same of writers on their first attempt that nobody steered, whatever
\* happens to the others: spawns alone never put two writers in one file.
FreshWritersApart ==
  \A w, k \in {v \in Writer : attempt[v] = 1 /\ steers[v] = 0} :
    w # k /\ WorksOnItsPaths(w) /\ WorksOnItsPaths(k) => MayShare(w, k)

\* "Writers queued behind one claim start in the order they were spawned": a
\* first attempt comes clear only when no writer spawned before it, on its own
\* first attempt, still holds or waits for a claim that meets its own.
WaitersGoInOrder ==
  [][\A w \in Writer :
       pc[w] = "asking" /\ pc'[w] = "clear" /\ attempt[w] = 1 =>
         \A k \in Writer :
           seq[k] < seq[w] /\ Holds(k) /\ attempt[k] = 1 /\ retry[k] = "no"
             /\ steers[k] = 0 => MayShare(w, k)]_vars

\* "a release that lands after the read closes the channel the wait below
\* holds": a writer asleep with no wake on its way waits behind a writer that
\* is live, or that ended and is about to release.
NoMissedWake ==
  \A w \in Writer :
    pc[w] = "parked" /\ ~woken[w] =>
      \/ st[waitsOn[w]] \in Live
      \/ pc[waitsOn[w]] \in {"failing", "answering"}

\* A lane reads live only while something will move it: a goroutine, or a
\* retry on its way to one; and a follow-up is never claimed of a child whose
\* goroutine has no message to start it from.
NoOrphanLane ==
  \A w \in Writer : st[w] \in Live /\ retry[w] = "no" =>
    /\ pc[w] \notin {"none", "over"}
    /\ pc[w] \in {"answering", "answered"} => message[w]

\* A parked writer is let go in the end, if no child works for ever and none
\* is retried: a retry may leave two writers parked behind each other, or one
\* behind a retry that was abandoned.
EveryWaiterIsLetGo ==
  (\A w \in Writer : []<>(pc[w] # "working")) /\ [](\A w \in Writer : retry[w] = "no")
    => \A w \in Writer : pc[w] = "parked" ~> pc[w] # "parked"

=============================================================================
