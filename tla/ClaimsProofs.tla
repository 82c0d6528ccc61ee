----------------------------- MODULE ClaimsProofs -----------------------------
(***************************************************************************)
(* The invariants of writer claims, for any number of writers, overlaps,   *)
(* attempts and steers.  No claim is written down: what keeps two writers  *)
(* out of one file is that the later of them read the earlier one's status *)
(* in its walk (Watched), and that a writer seen to hold nothing stays so  *)
(* until somebody retries or steers it.                                    *)
(***************************************************************************)
EXTENDS Claims, TLAPS

Walks == [kind : {"no", "skip", "conflict", "ahead", "around"},
          left : SUBSET Writer, found : Writer \cup {NoOne}]

\* The variables, each as the function it is.
Types ==
  /\ claimMu \in Writer \cup {NoOne} /\ spawned \in 0..MaxSpawns
  /\ st \in [Writer -> Live \cup {"absent", "done", "failed"}]
  /\ pc \in [Writer -> {"none", "spawn", "begin", "asking", "parked", "clear",
                        "working", "failing", "answering", "answered", "over"}]
  /\ seq \in [Writer -> 0..MaxSpawns]
  /\ attempt \in [Writer -> Nat \ {0}] /\ steers \in [Writer -> Nat]
  /\ retry \in [Writer -> {"no", "waiting", "asking"}]
  /\ waitsOn \in [Writer -> Writer \cup {NoOne}]
  /\ waits \in [Writer -> BOOLEAN] /\ shares \in [Writer -> BOOLEAN]
  /\ dead \in [Writer -> BOOLEAN] /\ woken \in [Writer -> BOOLEAN]
  /\ message \in [Writer -> BOOLEAN]
  /\ ask \in [Writer -> Walks] /\ steer \in [Writer -> Walks]

\* What a writer's goroutine, its status and a retry of it say of each other.
Lane(w) ==
  /\ st[w] = "absent" <=> pc[w] \in {"none", "spawn"}
  /\ pc[w] = "spawn" <=> claimMu = w
  /\ pc[w] \in {"begin", "asking", "parked", "clear"} => st[w] = "queued"
  /\ pc[w] = "working" => st[w] = "running"
  /\ pc[w] \in {"answering", "answered"} =>
       st[w] = "done" \/ (st[w] = "running" /\ message[w])
  /\ pc[w] = "failing" /\ retry[w] = "no" => st[w] = "failed"
  /\ pc[w] = "over" /\ retry[w] = "no" => st[w] \in {"done", "failed"}
  /\ retry[w] # "no" => st[w] = "queued" /\ pc[w] \in {"failing", "over"}
  /\ retry[w] # "no" => attempt[w] < MaxAttempts[w]
  /\ retry[w] = "asking" => pc[w] = "over"
  /\ attempt[w] <= MaxAttempts[w] /\ steers[w] <= MaxSteers[w]
  /\ steers[w] = 0 => ~message[w] /\ steer[w] = NoWalk

Lanes == \A w \in Writer : Lane(w)

\* Spawns have their places one after the other.
Order ==
  /\ \A w \in Writer : seq[w] <= spawned
  /\ \A w \in Writer : pc[w] = "spawn" => seq[w] = spawned
  /\ \A w \in Writer : pc[w] # "none" => seq[w] >= 1
  /\ \A w, k \in Writer : w # k /\ seq[w] = seq[k] => seq[w] = 0

\* What a walk is about, by who makes it.
Asking ==
  \A w \in Writer :
    /\ pc[w] = "spawn" => ask[w].kind = "conflict" \/ (ask[w].kind = "ahead" /\ waits[w])
    /\ pc[w] = "asking" => ask[w].kind = IF attempt[w] > 1 THEN "around" ELSE "ahead"
    /\ retry[w] = "asking" => ask[w].kind = IF waits[w] THEN "skip" ELSE "around"

\* A writer on its first attempt that nobody steered, and one that holds its
\* claim and is not on its way back.
Fresh(k) == attempt[k] = 1 /\ steers[k] = 0
Claiming(k) == Holds(k) /\ retry[k] = "no"

\* Two writers that may not both work, the fresh one spawned before the other.
Behind(w, k) == Fresh(k) /\ Claiming(k) /\ seq[k] < seq[w] /\ ~MayShare(w, k)

\* The walks that decide whether a writer may come clear, and the writers that
\* came clear of such a walk.
Looking(w) ==
  \/ pc[w] = "asking"
  \/ pc[w] = "spawn" /\ ask[w].kind = "conflict"
  \/ retry[w] = "asking" /\ ~waits[w]
Cleared(w) == pc[w] \in {"clear", "working", "answering", "answered"}

\* A walk has still to read a claim in its way, or has found one; so a writer
\* past its walk has none.
Watched ==
  \A w, k \in Writer : Behind(w, k) =>
    /\ Looking(w) => k \in ask[w].left \/ ask[w].found # NoOne
    /\ ~Cleared(w)

IInv == Types /\ Lanes /\ Order /\ Asking /\ Watched

\* A writer that found another in its way is woken when that one releases.
Waking ==
  /\ \A w \in Writer : pc[w] = "parked" => waitsOn[w] # NoOne
  /\ \A w \in Writer : pc[w] = "asking" /\ ask[w].found # NoOne /\ ~woken[w] =>
       \/ st[ask[w].found] \in Live
       \/ pc[ask[w].found] \in {"failing", "answering"}
  /\ NoMissedWake

\* A retry that was begun is seen through to its attempt.
SeenThrough == \A w \in Writer : ~RetryAbandoned(w)

-----------------------------------------------------------------------------
(***************************************************************************)
(* Walks.                                                                  *)
(***************************************************************************)

\* A walk begins with every child in the list still to be read.
LEMMA WalkBegins ==
  ASSUME NEW kind \in {"no", "skip", "conflict", "ahead", "around"}
  PROVE  /\ Walk(kind) \in Walks /\ Walk(kind).kind = kind
         /\ Walk(kind).left = Listed /\ Walk(kind).found = NoOne
BY DEF Walk, Walks, Listed

\* Who does not ask has nothing left to read and found nobody.
LEMMA NoWalkIs ==
  /\ NoWalk \in Walks /\ [NoWalk EXCEPT !.kind = "skip"] \in Walks
  /\ NoWalk.kind = "no" /\ NoWalk.left = {} /\ NoWalk.found = NoOne
  /\ [NoWalk EXCEPT !.kind = "skip"].kind = "skip"
  /\ [NoWalk EXCEPT !.kind = "skip"].left = {}
  /\ [NoWalk EXCEPT !.kind = "skip"].found = NoOne
BY DEF NoWalk, Walks

\* A read ends the walk at a claim in the way, and else drops one child.
LEMMA ReadMoves ==
  ASSUME NEW w \in Writer, NEW k \in Writer, NEW a \in Walks
  PROVE  LET b == AfterReading(w, a, k) IN
         /\ b \in Walks /\ b.kind = a.kind
         /\ InTheWay(w, k, a.kind) => b.left = {} /\ b.found = k
         /\ ~InTheWay(w, k, a.kind) => b.left = a.left \ {k} /\ b.found = a.found
<1> DEFINE b == AfterReading(w, a, k)
<1>1. CASE InTheWay(w, k, a.kind)
  <2>1. b = [a EXCEPT !.left = {}, !.found = k]
    BY <1>1 DEF AfterReading
  <2> QED  BY <1>1, <2>1 DEF Walks
<1>2. CASE ~InTheWay(w, k, a.kind)
  <2>1. b = [a EXCEPT !.left = @ \ {k}]
    BY <1>2 DEF AfterReading
  <2> QED  BY <1>2, <2>1 DEF Walks
<1> QED  BY <1>1, <1>2

\* What a walk found is a writer or nobody.
LEMMA FoundIs ==
  ASSUME Types, NEW w \in Writer
  PROVE  /\ ask[w] \in Walks /\ ask[w].found \in Writer \cup {NoOne}
         /\ ask[w].left \subseteq Writer /\ steer[w] \in Walks
BY DEF Types, Walks

\* Every step keeps every variable a function of its type.
LEMMA TypesStep ==
  ASSUME Types, Next
  PROVE  Types'
<1>1. ASSUME NEW w \in Writer, SpawnBegin(w) PROVE Types'
  BY <1>1, BoundsAssumption, WalkBegins DEF SpawnBegin, Types, talk
<1>2. ASSUME NEW w \in Writer, Read(w) PROVE Types'
  BY <1>2, ReadMoves DEF Read, Types, life, talk
<1>3. ASSUME NEW w \in Writer, SpawnRefused(w) PROVE Types'
  BY <1>3, NoWalkIs DEF SpawnRefused, Types, talk
<1>4. ASSUME NEW w \in Writer, SpawnNamesNearest(w) PROVE Types'
  BY <1>4, WalkBegins, FoundIs DEF SpawnNamesNearest, Types, life, talk
<1>5. ASSUME NEW w \in Writer, SpawnInsert(w) PROVE Types'
  BY <1>5, NoWalkIs, FoundIs DEF SpawnInsert, Types, talk, Live
<1>6. ASSUME NEW w \in Writer, AwaitBegins(w) PROVE Types'
  BY <1>6, WalkBegins DEF AwaitBegins, Types, life, talk
<1>7. ASSUME NEW w \in Writer, AwaitDecides(w) PROVE Types'
  BY <1>7, NoWalkIs, FoundIs DEF AwaitDecides, Types, life, talk
<1>8. ASSUME NEW w \in Writer, Wakes(w) PROVE Types'
  BY <1>8 DEF Wakes, Types, life, talk
<1>9. ASSUME NEW w \in Writer, Start(w) PROVE Types'
  BY <1>9 DEF Start, Types, life, talk, Live
<1>10. ASSUME NEW w \in Writer, Fails(w) PROVE Types'
  BY <1>10 DEF Fails, Types, life, talk
<1>11. ASSUME NEW w \in Writer, Answers(w) PROVE Types'
  BY <1>11 DEF Answers, Types, life, talk
<1>12. ASSUME NEW w \in Writer, Releases(w) PROVE Types'
  BY <1>12 DEF Releases, Types, life, talk
<1>13. ASSUME NEW w \in Writer, Cancel(w) PROVE Types'
  BY <1>13 DEF Cancel, Types, life, talk
<1>14. ASSUME NEW w \in Writer, Retry(w) PROVE Types'
  BY <1>14 DEF Retry, Types, life, talk, Live
<1>15. ASSUME NEW w \in Writer, RetryBegins(w) PROVE Types'
  BY <1>15, WalkBegins, NoWalkIs DEF RetryBegins, Types, life, talk
<1>16. ASSUME NEW w \in Writer, RetryAbandoned(w) PROVE Types'
  BY <1>16, NoWalkIs DEF RetryAbandoned, Types, life, talk
<1>17. ASSUME NEW w \in Writer, RetryStarts(w) PROVE Types'
  BY <1>17, NoWalkIs DEF RetryStarts, Types, life, talk
<1>18. ASSUME NEW w \in Writer, SteerBegins(w) PROVE Types'
  BY <1>18, WalkBegins, NoWalkIs DEF SteerBegins, Types, life
<1>19. ASSUME NEW w \in Writer, SteerReads(w) PROVE Types'
  BY <1>19, ReadMoves DEF SteerReads, Types, life
<1>20. ASSUME NEW w \in Writer, SteerDecides(w) PROVE Types'
  BY <1>20, NoWalkIs DEF SteerDecides, Types, life, Live
<1>21. ASSUME NEW w \in Writer, ReadsMessage(w) PROVE Types'
  BY <1>21 DEF ReadsMessage, Types, life
<1>22. ASSUME NEW w \in Writer, FollowsUp(w) PROVE Types'
  BY <1>22 DEF FollowsUp, Types, life, Live
<1>23. ASSUME NEW w \in Writer, StopsListening(w) PROVE Types'
  BY <1>23 DEF StopsListening, Types, life, talk
<1> QED
  BY <1>1, <1>2, <1>3, <1>4, <1>5, <1>6, <1>7, <1>8, <1>9, <1>10, <1>11, <1>12, <1>13,
     <1>14, <1>15, <1>16, <1>17, <1>18, <1>19, <1>20, <1>21, <1>22, <1>23
     DEF Next

\* Every step keeps what a writer's goroutine, status and retry say of each other.
LEMMA LanesStep ==
  ASSUME Types, Lanes, Next
  PROVE  Lanes'
<1>1. ASSUME NEW w \in Writer, SpawnBegin(w) PROVE Lanes'
  BY <1>1, NoOneAssumption DEF SpawnBegin, Types, Lanes, Lane, talk
<1>2. ASSUME NEW w \in Writer, Read(w) PROVE Lanes'
  BY <1>2 DEF Read, Lanes, Lane, life, talk
<1>3. ASSUME NEW w \in Writer, SpawnRefused(w) PROVE Lanes'
  BY <1>3, NoOneAssumption DEF SpawnRefused, Types, Lanes, Lane, talk
<1>4. ASSUME NEW w \in Writer, SpawnNamesNearest(w) PROVE Lanes'
  BY <1>4 DEF SpawnNamesNearest, Lanes, Lane, life, talk
<1>5. ASSUME NEW w \in Writer, SpawnInsert(w) PROVE Lanes'
  BY <1>5, NoOneAssumption DEF SpawnInsert, Types, Lanes, Lane, talk
<1>6. ASSUME NEW w \in Writer, AwaitBegins(w) PROVE Lanes'
  BY <1>6 DEF AwaitBegins, Lanes, Lane, life, talk
<1>7. ASSUME NEW w \in Writer, AwaitDecides(w) PROVE Lanes'
  BY <1>7 DEF AwaitDecides, Lanes, Lane, life, talk
<1>8. ASSUME NEW w \in Writer, Wakes(w) PROVE Lanes'
  BY <1>8 DEF Wakes, Lanes, Lane, life, talk
<1>9. ASSUME NEW w \in Writer, Start(w) PROVE Lanes'
  BY <1>9 DEF Start, Types, Lanes, Lane, life, talk
<1>10. ASSUME NEW w \in Writer, Fails(w) PROVE Lanes'
  BY <1>10 DEF Fails, Types, Lanes, Lane, life, talk
<1>11. ASSUME NEW w \in Writer, Answers(w) PROVE Lanes'
  BY <1>11 DEF Answers, Types, Lanes, Lane, life, talk
<1>12. ASSUME NEW w \in Writer, Releases(w) PROVE Lanes'
  BY <1>12 DEF Releases, Lanes, Lane, life, talk
<1>13. ASSUME NEW w \in Writer, Cancel(w) PROVE Lanes'
  BY <1>13 DEF Cancel, Lanes, Lane, life, talk
<1>14. ASSUME NEW w \in Writer, Retry(w) PROVE Lanes'
  BY <1>14 DEF Retry, Types, Lanes, Lane, life, talk
<1>15. ASSUME NEW w \in Writer, RetryBegins(w) PROVE Lanes'
  BY <1>15 DEF RetryBegins, Lanes, Lane, life, talk
<1>16. ASSUME NEW w \in Writer, RetryAbandoned(w) PROVE Lanes'
  BY <1>16 DEF RetryAbandoned, Types, Lanes, Lane, life, talk
<1>17. ASSUME NEW w \in Writer, RetryStarts(w) PROVE Lanes'
  <2>1. attempt[w] \in Nat /\ MaxAttempts[w] \in Nat /\ attempt[w] < MaxAttempts[w]
    BY <1>17, BoundsAssumption DEF RetryStarts, Types, Lanes, Lane
  <2>2. attempt' = [attempt EXCEPT ![w] = attempt[w] + 1]
    BY <1>17 DEF RetryStarts
  <2>3. \A v \in Writer : attempt'[v] <= MaxAttempts[v]
    BY <2>1, <2>2 DEF Lanes, Lane
  <2>4. ASSUME NEW v \in Writer, v # w PROVE Lane(v)'
    BY <1>17, <2>4 DEF RetryStarts, Lanes, Lane, life, talk
  <2>5. Lane(w)'
    BY <1>17, <2>3 DEF RetryStarts, Types, Lanes, Lane, life, talk
  <2> QED  BY <2>4, <2>5 DEF Lanes
<1>18. ASSUME NEW w \in Writer, SteerBegins(w) PROVE Lanes'
  <2>1. steers[w] \in Nat /\ MaxSteers[w] \in Nat /\ steers[w] < MaxSteers[w]
    BY <1>18, BoundsAssumption DEF SteerBegins, Types
  <2>2. steers' = [steers EXCEPT ![w] = steers[w] + 1]
    BY <1>18 DEF SteerBegins
  <2>3. /\ \A v \in Writer : steers'[v] <= MaxSteers[v]
        /\ \A v \in Writer \ {w} : steers'[v] = steers[v]
        /\ steers'[w] # 0
    BY <2>1, <2>2 DEF Types, Lanes, Lane
  <2>4. ASSUME NEW v \in Writer, v # w PROVE Lane(v)'
    BY <1>18, <2>4 DEF SteerBegins, Lanes, Lane, life
  <2>5. Lane(w)'
    BY <1>18, <2>3 DEF SteerBegins, Lanes, Lane, life
  <2> QED  BY <2>4, <2>5 DEF Lanes
<1>19. ASSUME NEW w \in Writer, SteerReads(w) PROVE Lanes'
  BY <1>19, NoWalkIs DEF SteerReads, Lanes, Lane, life, ReadsNext
<1>20. ASSUME NEW w \in Writer, SteerDecides(w) PROVE Lanes'
  <2>1. steers[w] # 0
    BY <1>20, NoWalkIs DEF SteerDecides, Over, Lanes, Lane
  <2>2. /\ \A v \in Writer \ {w} : /\ message'[v] = message[v] /\ st'[v] = st[v]
                                   /\ steer'[v] = steer[v]
        /\ st'[w] = st[w] \/ (st[w] = "done" /\ Listening(w)
                                /\ st'[w] = "running" /\ message'[w])
        /\ message[w] => message'[w]
    BY <1>20 DEF SteerDecides, Types, Live
  <2>3. ASSUME NEW v \in Writer, v # w PROVE Lane(v)'
    BY <1>20, <2>3 DEF SteerDecides, Lanes, Lane, life
  <2>4. Lane(w)'
    BY <1>20, <2>1, <2>2 DEF SteerDecides, Lanes, Lane, life, Listening
  <2> QED  BY <2>3, <2>4 DEF Lanes
<1>21. ASSUME NEW w \in Writer, ReadsMessage(w) PROVE Lanes'
  BY <1>21 DEF ReadsMessage, Lanes, Lane, life
<1>22. ASSUME NEW w \in Writer, FollowsUp(w) PROVE Lanes'
  BY <1>22 DEF FollowsUp, Types, Lanes, Lane, life
<1>23. ASSUME NEW w \in Writer, StopsListening(w) PROVE Lanes'
  BY <1>23 DEF StopsListening, Types, Lanes, Lane, life, talk
<1> QED
  BY <1>1, <1>2, <1>3, <1>4, <1>5, <1>6, <1>7, <1>8, <1>9, <1>10, <1>11, <1>12, <1>13,
     <1>14, <1>15, <1>16, <1>17, <1>18, <1>19, <1>20, <1>21, <1>22, <1>23
     DEF Next

\* Every step keeps the places writers were spawned in.
LEMMA OrderStep ==
  ASSUME Types, Lanes, Order, Next
  PROVE  Order'
<1>1. ASSUME NEW w \in Writer, SpawnBegin(w) PROVE Order'
  BY <1>1, NoOneAssumption DEF SpawnBegin, Types, Lanes, Lane, Order
<1>2. ASSUME NEW w \in Writer, Read(w) PROVE Order'
  BY <1>2 DEF Read, Order, life
<1>3. ASSUME NEW w \in Writer, SpawnRefused(w) PROVE Order'
  BY <1>3 DEF SpawnRefused, Order
<1>4. ASSUME NEW w \in Writer, SpawnNamesNearest(w) PROVE Order'
  BY <1>4 DEF SpawnNamesNearest, Order, life
<1>5. ASSUME NEW w \in Writer, SpawnInsert(w) PROVE Order'
  BY <1>5 DEF SpawnInsert, Order
<1>6. ASSUME NEW w \in Writer, AwaitBegins(w) PROVE Order'
  BY <1>6 DEF AwaitBegins, Order, life
<1>7. ASSUME NEW w \in Writer, AwaitDecides(w) PROVE Order'
  BY <1>7 DEF AwaitDecides, Order, life
<1>8. ASSUME NEW w \in Writer, Wakes(w) PROVE Order'
  BY <1>8 DEF Wakes, Order, life
<1>9. ASSUME NEW w \in Writer, Start(w) PROVE Order'
  BY <1>9 DEF Start, Order, life
<1>10. ASSUME NEW w \in Writer, Fails(w) PROVE Order'
  BY <1>10 DEF Fails, Order, life
<1>11. ASSUME NEW w \in Writer, Answers(w) PROVE Order'
  BY <1>11 DEF Answers, Order, life
<1>12. ASSUME NEW w \in Writer, Releases(w) PROVE Order'
  BY <1>12 DEF Releases, Order, life
<1>13. ASSUME NEW w \in Writer, Cancel(w) PROVE Order'
  BY <1>13 DEF Cancel, Order, life
<1>14. ASSUME NEW w \in Writer, Retry(w) PROVE Order'
  BY <1>14 DEF Retry, Order, life
<1>15. ASSUME NEW w \in Writer, RetryBegins(w) PROVE Order'
  BY <1>15 DEF RetryBegins, Order, life
<1>16. ASSUME NEW w \in Writer, RetryAbandoned(w) PROVE Order'
  BY <1>16 DEF RetryAbandoned, Order, life
<1>17. ASSUME NEW w \in Writer, RetryStarts(w) PROVE Order'
  BY <1>17 DEF RetryStarts, Lanes, Lane, Order, life
<1>18. ASSUME NEW w \in Writer, SteerBegins(w) PROVE Order'
  BY <1>18 DEF SteerBegins, Order, life
<1>19. ASSUME NEW w \in Writer, SteerReads(w) PROVE Order'
  BY <1>19 DEF SteerReads, Order, life
<1>20. ASSUME NEW w \in Writer, SteerDecides(w) PROVE Order'
  BY <1>20 DEF SteerDecides, Order, life
<1>21. ASSUME NEW w \in Writer, ReadsMessage(w) PROVE Order'
  BY <1>21 DEF ReadsMessage, Order, life
<1>22. ASSUME NEW w \in Writer, FollowsUp(w) PROVE Order'
  BY <1>22 DEF FollowsUp, Order, life
<1>23. ASSUME NEW w \in Writer, StopsListening(w) PROVE Order'
  BY <1>23 DEF StopsListening, Types, Order, life
<1> QED
  BY <1>1, <1>2, <1>3, <1>4, <1>5, <1>6, <1>7, <1>8, <1>9, <1>10, <1>11, <1>12, <1>13,
     <1>14, <1>15, <1>16, <1>17, <1>18, <1>19, <1>20, <1>21, <1>22, <1>23
     DEF Next

\* Every step keeps what each walk is about.
LEMMA AskingStep ==
  ASSUME Types, Lanes, Asking, Next
  PROVE  Asking'
<1>1. ASSUME NEW w \in Writer, SpawnBegin(w) PROVE Asking'
  BY <1>1, WalkBegins DEF SpawnBegin, Types, Lanes, Lane, Asking
<1>2. ASSUME NEW w \in Writer, Read(w) PROVE Asking'
  BY <1>2, ReadMoves, FoundIs DEF Read, Asking, life
<1>3. ASSUME NEW w \in Writer, SpawnRefused(w) PROVE Asking'
  BY <1>3 DEF SpawnRefused, Types, Asking
<1>4. ASSUME NEW w \in Writer, SpawnNamesNearest(w) PROVE Asking'
  BY <1>4, WalkBegins DEF SpawnNamesNearest, Asking, life
<1>5. ASSUME NEW w \in Writer, SpawnInsert(w) PROVE Asking'
  BY <1>5 DEF SpawnInsert, Types, Asking
<1>6. ASSUME NEW w \in Writer, AwaitBegins(w) PROVE Asking'
  BY <1>6, WalkBegins DEF AwaitBegins, Types, Lanes, Lane, Asking, life
<1>7. ASSUME NEW w \in Writer, AwaitDecides(w) PROVE Asking'
  BY <1>7 DEF AwaitDecides, Types, Lanes, Lane, Asking, life
<1>8. ASSUME NEW w \in Writer, Wakes(w) PROVE Asking'
  BY <1>8 DEF Wakes, Asking, life
<1>9. ASSUME NEW w \in Writer, Start(w) PROVE Asking'
  BY <1>9 DEF Start, Asking, life
<1>10. ASSUME NEW w \in Writer, Fails(w) PROVE Asking'
  BY <1>10 DEF Fails, Asking, life
<1>11. ASSUME NEW w \in Writer, Answers(w) PROVE Asking'
  BY <1>11 DEF Answers, Asking, life
<1>12. ASSUME NEW w \in Writer, Releases(w) PROVE Asking'
  BY <1>12 DEF Releases, Asking, life
<1>13. ASSUME NEW w \in Writer, Cancel(w) PROVE Asking'
  BY <1>13 DEF Cancel, Asking, life
<1>14. ASSUME NEW w \in Writer, Retry(w) PROVE Asking'
  BY <1>14 DEF Retry, Asking, life
<1>15. ASSUME NEW w \in Writer, RetryBegins(w) PROVE Asking'
  BY <1>15, WalkBegins DEF RetryBegins, Types, Asking, life
<1>16. ASSUME NEW w \in Writer, RetryAbandoned(w) PROVE Asking'
  BY <1>16 DEF RetryAbandoned, Types, Lanes, Lane, Asking, life
<1>17. ASSUME NEW w \in Writer, RetryStarts(w) PROVE Asking'
  BY <1>17 DEF RetryStarts, Types, Asking, life
<1>18. ASSUME NEW w \in Writer, SteerBegins(w) PROVE Asking'
  BY <1>18 DEF SteerBegins, Asking, life
<1>19. ASSUME NEW w \in Writer, SteerReads(w) PROVE Asking'
  BY <1>19 DEF SteerReads, Asking, life
<1>20. ASSUME NEW w \in Writer, SteerDecides(w) PROVE Asking'
  BY <1>20 DEF SteerDecides, Asking, life
<1>21. ASSUME NEW w \in Writer, ReadsMessage(w) PROVE Asking'
  BY <1>21 DEF ReadsMessage, Asking, life
<1>22. ASSUME NEW w \in Writer, FollowsUp(w) PROVE Asking'
  BY <1>22 DEF FollowsUp, Asking, life
<1>23. ASSUME NEW w \in Writer, StopsListening(w) PROVE Asking'
  BY <1>23 DEF StopsListening, Types, Asking, life
<1> QED
  BY <1>1, <1>2, <1>3, <1>4, <1>5, <1>6, <1>7, <1>8, <1>9, <1>10, <1>11, <1>12, <1>13,
     <1>14, <1>15, <1>16, <1>17, <1>18, <1>19, <1>20, <1>21, <1>22, <1>23
     DEF Next

-----------------------------------------------------------------------------
(***************************************************************************)
(* The claims of fresh writers.                                            *)
(***************************************************************************)

\* What does not change of a claim that stands before a writer after a step.
Stood(k) == Fresh(k) /\ Claiming(k) /\ seq'[k] = seq[k] /\ shares'[k] = shares[k]

\* A fresh claim that stands before another writer stood before the step: a
\* claim once gone comes back by a retry or a steer only, and a new one is last.
LEMMA ClaimStood ==
  ASSUME Types, Lanes, Order, Next, NEW v \in Writer, NEW k \in Writer, Behind(v, k)'
  PROVE  Stood(k)
<1>1. ASSUME NEW w \in Writer, SpawnBegin(w) PROVE Stood(k)
  BY <1>1 DEF SpawnBegin, Behind, Claiming, Fresh, Holds, talk, Live, Stood
<1>2. ASSUME NEW w \in Writer, Read(w) PROVE Stood(k)
  BY <1>2 DEF Read, Behind, Claiming, Fresh, Holds, life, talk, Stood
<1>3. ASSUME NEW w \in Writer, SpawnRefused(w) PROVE Stood(k)
  BY <1>3 DEF SpawnRefused, Behind, Claiming, Fresh, Holds, talk, Stood
<1>4. ASSUME NEW w \in Writer, SpawnNamesNearest(w) PROVE Stood(k)
  BY <1>4 DEF SpawnNamesNearest, Behind, Claiming, Fresh, Holds, life, talk, Stood
<1>5. ASSUME NEW w \in Writer, SpawnInsert(w) PROVE Stood(k)
  BY <1>5 DEF SpawnInsert, Types, Order, Behind, Claiming, Fresh, Holds, talk, Stood
<1>6. ASSUME NEW w \in Writer, AwaitBegins(w) PROVE Stood(k)
  BY <1>6 DEF AwaitBegins, Behind, Claiming, Fresh, Holds, life, talk, Stood
<1>7. ASSUME NEW w \in Writer, AwaitDecides(w) PROVE Stood(k)
  BY <1>7 DEF AwaitDecides, Behind, Claiming, Fresh, Holds, life, talk, Stood
<1>8. ASSUME NEW w \in Writer, Wakes(w) PROVE Stood(k)
  BY <1>8 DEF Wakes, Behind, Claiming, Fresh, Holds, life, talk, Stood
<1>9. ASSUME NEW w \in Writer, Start(w) PROVE Stood(k)
  BY <1>9
     DEF Start, Lanes, Lane, Behind, Claiming, Fresh, Holds, life, talk, Live, Stood
<1>10. ASSUME NEW w \in Writer, Fails(w) PROVE Stood(k)
  BY <1>10 DEF Fails, Behind, Claiming, Fresh, Holds, life, talk, Live, Stood
<1>11. ASSUME NEW w \in Writer, Answers(w) PROVE Stood(k)
  BY <1>11 DEF Answers, Behind, Claiming, Fresh, Holds, life, talk, Live, Stood
<1>12. ASSUME NEW w \in Writer, Releases(w) PROVE Stood(k)
  BY <1>12 DEF Releases, Behind, Claiming, Fresh, Holds, life, talk, Stood
<1>13. ASSUME NEW w \in Writer, Cancel(w) PROVE Stood(k)
  BY <1>13 DEF Cancel, Behind, Claiming, Fresh, Holds, life, talk, Stood
<1>14. ASSUME NEW w \in Writer, Retry(w) PROVE Stood(k)
  BY <1>14 DEF Retry, Types, Behind, Claiming, Fresh, Holds, life, talk, Stood
<1>15. ASSUME NEW w \in Writer, RetryBegins(w) PROVE Stood(k)
  BY <1>15 DEF RetryBegins, Behind, Claiming, Fresh, Holds, life, talk, Stood
<1>16. ASSUME NEW w \in Writer, RetryAbandoned(w) PROVE Stood(k)
  BY <1>16
     DEF RetryAbandoned, Types, Behind, Claiming, Fresh, Holds, life, talk, Live, Stood
<1>17. ASSUME NEW w \in Writer, RetryStarts(w) PROVE Stood(k)
  <2>1. attempt' = [attempt EXCEPT ![w] = attempt[w] + 1] /\ attempt[w] \in Nat \ {0}
    BY <1>17 DEF RetryStarts, Types
  <2>2. attempt'[w] # 1
    BY <2>1 DEF Types
  <2>3. k # w
    BY <2>2 DEF Behind, Fresh
  <2> QED
    BY <1>17, <2>3 DEF RetryStarts, Behind, Claiming, Fresh, Holds, Stood, life, talk
<1>18. ASSUME NEW w \in Writer, SteerBegins(w) PROVE Stood(k)
  BY <1>18 DEF SteerBegins, Types, Behind, Claiming, Fresh, Holds, life, Stood
<1>19. ASSUME NEW w \in Writer, SteerReads(w) PROVE Stood(k)
  BY <1>19 DEF SteerReads, Behind, Claiming, Fresh, Holds, life, Stood
<1>20. ASSUME NEW w \in Writer, SteerDecides(w) PROVE Stood(k)
  BY <1>20, NoWalkIs
     DEF SteerDecides, Lanes, Lane, Behind, Claiming, Fresh, Holds, life, Stood, Over
<1>21. ASSUME NEW w \in Writer, ReadsMessage(w) PROVE Stood(k)
  BY <1>21 DEF ReadsMessage, Behind, Claiming, Fresh, Holds, life, Stood
<1>22. ASSUME NEW w \in Writer, FollowsUp(w) PROVE Stood(k)
  BY <1>22 DEF FollowsUp, Lanes, Lane, Behind, Claiming, Fresh, Holds, life, Stood
<1>23. ASSUME NEW w \in Writer, StopsListening(w) PROVE Stood(k)
  BY <1>23 DEF StopsListening, Types, Behind, Claiming, Fresh, Holds, life, talk, Stood
<1> QED
  BY <1>1, <1>2, <1>3, <1>4, <1>5, <1>6, <1>7, <1>8, <1>9, <1>10, <1>11, <1>12, <1>13,
     <1>14, <1>15, <1>16, <1>17, <1>18, <1>19, <1>20, <1>21, <1>22, <1>23
     DEF Next

\* A walk that may let a writer come clear counts every fresh claim before it.
LEMMA WalkCounts ==
  ASSUME Types, Asking, NEW w \in Writer, NEW k \in Writer, Looking(w), Behind(w, k)
  PROVE  InTheWay(w, k, ask[w].kind)
<1>1. ask[w].kind \in {"conflict", "ahead", "around"}
  BY DEF Looking, Asking
<1>2. seq[k] < seq[w] /\ k # w
  BY DEF Behind, Types
<1> QED  BY <1>1, <1>2 DEF InTheWay, Counts, Behind, Claiming, MayShare

\* Every step keeps walks from passing by a fresh claim.
LEMMA WatchedStep ==
  ASSUME Types, Lanes, Order, Asking, Watched, Next
  PROVE  Watched'
<1> DEFINE Free(v, k) == /\ Looking(v) => k \in ask[v].left \/ ask[v].found # NoOne
                         /\ ~Cleared(v)
<1> SUFFICES ASSUME NEW v \in Writer, NEW k \in Writer, Behind(v, k)'
             PROVE  Free(v, k)'
  BY DEF Watched
<1>a. Stood(k) /\ k \in Listed
  BY ClaimStood DEF Stood, Claiming, Holds, Live, Listed
<1>b. ASSUME seq'[v] = seq[v], shares'[v] = shares[v] PROVE Behind(v, k) /\ Free(v, k)
  BY <1>a, <1>b DEF Behind, MayShare, Stood, Watched
<1>1. ASSUME NEW w \in Writer, SpawnBegin(w) PROVE Free(v, k)'
  <2>1. CASE v # w
    BY <1>1, <1>b, <2>1 DEF SpawnBegin, Looking, Cleared
  <2>2. CASE v = w
    BY <1>1, <1>a, <2>2, WalkBegins DEF SpawnBegin, Cleared, Types
  <2> QED  BY <2>1, <2>2
<1>2. ASSUME NEW w \in Writer, Read(w) PROVE Free(v, k)'
  <2>1. Behind(v, k) /\ Free(v, k)
    BY <1>2, <1>b DEF Read, life
  <2>2. PICK j \in Writer : /\ ReadsNext(ask[w], j)
                            /\ ask' = [ask EXCEPT ![w] = AfterReading(w, ask[w], j)]
    BY <1>2 DEF Read
  <2>3. /\ Looking(v)' <=> \/ pc[v] = "asking"
                           \/ pc[v] = "spawn" /\ ask'[v].kind = "conflict"
                           \/ retry[v] = "asking" /\ ~waits[v]
        /\ Cleared(v)' <=> Cleared(v)
    BY <1>2 DEF Read, Looking, Cleared, life
  <2>4. CASE v # w
    BY <2>1, <2>2, <2>3, <2>4 DEF Looking
  <2>5. CASE v = w
    <3>1. ask'[w] = AfterReading(w, ask[w], j) /\ ask[w] \in Walks /\ j \in ask[w].left
      BY <2>2 DEF Types, ReadsNext
    <3>2. /\ ask'[w].kind = ask[w].kind
          /\ InTheWay(w, j, ask[w].kind) => ask'[w].found = j
          /\ ~InTheWay(w, j, ask[w].kind) => /\ ask'[w].left = ask[w].left \ {j}
                                             /\ ask'[w].found = ask[w].found
      BY <3>1, ReadMoves
    <3>3. Looking(w)' => Looking(w) /\ InTheWay(w, k, ask[w].kind)
      BY <2>1, <2>3, <2>5, <3>2, WalkCounts DEF Looking
    <3> QED  BY <2>1, <2>3, <2>5, <3>2, <3>3, NoOneAssumption
  <2> QED  BY <2>4, <2>5
<1>3. ASSUME NEW w \in Writer, SpawnRefused(w) PROVE Free(v, k)'
  BY <1>3, <1>b DEF SpawnRefused, Looking, Cleared, Types, Lanes, Lane
<1>4. ASSUME NEW w \in Writer, SpawnNamesNearest(w) PROVE Free(v, k)'
  BY <1>4, <1>b, WalkBegins DEF SpawnNamesNearest, Looking, Cleared, life
<1>5. ASSUME NEW w \in Writer, SpawnInsert(w) PROVE Free(v, k)'
  BY <1>5, <1>b DEF SpawnInsert, Looking, Cleared, Types, Asking, Over
<1>6. ASSUME NEW w \in Writer, AwaitBegins(w) PROVE Free(v, k)'
  BY <1>6, <1>a, <1>b, WalkBegins DEF AwaitBegins, Looking, Cleared, Types, life
<1>7. ASSUME NEW w \in Writer, AwaitDecides(w) PROVE Free(v, k)'
  BY <1>7, <1>b DEF AwaitDecides, Looking, Cleared, Types, Lanes, Lane, life, Over
<1>8. ASSUME NEW w \in Writer, Wakes(w) PROVE Free(v, k)'
  BY <1>8, <1>b DEF Wakes, Looking, Cleared, life
<1>9. ASSUME NEW w \in Writer, Start(w) PROVE Free(v, k)'
  BY <1>9, <1>b DEF Start, Looking, Cleared, life
<1>10. ASSUME NEW w \in Writer, Fails(w) PROVE Free(v, k)'
  BY <1>10, <1>b DEF Fails, Looking, Cleared, life
<1>11. ASSUME NEW w \in Writer, Answers(w) PROVE Free(v, k)'
  BY <1>11, <1>b DEF Answers, Looking, Cleared, life
<1>12. ASSUME NEW w \in Writer, Releases(w) PROVE Free(v, k)'
  BY <1>12, <1>b DEF Releases, Looking, Cleared, life
<1>13. ASSUME NEW w \in Writer, Cancel(w) PROVE Free(v, k)'
  BY <1>13, <1>b DEF Cancel, Looking, Cleared, life
<1>14. ASSUME NEW w \in Writer, Retry(w) PROVE Free(v, k)'
  BY <1>14, <1>b DEF Retry, Looking, Cleared, life
<1>15. ASSUME NEW w \in Writer, RetryBegins(w) PROVE Free(v, k)'
  BY <1>15, <1>a, <1>b, WalkBegins DEF RetryBegins, Looking, Cleared, Types, life
<1>16. ASSUME NEW w \in Writer, RetryAbandoned(w) PROVE Free(v, k)'
  BY <1>16, <1>b DEF RetryAbandoned, Looking, Cleared, Types, Lanes, Lane, life
<1>17. ASSUME NEW w \in Writer, RetryStarts(w) PROVE Free(v, k)'
  BY <1>17, <1>b DEF RetryStarts, Looking, Cleared, life, Asking, Over
<1>18. ASSUME NEW w \in Writer, SteerBegins(w) PROVE Free(v, k)'
  BY <1>18, <1>b DEF SteerBegins, Looking, Cleared, life
<1>19. ASSUME NEW w \in Writer, SteerReads(w) PROVE Free(v, k)'
  BY <1>19, <1>b DEF SteerReads, Looking, Cleared, life
<1>20. ASSUME NEW w \in Writer, SteerDecides(w) PROVE Free(v, k)'
  BY <1>20, <1>b DEF SteerDecides, Looking, Cleared, life
<1>21. ASSUME NEW w \in Writer, ReadsMessage(w) PROVE Free(v, k)'
  BY <1>21, <1>b DEF ReadsMessage, Looking, Cleared, life
<1>22. ASSUME NEW w \in Writer, FollowsUp(w) PROVE Free(v, k)'
  BY <1>22, <1>b DEF FollowsUp, Looking, Cleared, life
<1>23. ASSUME NEW w \in Writer, StopsListening(w) PROVE Free(v, k)'
  BY <1>23, <1>b DEF StopsListening, Looking, Cleared, Types, life
<1> QED
  BY <1>1, <1>2, <1>3, <1>4, <1>5, <1>6, <1>7, <1>8, <1>9, <1>10, <1>11, <1>12, <1>13,
     <1>14, <1>15, <1>16, <1>17, <1>18, <1>19, <1>20, <1>21, <1>22, <1>23
     DEF Next

\* Only the end of a walk that found nobody brings a writer clear of it.
LEMMA ComesClear ==
  ASSUME Types, Lanes, Next, NEW v \in Writer, pc[v] = "asking", pc'[v] = "clear"
  PROVE  ask[v].left = {} /\ ask[v].found = NoOne
<1> DEFINE Nobody == ask[v].left = {} /\ ask[v].found = NoOne
<1>1. ASSUME NEW w \in Writer, SpawnBegin(w) PROVE Nobody
  BY <1>1 DEF SpawnBegin
<1>2. ASSUME NEW w \in Writer, Read(w) PROVE Nobody
  BY <1>2 DEF Read
<1>3. ASSUME NEW w \in Writer, SpawnRefused(w) PROVE Nobody
  BY <1>3 DEF SpawnRefused
<1>4. ASSUME NEW w \in Writer, SpawnNamesNearest(w) PROVE Nobody
  BY <1>4 DEF SpawnNamesNearest
<1>5. ASSUME NEW w \in Writer, SpawnInsert(w) PROVE Nobody
  BY <1>5 DEF SpawnInsert
<1>6. ASSUME NEW w \in Writer, AwaitBegins(w) PROVE Nobody
  BY <1>6 DEF AwaitBegins
<1>7. ASSUME NEW w \in Writer, AwaitDecides(w) PROVE Nobody
  BY <1>7 DEF AwaitDecides, Over
<1>8. ASSUME NEW w \in Writer, Wakes(w) PROVE Nobody
  BY <1>8 DEF Wakes
<1>9. ASSUME NEW w \in Writer, Start(w) PROVE Nobody
  BY <1>9 DEF Start
<1>10. ASSUME NEW w \in Writer, Fails(w) PROVE Nobody
  BY <1>10 DEF Fails
<1>11. ASSUME NEW w \in Writer, Answers(w) PROVE Nobody
  BY <1>11 DEF Answers
<1>12. ASSUME NEW w \in Writer, Releases(w) PROVE Nobody
  BY <1>12 DEF Releases
<1>13. ASSUME NEW w \in Writer, Cancel(w) PROVE Nobody
  BY <1>13 DEF Cancel
<1>14. ASSUME NEW w \in Writer, Retry(w) PROVE Nobody
  BY <1>14 DEF Retry
<1>15. ASSUME NEW w \in Writer, RetryBegins(w) PROVE Nobody
  BY <1>15 DEF RetryBegins
<1>16. ASSUME NEW w \in Writer, RetryAbandoned(w) PROVE Nobody
  BY <1>16 DEF RetryAbandoned
<1>17. ASSUME NEW w \in Writer, RetryStarts(w) PROVE Nobody
  BY <1>17 DEF RetryStarts, Lanes, Lane
<1>18. ASSUME NEW w \in Writer, SteerBegins(w) PROVE Nobody
  BY <1>18 DEF SteerBegins
<1>19. ASSUME NEW w \in Writer, SteerReads(w) PROVE Nobody
  BY <1>19 DEF SteerReads
<1>20. ASSUME NEW w \in Writer, SteerDecides(w) PROVE Nobody
  BY <1>20 DEF SteerDecides
<1>21. ASSUME NEW w \in Writer, ReadsMessage(w) PROVE Nobody
  BY <1>21 DEF ReadsMessage
<1>22. ASSUME NEW w \in Writer, FollowsUp(w) PROVE Nobody
  BY <1>22 DEF FollowsUp
<1>23. ASSUME NEW w \in Writer, StopsListening(w) PROVE Nobody
  BY <1>23 DEF StopsListening, Types
<1> QED
  BY <1>1, <1>2, <1>3, <1>4, <1>5, <1>6, <1>7, <1>8, <1>9, <1>10, <1>11, <1>12, <1>13,
     <1>14, <1>15, <1>16, <1>17, <1>18, <1>19, <1>20, <1>21, <1>22, <1>23
     DEF Next

\* A step that abandons no retry keeps a wake on its way to each writer that
\* waits or will wait.
LEMMA WakingStep ==
  ASSUME Types, Lanes, Waking, Next, SeenThrough
  PROVE  Waking'
<1>1. ASSUME NEW w \in Writer, SpawnBegin(w) PROVE Waking'
  BY <1>1 DEF SpawnBegin, Lanes, Lane, Waking, NoMissedWake
<1>2. ASSUME NEW w \in Writer, Read(w) PROVE Waking'
  <2>1. PICK j \in Writer : /\ ReadsNext(ask[w], j)
                            /\ ask' = [ask EXCEPT ![w] = AfterReading(w, ask[w], j)]
    BY <1>2 DEF Read
  <2>2. /\ \A v \in Writer \ {w} : ask'[v] = ask[v]
        /\ ask'[w] = AfterReading(w, ask[w], j) /\ ask[w] \in Walks
    BY <2>1 DEF Types
  <2>3. ask'[w].found = ask[w].found \/ (ask'[w].found = j /\ InTheWay(w, j, ask[w].kind))
    BY <2>2, ReadMoves
  <2>4. ask'[w].found = ask[w].found \/ (ask'[w].found = j /\ st[j] \in Live)
    BY <2>3 DEF InTheWay, Holds
  <2> QED
    BY <1>2, <2>4 DEF Read, Waking, NoMissedWake
<1>3. ASSUME NEW w \in Writer, SpawnRefused(w) PROVE Waking'
  BY <1>3 DEF SpawnRefused, Waking, NoMissedWake
<1>4. ASSUME NEW w \in Writer, SpawnNamesNearest(w) PROVE Waking'
  BY <1>4 DEF SpawnNamesNearest, Waking, NoMissedWake
<1>5. ASSUME NEW w \in Writer, SpawnInsert(w) PROVE Waking'
  BY <1>5 DEF SpawnInsert, Waking, NoMissedWake, Live
<1>6. ASSUME NEW w \in Writer, AwaitBegins(w) PROVE Waking'
  BY <1>6, WalkBegins DEF AwaitBegins, Types, Waking, NoMissedWake
<1>7. ASSUME NEW w \in Writer, AwaitDecides(w) PROVE Waking'
  BY <1>7 DEF AwaitDecides, Types, Waking, NoMissedWake
<1>8. ASSUME NEW w \in Writer, Wakes(w) PROVE Waking'
  BY <1>8 DEF Wakes, Waking, NoMissedWake
<1>9. ASSUME NEW w \in Writer, Start(w) PROVE Waking'
  BY <1>9 DEF Start, Waking, NoMissedWake, Live
<1>10. ASSUME NEW w \in Writer, Fails(w) PROVE Waking'
  BY <1>10 DEF Fails, Types, Waking, NoMissedWake
<1>11. ASSUME NEW w \in Writer, Answers(w) PROVE Waking'
  BY <1>11 DEF Answers, Types, Waking, NoMissedWake
<1>12. ASSUME NEW w \in Writer, Releases(w) PROVE Waking'
  BY <1>12 DEF Releases, Waking, NoMissedWake
<1>13. ASSUME NEW w \in Writer, Cancel(w) PROVE Waking'
  BY <1>13 DEF Cancel, Waking, NoMissedWake
<1>14. ASSUME NEW w \in Writer, Retry(w) PROVE Waking'
  BY <1>14 DEF Retry, Waking, NoMissedWake, Live
<1>15. ASSUME NEW w \in Writer, RetryBegins(w) PROVE Waking'
  BY <1>15, WalkBegins, NoWalkIs
     DEF RetryBegins, Types, Lanes, Lane, Waking, NoMissedWake
<1>16. ASSUME NEW w \in Writer, RetryAbandoned(w) PROVE Waking'
  BY <1>16 DEF SeenThrough
<1>17. ASSUME NEW w \in Writer, RetryStarts(w) PROVE Waking'
  BY <1>17 DEF RetryStarts, Types, Lanes, Lane, Waking, NoMissedWake, life, Live
<1>18. ASSUME NEW w \in Writer, SteerBegins(w) PROVE Waking'
  BY <1>18 DEF SteerBegins, Waking, NoMissedWake
<1>19. ASSUME NEW w \in Writer, SteerReads(w) PROVE Waking'
  BY <1>19 DEF SteerReads, Waking, NoMissedWake
<1>20. ASSUME NEW w \in Writer, SteerDecides(w) PROVE Waking'
  BY <1>20 DEF SteerDecides, Waking, NoMissedWake, Live
<1>21. ASSUME NEW w \in Writer, ReadsMessage(w) PROVE Waking'
  BY <1>21 DEF ReadsMessage, Waking, NoMissedWake
<1>22. ASSUME NEW w \in Writer, FollowsUp(w) PROVE Waking'
  BY <1>22 DEF FollowsUp, Waking, NoMissedWake, Live
<1>23. ASSUME NEW w \in Writer, StopsListening(w) PROVE Waking'
  BY <1>23, FoundIs, SMTT(30)
     DEF StopsListening, Types, Lanes, Lane, Waking, NoMissedWake, life, talk, Live
<1> QED
  BY <1>1, <1>2, <1>3, <1>4, <1>5, <1>6, <1>7, <1>8, <1>9, <1>10, <1>11, <1>12, <1>13,
     <1>14, <1>15, <1>16, <1>17, <1>18, <1>19, <1>20, <1>21, <1>22, <1>23
     DEF Next

-----------------------------------------------------------------------------
(***************************************************************************)
(* The results.                                                            *)
(***************************************************************************)

\* The invariant, for any number of writers, spawns, retries and steers.
THEOREM Invariance == Spec => []IInv
<1>1. Init => IInv
  BY BoundsAssumption, NoOneAssumption, NoWalkIs
     DEF Init, IInv, Types, Lanes, Lane, Order, Asking, Watched, Looking, Cleared
<1>2. IInv /\ Next => IInv'
  BY TypesStep, LanesStep, OrderStep, AskingStep, WatchedStep DEF IInv
<1>3. IInv /\ UNCHANGED vars => IInv'
  BY
     DEF IInv, vars, Types, Lanes, Lane, Order, Asking, Watched, Behind, Claiming,
         Fresh,
         Holds, MayShare, Looking, Cleared
<1> QED  BY <1>1, <1>2, <1>3, PTL DEF Spec

\* Every variable has its type, and claimMu is the one spawn's that walks.
THEOREM TypeCorrect == Spec => []TypeOK
<1>1. IInv => TypeOK
  <2> SUFFICES ASSUME IInv PROVE TypeOK
    OBVIOUS
  <2>1. \A w \in Writer : /\ attempt[w] \in 1..MaxAttempts[w]
                          /\ steers[w] \in 0..MaxSteers[w]
    BY DEF IInv, Types, Lanes, Lane
  <2>2. \A a \in {ask[w] : w \in Writer} \cup {steer[w] : w \in Writer} :
          /\ a.kind \in {"no", "skip", "conflict", "ahead", "around"}
          /\ a.left \subseteq Writer /\ a.found \in Writer \cup {NoOne}
    BY DEF IInv, Types, Walks
  <2>3. {waits, shares, dead, woken, message} \subseteq [Writer -> BOOLEAN]
    BY DEF IInv, Types
  <2> QED  BY <2>1, <2>2, <2>3 DEF IInv, Types, TypeOK, Lanes, Lane
<1> QED  BY <1>1, Invariance, PTL

\* A lane reads live only while a goroutine or a retry will move it, and a
\* follow-up is claimed only of a child that has a message to start it from.
THEOREM LiveLanesMove == Spec => []NoOrphanLane
<1>1. IInv => NoOrphanLane
  BY DEF IInv, Lanes, Lane, NoOrphanLane, Live
<1> QED  BY <1>1, Invariance, PTL

\* Of two writers at work, the one spawned later is past a walk that saw the
\* other: spawns alone never put two writers in one file.
THEOREM FreshApart == Spec => []FreshWritersApart
<1>1. IInv => FreshWritersApart
  <2> SUFFICES ASSUME IInv, NEW w \in Writer, NEW k \in Writer,
                      Fresh(w), Fresh(k), w # k,
                      WorksOnItsPaths(w), WorksOnItsPaths(k)
               PROVE  MayShare(w, k)
    BY DEF FreshWritersApart, Fresh
  <2>1. \A v \in {w, k} : Claiming(v) /\ Cleared(v) /\ pc[v] # "none"
    BY DEF IInv, Types, Lanes, Lane, WorksOnItsPaths, Claiming, Holds, Cleared, Live
  <2>2. seq[w] \in Nat /\ seq[k] \in Nat /\ seq[w] >= 1 /\ seq[w] # seq[k]
    BY <2>1 DEF IInv, Types, Order
  <2>3. CASE seq[k] < seq[w]
    BY <2>1, <2>3 DEF IInv, Watched, Behind
  <2>4. CASE seq[w] < seq[k]
    <3>1. MayShare(k, w)
      BY <2>1, <2>4 DEF IInv, Watched, Behind
    <3> QED  BY <3>1, ClashAssumption DEF MayShare
  <2> QED  BY <2>2, <2>3, <2>4
<1> QED  BY <1>1, Invariance, PTL

\* A writer comes clear at the end of a walk that found nobody, and no fresh
\* claim before it was passed by: writers come clear in the order of spawning.
THEOREM InOrder == Spec => WaitersGoInOrder
<1> DEFINE Ordered ==
      \A w \in Writer :
        pc[w] = "asking" /\ pc'[w] = "clear" /\ attempt[w] = 1 =>
          \A k \in Writer :
            seq[k] < seq[w] /\ Holds(k) /\ attempt[k] = 1 /\ retry[k] = "no"
              /\ steers[k] = 0 => MayShare(w, k)
<1>1. ASSUME IInv, Next, NEW w \in Writer, pc[w] = "asking", pc'[w] = "clear",
             NEW k \in Writer, seq[k] < seq[w], Fresh(k), Claiming(k)
      PROVE  MayShare(w, k)
  <2>1. ask[w].left = {} /\ ask[w].found = NoOne
    BY <1>1, ComesClear DEF IInv
  <2> QED  BY <1>1, <2>1 DEF IInv, Watched, Behind, Looking
<1>2. IInv /\ Next => Ordered
  BY <1>1 DEF Fresh, Claiming
<1>3. UNCHANGED vars => Ordered \/ UNCHANGED vars
  OBVIOUS
<1> QED  BY <1>2, Invariance, PTL DEF Spec, WaitersGoInOrder

\* While no retry is abandoned, a writer asleep with no wake on its way waits
\* behind a writer that is live, be it on its way to another attempt, or that
\* ended and is about to release.  An abandoned retry releases nothing, and
\* breaks this.
THEOREM NobodyIsMissed == Spec /\ [][SeenThrough]_vars => []NoMissedWake
<1>1. Init => Waking
  BY DEF Init, Waking, NoMissedWake
<1>2. IInv /\ Waking /\ [Next]_vars /\ [SeenThrough]_vars => Waking'
  <2>1. IInv /\ Waking /\ Next /\ SeenThrough => Waking'
    BY WakingStep DEF IInv
  <2>2. Waking /\ UNCHANGED vars => Waking'
    BY DEF Waking, NoMissedWake, vars
  <2> QED  BY <2>1, <2>2
<1>3. Waking => NoMissedWake
  BY DEF Waking
<1> QED  BY <1>1, <1>2, <1>3, Invariance, PTL DEF Spec

=============================================================================
