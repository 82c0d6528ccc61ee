--------------------------- MODULE SessionProofs ---------------------------
(***************************************************************************)
(* The invariants of a protocol session, for any number of clients, asks   *)
(* and turns.  Every client that found it, the reap and the server closing *)
(* may end it at once, while it is still opening, so its safety rests on   *)
(* who marked it ended first (Ending), on how its loop came to be          *)
(* (Opening), on where each answer is (Answering), and on what its grace   *)
(* timer counted (Grace).                                                  *)
(***************************************************************************)
EXTENDS Session, TLAPS

\* A running turn, and the goroutines on their way out, were all started.
Counting == TurnGoroutines <= turn

\* The loop is made by the one client that opened the session.
Opens(c) == pc[c] \in {"filing", "opening"}

Opening ==
  /\ \A c, d \in Client : Opens(c) /\ Opens(d) => c = d
  /\ \A c \in Client : Opens(c) => loop = "none"
  /\ filed = "no" => loop = "none" /\ \A c \in Client : ~Opens(c)

\* The party that found the session not ended has its loop to release.
Releasing(e) == stage[e] \in {"first", "bare", "waitTurns"}

Ending ==
  /\ \A c \in Client : stage[c] \notin {"no", "over"} => pc[c] = "ending"
  /\ ended => timer = "none"
  /\ ~ended => ~done /\ \A e \in Ender : stage[e] \in {"no", "forgot", "absent"}
  /\ \A e, f \in Ender : Releasing(e) /\ Releasing(f) => e = f
  /\ \A e \in Ender : stage[e] \in {"first", "waitTurns"} => loop = "open"
  /\ \A e \in Ender : stage[e] \in {"bare", "release"} => loop # "open"
  /\ \A e \in Ender : stage[e] = "over" => done

\* An ask is on the map, or owed by one client, or was sent to, and never two
\* of these.
Answering ==
  /\ \A c \in Client : pc[c] \notin {"sending", "leaving"} => owed[c] = {}
  /\ \A a \in Ask : asked[a] = "no" =>
       a \notin pending /\ sends[a] = 0 /\ \A c \in Client : a \notin owed[c]
  /\ \A a \in pending : sends[a] = 0 /\ \A c \in Client : a \notin owed[c]
  /\ \A c \in Client : \A a \in owed[c] :
       sends[a] = 0 /\ \A d \in Client : a \in owed[d] => d = c

\* The timer that is armed was armed when nobody was left, and whoever came or
\* started a turn since has left it behind; one that fired ran all that while.
Grace ==
  /\ timer = "armed" => calm = "begun"
  /\ timer = "fired" => calm = "whole"

\* The invariant every step keeps.
IInv ==
  /\ TypeOK /\ Counting /\ Opening /\ Ending /\ Answering /\ Grace
  /\ LoopOutlivesTurns /\ LoopClosedOnce /\ OneAnswerPerAsk /\ NoAskWithoutAudience

-----------------------------------------------------------------------------
\* What the helpers of the session's lock do to what they are given: a
\* stopped timer is left behind by its generation, a client that joins is
\* there, and the first to mark the end has the loop it saw to release.
LEMMA StopReapTypes ==
  ASSUME TypeOK, StopReap
  PROVE  timer' \in {"none", "armed", "fired"} /\ stale' \in BOOLEAN
BY DEF TypeOK, StopReap

LEMMA JoinTypes ==
  ASSUME TypeOK, NEW c \in Client, Join(c)
  PROVE  /\ timer' \in {"none", "armed", "fired"} /\ stale' \in BOOLEAN
         /\ calm' \in {"no", "begun", "whole"}
         /\ conns' \subseteq Client /\ c \in conns'
BY StopReapTypes DEF TypeOK, Join, grace

LEMMA MarkTypes ==
  ASSUME TypeOK, NEW e \in Ender, Mark(e)
  PROVE  /\ ended' \in BOOLEAN /\ stale' \in BOOLEAN
         /\ timer' \in {"none", "armed", "fired"} /\ calm' \in {"no", "begun", "whole"}
         /\ stage' \in [Ender -> {"no", "forgot", "first", "second", "bare", "waitTurns",
                                  "waitDone", "release", "over", "absent"}]
BY DEF TypeOK, Mark, Marked

LEMMA MarkEnds ==
  ASSUME IInv, NEW e \in Ender, Mark(e), UNCHANGED <<loop, done, pc>>,
         stage[e] \in {"no", "forgot", "absent"}, e \in Client => pc[e] = "ending"
  PROVE  Ending'
<1> USE DEF IInv, TypeOK, Ending, Releasing
<1>1. ended' = TRUE /\ timer' = "none"
  BY DEF Mark
<1>2. \A f \in Ender : f # e => stage'[f] = stage[f]
  BY DEF Mark, Marked
<1>3. CASE ended
  <2>1. stage'[e] = "second"
    BY <1>3 DEF Mark, Marked
  <2> QED  BY <1>1, <1>2, <2>1 DEF Ender
<1>4. CASE ~ended
  <2>1. \A f \in Ender : stage[f] \in {"no", "forgot", "absent"}
    BY <1>4
  <2>2. stage'[e] \in {"first", "bare"} /\ (stage'[e] = "first" <=> loop = "open")
    BY <1>4 DEF Mark, Marked
  <2> QED  BY <1>1, <1>2, <2>1, <2>2 DEF Ender
<1> QED  BY <1>3, <1>4

-----------------------------------------------------------------------------
\* A session that is not filed yet satisfies the invariant.
LEMMA InitIInv == Init => IInv
<1> SUFFICES ASSUME Init PROVE IInv
  OBVIOUS
<1>1. Counting /\ Opening /\ Grace
  BY DEF Init, Counting, Opening, Opens, Grace, TurnGoroutines, Running
<1>2. Ending
  BY DEF Init, Ending, Releasing, Ender
<1>3. Answering /\ OneAnswerPerAsk /\ NoAskWithoutAudience
  BY DEF Init, Answering, OneAnswerPerAsk, NoAskWithoutAudience
<1>4. LoopOutlivesTurns /\ LoopClosedOnce
  BY DEF Init, LoopOutlivesTurns, LoopClosedOnce, TurnGoroutines, Running
<1>5. TypeOK
  <2>1. stage \in [Ender -> {"no"}] /\ sends \in [Ask -> Nat]
    BY DEF Init
  <2>2. /\ pc \in [Client -> {"idle"}] /\ owed \in [Client -> SUBSET Ask]
        /\ asked \in [Ask -> {"no"}] /\ box \in [Ask -> {"empty"}]
    BY DEF Init
  <2>3. turn \in 0..MaxTurns /\ winding \in 0..MaxTurns
    BY TurnsAssumption DEF Init
  <2>4. {ended, gone, done, stale, steering} \subseteq BOOLEAN
    BY DEF Init
  <2> QED  BY <2>1, <2>2, <2>3, <2>4 DEF Init, TypeOK
<1> QED  BY <1>1, <1>2, <1>3, <1>4, <1>5 DEF IInv

\* Every step keeps the types.  The loop's one close is that of a loop nobody
\* closed, and a turn's goroutine on its way out is one of those started.
LEMMA TypeKept ==
  ASSUME IInv, Next
  PROVE  TypeOK'
<1> USE TurnsAssumption, EnderAssumption
        DEF IInv, life, grace, turns, asks, At, Running, TurnGoroutines, Ender,
            TypeOK, Counting, LoopClosedOnce, Opening, Opens, Ending, LoopOutlivesTurns
<1>1. ASSUME NEW c \in Client, Open(c) PROVE TypeOK'  BY <1>1 DEF Open
<1>2. ASSUME NEW c \in Client, OpenJoins(c) PROVE TypeOK'
  BY <1>2, JoinTypes DEF OpenJoins
<1>3. ASSUME NEW c \in Client, SetLoop(c) PROVE TypeOK'  BY <1>3 DEF SetLoop
<1>4. ASSUME NEW c \in Client, OpenFails(c) PROVE TypeOK'  BY <1>4 DEF OpenFails
<1>5. ASSUME NEW c \in Client, LooksUp(c) PROVE TypeOK'  BY <1>5 DEF LooksUp
<1>6. ASSUME NEW c \in Client, Refused(c) PROVE TypeOK'  BY <1>6 DEF Refused
<1>7. ASSUME NEW c \in Client, Driver(c) PROVE TypeOK'  BY <1>7 DEF Driver
<1>8. ASSUME NEW c \in Client, ResumeJoins(c) PROVE TypeOK'
  BY <1>8, JoinTypes DEF ResumeJoins
<1>9. ASSUME NEW c \in Client, TurnStart(c) PROVE TypeOK'
  BY <1>9, JoinTypes DEF TurnStart
<1>10. ASSUME NEW c \in Client, Launch(c) PROVE TypeOK'
  <2>1. turn' \in 0..MaxTurns /\ winding' = winding /\ steering' = steering
    BY <1>10, TurnsAssumption DEF Launch
  <2>2. turnpc' \in {"idle", "launched", "looping", "settling"}
    BY <1>10 DEF Launch
  <2>3. /\ timer' \in {"none", "armed", "fired"} /\ stale' \in BOOLEAN
        /\ calm' \in {"no", "begun", "whole"}
    BY <1>10, StopReapTypes DEF Launch
  <2> QED  BY <1>10, <2>1, <2>2, <2>3 DEF Launch
<1>11. ASSUME NEW c \in Client, Steer(c) PROVE TypeOK'  BY <1>11 DEF Steer
<1>12. ASSUME NEW c \in Client, Speaks(c) PROVE TypeOK'  BY <1>12 DEF Speaks
<1>13. ASSUME NEW c \in Client, NEW a \in Ask, AnswerTakes(c, a) PROVE TypeOK'
  <2>1. owed' \in [Client -> SUBSET Ask] /\ pending' \subseteq Ask
    BY <1>13 DEF AnswerTakes
  <2> QED  BY <1>13, <2>1 DEF AnswerTakes
<1>14. ASSUME NEW c \in Client, Sends(c) PROVE TypeOK'
  <2>1. PICK a \in owed[c] : Sends(c)!(a)
    BY <1>14 DEF Sends
  <2>2. a \in Ask
    OBVIOUS
  <2>3. box' \in [Ask -> {"empty", "answer", "refusal"}]
    BY <2>1, <2>2
  <2>4. owed' \in [Client -> SUBSET Ask]
    BY <2>1
  <2>5. sends' \in [Ask -> Nat]
    BY <2>1, <2>2
  <2>6. pc' \in [Client -> {"idle", "filing", "opening", "found", "driven", "joined",
                        "speaking", "sending", "leaving", "ending"}]
    BY <2>1
  <2> QED  BY <2>1, <2>3, <2>4, <2>5, <2>6
<1>15. ASSUME NEW c \in Client, Detach(c) PROVE TypeOK'
  <2>1. owed' \in [Client -> SUBSET Ask] /\ pending' \subseteq Ask
    BY <1>15, SMTT(30) DEF Detach
  <2>2. pc' \in [Client -> {"idle", "filing", "opening", "found", "driven", "joined",
                        "speaking", "sending", "leaving", "ending"}]
    BY <1>15 DEF Detach
  <2>3. /\ timer' \in {"none", "armed", "fired"} /\ stale' = stale
        /\ calm' \in {"no", "begun", "whole"}
    BY <1>15 DEF Detach, ArmReap
  <2> QED  BY <1>15, <2>1, <2>2, <2>3 DEF Detach
<1>16. ASSUME NEW c \in Client, EndAsked(c) PROVE TypeOK'  BY <1>16 DEF EndAsked
<1>17. ASSUME NEW c \in Client, EndMarks(c) PROVE TypeOK'
  BY <1>17, MarkTypes DEF EndMarks
<1>18. ASSUME NEW a \in Ask, MakeAsk(a) PROVE TypeOK'  BY <1>18, SMTT(30) DEF MakeAsk
<1>19. ASSUME NEW a \in Ask, AskReturns(a) PROVE TypeOK'
  <2>1. asked' \in [Ask -> {"no", "waiting", "settled", "refused"}]
    BY <1>19 DEF AskReturns
  <2> QED  BY <1>19, <2>1 DEF AskReturns
<1>20. CASE RunBegins  BY <1>20 DEF RunBegins
<1>21. CASE RunReads  BY <1>21 DEF RunReads
<1>22. CASE RunSettles  BY <1>22 DEF RunSettles
<1>23. CASE RunReturns  BY <1>23 DEF RunReturns, ArmReap
<1>24. CASE TurnDone  BY <1>24 DEF TurnDone
<1>25. CASE CloseServer  BY <1>25 DEF CloseServer
<1>26. CASE CloseMarks  BY <1>26, MarkTypes DEF CloseMarks
<1>27. CASE TimerFires  BY <1>27 DEF TimerFires
<1>28. ASSUME NEW newest \in BOOLEAN, ReapNow(newest) PROVE TypeOK'
  <2>1. CASE newest /\ conns = {} /\ ~Running
    BY <1>28, <2>1, MarkTypes DEF ReapNow
  <2>2. CASE ~(newest /\ conns = {} /\ ~Running)
    BY <1>28, <2>2 DEF ReapNow
  <2> QED  BY <2>1, <2>2
<1>29. CASE ReapForgets  BY <1>29 DEF ReapForgets
<1>30. ASSUME NEW e \in Ender, ClosesGone(e) PROVE TypeOK'  BY <1>30 DEF ClosesGone
<1>31. ASSUME NEW e \in Ender, ClosesLoop(e) PROVE TypeOK'  BY <1>31 DEF ClosesLoop
<1>32. ASSUME NEW e \in Ender, Finishes(e) PROVE TypeOK'  BY <1>32 DEF Finishes, Returns
<1>33. ASSUME NEW e \in Ender, Awaits(e) PROVE TypeOK'  BY <1>33 DEF Awaits, Returns
<1> HIDE DEF TypeOK
<1> QED
  BY <1>1, <1>2, <1>3, <1>4, <1>5, <1>6, <1>7, <1>8, <1>9, <1>10, <1>11, <1>12,
     <1>13, <1>14, <1>15, <1>16, <1>17, <1>18, <1>19, <1>20, <1>21, <1>22, <1>23, <1>24,
     <1>25, <1>26, <1>27, <1>28, <1>29, <1>30, <1>31, <1>32, <1>33
  DEF Next, Handles

\* Every step keeps the count of the turn's goroutines.
LEMMA CountingKept ==
  ASSUME IInv, Next
  PROVE  Counting'
<1> USE TurnsAssumption
        DEF IInv, life, grace, turns, asks, At, Running, TurnGoroutines, TypeOK, Counting
<1>1. ASSUME NEW c \in Client, Open(c) PROVE Counting'  BY <1>1 DEF Open
<1>2. ASSUME NEW c \in Client, OpenJoins(c) PROVE Counting'  BY <1>2 DEF OpenJoins
<1>3. ASSUME NEW c \in Client, SetLoop(c) PROVE Counting'  BY <1>3 DEF SetLoop
<1>4. ASSUME NEW c \in Client, OpenFails(c) PROVE Counting'  BY <1>4 DEF OpenFails
<1>5. ASSUME NEW c \in Client, LooksUp(c) PROVE Counting'  BY <1>5 DEF LooksUp
<1>6. ASSUME NEW c \in Client, Refused(c) PROVE Counting'  BY <1>6 DEF Refused
<1>7. ASSUME NEW c \in Client, Driver(c) PROVE Counting'  BY <1>7 DEF Driver
<1>8. ASSUME NEW c \in Client, ResumeJoins(c) PROVE Counting'  BY <1>8 DEF ResumeJoins
<1>9. ASSUME NEW c \in Client, TurnStart(c) PROVE Counting'  BY <1>9 DEF TurnStart
<1>10. ASSUME NEW c \in Client, Launch(c) PROVE Counting'  BY <1>10 DEF Launch
<1>11. ASSUME NEW c \in Client, Steer(c) PROVE Counting'  BY <1>11 DEF Steer
<1>12. ASSUME NEW c \in Client, Speaks(c) PROVE Counting'  BY <1>12 DEF Speaks
<1>13. ASSUME NEW c \in Client, NEW a \in Ask, AnswerTakes(c, a) PROVE Counting'
  BY <1>13 DEF AnswerTakes
<1>14. ASSUME NEW c \in Client, Sends(c) PROVE Counting'  BY <1>14 DEF Sends
<1>15. ASSUME NEW c \in Client, Detach(c) PROVE Counting'  BY <1>15 DEF Detach
<1>16. ASSUME NEW c \in Client, EndAsked(c) PROVE Counting'  BY <1>16 DEF EndAsked
<1>17. ASSUME NEW c \in Client, EndMarks(c) PROVE Counting'  BY <1>17 DEF EndMarks
<1>18. ASSUME NEW a \in Ask, MakeAsk(a) PROVE Counting'  BY <1>18 DEF MakeAsk
<1>19. ASSUME NEW a \in Ask, AskReturns(a) PROVE Counting'  BY <1>19 DEF AskReturns
<1>20. CASE RunBegins  BY <1>20 DEF RunBegins
<1>21. CASE RunReads  BY <1>21 DEF RunReads
<1>22. CASE RunSettles  BY <1>22 DEF RunSettles
<1>23. CASE RunReturns  BY <1>23 DEF RunReturns
<1>24. CASE TurnDone  BY <1>24 DEF TurnDone
<1>25. CASE CloseServer  BY <1>25 DEF CloseServer
<1>26. CASE CloseMarks  BY <1>26 DEF CloseMarks
<1>27. CASE TimerFires  BY <1>27 DEF TimerFires
<1>28. ASSUME NEW newest \in BOOLEAN, ReapNow(newest) PROVE Counting'
  BY <1>28 DEF ReapNow
<1>29. CASE ReapForgets  BY <1>29 DEF ReapForgets
<1>30. ASSUME NEW e \in Ender, ClosesGone(e) PROVE Counting'  BY <1>30 DEF ClosesGone
<1>31. ASSUME NEW e \in Ender, ClosesLoop(e) PROVE Counting'  BY <1>31 DEF ClosesLoop
<1>32. ASSUME NEW e \in Ender, Finishes(e) PROVE Counting'
  BY <1>32 DEF Finishes, Returns
<1>33. ASSUME NEW e \in Ender, Awaits(e) PROVE Counting'  BY <1>33 DEF Awaits, Returns
<1> QED
  BY <1>1, <1>2, <1>3, <1>4, <1>5, <1>6, <1>7, <1>8, <1>9, <1>10, <1>11, <1>12,
     <1>13, <1>14, <1>15, <1>16, <1>17, <1>18, <1>19, <1>20, <1>21, <1>22, <1>23, <1>24,
     <1>25, <1>26, <1>27, <1>28, <1>29, <1>30, <1>31, <1>32, <1>33
  DEF Next, Handles

\* Every step keeps the loop with the one client that opens it: a session is
\* filed once, and the server that closes files none.
LEMMA OpeningKept ==
  ASSUME IInv, Next
  PROVE  Opening'
<1> USE DEF IInv, life, grace, turns, asks, At, TypeOK, Opening, Opens, Ending
<1>1. ASSUME NEW c \in Client, Open(c) PROVE Opening'  BY <1>1 DEF Open
<1>2. ASSUME NEW c \in Client, OpenJoins(c) PROVE Opening'  BY <1>2 DEF OpenJoins
<1>3. ASSUME NEW c \in Client, SetLoop(c) PROVE Opening'  BY <1>3 DEF SetLoop
<1>4. ASSUME NEW c \in Client, OpenFails(c) PROVE Opening'  BY <1>4 DEF OpenFails
<1>5. ASSUME NEW c \in Client, LooksUp(c) PROVE Opening'  BY <1>5 DEF LooksUp
<1>6. ASSUME NEW c \in Client, Refused(c) PROVE Opening'  BY <1>6 DEF Refused
<1>7. ASSUME NEW c \in Client, Driver(c) PROVE Opening'  BY <1>7 DEF Driver
<1>8. ASSUME NEW c \in Client, ResumeJoins(c) PROVE Opening'  BY <1>8 DEF ResumeJoins
<1>9. ASSUME NEW c \in Client, TurnStart(c) PROVE Opening'  BY <1>9 DEF TurnStart
<1>10. ASSUME NEW c \in Client, Launch(c) PROVE Opening'  BY <1>10 DEF Launch
<1>11. ASSUME NEW c \in Client, Steer(c) PROVE Opening'  BY <1>11 DEF Steer
<1>12. ASSUME NEW c \in Client, Speaks(c) PROVE Opening'  BY <1>12 DEF Speaks
<1>13. ASSUME NEW c \in Client, NEW a \in Ask, AnswerTakes(c, a) PROVE Opening'
  BY <1>13 DEF AnswerTakes
<1>14. ASSUME NEW c \in Client, Sends(c) PROVE Opening'  BY <1>14 DEF Sends
<1>15. ASSUME NEW c \in Client, Detach(c) PROVE Opening'
  <2>1. ~Opens(c) /\ ~Opens(c)' /\ \A d \in Client \ {c} : pc'[d] = pc[d]
    BY <1>15 DEF Detach
  <2> QED  BY <1>15, <2>1 DEF Detach
<1>16. ASSUME NEW c \in Client, EndAsked(c) PROVE Opening'  BY <1>16 DEF EndAsked
<1>17. ASSUME NEW c \in Client, EndMarks(c) PROVE Opening'  BY <1>17 DEF EndMarks
<1>18. ASSUME NEW a \in Ask, MakeAsk(a) PROVE Opening'  BY <1>18 DEF MakeAsk
<1>19. ASSUME NEW a \in Ask, AskReturns(a) PROVE Opening'  BY <1>19 DEF AskReturns
<1>20. CASE RunBegins  BY <1>20 DEF RunBegins
<1>21. CASE RunReads  BY <1>21 DEF RunReads
<1>22. CASE RunSettles  BY <1>22 DEF RunSettles
<1>23. CASE RunReturns  BY <1>23 DEF RunReturns
<1>24. CASE TurnDone  BY <1>24 DEF TurnDone
<1>25. CASE CloseServer  BY <1>25 DEF CloseServer
<1>26. CASE CloseMarks  BY <1>26 DEF CloseMarks
<1>27. CASE TimerFires  BY <1>27 DEF TimerFires
<1>28. ASSUME NEW newest \in BOOLEAN, ReapNow(newest) PROVE Opening'
  BY <1>28 DEF ReapNow
<1>29. CASE ReapForgets  BY <1>29 DEF ReapForgets
<1>30. ASSUME NEW e \in Ender, ClosesGone(e) PROVE Opening'  BY <1>30 DEF ClosesGone
<1>31. ASSUME NEW e \in Ender, ClosesLoop(e) PROVE Opening'  BY <1>31 DEF ClosesLoop
<1>32. ASSUME NEW e \in Ender, Finishes(e) PROVE Opening'
  BY <1>32 DEF Finishes, Returns
<1>33. ASSUME NEW e \in Ender, Awaits(e) PROVE Opening'  BY <1>33 DEF Awaits, Returns
<1> QED
  BY <1>1, <1>2, <1>3, <1>4, <1>5, <1>6, <1>7, <1>8, <1>9, <1>10, <1>11, <1>12,
     <1>13, <1>14, <1>15, <1>16, <1>17, <1>18, <1>19, <1>20, <1>21, <1>22, <1>23, <1>24,
     <1>25, <1>26, <1>27, <1>28, <1>29, <1>30, <1>31, <1>32, <1>33
  DEF Next, Handles

\* Every step keeps the end in the hands of the first to mark it: one party
\* releases, whatever came first, a client, the grace or the server.
LEMMA EndingKept ==
  ASSUME IInv, Next
  PROVE  Ending'
<1> USE EnderAssumption
        DEF IInv, life, grace, turns, asks, At, Join, StopReap, ArmReap, Running,
            TurnGoroutines, Ender, TypeOK, Opening, Opens, Ending, Releasing
<1>1. ASSUME NEW c \in Client, Open(c) PROVE Ending'  BY <1>1 DEF Open
<1>2. ASSUME NEW c \in Client, OpenJoins(c) PROVE Ending'  BY <1>2 DEF OpenJoins
<1>3. ASSUME NEW c \in Client, SetLoop(c) PROVE Ending'  BY <1>3 DEF SetLoop
<1>4. ASSUME NEW c \in Client, OpenFails(c) PROVE Ending'  BY <1>4 DEF OpenFails
<1>5. ASSUME NEW c \in Client, LooksUp(c) PROVE Ending'  BY <1>5 DEF LooksUp
<1>6. ASSUME NEW c \in Client, Refused(c) PROVE Ending'  BY <1>6 DEF Refused
<1>7. ASSUME NEW c \in Client, Driver(c) PROVE Ending'  BY <1>7 DEF Driver
<1>8. ASSUME NEW c \in Client, ResumeJoins(c) PROVE Ending'  BY <1>8 DEF ResumeJoins
<1>9. ASSUME NEW c \in Client, TurnStart(c) PROVE Ending'  BY <1>9 DEF TurnStart
<1>10. ASSUME NEW c \in Client, Launch(c) PROVE Ending'  BY <1>10 DEF Launch
<1>11. ASSUME NEW c \in Client, Steer(c) PROVE Ending'  BY <1>11 DEF Steer
<1>12. ASSUME NEW c \in Client, Speaks(c) PROVE Ending'  BY <1>12 DEF Speaks
<1>13. ASSUME NEW c \in Client, NEW a \in Ask, AnswerTakes(c, a) PROVE Ending'
  BY <1>13 DEF AnswerTakes
<1>14. ASSUME NEW c \in Client, Sends(c) PROVE Ending'
  <2>1. \A d \in Client : pc[d] = "ending" => pc'[d] = "ending"
    <3>1. pc[c] # "ending"
      BY <1>14 DEF Sends, Answering
    <3>2. \A d \in Client \ {c} : pc'[d] = pc[d]
      BY <1>14 DEF Sends
    <3> QED  BY <3>1, <3>2
  <2> QED  BY <1>14, <2>1 DEF Sends
<1>15. ASSUME NEW c \in Client, Detach(c) PROVE Ending'  BY <1>15 DEF Detach
<1>16. ASSUME NEW c \in Client, EndAsked(c) PROVE Ending'  BY <1>16 DEF EndAsked
<1>17. ASSUME NEW c \in Client, EndMarks(c) PROVE Ending'
  BY <1>17, MarkEnds DEF EndMarks
<1>18. ASSUME NEW a \in Ask, MakeAsk(a) PROVE Ending'  BY <1>18 DEF MakeAsk
<1>19. ASSUME NEW a \in Ask, AskReturns(a) PROVE Ending'  BY <1>19 DEF AskReturns
<1>20. CASE RunBegins  BY <1>20 DEF RunBegins
<1>21. CASE RunReads  BY <1>21 DEF RunReads
<1>22. CASE RunSettles  BY <1>22 DEF RunSettles
<1>23. CASE RunReturns  BY <1>23 DEF RunReturns
<1>24. CASE TurnDone  BY <1>24 DEF TurnDone
<1>25. CASE CloseServer  BY <1>25 DEF CloseServer
<1>26. CASE CloseMarks  BY <1>26, MarkEnds DEF CloseMarks
<1>27. CASE TimerFires  BY <1>27 DEF TimerFires
<1>28. ASSUME NEW newest \in BOOLEAN, ReapNow(newest) PROVE Ending'
  <2>1. CASE newest /\ conns = {} /\ ~Running
    <3>1. ~ended /\ Reaper \in Ender \ Client
      BY <1>28, <2>1 DEF ReapNow
    <3>2. Mark(Reaper) /\ UNCHANGED <<loop, done, pc>>
      BY <1>28, <2>1 DEF ReapNow
    <3>3. stage[Reaper] \in {"no", "forgot", "absent"}
      BY <3>1
    <3> QED  BY <3>1, <3>2, <3>3, MarkEnds
  <2>2. CASE ~(newest /\ conns = {} /\ ~Running)
    BY <1>28, <2>2 DEF ReapNow
  <2> QED  BY <2>1, <2>2
<1>29. CASE ReapForgets  BY <1>29 DEF ReapForgets
<1>30. ASSUME NEW e \in Ender, ClosesGone(e) PROVE Ending'  BY <1>30 DEF ClosesGone
<1>31. ASSUME NEW e \in Ender, ClosesLoop(e) PROVE Ending'  BY <1>31 DEF ClosesLoop
<1>32. ASSUME NEW e \in Ender, Finishes(e) PROVE Ending'  BY <1>32 DEF Finishes, Returns
<1>33. ASSUME NEW e \in Ender, Awaits(e) PROVE Ending'  BY <1>33 DEF Awaits, Returns
<1> QED
  BY <1>1, <1>2, <1>3, <1>4, <1>5, <1>6, <1>7, <1>8, <1>9, <1>10, <1>11, <1>12,
     <1>13, <1>14, <1>15, <1>16, <1>17, <1>18, <1>19, <1>20, <1>21, <1>22, <1>23, <1>24,
     <1>25, <1>26, <1>27, <1>28, <1>29, <1>30, <1>31, <1>32, <1>33
  DEF Next, Handles

\* Every step keeps each ask in one place: on the map, owed by one client, or
\* sent to.
LEMMA AnsweringKept ==
  ASSUME IInv, Next
  PROVE  Answering'
<1> USE DEF IInv, life, grace, turns, asks, At, TypeOK, Answering, Ending
<1>1. ASSUME NEW c \in Client, Open(c) PROVE Answering'  BY <1>1 DEF Open
<1>2. ASSUME NEW c \in Client, OpenJoins(c) PROVE Answering'  BY <1>2 DEF OpenJoins
<1>3. ASSUME NEW c \in Client, SetLoop(c) PROVE Answering'  BY <1>3 DEF SetLoop
<1>4. ASSUME NEW c \in Client, OpenFails(c) PROVE Answering'  BY <1>4 DEF OpenFails
<1>5. ASSUME NEW c \in Client, LooksUp(c) PROVE Answering'  BY <1>5 DEF LooksUp
<1>6. ASSUME NEW c \in Client, Refused(c) PROVE Answering'  BY <1>6 DEF Refused
<1>7. ASSUME NEW c \in Client, Driver(c) PROVE Answering'  BY <1>7 DEF Driver
<1>8. ASSUME NEW c \in Client, ResumeJoins(c) PROVE Answering'  BY <1>8 DEF ResumeJoins
<1>9. ASSUME NEW c \in Client, TurnStart(c) PROVE Answering'  BY <1>9 DEF TurnStart
<1>10. ASSUME NEW c \in Client, Launch(c) PROVE Answering'  BY <1>10 DEF Launch
<1>11. ASSUME NEW c \in Client, Steer(c) PROVE Answering'  BY <1>11 DEF Steer
<1>12. ASSUME NEW c \in Client, Speaks(c) PROVE Answering'  BY <1>12 DEF Speaks
<1>13. ASSUME NEW c \in Client, NEW a \in Ask, AnswerTakes(c, a) PROVE Answering'
  <2>1. sends[a] = 0 /\ asked[a] # "no" /\ \A d \in Client : a \notin owed[d]
    BY <1>13 DEF AnswerTakes
  <2>2. pc'[c] = "sending" /\ \A d \in Client \ {c} : pc'[d] = pc[d]
    BY <1>13 DEF AnswerTakes
  <2>3. owed'[c] = {a} /\ \A d \in Client \ {c} : owed'[d] = owed[d]
    BY <1>13 DEF AnswerTakes
  <2>4. pending' = pending \ {a} /\ UNCHANGED <<asked, sends>>
    BY <1>13 DEF AnswerTakes
  <2> QED  BY <2>1, <2>2, <2>3, <2>4
<1>14. ASSUME NEW c \in Client, Sends(c) PROVE Answering'  BY <1>14 DEF Sends
<1>15. ASSUME NEW c \in Client, Detach(c) PROVE Answering'
  <2>1. /\ pc[c] = "idle" /\ owed[c] = {} /\ UNCHANGED <<asked, sends>>
        /\ \A d \in Client \ {c} : pc'[d] = pc[d]
    BY <1>15, SMTT(30) DEF Detach
  <2>2. CASE conns' = {} /\ pending # {}
    <3>1. /\ pc' = [pc EXCEPT ![c] = "leaving"] /\ pending' = {}
          /\ owed' = [owed EXCEPT ![c] = pending]
      BY <1>15, <2>2 DEF Detach
    <3>2. /\ pc'[c] = "leaving" /\ owed'[c] = pending
          /\ \A d \in Client \ {c} : owed'[d] = owed[d]
      BY <3>1
    <3> QED  BY <2>1, <3>1, <3>2
  <2>3. CASE ~(conns' = {} /\ pending # {})
    BY <1>15, <2>3 DEF Detach
  <2> QED  BY <2>2, <2>3
<1>16. ASSUME NEW c \in Client, EndAsked(c) PROVE Answering'  BY <1>16 DEF EndAsked
<1>17. ASSUME NEW c \in Client, EndMarks(c) PROVE Answering'  BY <1>17 DEF EndMarks
<1>18. ASSUME NEW a \in Ask, MakeAsk(a) PROVE Answering'
  <2>1. sends[a] = 0 /\ \A c \in Client : a \notin owed[c]
    BY <1>18 DEF MakeAsk
  <2>2. asked'[a] # "no" /\ \A b \in Ask \ {a} : asked'[b] = asked[b]
    BY <1>18 DEF MakeAsk
  <2>3. pending' \in {pending, pending \cup {a}}
    BY <1>18 DEF MakeAsk
  <2>4. UNCHANGED <<pc, owed, sends>>
    BY <1>18 DEF MakeAsk
  <2> QED  BY <2>1, <2>2, <2>3, <2>4
<1>19. ASSUME NEW a \in Ask, AskReturns(a) PROVE Answering'  BY <1>19 DEF AskReturns
<1>20. CASE RunBegins  BY <1>20 DEF RunBegins
<1>21. CASE RunReads  BY <1>21 DEF RunReads
<1>22. CASE RunSettles  BY <1>22 DEF RunSettles
<1>23. CASE RunReturns  BY <1>23 DEF RunReturns
<1>24. CASE TurnDone  BY <1>24 DEF TurnDone
<1>25. CASE CloseServer  BY <1>25 DEF CloseServer
<1>26. CASE CloseMarks  BY <1>26 DEF CloseMarks
<1>27. CASE TimerFires  BY <1>27 DEF TimerFires
<1>28. ASSUME NEW newest \in BOOLEAN, ReapNow(newest) PROVE Answering'
  BY <1>28 DEF ReapNow
<1>29. CASE ReapForgets  BY <1>29 DEF ReapForgets
<1>30. ASSUME NEW e \in Ender, ClosesGone(e) PROVE Answering'  BY <1>30 DEF ClosesGone
<1>31. ASSUME NEW e \in Ender, ClosesLoop(e) PROVE Answering'  BY <1>31 DEF ClosesLoop
<1>32. ASSUME NEW e \in Ender, Finishes(e) PROVE Answering'
  BY <1>32 DEF Finishes, Returns
<1>33. ASSUME NEW e \in Ender, Awaits(e) PROVE Answering'  BY <1>33 DEF Awaits, Returns
<1> QED
  BY <1>1, <1>2, <1>3, <1>4, <1>5, <1>6, <1>7, <1>8, <1>9, <1>10, <1>11, <1>12,
     <1>13, <1>14, <1>15, <1>16, <1>17, <1>18, <1>19, <1>20, <1>21, <1>22, <1>23, <1>24,
     <1>25, <1>26, <1>27, <1>28, <1>29, <1>30, <1>31, <1>32, <1>33
  DEF Next, Handles

\* Every step keeps the grace: whoever attaches or starts a turn leaves the timer
\* behind, and one is armed only when none is.
LEMMA GraceKept ==
  ASSUME IInv, Next
  PROVE  Grace'
<1> USE DEF IInv, life, grace, turns, asks, At, Join, StopReap, ArmReap, Grace
<1>1. ASSUME NEW c \in Client, Open(c) PROVE Grace'  BY <1>1 DEF Open
<1>2. ASSUME NEW c \in Client, OpenJoins(c) PROVE Grace'  BY <1>2 DEF OpenJoins
<1>3. ASSUME NEW c \in Client, SetLoop(c) PROVE Grace'  BY <1>3 DEF SetLoop
<1>4. ASSUME NEW c \in Client, OpenFails(c) PROVE Grace'  BY <1>4 DEF OpenFails
<1>5. ASSUME NEW c \in Client, LooksUp(c) PROVE Grace'  BY <1>5 DEF LooksUp
<1>6. ASSUME NEW c \in Client, Refused(c) PROVE Grace'  BY <1>6 DEF Refused
<1>7. ASSUME NEW c \in Client, Driver(c) PROVE Grace'  BY <1>7 DEF Driver
<1>8. ASSUME NEW c \in Client, ResumeJoins(c) PROVE Grace'  BY <1>8 DEF ResumeJoins
<1>9. ASSUME NEW c \in Client, TurnStart(c) PROVE Grace'  BY <1>9 DEF TurnStart
<1>10. ASSUME NEW c \in Client, Launch(c) PROVE Grace'  BY <1>10 DEF Launch
<1>11. ASSUME NEW c \in Client, Steer(c) PROVE Grace'  BY <1>11 DEF Steer
<1>12. ASSUME NEW c \in Client, Speaks(c) PROVE Grace'  BY <1>12 DEF Speaks
<1>13. ASSUME NEW c \in Client, NEW a \in Ask, AnswerTakes(c, a) PROVE Grace'
  BY <1>13 DEF AnswerTakes
<1>14. ASSUME NEW c \in Client, Sends(c) PROVE Grace'  BY <1>14 DEF Sends
<1>15. ASSUME NEW c \in Client, Detach(c) PROVE Grace'  BY <1>15 DEF Detach
<1>16. ASSUME NEW c \in Client, EndAsked(c) PROVE Grace'  BY <1>16 DEF EndAsked
<1>17. ASSUME NEW c \in Client, EndMarks(c) PROVE Grace'  BY <1>17 DEF EndMarks, Mark
<1>18. ASSUME NEW a \in Ask, MakeAsk(a) PROVE Grace'  BY <1>18 DEF MakeAsk
<1>19. ASSUME NEW a \in Ask, AskReturns(a) PROVE Grace'  BY <1>19 DEF AskReturns
<1>20. CASE RunBegins  BY <1>20 DEF RunBegins
<1>21. CASE RunReads  BY <1>21 DEF RunReads
<1>22. CASE RunSettles  BY <1>22 DEF RunSettles
<1>23. CASE RunReturns  BY <1>23 DEF RunReturns
<1>24. CASE TurnDone  BY <1>24 DEF TurnDone
<1>25. CASE CloseServer  BY <1>25 DEF CloseServer
<1>26. CASE CloseMarks  BY <1>26 DEF CloseMarks, Mark
<1>27. CASE TimerFires  BY <1>27 DEF TimerFires
<1>28. ASSUME NEW newest \in BOOLEAN, ReapNow(newest) PROVE Grace'
  BY <1>28 DEF ReapNow, Mark
<1>29. CASE ReapForgets  BY <1>29 DEF ReapForgets
<1>30. ASSUME NEW e \in Ender, ClosesGone(e) PROVE Grace'  BY <1>30 DEF ClosesGone
<1>31. ASSUME NEW e \in Ender, ClosesLoop(e) PROVE Grace'  BY <1>31 DEF ClosesLoop
<1>32. ASSUME NEW e \in Ender, Finishes(e) PROVE Grace'  BY <1>32 DEF Finishes, Returns
<1>33. ASSUME NEW e \in Ender, Awaits(e) PROVE Grace'  BY <1>33 DEF Awaits, Returns
<1> QED
  BY <1>1, <1>2, <1>3, <1>4, <1>5, <1>6, <1>7, <1>8, <1>9, <1>10, <1>11, <1>12,
     <1>13, <1>14, <1>15, <1>16, <1>17, <1>18, <1>19, <1>20, <1>21, <1>22, <1>23, <1>24,
     <1>25, <1>26, <1>27, <1>28, <1>29, <1>30, <1>31, <1>32, <1>33
  DEF Next, Handles

\* Every step keeps the loop open under a turn, and closes it once: only the
\* party that marked the session first closes one, and one arriving after the
\* end is closed where it arrives.
LEMMA LoopKept ==
  ASSUME IInv, Next
  PROVE  LoopOutlivesTurns' /\ LoopClosedOnce'
<1> USE DEF IInv, life, grace, turns, asks, At, Running, TurnGoroutines, Ender,
            TypeOK, Ending, Opening, Opens, LoopOutlivesTurns, LoopClosedOnce
<1>1. ASSUME NEW c \in Client, Open(c) PROVE LoopOutlivesTurns' /\ LoopClosedOnce'
  BY <1>1 DEF Open
<1>2. ASSUME NEW c \in Client, OpenJoins(c) PROVE LoopOutlivesTurns' /\ LoopClosedOnce'
  BY <1>2 DEF OpenJoins
<1>3. ASSUME NEW c \in Client, SetLoop(c) PROVE LoopOutlivesTurns' /\ LoopClosedOnce'
  BY <1>3 DEF SetLoop
<1>4. ASSUME NEW c \in Client, OpenFails(c) PROVE LoopOutlivesTurns' /\ LoopClosedOnce'
  BY <1>4 DEF OpenFails
<1>5. ASSUME NEW c \in Client, LooksUp(c) PROVE LoopOutlivesTurns' /\ LoopClosedOnce'
  BY <1>5 DEF LooksUp
<1>6. ASSUME NEW c \in Client, Refused(c) PROVE LoopOutlivesTurns' /\ LoopClosedOnce'
  BY <1>6 DEF Refused
<1>7. ASSUME NEW c \in Client, Driver(c) PROVE LoopOutlivesTurns' /\ LoopClosedOnce'
  BY <1>7 DEF Driver
<1>8. ASSUME NEW c \in Client, ResumeJoins(c)
      PROVE  LoopOutlivesTurns' /\ LoopClosedOnce'  BY <1>8 DEF ResumeJoins
<1>9. ASSUME NEW c \in Client, TurnStart(c) PROVE LoopOutlivesTurns' /\ LoopClosedOnce'
  BY <1>9 DEF TurnStart
<1>10. ASSUME NEW c \in Client, Launch(c) PROVE LoopOutlivesTurns' /\ LoopClosedOnce'
  BY <1>10 DEF Launch
<1>11. ASSUME NEW c \in Client, Steer(c) PROVE LoopOutlivesTurns' /\ LoopClosedOnce'
  BY <1>11 DEF Steer
<1>12. ASSUME NEW c \in Client, Speaks(c) PROVE LoopOutlivesTurns' /\ LoopClosedOnce'
  BY <1>12 DEF Speaks
<1>13. ASSUME NEW c \in Client, NEW a \in Ask, AnswerTakes(c, a)
       PROVE  LoopOutlivesTurns' /\ LoopClosedOnce'  BY <1>13 DEF AnswerTakes
<1>14. ASSUME NEW c \in Client, Sends(c) PROVE LoopOutlivesTurns' /\ LoopClosedOnce'
  BY <1>14 DEF Sends
<1>15. ASSUME NEW c \in Client, Detach(c) PROVE LoopOutlivesTurns' /\ LoopClosedOnce'
  BY <1>15 DEF Detach
<1>16. ASSUME NEW c \in Client, EndAsked(c) PROVE LoopOutlivesTurns' /\ LoopClosedOnce'
  BY <1>16 DEF EndAsked
<1>17. ASSUME NEW c \in Client, EndMarks(c) PROVE LoopOutlivesTurns' /\ LoopClosedOnce'
  BY <1>17 DEF EndMarks
<1>18. ASSUME NEW a \in Ask, MakeAsk(a) PROVE LoopOutlivesTurns' /\ LoopClosedOnce'
  BY <1>18 DEF MakeAsk
<1>19. ASSUME NEW a \in Ask, AskReturns(a) PROVE LoopOutlivesTurns' /\ LoopClosedOnce'
  BY <1>19 DEF AskReturns
<1>20. CASE RunBegins  BY <1>20 DEF RunBegins
<1>21. CASE RunReads  BY <1>21 DEF RunReads
<1>22. CASE RunSettles  BY <1>22 DEF RunSettles
<1>23. CASE RunReturns  BY <1>23 DEF RunReturns
<1>24. CASE TurnDone  BY <1>24 DEF TurnDone
<1>25. CASE CloseServer  BY <1>25 DEF CloseServer
<1>26. CASE CloseMarks  BY <1>26 DEF CloseMarks
<1>27. CASE TimerFires  BY <1>27 DEF TimerFires
<1>28. ASSUME NEW newest \in BOOLEAN, ReapNow(newest)
       PROVE  LoopOutlivesTurns' /\ LoopClosedOnce'  BY <1>28 DEF ReapNow
<1>29. CASE ReapForgets  BY <1>29 DEF ReapForgets
<1>30. ASSUME NEW e \in Ender, ClosesGone(e) PROVE LoopOutlivesTurns' /\ LoopClosedOnce'
  BY <1>30 DEF ClosesGone
<1>31. ASSUME NEW e \in Ender, ClosesLoop(e) PROVE LoopOutlivesTurns' /\ LoopClosedOnce'
  BY <1>31 DEF ClosesLoop
<1>32. ASSUME NEW e \in Ender, Finishes(e) PROVE LoopOutlivesTurns' /\ LoopClosedOnce'
  BY <1>32 DEF Finishes, Returns
<1>33. ASSUME NEW e \in Ender, Awaits(e) PROVE LoopOutlivesTurns' /\ LoopClosedOnce'
  BY <1>33 DEF Awaits, Returns
<1> QED
  BY <1>1, <1>2, <1>3, <1>4, <1>5, <1>6, <1>7, <1>8, <1>9, <1>10, <1>11, <1>12,
     <1>13, <1>14, <1>15, <1>16, <1>17, <1>18, <1>19, <1>20, <1>21, <1>22, <1>23, <1>24,
     <1>25, <1>26, <1>27, <1>28, <1>29, <1>30, <1>31, <1>32, <1>33
  DEF Next, Handles

\* No step sends to an answer channel twice.
LEMMA OneKept ==
  ASSUME IInv, Next
  PROVE  OneAnswerPerAsk'
<1> USE DEF IInv, life, grace, turns, asks, At, TypeOK, Answering, OneAnswerPerAsk
<1>1. ASSUME NEW c \in Client, Open(c) PROVE OneAnswerPerAsk'  BY <1>1 DEF Open
<1>2. ASSUME NEW c \in Client, OpenJoins(c) PROVE OneAnswerPerAsk'
  BY <1>2 DEF OpenJoins
<1>3. ASSUME NEW c \in Client, SetLoop(c) PROVE OneAnswerPerAsk'  BY <1>3 DEF SetLoop
<1>4. ASSUME NEW c \in Client, OpenFails(c) PROVE OneAnswerPerAsk'
  BY <1>4 DEF OpenFails
<1>5. ASSUME NEW c \in Client, LooksUp(c) PROVE OneAnswerPerAsk'  BY <1>5 DEF LooksUp
<1>6. ASSUME NEW c \in Client, Refused(c) PROVE OneAnswerPerAsk'  BY <1>6 DEF Refused
<1>7. ASSUME NEW c \in Client, Driver(c) PROVE OneAnswerPerAsk'  BY <1>7 DEF Driver
<1>8. ASSUME NEW c \in Client, ResumeJoins(c) PROVE OneAnswerPerAsk'
  BY <1>8 DEF ResumeJoins
<1>9. ASSUME NEW c \in Client, TurnStart(c) PROVE OneAnswerPerAsk'
  BY <1>9 DEF TurnStart
<1>10. ASSUME NEW c \in Client, Launch(c) PROVE OneAnswerPerAsk'  BY <1>10 DEF Launch
<1>11. ASSUME NEW c \in Client, Steer(c) PROVE OneAnswerPerAsk'  BY <1>11 DEF Steer
<1>12. ASSUME NEW c \in Client, Speaks(c) PROVE OneAnswerPerAsk'  BY <1>12 DEF Speaks
<1>13. ASSUME NEW c \in Client, NEW a \in Ask, AnswerTakes(c, a) PROVE OneAnswerPerAsk'
  BY <1>13 DEF AnswerTakes
<1>14. ASSUME NEW c \in Client, Sends(c) PROVE OneAnswerPerAsk'  BY <1>14 DEF Sends
<1>15. ASSUME NEW c \in Client, Detach(c) PROVE OneAnswerPerAsk'  BY <1>15 DEF Detach
<1>16. ASSUME NEW c \in Client, EndAsked(c) PROVE OneAnswerPerAsk'
  BY <1>16 DEF EndAsked
<1>17. ASSUME NEW c \in Client, EndMarks(c) PROVE OneAnswerPerAsk'
  BY <1>17 DEF EndMarks
<1>18. ASSUME NEW a \in Ask, MakeAsk(a) PROVE OneAnswerPerAsk'  BY <1>18 DEF MakeAsk
<1>19. ASSUME NEW a \in Ask, AskReturns(a) PROVE OneAnswerPerAsk'
  BY <1>19 DEF AskReturns
<1>20. CASE RunBegins  BY <1>20 DEF RunBegins
<1>21. CASE RunReads  BY <1>21 DEF RunReads
<1>22. CASE RunSettles  BY <1>22 DEF RunSettles
<1>23. CASE RunReturns  BY <1>23 DEF RunReturns
<1>24. CASE TurnDone  BY <1>24 DEF TurnDone
<1>25. CASE CloseServer  BY <1>25 DEF CloseServer
<1>26. CASE CloseMarks  BY <1>26 DEF CloseMarks
<1>27. CASE TimerFires  BY <1>27 DEF TimerFires
<1>28. ASSUME NEW newest \in BOOLEAN, ReapNow(newest) PROVE OneAnswerPerAsk'
  BY <1>28 DEF ReapNow
<1>29. CASE ReapForgets  BY <1>29 DEF ReapForgets
<1>30. ASSUME NEW e \in Ender, ClosesGone(e) PROVE OneAnswerPerAsk'
  BY <1>30 DEF ClosesGone
<1>31. ASSUME NEW e \in Ender, ClosesLoop(e) PROVE OneAnswerPerAsk'
  BY <1>31 DEF ClosesLoop
<1>32. ASSUME NEW e \in Ender, Finishes(e) PROVE OneAnswerPerAsk'
  BY <1>32 DEF Finishes, Returns
<1>33. ASSUME NEW e \in Ender, Awaits(e) PROVE OneAnswerPerAsk'
  BY <1>33 DEF Awaits, Returns
<1> QED
  BY <1>1, <1>2, <1>3, <1>4, <1>5, <1>6, <1>7, <1>8, <1>9, <1>10, <1>11, <1>12,
     <1>13, <1>14, <1>15, <1>16, <1>17, <1>18, <1>19, <1>20, <1>21, <1>22, <1>23, <1>24,
     <1>25, <1>26, <1>27, <1>28, <1>29, <1>30, <1>31, <1>32, <1>33
  DEF Next, Handles

\* No step leaves an ask with nobody to see it: who leaves last takes it along.
LEMMA AudienceKept ==
  ASSUME IInv, Next
  PROVE  NoAskWithoutAudience'
<1> USE DEF IInv, life, grace, turns, asks, At, TypeOK, Answering, NoAskWithoutAudience
<1>1. ASSUME NEW c \in Client, Open(c) PROVE NoAskWithoutAudience'  BY <1>1 DEF Open
<1>2. ASSUME NEW c \in Client, OpenJoins(c) PROVE NoAskWithoutAudience'
  BY <1>2, JoinTypes DEF OpenJoins
<1>3. ASSUME NEW c \in Client, SetLoop(c) PROVE NoAskWithoutAudience'
  BY <1>3 DEF SetLoop
<1>4. ASSUME NEW c \in Client, OpenFails(c) PROVE NoAskWithoutAudience'
  BY <1>4 DEF OpenFails
<1>5. ASSUME NEW c \in Client, LooksUp(c) PROVE NoAskWithoutAudience'
  BY <1>5 DEF LooksUp
<1>6. ASSUME NEW c \in Client, Refused(c) PROVE NoAskWithoutAudience'
  BY <1>6 DEF Refused
<1>7. ASSUME NEW c \in Client, Driver(c) PROVE NoAskWithoutAudience'  BY <1>7 DEF Driver
<1>8. ASSUME NEW c \in Client, ResumeJoins(c) PROVE NoAskWithoutAudience'
  BY <1>8, JoinTypes DEF ResumeJoins
<1>9. ASSUME NEW c \in Client, TurnStart(c) PROVE NoAskWithoutAudience'
  BY <1>9, JoinTypes DEF TurnStart
<1>10. ASSUME NEW c \in Client, Launch(c) PROVE NoAskWithoutAudience'
  BY <1>10 DEF Launch
<1>11. ASSUME NEW c \in Client, Steer(c) PROVE NoAskWithoutAudience'  BY <1>11 DEF Steer
<1>12. ASSUME NEW c \in Client, Speaks(c) PROVE NoAskWithoutAudience'
  BY <1>12 DEF Speaks
<1>13. ASSUME NEW c \in Client, NEW a \in Ask, AnswerTakes(c, a)
       PROVE  NoAskWithoutAudience'
  <2>1. /\ UNCHANGED <<asked, box, conns, gone>> /\ owed[c] = {}
        /\ pending' = pending \ {a} /\ owed' = [owed EXCEPT ![c] = {a}]
    BY <1>13 DEF AnswerTakes
  <2> QED  BY <2>1
<1>14. ASSUME NEW c \in Client, Sends(c) PROVE NoAskWithoutAudience'  BY <1>14 DEF Sends
<1>15. ASSUME NEW c \in Client, Detach(c) PROVE NoAskWithoutAudience'
  BY <1>15, SMTT(30) DEF Detach
<1>16. ASSUME NEW c \in Client, EndAsked(c) PROVE NoAskWithoutAudience'
  BY <1>16 DEF EndAsked
<1>17. ASSUME NEW c \in Client, EndMarks(c) PROVE NoAskWithoutAudience'
  BY <1>17 DEF EndMarks
<1>18. ASSUME NEW a \in Ask, MakeAsk(a) PROVE NoAskWithoutAudience'
  BY <1>18 DEF MakeAsk
<1>19. ASSUME NEW a \in Ask, AskReturns(a) PROVE NoAskWithoutAudience'
  BY <1>19 DEF AskReturns
<1>20. CASE RunBegins  BY <1>20 DEF RunBegins
<1>21. CASE RunReads  BY <1>21 DEF RunReads
<1>22. CASE RunSettles  BY <1>22 DEF RunSettles
<1>23. CASE RunReturns  BY <1>23 DEF RunReturns
<1>24. CASE TurnDone  BY <1>24 DEF TurnDone
<1>25. CASE CloseServer  BY <1>25 DEF CloseServer
<1>26. CASE CloseMarks  BY <1>26 DEF CloseMarks
<1>27. CASE TimerFires  BY <1>27 DEF TimerFires
<1>28. ASSUME NEW newest \in BOOLEAN, ReapNow(newest) PROVE NoAskWithoutAudience'
  BY <1>28 DEF ReapNow
<1>29. CASE ReapForgets  BY <1>29 DEF ReapForgets
<1>30. ASSUME NEW e \in Ender, ClosesGone(e) PROVE NoAskWithoutAudience'
  BY <1>30 DEF ClosesGone
<1>31. ASSUME NEW e \in Ender, ClosesLoop(e) PROVE NoAskWithoutAudience'
  BY <1>31 DEF ClosesLoop
<1>32. ASSUME NEW e \in Ender, Finishes(e) PROVE NoAskWithoutAudience'
  BY <1>32 DEF Finishes, Returns
<1>33. ASSUME NEW e \in Ender, Awaits(e) PROVE NoAskWithoutAudience'
  BY <1>33 DEF Awaits, Returns
<1> QED
  BY <1>1, <1>2, <1>3, <1>4, <1>5, <1>6, <1>7, <1>8, <1>9, <1>10, <1>11, <1>12,
     <1>13, <1>14, <1>15, <1>16, <1>17, <1>18, <1>19, <1>20, <1>21, <1>22, <1>23, <1>24,
     <1>25, <1>26, <1>27, <1>28, <1>29, <1>30, <1>31, <1>32, <1>33
  DEF Next, Handles

\* So every step, taken or not, keeps the invariant.
LEMMA StepIInv == IInv /\ [Next]_vars => IInv'
<1> SUFFICES ASSUME IInv, [Next]_vars PROVE IInv'
  OBVIOUS
<1>1. CASE Next
  BY <1>1, TypeKept, CountingKept, OpeningKept, EndingKept, AnsweringKept, GraceKept,
     LoopKept, OneKept, AudienceKept DEF IInv
<1>2. CASE UNCHANGED vars
  <2> USE <1>2 DEF vars, life, grace, turns, asks, IInv
  <2>1. TypeOK' /\ Counting' /\ Opening' /\ Grace'
    BY DEF TypeOK, Counting, Opening, Opens, Grace, TurnGoroutines, Running
  <2>2. Ending'
    BY DEF Ending, Releasing
  <2>3. Answering' /\ OneAnswerPerAsk' /\ NoAskWithoutAudience'
    BY DEF Answering, OneAnswerPerAsk, NoAskWithoutAudience
  <2>4. LoopOutlivesTurns' /\ LoopClosedOnce'
    BY DEF LoopOutlivesTurns, LoopClosedOnce, TurnGoroutines, Running
  <2> QED  BY <2>1, <2>2, <2>3, <2>4
<1> QED  BY <1>1, <1>2

-----------------------------------------------------------------------------
\* Every state a session reaches satisfies the invariant.
THEOREM Invariance == Spec => []IInv
BY InitIInv, StepIInv, PTL DEF Spec

\* Every variable has its type, at any number of clients, asks and turns.
THEOREM TypeCorrect == Spec => []TypeOK
<1>1. IInv => TypeOK
  BY DEF IInv
<1> QED  BY <1>1, Invariance, PTL

\* A turn never has its loop closed under it, whoever ends the session and
\* whatever the turn's goroutine has still to do.
THEOREM LoopOutlives == Spec => []LoopOutlivesTurns
<1>1. IInv => LoopOutlivesTurns
  BY DEF IInv
<1> QED  BY <1>1, Invariance, PTL

\* The loop is closed at most once, and is closed when the end is told, however
\* many clients, with the reap and the server, end the session at once.
THEOREM LoopCloses == Spec => []LoopClosedOnce
<1>1. IInv => LoopClosedOnce
  BY DEF IInv
<1> QED  BY <1>1, Invariance, PTL

\* Nobody is told that the session is over while a turn of it runs or its loop
\* is open, the party that came second to the end included.
THEOREM EndsAreOver == Spec => []EndMeansOver
<1>1. IInv => EndMeansOver
  <2> SUFFICES ASSUME IInv, NEW e \in Ender, stage[e] = "over"
               PROVE  TurnGoroutines = 0 /\ loop # "open"
    BY DEF EndMeansOver
  <2>1. done /\ loop # "open"
    BY DEF IInv, Ending, LoopClosedOnce
  <2>2. TurnGoroutines \in Nat
    BY DEF IInv, TypeOK, TurnGoroutines
  <2> QED  BY <2>1, <2>2 DEF IInv, LoopOutlivesTurns
<1> QED  BY <1>1, Invariance, PTL

\* No answer channel is sent to twice, however many clients answer at once.
THEOREM AnsweredOnce == Spec => []OneAnswerPerAsk
<1>1. IInv => OneAnswerPerAsk
  BY DEF IInv
<1> QED  BY <1>1, Invariance, PTL

\* No turn waits on an ask that nobody is attached to see.
THEOREM AskedOfSomebody == Spec => []NoAskWithoutAudience
<1>1. IInv => NoAskWithoutAudience
  BY DEF IInv
<1> QED  BY <1>1, Invariance, PTL

-----------------------------------------------------------------------------
\* What a step may do to the reaper's end of a session.
ReapStep == stage[Reaper] = "no" /\ stage'[Reaper] # "no" => calm = "whole"

\* No step but reapNow begins the reaper's end of a session, and the timer that
\* does is the newest, which nobody who came meanwhile had left running.
LEMMA ReapedRight ==
  ASSUME IInv, Next
  PROVE  ReapStep
<1> USE EnderAssumption
        DEF IInv, life, grace, turns, asks, At, Ender, TypeOK, Grace, ReapStep
<1>1. ASSUME NEW c \in Client, Open(c) PROVE ReapStep  BY <1>1 DEF Open
<1>2. ASSUME NEW c \in Client, OpenJoins(c) PROVE ReapStep  BY <1>2 DEF OpenJoins
<1>3. ASSUME NEW c \in Client, SetLoop(c) PROVE ReapStep  BY <1>3 DEF SetLoop
<1>4. ASSUME NEW c \in Client, OpenFails(c) PROVE ReapStep  BY <1>4 DEF OpenFails
<1>5. ASSUME NEW c \in Client, LooksUp(c) PROVE ReapStep  BY <1>5 DEF LooksUp
<1>6. ASSUME NEW c \in Client, Refused(c) PROVE ReapStep  BY <1>6 DEF Refused
<1>7. ASSUME NEW c \in Client, Driver(c) PROVE ReapStep  BY <1>7 DEF Driver
<1>8. ASSUME NEW c \in Client, ResumeJoins(c) PROVE ReapStep  BY <1>8 DEF ResumeJoins
<1>9. ASSUME NEW c \in Client, TurnStart(c) PROVE ReapStep  BY <1>9 DEF TurnStart
<1>10. ASSUME NEW c \in Client, Launch(c) PROVE ReapStep  BY <1>10 DEF Launch
<1>11. ASSUME NEW c \in Client, Steer(c) PROVE ReapStep  BY <1>11 DEF Steer
<1>12. ASSUME NEW c \in Client, Speaks(c) PROVE ReapStep  BY <1>12 DEF Speaks
<1>13. ASSUME NEW c \in Client, NEW a \in Ask, AnswerTakes(c, a) PROVE ReapStep
  BY <1>13 DEF AnswerTakes
<1>14. ASSUME NEW c \in Client, Sends(c) PROVE ReapStep  BY <1>14 DEF Sends
<1>15. ASSUME NEW c \in Client, Detach(c) PROVE ReapStep  BY <1>15 DEF Detach
<1>16. ASSUME NEW c \in Client, EndAsked(c) PROVE ReapStep  BY <1>16 DEF EndAsked
<1>17. ASSUME NEW c \in Client, EndMarks(c) PROVE ReapStep
  BY <1>17 DEF EndMarks, Mark, Marked
<1>18. ASSUME NEW a \in Ask, MakeAsk(a) PROVE ReapStep  BY <1>18 DEF MakeAsk
<1>19. ASSUME NEW a \in Ask, AskReturns(a) PROVE ReapStep  BY <1>19 DEF AskReturns
<1>20. CASE RunBegins  BY <1>20 DEF RunBegins
<1>21. CASE RunReads  BY <1>21 DEF RunReads
<1>22. CASE RunSettles  BY <1>22 DEF RunSettles
<1>23. CASE RunReturns  BY <1>23 DEF RunReturns
<1>24. CASE TurnDone  BY <1>24 DEF TurnDone
<1>25. CASE CloseServer  BY <1>25 DEF CloseServer
<1>26. CASE CloseMarks  BY <1>26 DEF CloseMarks, Mark, Marked
<1>27. CASE TimerFires  BY <1>27 DEF TimerFires
<1>28. ASSUME NEW newest \in BOOLEAN, ReapNow(newest) PROVE ReapStep
  BY <1>28 DEF ReapNow
<1>29. CASE ReapForgets  BY <1>29 DEF ReapForgets
<1>30. ASSUME NEW e \in Ender, ClosesGone(e) PROVE ReapStep  BY <1>30 DEF ClosesGone
<1>31. ASSUME NEW e \in Ender, ClosesLoop(e) PROVE ReapStep  BY <1>31 DEF ClosesLoop
<1>32. ASSUME NEW e \in Ender, Finishes(e) PROVE ReapStep
  BY <1>32 DEF Finishes, Returns
<1>33. ASSUME NEW e \in Ender, Awaits(e) PROVE ReapStep  BY <1>33 DEF Awaits, Returns
<1> QED
  BY <1>1, <1>2, <1>3, <1>4, <1>5, <1>6, <1>7, <1>8, <1>9, <1>10, <1>11, <1>12,
     <1>13, <1>14, <1>15, <1>16, <1>17, <1>18, <1>19, <1>20, <1>21, <1>22, <1>23, <1>24,
     <1>25, <1>26, <1>27, <1>28, <1>29, <1>30, <1>31, <1>32, <1>33
  DEF Next, Handles

\* A session is reaped only when a whole grace has passed since anybody last
\* attached or a turn began, whoever came and went and however often.
THEOREM ReapedRightly == Spec => ReapedAfterItsGrace
<1>1. IInv /\ [Next]_vars => [ReapStep]_vars
  BY ReapedRight
<1> QED  BY <1>1, Invariance, PTL DEF Spec, ReapedAfterItsGrace, ReapStep
=============================================================================
