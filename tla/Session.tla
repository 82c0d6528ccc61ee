------------------------------ MODULE Session ------------------------------
(***************************************************************************)
(* One session of the protocol server (internal/rpc/server.go), from the   *)
(* request that opens it to the close of the loop behind it: the clients   *)
(* that watch it and come and go, the turn that runs in it, the approvals  *)
(* and questions put to its clients, the grace after which an unwatched    *)
(* session is reaped, and the parties that may end it, every client that   *)
(* found it, the reap and the server shutting down, any of them at once.   *)
(*                                                                         *)
(* A client is one connection: its read loop handles one request at a time *)
(* (pc), in the steps the locks leave apart.  A request that names a       *)
(* session looks it up under the server's lock, and whatever it goes on to *)
(* do with what it found comes later: the session may be off the server by *)
(* then, or ended.  A client that hung up may connect again.  An approval  *)
(* and a question are one thing here, an Ask: they differ in what silence  *)
(* answers.                                                                *)
(***************************************************************************)
EXTENDS Naturals, FiniteSets

CONSTANTS
  Client,     \* connections
  Ask,        \* approvals and questions, each asked at most once
  Reaper,     \* the grace timer, as a party that ends the session
  Shutdown,   \* Server.Close, as the other
  MaxTurns    \* bound: turns started

ASSUME EnderAssumption == Reaper # Shutdown /\ {Reaper, Shutdown} \cap Client = {}
ASSUME TurnsAssumption == MaxTurns \in Nat

Ender == Client \cup {Reaper, Shutdown}

VARIABLES
  filed,     \* the name on the server: "no" yet, "yes", "gone"
  loop,      \* Session.loop: "none", "open", "closed"
  closes,    \* calls of Loop.Close
  ended, gone, done,
  conns,     \* the clients attached
  timer,     \* the newest grace: "none", "armed", "fired" and at the lock
  stale,     \* an older timer has fired and is at the lock
  turn,      \* turns started
  turnpc,    \* the running turn: "idle" when Session.running is false
  winding,   \* turn goroutines past running = false, not yet turns.Done
  steering,  \* serveLoop.steering holds a message
  pc,
  owed,      \* the answer channels a client's handler has still to send to
  pending,   \* Session.pending and questions
  asked,     \* where each ask stands
  parked,    \* the asks the turn itself waits on; a child's it does not
  box,       \* an ask's answer channel
  sends,     \* sends to it
  stage,     \* how far each party that ends the session has got
  calm       \* history, read by no step: how much of a grace has passed since
             \* anybody last attached or a turn began: "no", "begun", "whole"

life == <<filed, loop, closes, ended, gone, done>>
grace == <<timer, stale, calm>>
turns == <<turn, turnpc, winding, steering>>
asks == <<owed, pending, asked, parked, box, sends>>
vars == <<life, grace, conns, turns, pc, asks, stage>>

Running == turnpc # "idle"
TurnGoroutines == winding + (IF Running THEN 1 ELSE 0)

Init ==
  /\ filed = "no" /\ loop = "none" /\ closes = 0
  /\ ended = FALSE /\ gone = FALSE /\ done = FALSE
  /\ conns = {} /\ timer = "none" /\ stale = FALSE /\ calm = "no"
  /\ turn = 0 /\ turnpc = "idle" /\ winding = 0 /\ steering = FALSE
  /\ pc = [c \in Client |-> "idle"]
  /\ owed = [c \in Client |-> {}]
  /\ pending = {} /\ parked = {}
  /\ asked = [a \in Ask |-> "no"]
  /\ box = [a \in Ask |-> "empty"]
  /\ sends = [a \in Ask |-> 0]
  /\ stage = [e \in Ender |-> "no"]

At(c, from, to) == pc[c] = from /\ pc' = [pc EXCEPT ![c] = to]

-----------------------------------------------------------------------------
\* stopReap, under the lock: a timer that has fired cannot be stopped, only
\* left behind by the next generation.
StopReap ==
  /\ timer' = "none"
  /\ stale' = (stale \/ timer = "fired")

\* armReap, given who watches and whether a turn runs after this step.
ArmReap(watching, isRunning) ==
  /\ IF timer = "none" /\ ~ended /\ watching = {} /\ ~isRunning
     THEN timer' = "armed" /\ calm' = "begun"
     ELSE UNCHANGED <<timer, calm>>
  /\ UNCHANGED stale

\* Faulty variant: a client that comes back leaves the grace running down.
JoinOnly(c) ==
  IF c \in conns THEN UNCHANGED <<conns, grace>>
  ELSE conns' = conns \cup {c} /\ calm' = "no" /\ UNCHANGED <<timer, stale>>

\* join: a connection attaches once.
Join(c) ==
  IF c \in conns THEN UNCHANGED <<conns, grace>>
                 ELSE conns' = conns \cup {c} /\ calm' = "no" /\ StopReap

\* Server.session: every request that names the session starts by finding it.
LooksUp(c) ==
  /\ filed = "yes"
  /\ At(c, "idle", "found")
  /\ UNCHANGED <<life, grace, conns, turns, asks, stage>>

\* A request that comes to nothing: no loop yet, an end meanwhile, no turn to
\* steer, an id nothing waits under, an answer the card would not have taken.
Refused(c) ==
  /\ At(c, "found", "idle") \/ At(c, "driven", "idle")
  /\ UNCHANGED <<life, grace, conns, turns, asks, stage>>

\* sessionStart and sessionFork: the session is filed, and then joined, before
\* the assembly that makes its loop runs.
Open(c) ==
  /\ filed = "no" /\ stage[Shutdown] = "no"
  /\ At(c, "idle", "filing")
  /\ filed' = "yes"
  /\ UNCHANGED <<loop, closes, ended, gone, done, grace, conns, turns, asks, stage>>

OpenJoins(c) ==
  /\ At(c, "filing", "opening")
  /\ Join(c)
  /\ UNCHANGED <<life, turns, asks, stage>>

\* Faulty variant, for the mutation runs only: a late loop is just dropped.
SetLoopDropping(c) ==
  /\ At(c, "opening", "idle")
  /\ loop' = "open"
  /\ UNCHANGED <<filed, closes, ended, gone, done, grace, conns, turns, asks, stage>>

\* setLoop: a loop that arrives after the end is closed at once.
SetLoop(c) ==
  /\ At(c, "opening", "idle")
  /\ loop' = IF ended THEN "closed" ELSE "open"
  /\ closes' = IF ended THEN closes + 1 ELSE closes
  /\ UNCHANGED <<filed, ended, gone, done, grace, conns, turns, asks, stage>>

\* drop: the assembly failed.
OpenFails(c) ==
  /\ At(c, "opening", "idle")
  /\ filed' = "gone" /\ gone' = TRUE
  /\ UNCHANGED <<loop, closes, ended, done, grace, conns, turns, asks, stage>>

\* driver: a loop that is there and not ended, for as long as the lock is held.
\* What sessionResume and turnSteer do with it takes the lock again.
Driver(c) ==
  /\ ~ended /\ loop = "open"
  /\ At(c, "found", "driven")
  /\ UNCHANGED <<life, grace, conns, turns, asks, stage>>

ResumeJoins(c) ==
  /\ At(c, "driven", "idle")
  /\ Join(c)
  /\ UNCHANGED <<life, turns, asks, stage>>

-----------------------------------------------------------------------------
\* turnStart: a client that starts a turn watches it, and only then asks.
TurnStart(c) ==
  /\ At(c, "found", "joined")
  /\ Join(c)
  /\ UNCHANGED <<life, turns, asks, stage>>

\* Faulty variant: the end of the session is not asked about.
LaunchAnyway(c) ==
  /\ At(c, "joined", "idle")
  /\ IF loop # "none" /\ ~Running /\ turn < MaxTurns
     THEN /\ turn' = turn + 1
          /\ turnpc' = "launched"
          /\ StopReap /\ calm' = "no"
          /\ UNCHANGED <<winding, steering>>
     ELSE UNCHANGED <<turns, grace>>
  /\ UNCHANGED <<life, conns, asks, stage>>

\* start: the turn is counted in turns in the hold that read ended.
Launch(c) ==
  /\ At(c, "joined", "idle")
  /\ IF ~ended /\ loop = "open" /\ ~Running /\ turn < MaxTurns
     THEN /\ turn' = turn + 1
          /\ turnpc' = "launched"
          /\ StopReap /\ calm' = "no"
          /\ UNCHANGED <<winding, steering>>
     ELSE UNCHANGED <<turns, grace>>
  /\ UNCHANGED <<life, conns, asks, stage>>

\* serveLoop.Run clears what was queued, reads messages at its boundaries, and
\* settles the turn after a last drain, or without one when it failed.
RunBegins ==
  /\ turnpc = "launched"
  /\ turnpc' = "looping"
  /\ steering' = FALSE
  /\ UNCHANGED <<life, grace, conns, turn, winding, pc, asks, stage>>

RunReads ==
  /\ turnpc = "looping" /\ steering
  /\ steering' = FALSE
  /\ UNCHANGED <<life, grace, conns, turn, turnpc, winding, pc, asks, stage>>

RunSettles ==
  /\ turnpc = "looping"
  /\ parked = {}
  /\ turnpc' = "settling"
  /\ UNCHANGED <<life, grace, conns, turn, winding, steering, pc, asks, stage>>

\* Faulty variant: the end of a turn starts no grace.
RunReturnsUnarmed ==
  /\ turnpc = "settling"
  /\ turnpc' = "idle" /\ winding' = winding + 1
  /\ UNCHANGED <<life, grace, conns, turn, steering, pc, asks, stage>>

\* The turn's goroutine: running is cleared and the grace armed, then Done.
RunReturns ==
  /\ turnpc = "settling"
  /\ turnpc' = "idle" /\ winding' = winding + 1
  /\ ArmReap(conns, FALSE)
  /\ UNCHANGED <<life, conns, turn, steering, pc, asks, stage>>

TurnDone ==
  /\ winding > 0
  /\ winding' = winding - 1
  /\ UNCHANGED <<life, grace, conns, turn, turnpc, steering, pc, asks, stage>>

\* turnSteer: a turn is running, and then, unlocked, the message.
Steer(c) ==
  /\ Running
  /\ At(c, "driven", "speaking")
  /\ UNCHANGED <<life, grace, conns, turns, asks, stage>>

Speaks(c) ==
  /\ At(c, "speaking", "idle")
  /\ steering' = TRUE
  /\ UNCHANGED <<life, grace, conns, turn, turnpc, winding, asks, stage>>

-----------------------------------------------------------------------------
\* ask and askQuestion, of the turn or of a child: with nobody attached there
\* is nobody to ask.
MakeAsk(a) ==
  /\ asked[a] = "no" /\ loop = "open"
  /\ IF conns = {}
     THEN asked' = [asked EXCEPT ![a] = "refused"] /\ UNCHANGED <<pending, parked>>
     ELSE /\ asked' = [asked EXCEPT ![a] = "waiting"]
          /\ pending' = pending \cup {a}
          /\ \/ turnpc = "looping" /\ parked' = parked \cup {a}
             \/ UNCHANGED parked
  /\ UNCHANGED <<life, grace, conns, turns, pc, owed, box, sends, stage>>

\* The select: an answer, or the session going.
AskReturns(a) ==
  /\ asked[a] = "waiting"
  /\ \/ /\ box[a] # "empty"
        /\ asked' = [asked EXCEPT ![a] = "settled"]
     \/ /\ gone
        /\ asked' = [asked EXCEPT ![a] = "refused"]
  /\ parked' = parked \ {a}
  /\ UNCHANGED <<life, grace, conns, turns, pc, owed, pending, box, sends,
                 stage>>

\* Faulty variant: the ask stays on the map until its answer is sent.
AnswerLeaves(c, a) ==
  /\ a \in pending
  /\ At(c, "found", "sending")
  /\ owed' = [owed EXCEPT ![c] = {a}]
  /\ UNCHANGED <<life, grace, conns, turns, pending, asked, parked, box, sends,
                 stage>>

\* answer and answerQuestion take the ask off the map under the lock, send when
\* the lock is let go, and say it was taken.
AnswerTakes(c, a) ==
  /\ a \in pending
  /\ At(c, "found", "sending")
  /\ pending' = pending \ {a}
  /\ owed' = [owed EXCEPT ![c] = {a}]
  /\ UNCHANGED <<life, grace, conns, turns, asked, parked, box, sends, stage>>

\* The sends, of the answer or of the refusals a last client leaves behind.
Sends(c) ==
  \E a \in owed[c] :
    /\ box' = [box EXCEPT ![a] = IF pc[c] = "sending" THEN "answer" ELSE "refusal"]
    /\ sends' = [sends EXCEPT ![a] = @ + 1]
    /\ owed' = [owed EXCEPT ![c] = @ \ {a}]
    /\ pc' = [pc EXCEPT ![c] = IF owed'[c] = {} THEN "idle" ELSE @]
    /\ UNCHANGED <<life, grace, conns, turns, pending, asked, parked, stage>>

\* Faulty variant: the last client's leaving answers nobody.
DetachQuietly(c) ==
  /\ c \in conns /\ pc[c] = "idle"
  /\ conns' = conns \ {c}
  /\ ArmReap(conns', Running)
  /\ UNCHANGED <<life, turns, pc, asks, stage>>

\* close and detach: the last one out takes every waiting ask with it.
Detach(c) ==
  /\ c \in conns
  /\ conns' = conns \ {c}
  /\ IF conns' = {} /\ pending # {}
     THEN /\ At(c, "idle", "leaving")
          /\ owed' = [owed EXCEPT ![c] = pending] /\ pending' = {}
     ELSE At(c, "idle", "idle") /\ UNCHANGED <<owed, pending>>
  /\ ArmReap(conns', Running)
  /\ UNCHANGED <<life, turns, asked, parked, box, sends, stage>>

-----------------------------------------------------------------------------
\* Faulty variant: every caller takes itself for the first.
MarkedFirst(e) ==
  stage' = [stage EXCEPT ![e] = IF loop = "open" THEN "first" ELSE "bare"]

\* markEnded: the first to mark has the releasing to do, of the loop it saw.
Marked(e) ==
  stage' = [stage EXCEPT ![e] = IF ended THEN "second"
                                ELSE IF loop = "open" THEN "first" ELSE "bare"]

\* No timer has anything left to do, one at the lock already included.
Mark(e) ==
  /\ ended' = TRUE /\ Marked(e)
  /\ timer' = "none" /\ stale' = FALSE /\ calm' = "no"

\* endSession: off the server first, whoever else has taken it off already,
\* then ended.
EndAsked(c) ==
  /\ At(c, "found", "ending")
  /\ filed' = "gone"
  /\ stage' = [stage EXCEPT ![c] = "forgot"]
  /\ UNCHANGED <<loop, closes, ended, gone, done, grace, conns, turns, asks>>

EndMarks(c) ==
  /\ stage[c] = "forgot"
  /\ Mark(c)
  /\ UNCHANGED <<filed, loop, closes, gone, done, conns, turns, pc, asks>>

\* Server.Close: the sessions filed are taken, to be ended; none is filed after.
CloseServer ==
  /\ stage[Shutdown] = "no"
  /\ filed' = "gone"
  /\ stage' = [stage EXCEPT ![Shutdown] = IF filed = "yes" THEN "forgot" ELSE "absent"]
  /\ UNCHANGED <<loop, closes, ended, gone, done, grace, conns, turns, pc, asks>>

CloseMarks ==
  /\ stage[Shutdown] = "forgot"
  /\ Mark(Shutdown)
  /\ UNCHANGED <<filed, loop, closes, gone, done, conns, turns, pc, asks>>

\* The grace runs out; the timer then asks for the lock.
TimerFires ==
  /\ timer = "armed"
  /\ timer' = "fired"
  /\ calm' = IF calm = "begun" THEN "whole" ELSE calm
  /\ UNCHANGED <<life, stale, conns, turns, pc, asks, stage>>

\* reapNow: the generation, the condition and the mark are one hold of the
\* lock; the newest timer is not armed any more, an older one changes nothing.
ReapNow(newest) ==
  /\ IF newest THEN timer = "fired" ELSE stale
  /\ IF newest /\ conns = {} /\ ~Running
     THEN Mark(Reaper)
     ELSE /\ timer' = IF newest THEN "none" ELSE timer
          /\ stale' = (newest /\ stale)
          /\ UNCHANGED <<ended, stage, calm>>
  /\ UNCHANGED <<filed, loop, closes, gone, done, conns, turns, pc, asks>>

\* The name comes off the server before the teardown.
ReapForgets ==
  /\ stage[Reaper] \in {"first", "second", "bare"} /\ filed = "yes"
  /\ filed' = "gone"
  /\ UNCHANGED <<loop, closes, ended, gone, done, grace, conns, turns, pc, asks, stage>>

\* Faulty variant: the asks that wait are not let go before the turn is.
GoneLeftOpen(e) ==
  /\ stage[e] \in {"first", "second", "bare"} /\ (e = Reaper => filed = "gone")
  /\ stage' = [stage EXCEPT ![e] = CASE @ = "first"  -> "waitTurns"
                                     [] @ = "second" -> "waitDone"
                                     [] @ = "bare"   -> "release"]
  /\ UNCHANGED <<life, grace, conns, turns, pc, asks>>

\* tearDown: gone is closed by whoever comes first.
ClosesGone(e) ==
  /\ stage[e] \in {"first", "second", "bare"} /\ (e = Reaper => filed = "gone")
  /\ gone' = TRUE
  /\ stage' = [stage EXCEPT ![e] = CASE @ = "first"  -> "waitTurns"
                                     [] @ = "second" -> "waitDone"
                                     [] @ = "bare"   -> "release"]
  /\ UNCHANGED <<filed, loop, closes, ended, done, grace, conns, turns, pc, asks>>

\* The turn is waited for, and the loop is closed.
ClosesLoop(e) ==
  /\ stage[e] = "waitTurns" /\ TurnGoroutines = 0
  /\ loop' = "closed" /\ closes' = closes + 1
  /\ stage' = [stage EXCEPT ![e] = "release"]
  /\ UNCHANGED <<filed, ended, gone, done, grace, conns, turns, pc, asks>>

\* An end that is over returns to whoever asked for it.
Returns(e) ==
  /\ stage' = [stage EXCEPT ![e] = "over"]
  /\ pc' = [c \in Client |-> IF c = e THEN "idle" ELSE pc[c]]
  /\ UNCHANGED <<filed, loop, closes, ended, gone, grace, conns, turns, asks>>

Finishes(e) == stage[e] = "release" /\ done' = TRUE /\ Returns(e)

\* Faulty variant: the second caller returns ahead of the first.
NotAwaited(e) == stage[e] = "waitDone" /\ Returns(e) /\ UNCHANGED done

\* Whoever comes second waits on the first.
Awaits(e) == stage[e] = "waitDone" /\ done /\ Returns(e) /\ UNCHANGED done

-----------------------------------------------------------------------------
\* What a request goes on to do with the session it found.
Handles(c) ==
  \/ Refused(c) \/ Driver(c) \/ TurnStart(c) \/ EndAsked(c)
  \/ \E a \in Ask : AnswerTakes(c, a)

Next ==
  \/ \E c \in Client :
       \/ Open(c) \/ OpenJoins(c) \/ SetLoop(c) \/ OpenFails(c) \/ LooksUp(c)
       \/ Handles(c) \/ ResumeJoins(c) \/ Launch(c) \/ Steer(c) \/ Speaks(c)
       \/ Sends(c) \/ Detach(c) \/ EndMarks(c)
  \/ \E a \in Ask : MakeAsk(a) \/ AskReturns(a)
  \/ RunBegins \/ RunReads \/ RunSettles \/ RunReturns \/ TurnDone
  \/ CloseServer \/ CloseMarks \/ TimerFires \/ ReapForgets
  \/ \E newest \in BOOLEAN : ReapNow(newest)
  \/ \E e \in Ender : ClosesGone(e) \/ ClosesLoop(e) \/ Finishes(e) \/ Awaits(e)

Spec == Init /\ [][Next]_vars

\* What is taken only so often: an assembly answers, a turn whose asks are
\* answered ends, a handler sends what it owes and an end takes its steps.
Proceeds ==
  \/ \E c \in Client :
       OpenJoins(c) \/ SetLoop(c) \/ OpenFails(c) \/ Sends(c) \/ EndMarks(c)
  \/ \E a \in Ask : AskReturns(a)
  \/ RunBegins \/ RunSettles \/ RunReturns \/ TurnDone
  \/ CloseMarks \/ ReapForgets
  \/ \E e \in Ender : ClosesGone(e) \/ ClosesLoop(e) \/ Finishes(e) \/ Awaits(e)

\* Handlers, goroutines and timers run.  No request, ask or shutdown need ever
\* come, nor a timer that was left behind.  Of the steps a session takes only so
\* often one fairness is the least to assume, and gives each its turn.
Fairness ==
  /\ \A c \in Client :
       WF_vars(Handles(c) \/ ResumeJoins(c) \/ Launch(c) \/ Steer(c) \/ Speaks(c))
  /\ WF_vars(TimerFires \/ ReapNow(TRUE))
  /\ WF_vars(Proceeds)

FairSpec == Spec /\ Fairness

-----------------------------------------------------------------------------
\* Every variable has its type; the loop is closed at most once.
TypeOK ==
  /\ filed \in {"no", "yes", "gone"} /\ loop \in {"none", "open", "closed"}
  /\ closes \in 0..1
  /\ {ended, gone, done, stale, steering} \subseteq BOOLEAN
  /\ timer \in {"none", "armed", "fired"} /\ calm \in {"no", "begun", "whole"}
  /\ conns \subseteq Client
  /\ pending \subseteq Ask /\ parked \subseteq Ask
  /\ turn \in 0..MaxTurns /\ winding \in 0..MaxTurns
  /\ turnpc \in {"idle", "launched", "looping", "settling"}
  /\ pc \in [Client -> {"idle", "filing", "opening", "found", "driven", "joined",
                       "speaking", "sending", "leaving", "ending"}]
  /\ owed \in [Client -> SUBSET Ask]
  /\ asked \in [Ask -> {"no", "waiting", "settled", "refused"}]
  /\ box \in [Ask -> {"empty", "answer", "refusal"}]
  /\ sends \in [Ask -> Nat]
  /\ stage \in [Ender -> {"no", "forgot", "first", "second", "bare", "waitTurns",
                         "waitDone", "release", "over", "absent"}]

\* A turn is "work nobody may pull the store and the toolset out from under":
\* the loop is open for as long as a turn's goroutine has not finished.
LoopOutlivesTurns == TurnGoroutines > 0 => loop = "open"

\* However many parties end the session, and whenever its loop arrives, the
\* loop is closed exactly once: never twice, and not left open at the end.
LoopClosedOnce ==
  /\ loop = "closed" <=> closes = 1
  /\ done => loop # "open"

\* "a client told its session is over while a teardown is still waiting for the
\* turn would have been told the wrong thing": whoever asked for the end, and
\* whoever else did, is answered when no turn of it runs and its loop is shut.
EndMeansOver ==
  \A e \in Ender : stage[e] = "over" => TurnGoroutines = 0 /\ loop # "open"

\* An answer channel holds one value and is sent to once, whoever comes first
\* of two clients answering and the last client leaving: no send ever blocks.
OneAnswerPerAsk == \A a \in Ask : sends[a] <= 1

\* "the alternative is a turn that hangs on a decision nobody is left to
\* make": an ask with no answer on its way has somebody attached to see it.
NoAskWithoutAudience ==
  \A a \in Ask :
    asked[a] = "waiting" /\ ~gone =>
      \/ box[a] # "empty" \/ \E c \in Client : a \in owed[c]
      \/ a \in pending /\ conns # {}

\* "the older one would reap at the moment of the second leaving rather than a
\* grace after it": whoever left, came back and left again, and whatever turns
\* ran, a session is reaped only when a whole grace has passed since.
ReapedAfterItsGrace ==
  [][stage[Reaper] = "no" /\ stage'[Reaper] # "no" => calm = "whole"]_vars

\* "a client that thinks it approved something is worse off than one that was
\* told it did not": an approval a client was told was taken is never refused.
ToldIsTrue == \A a \in Ask : box[a] = "answer" => asked[a] # "refused"

\* "a steer that arrives too late for the loop's own drain is carried out":
\* a message a client was told was taken is read by the turn, not cleared.
SteerIsRead ==
  [][steering /\ ~steering' => turnpc = "looping"]_vars

\* "a client attaching in the moment between is told the session has gone instead
\* of being handed a loop that is being closed": a resume answered with the
\* session's transcript has a session that nobody had ended when it attached.
ResumedIsLive ==
  [][\A c \in Client : ResumeJoins(c) => ~ended]_vars

\* Whoever asked for an end, and whatever the turn is parked on, the end is
\* reached: no party's end is under way for ever.
EveryEndFinishes ==
  []<>(\A e \in Ender : stage[e] \in {"no", "over", "absent"})

\* A session nobody watches or works in does not hold its loop for ever.
UnwatchedIsReaped ==
  loop = "open" /\ conns = {} /\ ~Running
    ~> loop = "closed" \/ conns # {} \/ Running

=============================================================================
