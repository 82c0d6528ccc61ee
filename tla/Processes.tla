----------------------------- MODULE Processes -----------------------------
(***************************************************************************)
(* The background processes of a session (internal/process) and the way a  *)
(* foreground command becomes one at its ceiling (internal/runner): the    *)
(* table of named processes, a start and an adoption racing the session's  *)
(* end, the reaper that waits for each process, stores its log and only    *)
(* then marks it done, and the stops that signal its group meanwhile.      *)
(*                                                                         *)
(* A foreground command prints chunks 1, 2, ...: what the capture kept and *)
(* what the process's stream holds are sequences of those.  What a started *)
(* process prints goes to one stream for good and is left out, as are the  *)
(* bounds of ring and spool, input, and the reads and status reports.      *)
(***************************************************************************)
EXTENDS Naturals, Sequences, FiniteSets

CONSTANTS
  Proc,          \* the commands that may be run
  Foreground,    \* those run as captured commands; the process tool starts
                 \* the others
  Attached,      \* the commands started through a container engine's client
  Name,          \* names a process may be given
  NoProc,        \* no process
  Request,       \* calls of Stop or Kill, by the tool or a person
  Closer,        \* Supervisor.Close, as the other party that ends processes
  MaxProcesses,  \* the cap on entries, exited ones included
  MaxChunks      \* bound: chunks one command prints

ASSUME KindsAssumption ==
  Foreground \subseteq Proc /\ Attached \subseteq Proc \ Foreground
ASSUME CloserAssumption ==
  /\ Closer \notin Request /\ NoProc \notin Proc
  /\ {"free", "ran"} \cap (Request \cup {Closer}) = {}
ASSUME CapAssumption ==
  /\ MaxProcesses \in Nat \ {0} /\ MaxChunks \in Nat
  /\ IsFiniteSet(Name) /\ MaxProcesses <= Cardinality(Name)

Ender == Request \cup {Closer}

VARIABLES
  os,        \* "none", "alive", "dead", "reaped" when its pid is spent, "told"
             \* when whoever runs it can read so
  killed,    \* the commands sent a kill they cannot ignore
  printed,   \* chunks printed
  live,      \* runner.live, the captured commands a leaving session drains
  capture,   \* where the call that runs a captured command stands
  kept,      \* captureWriter.buf
  table,     \* Supervisor.procs, by name
  closed,    \* Supervisor.closed
  reaper,    \* where the reaper of a process stands
  log,       \* proc.stdout
  evidence,  \* the log stored when the process ended
  once,      \* proc.stopOnce
  stopped,   \* proc.stopped
  at,        \* where each party stands that ends a process
  closing    \* Close: "no", "waiting" for its stops, "returned"

world == <<os, killed, printed>>
runner == <<live, capture, kept>>
stops == <<once, stopped, at>>
vars == <<world, runner, table, closed, reaper, log, evidence, stops, closing>>

Places == {"no", "stop", "kill", "stopping", "killing", "term", "grace", "once",
           "hangUp", "exec", "toKill", "awaiting", "over"}

Entries == {n \in Name : table[n] # NoProc}
Owned == {table[n] : n \in Entries}
Done(p) == reaper[p] = "done"
Upto(k) == [i \in 1..k |-> i]

Init ==
  /\ os = [p \in Proc |-> "none"]
  /\ killed = {} /\ live = {} /\ once = [p \in Proc |-> "free"]
  /\ printed = [p \in Proc |-> 0]
  /\ capture = [p \in Proc |-> "none"]
  /\ kept = [p \in Proc |-> <<>>]
  /\ table = [n \in Name |-> NoProc]
  /\ closed = FALSE /\ closing = "no"
  /\ reaper = [p \in Proc |-> "none"]
  /\ log = [p \in Proc |-> <<>>]
  /\ evidence = [p \in Proc |-> <<>>]
  /\ stopped = {}
  /\ at = [e \in Ender |-> [p \in Proc |-> "no"]]

-----------------------------------------------------------------------------
\* The operating system's part: a command ends by itself, because it was asked
\* to, or because it was killed.
Exits(p) ==
  /\ os[p] = "alive"
  /\ os' = [os EXCEPT ![p] = "dead"]
  /\ UNCHANGED <<killed, printed, runner, table, closed, reaper, log, evidence,
                 stops, closing>>

\* Faulty variant, for the mutation runs only: redirected before it is seeded.
RedirectedEarly(p) == capture[p] \in {"released", "handed"}

\* captureWriter.mirror is set.
Redirected(p) == capture[p] = "handed"

\* captureWriter.Write: to the stream of the process the command became, and
\* before that to the capture's buffer.
Prints(p) ==
  /\ os[p] = "alive" /\ capture[p] # "none" /\ printed[p] < MaxChunks
  /\ printed' = [printed EXCEPT ![p] = @ + 1]
  /\ IF Redirected(p)
     THEN log' = [log EXCEPT ![p] = Append(@, printed'[p])] /\ UNCHANGED kept
     ELSE kept' = [kept EXCEPT ![p] = Append(@, printed'[p])] /\ UNCHANGED log
  /\ UNCHANGED <<os, killed, live, capture, table, closed, reaper, evidence,
                 stops, closing>>

-----------------------------------------------------------------------------
\* Faulty variant: a name is taken over from a process still
\* running.
StartableOver(n) == n \in Entries => reaper[table[n]] \in {"waiting", "done"}

\* A name is free to a start when nobody has it or what has it is done.
Startable(n) == n \in Entries => Done(table[n])

\* start, from the check of closed to the spawn, under one lock: an exited
\* entry of the name is replaced, and is lost if the spawn then fails.
Start(p, n) ==
  /\ ~closed /\ p \notin Foreground /\ os[p] = "none" /\ Startable(n)
  /\ Cardinality(Entries \ {n}) < MaxProcesses
  /\ \/ /\ table' = [table EXCEPT ![n] = p]
        /\ os' = [os EXCEPT ![p] = "alive"]
        /\ reaper' = [reaper EXCEPT ![p] = "waiting"]
     \/ /\ table' = [table EXCEPT ![n] = NoProc]
        /\ UNCHANGED <<os, reaper>>
  /\ UNCHANGED <<killed, printed, runner, closed, log, evidence, stops, closing>>

\* capture: the command is spawned, and then joins the live list.
Captures(p) ==
  /\ p \in Foreground /\ os[p] = "none"
  /\ os' = [os EXCEPT ![p] = "alive"]
  /\ capture' = [capture EXCEPT ![p] = "spawned"]
  /\ UNCHANGED <<killed, printed, live, kept, table, closed, reaper, log,
                 evidence, stops, closing>>

Joins(p) ==
  /\ capture[p] = "spawned"
  /\ live' = live \cup {p}
  /\ capture' = [capture EXCEPT ![p] = "running"]
  /\ UNCHANGED <<world, kept, table, closed, reaper, log, evidence, stops,
                 closing>>

\* group.wait: the pid is spent; the command comes off the live list, and the
\* wait's result is sent.
CaptureWaits(p) ==
  /\ capture[p] \notin {"none", "spawned"}
  /\ \/ os[p] = "dead" /\ os' = [os EXCEPT ![p] = "reaped"] /\ UNCHANGED live
     \/ os[p] = "reaped" /\ os' = [os EXCEPT ![p] = "told"] /\ live' = live \ {p}
  /\ UNCHANGED <<killed, printed, capture, kept, table, closed, reaper, log,
                 evidence, stops, closing>>

\* The wait's result is read before the ceiling, or was asked for once more
\* when it came.
CaptureReturns(p) ==
  /\ capture[p] \in {"running", "declined"} /\ os[p] = "told"
  /\ capture' = [capture EXCEPT ![p] = "over"]
  /\ UNCHANGED <<world, live, kept, table, closed, reaper, log, evidence, stops,
                 closing>>

\* A reader's cancel, or the drain of a leaving session: interrupted, and then
\* killed unless its wait has returned.
CaptureStops(p) ==
  /\ p \in live /\ p \notin killed
  /\ killed' = killed \cup {p}
  /\ UNCHANGED <<os, printed, runner, table, closed, reaper, log, evidence,
                 stops, closing>>

\* Faulty variant: off the live list before anybody has taken it.
CeilingLetsGo(p) ==
  /\ capture[p] = "running" /\ os[p] # "told"
  /\ IF kept[p] # <<>>
     THEN capture' = [capture EXCEPT ![p] = "offered"] /\ UNCHANGED killed
     ELSE /\ capture' = [capture EXCEPT ![p] = "declined"]
          /\ killed' = killed \cup {p}
  /\ live' = live \ {p}
  /\ UNCHANGED <<os, printed, kept, table, closed, reaper, log, evidence, stops,
                 closing>>

\* The ceiling: a command that has printed and whose wait has not been told is
\* offered, any other is killed.
Ceiling(p) ==
  /\ capture[p] = "running" /\ os[p] # "told"
  /\ IF kept[p] # <<>>
     THEN capture' = [capture EXCEPT ![p] = "offered"] /\ UNCHANGED killed
     ELSE /\ capture' = [capture EXCEPT ![p] = "declined"]
          /\ killed' = killed \cup {p}
  /\ UNCHANGED <<os, printed, live, kept, table, closed, reaper, log, evidence,
                 stops, closing>>

\* Faulty variant: an adoption does not ask whether the session has ended.
AdoptsLate(p) ==
  /\ capture[p] = "offered" /\ Cardinality(Entries) < MaxProcesses
  /\ \E n \in Name \ Entries : table' = [table EXCEPT ![n] = p]
  /\ capture' = [capture EXCEPT ![p] = "adopted"]
  /\ reaper' = [reaper EXCEPT ![p] = "waiting"]
  /\ UNCHANGED <<world, live, kept, closed, log, evidence, stops, closing>>

\* Adopt: under a free name (freeName), with a reaper of its own.
Adopts(p) ==
  /\ capture[p] = "offered" /\ ~closed /\ Cardinality(Entries) < MaxProcesses
  /\ \E n \in Name \ Entries : table' = [table EXCEPT ![n] = p]
  /\ capture' = [capture EXCEPT ![p] = "adopted"]
  /\ reaper' = [reaper EXCEPT ![p] = "waiting"]
  /\ UNCHANGED <<world, live, kept, closed, log, evidence, stops, closing>>

\* Refused: the command is stopped as if nobody had been listening.
AdoptRefused(p) ==
  /\ capture[p] = "offered"
  /\ closed \/ Cardinality(Entries) >= MaxProcesses
  /\ capture' = [capture EXCEPT ![p] = "declined"]
  /\ killed' = killed \cup {p}
  /\ UNCHANGED <<os, printed, live, kept, table, closed, reaper, log, evidence,
                 stops, closing>>

\* handOver: off the live list once the supervisor has it.
LetsGo(p) ==
  /\ capture[p] = "adopted"
  /\ capture' = [capture EXCEPT ![p] = "released"]
  /\ live' = live \ {p}
  /\ UNCHANGED <<world, kept, table, closed, reaper, log, evidence, stops,
                 closing>>

\* captureWriter.handOff: seeded and redirected in one hold of its lock.
HandsOff(p) ==
  /\ capture[p] = "released"
  /\ capture' = [capture EXCEPT ![p] = "handed"]
  /\ log' = [log EXCEPT ![p] = @ \o kept[p]]
  /\ UNCHANGED <<world, live, kept, table, closed, reaper, evidence, stops,
                 closing>>

-----------------------------------------------------------------------------
\* reap: the wait, its own or the one an adopted command came with.
ReaperWaits(p) ==
  /\ reaper[p] = "waiting"
  /\ os[p] = IF capture[p] = "none" THEN "dead" ELSE "told"
  /\ os' = [os EXCEPT ![p] = "told"]
  /\ reaper' = [reaper EXCEPT ![p] = "waited"]
  /\ UNCHANGED <<killed, printed, runner, table, closed, log, evidence, stops,
                 closing>>

\* The log is stored, after a terminal was given time to drain.
ReaperStores(p) ==
  /\ reaper[p] = "waited"
  /\ reaper' = [reaper EXCEPT ![p] = "stored"]
  /\ evidence' = [evidence EXCEPT ![p] = log[p]]
  /\ UNCHANGED <<world, runner, table, closed, log, stops, closing>>

\* done, and exited closed with it.
ReaperEnds(p) ==
  /\ reaper[p] = "stored"
  /\ reaper' = [reaper EXCEPT ![p] = "done"]
  /\ UNCHANGED <<world, runner, table, closed, log, evidence, stops, closing>>

-----------------------------------------------------------------------------
Moves(e, p, from, to) ==
  at[e][p] \in from /\ at' = [at EXCEPT ![e][p] = to]

\* What a stop leaves alone.
others == <<runner, table, closed, reaper, log, evidence, closing>>

\* Stop and Kill look the name up; Close takes every entry there is.
Asks(r, n) ==
  /\ table[n] # NoProc /\ \A p \in Proc : at[r][p] = "no"
  /\ \E kind \in {"stop", "kill"} : at' = [at EXCEPT ![r][table[n]] = kind]
  /\ UNCHANGED <<others, world, once, stopped>>

Closes ==
  /\ closing = "no"
  /\ closed' = TRUE /\ closing' = "waiting"
  /\ at' = [at EXCEPT ![Closer] =
              [p \in Proc |-> IF p \in Owned THEN "stop" ELSE "no"]]
  /\ UNCHANGED <<world, runner, table, reaper, log, evidence, once, stopped>>

\* A process read as done is left alone.
FindsDone(e, p) ==
  /\ Done(p)
  /\ Moves(e, p, {"stop", "kill"}, "over")
  /\ UNCHANGED <<others, world, once, stopped>>

FindsRunning(e, p) ==
  /\ ~Done(p)
  /\ Moves(e, p, {"stop"}, "stopping") \/ Moves(e, p, {"kill"}, "killing")
  /\ UNCHANGED <<others, world, once, stopped>>

\* markStopped, and the first step of the stop it gets.
Marks(e, p) ==
  /\ \/ Moves(e, p, {"stopping"}, IF p \in Attached THEN "once" ELSE "term")
     \/ Moves(e, p, {"killing"}, IF p \in Attached THEN "exec" ELSE "toKill")
  /\ stopped' = IF Done(p) THEN stopped ELSE stopped \cup {p}
  /\ UNCHANGED <<others, world, once>>

\* terminate: a signal the process may take its time over, or ignore.
Terms(e, p) ==
  /\ Moves(e, p, {"term"}, "grace")
  /\ UNCHANGED <<others, world, once, stopped>>

\* Faulty variant: nothing follows the grace.
GraceJustEnds(e, p) ==
  /\ Moves(e, p, {"grace"}, "awaiting")
  /\ UNCHANGED <<others, world, once, stopped>>

GraceEnds(e, p) ==
  /\ Moves(e, p, {"grace"}, "toKill")
  /\ UNCHANGED <<others, world, once, stopped>>

\* terminateAttached is run by one caller; a second waits until it has been.
TakesOnce(e, p) ==
  /\ \/ once[p] = "free" /\ Moves(e, p, {"once"}, "hangUp")
     \/ once[p] = "ran" /\ Moves(e, p, {"once"}, "awaiting")
  /\ once' = [once EXCEPT ![p] = IF @ = "free" THEN e ELSE @]
  /\ UNCHANGED <<others, world, stopped>>

GivesOnceBack(e, p) == once' = [once EXCEPT ![p] = IF @ = e THEN "ran" ELSE @]

\* The stream is hung up; the far end's grace ends, and the second exec starts.
FarGraceEnds(e, p) ==
  /\ Moves(e, p, {"hangUp"}, "exec")
  /\ UNCHANGED <<others, world, once, stopped>>

\* The second exec is over: a client whose exited is closed gets no kill.
ExecEnds(e, p) ==
  /\ Moves(e, p, {"exec"}, IF Done(p) THEN "awaiting" ELSE "toKill")
  /\ IF Done(p) THEN GivesOnceBack(e, p) ELSE UNCHANGED once
  /\ UNCHANGED <<others, world, stopped>>

\* Faulty variant: the kill leaves the stop to nobody.
KillsHolding(e, p) ==
  /\ Moves(e, p, {"toKill"}, "awaiting")
  /\ killed' = killed \cup {p}
  /\ UNCHANGED <<others, os, printed, once, stopped>>

Kills(e, p) ==
  /\ Moves(e, p, {"toKill"}, "awaiting")
  /\ killed' = killed \cup {p}
  /\ GivesOnceBack(e, p)
  /\ UNCHANGED <<others, os, printed, stopped>>

\* exited is closed: whoever waits for it goes on.
StopReturns(e, p) ==
  /\ Done(p)
  /\ Moves(e, p, {"grace", "hangUp", "awaiting"}, "over")
  /\ GivesOnceBack(e, p)
  /\ UNCHANGED <<others, world, stopped>>

CloseReturns ==
  /\ closing = "waiting"
  /\ \A p \in Proc : at[Closer][p] \in {"no", "over"}
  /\ closing' = "returned"
  /\ UNCHANGED <<world, runner, table, closed, reaper, log, evidence, stops>>

-----------------------------------------------------------------------------
Stops(e, p) ==
  \/ FindsDone(e, p) \/ FindsRunning(e, p) \/ Marks(e, p) \/ Terms(e, p)
  \/ GraceEnds(e, p) \/ TakesOnce(e, p) \/ FarGraceEnds(e, p)
  \/ ExecEnds(e, p) \/ Kills(e, p) \/ StopReturns(e, p)

CallMoves(p) ==
  \/ Joins(p) \/ CaptureReturns(p) \/ Adopts(p) \/ AdoptRefused(p)
  \/ LetsGo(p) \/ HandsOff(p)

Reaps(p) == ReaperWaits(p) \/ ReaperStores(p) \/ ReaperEnds(p)

Next ==
  \/ \E p \in Proc :
       \/ Exits(p) \/ Prints(p) \/ (\E n \in Name : Start(p, n))
       \/ Captures(p) \/ CaptureWaits(p) \/ CaptureStops(p) \/ Ceiling(p)
       \/ CallMoves(p) \/ Reaps(p)
  \/ \E r \in Request, n \in Name : Asks(r, n)
  \/ \E e \in Ender, p \in Proc : Stops(e, p)
  \/ Closes \/ CloseReturns

Spec == Init /\ [][Next]_vars

\* Goroutines and timers run, a second exec is bounded, and what is killed
\* dies.  Nothing else makes a command end, reach its ceiling or be stopped.
Fairness ==
  /\ \A p \in Proc :
       /\ WF_vars(p \in killed /\ Exits(p)) /\ WF_vars(CaptureWaits(p))
       /\ WF_vars(CallMoves(p)) /\ WF_vars(Reaps(p))
  /\ \A e \in Ender, p \in Proc : WF_vars(Stops(e, p))
  /\ WF_vars(CloseReturns)

FairSpec == Spec /\ Fairness

-----------------------------------------------------------------------------
\* Every variable has its type, whoever holds a process's stopOnce is in its
\* attached stop, and Close stops nothing before it is called.
TypeOK ==
  /\ os \in [Proc -> {"none", "alive", "dead", "reaped", "told"}]
  /\ killed \subseteq Proc /\ live \subseteq Proc /\ stopped \subseteq Proc
  /\ printed \in [Proc -> 0..MaxChunks]
  /\ capture \in [Proc -> {"none", "spawned", "running", "offered", "declined", "adopted",
                           "released", "handed", "over"}]
  /\ {kept, log, evidence} \subseteq [Proc -> Seq(1..MaxChunks)]
  /\ table \in [Name -> Proc \cup {NoProc}]
  /\ closed \in BOOLEAN /\ closing \in {"no", "waiting", "returned"}
  /\ reaper \in [Proc -> {"none", "waiting", "waited", "stored", "done"}]
  /\ once \in [Proc -> {"free", "ran"} \cup Ender]
  /\ \A p \in Proc : once[p] \in Ender =>
       at[once[p]][p] \in {"hangUp", "exec", "toKill"}
  /\ at \in [Ender -> [Proc -> Places]]
  /\ closing = "no" => \A p \in Proc : at[Closer][p] = "no"

\* "bounds how many processes (running or exited) the supervisor tracks": every
\* process with a reaper still at work has an entry, so that a stop and the
\* session's end can find it, under one name, and there are never more entries
\* than the cap.
NobodyForgotten ==
  /\ \A p \in Proc : reaper[p] \notin {"none", "done"} => p \in Owned
  /\ \A n, m \in Entries : n # m => table[n] # table[m]
  /\ Cardinality(Entries) <= MaxProcesses

\* "a session on its way out has to find all of them": a command that runs is
\* on the runner's live list or is a process of the supervisor's, also while
\* it changes hands; but for the step between its spawn and its joining.
SomebodyHoldsIt ==
  \A p \in Proc : os[p] = "alive" /\ capture[p] # "spawned" =>
    p \in live \/ (p \in Owned /\ ~Done(p))

\* "no byte is written twice and none is lost between the two": a process's
\* stream holds all it printed, in order, once it was handed over.
HandedOverWhole ==
  \A p \in Proc :
    IF capture[p] = "handed" THEN log[p] = Upto(printed[p])
                             ELSE log[p] = <<>> /\ kept[p] = Upto(printed[p])

\* "Close must run when the session ends so no process tree outlives it": once
\* Close has returned, every process the supervisor has is done, and none that
\* a start or an adoption raced it with comes after.
CloseLeavesNothing == closing = "returned" => \A p \in Owned : Done(p)

\* "with the full log (bounded) stored in the evidence store when the process
\* ends": what was stored is everything the process printed.
FullLogStored == \A p \in Proc : Done(p) => evidence[p] = Upto(printed[p])

\* "once the reaper has it the number is free for something else: no kill goes
\* to a client already gone": a kill is not decided on once the pid is spent.
NoKillOnceReaped ==
  [][\A e \in Ender, p \in Attached :
       at[e][p] = "exec" /\ at'[e][p] = "toKill" => os[p] \notin {"reaped", "told"}]_vars

\* Stop, Kill and Close return, whatever the process does and however many
\* of them are at it.
EveryStopReturns ==
  /\ \A e \in Ender, p \in Proc : at[e][p] \notin {"no", "over"} ~> at[e][p] = "over"
  /\ closing = "waiting" ~> closing = "returned"

=============================================================================
