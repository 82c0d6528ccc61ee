-------------------------- MODULE ProcessesProofs --------------------------
(***************************************************************************)
(* The invariants of the process supervisor and of the hand-over, for any  *)
(* number of commands, names and stops.  Where a process stands is told by *)
(* four variables that different parties write: Lifecycle relates them,    *)
(* and everything else rests on it.                                        *)
(***************************************************************************)
EXTENDS Processes, FiniteSetTheorems, TLAPS

\* Where a process stands, by its state at the operating system (os), in the
\* call that captured it and at its reaper.
Stage(p) ==
  /\ os[p] = "none" => capture[p] = "none" /\ reaper[p] = "none"
  /\ p \notin Foreground => capture[p] = "none"
  /\ p \in Foreground /\ capture[p] = "none" => os[p] = "none"
  /\ capture[p] \in {"running", "offered", "declined", "adopted"} /\ os[p] # "told" =>
       p \in live
  /\ capture[p] = "over" => os[p] = "told"
  /\ capture[p] \in {"spawned", "running", "offered", "declined", "over"} =>
       reaper[p] = "none"
  /\ capture[p] \in {"adopted", "released", "handed"} => reaper[p] # "none"
  /\ capture[p] = "none" /\ os[p] # "none" => reaper[p] # "none"
  /\ reaper[p] \notin {"none", "waiting"} => os[p] = "told"

Stages == \A p \in Proc : Stage(p)

\* The table has the processes that have a reaper, and only those.
Tabled == NobodyForgotten /\ \A p \in Owned : reaper[p] # "none"

Lifecycle == Stages /\ Tabled

\* What the session's end has done so far.
Ending ==
  /\ closing # "no" => closed
  /\ closing # "no" => \A p \in Owned : Done(p) \/ at[Closer][p] # "no"
  /\ closing = "returned" => \A p \in Proc : at[Closer][p] \in {"no", "over"}
  /\ \A e \in Ender, p \in Proc : at[e][p] = "over" => Done(p)

-----------------------------------------------------------------------------
\* What the steps of a stop may change.
LEMMA StopsLeave ==
  ASSUME NEW e \in Ender, NEW p \in Proc, Stops(e, p)
  PROVE  UNCHANGED <<others, os, printed>>
<1> USE DEF others, world, stops
<1>1. CASE FindsDone(e, p)     BY <1>1 DEF FindsDone
<1>2. CASE FindsRunning(e, p)  BY <1>2 DEF FindsRunning
<1>3. CASE Marks(e, p)         BY <1>3 DEF Marks
<1>4. CASE Terms(e, p)         BY <1>4 DEF Terms
<1>5. CASE GraceEnds(e, p)     BY <1>5 DEF GraceEnds
<1>6. CASE TakesOnce(e, p)     BY <1>6 DEF TakesOnce
<1>7. CASE FarGraceEnds(e, p)  BY <1>7 DEF FarGraceEnds
<1>8. CASE ExecEnds(e, p)      BY <1>8 DEF ExecEnds
<1>9. CASE Kills(e, p)         BY <1>9 DEF Kills
<1>10. CASE StopReturns(e, p)  BY <1>10 DEF StopReturns
<1> QED
  BY <1>1, <1>2, <1>3, <1>4, <1>5, <1>6, <1>7, <1>8, <1>9, <1>10 DEF Stops

\* A stop moves one party at one process: what it reads of the process tells
\* whether it may be over.
LEMMA StopsMove ==
  ASSUME NEW e \in Ender, NEW p \in Proc, Stops(e, p),
         at \in [Ender -> [Proc -> Places]]
  PROVE  /\ at' \in [Ender -> [Proc -> Places]]
         /\ at[e][p] \notin {"no", "over"} /\ at'[e][p] # "no"
         /\ at'[e][p] = "over" => Done(p)
         /\ \A f \in Ender, q \in Proc : <<f, q>> # <<e, p>> => at'[f][q] = at[f][q]
<1> USE DEF Moves, Places
<1>1. CASE FindsDone(e, p)     BY <1>1 DEF FindsDone
<1>2. CASE FindsRunning(e, p)  BY <1>2 DEF FindsRunning
<1>3. CASE Marks(e, p)         BY <1>3 DEF Marks
<1>4. CASE Terms(e, p)         BY <1>4 DEF Terms
<1>5. CASE GraceEnds(e, p)     BY <1>5 DEF GraceEnds
<1>6. CASE TakesOnce(e, p)     BY <1>6 DEF TakesOnce
<1>7. CASE FarGraceEnds(e, p)  BY <1>7 DEF FarGraceEnds
<1>8. CASE ExecEnds(e, p)      BY <1>8 DEF ExecEnds
<1>9. CASE Kills(e, p)         BY <1>9 DEF Kills
<1>10. CASE StopReturns(e, p)  BY <1>10 DEF StopReturns
<1> QED
  BY <1>1, <1>2, <1>3, <1>4, <1>5, <1>6, <1>7, <1>8, <1>9, <1>10 DEF Stops

-----------------------------------------------------------------------------
\* What New builds has its types.
LEMMA InitTypeOK == Init => TypeOK
<1> SUFFICES ASSUME Init PROVE TypeOK
  OBVIOUS
<1>1. {kept, log, evidence} \subseteq [Proc -> Seq(1..MaxChunks)]
  <2>1. <<>> \in Seq(1..MaxChunks)
    OBVIOUS
  <2> QED  BY <2>1 DEF Init
<1>2. \A p \in Proc : once[p] \notin Ender
  BY CloserAssumption DEF Init, Ender
<1>3. once \in [Proc -> {"free", "ran"} \cup Ender]
  BY DEF Init
<1>4. at \in [Ender -> [Proc -> Places]]
  BY DEF Init, Places
<1>5. printed \in [Proc -> 0..MaxChunks]
  BY CapAssumption DEF Init
<1>6. /\ table \in [Name -> Proc \cup {NoProc}]
      /\ reaper \in [Proc -> {"none", "waiting", "waited", "stored", "done"}]
      /\ os \in [Proc -> {"none", "alive", "dead", "reaped", "told"}]
      /\ capture \in [Proc -> {"none", "spawned", "running", "offered", "declined",
                               "adopted", "released", "handed", "over"}]
  BY DEF Init
<1>7. \A p \in Proc : at[Closer][p] = "no"
  BY DEF Init, Ender
<1> QED  BY <1>1, <1>2, <1>3, <1>4, <1>5, <1>6, <1>7 DEF TypeOK, Init

\* The part of the type invariant that is about stopOnce.
OnceHeld ==
  \A p \in Proc : once[p] \in Ender => at[once[p]][p] \in {"hangUp", "exec", "toKill"}

\* sync.Once: the one who ran it leaves it run, and at no other process.
LEMMA OnceGivenBack ==
  ASSUME NEW e \in Ender, NEW p \in Proc, GivesOnceBack(e, p),
         once \in [Proc -> {"free", "ran"} \cup Ender]
  PROVE  /\ once' \in [Proc -> {"free", "ran"} \cup Ender]
         /\ \A q \in Proc \ {p} : once'[q] = once[q]
BY DEF GivesOnceBack

\* Each step of a stop keeps the types, and stopOnce with whoever is inside it.
LEMMA StopsTypeOK ==
  ASSUME TypeOK, NEW e \in Ender, NEW p \in Proc, Stops(e, p)
  PROVE  TypeOK'
<1> USE DEF TypeOK
<1>1. UNCHANGED <<others, os, printed>>
  BY StopsLeave
<1>2. at' \in [Ender -> [Proc -> Places]]
  BY StopsMove
<1>3. \A f \in Ender, q \in Proc : <<f, q>> # <<e, p>> => at'[f][q] = at[f][q]
  BY StopsMove
<1>4. /\ killed' \subseteq Proc /\ stopped' \subseteq Proc
      /\ once' \in [Proc -> {"free", "ran"} \cup Ender]
      /\ \A q \in Proc \ {p} : once'[q] = once[q]
  <2> USE OnceGivenBack DEF world
  <2>1. CASE FindsDone(e, p)     BY <2>1 DEF FindsDone
  <2>2. CASE FindsRunning(e, p)  BY <2>2 DEF FindsRunning
  <2>3. CASE Marks(e, p)         BY <2>3 DEF Marks
  <2>4. CASE Terms(e, p)         BY <2>4 DEF Terms
  <2>5. CASE GraceEnds(e, p)     BY <2>5 DEF GraceEnds
  <2>6. CASE TakesOnce(e, p)     BY <2>6 DEF TakesOnce
  <2>7. CASE FarGraceEnds(e, p)  BY <2>7 DEF FarGraceEnds
  <2>8. CASE ExecEnds(e, p)      BY <2>8 DEF ExecEnds
  <2>9. CASE Kills(e, p)         BY <2>9 DEF Kills
  <2>10. CASE StopReturns(e, p)  BY <2>10 DEF StopReturns
  <2> QED
    BY <2>1, <2>2, <2>3, <2>4, <2>5, <2>6, <2>7, <2>8, <2>9, <2>10 DEF Stops
<1>5. once'[p] \in Ender => at'[once'[p]][p] \in {"hangUp", "exec", "toKill"}
  <2> USE CloserAssumption, <1>3 DEF GivesOnceBack, world, Moves, Ender
  <2>1. CASE FindsDone(e, p)     BY <2>1 DEF FindsDone
  <2>2. CASE FindsRunning(e, p)  BY <2>2, ZenonT(40) DEF FindsRunning
  <2>3. CASE Marks(e, p)         BY <2>3, ZenonT(40) DEF Marks
  <2>4. CASE Terms(e, p)         BY <2>4 DEF Terms
  <2>5. CASE GraceEnds(e, p)     BY <2>5 DEF GraceEnds
  <2>6. CASE TakesOnce(e, p)     BY <2>6 DEF TakesOnce
  <2>7. CASE FarGraceEnds(e, p)  BY <2>7 DEF FarGraceEnds
  <2>8. CASE ExecEnds(e, p)      BY <2>8 DEF ExecEnds
  <2>9. CASE Kills(e, p)         BY <2>9 DEF Kills
  <2>10. CASE StopReturns(e, p)  BY <2>10 DEF StopReturns
  <2> QED
    BY <2>1, <2>2, <2>3, <2>4, <2>5, <2>6, <2>7, <2>8, <2>9, <2>10 DEF Stops
<1>6. OnceHeld'
  <2> SUFFICES ASSUME NEW q \in Proc, once'[q] \in Ender
               PROVE  at'[once'[q]][q] \in {"hangUp", "exec", "toKill"}
    BY DEF OnceHeld
  <2>1. CASE q = p  BY <1>5, <2>1
  <2>2. CASE q # p
    <3>1. once'[q] = once[q]
      BY <1>4, <2>2
    <3>2. at'[once[q]][q] = at[once[q]][q]
      BY <1>3, <2>2, <3>1
    <3> QED  BY <3>1, <3>2
  <2> QED  BY <2>1, <2>2
<1>7. closing' = "no" => \A q \in Proc : at'[Closer][q] = "no"
  <2>1. closing' = closing /\ Closer \in Ender
    BY <1>1 DEF others, Ender
  <2>2. closing = "no" => e # Closer
    BY StopsMove
  <2> QED  BY <1>3, <2>1, <2>2
<1> QED  BY <1>1, <1>2, <1>4, <1>6, <1>7 DEF others, runner, OnceHeld

\* Every step keeps the types: one step of the proof for each action.
LEMMA StepTypeOK == TypeOK /\ [Next]_vars => TypeOK'
<1> SUFFICES ASSUME TypeOK, [Next]_vars PROVE TypeOK'
  OBVIOUS
<1> USE DEF TypeOK, world, runner, stops
<1>1. ASSUME NEW p \in Proc, Exits(p) PROVE TypeOK'
  BY <1>1 DEF Exits
<1>2. ASSUME NEW p \in Proc, Prints(p) PROVE TypeOK'
  <2>1. printed'[p] \in 1..MaxChunks /\ printed' \in [Proc -> 0..MaxChunks]
    BY <1>2, CapAssumption DEF Prints
  <2>2. {kept, log, evidence}' \subseteq [Proc -> Seq(1..MaxChunks)]
    <3>1. /\ Append(log[p], printed'[p]) \in Seq(1..MaxChunks)
          /\ Append(kept[p], printed'[p]) \in Seq(1..MaxChunks)
      BY <2>1
    <3>2. \/ log' = [log EXCEPT ![p] = Append(@, printed'[p])] /\ kept' = kept
          \/ kept' = [kept EXCEPT ![p] = Append(@, printed'[p])] /\ log' = log
      BY <1>2 DEF Prints
    <3>3. log' \in [Proc -> Seq(1..MaxChunks)]
      BY <3>1, <3>2
    <3>5. kept' \in [Proc -> Seq(1..MaxChunks)]
      BY <3>1, <3>2, ZenonT(40)
    <3>4. evidence' \in [Proc -> Seq(1..MaxChunks)]
      BY <1>2 DEF Prints
    <3> QED  BY <3>3, <3>4, <3>5
  <2> QED  BY <1>2, <2>1, <2>2 DEF Prints
<1>3. ASSUME NEW p \in Proc, NEW n \in Name, Start(p, n) PROVE TypeOK'
  <2>1. CASE table' = [table EXCEPT ![n] = NoProc]
    BY <1>3, <2>1 DEF Start
  <2>2. CASE /\ table' = [table EXCEPT ![n] = p]
             /\ os' = [os EXCEPT ![p] = "alive"]
             /\ reaper' = [reaper EXCEPT ![p] = "waiting"]
    BY <1>3, <2>2 DEF Start
  <2> QED  BY <1>3, <2>1, <2>2 DEF Start
<1>4. ASSUME NEW p \in Proc, Captures(p) PROVE TypeOK'
  BY <1>4 DEF Captures
<1>5. ASSUME NEW p \in Proc, CaptureWaits(p) PROVE TypeOK'
  BY <1>5 DEF CaptureWaits
<1>6. ASSUME NEW p \in Proc, CaptureStops(p) PROVE TypeOK'
  BY <1>6 DEF CaptureStops
<1>7. ASSUME NEW p \in Proc, Ceiling(p) PROVE TypeOK'
  <2>1. CASE kept[p] # <<>>  BY <1>7, <2>1 DEF Ceiling
  <2>2. CASE kept[p] = <<>>
    <3>1. /\ capture' = [capture EXCEPT ![p] = "declined"]
          /\ killed' = killed \cup {p}
          /\ UNCHANGED <<os, printed, live, kept, table, closed, reaper, log,
                         evidence, stops, closing>>
      BY <1>7, <2>2 DEF Ceiling
    <3>2. killed' \subseteq Proc
      BY <3>1
    <3> QED  BY <3>1, <3>2
  <2> QED  BY <2>1, <2>2
<1>8. ASSUME NEW p \in Proc, CallMoves(p) PROVE TypeOK'
  <2>1. CASE Joins(p)           BY <2>1 DEF Joins
  <2>2. CASE CaptureReturns(p)  BY <2>2 DEF CaptureReturns
  <2>3. CASE Adopts(p)          BY <2>3 DEF Adopts
  <2>4. CASE AdoptRefused(p)    BY <2>4 DEF AdoptRefused
  <2>5. CASE LetsGo(p)          BY <2>5 DEF LetsGo
  <2>6. CASE HandsOff(p)
    <3>1. log[p] \o kept[p] \in Seq(1..MaxChunks)
      OBVIOUS
    <3> QED  BY <2>6, <3>1 DEF HandsOff
  <2> QED  BY <1>8, <2>1, <2>2, <2>3, <2>4, <2>5, <2>6 DEF CallMoves
<1>9. ASSUME NEW p \in Proc, Reaps(p) PROVE TypeOK'
  <2>1. CASE ReaperWaits(p)   BY <2>1 DEF ReaperWaits
  <2>2. CASE ReaperStores(p)  BY <2>2 DEF ReaperStores
  <2>3. CASE ReaperEnds(p)    BY <2>3 DEF ReaperEnds
  <2> QED  BY <1>9, <2>1, <2>2, <2>3 DEF Reaps
<1>10. ASSUME NEW r \in Request, NEW n \in Name, Asks(r, n) PROVE TypeOK'
  <2>1. PICK kind \in {"stop", "kill"} : at' = [at EXCEPT ![r][table[n]] = kind]
    BY <1>10 DEF Asks
  <2>2. r \in Ender /\ table[n] \in Proc
    BY <1>10 DEF Asks, Ender
  <2>3. at' \in [Ender -> [Proc -> Places]]
    BY <2>1, <2>2 DEF Places
  <2>4. OnceHeld'
    BY <1>10, <2>1, <2>2 DEF Asks, OnceHeld
  <2>5. closing' = "no" => \A p \in Proc : at'[Closer][p] = "no"
    BY <1>10, <2>1, <2>2, CloserAssumption DEF Asks, others, Ender
  <2> QED  BY <1>10, <2>3, <2>4, <2>5 DEF Asks, others, OnceHeld
<1>11. ASSUME Closes PROVE TypeOK'
  <2>1. at' \in [Ender -> [Proc -> Places]]
    BY <1>11 DEF Closes, Places
  <2>2. OnceHeld'
    BY <1>11 DEF Closes, OnceHeld
  <2> QED  BY <1>11, <2>1, <2>2 DEF Closes, OnceHeld
<1>12. ASSUME NEW e \in Ender, NEW p \in Proc, Stops(e, p) PROVE TypeOK'
  BY <1>12, StopsTypeOK
<1>13. ASSUME CloseReturns PROVE TypeOK'
  BY <1>13 DEF CloseReturns
<1>14. CASE UNCHANGED vars
  BY <1>14 DEF vars
<1> QED
  BY <1>1, <1>2, <1>3, <1>4, <1>5, <1>6, <1>7, <1>8, <1>9, <1>10, <1>11, <1>12,
     <1>13, <1>14 DEF Next

\* The type invariant, the holder of every stopOnce included.
THEOREM TypeCorrect == Spec => []TypeOK
BY InitTypeOK, StepTypeOK, PTL DEF Spec

-----------------------------------------------------------------------------
\* No process has a stage before it is run, and the table is empty.
LEMMA InitLifecycle == Init => Lifecycle
<1> SUFFICES ASSUME Init PROVE Lifecycle
  OBVIOUS
<1>1. Stages
  BY DEF Init, Stages, Stage
<1>2. Entries = {} /\ Owned = {}
  BY DEF Init, Entries, Owned
<1>3. Tabled
  BY <1>2, CapAssumption, FS_EmptySet DEF Init, Tabled, NobodyForgotten
<1> QED  BY <1>1, <1>3 DEF Lifecycle

\* No step of a call, a reaper or a stop leaves a process between two stages.
LEMMA StepStages == TypeOK /\ Lifecycle /\ [Next]_vars => Stages'
<1> SUFFICES ASSUME TypeOK, Lifecycle, [Next]_vars PROVE Stages'
  OBVIOUS
<1>0. /\ os \in [Proc -> {"none", "alive", "dead", "reaped", "told"}]
      /\ capture \in [Proc -> {"none", "spawned", "running", "offered", "declined",
                               "adopted", "released", "handed", "over"}]
      /\ reaper \in [Proc -> {"none", "waiting", "waited", "stored", "done"}]
      /\ \A p \in Proc : Stage(p)
  BY DEF TypeOK, Lifecycle, Stages
<1> USE <1>0 DEF Stages, Stage, world, runner, stops
<1>1. ASSUME NEW p \in Proc, Exits(p) PROVE Stages'
  BY <1>1 DEF Exits
<1>2. ASSUME NEW p \in Proc, Prints(p) PROVE Stages'
  BY <1>2 DEF Prints
<1>3. ASSUME NEW p \in Proc, NEW n \in Name, Start(p, n) PROVE Stages'
  BY <1>3 DEF Start
<1>4. ASSUME NEW p \in Proc, Captures(p) PROVE Stages'
  BY <1>4 DEF Captures
<1>5. ASSUME NEW p \in Proc, CaptureWaits(p) PROVE Stages'
  BY <1>5 DEF CaptureWaits
<1>6. ASSUME NEW p \in Proc, CaptureStops(p) PROVE Stages'
  BY <1>6 DEF CaptureStops
<1>7. ASSUME NEW p \in Proc, Ceiling(p) PROVE Stages'
  BY <1>7 DEF Ceiling
<1>8. ASSUME NEW p \in Proc, CallMoves(p) PROVE Stages'
  <2>1. CASE Joins(p)           BY <2>1 DEF Joins
  <2>2. CASE CaptureReturns(p)  BY <2>2 DEF CaptureReturns
  <2>3. CASE Adopts(p)          BY <2>3 DEF Adopts
  <2>4. CASE AdoptRefused(p)    BY <2>4 DEF AdoptRefused
  <2>5. CASE LetsGo(p)          BY <2>5 DEF LetsGo
  <2>6. CASE HandsOff(p)        BY <2>6 DEF HandsOff
  <2> QED  BY <1>8, <2>1, <2>2, <2>3, <2>4, <2>5, <2>6 DEF CallMoves
<1>9. ASSUME NEW p \in Proc, Reaps(p) PROVE Stages'
  <2>1. CASE ReaperWaits(p)   BY <2>1 DEF ReaperWaits
  <2>2. CASE ReaperStores(p)  BY <2>2 DEF ReaperStores
  <2>3. CASE ReaperEnds(p)    BY <2>3 DEF ReaperEnds
  <2> QED  BY <1>9, <2>1, <2>2, <2>3 DEF Reaps
<1>10. ASSUME NEW r \in Request, NEW n \in Name, Asks(r, n) PROVE Stages'
  BY <1>10 DEF Asks, others
<1>11. ASSUME Closes PROVE Stages'
  BY <1>11 DEF Closes
<1>12. ASSUME NEW e \in Ender, NEW p \in Proc, Stops(e, p) PROVE Stages'
  BY <1>12, StopsLeave DEF others
<1>13. ASSUME CloseReturns PROVE Stages'
  BY <1>13 DEF CloseReturns
<1>14. CASE UNCHANGED vars
  BY <1>14 DEF vars
<1> QED
  BY <1>1, <1>2, <1>3, <1>4, <1>5, <1>6, <1>7, <1>8, <1>9, <1>10, <1>11, <1>12,
     <1>13, <1>14 DEF Next

\* A new entry under a name nobody at work has keeps the table's part.
LEMMA Enters ==
  ASSUME TypeOK, Lifecycle, NEW p \in Proc, NEW n \in Name,
         reaper[p] = "none", Startable(n), Cardinality(Entries \ {n}) < MaxProcesses,
         table' = [table EXCEPT ![n] = p],
         reaper' = [reaper EXCEPT ![p] = "waiting"]
  PROVE  Tabled'
<1>1. /\ table \in [Name -> Proc \cup {NoProc}] /\ p # NoProc
      /\ reaper \in [Proc -> {"none", "waiting", "waited", "stored", "done"}]
  BY CloserAssumption DEF TypeOK
<1>2. /\ \A q \in Proc : reaper[q] \notin {"none", "done"} => q \in Owned
      /\ \A q \in Owned : reaper[q] # "none"
      /\ \A l, m \in Entries : l # m => table[l] # table[m]
  BY DEF Lifecycle, Tabled, NobodyForgotten
<1>3. Entries' = (Entries \ {n}) \cup {n}
  BY <1>1 DEF Entries
<1>4. Cardinality(Entries') <= MaxProcesses
  <2>1. IsFiniteSet(Entries \ {n}) /\ Cardinality(Entries \ {n}) \in Nat
    BY CapAssumption, FS_Subset, FS_CardinalityType DEF Entries
  <2>2. Cardinality(Entries') = Cardinality(Entries \ {n}) + 1
    BY <1>3, <2>1, FS_AddElement
  <2> QED  BY <2>1, <2>2, CapAssumption
<1>5. \A m \in Entries \ {n} : table'[m] = table[m] /\ table[m] # p
  BY <1>1, <1>2 DEF Entries, Owned
<1>6. \A l, m \in Entries' : l # m => table'[l] # table'[m]
  BY <1>1, <1>2, <1>3, <1>5
<1>7. p \in Owned' /\ reaper'[p] = "waiting"
  BY <1>1, <1>3 DEF Owned
<1>8. ASSUME NEW q \in Proc, reaper'[q] \notin {"none", "done"} PROVE q \in Owned'
  <2>1. CASE q = p  BY <1>7, <2>1
  <2>2. CASE q # p
    <3>1. reaper[q] \notin {"none", "done"}
      BY <1>1, <1>8, <2>2
    <3>2. PICK m \in Entries : table[m] = q
      BY <1>2, <3>1 DEF Owned
    <3>3. m # n
      BY <3>1, <3>2 DEF Startable, Done
    <3> QED  BY <1>3, <1>5, <3>2, <3>3 DEF Owned
  <2> QED  BY <2>1, <2>2
<1>9. ASSUME NEW q \in Owned' PROVE reaper'[q] # "none"
  <2>1. PICK m \in Entries' : table'[m] = q
    BY DEF Owned
  <2>2. CASE m = n
    BY <1>1, <1>7, <2>1, <2>2
  <2>3. CASE m # n
    <3>1. m \in Entries /\ table[m] = q /\ q # p /\ q \in Owned
      BY <1>3, <1>5, <2>1, <2>3 DEF Owned
    <3> QED  BY <1>1, <1>2, <3>1
  <2> QED  BY <2>2, <2>3
<1> QED  BY <1>4, <1>6, <1>8, <1>9 DEF Tabled, NobodyForgotten

\* A start whose spawn fails takes nothing but an entry that is done.
LEMMA Drops ==
  ASSUME TypeOK, Lifecycle, NEW n \in Name, Startable(n),
         table' = [table EXCEPT ![n] = NoProc], reaper' = reaper
  PROVE  Tabled'
<1>1. table \in [Name -> Proc \cup {NoProc}]
  BY DEF TypeOK
<1>2. Entries' = Entries \ {n} /\ \A m \in Entries' : table'[m] = table[m]
  BY <1>1 DEF Entries
<1>3. /\ \A q \in Proc : reaper[q] \notin {"none", "done"} => q \in Owned
      /\ \A q \in Owned : reaper[q] # "none"
      /\ \A l, m \in Entries : l # m => table[l] # table[m]
      /\ Cardinality(Entries) <= MaxProcesses
  BY DEF Lifecycle, Tabled, NobodyForgotten
<1>4. Cardinality(Entries') <= MaxProcesses
  <2>1. IsFiniteSet(Entries) /\ Entries' \in SUBSET Entries
    BY <1>2, CapAssumption, FS_Subset DEF Entries
  <2>2. /\ Cardinality(Entries') <= Cardinality(Entries)
        /\ Cardinality(Entries') \in Nat /\ Cardinality(Entries) \in Nat
    BY <2>1, FS_Subset, FS_CardinalityType
  <2> QED  BY <1>3, <2>2, CapAssumption
<1>5. ASSUME NEW q \in Proc, reaper[q] \notin {"none", "done"} PROVE q \in Owned'
  <2>1. PICK m \in Entries : table[m] = q
    BY <1>3, <1>5 DEF Owned
  <2>2. m # n
    BY <1>5, <2>1 DEF Startable, Done
  <2> QED  BY <1>2, <2>1, <2>2 DEF Owned
<1>6. \A q \in Owned' : q \in Owned
  BY <1>2 DEF Owned
<1> QED  BY <1>2, <1>3, <1>4, <1>5, <1>6 DEF Tabled, NobodyForgotten

\* A reaper that goes on, to the end even, changes nothing in the table.
LEMMA ReapsTabled ==
  ASSUME TypeOK, Lifecycle, NEW p \in Proc, table' = table,
         reaper[p] \in {"waiting", "waited", "stored"},
         NEW to \in {"waited", "stored", "done"}, reaper' = [reaper EXCEPT ![p] = to]
  PROVE  Tabled'
<1>1. Entries' = Entries /\ Owned' = Owned
  BY DEF Entries, Owned
<1>2. reaper \in [Proc -> {"none", "waiting", "waited", "stored", "done"}]
  BY DEF TypeOK
<1> QED  BY <1>1, <1>2 DEF Lifecycle, Tabled, NobodyForgotten

\* The table is written by a start and an adoption alone, a reaper by its own
\* process: neither loses a process at work.
LEMMA StepTabled == TypeOK /\ Lifecycle /\ [Next]_vars => Tabled'
<1> SUFFICES ASSUME TypeOK, Lifecycle, [Next]_vars PROVE Tabled'
  OBVIOUS
<1> DEFINE Still == UNCHANGED <<table, reaper>>
<1>0. Still => Tabled'
  BY DEF Lifecycle, Tabled, NobodyForgotten, Owned, Entries
<1> USE DEF world, runner, stops
<1>1. ASSUME NEW p \in Proc, NEW n \in Name, Start(p, n) PROVE Tabled'
  <2>1. reaper[p] = "none" /\ Startable(n) /\ Cardinality(Entries \ {n}) < MaxProcesses
    BY <1>1 DEF Start, Lifecycle, Stages, Stage
  <2>2. CASE table' = [table EXCEPT ![n] = NoProc] /\ reaper' = reaper
    BY <2>1, <2>2, Drops
  <2>3. CASE /\ table' = [table EXCEPT ![n] = p]
             /\ reaper' = [reaper EXCEPT ![p] = "waiting"]
    BY <2>1, <2>3, Enters
  <2> QED  BY <1>1, <2>2, <2>3 DEF Start
<1>2. ASSUME NEW p \in Proc, CallMoves(p) PROVE Tabled'
  <2>1. CASE Adopts(p)
    <3>1. PICK n \in Name \ Entries : table' = [table EXCEPT ![n] = p]
      BY <2>1 DEF Adopts
    <3>2. Startable(n) /\ Entries \ {n} = Entries
      BY <3>1 DEF Startable
    <3>3. reaper[p] = "none" /\ Cardinality(Entries) < MaxProcesses
      BY <2>1 DEF Adopts, Lifecycle, Stages, Stage
    <3>4. reaper' = [reaper EXCEPT ![p] = "waiting"]
      BY <2>1 DEF Adopts
    <3> QED  BY <3>1, <3>2, <3>3, <3>4, Enters
  <2>2. CASE Joins(p)           BY <2>2, <1>0 DEF Joins
  <2>3. CASE CaptureReturns(p)  BY <2>3, <1>0 DEF CaptureReturns
  <2>4. CASE AdoptRefused(p)    BY <2>4, <1>0 DEF AdoptRefused
  <2>5. CASE LetsGo(p)          BY <2>5, <1>0 DEF LetsGo
  <2>6. CASE HandsOff(p)        BY <2>6, <1>0 DEF HandsOff
  <2> QED  BY <1>2, <2>1, <2>2, <2>3, <2>4, <2>5, <2>6 DEF CallMoves
<1>3. ASSUME NEW p \in Proc, Reaps(p) PROVE Tabled'
  <2>1. CASE ReaperWaits(p)   BY <2>1, ReapsTabled DEF ReaperWaits
  <2>2. CASE ReaperStores(p)  BY <2>2, ReapsTabled DEF ReaperStores
  <2>3. CASE ReaperEnds(p)    BY <2>3, ReapsTabled DEF ReaperEnds
  <2> QED  BY <1>3, <2>1, <2>2, <2>3 DEF Reaps
<1>4. ASSUME NEW p \in Proc,
             \/ Exits(p) \/ Prints(p) \/ Captures(p) \/ CaptureWaits(p)
             \/ CaptureStops(p) \/ Ceiling(p)
      PROVE  Still
  BY <1>4 DEF Exits, Prints, Captures, CaptureWaits, CaptureStops, Ceiling
<1>5. ASSUME NEW r \in Request, NEW n \in Name, Asks(r, n) PROVE Still
  BY <1>5 DEF Asks, others
<1>6. ASSUME NEW e \in Ender, NEW p \in Proc, Stops(e, p) PROVE Still
  BY <1>6, StopsLeave DEF others
<1>7. ASSUME Closes \/ CloseReturns \/ UNCHANGED vars PROVE Still
  BY <1>7 DEF Closes, CloseReturns, vars
<1> QED
  BY <1>0, <1>1, <1>2, <1>3, <1>4, <1>5, <1>6, <1>7 DEF Next

\* Every process at work has its entry, under one name, within the cap.
THEOREM EveryProcessNamed == Spec => []NobodyForgotten
<1>1. Lifecycle => NobodyForgotten
  BY DEF Lifecycle, Tabled
<1>2. TypeOK /\ Lifecycle /\ [Next]_vars => Lifecycle'
  BY StepStages, StepTabled DEF Lifecycle
<1> QED
  BY InitLifecycle, TypeCorrect, <1>1, <1>2, PTL DEF Spec

\* A command that runs has somebody who will end it, at every step of a
\* hand-over.
THEOREM NoCommandUnheld == Spec => []SomebodyHoldsIt
<1>1. TypeOK /\ Lifecycle => SomebodyHoldsIt
  <2> SUFFICES ASSUME TypeOK, Lifecycle, NEW p \in Proc,
                      os[p] = "alive", capture[p] # "spawned"
               PROVE  p \in live \/ (p \in Owned /\ ~Done(p))
    BY DEF SomebodyHoldsIt
  <2>1. Stage(p) /\ (reaper[p] \notin {"none", "done"} => p \in Owned)
    BY DEF Lifecycle, Stages, Tabled, NobodyForgotten
  <2>2. CASE capture[p] \in {"running", "offered", "declined", "adopted"}
    BY <2>1, <2>2 DEF Stage
  <2>3. CASE capture[p] \in {"none", "released", "handed"}
    BY <2>1, <2>3 DEF Stage, Done
  <2>4. capture[p] # "over"
    BY <2>1 DEF Stage
  <2> QED  BY <2>2, <2>3, <2>4 DEF TypeOK
<1>2. TypeOK /\ Lifecycle /\ [Next]_vars => Lifecycle'
  BY StepStages, StepTabled DEF Lifecycle
<1> QED
  BY InitLifecycle, TypeCorrect, <1>1, <1>2, PTL DEF Spec

-----------------------------------------------------------------------------
\* A step of a command, its call or its reaper.
ProcStep(p) ==
  \/ Exits(p) \/ Prints(p) \/ (\E n \in Name : Start(p, n))
  \/ Captures(p) \/ CaptureWaits(p) \/ CaptureStops(p) \/ Ceiling(p)
  \/ CallMoves(p) \/ Reaps(p)

\* It is no step of a stop, a process that was done stays so, and after the
\* session's end the table is as it was.
LEMMA ProcStepLeaves ==
  ASSUME TypeOK, Lifecycle, NEW p \in Proc, ProcStep(p)
  PROVE  /\ UNCHANGED <<closed, closing, at>>
         /\ \A q \in Proc : Done(q) => Done(q)'
         /\ closed => table' = table
<1>0. reaper \in [Proc -> {"none", "waiting", "waited", "stored", "done"}] /\ Stage(p)
  BY DEF TypeOK, Lifecycle, Stages
<1> USE <1>0 DEF world, runner, stops, Done
<1>1. CASE Exits(p)         BY <1>1 DEF Exits
<1>2. CASE Prints(p)        BY <1>2 DEF Prints
<1>3. CASE \E n \in Name : Start(p, n)
  BY <1>3 DEF Start, Stage
<1>4. CASE Captures(p)      BY <1>4 DEF Captures
<1>5. CASE CaptureWaits(p)  BY <1>5 DEF CaptureWaits
<1>6. CASE CaptureStops(p)  BY <1>6 DEF CaptureStops
<1>7. CASE Ceiling(p)       BY <1>7 DEF Ceiling
<1>8. CASE CallMoves(p)
  <2>1. CASE Joins(p)           BY <2>1 DEF Joins
  <2>2. CASE CaptureReturns(p)  BY <2>2 DEF CaptureReturns
  <2>3. CASE Adopts(p)          BY <2>3 DEF Adopts, Stage
  <2>4. CASE AdoptRefused(p)    BY <2>4 DEF AdoptRefused
  <2>5. CASE LetsGo(p)          BY <2>5 DEF LetsGo
  <2>6. CASE HandsOff(p)        BY <2>6 DEF HandsOff
  <2> QED  BY <1>8, <2>1, <2>2, <2>3, <2>4, <2>5, <2>6 DEF CallMoves
<1>9. CASE Reaps(p)
  <2>1. CASE ReaperWaits(p)   BY <2>1 DEF ReaperWaits
  <2>2. CASE ReaperStores(p)  BY <2>2 DEF ReaperStores
  <2>3. CASE ReaperEnds(p)    BY <2>3 DEF ReaperEnds
  <2> QED  BY <1>9, <2>1, <2>2, <2>3 DEF Reaps
<1> QED
  BY <1>1, <1>2, <1>3, <1>4, <1>5, <1>6, <1>7, <1>8, <1>9 DEF ProcStep

\* Close has taken every entry, nothing enters after it, and it waits for each
\* until its reaper is done.
LEMMA StepEnding == TypeOK /\ Lifecycle /\ Ending /\ [Next]_vars => Ending'
<1> SUFFICES ASSUME TypeOK, Lifecycle, Ending, [Next]_vars PROVE Ending'
  OBVIOUS
<1>0. /\ at \in [Ender -> [Proc -> Places]] /\ table \in [Name -> Proc \cup {NoProc}]
      /\ closing \in {"no", "waiting", "returned"} /\ Closer \in Ender
  BY DEF TypeOK, Ender
<1>1. ASSUME NEW p \in Proc, ProcStep(p) PROVE Ending'
  <2>1. /\ UNCHANGED <<closed, closing, at>>
        /\ \A q \in Proc : Done(q) => Done(q)'
        /\ closed => table' = table
    BY <1>1, ProcStepLeaves
  <2>2. closed => Owned' = Owned /\ Owned \subseteq Proc
    BY <1>0, <2>1 DEF Owned, Entries
  <2> QED  BY <2>1, <2>2 DEF Ending
<1>2. ASSUME NEW r \in Request, NEW n \in Name, Asks(r, n) PROVE Ending'
  <2>1. UNCHANGED <<table, closed, closing, reaper>> /\ Owned' = Owned
    BY <1>2 DEF Asks, others, Owned, Entries
  <2>2. PICK kind \in {"stop", "kill"} : at' = [at EXCEPT ![r][table[n]] = kind]
    BY <1>2 DEF Asks
  <2>3. r # Closer /\ r \in Ender /\ table[n] \in Proc
    BY <1>0, <1>2, CloserAssumption DEF Asks, Ender
  <2>4. /\ \A p \in Proc : at'[Closer][p] = at[Closer][p]
        /\ \A e \in Ender, p \in Proc : at'[e][p] = "over" => at[e][p] = "over"
    BY <1>0, <2>2, <2>3
  <2>5. Owned \subseteq Proc
    BY <1>0 DEF Owned, Entries
  <2> QED  BY <2>1, <2>4, <2>5 DEF Ending, Done
<1>3. ASSUME Closes PROVE Ending'
  <2>1. /\ closed' = TRUE /\ closing' = "waiting" /\ closing = "no"
        /\ UNCHANGED <<table, reaper>> /\ Owned' = Owned
        /\ \A p \in Proc : at'[Closer][p] = IF p \in Owned THEN "stop" ELSE "no"
        /\ \A e \in Ender \ {Closer} : at'[e] = at[e]
    BY <1>0, <1>3 DEF Closes, Owned, Entries
  <2>2. Owned \subseteq Proc
    BY <1>0 DEF Owned, Entries
  <2> QED  BY <2>1, <2>2 DEF Ending, Done
<1>4. ASSUME NEW e \in Ender, NEW p \in Proc, Stops(e, p) PROVE Ending'
  <2>1. UNCHANGED <<table, closed, closing, reaper>> /\ Owned' = Owned
    BY <1>4, StopsLeave DEF others, Owned, Entries
  <2>2. /\ at[e][p] \notin {"no", "over"} /\ at'[e][p] # "no"
        /\ at'[e][p] = "over" => Done(p)
        /\ \A f \in Ender, q \in Proc : <<f, q>> # <<e, p>> => at'[f][q] = at[f][q]
    BY <1>0, <1>4, StopsMove
  <2>3. Owned \subseteq Proc
    BY <1>0 DEF Owned, Entries
  <2>4. closing # "no" => \A q \in Owned : Done(q) \/ at'[Closer][q] # "no"
    BY <1>0, <2>2, <2>3 DEF Ending
  <2>5. closing = "returned" => \A q \in Proc : at'[Closer][q] \in {"no", "over"}
    BY <1>0, <2>2 DEF Ending
  <2>6. \A f \in Ender, q \in Proc : at'[f][q] = "over" => Done(q)
    BY <2>2 DEF Ending
  <2> QED  BY <2>1, <2>4, <2>5, <2>6 DEF Ending, Done
<1>5. ASSUME CloseReturns PROVE Ending'
  BY <1>5 DEF CloseReturns, Ending, world, runner, stops, Owned, Entries, Done
<1>6. CASE UNCHANGED vars
  BY <1>6 DEF vars, Ending, world, runner, stops, Owned, Entries, Done
<1> QED  BY <1>1, <1>2, <1>3, <1>4, <1>5, <1>6 DEF Next, ProcStep

\* Nothing of the session's is left when Close returns, nor starts after.
THEOREM SessionEndsClean == Spec => []CloseLeavesNothing
<1>1. Init => Ending
  BY DEF Init, Ending
<1>2. TypeOK /\ Ending => CloseLeavesNothing
  <2> SUFFICES ASSUME TypeOK, Ending, closing = "returned", NEW p \in Owned
               PROVE  Done(p)
    BY DEF CloseLeavesNothing
  <2>1. p \in Proc /\ Closer \in Ender
    BY DEF TypeOK, Owned, Entries, Ender
  <2> QED  BY <2>1 DEF Ending
<1>3. TypeOK /\ Lifecycle /\ [Next]_vars => Lifecycle'
  BY StepStages, StepTabled DEF Lifecycle
<1> QED
  BY InitLifecycle, StepEnding, TypeCorrect, <1>1, <1>2, <1>3, PTL DEF Spec

-----------------------------------------------------------------------------
\* The chunks 1..k, with one more printed.
LEMMA UptoGrows ==
  ASSUME NEW k \in Nat
  PROVE  /\ Upto(k) \in Seq(Nat) /\ Append(Upto(k), k + 1) = Upto(k + 1)
         /\ <<>> \o Upto(k) = Upto(k)
<1>1. Upto(k) \in Seq(Nat) /\ Len(Upto(k)) = k /\ \A i \in 1..k : Upto(k)[i] = i
  BY DEF Upto
<1>2. Append(Upto(k), k + 1) = [i \in 1..(k + 1) |-> i]
  BY <1>1
<1>3. <<>> \o Upto(k) = Upto(k)
  BY <1>1
<1> QED  BY <1>1, <1>2, <1>3 DEF Upto

\* A print goes to the buffer until the stream is seeded from it, and to the
\* stream from then on.
LEMMA StepHandedOver ==
  TypeOK /\ Lifecycle /\ HandedOverWhole /\ [Next]_vars => HandedOverWhole'
<1> SUFFICES ASSUME TypeOK, Lifecycle, HandedOverWhole, [Next]_vars
             PROVE  HandedOverWhole'
  OBVIOUS
<1>0. /\ printed \in [Proc -> Nat] /\ log \in [Proc -> Seq(1..MaxChunks)]
      /\ kept \in [Proc -> Seq(1..MaxChunks)]
      /\ capture \in [Proc -> {"none", "spawned", "running", "offered", "declined",
                               "adopted", "released", "handed", "over"}]
      /\ \A p \in Proc : IF capture[p] = "handed" THEN log[p] = Upto(printed[p])
                         ELSE log[p] = <<>> /\ kept[p] = Upto(printed[p])
  BY CapAssumption DEF TypeOK, HandedOverWhole
<1> USE DEF world, runner, stops
<1> DEFINE Still == /\ UNCHANGED <<printed, log, kept>>
                    /\ \A q \in Proc : capture'[q] = "handed" <=> capture[q] = "handed"
<1>1. Still => HandedOverWhole'
  BY <1>0 DEF HandedOverWhole
<1>2. ASSUME NEW p \in Proc, Prints(p) PROVE HandedOverWhole'
  <2>1. printed' = [printed EXCEPT ![p] = printed[p] + 1] /\ capture' = capture
    BY <1>2 DEF Prints
  <2>2. Append(Upto(printed[p]), printed[p] + 1) = Upto(printed[p] + 1)
    BY <1>0, UptoGrows
  <2>3. CASE capture[p] = "handed"
    <3>1. log' = [log EXCEPT ![p] = Append(@, printed[p] + 1)] /\ kept' = kept
      BY <1>0, <1>2, <2>1, <2>3 DEF Prints, Redirected
    <3> QED  BY <1>0, <2>1, <2>2, <2>3, <3>1 DEF HandedOverWhole
  <2>4. CASE capture[p] # "handed"
    <3>1. kept' = [kept EXCEPT ![p] = Append(@, printed[p] + 1)] /\ log' = log
      BY <1>0, <1>2, <2>1, <2>4 DEF Prints, Redirected
    <3> QED  BY <1>0, <2>1, <2>2, <2>4, <3>1 DEF HandedOverWhole
  <2> QED  BY <2>3, <2>4
<1>3. ASSUME NEW p \in Proc, HandsOff(p) PROVE HandedOverWhole'
  <2>1. /\ printed' = printed /\ kept' = kept /\ capture[p] = "released"
        /\ capture' = [capture EXCEPT ![p] = "handed"]
        /\ log' = [log EXCEPT ![p] = log[p] \o kept[p]]
    BY <1>3 DEF HandsOff
  <2>2. log[p] \o kept[p] = Upto(printed[p])
    BY <1>0, <2>1, UptoGrows
  <2> QED  BY <1>0, <2>1, <2>2 DEF HandedOverWhole
<1>4. ASSUME NEW p \in Proc,
             \/ Exits(p) \/ Captures(p) \/ CaptureWaits(p) \/ CaptureStops(p)
             \/ (\E n \in Name : Start(p, n))
      PROVE  Still
  BY <1>0, <1>4, CapAssumption
  DEF Exits, Captures, CaptureWaits, CaptureStops, Start, Lifecycle, Stages, Stage
<1>5. ASSUME NEW p \in Proc, Ceiling(p) PROVE Still
  BY <1>0, <1>5 DEF Ceiling
<1>6. ASSUME NEW p \in Proc,
             \/ Joins(p) \/ CaptureReturns(p) \/ Adopts(p) \/ AdoptRefused(p) \/ LetsGo(p)
      PROVE  Still
  BY <1>0, <1>6 DEF Joins, CaptureReturns, Adopts, AdoptRefused, LetsGo
<1>7. ASSUME NEW p \in Proc, Reaps(p) PROVE Still
  BY <1>7 DEF Reaps, ReaperWaits, ReaperStores, ReaperEnds
<1>8. ASSUME NEW r \in Request, NEW n \in Name, Asks(r, n) PROVE Still
  BY <1>8 DEF Asks, others
<1>9. ASSUME NEW e \in Ender, NEW p \in Proc, Stops(e, p) PROVE Still
  BY <1>9, StopsLeave DEF others
<1>10. ASSUME Closes \/ CloseReturns \/ UNCHANGED vars PROVE Still
  BY <1>10 DEF Closes, CloseReturns, vars
<1> QED
  BY <1>1, <1>2, <1>3, <1>4, <1>5, <1>6, <1>7, <1>8, <1>9, <1>10 DEF Next, CallMoves

\* No chunk is lost, doubled or out of order across the hand-over.
THEOREM OutputHandedOver == Spec => []HandedOverWhole
<1>1. Init => HandedOverWhole
  BY DEF Init, HandedOverWhole, Upto
<1>2. TypeOK /\ Lifecycle /\ [Next]_vars => Lifecycle'
  BY StepStages, StepTabled DEF Lifecycle
<1> QED
  BY InitLifecycle, StepHandedOver, TypeCorrect, <1>1, <1>2, PTL DEF Spec

=============================================================================
