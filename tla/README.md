# Verification of shhh

TLA+ models of the parts of `shhh` whose correctness rests on the order in which
goroutines, processes and people do things, the TLC runs that check them, and the
theorems TLAPS proves about them.  Paths are relative to the repository; line numbers
are those of the checked-out source.  `PROJECT.json` lists every component, run,
mutant, mapped definition, hazard, finding and theorem; this file explains them.

    tlc -workers 2 -config MCClaims.cfg MCClaims       one run
    tlapm ProcessesProofs.tla                          one proof module

Contents: 1 the system; 2 the modules, one by one; 3 what disagreed; 4 the proofs;
5 what is out of reach or not modelled; 6 the plan.

## 1. The system

`shhh` is a coding agent in one binary.  Its loop is a passive state machine
(`docs/architecture.md`, in the external module `agentcore`); a front end, the terminal
interface, a headless run, a protocol server or a sprint over a backlog, drives it,
gates its tool calls and runs them.  One session owns a supervisor of child agents, a
supervisor of background processes, a runner of foreground commands, language and MCP
servers, and one SQLite store that several processes may have open.  What keeps state
across steps, and so what can be wrong in a way a unit test would hardly reach:

| component | state | operations | hard because | correct means |
|---|---|---|---|---|
| check slots (`internal/subagent/checkslots.go`) | running count, queue of turn channels, per-child wait counts | take, give up, release, hand to a background process | a give-up races a release; several waits of one child | a slot is owned by exactly one call; service in arrival order; no waiter beside a free slot |
| lane slots (`slotfiles.go`) | one locked file per slot, one marker per waiting lane | take by scanning and polling, wait listing | several processes, crashes, stale markers | never more checks than slots on one machine; a crash frees its slot |
| writer claims (`supervisor_claim.go`) | none of their own: a claim is being a live child in the list | spawn's walks, queueing, waking, retry's and steer's walks | walks read one child at a time; three actors walk for one writer | one live writer per file; queued writers in spawn order; no missed wake |
| child attempts (`supervisor_run.go`, `child.go`, `supervisor_finish.go`) | state, attempt, contexts, done channel, steering, spend | start, round, answer, fail, follow up, kill, retry | a kill or a steer lands between two locks | one goroutine per live lane; an end announced once, about its own attempt |
| spawn admission (`supervisor_spawn.go`) | list, names, slots per depth | reserve, build, insert | read under one lock hold, insert under another | caps on children, depth and concurrency hold |
| report wait (`supervisor_report.go`) | steer signal, done channels | wait for children | the wait must end for a finish, a steer, a kill and an interrupt | no wait that nothing can end |
| patches and integration (`supervisor_patch.go`, `integrate.go`) | queued patches | land, hand to an integrator, discard | landings collide | nothing lands that was not settled |
| process supervisor (`internal/process`) | table by name, per process its reaper, stream, stop state | start, adopt, stop, kill, close | exits race stops; starts race close | nothing outlives the session; every process can be named |
| captured commands (`internal/runner`) | live list, buffers | run, ceiling, offer, hand over, drain | a command changes hands while it prints and the session leaves | no output lost or doubled; somebody always holds it |
| session server (`internal/rpc/server.go`) | clients, turn, asks, grace timer, end stages | open, resume, turn, steer, answer, detach, reap, end, close | all of them at once, from several connections | the loop is closed once, after its turns; asks are answered once |
| served loop (`internal/cli/serve.go`) | steering queue | run, drain, close | messages at a turn's edges | a message accepted is read |
| sprint and lanes (`internal/cli/todorunlanes.go`, `internal/todo/run`) | sprint file, landings, a copy per lane | take, carry, reconcile, verify, land, checkpoint | landings of other lanes between a verify and a landing; crashes | what lands is what was verified |
| backlog pipeline (`internal/todo/run`) | stage, rounds, lanes' reports | one step per turn's result | events of writers cross | stages end; an item is not finished unverified |
| chat slots (`internal/storage/chat.go`) | slot rows, what each process remembers leaving there | claim, save, refuse, move, load, release | several processes save, several saves of one overlap | no session takes another's words out of the store; a lost slot is replaced once |
| changesets (`internal/changeset`) | per-turn snapshots | record, undo | files change after they were recorded | an undo overwrites only what the turn wrote |
| language servers (`internal/lsp`, `cli/lsp.go`) | versions, digests, reports, held questions | sync, wait, hold, settle, take | calls overlap; answers come late, on older texts, or never | no old report is the verdict on a new text; a late answer arrives once |
| permission policy (`internal/permission` and others) | rules, modes, standing approvals | decide | precedence | the strictest applicable rule wins |

The other components (providers, prompts, tools, sandbox profiles, rendering, storage
of rows, reports, web, evaluations, the terminal interface) compute values or draw;
they are listed in `PROJECT.json` with the reason they are not modelled.

How they meet: a child's command goes through `checkedRun`, which takes a check slot
(CheckSlots) around a captured command (Processes); at its ceiling the command is
adopted by the process supervisor and the slot follows it (`HandOff`/`Exit` there,
`Adopts` in Processes).  A child is spawned, retried and steered by calls that ask about
claims (Claims).  A served session (Session) runs turns whose loop does all of this, and
closes it when it ends, which is when `Closes` of Processes runs.  A sprint (Lanes) runs
such a loop per item in a copy of the checkout; a session of the terminal saves its
conversation (ChatSlots), and its edits and questions reach a language server
(Diagnostics), which its children share.  The modules share no variable: each takes from
the others only that a command ends, a child ends or a turn ends.

## 2. The modules

Every module starts with its state and, where an actor has steps, what each value of
its program counter means.  An action is the code between two points where another
actor can run: a lock taken and let go, a channel operation, a system call.  Data is
kept only where a property needs it.  Operators marked "Faulty variant" are not part
of any specification: each is a plausible bug of the definition that follows it, and is
put in that definition's place to confirm that the property it is paired with in
`PROJECT.json` (`mutants`) would notice.

### Throttle, FifoSemaphore, CheckSlots

`Throttle` is the value under `CheckSlots.mu` and the changes made to it: `HasRoom`,
`Admit`, `Join`, `Leave`, `GiveBack`.  `CheckSlots` is the protocol around it
(`checkslots.go`): a call joins the queue under the lock (`Take`), tells its child's
lane after the lock is let go (`Tell`), waits in a select (`TurnComes`, `GiveUp`), goes
back under the lock when its context ended (`Withdraw`) and, if it was handed a slot in
the meantime, passes it on (`PassOn`).  `Return`, `HandOff` and `Exit` are the three
ways `checkedRun` lets a slot go.  `FifoSemaphore` says what the throttle promises in
five lines of state: who is inside and who is in line.

*check_slots*: two slots, four calls of two children.  Four calls on two slots are
enough for two owners, a queue of two, and a give-up of either end of the queue racing a
release; a child with two calls makes its lane's count exceed one.  184,496 states.
Bounds: none but the constants; a call may be made again for ever.

- `SlotsAccounted` counts owners, a call that was handed a slot while it was giving up
  included; `NoIdleSlot`: nobody waits beside a free slot; `LaneCountsWaits`.  Two more,
  `QueueIsTheWaiters` and `InArrivalOrder` (whoever comes to own a slot was the head of
  the line), are proved (section 4) and not run.
- `IsSemaphore`: CheckSlots implements FifoSemaphore with `inside <- Owners` and
  `line <- slots.queue`.
- `EveryWaitEnds` (liveness) assumes that no background process sits on a slot for
  ever, because nothing in the code makes one exit.

Fairness: the steps of a goroutine that can run, and the end of a foreground command,
which a ceiling bounds.  No fairness for starting a check, for the end of a context or
for a background process's exit.

### Claims

A writer's claim is held by being a live child in the supervisor's list, so to ask is to
walk the list, reading one status at a time (`Read`), in one of three ways: claimConflict,
claimAhead, claimAround (`Counts`).  `ask[w]` is the walk of the writer's spawn, goroutine
or retry; `steer[w]` that of a steer.  `SpawnBegin` to `SpawnInsert` is spawn under
`claimMu`; `AwaitBegins`, `AwaitDecides`, `Wakes` are awaitClaim, whose signal is taken
before the walk; `Fails`/`Answers` then `Releases` keep the code's gap between a state set
and the claims released; `Retry`, `RetryBegins`, `RetryAbandoned`, `RetryStarts` are Retry
and restart; `SteerBegins` to `SteerDecides`, `ReadsMessage`, `FollowsUp` and
`StopsListening` are a steer of a live or a finished child.  Which paths overlap is
abstracted to the relation `Clash`; concurrency slots are not counted here.

- *claims*: three writers over one file, each declaring or not that it waits and that it
  shares, spawns refused and children killed at any time, no retries or steers; the
  writers are symmetric, and a retry that is abandoned, of which `NoMissedWake` is false, is
  in section 3.  1,141,905 states.  `FreshWritersApart`, `NoMissedWake`,
  `WaitersGoInOrder`.  Three writers are the least for a wake that lets one of two waiters
  go and sends the other back behind it.
- *claims_again*: two writers, the first may be retried once, and the other is sent one
  steer.  `NoOrphanLane` (a lane that reads live has something that will move it) and
  `EveryWaiterIsLetGo` (liveness), which assumes nobody is retried: section 3 says why.
- Bounds: `MaxSpawns`, `MaxAttempts`, `MaxSteers`, per writer.

Fairness: goroutines and calls under way run.  Nothing makes a working child end; the
liveness property says "if no child works for ever".

### Session

One session of the protocol server from the request that opens it to the close of its
loop.  A client is a connection whose read loop handles one request at a time (`pc[c]`),
in the steps its locks leave apart.  A request that names the session first looks it up
under the server's lock (`LooksUp`), and what it does with it comes later (`Handles`): the
session may be off the server by then.  `Open`/`OpenJoins`/`SetLoop`, `Driver`/`ResumeJoins`,
`TurnStart`/`Launch`, `Driver`/`Steer`/`Speaks`, `AnswerTakes`/`Sends` and
`EndAsked`/`EndMarks` are split where the code lets a lock go.  The turn is its goroutine
(`RunBegins` ... `TurnDone`), with serveLoop's clearing and draining of the steering
queue.  The grace timer has generations: `timer` is the newest, `stale` an older one that
already fired and waits for the lock; `calm` is a history variable, how much of a grace has
passed since anybody attached or a turn began.  A session is ended by every client that
found it, by the reap and by the server's close, any of them at once: a client forgets the
session (`EndAsked`) in another hold than the one that found it, whoever else has done so
meanwhile, then marks it ended; the first to mark goes through the stages of tearDown
(`stage[e]`), the others wait for `done`.  Approvals and questions are one `Ask`; forks,
listing, the wire format and the outgoing queue are left out (write never blocks; a dropped
connection is `Detach`).

- *session*: two clients, one ask, of the turn's own or of a child, one turn; both clients,
  the reap and the shutdown may be ending it at the same time.  341,067 states.
  `OneAnswerPerAsk`, `NoAskWithoutAudience`, `LoopOutlivesTurns`, `LoopClosedOnce`,
  `EndMeansOver` (nobody who asked for the end, first or second to it, is told before it is
  over), `ReapedAfterItsGrace` (no reap by a timer left behind: the property speaks of
  `calm`, not of the timer), and the liveness properties `EveryEndFinishes` and
  `UnwatchedIsReaped`.
- `MCSessionAsks.cfg` has two asks, so that one can be the turn's and one a child's, and
  checks the safety properties over 947,024 states, the clients taken as symmetric; it is
  kept beside the run, which has the one ask its liveness properties can be checked with.
- Bound: `MaxTurns`.  One turn reaches every stage of a turn in every stage of an end; a
  second turn differs from the first by nothing the session keeps.

Fairness: handlers, goroutines and timers run, an assembly answers, and a turn whose asks
are answered ends: an end interrupts the loop before it waits (`server.go:310-318`, "the
wait is bounded by the loop's own checkpoints").  The steps a session takes only so often
(`Proceeds`) have one weak fairness between them, which is the least to assume and lets
each have its turn.  No request need come, and nobody need answer an ask: an end finishes
even so, because `gone` is closed.  A timer that was left behind need not get the lock.

### Processes

The process supervisor with the runner's captured commands.  A foreground command goes
`Captures`, `Joins` (the live list), and either `CaptureReturns` or reaches its ceiling
(`Ceiling`), is offered, and is adopted (`Adopts`, `LetsGo`, `HandsOff`) or refused and
killed.  `os[p]` separates a pid that is spent ("reaped") from the moment whoever runs the
command can know it ("told"); `reaper[p]` has the steps of reap: wait, store the log, close
`exited`.  `at[e][p]` is where a stop, a kill or the session's close stands with one
process: the grace of a plain one, and for a container engine's client the `stopOnce` and
the second exec (`TakesOnce`, `FarGraceEnds`, `ExecEnds`).  What a command prints is
chunks 1, 2, ..., in `kept` until the hand-over and in `log` after it.

- *processes*: a captured command that prints twice, a container client, one entry in the
  table, one Stop or Kill and the session's close.  148,383 states.  `NobodyForgotten`,
  `SomebodyHoldsIt`, `HandedOverWhole`, `CloseLeavesNothing`, `EveryStopReturns`.  Two
  processes and one place in the table give refusal at the cap and the take-over of an
  exited entry's name; two enders give two stops at one `stopOnce`; two chunks are the
  least that can be reordered.  Two names for the one place make the
  cap of `NobodyForgotten` something a start and an adoption have to keep to; larger tables
  are the theorem's (`EveryProcessNamed`, any names and any cap).  A command refused at the cap
  (`AdoptRefused`) is killed as its ceiling would have had it, and no property is about it.
- `SomebodyHoldsIt` leaves out one step on purpose, between a command's spawn and its
  joining of the live list (`group.go:124`), where a leaving session cannot find it; the
  quit cancels the command's context as well.
- Bound: `MaxChunks`.

Fairness: goroutines and timers run, a second exec is bounded by its own timeout, and what
is sent a kill dies.  Nothing else makes a command end, print or reach its ceiling.

### Lanes

A parallel sprint (`todorunlanes.go`, `todorunlanescheckpoint.go`, the pipeline of
`todo/run` as a lane drives it).  The main loop takes items (`Take`, `TakeNone`), waits
for a result (`Result`), may be stopped, and may die and be followed by the next process
(`Crash`, `Restart`), which answers for the lanes on the sprint file.  A lane makes its
copy (`MakeCopy`), takes up the others' landings at every step boundary (`Boundary`: carry,
and put back when a merge fails), runs the steps of its item (`Build`, `VerifyStep`,
`Review`, `Fix`), waits for the land lock, verifies again if anything landed meanwhile
(`TakeLandLock`, `Reverify`), lands or is refused (`Lands`, `LandRefused`), commits, may run
a checkpoint while it holds the lock (`CheckpointBegins`, `CheckpointEnds`), and ends, its
copy kept or removed (`End`, `File`).  `TimeOut` is the item's deadline and `HandEdit`
somebody at the checkout.  A file's text is the set of the changes it holds, so a merge is
a union or a conflict.  Research, plan and implementation are one turn that writes
(`Build`), reading and the commit message one that does not (`Review`); fan-outs, the spend
ceiling, attempts and generated files are left out.  The fields of a lane that is over are
reset, which no action reads.

- *lanes*: three items, two lanes, two files, a checkpoint after every landing, one
  remediation round, one crash, one hand edit.  373,106 states.  The first two items meet
  in a file only one of them declares, and the third waits for the first: the least for a
  landing between another lane's verify and its own, for a carry that conflicts, and for an
  item taken by the statuses other lanes change.  `LandsVerified` (what lands is the tree
  the lane last verified, whatever landed in between), `WorkKept`,
  `DependentsBuildOnLanded`, `CheckpointStill`, `SprintEnds` (liveness, with no item left
  in progress).
- The run has no file that a landing creates (`Created = {}`) and no suite in a turn's
  close (`CloseGates = {FALSE}`), because of the two disagreements in section 3.
- Bounds: `Crashes`, `Hands`.  `WorkKept` says nothing of a lane that was in flight at a
  crash ("gone"): its copy is on disk and the next process names it.

Fairness: the process runs, the main loop's step or some lane's, one weak fairness for
both.  That is the least the Go scheduler gives, and enough because a lane that is not
waiting for the lock always has a step that ends, a turn being bounded by its deadline.
Nothing makes a deadline pass, a person stop the sprint or a process die.

### ChatSlots

The rows conversations are saved in, and the sessions of several processes.  `Start` claims
a name; `Say` says a message and starts a save; saves run in the background, several at
once, and each lands, is refused or fails (`SaveLands`, `SaveRefused`, `SaveFails`); a
refused one finds where the conversation goes and saves it there (`Move`, `MoveLands`), and
the session follows when it is told (`Note`).  Opening another row reads it with no lock
held (`LoadChat`) and remembers it in a second step (`Load`), between which any save may
land; `New` starts a conversation over, `Rewind` cuts one and keeps the tail in a branch,
after which the session goes on talking, `Quit` waits for the saves and gives the claim back
(`Gone`), `Crash` leaves both.  A conversation is the sequence of its messages, and a
fingerprint is the conversation; a transaction, retried until it has the lock, is one step.

- *chat_slots*: two sessions, four names, two messages each and three between them
  (`ThreeSaid`), one load or new conversation each; one of them rewinds once and has two
  saves in flight.  265,372 states.  `OneCopy` (a lost slot is replaced once),
  `NoStrayClaims` (an empty row has a session that will write to it or give it back).  Two
  saves of one session and one of the other's on the same row are the least for a save
  judged by a mark that a later save has moved.  Without `ThreeSaid` the run passes with
  1,215,686 states, and with it and two loads each with 8,205,181, in 25 minutes.  Names are
  symmetric; sessions end, so the run stops in the end (`CHECK_DEADLOCK FALSE`).
- `OneCopy` leaves out a session whose branch, the copy a rewind keeps, was itself lost to
  another session: the branch is a second copy by design, and moving it leaves that copy
  where it was.
- *chat_slots_length*: the expected violation of `NeitherCostsTheOther` (no session's save
  takes a message of another's out of the store); section 3.  Where it does hold is proved
  (section 4) and run in `MCChatSlotsOrderly.cfg`.
- Bounds: `Turns`, `InFlight`, `Switches`; two saves that carry the same conversation to
  the same slot are one.  A name is not minted twice (the clock's business), only a row
  with messages is loaded, and renames, deletions, saves under a typed name, folded turns
  and the failure of a claim are not modelled.

No fairness and no liveness: nobody need say anything, and a save may fail for ever.

### Diagnostics

What a session and its children learn from one language server.  A caller's call is an
edit, a question about a file's diagnostics, one about all of them, one about a place, or
any other tool (`Begin`).  A push is four steps, because the lock is let go between them:
`ReadFile`, `Sync` (skipped where the server holds that very text, else a version and the
sequence number it goes out after), `Send`, `Record` (only for the newest version).  `Ask`
and `Wakes` are the wait for a newer report; an edit that stops waiting leaves a question
(`Hold`), an answered one closes it (`Forget`), the other questions settle it where their
report is newer than it waits for (`Latest`, `CopyAll`, `Settle`), and the result of every
other call takes the answers that came (`Take`).  The server is external: it `Receives`
pushes in order, `Publishes` on what it holds when it likes, several pushes in one report
or none, and may die (`Dies`).  `HandEdit` changes a file by no edit tool.

- *diagnostics*: one file, two texts; one caller edits, asks and calls other tools, two of
  its calls pushing the file; a second asks in the same rounds; one hand edit.  301,760
  states.  `NoFalseVerdict` (a report given as the verdict on a text came after that text
  had its version, and an edit is not handed an older answer about its own file in front of
  its result), `NoAnswerLost` (a question goes when the session is given its answer, or a
  later edit asks again), `LateAnswerArrives` (liveness).  Two pushes of one caller and one
  of another are the least for a push that overlaps another, a text not sent again and a
  question left open while a report is on its way.
- `NoFalseVerdict` is about when a report came, not what it is about; section 3 has the
  difference (`VerdictIsOnText`).
- Bounds: `Asks`, on the calls that push a file, and `Hands`.  The calls of the other kinds
  have none, so nothing deadlocks.
- A child's edits are of files in its own copy and are not modelled, nor that for the
  length of its wait a child's own question lies in the queue (`lsp.go:DropHeld`); nor are
  the start of a server and `Shutdown`.

Fairness: a call under way goes on, its wait having a deadline, and a server that is up
reads and reports.  No call need be made; `LateAnswerArrives` says "if the session goes on
reading results and the server stays up".

## 3. What disagreed with the code

Four runs check what a comment or a document says, and TLC refutes each.

- *claims_retry* (`OneWriterPerFile`): a spawn walks while a child is failed; the child is
  retried and its restart walks before the spawn has inserted its child; both start over
  one file.  restart holds no `claimMu` (`supervisor_retry.go:336`);
  `docs/capabilities/subagents.md:1515` says a retry is no way round a refused spawn.
  A steer of a finished writer is a second way (`supervisor_steer.go:59`).
- *lanes_created* (`LandsVerified`): a lane's copy is seeded from what git knows of the
  checkout (`todorunlanes.go:305`, `NewWorktree(d.root, nil)`), and the landings so far
  count as taken up (306).  In a sprint without commits a file that an earlier landing
  created is untracked, so no later lane's copy holds it, not even that of an item that
  waits for its maker, and the lane verifies a tree without it.
  `docs/capabilities/todo.md:746`: "so a tree nobody ran the checks over never lands".
- *chat_slots_length* (`NeitherCostsTheOther`): a row is judged by the number of its last
  message and nothing else (`chat.go:404`; the digest at 416 decides only between appending
  and rewriting).  p saves its first message and starts a new conversation, which saves the
  old one once more; q opens the old one, rewinds all of it, says something and saves, and
  the row is as long as p left it; p's late save finds the number it remembers and rewrites
  the row, and what q said is gone.  `docs/capabilities/sessions-and-memory.md:416`:
  "neither of them may quietly cost the other its work."
- *diagnostics_child* (`NoAnswerLost`): every child's executor is wrapped by the session's
  own `WrapExecutor` (`subagenttools.go:279`), which after a call of any tool takes the
  late answers off the session's queue (`tool.go:273`): the verdict on the session's edit
  is put in front of a child's result.  `cli/lsp.go:77` says "a child neither reads the
  queue nor leaves anything in it", and `docs/capabilities/subagents.md:85` the same; the
  test of it drives a child's edits, which go another way.

Further disagreements, with the configurations that show them kept beside the runs, for
`tlc -config <file>.cfg <module>`:

- `MCClaimsAbandon.cfg` (`NoMissedWake`): a retry makes the child queued, a writer parks
  behind it, the retry is abandoned (`supervisor_retry.go:313`, also 256) without
  releaseClaims, and the parked writer sleeps until something else ends.
  `supervisor_claim.go:169` says releaseClaims is called wherever a child ends.
- `MCSessionTold.cfg` (`ToldIsTrue`): a client answers an ask as the session ends; the
  answer is put in the channel and acknowledged, and the select takes `gone`.  The
  comment at `server.go:592` says why that is worse than a refusal.
- `MCSessionSteer.cfg` (`SteerIsRead`): a session reads as running before its goroutine has
  entered Run, which clears the queue; a steer accepted in between is lost, and so is one
  after the last drain.  `serve.go:1035` says a late one is carried out.
- `MCSessionResumed.cfg` (`ResumedIsLive`): a resume joins, and is given the transcript of,
  a session that ended after driver read it as live (`server.go:1029`, against the comment
  at 185: "is told the session has gone instead of being handed a loop that is being
  closed").
- `MCProcessesLog.cfg` (`FullLogStored`): Adopt starts the reaper before the stream is
  seeded; a command that exits in between has its log stored without what it printed
  (`adopt.go:101`, `capture.go:368`; `process.go:5`).
- `MCProcessesKill.cfg` (`NoKillOnceReaped`): `exited` is closed after the log is
  stored, not when the pid is spent, so the check before an attached client's kill can
  pass for a pid that is already free (`process.go:796` against the comment above it).
- `MCLanesGated.cfg` (`LandsGated`): the pass a turn's close reached outlives a carry or a
  reconciling turn that changed the copy, and the verify step takes it (`run.go:1014`,
  `todorunfinish.go:50`), against `docs/capabilities/todo.md:1173`, "A lane commits only a
  tree its gate passed."
- `MCChatSlotsAgain.cfg` (`MoveTakesNothing`): where a lost slot went is remembered under
  its name for good (`chat.go:222`), also when the name is opened again; a second loss of
  it saves over the conversation the first one moved.  `chat.go:37` says "move its own
  conversation somewhere safe", and the row drawn for a move "Nothing there was
  overwritten" (`model.go:1697`).
- `MCChatSlotsHasty.cfg` (`NeitherCostsTheOther`): nobody rewinds; a save on its way to a
  row while that row is loaded again finds the mark of the load, and takes off what the
  other session had added.
- `MCDiagnosticsDrop.cfg` (`NoAnswerLost`): a child's question about the session's file,
  asked before the session's edit and answered after it, closes the edit's question
  (`manager.go:483` drops without comparing, as `settleHeld` would).
- `MCDiagnosticsLate.cfg` (`VerdictIsOnText`): a report on the text before, published after
  the push of the next, is given as the verdict on the next: the version a server may put
  in its report is not read (`server.go:208`).  `docs/capabilities/coding-agent.md:592`:
  "diagnostics for the file as it was are not a report on the file as it is".

Other behaviours the models have, for which no run is kept:

- A retried writer and writers spawned after it can park behind each other, because
  claimAround counts a later writer whose `waitsOn` is not written yet, against the
  comment at `supervisor_claim.go:38`; they sleep until another child ends.
- A kill between the state Retry claims and the context restart installs is lost
  (`supervisor_retry.go:411`, against the comment at 225): `RetryStarts` clears `dead`.
- After a crash between a landing and its filing, the next process says of the item that
  nothing from its copy landed (`todorunlanes.go:235`).
- A stop during the second verify of an item without commits blocks the item as one that
  "no longer verifies" (`todorunlanes.go:911`), although nothing was found against it; a
  commit that fails leaves the lane's patch on the checkout.
- Two first syncs of a file may put the change on the wire before the opening, and two
  overlapping syncs the newer text before the older, after which the server holds the older
  and `synced` says the newer, which is then skipped as sent (`server.go:276`, 304).
- A process that ended by itself is recorded as stopped when asked to stop before its log
  is stored (`process.go:754`, against 319).

## 4. The proofs

One module of proofs per component: `CheckSlotsProofs` (with `QueueLemmas` on the three
changes a queue sees), `ProcessesProofs`, `SessionProofs`, `DiagnosticsProofs`,
`ClaimsProofs`, `LanesProofs` and `ChatSlotsProofs`.  The theorems hold for every value of
the constants that satisfies the named assumptions; each inductive invariant is called
`IInv` there and its parts are named for what they say.

**CheckSlots**: any number of slots, finitely many calls, any owners
(`SizeAssumption`, `CallAssumption`, `OwnerAssumption`).  The inductive invariant `IInv` is
`TypeOK /\ SlotsAccounted /\ NoIdleSlot /\ QueueIsTheWaiters` together with
`LaneCountsWaits`.  None of the parts is inductive alone: that the running count equals
the owners after a hand-over needs that the head of the queue is a waiter that was not
handed a slot yet (QueueIsTheWaiters), and that in turn needs the queue without
duplicates through append, tail and removal (the three lemmas of QueueLemmas).  From it:
`TypeCorrect`, `EverySlotAccounted`, `NobodyWaitsInVain`, `LanesTellTheTruth`;
`ServedInOrder`, the action property; and `ThrottleIsSemaphore`, the refinement, by one
lemma per kind of step (a take is an arrival, a release a departure, a withdrawal a
walking away, everything else a stutter).

**Processes**: any finite set of names, any cap, any processes, requests and chunks
(`KindsAssumption`, `CloserAssumption`, `CapAssumption`).  `TypeCorrect` includes that
whoever holds a process's `stopOnce` is inside its attached stop.  `Lifecycle` ties where a
command stands at the operating system, in its call and at its reaper (`Stages`) to the
table (`Tabled`: a process with a reaper has one entry, within the cap); `EveryProcessNamed`
and `NoCommandUnheld` follow from it.  `Ending` adds what Close has done: once it is called
no process can enter the table, each entry there is done or being stopped by it, and a stop
that is over left its process done; `SessionEndsClean` follows.  `OutputHandedOver` proves
`HandedOverWhole` by its own induction over Prints and HandsOff.

**Session**: any clients, asks and turns (`EnderAssumption`, `TurnsAssumption`).  Any
number of clients, the reap and the server's stop may be ending a session that is still
opening.  The safety properties are conjuncts of `IInv` or follow from it, and none is
inductive alone: that the loop is closed once needs that one ender at most releases, and
whether it found a loop to release (`Ending`); that in turn needs that only the one client
opening the session makes the loop (`Opening`); that no turn outlives its loop needs that
each goroutine counted was started (`Counting`); and that no answer channel is sent to
twice needs that an ask is on the map, or owed by one client, or was sent to (`Answering`).
That whoever asked for the end is told when it is over (`EndsAreOver`) needs that `done` is
closed only after the loop, and that nobody is over before `done`.  That a reap comes a
whole grace after the last of anything (`ReapedRightly`) needs `Grace`, what the newest
timer has counted: a timer can only be armed when nobody watches and no turn runs, and
whoever comes or starts one leaves it behind.  Theorems: `TypeCorrect`, `LoopOutlives`,
`LoopCloses`, `EndsAreOver`, `AnsweredOnce`, `AskedOfSomebody`, and the action property
`ReapedRightly`.

**Diagnostics**: any callers, files and texts, neither of the last two empty
(`DiagnosticsAssumption`).  A verdict is told from an older report by a file's version and
the count of reports.  `Anchors` relates the two wherever a pair is kept (at a push, in a
question left open, in a call under way): a report newer than the count is about that
version or a later one.  `Opened` says that the server reports only on files it was sent,
`Shapes` what a call has at each of its steps, `Alone` and `OwnQuestion` that nobody of the
session runs beside its edit and replaces the question it left.  Theorems: `TypeCorrect`,
`VerdictsAreNew`.  `NoAnswerIsLost` needs `Fresh` besides, a question is no newer than what
the server was last told, and is proved for sessions without children: a child replaces a
question of the session, which is a finding (section 3).

**Claims**: any writers, overlaps, attempts and steers (`ClashAssumption`,
`NoOneAssumption`, `BoundsAssumption`).  No claim is written down in the code.  What keeps
two writers apart is `Watched`: of two fresh writers that may not both work, the later
one's walk still has to read the earlier's status or has found somebody, and the later is
not past its walk.  It rests on the order of the spawns (`Order`), on which walk is made at
which step (`Asking`), and on what a status says of the goroutine and the retry behind it
(`Lanes`).  Theorems: `TypeCorrect`, `LiveLanesMove`, `FreshApart`, and the action property
`InOrder`.  `NobodyIsMissed` proves `NoMissedWake` of the behaviours in which no retry is
abandoned (`[][SeenThrough]_vars`), however many are retried: a writer waits behind a
retry's new attempt as it did behind the old one, but an abandoned retry releases nothing,
which is a finding (section 3).

**Lanes**: any items, needs, files, order, lanes and bounds (`LanesAssumption`).  `Shapes`
says what a lane's record is at each place of its run (what is past verify was verified as
it stands; a merge that stands is owed its turn), `Locks` who holds the land lock and that
a checkpoint runs under it, `Filed` that the sprint file names every lane that runs, also
after a crash, and `Archived` that what counts as done is on the checkout.  Theorems:
`TypeCorrect`, `WorkIsKept` and the action property `CheckpointsStandStill`.  In the files
git knows from the start, `Syncs` is inductive too: a copy and the landings it has not
taken up make the checkout, but for hand edits, and a lane about to land has none to take
up.  From it, of every sprint, `DependentsFindKnownFiles` (an item is worked over what its
needs landed there) and `KnownFilesLandVerified` (a landing leaves what was verified there,
and in every file it writes).  A landing may create a file, which a copy made before the
file is committed does not hold: `Syncs` is false of such files, which is a finding
(`lanes_created`, section 3).  Where there are none (`Created = {}`) the two are the
properties of the runs, `DependentsFindTheWork` (`DependentsBuildOnLanded`) and
`LandsWhatWasVerified` (`LandsVerified`).

**ChatSlots**: any sessions, names, rewinds, switches and saves at once
(`ChatSlotsAssumption`).  `Store` says that a slot has one row at most and that a row's
slot was claimed or is a branch.  A claim is remembered as a mark, so `Minded` is the
property itself, of one session that has both the mark and the reason.  It is kept because
what a session knows of slots is known for good (`Knows`); because a conversation that had
to leave a slot leaves it filled, or without a claim of its own, and the slot it was moved
to is filled (`Leaves`): otherwise the end of its second save would strand the first slot;
and because a session that quits has something saved, a save under way, or no empty claim
(`Settles`).  `Framed` carries this over to the other sessions: rows fill up and names are
claimed for good (`Grows`).  Theorems: `TypeCorrect` and `ClaimsAreMinded`.

Four more are about sessions that save one at a time and cut nothing (`OneByOne`) and that
open no chat they lost, nor one their own save is on the way to (`[][NoReturn]_vars`):
`RowsOnlyGrow`, `NobodyLoses` (`NeitherCostsTheOther`, there), `MovesTakeNothing` and `OneCopyEach`.
`NoReturn` is asked when the chat is read.  Each hypothesis has a run against it:
MCChatSlotsLength cuts, MCChatSlotsHasty loads what a save of its own is on the way to,
MCChatSlotsAgain opens the chat it lost; and two sessions with overlapping saves can take
each other's rows of the same length for their own.  So the theorems say where the length
is enough, and the run *chat_slots_length* that it is not enough everywhere.  With
them any number of sessions may load each other's chats, lose their slots, move, follow,
quit and crash.  Refusals compare lengths, so what has to be inductive is that lengths are
enough (`Orderly`): what a session remembers of a row is how the row begins (`Fits`), and
what it is about to save goes on from there, in its slot and in where that was moved
(`Lands`, `Stands`); a conversation of the remembered length is then the remembered one.
That only what p writes, reads, claims or gives back in a step has to be looked at
(`Touches`) keeps the other sessions out of the proofs of the operations, and they in turn
are kept by two sessions never sharing a slot with nothing in it.  `OneCopyEach` needs
besides where a message is on its way to (`Home`): of the slots its author has it in, saves
it to, or moved either to, one at most is not lost; and that who has another's message has
read it (`Told`).  Between the read of a chat and its remembering the slot may grow: `Opened` (what was read is
not empty, of a slot that stays filled) and `Ready` (the row still begins with what was
read, and no save of the reader's is on its way there) carry the facts over.
`MCChatSlotsOrderly.cfg` is these sessions on a small instance, 793,854 states.

Beyond this prover, and so only model-checked: liveness (`EveryWaitEnds`,
`EveryWaiterIsLetGo`, `EveryEndFinishes`, `UnwatchedIsReaped`, `EveryStopReturns`,
`SprintEnds`, `LateAnswerArrives`).

## 5. What is abstracted and what is left out

- Paths and names are model values; which paths overlap is the relation `Clash`.
- Timers have no durations: a timer may fire at any step once it is armed.  So a property
  that holds does not rest on how long a grace or a ceiling is.
- Text, logs, rendering, the wire format, and errors of pure input and output are left out,
  except where an error path changes state (a spawn that fails, an assembly that fails, a
  retry that cannot be set up).
- Signals are what they do: a kill makes an exit fair, a terminate makes nothing happen.
- The agent loop and the model clients are libraries; a turn is "the loop runs, may ask,
  and settles".

## 6. The plan

In order of how much of the system's correctness rests on each; new modules take
`Throttle`'s form, the value under a lock apart from the protocol around it, with
constants and named assumptions and no recursive operators, so that they can be proved
about.

1. `LaneSlots` (`slotfiles.go`) composed with `Throttle`: two processes, crashes, stale
   markers.  Never more than `Size` checks; a crash loses no slot.  Theorem: mutual
   exclusion for any number of processes.
2. `SpawnAdmission` and `ReportWait` (`supervisor_spawn.go`, `supervisor_report.go`): the
   caps, names, slots per depth, and waits that only point down the tree (a parent holds a
   slot of its own depth while it waits, `supervisor_spawn.go:89`).  Properties: the cap
   holds, and no cycle of waits.
3. `ChildAttempt` (`supervisor_run.go`, `supervisor_retry.go`, `supervisor_finish.go`): ends
   announced once and about their own attempt (`supervisor_run.go:349`); the subtree's
   teardown and its bounded wait; a kill inside a retry (`supervisor_retry.go:208`).
4. `StageMachine` (`todo/run`): the stages and rounds of an item as a function of a turn's
   result, with crossing events of the writers; termination.
5. `Undo` (`changeset`), `Policy` (`permission`) and `PathClaims` (`pathsOverlap` as an
   operator against a reference definition).

Theorems next: an abstract `Store` of conversations that ChatSlots implements.
