------------------------------- MODULE Lanes -------------------------------
(***************************************************************************)
(* A parallel sprint over the backlog (src/internal/cli/todorunlanes.go):  *)
(* up to Parallel items are worked at once, each by a lane with a copy of  *)
(* the checkout.  A lane takes up what other lanes landed at every step    *)
(* boundary, verifies its copy, and lands its patch on the checkout while  *)
(* it holds the land lock.  The main loop takes items, waits for results   *)
(* and keeps the sprint file, from which the next process answers for the  *)
(* lanes a crash left.                                                     *)
(*                                                                         *)
(* A file's text is the set of the changes it holds: the items', and Hand  *)
(* for one made outside the sprint.  What a turn writes, finds or answers, *)
(* and whether a merge settles, is a choice over the outcomes that change  *)
(* the control.                                                            *)
(***************************************************************************)
EXTENDS Integers, Sequences, FiniteSets

CONSTANTS
  Items,      \* the backlog's items; a lane is named by its item
  Files,      \* the checkout's files
  Order,      \* the ready list's order: a sequence holding each item once
  Needs,      \* Needs[i]: the items i waits for
  Touches,    \* Touches[i]: the files i declares; {} declares nothing
  Writes,     \* Writes[i]: the files its work does change
  Hand,       \* a change by a hand outside the sprint
  Free,       \* the land lock held by no lane
  Parallel,   \* how many lanes run at once
  Every,      \* landings between two checkpoints; 0 is no checkpoint
  Rounds,     \* remediation rounds of an item, and as many reconciliations
  Crashes,    \* bound: how often the sprint's process dies
  Hands,      \* bound: the files a hand outside changes, each once
  Created,    \* the files no commit holds yet: a change creates them
  NoCommits,  \* the values of nocommit explored
  CloseGates  \* the values of closeGate explored

ASSUME LanesAssumption ==
  /\ Items = {Order[n] : n \in DOMAIN Order}
  /\ Hand \notin Items /\ Free \notin Items
  /\ Needs \in [Items -> SUBSET Items]
  /\ Touches \in [Items -> SUBSET Files]
  /\ Writes \in [Items -> SUBSET Files \ {{}}]
  /\ Parallel \in Nat \ {0} /\ {Every, Rounds, Crashes} \subseteq Nat
  /\ Hands \subseteq Files \ Created /\ Created \subseteq Files
  /\ NoCommits \subseteq BOOLEAN /\ CloseGates \subseteq BOOLEAN

VARIABLES
  nocommit,   \* the sprint was asked for without commits
  closeGate,  \* the workspace's suite runs as a writing turn closes
  main,       \* the loop of sprintParallel: "loop", "wait", "over", "dead"
  stop,       \* the sprint's context has ended
  sprint,     \* the sprint file, saved under one mutex with every change
  item,       \* each item's status in the backlog
  checkout,   \* the checkout's files
  tracked,    \* those of them the repository's index holds
  landings,   \* the patches this process landed, in their order
  land,       \* who holds the land lock
  cp,         \* landings since the last checkpoint, and whether one runs
  lane        \* each item's lane

vars == <<nocommit, closeGate, main, stop, sprint, item, checkout, tracked,
          landings, land, cp, lane>>
backlog == <<sprint, item>>
fixed == <<nocommit, closeGate>>

Tree == [Files -> SUBSET (Items \cup {Hand})]

(* A lane: where it stands (pc), the run's stage, the base its copy stands *)
(* on and whether its own work is in it; the merge a turn is owed for,     *)
(* with the base and the place to put back; the landings taken up (seen);  *)
(* the rounds spent; the run's Verified and Checked; the tree the verify   *)
(* step and the workspace's suite last passed over.                        *)
Lane == [pc : {"idle", "copy", "bound", "step", "reverify", "land", "commit",
               "look", "looking", "end", "file", "out", "over", "gone"},
         stage : {"build", "verify", "review", "fix", "commit",
                  "done", "blocked"},
         base : Tree, wrote : BOOLEAN,
         merge : SUBSET [at : Nat, base : Tree], seen : Nat,
         round : 0..Rounds, reconciled : 0..Rounds,
         verdict : BOOLEAN, checked : BOOLEAN,
         verified : SUBSET Tree, gated : SUBSET Tree,
         landed : BOOLEAN, kept : BOOLEAN]

Idle == [pc |-> "idle", stage |-> "build", base |-> [f \in Files |-> {}],
         wrote |-> FALSE, merge |-> {}, seen |-> 0, round |-> 0,
         reconciled |-> 0, verdict |-> FALSE, checked |-> FALSE,
         verified |-> {}, gated |-> {}, landed |-> FALSE, kept |-> FALSE]

Init ==
  /\ nocommit \in NoCommits /\ closeGate \in CloseGates
  /\ main = "loop" /\ stop = FALSE
  /\ sprint = [attempts |-> {}, lanes |-> {}, done |-> {}, blocked |-> {},
               halted |-> FALSE, crashes |-> 0]
  /\ item = [i \in Items |-> "open"]
  /\ checkout = [f \in Files |-> {}] /\ tracked = Files \ Created
  /\ landings = <<>> /\ land = Free
  /\ cp = [landed |-> 0, running |-> FALSE]
  /\ lane = [i \in Items |-> Idle]
-----------------------------------------------------------------------------
(***************************************************************************)
(* The run's own transitions, on a lane's record                           *)
(***************************************************************************)
Copy(l, r) ==
  [f \in Files |-> r.base[f] \cup {i \in {l} : r.wrote /\ f \in Writes[l]}]

At(r, stage) == [r EXCEPT !.stage = stage, !.pc = "bound"]

ToVerify(r) == [At(r, "verify") EXCEPT !.verdict = FALSE]

\* A run that is over: what its lane's end reads is kept.
Blocked(r) == [Idle EXCEPT !.stage = "blocked", !.pc = "end", !.base = r.base,
                           !.wrote = r.wrote, !.merge = r.merge, !.kept = r.kept]

\* A change of the copy: what was verified is another tree.
Rewritten(r) == [r EXCEPT !.wrote = TRUE, !.verified = {}, !.gated = {}]

\* Mutants: a round too many, and rounds that are never counted.
RemediateOnceMore(r) ==
  IF r.round > Rounds THEN Blocked(r)
                      ELSE [At(r, "fix") EXCEPT !.round = @ + 1]

RemediateUncounted(r) == At(r, "fix")

Remediate(r) ==
  IF r.round >= Rounds THEN Blocked(r)
                       ELSE [At(r, "fix") EXCEPT !.round = @ + 1]

\* A fix round the run was about to take is given back.
Reconcile(r) ==
  IF r.reconciled >= Rounds THEN Blocked(r)
  ELSE [At(r, "fix") EXCEPT !.reconciled = @ + 1,
          !.round = IF r.stage = "fix" /\ @ > 0 THEN @ - 1 ELSE @]

\* Mutant: a carry leaves the verdict as it was.
VerifyAgainNever(r) == [r EXCEPT !.pc = "step"]

VerifyAgain(r) ==
  IF r.verdict /\ r.stage # "fix"
    THEN [ToVerify(r) EXCEPT !.checked = FALSE]
    ELSE [r EXCEPT !.pc = "step"]

\* The gate is skipped where the turn's own close passed it (Checked).
Verified(l, r) ==
  [r EXCEPT !.verified = {Copy(l, r)}, !.checked = FALSE,
            !.gated = IF r.checked THEN @ ELSE {Copy(l, r)}]

\* Mutant: the copy is left with the merge.
PutBackNothing(r) == r

PutBack(r) ==
  LET m == CHOOSE m \in r.merge : TRUE
  IN  IF r.merge = {} THEN r
      ELSE [r EXCEPT !.base = m.base, !.seen = m.at, !.merge = {}]

(***************************************************************************)
(* catchUpLocked: the landings the lane has not taken up, one after the    *)
(* other.  A landing that meets the lane's own work may settle, or leave   *)
(* regions for a turn; any landing may be refused by the copy.  Nothing is *)
(* taken up while a turn is owed.                                          *)
(***************************************************************************)
Carried(r, n) ==
  [r EXCEPT !.seen = @ + n,
     !.base = [f \in Files |-> @[f] \cup
       {landings[j] : j \in {k \in r.seen + 1 .. r.seen + n :
                               f \in Writes[landings[k]]}}]]

MeetsWork(l, r, k) == r.wrote /\ Writes[l] \cap Writes[k] # {}

CatchUps(l) ==
  LET r    == lane[l]
      left == IF r.merge = {} THEN Len(landings) - r.seen ELSE 0
      Met(n) == [Carried(r, n + 1) EXCEPT
                   !.merge = {[at |-> r.seen + n, base |-> Carried(r, n).base]}]
  IN  {[out |-> "carried", n |-> left, r |-> Carried(r, left)]}
      \cup {[out |-> "refused", n |-> n, r |-> Carried(r, n)] : n \in 0..left - 1}
      \cup {[out |-> "met", n |-> n, r |-> Met(n)] :
              n \in {k \in 0..left - 1 : MeetsWork(l, r, landings[r.seen + k + 1])}}
-----------------------------------------------------------------------------
(***************************************************************************)
(* The main loop                                                           *)
(***************************************************************************)
\* Mutant: an item is ready once nothing it waits for is being worked.
ReadyOnceEnded(i) ==
  /\ item[i] = "open" /\ i \notin sprint.attempts
  /\ \A d \in Needs[i] : item[d] \in {"done", "blocked"}

Ready(i) ==
  /\ item[i] = "open" /\ i \notin sprint.attempts
  /\ \A d \in Needs[i] : item[d] = "done"

Overlaps(i) == \E k \in sprint.lanes : Touches[i] \cap Touches[k] # {}

Fits(i) == IF Touches[i] = {} THEN sprint.lanes = {} ELSE ~Overlaps(i)

\* An item that declares nothing is not passed while lanes run.
Stops(i) == Touches[i] = {} /\ sprint.lanes # {}

Takeable(i) ==
  /\ ~sprint.halted /\ Cardinality(sprint.lanes) < Parallel
  /\ \A k \in sprint.lanes : Touches[k] # {}
  /\ \E n \in DOMAIN Order :
       /\ Order[n] = i /\ Ready(i) /\ Fits(i)
       /\ \A m \in 1..n - 1 :
            Ready(Order[m]) => ~Fits(Order[m]) /\ ~Stops(Order[m])

\* Mutant: a checkpoint does not hold the taking of items.
LoopingOn == main = "loop" /\ ~stop

Looping == main = "loop" /\ ~stop /\ ~cp.running

Take(i) ==
  /\ Looping /\ Takeable(i)
  /\ sprint' = [sprint EXCEPT !.attempts = @ \cup {i}, !.lanes = @ \cup {i}]
  /\ lane' = [lane EXCEPT ![i].pc = "copy"]
  /\ UNCHANGED <<fixed, main, stop, item, checkout, tracked, landings, land, cp>>

\* The inner loop ends; the outer one waits for a result, or is over.
TakeNone ==
  /\ main = "loop" /\ (Looping => \A i \in Items : ~Takeable(i))
  /\ main' = IF sprint.lanes = {} THEN "over" ELSE "wait"
  /\ UNCHANGED <<fixed, stop, backlog, checkout, tracked, landings, land, cp, lane>>

Result(l) ==
  /\ main = "wait" /\ lane[l].pc = "out"
  /\ main' = "loop"
  /\ lane' = [lane EXCEPT ![l].pc = "over"]
  /\ sprint' = IF lane[l].stage = "done"
       THEN [sprint EXCEPT !.lanes = @ \ {l}, !.done = @ \cup {l}]
       ELSE [sprint EXCEPT !.lanes = @ \ {l}, !.blocked = @ \cup {l}]
  /\ UNCHANGED <<fixed, stop, item, checkout, tracked, landings, land, cp>>

Stop ==
  /\ main \in {"loop", "wait"} /\ ~stop
  /\ stop' = TRUE
  /\ UNCHANGED <<fixed, main, backlog, checkout, tracked, landings, land, cp, lane>>

\* The process dies: its lanes, locks and counts go with it.
Crash ==
  /\ main \in {"loop", "wait"} /\ sprint.crashes < Crashes
  /\ main' = "dead" /\ stop' = FALSE
  /\ sprint' = [sprint EXCEPT !.crashes = @ + 1]
  /\ landings' = <<>> /\ land' = Free
  /\ cp' = [landed |-> 0, running |-> FALSE]
  /\ lane' = [i \in Items |-> IF i \in sprint.lanes
                                THEN [Idle EXCEPT !.pc = "gone"] ELSE lane[i]]
  /\ UNCHANGED <<fixed, item, checkout, tracked>>

\* The next process answers for the lanes the dead one left.
Restart ==
  /\ main = "dead"
  /\ main' = "loop"
  /\ item' = [i \in Items |-> IF i \in sprint.lanes /\ item[i] # "done"
                                THEN "blocked" ELSE item[i]]
  /\ sprint' = [sprint EXCEPT !.lanes = {}, !.blocked = @ \cup sprint.lanes]
  /\ UNCHANGED <<fixed, stop, checkout, tracked, landings, land, cp, lane>>

\* Somebody outside the sprint edits a file of the checkout.
HandEdit(f) ==
  /\ main # "over" /\ Hand \notin checkout[f]
  /\ checkout' = [checkout EXCEPT ![f] = @ \cup {Hand}]
  /\ UNCHANGED <<fixed, main, stop, backlog, tracked, landings, land, cp, lane>>
-----------------------------------------------------------------------------
(***************************************************************************)
(* A lane's steps                                                          *)
(***************************************************************************)
Becomes(l, r) == lane' = [lane EXCEPT ![l] = r]
Still == UNCHANGED <<fixed, main, stop, sprint, checkout, tracked, landings, cp>>
OnStep(l, stage) == lane[l].pc = "step" /\ lane[l].stage = stage

\* A copy is the last commit and what git diff reports over it: a file git
\* does not know is not in it.
Seed == [f \in Files |-> IF f \in tracked THEN checkout[f] ELSE {}]

MakeCopy(l) ==
  /\ lane[l].pc = "copy" /\ land = Free
  /\ \/ /\ Becomes(l, [lane[l] EXCEPT !.pc = "bound", !.base = Seed,
                                      !.seen = Len(landings)])
        /\ item' = [item EXCEPT ![l] = "in_progress"]
     \/ /\ Becomes(l, [lane[l] EXCEPT !.pc = "out", !.stage = "blocked"])
        /\ item' = [item EXCEPT ![l] = "blocked"]
  /\ Still /\ UNCHANGED land

\* The item's wall clock ran out before the next step.
TimeOut(l) ==
  /\ lane[l].pc = "bound"
  /\ Becomes(l, Blocked(lane[l]))
  /\ Still /\ UNCHANGED <<item, land>>

Boundary(l) ==
  /\ lane[l].pc = "bound" /\ land = Free
  /\ \E c \in CatchUps(l) :
       \/ c.out = "refused" /\ Becomes(l, Blocked(c.r))
       \/ c.out = "met" /\ Becomes(l, Reconcile(c.r))
       \/ /\ c.out = "carried"
          /\ Becomes(l, IF c.n > 0 THEN VerifyAgain(c.r)
                                   ELSE [c.r EXCEPT !.pc = "step"])
  /\ Still /\ UNCHANGED <<item, land>>

\* A turn that writes; its process may run the workspace's suite as it
\* closes, and only a pass is taken.
Build(l) ==
  /\ OnStep(l, "build")
  /\ \/ /\ ~stop
        /\ LET r == Rewritten(lane[l]) IN
           \/ Becomes(l, ToVerify([r EXCEPT !.checked = FALSE]))
           \/ /\ closeGate
              /\ Becomes(l, ToVerify([r EXCEPT !.checked = TRUE,
                                               !.gated = {Copy(l, r)}]))
     \/ \E w \in BOOLEAN : Becomes(l, Blocked([lane[l] EXCEPT !.wrote = w]))
  /\ Still /\ UNCHANGED <<item, land>>

VerifyStep(l) ==
  /\ OnStep(l, "verify")
  /\ LET r == lane[l] IN
     \/ /\ stop => r.checked
        /\ Becomes(l, [At(Verified(l, r), "review") EXCEPT !.verdict = TRUE])
     \/ Becomes(l, Remediate([r EXCEPT !.checked = FALSE]))
     \/ Becomes(l, Blocked(r))
  /\ Still /\ UNCHANGED <<item, land>>

\* The reading of the change and, where it is clean, the turn that words the
\* commit: both only read.
Review(l) ==
  /\ OnStep(l, "review")
  /\ LET r == lane[l] IN
     \/ /\ ~stop
        /\ Becomes(l, IF nocommit THEN [r EXCEPT !.stage = "done", !.pc = "end"]
                                  ELSE At(r, "commit"))
     \/ ~stop /\ Becomes(l, Remediate(r))
     \/ Becomes(l, Blocked(r))
  /\ Still /\ UNCHANGED <<item, land>>

\* A fix round, or the turn owed for a merge, which is judged on the copy it
\* left before its answer is read.
Fix(l) ==
  /\ OnStep(l, "fix")
  /\ LET r == lane[l] IN
     \/ /\ ~stop /\ (r.merge # {} => land = Free)
        /\ Becomes(l, ToVerify([Rewritten(r) EXCEPT !.merge = {}]))
     \/ r.merge # {} /\ land = Free /\ Becomes(l, Blocked(PutBack(r)))
     \/ Becomes(l, Blocked(r))
  /\ Still /\ UNCHANGED <<item, land>>

-----------------------------------------------------------------------------
(***************************************************************************)
(* Landing.  A committing lane fails back into its run, one without a      *)
(* commit has no turn left and blocks.                                     *)
(***************************************************************************)
Landing(l) ==
  \/ OnStep(l, "commit")
  \/ /\ lane[l].pc = "end" /\ lane[l].stage = "done" /\ ~lane[l].landed

Fails(r) == IF r.stage = "done" THEN [Blocked(r) EXCEPT !.pc = "file"]
                                ELSE Blocked(r)

TakeLandLock(l) ==
  /\ Landing(l) /\ land = Free
  /\ \E c \in CatchUps(l) :
       \/ c.out = "refused" /\ Becomes(l, Fails(c.r)) /\ UNCHANGED land
       \/ /\ c.out = "met" /\ UNCHANGED land
          /\ Becomes(l, IF c.r.stage = "done" THEN Fails(PutBack(c.r))
                                              ELSE Reconcile(c.r))
       \/ /\ c.out = "carried" /\ land' = l
          /\ Becomes(l, IF c.n > 0
               THEN [c.r EXCEPT !.pc = "reverify", !.checked = FALSE]
               ELSE [c.r EXCEPT !.pc = "land"])
  /\ Still /\ UNCHANGED item

Reverify(l) ==
  /\ lane[l].pc = "reverify"
  /\ LET r == lane[l] IN
     \/ /\ ~stop /\ UNCHANGED land
        /\ Becomes(l, [Verified(l, r) EXCEPT !.pc = "land"])
     \/ /\ land' = Free
        /\ Becomes(l, IF r.stage = "done" THEN Fails(r) ELSE Remediate(r))
     \/ land' = Free /\ Becomes(l, Fails(r))
  /\ Still /\ UNCHANGED item

\* The checkout still holds what the copy's base holds wherever the patch
\* writes.
Plain(l) == \A f \in Writes[l] : checkout[f] = lane[l].base[f]

Lands(l) ==
  /\ lane[l].pc = "land" /\ Plain(l)
  /\ checkout' = [f \in Files |-> IF f \in Writes[l] THEN Copy(l, lane[l])[f]
                                                     ELSE checkout[f]]
  /\ landings' = Append(landings, l)
  /\ cp' = [cp EXCEPT !.landed = @ + 1]
  /\ Becomes(l, [lane[l] EXCEPT !.landed = TRUE, !.seen = Len(landings'),
        !.pc = IF lane[l].stage = "commit" THEN "commit" ELSE "look"])
  /\ UNCHANGED <<fixed, main, stop, backlog, tracked, land>>

\* The checkout moved under a file of the patch, or the patch would not apply.
LandRefused(l) ==
  /\ lane[l].pc = "land"
  /\ Becomes(l, Fails([lane[l] EXCEPT !.kept = ~Plain(l)]))
  /\ land' = Free
  /\ Still /\ UNCHANGED item

\* The commit itself: refused, before or after its files are added, the
\* patch stays on the checkout uncommitted.
Commit(l) ==
  /\ lane[l].pc = "commit"
  /\ \/ /\ Becomes(l, [lane[l] EXCEPT !.pc = "look"]) /\ UNCHANGED land
        /\ tracked' = tracked \cup Writes[l]
     \/ /\ Becomes(l, Blocked(lane[l])) /\ land' = Free
        /\ tracked' \in {tracked, tracked \cup Writes[l]}
  /\ UNCHANGED <<fixed, main, stop, backlog, checkout, landings, cp>>

CheckpointDue == Every > 0 /\ cp.landed >= Every /\ ~stop

Landed(r) == [r EXCEPT !.stage = "done",
                       !.pc = IF r.stage = "commit" THEN "end" ELSE "file"]

NoCheckpoint(l) ==
  /\ lane[l].pc = "look" /\ ~CheckpointDue
  /\ Becomes(l, Landed(lane[l]))
  /\ land' = Free
  /\ Still /\ UNCHANGED item

CheckpointBegins(l) ==
  /\ lane[l].pc = "look" /\ CheckpointDue
  /\ cp' = [landed |-> 0, running |-> TRUE]
  /\ Becomes(l, [lane[l] EXCEPT !.pc = "looking"])
  /\ UNCHANGED <<fixed, main, stop, backlog, checkout, tracked, landings, land>>

\* The suite passed, or was stopped, or the sprint takes nothing further.
CheckpointEnds(l) ==
  /\ lane[l].pc = "looking"
  /\ cp' = [cp EXCEPT !.running = FALSE]
  /\ \/ UNCHANGED sprint
     \/ ~stop /\ sprint' = [sprint EXCEPT !.halted = TRUE]
  /\ Becomes(l, Landed(lane[l]))
  /\ land' = Free
  /\ UNCHANGED <<fixed, main, stop, item, checkout, tracked, landings>>
-----------------------------------------------------------------------------
(***************************************************************************)
(* The end of a lane                                                       *)
(***************************************************************************)
\* What is left of a lane whose item is over.
Out(r) == [Idle EXCEPT !.pc = "out", !.stage = r.stage, !.wrote = r.wrote,
                       !.kept = r.kept, !.merge = r.merge]

\* The run is over: a merge still owed its turn is put back, and a lane the
\* stop ended leaves its item open.
End(l) ==
  /\ lane[l].pc = "end" /\ ~Landing(l) /\ (lane[l].merge # {} => land = Free)
  /\ LET r == PutBack(lane[l]) IN
     IF stop /\ r.stage # "done"
       THEN /\ land = Free
            /\ Becomes(l, Out([r EXCEPT !.kept = r.wrote]))
            /\ item' = [item EXCEPT ![l] = "open"]
       ELSE Becomes(l, [r EXCEPT !.pc = "file"]) /\ UNCHANGED item
  /\ Still /\ UNCHANGED land

\* The item is filed: archived, or open again where the archive failed, or
\* blocked with the copy kept.
File(l) ==
  /\ lane[l].pc = "file" /\ land = Free
  /\ LET r == lane[l] IN
     IF r.stage = "done"
       THEN \E to \in {"done", "open"} :
              item' = [item EXCEPT ![l] = to] /\ Becomes(l, Out(r))
       ELSE /\ item' = [item EXCEPT ![l] = "blocked"]
            /\ Becomes(l, Out([r EXCEPT !.kept = @ \/ r.wrote]))
  /\ Still /\ UNCHANGED land
-----------------------------------------------------------------------------
LaneStep(l) ==
  \/ MakeCopy(l) \/ Boundary(l) \/ Build(l) \/ VerifyStep(l) \/ Review(l)
  \/ Fix(l) \/ TakeLandLock(l) \/ Reverify(l) \/ Lands(l)
  \/ LandRefused(l) \/ Commit(l) \/ NoCheckpoint(l) \/ CheckpointBegins(l)
  \/ CheckpointEnds(l) \/ End(l) \/ File(l)

MainStep == TakeNone \/ \E i \in Items : Take(i) \/ Result(i)

Over == main = "over" /\ UNCHANGED vars

Next ==
  \/ MainStep \/ Stop \/ Crash \/ Restart \/ Over
  \/ \E l \in Items : LaneStep(l) \/ TimeOut(l)
  \/ \E f \in Hands : HandEdit(f)

Spec == Init /\ [][Next]_vars

(* As long as the main loop or some lane can go on, one of them does;      *)
(* nobody has to stop the sprint, kill or restart its process, let an      *)
(* item's clock run out or edit the checkout.                              *)
Fairness == WF_vars(MainStep \/ \E l \in Items : LaneStep(l))

FairSpec == Spec /\ Fairness
-----------------------------------------------------------------------------
(***************************************************************************)
(* Properties                                                              *)
(***************************************************************************)
\* The values the variables take.
TypeOK ==
  /\ nocommit \in BOOLEAN /\ closeGate \in BOOLEAN /\ stop \in BOOLEAN
  /\ main \in {"loop", "wait", "over", "dead"}
  /\ sprint \in [attempts : SUBSET Items, lanes : SUBSET Items,
                 done : SUBSET Items, blocked : SUBSET Items,
                 halted : BOOLEAN, crashes : 0..Crashes]
  /\ item \in [Items -> {"open", "in_progress", "blocked", "done"}]
  /\ checkout \in Tree /\ tracked \subseteq Files
  /\ landings \in Seq(Items)
  /\ land \in Items \cup {Free}
  /\ cp \in [landed : Nat, running : BOOLEAN]
  /\ lane \in [Items -> Lane]

HasLanded(l) == \A f \in Writes[l] : l \in checkout[f]

\* The tree t is the checkout but for what a hand outside changed in files
\* the lane's patch does not touch.
LandsAs(l, t) == \A f \in Files :
  IF f \in Writes[l] THEN checkout'[f] = t[f]
                     ELSE checkout'[f] \ {Hand} = t[f] \ {Hand}

(* A landing leaves on the checkout the very tree the lane's verify step   *)
(* last passed over, whatever landed between that verify and the landing   *)
(* (laneCommit, landUncommitted, LandPlain).                               *)
LandsVerified == [][\A l \in Items :
  Lands(l) => \E t \in lane[l].verified : LandsAs(l, t)]_vars

(* "A lane commits only a tree its gate passed": the workspace's suite     *)
(* passed over the tree that lands, in the lane's close or its verify.     *)
LandsGated == [][\A l \in Items :
  Lands(l) => \E t \in lane[l].gated : LandsAs(l, t)]_vars

(* No work is lost: when an item's lane is over, what it wrote is on the   *)
(* checkout, or in a kept copy that holds no mark of a merge a turn did    *)
(* not reconcile; and an archived item's work is on the checkout.          *)
WorkKept == \A l \in Items :
  /\ lane[l].pc \in {"out", "over"} /\ lane[l].wrote =>
       HasLanded(l) \/ (lane[l].kept /\ lane[l].merge = {})
  /\ item[l] = "done" \/ l \in sprint.done => HasLanded(l)

(* An item is worked over what the items it waits for landed, also after   *)
(* a merge put back and in the process after a crash.                      *)
DependentsBuildOnLanded == \A l \in Items :
  lane[l].pc \notin {"idle", "copy", "gone", "out", "over"} =>
    \A d \in Needs[l] : \A f \in Writes[d] : d \in lane[l].base[f]

(* While a checkpoint's suite runs on the checkout, no item is taken,      *)
(* nothing lands, and no copy takes anything up from the checkout.         *)
CheckpointStill == [][cp.running /\ main' # "dead" =>
  /\ sprint'.attempts = sprint.attempts /\ landings' = landings
  /\ \A l \in Items : lane'[l].base = lane[l].base]_vars

(* A sprint ends: no lane, lock or round keeps the loop from its end, for  *)
(* as long as the process lives; and no item, not even of the process      *)
(* before a crash, is then left in progress with nothing that works it.    *)
SprintEnds == main = "loop" ~>
  \/ main = "over" /\ \A i \in Items : item[i] # "in_progress"
  \/ main = "dead"
=============================================================================
