----------------------------- MODULE LanesProofs -----------------------------
(***************************************************************************)
(* The invariants of a parallel sprint, for any items, files, lanes and    *)
(* bounds.  What lands was verified because three things agree all along a *)
(* lane's run: its copy with what its verify passed over (Shapes), its     *)
(* base and the landings it has still to take up with the checkout         *)
(* (Syncs), and its place with the land lock (Locks).                      *)
(***************************************************************************)
EXTENDS Lanes, TLAPS

\* The places of a lane that holds the land lock, that works on its copy, and
\* that has a copy.
Holding == {"reverify", "land", "commit", "look", "looking"}
Turning == {"bound", "step"}
Working == Holding \cup Turning \cup {"end", "file"}

\* An item's work is done and waits to be landed without a commit.
Uncommitted(r) == r.pc = "end" /\ r.stage = "done" /\ ~r.landed

\* A lane's record at each of its places: a merge is owed its turn, or its run
\* is over; what is past verify was verified as it stands.
Shape(l, r) ==
  /\ r.pc \in {"idle", "copy"} => r.stage = "build" /\ ~r.wrote /\ r.merge = {}
  /\ r.pc \in Turning => r.stage \in {"build", "verify", "review", "fix", "commit"}
  /\ r.pc \in Holding => r.stage \in {"commit", "done"}
  /\ r.pc = "commit" => r.stage = "commit"
  /\ r.pc \in {"end", "file", "out", "over"} => r.stage \in {"done", "blocked"}
  /\ r.stage = "build" => ~r.verdict
  /\ r.stage \notin {"build", "blocked"} => r.wrote
  /\ r.merge # {} => r.stage \in {"fix", "blocked"} /\ r.pc \notin {"file", "out", "over"}
  /\ r.pc \in {"out", "over"} /\ r.stage = "blocked" /\ r.wrote => r.kept
  /\ r.landed => \/ r.pc \in {"commit", "look", "looking"}
                 \/ r.pc \in {"end", "file"} /\ r.stage = "done"
  /\ r.pc \in {"commit", "look", "looking"} => r.landed
  /\ r.pc = "file" /\ r.stage = "done" => r.landed
  /\ r.pc \in Turning /\ r.stage \in {"review", "commit"} =>
       r.verdict /\ r.verified = {Copy(l, r)}
  /\ r.pc = "land" \/ Uncommitted(r) => r.verified = {Copy(l, r)}

Shapes == \A l \in Items : Shape(l, lane[l])

\* One lane holds the land lock, and keeps it while a checkpoint runs.
Locks ==
  /\ \A l \in Items : lane[l].pc \in Holding <=> land = l
  /\ cp.running => \E l \in Items : lane[l].pc = "looking"

\* The sprint file names every lane that runs, and a dead process has none.
Filed ==
  /\ sprint.lanes \subseteq sprint.attempts
  /\ \A l \in Items : /\ lane[l].pc = "idle" <=> l \notin sprint.attempts
                      /\ lane[l].pc \notin {"idle", "over", "gone"} => l \in sprint.lanes
  /\ main = "dead" => \A l \in Items : lane[l].pc \in {"idle", "over", "gone"}

\* What counts as done is on the checkout, and what an item waits for is done
\* before it is taken.
Counts(l) ==
  \/ item[l] = "done" \/ l \in sprint.done \/ lane[l].landed
  \/ lane[l].pc \in {"out", "over"} /\ lane[l].stage = "done"

Archived ==
  \A l \in Items :
    /\ item[l] = "done" => lane[l].pc \in {"out", "over", "gone"}
    /\ Counts(l) => HasLanded(l)
    /\ lane[l].pc = "copy" => \A d \in Needs[l] : item[d] = "done"

IInv == TypeOK /\ Shapes /\ Locks /\ Filed /\ Archived

\* The landings after the first at that changed the file.
Left(at, f) ==
  {landings[k] : k \in {j \in at + 1 .. Len(landings) : f \in Writes[landings[j]]}}

\* The files git knows from the start.
Known == Files \ Created

\* Where git knows the files, a tree and the landings it lacks make the
\* checkout, but for a hand's changes.
Synced(base, at) ==
  /\ at \in 0..Len(landings)
  /\ \A f \in Known : (base[f] \cup Left(at, f)) \ {Hand} = checkout[f] \ {Hand}

\* A tree holds the work of all an item waits for, in the files git knows.
Built(l, base) == \A d \in Needs[l] : \A f \in Writes[d] \cap Known : d \in base[f]

\* The places a copy still takes landings up from, or lands from.
Open(r) == r.pc \in Turning \cup {"reverify", "land"} \/ Uncommitted(r)

\* In the files git knows, a copy differs from the checkout by the landings it
\* has not taken up; a lane that lands has none.
Sync(l, r) ==
  /\ Open(r) => Synced(r.base, r.seen)
  /\ r.pc \in {"reverify", "land"} => r.seen = Len(landings)
  /\ r.pc \in Working => Built(l, r.base) /\ \A m \in r.merge : Built(l, m.base)

Syncs == Known \subseteq tracked /\ \A l \in Items : Sync(l, lane[l])


-----------------------------------------------------------------------------
(***************************************************************************)
(* What each transition of a run does to its record, for the fields the    *)
(* invariants read.                                                        *)
(***************************************************************************)
SameCopy(q, r) ==
  q.base = r.base /\ q.wrote = r.wrote /\ q.merge = r.merge /\ q.seen = r.seen

SamePass(q, r) == q.verdict = r.verdict /\ q.verified = r.verified

SameEnd(q, r) == q.landed = r.landed /\ q.kept = r.kept

\* A lane begins with no work and no merge.
LEMMA IdleIs ==
  /\ Idle \in Lane /\ Idle.pc = "idle" /\ Idle.stage = "build" /\ ~Idle.wrote
  /\ Idle.merge = {} /\ Idle.seen = 0 /\ ~Idle.verdict
  /\ ~Idle.landed /\ ~Idle.kept
BY LanesAssumption DEF Idle, Lane, Tree

\* A stage is entered at its boundary.
LEMMA AtIs ==
  ASSUME NEW r \in Lane,
         NEW s \in {"build", "verify", "review", "fix", "commit", "done", "blocked"}
  PROVE  LET q == At(r, s) IN
         /\ q \in Lane /\ q.pc = "bound" /\ q.stage = s
         /\ SameCopy(q, r) /\ SamePass(q, r) /\ SameEnd(q, r)
         /\ q.round = r.round /\ q.reconciled = r.reconciled
BY DEF At, Lane, SameCopy, SamePass, SameEnd

\* A run goes to its verify step.
LEMMA ToVerifyIs ==
  ASSUME NEW r \in Lane
  PROVE  LET q == ToVerify(r) IN
         /\ q \in Lane /\ q.pc = "bound" /\ q.stage = "verify"
         /\ SameCopy(q, r) /\ SameEnd(q, r)
<1> DEFINE a == At(r, "verify")
<1>1. a \in Lane /\ ToVerify(r) = [a EXCEPT !.verdict = FALSE]
  BY AtIs DEF ToVerify
<1> HIDE DEF a
<1>2. LET q == [a EXCEPT !.verdict = FALSE] IN
      q \in Lane /\ q.pc = a.pc /\ q.stage = a.stage /\ SameCopy(q, a) /\ SameEnd(q, a)
  BY <1>1 DEF Lane, SameCopy, SameEnd
<1> QED  BY <1>1, <1>2, AtIs DEF a, SameCopy, SameEnd

\* A blocked run keeps its copy and whether that is kept.
LEMMA BlockedIs ==
  ASSUME NEW r \in Lane
  PROVE  LET q == Blocked(r) IN
         /\ q \in Lane /\ q.pc = "end" /\ q.stage = "blocked"
         /\ q.base = r.base /\ q.wrote = r.wrote /\ q.merge = r.merge
         /\ ~q.landed /\ q.kept = r.kept
BY IdleIs, ZenonT(40) DEF Blocked, Lane

\* A turn that writes leaves the work in the copy.
LEMMA RewrittenIs ==
  ASSUME NEW r \in Lane
  PROVE  LET q == Rewritten(r) IN
         /\ q \in Lane /\ q.pc = r.pc /\ q.stage = r.stage /\ q.wrote
         /\ q.base = r.base /\ q.merge = r.merge /\ q.seen = r.seen /\ SameEnd(q, r)
BY DEF Rewritten, Lane, SameEnd

\* A remediation and a reconciliation go on with a fix, or block.
Fixes(q, r) ==
  /\ q \in Lane
  /\ \/ /\ q.pc = "bound" /\ q.stage = "fix"
        /\ SameCopy(q, r) /\ SamePass(q, r) /\ SameEnd(q, r)
     \/ /\ q.pc = "end" /\ q.stage = "blocked"
        /\ q.base = r.base /\ q.wrote = r.wrote /\ q.merge = r.merge
        /\ ~q.landed /\ q.kept = r.kept

LEMMA RemediateIs ==
  ASSUME NEW r \in Lane
  PROVE  Fixes(Remediate(r), r)
<1>1. CASE r.round >= Rounds
  <2>1. Remediate(r) = Blocked(r)
    BY <1>1 DEF Remediate
  <2> QED  BY <2>1, BlockedIs DEF Fixes
<1>2. CASE ~(r.round >= Rounds)
  <2> DEFINE a == At(r, "fix")
  <2>1. a \in Lane /\ a.round = r.round
    BY AtIs
  <2>2. r.round + 1 \in 0..Rounds
    BY <1>2, LanesAssumption DEF Lane
  <2>3. Remediate(r) = [a EXCEPT !.round = a.round + 1]
    BY <1>2 DEF Remediate
  <2>4. Remediate(r) = [a EXCEPT !.round = r.round + 1]
    BY <2>1, <2>3
  <2> HIDE DEF a
  <2>5. LET q == [a EXCEPT !.round = r.round + 1] IN
        /\ q \in Lane /\ q.pc = a.pc /\ q.stage = a.stage
        /\ SameCopy(q, a) /\ SamePass(q, a) /\ SameEnd(q, a)
    BY <2>1, <2>2 DEF Lane, SameCopy, SamePass, SameEnd
  <2> QED
    BY <2>4, <2>5, AtIs DEF a, Fixes, SameCopy, SamePass, SameEnd
<1> QED  BY <1>1, <1>2

LEMMA ReconcileIs ==
  ASSUME NEW r \in Lane
  PROVE  Fixes(Reconcile(r), r)
<1>1. CASE r.reconciled >= Rounds
  <2>1. Reconcile(r) = Blocked(r)
    BY <1>1 DEF Reconcile
  <2> QED  BY <2>1, BlockedIs DEF Fixes
<1>2. CASE ~(r.reconciled >= Rounds)
  <2> DEFINE a == At(r, "fix")
             n == IF r.stage = "fix" /\ r.round > 0 THEN r.round - 1 ELSE r.round
  <2>1. a \in Lane /\ a.round = r.round /\ a.reconciled = r.reconciled
    BY AtIs
  <2>2. r.reconciled + 1 \in 0..Rounds /\ n \in 0..Rounds
    BY <1>2, LanesAssumption DEF Lane
  <2>3. Reconcile(r) = [a EXCEPT !.reconciled = r.reconciled + 1, !.round = n]
    BY <1>2, <2>1 DEF Reconcile, Lane
  <2> HIDE DEF a, n
  <2>4. LET q == [a EXCEPT !.reconciled = r.reconciled + 1, !.round = n] IN
        /\ q \in Lane /\ q.pc = a.pc /\ q.stage = a.stage
        /\ SameCopy(q, a) /\ SamePass(q, a) /\ SameEnd(q, a)
    BY <2>1, <2>2 DEF Lane, SameCopy, SamePass, SameEnd
  <2> QED
    BY <2>3, <2>4, AtIs DEF a, Fixes, SameCopy, SamePass, SameEnd
<1> QED  BY <1>1, <1>2

\* A lane that carried something verifies again what was verified.
LEMMA VerifyAgainIs ==
  ASSUME NEW r \in Lane
  PROVE  LET q == VerifyAgain(r) IN
         /\ q \in Lane /\ SameCopy(q, r) /\ SameEnd(q, r)
         /\ \/ q.pc = "bound" /\ q.stage = "verify" /\ r.verdict /\ r.stage # "fix"
            \/ /\ q.pc = "step" /\ q.stage = r.stage /\ SamePass(q, r)
               /\ ~r.verdict \/ r.stage = "fix"
<1>1. CASE r.verdict /\ r.stage # "fix"
  <2> DEFINE a == ToVerify(r)
  <2>1. a \in Lane /\ VerifyAgain(r) = [a EXCEPT !.checked = FALSE]
    BY <1>1, ToVerifyIs DEF VerifyAgain
  <2> HIDE DEF a
  <2>2. LET q == [a EXCEPT !.checked = FALSE] IN
        q \in Lane /\ q.pc = a.pc /\ q.stage = a.stage /\ SameCopy(q, a) /\ SameEnd(q, a)
    BY <2>1 DEF Lane, SameCopy, SameEnd
  <2> QED  BY <1>1, <2>1, <2>2, ToVerifyIs DEF a, SameCopy, SameEnd
<1>2. CASE ~(r.verdict /\ r.stage # "fix")
  <2>1. VerifyAgain(r) = [r EXCEPT !.pc = "step"]
    BY <1>2 DEF VerifyAgain
  <2> QED  BY <1>2, <2>1 DEF Lane, SameCopy, SamePass, SameEnd
<1> QED  BY <1>1, <1>2

\* A copy in a run's record is a tree, and reads the base and the work only.
LEMMA CopyIs ==
  ASSUME NEW l \in Items, NEW r \in Lane
  PROVE  /\ Copy(l, r) \in Tree
         /\ \A q : q.base = r.base /\ q.wrote = r.wrote => Copy(l, q) = Copy(l, r)
BY DEF Copy, Lane, Tree

\* What passes is the copy as it stands.
LEMMA VerifiedIs ==
  ASSUME NEW l \in Items, NEW r \in Lane
  PROVE  LET q == Verified(l, r) IN
         /\ q \in Lane /\ q.pc = r.pc /\ q.stage = r.stage
         /\ SameCopy(q, r) /\ SameEnd(q, r) /\ q.verified = {Copy(l, q)}
<1> DEFINE v == {Copy(l, r)}
           g == IF r.checked THEN r.gated ELSE {Copy(l, r)}
<1>1. v \in SUBSET Tree /\ g \in SUBSET Tree
  BY CopyIs DEF Lane
<1>2. Verified(l, r) = [r EXCEPT !.verified = v, !.checked = FALSE, !.gated = g]
  BY DEF Verified, Lane
<1> HIDE DEF v, g
<1>3. LET q == [r EXCEPT !.verified = v, !.checked = FALSE, !.gated = g] IN
      /\ q \in Lane /\ q.pc = r.pc /\ q.stage = r.stage
      /\ SameCopy(q, r) /\ SameEnd(q, r) /\ q.verified = v
  BY <1>1 DEF Lane, SameCopy, SameEnd
<1>4. Copy(l, Verified(l, r)) = Copy(l, r)
  BY <1>2, <1>3, CopyIs DEF SameCopy
<1> QED  BY <1>2, <1>3, <1>4 DEF v

\* Putting a merge back leaves the copy as it was before it.
LEMMA PutBackIs ==
  ASSUME NEW r \in Lane
  PROVE  LET q == PutBack(r) IN
         /\ q \in Lane /\ q.pc = r.pc /\ q.stage = r.stage /\ q.wrote = r.wrote
         /\ q.merge = {} /\ SameEnd(q, r)
         /\ r.merge = {} => q = r
         /\ q.base = r.base \/ \E m \in r.merge : q.base = m.base
<1>1. CASE r.merge = {}  BY <1>1 DEF PutBack, SameEnd
<1>2. CASE r.merge # {}
  <2> DEFINE m == CHOOSE m \in r.merge : TRUE
  <2>1. m \in r.merge
    BY <1>2
  <2>2. m.at \in Nat /\ m.base \in Tree
    BY <2>1 DEF Lane
  <2>3. PutBack(r) = [r EXCEPT !.base = m.base, !.seen = m.at, !.merge = {}]
    BY <1>2 DEF PutBack
  <2> HIDE DEF m
  <2>4. LET q == [r EXCEPT !.base = m.base, !.seen = m.at, !.merge = {}] IN
        /\ q \in Lane /\ q.pc = r.pc /\ q.stage = r.stage /\ q.wrote = r.wrote
        /\ q.merge = {} /\ SameEnd(q, r) /\ q.base = m.base
    BY <2>2 DEF Lane, SameEnd
  <2> QED  BY <1>2, <2>1, <2>3, <2>4
<1> QED  BY <1>1, <1>2

\* A failed landing blocks: its run, or without a commit its item at once.
LEMMA FailsIs ==
  ASSUME NEW r \in Lane
  PROVE  LET q == Fails(r) IN
         /\ q \in Lane /\ q.stage = "blocked"
         /\ q.pc = IF r.stage = "done" THEN "file" ELSE "end"
         /\ q.base = r.base /\ q.wrote = r.wrote /\ q.merge = r.merge
         /\ ~q.landed /\ q.kept = r.kept
<1> DEFINE b == Blocked(r)
<1>1. b \in Lane /\ Fails(r) = IF r.stage = "done" THEN [b EXCEPT !.pc = "file"] ELSE b
  BY BlockedIs DEF Fails
<1> HIDE DEF b
<1>2. LET q == [b EXCEPT !.pc = "file"] IN
      /\ q \in Lane /\ q.pc = "file" /\ q.stage = b.stage /\ q.base = b.base
      /\ q.wrote = b.wrote /\ q.merge = b.merge /\ q.landed = b.landed /\ q.kept = b.kept
  BY <1>1 DEF Lane
<1> QED  BY <1>1, <1>2, BlockedIs DEF b

\* A landed lane is done.
LEMMA LandedIs ==
  ASSUME NEW r \in Lane
  PROVE  LET q == Landed(r) IN
         /\ q \in Lane /\ q.stage = "done"
         /\ q.pc = IF r.stage = "commit" THEN "end" ELSE "file"
         /\ SameCopy(q, r) /\ SameEnd(q, r)
BY ZenonT(40) DEF Landed, Lane, SameCopy, SameEnd

\* What is left of a lane whose item is over.
LEMMA OutIs ==
  ASSUME NEW r \in Lane
  PROVE  LET q == Out(r) IN
         /\ q \in Lane /\ q.pc = "out" /\ q.stage = r.stage /\ q.wrote = r.wrote
         /\ q.merge = r.merge /\ ~q.landed /\ q.kept = r.kept
BY IdleIs, ZenonT(40) DEF Out, Lane

\* A lane that only goes to another place.
LEMMA PcIs ==
  ASSUME NEW r \in Lane,
         NEW p \in {"idle", "copy", "bound", "step", "reverify", "land", "commit",
                    "look", "looking", "end", "file", "out", "over", "gone"}
  PROVE  LET q == [r EXCEPT !.pc = p] IN
         /\ q \in Lane /\ q.pc = p /\ q.stage = r.stage
         /\ SameCopy(q, r) /\ SamePass(q, r) /\ SameEnd(q, r)
BY DEF Lane, SameCopy, SamePass, SameEnd

-----------------------------------------------------------------------------
(***************************************************************************)
(* Taking up landings.                                                     *)
(***************************************************************************)

\* A copy that takes up its next n landings differs in its base and count only.
LEMMA CarriedIs ==
  ASSUME TypeOK, NEW r \in Lane, NEW n \in Int,
         r.seen + n \in Nat, n <= 0 \/ r.seen + n <= Len(landings)
  PROVE  LET q == Carried(r, n) IN
         /\ q \in Lane /\ q.pc = r.pc /\ q.stage = r.stage /\ q.wrote = r.wrote
         /\ q.merge = r.merge /\ SamePass(q, r) /\ SameEnd(q, r)
         /\ q.seen = r.seen + n
         /\ \A f \in Files : q.base[f] = r.base[f] \cup
              {landings[j] : j \in {k \in r.seen + 1 .. r.seen + n :
                                      f \in Writes[landings[k]]}}
         /\ n <= 0 => q.base = r.base
<1> DEFINE b == [f \in Files |-> r.base[f] \cup
             {landings[j] : j \in {k \in r.seen + 1 .. r.seen + n :
                                     f \in Writes[landings[k]]}}]
           s == r.seen + n
<1>1. r.seen \in Nat /\ r.base \in Tree
  BY DEF Lane
<1>2. ASSUME NEW j \in r.seen + 1 .. r.seen + n PROVE landings[j] \in Items
  <2>1. j \in 1..Len(landings)
    BY <1>1
  <2> QED  BY <2>1 DEF TypeOK
<1>3. b \in Tree
  BY <1>1, <1>2 DEF Tree
<1>4. n <= 0 => b = r.base
  <2>1. n <= 0 => r.seen + 1 .. r.seen + n = {}
    BY <1>1
  <2> QED  BY <1>1, <2>1 DEF Tree
<1>5. Carried(r, n) = [r EXCEPT !.seen = s, !.base = b]
  BY DEF Carried, Lane
<1>6. s \in Nat
  OBVIOUS
<1>7. \A f \in Files : b[f] = r.base[f] \cup
        {landings[j] : j \in {k \in r.seen + 1 .. r.seen + n : f \in Writes[landings[k]]}}
  OBVIOUS
<1> HIDE DEF b
<1>8. LET q == [r EXCEPT !.seen = s, !.base = b] IN
      /\ q \in Lane /\ q.pc = r.pc /\ q.stage = r.stage /\ q.wrote = r.wrote
      /\ q.merge = r.merge /\ SamePass(q, r) /\ SameEnd(q, r)
      /\ q.seen = s /\ q.base = b
  BY <1>3, <1>6 DEF Lane, SamePass, SameEnd
<1> QED  BY <1>4, <1>5, <1>7, <1>8

\* What was still to be taken up is what was taken up and what is left.
LEMMA CarriedSynced ==
  ASSUME TypeOK, NEW r \in Lane, NEW n \in Nat, Synced(r.base, r.seen),
         r.seen + n <= Len(landings)
  PROVE  Synced(Carried(r, n).base, Carried(r, n).seen)
<1> DEFINE q == Carried(r, n)
           Between(f) == {landings[j] : j \in {k \in r.seen + 1 .. r.seen + n :
                                                 f \in Writes[landings[k]]}}
<1>1. r.seen \in Nat /\ r.seen + n \in 0..Len(landings) /\ Len(landings) \in Nat
  BY DEF Lane, TypeOK
<1>2. q.seen = r.seen + n /\ \A f \in Files : q.base[f] = r.base[f] \cup Between(f)
  BY <1>1, CarriedIs
<1>3. \A f \in Files : Left(r.seen, f) = Between(f) \cup Left(r.seen + n, f)
  <2>1. r.seen + 1 .. Len(landings) =
          (r.seen + 1 .. r.seen + n) \cup (r.seen + n + 1 .. Len(landings))
    BY <1>1
  <2> QED  BY <2>1 DEF Left
<1>4. ASSUME NEW f \in Known
      PROVE  (q.base[f] \cup Left(q.seen, f)) \ {Hand} = checkout[f] \ {Hand}
  <2>1. q.base[f] \cup Left(q.seen, f) = r.base[f] \cup Left(r.seen, f)
    BY <1>2, <1>3 DEF Known
  <2> QED  BY <2>1 DEF Synced
<1> QED  BY <1>1, <1>2, <1>4 DEF Synced

\* A catch-up takes up every landing the lane has not, or stops at one that is
\* refused or meets the lane's work; that one is owed a turn, and what the copy
\* was before it can be put back.
Taken(c, l) ==
  LET r == lane[l] IN
  /\ c.out \in {"carried", "refused", "met"} /\ c.n \in Int
  /\ c.r \in Lane /\ c.r.pc = r.pc /\ c.r.stage = r.stage /\ c.r.wrote = r.wrote
  /\ SamePass(c.r, r) /\ SameEnd(c.r, r)
  /\ \A f \in Files : r.base[f] \subseteq c.r.base[f]
  /\ Synced(r.base, r.seen) => Synced(c.r.base, c.r.seen)
  /\ c.out # "met" => c.r.merge = r.merge
  /\ c.out = "met" => /\ r.wrote /\ r.merge = {} /\ c.r.merge # {}
                      /\ \A m \in c.r.merge :
                           \A f \in Files : r.base[f] \subseteq m.base[f]
  /\ c.out = "carried" /\ ~(c.n > 0) => c.r.base = r.base
  /\ c.out = "carried" /\ r.merge = {} => c.r.seen = Len(landings)

LEMMA CatchUpsAre ==
  ASSUME TypeOK, NEW l \in Items, NEW c \in CatchUps(l)
  PROVE  Taken(c, l)
<1> DEFINE r == lane[l]
           left == IF r.merge = {} THEN Len(landings) - r.seen ELSE 0
<1>1. r \in Lane /\ r.seen \in Nat /\ Len(landings) \in Nat /\ left \in Int
  BY DEF TypeOK, Lane
<1>2. \/ c = [out |-> "carried", n |-> left, r |-> Carried(r, left)]
      \/ \E n \in 0..left - 1 : c = [out |-> "refused", n |-> n, r |-> Carried(r, n)]
      \/ \E n \in 0..left - 1 :
           /\ MeetsWork(l, r, landings[r.seen + n + 1])
           /\ c = [out |-> "met", n |-> n,
                   r |-> [Carried(r, n + 1) EXCEPT
                           !.merge = {[at |-> r.seen + n, base |-> Carried(r, n).base]}]]
  BY DEF CatchUps
<1> HIDE DEF r
<1>3. CASE c = [out |-> "carried", n |-> left, r |-> Carried(r, left)]
  <2>1. r.seen + left \in Nat /\ (left <= 0 \/ r.seen + left <= Len(landings))
    BY <1>1
  <2>2. Synced(r.base, r.seen) => Synced(Carried(r, left).base, Carried(r, left).seen)
    <3>1. Synced(r.base, r.seen) => left \in Nat /\ r.seen + left <= Len(landings)
      BY <1>1 DEF Synced
    <3> QED  BY <1>1, <3>1, CarriedSynced
  <2>3. r.merge = {} => r.seen + left = Len(landings)
    BY <1>1
  <2>4. left \in Int
    BY <1>1
  <2> HIDE DEF left
  <2>5. ~(left > 0) => left <= 0
    BY <2>4
  <2> QED  BY <1>1, <1>3, <2>1, <2>2, <2>3, <2>4, <2>5, CarriedIs DEF Taken, r
<1>4. ASSUME NEW n \in 0..left - 1,
             c = [out |-> "refused", n |-> n, r |-> Carried(r, n)]
      PROVE  Taken(c, l)
  <2>1. n \in Nat /\ n \in Int /\ r.seen + n \in Nat /\ r.seen + n <= Len(landings)
    BY <1>1
  <2>2. Synced(r.base, r.seen) => Synced(Carried(r, n).base, Carried(r, n).seen)
    BY <1>1, <2>1, CarriedSynced
  <2>3. c.out = "refused" /\ c.n = n /\ c.r = Carried(r, n)
    BY <1>4
  <2> QED  BY <1>1, <2>1, <2>2, <2>3, CarriedIs, SMTT(30) DEF Taken, r
<1>5. ASSUME NEW n \in 0..left - 1, MeetsWork(l, r, landings[r.seen + n + 1]),
             c = [out |-> "met", n |-> n,
                  r |-> [Carried(r, n + 1) EXCEPT
                          !.merge = {[at |-> r.seen + n, base |-> Carried(r, n).base]}]]
      PROVE  Taken(c, l)
  <2> DEFINE q == Carried(r, n + 1)
             m == [at |-> r.seen + n, base |-> Carried(r, n).base]
  <2>1. /\ n \in Nat /\ n \in Int /\ r.seen + n \in Nat /\ r.seen + n <= Len(landings)
        /\ n + 1 \in Nat /\ n + 1 \in Int /\ r.seen + (n + 1) \in Nat
        /\ r.seen + (n + 1) <= Len(landings) /\ r.merge = {}
    BY <1>1
  <2>2. /\ q \in Lane /\ q.pc = r.pc /\ q.stage = r.stage /\ q.wrote = r.wrote
        /\ SamePass(q, r) /\ SameEnd(q, r)
        /\ \A f \in Files : r.base[f] \subseteq q.base[f]
        /\ Synced(r.base, r.seen) => Synced(q.base, q.seen)
    BY <1>1, <2>1, CarriedIs, CarriedSynced
  <2>3. /\ Carried(r, n).base \in Tree
        /\ \A f \in Files : r.base[f] \subseteq Carried(r, n).base[f]
    <3>1. Carried(r, n) \in Lane
      BY <1>1, <2>1, CarriedIs
    <3>2. Carried(r, n).base \in Tree
      BY <3>1 DEF Lane
    <3> QED  BY <1>1, <2>1, <3>2, CarriedIs
  <2>4. m \in [at : Nat, base : Tree] /\ m.base = Carried(r, n).base
    BY <2>1, <2>3
  <2>5. c = [out |-> "met", n |-> n, r |-> [q EXCEPT !.merge = {m}]]
    BY <1>5
  <2> HIDE DEF q, m
  <2>6. LET p == [q EXCEPT !.merge = {m}] IN
        /\ p \in Lane /\ p.pc = q.pc /\ p.stage = q.stage /\ p.wrote = q.wrote
        /\ SamePass(p, q) /\ SameEnd(p, q) /\ p.base = q.base /\ p.seen = q.seen
        /\ p.merge = {m}
    BY <2>2, <2>4 DEF Lane, SamePass, SameEnd
  <2>7. r.wrote
    BY <1>5 DEF MeetsWork
  <2> QED
    BY <2>1, <2>2, <2>3, <2>4, <2>5, <2>6, <2>7 DEF Taken, SamePass, SameEnd, r
<1> QED  BY <1>2, <1>3, <1>4, <1>5

-----------------------------------------------------------------------------
(***************************************************************************)
(* What a lane's step does to its record.                                  *)
(***************************************************************************)

\* A run about to take the land lock (Landing, of a record).
AtLanding(r) == (r.pc = "step" /\ r.stage = "commit") \/ Uncommitted(r)

\* How a record q may follow r, but for a copy that is made and a landing.
Follows(l, q, r) ==
  /\ q \in Lane /\ Shape(l, q)
  /\ r.pc \in Working /\ q.pc \in Working \cup {"out"}
  /\ q.landed \/ (q.pc = "out" /\ q.stage = "done") => r.landed
  /\ Open(q) => Open(r) /\ (Synced(r.base, r.seen) => Synced(q.base, q.seen))
  /\ q.pc \in {"reverify", "land"} =>
       q.seen = Len(landings) \/ (r.pc = "reverify" /\ q.seen = r.seen)
  /\ q.pc \in Working => \/ \A f \in Files : r.base[f] \subseteq q.base[f]
                         \/ \E m \in r.merge : q.base = m.base
  /\ \A m \in q.merge : m \in r.merge \/ \A f \in Files : r.base[f] \subseteq m.base[f]
  /\ q.base = r.base \/ land = Free
  /\ q.pc \in Holding => r.pc \in Holding \/ AtLanding(r)

\* How the land lock goes with a lane that becomes q.
Grips(l, q) ==
  IF q.pc \in Holding
    THEN (lane[l].pc \in Holding /\ land' = land) \/ (land = Free /\ land' = l)
    ELSE land' = IF lane[l].pc \in Holding THEN Free ELSE land

\* One lane's record changes.
Alone(l) ==
  lane' \in [Items -> Lane] /\ \A k \in Items \ {l} : lane'[k] = lane[k]

Moves(l) == Follows(l, lane'[l], lane[l]) /\ Grips(l, lane'[l]) /\ Alone(l)

\* A record that follows the lane's own is a move of that lane alone.
LEMMA BecomesMoves ==
  ASSUME TypeOK, NEW l \in Items, NEW q, Becomes(l, q), Follows(l, q, lane[l]),
         Grips(l, q)
  PROVE  Moves(l)
BY DEF TypeOK, Becomes, Moves, Follows, Alone

\* A lane that does not hold the lock and is not about to land leaves it.
LEMMA LeavesLock ==
  ASSUME NEW l \in Items, lane[l].pc \notin Holding, ~AtLanding(lane[l]), land' = land
  PROVE  \A q : Follows(l, q, lane[l]) => Grips(l, q)
BY DEF Follows, Grips

\* The places, as sets of names.
LEMMA Places ==
  /\ Holding = {"reverify", "land", "commit", "look", "looking"}
  /\ Turning = {"bound", "step"}
  /\ Working = {"reverify", "land", "commit", "look", "looking", "bound", "step",
                "end", "file"}
BY DEF Holding, Turning, Working

\* A run that blocks follows any that works, with the copy as it is.
LEMMA BlockedFollows ==
  ASSUME NEW l \in Items, NEW r \in Lane, NEW p \in Lane, r.pc \in Working,
         \/ p.base = r.base
         \/ land = Free /\ \A f \in Files : r.base[f] \subseteq p.base[f],
         \A m \in p.merge :
           m \in r.merge \/ \A f \in Files : r.base[f] \subseteq m.base[f]
  PROVE  Follows(l, Blocked(p), r)
<1>1. LET q == Blocked(p) IN
      /\ q \in Lane /\ q.pc = "end" /\ q.stage = "blocked"
      /\ q.base = p.base /\ q.merge = p.merge /\ ~q.landed
  BY BlockedIs
<1> QED  BY <1>1, Places DEF Follows, Shape, Open, Uncommitted

\* So does one that goes on with a fix, of what it works on between two turns.
LEMMA FixesFollow ==
  ASSUME NEW l \in Items, NEW r \in Lane, NEW p \in Lane, NEW q, Fixes(q, p),
         Open(r), p.wrote, ~p.landed,
         \/ p.base = r.base
         \/ land = Free /\ \A f \in Files : r.base[f] \subseteq p.base[f],
         Synced(r.base, r.seen) => Synced(p.base, p.seen),
         \A m \in p.merge :
           m \in r.merge \/ \A f \in Files : r.base[f] \subseteq m.base[f]
  PROVE  Follows(l, q, r)
<1>1. r.pc \in Working
  BY Places DEF Open, Uncommitted
<1> QED  BY <1>1, Places DEF Fixes, SameCopy, SameEnd, Follows, Shape, Open, Uncommitted

\* An item's clock that runs out.
LEMMA TimeOutMoves ==
  ASSUME TypeOK, Shapes, NEW l \in Items, TimeOut(l)
  PROVE  Moves(l)
<1>1. lane[l] \in Lane /\ lane[l].pc \in Working
  BY Places DEF TypeOK, TimeOut
<1>g. \A q : Follows(l, q, lane[l]) => Grips(l, q)
  BY <1>1, LeavesLock, Places DEF TimeOut, AtLanding, Uncommitted
<1>2. Follows(l, Blocked(lane[l]), lane[l])
  BY <1>1, BlockedFollows
<1> QED  BY <1>2, BecomesMoves, <1>g DEF TimeOut

\* A step boundary, where the lane takes up what others landed.
LEMMA BoundaryMoves ==
  ASSUME TypeOK, Shapes, NEW l \in Items, Boundary(l)
  PROVE  Moves(l)
<1> DEFINE r == lane[l]
<1>1. /\ r \in Lane /\ r.pc = "bound" /\ r.pc \in Working /\ land = Free
      /\ Shape(l, r) /\ Open(r) /\ ~r.landed
      /\ r.verdict => r.wrote \/ r.stage = "blocked"
      /\ r.stage \in {"build", "verify", "review", "fix", "commit"}
  BY Places DEF TypeOK, Boundary, Shapes, Shape, Open
<1>g. \A q : Follows(l, q, lane[l]) => Grips(l, q)
  BY <1>1, LeavesLock, Places DEF Boundary, AtLanding, Uncommitted
<1>2. PICK c \in CatchUps(l) :
        \/ c.out = "refused" /\ Becomes(l, Blocked(c.r))
        \/ c.out = "met" /\ Becomes(l, Reconcile(c.r))
        \/ /\ c.out = "carried"
           /\ Becomes(l, IF c.n > 0 THEN VerifyAgain(c.r) ELSE [c.r EXCEPT !.pc = "step"])
  BY DEF Boundary
<1>3. Taken(c, l)
  BY CatchUpsAre
<1>4. CASE c.out = "refused" /\ Becomes(l, Blocked(c.r))
  <2>1. Follows(l, Blocked(c.r), r)
    BY <1>1, <1>3, <1>4, BlockedFollows DEF Taken
  <2> QED  BY <1>4, <2>1, BecomesMoves, <1>g
<1>5. CASE c.out = "met" /\ Becomes(l, Reconcile(c.r))
  <2>1. Fixes(Reconcile(c.r), c.r)
    BY <1>3, ReconcileIs DEF Taken
  <2>2. Follows(l, Reconcile(c.r), r)
    BY <1>1, <1>3, <1>5, <2>1, FixesFollow DEF Taken, SameEnd
  <2> QED  BY <1>5, <2>2, BecomesMoves, <1>g
<1>6. CASE c.out = "carried" /\ c.n > 0 /\ Becomes(l, VerifyAgain(c.r))
  <2>1. LET q == VerifyAgain(c.r) IN
        /\ q \in Lane /\ SameCopy(q, c.r) /\ SameEnd(q, c.r)
        /\ \/ q.pc = "bound" /\ q.stage = "verify" /\ c.r.verdict /\ c.r.stage # "fix"
           \/ /\ q.pc = "step" /\ q.stage = c.r.stage /\ SamePass(q, c.r)
              /\ ~c.r.verdict \/ c.r.stage = "fix"
    BY <1>3, VerifyAgainIs DEF Taken
  <2> DEFINE q == VerifyAgain(c.r)
  <2> HIDE DEF q
  <2>2. /\ q.merge = r.merge /\ q.wrote = r.wrote /\ ~q.landed
        /\ (Synced(r.base, r.seen) => Synced(q.base, q.seen))
        /\ \A f \in Files : r.base[f] \subseteq q.base[f]
    BY <1>1, <1>3, <1>6, <2>1 DEF q, Taken, SameCopy, SameEnd
  <2>3. Shape(l, q)
    <3>1. CASE q.pc = "bound" /\ q.stage = "verify" /\ c.r.verdict /\ c.r.stage # "fix"
      BY <1>1, <1>3, <2>2, <3>1, Places DEF Taken, SamePass, Shape, Uncommitted
    <3>2. CASE /\ q.pc = "step" /\ q.stage = c.r.stage /\ SamePass(q, c.r)
               /\ ~c.r.verdict \/ c.r.stage = "fix"
      BY <1>1, <1>3, <2>2, <3>2, Places DEF Taken, SamePass, Shape, Uncommitted
    <3> QED  BY <2>1, <3>1, <3>2 DEF q
  <2>4. Follows(l, q, r)
    BY <1>1, <2>1, <2>2, <2>3, Places DEF q, Follows, Open
  <2> QED  BY <1>6, <2>4, BecomesMoves, <1>g DEF q
<1>7. CASE c.out = "carried" /\ ~(c.n > 0) /\ Becomes(l, [c.r EXCEPT !.pc = "step"])
  <2> DEFINE q == [c.r EXCEPT !.pc = "step"]
  <2>1. /\ q \in Lane /\ q.pc = "step" /\ q.stage = c.r.stage
        /\ SameCopy(q, c.r) /\ SamePass(q, c.r) /\ SameEnd(q, c.r)
    BY <1>3, PcIs DEF Taken
  <2> HIDE DEF q
  <2>2. Copy(l, q) = Copy(l, r)
    BY <1>1, <1>3, <1>7, <2>1, CopyIs DEF Taken, SameCopy
  <2>3. Follows(l, q, r)
    BY <1>1, <1>3, <1>7, <2>1, <2>2, Places
       DEF Taken, SameCopy, SameEnd, SamePass, Follows, Shape, Open, Uncommitted
  <2> QED  BY <1>7, <2>3, BecomesMoves, <1>g DEF q
<1> QED  BY <1>2, <1>4, <1>5, <1>6, <1>7

\* The turn that builds.
LEMMA BuildMoves ==
  ASSUME TypeOK, Shapes, NEW l \in Items, Build(l)
  PROVE  Moves(l)
<1> DEFINE r == lane[l]
           w == Rewritten(r)
<1>1. /\ r \in Lane /\ r.pc = "step" /\ r.stage = "build" /\ r.pc \in Working
      /\ Open(r) /\ ~r.landed /\ r.merge = {}
  BY Places DEF TypeOK, Build, OnStep, Shapes, Shape, Open
<1>g. \A q : Follows(l, q, lane[l]) => Grips(l, q)
  BY <1>1, LeavesLock, Places DEF Build, OnStep, AtLanding, Uncommitted
<1>2. /\ w \in Lane /\ w.wrote /\ w.base = r.base /\ w.merge = r.merge
      /\ w.seen = r.seen /\ SameEnd(w, r)
  BY <1>1, RewrittenIs
<1> HIDE DEF w
<1>3. ASSUME NEW p \in Lane, SameCopy(p, w), SameEnd(p, w)
      PROVE  Follows(l, ToVerify(p), r)
  <2>1. LET q == ToVerify(p) IN
        /\ q \in Lane /\ q.pc = "bound" /\ q.stage = "verify"
        /\ SameCopy(q, p) /\ SameEnd(q, p)
    BY <1>3, ToVerifyIs
  <2> QED
    BY <1>1, <1>2, <1>3, <2>1, Places
       DEF SameCopy, SameEnd, Follows, Shape, Open, Uncommitted
<1>4. CASE Becomes(l, ToVerify([w EXCEPT !.checked = FALSE]))
  <2>1. LET p == [w EXCEPT !.checked = FALSE] IN
        p \in Lane /\ SameCopy(p, w) /\ SameEnd(p, w)
    BY <1>2 DEF Lane, SameCopy, SameEnd
  <2> QED  BY <1>3, <1>4, <2>1, BecomesMoves, <1>g
<1>5. CASE Becomes(l, ToVerify([w EXCEPT !.checked = TRUE, !.gated = {Copy(l, w)}]))
  <2>1. LET p == [w EXCEPT !.checked = TRUE, !.gated = {Copy(l, w)}] IN
        p \in Lane /\ SameCopy(p, w) /\ SameEnd(p, w)
    BY <1>2, CopyIs, ZenonT(40) DEF Lane, SameCopy, SameEnd
  <2> QED  BY <1>3, <1>5, <2>1, BecomesMoves, <1>g
<1>6. ASSUME NEW b \in BOOLEAN, Becomes(l, Blocked([r EXCEPT !.wrote = b]))
      PROVE  Moves(l)
  <2>1. LET p == [r EXCEPT !.wrote = b] IN
        p \in Lane /\ p.base = r.base /\ p.merge = r.merge
    BY <1>1 DEF Lane
  <2>2. Follows(l, Blocked([r EXCEPT !.wrote = b]), r)
    BY <1>1, <2>1, BlockedFollows
  <2> QED  BY <1>6, <2>2, BecomesMoves, <1>g
<1> QED  BY <1>4, <1>5, <1>6 DEF Build, w

\* The verify step.
LEMMA VerifyMoves ==
  ASSUME TypeOK, Shapes, NEW l \in Items, VerifyStep(l)
  PROVE  Moves(l)
<1> DEFINE r == lane[l]
<1>1. /\ r \in Lane /\ r.pc = "step" /\ r.stage = "verify" /\ r.pc \in Working
      /\ Open(r) /\ ~r.landed /\ r.merge = {} /\ r.wrote
  BY Places DEF TypeOK, VerifyStep, OnStep, Shapes, Shape, Open
<1>g. \A q : Follows(l, q, lane[l]) => Grips(l, q)
  BY <1>1, LeavesLock, Places DEF VerifyStep, OnStep, AtLanding, Uncommitted
<1>2. CASE Becomes(l, [At(Verified(l, r), "review") EXCEPT !.verdict = TRUE])
  <2> DEFINE v == Verified(l, r)
             a == At(v, "review")
             q == [a EXCEPT !.verdict = TRUE]
  <2>1. v \in Lane /\ SameCopy(v, r) /\ SameEnd(v, r) /\ v.verified = {Copy(l, v)}
    BY <1>1, VerifiedIs
  <2>2. a \in Lane /\ a.pc = "bound" /\ a.stage = "review"
        /\ SameCopy(a, v) /\ SamePass(a, v) /\ SameEnd(a, v)
    BY <2>1, AtIs
  <2> HIDE DEF a
  <2>3. q \in Lane /\ q.pc = a.pc /\ q.stage = a.stage /\ q.verdict
        /\ q.verified = a.verified /\ SameCopy(q, a) /\ SameEnd(q, a)
    BY <2>2 DEF Lane, SameCopy, SameEnd
  <2> HIDE DEF q, v
  <2>4. Copy(l, q) = Copy(l, v)
    BY <2>1, <2>2, <2>3, CopyIs DEF SameCopy
  <2>5. Follows(l, q, r)
    BY <1>1, <2>1, <2>2, <2>3, <2>4, Places
       DEF SameCopy, SameEnd, SamePass, Follows, Shape, Open, Uncommitted
  <2> QED  BY <1>2, <2>5, BecomesMoves, <1>g DEF q, a, v
<1>3. CASE Becomes(l, Remediate([r EXCEPT !.checked = FALSE]))
  <2> DEFINE p == [r EXCEPT !.checked = FALSE]
  <2>1. p \in Lane /\ SameCopy(p, r) /\ SameEnd(p, r)
    BY <1>1 DEF Lane, SameCopy, SameEnd
  <2> HIDE DEF p
  <2>2. Fixes(Remediate(p), p)
    BY <2>1, RemediateIs
  <2>3. Follows(l, Remediate(p), r)
    BY <1>1, <2>1, <2>2, FixesFollow DEF SameCopy, SameEnd
  <2> QED  BY <1>3, <2>3, BecomesMoves, <1>g DEF p
<1>4. CASE Becomes(l, Blocked(r))
  <2>1. Follows(l, Blocked(r), r)
    BY <1>1, BlockedFollows
  <2> QED  BY <1>4, <2>1, BecomesMoves, <1>g
<1> QED  BY <1>2, <1>3, <1>4 DEF VerifyStep

\* The reading of the change.
LEMMA ReviewMoves ==
  ASSUME TypeOK, Shapes, NEW l \in Items, Review(l)
  PROVE  Moves(l)
<1> DEFINE r == lane[l]
<1>1. /\ r \in Lane /\ r.pc = "step" /\ r.stage = "review" /\ r.pc \in Working
      /\ Open(r) /\ ~r.landed /\ r.merge = {} /\ r.wrote
      /\ r.verdict /\ r.verified = {Copy(l, r)}
  BY Places DEF TypeOK, Review, OnStep, Shapes, Shape, Open
<1>g. \A q : Follows(l, q, lane[l]) => Grips(l, q)
  BY <1>1, LeavesLock, Places DEF Review, OnStep, AtLanding, Uncommitted
<1>2. CASE Becomes(l, [r EXCEPT !.stage = "done", !.pc = "end"])
  <2> DEFINE q == [r EXCEPT !.stage = "done", !.pc = "end"]
  <2>1. /\ q \in Lane /\ q.pc = "end" /\ q.stage = "done"
        /\ SameCopy(q, r) /\ SamePass(q, r) /\ SameEnd(q, r)
    BY <1>1 DEF Lane, SameCopy, SamePass, SameEnd
  <2> HIDE DEF q
  <2>2. Copy(l, q) = Copy(l, r)
    BY <1>1, <2>1, CopyIs DEF SameCopy
  <2>3. Follows(l, q, r)
    BY <1>1, <2>1, <2>2, Places
       DEF SameCopy, SamePass, SameEnd, Follows, Shape, Open, Uncommitted
  <2> QED  BY <1>2, <2>3, BecomesMoves, <1>g DEF q
<1>3. CASE Becomes(l, At(r, "commit"))
  <2> DEFINE q == At(r, "commit")
  <2>1. /\ q \in Lane /\ q.pc = "bound" /\ q.stage = "commit"
        /\ SameCopy(q, r) /\ SamePass(q, r) /\ SameEnd(q, r)
    BY <1>1, AtIs
  <2> HIDE DEF q
  <2>2. Copy(l, q) = Copy(l, r)
    BY <1>1, <2>1, CopyIs DEF SameCopy
  <2>3. Follows(l, q, r)
    BY <1>1, <2>1, <2>2, Places
       DEF SameCopy, SamePass, SameEnd, Follows, Shape, Open, Uncommitted
  <2> QED  BY <1>3, <2>3, BecomesMoves, <1>g DEF q
<1>4. CASE Becomes(l, Remediate(r))
  <2>1. Fixes(Remediate(r), r)
    BY <1>1, RemediateIs
  <2>2. Follows(l, Remediate(r), r)
    BY <1>1, <2>1, FixesFollow
  <2> QED  BY <1>4, <2>2, BecomesMoves, <1>g
<1>5. CASE Becomes(l, Blocked(r))
  <2>1. Follows(l, Blocked(r), r)
    BY <1>1, BlockedFollows
  <2> QED  BY <1>5, <2>1, BecomesMoves, <1>g
<1> QED  BY <1>2, <1>3, <1>4, <1>5 DEF Review

\* A fix round, or the turn owed for a merge.
LEMMA FixMoves ==
  ASSUME TypeOK, Shapes, NEW l \in Items, Fix(l)
  PROVE  Moves(l)
<1> DEFINE r == lane[l]
           w == Rewritten(r)
<1>1. /\ r \in Lane /\ r.pc = "step" /\ r.stage = "fix" /\ r.pc \in Working
      /\ Open(r) /\ ~r.landed
  BY Places DEF TypeOK, Fix, OnStep, Shapes, Shape, Open
<1>g. \A q : Follows(l, q, lane[l]) => Grips(l, q)
  BY <1>1, LeavesLock, Places DEF Fix, OnStep, AtLanding, Uncommitted
<1>2. /\ w \in Lane /\ w.wrote /\ w.base = r.base
      /\ w.seen = r.seen /\ SameEnd(w, r)
  BY <1>1, RewrittenIs
<1> HIDE DEF w
<1>3. CASE Becomes(l, ToVerify([w EXCEPT !.merge = {}]))
  <2> DEFINE p == [w EXCEPT !.merge = {}]
  <2>1. /\ p \in Lane /\ p.wrote /\ p.base = r.base /\ p.seen = r.seen
        /\ p.merge = {} /\ SameEnd(p, r)
    BY <1>2 DEF Lane, SameEnd
  <2> HIDE DEF p
  <2>2. LET q == ToVerify(p) IN
        /\ q \in Lane /\ q.pc = "bound" /\ q.stage = "verify"
        /\ SameCopy(q, p) /\ SameEnd(q, p)
    BY <2>1, ToVerifyIs
  <2>3. Follows(l, ToVerify(p), r)
    BY <1>1, <2>1, <2>2, Places
       DEF SameCopy, SameEnd, Follows, Shape, Open, Uncommitted
  <2> QED  BY <1>3, <2>3, BecomesMoves, <1>g DEF p
<1>4. CASE r.merge # {} /\ land = Free /\ Becomes(l, Blocked(PutBack(r)))
  <2> DEFINE p == PutBack(r)
  <2>1. /\ p \in Lane /\ p.merge = {}
        /\ p.base = r.base \/ \E m \in r.merge : p.base = m.base
    BY <1>1, PutBackIs
  <2> HIDE DEF p
  <2>2. LET q == Blocked(p) IN
        /\ q \in Lane /\ q.pc = "end" /\ q.stage = "blocked"
        /\ q.base = p.base /\ q.merge = {} /\ ~q.landed
    BY <2>1, BlockedIs
  <2>3. Follows(l, Blocked(p), r)
    BY <1>1, <1>4, <2>1, <2>2, Places DEF Follows, Shape, Open, Uncommitted
  <2> QED  BY <1>4, <2>3, BecomesMoves, <1>g DEF p
<1>5. CASE Becomes(l, Blocked(r))
  <2>1. Follows(l, Blocked(r), r)
    BY <1>1, BlockedFollows
  <2> QED  BY <1>5, <2>1, BecomesMoves, <1>g
<1> QED  BY <1>3, <1>4, <1>5 DEF Fix, w

\* A lane that lands has its item's work in its copy, verified, and no merge.
LEMMA LandingIs ==
  ASSUME TypeOK, Shapes, NEW l \in Items, Landing(l)
  PROVE  /\ lane[l] \in Lane /\ lane[l].pc \in Working /\ Open(lane[l])
         /\ ~lane[l].landed /\ lane[l].merge = {} /\ lane[l].wrote
         /\ lane[l].stage \in {"commit", "done"}
         /\ lane[l].verified = {Copy(l, lane[l])}
BY Places DEF TypeOK, Shapes, Shape, Landing, OnStep, Open, Uncommitted

\* A landing that fails blocks its lane, wherever it stands.
LEMMA FailsFollows ==
  ASSUME NEW l \in Items, NEW r \in Lane, NEW p \in Lane, r.pc \in Working, p.merge = {},
         p.base = r.base \/ land = Free,
         \/ \A f \in Files : r.base[f] \subseteq p.base[f]
         \/ \E m \in r.merge : p.base = m.base
  PROVE  Follows(l, Fails(p), r)
<1>1. LET q == Fails(p) IN
      /\ q \in Lane /\ q.stage = "blocked" /\ q.pc \in {"end", "file"}
      /\ q.base = p.base /\ q.merge = {} /\ ~q.landed
  BY FailsIs
<1> QED  BY <1>1, Places DEF Follows, Shape, Open, Uncommitted

\* A lane that takes the land lock, or fails before it has it.
LEMMA TakeLandLockMoves ==
  ASSUME TypeOK, Shapes, NEW l \in Items, TakeLandLock(l)
  PROVE  Moves(l)
<1> DEFINE r == lane[l]
<1>1. /\ r \in Lane /\ r.pc \in Working /\ Open(r) /\ ~r.landed /\ r.merge = {}
      /\ r.wrote /\ r.stage \in {"commit", "done"} /\ r.verified = {Copy(l, r)}
      /\ land = Free /\ r.pc \notin Holding /\ AtLanding(r)
  BY LandingIs, Places DEF TakeLandLock, Landing, OnStep, AtLanding, Uncommitted
<1>2. PICK c \in CatchUps(l) :
        \/ c.out = "refused" /\ Becomes(l, Fails(c.r)) /\ land' = land
        \/ /\ c.out = "met" /\ land' = land
           /\ Becomes(l, IF c.r.stage = "done" THEN Fails(PutBack(c.r))
                                               ELSE Reconcile(c.r))
        \/ /\ c.out = "carried" /\ land' = l
           /\ Becomes(l, IF c.n > 0
                THEN [c.r EXCEPT !.pc = "reverify", !.checked = FALSE]
                ELSE [c.r EXCEPT !.pc = "land"])
  BY DEF TakeLandLock
<1>3. Taken(c, l)
  BY CatchUpsAre
<1> HIDE DEF r
<1>4. CASE c.out = "refused" /\ Becomes(l, Fails(c.r)) /\ land' = land
  <2>1. Follows(l, Fails(c.r), r)
    BY <1>1, <1>3, <1>4, FailsFollows DEF r, Taken
  <2>2. Grips(l, Fails(c.r))
    BY <1>1, <1>3, <1>4, FailsIs, Places DEF r, Taken, Grips
  <2> QED  BY <1>4, <2>1, <2>2, BecomesMoves DEF r
<1>5. CASE c.out = "met" /\ Becomes(l, Fails(PutBack(c.r))) /\ land' = land
  <2>1. /\ PutBack(c.r) \in Lane /\ PutBack(c.r).merge = {}
        /\ PutBack(c.r).base = c.r.base \/ \E m \in c.r.merge : PutBack(c.r).base = m.base
    BY <1>3, PutBackIs DEF Taken
  <2>2. \A f \in Files : r.base[f] \subseteq PutBack(c.r).base[f]
    BY <1>3, <1>5, <2>1 DEF r, Taken
  <2>3. Follows(l, Fails(PutBack(c.r)), r)
    BY <1>1, <2>1, <2>2, FailsFollows
  <2>4. Grips(l, Fails(PutBack(c.r)))
    BY <1>1, <1>5, <2>1, FailsIs, Places DEF r, Grips
  <2> QED  BY <1>5, <2>3, <2>4, BecomesMoves DEF r
<1>6. CASE c.out = "met" /\ Becomes(l, Reconcile(c.r)) /\ land' = land
  <2>1. Fixes(Reconcile(c.r), c.r)
    BY <1>3, ReconcileIs DEF Taken
  <2>2. Follows(l, Reconcile(c.r), r)
    BY <1>1, <1>3, <1>6, <2>1, FixesFollow DEF r, Taken, SameEnd
  <2>3. Grips(l, Reconcile(c.r))
    BY <1>1, <1>6, <2>1, Places DEF r, Fixes, Grips
  <2> QED  BY <1>6, <2>2, <2>3, BecomesMoves DEF r
<1>7. CASE /\ c.out = "carried" /\ land' = l
           /\ Becomes(l, [c.r EXCEPT !.pc = "reverify", !.checked = FALSE])
  <2> DEFINE q == [c.r EXCEPT !.pc = "reverify", !.checked = FALSE]
  <2>1. /\ q \in Lane /\ q.pc = "reverify" /\ q.stage = c.r.stage
        /\ SameCopy(q, c.r) /\ SamePass(q, c.r) /\ SameEnd(q, c.r)
    BY <1>3 DEF Taken, Lane, SameCopy, SamePass, SameEnd
  <2> HIDE DEF q
  <2>2. Follows(l, q, r)
    BY <1>1, <1>3, <1>7, <2>1, Places
       DEF r, Taken, SameCopy, SamePass, SameEnd, Follows, Shape, Open, Uncommitted,
           AtLanding
  <2>3. Grips(l, q)
    BY <1>1, <1>7, <2>1, Places DEF Grips
  <2> QED  BY <1>7, <2>2, <2>3, BecomesMoves DEF q, r
<1>8. CASE /\ c.out = "carried" /\ ~(c.n > 0) /\ land' = l
           /\ Becomes(l, [c.r EXCEPT !.pc = "land"])
  <2> DEFINE q == [c.r EXCEPT !.pc = "land"]
  <2>1. /\ q \in Lane /\ q.pc = "land" /\ q.stage = c.r.stage
        /\ SameCopy(q, c.r) /\ SamePass(q, c.r) /\ SameEnd(q, c.r)
    BY <1>3, PcIs DEF Taken
  <2> HIDE DEF q
  <2>2. Copy(l, q) = Copy(l, r)
    BY <1>1, <1>3, <1>8, <2>1, CopyIs, ZenonT(40) DEF r, Taken, SameCopy
  <2>3. Follows(l, q, r)
    BY <1>1, <1>3, <1>8, <2>1, <2>2, Places
       DEF r, Taken, SameCopy, SamePass, SameEnd, Follows, Shape, Open, Uncommitted,
           AtLanding
  <2>4. Grips(l, q)
    BY <1>1, <1>8, <2>1, Places DEF Grips
  <2> QED  BY <1>8, <2>3, <2>4, BecomesMoves DEF q, r
<1> QED  BY <1>2, <1>4, <1>5, <1>6, <1>7, <1>8

\* The verify step again, over what was taken up under the lock.
LEMMA ReverifyMoves ==
  ASSUME TypeOK, Shapes, NEW l \in Items, Reverify(l)
  PROVE  Moves(l)
<1> DEFINE r == lane[l]
<1>1. /\ r \in Lane /\ r.pc = "reverify" /\ r.pc \in Working /\ Open(r)
      /\ ~r.landed /\ r.merge = {} /\ r.wrote /\ r.stage \in {"commit", "done"}
  BY Places DEF TypeOK, Reverify, Shapes, Shape, Open
<1>2. CASE Becomes(l, [Verified(l, r) EXCEPT !.pc = "land"]) /\ land' = land
  <2> DEFINE v == Verified(l, r)
             q == [v EXCEPT !.pc = "land"]
  <2>1. /\ v \in Lane /\ v.stage = r.stage /\ SameCopy(v, r) /\ SameEnd(v, r)
        /\ v.verified = {Copy(l, v)}
    BY <1>1, VerifiedIs
  <2> HIDE DEF v
  <2>2. /\ q \in Lane /\ q.pc = "land" /\ q.stage = v.stage
        /\ SameCopy(q, v) /\ SamePass(q, v) /\ SameEnd(q, v)
    BY <2>1, PcIs
  <2> HIDE DEF q
  <2>3. Copy(l, q) = Copy(l, v)
    BY <2>1, <2>2, CopyIs DEF SameCopy
  <2>4. Follows(l, q, r)
    BY <1>1, <2>1, <2>2, <2>3, Places
       DEF SameCopy, SamePass, SameEnd, Follows, Shape, Open, Uncommitted
  <2>5. Grips(l, q)
    BY <1>1, <1>2, <2>2, Places DEF Grips
  <2> QED  BY <1>2, <2>4, <2>5, BecomesMoves DEF q, v
<1>3. CASE Becomes(l, Fails(r)) /\ land' = Free
  <2>1. Follows(l, Fails(r), r)
    BY <1>1, FailsFollows
  <2>2. Grips(l, Fails(r))
    BY <1>1, <1>3, FailsIs, Places DEF Grips
  <2> QED  BY <1>3, <2>1, <2>2, BecomesMoves
<1>4. CASE Becomes(l, Remediate(r)) /\ land' = Free
  <2>1. Fixes(Remediate(r), r)
    BY <1>1, RemediateIs
  <2>2. Follows(l, Remediate(r), r)
    BY <1>1, <2>1, FixesFollow
  <2>3. Grips(l, Remediate(r))
    BY <1>1, <1>4, <2>1, Places DEF Fixes, Grips
  <2> QED  BY <1>4, <2>2, <2>3, BecomesMoves
<1> QED  BY <1>2, <1>3, <1>4 DEF Reverify

\* A patch that does not land.
LEMMA LandRefusedMoves ==
  ASSUME TypeOK, Shapes, NEW l \in Items, LandRefused(l)
  PROVE  Moves(l)
<1> DEFINE r == lane[l]
           p == [r EXCEPT !.kept = ~Plain(l)]
<1>1. r \in Lane /\ r.pc \in Working /\ r.merge = {} /\ r.pc = "land" /\ land' = Free
  BY Places DEF TypeOK, LandRefused, Shapes, Shape
<1>2. (~Plain(l)) \in BOOLEAN
  OBVIOUS
<1>3. p \in Lane /\ p.base = r.base /\ p.merge = r.merge
  BY <1>1, <1>2 DEF Lane
<1>4. Becomes(l, Fails(p))
  BY DEF LandRefused
<1> HIDE DEF p
<1>5. Follows(l, Fails(p), r)
  BY <1>1, <1>3, FailsFollows
<1>6. Grips(l, Fails(p))
  BY <1>1, <1>3, FailsIs, Places DEF Grips
<1> QED  BY <1>4, <1>5, <1>6, BecomesMoves

\* The commit, made or refused.
LEMMA CommitMoves ==
  ASSUME TypeOK, Shapes, NEW l \in Items, Commit(l)
  PROVE  Moves(l)
<1> DEFINE r == lane[l]
           q == [r EXCEPT !.pc = "look"]
<1>1. r \in Lane /\ r.pc = "commit" /\ r.pc \in Working /\ r.landed /\ Shape(l, r)
  BY Places DEF TypeOK, Commit, Shapes, Shape
<1>2. CASE Becomes(l, q) /\ land' = land
  <2>1. /\ q \in Lane /\ q.pc = "look" /\ q.stage = r.stage
        /\ SameCopy(q, r) /\ SamePass(q, r) /\ SameEnd(q, r)
    BY <1>1, PcIs
  <2> HIDE DEF q
  <2>2. Follows(l, q, r)
    BY <1>1, <2>1, Places
       DEF SameCopy, SamePass, SameEnd, Follows, Shape, Open, Uncommitted
  <2>3. Grips(l, q)
    BY <1>1, <1>2, <2>1, Places DEF Grips
  <2> QED  BY <1>2, <2>2, <2>3, BecomesMoves
<1>3. CASE Becomes(l, Blocked(r)) /\ land' = Free
  <2>1. Follows(l, Blocked(r), r)
    BY <1>1, BlockedFollows
  <2>2. Grips(l, Blocked(r))
    BY <1>1, <1>3, BlockedIs, Places DEF Grips
  <2> QED  BY <1>3, <2>1, <2>2, BecomesMoves
<1> QED  BY <1>2, <1>3 DEF Commit

\* A landing that is over, with its checkpoint or without.
LEMMA LandedMoves ==
  ASSUME TypeOK, Shapes, NEW l \in Items, lane[l].pc \in {"look", "looking"},
         Becomes(l, Landed(lane[l])), land' = Free
  PROVE  Moves(l)
<1> DEFINE r == lane[l]
           q == Landed(r)
<1>1. r \in Lane /\ r.pc \in Working /\ r.landed /\ Shape(l, r)
  BY Places DEF TypeOK, Shapes, Shape
<1>2. /\ q \in Lane /\ q.stage = "done" /\ q.pc \in {"end", "file"}
      /\ SameCopy(q, r) /\ SameEnd(q, r)
  BY <1>1, LandedIs
<1> HIDE DEF q
<1>3. Follows(l, q, r)
  BY <1>1, <1>2, Places
     DEF SameCopy, SameEnd, Follows, Shape, Open, Uncommitted
<1>4. Grips(l, q)
  BY <1>2, Places DEF Grips
<1> QED  BY <1>3, <1>4, BecomesMoves DEF q

\* The checkpoint's suite begins.
LEMMA CheckpointBeginsMoves ==
  ASSUME TypeOK, Shapes, NEW l \in Items, CheckpointBegins(l)
  PROVE  Moves(l)
<1> DEFINE r == lane[l]
           q == [r EXCEPT !.pc = "looking"]
<1>1. /\ r \in Lane /\ r.pc = "look" /\ r.pc \in Working /\ r.landed /\ Shape(l, r)
      /\ Becomes(l, q) /\ land' = land
  BY Places DEF TypeOK, CheckpointBegins, Shapes, Shape
<1>2. /\ q \in Lane /\ q.pc = "looking" /\ q.stage = r.stage
      /\ SameCopy(q, r) /\ SamePass(q, r) /\ SameEnd(q, r)
  BY <1>1, PcIs
<1> HIDE DEF q
<1>3. Follows(l, q, r)
  BY <1>1, <1>2, Places
     DEF SameCopy, SamePass, SameEnd, Follows, Shape, Open, Uncommitted
<1>4. Grips(l, q)
  BY <1>1, <1>2, Places DEF Grips
<1> QED  BY <1>1, <1>3, <1>4, BecomesMoves

\* The end of a run.
LEMMA EndMoves ==
  ASSUME TypeOK, Shapes, NEW l \in Items, End(l)
  PROVE  Moves(l)
<1> DEFINE r == lane[l]
           p == PutBack(r)
<1>1. /\ r \in Lane /\ r.pc = "end" /\ r.pc \in Working /\ Shape(l, r)
      /\ r.stage \in {"done", "blocked"} /\ (r.stage = "done" => r.landed)
      /\ r.merge # {} => land = Free
  BY Places DEF TypeOK, End, Landing, Shapes, Shape
<1>g. \A q : Follows(l, q, lane[l]) => Grips(l, q)
  BY <1>1, LeavesLock, Places DEF End, Landing, OnStep, AtLanding, Uncommitted
<1>2. /\ p \in Lane /\ p.stage = r.stage /\ p.wrote = r.wrote /\ p.merge = {}
      /\ SameEnd(p, r) /\ (r.merge = {} => p = r)
      /\ p.base = r.base \/ \E m \in r.merge : p.base = m.base
  BY <1>1, PutBackIs
<1> HIDE DEF p
<1>3. CASE /\ p.stage # "done" /\ land = Free
           /\ Becomes(l, Out([p EXCEPT !.kept = p.wrote]))
  <2> DEFINE k == [p EXCEPT !.kept = p.wrote]
  <2>1. /\ k \in Lane /\ k.stage = p.stage /\ k.wrote = p.wrote /\ k.merge = p.merge
        /\ k.kept = p.wrote
    BY <1>2 DEF Lane
  <2> HIDE DEF k
  <2>2. LET q == Out(k) IN
        /\ q \in Lane /\ q.pc = "out" /\ q.stage = k.stage /\ q.wrote = k.wrote
        /\ q.merge = k.merge /\ ~q.landed /\ q.kept = k.kept
    BY <2>1, OutIs
  <2>3. Follows(l, Out(k), r)
    BY <1>1, <1>2, <1>3, <2>1, <2>2, Places DEF Follows, Shape, Open, Uncommitted
  <2> QED  BY <1>3, <2>3, BecomesMoves, <1>g DEF k
<1>4. CASE Becomes(l, [p EXCEPT !.pc = "file"])
  <2> DEFINE q == [p EXCEPT !.pc = "file"]
  <2>1. /\ q \in Lane /\ q.pc = "file" /\ q.stage = p.stage
        /\ SameCopy(q, p) /\ SamePass(q, p) /\ SameEnd(q, p)
    BY <1>2, PcIs
  <2> HIDE DEF q
  <2>2. Shape(l, q)
    BY <1>1, <1>2, <2>1, Places DEF SameCopy, SameEnd, Shape, Uncommitted
  <2>3. Follows(l, q, r)
    BY <1>1, <1>2, <2>1, <2>2, Places
       DEF SameCopy, SameEnd, Follows, Open, Uncommitted
  <2> QED  BY <1>4, <2>3, BecomesMoves, <1>g DEF q
<1> QED  BY <1>3, <1>4 DEF End, p

\* The filing of an item.
LEMMA FileMoves ==
  ASSUME TypeOK, Shapes, NEW l \in Items, File(l)
  PROVE  Moves(l)
<1> DEFINE r == lane[l]
<1>1. /\ r \in Lane /\ r.pc = "file" /\ r.pc \in Working /\ Shape(l, r) /\ land = Free
      /\ r.stage \in {"done", "blocked"} /\ r.merge = {} /\ (r.stage = "done" => r.landed)
  BY Places DEF TypeOK, File, Shapes, Shape
<1>g. \A q : Follows(l, q, lane[l]) => Grips(l, q)
  BY <1>1, LeavesLock, Places DEF File, AtLanding, Uncommitted
<1>2. CASE r.stage = "done" /\ Becomes(l, Out(r))
  <2>1. LET q == Out(r) IN
        /\ q \in Lane /\ q.pc = "out" /\ q.stage = r.stage /\ q.wrote = r.wrote
        /\ q.merge = r.merge /\ ~q.landed
    BY <1>1, OutIs
  <2>2. Follows(l, Out(r), r)
    BY <1>1, <1>2, <2>1, Places DEF Follows, Shape, Open, Uncommitted
  <2> QED  BY <1>2, <2>2, BecomesMoves, <1>g
<1>3. CASE r.stage # "done" /\ Becomes(l, Out([r EXCEPT !.kept = r.kept \/ r.wrote]))
  <2> DEFINE k == [r EXCEPT !.kept = r.kept \/ r.wrote]
  <2>1. (r.kept \/ r.wrote) \in BOOLEAN
    OBVIOUS
  <2>2. /\ k \in Lane /\ k.stage = r.stage /\ k.wrote = r.wrote /\ k.merge = r.merge
        /\ k.kept = (r.kept \/ r.wrote)
    BY <1>1, <2>1 DEF Lane
  <2> HIDE DEF k
  <2>3. LET q == Out(k) IN
        /\ q \in Lane /\ q.pc = "out" /\ q.stage = k.stage /\ q.wrote = k.wrote
        /\ q.merge = k.merge /\ ~q.landed /\ q.kept = k.kept
    BY <2>2, OutIs
  <2>4. Follows(l, Out(k), r)
    BY <1>1, <1>3, <2>2, <2>3, Places DEF Follows, Shape, Open, Uncommitted
  <2> QED  BY <1>3, <2>4, BecomesMoves, <1>g DEF k
<1> QED  BY <1>1, <1>2, <1>3 DEF File

\* The steps of a lane that has a copy and does not land.
RunStep(l) ==
  \/ TimeOut(l) \/ Boundary(l) \/ Build(l) \/ VerifyStep(l) \/ Review(l) \/ Fix(l)
  \/ TakeLandLock(l) \/ Reverify(l) \/ LandRefused(l) \/ Commit(l) \/ NoCheckpoint(l)
  \/ CheckpointBegins(l) \/ CheckpointEnds(l) \/ End(l) \/ File(l)

\* Every step of a run is a move of its lane.
LEMMA RunMoves ==
  ASSUME TypeOK, Shapes, NEW l \in Items, RunStep(l)
  PROVE  Moves(l)
<1>1. CASE NoCheckpoint(l)  BY <1>1, LandedMoves DEF NoCheckpoint
<1>2. CASE CheckpointEnds(l)  BY <1>2, LandedMoves DEF CheckpointEnds
<1> QED
  BY <1>1, <1>2, TimeOutMoves, BoundaryMoves, BuildMoves, VerifyMoves,
     ReviewMoves, FixMoves, TakeLandLockMoves, ReverifyMoves, LandRefusedMoves,
     CommitMoves, CheckpointBeginsMoves, EndMoves, FileMoves DEF RunStep

\* A copy is made of the checkout, or is not and the item is blocked.
Copied(l) ==
  LET r == lane[l] q == lane'[l] IN
  /\ q \in Lane /\ Shape(l, q) /\ ~q.landed
  /\ \/ /\ q.pc = "bound" /\ q.base = Seed /\ q.seen = Len(landings) /\ q.merge = {}
     \/ q.pc = "out" /\ q.stage = "blocked" /\ q.base = r.base
  /\ Alone(l)

LEMMA MakeCopyMoves ==
  ASSUME TypeOK, Shapes, NEW l \in Items, MakeCopy(l)
  PROVE  Copied(l)
<1> DEFINE r == lane[l]
<1>1. /\ r \in Lane /\ r.pc = "copy" /\ r.stage = "build" /\ ~r.wrote /\ r.merge = {}
      /\ ~r.verdict /\ ~r.landed
  BY Places DEF TypeOK, MakeCopy, Shapes, Shape
<1>2. Seed \in Tree /\ Len(landings) \in Nat
  BY DEF Seed, Tree, TypeOK
<1>3. CASE Becomes(l, [r EXCEPT !.pc = "bound", !.base = Seed, !.seen = Len(landings)])
  <2> DEFINE q == [r EXCEPT !.pc = "bound", !.base = Seed, !.seen = Len(landings)]
  <2>1. /\ q \in Lane /\ q.pc = "bound" /\ q.base = Seed /\ q.seen = Len(landings)
        /\ q.stage = r.stage /\ q.wrote = r.wrote /\ q.merge = r.merge
        /\ q.verdict = r.verdict /\ q.landed = r.landed
    BY <1>1, <1>2 DEF Lane
  <2>2. lane'[l] = q
    BY <1>3 DEF TypeOK, Becomes
  <2>3. Alone(l)
    BY <1>3, <2>1 DEF TypeOK, Becomes, Alone
  <2> HIDE DEF q
  <2> QED  BY <1>1, <2>1, <2>2, <2>3, Places DEF Copied, Shape, Uncommitted
<1>4. CASE Becomes(l, [r EXCEPT !.pc = "out", !.stage = "blocked"])
  <2> DEFINE q == [r EXCEPT !.pc = "out", !.stage = "blocked"]
  <2>1. /\ q \in Lane /\ q.pc = "out" /\ q.stage = "blocked" /\ q.base = r.base
        /\ q.wrote = r.wrote /\ q.merge = r.merge /\ q.landed = r.landed
    BY <1>1 DEF Lane
  <2>2. lane'[l] = q
    BY <1>4 DEF TypeOK, Becomes
  <2>3. Alone(l)
    BY <1>4, <2>1 DEF TypeOK, Becomes, Alone
  <2> HIDE DEF q
  <2> QED  BY <1>1, <2>1, <2>2, <2>3, Places DEF Copied, Shape, Uncommitted
<1> QED  BY <1>3, <1>4 DEF MakeCopy

\* A landing adds the item to the files its patch writes, and to the landings.
Put(l) ==
  LET r == lane[l] q == lane'[l] IN
  /\ r.pc = "land" /\ r.wrote /\ r.merge = {} /\ r.verified = {Copy(l, r)}
  /\ q \in Lane /\ Shape(l, q) /\ q.pc \in {"commit", "look"} /\ q.landed
  /\ q.base = r.base /\ q.merge = {}
  /\ Alone(l)
  /\ landings' = Append(landings, l)
  /\ \A f \in Files : checkout'[f] = checkout[f] \cup {i \in {l} : f \in Writes[l]}

LEMMA LandsMoves ==
  ASSUME TypeOK, Shapes, NEW l \in Items, Lands(l)
  PROVE  Put(l)
<1> DEFINE r == lane[l]
           s == Len(landings')
           p == IF r.stage = "commit" THEN "commit" ELSE "look"
           q == [r EXCEPT !.landed = TRUE, !.seen = s, !.pc = p]
<1>1. /\ r \in Lane /\ r.pc = "land" /\ r.wrote /\ r.merge = {}
      /\ r.verified = {Copy(l, r)} /\ r.stage \in {"commit", "done"} /\ ~r.landed
  BY Places DEF TypeOK, Lands, Shapes, Shape
<1>2. landings' = Append(landings, l) /\ s \in Nat
  BY DEF Lands, TypeOK
<1>3. Becomes(l, q)
  BY DEF Lands
<1>4. /\ p \in {"commit", "look"} /\ (p = "commit" => r.stage = "commit")
  OBVIOUS
<1>5. lane'[l] = q
  BY <1>3 DEF TypeOK, Becomes
<1> HIDE DEF s, p
<1>6. /\ q \in Lane /\ q.pc = p /\ q.landed /\ q.base = r.base /\ q.merge = r.merge
      /\ q.stage = r.stage /\ q.wrote = r.wrote /\ q.verdict = r.verdict
  BY <1>1, <1>2, <1>4 DEF Lane
<1> HIDE DEF q
<1>7. ASSUME NEW f \in Files
      PROVE  checkout'[f] = checkout[f] \cup {i \in {l} : f \in Writes[l]}
  <2>1. checkout'[f] = IF f \in Writes[l] THEN Copy(l, r)[f] ELSE checkout[f]
    BY DEF Lands
  <2>2. Copy(l, r)[f] = r.base[f] \cup {i \in {l} : r.wrote /\ f \in Writes[l]}
    BY DEF Copy
  <2>3. f \in Writes[l] => r.base[f] = checkout[f]
    BY DEF Lands, Plain
  <2> QED  BY <1>1, <2>1, <2>2, <2>3
<1>8. Alone(l)
  BY <1>3, <1>6 DEF TypeOK, Becomes, Alone
<1>9. Shape(l, q)
  BY <1>1, <1>4, <1>6, Places DEF Shape, Uncommitted
<1> QED  BY <1>1, <1>2, <1>4, <1>5, <1>6, <1>7, <1>8, <1>9 DEF Put

-----------------------------------------------------------------------------
(***************************************************************************)
(* The invariants, step by step.                                           *)
(***************************************************************************)

\* Every step of the sprint is one of these.
LEMMA StepsAre ==
  ASSUME Next
  PROVE  \/ \E l \in Items : RunStep(l) \/ MakeCopy(l) \/ Lands(l) \/ Take(l) \/ Result(l)
         \/ TakeNone \/ Stop \/ Crash \/ Restart \/ UNCHANGED vars
         \/ \E f \in Hands : HandEdit(f)
BY DEF Next, MainStep, LaneStep, RunStep, Over

\* A lane's record where the main loop starts it, ends it, or takes it down.
LEMMA TakeMoves ==
  ASSUME TypeOK, Shapes, Filed, NEW l \in Items, Take(l)
  PROVE  /\ lane[l].pc = "idle"
         /\ lane'[l] \in Lane /\ Shape(l, lane'[l]) /\ lane'[l].pc = "copy"
         /\ lane'[l].base = lane[l].base /\ ~lane'[l].landed
         /\ Alone(l)
<1> DEFINE r == lane[l]
           q == [r EXCEPT !.pc = "copy"]
<1>1. r \in Lane /\ r.pc = "idle" /\ Shape(l, r)
  BY DEF TypeOK, Shapes, Filed, Take, Takeable, Ready
<1>2. lane' = [lane EXCEPT ![l] = q] /\ lane'[l] = q
  BY DEF TypeOK, Take
<1>3. /\ q \in Lane /\ q.pc = "copy" /\ q.stage = r.stage
      /\ SameCopy(q, r) /\ SamePass(q, r) /\ SameEnd(q, r)
  BY <1>1, PcIs
<1>4. Alone(l)
  BY <1>2, <1>3 DEF TypeOK, Alone
<1> HIDE DEF q
<1> QED
  BY <1>1, <1>2, <1>3, <1>4, Places DEF SameCopy, SamePass, SameEnd, Shape,
     Uncommitted

\* What the main loop reads of a lane that is out.
LEMMA ResultMoves ==
  ASSUME TypeOK, Shapes, NEW l \in Items, Result(l)
  PROVE  /\ lane[l].pc = "out"
         /\ lane'[l] \in Lane /\ Shape(l, lane'[l]) /\ lane'[l].pc = "over"
         /\ lane'[l].stage = lane[l].stage
         /\ lane'[l].base = lane[l].base /\ ~lane'[l].landed
         /\ Alone(l)
<1> DEFINE r == lane[l]
           q == [r EXCEPT !.pc = "over"]
<1>1. r \in Lane /\ r.pc = "out" /\ Shape(l, r)
  BY DEF TypeOK, Shapes, Result
<1>2. lane' = [lane EXCEPT ![l] = q] /\ lane'[l] = q
  BY DEF TypeOK, Result
<1>3. /\ q \in Lane /\ q.pc = "over" /\ q.stage = r.stage
      /\ SameCopy(q, r) /\ SamePass(q, r) /\ SameEnd(q, r)
  BY <1>1, PcIs
<1>4. Alone(l)
  BY <1>2, <1>3 DEF TypeOK, Alone
<1> HIDE DEF q
<1> QED
  BY <1>1, <1>2, <1>3, <1>4, Places DEF SameCopy, SamePass, SameEnd, Shape,
     Uncommitted

\* A crash takes down the lanes the sprint file names.
LEMMA CrashMoves ==
  ASSUME TypeOK, Shapes, Crash
  PROVE  /\ lane' \in [Items -> Lane] /\ Shapes'
         /\ \A l \in sprint.lanes : lane'[l].pc = "gone" /\ ~lane'[l].landed
         /\ \A l \in Items \ sprint.lanes : lane'[l] = lane[l]
<1> DEFINE q == [Idle EXCEPT !.pc = "gone"]
<1>1. /\ q \in Lane /\ q.pc = "gone" /\ q.stage = "build" /\ ~q.wrote /\ q.merge = {}
      /\ ~q.verdict /\ ~q.landed
  BY IdleIs, PcIs, ZenonT(40) DEF SameCopy, SamePass, SameEnd
<1>2. lane' = [i \in Items |-> IF i \in sprint.lanes THEN q ELSE lane[i]]
  BY DEF Crash
<1>3. sprint.lanes \subseteq Items
  BY DEF TypeOK
<1> HIDE DEF q
<1>4. \A l \in Items : Shape(l, q)
  BY <1>1, Places DEF Shape, Uncommitted
<1> QED  BY <1>1, <1>2, <1>3, <1>4 DEF TypeOK, Shapes

\* What a lane's run leaves alone, and how far it changes the rest.
SameSprint ==
  /\ sprint'.attempts = sprint.attempts /\ sprint'.lanes = sprint.lanes
  /\ sprint'.done = sprint.done /\ sprint'.blocked = sprint.blocked

RunKeeps(l) ==
  /\ UNCHANGED <<fixed, main, stop, checkout, landings>> /\ SameSprint
  /\ tracked \subseteq tracked' /\ tracked' \subseteq Files
  /\ sprint' \in [attempts : SUBSET Items, lanes : SUBSET Items, done : SUBSET Items,
                  blocked : SUBSET Items, halted : BOOLEAN, crashes : 0..Crashes]
  /\ item' \in [Items -> {"open", "in_progress", "blocked", "done"}]
  /\ \A k \in Items \ {l} : item'[k] = item[k]
  /\ item'[l] = "done" => \/ item[l] = "done"
                          \/ /\ lane[l].pc = "file" /\ lane[l].stage = "done"
                             /\ lane'[l].pc = "out"
  /\ cp' \in [landed : Nat, running : BOOLEAN]
  /\ land' \in Items \cup {Free}
  /\ \/ cp' = cp /\ lane[l].pc # "looking"
     \/ ~cp'.running
     \/ lane'[l].pc = "looking"

LEMMA RunFrame ==
  ASSUME TypeOK, NEW l \in Items, RunStep(l)
  PROVE  RunKeeps(l)
<1>1. CASE TimeOut(l) \/ Boundary(l) \/ Build(l) \/ VerifyStep(l) \/ Review(l) \/ Fix(l)
  BY <1>1 DEF RunKeeps, SameSprint, TypeOK, fixed, Still, TimeOut, Boundary, Build,
              VerifyStep, Review, Fix, OnStep
<1>2. CASE TakeLandLock(l) \/ Reverify(l) \/ LandRefused(l) \/ NoCheckpoint(l)
  BY <1>2 DEF RunKeeps, SameSprint, TypeOK, fixed, Still, TakeLandLock, Landing, OnStep,
              Reverify, LandRefused, NoCheckpoint
<1>3. CASE Commit(l)
  BY <1>3, LanesAssumption DEF RunKeeps, SameSprint, TypeOK, fixed, backlog, Commit
<1>4. CASE CheckpointBegins(l)
  <2>1. lane'[l].pc = "looking"
    BY <1>4, PcIs DEF CheckpointBegins, Becomes, TypeOK
  <2> QED
    BY <1>4, <2>1 DEF RunKeeps, SameSprint, TypeOK, fixed, backlog, CheckpointBegins
<1>5. CASE CheckpointEnds(l)
  BY <1>5 DEF RunKeeps, SameSprint, TypeOK, fixed, CheckpointEnds
<1>6. CASE End(l)  BY <1>6 DEF RunKeeps, SameSprint, TypeOK, fixed, Still, End
<1>7. CASE File(l)
  <2>1. lane[l].stage = "done" => lane'[l] = Out(lane[l])
    BY <1>7 DEF File, Becomes, TypeOK
  <2>2. lane[l].stage = "done" => lane'[l].pc = "out"
    BY <2>1, OutIs DEF TypeOK
  <2> QED  BY <1>7, <2>2 DEF RunKeeps, SameSprint, TypeOK, fixed, Still, File
<1> QED  BY <1>1, <1>2, <1>3, <1>4, <1>5, <1>6, <1>7 DEF RunStep

\* Every step keeps every variable's type and every lane's shape.
LEMMA ShapesStep ==
  ASSUME TypeOK, Shapes, Filed, Next
  PROVE  TypeOK' /\ Shapes'
<1>1. ASSUME NEW l \in Items, RunStep(l) PROVE TypeOK' /\ Shapes'
  <2>1. RunKeeps(l) /\ Moves(l)
    BY <1>1, RunFrame, RunMoves
  <2>2. Shapes'
    BY <2>1 DEF Moves, Follows, Alone, Shapes
  <2>3. TypeOK'
    BY <2>1 DEF RunKeeps, Moves, Alone, TypeOK, fixed
  <2> QED  BY <2>2, <2>3
<1>2. ASSUME NEW l \in Items, MakeCopy(l) PROVE TypeOK' /\ Shapes'
  <2>1. Copied(l)
    BY <1>2, MakeCopyMoves
  <2>2. Shapes'
    BY <2>1 DEF Copied, Alone, Shapes
  <2>3. TypeOK'
    BY <1>2, <2>1 DEF MakeCopy, Still, Copied, Alone, TypeOK, fixed
  <2> QED  BY <2>2, <2>3
<1>3. ASSUME NEW l \in Items, Lands(l) PROVE TypeOK' /\ Shapes'
  <2>1. Put(l)
    BY <1>3, LandsMoves
  <2>2. Shapes'
    BY <2>1 DEF Put, Alone, Shapes
  <2>3. checkout' \in Tree
    <3>1. checkout' = [f \in Files |-> checkout'[f]]
      BY <1>3 DEF Lands
    <3>2. ASSUME NEW f \in Files PROVE checkout'[f] \in SUBSET (Items \cup {Hand})
      BY <2>1 DEF Put, TypeOK, Tree
    <3> QED  BY <3>1, <3>2 DEF Tree
  <2>4. landings' \in Seq(Items)
    BY <2>1 DEF Put, TypeOK
  <2>5. cp' \in [landed : Nat, running : BOOLEAN]
    BY <1>3 DEF Lands, TypeOK
  <2>6. TypeOK'
    BY <1>3, <2>1, <2>3, <2>4, <2>5 DEF Lands, backlog, Put, Alone, TypeOK, fixed
  <2> QED  BY <2>2, <2>6
<1>4. ASSUME NEW l \in Items, Take(l) PROVE TypeOK' /\ Shapes'
  <2>1. lane'[l] \in Lane /\ Shape(l, lane'[l]) /\ Alone(l)
    BY <1>4, TakeMoves
  <2>2. Shapes'
    BY <2>1 DEF Alone, Shapes
  <2>3. TypeOK'
    BY <1>4, <2>1 DEF Take, Alone, TypeOK, fixed
  <2> QED  BY <2>2, <2>3
<1>5. ASSUME NEW l \in Items, Result(l) PROVE TypeOK' /\ Shapes'
  <2>1. lane'[l] \in Lane /\ Shape(l, lane'[l]) /\ Alone(l)
    BY <1>5, ResultMoves
  <2>2. Shapes'
    BY <2>1 DEF Alone, Shapes
  <2>3. TypeOK'
    BY <1>5, <2>1 DEF Result, Alone, TypeOK, fixed
  <2> QED  BY <2>2, <2>3
<1>6. ASSUME TakeNone \/ Stop \/ Restart \/ UNCHANGED vars PROVE TypeOK' /\ Shapes'
  <2>1. lane' = lane
    BY <1>6 DEF TakeNone, Stop, Restart, vars
  <2>2. Shapes'
    BY <2>1 DEF Shapes
  <2>3. CASE TakeNone
    <3>1. main' \in {"loop", "wait", "over", "dead"}
      BY <2>3 DEF TakeNone
    <3>2. UNCHANGED <<nocommit, closeGate, stop, sprint, item, checkout, tracked,
                      landings, land, cp, lane>>
      BY <2>3 DEF TakeNone, fixed, backlog
    <3> QED  BY <2>2, <3>1, <3>2 DEF TypeOK
  <2>4. CASE Stop
    <3>1. stop' \in BOOLEAN
      BY <2>4 DEF Stop
    <3>2. UNCHANGED <<nocommit, closeGate, main, sprint, item, checkout, tracked,
                      landings, land, cp, lane>>
      BY <2>4 DEF Stop, fixed, backlog
    <3> QED  BY <2>2, <3>1, <3>2 DEF TypeOK
  <2>5. CASE UNCHANGED vars
    BY <2>2, <2>5 DEF vars, TypeOK
  <2>6. CASE Restart
    <3>1. sprint' \in [attempts : SUBSET Items, lanes : SUBSET Items, done : SUBSET Items,
                       blocked : SUBSET Items, halted : BOOLEAN, crashes : 0..Crashes]
      BY <2>6 DEF Restart, TypeOK
    <3>2. item' \in [Items -> {"open", "in_progress", "blocked", "done"}]
      BY <2>6 DEF Restart, TypeOK
    <3>3. main' = "loop"
      BY <2>6 DEF Restart
    <3>4. UNCHANGED <<nocommit, closeGate, stop, checkout, tracked, landings, land, cp,
                      lane>>
      BY <2>6 DEF Restart, fixed
    <3> QED  BY <2>2, <3>1, <3>2, <3>3, <3>4 DEF TypeOK
  <2> QED  BY <1>6, <2>3, <2>4, <2>5, <2>6
<1>7. ASSUME Crash PROVE TypeOK' /\ Shapes'
  <2>1. lane' \in [Items -> Lane] /\ Shapes'
    BY <1>7, CrashMoves
  <2>2. sprint' \in [attempts : SUBSET Items, lanes : SUBSET Items, done : SUBSET Items,
                     blocked : SUBSET Items, halted : BOOLEAN, crashes : 0..Crashes]
    <3>1. sprint.crashes + 1 \in 0..Crashes
      BY <1>7, LanesAssumption DEF Crash, TypeOK
    <3>2. sprint' = [sprint EXCEPT !.crashes = sprint.crashes + 1]
      BY <1>7 DEF Crash
    <3> QED  BY <3>1, <3>2 DEF TypeOK
  <2>3. landings' \in Seq(Items) /\ cp' \in [landed : Nat, running : BOOLEAN]
    BY <1>7 DEF Crash
  <2>4. main' = "dead" /\ stop' = FALSE /\ land' = Free
    BY <1>7 DEF Crash
  <2>5. UNCHANGED <<nocommit, closeGate, item, checkout, tracked>>
    BY <1>7 DEF Crash, fixed
  <2>6. TypeOK'
    BY <2>1, <2>2, <2>3, <2>4, <2>5 DEF TypeOK
  <2> QED  BY <2>1, <2>6
<1>8. ASSUME NEW f \in Hands, HandEdit(f) PROVE TypeOK' /\ Shapes'
  <2>1. lane' = lane /\ Shapes'
    BY <1>8 DEF HandEdit, Shapes
  <2>2. checkout' \in Tree
    BY <1>8, LanesAssumption DEF HandEdit, TypeOK, Tree
  <2>3. TypeOK'
    BY <1>8, <2>1, <2>2 DEF HandEdit, TypeOK, fixed, backlog
  <2> QED  BY <2>1, <2>3
<1> QED  BY StepsAre, <1>1, <1>2, <1>3, <1>4, <1>5, <1>6, <1>7, <1>8

\* The land lock goes with its holder, and a checkpoint with the lane that runs it.
LEMMA LocksStep ==
  ASSUME TypeOK, Shapes, Locks, Filed, Next
  PROVE  Locks'
<1>0. Free \notin Items
  BY LanesAssumption
<1>1. ASSUME NEW l \in Items, RunStep(l) PROVE Locks'
  <2>1. RunKeeps(l) /\ Moves(l)
    BY <1>1, RunFrame, RunMoves
  <2>2. ASSUME NEW k \in Items PROVE lane'[k].pc \in Holding <=> land' = k
    <3>1. CASE k = l
      BY <1>0, <2>1, <3>1 DEF Moves, Grips, Locks
    <3>2. CASE k # l
      BY <1>0, <2>1, <3>2 DEF Moves, Grips, Alone, Locks
    <3> QED  BY <3>1, <3>2
  <2>3. ASSUME cp'.running PROVE \E k \in Items : lane'[k].pc = "looking"
    BY <2>1, <2>3 DEF RunKeeps, Moves, Alone, Locks
  <2> QED  BY <2>2, <2>3 DEF Locks
<1>2. ASSUME NEW l \in Items, MakeCopy(l) PROVE Locks'
  <2>1. Copied(l) /\ lane[l].pc = "copy" /\ land' = land /\ cp' = cp
    BY <1>2, MakeCopyMoves DEF MakeCopy, Still
  <2> QED  BY <2>1, Places DEF Copied, Alone, Locks
<1>3. ASSUME NEW l \in Items, Lands(l) PROVE Locks'
  <2>1. Put(l) /\ land' = land /\ cp'.running = cp.running
    BY <1>3, LandsMoves DEF Lands, TypeOK
  <2> QED  BY <2>1, Places DEF Put, Alone, Locks
<1>4. ASSUME NEW l \in Items, Take(l) PROVE Locks'
  <2>1. /\ lane[l].pc = "idle" /\ lane'[l].pc = "copy" /\ Alone(l)
        /\ land' = land /\ cp' = cp
    BY <1>4, TakeMoves DEF Take
  <2> QED  BY <2>1, Places DEF Alone, Locks
<1>5. ASSUME NEW l \in Items, Result(l) PROVE Locks'
  <2>1. /\ lane[l].pc = "out" /\ lane'[l].pc = "over" /\ Alone(l)
        /\ land' = land /\ cp' = cp
    BY <1>5, ResultMoves DEF Result
  <2> QED  BY <2>1, Places DEF Alone, Locks
<1>6. ASSUME TakeNone \/ Stop \/ Restart \/ UNCHANGED vars PROVE Locks'
  BY <1>6 DEF TakeNone, Stop, Restart, vars, Locks
<1>7. ASSUME Crash PROVE Locks'
  <2>1. land' = Free /\ ~cp'.running
    BY <1>7 DEF Crash
  <2>2. \A l \in Items : lane'[l].pc \notin Holding
    BY <1>7, CrashMoves, Places DEF Filed
  <2> QED  BY <1>0, <2>1, <2>2 DEF Locks
<1>8. ASSUME NEW f \in Hands, HandEdit(f) PROVE Locks'  BY <1>8 DEF HandEdit, Locks
<1> QED  BY StepsAre, <1>1, <1>2, <1>3, <1>4, <1>5, <1>6, <1>7, <1>8

\* The sprint file names the lanes that run.
LEMMA FiledStep ==
  ASSUME TypeOK, Shapes, Filed, Next
  PROVE  Filed'
<1>1. ASSUME NEW l \in Items, RunStep(l) PROVE Filed'
  <2>1. RunKeeps(l) /\ Moves(l)
    BY <1>1, RunFrame, RunMoves
  <2>2. /\ main' = main /\ sprint'.attempts = sprint.attempts
        /\ sprint'.lanes = sprint.lanes
    BY <2>1 DEF RunKeeps, SameSprint
  <2>3. lane[l].pc \in Working /\ lane'[l].pc \in Working \cup {"out"} /\ Alone(l)
    BY <2>1 DEF Moves, Follows
  <2> QED  BY <2>2, <2>3, Places DEF Alone, Filed
<1>2. ASSUME NEW l \in Items, MakeCopy(l) PROVE Filed'
  <2>1. /\ lane[l].pc = "copy" /\ lane'[l].pc \in {"bound", "out"} /\ Alone(l)
        /\ main' = main /\ sprint' = sprint
    BY <1>2, MakeCopyMoves DEF MakeCopy, Still, Copied
  <2> QED  BY <2>1 DEF Alone, Filed
<1>3. ASSUME NEW l \in Items, Lands(l) PROVE Filed'
  <2>1. /\ lane[l].pc = "land" /\ lane'[l].pc \in {"commit", "look"} /\ Alone(l)
        /\ main' = main /\ sprint' = sprint
    BY <1>3, LandsMoves DEF Lands, Put, backlog
  <2> QED  BY <2>1 DEF Alone, Filed
<1>4. ASSUME NEW l \in Items, Take(l) PROVE Filed'
  <2>1. /\ lane[l].pc = "idle" /\ lane'[l].pc = "copy" /\ Alone(l)
        /\ main' = main /\ main = "loop"
    BY <1>4, TakeMoves DEF Take, Looping
  <2>2. /\ sprint'.attempts = sprint.attempts \cup {l}
        /\ sprint'.lanes = sprint.lanes \cup {l}
    BY <1>4 DEF Take, TypeOK
  <2> QED  BY <2>1, <2>2 DEF Alone, Filed
<1>5. ASSUME NEW l \in Items, Result(l) PROVE Filed'
  <2>1. /\ lane[l].pc = "out" /\ lane'[l].pc = "over" /\ Alone(l) /\ main' = "loop"
    BY <1>5, ResultMoves DEF Result
  <2>2. sprint'.attempts = sprint.attempts /\ sprint'.lanes = sprint.lanes \ {l}
    BY <1>5 DEF Result, TypeOK
  <2> QED  BY <2>1, <2>2 DEF Alone, Filed
<1>6. CASE TakeNone \/ Stop \/ UNCHANGED vars
  <2>1. /\ lane' = lane /\ sprint' = sprint
        /\ main' = "dead" => main = "dead"
    BY <1>6 DEF TakeNone, Stop, vars, backlog
  <2> QED  BY <2>1 DEF Filed
<1>7. CASE Restart
  <2>1. /\ lane' = lane /\ main = "dead" /\ main' = "loop"
        /\ sprint'.attempts = sprint.attempts /\ sprint'.lanes = {}
    BY <1>7 DEF Restart, TypeOK
  <2> QED  BY <2>1 DEF Filed
<1>8. CASE Crash
  <2>1. sprint'.attempts = sprint.attempts /\ sprint'.lanes = sprint.lanes
    BY <1>8 DEF Crash, TypeOK
  <2>2. \A l \in Items : IF l \in sprint.lanes THEN lane'[l].pc = "gone"
                                               ELSE lane'[l] = lane[l]
    BY <1>8, CrashMoves
  <2> QED  BY <2>1, <2>2 DEF Filed
<1>9. ASSUME NEW f \in Hands, HandEdit(f) PROVE Filed'
  BY <1>9 DEF HandEdit, Filed, backlog
<1> QED  BY StepsAre, <1>1, <1>2, <1>3, <1>4, <1>5, <1>6, <1>7, <1>8, <1>9

\* A file of the checkout loses no change.
LEMMA LandedStays ==
  ASSUME TypeOK, Shapes, Next, NEW d \in Items, HasLanded(d)
  PROVE  HasLanded(d)'
<1>1. Writes[d] \subseteq Files
  BY LanesAssumption
<1>2. ASSUME NEW f \in Files PROVE checkout[f] \subseteq checkout'[f]
  <2>1. ASSUME NEW l \in Items, RunStep(l) PROVE checkout' = checkout
    BY <2>1, RunFrame DEF RunKeeps
  <2>2. ASSUME NEW l \in Items, Lands(l) PROVE checkout[f] \subseteq checkout'[f]
    BY <2>2, LandsMoves DEF Put
  <2>3. ASSUME NEW g \in Hands, HandEdit(g) PROVE checkout[f] \subseteq checkout'[f]
    BY <2>3 DEF HandEdit, TypeOK, Tree
  <2>4. ASSUME NEW l \in Items, MakeCopy(l) \/ Take(l) \/ Result(l)
        PROVE  checkout' = checkout
    BY <2>4 DEF MakeCopy, Still, Take, Result
  <2>5. CASE TakeNone \/ Stop \/ Crash \/ Restart \/ UNCHANGED vars
    BY <2>5 DEF TakeNone, Stop, Crash, Restart, vars
  <2> QED  BY StepsAre, <2>1, <2>2, <2>3, <2>4, <2>5
<1> QED  BY <1>1, <1>2 DEF HasLanded

\* What is done is on the checkout, and stays there.
LEMMA ArchivedStep ==
  ASSUME TypeOK, Shapes, Filed, Archived, Next
  PROVE  Archived'
<1>0. \A d \in Items : HasLanded(d) => HasLanded(d)'
  BY LandedStays
<1>1. ASSUME NEW l \in Items, RunStep(l) PROVE Archived'
  <2>1. RunKeeps(l) /\ Moves(l)
    BY <1>1, RunFrame, RunMoves
  <2>2. /\ Alone(l) /\ sprint'.done = sprint.done
        /\ \A k \in Items \ {l} : item'[k] = item[k]
    BY <2>1 DEF RunKeeps, SameSprint, Moves
  <2>3. item[l] # "done"
    BY <2>1, Places DEF Moves, Follows, Archived, Counts
  <2>4. /\ lane[l].pc \in Working /\ lane'[l].pc \in Working \cup {"out"}
        /\ lane'[l].landed \/ (lane'[l].pc = "out" /\ lane'[l].stage = "done")
             => HasLanded(l)
    <3>1. /\ lane[l].pc \in Working /\ lane'[l].pc \in Working \cup {"out"}
          /\ lane'[l].landed \/ (lane'[l].pc = "out" /\ lane'[l].stage = "done")
               => lane[l].landed
      BY <2>1 DEF Moves, Follows
    <3>2. lane[l].landed => HasLanded(l)
      BY DEF Archived, Counts
    <3> QED  BY <3>1, <3>2
  <2>5. item'[l] = "done" => HasLanded(l) /\ lane'[l].pc = "out"
    <3>1. item'[l] = "done" => /\ lane[l].pc = "file" /\ lane[l].stage = "done"
                               /\ lane'[l].pc = "out"
      BY <2>1, <2>3 DEF RunKeeps
    <3>2. lane[l].pc = "file" /\ lane[l].stage = "done" => lane[l].landed
      BY DEF Shapes, Shape
    <3>3. lane[l].landed => HasLanded(l)
      BY DEF Archived, Counts
    <3> QED  BY <3>1, <3>2, <3>3
  <2>6. ASSUME NEW k \in Items
        PROVE  /\ item'[k] = "done" => lane'[k].pc \in {"out", "over", "gone"}
               /\ Counts(k)' => HasLanded(k)'
               /\ lane'[k].pc = "copy" => \A d \in Needs[k] : item'[d] = "done"
    <3>1. CASE k = l
      BY <1>0, <2>2, <2>4, <2>5, <3>1, Places DEF Archived, Counts
    <3>2. CASE k # l
      BY <1>0, <2>2, <2>3, <3>2, LanesAssumption DEF Alone, Archived, Counts
    <3> QED  BY <3>1, <3>2
  <2> QED  BY <2>6 DEF Archived
<1>2. ASSUME NEW l \in Items, MakeCopy(l) PROVE Archived'
  <2>1. Copied(l) /\ lane[l].pc = "copy" /\ sprint' = sprint
    BY <1>2, MakeCopyMoves DEF MakeCopy, Still
  <2>2. item'[l] # "done" /\ \A k \in Items \ {l} : item'[k] = item[k]
    BY <1>2 DEF MakeCopy, TypeOK
  <2>3. item[l] # "done"
    BY <2>1 DEF Archived, Counts
  <2>4. ASSUME NEW k \in Items
        PROVE  /\ item'[k] = "done" => lane'[k].pc \in {"out", "over", "gone"}
               /\ Counts(k)' => HasLanded(k)'
               /\ lane'[k].pc = "copy" => \A d \in Needs[k] : item'[d] = "done"
    <3>1. CASE k = l
      BY <1>0, <2>1, <2>2, <3>1 DEF Copied, Archived, Counts
    <3>2. CASE k # l
      BY <1>0, <2>1, <2>2, <2>3, <3>2, LanesAssumption
         DEF Copied, Alone, Archived, Counts
    <3> QED  BY <3>1, <3>2
  <2> QED  BY <2>4 DEF Archived
<1>3. ASSUME NEW l \in Items, Lands(l) PROVE Archived'
  <2>1. Put(l) /\ sprint' = sprint /\ item' = item
    BY <1>3, LandsMoves DEF Lands, backlog
  <2>2. HasLanded(l)'
    BY <2>1, LanesAssumption DEF Put, HasLanded
  <2>3. item[l] # "done"
    BY <2>1 DEF Put, Archived, Counts
  <2>4. ASSUME NEW k \in Items
        PROVE  /\ item'[k] = "done" => lane'[k].pc \in {"out", "over", "gone"}
               /\ Counts(k)' => HasLanded(k)'
               /\ lane'[k].pc = "copy" => \A d \in Needs[k] : item'[d] = "done"
    <3>1. CASE k = l
      BY <2>2, <3>1, <2>1, <2>3 DEF Put
    <3>2. CASE k # l
      BY <1>0, <2>1, <3>2 DEF Put, Alone, Archived, Counts
    <3> QED  BY <3>1, <3>2
  <2> QED  BY <2>4 DEF Archived
<1>4. ASSUME NEW l \in Items, Take(l) PROVE Archived'
  <2>1. lane'[l].pc = "copy" /\ ~lane'[l].landed /\ Alone(l) /\ item' = item
    BY <1>4, TakeMoves DEF Take
  <2>2. item[l] = "open" /\ \A d \in Needs[l] : item[d] = "done"
    BY <1>4 DEF Take, Takeable, Ready
  <2>3. sprint'.done = sprint.done
    BY <1>4 DEF Take, TypeOK
  <2>4. ASSUME NEW k \in Items
        PROVE  /\ item'[k] = "done" => lane'[k].pc \in {"out", "over", "gone"}
               /\ Counts(k)' => HasLanded(k)'
               /\ lane'[k].pc = "copy" => \A d \in Needs[k] : item'[d] = "done"
    <3>1. CASE k = l
      BY <1>0, <2>1, <2>2, <2>3, <3>1 DEF Archived, Counts
    <3>2. CASE k # l
      BY <1>0, <2>1, <2>3, <3>2 DEF Alone, Archived, Counts
    <3> QED  BY <3>1, <3>2
  <2> QED  BY <2>4 DEF Archived
<1>5. ASSUME NEW l \in Items, Result(l) PROVE Archived'
  <2>1. /\ lane[l].pc = "out" /\ lane'[l].pc = "over" /\ lane'[l].stage = lane[l].stage
        /\ ~lane'[l].landed /\ Alone(l) /\ item' = item
    BY <1>5, ResultMoves DEF Result
  <2>2. \A k \in sprint'.done : k \in sprint.done \/ (k = l /\ lane[l].stage = "done")
    BY <1>5 DEF Result, TypeOK
  <2>3. lane[l].pc = "out" /\ lane[l].stage = "done" => HasLanded(l)
    BY DEF Archived, Counts
  <2>4. item[l] = "done" \/ l \in sprint.done => HasLanded(l)
    BY DEF Archived, Counts
  <2>5. ASSUME NEW k \in Items
        PROVE  /\ item'[k] = "done" => lane'[k].pc \in {"out", "over", "gone"}
               /\ Counts(k)' => HasLanded(k)'
               /\ lane'[k].pc = "copy" => \A d \in Needs[k] : item'[d] = "done"
    <3>1. CASE k = l
      BY <1>0, <2>1, <2>2, <2>3, <2>4, <3>1 DEF Counts
    <3>2. CASE k # l
      <4>1. lane'[k] = lane[k] /\ (k \in sprint'.done => k \in sprint.done)
        BY <2>1, <2>2, <3>2 DEF Alone
      <4> QED  BY <1>0, <2>1, <4>1 DEF Archived, Counts
    <3> QED  BY <3>1, <3>2
  <2> QED  BY <2>5 DEF Archived
<1>6. CASE TakeNone \/ Stop \/ UNCHANGED vars
  BY <1>6 DEF TakeNone, Stop, vars, backlog, Archived, Counts, HasLanded
<1>7. CASE Restart
  <2>1. lane' = lane /\ checkout' = checkout /\ sprint'.done = sprint.done
    BY <1>7 DEF Restart, TypeOK
  <2>2. \A i \in Items : item'[i] = "done" <=> item[i] = "done"
    BY <1>7 DEF Restart
  <2>3. ASSUME NEW k \in Items
        PROVE  /\ item'[k] = "done" => lane'[k].pc \in {"out", "over", "gone"}
               /\ Counts(k)' => HasLanded(k)'
               /\ lane'[k].pc = "copy" => \A d \in Needs[k] : item'[d] = "done"
    BY <1>0, <2>1, <2>2, LanesAssumption DEF Archived, Counts
  <2> QED  BY <2>3 DEF Archived
<1>8. CASE Crash
  <2>1. item' = item /\ sprint'.done = sprint.done
    BY <1>8 DEF Crash, TypeOK
  <2>2. \A l \in Items : \/ lane'[l].pc = "gone" /\ ~lane'[l].landed
                         \/ lane'[l] = lane[l]
    BY <1>8, CrashMoves
  <2>3. ASSUME NEW k \in Items
        PROVE  /\ item'[k] = "done" => lane'[k].pc \in {"out", "over", "gone"}
               /\ Counts(k)' => HasLanded(k)'
               /\ lane'[k].pc = "copy" => \A d \in Needs[k] : item'[d] = "done"
    BY <1>0, <2>1, <2>2 DEF Archived, Counts
  <2> QED  BY <2>3 DEF Archived, Counts
<1>9. ASSUME NEW f \in Hands, HandEdit(f) PROVE Archived'
  <2>1. lane' = lane /\ item' = item /\ sprint' = sprint
    BY <1>9 DEF HandEdit, backlog
  <2> QED  BY <1>0, <2>1 DEF Archived, Counts
<1> QED  BY StepsAre, <1>1, <1>2, <1>3, <1>4, <1>5, <1>6, <1>7, <1>8, <1>9

-----------------------------------------------------------------------------
(***************************************************************************)
(* What a copy lacks of the checkout, in the files git knows.              *)
(***************************************************************************)

\* A landing is lacking to every copy that stood before it.
LEMMA LeftGrows ==
  ASSUME TypeOK, NEW l \in Items, landings' = Append(landings, l),
         NEW at \in 0..Len(landings), NEW f
  PROVE  Left(at, f)' = Left(at, f) \cup {i \in {l} : f \in Writes[l]}
<1> DEFINE n == Len(landings)
           s == landings'
<1>1. /\ n \in Nat /\ Len(s) = n + 1 /\ s[n + 1] = l /\ \A k \in 1..n : s[k] = landings[k]
  BY DEF TypeOK
<1>2. at + 1 .. n + 1 = (at + 1 .. n) \cup {n + 1} /\ at + 1 .. n \subseteq 1..n
  BY <1>1
<1>3. Left(at, f) = {landings[k] : k \in {j \in at + 1 .. n : f \in Writes[landings[j]]}}
  BY DEF Left
<1>4. Left(at, f)' = {s[k] : k \in {j \in at + 1 .. Len(s) : f \in Writes[s[j]]}}
  BY DEF Left
<1> DEFINE J == at + 1 .. n
<1>5. /\ Left(at, f)' = {s[k] : k \in {j \in J \cup {n + 1} : f \in Writes[s[j]]}}
      /\ \A k \in J : s[k] = landings[k]
      /\ s[n + 1] = l
  BY <1>1, <1>2, <1>4
<1> HIDE DEF n, s, J
<1>6. ASSUME NEW x
      PROVE  x \in Left(at, f)' <=> x \in Left(at, f) \cup {i \in {l} : f \in Writes[l]}
  <2>1. x \in Left(at, f)' <=> \/ \E k \in J : f \in Writes[s[k]] /\ x = s[k]
                               \/ f \in Writes[s[n + 1]] /\ x = s[n + 1]
    BY <1>5
  <2>2. x \in Left(at, f) <=> \E k \in J : f \in Writes[landings[k]] /\ x = landings[k]
    BY <1>3 DEF J
  <2> QED  BY <1>5, <2>1, <2>2
<1> QED  BY <1>6

\* A copy that has taken up every landing lacks none.
LEMMA NothingLeft ==
  ASSUME TypeOK, NEW f
  PROVE  Left(Len(landings), f) = {} /\ Len(landings) \in 0..Len(landings)
<1>1. Len(landings) \in Nat
  BY DEF TypeOK
<1>2. Len(landings) + 1 .. Len(landings) = {}
  BY <1>1
<1> QED  BY <1>1, <1>2 DEF Left

\* The checkout and the landings as they are, a copy lacks what it lacked.
LEMMA SyncStays ==
  ASSUME landings' = landings, checkout' = checkout, NEW l, Sync(l, lane'[l])
  PROVE  Sync(l, lane[l])'
<1>1. \A at, f : Left(at, f)' = Left(at, f)
  BY DEF Left
<1>2. \A base, at : Synced(base, at)' = Synced(base, at)
  BY <1>1 DEF Synced
<1> QED  BY <1>2 DEF Sync, Open, Uncommitted, Built

\* A lane that has no copy is in step with anything.
LEMMA ShutIs ==
  ASSUME NEW l, NEW r, r.pc \in {"idle", "copy", "out", "over", "gone"}
  PROVE  Sync(l, r)
BY Places DEF Sync, Open, Uncommitted

\* Every step keeps what a copy lacks to the landings it has not taken up.
LEMMA SyncsStep ==
  ASSUME TypeOK, Shapes, Locks, Filed, Archived, Syncs, Next
  PROVE  Syncs'
<1>1. ASSUME NEW l \in Items, RunStep(l) PROVE Syncs'
  <2>1. RunKeeps(l) /\ Follows(l, lane'[l], lane[l]) /\ Alone(l)
    BY <1>1, RunFrame, RunMoves DEF Moves
  <2>2. landings' = landings /\ checkout' = checkout /\ Known \subseteq tracked'
    BY <2>1 DEF RunKeeps, Syncs
  <2>3. Sync(l, lane'[l])
    <3> DEFINE r == lane[l]
               q == lane'[l]
    <3>1. /\ Sync(l, r) /\ r.pc \in Working /\ Writes \in [Items -> SUBSET Files]
          /\ Needs \in [Items -> SUBSET Items]
      BY <2>1, LanesAssumption DEF Syncs, Follows
    <3>2. Open(q) => Synced(q.base, q.seen)
      BY <2>1, <3>1 DEF Sync, Follows
    <3>3. q.pc \in {"reverify", "land"} => q.seen = Len(landings)
      BY <2>1, <3>1 DEF Sync, Follows
    <3>4. Built(l, r.base) /\ \A m \in r.merge : Built(l, m.base)
      BY <3>1 DEF Sync
    <3>5. \A b : (\A f \in Files : r.base[f] \subseteq b[f]) => Built(l, b)
      BY <3>1, <3>4 DEF Built
    <3>6. q.pc \in Working => Built(l, q.base)
      BY <2>1, <3>4, <3>5 DEF Follows
    <3>7. \A m \in q.merge : Built(l, m.base)
      BY <2>1, <3>4, <3>5 DEF Follows
    <3> QED  BY <3>2, <3>3, <3>6, <3>7 DEF Sync
  <2>4. \A k \in Items : Sync(k, lane'[k])
    BY <2>1, <2>3 DEF Alone, Syncs
  <2> QED  BY <2>2, <2>4, SyncStays DEF Syncs
<1>2. ASSUME NEW l \in Items, MakeCopy(l) PROVE Syncs'
  <2>1. Copied(l) /\ Alone(l) /\ lane[l].pc = "copy"
    BY <1>2, MakeCopyMoves DEF Copied, MakeCopy
  <2>2. landings' = landings /\ checkout' = checkout /\ Known \subseteq tracked'
    BY <1>2 DEF MakeCopy, Still, Syncs
  <2>3. \A f \in Known : Seed[f] = checkout[f]
    BY DEF Seed, Syncs, Known
  <2>4. Synced(Seed, Len(landings))
    BY <2>3, NothingLeft DEF Synced
  <2>5. Built(l, Seed)
    BY <2>1, <2>3, LanesAssumption DEF Built, Archived, Counts, HasLanded
  <2>6. Sync(l, lane'[l])
    <3>1. CASE lane'[l].pc = "out"
      BY <3>1, ShutIs
    <3>2. CASE lane'[l].pc # "out"
      <4>1. /\ lane'[l].pc = "bound" /\ lane'[l].base = Seed
            /\ lane'[l].seen = Len(landings) /\ lane'[l].merge = {}
        BY <2>1, <3>2 DEF Copied
      <4> QED  BY <2>4, <2>5, <4>1 DEF Sync
    <3> QED  BY <3>1, <3>2
  <2>7. \A k \in Items : Sync(k, lane'[k])
    BY <2>1, <2>6 DEF Alone, Syncs
  <2> QED  BY <2>2, <2>7, SyncStays DEF Syncs
<1>3. ASSUME NEW l \in Items, Lands(l) PROVE Syncs'
  <2>1. /\ Put(l) /\ Alone(l) /\ lane[l].pc = "land" /\ landings' = Append(landings, l)
        /\ \A f \in Files : checkout'[f] = checkout[f] \cup {i \in {l} : f \in Writes[l]}
    BY <1>3, LandsMoves DEF Put
  <2>2. Known \subseteq tracked'
    BY <1>3 DEF Lands, Syncs
  <2>3. ASSUME NEW base, NEW at, Synced(base, at) PROVE Synced(base, at)'
    <3>1. at \in 0..Len(landings) /\ at \in 0..Len(landings')
      BY <2>1, <2>3 DEF Synced, TypeOK
    <3>2. ASSUME NEW f \in Known
          PROVE  (base[f] \cup Left(at, f)') \ {Hand} = checkout'[f] \ {Hand}
      <4>1. Left(at, f)' = Left(at, f) \cup {i \in {l} : f \in Writes[l]}
        BY <2>1, <3>1, LeftGrows
      <4>2. (base[f] \cup Left(at, f)) \ {Hand} = checkout[f] \ {Hand}
        BY <2>3 DEF Synced
      <4> QED  BY <2>1, <4>1, <4>2 DEF Known
    <3> QED  BY <3>1, <3>2 DEF Synced
  <2>4. ASSUME NEW k \in Items PROVE Sync(k, lane[k])'
    <3>1. CASE k = l
      <4>1. /\ lane'[l].pc \in {"commit", "look"} /\ lane'[l].base = lane[l].base
            /\ lane'[l].merge = {}
        BY <2>1 DEF Put
      <4>2. Built(l, lane[l].base)
        BY <2>1, Places DEF Syncs, Sync
      <4>3. ~Open(lane[l])'
        BY <4>1, Places DEF Open, Uncommitted
      <4> QED  BY <3>1, <4>1, <4>2, <4>3 DEF Sync, Built
    <3>2. CASE k # l
      <4>1. lane'[k] = lane[k] /\ Sync(k, lane[k])
        BY <2>1, <3>2 DEF Alone, Syncs
      <4>2. lane[k].pc \notin {"reverify", "land"}
        BY <2>1, <3>2, Places DEF Locks
      <4> QED  BY <2>3, <4>1, <4>2 DEF Sync, Built, Open, Uncommitted
    <3> QED  BY <3>1, <3>2
  <2> QED  BY <2>2, <2>4 DEF Syncs
<1>4. ASSUME NEW l \in Items, Take(l) \/ Result(l) PROVE Syncs'
  <2>1. Alone(l) /\ lane'[l].pc \in {"copy", "over"}
    BY <1>4, TakeMoves, ResultMoves
  <2>2. landings' = landings /\ checkout' = checkout /\ Known \subseteq tracked'
    BY <1>4 DEF Take, Result, Syncs
  <2>3. \A k \in Items : Sync(k, lane'[k])
    BY <2>1, ShutIs DEF Alone, Syncs
  <2> QED  BY <2>2, <2>3, SyncStays DEF Syncs
<1>5. CASE TakeNone \/ Stop \/ Restart \/ UNCHANGED vars
  <2>1. /\ landings' = landings /\ checkout' = checkout /\ Known \subseteq tracked'
        /\ lane' = lane
    BY <1>5 DEF TakeNone, Stop, Restart, vars, Syncs
  <2> QED  BY <2>1, SyncStays DEF Syncs
<1>6. CASE Crash
  <2>1. Known \subseteq tracked'
    BY <1>6 DEF Crash, Syncs
  <2>2. \A k \in Items : lane'[k].pc \in {"idle", "over", "gone"}
    BY <1>6, CrashMoves DEF Filed
  <2>3. ASSUME NEW k \in Items PROVE Sync(k, lane[k])'
    BY <2>2, Places DEF Sync, Open, Uncommitted
  <2> QED  BY <2>1, <2>3 DEF Syncs
<1>7. ASSUME NEW g \in Hands, HandEdit(g) PROVE Syncs'
  <2>1. landings' = landings /\ Known \subseteq tracked' /\ lane' = lane
    BY <1>7 DEF HandEdit, Syncs
  <2>2. \A f \in Files : checkout'[f] \ {Hand} = checkout[f] \ {Hand}
    BY <1>7 DEF HandEdit, TypeOK, Tree
  <2>3. \A base, at : Synced(base, at) => Synced(base, at)'
    <3>1. \A at, f : Left(at, f)' = Left(at, f)
      BY <2>1 DEF Left
    <3> QED  BY <2>1, <2>2, <3>1 DEF Synced, Known
  <2> QED  BY <2>1, <2>3 DEF Syncs, Sync, Open, Uncommitted, Built
<1> QED  BY StepsAre, <1>1, <1>2, <1>3, <1>4, <1>5, <1>6, <1>7

\* A step that changes nothing keeps the invariant.
LEMMA StillHolds ==
  ASSUME IInv, UNCHANGED vars
  PROVE  IInv'
<1>1. TypeOK' /\ Shapes'
  BY DEF IInv, vars, TypeOK, Shapes
<1>2. Locks' /\ Filed' /\ Archived'
  BY DEF IInv, vars, Locks, Filed, Archived, Counts, HasLanded
<1> QED  BY <1>1, <1>2 DEF IInv

-----------------------------------------------------------------------------
(***************************************************************************)
(* The theorems.                                                           *)
(***************************************************************************)
LEMMA InitHolds ==
  ASSUME Init
  PROVE  IInv
<1>1. TypeOK
  <2>1. 0 \in 0..Crashes
    BY LanesAssumption
  <2>2. sprint \in [attempts : SUBSET Items, lanes : SUBSET Items, done : SUBSET Items,
                    blocked : SUBSET Items, halted : BOOLEAN, crashes : 0..Crashes]
    BY <2>1 DEF Init
  <2>3. landings \in Seq(Items) /\ cp \in [landed : Nat, running : BOOLEAN]
    BY DEF Init
  <2>4. checkout \in Tree /\ tracked \subseteq Files
    BY DEF Init, Tree
  <2>5. lane \in [Items -> Lane]
    BY IdleIs DEF Init
  <2>6. /\ nocommit \in BOOLEAN /\ closeGate \in BOOLEAN /\ stop \in BOOLEAN
        /\ main = "loop" /\ land = Free
        /\ item \in [Items -> {"open", "in_progress", "blocked", "done"}]
    BY LanesAssumption DEF Init
  <2> QED  BY <2>2, <2>3, <2>4, <2>5, <2>6 DEF TypeOK
<1>2. \A l \in Items : lane[l] = Idle
  BY DEF Init
<1>3. Shapes
  BY <1>2, IdleIs, Places DEF Shapes, Shape, Uncommitted
<1>4. Locks
  BY <1>2, IdleIs, Places, LanesAssumption DEF Init, Locks
<1>5. Filed
  BY <1>2, IdleIs DEF Init, Filed
<1>6. Archived
  BY <1>2, IdleIs DEF Init, Archived, Counts
<1> QED  BY <1>1, <1>3, <1>4, <1>5, <1>6 DEF IInv

\* The inductive invariant, of every sprint whatever its items, files, order,
\* bounds and the files no commit holds.
THEOREM Invariance == Spec => []IInv
<1>1. Init => IInv
  BY InitHolds
<1>2. IInv /\ [Next]_vars => IInv'
  <2>1. ASSUME IInv, Next PROVE IInv'
    BY <2>1, ShapesStep, LocksStep, FiledStep, ArchivedStep DEF IInv
  <2>2. ASSUME IInv, UNCHANGED vars PROVE IInv'
    BY <2>2, StillHolds
  <2> QED  BY <2>1, <2>2
<1> QED  BY <1>1, <1>2, PTL DEF Spec

\* The variables keep their types.
THEOREM TypeCorrect == Spec => []TypeOK
BY Invariance, PTL DEF IInv

\* No work is lost: an item whose lane is over is on the checkout or in a kept
\* copy with no mark of an unreconciled merge, and what is archived has landed,
\* across crashes, hand edits and files git does not know (File, End, laneEnd).
THEOREM WorkIsKept == Spec => []WorkKept
<1>1. IInv => WorkKept
  BY DEF IInv, Shapes, Shape, Archived, Counts, WorkKept, TypeOK, Lane
<1> QED  BY <1>1, Invariance, PTL

\* While a checkpoint's suite runs, the lane that runs it holds the land lock
\* and the main loop waits: nothing is taken, landed or copied (checkpoint).
THEOREM CheckpointsStandStill == Spec => CheckpointStill
<1>1. IInv /\ [Next]_vars =>
        [cp.running /\ main' # "dead" =>
          /\ sprint'.attempts = sprint.attempts /\ landings' = landings
          /\ \A l \in Items : lane'[l].base = lane[l].base]_vars
  <2> SUFFICES ASSUME IInv, Next, cp.running, main' # "dead"
               PROVE  /\ sprint'.attempts = sprint.attempts /\ landings' = landings
                      /\ \A l \in Items : lane'[l].base = lane[l].base
    OBVIOUS
  <2>0. TypeOK /\ Shapes /\ Locks /\ Filed
    BY DEF IInv
  <2>1. PICK k \in Items : lane[k].pc = "looking" /\ land = k
    BY <2>0, Places DEF Locks
  <2>2. land # Free
    BY <2>1, LanesAssumption
  <2>3. ASSUME NEW l \in Items, RunStep(l)
        PROVE  /\ sprint'.attempts = sprint.attempts /\ landings' = landings
               /\ \A j \in Items : lane'[j].base = lane[j].base
    BY <2>0, <2>2, <2>3, RunFrame, RunMoves
       DEF RunKeeps, SameSprint, Moves, Follows, Alone
  <2>4. ASSUME NEW l \in Items, MakeCopy(l) \/ Lands(l) \/ Take(l) PROVE FALSE
    BY <2>0, <2>1, <2>2, <2>4, Places DEF MakeCopy, Lands, Take, Looping, Locks
  <2>5. ASSUME NEW l \in Items, Result(l)
        PROVE  /\ sprint'.attempts = sprint.attempts /\ landings' = landings
               /\ \A j \in Items : lane'[j].base = lane[j].base
    <3>1. sprint'.attempts = sprint.attempts /\ landings' = landings
      BY <2>0, <2>5 DEF Result, TypeOK
    <3> QED  BY <2>0, <2>5, <3>1, ResultMoves DEF Alone
  <2>6. ASSUME NEW f \in Hands, HandEdit(f)
        PROVE  sprint' = sprint /\ landings' = landings /\ lane' = lane
    BY <2>6 DEF HandEdit, backlog
  <2>7. CASE TakeNone \/ Stop \/ UNCHANGED vars
    BY <2>7 DEF TakeNone, Stop, vars, backlog
  <2>8. CASE Restart
    BY <2>0, <2>8 DEF Restart, TypeOK
  <2>9. ~Crash
    BY DEF Crash
  <2> QED  BY StepsAre, <2>3, <2>4, <2>5, <2>6, <2>7, <2>8, <2>9
<1> QED  BY <1>1, Invariance, PTL DEF Spec, CheckpointStill

\* In the files git knows from the start, what a lane's copy lacks of the
\* checkout is what it has still to take up.
LEMMA Synchronised == Spec => []Syncs
<1>1. Init => Syncs
  BY IdleIs, ShutIs DEF Init, Syncs, Known
<1>2. IInv /\ Syncs /\ [Next]_vars => Syncs'
  <2>1. ASSUME IInv, Syncs, Next PROVE Syncs'
    BY <2>1, SyncsStep DEF IInv
  <2>2. ASSUME IInv, Syncs, UNCHANGED vars PROVE Syncs'
    <3>1. /\ landings' = landings /\ checkout' = checkout /\ lane' = lane
          /\ Known \subseteq tracked'
      BY <2>2 DEF vars, Syncs
    <3> QED  BY <2>2, <3>1, SyncStays DEF Syncs
  <2> QED  BY <2>1, <2>2
<1> QED  BY <1>1, <1>2, Invariance, PTL DEF Spec

\* A lane at work builds on all its item waits for, in the files git knows.
LEMMA BuildsOn ==
  ASSUME IInv, Syncs, NEW l \in Items,
         lane[l].pc \notin {"idle", "copy", "gone", "out", "over"}
  PROVE  Built(l, lane[l].base)
<1>1. lane[l].pc \in Working
  BY Places DEF IInv, TypeOK, Lane
<1> QED  BY <1>1 DEF Syncs, Sync

\* A landing leaves what was verified in the files it writes, which may be new
\* to git, and in all that git knows.
LEMMA LandsWhatItHas ==
  ASSUME IInv, Syncs, NEW l \in Items, Lands(l)
  PROVE  \E t \in lane[l].verified : \A f \in Writes[l] \cup Known :
           IF f \in Writes[l] THEN checkout'[f] = t[f]
                              ELSE checkout'[f] \ {Hand} = t[f] \ {Hand}
<1> DEFINE r == lane[l]
           t == Copy(l, r)
<1>1. TypeOK /\ Put(l) /\ r.verified = {t} /\ r.pc = "land" /\ Writes[l] \subseteq Files
  BY LandsMoves, LanesAssumption DEF IInv, Put
<1>2. r.seen = Len(landings) /\ Synced(r.base, Len(landings))
  BY <1>1 DEF Syncs, Sync, Open
<1>3. ASSUME NEW f \in Known PROVE r.base[f] \ {Hand} = checkout[f] \ {Hand}
  BY <1>1, <1>2, NothingLeft DEF Synced
<1>4. ASSUME NEW f \in Writes[l] \cup Known
      PROVE  IF f \in Writes[l] THEN checkout'[f] = t[f]
                                ELSE checkout'[f] \ {Hand} = t[f] \ {Hand}
  <2>1. f \in Files /\ (f \in Known \/ f \in Writes[l])
    BY <1>1 DEF Known
  <2>2. checkout'[f] = IF f \in Writes[l] THEN t[f] ELSE checkout[f]
    BY <2>1 DEF Lands
  <2>3. f \notin Writes[l] => t[f] = r.base[f]
    BY <2>1 DEF Copy
  <2> QED  BY <1>3, <2>1, <2>2, <2>3
<1> QED  BY <1>1, <1>4

\* In the files git knows from the start, an item is worked over what the items
\* it waits for landed, also after a merge put back and after a crash, whatever
\* other files the landings create (ready, seedCopy, restoreMerge).
THEOREM DependentsFindKnownFiles ==
  Spec => [](\A l \in Items :
    lane[l].pc \notin {"idle", "copy", "gone", "out", "over"} =>
      \A d \in Needs[l] : \A f \in Writes[d] \ Created : d \in lane[l].base[f])
<1>1. IInv /\ Syncs => \A l \in Items :
        lane[l].pc \notin {"idle", "copy", "gone", "out", "over"} =>
          \A d \in Needs[l] : \A f \in Writes[d] \ Created : d \in lane[l].base[f]
  BY BuildsOn, LanesAssumption DEF Built, Known
<1> QED  BY <1>1, Invariance, Synchronised, PTL

\* A landing leaves on the checkout what the lane's verify passed over, in every
\* file it writes and every file git knows from the start, whatever landed
\* between the two (laneCommit, landUncommitted).
THEOREM KnownFilesLandVerified ==
  Spec => [][\A l \in Items : Lands(l) =>
    \E t \in lane[l].verified : \A f \in Writes[l] \cup (Files \ Created) :
      IF f \in Writes[l] THEN checkout'[f] = t[f]
                         ELSE checkout'[f] \ {Hand} = t[f] \ {Hand}]_vars
<1>1. IInv /\ Syncs /\ [Next]_vars =>
        [\A l \in Items : Lands(l) =>
          \E t \in lane[l].verified : \A f \in Writes[l] \cup (Files \ Created) :
            IF f \in Writes[l] THEN checkout'[f] = t[f]
                               ELSE checkout'[f] \ {Hand} = t[f] \ {Hand}]_vars
  BY LandsWhatItHas DEF Known
<1> QED  BY <1>1, Invariance, Synchronised, PTL DEF Spec

\* Where no landing creates a file, the dependents find all of the work.
THEOREM DependentsFindTheWork ==
  ASSUME Created = {}
  PROVE  Spec => []DependentsBuildOnLanded
<1>1. IInv /\ Syncs => DependentsBuildOnLanded
  BY BuildsOn, LanesAssumption DEF Built, Known, DependentsBuildOnLanded
<1> QED  BY <1>1, Invariance, Synchronised, PTL

\* There, a landing leaves on the checkout the very tree the lane's verify
\* passed over.
THEOREM LandsWhatWasVerified ==
  ASSUME Created = {}
  PROVE  Spec => LandsVerified
<1>1. IInv /\ Syncs /\ [Next]_vars =>
        [\A l \in Items : Lands(l) => \E t \in lane[l].verified : LandsAs(l, t)]_vars
  <2>1. Known = Files /\ \A l \in Items : Writes[l] \subseteq Files
    BY LanesAssumption DEF Known
  <2> QED  BY <2>1, LandsWhatItHas DEF LandsAs
<1> QED  BY <1>1, Invariance, Synchronised, PTL DEF Spec, LandsVerified

=============================================================================
