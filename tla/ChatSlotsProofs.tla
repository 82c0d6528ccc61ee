--------------------------- MODULE ChatSlotsProofs ---------------------------
(***************************************************************************)
(* The invariants of the chat's slots, for any sessions, names, rewinds    *)
(* and saves under way at once: the variables keep their types, and a      *)
(* claimed row with nothing in it is somebody's to fill or to give back.   *)
(* And, where sessions save one at a time, cut nothing and return to no    *)
(* chat they lost: rows only grow, and a message nobody else has read is   *)
(* in one slot.                                                            *)
(***************************************************************************)
EXTENDS ChatSlots, SequenceTheorems, FiniteSetTheorems, TLAPS

Marks == [seq : Int, digest : Seq(Message)]
Saves == [from : Slots, conv : Seq(Message), at : {"save", "move", "again"}, to : Slots]
Notes == [from : Slots, to : Names]

Session ==
  [pc : {"off", "live", "quitting", "over"}, slot : Slots \cup {NoSlot},
   conv : Seq(Message), said : 0..Turns,
   wrote : [Slots -> SUBSET Marks], moved : [Slots -> SUBSET Names],
   saves : SUBSET Saves, moves : SUBSET Notes,
   switches : 0..Switches, clean : BOOLEAN]

\* What a slot just claimed is left with.
Nothing == <<>>

\* A slot's row has something in it.
Filled(s) == rows[s] # {} /\ <<>> \notin rows[s]

\* The slots somebody can know of: those claimed, and the branches.
Known == minted \cup Branches

\* A session claimed a row and saw nothing in it since; and it has the row for
\* its slot, or a save of its own on the way there, or was cut short.
Claims(r, s) == Mark(<<>>) \in r.wrote[s]

Minds(r, s) ==
  r.slot = s \/ ~r.clean \/ \E j \in r.saves : s = j.from \/ s = j.to

\* A session's record by itself: few saves are under way, a slot has one mark
\* at most, and a session not started has neither; a save has something to save,
\* and goes to the slot it is from unless it was moved.
Few(p, r) == IsFiniteSet(r.saves) /\ Cardinality(r.saves) <= InFlight[p]

Marked(r) == \A s \in Slots : /\ \A w \in r.wrote[s] : w = Mark(w.digest)
                              /\ \A v, w \in r.wrote[s] : v = w

Idle(r) == r.pc = "off" => r.saves = {} /\ \A s \in Slots : r.wrote[s] = {}

Bound(r) == \A j \in r.saves :
  j.conv # <<>> /\ IF j.at = "again" THEN j.to \in Names ELSE j.to = j.from

Sound(p, r) == r \in Session /\ Few(p, r) /\ Marked(r) /\ Idle(r) /\ Bound(r)

\* What a session has of slots is known.
Knows(r) ==
  /\ r.pc \in {"live", "quitting"} => r.slot \in Known
  /\ \A s \in Slots : r.moved[s] \subseteq Known
  /\ \A j \in r.saves : {j.from, j.to} \subseteq Known
  /\ \A m \in r.moves : m.to \in Known

\* A slot a conversation was moved to is filled; one it had to leave is, or
\* was not this session's claim.
Leaves(r) ==
  /\ \A m \in r.moves : Filled(m.to)
  /\ \A j \in r.saves : j.at # "save" => Filled(j.from) \/ ~Claims(r, j.from)

\* A session that quits has saved, saves, or leaves nobody an empty row.
Settles(r) ==
  r.pc = "quitting" /\ r.clean =>
    \/ rows[r.slot] # {<<>>} \/ r.slot \in parents \/ ~Claims(r, r.slot)
    \/ \E j \in r.saves : j.conv = r.conv /\ j.from = r.slot

Held(r) == Knows(r) /\ Leaves(r) /\ Settles(r)

Store ==
  /\ rows \in [Slots -> SUBSET Seq(Message)] /\ parents \subseteq Slots
  /\ minted \subseteq Names
  /\ \A s \in Slots : \A c, d \in rows[s] : c = d
  /\ \A s \in Slots : rows[s] # {} => s \in Known

Sessions ==
  /\ sess \in [Procs -> Session]
  /\ \A p \in Procs : Sound(p, sess[p]) /\ Held(sess[p])

Minded == \A s \in Slots \ parents :
  rows[s] = {<<>>} => \E p \in Procs : Claims(sess[p], s) /\ Minds(sess[p], s)

IInv == Store /\ Sessions /\ Minded

\* A chat that was read and is not yet remembered is one, which its session may
\* load, of a row with something in it, which has something in it still.
Opened ==
  /\ read \in [Procs -> SUBSET [slot : Slots, conv : Seq(Message)]]
  /\ \A p \in Procs : /\ \A x, y \in read[p] : x = y
                      /\ \A x \in read[p] :
                           /\ x.conv # Nothing /\ Filled(x.slot)
                           /\ sess[p].pc = "live" /\ sess[p].switches < Switches

-----------------------------------------------------------------------------
(***************************************************************************)
(* What an operation does to a session's record.                           *)
(***************************************************************************)

\* The mark of a conversation tells whether there is anything in it.
LEMMA MarkIs ==
  ASSUME NEW c \in Seq(Message)
  PROVE  /\ Mark(c) \in Marks /\ Mark(c).digest = c /\ Mark(c).seq = Len(c) - 1
         /\ Mark(c).seq < 0 <=> c = <<>>
         /\ Mark(c) = Mark(<<>>) <=> c = <<>>
<1>1. Len(c) \in Nat /\ (Len(c) = 0 <=> c = <<>>)
  BY EmptySeq, LenProperties
<1>2. Mark(c).digest = c /\ Mark(c).seq = Len(c) - 1 /\ Mark(c) \in Marks
  BY <1>1 DEF Mark, Marks
<1>3. Mark(c).seq < 0 <=> c = <<>>
  BY <1>1, <1>2
<1>4. Mark(c) = Mark(<<>>) => c = <<>>
  BY <1>2 DEF Mark
<1> QED  BY <1>2, <1>3, <1>4

\* There is nothing in the conversation of a slot just claimed.
LEMMA EmptyConversation ==
  <<>> \in Seq(Message) /\ Mark(<<>>) \in Marks /\ Nothing \in Seq(Message)
<1>1. <<>> \in Seq(Message)
  BY EmptySeq
<1> QED  BY <1>1, MarkIs DEF Nothing

\* A session not started has nothing.
LEMMA OffIs ==
  ASSUME NEW p \in Procs
  PROVE  /\ Off \in Session /\ Sound(p, Off)
         /\ Off.pc = "off" /\ Off.saves = {} /\ Off.moves = {} /\ Off.clean
         /\ \A s \in Slots : Off.wrote[s] = {} /\ Off.moved[s] = {}
<1>1. Off \in Session
  BY EmptyConversation, ChatSlotsAssumption DEF Off, Session
<1>2. /\ Off.pc = "off" /\ Off.saves = {} /\ Off.moves = {} /\ Off.clean
      /\ \A s \in Slots : Off.wrote[s] = {} /\ Off.moved[s] = {}
  BY DEF Off
<1>3. IsFiniteSet({}) /\ Cardinality({}) <= InFlight[p]
  BY FS_EmptySet, ChatSlotsAssumption
<1> QED  BY <1>1, <1>2, <1>3 DEF Sound, Few, Marked, Idle, Bound

\* A session's record that remembers a slot left with c in it, or forgets a slot.
Remembers(q, r, t, c) == q = [r EXCEPT !.wrote[t] = {Mark(c)}]
Forgets(q, r, t) == q = [r EXCEPT !.wrote[t] = {}]

\* A slot that is claimed, read or written is marked so, and no other.
LEMMA RemembersIs ==
  ASSUME NEW r \in Session, NEW t \in Slots, NEW c \in Seq(Message), NEW q,
         Remembers(q, r, t, c)
  PROVE  /\ q \in Session /\ q.pc = r.pc /\ q.slot = r.slot /\ q.conv = r.conv
         /\ q.saves = r.saves /\ q.moves = r.moves /\ q.clean = r.clean
         /\ q.moved = r.moved /\ q.switches = r.switches
         /\ \A s \in Slots \ {t} :
              q.wrote[s] = r.wrote[s] /\ (Claims(q, s) <=> Claims(r, s))
         /\ q.wrote[t] = {Mark(c)} /\ (Claims(q, t) <=> c = Nothing)
<1> DEFINE w == [r.wrote EXCEPT ![t] = {Mark(c)}]
<1>1. w \in [Slots -> SUBSET Marks]
  BY MarkIs DEF Session
<1>2. \A s \in Slots : w[s] = IF s = t THEN {Mark(c)} ELSE r.wrote[s]
  BY DEF Session
<1>3. q = [r EXCEPT !.wrote = w]
  BY DEF Session, Remembers
<1> HIDE DEF w
<1>4. /\ q \in Session /\ q.pc = r.pc /\ q.slot = r.slot /\ q.conv = r.conv
      /\ q.saves = r.saves /\ q.moves = r.moves /\ q.clean = r.clean
      /\ q.moved = r.moved /\ q.switches = r.switches /\ q.wrote = w
  BY <1>1, <1>3 DEF Session
<1>5. /\ \A s \in Slots \ {t} : Claims(q, s) <=> Claims(r, s)
      /\ Claims(q, t) <=> c = Nothing
  BY <1>2, <1>4, MarkIs DEF Claims, Nothing
<1> QED  BY <1>2, <1>4, <1>5

\* A session that remembers a slot is as sound as it was.
LEMMA RemembersSoundly ==
  ASSUME NEW p \in Procs, NEW r \in Session, Sound(p, r), r.pc # "off", NEW t \in Slots,
         NEW c \in Seq(Message), NEW q, Remembers(q, r, t, c)
  PROVE  Sound(p, q)
<1>1. /\ q \in Session /\ q.pc = r.pc /\ q.saves = r.saves
      /\ \A s \in Slots \ {t} : q.wrote[s] = r.wrote[s]
      /\ q.wrote[t] = {Mark(c)}
  BY RemembersIs
<1>2. Mark(c) = Mark(Mark(c).digest)
  BY MarkIs
<1>3. Marked(q)
  BY <1>1, <1>2 DEF Sound, Marked
<1> QED  BY <1>1, <1>3 DEF Sound, Few, Idle, Bound

\* A slot that is left is not marked.
LEMMA ForgetsIs ==
  ASSUME NEW p \in Procs, NEW r \in Session, Sound(p, r), NEW t \in Slots, NEW q,
         Forgets(q, r, t)
  PROVE  /\ q \in Session /\ Sound(p, q)
         /\ q.pc = r.pc /\ q.slot = r.slot /\ q.conv = r.conv /\ q.saves = r.saves
         /\ q.moves = r.moves /\ q.clean = r.clean /\ q.moved = r.moved
         /\ \A s \in Slots : Claims(q, s) <=> s # t /\ Claims(r, s)
<1> DEFINE w == [r.wrote EXCEPT ![t] = {}]
<1>1. w \in [Slots -> SUBSET Marks]
  BY DEF Session
<1>2. \A s \in Slots : w[s] = IF s = t THEN {} ELSE r.wrote[s]
  BY DEF Session
<1>3. q = [r EXCEPT !.wrote = w]
  BY DEF Session, Forgets
<1> HIDE DEF w
<1>4. /\ q \in Session /\ q.pc = r.pc /\ q.slot = r.slot /\ q.conv = r.conv
      /\ q.saves = r.saves /\ q.moves = r.moves /\ q.clean = r.clean
      /\ q.moved = r.moved /\ q.wrote = w
  BY <1>1, <1>3 DEF Session
<1>5. \A s \in Slots : Claims(q, s) <=> s # t /\ Claims(r, s)
  BY <1>2, <1>4 DEF Claims
<1>6. Sound(p, q)
  BY <1>2, <1>4 DEF Sound, Few, Marked, Idle, Bound
<1> QED  BY <1>4, <1>5, <1>6

\* An autosave adds a save of the conversation to the slot, where there is one.
LEMMA AutosaveIs ==
  ASSUME NEW p \in Procs, NEW r \in Session, Sound(p, r), r.pc # "off", r.slot \in Slots,
         Cardinality(r.saves) < InFlight[p]
  PROVE  LET q == Autosave(r) IN
         /\ q \in Session /\ Sound(p, q)
         /\ q.pc = r.pc /\ q.slot = r.slot /\ q.conv = r.conv /\ q.wrote = r.wrote
         /\ q.moves = r.moves /\ q.clean = r.clean /\ q.moved = r.moved
         /\ q.switches = r.switches
         /\ r.saves \subseteq q.saves
         /\ \A j \in q.saves : \/ j \in r.saves
                               \/ j.from = r.slot /\ j.to = r.slot /\ j.at = "save"
         /\ r.conv # <<>> => \E j \in q.saves : j.conv = r.conv /\ j.from = r.slot
<1>1. CASE r.conv = <<>>
  BY <1>1 DEF Autosave
<1>2. CASE r.conv # <<>>
  <2> DEFINE j == [from |-> r.slot, conv |-> r.conv, at |-> "save", to |-> r.slot]
             q == [r EXCEPT !.saves = r.saves \cup {j}]
  <2>1. /\ j \in Saves /\ j.from = r.slot /\ j.to = r.slot /\ j.at = "save"
        /\ j.conv = r.conv
    BY DEF Saves, Session
  <2>2. Autosave(r) = q
    BY <1>2 DEF Autosave
  <2> HIDE DEF j
  <2>3. /\ q \in Session
        /\ q.pc = r.pc /\ q.slot = r.slot /\ q.conv = r.conv /\ q.wrote = r.wrote
        /\ q.moves = r.moves /\ q.clean = r.clean /\ q.moved = r.moved
        /\ q.switches = r.switches
        /\ q.saves = r.saves \cup {j}
    BY <2>1 DEF Session
  <2>4. IsFiniteSet(q.saves) /\ Cardinality(q.saves) <= InFlight[p]
    <3>1. IsFiniteSet(r.saves) /\ Cardinality(r.saves) \in Nat /\ InFlight[p] \in Nat
      BY FS_CardinalityType, ChatSlotsAssumption DEF Sound, Few
    <3>2. /\ IsFiniteSet(r.saves \cup {j})
          /\ Cardinality(r.saves \cup {j}) =
               IF j \in r.saves THEN Cardinality(r.saves) ELSE Cardinality(r.saves) + 1
      BY <3>1, FS_AddElement
    <3> QED  BY <2>3, <3>1, <3>2
  <2> HIDE DEF q
  <2>5. Sound(p, q)
    BY <1>2, <2>1, <2>3, <2>4 DEF Sound, Few, Marked, Idle, Bound
  <2> QED  BY <1>2, <2>1, <2>2, <2>3, <2>5
<1> QED  BY <1>1, <1>2

\* Of the saves under way, one is over, or goes on as another.
LEMMA FewerSaves ==
  ASSUME NEW p \in Procs, NEW r, Few(p, r), NEW j \in r.saves
  PROVE  /\ IsFiniteSet(r.saves \ {j}) /\ Cardinality(r.saves \ {j}) <= InFlight[p]
         /\ \A i : /\ IsFiniteSet((r.saves \ {j}) \cup {i})
                   /\ Cardinality((r.saves \ {j}) \cup {i}) <= InFlight[p]
<1>1. /\ IsFiniteSet(r.saves) /\ Cardinality(r.saves) \in Nat /\ InFlight[p] \in Nat
      /\ Cardinality(r.saves) <= InFlight[p]
  BY FS_CardinalityType, ChatSlotsAssumption DEF Few
<1>2. /\ IsFiniteSet(r.saves \ {j})
      /\ Cardinality(r.saves \ {j}) = Cardinality(r.saves) - 1
  BY <1>1, FS_RemoveElement
<1>3. ASSUME NEW i
      PROVE  /\ IsFiniteSet((r.saves \ {j}) \cup {i})
             /\ Cardinality((r.saves \ {j}) \cup {i}) <= InFlight[p]
  <2>1. /\ IsFiniteSet((r.saves \ {j}) \cup {i})
        /\ \/ Cardinality((r.saves \ {j}) \cup {i}) = Cardinality(r.saves \ {j}) + 1
           \/ Cardinality((r.saves \ {j}) \cup {i}) = Cardinality(r.saves \ {j})
    BY <1>2, FS_AddElement
  <2> QED  BY <1>1, <1>2, <2>1
<1>4. Cardinality(r.saves \ {j}) <= InFlight[p]
  BY <1>1, <1>2
<1> QED  BY <1>2, <1>3, <1>4

\* A save is over.
LEMMA WithoutIs ==
  ASSUME NEW p \in Procs, NEW r \in Session, Sound(p, r), NEW j \in r.saves
  PROVE  LET q == Without(r, j) IN
         /\ q \in Session /\ Sound(p, q)
         /\ q.pc = r.pc /\ q.slot = r.slot /\ q.conv = r.conv /\ q.wrote = r.wrote
         /\ q.moves = r.moves /\ q.clean = r.clean /\ q.moved = r.moved
         /\ q.saves = r.saves \ {j}
<1> DEFINE q == [r EXCEPT !.saves = r.saves \ {j}]
<1>1. /\ q \in Session
      /\ q.pc = r.pc /\ q.slot = r.slot /\ q.conv = r.conv /\ q.wrote = r.wrote
      /\ q.moves = r.moves /\ q.clean = r.clean /\ q.moved = r.moved
      /\ q.saves = r.saves \ {j}
  BY DEF Session
<1>2. Without(r, j) = q
  BY DEF Without
<1> HIDE DEF q
<1>3. Few(p, q)
  BY <1>1, FewerSaves DEF Sound, Few
<1>4. Sound(p, q)
  BY <1>1, <1>3 DEF Sound, Marked, Idle, Bound
<1> QED  BY <1>1, <1>2, <1>4

\* A session that ends keeps its marks, for the properties.
LEMMA EndedIs ==
  ASSUME NEW p \in Procs, NEW r \in Session, Sound(p, r), NEW c \in BOOLEAN
  PROVE  LET q == Ended(r, c) IN
         /\ q \in Session /\ Sound(p, q)
         /\ q.pc = "over" /\ q.saves = {} /\ q.moves = {} /\ q.wrote = r.wrote
         /\ q.moved = r.moved /\ (q.clean <=> r.clean /\ c)
         /\ q.said = r.said /\ q.conv = Nothing
<1> DEFINE b == r.clean /\ c
           q == [Off EXCEPT !.pc = "over", !.said = r.said, !.wrote = r.wrote,
                            !.moved = r.moved, !.clean = b]
<1>1. b \in BOOLEAN
  BY DEF Session
<1>2. Ended(r, c) = q
  BY DEF Ended
<1> HIDE DEF b
<1>3. /\ q \in Session
      /\ q.pc = "over" /\ q.saves = {} /\ q.moves = {} /\ q.wrote = r.wrote
      /\ q.moved = r.moved /\ q.clean = b /\ q.said = r.said /\ q.conv = Off.conv
  BY <1>1, OffIs DEF Session
<1>0. Off.conv = Nothing
  BY DEF Off, Nothing
<1> HIDE DEF q
<1>4. Few(p, q)
  BY <1>3, OffIs DEF Sound, Few
<1>5. Marked(q) /\ Idle(q) /\ Bound(q)
  BY <1>3 DEF Sound, Marked, Idle, Bound
<1> QED  BY <1>0, <1>2, <1>3, <1>4, <1>5 DEF b, Sound

-----------------------------------------------------------------------------
(***************************************************************************)
(* A step of one session: what the others have and rely on is left alone.  *)
(***************************************************************************)

\* Names are claimed and branches hung for good, a filled row stays filled, and
\* a row with nothing in it was there before, is hung a branch off, or is new.
Grows ==
  /\ minted \subseteq minted' /\ parents \subseteq parents'
  /\ \A s \in Slots : Filled(s) => Filled(s)'
  /\ \A s \in Slots : rows'[s] = {<<>>} =>
       rows[s] = {<<>>} \/ s \in parents' \/ s \notin Known

\* The rows a step of p makes, and those p minded, are minded by p after it.
Tends(p) == \A s \in Slots \ parents' :
  /\ rows'[s] = {<<>>}
  /\ rows[s] # {<<>>} \/ (Claims(sess[p], s) /\ Minds(sess[p], s))
  => Claims(sess'[p], s) /\ Minds(sess'[p], s)

\* What a session knows of the slots stays so.
LEMMA HeldStays ==
  ASSUME Store, Grows, NEW p \in Procs, sess'[p] \in Session, Knows(sess'[p])
  PROVE  /\ Knows(sess[p])'
         /\ Leaves(sess'[p]) => Leaves(sess[p])'
         /\ Settles(sess'[p]) => Settles(sess[p])'
<1>1. Known \subseteq Known'
  BY DEF Grows, Known
<1>2. Knows(sess[p])'
  <2>1. \A s \in Slots : sess'[p].moved[s] \subseteq Known'
    BY <1>1 DEF Knows
  <2> QED  BY <1>1, <2>1 DEF Knows
<1>3. ASSUME Leaves(sess'[p]) PROVE Leaves(sess[p])'
  <2>1. \A m \in sess'[p].moves : m.to \in Slots
    BY DEF Session, Notes, Slots
  <2>2. \A j \in sess'[p].saves : j.from \in Slots
    BY DEF Session, Saves
  <2>3. \A s \in Slots : Claims(sess'[p], s) <=> Claims(sess[p], s)'
    BY DEF Claims
  <2> QED  BY <1>3, <2>1, <2>2, <2>3 DEF Leaves, Grows
<1>4. ASSUME Settles(sess'[p]), (sess[p].pc = "quitting" /\ sess[p].clean)'
      PROVE  Settles(sess[p])'
  <2>1. sess'[p].slot \in Slots /\ sess'[p].slot \in Known
    BY <1>4 DEF Knows, Known, Slots, Store
  <2>2. Claims(sess'[p], sess'[p].slot) <=> Claims(sess[p], sess[p].slot)'
    BY DEF Claims
  <2> QED  BY <1>4, <2>1, <2>2 DEF Settles, Grows
<1>5. Settles(sess'[p]) => Settles(sess[p])'
  BY <1>4 DEF Settles
<1> QED  BY <1>2, <1>3, <1>5

\* A step of p keeps the invariant where it keeps the store and p's own part.
LEMMA Framed ==
  ASSUME IInv, Store', Grows, NEW p \in Procs, sess' = [sess EXCEPT ![p] = sess'[p]],
         Sound(p, sess'[p]), Held(sess[p])', Tends(p)
  PROVE  IInv' /\ Grows
<1>1. \A q \in Procs \ {p} : sess'[q] = sess[q]
  BY DEF IInv, Sessions
<1>2. Sessions'
  <2>1. sess' \in [Procs -> Session]
    BY DEF IInv, Sessions, Sound
  <2>2. ASSUME NEW q \in Procs \ {p} PROVE Sound(q, sess'[q]) /\ Held(sess[q])'
    <3>1. sess'[q] = sess[q] /\ Sound(q, sess'[q]) /\ Held(sess'[q])
      BY <1>1 DEF IInv, Sessions
    <3>2. sess'[q] \in Session /\ Knows(sess'[q])
      BY <3>1 DEF Sound, Held
    <3>3. Leaves(sess'[q]) /\ Settles(sess'[q])
      BY <3>1 DEF Held
    <3> QED  BY <3>1, <3>2, <3>3, HeldStays DEF Held, IInv
  <2>3. ASSUME NEW q \in Procs PROVE Sound(q, sess[q])' /\ Held(sess[q])'
    <3>1. CASE q = p
      BY <3>1 DEF Sound, Few, Marked, Idle, Bound
    <3>2. CASE q # p
      BY <2>2, <3>2 DEF Sound, Few, Marked, Idle, Bound
    <3> QED  BY <3>1, <3>2
  <2> QED  BY <2>1, <2>3 DEF Sessions
<1>3. ASSUME NEW s \in Slots \ parents', rows'[s] = {<<>>}
      PROVE  \E q \in Procs : Claims(sess'[q], s) /\ Minds(sess'[q], s)
  <2>1. CASE rows[s] # {<<>>}
    BY <1>3, <2>1 DEF Tends
  <2>2. CASE rows[s] = {<<>>}
    <3>1. PICK q \in Procs : Claims(sess[q], s) /\ Minds(sess[q], s)
      BY <2>2 DEF IInv, Minded, Grows
    <3>2. CASE q = p
      BY <1>3, <3>1, <3>2 DEF Tends
    <3>3. CASE q # p
      BY <1>1, <3>1, <3>3
    <3> QED  BY <3>2, <3>3
  <2> QED  BY <2>1, <2>2
<1>4. Minded'
  BY <1>3 DEF Minded, Claims, Minds
<1> QED  BY <1>2, <1>4 DEF IInv

\* What a session that knows its slots has of them are slots.
LEMMA KnownAre ==
  ASSUME IInv, NEW p \in Procs
  PROVE  /\ sess[p] \in Session /\ Sound(p, sess[p]) /\ Knows(sess[p])
         /\ Leaves(sess[p]) /\ Settles(sess[p]) /\ Held(sess[p]) /\ Store
         /\ Known \subseteq Slots
         /\ sess[p].pc \in {"live", "quitting"} =>
              sess[p].slot \in Slots /\ sess[p].slot \in Known
         /\ \A j \in sess[p].saves : /\ j \in Saves /\ j.from \in Slots /\ j.to \in Slots
                                     /\ j.conv \in Seq(Message) /\ j.conv # <<>>
                                     /\ j.from \in Known /\ j.to \in Known
         /\ \A m \in sess[p].moves : m.to \in Names /\ m.to \in Slots /\ m.to \in Known
<1>1. /\ sess[p] \in Session /\ Sound(p, sess[p]) /\ Held(sess[p]) /\ Store
      /\ Knows(sess[p]) /\ Leaves(sess[p]) /\ Settles(sess[p])
  BY DEF IInv, Sessions, Held
<1>2. Known \subseteq Slots
  BY <1>1 DEF Store, Known, Slots
<1>3. \A j \in sess[p].saves : /\ j \in Saves /\ j.from \in Slots /\ j.to \in Slots
                               /\ j.conv \in Seq(Message) /\ j.conv # <<>>
                               /\ j.from \in Known /\ j.to \in Known
  BY <1>1 DEF Session, Saves, Sound, Bound, Knows
<1>4. \A m \in sess[p].moves : m.to \in Names /\ m.to \in Slots /\ m.to \in Known
  BY <1>1 DEF Session, Notes, Slots, Knows
<1>5. sess[p].pc \in {"live", "quitting"} => sess[p].slot \in Known
  BY <1>1 DEF Knows
<1> QED  BY <1>1, <1>2, <1>3, <1>4, <1>5

\* An unused name is no slot anybody knows of, and its row is not there.
LEMMA UnusedIs ==
  ASSUME Store, NEW s, Unused(s)
  PROVE  s \in Slots /\ s \in Names /\ s \notin Known /\ rows[s] = {}
  BY ChatSlotsAssumption DEF Unused, Known, Store, Slots

\* The row of a slot where there is one.
LEMMA RowIs ==
  ASSUME Store, NEW s \in Slots, rows[s] # {}
  PROVE  Row(s) \in Seq(Message) /\ rows[s] = {Row(s)}
<1>1. Row(s) \in rows[s]
  BY DEF Row
<1> QED  BY <1>1 DEF Store

\* The slot is filled, and no other is written to.
Fills(R, s) == \E d \in Seq(Message) : d # Nothing /\ R = [rows EXCEPT ![s] = {d}]

\* A save leaves one row in the slot, and something in it.
LEMMA SavedIs ==
  ASSUME Store, NEW r, NEW s \in Slots, NEW c \in Seq(Message), c # Nothing
  PROVE  Fills(Saved(r, s, c), s)
<1>1. Len(c) \in Nat \ {0}
  BY EmptySeq, LenProperties DEF Nothing
<1>2. CASE Appends(r, s, c)
  <2>1. Row(s) \in Seq(Message) /\ Len(Row(s)) \in Nat /\ Len(Row(s)) < Len(c)
    BY <1>2, RowIs, LenProperties DEF Appends
  <2> DEFINE t == SubSeq(c, Len(Row(s)) + 1, Len(c))
             d == Row(s) \o t
  <2>2. t \in Seq(Message) /\ Len(t) = Len(c) - Len(Row(s))
    BY <1>1, <2>1, SubSeqProperties
  <2>3. d \in Seq(Message) /\ Len(d) = Len(Row(s)) + Len(t)
    BY <2>1, <2>2, ConcatProperties
  <2>4. d # Nothing
    BY <1>1, <2>1, <2>2, <2>3 DEF Nothing
  <2>5. Saved(r, s, c) = [rows EXCEPT ![s] = {d}]
    BY <1>2 DEF Saved
  <2> QED  BY <2>3, <2>4, <2>5 DEF Fills
<1>3. CASE ~Appends(r, s, c)
  BY <1>3 DEF Saved, Fills
<1> QED  BY <1>2, <1>3

\* A row written with something in it.
LEMMA WrittenIs ==
  ASSUME Store, NEW s \in Slots, NEW d \in Seq(Message), d # Nothing, s \in Known',
         rows' = [rows EXCEPT ![s] = {d}],
         minted \subseteq minted', minted' \subseteq Names,
         parents \subseteq parents', parents' \subseteq Slots
  PROVE  /\ Store' /\ Grows /\ Filled(s)'
         /\ \A t \in Slots : rows'[t] = {<<>>} => t # s /\ rows[t] = {<<>>}
<1>1. /\ rows' \in [Slots -> SUBSET Seq(Message)]
      /\ \A t \in Slots : rows'[t] = IF t = s THEN {d} ELSE rows[t]
  BY DEF Store
<1>2. Store'
  BY <1>1 DEF Store, Known
<1>3. Filled(s)'
  BY <1>1 DEF Filled, Nothing
<1>4. \A t \in Slots : Filled(t) => Filled(t)'
  BY <1>1 DEF Filled, Nothing
<1>5. \A t \in Slots : rows'[t] = {<<>>} => t # s /\ rows[t] = {<<>>}
  BY <1>1 DEF Nothing
<1> QED  BY <1>2, <1>3, <1>4, <1>5 DEF Grows

\* A row claimed under an unused name.
LEMMA ClaimedIs ==
  ASSUME Store, NEW s, Unused(s), rows' = [rows EXCEPT ![s] = {<<>>}],
         minted' = minted \cup {s}, parents' = parents
  PROVE  /\ Store' /\ Grows
         /\ \A t \in Slots : rows'[t] = IF t = s THEN {<<>>} ELSE rows[t]
<1>1. s \in Slots /\ s \in Names /\ s \notin Known /\ rows[s] = {}
  BY UnusedIs
<1>2. /\ rows' \in [Slots -> SUBSET Seq(Message)]
      /\ \A t \in Slots : rows'[t] = IF t = s THEN {<<>>} ELSE rows[t]
  BY <1>1, EmptyConversation DEF Store
<1>3. Store'
  BY <1>1, <1>2 DEF Store, Known
<1>4. \A t \in Slots : Filled(t) => Filled(t)'
  BY <1>1, <1>2 DEF Filled
<1> QED  BY <1>1, <1>2, <1>3, <1>4 DEF Grows

\* A row given back: it was claimed here, has nothing in it, and no branch.
LEMMA ReleasedIs ==
  ASSUME Store, NEW p \in Procs, NEW r, Sound(p, r), r.slot \in Slots
  PROVE  /\ Mine(r) <=> Claims(r, r.slot)
         /\ Released(r) \in [Slots -> SUBSET Seq(Message)]
         /\ \A t \in Slots :
              \/ /\ Released(r)[t] = rows[t]
                 /\ rows[t] = {<<>>} => ~(t = r.slot /\ Claims(r, t) /\ t \notin parents)
              \/ Released(r)[t] = {} /\ rows[t] = {<<>>}
<1>1. \A w \in r.wrote[r.slot] : w = Mark(w.digest) /\ w.digest \in Seq(Message)
  BY DEF Sound, Marked, Session, Marks
<1>2. Mine(r) <=> Claims(r, r.slot)
  <2>1. ASSUME Claims(r, r.slot) PROVE Mine(r)
    BY <2>1, MarkIs, EmptyConversation DEF Claims, Mine
  <2>2. ASSUME Mine(r) PROVE Claims(r, r.slot)
    <3>1. PICK w \in r.wrote[r.slot] : w.seq < 0
      BY <2>2 DEF Mine
    <3> QED  BY <1>1, <3>1, MarkIs DEF Claims
  <2> QED  BY <2>1, <2>2
<1> QED  BY <1>2 DEF Released, Store

\* Where the step gives the row back, the store is as sound as it was, and the row
\* is not left with nothing in it.
LEMMA GivenBack ==
  ASSUME Store, NEW p \in Procs, NEW r, Sound(p, r), r.slot \in Slots,
         rows' = Released(r), minted' = minted, parents' = parents
  PROVE  /\ Store' /\ Grows
         /\ \A t \in Slots : rows'[t] = {<<>>} =>
              rows[t] = {<<>>} /\ ~(t = r.slot /\ Claims(r, t) /\ t \notin parents)
<1>1. /\ rows' \in [Slots -> SUBSET Seq(Message)]
      /\ \A t \in Slots :
           \/ /\ rows'[t] = rows[t]
              /\ rows[t] = {<<>>} => ~(t = r.slot /\ Claims(r, t) /\ t \notin parents)
           \/ rows'[t] = {} /\ rows[t] = {<<>>}
  BY ReleasedIs
<1>2. Store'
  BY <1>1 DEF Store, Known
<1>3. \A t \in Slots : Filled(t) => Filled(t)'
  BY <1>1 DEF Filled
<1> QED  BY <1>1, <1>2, <1>3 DEF Grows

\* A step that leaves the store alone.
LEMMA StoreStays ==
  ASSUME Store, UNCHANGED <<minted, rows, parents>>
  PROVE  Store' /\ Grows
  BY DEF Store, Known, Grows, Filled

\* A record that differs in what no save and no mark is about is as sound.
LEMMA AsSound ==
  ASSUME NEW p \in Procs, NEW r, Sound(p, r), NEW q \in Session, q.pc # "off",
         q.saves = r.saves, q.wrote = r.wrote
  PROVE  Sound(p, q) /\ \A s \in Slots : Claims(q, s) <=> Claims(r, s)
  BY DEF Sound, Few, Marked, Idle, Bound, Claims

\* A step that leaves a session its claims and its saves, and the store alone.
LEMMA TendsStill ==
  ASSUME NEW p \in Procs, rows' = rows,
         \A s \in Slots : Claims(sess[p], s) => Claims(sess'[p], s),
         \A s \in Slots : Claims(sess[p], s) /\ Minds(sess[p], s) /\ rows[s] = {<<>>}
                            /\ s \notin parents' => Minds(sess'[p], s)
  PROVE  Tends(p)
  BY DEF Tends

\* A session adopts a slot: the one it leaves is given back, and is not its any
\* more.
LEMMA AdoptedIs ==
  ASSUME NEW p \in Procs, NEW r \in Session, Sound(p, r), NEW s \in Slots,
         r.slot \in Slots, Store
  PROVE  LET q == [r EXCEPT !.slot = s, !.wrote[r.slot] = IF Mine(r) THEN {} ELSE @] IN
         /\ q \in Session /\ Sound(p, q)
         /\ q.pc = r.pc /\ q.slot = s /\ q.conv = r.conv /\ q.saves = r.saves
         /\ q.moves = r.moves /\ q.clean = r.clean /\ q.moved = r.moved
         /\ \A t \in Slots : Claims(q, t) <=> t # r.slot /\ Claims(r, t)
<1>1. Mine(r) <=> Claims(r, r.slot)
  BY ReleasedIs
<1> DEFINE q == [r EXCEPT !.slot = s, !.wrote[r.slot] = IF Mine(r) THEN {} ELSE @]
<1>2. CASE Mine(r)
  <2> DEFINE u == [r EXCEPT !.wrote[r.slot] = {}]
             v == [u EXCEPT !.slot = s]
  <2>1. /\ u \in Session /\ Sound(p, u)
        /\ u.pc = r.pc /\ u.slot = r.slot /\ u.conv = r.conv /\ u.saves = r.saves
        /\ u.moves = r.moves /\ u.clean = r.clean /\ u.moved = r.moved
        /\ \A t \in Slots : Claims(u, t) <=> t # r.slot /\ Claims(r, t)
    BY ForgetsIs DEF Forgets
  <2>2. q = v
    BY <1>2 DEF Session
  <2> HIDE DEF u, q
  <2>3. /\ v \in Session /\ v.pc = r.pc /\ v.slot = s /\ v.conv = r.conv
        /\ v.saves = r.saves /\ v.moves = r.moves /\ v.clean = r.clean
        /\ v.moved = r.moved /\ v.wrote = u.wrote /\ v.saves = u.saves /\ v.pc = u.pc
    BY <2>1 DEF Session
  <2> HIDE DEF v
  <2>4. Sound(p, v) /\ \A t \in Slots : Claims(v, t) <=> Claims(u, t)
    BY <2>1, <2>3 DEF Sound, Few, Marked, Idle, Bound, Claims
  <2>5. /\ q \in Session /\ Sound(p, q)
        /\ q.pc = r.pc /\ q.slot = s /\ q.conv = r.conv /\ q.saves = r.saves
        /\ q.moves = r.moves /\ q.clean = r.clean /\ q.moved = r.moved
        /\ \A t \in Slots : Claims(q, t) <=> t # r.slot /\ Claims(r, t)
    BY <2>1, <2>2, <2>3, <2>4
  <2> QED  BY <2>5 DEF q
<1>3. CASE ~Mine(r)
  <2> DEFINE v == [r EXCEPT !.slot = s]
  <2>1. q = v
    BY <1>3 DEF Session
  <2> HIDE DEF q
  <2>2. /\ v \in Session /\ v.pc = r.pc /\ v.slot = s /\ v.conv = r.conv
        /\ v.saves = r.saves /\ v.moves = r.moves /\ v.clean = r.clean
        /\ v.moved = r.moved /\ v.wrote = r.wrote
    BY DEF Session
  <2> HIDE DEF v
  <2>3. Sound(p, v) /\ \A t \in Slots : Claims(v, t) <=> Claims(r, t)
    BY <2>2 DEF Sound, Few, Marked, Idle, Bound, Claims
  <2>4. /\ q \in Session /\ Sound(p, q)
        /\ q.pc = r.pc /\ q.slot = s /\ q.conv = r.conv /\ q.saves = r.saves
        /\ q.moves = r.moves /\ q.clean = r.clean /\ q.moved = r.moved
        /\ \A t \in Slots : Claims(q, t) <=> t # r.slot /\ Claims(r, t)
    BY <1>1, <1>3, <2>1, <2>2, <2>3
  <2> QED  BY <2>4 DEF q
<1> QED  BY <1>2, <1>3

\* A session that goes to a filled slot, of the saves that are under way, keeps the
\* invariant: what it leaves claimed and empty is given back.
LEMMA AdoptKeeps ==
  ASSUME IInv, NEW p \in Procs, sess[p].pc \in {"live", "quitting"},
         NEW r \in Session, Sound(p, r), Knows(r), Leaves(r),
         r.pc = sess[p].pc, r.slot = sess[p].slot, r.saves = sess[p].saves,
         r.clean = sess[p].clean, NEW s \in Slots, s \in Known, Filled(s),
         \A t \in Slots \ {s} : Claims(r, t) <=> Claims(sess[p], t),
         Adopt(p, r, s), UNCHANGED <<minted, parents>>
  PROVE  IInv' /\ Grows
<1>1. /\ r.slot \in Slots /\ Store /\ sess \in [Procs -> Session]
  BY KnownAre DEF IInv, Sessions
<1>2. \A t \in Slots : rows[t] = {<<>>} => t # s
  BY DEF Filled
<1>3. CASE r.slot = s
  <2>1. sess'[p] = r /\ rows' = rows /\ sess' = [sess EXCEPT ![p] = sess'[p]]
    BY <1>1, <1>3 DEF Adopt, Becomes
  <2>2. Store' /\ Grows
    BY <1>1, <2>1, StoreStays
  <2>3. Settles(sess'[p])
    BY <1>2, <1>3, <2>1 DEF Settles, Filled
  <2>4. Held(sess[p])'
    BY <1>1, <2>1, <2>2, <2>3, HeldStays DEF Held
  <2>5. Tends(p)
    BY <1>2, <2>1 DEF Tends, Minds
  <2> QED  BY <2>1, <2>2, <2>4, <2>5, Framed
<1>4. CASE r.slot # s
  <2> DEFINE q == [r EXCEPT !.slot = s, !.wrote[r.slot] = IF Mine(r) THEN {} ELSE @]
  <2>1. /\ q \in Session /\ Sound(p, q)
        /\ q.pc = r.pc /\ q.slot = s /\ q.conv = r.conv /\ q.saves = r.saves
        /\ q.moves = r.moves /\ q.clean = r.clean /\ q.moved = r.moved
        /\ \A t \in Slots : Claims(q, t) <=> t # r.slot /\ Claims(r, t)
    BY <1>1, AdoptedIs
  <2>2. Becomes(p, q) /\ rows' = Released(r)
    BY <1>4 DEF Adopt
  <2> HIDE DEF q
  <2>3. sess'[p] = q /\ sess' = [sess EXCEPT ![p] = sess'[p]]
    BY <1>1, <2>2 DEF Becomes
  <2>4. /\ Store' /\ Grows
        /\ \A t \in Slots : rows'[t] = {<<>>} =>
             rows[t] = {<<>>} /\ ~(t = r.slot /\ Claims(r, t) /\ t \notin parents)
    BY <1>1, <2>2, GivenBack
  <2>5. Knows(q) /\ Leaves(q)
    <3>1. \A j \in q.saves : j.from \in Slots
      BY <2>1 DEF Session, Saves
    <3> QED  BY <2>1, <3>1 DEF Knows, Leaves
  <2>6. Settles(q)
    BY <1>2, <2>1 DEF Settles
  <2>7. Held(sess[p])'
    BY <1>1, <2>1, <2>3, <2>4, <2>5, <2>6, HeldStays DEF Held
  <2>8. Tends(p)
    <3>1. ASSUME NEW t \in Slots \ parents', rows'[t] = {<<>>},
                 rows[t] # {<<>>} \/ (Claims(sess[p], t) /\ Minds(sess[p], t))
          PROVE  Claims(q, t) /\ Minds(q, t)
      <4>1. rows[t] = {<<>>} /\ t # s /\ Claims(sess[p], t) /\ Minds(sess[p], t)
        BY <1>2, <2>4, <3>1
      <4>2. Claims(r, t) /\ t # r.slot
        BY <2>4, <3>1, <4>1
      <4> QED  BY <2>1, <4>1, <4>2 DEF Minds
    <3> QED  BY <2>3, <3>1 DEF Tends
  <2> QED  BY <2>1, <2>3, <2>4, <2>7, <2>8, Framed
<1> QED  BY <1>3, <1>4

-----------------------------------------------------------------------------
(***************************************************************************)
(* Each operation of a session keeps the invariant.                        *)
(***************************************************************************)

\* The step sets p's record to r, and no other's.
LEMMA BecomesIs ==
  ASSUME IInv, NEW p \in Procs, NEW r, Becomes(p, r)
  PROVE  sess'[p] = r /\ sess' = [sess EXCEPT ![p] = sess'[p]]
  BY DEF Becomes, IInv, Sessions

\* Start: the claim is the session's slot.
LEMMA StartKeeps ==
  ASSUME IInv, NEW p \in Procs, Start(p)
  PROVE  IInv' /\ Grows
<1>1. PICK s \in Names : /\ Unused(s) /\ rows' = [rows EXCEPT ![s] = {<<>>}]
                         /\ minted' = minted \cup {s} /\ parents' = parents
                         /\ Becomes(p, [Claimed(Off, s) EXCEPT !.pc = "live", !.slot = s])
  BY DEF Start
<1>2. /\ s \in Slots /\ s \in Names /\ s \notin Known /\ rows[s] = {}
      /\ Store /\ Sound(p, sess[p]) /\ sess[p].pc = "off"
  BY <1>1, UnusedIs, KnownAre DEF Start
<1>3. /\ Store' /\ Grows
      /\ \A t \in Slots : rows'[t] = IF t = s THEN {<<>>} ELSE rows[t]
  BY <1>1, <1>2, ClaimedIs
<1> DEFINE u == Claimed(Off, s)
           q == [u EXCEPT !.pc = "live", !.slot = s]
<1>4. /\ u \in Session /\ u.saves = {} /\ u.moves = {} /\ u.clean
      /\ \A t \in Slots : u.moved[t] = {}
      /\ u.wrote[s] = {Mark(Nothing)} /\ \A t \in Slots \ {s} : u.wrote[t] = {}
  <2>1. Off \in Session /\ s \in Slots /\ Nothing \in Seq(Message)
    BY <1>2, OffIs, EmptyConversation
  <2>2. Remembers(u, Off, s, Nothing)
    BY DEF Claimed, Remembers, Nothing
  <2> HIDE DEF u
  <2>3. /\ u \in Session /\ u.saves = Off.saves /\ u.moves = Off.moves
        /\ u.clean = Off.clean /\ u.moved = Off.moved
        /\ u.wrote[s] = {Mark(Nothing)} /\ \A t \in Slots \ {s} : u.wrote[t] = Off.wrote[t]
    BY <2>1, <2>2, RemembersIs
  <2> QED  BY <2>3, OffIs
<1>5. sess'[p] = q /\ sess' = [sess EXCEPT ![p] = sess'[p]]
  BY <1>1, BecomesIs
<1> HIDE DEF u
<1>6. /\ q \in Session /\ q.pc = "live" /\ q.slot = s /\ q.saves = {} /\ q.moves = {}
      /\ q.clean /\ q.moved = u.moved /\ q.wrote = u.wrote
  BY <1>2, <1>4 DEF Session
<1> HIDE DEF q
<1>7. Sound(p, q)
  <2>1. Few(p, q)
    BY <1>6, OffIs DEF Sound, Few
  <2>2. Mark(Nothing) = Mark(Mark(Nothing).digest)
    BY EmptyConversation, MarkIs
  <2>3. Marked(q)
    BY <1>4, <1>6, <2>2 DEF Marked
  <2> QED  BY <1>6, <2>1, <2>3 DEF Sound, Idle, Bound
<1>8. Held(sess[p])'
  <2>1. s \in Known'
    BY <1>1 DEF Known
  <2>2. Knows(sess[p])'
    BY <1>4, <1>5, <1>6, <2>1 DEF Knows
  <2>3. Leaves(sess[p])' /\ Settles(sess[p])'
    BY <1>5, <1>6 DEF Leaves, Settles
  <2> QED  BY <2>2, <2>3 DEF Held
<1>9. Tends(p)
  <2>1. \A t \in Slots : ~Claims(sess[p], t)
    BY <1>2 DEF Sound, Idle, Claims
  <2>2. Claims(q, s) /\ Minds(q, s)
    BY <1>2, <1>4, <1>6 DEF Claims, Minds, Nothing
  <2> QED  BY <1>3, <1>5, <2>1, <2>2 DEF Tends
<1> QED  BY <1>3, <1>5, <1>7, <1>8, <1>9, Framed

\* Say: what is said is saved to the session's slot.
LEMMA SayKeeps ==
  ASSUME IInv, NEW p \in Procs, Say(p)
  PROVE  IInv' /\ Grows
<1> DEFINE r == sess[p]
           u == [r EXCEPT !.said = r.said + 1, !.conv = Append(r.conv, <<p, r.said + 1>>)]
           q == Autosave(u)
<1>1. /\ r \in Session /\ Sound(p, r) /\ Knows(r) /\ Leaves(r) /\ r.pc = "live"
      /\ r.slot \in Slots /\ r.slot \in Known /\ Store
      /\ Cardinality(r.saves) < InFlight[p] /\ r.said < Turns
  BY KnownAre DEF Say, Live, Room
<1>2. sess'[p] = q /\ sess' = [sess EXCEPT ![p] = sess'[p]]
  BY BecomesIs DEF Say
<1>3. UNCHANGED <<minted, rows, parents>>
  BY DEF Say
<1>4. r.said + 1 \in 0..Turns /\ Append(r.conv, <<p, r.said + 1>>) \in Seq(Message)
  <2>1. r.said \in Nat /\ r.said + 1 \in 1..Turns /\ r.said + 1 \in 0..Turns
    BY <1>1, ChatSlotsAssumption DEF Session
  <2>2. <<p, r.said + 1>> \in Message
    BY <2>1 DEF Message
  <2> QED  BY <1>1, <2>1, <2>2, AppendProperties DEF Session
<1> HIDE DEF r
<1>5. /\ u \in Session /\ u.pc = r.pc /\ u.slot = r.slot /\ u.saves = r.saves
      /\ u.wrote = r.wrote /\ u.moves = r.moves /\ u.clean = r.clean /\ u.moved = r.moved
  BY <1>1, <1>4 DEF Session
<1> HIDE DEF u
<1>6. Sound(p, u) /\ \A t \in Slots : Claims(u, t) <=> Claims(r, t)
  BY <1>1, <1>5, AsSound
<1>7. /\ q \in Session /\ Sound(p, q)
      /\ q.pc = u.pc /\ q.slot = u.slot /\ q.wrote = u.wrote
      /\ q.moves = u.moves /\ q.clean = u.clean /\ q.moved = u.moved
      /\ u.saves \subseteq q.saves
      /\ \A j \in q.saves : \/ j \in u.saves
                            \/ j.from = u.slot /\ j.to = u.slot /\ j.at = "save"
  BY <1>1, <1>5, <1>6, AutosaveIs
<1> HIDE DEF q
<1>8. Store' /\ Grows
  BY <1>1, <1>3, StoreStays
<1>9. Knows(q) /\ Leaves(q) /\ Settles(q)
  BY <1>1, <1>5, <1>7 DEF Knows, Leaves, Settles, Claims
<1>10. Held(sess[p])'
  BY <1>1, <1>2, <1>7, <1>8, <1>9, HeldStays DEF Held
<1>11. Tends(p)
  BY <1>2, <1>3, <1>5, <1>7 DEF Tends, Claims, Minds, r
<1> QED  BY <1>2, <1>7, <1>8, <1>10, <1>11, Framed

\* Rewind: the tail is kept under a branch, and the slot is one with a branch.
LEMMA RewindKeeps ==
  ASSUME IInv, NEW p \in Procs, Rewind(p)
  PROVE  IInv' /\ Grows
<1> DEFINE r == sess[p]
           b == Branch[p]
<1>1. /\ r \in Session /\ Sound(p, r) /\ Knows(r) /\ Leaves(r) /\ r.pc = "live"
      /\ r.slot \in Slots /\ r.slot \in Known /\ Store
      /\ Cardinality(r.saves) < InFlight[p] /\ rows[b] = {}
  BY KnownAre DEF Rewind, Live, Room
<1>2. PICK n \in 0..Len(r.conv) - 1 :
        /\ rows' = [rows EXCEPT ![r.slot] = IF @ = {} THEN {<<>>} ELSE @, ![b] = {r.conv}]
        /\ Becomes(p, Autosave([r EXCEPT !.wrote[b] = {Mark(r.conv)},
                                         !.conv = SubSeq(r.conv, 1, n)]))
  BY DEF Rewind
<1>3. minted' = minted /\ parents' = parents \cup {r.slot}
  BY DEF Rewind
<1> DEFINE u == [r EXCEPT !.wrote[b] = {Mark(r.conv)}]
           v == [u EXCEPT !.conv = SubSeq(r.conv, 1, n)]
           q == Autosave(v)
<1>4. sess'[p] = q /\ sess' = [sess EXCEPT ![p] = sess'[p]]
  BY <1>2, BecomesIs
<1>5. b \in Slots /\ b \in Known
  BY DEF Known, Slots, Branches
<1> HIDE DEF r, b
<1>6. r.conv \in Seq(Message) /\ r.conv # <<>> /\ SubSeq(r.conv, 1, n) \in Seq(Message)
  <2>1. r.conv \in Seq(Message) /\ Len(r.conv) \in Nat /\ 0 <= Len(r.conv) - 1
    BY <1>1, <1>2, LenProperties DEF Session
  <2>2. n \in Int /\ n <= Len(r.conv)
    BY <1>2, <2>1
  <2>3. r.conv # <<>>
    BY <2>1, EmptySeq
  <2>4. \A i \in 1..n : r.conv[i] \in Message
    BY <2>1, <2>2, ElementOfSeq
  <2> QED  BY <2>1, <2>2, <2>3, <2>4, SubSeqProperties
<1>7. Remembers(u, r, b, r.conv)
  BY DEF Remembers
<1> HIDE DEF u
<1>8. /\ u \in Session /\ u.pc = r.pc /\ u.slot = r.slot
      /\ u.saves = r.saves /\ u.moves = r.moves /\ u.clean = r.clean
      /\ u.moved = r.moved
      /\ \A s \in Slots \ {b} : Claims(u, s) <=> Claims(r, s)
      /\ Claims(u, b) <=> r.conv = Nothing
  BY <1>1, <1>5, <1>6, <1>7, RemembersIs
<1>9. Sound(p, u)
  BY <1>1, <1>5, <1>6, <1>7, RemembersSoundly
<1>10. /\ v \in Session /\ v.pc = r.pc /\ v.slot = r.slot /\ v.saves = r.saves
       /\ v.moves = r.moves /\ v.clean = r.clean /\ v.moved = r.moved
       /\ v.wrote = u.wrote
  BY <1>6, <1>8 DEF Session
<1> HIDE DEF v
<1>11. Sound(p, v) /\ \A s \in Slots : Claims(v, s) <=> Claims(u, s)
  BY <1>1, <1>8, <1>9, <1>10, AsSound
<1>12. /\ q \in Session /\ Sound(p, q)
       /\ q.pc = v.pc /\ q.slot = v.slot /\ q.wrote = v.wrote
       /\ q.moves = v.moves /\ q.clean = v.clean /\ q.moved = v.moved
       /\ v.saves \subseteq q.saves
       /\ \A j \in q.saves : \/ j \in v.saves
                             \/ j.from = v.slot /\ j.to = v.slot /\ j.at = "save"
  BY <1>1, <1>10, <1>11, AutosaveIs
<1> HIDE DEF q
<1>13. \A s \in Slots : Claims(q, s) <=> s # b /\ Claims(r, s)
  BY <1>6, <1>8, <1>11, <1>12 DEF Claims, Nothing
<1>14. /\ Store' /\ Grows
       /\ \A s \in Slots : rows'[s] = {<<>>} =>
            s # b /\ (rows[s] = {<<>>} \/ s \in parents')
  <2>1. /\ rows'[b] = {r.conv}
        /\ \A s \in Slots \ {b} :
             rows'[s] = rows[s] \/ (s = r.slot /\ rows[s] = {} /\ rows'[s] = {Nothing})
    BY <1>1, <1>2, <1>5 DEF Store, Nothing
  <2>2. rows' \in [Slots -> SUBSET Seq(Message)]
    <3>1. DOMAIN rows' = Slots /\ rows' = [s \in Slots |-> rows'[s]]
      BY <1>1, <1>2 DEF Store
    <3>2. \A s \in Slots : rows'[s] \in SUBSET Seq(Message)
      BY <1>1, <1>6, <2>1, EmptyConversation DEF Store
    <3> QED  BY <3>1, <3>2
  <2>3. Store'
    <3>1. \A s \in Slots : \A c, d \in rows'[s] : c = d
      BY <1>1, <2>1 DEF Store
    <3>2. \A s \in Slots : rows'[s] # {} => s \in Known'
      BY <1>1, <1>3, <1>5, <2>1 DEF Store, Known
    <3>3. parents' \subseteq Slots /\ minted' \subseteq Names
      BY <1>1, <1>3 DEF Store
    <3> QED  BY <2>2, <3>1, <3>2, <3>3 DEF Store
  <2>4. \A s \in Slots : Filled(s) => Filled(s)'
    BY <1>1, <1>6, <2>1 DEF Filled
  <2>5. \A s \in Slots : rows'[s] = {<<>>} => s # b /\ (rows[s] = {<<>>} \/ s \in parents')
    BY <1>3, <1>6, <2>1
  <2> QED  BY <1>3, <2>3, <2>4, <2>5 DEF Grows
<1>15. Knows(q) /\ Leaves(q) /\ Settles(q)
  <2>1. \A j \in q.saves : j.from \in Slots
    BY <1>12 DEF Session, Saves
  <2> QED  BY <1>1, <1>10, <1>12, <1>13, <2>1 DEF Knows, Leaves, Settles
<1>16. Held(sess[p])'
  BY <1>1, <1>4, <1>12, <1>14, <1>15, HeldStays DEF Held
<1>17. Tends(p)
  BY <1>3, <1>4, <1>10, <1>12, <1>13, <1>14 DEF Tends, Minds, r
<1> QED  BY <1>4, <1>12, <1>14, <1>16, <1>17, Framed

\* A chat that is read changes no row and no session.
LEMMA SameKeeps ==
  ASSUME IInv, UNCHANGED <<minted, rows, parents, sess>>
  PROVE  IInv' /\ Grows
BY DEF IInv, Store, Sessions, Minded, Known, Sound, Few, Marked, Idle, Bound,
   Held, Knows, Leaves, Settles, Filled, Claims, Minds, Grows

\* Load: the slot left is given back where it was only claimed.
LEMMA LoadKeeps ==
  ASSUME IInv, Opened, NEW p \in Procs, Load(p)
  PROVE  IInv' /\ Grows
<1>0. PICK x \in read[p] :
        Adopt(p, [sess[p] EXCEPT !.wrote[x.slot] = {Mark(x.conv)}, !.conv = x.conv,
                                 !.switches = @ + 1], x.slot)
  BY DEF Load
<1> DEFINE r == sess[p]
           s == x.slot
           c == x.conv
           u == [r EXCEPT !.wrote[s] = {Mark(c)}]
           v == [u EXCEPT !.conv = c, !.switches = r.switches + 1]
<1>1. /\ r \in Session /\ Sound(p, r) /\ Knows(r) /\ Leaves(r) /\ r.pc = "live" /\ Store
      /\ r.switches < Switches
  BY KnownAre DEF Load, Opened
<1>2. c \in Seq(Message) /\ c # <<>> /\ s \in Slots /\ Filled(s) /\ s \in Known
  BY <1>1 DEF Opened, Filled, Store, Nothing
<1>3. Adopt(p, v, s) /\ UNCHANGED <<minted, parents>>
  BY <1>0 DEF Load
<1> HIDE DEF r, s, c
<1>4. r.switches + 1 \in 0..Switches
  BY <1>1, ChatSlotsAssumption DEF Session
<1>5. Remembers(u, r, s, c)
  BY DEF Remembers
<1> HIDE DEF u
<1>6. /\ u \in Session /\ u.pc = r.pc /\ u.slot = r.slot
      /\ u.saves = r.saves /\ u.moves = r.moves /\ u.clean = r.clean
      /\ u.moved = r.moved
      /\ \A t \in Slots \ {s} : Claims(u, t) <=> Claims(r, t)
      /\ Claims(u, s) <=> c = Nothing
  BY <1>1, <1>2, <1>5, RemembersIs
<1>7. Sound(p, u)
  BY <1>1, <1>2, <1>5, RemembersSoundly
<1>8. /\ v \in Session /\ v.pc = r.pc /\ v.slot = r.slot
      /\ v.saves = r.saves /\ v.moves = r.moves /\ v.clean = r.clean
      /\ v.moved = r.moved /\ v.wrote = u.wrote
  BY <1>2, <1>4, <1>6 DEF Session
<1> HIDE DEF v
<1>9. Sound(p, v) /\ \A t \in Slots : Claims(v, t) <=> Claims(u, t)
  BY <1>1, <1>6, <1>7, <1>8, AsSound
<1>10. \A t \in Slots : Claims(v, t) <=> t # s /\ Claims(r, t)
  BY <1>2, <1>6, <1>9 DEF Nothing
<1>11. Knows(v) /\ Leaves(v)
  <2>1. \A j \in v.saves : j.from \in Slots
    BY <1>8 DEF Session, Saves
  <2> QED  BY <1>1, <1>8, <1>10, <2>1 DEF Knows, Leaves
<1> QED  BY <1>1, <1>2, <1>3, <1>8, <1>9, <1>10, <1>11, AdoptKeeps DEF r

\* Note: the session goes where its conversation was moved.
LEMMA NoteKeeps ==
  ASSUME IInv, NEW p \in Procs, Note(p)
  PROVE  IInv' /\ Grows
<1>1. PICK m \in sess[p].moves :
        LET r == [sess[p] EXCEPT !.moves = @ \ {m}] IN
        IF m.from = r.slot THEN Adopt(p, r, m.to) ELSE Becomes(p, r) /\ UNCHANGED rows
  BY DEF Note
<1>2. UNCHANGED <<minted, parents>> /\ sess[p].pc \in {"live", "quitting"}
  BY DEF Note
<1> DEFINE o == sess[p]
           r == [o EXCEPT !.moves = o.moves \ {m}]
<1>3. /\ o \in Session /\ Sound(p, o) /\ Knows(o) /\ Leaves(o) /\ Settles(o) /\ Store
      /\ m.to \in Slots /\ m.to \in Known /\ Filled(m.to)
  BY KnownAre DEF Leaves
<1>4. o.pc \in {"live", "quitting"}
  BY <1>2
<1>5. IF m.from = r.slot THEN Adopt(p, r, m.to) ELSE Becomes(p, r) /\ UNCHANGED rows
  BY <1>1
<1> HIDE DEF o
<1>6. /\ r \in Session /\ r.pc = o.pc /\ r.slot = o.slot /\ r.conv = o.conv
      /\ r.saves = o.saves /\ r.moves \subseteq o.moves /\ r.clean = o.clean
      /\ r.moved = o.moved /\ r.wrote = o.wrote
  BY <1>3 DEF Session
<1> HIDE DEF r
<1>7. Sound(p, r) /\ \A t \in Slots : Claims(r, t) <=> Claims(o, t)
  BY <1>3, <1>4, <1>6, AsSound
<1>8. Knows(r) /\ Leaves(r) /\ Settles(r)
  BY <1>3, <1>6 DEF Knows, Leaves, Settles, Claims
<1>9. CASE m.from = r.slot
  BY <1>2, <1>3, <1>5, <1>6, <1>7, <1>8, <1>9, AdoptKeeps DEF o
<1>10. CASE m.from # r.slot
  <2>1. sess'[p] = r /\ sess' = [sess EXCEPT ![p] = sess'[p]] /\ rows' = rows
    BY <1>5, <1>10, BecomesIs
  <2>2. Store' /\ Grows
    BY <1>2, <1>3, <2>1, StoreStays
  <2>3. Held(sess[p])'
    BY <1>3, <1>6, <1>8, <2>1, <2>2, HeldStays DEF Held
  <2>4. Tends(p)
    BY <1>6, <1>7, <2>1 DEF Tends, Minds, o
  <2> QED  BY <1>7, <2>1, <2>2, <2>3, <2>4, Framed
<1> QED  BY <1>9, <1>10

\* New: the slot left is given back, unless a save of the session's is on its
\* way there.
LEMMA NewKeeps ==
  ASSUME IInv, NEW p \in Procs, New(p)
  PROVE  IInv' /\ Grows
<1> DEFINE o == sess[p]
           a == Autosave(o)
<1>1. /\ o \in Session /\ Sound(p, o) /\ Knows(o) /\ Leaves(o) /\ o.pc = "live"
      /\ o.slot \in Slots /\ o.slot \in Known /\ Store
      /\ Cardinality(o.saves) < InFlight[p] /\ o.switches < Switches
  BY KnownAre DEF New, Live, Room
<1>2. PICK s \in Names :
        LET r == [Claimed(Autosave(sess[p]), s) EXCEPT !.switches = @ + 1] IN
        /\ Unused(s) /\ minted' = minted \cup {s}
        /\ IF r.conv # <<>>
             THEN /\ rows' = [rows EXCEPT ![s] = {<<>>}]
                  /\ Becomes(p, [r EXCEPT !.slot = s, !.conv = <<>>])
             ELSE /\ rows' = [Released(r) EXCEPT ![s] = {<<>>}]
                  /\ Becomes(p, [r EXCEPT !.slot = s,
                                   !.wrote[r.slot] = IF Mine(r) THEN {} ELSE @])
  BY DEF New
<1> DEFINE c == Claimed(a, s)
           r == [c EXCEPT !.switches = c.switches + 1]
<1>3. Unused(s) /\ minted' = minted \cup {s} /\ parents' = parents
  BY <1>2 DEF New
<1>4. r.conv # <<>> => /\ rows' = [rows EXCEPT ![s] = {<<>>}]
                       /\ Becomes(p, [r EXCEPT !.slot = s, !.conv = <<>>])
  BY <1>2
<1>5. r.conv = <<>> => /\ rows' = [Released(r) EXCEPT ![s] = {<<>>}]
                       /\ Becomes(p, [r EXCEPT !.slot = s,
                                        !.wrote[r.slot] = IF Mine(r) THEN {} ELSE @])
  BY <1>2
<1>6. s \in Slots /\ s \notin Known /\ rows[s] = {} /\ s # o.slot
  BY <1>1, <1>3, UnusedIs
<1> HIDE DEF o
<1>7. /\ a \in Session /\ Sound(p, a)
      /\ a.pc = o.pc /\ a.slot = o.slot /\ a.conv = o.conv /\ a.wrote = o.wrote
      /\ a.moves = o.moves /\ a.clean = o.clean /\ a.moved = o.moved
      /\ a.switches = o.switches /\ o.saves \subseteq a.saves
      /\ \A j \in a.saves : \/ j \in o.saves
                            \/ j.from = o.slot /\ j.to = o.slot /\ j.at = "save"
      /\ o.conv # <<>> => \E j \in a.saves : j.conv = o.conv /\ j.from = o.slot
  BY <1>1, AutosaveIs
<1> HIDE DEF a
<1>8. Remembers(c, a, s, Nothing)
  BY DEF Claimed, Remembers, Nothing
<1> HIDE DEF c
<1>9. /\ c \in Session /\ c.pc = a.pc /\ c.slot = a.slot /\ c.conv = a.conv
      /\ c.saves = a.saves /\ c.moves = a.moves /\ c.clean = a.clean
      /\ c.moved = a.moved /\ c.switches = a.switches
      /\ \A t \in Slots \ {s} : Claims(c, t) <=> Claims(a, t)
      /\ Claims(c, s)
  BY <1>6, <1>7, <1>8, RemembersIs, EmptyConversation
<1>10. Sound(p, c)
  <2>1. a.pc # "off"
    BY <1>1, <1>7
  <2> QED  BY <1>6, <1>7, <1>8, <2>1, RemembersSoundly, EmptyConversation
<1>11. c.switches + 1 \in 0..Switches
  BY <1>1, <1>7, <1>9, ChatSlotsAssumption DEF Session
<1>12. /\ r \in Session /\ r.pc = c.pc /\ r.slot = c.slot /\ r.conv = c.conv
       /\ r.saves = c.saves /\ r.moves = c.moves /\ r.clean = c.clean
       /\ r.moved = c.moved /\ r.wrote = c.wrote
  BY <1>9, <1>11 DEF Session
<1> HIDE DEF r
<1>13. Sound(p, r) /\ \A t \in Slots : Claims(r, t) <=> Claims(c, t)
  BY <1>1, <1>7, <1>9, <1>10, <1>12, AsSound
<1>14. /\ r.pc = "live" /\ r.slot = o.slot /\ r.conv = o.conv
       /\ r.moves = o.moves /\ r.moved = o.moved /\ r.clean = o.clean
       /\ r.saves = a.saves /\ Claims(r, s)
       /\ \A t \in Slots \ {s} : Claims(r, t) <=> Claims(o, t)
  BY <1>1, <1>6, <1>7, <1>9, <1>12, <1>13 DEF Claims
<1>15. s \in Known' /\ Known \subseteq Known'
  BY <1>3 DEF Known
\* What is known, and of the saves, in the record left by either branch.
<1>16. ASSUME NEW q \in Session, q.pc = "live", q.slot = s, q.moved = r.moved,
              q.moves = r.moves, q.saves = r.saves, sess'[p] = q, Grows,
              \A t \in Slots \ {s} : Claims(q, t) => Claims(r, t)
       PROVE  Held(sess[p])'
  <2>1. Knows(sess[p])'
    <3>1. \A t \in Slots : q.moved[t] \subseteq Known'
      BY <1>1, <1>14, <1>15, <1>16 DEF Knows
    <3>2. \A j \in q.saves : j.from \in Known /\ j.to \in Known
      BY <1>1, <1>7, <1>14, <1>16 DEF Knows
    <3>3. \A m \in q.moves : m.to \in Known
      BY <1>1, <1>14, <1>16 DEF Knows
    <3> QED  BY <1>15, <1>16, <3>1, <3>2, <3>3 DEF Knows
  <2>2. ASSUME NEW j \in q.saves, j.at # "save"
        PROVE  Filled(j.from)' \/ ~Claims(q, j.from)
    <3>1. j \in o.saves /\ j.from \in Slots /\ j.from \in Known
      BY <1>1, <1>7, <1>14, <1>16, <2>2 DEF Session, Saves, Knows
    <3>2. Filled(j.from) \/ ~Claims(o, j.from)
      BY <1>1, <2>2, <3>1 DEF Leaves
    <3>3. j.from # s
      BY <1>6, <3>1
    <3> QED  BY <1>14, <1>16, <3>1, <3>2, <3>3 DEF Grows
  <2>3. \A m \in q.moves : Filled(m.to)'
    <3>1. \A m \in q.moves : Filled(m.to) /\ m.to \in Slots
      BY <1>1, <1>14, <1>16 DEF Leaves, Session, Notes, Slots
    <3> QED  BY <1>16, <3>1 DEF Grows
  <2>4. Leaves(sess[p])'
    BY <1>16, <2>2, <2>3 DEF Leaves, Claims
  <2>5. Settles(sess[p])'
    BY <1>16 DEF Settles
  <2> QED  BY <2>1, <2>4, <2>5 DEF Held
<1>17. CASE r.conv # <<>>
  <2> DEFINE q == [r EXCEPT !.slot = s, !.conv = <<>>]
  <2>1. sess'[p] = q /\ sess' = [sess EXCEPT ![p] = sess'[p]]
    BY <1>4, <1>17, BecomesIs
  <2>2. /\ Store' /\ Grows
        /\ \A t \in Slots : rows'[t] = IF t = s THEN {<<>>} ELSE rows[t]
    BY <1>1, <1>3, <1>4, <1>17, ClaimedIs
  <2>3. /\ q \in Session /\ q.pc = r.pc /\ q.slot = s /\ q.saves = r.saves
        /\ q.moves = r.moves /\ q.clean = r.clean /\ q.moved = r.moved
        /\ q.wrote = r.wrote
    BY <1>6, <1>12, EmptyConversation DEF Session
  <2> HIDE DEF q
  <2>4. Sound(p, q) /\ \A t \in Slots : Claims(q, t) <=> Claims(r, t)
    BY <1>13, <1>14, <2>3, AsSound
  <2>5. Held(sess[p])'
    BY <1>14, <1>16, <2>1, <2>2, <2>3, <2>4
  <2>6. Tends(p)
    <3>1. \E j \in q.saves : j.from = o.slot
      BY <1>7, <1>14, <1>17, <2>3
    <3>2. Claims(q, s) /\ Minds(q, s)
      BY <1>6, <1>14, <2>3, <2>4 DEF Minds
    <3>3. ASSUME NEW t \in Slots, t # s, Claims(o, t), Minds(o, t)
          PROVE  Claims(q, t) /\ Minds(q, t)
      BY <1>7, <1>14, <2>3, <2>4, <3>1, <3>3 DEF Minds
    <3> QED  BY <2>1, <2>2, <3>2, <3>3 DEF Tends, o
  <2> QED  BY <2>1, <2>2, <2>4, <2>5, <2>6, Framed
<1>18. CASE r.conv = <<>>
  <2> DEFINE q == [r EXCEPT !.slot = s, !.wrote[r.slot] = IF Mine(r) THEN {} ELSE @]
             g == Released(r)
  <2>1. sess'[p] = q /\ sess' = [sess EXCEPT ![p] = sess'[p]]
    BY <1>5, <1>18, BecomesIs
  <2>2. /\ q \in Session /\ Sound(p, q)
        /\ q.pc = r.pc /\ q.slot = s /\ q.conv = r.conv /\ q.saves = r.saves
        /\ q.moves = r.moves /\ q.clean = r.clean /\ q.moved = r.moved
        /\ \A t \in Slots : Claims(q, t) <=> t # r.slot /\ Claims(r, t)
    BY <1>1, <1>6, <1>12, <1>13, <1>14, AdoptedIs
  <2> HIDE DEF q
  <2>3. /\ g \in [Slots -> SUBSET Seq(Message)]
        /\ \A t \in Slots :
             \/ /\ g[t] = rows[t]
                /\ rows[t] = {<<>>} => ~(t = r.slot /\ Claims(r, t) /\ t \notin parents)
             \/ g[t] = {} /\ rows[t] = {<<>>}
    BY <1>1, <1>13, <1>14, ReleasedIs
  <2>4. rows' = [g EXCEPT ![s] = {<<>>}]
    BY <1>5, <1>18
  <2> HIDE DEF g
  <2>5. /\ rows' \in [Slots -> SUBSET Seq(Message)] /\ rows'[s] = {<<>>}
        /\ \A t \in Slots \ {s} : rows'[t] = g[t]
    BY <1>6, <2>3, <2>4, EmptyConversation
  <2>6. Store'
    <3>1. \A t \in Slots : \A x, y \in rows'[t] : x = y
      BY <1>1, <2>3, <2>5 DEF Store
    <3>2. \A t \in Slots : rows'[t] # {} => t \in Known'
      BY <1>1, <1>15, <2>3, <2>5 DEF Store
    <3>3. minted' \subseteq Names /\ parents' \subseteq Slots
      BY <1>1, <1>3 DEF Store
    <3> QED  BY <2>5, <3>1, <3>2, <3>3 DEF Store
  <2>7. Grows
    <3>1. \A t \in Slots : Filled(t) => Filled(t)'
      BY <1>6, <2>3, <2>5 DEF Filled
    <3>2. \A t \in Slots : rows'[t] = {<<>>} => rows[t] = {<<>>} \/ t \notin Known
      BY <1>6, <2>3, <2>5
    <3> QED  BY <1>3, <3>1, <3>2 DEF Grows
  <2>8. Held(sess[p])'
    BY <1>14, <1>16, <2>1, <2>2, <2>7
  <2>9. Tends(p)
    <3>1. Claims(q, s) /\ Minds(q, s)
      BY <1>6, <1>14, <2>2 DEF Minds
    <3>2. ASSUME NEW t \in Slots \ parents', t # s, rows'[t] = {<<>>},
                 rows[t] # {<<>>} \/ (Claims(o, t) /\ Minds(o, t))
          PROVE  Claims(q, t) /\ Minds(q, t)
      <4>1. /\ Claims(o, t) /\ Minds(o, t) /\ Claims(r, t)
            /\ t # r.slot
        BY <1>3, <1>14, <2>3, <2>5, <3>2
      <4> QED  BY <1>7, <1>14, <2>2, <4>1 DEF Minds
    <3> QED  BY <2>1, <3>1, <3>2 DEF Tends, o
  <2> QED  BY <2>1, <2>2, <2>6, <2>7, <2>8, <2>9, Framed
<1> QED  BY <1>17, <1>18

\* A session ends: what it minded is nobody's to mind once it was cut short.
LEMMA EndKeeps ==
  ASSUME IInv, NEW p \in Procs, NEW c \in BOOLEAN, Becomes(p, Ended(sess[p], c)),
         Store', Grows,
         \A s \in Slots \ parents' : rows'[s] = {<<>>} =>
           /\ rows[s] = {<<>>}
           /\ Claims(sess[p], s) /\ Minds(sess[p], s) => ~(sess[p].clean /\ c)
  PROVE  IInv' /\ Grows
<1> DEFINE o == sess[p]
           q == Ended(o, c)
<1>1. o \in Session /\ Sound(p, o) /\ Knows(o) /\ Leaves(o) /\ Store
  BY KnownAre
<1>2. sess'[p] = q /\ sess' = [sess EXCEPT ![p] = sess'[p]]
  BY BecomesIs
<1> HIDE DEF o
<1>3. /\ q \in Session /\ Sound(p, q)
      /\ q.pc = "over" /\ q.saves = {} /\ q.moves = {} /\ q.wrote = o.wrote
      /\ q.moved = o.moved /\ (q.clean <=> o.clean /\ c)
  BY <1>1, EndedIs
<1> HIDE DEF q
<1>4. Knows(q) /\ Leaves(q) /\ Settles(q)
  BY <1>1, <1>3 DEF Knows, Leaves, Settles
<1>5. Held(sess[p])'
  BY <1>1, <1>2, <1>3, <1>4, HeldStays DEF Held
<1>6. Tends(p)
  BY <1>2, <1>3 DEF Tends, Minds, Claims, o
<1> QED  BY <1>2, <1>3, <1>5, <1>6, Framed

\* Quit: the last save is under way, or the slot is given back.
LEMMA QuitKeeps ==
  ASSUME IInv, NEW p \in Procs, Quit(p)
  PROVE  IInv' /\ Grows
<1> DEFINE o == sess[p]
<1>1. /\ o \in Session /\ Sound(p, o) /\ Knows(o) /\ Leaves(o) /\ o.pc = "live"
      /\ o.slot \in Slots /\ o.slot \in Known /\ Store
      /\ Cardinality(o.saves) < InFlight[p]
  BY KnownAre DEF Quit, Live, Room
<1>2. UNCHANGED <<minted, parents>>
  BY DEF Quit
<1>3. CASE o.conv # <<>>
  <2> DEFINE a == Autosave(o)
             q == [a EXCEPT !.pc = "quitting"]
  <2>1. Becomes(p, q) /\ rows' = rows
    BY <1>3 DEF Quit
  <2>2. sess'[p] = q /\ sess' = [sess EXCEPT ![p] = sess'[p]]
    BY <2>1, BecomesIs
  <2>3. Store' /\ Grows
    BY <1>1, <1>2, <2>1, StoreStays
  <2> HIDE DEF o
  <2>4. /\ a \in Session /\ Sound(p, a)
        /\ a.pc = o.pc /\ a.slot = o.slot /\ a.conv = o.conv /\ a.wrote = o.wrote
        /\ a.moves = o.moves /\ a.clean = o.clean /\ a.moved = o.moved
        /\ o.saves \subseteq a.saves
        /\ \A j \in a.saves : \/ j \in o.saves
                              \/ j.from = o.slot /\ j.to = o.slot /\ j.at = "save"
        /\ \E j \in a.saves : j.conv = o.conv /\ j.from = o.slot
    BY <1>1, <1>3, AutosaveIs
  <2> HIDE DEF a
  <2>5. /\ q \in Session /\ q.pc = "quitting" /\ q.slot = a.slot /\ q.conv = a.conv
        /\ q.saves = a.saves /\ q.moves = a.moves /\ q.clean = a.clean
        /\ q.moved = a.moved /\ q.wrote = a.wrote
    BY <2>4 DEF Session
  <2> HIDE DEF q
  <2>6. Sound(p, q) /\ \A t \in Slots : Claims(q, t) <=> Claims(a, t)
    BY <2>4, <2>5, AsSound
  <2>7. Knows(q) /\ Leaves(q) /\ Settles(q)
    BY <1>1, <2>4, <2>5 DEF Knows, Leaves, Settles, Claims
  <2>8. Held(sess[p])'
    BY <1>1, <2>2, <2>3, <2>5, <2>7, HeldStays DEF Held
  <2>9. Tends(p)
    BY <2>1, <2>2, <2>4, <2>5 DEF Tends, Claims, Minds, o
  <2> QED  BY <2>2, <2>3, <2>6, <2>8, <2>9, Framed
<1>4. CASE o.conv = <<>>
  <2>1. Becomes(p, Ended(o, o.saves = {})) /\ rows' = Released(o)
    BY <1>4 DEF Quit
  <2>2. /\ Store' /\ Grows
        /\ \A t \in Slots : rows'[t] = {<<>>} =>
             rows[t] = {<<>>} /\ ~(t = o.slot /\ Claims(o, t) /\ t \notin parents)
    BY <1>1, <1>2, <2>1, GivenBack
  <2>3. ASSUME NEW t \in Slots \ parents', rows'[t] = {<<>>}
        PROVE  /\ rows[t] = {<<>>}
               /\ Claims(o, t) /\ Minds(o, t) => ~(o.clean /\ o.saves = {})
    BY <1>2, <2>2, <2>3 DEF Minds
  <2> QED  BY <2>1, <2>2, <2>3, EndKeeps
<1> QED  BY <1>3, <1>4

\* Gone: what the session quit to save was saved, or could not be.
LEMMA GoneKeeps ==
  ASSUME IInv, NEW p \in Procs, Gone(p)
  PROVE  IInv' /\ Grows
<1> DEFINE o == sess[p]
<1>1. Store /\ Settles(o)
  BY KnownAre
<1>2. /\ UNCHANGED <<minted, rows, parents>> /\ o.pc = "quitting"
      /\ Becomes(p, Ended(o, o.saves = {}))
      /\ \A j \in o.saves : j.conv # o.conv
  BY DEF Gone
<1>3. Store' /\ Grows
  BY <1>1, <1>2, StoreStays
<1>4. ASSUME NEW t \in Slots \ parents', rows'[t] = {<<>>}
      PROVE  /\ rows[t] = {<<>>}
             /\ Claims(o, t) /\ Minds(o, t) => ~(o.clean /\ o.saves = {})
  BY <1>1, <1>2, <1>4 DEF Settles, Minds
<1> QED  BY <1>2, <1>3, <1>4, EndKeeps

\* Crash: the session is cut short.
LEMMA CrashKeeps ==
  ASSUME IInv, NEW p \in Procs, Crash(p)
  PROVE  IInv' /\ Grows
<1>1. Store /\ UNCHANGED <<minted, rows, parents>> /\ Becomes(p, Ended(sess[p], FALSE))
  BY KnownAre DEF Crash
<1>2. Store' /\ Grows
  BY <1>1, StoreStays
<1> QED  BY <1>1, <1>2, EndKeeps

\* A save that fails cuts its session short.
LEMMA SaveFailsKeeps ==
  ASSUME IInv, NEW p \in Procs, NEW j \in sess[p].saves, SaveFails(p, j),
         parents' = parents
  PROVE  IInv' /\ Grows
<1> DEFINE o == sess[p]
           u == Without(o, j)
           q == [u EXCEPT !.clean = FALSE]
<1>1. o \in Session /\ Sound(p, o) /\ Knows(o) /\ Leaves(o) /\ Store /\ j \in o.saves
  BY KnownAre
<1>2. /\ sess'[p] = q /\ sess' = [sess EXCEPT ![p] = sess'[p]]
      /\ UNCHANGED <<minted, rows, parents>>
  BY BecomesIs DEF SaveFails
<1>3. Store' /\ Grows
  BY <1>1, <1>2, StoreStays
<1> HIDE DEF o
<1>4. /\ u \in Session /\ Sound(p, u)
      /\ u.pc = o.pc /\ u.slot = o.slot /\ u.conv = o.conv /\ u.wrote = o.wrote
      /\ u.moves = o.moves /\ u.clean = o.clean /\ u.moved = o.moved
      /\ u.saves = o.saves \ {j}
  BY <1>1, WithoutIs
<1> HIDE DEF u
<1>5. /\ q \in Session /\ q.pc = u.pc /\ q.slot = u.slot /\ q.conv = u.conv
      /\ q.wrote = u.wrote /\ q.moves = u.moves /\ ~q.clean /\ q.moved = u.moved
      /\ q.saves = u.saves
  BY <1>4 DEF Session
<1> HIDE DEF q
<1>6. Sound(p, q)
  BY <1>4, <1>5 DEF Sound, Few, Marked, Idle, Bound
<1>7. Knows(q) /\ Leaves(q) /\ Settles(q)
  BY <1>1, <1>4, <1>5 DEF Knows, Leaves, Settles, Claims
<1>8. Held(sess[p])'
  BY <1>1, <1>2, <1>3, <1>5, <1>7, HeldStays DEF Held
<1>9. Tends(p)
  BY <1>2, <1>4, <1>5 DEF Tends, Claims, Minds, o
<1> QED  BY <1>2, <1>3, <1>6, <1>8, <1>9, Framed

\* What is left of a session's record when a save of c to slot s was taken.
LEMMA TakenIs ==
  ASSUME IInv, NEW p \in Procs, NEW j \in sess[p].saves, NEW s \in Slots, NEW q,
         Remembers(q, Without(sess[p], j), s, j.conv)
  PROVE  LET o == sess[p] IN
         /\ q \in Session /\ Sound(p, q)
         /\ q.pc = o.pc /\ q.slot = o.slot /\ q.conv = o.conv
         /\ q.moves = o.moves /\ q.clean = o.clean /\ q.moved = o.moved
         /\ q.saves = o.saves \ {j}
         /\ \A t \in Slots : Claims(q, t) <=> t # s /\ Claims(o, t)
<1> DEFINE o == sess[p]
           u == Without(o, j)
<1>1. /\ o \in Session /\ Sound(p, o) /\ j \in o.saves /\ o.pc # "off"
      /\ j.conv \in Seq(Message) /\ j.conv # Nothing
  BY KnownAre DEF Sound, Idle, Nothing
<1>2. Remembers(q, u, s, j.conv)
  OBVIOUS
<1> HIDE DEF o
<1>3. /\ u \in Session /\ Sound(p, u)
      /\ u.pc = o.pc /\ u.slot = o.slot /\ u.conv = o.conv /\ u.wrote = o.wrote
      /\ u.moves = o.moves /\ u.clean = o.clean /\ u.moved = o.moved
      /\ u.saves = o.saves \ {j}
  BY <1>1, WithoutIs
<1> HIDE DEF u
<1>4. /\ q \in Session /\ q.pc = u.pc /\ q.slot = u.slot /\ q.conv = u.conv
      /\ q.saves = u.saves /\ q.moves = u.moves /\ q.clean = u.clean
      /\ q.moved = u.moved
      /\ \A t \in Slots \ {s} : Claims(q, t) <=> Claims(u, t)
      /\ Claims(q, s) <=> j.conv = Nothing
  BY <1>1, <1>2, <1>3, RemembersIs
<1>5. Sound(p, q)
  <2>1. u.pc # "off"
    BY <1>1, <1>3
  <2> QED  BY <1>1, <1>2, <1>3, <2>1, RemembersSoundly
<1>6. \A t \in Slots : Claims(q, t) <=> t # s /\ Claims(o, t)
  BY <1>1, <1>3, <1>4 DEF Claims
<1> QED  BY <1>3, <1>4, <1>5, <1>6 DEF o

\* A save that lands fills its slot.
LEMMA SaveLandsKeeps ==
  ASSUME IInv, NEW p \in Procs, NEW j \in sess[p].saves, SaveLands(p, j),
         parents' = parents
  PROVE  IInv' /\ Grows
<1> DEFINE o == sess[p]
           q == [Without(o, j) EXCEPT !.wrote[j.from] = {Mark(j.conv)}]
<1>1. /\ o \in Session /\ Sound(p, o) /\ Knows(o) /\ Leaves(o) /\ Settles(o) /\ Store
      /\ j \in o.saves /\ j.from \in Slots /\ j.from \in Known
      /\ j.conv \in Seq(Message) /\ j.conv # <<>>
  BY KnownAre
<1>2. /\ sess'[p] = q /\ sess' = [sess EXCEPT ![p] = sess'[p]]
      /\ minted' = minted /\ rows' = Saved(o, j.from, j.conv) /\ j.at = "save"
  BY BecomesIs DEF SaveLands
<1>3. PICK d \in Seq(Message) : d # Nothing /\ rows' = [rows EXCEPT ![j.from] = {d}]
  <2>1. j.conv # Nothing
    BY <1>1 DEF Nothing
  <2>2. Fills(Saved(o, j.from, j.conv), j.from)
    BY <1>1, <2>1, SavedIs
  <2> QED  BY <1>2, <2>2 DEF Fills
<1>4. /\ Store' /\ Grows /\ Filled(j.from)'
      /\ \A t \in Slots : rows'[t] = {<<>>} => t # j.from /\ rows[t] = {<<>>}
  <2>1. j.from \in Known' /\ minted' \subseteq Names /\ parents' \subseteq Slots
    BY <1>1, <1>2 DEF Known, Store
  <2> QED  BY <1>1, <1>2, <1>3, <2>1, WrittenIs
<1>5. /\ q \in Session /\ Sound(p, q)
      /\ q.pc = o.pc /\ q.slot = o.slot /\ q.conv = o.conv
      /\ q.moves = o.moves /\ q.clean = o.clean /\ q.moved = o.moved
      /\ q.saves = o.saves \ {j}
      /\ \A t \in Slots : Claims(q, t) <=> t # j.from /\ Claims(o, t)
  <2>1. Remembers(q, Without(o, j), j.from, j.conv)
    BY DEF Remembers
  <2> HIDE DEF q
  <2> QED  BY <1>1, <2>1, TakenIs
<1>6. j.to = j.from
  BY <1>1, <1>2 DEF Sound, Bound
<1> HIDE DEF q, o
<1>7. Knows(q) /\ Leaves(q)
  <2>1. \A i \in q.saves : i.from \in Slots
    BY <1>5 DEF Session, Saves
  <2> QED  BY <1>1, <1>5, <2>1 DEF Knows, Leaves
<1>8. Settles(sess[p])'
  <2>1. ASSUME q.pc = "quitting", q.clean
        PROVE  \/ rows'[q.slot] # {<<>>} \/ q.slot \in parents' \/ ~Claims(q, q.slot)
               \/ \E i \in q.saves : i.conv = q.conv /\ i.from = q.slot
    <3>1. q.slot \in Slots
      BY <1>1, <1>5, <2>1 DEF Knows, Known, Store, Slots
    <3>2. CASE q.slot = j.from
      BY <1>4, <3>1, <3>2
    <3>3. CASE q.slot # j.from
      <4>1. \/ rows[q.slot] # {<<>>} \/ q.slot \in parents \/ ~Claims(o, q.slot)
            \/ \E i \in q.saves : i.conv = q.conv /\ i.from = q.slot
        BY <1>1, <1>5, <2>1, <3>3 DEF Settles
      <4> QED  BY <1>4, <1>5, <3>1, <4>1
    <3> QED  BY <3>2, <3>3
  <2> QED  BY <1>2, <2>1 DEF Settles, Claims
<1>9. Held(sess[p])'
  BY <1>1, <1>2, <1>4, <1>5, <1>7, <1>8, HeldStays DEF Held
<1>10. Tends(p)
  <2>1. ASSUME NEW t \in Slots, rows'[t] = {<<>>}, Claims(o, t), Minds(o, t)
        PROVE  Claims(q, t) /\ Minds(q, t)
    BY <1>4, <1>5, <1>6, <2>1 DEF Minds
  <2> QED  BY <1>2, <1>4, <2>1 DEF Tends, o
<1> QED  BY <1>2, <1>4, <1>5, <1>9, <1>10, Framed

\* A save that is refused found its slot filled, or did not claim it.
LEMMA SaveRefusedKeeps ==
  ASSUME IInv, NEW p \in Procs, NEW j \in sess[p].saves, SaveRefused(p, j),
         parents' = parents
  PROVE  IInv' /\ Grows
<1> DEFINE o == sess[p]
           i == [j EXCEPT !.at = "move"]
           u == Without(o, j)
           q == [u EXCEPT !.saves = u.saves \cup {i}]
<1>1. /\ o \in Session /\ Sound(p, o) /\ Knows(o) /\ Leaves(o) /\ Settles(o) /\ Store
      /\ j \in o.saves /\ j \in Saves /\ j.from \in Slots /\ j.from \in Known
      /\ j.conv \in Seq(Message) /\ j.conv # <<>>
  BY KnownAre
<1>2. /\ sess'[p] = q /\ sess' = [sess EXCEPT ![p] = sess'[p]]
      /\ UNCHANGED <<minted, rows, parents>> /\ j.at = "save" /\ Refused(o, j.from)
  BY BecomesIs DEF SaveRefused
<1>3. Store' /\ Grows
  BY <1>1, <1>2, StoreStays
<1>4. Filled(j.from) \/ ~Claims(o, j.from)
  <2>1. ASSUME Claims(o, j.from) PROVE Filled(j.from)
    <3>1. PICK m \in o.wrote[j.from] : rows[j.from] # {} /\ Len(Row(j.from)) - 1 # m.seq
      BY <1>2 DEF Refused
    <3>2. m = Mark(Nothing)
      BY <1>1, <2>1, <3>1 DEF Sound, Marked, Claims, Nothing
    <3>3. Mark(Nothing).seq = Len(Nothing) - 1
      BY MarkIs, EmptyConversation
    <3>4. Row(j.from) # Nothing /\ rows[j.from] = {Row(j.from)}
      BY <1>1, <3>1, <3>2, <3>3, RowIs
    <3> QED  BY <3>4 DEF Filled, Nothing
  <2> QED  BY <2>1
<1>5. j.to = j.from
  BY <1>1, <1>2 DEF Sound, Bound
<1>6. /\ i \in Saves /\ i.from = j.from /\ i.to = j.to /\ i.conv = j.conv /\ i.at = "move"
  BY <1>1 DEF Saves
<1> HIDE DEF i, o
<1>7. /\ u \in Session /\ Sound(p, u)
      /\ u.pc = o.pc /\ u.slot = o.slot /\ u.conv = o.conv /\ u.wrote = o.wrote
      /\ u.moves = o.moves /\ u.clean = o.clean /\ u.moved = o.moved
      /\ u.saves = o.saves \ {j}
  BY <1>1, WithoutIs
<1> HIDE DEF u
<1>8. /\ q \in Session /\ q.pc = o.pc /\ q.slot = o.slot /\ q.conv = o.conv
      /\ q.wrote = o.wrote /\ q.moves = o.moves /\ q.clean = o.clean
      /\ q.moved = o.moved /\ q.saves = (o.saves \ {j}) \cup {i}
  BY <1>6, <1>7 DEF Session
<1> HIDE DEF q
<1>9. Sound(p, q)
  <2>1. Few(p, q)
    <3>1. Few(p, o)
      BY <1>1 DEF Sound
    <3>2. /\ IsFiniteSet((o.saves \ {j}) \cup {i})
          /\ Cardinality((o.saves \ {j}) \cup {i}) <= InFlight[p]
      BY <1>1, <3>1, FewerSaves
    <3> QED  BY <1>8, <3>2 DEF Few
  <2>2. Marked(q) /\ Idle(q)
    BY <1>1, <1>8 DEF Sound, Marked, Idle
  <2>3. Bound(q)
    BY <1>1, <1>5, <1>6, <1>8 DEF Sound, Bound
  <2> QED  BY <1>8, <2>1, <2>2, <2>3 DEF Sound
<1>10. Knows(q) /\ Leaves(q) /\ Settles(q)
  <2>1. Knows(q)
    BY <1>1, <1>5, <1>6, <1>8 DEF Knows
  <2>2. Leaves(q)
    BY <1>1, <1>4, <1>6, <1>8 DEF Leaves, Claims
  <2>3. Settles(q)
    BY <1>1, <1>6, <1>8 DEF Settles, Claims
  <2> QED  BY <2>1, <2>2, <2>3
<1>11. Held(sess[p])'
  BY <1>1, <1>2, <1>3, <1>8, <1>10, HeldStays DEF Held
<1>12. Tends(p)
  BY <1>2, <1>5, <1>6, <1>8 DEF Tends, Claims, Minds, o
<1> QED  BY <1>2, <1>3, <1>9, <1>11, <1>12, Framed

\* A conversation that moves: where its slot went before, or to a slot claimed
\* now, which is on its way to be filled.
LEMMA MoveKeeps ==
  ASSUME IInv, NEW p \in Procs, NEW j \in sess[p].saves, Move(p, j), parents' = parents
  PROVE  IInv' /\ Grows
<1> DEFINE o == sess[p]
<1>1. /\ o \in Session /\ Sound(p, o) /\ Knows(o) /\ Leaves(o) /\ Settles(o) /\ Store
      /\ j \in o.saves /\ j \in Saves /\ j.from \in Slots /\ j.from \in Known
      /\ j.conv \in Seq(Message) /\ j.conv # <<>> /\ o.pc # "off" /\ j.at = "move"
      /\ Few(p, o)
  BY KnownAre DEF Sound, Idle, Move
<1>2. PICK s \in MoveTo(sess[p], j) :
        LET r == [sess[p] EXCEPT !.moved[j.from] = {s},
                    !.saves = (@ \ {j}) \cup {[j EXCEPT !.at = "again", !.to = s]}]
        IN  IF Unused(s) THEN /\ Becomes(p, Claimed(r, s))
                              /\ rows' = [rows EXCEPT ![s] = {<<>>}]
                              /\ minted' = minted \cup {s}
                         ELSE Becomes(p, r) /\ UNCHANGED <<minted, rows>>
  BY DEF Move
<1> DEFINE i == [j EXCEPT !.at = "again", !.to = s]
           m == [o.moved EXCEPT ![j.from] = {s}]
           r == [o EXCEPT !.moved[j.from] = {s}, !.saves = (o.saves \ {j}) \cup {i}]
           v == [o EXCEPT !.moved = m, !.saves = (o.saves \ {j}) \cup {i}]
<1>3. r = v
  BY <1>1 DEF Session
<1>4. Unused(s) => /\ Becomes(p, Claimed(r, s)) /\ rows' = [rows EXCEPT ![s] = {<<>>}]
                   /\ minted' = minted \cup {s}
  BY <1>2
<1>5. ~Unused(s) => Becomes(p, r) /\ UNCHANGED <<minted, rows>>
  BY <1>2
<1>6. s \in Names /\ s \in Slots /\ (~Unused(s) => s \in Known)
  <2>1. CASE o.moved[j.from] # {}
    BY <1>1, <1>2, <2>1 DEF MoveTo, Knows, Session, Slots
  <2>2. CASE o.moved[j.from] = {}
    BY <1>1, <1>2, <2>2 DEF MoveTo, Unused, Slots
  <2> QED  BY <2>1, <2>2
<1>7. /\ i \in Saves /\ i.from = j.from /\ i.to = s /\ i.conv = j.conv /\ i.at = "again"
  BY <1>1, <1>6 DEF Saves
<1>8. j.to = j.from
  BY <1>1 DEF Sound, Bound
<1>9. /\ m \in [Slots -> SUBSET Names] /\ m[j.from] = {s}
      /\ \A t \in Slots \ {j.from} : m[t] = o.moved[t]
  BY <1>1, <1>6 DEF Session
<1> HIDE DEF o, i, m, r
<1>10. /\ r \in Session /\ r.pc = o.pc /\ r.slot = o.slot /\ r.conv = o.conv
       /\ r.wrote = o.wrote /\ r.moves = o.moves /\ r.clean = o.clean
       /\ r.moved = m /\ r.saves = (o.saves \ {j}) \cup {i}
  BY <1>1, <1>3, <1>7, <1>9 DEF Session
<1>11. Sound(p, r) /\ \A t \in Slots : Claims(r, t) <=> Claims(o, t)
  <2>1. Few(p, r)
    <3>1. /\ IsFiniteSet((o.saves \ {j}) \cup {i})
          /\ Cardinality((o.saves \ {j}) \cup {i}) <= InFlight[p]
      BY <1>1, FewerSaves
    <3> QED  BY <1>10, <3>1 DEF Few
  <2>2. Marked(r) /\ Idle(r)
    BY <1>1, <1>10 DEF Sound, Marked, Idle
  <2>3. Bound(r)
    BY <1>1, <1>6, <1>7, <1>10 DEF Sound, Bound
  <2> QED  BY <1>10, <2>1, <2>2, <2>3 DEF Sound, Claims
\* In either case the session's record changes in this way.
<1>12. ASSUME NEW q \in Session, Sound(p, q), Store', Grows, s \in Known',
              sess'[p] = q, sess' = [sess EXCEPT ![p] = sess'[p]],
              q.pc = r.pc, q.slot = r.slot, q.conv = r.conv, q.moves = r.moves,
              q.clean = r.clean, q.moved = r.moved, q.saves = r.saves,
              \A t \in Slots \ {s} : rows'[t] = rows[t] /\ (Claims(q, t) <=> Claims(o, t)),
              \/ rows'[s] = rows[s] /\ (Claims(q, s) <=> Claims(o, s))
              \/ s \notin Known /\ Claims(q, s)
       PROVE  IInv' /\ Grows
  <2>1. Known \subseteq Known' /\ parents' = parents
    BY <1>12 DEF Grows, Known
  <2>2. \A t \in Slots : t \in Known =>
          rows'[t] = rows[t] /\ (Claims(q, t) <=> Claims(o, t))
    BY <1>12
  <2>3. Knows(sess[p])'
    <3>1. q.pc \in {"live", "quitting"} => q.slot \in Known'
      BY <1>1, <1>10, <1>12, <2>1 DEF Knows
    <3>2. \A t \in Slots : q.moved[t] \subseteq Known'
      BY <1>1, <1>9, <1>10, <1>12, <2>1 DEF Knows
    <3>3. \A k \in q.saves : {k.from, k.to} \subseteq Known'
      BY <1>1, <1>7, <1>10, <1>12, <2>1 DEF Knows
    <3>4. \A k \in q.moves : k.to \in Known'
      BY <1>1, <1>10, <1>12, <2>1 DEF Knows
    <3> QED  BY <1>12, <3>1, <3>2, <3>3, <3>4 DEF Knows
  <2>4. Leaves(sess[p])'
    <3>1. \A k \in q.moves : Filled(k.to)'
      <4>1. \A k \in q.moves : Filled(k.to) /\ k.to \in Slots
        BY <1>1, <1>10, <1>12 DEF Leaves, Session, Notes, Slots
      <4> QED  BY <1>12, <4>1 DEF Grows
    <3>2. ASSUME NEW k \in q.saves, k.at # "save"
          PROVE  Filled(k.from)' \/ ~Claims(q, k.from)
      <4>1. k.from \in Slots /\ k.from \in Known
        BY <1>1, <1>7, <1>10, <1>12 DEF Session, Saves, Knows
      <4>2. Filled(k.from) \/ ~Claims(o, k.from)
        BY <1>1, <1>7, <1>10, <1>12, <3>2 DEF Leaves
      <4> QED  BY <1>12, <2>2, <4>1, <4>2 DEF Grows
    <3> QED  BY <1>12, <3>1, <3>2 DEF Leaves, Claims
  <2>5. Settles(sess[p])'
    <3>1. ASSUME q.pc = "quitting", q.clean
          PROVE  \/ rows'[q.slot] # {<<>>} \/ q.slot \in parents' \/ ~Claims(q, q.slot)
                 \/ \E k \in q.saves : k.conv = q.conv /\ k.from = q.slot
      <4>1. q.slot \in Known /\ q.slot \in Slots
        BY <1>1, <1>10, <1>12, <3>1 DEF Knows, Known, Store, Slots
      <4>2. \/ rows[q.slot] # {<<>>} \/ q.slot \in parents \/ ~Claims(o, q.slot)
            \/ \E k \in o.saves : k.conv = q.conv /\ k.from = q.slot
        BY <1>1, <1>10, <1>12, <3>1 DEF Settles
      <4>3. ASSUME NEW k \in o.saves, k.conv = q.conv, k.from = q.slot
            PROVE  \E l \in q.saves : l.conv = q.conv /\ l.from = q.slot
        BY <1>7, <1>10, <1>12, <4>3
      <4> QED  BY <2>1, <2>2, <4>1, <4>2, <4>3
    <3> QED  BY <1>12, <3>1 DEF Settles, Claims
  <2>6. Held(sess[p])'
    BY <2>3, <2>4, <2>5 DEF Held
  <2>7. Tends(p)
    <3>1. ASSUME NEW t \in Slots, rows'[t] = {<<>>},
                 rows[t] # {<<>>} \/ (Claims(o, t) /\ Minds(o, t))
          PROVE  Claims(q, t) /\ Minds(q, t)
      <4>1. CASE Claims(q, t) /\ t = s
        <5>1. i \in q.saves /\ s = i.to
          BY <1>7, <1>10, <1>12
        <5> QED  BY <4>1, <5>1 DEF Minds
      <4>2. CASE ~(Claims(q, t) /\ t = s)
        <5>1. rows'[t] = rows[t] /\ (Claims(q, t) <=> Claims(o, t))
          BY <1>12, <4>2
        <5>2. Claims(o, t) /\ Minds(o, t)
          BY <3>1, <5>1
        <5>3. ASSUME NEW k \in o.saves, t = k.from \/ t = k.to
              PROVE  \E l \in q.saves : t = l.from \/ t = l.to
          BY <1>7, <1>8, <1>10, <1>12, <5>3
        <5> QED  BY <1>10, <1>12, <5>1, <5>2, <5>3 DEF Minds
      <4> QED  BY <4>1, <4>2
    <3> QED  BY <1>12, <3>1 DEF Tends, o
  <2> QED  BY <1>12, <2>6, <2>7, Framed
<1>13. CASE Unused(s)
  <2> DEFINE q == Claimed(r, s)
  <2>1. sess'[p] = q /\ sess' = [sess EXCEPT ![p] = sess'[p]]
    BY <1>4, <1>13, BecomesIs
  <2>2. Remembers(q, r, s, Nothing)
    BY DEF Claimed, Remembers, Nothing
  <2> HIDE DEF q
  <2>3. /\ q \in Session /\ q.pc = r.pc /\ q.slot = r.slot /\ q.conv = r.conv
        /\ q.saves = r.saves /\ q.moves = r.moves /\ q.clean = r.clean
        /\ q.moved = r.moved
        /\ \A t \in Slots \ {s} : Claims(q, t) <=> Claims(r, t)
        /\ Claims(q, s)
    BY <1>6, <1>10, <2>2, RemembersIs, EmptyConversation
  <2>4. Sound(p, q)
    <3>1. r.pc # "off"
      BY <1>1, <1>10
    <3> QED  BY <1>6, <1>10, <1>11, <2>2, <3>1, RemembersSoundly, EmptyConversation
  <2>5. /\ Store' /\ Grows
        /\ \A t \in Slots \ {s} : rows'[t] = rows[t]
    BY <1>1, <1>4, <1>13, ClaimedIs
  <2>6. s \notin Known /\ s \in Known'
    BY <1>1, <1>4, <1>13, UnusedIs DEF Known
  <2> QED  BY <1>11, <1>12, <2>1, <2>3, <2>4, <2>5, <2>6
<1>14. CASE ~Unused(s)
  <2>1. sess'[p] = r /\ sess' = [sess EXCEPT ![p] = sess'[p]]
    BY <1>5, <1>14, BecomesIs
  <2>2. Store' /\ Grows /\ rows' = rows /\ s \in Known'
    BY <1>1, <1>5, <1>6, <1>14, StoreStays DEF Known
  <2> QED  BY <1>6, <1>10, <1>11, <1>12, <2>1, <2>2
<1> QED  BY <1>13, <1>14

\* The second save of a conversation that moved fills the slot it went to.
LEMMA MoveLandsKeeps ==
  ASSUME IInv, NEW p \in Procs, NEW j \in sess[p].saves, MoveLands(p, j),
         parents' = parents
  PROVE  IInv' /\ Grows
<1> DEFINE o == sess[p]
           r == [Without(o, j) EXCEPT !.wrote[j.to] = {Mark(j.conv)}]
           n == [from |-> j.from, to |-> j.to]
           q1 == [r EXCEPT !.moves = r.moves \cup {n}]
           q2 == [r EXCEPT !.clean = FALSE]
<1>1. /\ o \in Session /\ Sound(p, o) /\ Knows(o) /\ Leaves(o) /\ Settles(o) /\ Store
      /\ j \in o.saves /\ j.from \in Slots /\ j.from \in Known
      /\ j.to \in Slots /\ j.to \in Known
      /\ j.conv \in Seq(Message) /\ j.conv # <<>> /\ j.at = "again"
  BY KnownAre DEF MoveLands
<1>2. /\ minted' = minted /\ rows' = Saved(o, j.to, j.conv)
      /\ Becomes(p, q1) \/ Becomes(p, q2)
  BY DEF MoveLands
<1>3. PICK q : sess'[p] = q /\ sess' = [sess EXCEPT ![p] = sess'[p]] /\ (q = q1 \/ q = q2)
  BY <1>2, BecomesIs
<1>4. PICK d \in Seq(Message) : d # Nothing /\ rows' = [rows EXCEPT ![j.to] = {d}]
  <2>1. j.conv # Nothing
    BY <1>1 DEF Nothing
  <2>2. Fills(Saved(o, j.to, j.conv), j.to)
    BY <1>1, <2>1, SavedIs
  <2> QED  BY <1>2, <2>2 DEF Fills
<1>5. /\ Store' /\ Grows /\ Filled(j.to)'
      /\ \A t \in Slots : rows'[t] = {<<>>} => t # j.to /\ rows[t] = {<<>>}
  <2>1. j.to \in Known' /\ minted' \subseteq Names /\ parents' \subseteq Slots
    BY <1>1, <1>2 DEF Known, Store
  <2> QED  BY <1>1, <1>2, <1>4, <2>1, WrittenIs
<1>6. /\ r \in Session /\ Sound(p, r)
      /\ r.pc = o.pc /\ r.slot = o.slot /\ r.conv = o.conv
      /\ r.moves = o.moves /\ r.clean = o.clean /\ r.moved = o.moved
      /\ r.saves = o.saves \ {j}
      /\ \A t \in Slots : Claims(r, t) <=> t # j.to /\ Claims(o, t)
  <2>1. Remembers(r, Without(o, j), j.to, j.conv)
    BY DEF Remembers
  <2> HIDE DEF r
  <2> QED  BY <1>1, <2>1, TakenIs
<1>7. Filled(j.from) \/ ~Claims(o, j.from)
  BY <1>1 DEF Leaves
<1>8. n \in Notes /\ n.to = j.to
  BY <1>1 DEF Notes, Sound, Bound
<1> HIDE DEF r, n, o
<1>9. /\ q \in Session /\ q.pc = r.pc /\ q.slot = r.slot /\ q.conv = r.conv
      /\ q.saves = r.saves /\ q.moved = r.moved /\ q.wrote = r.wrote
      /\ q.moves \subseteq r.moves \cup {n}
      /\ q.clean => r.clean
  <2>1. CASE q = q1
    BY <1>6, <1>8, <2>1 DEF Session
  <2>2. CASE q = q2
    BY <1>6, <2>2 DEF Session
  <2> QED  BY <1>3, <2>1, <2>2
<1> HIDE DEF q1, q2
<1>10. Sound(p, q) /\ \A t \in Slots : Claims(q, t) <=> t # j.to /\ Claims(o, t)
  BY <1>6, <1>9 DEF Sound, Few, Marked, Idle, Bound, Claims
<1>11. Knows(q)
  BY <1>1, <1>6, <1>8, <1>9 DEF Knows
<1>12. Knows(sess[p])'
  BY <1>1, <1>3, <1>5, <1>9, <1>11, HeldStays
<1>13. Leaves(sess[p])'
  <2>1. \A k \in q.moves : Filled(k.to)'
    <3>1. \A k \in o.moves : Filled(k.to) /\ k.to \in Slots
      BY <1>1 DEF Leaves, Session, Notes, Slots
    <3>2. \A k \in o.moves : Filled(k.to)'
      BY <1>5, <3>1 DEF Grows
    <3>3. ASSUME NEW k \in q.moves PROVE k \in o.moves \/ k = n
      BY <1>6, <1>9
    <3> QED  BY <1>5, <1>8, <3>2, <3>3
  <2>2. ASSUME NEW k \in q.saves, k.at # "save"
        PROVE  Filled(k.from)' \/ ~Claims(q, k.from)
    <3>1. k.from \in Slots /\ (Filled(k.from) \/ ~Claims(o, k.from))
      BY <1>1, <1>6, <1>9, <2>2 DEF Leaves, Session, Saves
    <3> QED  BY <1>5, <1>10, <3>1 DEF Grows
  <2> QED  BY <1>3, <2>1, <2>2 DEF Leaves, Claims
<1>14. Settles(sess[p])'
  <2>1. ASSUME q.pc = "quitting", q.clean
        PROVE  \/ rows'[q.slot] # {<<>>} \/ q.slot \in parents' \/ ~Claims(q, q.slot)
               \/ \E i \in q.saves : i.conv = q.conv /\ i.from = q.slot
    <3>1. q.slot \in Slots /\ o.pc = "quitting" /\ o.clean /\ q.slot = o.slot
      BY <1>1, <1>6, <1>9, <2>1 DEF Knows, Known, Store, Slots
    <3>2. \/ rows[q.slot] # {<<>>} \/ q.slot \in parents \/ ~Claims(o, q.slot)
          \/ \E i \in o.saves : i.conv = q.conv /\ i.from = q.slot
      BY <1>1, <1>6, <1>9, <3>1 DEF Settles
    <3>3. CASE q.slot = j.from
      BY <1>5, <1>7, <1>10, <3>1, <3>3 DEF Filled
    <3>4. CASE q.slot # j.from
      BY <1>5, <1>6, <1>9, <1>10, <3>1, <3>2, <3>4
    <3> QED  BY <3>3, <3>4
  <2> QED  BY <1>3, <2>1 DEF Settles, Claims
<1>15. Tends(p)
  <2>1. ASSUME NEW t \in Slots, rows'[t] = {<<>>}, Claims(o, t), Minds(o, t)
        PROVE  Claims(q, t) /\ Minds(q, t)
    <3>1. t # j.to /\ t # j.from /\ Claims(q, t)
      BY <1>5, <1>7, <1>10, <2>1 DEF Filled
    <3> QED  BY <1>6, <1>9, <2>1, <3>1 DEF Minds
  <2> QED  BY <1>3, <1>5, <2>1 DEF Tends, o
<1> QED  BY <1>3, <1>5, <1>10, <1>12, <1>13, <1>14, <1>15, Framed DEF Held

-----------------------------------------------------------------------------
(***************************************************************************)
(* The theorems.                                                           *)
(***************************************************************************)
\* Nothing is claimed, and nothing read, when nobody has started.
LEMMA Start0 == Init => IInv /\ Opened
<1> SUFFICES ASSUME Init PROVE IInv /\ Opened
  OBVIOUS
<1>1. Store
  <2>1. rows = [s \in Slots |-> {}] /\ parents = {} /\ minted = {}
    BY DEF Init
  <2> QED  BY <2>1 DEF Store
<1>2. \A p \in Procs : sess[p] = Off /\ Sound(p, sess[p])
  BY OffIs DEF Init
<1>3. \A p \in Procs : Held(sess[p])
  BY <1>2, OffIs DEF Held, Knows, Leaves, Settles
<1>4. sess \in [Procs -> Session]
  BY OffIs DEF Init
<1>5. Minded
  BY DEF Init, Minded
<1>6. Opened
  BY DEF Init, Opened
<1> QED  BY <1>1, <1>2, <1>3, <1>4, <1>5, <1>6 DEF IInv, Sessions

\* A save is nothing to how far its session is.
LEMMA SavesGoOn ==
  ASSUME IInv, NEW p \in Procs, SaveSteps(p)
  PROVE  sess'[p].pc = sess[p].pc /\ sess'[p].switches = sess[p].switches
<1> DEFINE o == sess[p]
<1>1. o \in Session /\ sess \in [Procs -> Session]
  BY KnownAre DEF IInv, Sessions
<1>2. PICK j \in o.saves :
        \/ SaveLands(p, j) \/ SaveRefused(p, j) \/ Move(p, j)
        \/ MoveLands(p, j) \/ SaveFails(p, j)
  BY DEF SaveSteps
<1>3. CASE SaveLands(p, j)
  BY <1>1, <1>3 DEF SaveLands, Becomes, Without, Session
<1>4. CASE SaveRefused(p, j)
  BY <1>1, <1>4 DEF SaveRefused, Becomes, Without, Session
<1>5. CASE Move(p, j)
  <2>1. PICK t \in Names :
          LET r == [o EXCEPT !.moved[j.from] = {t},
                      !.saves = (@ \ {j}) \cup {[j EXCEPT !.at = "again", !.to = t]}]
          IN  Becomes(p, Claimed(r, t)) \/ Becomes(p, r)
    BY <1>1, <1>5 DEF Move, MoveTo, Session, Saves
  <2> DEFINE r == [o EXCEPT !.moved[j.from] = {t},
                     !.saves = (@ \ {j}) \cup {[j EXCEPT !.at = "again", !.to = t]}]
  <2>2. sess'[p] = Claimed(r, t) \/ sess'[p] = r
    BY <1>1, <2>1 DEF Becomes
  <2> HIDE DEF o
  <2>3. r.pc = o.pc /\ r.switches = o.switches /\ DOMAIN r = DOMAIN o
    BY <1>1 DEF Session
  <2> HIDE DEF r
  <2> QED  BY <1>1, <2>2, <2>3 DEF Claimed, Session, o
<1>6. CASE MoveLands(p, j)
  <2> DEFINE v == [Without(o, j) EXCEPT !.wrote[j.to] = {Mark(j.conv)}]
  <2>1. \/ sess'[p] = [v EXCEPT !.moves = @ \cup {[from |-> j.from, to |-> j.to]}]
        \/ sess'[p] = [v EXCEPT !.clean = FALSE]
    BY <1>1, <1>6 DEF MoveLands, Becomes
  <2> HIDE DEF o
  <2>2. v.pc = o.pc /\ v.switches = o.switches /\ DOMAIN v = DOMAIN o
    BY <1>1 DEF Without, Session
  <2> HIDE DEF v
  <2> QED  BY <1>1, <2>1, <2>2 DEF Session, o
<1>7. CASE SaveFails(p, j)
  BY <1>1, <1>7 DEF SaveFails, Becomes, Without, Session
<1> QED  BY <1>2, <1>3, <1>4, <1>5, <1>6, <1>7

\* A step of a session is none of another's.
LEMMA OneSteps ==
  ASSUME IInv, NEW p \in Procs,
         \/ Start(p) \/ Say(p) \/ Rewind(p) \/ Load(p) \/ New(p) \/ Note(p)
         \/ Quit(p) \/ Gone(p) \/ Crash(p) \/ SaveSteps(p)
  PROVE  \A q \in Procs \ {p} : sess'[q] = sess[q]
<1>1. \E r : Becomes(p, r)
  <2>1. CASE Start(p) \/ Say(p) \/ Rewind(p) \/ New(p)
    BY <2>1 DEF Start, Say, Rewind, New
  <2>2. CASE Load(p) \/ Note(p)
    BY <2>2 DEF Load, Note, Adopt
  <2>3. CASE Quit(p) \/ Gone(p) \/ Crash(p)
    BY <2>3 DEF Quit, Gone, Crash
  <2>4. CASE SaveSteps(p)
    BY <2>4 DEF SaveSteps, SaveLands, SaveRefused, Move, MoveLands, SaveFails
  <2> QED  BY <2>1, <2>2, <2>3, <2>4
<1> QED  BY <1>1 DEF Becomes, IInv, Sessions

\* A session that does anything but save or read a chat has none read.
LEMMA NoneRead ==
  ASSUME Opened, NEW p \in Procs,
         \/ Start(p) \/ Say(p) \/ Rewind(p) \/ Load(p) \/ New(p) \/ Note(p)
         \/ Quit(p) \/ Gone(p) \/ Crash(p) \/ SaveSteps(p)
  PROVE  /\ read' \in [Procs -> SUBSET [slot : Slots, conv : Seq(Message)]]
         /\ \A q \in Procs : read'[q] \subseteq read[q]
         /\ read'[p] = {} \/ SaveSteps(p)
<1>1. read' = read \/ read' = [read EXCEPT ![p] = {}]
  BY DEF Start, Say, Rewind, Load, New, Note, Quit, Gone, Crash, SaveSteps
<1>2. /\ read' \in [Procs -> SUBSET [slot : Slots, conv : Seq(Message)]]
      /\ \A q \in Procs : read'[q] \subseteq read[q]
  BY <1>1 DEF Opened
<1>3. CASE Start(p) \/ Gone(p)
  <2>1. sess[p].pc # "live"
    BY <1>3 DEF Start, Gone
  <2> QED  BY <1>2, <2>1 DEF Opened
<1>4. CASE Say(p) \/ Rewind(p) \/ New(p) \/ Note(p) \/ Quit(p)
  BY <1>2, <1>4 DEF Say, Rewind, New, Note, Quit, Live
<1>5. CASE Load(p) \/ Crash(p)
  BY <1>2, <1>5 DEF Load, Crash, Opened
<1> QED  BY <1>2, <1>3, <1>4, <1>5

\* What was read stays so while nothing else is.
LEMMA OpenedStays ==
  ASSUME IInv, Opened, Grows, NEW p \in Procs,
         \/ Start(p) \/ Say(p) \/ Rewind(p) \/ Load(p) \/ New(p) \/ Note(p)
         \/ Quit(p) \/ Gone(p) \/ Crash(p) \/ SaveSteps(p)
  PROVE  Opened'
<1>1. /\ read' \in [Procs -> SUBSET [slot : Slots, conv : Seq(Message)]]
      /\ \A q \in Procs : read'[q] \subseteq read[q]
  BY NoneRead
<1>2. ASSUME NEW q \in Procs, NEW x \in read'[q]
      PROVE  /\ x.conv # Nothing /\ Filled(x.slot)'
             /\ sess'[q].pc = "live" /\ sess'[q].switches < Switches
  <2>1. x \in read[q] /\ x.slot \in Slots
    BY <1>1, <1>2 DEF Opened
  <2>2. x.conv # Nothing /\ Filled(x.slot)'
    BY <2>1 DEF Opened, Grows
  <2>3. sess'[q].pc = sess[q].pc /\ sess'[q].switches = sess[q].switches
    BY <1>2, NoneRead, OneSteps, SavesGoOn
  <2> QED  BY <2>1, <2>2, <2>3 DEF Opened
<1> QED  BY <1>1, <1>2 DEF Opened

\* LoadChat reads a row with something in it.
LEMMA LoadChatOpens ==
  ASSUME IInv, Opened, NEW p \in Procs, NEW s \in Slots, LoadChat(p, s)
  PROVE  IInv' /\ Opened'
<1>1. UNCHANGED <<minted, rows, parents, sess>> /\ rows[s] # {} /\ rows[s] # {<<>>}
  BY DEF LoadChat
<1>2. IInv' /\ Store
  BY <1>1, SameKeeps DEF IInv
<1> DEFINE c == Row(s)
           x == [slot |-> s, conv |-> c]
<1>3. c \in Seq(Message) /\ c # Nothing /\ Filled(s)
  BY <1>1, <1>2, RowIs DEF Filled, Store, Nothing
<1>4. read' = [read EXCEPT ![p] = {x}]
  BY DEF LoadChat
<1> HIDE DEF c
<1>5. x \in [slot : Slots, conv : Seq(Message)] /\ x.conv # Nothing /\ x.slot = s
  BY <1>3
<1> HIDE DEF x
<1>6. /\ read' \in [Procs -> SUBSET [slot : Slots, conv : Seq(Message)]]
      /\ read'[p] = {x} /\ \A q \in Procs \ {p} : read'[q] = read[q]
  BY <1>4, <1>5 DEF Opened
<1>7. /\ \A t : Filled(t) => Filled(t)'
      /\ sess' = sess /\ sess[p].pc = "live" /\ sess[p].switches < Switches
  BY <1>1 DEF Filled, LoadChat, Live
<1>8. ASSUME NEW q \in Procs
      PROVE  /\ \A y, z \in read'[q] : y = z
             /\ \A y \in read'[q] :
                  /\ y.conv # Nothing /\ Filled(y.slot)'
                  /\ sess'[q].pc = "live" /\ sess'[q].switches < Switches
  <2>1. CASE q = p
    BY <1>3, <1>5, <1>6, <1>7, <2>1
  <2>2. CASE q # p
    BY <1>6, <1>7, <2>2 DEF Opened
  <2> QED  BY <2>1, <2>2
<1>9. Opened'
  BY <1>6, <1>8 DEF Opened
<1> QED  BY <1>2, <1>9

\* A step that reads no chat keeps the invariant and empties no row.
LEMMA StepKeeps ==
  ASSUME IInv, Opened, NEW p \in Procs,
         \/ Start(p) \/ Say(p) \/ Rewind(p) \/ Load(p) \/ New(p) \/ Note(p)
         \/ Quit(p) \/ Gone(p) \/ Crash(p) \/ SaveSteps(p)
  PROVE  IInv' /\ Grows
<1>1. CASE SaveSteps(p)
  <2>1. PICK j \in sess[p].saves :
          \/ SaveLands(p, j) \/ SaveRefused(p, j) \/ Move(p, j)
          \/ MoveLands(p, j) \/ SaveFails(p, j)
    BY <1>1 DEF SaveSteps
  <2>2. parents' = parents
    BY <1>1 DEF SaveSteps
  <2> QED  BY <2>1, <2>2, SaveLandsKeeps, SaveRefusedKeeps, MoveKeeps, MoveLandsKeeps,
              SaveFailsKeeps
<1> QED  BY <1>1, StartKeeps, SayKeeps, RewindKeeps, NewKeeps, NoteKeeps,
            QuitKeeps, GoneKeeps, CrashKeeps, LoadKeeps

\* Each operation of each session keeps the invariant.
LEMMA NextKeeps == IInv /\ Opened /\ [Next]_vars => IInv' /\ Opened'
<1> SUFFICES ASSUME IInv, Opened, [Next]_vars PROVE IInv' /\ Opened'
  OBVIOUS
<1>1. CASE UNCHANGED vars
  <2>1. IInv' /\ read' = read /\ sess' = sess /\ rows' = rows
    BY <1>1, SameKeeps DEF vars
  <2> QED  BY <2>1 DEF Opened, Filled
<1>2. CASE Next
  <2>1. PICK p \in Procs :
          \/ Start(p) \/ Say(p) \/ Rewind(p) \/ Load(p) \/ New(p) \/ Note(p)
          \/ Quit(p) \/ Gone(p) \/ Crash(p) \/ SaveSteps(p)
          \/ \E s \in Slots : LoadChat(p, s)
    BY <1>2 DEF Next
  <2>2. CASE \E s \in Slots : LoadChat(p, s)
    BY <2>2, LoadChatOpens
  <2>3. CASE ~\E s \in Slots : LoadChat(p, s)
    BY <2>1, <2>3, StepKeeps, OpenedStays
  <2> QED  BY <2>2, <2>3
<1> QED  BY <1>1, <1>2

\* The invariant holds of every state of the program.
THEOREM Invariance == Spec => [](IInv /\ Opened)
<1>1. Init => IInv /\ Opened
  BY Start0
<1>2. IInv /\ Opened /\ [Next]_vars => (IInv /\ Opened)'
  BY NextKeeps
<1> QED  BY <1>1, <1>2, PTL DEF Spec

\* A set whose elements are one and the same has no more than one.
LEMMA OneAtMost ==
  ASSUME NEW S, \A x, y \in S : x = y
  PROVE  Cardinality(S) <= 1
<1>1. CASE S = {}
  BY <1>1, FS_EmptySet
<1>2. CASE S # {}
  <2>1. PICK x \in S : TRUE
    BY <1>2
  <2>2. S = {x}
    BY <2>1
  <2> QED  BY <2>2, FS_Singleton
<1> QED  BY <1>1, <1>2

\* The variables keep their types: a slot has one row and a session one mark of
\* it at most, the number in a mark is its conversation's last, and no more saves
\* are under way than may be.
THEOREM TypeCorrect == Spec => []TypeOK
<1>1. IInv /\ Opened => TypeOK
  <2> SUFFICES ASSUME IInv, Opened PROVE TypeOK
    OBVIOUS
  <2>1. \A s \in Slots : Cardinality(rows[s]) <= 1 /\ rows[s] \subseteq Seq(Message)
    BY OneAtMost DEF IInv, Store
  <2>2. parents \subseteq Slots /\ minted \subseteq Names
    BY DEF IInv, Store
  <2>3. ASSUME NEW p \in Procs
        PROVE  LET r == sess[p] IN
               /\ r.pc \in {"off", "live", "quitting", "over"}
               /\ r.slot \in Slots \cup {NoSlot} /\ r.conv \in Seq(Message)
               /\ r.said \in 0..Turns /\ r.switches \in 0..Switches /\ r.clean \in BOOLEAN
               /\ \A s \in Slots : /\ Cardinality(r.wrote[s]) <= 1
                                   /\ r.moved[s] \subseteq Names
                                   /\ \A w \in r.wrote[s] : w.digest \in Seq(Message)
                                                            /\ w.seq = Len(w.digest) - 1
               /\ Cardinality(r.saves) <= InFlight[p]
               /\ r.moves \subseteq [from : Slots, to : Names]
    <3> DEFINE r == sess[p]
    <3>1. r \in Session /\ Few(p, r) /\ Marked(r)
      BY KnownAre DEF Sound
    <3> HIDE DEF r
    <3>2. ASSUME NEW s \in Slots
          PROVE  /\ Cardinality(r.wrote[s]) <= 1 /\ r.moved[s] \subseteq Names
                 /\ \A w \in r.wrote[s] : w.digest \in Seq(Message)
                                          /\ w.seq = Len(w.digest) - 1
      <4>1. Cardinality(r.wrote[s]) <= 1
        BY <3>1, OneAtMost DEF Marked
      <4>2. ASSUME NEW w \in r.wrote[s]
            PROVE  w.digest \in Seq(Message) /\ w.seq = Len(w.digest) - 1
        <5>1. w \in Marks /\ w = Mark(w.digest)
          BY <3>1 DEF Session, Marked
        <5> QED  BY <5>1, MarkIs DEF Marks
      <4> QED  BY <3>1, <4>1, <4>2 DEF Session
    <3>3. /\ r.pc \in {"off", "live", "quitting", "over"}
          /\ r.slot \in Slots \cup {NoSlot} /\ r.conv \in Seq(Message)
          /\ r.said \in 0..Turns /\ r.switches \in 0..Switches /\ r.clean \in BOOLEAN
          /\ r.moves \subseteq [from : Slots, to : Names]
      BY <3>1 DEF Session, Notes
    <3> QED  BY <3>1, <3>2, <3>3 DEF Few, r
  <2>4. \A p \in Procs : /\ Cardinality(read[p]) <= 1
                         /\ read[p] \subseteq [slot : Slots, conv : Seq(Message)]
    BY OneAtMost DEF Opened
  <2> QED  BY <2>1, <2>2, <2>3, <2>4 DEF TypeOK
<1> QED  BY <1>1, Invariance, PTL

\* A claimed row with nothing in it is somebody's slot, has a save on its way or a
\* branch hanging off it, or was left by a session cut short: no other way of
\* leaving a slot strands its claim.
THEOREM ClaimsAreMinded == Spec => []NoStrayClaims
<1>1. IInv => NoStrayClaims
  <2> SUFFICES ASSUME IInv, NEW s \in Slots \ parents, rows[s] = {<<>>}
               PROVE  \E p \in Procs :
                        \/ /\ Mark(<<>>) \in sess[p].wrote[s]
                           /\ sess[p].slot = s \/ ~sess[p].clean
                        \/ \E j \in sess[p].saves : s \in {j.from, j.to}
    BY DEF NoStrayClaims
  <2>1. PICK p \in Procs : Claims(sess[p], s) /\ Minds(sess[p], s)
    BY DEF IInv, Minded
  <2> QED  BY <2>1 DEF Claims, Minds
<1> QED  BY <1>1, Invariance, PTL

-----------------------------------------------------------------------------
(***************************************************************************)
(* Conversations that begin alike.                                         *)
(***************************************************************************)

\* How a conversation begins, message by message.
LEMMA PrefixIs ==
  ASSUME NEW c \in Seq(Message), NEW d \in Seq(Message)
  PROVE  IsPrefix(c, d) <=> Len(c) <= Len(d) /\ \A i \in 1..Len(c) : c[i] = d[i]
<1>1. Len(c) \in Nat /\ Len(d) \in Nat
  BY LenProperties
<1>2. \A i \in 1..Len(c) : c[i] \in Message
  BY ElementOfSeq
<1>3. SubSeq(c, 1, Len(c)) = c
  BY SubSeqFull
<1>4. ASSUME Len(c) <= Len(d)
      PROVE  /\ SubSeq(d, 1, Len(c)) \in Seq(Message)
             /\ Len(SubSeq(d, 1, Len(c))) = Len(c)
             /\ \A i \in 1..Len(c) : SubSeq(d, 1, Len(c))[i] = d[i]
  <2>1. \A i \in 1..Len(c) : d[i] \in Message
    BY <1>1, <1>4, ElementOfSeq
  <2> QED  BY <1>1, <1>4, <2>1, SubSeqProperties
<1>5. ASSUME Len(c) <= Len(d), \A i \in 1..Len(c) : c[i] = d[i]
      PROVE  IsPrefix(c, d)
  <2>1. SubSeq(d, 1, Len(c)) = c
    BY <1>4, <1>5, SeqEqual
  <2> QED  BY <1>3, <1>5, <2>1 DEF IsPrefix
<1>6. ASSUME IsPrefix(c, d)
      PROVE  Len(c) <= Len(d) /\ \A i \in 1..Len(c) : c[i] = d[i]
  BY <1>3, <1>4, <1>6 DEF IsPrefix
<1> QED  BY <1>5, <1>6

\* The order of conversations.
LEMMA PrefixOrder ==
  ASSUME NEW c \in Seq(Message), NEW d \in Seq(Message), IsPrefix(c, d)
  PROVE  /\ \A e \in Seq(Message) : IsPrefix(d, e) => IsPrefix(c, e)
         /\ Len(c) = Len(d) => c = d
         /\ d = Nothing => c = Nothing
         /\ ToSet(c) \subseteq ToSet(d)
<1>1. /\ Len(c) \in Nat /\ Len(d) \in Nat /\ Len(c) <= Len(d)
      /\ \A i \in 1..Len(c) : c[i] = d[i]
  BY PrefixIs, LenProperties
<1>2. ASSUME NEW e \in Seq(Message), IsPrefix(d, e) PROVE IsPrefix(c, e)
  <2>1. /\ Len(e) \in Nat /\ Len(d) <= Len(e) /\ \A i \in 1..Len(d) : d[i] = e[i]
    BY <1>2, PrefixIs, LenProperties
  <2> QED  BY <1>1, <2>1, PrefixIs
<1>3. Len(c) = Len(d) => c = d
  BY <1>1, SeqEqual
<1>4. d = Nothing => c = Nothing
  <2>1. Len(d) = 0 <=> d = <<>>
    BY EmptySeq
  <2>2. Len(c) = 0 <=> c = <<>>
    BY EmptySeq
  <2> QED  BY <1>1, <2>1, <2>2 DEF Nothing
<1>5. ToSet(c) \subseteq ToSet(d)
  <2>1. DOMAIN c = 1..Len(c) /\ DOMAIN d = 1..Len(d)
    BY LenProperties
  <2> QED  BY <1>1, <2>1 DEF ToSet
<1> QED  BY <1>2, <1>3, <1>4, <1>5

\* Every conversation begins as itself, and with nothing.
LEMMA PrefixEnds ==
  ASSUME NEW c \in Seq(Message)
  PROVE  IsPrefix(c, c) /\ IsPrefix(Nothing, c) /\ ToSet(Nothing) = {}
<1>1. Len(c) \in Nat
  BY LenProperties
<1>2. IsPrefix(c, c)
  BY <1>1, PrefixIs
<1>3. Nothing \in Seq(Message) /\ Len(Nothing) = 0 /\ DOMAIN Nothing = {}
  BY EmptyConversation, EmptySeq DEF Nothing
<1>4. IsPrefix(Nothing, c)
  <2>1. Len(Nothing) <= Len(c) /\ \A i \in 1..Len(Nothing) : Nothing[i] = c[i]
    BY <1>1, <1>3
  <2> HIDE DEF Nothing
  <2> QED  BY <1>3, <2>1, PrefixIs
<1> QED  BY <1>2, <1>3, <1>4 DEF ToSet

\* A conversation goes on with a message.
LEMMA PrefixSaid ==
  ASSUME NEW c \in Seq(Message), NEW m \in Message
  PROVE  /\ Append(c, m) \in Seq(Message) /\ IsPrefix(c, Append(c, m))
         /\ Append(c, m) # Nothing
         /\ ToSet(Append(c, m)) = ToSet(c) \cup {m}
<1> DEFINE d == Append(c, m)
<1>1. /\ d \in Seq(Message) /\ Len(c) \in Nat /\ Len(d) = Len(c) + 1
      /\ \A i \in 1..Len(c) : d[i] = c[i]
      /\ d[Len(c) + 1] = m
  BY AppendProperties, LenProperties
<1>2. IsPrefix(c, d)
  <2> HIDE DEF d
  <2>1. Len(c) <= Len(d) /\ \A i \in 1..Len(c) : c[i] = d[i]
    BY <1>1
  <2> QED  BY <1>1, <2>1, PrefixIs
<1>3. d # Nothing
  BY <1>1, EmptySeq DEF Nothing
<1>4. DOMAIN c = 1..Len(c) /\ DOMAIN d = 1..Len(c) + 1
  BY <1>1, LenProperties
<1>5. ToSet(d) = ToSet(c) \cup {m}
  <2>1. 1..Len(c) + 1 = 1..Len(c) \cup {Len(c) + 1}
    BY <1>1
  <2> QED  BY <1>1, <1>4, <2>1 DEF ToSet
<1> QED  BY <1>1, <1>2, <1>3, <1>5

\* A conversation is its first messages and the rest.
LEMMA PrefixAndRest ==
  ASSUME NEW c \in Seq(Message), NEW n \in 0..Len(c)
  PROVE  SubSeq(c, 1, n) \o SubSeq(c, n + 1, Len(c)) = c
<1>1. Len(c) \in Nat /\ 1 \in 1..Len(c) + 1 /\ n \in 1 - 1..Len(c) /\ Len(c) \in n..Len(c)
  BY LenProperties
<1>2. SubSeq(c, 1, n) \o SubSeq(c, n + 1, Len(c)) = SubSeq(c, 1, Len(c))
  BY <1>1, ConcatAdjacentSubSeq
<1> QED  BY <1>2, SubSeqFull

-----------------------------------------------------------------------------
(***************************************************************************)
(* Where sessions save one at a time and open nothing they lost, what they *)
(* remember of a row is how it begins, and rows only grow.                 *)
(***************************************************************************)

\* What the theorems below are about: nobody cuts a conversation, and a save is
\* over before the next is begun.
OneByOne == Rewinders = {} /\ \A p \in Procs : InFlight[p] = 1

Here(r) == r.pc \in {"live", "quitting"}

\* What a session remembers of a slot is how the conversation begins.
Behind(r, s, c) == \A w \in r.wrote[s] : IsPrefix(w.digest, c)

\* A save of the conversation to the slot, if it is not refused, goes on from
\* the row there.
Goes(R, r, s, c) == Behind(r, s, c) /\ (r.wrote[s] # {} \/ R[s] \subseteq {Nothing})

\* What is remembered of a slot is how its row begins; a claim of it is
\* remembered while nothing is in it.
Fits(R, r, s) ==
  /\ \A c \in R[s] : Behind(r, s, c)
  /\ R[s] = {} => Behind(r, s, Nothing)
  /\ Claims(r, s) => R[s] \subseteq {Nothing}

\* A save of a session: where it is from, and where a conversation from there
\* was moved, it goes on; and the session has not fallen behind it.
Lands(R, r, j) ==
  /\ Goes(R, r, j.from, j.conv)
  /\ \A t \in r.moved[j.from] : Goes(R, r, t, j.conv) /\ r.moved[t] = {}
  /\ Here(r) /\ r.slot \in {j.from} \cup r.moved[j.from] => IsPrefix(j.conv, r.conv)
  /\ j.at = "again" => j.to \in r.moved[j.from]

\* The session's own conversation goes on from its slot, and from where it was
\* moved, which nothing was moved from.
Stands(R, r) == Here(r) =>
  /\ Goes(R, r, r.slot, r.conv)
  /\ \A t \in r.moved[r.slot] :
       Goes(R, r, t, r.conv) /\ r.moved[t] = {} /\ \A j \in r.saves : j.from # t

\* A slot's conversation was moved to one slot, and that slot's was another's.
Follows(r) ==
  /\ \A s, t \in Slots : \A a \in r.moved[s], b \in r.moved[t] : s = t <=> a = b
  /\ \A m \in r.moves : m.to \in r.moved[m.from]

Own(R, r) ==
  /\ \A i, j \in r.saves : i = j
  /\ \A j \in r.saves : Lands(R, r, j)
  /\ Stands(R, r) /\ Follows(r)
  /\ r.pc = "off" => r = Off

\* The slots a session may write to, and those it remembers besides.
Places(r, s) ==
  \/ Here(r) /\ r.slot = s
  \/ \E j \in r.saves : s = j.from \/ s = j.to
  \/ \E t \in Slots : s \in r.moved[t]

Uses(r, s) == r.wrote[s] # {} \/ Places(r, s)

Orderly ==
  /\ \A p \in Procs, s \in Slots : Fits(rows, sess[p], s)
  /\ \A p \in Procs : Own(rows, sess[p])
  /\ \A p \in Procs, s \in Slots : Uses(sess[p], s) \/ sess[p].moved[s] # {} => s \in Known
  /\ \A p, q \in Procs, s \in Slots :
       p # q /\ Uses(sess[p], s) /\ Uses(sess[q], s) => Filled(s)

\* A chat that was read goes on from what its session remembers of the slot, and
\* begins what is there; and the session has not lost the slot, nor a save on the
\* way to it.
Ready == \A p \in Procs : \A x \in read[p] :
  /\ sess[p].moved[x.slot] = {}
  /\ \A j \in sess[p].saves : j.from # x.slot /\ x.slot \notin sess[p].moved[j.from]
  /\ Behind(sess[p], x.slot, x.conv)
  /\ \A d \in rows[x.slot] : IsPrefix(x.conv, d)

\* What a step of p does with a slot: nothing; it claims it; writes to it what
\* the row there is the beginning of; remembers what was read of it; or gives it
\* back.
Spares(p, s) == rows'[s] = rows[s] /\ sess'[p].wrote[s] = sess[p].wrote[s]

Claiming(p, s) ==
  /\ s \notin Known /\ rows'[s] = {Nothing} /\ sess'[p].wrote[s] = {Mark(Nothing)}

Writing(p, s, j) ==
  /\ s = j.from \/ (j.at = "again" /\ s = j.to)
  /\ \A b \in rows[s] : IsPrefix(b, j.conv)
  /\ rows'[s] = {j.conv} /\ sess'[p].wrote[s] = {Mark(j.conv)}

Reading(p, s) == Filled(s) /\ rows'[s] = rows[s] /\ \E c \in Seq(Message) :
  /\ c # Nothing /\ Behind(sess[p], s, c) /\ IsPrefix(c, Row(s))
  /\ sess'[p].wrote[s] = {Mark(c)}

Leaving(p, s) ==
  /\ Claims(sess[p], s)
  /\ sess'[p].wrote[s] = {} \/ sess'[p].wrote[s] = sess[p].wrote[s]
  /\ rows'[s] = rows[s] \/ (rows[s] = {Nothing} /\ rows'[s] = {})

Touches(p, s) ==
  \/ Spares(p, s) \/ Claiming(p, s) \/ (\E j \in sess[p].saves : Writing(p, s, j))
  \/ Reading(p, s) \/ Leaving(p, s)

\* A step of p, as the others see it.
Steps(p) ==
  /\ \A q \in Procs \ {p} : sess'[q] = sess[q]
  /\ \A s \in Slots : Touches(p, s)
  /\ \A s \in Slots : Places(sess'[p], s) => Uses(sess[p], s) \/ Filled(s) \/ s \notin Known
  /\ \A s \in Slots : sess'[p].moved[s] # {} => sess[p].moved[s] # {} \/ Uses(sess[p], s)
  /\ minted \subseteq minted'

\* What the marks of a session are.
LEMMA MarksAre ==
  ASSUME IInv, NEW p \in Procs, NEW s \in Slots
  PROVE  /\ \A w \in sess[p].wrote[s] : w.digest \in Seq(Message) /\ w = Mark(w.digest)
         /\ \A v, w \in sess[p].wrote[s] : v = w
         /\ rows[s] \subseteq Seq(Message) /\ \A c, d \in rows[s] : c = d
         /\ Claims(sess[p], s) => sess[p].wrote[s] = {Mark(Nothing)}
         /\ s \notin Known => rows[s] = {}
         /\ Filled(s) => /\ Row(s) \in Seq(Message) /\ Row(s) # Nothing
                         /\ rows[s] = {Row(s)}
<1>1. /\ sess[p] \in Session /\ Marked(sess[p]) /\ Store
  BY KnownAre DEF Sound
<1>2. \A w \in sess[p].wrote[s] : w \in Marks /\ w = Mark(w.digest)
  BY <1>1 DEF Session, Marked
<1>3. \A v, w \in sess[p].wrote[s] : v = w
  BY <1>1 DEF Marked
<1>4. /\ rows[s] \subseteq Seq(Message) /\ (s \notin Known => rows[s] = {})
      /\ \A c, d \in rows[s] : c = d
  BY <1>1 DEF Store
<1>5. Filled(s) => /\ Row(s) \in Seq(Message) /\ Row(s) # Nothing
                   /\ rows[s] = {Row(s)}
  BY <1>1, RowIs DEF Filled, Nothing
<1>6. Claims(sess[p], s) => sess[p].wrote[s] = {Mark(Nothing)}
  BY <1>3 DEF Claims, Nothing
<1> QED  BY <1>2, <1>3, <1>4, <1>5, <1>6 DEF Marks

\* The mark of a conversation names it, and no claim but that of an empty one.
LEMMA MarkNames ==
  ASSUME NEW c \in Seq(Message), NEW r, NEW s, r.wrote[s] = {Mark(c)}
  PROVE  /\ \A d : Behind(r, s, d) <=> IsPrefix(c, d)
         /\ Claims(r, s) <=> c = Nothing
<1>1. Mark(c).digest = c /\ (Mark(c) = Mark(Nothing) <=> c = Nothing)
  BY MarkIs DEF Nothing
<1> QED  BY <1>1 DEF Behind, Claims, Nothing

\* In a slot that p does one of these with, what anybody remembers fits, the row
\* stays filled, and what was in it begins the row that is there.
LEMMA TurnFits ==
  ASSUME IInv, Orderly, NEW p \in Procs, NEW s \in Slots, Touches(p, s)
  PROVE  /\ Fits(rows', sess'[p], s)
         /\ \A q \in Procs \ {p} : sess'[q] = sess[q] => Fits(rows', sess'[q], s)
         /\ Filled(s) => Filled(s)'
         /\ \A c \in rows[s] : c = Nothing \/ \E d \in rows'[s] : IsPrefix(c, d)
<1>1. \A q \in Procs :
        /\ Fits(rows, sess[q], s)
        /\ \A w \in sess[q].wrote[s] : w.digest \in Seq(Message) /\ w = Mark(w.digest)
        /\ Claims(sess[q], s) => sess[q].wrote[s] = {Mark(Nothing)}
  BY MarksAre DEF Orderly
<1>2. /\ rows[s] \subseteq Seq(Message) /\ (s \notin Known => rows[s] = {})
      /\ \A c, d \in rows[s] : c = d
      /\ Filled(s) => /\ Row(s) \in Seq(Message) /\ Row(s) # Nothing
                      /\ rows[s] = {Row(s)}
  BY MarksAre
<1>3. \A q \in Procs : s \notin Known => sess[q].wrote[s] = {}
  BY DEF Orderly, Uses
<1>4. /\ \A c \in Seq(Message) : IsPrefix(c, c) /\ IsPrefix(Nothing, c)
      /\ Nothing \in Seq(Message)
  BY PrefixEnds, EmptyConversation
<1>5. CASE Spares(p, s)
  BY <1>1, <1>2, <1>4, <1>5 DEF Spares, Fits, Filled, Behind, Claims
<1>6. CASE Claiming(p, s)
  <2>1. /\ rows[s] = {} /\ rows'[s] = {Nothing}
        /\ \A q \in Procs : sess[q].wrote[s] = {}
    BY <1>2, <1>3, <1>6 DEF Claiming
  <2>2. Behind(sess'[p], s, Nothing)
    BY <1>4, <1>6, MarkNames DEF Claiming
  <2>3. Fits(rows', sess'[p], s)
    BY <2>1, <2>2 DEF Fits
  <2>4. \A q \in Procs : Fits(rows', sess[q], s)
    BY <2>1 DEF Fits, Behind
  <2> QED  BY <2>1, <2>3, <2>4 DEF Filled
<1>7. ASSUME NEW j \in sess[p].saves, Writing(p, s, j)
      PROVE  /\ Fits(rows', sess'[p], s)
             /\ \A q \in Procs \ {p} : Fits(rows', sess[q], s)
             /\ Filled(s)'
             /\ \A b \in rows[s] : \E c \in rows'[s] : IsPrefix(b, c)
  <2> DEFINE c == j.conv
  <2>1. /\ c # Nothing /\ Uses(sess[p], s) /\ \A b \in rows[s] : IsPrefix(b, c)
        /\ rows'[s] = {c} /\ sess'[p].wrote[s] = {Mark(c)} /\ c \in Seq(Message)
    BY <1>7, KnownAre DEF Writing, Uses, Places, Nothing
  <2> HIDE DEF c
  <2>2. Fits(rows', sess'[p], s)
    <3>1. Behind(sess'[p], s, c) /\ ~Claims(sess'[p], s)
      BY <1>4, <2>1, MarkNames
    <3> QED  BY <2>1, <3>1 DEF Fits
  <2>3. ASSUME NEW q \in Procs \ {p} PROVE Fits(rows', sess[q], s)
    <3>1. Behind(sess[q], s, c)
      <4>1. ASSUME NEW w \in sess[q].wrote[s] PROVE IsPrefix(w.digest, c)
        <5>1. PICK b \in Seq(Message) : IsPrefix(w.digest, b) /\ IsPrefix(b, c)
          <6>1. CASE rows[s] = {}
            BY <1>1, <1>4, <2>1, <4>1, <6>1 DEF Fits, Behind
          <6>2. CASE rows[s] # {}
            BY <1>1, <1>2, <2>1, <4>1, <6>2 DEF Fits, Behind
          <6> QED  BY <6>1, <6>2
        <5>2. w.digest \in Seq(Message)
          BY <1>1, <4>1
        <5> QED  BY <2>1, <5>1, <5>2, PrefixOrder
      <4> QED  BY <4>1 DEF Behind
    <3>2. ~Claims(sess[q], s)
      <4>1. ASSUME Claims(sess[q], s) PROVE FALSE
        <5>1. Uses(sess[q], s) /\ rows[s] \subseteq {Nothing}
          BY <1>1, <4>1 DEF Uses, Claims, Fits
        <5>2. Filled(s)
          BY <2>1, <5>1 DEF Orderly
        <5> QED  BY <5>1, <5>2 DEF Filled, Nothing
      <4> QED  BY <4>1
    <3> QED  BY <2>1, <3>1, <3>2 DEF Fits
  <2>4. Filled(s)' /\ \A b \in rows[s] : \E d \in rows'[s] : IsPrefix(b, d)
    BY <2>1 DEF Filled, Nothing
  <2> QED  BY <2>2, <2>3, <2>4
<1>8. CASE Reading(p, s)
  <2>0. PICK c \in Seq(Message) : /\ c # Nothing /\ IsPrefix(c, Row(s))
                                  /\ sess'[p].wrote[s] = {Mark(c)}
    BY <1>8 DEF Reading
  <2>1. /\ Filled(s) /\ rows'[s] = rows[s] /\ rows[s] = {Row(s)}
        /\ Row(s) \in Seq(Message) /\ Row(s) # Nothing
    BY <1>2, <1>8 DEF Reading
  <2>2. Behind(sess'[p], s, Row(s)) /\ ~Claims(sess'[p], s)
    BY <1>4, <2>0, <2>1, MarkNames
  <2>3. Fits(rows', sess'[p], s)
    BY <2>1, <2>2 DEF Fits
  <2>4. \A q \in Procs : Fits(rows', sess[q], s)
    BY <1>1, <2>1 DEF Fits
  <2>5. Filled(s)'
    BY <2>1 DEF Filled
  <2> QED  BY <1>4, <2>1, <2>3, <2>4, <2>5
<1>9. CASE Leaving(p, s)
  <2>1. /\ Claims(sess[p], s) /\ rows[s] \subseteq {Nothing}
        /\ rows'[s] \subseteq rows[s]
    BY <1>1, <1>9 DEF Leaving, Fits
  <2>2. ASSUME NEW q \in Procs, NEW r,
               r.wrote[s] = {} \/ r.wrote[s] = sess[q].wrote[s]
        PROVE  Fits(rows', r, s)
    <3>1. Behind(sess[q], s, Nothing)
      BY <1>1, <2>1 DEF Fits
    <3>2. Behind(r, s, Nothing)
      BY <2>2, <3>1 DEF Behind
    <3> QED  BY <2>1, <3>2 DEF Fits
  <2>3. Fits(rows', sess'[p], s)
    BY <1>9, <2>2 DEF Leaving
  <2>4. \A q \in Procs : Fits(rows', sess[q], s)
    BY <2>2
  <2>5. ~Filled(s)
    BY <2>1 DEF Filled, Nothing
  <2> QED  BY <2>1, <2>3, <2>4, <2>5
<1> QED  BY <1>5, <1>6, <1>7, <1>8, <1>9 DEF Touches

\* What goes on from a row that another session writes to, or gives back, goes on
\* from it after that.
LEMMA GoesOn ==
  ASSUME IInv, Orderly, NEW p \in Procs, NEW q \in Procs \ {p}, Steps(p),
         NEW s \in Slots, Uses(sess[q], s), NEW c, Goes(rows, sess[q], s, c)
  PROVE  Goes(rows', sess[q], s, c)
<1>1. Behind(sess[q], s, c)
  BY DEF Goes
<1>2. CASE sess[q].wrote[s] # {}
  BY <1>1, <1>2 DEF Goes
<1>3. CASE sess[q].wrote[s] = {}
  <2>1. rows[s] \subseteq {Nothing} /\ ~Filled(s)
    BY <1>3 DEF Goes, Filled, Nothing
  <2>2. ~Uses(sess[p], s) /\ s \in Known
    BY <2>1 DEF Orderly
  <2>3. rows'[s] \subseteq {Nothing}
    <3>1. Touches(p, s)
      BY DEF Steps
    <3>2. \A j \in sess[p].saves : ~Writing(p, s, j)
      BY <2>2 DEF Writing, Uses, Places
    <3>3. ~Claiming(p, s) /\ ~Reading(p, s)
      BY <2>1, <2>2 DEF Claiming, Reading
    <3>4. CASE Spares(p, s)
      BY <2>1, <3>4 DEF Spares
    <3>5. CASE Leaving(p, s)
      BY <2>1, <3>5 DEF Leaving
    <3> QED  BY <3>1, <3>2, <3>3, <3>4, <3>5 DEF Touches
  <2> QED  BY <1>1, <2>3 DEF Goes
<1> QED  BY <1>2, <1>3

\* So the other sessions' own part is left alone.
LEMMA OthersOwn ==
  ASSUME IInv, Orderly, NEW p \in Procs, NEW q \in Procs \ {p}, Steps(p)
  PROVE  Own(rows', sess[q])
<1> DEFINE r == sess[q]
<1>1. r \in Session /\ Own(rows, r)
  BY KnownAre DEF Orderly
<1>2. \A s \in Slots : \A c : Uses(r, s) /\ Goes(rows, r, s, c) => Goes(rows', r, s, c)
  BY GoesOn
<1>3. /\ \A j \in r.saves : j.from \in Slots
      /\ \A s \in Slots : r.moved[s] \subseteq Slots
      /\ Here(r) => r.slot \in Slots
  BY KnownAre DEF Here, Session, Slots
<1> HIDE DEF r
<1>4. ASSUME NEW j \in r.saves PROVE Lands(rows', r, j)
  <2>1. Lands(rows, r, j) /\ j.from \in Slots /\ Uses(r, j.from)
    BY <1>1, <1>3 DEF Own, Uses, Places
  <2>2. \A t \in r.moved[j.from] : t \in Slots /\ Uses(r, t)
    BY <1>3, <2>1 DEF Uses, Places
  <2> QED  BY <1>2, <2>1, <2>2 DEF Lands
<1>5. Stands(rows', r)
  <2>1. ASSUME Here(r)
        PROVE  /\ Goes(rows', r, r.slot, r.conv)
               /\ \A t \in r.moved[r.slot] : Goes(rows', r, t, r.conv)
    <3>1. r.slot \in Slots /\ Uses(r, r.slot)
      BY <1>3, <2>1 DEF Uses, Places
    <3>2. \A t \in r.moved[r.slot] : t \in Slots /\ Uses(r, t)
      BY <1>3, <3>1 DEF Uses, Places
    <3> QED  BY <1>1, <1>2, <2>1, <3>1, <3>2 DEF Own, Stands
  <2> QED  BY <1>1, <2>1 DEF Own, Stands
<1>6. Own(rows', r)
  BY <1>1, <1>4, <1>5 DEF Own
<1> QED  BY <1>6 DEF r

\* A step of p keeps the sessions orderly where it keeps p's own part.
LEMMA Stepped ==
  ASSUME IInv, IInv', Orderly, NEW p \in Procs, Steps(p), Own(rows', sess'[p])
  PROVE  Orderly'
<1>1. \A q \in Procs \ {p} : sess'[q] = sess[q]
  BY DEF Steps
<1>2. ASSUME NEW s \in Slots
      PROVE  /\ \A q \in Procs : Fits(rows', sess'[q], s)
             /\ Filled(s) => Filled(s)'
  <2>1. Touches(p, s)
    BY DEF Steps
  <2>2. /\ Fits(rows', sess'[p], s)
        /\ \A q \in Procs \ {p} : sess'[q] = sess[q] => Fits(rows', sess'[q], s)
        /\ Filled(s) => Filled(s)'
    BY <2>1, TurnFits
  <2> QED  BY <1>1, <2>2
<1>3. \A q \in Procs : Own(rows', sess'[q])
  BY <1>1, OthersOwn
<1>0. ASSUME NEW s \in Slots, Uses(sess'[p], s)
      PROVE  Uses(sess[p], s) \/ Filled(s) \/ s \notin Known
  <2>1. CASE Places(sess'[p], s)
    BY <2>1 DEF Steps
  <2>2. CASE sess'[p].wrote[s] # {}
    <3>1. Touches(p, s)
      BY DEF Steps
    <3>2. \A j \in sess[p].saves : Writing(p, s, j) => Uses(sess[p], s)
      BY DEF Writing, Uses, Places
    <3>3. Claims(sess[p], s) => Uses(sess[p], s)
      BY DEF Claims, Uses
    <3> QED  BY <2>2, <3>1, <3>2, <3>3
              DEF Touches, Spares, Claiming, Reading, Leaving, Uses
  <2> QED  BY <1>0, <2>1, <2>2 DEF Uses
<1>4. ASSUME NEW q \in Procs, NEW s \in Slots, Uses(sess'[q], s) \/ sess'[q].moved[s] # {}
      PROVE  s \in Known'
  <2>1. CASE q = p
    <3>1. Known \subseteq Known' /\ (Filled(s) => s \in Known)
      BY DEF Steps, Known, IInv, Store, Filled
    <3>2. sess'[p].moved[s] # {} => s \in Known
      BY DEF Steps, Orderly
    <3>3. ASSUME sess'[p].wrote[s] # {} PROVE s \in Known'
      <4>1. Touches(p, s) /\ (sess[p].wrote[s] # {} => s \in Known)
        BY DEF Steps, Orderly, Uses
      <4>2. rows'[s] # {} => s \in Known'
        BY DEF IInv, Store
      <4>3. Claims(sess[p], s) => sess[p].wrote[s] # {}
        BY DEF Claims
      <4> QED  BY <3>1, <3>3, <4>1, <4>2, <4>3
                DEF Touches, Spares, Claiming, Writing, Reading, Leaving
    <3>4. ASSUME Places(sess'[p], s) PROVE s \in Known'
      <4>1. Knows(sess[p])'
        BY DEF IInv, Sessions, Held
      <4> QED  BY <3>4, <4>1 DEF Knows, Places, Here
    <3> QED  BY <1>4, <2>1, <3>1, <3>2, <3>3, <3>4 DEF Uses
  <2>2. CASE q # p
    <3>1. s \in Known
      BY <1>1, <1>4, <2>2 DEF Orderly
    <3> QED  BY <3>1 DEF Steps, Known
  <2> QED  BY <2>1, <2>2
<1>5. ASSUME NEW q \in Procs, NEW r \in Procs, NEW s \in Slots, q # r,
             Uses(sess'[q], s), Uses(sess'[r], s)
      PROVE  Filled(s)'
  <2>1. ASSUME NEW x \in Procs \ {p}, Uses(sess'[p], s), Uses(sess'[x], s)
        PROVE  Filled(s)
    <3>1. Uses(sess[x], s)
      BY <1>1, <2>1
    <3>2. s \in Known
      BY <3>1 DEF Orderly
    <3>3. Uses(sess[p], s) \/ Filled(s)
      BY <1>0, <2>1, <3>2
    <3> QED  BY <3>1, <3>3 DEF Orderly
  <2>2. Filled(s)
    <3>1. CASE q = p
      BY <1>5, <2>1, <3>1
    <3>2. CASE r = p
      BY <1>5, <2>1, <3>2
    <3>3. CASE q # p /\ r # p
      BY <1>1, <1>5, <3>3 DEF Orderly
    <3> QED  BY <3>1, <3>2, <3>3
  <2> QED  BY <1>2, <2>2
<1> QED  BY <1>2, <1>3, <1>4, <1>5 DEF Orderly

-----------------------------------------------------------------------------
(***************************************************************************)
(* Who has a message, and where it is.                                     *)
(***************************************************************************)
Has(r, m) == m \in ToSet(r.conv) \/ \E j \in r.saves : m \in ToSet(j.conv)

Stores(R, s, m) == \E c \in R[s] : m \in ToSet(c)

Reads(r, m) == \E s \in Slots : \E w \in r.wrote[s] : m \in ToSet(w.digest)

\* The slots a session's message is in or on its way to, and those that what is
\* there was moved to.
Near(R, r, m, s) ==
  \/ Stores(R, s, m)
  \/ Here(r) /\ r.slot = s /\ m \in ToSet(r.conv)
  \/ \E j \in r.saves : m \in ToSet(j.conv) /\ (s = j.from \/ (j.at = "again" /\ s = j.to))

Reaches(R, r, m, s) ==
  Near(R, r, m, s) \/ \E t \in Slots : Near(R, r, m, t) /\ s \in r.moved[t]

\* One of them at most is not lost.
Home(R, r, m) == \A s, t \in Slots :
  Reaches(R, r, m, s) /\ Reaches(R, r, m, t) /\ r.moved[s] = {} /\ r.moved[t] = {} => s = t

\* A message is anywhere once it is said; a session has another's where it
\* remembers to have read it; and one nobody else has read is at home.
Told ==
  /\ \A m \in Message :
       (\E s \in Slots : Stores(rows, s, m)) \/ (\E q \in Procs : Has(sess[q], m))
         => m[2] <= sess[m[1]].said
  /\ \A q \in Procs, m \in Message : m[1] # q /\ Has(sess[q], m) => Reads(sess[q], m)
  /\ \A m \in Message :
       (\A q \in Procs \ {m[1]} : ~Reads(sess[q], m)) => Home(rows, sess[m[1]], m)

\* What p says in a step, and what is so of the messages it has.
Says(p, m) == m = <<p, sess[p].said + 1>> /\ sess'[p].said = sess[p].said + 1

Tells(p) ==
  /\ sess'[p].said = sess[p].said \/ sess'[p].said = sess[p].said + 1
  /\ \A m \in Message : Has(sess'[p], m) =>
       \/ Has(sess[p], m) \/ Says(p, m)
       \/ Reads(sess'[p], m) /\ \E s \in Slots : Stores(rows, s, m)
  /\ \A m \in Message : /\ m[1] = p /\ Home(rows, sess[p], m)
                        /\ Says(p, m) => \A s \in Slots : ~Near(rows, sess[p], m, s)
                        => Home(rows', sess'[p], m)

\* What p read it has read; and what is in a row was there or is p's to write.
LEMMA TouchTells ==
  ASSUME IInv, Orderly, NEW p \in Procs, NEW s \in Slots, Touches(p, s)
  PROVE  /\ \A m : (\E w \in sess[p].wrote[s] : m \in ToSet(w.digest)) =>
                      \E w \in sess'[p].wrote[s] : m \in ToSet(w.digest)
         /\ \A m : Stores(rows', s, m) =>
              \/ Stores(rows, s, m)
              \/ Near(rows, sess[p], m, s) /\ Has(sess[p], m)
<1>1. /\ \A w \in sess[p].wrote[s] : w.digest \in Seq(Message) /\ w = Mark(w.digest)
      /\ Claims(sess[p], s) => sess[p].wrote[s] = {Mark(Nothing)}
      /\ rows[s] \subseteq Seq(Message) /\ Fits(rows, sess[p], s)
      /\ Filled(s) => /\ Row(s) \in Seq(Message) /\ rows[s] = {Row(s)}
      /\ s \notin Known => sess[p].wrote[s] = {}
  BY MarksAre DEF Orderly, Uses
<1>2. ToSet(Nothing) = {} /\ Nothing \in Seq(Message)
  BY PrefixEnds, EmptyConversation
<1>3. \A c \in Seq(Message) : Mark(c).digest = c
  BY MarkIs
<1>4. \A c, d \in Seq(Message) : IsPrefix(c, d) => ToSet(c) \subseteq ToSet(d)
  BY PrefixOrder
<1>5. CASE Spares(p, s)
  BY <1>5 DEF Spares, Stores
<1>6. CASE Claiming(p, s)
  BY <1>1, <1>2, <1>6 DEF Claiming, Stores
<1>7. ASSUME NEW j \in sess[p].saves, Writing(p, s, j)
      PROVE  /\ \A m : (\E w \in sess[p].wrote[s] : m \in ToSet(w.digest)) =>
                          \E w \in sess'[p].wrote[s] : m \in ToSet(w.digest)
             /\ \A m : Stores(rows', s, m) =>
                         Near(rows, sess[p], m, s) /\ Has(sess[p], m)
  <2>1. /\ j.conv \in Seq(Message) /\ \A b \in rows[s] : IsPrefix(b, j.conv)
        /\ rows'[s] = {j.conv} /\ sess'[p].wrote[s] = {Mark(j.conv)}
        /\ s = j.from \/ (j.at = "again" /\ s = j.to)
    BY <1>7, KnownAre DEF Writing
  <2>2. \A m : Stores(rows', s, m) => Near(rows, sess[p], m, s) /\ Has(sess[p], m)
    BY <2>1 DEF Stores, Near, Has
  <2>3. ASSUME NEW m, NEW w \in sess[p].wrote[s], m \in ToSet(w.digest)
        PROVE  m \in ToSet(j.conv)
    <3>1. CASE rows[s] = {}
      <4>1. IsPrefix(w.digest, Nothing)
        BY <1>1, <2>3, <3>1 DEF Fits, Behind
      <4> QED  BY <1>1, <1>2, <1>4, <2>3, <4>1
    <3>2. CASE rows[s] # {}
      <4>1. PICK b \in rows[s] : IsPrefix(w.digest, b) /\ b \in Seq(Message)
        BY <1>1, <2>3, <3>2 DEF Fits, Behind
      <4> QED  BY <1>1, <1>4, <2>1, <2>3, <4>1
    <3> QED  BY <3>1, <3>2
  <2> QED  BY <1>3, <2>1, <2>2, <2>3
<1>8. CASE Reading(p, s)
  <2>1. PICK c \in Seq(Message) : /\ Behind(sess[p], s, c)
                                  /\ sess'[p].wrote[s] = {Mark(c)}
    BY <1>8 DEF Reading
  <2>2. \A w \in sess[p].wrote[s] : IsPrefix(w.digest, c)
    BY <2>1 DEF Behind
  <2> QED  BY <1>1, <1>3, <1>4, <1>8, <2>1, <2>2 DEF Stores, Reading
<1>9. CASE Leaving(p, s)
  <2>1. \A w \in sess[p].wrote[s] : ToSet(w.digest) = {}
    BY <1>1, <1>2, <1>3, <1>9 DEF Leaving
  <2> QED  BY <1>9, <2>1 DEF Leaving, Stores
<1> QED  BY <1>5, <1>6, <1>7, <1>8, <1>9 DEF Touches

\* A step of p keeps what is so of messages where it keeps p's part of it.
LEMMA ToldStepped ==
  ASSUME IInv, Orderly, Told, NEW p \in Procs, Steps(p), Tells(p)
  PROVE  Told'
<1>1. \A q \in Procs \ {p} : sess'[q] = sess[q]
  BY DEF Steps
<1>2. \A s \in Slots : Touches(p, s)
  BY DEF Steps
<1>3. \A q \in Procs, m \in Message : Reads(sess[q], m) => Reads(sess'[q], m)
  <2>1. \A m \in Message : Reads(sess[p], m) => Reads(sess'[p], m)
    BY <1>2, TouchTells DEF Reads
  <2> QED  BY <1>1, <2>1
<1>4. \A m \in Message, s \in Slots : Stores(rows', s, m) =>
        Stores(rows, s, m) \/ (Near(rows, sess[p], m, s) /\ Has(sess[p], m))
  BY <1>2, TouchTells
<1>5. ASSUME NEW m \in Message PROVE sess[m[1]].said <= sess'[m[1]].said
  <2>1. m[1] \in Procs /\ sess[m[1]].said \in Nat
    BY KnownAre DEF Message, Session
  <2>2. CASE m[1] = p
    BY <2>1, <2>2 DEF Tells
  <2>3. CASE m[1] # p
    BY <1>1, <2>1, <2>3
  <2> QED  BY <2>2, <2>3
<1>6. ASSUME NEW m \in Message,
             \/ \E s \in Slots : Stores(rows', s, m)
             \/ \E q \in Procs : Has(sess'[q], m)
      PROVE  m[2] <= sess'[m[1]].said
  <2>1. /\ m[1] \in Procs /\ m[2] \in Nat
        /\ sess[m[1]].said \in Nat /\ sess'[m[1]].said \in Int
    <3>1. m[1] \in Procs /\ m[2] \in Nat /\ sess[m[1]].said \in Nat /\ sess[p].said \in Nat
      BY KnownAre DEF Message, Session
    <3>2. sess'[m[1]].said \in Int
      BY <1>1, <3>1 DEF Tells
    <3> QED  BY <3>1, <3>2
  <2>2. CASE \/ \E s \in Slots : Stores(rows, s, m)
             \/ \E q \in Procs : Has(sess[q], m)
    <3>1. m[2] <= sess[m[1]].said
      BY <2>2 DEF Told
    <3> QED  BY <1>5, <2>1, <3>1
  <2>3. CASE Says(p, m)
    <3>1. m[1] = p /\ m[2] = sess'[p].said
      BY <2>3 DEF Says
    <3> QED  BY <2>1, <3>1
  <2>4. CASE ~Says(p, m) /\ ~(\/ \E s \in Slots : Stores(rows, s, m)
                              \/ \E q \in Procs : Has(sess[q], m))
    <3>1. ~ \E s \in Slots : Stores(rows', s, m)
      BY <1>4, <2>4
    <3>2. ~ \E q \in Procs : Has(sess'[q], m)
      BY <1>1, <2>4 DEF Tells
    <3> QED  BY <1>6, <3>1, <3>2
  <2> QED  BY <2>2, <2>3, <2>4
<1>7. ASSUME NEW q \in Procs, NEW m \in Message, m[1] # q, Has(sess'[q], m)
      PROVE  Reads(sess'[q], m)
  <2>1. CASE q # p
    BY <1>1, <1>7, <2>1 DEF Told
  <2>2. CASE q = p
    <3>1. ~Says(p, m)
      BY <1>7, <2>2 DEF Says
    <3>2. CASE Has(sess[p], m)
      BY <1>3, <1>7, <2>2, <3>2 DEF Told
    <3> QED  BY <1>7, <2>2, <3>1, <3>2 DEF Tells
  <2> QED  BY <2>1, <2>2
<1>8. ASSUME NEW m \in Message, \A q \in Procs \ {m[1]} : ~Reads(sess'[q], m)
      PROVE  Home(rows', sess'[m[1]], m)
  <2>1. m[1] \in Procs /\ m[2] \in Nat
    BY DEF Message
  <2>2. Home(rows, sess[m[1]], m)
    <3>1. \A q \in Procs \ {m[1]} : ~Reads(sess[q], m)
      BY <1>3, <1>8
    <3> QED  BY <3>1 DEF Told
  <2>3. CASE m[1] = p
    <3>1. ASSUME Says(p, m), NEW s \in Slots, Near(rows, sess[p], m, s) PROVE FALSE
      <4>1. m[2] <= sess[p].said
        <5>1. Stores(rows, s, m) \/ Has(sess[p], m)
          BY <3>1 DEF Near, Has
        <5> QED  BY <2>3, <5>1 DEF Told
      <4>2. m[2] = sess[p].said + 1 /\ sess[p].said \in Nat
        BY <3>1, KnownAre DEF Says, Session
      <4> QED  BY <4>1, <4>2
    <3> QED  BY <2>2, <2>3, <3>1 DEF Tells
  <2>4. CASE m[1] # p
    <3>1. ~Has(sess[p], m)
      <4>1. ~Reads(sess[p], m)
        BY <1>3, <1>8, <2>4
      <4> QED  BY <2>4, <4>1 DEF Told
    <3>2. \A s \in Slots : Stores(rows', s, m) => Stores(rows, s, m)
      BY <1>4, <3>1
    <3>3. sess'[m[1]] = sess[m[1]]
      BY <1>1, <2>1, <2>4
    <3>4. \A s \in Slots : Near(rows', sess'[m[1]], m, s) => Near(rows, sess[m[1]], m, s)
      BY <3>2, <3>3 DEF Near
    <3> QED  BY <2>2, <3>3, <3>4 DEF Home, Reaches
  <2> QED  BY <2>3, <2>4
<1> QED  BY <1>6, <1>7, <1>8 DEF Told

-----------------------------------------------------------------------------
(***************************************************************************)
(* What the steps of a session have in common.                             *)
(***************************************************************************)

\* A slot left alone, or given back, is one to go on from as before.
LEMMA GoesStill ==
  ASSUME IInv, Orderly, NEW p \in Procs, NEW s \in Slots, NEW c,
         Spares(p, s) \/ Leaving(p, s), Goes(rows, sess[p], s, c)
  PROVE  Goes(rows', sess'[p], s, c)
<1>1. CASE Spares(p, s)
  BY <1>1 DEF Spares, Goes, Behind
<1>2. CASE Leaving(p, s)
  <2>1. rows[s] \subseteq {Nothing}
    BY <1>2 DEF Leaving, Orderly, Fits
  <2> QED  BY <1>2, <2>1 DEF Leaving, Goes, Behind
<1> QED  BY <1>1, <1>2

\* So is one where the conversation goes on.
LEMMA GoesFurther ==
  ASSUME IInv, NEW p \in Procs, NEW s \in Slots, NEW c \in Seq(Message),
         NEW d \in Seq(Message), IsPrefix(c, d), Goes(rows, sess[p], s, c)
  PROVE  Goes(rows, sess[p], s, d)
<1>1. \A w \in sess[p].wrote[s] : w.digest \in Seq(Message)
  BY MarksAre
<1>2. \A w \in sess[p].wrote[s] : IsPrefix(w.digest, d)
  BY <1>1, PrefixOrder DEF Goes, Behind
<1> QED  BY <1>2 DEF Goes, Behind

\* And one just written, for what goes on from what was written.
LEMMA GoesWritten ==
  ASSUME NEW R, NEW r, NEW s, NEW c \in Seq(Message), r.wrote[s] = {Mark(c)},
         NEW d, IsPrefix(c, d)
  PROVE  Goes(R, r, s, d)
BY MarkNames DEF Goes

\* What a session can go on from it knows of.
LEMMA PlacesKnown ==
  ASSUME IInv, Orderly, NEW p \in Procs
  PROVE  /\ sess[p].saves \subseteq Saves /\ sess[p].moves \subseteq Notes
         /\ \A j \in sess[p].saves : j.from \in Slots /\ j.from \in Known
                                     /\ j.conv \in Seq(Message)
         /\ \A s \in Slots : \A t \in sess[p].moved[s] : t \in Slots /\ t \in Known
         /\ Here(sess[p]) => sess[p].slot \in Slots /\ sess[p].slot \in Known
         /\ \A s \in Slots : s \notin Known =>
              rows[s] = {} /\ sess[p].wrote[s] = {} /\ sess[p].moved[s] = {}
         /\ sess[p].conv \in Seq(Message) /\ Store
<1>1. /\ sess[p] \in Session /\ Knows(sess[p]) /\ Store
      /\ \A j \in sess[p].saves : j.from \in Slots /\ j.from \in Known
                                  /\ j.conv \in Seq(Message)
      /\ Here(sess[p]) => sess[p].slot \in Slots /\ sess[p].slot \in Known
  BY KnownAre DEF Here
<1>2. \A s \in Slots : \A t \in sess[p].moved[s] : t \in Slots /\ t \in Known
  BY <1>1 DEF Session, Knows, Slots
<1>3. \A s \in Slots : s \notin Known =>
        rows[s] = {} /\ sess[p].wrote[s] = {} /\ sess[p].moved[s] = {}
  BY <1>1 DEF Store, Orderly, Uses
<1> QED  BY <1>1, <1>2, <1>3 DEF Session

\* With one save at a time there is room for one where there is none.
LEMMA NoneUnderWay ==
  ASSUME IInv, OneByOne, NEW p \in Procs, Room(p)
  PROVE  sess[p].saves = {}
<1>1. IsFiniteSet(sess[p].saves) /\ Cardinality(sess[p].saves) < 1
  BY KnownAre DEF Sound, Few, Room, OneByOne
<1>2. Cardinality(sess[p].saves) = 0
  BY <1>1, FS_CardinalityType
<1> QED  BY <1>1, <1>2, FS_EmptySet

\* A message stays at home where it comes near no slot but one it reached.
LEMMA HomeStays ==
  ASSUME NEW R, NEW r, NEW Q, NEW q, NEW m, Home(R, r, m), q.moved = r.moved,
         \A s \in Slots : Near(Q, q, m, s) =>
           Near(R, r, m, s) \/ (Reaches(R, r, m, s) /\ r.moved[s] = {})
  PROVE  Home(Q, q, m)
<1>1. \A s \in Slots : Reaches(Q, q, m, s) => Reaches(R, r, m, s)
  BY DEF Reaches
<1> QED  BY <1>1 DEF Home

\* What was saved is what the conversation is, whether it was appended or not.
LEMMA SavedWhole ==
  ASSUME IInv, Orderly, NEW p \in Procs, NEW s \in Slots, NEW c \in Seq(Message),
         ~Refused(sess[p], s), Goes(rows, sess[p], s, c)
  PROVE  /\ Saved(sess[p], s, c) = [rows EXCEPT ![s] = {c}]
         /\ \A b \in rows[s] : IsPrefix(b, c)
<1> DEFINE o == sess[p]
<1>1. /\ \A w \in o.wrote[s] : w.digest \in Seq(Message) /\ w = Mark(w.digest)
      /\ rows[s] \subseteq Seq(Message) /\ \A b \in rows[s] : Behind(o, s, b)
      /\ Store
  BY MarksAre, KnownAre DEF Orderly, Fits
<1>2. /\ rows[s] # {} => Row(s) \in Seq(Message) /\ rows[s] = {Row(s)}
      /\ Len(c) \in Nat
  BY <1>1, RowIs, LenProperties
<1>3. /\ \A w \in o.wrote[s] : IsPrefix(w.digest, c)
      /\ o.wrote[s] # {} \/ rows[s] \subseteq {Nothing}
      /\ rows[s] = {} \/ \A w \in o.wrote[s] : Len(Row(s)) - 1 = w.seq
  BY DEF Goes, Behind, Refused
<1> HIDE DEF o
<1>4. ASSUME rows[s] # {}, NEW w \in o.wrote[s] PROVE w.digest = Row(s)
  <2>1. /\ w.digest \in Seq(Message) /\ Row(s) \in Seq(Message)
        /\ IsPrefix(w.digest, Row(s))
    BY <1>1, <1>2, <1>4 DEF Behind
  <2>2. w.seq = Len(w.digest) - 1
    <3>1. w = Mark(w.digest) /\ Mark(w.digest).seq = Len(w.digest) - 1
      BY <1>1, <1>4, <2>1, MarkIs
    <3> QED  BY <3>1
  <2>3. Len(w.digest) \in Nat /\ Len(Row(s)) \in Nat /\ Len(Row(s)) - 1 = w.seq
    BY <1>3, <1>4, <2>1, LenProperties
  <2> QED  BY <2>1, <2>2, <2>3, PrefixOrder
<1>5. \A b \in rows[s] : IsPrefix(b, c)
  <2>1. CASE o.wrote[s] # {}
    BY <1>2, <1>3, <1>4, <2>1
  <2>2. CASE o.wrote[s] = {}
    BY <1>3, <2>2, PrefixEnds
  <2> QED  BY <2>1, <2>2
<1>6. CASE Appends(o, s, c)
  <2>1. rows[s] # {} /\ Len(Row(s)) < Len(c)
    BY <1>6 DEF Appends
  <2>2. SubSeq(c, 1, Len(Row(s))) = Row(s) /\ Row(s) \in Seq(Message)
    BY <1>2, <1>4, <1>6, <2>1 DEF Appends
  <2>3. Len(Row(s)) \in 0..Len(c)
    BY <1>2, <2>1, <2>2, LenProperties
  <2>4. Row(s) \o SubSeq(c, Len(Row(s)) + 1, Len(c)) = c
    BY <2>2, <2>3, PrefixAndRest
  <2>5. Saved(o, s, c) = [rows EXCEPT ![s] = {Row(s) \o SubSeq(c, Len(Row(s)) + 1, Len(c))}]
    BY <1>6 DEF Saved
  <2> QED  BY <1>5, <2>4, <2>5 DEF o
<1>7. CASE ~Appends(o, s, c)
  BY <1>5, <1>7 DEF Saved, o
<1> QED  BY <1>6, <1>7 DEF o

-----------------------------------------------------------------------------
(***************************************************************************)
(* What each operation does to the sessions' order.                        *)
(***************************************************************************)

\* What a step of p has to keep.
Keeps(p) == Steps(p) /\ Own(rows', sess'[p]) /\ Tells(p)

\* Sets p's record, which was o, and leaves the others and the names.
Sets(p) ==
  /\ \A q \in Procs \ {p} : sess'[q] = sess[q]
  /\ minted \subseteq minted'

\* A step that gives back a row at most, and at which a save at most goes on to
\* where its slot went before.
Quiet(p) ==
  /\ \A s \in Slots : Spares(p, s) \/ Leaving(p, s)
  /\ Here(sess'[p]) => /\ Here(sess[p]) /\ sess'[p].slot = sess[p].slot
                       /\ sess'[p].conv = sess[p].conv
  /\ sess'[p].conv = sess[p].conv \/ sess'[p].conv = Nothing
  /\ sess'[p].said = sess[p].said /\ sess'[p].moved = sess[p].moved
  /\ sess'[p].moves \subseteq sess[p].moves
  /\ \A j \in sess'[p].saves : \E i \in sess[p].saves :
       /\ j.from = i.from /\ j.conv = i.conv /\ j.to \in {i.from} \cup sess[p].moved[i.from]
       /\ j.at = "again" => j.to \in sess[p].moved[i.from]
  /\ \A i, j \in sess'[p].saves : i = j
  /\ sess'[p].pc # "off"

\* Such a step keeps the order.
LEMMA QuietKeeps ==
  ASSUME IInv, Orderly, NEW p \in Procs, Sets(p), Quiet(p)
  PROVE  Keeps(p)
<1> DEFINE o == sess[p]
           q == sess'[p]
<1>1. /\ Own(rows, o)
      /\ \A j \in o.saves : j.from \in Slots
      /\ \A s \in Slots : \A t \in o.moved[s] : t \in Slots
      /\ Here(o) => o.slot \in Slots
  BY PlacesKnown DEF Orderly
<1>2. /\ \A s \in Slots : Spares(p, s) \/ Leaving(p, s)
      /\ Here(q) => Here(o) /\ q.slot = o.slot /\ q.conv = o.conv
      /\ q.conv = o.conv \/ q.conv = Nothing
      /\ q.said = o.said /\ q.moved = o.moved /\ q.moves \subseteq o.moves
      /\ \A j \in q.saves : \E i \in o.saves :
           /\ j.from = i.from /\ j.conv = i.conv /\ j.to \in {i.from} \cup o.moved[i.from]
           /\ j.at = "again" => j.to \in o.moved[i.from]
      /\ \A i, j \in q.saves : i = j
      /\ q.pc # "off"
  BY DEF Quiet
<1>3. \A s \in Slots : \A c : Goes(rows, o, s, c) => Goes(rows', q, s, c)
  BY <1>2, GoesStill
<1>4. \A s \in Slots : \A m : Stores(rows', s, m) => Stores(rows, s, m)
  <2>1. \A s \in Slots : rows'[s] = rows[s] \/ rows'[s] = {}
    BY <1>2 DEF Spares, Leaving
  <2> QED  BY <2>1 DEF Stores
<1> HIDE DEF o, q
<1>5. \A s \in Slots : Places(q, s) => Places(o, s)
  <2>1. \A s \in Slots : \A j \in q.saves : s = j.from \/ s = j.to => Places(o, s)
    BY <1>1, <1>2 DEF Places
  <2> QED  BY <1>2, <2>1 DEF Places
<1>6. Steps(p)
  <2>1. \A s \in Slots : Touches(p, s)
    BY <1>2 DEF Touches
  <2> QED  BY <1>2, <1>5, <2>1 DEF Steps, Sets, Uses, o, q
<1>7. ASSUME NEW j \in q.saves PROVE Lands(rows', q, j)
  <2>1. PICK i \in o.saves : /\ j.from = i.from /\ j.conv = i.conv
                             /\ j.at = "again" => j.to \in o.moved[i.from]
    BY <1>2
  <2>2. Lands(rows, o, i) /\ i.from \in Slots
    BY <1>1 DEF Own
  <2>3. \A t \in o.moved[i.from] : t \in Slots
    BY <1>1, <2>2
  <2> QED  BY <1>2, <1>3, <2>1, <2>2, <2>3 DEF Lands
<1>8. Stands(rows', q)
  <2>1. ASSUME Here(q)
        PROVE  /\ Goes(rows', q, q.slot, q.conv)
               /\ \A t \in q.moved[q.slot] : /\ Goes(rows', q, t, q.conv) /\ q.moved[t] = {}
                                             /\ \A j \in q.saves : j.from # t
    <3>1. Here(o) /\ q.slot = o.slot /\ q.conv = o.conv /\ o.slot \in Slots
      BY <1>1, <1>2, <2>1
    <3>2. \A t \in o.moved[o.slot] : t \in Slots
      BY <1>1, <3>1
    <3>3. Stands(rows, o)
      BY <1>1 DEF Own
    <3> QED  BY <1>2, <1>3, <3>1, <3>2, <3>3 DEF Stands
  <2> QED  BY <2>1 DEF Stands
<1>9. Own(rows', q)
  <2>1. Follows(q)
    BY <1>1, <1>2 DEF Own, Follows
  <2> QED  BY <1>2, <1>7, <1>8, <2>1 DEF Own
<1>10. \A m : Has(q, m) => Has(o, m)
  <2>1. \A m : m \notin ToSet(Nothing)
    BY PrefixEnds, EmptyConversation
  <2> QED  BY <1>2, <2>1 DEF Has
<1>11. ASSUME NEW m, Home(rows, o, m) PROVE Home(rows', q, m)
  <2>1. ASSUME NEW s \in Slots, Near(rows', q, m, s)
        PROVE  Near(rows, o, m, s) \/ (Reaches(rows, o, m, s) /\ o.moved[s] = {})
    <3>1. CASE Stores(rows', s, m) \/ (Here(q) /\ q.slot = s /\ m \in ToSet(q.conv))
      BY <1>2, <1>4, <3>1 DEF Near
    <3>2. ASSUME NEW j \in q.saves, m \in ToSet(j.conv),
                 s = j.from \/ (j.at = "again" /\ s = j.to)
          PROVE  Near(rows, o, m, s) \/ (Reaches(rows, o, m, s) /\ o.moved[s] = {})
      <4>1. PICK i \in o.saves : /\ j.from = i.from /\ j.conv = i.conv
                                 /\ j.at = "again" => j.to \in o.moved[i.from]
        BY <1>2
      <4>2. Near(rows, o, m, i.from) /\ i.from \in Slots /\ Lands(rows, o, i)
        BY <1>1, <3>2, <4>1 DEF Near, Own
      <4> QED  BY <3>2, <4>1, <4>2 DEF Reaches, Lands
    <3> QED  BY <2>1, <3>1, <3>2 DEF Near
  <2> QED  BY <1>2, <1>11, <2>1, HomeStays
<1>12. Tells(p)
  BY <1>2, <1>10, <1>11 DEF Tells, o, q
<1> QED  BY <1>6, <1>9, <1>12 DEF Keeps, q

\* A step that saves the conversation to the session's slot.
Autosaves(p) ==
  /\ rows' = rows /\ sess'[p].wrote = sess[p].wrote
  /\ Here(sess[p]) /\ Here(sess'[p]) /\ sess'[p].slot = sess[p].slot
  /\ sess[p].saves = {}
  /\ \A j \in sess'[p].saves : /\ j.from = sess[p].slot /\ j.to = sess[p].slot
                               /\ j.conv = sess'[p].conv /\ j.at = "save"
  /\ \A i, j \in sess'[p].saves : i = j
  /\ sess'[p].moved = sess[p].moved /\ sess'[p].moves = sess[p].moves
  /\ \/ sess'[p].conv = sess[p].conv /\ sess'[p].said = sess[p].said
     \/ /\ sess'[p].conv = Append(sess[p].conv, <<p, sess[p].said + 1>>)
        /\ sess'[p].said = sess[p].said + 1 /\ <<p, sess[p].said + 1>> \in Message

\* So does one that saves.
LEMMA AutosavesKeeps ==
  ASSUME IInv, Orderly, NEW p \in Procs, Sets(p), Autosaves(p)
  PROVE  Keeps(p)
<1> DEFINE o == sess[p]
           q == sess'[p]
           n == <<p, o.said + 1>>
<1>1. /\ Own(rows, o)
      /\ \A s \in Slots : \A t \in o.moved[s] : t \in Slots
      /\ o.slot \in Slots /\ o.conv \in Seq(Message)
  BY PlacesKnown DEF Orderly, Autosaves
<1>2. /\ rows' = rows /\ q.wrote = o.wrote
      /\ Here(o) /\ Here(q) /\ q.slot = o.slot /\ o.saves = {}
      /\ \A j \in q.saves : /\ j.from = o.slot /\ j.to = o.slot
                            /\ j.conv = q.conv /\ j.at = "save"
      /\ \A i, j \in q.saves : i = j
      /\ q.moved = o.moved /\ q.moves = o.moves
      /\ \/ q.conv = o.conv /\ q.said = o.said
         \/ q.conv = Append(o.conv, n) /\ q.said = o.said + 1 /\ n \in Message
  BY DEF Autosaves
<1>3. \A s \in Slots : Spares(p, s)
  BY <1>2 DEF Spares
<1>4. /\ q.conv \in Seq(Message) /\ IsPrefix(o.conv, q.conv) /\ IsPrefix(q.conv, q.conv)
      /\ \/ q.said = o.said /\ \A m : m \in ToSet(q.conv) => m \in ToSet(o.conv)
         \/ /\ q.said = o.said + 1
            /\ \A m : m \in ToSet(q.conv) => m \in ToSet(o.conv) \/ m = n
  <2> HIDE DEF o, q, n
  <2>1. CASE q.conv = o.conv /\ q.said = o.said
    BY <1>1, <2>1, PrefixEnds
  <2>2. CASE q.conv = Append(o.conv, n) /\ q.said = o.said + 1 /\ n \in Message
    BY <1>1, <2>2, PrefixSaid, PrefixEnds, ZenonT(40)
  <2> QED  BY <1>2, <2>1, <2>2
<1>5. \A s \in Slots : Goes(rows, o, s, o.conv) => Goes(rows', q, s, q.conv)
  <2>1. \A s \in Slots : Goes(rows, o, s, o.conv) => Goes(rows, o, s, q.conv)
    BY <1>1, <1>4, GoesFurther
  <2> QED  BY <1>3, <2>1, GoesStill
<1>0. q.pc # "off"
  BY <1>2 DEF Here
<1>6. n = <<p, o.said + 1>>
  OBVIOUS
<1> HIDE DEF o, q, n
<1>7. Steps(p)
  <2>1. \A s \in Slots : Places(q, s) => Places(o, s)
    BY <1>2 DEF Places
  <2>2. \A s \in Slots : Touches(p, s)
    BY <1>3 DEF Touches
  <2> QED  BY <1>2, <2>1, <2>2 DEF Steps, Sets, Uses, o, q
<1>8. /\ Goes(rows', q, o.slot, q.conv)
      /\ \A t \in o.moved[o.slot] : Goes(rows', q, t, q.conv) /\ o.moved[t] = {}
  <2>1. Stands(rows, o)
    BY <1>1 DEF Own
  <2>2. \A t \in o.moved[o.slot] : t \in Slots
    BY <1>1
  <2> QED  BY <1>1, <1>2, <1>5, <2>1, <2>2 DEF Stands
<1>9. Own(rows', q)
  <2>1. \A j \in q.saves : Lands(rows', q, j)
    BY <1>2, <1>4, <1>8 DEF Lands
  <2>2. \A t \in o.moved[o.slot] : t # o.slot
    BY <1>8
  <2>3. Stands(rows', q)
    BY <1>2, <1>8, <2>2 DEF Stands
  <2>4. Follows(q)
    BY <1>1, <1>2 DEF Own, Follows
  <2> QED  BY <1>0, <1>2, <2>1, <2>3, <2>4 DEF Own
<1>10. \A m : Has(q, m) => m \in ToSet(q.conv)
  BY <1>2 DEF Has
<1>11. \A s \in Slots : \A m : Near(rows', q, m, s) =>
         Near(rows, o, m, s) \/ (m = n /\ q.said = o.said + 1 /\ s = o.slot)
  BY <1>2, <1>4 DEF Near, Stores
<1>12. ASSUME NEW m, Home(rows, o, m),
              m = n /\ q.said = o.said + 1 => \A s \in Slots : ~Near(rows, o, m, s)
       PROVE  Home(rows', q, m)
  <2>1. CASE \A s \in Slots : Near(rows', q, m, s) => Near(rows, o, m, s)
    BY <1>2, <1>12, <2>1, HomeStays
  <2>2. CASE \A s \in Slots : Near(rows', q, m, s) => s = o.slot
    <3>1. \A s, t \in o.moved[o.slot] : s = t
      BY <1>1 DEF Own, Follows
    <3> QED  BY <1>1, <1>2, <2>2, <3>1 DEF Home, Reaches
  <2> QED  BY <1>11, <1>12, <2>1, <2>2
<1>13. Tells(p)
  <2>1. \A m : Says(p, m) <=> m = n /\ q.said = o.said + 1
    BY <1>6 DEF Says, o, q
  <2>2. \A m : Has(q, m) => Has(o, m) \/ Says(p, m)
    BY <1>4, <1>10, <2>1 DEF Has
  <2> QED  BY <1>4, <1>12, <2>1, <2>2 DEF Tells, o, q
<1> QED  BY <1>7, <1>9, <1>13 DEF Keeps, q

\* The steps that begin no save and touch no conversation.
LEMMA EndQuiet ==
  ASSUME IInv, NEW p \in Procs, NEW c \in BOOLEAN, Becomes(p, Ended(sess[p], c)),
         minted' = minted, \A s \in Slots : rows'[s] = rows[s] \/
           (Claims(sess[p], s) /\ rows[s] = {Nothing} /\ rows'[s] = {})
  PROVE  Sets(p) /\ Quiet(p)
<1> DEFINE o == sess[p]
           q == Ended(o, c)
<1>1. o \in Session /\ Sound(p, o)
  BY KnownAre
<1>2. sess'[p] = q /\ sess' = [sess EXCEPT ![p] = sess'[p]] /\ sess \in [Procs -> Session]
  BY BecomesIs DEF IInv, Sessions
<1> HIDE DEF o
<1>3. /\ q.pc = "over" /\ q.saves = {} /\ q.moves = {} /\ q.wrote = o.wrote
      /\ q.moved = o.moved /\ q.said = o.said /\ q.conv = Nothing
  BY <1>1, EndedIs
<1> HIDE DEF q
<1>4. Sets(p)
  BY <1>2 DEF Sets
<1>5. \A s \in Slots : Spares(p, s) \/ Leaving(p, s)
  BY <1>2, <1>3 DEF Spares, Leaving, o
<1>6. Quiet(p)
  BY <1>2, <1>3, <1>5 DEF Quiet, Here, o
<1> QED  BY <1>4, <1>6

\* Gone and Crash: what the session remembers is all that is left of it.
LEMMA GoneCrashOrders ==
  ASSUME IInv, Orderly, NEW p \in Procs, Gone(p) \/ Crash(p)
  PROVE  Keeps(p)
<1>1. PICK c \in BOOLEAN : Becomes(p, Ended(sess[p], c))
  BY DEF Gone, Crash
<1>2. minted' = minted /\ rows' = rows
  BY DEF Gone, Crash
<1> QED  BY <1>1, <1>2, EndQuiet, QuietKeeps

\* Quit: the last save, or the slot given back.
LEMMA QuitOrders ==
  ASSUME IInv, IInv', Orderly, OneByOne, NEW p \in Procs, Quit(p)
  PROVE  Keeps(p)
<1> DEFINE o == sess[p]
<1>1. /\ o \in Session /\ Sound(p, o) /\ o.slot \in Slots /\ Store
      /\ o.saves = {} /\ o.pc = "live"
  BY KnownAre, NoneUnderWay DEF Quit, Live
<1>2. minted' = minted
  BY DEF Quit
<1>3. CASE o.conv # <<>>
  <2> DEFINE j == [from |-> o.slot, conv |-> o.conv, at |-> "save", to |-> o.slot]
             q == [o EXCEPT !.saves = o.saves \cup {j}, !.pc = "quitting"]
  <2>1. Becomes(p, q) /\ rows' = rows
    BY <1>3 DEF Quit, Autosave
  <2>2. /\ sess'[p] = q /\ sess' = [sess EXCEPT ![p] = sess'[p]]
        /\ sess \in [Procs -> Session]
    BY <2>1, BecomesIs DEF IInv, Sessions
  <2>3. j.from = o.slot /\ j.conv = o.conv /\ j.at = "save" /\ j.to = o.slot
    OBVIOUS
  <2> HIDE DEF o, j
  <2>4. /\ q.pc = "quitting" /\ q.slot = o.slot /\ q.conv = o.conv /\ q.saves = {j}
        /\ q.moves = o.moves /\ q.moved = o.moved /\ q.wrote = o.wrote /\ q.said = o.said
    BY <1>1 DEF Session
  <2> HIDE DEF q
  <2>5. Autosaves(p)
    BY <1>1, <2>1, <2>2, <2>3, <2>4 DEF Autosaves, Here, o
  <2>6. Sets(p)
    BY <1>2, <2>2 DEF Sets
  <2> QED  BY <2>5, <2>6, AutosavesKeeps
<1>4. CASE o.conv = <<>>
  <2>1. Becomes(p, Ended(o, o.saves = {})) /\ rows' = Released(o)
    BY <1>4 DEF Quit
  <2>2. \A s \in Slots : rows'[s] = rows[s] \/
           (Claims(o, s) /\ rows[s] = {Nothing} /\ rows'[s] = {})
    BY <1>1, <2>1, ReleasedIs DEF Released, Store, Nothing
  <2> QED  BY <1>2, <2>1, <2>2, EndQuiet, QuietKeeps
<1> QED  BY <1>3, <1>4

\* Say: what is said is saved.
LEMMA SayOrders ==
  ASSUME IInv, IInv', Orderly, OneByOne, NEW p \in Procs, Say(p)
  PROVE  Keeps(p)
<1> DEFINE o == sess[p]
           n == <<p, o.said + 1>>
           c == Append(o.conv, n)
           u == [o EXCEPT !.said = o.said + 1, !.conv = c]
<1>1. /\ o \in Session /\ o.saves = {} /\ o.pc = "live" /\ o.said < Turns
  BY KnownAre, NoneUnderWay DEF Say, Live
<1>2. minted' = minted /\ rows' = rows /\ Becomes(p, Autosave(u))
  BY DEF Say
<1>3. n \in Message
  BY <1>1, ChatSlotsAssumption DEF Session, Message
<1>4. c # <<>>
  BY <1>1, <1>3, PrefixSaid DEF Session, Nothing
<1>0. sess \in [Procs -> Session]
  BY DEF IInv, Sessions
<1> HIDE DEF c
<1>5. /\ u.pc = "live" /\ u.slot = o.slot /\ u.conv = c /\ u.saves = {}
      /\ u.moves = o.moves /\ u.moved = o.moved /\ u.wrote = o.wrote
      /\ u.said = o.said + 1
  BY <1>1 DEF Session
<1> DEFINE j == [from |-> u.slot, conv |-> u.conv, at |-> "save", to |-> u.slot]
           q == [o EXCEPT !.said = o.said + 1, !.conv = c, !.saves = {j}]
<1>6. Autosave(u) = q
  BY <1>1, <1>4, <1>5 DEF Autosave, Session
<1>7. sess'[p] = q /\ sess' = [sess EXCEPT ![p] = sess'[p]]
  BY <1>2, <1>6, BecomesIs
<1>8. j.from = o.slot /\ j.conv = c /\ j.at = "save" /\ j.to = o.slot
  BY <1>5
<1> HIDE DEF o, j, n
<1>9. /\ q.pc = "live" /\ q.slot = o.slot /\ q.conv = c /\ q.saves = {j}
      /\ q.moves = o.moves /\ q.moved = o.moved /\ q.wrote = o.wrote
      /\ q.said = o.said + 1
  BY <1>1 DEF Session
<1> HIDE DEF q
<1>10. Autosaves(p)
  BY <1>1, <1>2, <1>3, <1>7, <1>8, <1>9 DEF Autosaves, Here, o, n, c
<1>11. Sets(p)
  BY <1>0, <1>2, <1>7 DEF Sets
<1> QED  BY <1>10, <1>11, AutosavesKeeps

\* A save that fails, or is refused.
LEMMA SaveEndsOrders ==
  ASSUME IInv, Orderly, NEW p \in Procs, NEW j \in sess[p].saves,
         SaveFails(p, j) \/ SaveRefused(p, j)
  PROVE  Keeps(p)
<1> DEFINE o == sess[p]
           i == [j EXCEPT !.at = "move"]
           q1 == [o EXCEPT !.saves = o.saves \ {j}, !.clean = FALSE]
           q2 == [o EXCEPT !.saves = (o.saves \ {j}) \cup {i}]
<1>1. /\ o \in Session /\ j \in o.saves /\ j \in Saves /\ Bound(o) /\ o.pc # "off"
      /\ \A k, l \in o.saves : k = l
  BY KnownAre DEF Orderly, Own, Sound, Idle
<1>2. minted' = minted /\ rows' = rows
  BY DEF SaveFails, SaveRefused
<1>3. Becomes(p, q1) \/ (Becomes(p, q2) /\ j.at = "save")
  BY <1>1 DEF SaveFails, SaveRefused, Without, Session
<1>4. i.from = j.from /\ i.conv = j.conv /\ i.at = "move" /\ i.to = j.to
  BY <1>1 DEF Saves
<1>5. j.at # "again" => j.to = j.from
  BY <1>1 DEF Bound
<1>6. /\ sess'[p] = q1 \/ (sess'[p] = q2 /\ j.at = "save")
      /\ sess' = [sess EXCEPT ![p] = sess'[p]]
      /\ sess \in [Procs -> Session]
  BY <1>3, BecomesIs DEF IInv, Sessions
<1> HIDE DEF o, i
<1>7. /\ q1.pc = o.pc /\ q1.slot = o.slot /\ q1.conv = o.conv /\ q1.saves = o.saves \ {j}
      /\ q1.moves = o.moves /\ q1.moved = o.moved /\ q1.wrote = o.wrote
      /\ q1.said = o.said
  BY <1>1 DEF Session
<1>8. /\ q2.pc = o.pc /\ q2.slot = o.slot /\ q2.conv = o.conv
      /\ q2.saves = (o.saves \ {j}) \cup {i}
      /\ q2.moves = o.moves /\ q2.moved = o.moved /\ q2.wrote = o.wrote
      /\ q2.said = o.said
  BY <1>1 DEF Session
<1>9. o.saves \ {j} = {} /\ (o.saves \ {j}) \cup {i} = {i}
  BY <1>1
<1> HIDE DEF q1, q2
<1>10. Sets(p)
  BY <1>2, <1>6 DEF Sets
<1>11. CASE sess'[p] = q1
  <2>1. Quiet(p)
    BY <1>1, <1>2, <1>7, <1>9, <1>11 DEF Quiet, Spares, Here, o
  <2> QED  BY <1>10, <2>1, QuietKeeps
<1>12. CASE sess'[p] = q2 /\ j.at = "save"
  <2>1. \A k \in q2.saves : /\ k.from = j.from /\ k.conv = j.conv /\ k.to = j.from
                            /\ k.at # "again"
    BY <1>4, <1>5, <1>8, <1>9, <1>12
  <2>2. \A k \in q2.saves : \E l \in o.saves :
          /\ k.from = l.from /\ k.conv = l.conv /\ k.to \in {l.from} \cup o.moved[l.from]
          /\ k.at = "again" => k.to \in o.moved[l.from]
    BY <1>1, <2>1
  <2>3. Quiet(p)
    BY <1>1, <1>2, <1>8, <1>9, <1>12, <2>2 DEF Quiet, Spares, Here, o
  <2> QED  BY <1>10, <2>3, QuietKeeps
<1> QED  BY <1>6, <1>11, <1>12

\* A step that puts the session on a slot claimed now.
Opens(p, s) ==
  /\ s \in Slots /\ Claiming(p, s)
  /\ \A t \in Slots \ {s} : Spares(p, t) \/ Leaving(p, t)
  /\ Here(sess'[p]) /\ sess'[p].slot = s /\ sess'[p].conv = Nothing
  /\ sess'[p].said = sess[p].said /\ sess'[p].moved = sess[p].moved
  /\ sess'[p].moves = sess[p].moves
  /\ \A j \in sess'[p].saves : /\ j.from = sess[p].slot /\ j.to = sess[p].slot
                               /\ j.conv = sess[p].conv /\ j.at = "save" /\ Here(sess[p])
  /\ \A i, j \in sess'[p].saves : i = j

\* Such a step keeps the order.
LEMMA OpensKeeps ==
  ASSUME IInv, Orderly, NEW p \in Procs, NEW s, Sets(p), Opens(p, s)
  PROVE  Keeps(p)
<1> DEFINE o == sess[p]
           q == sess'[p]
<1>1. /\ Own(rows, o) /\ o.conv \in Seq(Message)
      /\ \A t \in Slots : \A a \in o.moved[t] : a \in Slots /\ a \in Known
      /\ Here(o) => o.slot \in Slots /\ o.slot \in Known
  BY PlacesKnown DEF Orderly
<1>2. /\ s \in Slots /\ Here(q) /\ q.slot = s /\ q.conv = Nothing
      /\ q.said = o.said /\ q.moved = o.moved /\ q.moves = o.moves
      /\ \A j \in q.saves : /\ j.from = o.slot /\ j.to = o.slot
                            /\ j.conv = o.conv /\ j.at = "save" /\ Here(o)
      /\ \A i, j \in q.saves : i = j
      /\ s \notin Known /\ q.wrote[s] = {Mark(Nothing)} /\ rows'[s] = {Nothing}
      /\ \A t \in Slots \ {s} : Spares(p, t) \/ Leaving(p, t)
  BY DEF Opens, Claiming
<1>3. \A t \in Slots \ {s} : \A c : Goes(rows, o, t, c) => Goes(rows', q, t, c)
  BY <1>2, GoesStill
<1>4. \A t \in Slots : \A m : Stores(rows', t, m) => Stores(rows, t, m)
  <2>1. \A t \in Slots : rows'[t] = rows[t] \/ rows'[t] = {} \/ rows'[t] = {Nothing}
    BY <1>2 DEF Spares, Leaving
  <2>2. \A m : m \notin ToSet(Nothing)
    BY PrefixEnds, EmptyConversation
  <2> QED  BY <2>1, <2>2 DEF Stores
<1>5. o.moved[s] = {}
  BY <1>2, PlacesKnown
<1>6. Goes(rows', q, s, Nothing)
  BY <1>2, GoesWritten, PrefixEnds, EmptyConversation
<1>7. Touches(p, s)
  BY DEF Opens, Touches
<1> HIDE DEF o, q
<1>8. Steps(p)
  <2>1. \A t \in Slots : Touches(p, t)
    BY <1>2, <1>7 DEF Touches
  <2>2. \A t \in Slots : Places(q, t) => Places(o, t) \/ t \notin Known
    BY <1>2 DEF Places
  <2> QED  BY <1>2, <2>1, <2>2 DEF Steps, Sets, Uses, o, q
<1>9. Own(rows', q)
  <2>1. ASSUME NEW j \in q.saves PROVE Lands(rows', q, j)
    <3>1. /\ j.from = o.slot /\ j.conv = o.conv /\ j.at # "again" /\ Stands(rows, o)
          /\ Here(o) /\ o.slot \in Slots /\ o.slot \in Known /\ s \notin o.moved[o.slot]
          /\ \A t \in o.moved[o.slot] : t \in Slots /\ t # s
      BY <1>1, <1>2 DEF Own
    <3> QED  BY <1>2, <1>3, <3>1 DEF Lands, Stands
  <2>2. Stands(rows', q)
    BY <1>2, <1>5, <1>6 DEF Stands
  <2>3. Follows(q) /\ q.pc # "off"
    BY <1>1, <1>2 DEF Own, Follows, Here
  <2> QED  BY <1>2, <2>1, <2>2, <2>3 DEF Own
<1>10. \A m : Has(q, m) => Has(o, m)
  <2>1. \A m : m \notin ToSet(Nothing)
    BY PrefixEnds, EmptyConversation
  <2> QED  BY <1>2, <2>1 DEF Has
<1>11. ASSUME NEW m, Home(rows, o, m) PROVE Home(rows', q, m)
  <2>1. m \notin ToSet(Nothing)
    BY PrefixEnds, EmptyConversation
  <2>2. \A t \in Slots : Near(rows', q, m, t) => Near(rows, o, m, t)
    BY <1>2, <1>4, <2>1 DEF Near
  <2> QED  BY <1>2, <1>11, <2>2, HomeStays
<1>12. Tells(p)
  BY <1>2, <1>10, <1>11 DEF Tells, o, q
<1> QED  BY <1>8, <1>9, <1>12 DEF Keeps, q

\* Start: the session begins in a slot of its own.
LEMMA StartOrders ==
  ASSUME IInv, Orderly, NEW p \in Procs, Start(p)
  PROVE  Keeps(p)
<1>1. PICK s \in Names : /\ Unused(s) /\ rows' = [rows EXCEPT ![s] = {<<>>}]
                         /\ minted' = minted \cup {s}
                         /\ Becomes(p, [Claimed(Off, s) EXCEPT !.pc = "live", !.slot = s])
  BY DEF Start
<1>2. s \in Slots /\ s \notin Known /\ Store
  BY <1>1, UnusedIs, KnownAre
<1>3. sess[p] = Off
  BY DEF Start, Orderly, Own
<1> DEFINE u == Claimed(Off, s)
           q == [u EXCEPT !.pc = "live", !.slot = s]
<1>4. /\ u \in Session /\ u.saves = {} /\ u.moves = Off.moves /\ u.moved = Off.moved
      /\ u.conv = Nothing /\ u.said = Off.said
      /\ u.wrote[s] = {Mark(Nothing)} /\ \A t \in Slots \ {s} : u.wrote[t] = Off.wrote[t]
  <2>1. Off \in Session /\ s \in Slots /\ Nothing \in Seq(Message)
    BY <1>2, OffIs, EmptyConversation
  <2>2. Remembers(u, Off, s, Nothing)
    BY DEF Claimed, Remembers, Nothing
  <2>3. u.said = Off.said
    BY <2>1 DEF Claimed, Session
  <2> HIDE DEF u
  <2>4. Off.conv = Nothing /\ Off.saves = {}
    BY DEF Off, Nothing
  <2> QED  BY <2>1, <2>2, <2>3, <2>4, RemembersIs
<1>5. sess'[p] = q /\ sess' = [sess EXCEPT ![p] = sess'[p]] /\ sess \in [Procs -> Session]
  BY <1>1, BecomesIs DEF IInv, Sessions
<1> HIDE DEF u
<1>6. /\ q.pc = "live" /\ q.slot = s /\ q.saves = {} /\ q.moves = u.moves
      /\ q.conv = u.conv /\ q.said = u.said /\ q.moved = u.moved /\ q.wrote = u.wrote
  BY <1>2, <1>4 DEF Session
<1> HIDE DEF q
<1>7. rows'[s] = {Nothing} /\ \A t \in Slots \ {s} : rows'[t] = rows[t]
  BY <1>1, <1>2 DEF Store, Nothing
<1>8. Sets(p)
  BY <1>1, <1>5 DEF Sets
<1>9. Opens(p, s)
  BY <1>2, <1>3, <1>4, <1>5, <1>6, <1>7 DEF Opens, Claiming, Spares, Here
<1> QED  BY <1>8, <1>9, OpensKeeps

\* What a session has of the slot it leaves, and of the others, when it adopts one.
LEMMA AdoptLeaves ==
  ASSUME IInv, NEW p \in Procs, NEW r \in Session, Sound(p, r), r.slot \in Slots,
         NEW s \in Slots, Adopt(p, r, s)
  PROVE  /\ sess' = [sess EXCEPT ![p] = sess'[p]] /\ sess \in [Procs -> Session]
         /\ sess'[p].pc = r.pc /\ sess'[p].slot = s /\ sess'[p].conv = r.conv
         /\ sess'[p].said = r.said /\ sess'[p].saves = r.saves
         /\ sess'[p].moves = r.moves /\ sess'[p].moved = r.moved
         /\ \A t \in Slots :
              \/ rows'[t] = rows[t] /\ sess'[p].wrote[t] = r.wrote[t]
              \/ /\ t # s /\ Claims(r, t) /\ sess'[p].wrote[t] = {}
                 /\ rows'[t] = rows[t] \/ (rows[t] = {Nothing} /\ rows'[t] = {})
<1>0. Store /\ sess \in [Procs -> Session]
  BY DEF IInv, Sessions
<1>1. CASE r.slot = s
  <2>1. Becomes(p, r) /\ rows' = rows
    BY <1>1 DEF Adopt
  <2>2. sess'[p] = r /\ sess' = [sess EXCEPT ![p] = sess'[p]]
    BY <2>1, BecomesIs
  <2> QED  BY <1>0, <1>1, <2>1, <2>2
<1>2. CASE r.slot # s
  <2> DEFINE w == [r.wrote EXCEPT ![r.slot] = IF Mine(r) THEN {} ELSE @]
             q == [r EXCEPT !.slot = s, !.wrote[r.slot] = IF Mine(r) THEN {} ELSE @]
             v == [r EXCEPT !.slot = s, !.wrote = w]
  <2>1. Becomes(p, q) /\ rows' = Released(r)
    BY <1>2 DEF Adopt
  <2>2. sess'[p] = q /\ sess' = [sess EXCEPT ![p] = sess'[p]]
    BY <2>1, BecomesIs
  <2>3. /\ Mine(r) <=> Claims(r, r.slot)
        /\ \A t \in Slots : rows'[t] = rows[t] \/
             (t = r.slot /\ Mine(r) /\ rows[t] = {Nothing} /\ rows'[t] = {})
    BY <1>0, <2>1, ReleasedIs DEF Released, Store, Nothing
  <2>4. q = v
    BY DEF Session
  <2>5. /\ Mine(r) => w[r.slot] = {}
        /\ ~Mine(r) => w[r.slot] = r.wrote[r.slot]
        /\ \A t \in Slots \ {r.slot} : w[t] = r.wrote[t]
    BY DEF Session
  <2> HIDE DEF w, q
  <2>6. /\ v.pc = r.pc /\ v.slot = s /\ v.conv = r.conv /\ v.said = r.said
        /\ v.saves = r.saves /\ v.moves = r.moves /\ v.moved = r.moved /\ v.wrote = w
    BY DEF Session
  <2> HIDE DEF v
  <2> QED  BY <1>0, <1>2, <2>2, <2>3, <2>4, <2>5, <2>6
<1> QED  BY <1>1, <1>2

\* New: what is left is saved, or its slot given back.
LEMMA NewOrders ==
  ASSUME IInv, Orderly, OneByOne, NEW p \in Procs, New(p)
  PROVE  Keeps(p)
<1> DEFINE o == sess[p]
           a == Autosave(o)
<1>1. /\ o \in Session /\ Sound(p, o) /\ o.slot \in Slots /\ o.slot \in Known /\ Store
      /\ o.saves = {} /\ o.pc = "live" /\ Cardinality(o.saves) < InFlight[p]
  BY KnownAre, NoneUnderWay DEF New, Live, Room
<1>2. PICK s \in Names :
        LET r == [Claimed(Autosave(sess[p]), s) EXCEPT !.switches = @ + 1] IN
        /\ Unused(s) /\ minted' = minted \cup {s}
        /\ IF r.conv # <<>>
             THEN /\ rows' = [rows EXCEPT ![s] = {<<>>}]
                  /\ Becomes(p, [r EXCEPT !.slot = s, !.conv = <<>>])
             ELSE /\ rows' = [Released(r) EXCEPT ![s] = {<<>>}]
                  /\ Becomes(p, [r EXCEPT !.slot = s,
                                   !.wrote[r.slot] = IF Mine(r) THEN {} ELSE @])
  BY DEF New
<1> DEFINE c == Claimed(a, s)
           r == [c EXCEPT !.switches = c.switches + 1]
<1>3. Unused(s) /\ minted' = minted \cup {s}
  BY <1>2
<1>4. r.conv # Nothing => /\ rows' = [rows EXCEPT ![s] = {<<>>}]
                          /\ Becomes(p, [r EXCEPT !.slot = s, !.conv = <<>>])
  BY <1>2 DEF Nothing
<1>5. r.conv = Nothing => /\ rows' = [Released(r) EXCEPT ![s] = {<<>>}]
                          /\ Becomes(p, [r EXCEPT !.slot = s,
                                           !.wrote[r.slot] = IF Mine(r) THEN {} ELSE @])
  BY <1>2 DEF Nothing
<1>6. s \in Slots /\ s \notin Known /\ s # o.slot /\ sess \in [Procs -> Session]
  BY <1>1, <1>3, UnusedIs DEF IInv, Sessions
<1> HIDE DEF o
<1>7. /\ a \in Session /\ a.pc = o.pc /\ a.slot = o.slot /\ a.conv = o.conv
      /\ a.wrote = o.wrote /\ a.moves = o.moves /\ a.moved = o.moved /\ Sound(p, a)
  BY <1>1, AutosaveIs
<1>8. /\ a.said = o.said
      /\ \A j \in a.saves : /\ j.from = o.slot /\ j.to = o.slot
                            /\ j.conv = o.conv /\ j.at = "save"
      /\ \A i, j \in a.saves : i = j
      /\ o.conv = Nothing => a.saves = {}
  <2>1. CASE o.conv = <<>>
    BY <1>1, <2>1 DEF Autosave
  <2>2. CASE o.conv # <<>>
    <3> DEFINE j == [from |-> o.slot, conv |-> o.conv, at |-> "save", to |-> o.slot]
    <3>1. a = [o EXCEPT !.saves = o.saves \cup {j}]
      BY <2>2 DEF Autosave
    <3>2. j.from = o.slot /\ j.to = o.slot /\ j.conv = o.conv /\ j.at = "save"
      OBVIOUS
    <3> HIDE DEF j, a
    <3>3. a.said = o.said /\ a.saves = {j}
      BY <1>1, <3>1 DEF Session
    <3> QED  BY <2>2, <3>2, <3>3 DEF Nothing
  <2> QED  BY <2>1, <2>2
<1> HIDE DEF a
<1>9. /\ c \in Session /\ c.pc = a.pc /\ c.slot = a.slot /\ c.conv = a.conv
      /\ c.saves = a.saves /\ c.moves = a.moves /\ c.moved = a.moved
      /\ \A t \in Slots \ {s} : c.wrote[t] = a.wrote[t]
      /\ c.wrote[s] = {Mark(Nothing)} /\ c.said = a.said /\ Sound(p, c)
  <2>1. Remembers(c, a, s, Nothing) /\ Nothing \in Seq(Message) /\ a.pc # "off"
    BY <1>1, <1>7, EmptyConversation DEF Claimed, Remembers, Nothing
  <2>2. c.said = a.said
    BY <1>7 DEF Claimed, Session
  <2> HIDE DEF c
  <2> QED  BY <1>6, <1>7, <2>1, <2>2, RemembersIs, RemembersSoundly
<1> HIDE DEF c
<1>10. /\ r.pc = c.pc /\ r.slot = c.slot /\ r.conv = c.conv /\ r.saves = c.saves
       /\ r.moves = c.moves /\ r.moved = c.moved /\ r.wrote = c.wrote
       /\ r.said = c.said /\ DOMAIN r = DOMAIN c
  BY <1>9 DEF Session
<1> HIDE DEF r
<1>11. \A t \in Slots : r.wrote[t] \in SUBSET Marks
  BY <1>9, <1>10 DEF Session
<1>12. ASSUME NEW q, sess'[p] = q, sess' = [sess EXCEPT ![p] = sess'[p]],
              q.pc = "live", q.slot = s, q.conv = Nothing, q.said = r.said,
              q.moved = r.moved, q.moves = r.moves, q.saves = r.saves,
              q.wrote[s] = {Mark(Nothing)}, rows'[s] = {Nothing},
              \A t \in Slots \ {s} :
                \/ rows'[t] = rows[t] /\ q.wrote[t] = o.wrote[t]
                \/ /\ Claims(o, t) /\ q.wrote[t] = {}
                   /\ rows'[t] = rows[t] \/ (rows[t] = {Nothing} /\ rows'[t] = {})
       PROVE  Keeps(p)
  <2>1. Sets(p)
    BY <1>3, <1>6, <1>12 DEF Sets
  <2>2. \A t \in Slots \ {s} : Spares(p, t) \/ Leaving(p, t)
    BY <1>12 DEF Spares, Leaving, o
  <2>3. Opens(p, s)
    BY <1>1, <1>6, <1>7, <1>8, <1>9, <1>10, <1>12, <2>2 DEF Opens, Claiming, Here, o
  <2> QED  BY <2>1, <2>3, OpensKeeps
<1>13. CASE r.conv # Nothing
  <2> DEFINE q == [r EXCEPT !.slot = s, !.conv = <<>>]
  <2>1. /\ sess'[p] = q /\ sess' = [sess EXCEPT ![p] = sess'[p]]
        /\ rows' = [rows EXCEPT ![s] = {<<>>}]
    BY <1>4, <1>13, BecomesIs
  <2>2. /\ q.pc = r.pc /\ q.slot = s /\ q.conv = Nothing /\ q.said = r.said
        /\ q.moved = r.moved /\ q.moves = r.moves /\ q.saves = r.saves
        /\ q.wrote = r.wrote
    BY <1>9, <1>10 DEF Session, Nothing
  <2>3. rows'[s] = {Nothing} /\ \A t \in Slots \ {s} : rows'[t] = rows[t]
    BY <1>1, <1>6, <2>1 DEF Store, Nothing
  <2> HIDE DEF q
  <2> QED  BY <1>1, <1>7, <1>9, <1>10, <1>12, <2>1, <2>2, <2>3
<1>14. CASE r.conv = Nothing
  <2> DEFINE w == [r.wrote EXCEPT ![r.slot] = IF Mine(r) THEN {} ELSE @]
             q == [r EXCEPT !.slot = s, !.wrote[r.slot] = IF Mine(r) THEN {} ELSE @]
             v == [r EXCEPT !.slot = s, !.wrote = w]
  <2>1. /\ sess'[p] = q /\ sess' = [sess EXCEPT ![p] = sess'[p]]
        /\ rows' = [Released(r) EXCEPT ![s] = {<<>>}]
    BY <1>5, <1>14, BecomesIs
  <2>2. r.slot \in Slots /\ r.slot # s /\ r.slot = o.slot
    BY <1>1, <1>6, <1>7, <1>9, <1>10
  <2>3. Mine(r) <=> Claims(o, o.slot)
    <3>1. Mine(c) <=> Claims(c, c.slot)
      BY <1>1, <1>7, <1>9, ReleasedIs
    <3>2. c.slot = o.slot /\ c.wrote[c.slot] = o.wrote[o.slot]
      BY <1>1, <1>6, <1>7, <1>9
    <3> QED  BY <1>10, <3>1, <3>2 DEF Mine, Claims
  <2>4. \A t \in Slots \ {s} : rows'[t] = rows[t] \/
             (t = o.slot /\ Mine(r) /\ rows[t] = {Nothing} /\ rows'[t] = {})
    BY <1>1, <2>1, <2>2 DEF Released, Store, Nothing
  <2>5. rows'[s] = {Nothing}
    BY <1>1, <1>6, <2>1, <2>2 DEF Released, Store, Nothing
  <2>6. q = v
    BY <1>9, <1>10 DEF Session
  <2>7. /\ Mine(r) => w[o.slot] = {}
        /\ ~Mine(r) => w[o.slot] = r.wrote[o.slot]
        /\ \A t \in Slots \ {o.slot} : w[t] = r.wrote[t]
    BY <1>9, <1>10, <2>2 DEF Session
  <2> HIDE DEF w, q
  <2>8. /\ v.pc = r.pc /\ v.slot = s /\ v.conv = r.conv /\ v.said = r.said
        /\ v.saves = r.saves /\ v.moves = r.moves /\ v.moved = r.moved /\ v.wrote = w
    BY <1>9, <1>10 DEF Session
  <2> HIDE DEF v
  <2>9. \A t \in Slots \ {s} :
          \/ rows'[t] = rows[t] /\ q.wrote[t] = o.wrote[t]
          \/ /\ Claims(o, t) /\ q.wrote[t] = {}
             /\ rows'[t] = rows[t] \/ (rows[t] = {Nothing} /\ rows'[t] = {})
    BY <1>7, <1>9, <1>10, <2>3, <2>4, <2>6, <2>7, <2>8
  <2>10. q.wrote[s] = {Mark(Nothing)}
    BY <1>6, <1>9, <1>10, <2>6, <2>7, <2>8
  <2> QED  BY <1>1, <1>7, <1>9, <1>10, <1>12, <1>14, <2>1, <2>5, <2>6, <2>8, <2>9, <2>10
<1> QED  BY <1>13, <1>14

\* Load: the session goes on from what it reads, in a slot it has not lost.
LEMMA LoadOrders ==
  ASSUME IInv, Opened, Orderly, Ready, NEW p \in Procs, Load(p)
  PROVE  Keeps(p)
<1>a. PICK x \in read[p] :
        Adopt(p, [sess[p] EXCEPT !.wrote[x.slot] = {Mark(x.conv)}, !.conv = x.conv,
                                 !.switches = @ + 1], x.slot)
  BY DEF Load
<1> DEFINE o == sess[p]
           q == sess'[p]
           s == x.slot
           c == x.conv
           u == [o EXCEPT !.wrote[s] = {Mark(c)}]
           v == [u EXCEPT !.conv = c, !.switches = o.switches + 1]
<1>1. /\ o \in Session /\ Sound(p, o) /\ o.pc = "live" /\ Store /\ o.slot \in Slots
      /\ o.switches < Switches
  BY KnownAre DEF Load, Opened
<1>2. /\ c \in Seq(Message) /\ c # Nothing /\ s \in Slots /\ Filled(s) /\ s \in Known
      /\ Behind(o, s, c) /\ IsPrefix(c, Row(s))
      /\ Row(s) \in Seq(Message) /\ rows[s] = {Row(s)}
  <2>1. c \in Seq(Message) /\ c # Nothing /\ s \in Slots /\ Filled(s)
    BY DEF Opened
  <2>2. Row(s) \in Seq(Message) /\ rows[s] = {Row(s)} /\ s \in Known
    BY <1>1, <2>1, RowIs DEF Filled, Store
  <2>3. Behind(o, s, c) /\ IsPrefix(c, Row(s))
    BY <2>2 DEF Ready
  <2> QED  BY <2>1, <2>2, <2>3
<1>3. Adopt(p, v, s) /\ UNCHANGED <<minted, parents>>
  BY <1>a DEF Load
<1>4. o.moved[s] = {} /\ \A j \in o.saves : j.from # s /\ s \notin o.moved[j.from]
  BY DEF Ready
<1>0. /\ Own(rows, o)
      /\ \A j \in o.saves : j.from \in Slots
      /\ \A t \in Slots : \A a \in o.moved[t] : a \in Slots
  BY PlacesKnown DEF Orderly
<1>5. \A t \in Slots : \A d : Spares(p, t) \/ Leaving(p, t) =>
        (Goes(rows, o, t, d) => Goes(rows', q, t, d))
  BY GoesStill
<1> HIDE DEF o, s, c
<1>6. o.switches + 1 \in 0..Switches
  BY <1>1, ChatSlotsAssumption DEF Session
<1>7. Remembers(u, o, s, c) /\ u.said = o.said
  BY <1>1 DEF Remembers, Session
<1> HIDE DEF u
<1>8. /\ u \in Session /\ u.pc = o.pc /\ u.slot = o.slot
      /\ u.saves = o.saves /\ u.moves = o.moves /\ u.moved = o.moved
      /\ \A t \in Slots \ {s} : u.wrote[t] = o.wrote[t]
      /\ u.wrote[s] = {Mark(c)} /\ Sound(p, u)
  BY <1>1, <1>2, <1>7, RemembersIs, RemembersSoundly
<1>9. /\ v \in Session /\ v.pc = o.pc /\ v.slot = o.slot /\ v.conv = c
      /\ v.saves = o.saves /\ v.moves = o.moves /\ v.said = o.said
      /\ v.moved = o.moved /\ v.wrote = u.wrote
  BY <1>2, <1>6, <1>7, <1>8 DEF Session
<1> HIDE DEF v
<1>10. Sound(p, v)
  BY <1>1, <1>8, <1>9, AsSound
<1>11. /\ sess' = [sess EXCEPT ![p] = q] /\ sess \in [Procs -> Session]
       /\ q.pc = v.pc /\ q.slot = s /\ q.conv = v.conv /\ q.said = v.said
       /\ q.saves = v.saves /\ q.moves = v.moves /\ q.moved = v.moved
       /\ \A t \in Slots :
            \/ rows'[t] = rows[t] /\ q.wrote[t] = v.wrote[t]
            \/ /\ t # s /\ Claims(v, t) /\ q.wrote[t] = {}
               /\ rows'[t] = rows[t] \/ (rows[t] = {Nothing} /\ rows'[t] = {})
  BY <1>1, <1>2, <1>3, <1>9, <1>10, AdoptLeaves
<1>12. Here(q) /\ Here(o)
  BY <1>1, <1>9, <1>11 DEF Here
<1> HIDE DEF q
<1>13. \A t \in Slots \ {s} : Spares(p, t) \/ Leaving(p, t)
  BY <1>8, <1>9, <1>11 DEF Spares, Leaving, Claims, o, q
<1>14. Reading(p, s) /\ q.wrote[s] = {Mark(c)}
  BY <1>2, <1>8, <1>9, <1>11 DEF Reading, o, q
<1>15. \A t \in Slots : \A m : Stores(rows', t, m) => Stores(rows, t, m)
  <2>1. \A t \in Slots : rows'[t] = rows[t] \/ rows'[t] = {}
    BY <1>11
  <2> QED  BY <2>1 DEF Stores
<1>16. Steps(p)
  <2>1. \A t \in Slots : Touches(p, t)
    BY <1>13, <1>14 DEF Touches
  <2>2. \A t \in Slots : Places(q, t) => Places(o, t) \/ Filled(t)
    BY <1>2, <1>9, <1>11 DEF Places
  <2> QED  BY <1>3, <1>9, <1>11, <2>1, <2>2 DEF Steps, Uses, o, q
<1>17. Own(rows', q)
  <2>1. ASSUME NEW j \in q.saves PROVE Lands(rows', q, j)
    <3>1. /\ Lands(rows, o, j) /\ j.from \in Slots /\ j.from # s /\ s \notin o.moved[j.from]
          /\ \A t \in o.moved[j.from] : t \in Slots /\ t # s
      BY <1>0, <1>4, <1>9, <1>11 DEF Own
    <3> QED  BY <1>5, <1>9, <1>11, <1>13, <3>1 DEF Lands
  <2>2. Goes(rows', q, s, c)
    BY <1>2, <1>14, GoesWritten, PrefixEnds
  <2>3. Stands(rows', q)
    BY <1>4, <1>9, <1>11, <2>2 DEF Stands
  <2>4. Follows(q) /\ q.pc # "off"
    BY <1>0, <1>9, <1>11, <1>12 DEF Own, Follows, Here
  <2> QED  BY <1>0, <1>9, <1>11, <2>1, <2>3, <2>4 DEF Own
<1>18. \A m : m \in ToSet(c) => Reads(q, m) /\ Stores(rows, s, m)
  <2>1. Mark(c).digest = c
    BY <1>2, MarkIs
  <2>2. ToSet(c) \subseteq ToSet(Row(s))
    BY <1>2, PrefixOrder
  <2> QED  BY <1>2, <1>14, <2>1, <2>2 DEF Reads, Stores
<1>19. \A m : Has(q, m) => Has(o, m) \/ m \in ToSet(c)
  BY <1>9, <1>11 DEF Has
<1>20. ASSUME NEW m, Home(rows, o, m) PROVE Home(rows', q, m)
  <2>1. \A t \in Slots : Near(rows', q, m, t) => Near(rows, o, m, t)
    BY <1>9, <1>11, <1>15, <1>18 DEF Near
  <2> QED  BY <1>9, <1>11, <1>20, <2>1, HomeStays
<1>21. Tells(p)
  BY <1>2, <1>9, <1>11, <1>18, <1>19, <1>20 DEF Tells, o, q
<1> QED  BY <1>16, <1>17, <1>21 DEF Keeps, q

\* Note: the session follows its conversation to where it goes on.
LEMMA NoteOrders ==
  ASSUME IInv, Orderly, NEW p \in Procs, Note(p)
  PROVE  Keeps(p)
<1>1. PICK m \in sess[p].moves :
        LET r == [sess[p] EXCEPT !.moves = @ \ {m}] IN
        IF m.from = r.slot THEN Adopt(p, r, m.to) ELSE Becomes(p, r) /\ UNCHANGED rows
  BY DEF Note
<1> DEFINE o == sess[p]
           q == sess'[p]
           r == [o EXCEPT !.moves = o.moves \ {m}]
           t == m.to
<1>2. /\ o \in Session /\ Sound(p, o) /\ Store /\ Here(o) /\ t \in Slots
      /\ m.from \in Slots /\ o.slot \in Slots
  BY PlacesKnown, KnownAre DEF Note, Here, Notes
<1>3. IF m.from = r.slot THEN Adopt(p, r, t) ELSE Becomes(p, r) /\ UNCHANGED rows
  BY <1>1
<1>0. /\ Own(rows, o) /\ minted' = minted /\ m \in o.moves
      /\ \A j \in o.saves : j.from \in Slots
      /\ \A s \in Slots : \A a \in o.moved[s] : a \in Slots
  BY PlacesKnown DEF Orderly, Note
<1>4. \A s \in Slots : \A c : Spares(p, s) \/ Leaving(p, s) =>
        (Goes(rows, o, s, c) => Goes(rows', q, s, c))
  BY GoesStill
<1> HIDE DEF o
<1>5. /\ r \in Session /\ r.pc = o.pc /\ r.slot = o.slot /\ r.conv = o.conv
      /\ r.saves = o.saves /\ r.moves \subseteq o.moves /\ r.said = o.said
      /\ r.moved = o.moved /\ r.wrote = o.wrote
  BY <1>2 DEF Session
<1> HIDE DEF r
<1>6. Sound(p, r)
  BY <1>2, <1>5, AsSound DEF Here
<1>7. CASE m.from # o.slot
  <2>1. Becomes(p, r) /\ rows' = rows
    BY <1>3, <1>5, <1>7
  <2>2. q = r /\ sess' = [sess EXCEPT ![p] = q] /\ sess \in [Procs -> Session]
    BY <2>1, BecomesIs DEF IInv, Sessions
  <2>3. Sets(p)
    BY <1>0, <2>2 DEF Sets
  <2>4. Bound(o) /\ \A j \in o.saves : j \in Saves
    BY <1>2 DEF Sound, Session
  <2>5. \A j \in o.saves : /\ j.to \in {j.from} \cup o.moved[j.from]
                           /\ j.at = "again" => j.to \in o.moved[j.from]
    BY <1>0, <2>4 DEF Own, Lands, Bound
  <2> HIDE DEF q
  <2>6. \A j \in q.saves : \E i \in o.saves :
          /\ j.from = i.from /\ j.conv = i.conv /\ j.to \in {i.from} \cup o.moved[i.from]
          /\ j.at = "again" => j.to \in o.moved[i.from]
    BY <1>5, <2>2, <2>5
  <2>7. Quiet(p)
    BY <1>0, <1>2, <1>5, <2>1, <2>2, <2>6 DEF Quiet, Spares, Here, Own, o, q
  <2> QED  BY <2>3, <2>7, QuietKeeps
<1>8. CASE m.from = o.slot
  <2>1. Adopt(p, r, t)
    BY <1>3, <1>5, <1>8
  <2>2. /\ sess' = [sess EXCEPT ![p] = q] /\ sess \in [Procs -> Session]
        /\ q.pc = r.pc /\ q.slot = t /\ q.conv = r.conv /\ q.said = r.said
        /\ q.saves = r.saves /\ q.moves = r.moves /\ q.moved = r.moved
        /\ \A s \in Slots :
             \/ rows'[s] = rows[s] /\ q.wrote[s] = r.wrote[s]
             \/ /\ s # t /\ Claims(r, s) /\ q.wrote[s] = {}
                /\ rows'[s] = rows[s] \/ (rows[s] = {Nothing} /\ rows'[s] = {})
    BY <1>2, <1>5, <1>6, <2>1, AdoptLeaves
  <2> HIDE DEF q
  <2>3. \A s \in Slots : Spares(p, s) \/ Leaving(p, s)
    BY <1>5, <2>2 DEF Spares, Leaving, Claims, o, q
  <2>4. Sets(p)
    BY <1>0, <2>2 DEF Sets
  <2>5. Here(q)
    BY <1>2, <1>5, <2>2 DEF Here
  <2>6. /\ t \in o.moved[o.slot] /\ o.moved[t] = {} /\ Goes(rows, o, t, o.conv)
        /\ \A j \in o.saves : j.from # t
    BY <1>0, <1>2, <1>8 DEF Own, Stands, Follows
  <2>7. Steps(p)
    <3>1. \A s \in Slots : Touches(p, s)
      BY <2>3 DEF Touches
    <3>2. \A s \in Slots : Places(q, s) => Places(o, s)
      BY <1>2, <1>5, <2>2, <2>6 DEF Places
    <3> QED  BY <1>5, <2>2, <2>4, <3>1, <3>2 DEF Steps, Sets, Uses, o, q
  <2>8. Own(rows', q)
    <3>1. ASSUME NEW j \in q.saves PROVE Lands(rows', q, j)
      <4>1. /\ Lands(rows, o, j) /\ j.from \in Slots
            /\ \A s \in o.moved[j.from] : s \in Slots
        BY <1>0, <1>5, <2>2 DEF Own
      <4>2. t \in {j.from} \cup o.moved[j.from] => j.from = o.slot
        BY <1>0, <1>2, <1>5, <2>2, <2>6, <4>1 DEF Own, Follows
      <4> QED  BY <1>2, <1>4, <1>5, <2>2, <2>3, <4>1, <4>2 DEF Lands
    <3>2. Stands(rows', q)
      BY <1>2, <1>4, <1>5, <2>2, <2>3, <2>6 DEF Stands
    <3>3. Follows(q) /\ q.pc # "off"
      BY <1>0, <1>5, <2>2, <2>5 DEF Own, Follows, Here
    <3> QED  BY <1>0, <1>5, <2>2, <3>1, <3>2, <3>3 DEF Own
  <2>9. \A n : Has(q, n) => Has(o, n)
    BY <1>5, <2>2 DEF Has
  <2>10. ASSUME NEW n, Home(rows, o, n) PROVE Home(rows', q, n)
    <3>1. \A s \in Slots : Stores(rows', s, n) => Stores(rows, s, n)
      <4>1. \A s \in Slots : rows'[s] = rows[s] \/ rows'[s] = {}
        BY <2>2
      <4> QED  BY <4>1 DEF Stores
    <3>2. \A s \in Slots : Near(rows', q, n, s) =>
            Near(rows, o, n, s) \/ (Reaches(rows, o, n, s) /\ o.moved[s] = {})
      BY <1>2, <1>5, <2>2, <2>6, <3>1 DEF Near, Reaches
    <3> QED  BY <1>5, <2>2, <2>10, <3>2, HomeStays
  <2>11. Tells(p)
    BY <1>5, <2>2, <2>9, <2>10 DEF Tells, o, q
  <2> QED  BY <2>7, <2>8, <2>11 DEF Keeps, q
<1> QED  BY <1>7, <1>8

\* A step at which a save is taken, to the slot it goes to.
Writes(p, j, s) ==
  /\ s \in Slots /\ Writing(p, s, j) /\ \A t \in Slots \ {s} : Spares(p, t)
  /\ sess'[p].pc = sess[p].pc /\ sess'[p].slot = sess[p].slot
  /\ sess'[p].conv = sess[p].conv /\ sess'[p].said = sess[p].said
  /\ sess'[p].moved = sess[p].moved /\ sess'[p].saves = {}
  /\ \A m \in sess'[p].moves : m \in sess[p].moves \/ m.to \in sess[p].moved[m.from]

\* Such a step keeps the order.
LEMMA WritesKeeps ==
  ASSUME IInv, Orderly, NEW p \in Procs, NEW j \in sess[p].saves, NEW s, Sets(p),
         Writes(p, j, s)
  PROVE  Keeps(p)
<1> DEFINE o == sess[p]
           q == sess'[p]
<1>1. /\ Own(rows, o) /\ Lands(rows, o, j) /\ j.from \in Slots /\ j.conv \in Seq(Message)
      /\ \A t \in Slots : \A a \in o.moved[t] : a \in Slots
      /\ Here(o) => o.slot \in Slots
      /\ o.pc # "off" /\ o.conv \in Seq(Message)
  BY PlacesKnown, KnownAre DEF Orderly, Own, Sound, Idle
<1>2. /\ s \in Slots /\ (s = j.from \/ (j.at = "again" /\ s = j.to))
      /\ q.pc = o.pc /\ q.slot = o.slot /\ q.conv = o.conv /\ q.said = o.said
      /\ q.moved = o.moved /\ q.saves = {}
      /\ \A m \in q.moves : m \in o.moves \/ m.to \in o.moved[m.from]
      /\ rows'[s] = {j.conv} /\ q.wrote[s] = {Mark(j.conv)}
      /\ \A t \in Slots \ {s} : rows'[t] = rows[t] /\ Spares(p, t)
  BY DEF Writes, Writing, Spares
<1>3. \A t \in Slots \ {s} : \A c : Goes(rows, o, t, c) => Goes(rows', q, t, c)
  BY <1>2, GoesStill
<1>4. \A c : IsPrefix(j.conv, c) => Goes(rows', q, s, c)
  BY <1>1, <1>2, GoesWritten
<1>5. \A t \in Slots : Touches(p, t)
  BY DEF Writes, Touches
<1>6. j \in o.saves
  OBVIOUS
<1> HIDE DEF o, q
<1>7. Steps(p)
  <2>1. \A t \in Slots : Places(q, t) => Places(o, t)
    BY <1>2 DEF Places, Here
  <2> QED  BY <1>2, <1>5, <2>1 DEF Steps, Sets, Uses, o, q
<1>8. s \in {j.from} \cup o.moved[j.from]
  BY <1>1, <1>2 DEF Lands
<1>9. Stands(rows', q)
  <2>1. ASSUME Here(o)
        PROVE  /\ Goes(rows', q, o.slot, o.conv)
               /\ \A t \in o.moved[o.slot] : Goes(rows', q, t, o.conv) /\ o.moved[t] = {}
    <3>1. Stands(rows, o) /\ o.slot \in Slots
      BY <1>1, <2>1 DEF Own
    <3>2. Goes(rows', q, o.slot, o.conv)
      BY <1>1, <1>3, <1>4, <1>8, <2>1, <3>1 DEF Stands, Lands
    <3>3. ASSUME NEW t \in o.moved[o.slot]
          PROVE  Goes(rows', q, t, o.conv) /\ o.moved[t] = {}
      <4>1. t \in Slots /\ Goes(rows, o, t, o.conv) /\ o.moved[t] = {} /\ j.from # t
        BY <1>1, <1>6, <2>1, <3>1 DEF Stands
      <4>2. t = s => j.from = o.slot
        BY <1>1, <1>8, <3>1, <4>1 DEF Own, Follows
      <4> QED  BY <1>1, <1>3, <1>4, <2>1, <4>1, <4>2 DEF Lands
    <3> QED  BY <3>2, <3>3
  <2> QED  BY <1>2, <2>1 DEF Stands, Here
<1>10. Own(rows', q)
  <2>1. Follows(q)
    BY <1>1, <1>2 DEF Own, Follows
  <2> QED  BY <1>1, <1>2, <1>9, <2>1 DEF Own
<1>11. \A m : Has(q, m) => Has(o, m)
  BY <1>2 DEF Has
<1>12. ASSUME NEW m, Home(rows, o, m) PROVE Home(rows', q, m)
  <2>1. \A t \in Slots : Stores(rows', t, m) => Near(rows, o, m, t)
    BY <1>2, <1>6 DEF Stores, Near
  <2>2. \A t \in Slots : Near(rows', q, m, t) => Near(rows, o, m, t)
    BY <1>2, <2>1 DEF Near, Here
  <2> QED  BY <1>2, <1>12, <2>2, HomeStays
<1>13. Tells(p)
  BY <1>2, <1>11, <1>12 DEF Tells, o, q
<1> QED  BY <1>7, <1>10, <1>13 DEF Keeps, q

\* SaveLands and MoveLands: the row goes on as the conversation does.
LEMMA TakenOrders ==
  ASSUME IInv, Orderly, NEW p \in Procs, NEW j \in sess[p].saves,
         SaveLands(p, j) \/ MoveLands(p, j)
  PROVE  Keeps(p)
<1> DEFINE o == sess[p]
           u == Without(o, j)
           n == [from |-> j.from, to |-> j.to]
<1>1. /\ o \in Session /\ Sound(p, o) /\ Store /\ j \in o.saves /\ j.from \in Slots
      /\ j.to \in Slots /\ j.conv \in Seq(Message) /\ Lands(rows, o, j)
      /\ \A k, l \in o.saves : k = l
  BY KnownAre DEF Orderly, Own
<1>2. PICK s \in {j.from, j.to} :
        /\ s = j.from \/ (j.at = "again" /\ s = j.to)
        /\ ~Refused(o, s) /\ rows' = Saved(o, s, j.conv) /\ minted' = minted
        /\ LET r == [u EXCEPT !.wrote[s] = {Mark(j.conv)}] IN
           \/ Becomes(p, r)
           \/ /\ s = j.to /\ j.at = "again"
              /\ Becomes(p, [r EXCEPT !.moves = r.moves \cup {n}])
           \/ Becomes(p, [r EXCEPT !.clean = FALSE])
  BY DEF SaveLands, MoveLands
<1> DEFINE r == [u EXCEPT !.wrote[s] = {Mark(j.conv)}]
           q1 == [r EXCEPT !.moves = r.moves \cup {n}]
           q2 == [r EXCEPT !.clean = FALSE]
<1>3. \/ Becomes(p, r) \/ (s = j.to /\ j.at = "again" /\ Becomes(p, q1)) \/ Becomes(p, q2)
  BY <1>2
<1>4. /\ sess'[p] = r \/ (s = j.to /\ j.at = "again" /\ sess'[p] = q1) \/ sess'[p] = q2
      /\ sess' = [sess EXCEPT ![p] = sess'[p]] /\ sess \in [Procs -> Session]
  BY <1>3, BecomesIs DEF IInv, Sessions
<1>5. s \in Slots /\ Goes(rows, o, s, j.conv)
  BY <1>1, <1>2 DEF Lands
<1>6. rows' = [rows EXCEPT ![s] = {j.conv}] /\ \A b \in rows[s] : IsPrefix(b, j.conv)
  BY <1>1, <1>2, <1>5, SavedWhole
<1>7. rows'[s] = {j.conv} /\ \A t \in Slots \ {s} : rows'[t] = rows[t]
  BY <1>1, <1>5, <1>6 DEF Store
<1>8. n.from = j.from /\ n.to = j.to
  OBVIOUS
<1> HIDE DEF o, n
<1>9. /\ u \in Session /\ u.pc = o.pc /\ u.slot = o.slot /\ u.conv = o.conv
      /\ u.wrote = o.wrote /\ u.moves = o.moves /\ u.moved = o.moved
      /\ u.saves = {} /\ u.said = o.said
  BY <1>1 DEF Session, Without
<1> HIDE DEF u
<1>10. Remembers(r, u, s, j.conv) /\ r.said = u.said
  BY <1>9 DEF Remembers, Session
<1> HIDE DEF r
<1>11. /\ r \in Session /\ r.pc = u.pc /\ r.slot = u.slot /\ r.conv = u.conv
       /\ r.saves = u.saves /\ r.moves = u.moves /\ r.moved = u.moved
       /\ \A t \in Slots \ {s} : r.wrote[t] = u.wrote[t]
       /\ r.wrote[s] = {Mark(j.conv)}
  BY <1>1, <1>5, <1>9, <1>10, RemembersIs
<1>12. /\ q1.pc = r.pc /\ q1.slot = r.slot /\ q1.conv = r.conv /\ q1.said = r.said
       /\ q1.saves = r.saves /\ q1.moves = r.moves \cup {n} /\ q1.moved = r.moved
       /\ q1.wrote = r.wrote
       /\ q2.pc = r.pc /\ q2.slot = r.slot /\ q2.conv = r.conv /\ q2.said = r.said
       /\ q2.saves = r.saves /\ q2.moves = r.moves /\ q2.moved = r.moved
       /\ q2.wrote = r.wrote
  BY <1>11 DEF Session
<1> HIDE DEF q1, q2
<1> DEFINE q == sess'[p]
<1>13. /\ q.pc = o.pc /\ q.slot = o.slot /\ q.conv = o.conv /\ q.said = o.said
       /\ q.saves = {} /\ q.moved = o.moved
       /\ \A t \in Slots \ {s} : q.wrote[t] = o.wrote[t]
       /\ q.wrote[s] = {Mark(j.conv)}
  BY <1>4, <1>9, <1>10, <1>11, <1>12
<1>14. ASSUME NEW m \in q.moves PROVE m \in o.moves \/ m.to \in o.moved[m.from]
  <2>1. m \in o.moves \/ (m = n /\ j.at = "again")
    BY <1>4, <1>9, <1>11, <1>12, <1>14
  <2>2. j.at = "again" => j.to \in o.moved[j.from]
    BY <1>1 DEF Lands
  <2> QED  BY <1>8, <2>1, <2>2
<1>15. Sets(p)
  BY <1>2, <1>4 DEF Sets
<1>16. Writing(p, s, j) /\ \A t \in Slots \ {s} : Spares(p, t)
  BY <1>2, <1>6, <1>7, <1>13 DEF Writing, Spares, o
<1>17. Writes(p, j, s)
  BY <1>5, <1>13, <1>14, <1>16 DEF Writes, o
<1> QED  BY <1>15, <1>17, WritesKeeps

\* Move: a conversation from there goes on in the new slot, and only there.
LEMMA MoveOrders ==
  ASSUME IInv, Orderly, NEW p \in Procs, NEW j \in sess[p].saves, Move(p, j)
  PROVE  Keeps(p)
<1> DEFINE o == sess[p]
<1>1. /\ o \in Session /\ Store /\ j \in o.saves /\ j \in Saves /\ j.from \in Slots
      /\ j.from \in Known /\ j.conv \in Seq(Message) /\ j.at = "move"
      /\ o.pc # "off" /\ Lands(rows, o, j) /\ Own(rows, o)
      /\ \A k, l \in o.saves : k = l
      /\ \A t \in Slots : \A a \in o.moved[t] : a \in Slots /\ a \in Known
      /\ Here(o) => o.slot \in Slots /\ o.slot \in Known
      /\ o.conv \in Seq(Message)
  BY KnownAre, PlacesKnown DEF Sound, Idle, Move, Orderly, Own
<1>2. PICK s \in MoveTo(sess[p], j) :
        LET r == [sess[p] EXCEPT !.moved[j.from] = {s},
                    !.saves = (@ \ {j}) \cup {[j EXCEPT !.at = "again", !.to = s]}]
        IN  IF Unused(s) THEN /\ Becomes(p, Claimed(r, s))
                              /\ rows' = [rows EXCEPT ![s] = {<<>>}]
                              /\ minted' = minted \cup {s}
                         ELSE Becomes(p, r) /\ UNCHANGED <<minted, rows>>
  BY DEF Move
<1> DEFINE i == [j EXCEPT !.at = "again", !.to = s]
           m == [o.moved EXCEPT ![j.from] = {s}]
           r == [o EXCEPT !.moved[j.from] = {s}, !.saves = (o.saves \ {j}) \cup {i}]
           v == [o EXCEPT !.moved = m, !.saves = (o.saves \ {j}) \cup {i}]
<1>3. r = v
  BY <1>1 DEF Session
<1>4. Unused(s) => /\ Becomes(p, Claimed(r, s)) /\ rows' = [rows EXCEPT ![s] = {<<>>}]
                   /\ minted' = minted \cup {s}
  BY <1>2
<1>5. ~Unused(s) => Becomes(p, r) /\ minted' = minted /\ rows' = rows
  BY <1>2
<1>6. /\ o.moved[j.from] # {} => s \in o.moved[j.from]
      /\ o.moved[j.from] = {} => Unused(s)
  BY <1>2 DEF MoveTo
<1>7. i.from = j.from /\ i.to = s /\ i.conv = j.conv /\ i.at = "again"
  BY <1>1 DEF Saves
<1>8. /\ m[j.from] = {s} /\ \A t \in Slots \ {j.from} : m[t] = o.moved[t]
      /\ DOMAIN m = Slots
  BY <1>1 DEF Session
<1>9. Unused(s) => s \in Slots /\ s \in Names /\ s \notin Known
  BY <1>1, UnusedIs
<1>10. s \in Names
  BY <1>1, <1>6, <1>9 DEF Session
<1>11. (o.saves \ {j}) \cup {i} = {i}
  BY <1>1
<1>12. sess \in [Procs -> Session]
  BY DEF IInv, Sessions
<1> HIDE DEF o, i, r
<1>13. /\ r.pc = o.pc /\ r.slot = o.slot /\ r.conv = o.conv /\ r.said = o.said
       /\ r.wrote = o.wrote /\ r.moves = o.moves /\ r.moved = m /\ r.saves = {i}
       /\ (i \in Saves => r \in Session)
  <2>1. m \in [Slots -> SUBSET Names]
    BY <1>1, <1>10 DEF Session
  <2> HIDE DEF m
  <2> QED  BY <1>1, <1>3, <1>11, <2>1 DEF Session
<1>14. i \in Saves
  BY <1>1, <1>10 DEF i, Saves, Slots
<1> HIDE DEF m, v
\* The conversation goes where the slot went before.
<1>15. CASE ~Unused(s)
  <2>1. /\ sess'[p] = r /\ sess' = [sess EXCEPT ![p] = sess'[p]]
        /\ minted' = minted /\ rows' = rows
    BY <1>5, <1>15, BecomesIs
  <2>2. s \in o.moved[j.from]
    BY <1>6, <1>15
  <2>3. m = o.moved
    <3>1. \A t \in o.moved[j.from] : t = s
      BY <1>1, <2>2 DEF Own, Follows
    <3>2. m[j.from] = o.moved[j.from]
      BY <1>8, <2>2, <3>1
    <3>3. \A t \in Slots : m[t] = o.moved[t]
      BY <1>8, <3>2
    <3> QED  BY <1>1, <1>8, <3>3 DEF m, Session
  <2>4. Sets(p)
    BY <1>12, <2>1 DEF Sets
  <2>5. Quiet(p)
    BY <1>1, <1>7, <1>13, <2>1, <2>2, <2>3 DEF Quiet, Spares, Here, o
  <2> QED  BY <2>4, <2>5, QuietKeeps
\* It goes to a slot claimed now.
<1>16. CASE Unused(s)
  <2> DEFINE q == Claimed(r, s)
  <2>1. /\ sess'[p] = q /\ sess' = [sess EXCEPT ![p] = sess'[p]]
        /\ minted' = minted \cup {s} /\ rows' = [rows EXCEPT ![s] = {<<>>}]
    BY <1>4, <1>16, BecomesIs
  <2>2. Remembers(q, r, s, Nothing) /\ q.said = r.said
    BY <1>13, <1>14 DEF Claimed, Remembers, Nothing, Session
  <2> HIDE DEF q
  <2>3. /\ q.pc = o.pc /\ q.slot = o.slot /\ q.conv = o.conv /\ q.said = o.said
        /\ q.saves = {i} /\ q.moves = o.moves /\ q.moved = m
        /\ \A t \in Slots \ {s} : q.wrote[t] = o.wrote[t]
        /\ q.wrote[s] = {Mark(Nothing)}
    BY <1>9, <1>13, <1>14, <1>16, <2>2, RemembersIs, EmptyConversation
  <2>4. /\ s \in Slots /\ s \notin Known /\ s # j.from /\ o.moved[j.from] = {}
        /\ o.moved[s] = {} /\ m[s] = {}
    <3>1. s \in Slots /\ s \notin Known /\ s # j.from
      BY <1>1, <1>9, <1>16
    <3>2. o.moved[s] = {}
      BY <3>1, PlacesKnown DEF o
    <3>3. o.moved[j.from] = {}
      BY <1>1, <1>6, <3>1
    <3> QED  BY <1>8, <3>1, <3>2, <3>3
  <2>5. /\ rows'[s] = {Nothing} /\ \A t \in Slots \ {s} : rows'[t] = rows[t]
    BY <1>1, <2>1, <2>4 DEF Store, Nothing
  <2>6. Claiming(p, s) /\ \A t \in Slots \ {s} : Spares(p, t)
    BY <2>1, <2>3, <2>4, <2>5 DEF Claiming, Spares, o
  <2>7. \A t \in Slots \ {s} : \A c : Goes(rows, o, t, c) => Goes(rows', q, t, c)
    BY <2>1, <2>6, GoesStill DEF o
  <2>8. \A c \in Seq(Message) : Goes(rows', q, s, c)
    BY <2>3, GoesWritten, PrefixEnds, EmptyConversation
  <2>9. Steps(p)
    <3>1. \A t \in Slots : Touches(p, t)
      BY <2>6 DEF Touches
    <3>2. \A t \in Slots : Places(q, t) => Places(o, t) \/ t \notin Known
      <4>1. \A t \in Slots, a \in Slots : t \in q.moved[a] => t = s \/ t \in o.moved[a]
        BY <1>8, <2>3
      <4> QED  BY <1>1, <1>7, <2>3, <2>4, <4>1 DEF Places, Here
    <3>3. \A t \in Slots : q.moved[t] # {} => o.moved[t] # {} \/ Uses(o, t)
      BY <1>1, <1>8, <2>3 DEF Uses, Places
    <3> QED  BY <1>12, <2>1, <3>1, <3>2, <3>3 DEF Steps, Uses, o
  <2>10. Lands(rows', q, i)
    <3>1. Goes(rows', q, j.from, j.conv) /\ Goes(rows', q, s, j.conv)
      BY <1>1, <2>4, <2>7, <2>8 DEF Lands
    <3>2. Here(q) /\ q.slot \in {j.from, s} => IsPrefix(j.conv, q.conv)
      BY <1>1, <2>3, <2>4 DEF Lands, Here
    <3> QED  BY <1>7, <1>8, <2>3, <2>4, <3>1, <3>2 DEF Lands
  <2>11. Stands(rows', q)
    <3>1. ASSUME Here(o)
          PROVE  /\ Goes(rows', q, o.slot, o.conv)
                 /\ \A t \in m[o.slot] : /\ Goes(rows', q, t, o.conv) /\ m[t] = {}
                                         /\ j.from # t
      <4>1. o.slot \in Slots /\ o.slot # s /\ Stands(rows, o)
        BY <1>1, <2>4, <3>1 DEF Own
      <4>2. Goes(rows', q, o.slot, o.conv)
        BY <2>7, <3>1, <4>1 DEF Stands
      <4>3. CASE o.slot = j.from
        BY <1>1, <1>8, <2>4, <2>8, <4>2, <4>3
      <4>4. CASE o.slot # j.from
        <5>1. m[o.slot] = o.moved[o.slot]
          BY <1>8, <4>1, <4>4
        <5>2. \A t \in o.moved[o.slot] : /\ t \in Slots /\ t # s /\ t # j.from
                                         /\ Goes(rows, o, t, o.conv) /\ o.moved[t] = {}
          BY <1>1, <2>4, <3>1, <4>1 DEF Stands
        <5> QED  BY <1>8, <2>7, <4>2, <5>1, <5>2
      <4> QED  BY <4>3, <4>4
    <3> QED  BY <1>7, <2>3, <3>1 DEF Stands, Here
  <2>12. Follows(q)
    <3>1. ASSUME NEW a \in Slots, NEW b \in Slots, NEW x \in m[a], NEW y \in m[b]
          PROVE  a = b <=> x = y
      <4>1. /\ (a = j.from /\ x = s) \/ (a # j.from /\ x \in o.moved[a] /\ x # s)
            /\ (b = j.from /\ y = s) \/ (b # j.from /\ y \in o.moved[b] /\ y # s)
        BY <1>1, <1>8, <2>4, <3>1
      <4> QED  BY <1>1, <4>1 DEF Own, Follows
    <3>2. ASSUME NEW n \in o.moves PROVE n.to \in m[n.from]
      <4>1. n.from \in Slots /\ n.to \in o.moved[n.from]
        BY <1>1, <3>2 DEF Own, Follows, Session, Notes
      <4> QED  BY <1>8, <2>4, <4>1
    <3> QED  BY <2>3, <3>1, <3>2 DEF Follows
  <2>13. Own(rows', q)
    BY <1>1, <2>3, <2>10, <2>11, <2>12 DEF Own
  <2>14. \A n : Has(q, n) => Has(o, n)
    BY <1>1, <1>7, <2>3 DEF Has
  <2>15. ASSUME NEW n, Home(rows, o, n) PROVE Home(rows', q, n)
    <3>1. \A t \in Slots : Stores(rows', t, n) => Stores(rows, t, n)
      <4>1. n \notin ToSet(Nothing)
        BY PrefixEnds, EmptyConversation
      <4> QED  BY <2>5, <4>1 DEF Stores
    <3>2. \A t \in Slots : Near(rows', q, n, t) =>
            Near(rows, o, n, t) \/ (t = s /\ Near(rows, o, n, j.from))
      BY <1>1, <1>7, <2>3, <3>1 DEF Near, Here
    <3>3. \A t \in Slots : Reaches(rows', q, n, t) =>
            Reaches(rows, o, n, t) \/ (t = s /\ Near(rows, o, n, j.from))
      <4>1. \A t \in Slots, a \in Slots : t \in q.moved[a] =>
              (t = s /\ a = j.from) \/ (a # s /\ t \in o.moved[a])
        BY <1>8, <2>3, <2>4
      <4> QED  BY <2>4, <3>2, <4>1 DEF Reaches
    <3>4. /\ \A t \in Slots : q.moved[t] = {} => t # j.from /\ o.moved[t] = {}
          /\ Near(rows, o, n, j.from) => Reaches(rows, o, n, j.from)
      BY <1>8, <2>3, <2>4 DEF Reaches
    <3> QED  BY <1>1, <2>4, <2>15, <3>3, <3>4 DEF Home
  <2>16. Tells(p)
    BY <2>1, <2>3, <2>14, <2>15 DEF Tells, o
  <2> QED  BY <2>1, <2>9, <2>13, <2>16 DEF Keeps
<1> QED  BY <1>15, <1>16

-----------------------------------------------------------------------------
(***************************************************************************)
(* The theorems about sessions that save one at a time.                    *)
(***************************************************************************)

\* Nothing was said and nothing is saved when nobody has started.
LEMMA OrderlyAtFirst ==
  ASSUME Init
  PROVE  Orderly /\ Told /\ Ready
<1>0. Store
  BY Start0 DEF IInv
<1>1. /\ rows = [s \in Slots |-> {}] /\ \A p \in Procs : sess[p] = Off
  BY DEF Init
<1>2. /\ Off.saves = {} /\ Off.moves = {} /\ Off.conv = Nothing /\ ~Here(Off)
      /\ \A s \in Slots : Off.wrote[s] = {} /\ Off.moved[s] = {}
  BY DEF Off, Nothing, Here
<1> HIDE DEF Off
<1>3. \A p \in Procs, s \in Slots :
        Fits(rows, sess[p], s) /\ ~Uses(sess[p], s) /\ sess[p].moved[s] = {}
  BY <1>1, <1>2 DEF Fits, Behind, Claims, Uses, Places
<1>4. \A p \in Procs : Own(rows, sess[p])
  BY <1>1, <1>2 DEF Own, Stands, Follows
<1>5. Orderly
  BY <1>3, <1>4 DEF Orderly
<1>6. \A m : m \notin ToSet(Nothing)
  BY PrefixEnds, EmptyConversation
<1>7. /\ \A p \in Procs : \A m : ~Has(sess[p], m)
      /\ \A s \in Slots : \A m : ~Stores(rows, s, m)
  BY <1>1, <1>2, <1>6 DEF Has, Stores
<1>8. ASSUME NEW m \in Message PROVE Home(rows, sess[m[1]], m)
  <2>1. m[1] \in Procs
    BY DEF Message
  <2> QED  BY <1>1, <1>2, <1>7, <2>1 DEF Home, Reaches, Near
<1>9. Told
  BY <1>7, <1>8 DEF Told
<1>10. Ready
  BY DEF Init, Ready
<1> QED  BY <1>5, <1>9, <1>10

\* A save does nothing with a slot it is not from, nor moved to.
LEMMA SavesSpare ==
  ASSUME IInv, NEW p \in Procs, NEW s \in Slots, s \in Known, SaveSteps(p),
         sess[p].moved[s] = {}, NEW c, Behind(sess[p], s, c),
         \A j \in sess[p].saves : j.at = "again" => j.to \in sess[p].moved[j.from],
         \A j \in sess[p].saves : j.from # s /\ s \notin sess[p].moved[j.from]
  PROVE  /\ sess'[p].moved[s] = {} /\ Behind(sess'[p], s, c)
         /\ \A j \in sess'[p].saves : j.from # s /\ s \notin sess'[p].moved[j.from]
<1> DEFINE o == sess[p]
<1>1. o \in Session /\ sess \in [Procs -> Session] /\ o.saves \subseteq Saves
  BY KnownAre DEF IInv, Sessions, Session
<1>2. PICK j \in o.saves :
        \/ SaveLands(p, j) \/ SaveRefused(p, j) \/ Move(p, j)
        \/ MoveLands(p, j) \/ SaveFails(p, j)
  BY DEF SaveSteps
<1>3. j \in Saves /\ j.from # s /\ s \notin o.moved[j.from]
  BY <1>1
<1>4. CASE SaveLands(p, j)
  <2>1. sess'[p] = [Without(o, j) EXCEPT !.wrote[j.from] = {Mark(j.conv)}]
    BY <1>1, <1>4 DEF SaveLands, Becomes
  <2> HIDE DEF o
  <2>2. /\ sess'[p].moved = o.moved
        /\ sess'[p].saves \subseteq o.saves /\ sess'[p].wrote[s] = o.wrote[s]
    BY <1>1, <1>3, <2>1 DEF Without, Session
  <2> QED  BY <2>2 DEF Behind, o
<1>5. CASE SaveRefused(p, j)
  <2> DEFINE i == [j EXCEPT !.at = "move"]
  <2>1. sess'[p] = [Without(o, j) EXCEPT !.saves = @ \cup {i}]
    BY <1>1, <1>5 DEF SaveRefused, Becomes
  <2>2. i.from = j.from
    BY <1>3 DEF Saves
  <2> HIDE DEF o, i
  <2>3. /\ sess'[p].moved = o.moved
        /\ sess'[p].saves \subseteq o.saves \cup {i} /\ sess'[p].wrote = o.wrote
    BY <1>1, <2>1 DEF Without, Session
  <2> QED  BY <1>3, <2>2, <2>3 DEF Behind, o
<1>6. CASE Move(p, j)
  <2>1. PICK t \in MoveTo(o, j) :
          LET r == [o EXCEPT !.moved[j.from] = {t},
                      !.saves = (@ \ {j}) \cup {[j EXCEPT !.at = "again", !.to = t]}]
          IN  IF Unused(t) THEN Becomes(p, Claimed(r, t)) ELSE Becomes(p, r)
    BY <1>6 DEF Move
  <2> DEFINE i == [j EXCEPT !.at = "again", !.to = t]
             r == [o EXCEPT !.moved[j.from] = {t}, !.saves = (@ \ {j}) \cup {i}]
  <2>2. t # s
    BY <1>3, ChatSlotsAssumption DEF MoveTo, Unused, Known
  <2>3. i.from = j.from
    BY <1>3 DEF Saves
  <2>4. sess'[p] = Claimed(r, t) \/ sess'[p] = r
    BY <1>1, <2>1 DEF Becomes
  <2> HIDE DEF o, i
  <2>5. /\ r.saves \subseteq o.saves \cup {i} /\ r.wrote = o.wrote
        /\ \A a \in Slots : r.moved[a] = IF a = j.from THEN {t} ELSE o.moved[a]
        /\ DOMAIN r = DOMAIN o
    BY <1>1, <1>3 DEF Session, Saves
  <2> HIDE DEF r
  <2>6. /\ sess'[p].saves = r.saves /\ sess'[p].moved = r.moved
        /\ sess'[p].wrote[s] = r.wrote[s]
    BY <1>1, <2>2, <2>4, <2>5 DEF Claimed, Session
  <2>7. \A k \in sess'[p].saves : k.from \in Slots /\ k.from # s
    BY <1>1, <1>3, <2>3, <2>5, <2>6 DEF Saves, o
  <2>8. \A k \in sess'[p].saves : s \notin sess'[p].moved[k.from]
    BY <1>3, <2>2, <2>3, <2>5, <2>6, <2>7 DEF o
  <2> QED  BY <1>3, <2>5, <2>6, <2>7, <2>8 DEF Behind, o
<1>7. CASE MoveLands(p, j)
  <2> DEFINE v == [Without(o, j) EXCEPT !.wrote[j.to] = {Mark(j.conv)}]
  <2>1. \/ sess'[p] = [v EXCEPT !.moves = @ \cup {[from |-> j.from, to |-> j.to]}]
        \/ sess'[p] = [v EXCEPT !.clean = FALSE]
    BY <1>1, <1>7 DEF MoveLands, Becomes
  <2>2. j.to # s
    BY <1>3, <1>7 DEF MoveLands
  <2> HIDE DEF o
  <2>3. /\ v.moved = o.moved /\ v.saves \subseteq o.saves /\ v.wrote[s] = o.wrote[s]
        /\ DOMAIN v = DOMAIN o
    BY <1>1, <1>3, <2>2 DEF Without, Session
  <2>4. /\ sess'[p].moved = v.moved /\ sess'[p].saves = v.saves
        /\ sess'[p].wrote = v.wrote
    <3>1. DOMAIN v = DOMAIN o
      BY <2>3
    <3> HIDE DEF v
    <3> QED  BY <1>1, <2>1, <3>1 DEF Session
  <2> QED  BY <2>3, <2>4 DEF Behind, o
<1>8. CASE SaveFails(p, j)
  <2>1. sess'[p] = [Without(o, j) EXCEPT !.clean = FALSE]
    BY <1>1, <1>8 DEF SaveFails, Becomes
  <2> HIDE DEF o
  <2>2. /\ sess'[p].moved = o.moved
        /\ sess'[p].saves \subseteq o.saves /\ sess'[p].wrote = o.wrote
    BY <1>1, <2>1 DEF Without, Session
  <2> QED  BY <2>2 DEF Behind, o
<1> QED  BY <1>2, <1>4, <1>5, <1>6, <1>7, <1>8

\* What a row begins with begins what it becomes.
LEMMA BeginsStill ==
  ASSUME IInv, IInv', Opened, Ready, NEW p \in Procs, NEW x \in read[p],
         \A s \in Slots : \A c \in rows[s] :
           c = Nothing \/ \E d \in rows'[s] : IsPrefix(c, d)
  PROVE  \A d \in rows'[x.slot] : IsPrefix(x.conv, d)
<1>1. /\ x.slot \in Slots /\ x.conv \in Seq(Message) /\ x.conv # Nothing
      /\ Filled(x.slot)
  BY DEF Opened
<1>2. PICK c \in rows[x.slot] : c # Nothing /\ IsPrefix(x.conv, c) /\ c \in Seq(Message)
  BY <1>1 DEF Filled, Ready, IInv, Store, Nothing
<1>3. PICK d \in rows'[x.slot] : IsPrefix(c, d)
  BY <1>1, <1>2
<1>4. /\ rows'[x.slot] \subseteq Seq(Message)
      /\ \A a, b \in rows'[x.slot] : a = b
  BY <1>1 DEF IInv, Store
<1>5. IsPrefix(x.conv, d)
  BY <1>1, <1>2, <1>3, <1>4, PrefixOrder
<1> QED  BY <1>4, <1>5

\* A step that reads no chat leaves those that were read as they are to be.
LEMMA ReadyStays ==
  ASSUME IInv, IInv', Opened, Orderly, Ready, NEW p \in Procs,
         \/ Start(p) \/ Say(p) \/ Load(p) \/ New(p) \/ Note(p)
         \/ Quit(p) \/ Gone(p) \/ Crash(p) \/ SaveSteps(p),
         \A q \in Procs \ {p} : sess'[q] = sess[q],
         \A s \in Slots : \A c \in rows[s] :
           c = Nothing \/ \E d \in rows'[s] : IsPrefix(c, d)
  PROVE  Ready'
<1>2. \A q \in Procs : read'[q] \subseteq read[q]
  BY NoneRead
<1>3. read'[p] = {} \/ SaveSteps(p)
  BY NoneRead
<1>4. ASSUME NEW q \in Procs, NEW x \in read'[q]
      PROVE  /\ sess'[q].moved[x.slot] = {}
             /\ \A j \in sess'[q].saves :
                  j.from # x.slot /\ x.slot \notin sess'[q].moved[j.from]
             /\ Behind(sess'[q], x.slot, x.conv)
  <2>1. x \in read[q] /\ x.slot \in Slots /\ x.slot \in Known
    BY <1>2 DEF Opened, Filled, IInv, Store
  <2>2. CASE q = p
    <3>1. SaveSteps(p)
      BY <1>3, <1>4, <2>2
    <3>2. \A j \in sess[p].saves : j.at = "again" => j.to \in sess[p].moved[j.from]
      BY DEF Orderly, Own, Lands
    <3>3. /\ sess[p].moved[x.slot] = {} /\ Behind(sess[p], x.slot, x.conv)
          /\ \A j \in sess[p].saves :
               j.from # x.slot /\ x.slot \notin sess[p].moved[j.from]
      BY <2>1, <2>2 DEF Ready
    <3> DEFINE s == x.slot
               c == x.conv
    <3>4. /\ s \in Slots /\ s \in Known /\ sess[p].moved[s] = {} /\ Behind(sess[p], s, c)
          /\ \A j \in sess[p].saves : j.from # s /\ s \notin sess[p].moved[j.from]
      BY <2>1, <3>3
    <3> HIDE DEF s, c
    <3>5. /\ sess'[p].moved[s] = {} /\ Behind(sess'[p], s, c)
          /\ \A j \in sess'[p].saves : j.from # s /\ s \notin sess'[p].moved[j.from]
      BY <3>1, <3>2, <3>4, SavesSpare
    <3> QED  BY <2>2, <3>5 DEF s, c
  <2>3. CASE q # p
    BY <2>1, <2>3 DEF Ready
  <2> QED  BY <2>2, <2>3
<1>5. ASSUME NEW q \in Procs, NEW x \in read'[q]
      PROVE  \A d \in rows'[x.slot] : IsPrefix(x.conv, d)
  BY <1>2, <1>5, BeginsStill
<1> QED  BY <1>4, <1>5 DEF Ready, Behind

\* A chat that is read is what its row has, and goes on from what is remembered.
LEMMA ReadyReads ==
  ASSUME IInv, Opened, Orderly, Ready, NEW p \in Procs, NEW s \in Slots,
         LoadChat(p, s), NoReturn
  PROVE  Ready'
<1>1. /\ sess' = sess /\ rows' = rows /\ sess[p].moved[s] = {}
      /\ \A j \in sess[p].saves : j.from # s /\ s \notin sess[p].moved[j.from]
  BY DEF LoadChat, NoReturn
<1> DEFINE x == [slot |-> s, conv |-> Row(s)]
<1>2. rows[s] = {Row(s)} /\ Row(s) \in Seq(Message)
  BY RowIs DEF LoadChat, IInv
<1>3. Behind(sess[p], s, Row(s)) /\ \A d \in rows[s] : IsPrefix(Row(s), d)
  BY <1>2, PrefixEnds DEF Orderly, Fits
<1>4. /\ \A q \in Procs \ {p} : read'[q] = read[q]
      /\ \A y \in read'[p] : y.slot = s /\ y.conv = Row(s)
  BY DEF LoadChat, Opened
<1> QED  BY <1>1, <1>3, <1>4 DEF Ready, Behind

\* What is so of the sessions, when they save one at a time.
InOrder == IInv /\ Opened /\ Orderly /\ Told /\ Ready

\* What a step of p does to the sessions' order and to the rows.
LEMMA StepOrders ==
  ASSUME InOrder, IInv', OneByOne, NEW p \in Procs,
         \/ Start(p) \/ Say(p) \/ Load(p) \/ New(p) \/ Note(p)
         \/ Quit(p) \/ Gone(p) \/ Crash(p) \/ SaveSteps(p)
  PROVE  /\ Orderly' /\ Told' /\ Ready'
         /\ \A s \in Slots : \A c \in rows[s] :
              c = Nothing \/ \E d \in rows'[s] : IsPrefix(c, d)
<1>1. IInv /\ Opened /\ Orderly /\ Told /\ Ready
  BY DEF InOrder
<1>2. SaveSteps(p) => Keeps(p)
  BY <1>1, SaveEndsOrders, TakenOrders, MoveOrders DEF SaveSteps
<1>3. Keeps(p)
  BY <1>1, <1>2, StartOrders, SayOrders, NewOrders, NoteOrders,
     QuitOrders, GoneCrashOrders, LoadOrders
<1>4. Orderly' /\ Told'
  BY <1>1, <1>3, Stepped, ToldStepped DEF Keeps
<1>5. \A s \in Slots : \A c \in rows[s] :
        c = Nothing \/ \E d \in rows'[s] : IsPrefix(c, d)
  BY <1>1, <1>3, TurnFits DEF Keeps, Steps
<1>6. Ready'
  BY <1>1, <1>3, <1>5, ReadyStays DEF Keeps, Steps
<1> QED  BY <1>4, <1>5, <1>6

\* A step keeps the sessions' order, and no row loses what was in it.
LEMMA NextOrders ==
  ASSUME InOrder, OneByOne, [Next]_vars, [NoReturn]_vars
  PROVE  /\ InOrder'
         /\ \A s \in Slots : \A c \in rows[s] :
              c = Nothing \/ \E d \in rows'[s] : IsPrefix(c, d)
<1>0. IInv /\ Opened /\ Orderly /\ Told /\ Ready
  BY DEF InOrder
<1>1. IInv' /\ Opened'
  BY <1>0, NextKeeps
<1>2. CASE sess' = sess /\ rows' = rows /\ minted' = minted
  <2>1. Orderly'
    BY <1>0, <1>2 DEF Orderly, Known, Filled
  <2>2. Told'
    BY <1>0, <1>2 DEF Told
  <2>3. \A s \in Slots : \A c \in rows[s] : IsPrefix(c, c)
    BY <1>0, PrefixEnds DEF IInv, Store
  <2>4. Ready'
    <3>1. CASE read' = read
      BY <1>0, <1>2, <3>1 DEF Ready, Behind
    <3>2. CASE read' # read
      <4>1. Next /\ NoReturn
        BY <3>2 DEF vars
      <4>2. PICK p \in Procs : \/ Load(p) \/ Crash(p)
                               \/ \E s \in Slots : LoadChat(p, s)
        BY <3>2, <4>1
           DEF Next, Start, Say, Rewind, New, Note, Quit, Gone, SaveSteps
      <4>3. CASE Load(p) \/ Crash(p)
        <5>1. read' = [read EXCEPT ![p] = {}]
          BY <4>3 DEF Load, Crash
        <5>2. \A q \in Procs : read'[q] \subseteq read[q]
          BY <1>0, <5>1 DEF Opened
        <5> QED  BY <1>0, <1>2, <5>2 DEF Ready, Behind
      <4>4. CASE \E s \in Slots : LoadChat(p, s)
        BY <1>0, <4>1, <4>4, ReadyReads
      <4> QED  BY <4>2, <4>3, <4>4
    <3> QED  BY <3>1, <3>2
  <2> QED  BY <1>1, <1>2, <2>1, <2>2, <2>3, <2>4 DEF InOrder
<1>3. CASE ~(sess' = sess /\ rows' = rows /\ minted' = minted)
  <2>1. Next
    BY <1>3 DEF vars
  <2>2. PICK p \in Procs :
          \/ Start(p) \/ Say(p) \/ Rewind(p) \/ Load(p) \/ New(p) \/ Note(p)
          \/ Quit(p) \/ Gone(p) \/ Crash(p) \/ SaveSteps(p)
          \/ \E s \in Slots : LoadChat(p, s)
    BY <2>1 DEF Next
  <2>3. ~Rewind(p)
    BY DEF Rewind, OneByOne
  <2>4. ~\E s \in Slots : LoadChat(p, s)
    BY <1>3 DEF LoadChat
  <2> QED  BY <1>1, <2>2, <2>3, <2>4, StepOrders DEF InOrder
<1> QED  BY <1>2, <1>3

\* So what is in the store stays there.
LEMMA StoredStays ==
  ASSUME IInv, IInv', \A s \in Slots : \A c \in rows[s] :
                        c = Nothing \/ \E d \in rows'[s] : IsPrefix(c, d)
  PROVE  Stored \subseteq Stored'
<1>1. ASSUME NEW m \in Message, NEW s \in Slots, NEW c \in rows[s], m \in ToSet(c)
      PROVE  \E d \in rows'[s] : m \in ToSet(d)
  <2>1. rows[s] \subseteq Seq(Message) /\ rows'[s] \subseteq Seq(Message)
    BY DEF IInv, Store
  <2>2. c # Nothing
    BY <1>1, PrefixEnds, EmptyConversation
  <2>3. PICK d \in rows'[s] : IsPrefix(c, d)
    BY <2>2
  <2> QED  BY <1>1, <2>1, <2>3, PrefixOrder
<1> QED  BY <1>1 DEF Stored

\* The sessions stay in order, whatever they do.
LEMMA OrderKept ==
  ASSUME OneByOne
  PROVE  Spec /\ [][NoReturn]_vars => []InOrder
<1>1. Init => InOrder
  BY Start0, OrderlyAtFirst DEF InOrder
<1>2. InOrder /\ [Next]_vars /\ [NoReturn]_vars => InOrder'
  BY NextOrders
<1> QED  BY <1>1, <1>2, PTL DEF Spec

\* A row is only ever gone on with: what was in it begins what is in it.
THEOREM RowsOnlyGrow ==
  ASSUME OneByOne
  PROVE  Spec /\ [][NoReturn]_vars =>
           [][\A s \in Slots : \A c \in rows[s] :
                c = <<>> \/ \E d \in rows'[s] : IsPrefix(c, d)]_vars
<1>1. InOrder /\ [Next]_vars /\ [NoReturn]_vars =>
        [\A s \in Slots : \A c \in rows[s] :
           c = <<>> \/ \E d \in rows'[s] : IsPrefix(c, d)]_vars
  BY NextOrders DEF Nothing
<1> QED  BY <1>1, OrderKept, PTL DEF Spec

\* Neither of two sessions costs the other what it said: a message that is in the
\* store stays in it.
THEOREM NobodyLoses ==
  ASSUME OneByOne
  PROVE  Spec /\ [][NoReturn]_vars => NeitherCostsTheOther
<1>1. InOrder /\ [Next]_vars /\ [NoReturn]_vars =>
        [\A m \in Stored : m \in Stored' \/ sess'[m[1]] # sess[m[1]]]_vars
  BY NextOrders, StoredStays DEF InOrder
<1> QED  BY <1>1, OrderKept, PTL DEF Spec, NeitherCostsTheOther

\* The second save of a conversation that had to move takes nothing out of the store.
THEOREM MovesTakeNothing ==
  ASSUME OneByOne
  PROVE  Spec /\ [][NoReturn]_vars => MoveTakesNothing
<1>1. InOrder /\ [Next]_vars /\ [NoReturn]_vars =>
        [\A p \in Procs : \A j \in sess[p].saves :
           MoveLands(p, j) => Stored \subseteq Stored']_vars
  BY NextOrders, StoredStays DEF InOrder
<1> QED  BY <1>1, OrderKept, PTL DEF Spec, MoveTakesNothing

\* A message nobody else has read is in one slot that its session has not lost.
THEOREM OneCopyEach ==
  ASSUME OneByOne
  PROVE  Spec /\ [][NoReturn]_vars => []OneCopy
<1>1. InOrder => OneCopy
  <2> SUFFICES ASSUME IInv, Told, NEW m \in Message, Unshared(m)
               PROVE  Cardinality({s \in Names : /\ sess[m[1]].moved[s] = {}
                                                 /\ \E c \in rows[s] : m \in ToSet(c)}) <= 1
    BY DEF InOrder, OneCopy
  <2>1. Home(rows, sess[m[1]], m)
    BY DEF Told, Reads, Unshared
  <2>2. \A s \in Names : (\E c \in rows[s] : m \in ToSet(c)) =>
          s \in Slots /\ Reaches(rows, sess[m[1]], m, s)
    BY DEF Reaches, Near, Stores, Slots
  <2> QED  BY <2>1, <2>2, OneAtMost DEF Home
<1> QED  BY <1>1, OrderKept, PTL

=============================================================================
