------------------------------ MODULE ChatSlots ------------------------------
(***************************************************************************)
(* The slots conversations are saved in (src/internal/storage/chat.go and  *)
(* the chat's saves, src/internal/ui/chat/model.go): one store, and a      *)
(* session per process.  A session claims a row as it starts, saves its    *)
(* conversation there in the background, several saves at once, and a save *)
(* that finds the row no longer as this process left it is refused: the    *)
(* conversation moves to a row of its own, and the session follows.        *)
(*                                                                         *)
(* A message is its author and a number; a conversation is a sequence of   *)
(* them, its system prompt left out; a fingerprint is the conversation     *)
(* itself.  A transaction and the mutex around it make one step of a save. *)
(***************************************************************************)
EXTENDS Integers, SequencesExt

CONSTANTS
  Procs,      \* the processes, each with one session
  Names,      \* the names a claim may be given
  Branch,     \* Branch[p]: the name a rewind of p keeps the tail under
  NoSlot,     \* the slot of a session not started
  Rewinders,  \* the sessions that rewind, once each
  Turns,      \* bound: the messages a session says
  InFlight,   \* InFlight[p]: bound on the saves of p under way at once
  Switches    \* bound: how often a session loads a chat or starts a new one

Branches == {Branch[p] : p \in Procs}
Slots == Names \cup Branches

ASSUME ChatSlotsAssumption ==
  /\ Branches \cap Names = {} /\ NoSlot \notin Slots
  /\ \A p, q \in Procs : p # q => Branch[p] # Branch[q]
  /\ Rewinders \subseteq Procs
  /\ {Turns, Switches} \subseteq Nat /\ InFlight \in [Procs -> Nat \ {0}]

VARIABLES
  minted,   \* the names claimed so far: a clock does not name a second twice
  rows,     \* the store: each slot's conversation, {} where there is no row
  parents,  \* the rows a branch hangs off
  sess,     \* each process's session, and what its handle remembers
  read      \* the chat a process is loading, read and not remembered yet

vars == <<minted, rows, parents, sess, read>>

\* Mutant: the mark counts the messages instead of naming the last.
MarkLength(c) == [seq |-> Len(c), digest |-> c]

\* What a process remembers leaving in a slot, or reading out of it.
Mark(c) == [seq |-> Len(c) - 1, digest |-> c]

(* wrote is chatWrote and moved chatMoved; moves the autosaveMovedMsgs on  *)
(* their way; clean says that no save failed, and that none was under way  *)
(* when the process ended.                                                 *)
Off == [pc |-> "off", slot |-> NoSlot, conv |-> <<>>, said |-> 0,
        wrote |-> [s \in Slots |-> {}], moved |-> [s \in Slots |-> {}],
        saves |-> {}, moves |-> {}, switches |-> 0, clean |-> TRUE]

Init ==
  /\ minted = {} /\ rows = [s \in Slots |-> {}] /\ parents = {}
  /\ sess = [p \in Procs |-> Off] /\ read = [p \in Procs |-> {}]
-----------------------------------------------------------------------------
(***************************************************************************)
(* The store's operations, on a session's record                           *)
(***************************************************************************)
Becomes(p, r) == sess' = [sess EXCEPT ![p] = r]

Unused(s) == s \in Names \ minted

Claimed(r, s) == [r EXCEPT !.wrote[s] = {Mark(<<>>)}]

Row(s) == CHOOSE c \in rows[s] : TRUE

\* saveChatTx: the slot does not hold what this process left there.
Refused(r, s) ==
  rows[s] # {} /\ \E m \in r.wrote[s] : Len(Row(s)) - 1 # m.seq

\* A save appends where the conversation goes on from what was left there,
\* and rewrites the row everywhere else.
Appends(r, s, c) ==
  /\ rows[s] # {} /\ Len(Row(s)) < Len(c)
  /\ \E m \in r.wrote[s] : SubSeq(c, 1, Len(Row(s))) = m.digest

Saved(r, s, c) == [rows EXCEPT ![s] =
  {IF Appends(r, s, c) THEN Row(s) \o SubSeq(c, Len(Row(s)) + 1, Len(c)) ELSE c}]

\* ReleaseChatSlot: a row claimed here and never written to, by anybody.
Mine(r) == \E m \in r.wrote[r.slot] : m.seq < 0

Released(r) ==
  IF Mine(r) /\ rows[r.slot] = {<<>>} /\ r.slot \notin parents
    THEN [rows EXCEPT ![r.slot] = {}] ELSE rows

\* Mutant: the slot left behind is not given back.
AdoptKeeping(p, r, s) == Becomes(p, [r EXCEPT !.slot = s]) /\ UNCHANGED rows

\* adoptSlot: the slot being left is given back.
Adopt(p, r, s) ==
  IF r.slot = s THEN Becomes(p, r) /\ UNCHANGED rows
  ELSE /\ Becomes(p, [r EXCEPT !.slot = s,
                        !.wrote[r.slot] = IF Mine(r) THEN {} ELSE @])
       /\ rows' = Released(r)

\* autosaveCmd: the slot and the conversation are captured as it is issued.
Autosave(r) ==
  IF r.conv = <<>> THEN r
  ELSE [r EXCEPT !.saves = @ \cup
         {[from |-> r.slot, conv |-> r.conv, at |-> "save", to |-> r.slot]}]
-----------------------------------------------------------------------------
(***************************************************************************)
(* The session                                                             *)
(***************************************************************************)
Live(p) == sess[p].pc = "live" /\ read[p] = {}
Room(p) == Cardinality(sess[p].saves) < InFlight[p]

Start(p) ==
  /\ sess[p].pc = "off"
  /\ \E s \in Names :
       /\ Unused(s)
       /\ rows' = [rows EXCEPT ![s] = {<<>>}] /\ minted' = minted \cup {s}
       /\ Becomes(p, [Claimed(Off, s) EXCEPT !.pc = "live", !.slot = s])
  /\ UNCHANGED <<parents, read>>

\* A message, the model's or the person's, and the autosave behind it.
Say(p) ==
  /\ Live(p) /\ sess[p].said < Turns /\ Room(p)
  /\ LET r == sess[p] IN
     Becomes(p, Autosave([r EXCEPT !.said = @ + 1,
                            !.conv = Append(@, <<p, r.said + 1>>)]))
  /\ UNCHANGED <<minted, rows, parents, read>>

\* rewindConversation: the whole conversation is kept as a branch, under a
\* name no other rewind has, and the cut one is saved; one cut to its system
\* prompt is not.
Rewind(p) ==
  /\ Live(p) /\ p \in Rewinders /\ rows[Branch[p]] = {} /\ Room(p)
  /\ LET r == sess[p]
         b == Branch[p]
     IN  \E n \in 0..Len(r.conv) - 1 :
           /\ rows' = [rows EXCEPT ![r.slot] = IF @ = {} THEN {<<>>} ELSE @,
                                   ![b] = {r.conv}]
           /\ Becomes(p, Autosave([r EXCEPT !.wrote[b] = {Mark(r.conv)},
                                            !.conv = SubSeq(@, 1, n)]))
  /\ parents' = parents \cup {sess[p].slot}
  /\ UNCHANGED <<minted, read>>

\* LoadChat reads the saved chat somebody opens, holding no lock, and then
\* remembers it: another session may save to the slot in between, and so may a
\* save of the session's own.
LoadChat(p, s) ==
  /\ Live(p) /\ sess[p].switches < Switches
  /\ rows[s] \notin {{}, {<<>>}}
  /\ read' = [read EXCEPT ![p] = {[slot |-> s, conv |-> Row(s)]}]
  /\ UNCHANGED <<minted, rows, parents, sess>>

\* What was read is remembered, and the session's saves go to its slot.
Load(p) ==
  /\ sess[p].pc = "live"
  /\ \E x \in read[p] :
       Adopt(p, [sess[p] EXCEPT !.wrote[x.slot] = {Mark(x.conv)}, !.conv = x.conv,
                                !.switches = @ + 1], x.slot)
  /\ read' = [read EXCEPT ![p] = {}]
  /\ UNCHANGED <<minted, parents>>

\* startNewSession: where the conversation being left is on its way to its
\* slot, the claim on that slot is kept.
New(p) ==
  /\ Live(p) /\ sess[p].switches < Switches /\ Room(p)
  /\ \E s \in Names :
       LET r == [Claimed(Autosave(sess[p]), s) EXCEPT !.switches = @ + 1]
       IN  /\ Unused(s) /\ minted' = minted \cup {s}
           /\ IF r.conv # <<>>
                THEN /\ rows' = [rows EXCEPT ![s] = {<<>>}]
                     /\ Becomes(p, [r EXCEPT !.slot = s, !.conv = <<>>])
                ELSE /\ rows' = [Released(r) EXCEPT ![s] = {<<>>}]
                     /\ Becomes(p, [r EXCEPT !.slot = s,
                                      !.wrote[r.slot] = IF Mine(r) THEN {} ELSE @])
  /\ UNCHANGED <<parents, read>>

\* noteSlotMove: the session follows its conversation, unless it has left
\* the slot the conversation was moved from.
Note(p) ==
  /\ sess[p].pc \in {"live", "quitting"} /\ read[p] = {}
  /\ \E m \in sess[p].moves :
       LET r == [sess[p] EXCEPT !.moves = @ \ {m}]
       IN  IF m.from = r.slot THEN Adopt(p, r, m.to)
                              ELSE Becomes(p, r) /\ UNCHANGED rows
  /\ UNCHANGED <<minted, parents, read>>

\* A process's end takes what was under way with it; the marks are kept for
\* the properties.
Ended(r, clean) == [Off EXCEPT !.pc = "over", !.said = r.said,
                               !.wrote = r.wrote, !.moved = r.moved,
                               !.clean = r.clean /\ clean]

\* quitCmd: a last save, or the slot given back where there is nothing to save.
Quit(p) ==
  /\ Live(p) /\ Room(p)
  /\ IF sess[p].conv # <<>>
       THEN /\ Becomes(p, [Autosave(sess[p]) EXCEPT !.pc = "quitting"])
            /\ UNCHANGED rows
       ELSE /\ Becomes(p, Ended(sess[p], sess[p].saves = {}))
            /\ rows' = Released(sess[p])
  /\ UNCHANGED <<minted, parents, read>>

\* The save of the quit has ended; others may not have.
Gone(p) ==
  /\ sess[p].pc = "quitting"
  /\ \A j \in sess[p].saves : j.conv # sess[p].conv
  /\ Becomes(p, Ended(sess[p], sess[p].saves = {}))
  /\ UNCHANGED <<minted, rows, parents, read>>

Crash(p) ==
  /\ sess[p].pc \in {"live", "quitting"}
  /\ Becomes(p, Ended(sess[p], FALSE))
  /\ read' = [read EXCEPT ![p] = {}]
  /\ UNCHANGED <<minted, rows, parents>>
-----------------------------------------------------------------------------
(***************************************************************************)
(* An autosave (AutosaveChat), in the background                           *)
(***************************************************************************)
Without(r, j) == [r EXCEPT !.saves = @ \ {j}]

SaveLands(p, j) ==
  /\ j.at = "save" /\ ~Refused(sess[p], j.from)
  /\ rows' = Saved(sess[p], j.from, j.conv)
  /\ Becomes(p, [Without(sess[p], j) EXCEPT !.wrote[j.from] = {Mark(j.conv)}])
  /\ UNCHANGED minted

SaveRefused(p, j) ==
  /\ j.at = "save" /\ Refused(sess[p], j.from)
  /\ Becomes(p, [Without(sess[p], j) EXCEPT !.saves = @ \cup
                   {[j EXCEPT !.at = "move"]}])
  /\ UNCHANGED <<minted, rows>>

\* Mutant: every refusal claims a slot.
MoveEachTime(r, j) == {s \in Names : Unused(s)}

\* movedChatSlot: where the slot went before, or a slot claimed now.
MoveTo(r, j) == IF r.moved[j.from] # {} THEN r.moved[j.from]
                                        ELSE {s \in Names : Unused(s)}

Move(p, j) ==
  /\ j.at = "move"
  /\ \E s \in MoveTo(sess[p], j) :
       LET r == [sess[p] EXCEPT !.moved[j.from] = {s},
                   !.saves = (@ \ {j}) \cup {[j EXCEPT !.at = "again", !.to = s]}]
       IN  IF Unused(s) THEN /\ Becomes(p, Claimed(r, s))
                             /\ rows' = [rows EXCEPT ![s] = {<<>>}]
                             /\ minted' = minted \cup {s}
                        ELSE Becomes(p, r) /\ UNCHANGED <<minted, rows>>

\* The session is told, unless what goes with the conversation did not.
MoveLands(p, j) ==
  /\ j.at = "again" /\ ~Refused(sess[p], j.to)
  /\ rows' = Saved(sess[p], j.to, j.conv)
  /\ LET r == [Without(sess[p], j) EXCEPT !.wrote[j.to] = {Mark(j.conv)}]
     IN  \/ Becomes(p, [r EXCEPT !.moves = @ \cup {[from |-> j.from, to |-> j.to]}])
         \/ Becomes(p, [r EXCEPT !.clean = FALSE])
  /\ UNCHANGED minted

\* The store will not take the write, or refuses the second one too.
SaveFails(p, j) ==
  /\ Becomes(p, [Without(sess[p], j) EXCEPT !.clean = FALSE])
  /\ UNCHANGED <<minted, rows>>

SaveSteps(p) ==
  /\ \E j \in sess[p].saves :
       \/ SaveLands(p, j) \/ SaveRefused(p, j) \/ Move(p, j)
       \/ MoveLands(p, j) \/ SaveFails(p, j)
  /\ UNCHANGED <<parents, read>>
-----------------------------------------------------------------------------
Next == \E p \in Procs :
  \/ Start(p) \/ Say(p) \/ Rewind(p) \/ Load(p) \/ New(p) \/ Note(p)
  \/ Quit(p) \/ Gone(p) \/ Crash(p) \/ SaveSteps(p)
  \/ \E s \in Slots : LoadChat(p, s)

Spec == Init /\ [][Next]_vars
-----------------------------------------------------------------------------
(***************************************************************************)
(* Properties                                                              *)
(***************************************************************************)
Message == Procs \X (1..Turns)

\* A hypothesis of the proofs: a session opens no chat it lost, nor one its own
\* save is on the way to.
NoReturn == \A p \in Procs, s \in Slots : LoadChat(p, s) =>
  /\ sess[p].moved[s] = {}
  /\ \A j \in sess[p].saves : j.from # s /\ s \notin sess[p].moved[j.from]

\* The values the variables take; a mark's number is its last message's.
TypeOK ==
  /\ \A s \in Slots : Cardinality(rows[s]) <= 1 /\ rows[s] \subseteq Seq(Message)
  /\ parents \subseteq Slots /\ minted \subseteq Names
  /\ \A p \in Procs : /\ Cardinality(read[p]) <= 1
                      /\ read[p] \subseteq [slot : Slots, conv : Seq(Message)]
  /\ \A p \in Procs :
       LET r == sess[p] IN
       /\ r.pc \in {"off", "live", "quitting", "over"}
       /\ r.slot \in Slots \cup {NoSlot} /\ r.conv \in Seq(Message)
       /\ r.said \in 0..Turns /\ r.switches \in 0..Switches /\ r.clean \in BOOLEAN
       /\ \A s \in Slots : /\ Cardinality(r.wrote[s]) <= 1
                           /\ r.moved[s] \subseteq Names
                           /\ \A w \in r.wrote[s] : w.digest \in Seq(Message)
                                                    /\ w.seq = Len(w.digest) - 1
       /\ Cardinality(r.saves) <= InFlight[p]
       /\ r.moves \subseteq [from : Slots, to : Names]

Stored == {m \in Message : \E s \in Slots : \E c \in rows[s] : m \in ToSet(c)}

(* "Two sessions on one project are a thing people do on purpose; neither  *)
(* of them may quietly cost the other its work": a message leaves the      *)
(* store only by a step of its author's session.                           *)
NeitherCostsTheOther == [][\A m \in Stored :
  m \in Stored' \/ sess'[m[1]] # sess[m[1]]]_vars

(* A message no other session has read is in one slot its session has not  *)
(* lost, whatever was in flight when one was: "a second refusal on it      *)
(* follows the first rather than making a second copy" (chat.go:187).  A   *)
(* branch is a copy of what it was cut from, and one that is lost leaves   *)
(* its own copy.                                                           *)
Unshared(m) == \A q \in Procs \ {m[1]}, s \in Slots :
  \A w \in sess[q].wrote[s] : m \notin ToSet(w.digest)

OneCopy == \A m \in Message :
  Unshared(m) /\ sess[m[1]].moved[Branch[m[1]]] = {}
  => Cardinality({s \in Names : /\ sess[m[1]].moved[s] = {}
                                /\ \E c \in rows[s] : m \in ToSet(c)}) <= 1

(* A row with nothing in it is the slot of the session that claimed it, or *)
(* has a save on its way or a branch hanging off it; or that session was   *)
(* cut short.                                                              *)
NoStrayClaims == \A s \in Slots \ parents : rows[s] = {<<>>} => \E p \in Procs :
  \/ /\ Mark(<<>>) \in sess[p].wrote[s]
     /\ sess[p].slot = s \/ ~sess[p].clean
  \/ \E j \in sess[p].saves : s \in {j.from, j.to}

(* A conversation that has to move is put somewhere safe: the second save  *)
(* of a refused one takes nothing out of the store.                        *)
MoveTakesNothing == [][\A p \in Procs : \A j \in sess[p].saves :
  MoveLands(p, j) => Stored \subseteq Stored']_vars
=============================================================================
