-------------------------- MODULE DiagnosticsProofs --------------------------
(***************************************************************************)
(* The invariants of what a session learns from a language server, for any *)
(* number of callers, files and texts.  A verdict is told from an older    *)
(* report by two counters, the file's version and the count of reports:    *)
(* Anchors relates them at every place that keeps a pair of them.          *)
(***************************************************************************)
EXTENDS Diagnostics, TLAPS

PCs == {"idle", "write", "read", "sync", "send", "record", "ask", "parked",
        "forget", "hold", "latest", "copy", "settle", "take"}

Report == [file : Files, seq : Nat, text : Texts, at : Nat, on : Nat]

Call == [pc : PCs, kind : Kinds, file : Files, text : Texts, at : Nat,
         since : Nat, got : SUBSET Report, asks : Nat]

\* What is kept of a push, of a report, of a question, and of what was sent.
Mark == [text : Texts, since : Nat, at : Nat]
Finding == [seq : Nat, text : Texts, at : Nat]
Question == [after : Nat, at : Nat]
Message == [file : Files, text : Texts]
Server == [up : BOOLEAN, text : [Files -> SUBSET Texts], owes : SUBSET Files]

\* The variables and their records, without the bounds.
Stored ==
  /\ disk \in [Files -> Texts] /\ hands \in 0..Hands
  /\ versions \in [Files -> Nat] /\ pubSeq \in Nat
  /\ synced \in [Files -> SUBSET Mark] /\ diags \in [Files -> SUBSET Finding]
  /\ held \in [Files -> SUBSET Question]
  /\ wire \in Seq(Message) /\ server \in Server

Types == Stored /\ call \in [Callers -> Call]

\* The server reports only on files it was sent.
Opened ==
  /\ \A i \in 1..Len(wire) : versions[wire[i].file] >= 1
  /\ \A f \in server.owes : versions[f] >= 1
  /\ \A f \in Files : \A d \in diags[f] : d.seq \in 1..pubSeq /\ d.at \in 1..versions[f]

\* A report newer than since is about the text of version at, or a later one.
Anchored(f, since, at) ==
  /\ at <= versions[f] /\ since <= pubSeq
  /\ \A d \in diags[f] : d.seq > since => at <= d.at

Anchors ==
  /\ \A f \in Files : \A m \in synced[f] : m.at >= 1 /\ Anchored(f, m.since, m.at)
  /\ \A f \in Files : \A q \in held[f] : q.at >= 1 /\ Anchored(f, q.after, q.at)
  /\ \A c \in Callers : ~On(c, "take") =>
       Anchored(call[c].file, call[c].since, call[c].at)

\* What a call has at each of its steps.
Shape(c) ==
  LET r == call[c] IN
  /\ r.pc \in {"idle", "write", "read", "sync", "copy"} => r.at = 0 /\ r.since = 0
  /\ r.pc \in {"send", "record", "ask", "parked", "hold"} => r.at >= 1
  /\ r.pc \notin {"forget", "settle", "take"} => r.got = {}
  /\ r.pc \in {"write", "hold"} => r.kind = "edit"
  /\ r.pc \in {"idle", "latest", "settle", "copy"} => r.kind # "edit"
  /\ r.kind = "edit" => c \in Session
  /\ r.at <= versions[r.file] /\ r.since <= pubSeq /\ r.asks <= Asks[c]
  /\ \A g \in r.got : /\ g.seq \in 1..pubSeq /\ g.on <= g.at
                      /\ r.kind = "edit" => r.at <= g.at
                      /\ r.pc = "forget" => g.file = r.file /\ g.seq > r.since

Shapes == \A c \in Callers : Shape(c)

\* An edit of the session runs with no other call of the session.
Alone == \A s, t \in Session : s # t /\ call[s].kind = "edit" => On(t, "idle")

\* The question an edit left is about its own text, until it hands it over.
OwnQuestion ==
  \A c \in Callers : On(c, "take") /\ call[c].kind = "edit" =>
    \A q \in held[call[c].file] : call[c].at <= q.at

IInv == Types /\ Opened /\ Anchors /\ Shapes /\ Alone /\ OwnQuestion

\* A question is no newer than what the server was last told of its file, or
\* than what a call on the file waits for: so an answer to that closes it.
Fresh ==
  /\ \A f \in Files : \A m, n \in synced[f] : m = n
  /\ \A f \in Files : \A q \in held[f] : \A m \in synced[f] : q.after <= m.since
  /\ \A c \in Callers : \A q \in held[call[c].file] :
       \/ call[c].pc \in {"send", "record", "ask", "parked", "hold"}
       \/ On(c, "forget") /\ call[c].got # {}
       => q.after <= call[c].since
  /\ \A c \in Callers : call[c].kind = "edit" =>
       /\ call[c].pc \in {"send", "record"} => versions[call[c].file] = call[c].at
       /\ call[c].pc \in {"ask", "parked", "hold"} =>
            \A m \in synced[call[c].file] : call[c].since <= m.since

-----------------------------------------------------------------------------
(***************************************************************************)
(* What each step does to the call that takes it, field by field: the rest *)
(* of the proof reads these facts and not the records.                     *)
(***************************************************************************)
Moved(c) ==
  /\ call' \in [Callers -> Call]
  /\ \A d \in Callers \ {c} : call'[d] = call[d]

Same(c) ==
  /\ call'[c].kind = call[c].kind /\ call'[c].file = call[c].file
  /\ call'[c].asks = call[c].asks

Kept(c) == Same(c) /\ call'[c].at = call[c].at /\ call'[c].since = call[c].since

Goes(c, pc) == Kept(c) /\ call'[c].got = call[c].got /\ call'[c].pc = pc

Ended(c) ==
  /\ call'[c].pc = "idle" /\ call'[c].kind = "other" /\ call'[c].got = {}
  /\ call'[c].at = 0 /\ call'[c].since = 0 /\ call'[c].asks = call[c].asks

\* A file that could not be pushed, and an answer, send a call one of two ways.
Fails(c) ==
  \/ call[c].kind = "edit" /\ Goes(c, "forget")
  \/ call[c].kind # "edit" /\ Ended(c)

Answered(c) ==
  /\ call[c].kind = "edit" => /\ Same(c) /\ call'[c].at = call[c].at
                              /\ call'[c].since = 0 /\ call'[c].pc = "take"
                              /\ call'[c].got = call[c].got
  /\ call[c].kind # "edit" => Ended(c)

Learned(c) ==
  \E d \in diags[call[c].file] :
    /\ d.seq > call[c].since
    /\ Kept(c) /\ call'[c].pc = "forget"
    /\ call'[c].got = {Told(call[c].file, d, call[c].at)}

\* Idle keeps nothing but how often its caller asked.
LEMMA IdleIs ==
  /\ Idle \in Call /\ Idle.text \in Texts /\ Idle.pc = "idle" /\ Idle.kind = "other"
  /\ Idle.at = 0 /\ Idle.since = 0 /\ Idle.got = {} /\ Idle.asks = 0
<1>1. (CHOOSE f \in Files : TRUE) \in Files /\ (CHOOSE t \in Texts : TRUE) \in Texts
  BY DiagnosticsAssumption
<1> QED  BY <1>1 DEF Idle, Call, PCs, Kinds, Report

\* A call that becomes another changes no other.
LEMMA BecomesMoves ==
  ASSUME Types, NEW c \in Callers, NEW n \in Call, Becomes(c, n)
  PROVE  Moved(c) /\ call'[c] = n
BY DEF Types, Stored, Becomes, Moved

\* A call that only goes on.
LEMMA PcMoves ==
  ASSUME Types, NEW c \in Callers, NEW pc \in PCs,
         Becomes(c, [call[c] EXCEPT !.pc = pc])
  PROVE  Moved(c) /\ Goes(c, pc)
<1>1. call[c] \in Call
  BY DEF Types, Stored
<1>2. [call[c] EXCEPT !.pc = pc] \in Call
  BY <1>1 DEF Call
<1> HIDE DEF Call
<1>3. Moved(c) /\ call'[c] = [call[c] EXCEPT !.pc = pc]
  BY <1>2, BecomesMoves
<1> QED  BY <1>1, <1>3 DEF Goes, Kept, Same, Call

\* A call that is over.
LEMMA EndsMoves ==
  ASSUME Types, NEW c \in Callers, Becomes(c, Ends(call[c]))
  PROVE  Moved(c) /\ Ended(c)
<1>1. call[c].asks \in Nat
  BY DEF Types, Stored, Call
<1>2. Ends(call[c]) \in Call
  BY <1>1, IdleIs DEF Ends, Call
<1>3. Moved(c) /\ call'[c] = Ends(call[c])
  BY <1>2, BecomesMoves
<1> QED  BY <1>3, IdleIs DEF Ended, Ends, Call

\* A call whose file cannot be pushed.
LEMMA UnsyncedMoves ==
  ASSUME Types, NEW c \in Callers, Becomes(c, Unsynced(call[c]))
  PROVE  Moved(c) /\ Fails(c)
<1>1. CASE call[c].kind = "edit"
  BY <1>1, PcMoves DEF Unsynced, Fails, PCs
<1>2. CASE call[c].kind # "edit"
  BY <1>2, EndsMoves DEF Unsynced, Fails
<1> QED  BY <1>1, <1>2

\* A call that has its answer, or has stopped waiting for it.
LEMMA VerdictMoves ==
  ASSUME Types, NEW c \in Callers, Becomes(c, Verdict(call[c]))
  PROVE  Moved(c) /\ Answered(c)
<1>1. CASE call[c].kind = "edit"
  <2>1. call[c] \in Call
    BY DEF Types, Stored
  <2>2. Verdict(call[c]) = [call[c] EXCEPT !.pc = "take", !.text = Idle.text, !.since = 0]
    BY <1>1 DEF Verdict
  <2>3. [call[c] EXCEPT !.pc = "take", !.text = Idle.text, !.since = 0] \in Call
    BY <2>1, IdleIs DEF Call, PCs
  <2>4. Moved(c) /\ call'[c] = Verdict(call[c])
    BY <2>2, <2>3, BecomesMoves
  <2> QED  BY <1>1, <2>1, <2>2, <2>4 DEF Answered, Same, Call
<1>2. CASE call[c].kind # "edit"
  BY <1>2, EndsMoves DEF Verdict, Answered
<1> QED  BY <1>1, <1>2

\* A call that has the report it waited for.
LEMMA LearnsMoves ==
  ASSUME Types, NEW c \in Callers, Learns(c)
  PROVE  Moved(c) /\ Learned(c)
<1>1. call[c] \in Call /\ call[c].file \in Files /\ call[c].at \in Nat
  BY DEF Types, Stored, Call
<1>2. PICK d \in Newer(call[c].file, call[c].since) :
        Becomes(c, [call[c] EXCEPT !.pc = "forget",
                                   !.got = {Told(call[c].file, d, call[c].at)}])
  BY DEF Learns
<1>3. d \in diags[call[c].file] /\ d.seq > call[c].since
  BY <1>2 DEF Newer
<1>4. d \in Finding
  BY <1>1, <1>3 DEF Types, Stored
<1>5. Told(call[c].file, d, call[c].at) \in Report
  BY <1>1, <1>4 DEF Told, Report, Finding
<1>6. [call[c] EXCEPT !.pc = "forget", !.got = {Told(call[c].file, d, call[c].at)}] \in Call
  BY <1>1, <1>5 DEF Call, PCs
<1>7. Moved(c) /\ call'[c] = [call[c] EXCEPT !.pc = "forget",
                                   !.got = {Told(call[c].file, d, call[c].at)}]
  BY <1>2, <1>6, BecomesMoves
<1>8. /\ Kept(c) /\ call'[c].pc = "forget"
      /\ call'[c].got = {Told(call[c].file, d, call[c].at)}
  BY <1>1, <1>7 DEF Kept, Same, Call
<1> QED  BY <1>3, <1>7, <1>8 DEF Learned

\* A call that begins is of one of its caller's kinds, and keeps nothing yet.
Begun(c) ==
  LET n == call'[c] IN
  /\ <<n.kind, n.file>> \in Calls[c] /\ MayBegin(c, n.kind)
  /\ n.pc = FirstStep[n.kind] /\ n.asks <= Asks[c]
  /\ n.at = 0 /\ n.since = 0 /\ n.got = {}

LEMMA BeginMoves ==
  ASSUME Types, NEW c \in Callers, Begin(c)
  PROVE  Moved(c) /\ Begun(c)
<1>1. PICK k \in Calls[c] :
        LET asks == call[c].asks + (IF k[1] \in {"all", "other"} THEN 0 ELSE 1)
        IN  /\ MayBegin(c, k[1]) /\ asks <= Asks[c]
            /\ Becomes(c, [Idle EXCEPT !.pc = FirstStep[k[1]], !.kind = k[1],
                                       !.file = k[2], !.asks = asks])
  BY DEF Begin
<1> DEFINE asks == call[c].asks + (IF k[1] \in {"all", "other"} THEN 0 ELSE 1)
           n == [Idle EXCEPT !.pc = FirstStep[k[1]], !.kind = k[1],
                             !.file = k[2], !.asks = asks]
<1>2. k = <<k[1], k[2]>> /\ k[1] \in Kinds /\ k[2] \in Files
  BY DiagnosticsAssumption
<1>3. call[c].asks \in Nat
  BY DEF Types, Stored, Call
<1>4. asks \in Nat
  BY <1>3
<1>5. FirstStep[k[1]] \in PCs
  BY <1>2 DEF FirstStep, Kinds, PCs
<1> HIDE DEF asks
<1>6. n \in Call /\ n.pc = FirstStep[k[1]] /\ n.kind = k[1] /\ n.file = k[2]
  BY <1>2, <1>4, <1>5, IdleIs DEF Call
<1>7. n.at = 0 /\ n.since = 0 /\ n.got = {} /\ n.asks = asks
  BY IdleIs DEF Call
<1>8. Becomes(c, n) /\ MayBegin(c, k[1]) /\ asks <= Asks[c]
  BY <1>1 DEF asks
<1> HIDE DEF n
<1>9. Moved(c) /\ call'[c] = n
  BY <1>6, <1>8, BecomesMoves
<1> QED  BY <1>2, <1>6, <1>7, <1>8, <1>9 DEF Begun

\* A text that was read is put beside the call.
LEMMA ReadFileMoves ==
  ASSUME Types, NEW c \in Callers, ReadFile(c)
  PROVE  Moved(c) /\ (Goes(c, "sync") \/ Fails(c))
<1>1. CASE Becomes(c, [call[c] EXCEPT !.pc = "sync", !.text = disk[call[c].file]])
  <2>1. call[c] \in Call /\ disk[call[c].file] \in Texts
    BY DEF Types, Stored, Call
  <2>2. [call[c] EXCEPT !.pc = "sync", !.text = disk[call[c].file]] \in Call
    BY <2>1 DEF Call, PCs
  <2>3. Moved(c) /\ call'[c] = [call[c] EXCEPT !.pc = "sync", !.text = disk[call[c].file]]
    BY <1>1, <2>2, BecomesMoves
  <2> QED  BY <2>1, <2>3 DEF Goes, Kept, Same, Call
<1>2. CASE Becomes(c, Unsynced(call[c]))
  BY <1>2, UnsyncedMoves
<1> QED  BY <1>1, <1>2 DEF ReadFile

\* Behind a push, or in place of one.
GoesOn(c) ==
  /\ call'[c].kind # "navigate" => call'[c].pc = "ask"
  /\ call'[c].kind = "navigate" => call'[c].pc = "take"
  /\ Same(c) /\ call'[c].got = call[c].got

SyncedTo(c) ==
  \/ GoesOn(c) /\ \E m \in synced[call[c].file] :
                    call'[c].at = m.at /\ call'[c].since = m.since
  \/ call[c].kind = "navigate" /\ Ended(c)

Pushed(c) ==
  /\ Same(c) /\ call'[c].got = call[c].got /\ call'[c].pc = "send"
  /\ call'[c].at = versions[call[c].file] + 1 /\ call'[c].since = pubSeq
  /\ versions' = [versions EXCEPT ![call[c].file] = versions[call[c].file] + 1]

LEMMA SyncMoves ==
  ASSUME Types, NEW c \in Callers, Sync(c)
  PROVE  /\ Moved(c) /\ UNCHANGED <<outside, synced, pubSeq, diags, held, far>>
         /\ (SyncedTo(c) /\ versions' = versions) \/ Pushed(c)
<1> DEFINE r == call[c]
<1>1. r \in Call /\ r.file \in Files /\ r.kind \in Kinds /\ r.asks \in Nat
  BY DEF Types, Stored, Call
<1>2. CASE Holds(r.file, r.text)
  <2>1. PICK m \in synced[r.file] :
          \E n \in Synced([r EXCEPT !.at = m.at, !.since = m.since]) : Becomes(c, n)
    BY <1>2 DEF Sync
  <2>2. UNCHANGED <<outside, client, held, far>>
    BY <1>2 DEF Sync
  <2>3. m \in Mark
    BY <1>1, <2>1 DEF Types, Stored
  <2> DEFINE s == [r EXCEPT !.at = m.at, !.since = m.since]
  <2>4. /\ s \in Call /\ s.kind = r.kind /\ s.file = r.file /\ s.asks = r.asks
        /\ s.got = r.got /\ s.at = m.at /\ s.since = m.since
    BY <1>1, <2>3 DEF Call, Mark
  <2> HIDE DEF s
  <2>5. CASE r.kind = "navigate" /\ Becomes(c, Ends(s))
    <3>1. Ends(s) = Ends(r)
      BY <2>4 DEF Ends
    <3> QED  BY <2>2, <2>5, <3>1, EndsMoves DEF SyncedTo, client
  <2>6. ASSUME NEW pc \in PCs, Becomes(c, [s EXCEPT !.pc = pc]),
               pc = IF r.kind = "navigate" THEN "take" ELSE "ask"
        PROVE  Moved(c) /\ SyncedTo(c)
    <3>1. [s EXCEPT !.pc = pc] \in Call
      BY <2>4 DEF Call
    <3>2. Moved(c) /\ call'[c] = [s EXCEPT !.pc = pc]
      BY <2>6, <3>1, BecomesMoves
    <3>3. GoesOn(c) /\ call'[c].at = m.at /\ call'[c].since = m.since
      BY <2>4, <2>6, <3>2 DEF GoesOn, Same, Call
    <3> QED  BY <2>1, <3>2, <3>3 DEF SyncedTo
  <2>7. \E n \in Synced(s) : Becomes(c, n)
    BY <2>1 DEF s
  <2>8. CASE r.kind = "navigate"
    BY <2>2, <2>4, <2>5, <2>6, <2>7, <2>8 DEF Synced, PCs, client
  <2>9. CASE r.kind # "navigate"
    BY <2>2, <2>4, <2>6, <2>7, <2>9 DEF Synced, PCs, client
  <2> QED  BY <2>8, <2>9
<1>3. CASE ~Holds(r.file, r.text)
  <2> DEFINE v == versions[r.file] + 1
             n == [r EXCEPT !.at = v, !.since = pubSeq, !.pc = "send"]
  <2>1. Push(c)
    BY <1>3 DEF Sync
  <2>2. n \in Call
    <3>1. v \in Nat /\ pubSeq \in Nat
      BY <1>1 DEF Types, Stored
    <3> HIDE DEF v
    <3> QED  BY <1>1, <3>1 DEF Call, PCs
  <2>3. Becomes(c, n) /\ UNCHANGED <<outside, synced, pubSeq, diags, held, far>>
    BY <2>1 DEF Push
  <2>4. Moved(c) /\ call'[c] = n
    BY <2>2, <2>3, BecomesMoves
  <2>5. versions' = [versions EXCEPT ![r.file] = v]
    BY <2>1 DEF Push
  <2> QED  BY <1>1, <2>3, <2>4, <2>5 DEF Pushed, Same, Call
<1> QED  BY <1>2, <1>3

\* A push that was sent, and one that was recorded.
LEMMA SendMoves ==
  ASSUME Types, NEW c \in Callers, Send(c)
  PROVE  Moved(c) /\ (Goes(c, "record") \/ Fails(c))
<1>1. CASE Becomes(c, [call[c] EXCEPT !.pc = "record"])
  BY <1>1, PcMoves DEF PCs
<1>2. CASE Becomes(c, Unsynced(call[c]))
  BY <1>2, UnsyncedMoves
<1> QED  BY <1>1, <1>2 DEF Send

LEMMA RecordMoves ==
  ASSUME Types, NEW c \in Callers, Record(c)
  PROVE  /\ Moved(c)
         /\ \/ call[c].kind = "navigate" /\ (Goes(c, "take") \/ Ended(c))
            \/ call[c].kind # "navigate" /\ Goes(c, "ask")
<1>1. PICK n \in Synced(call[c]) : Becomes(c, n)
  BY DEF Record
<1>2. CASE call[c].kind = "navigate"
  BY <1>1, <1>2, PcMoves, EndsMoves DEF Synced, PCs
<1>3. CASE call[c].kind # "navigate"
  BY <1>1, <1>3, PcMoves DEF Synced, PCs
<1> QED  BY <1>2, <1>3

\* The wait.
LEMMA AskMoves ==
  ASSUME Types, NEW c \in Callers, Ask(c)
  PROVE  Moved(c) /\ (Learned(c) \/ Goes(c, "parked"))
BY LearnsMoves, PcMoves DEF Ask, PCs

LEMMA WakesMoves ==
  ASSUME Types, NEW c \in Callers, Wakes(c)
  PROVE  /\ Moved(c)
         /\ \/ Learned(c)
            \/ call[c].kind = "edit" /\ Goes(c, "hold")
            \/ call[c].kind # "edit" /\ Goes(c, "latest")
<1>1. CASE Learns(c)
  BY <1>1, LearnsMoves
<1>2. CASE Becomes(c, [call[c] EXCEPT !.pc =
                         IF call[c].kind = "edit" THEN "hold" ELSE "latest"])
  BY <1>2, PcMoves DEF PCs
<1> QED  BY <1>1, <1>2 DEF Wakes

\* The last reports there are, of one file and of all.
Collects(c) ==
  /\ Kept(c) /\ call'[c].pc = "settle"
  /\ \A g \in call'[c].got : \E f \in Files : \E d \in diags[f] :
       \/ g = Told(f, d, 0)
       \/ f = call[c].file /\ d.seq > call[c].since /\ g = Told(f, d, call[c].at)

LEMMA CollectsMoves ==
  ASSUME Types, NEW c \in Callers, NEW got,
         \A g \in got : \E f \in Files : \E d \in diags[f] :
           \/ g = Told(f, d, 0)
           \/ f = call[c].file /\ d.seq > call[c].since /\ g = Told(f, d, call[c].at),
         Becomes(c, [call[c] EXCEPT !.pc = "settle", !.got = got])
  PROVE  Moved(c) /\ Collects(c)
<1>1. call[c] \in Call /\ call[c].at \in Nat
  BY DEF Types, Stored, Call
<1>2. got \subseteq Report
  <2> SUFFICES ASSUME NEW g \in got PROVE g \in Report
    OBVIOUS
  <2>1. PICK f \in Files : \E d \in diags[f] :
          g = Told(f, d, 0) \/ g = Told(f, d, call[c].at)
    OBVIOUS
  <2>3. PICK d \in diags[f] : g = Told(f, d, 0) \/ g = Told(f, d, call[c].at)
    BY <2>1
  <2>2. d \in Finding
    BY DEF Types, Stored
  <2> QED  BY <1>1, <2>3, <2>2 DEF Told, Report, Finding
<1>3. [call[c] EXCEPT !.pc = "settle", !.got = got] \in Call
  BY <1>1, <1>2 DEF Call, PCs
<1>4. Moved(c) /\ call'[c] = [call[c] EXCEPT !.pc = "settle", !.got = got]
  BY <1>3, BecomesMoves
<1>5. Kept(c) /\ call'[c].pc = "settle" /\ call'[c].got = got
  BY <1>1, <1>4 DEF Kept, Same, Call
<1> QED  BY <1>4, <1>5 DEF Collects

LEMMA LatestMoves ==
  ASSUME Types, NEW c \in Callers, Latest(c)
  PROVE  Moved(c) /\ Collects(c)
<1> DEFINE r == call[c]
           got == {Told(r.file, d, IF d.seq > r.since THEN r.at ELSE 0) : d \in diags[r.file]}
<1>1. Becomes(c, [r EXCEPT !.pc = "settle", !.got = got]) /\ r.file \in Files
  BY DEF Latest, Types, Call
<1>2. \A g \in got : \E f \in Files : \E d \in diags[f] :
        \/ g = Told(f, d, 0)
        \/ f = r.file /\ d.seq > r.since /\ g = Told(f, d, r.at)
  BY <1>1
<1> QED  BY <1>1, <1>2, CollectsMoves

LEMMA CopyAllMoves ==
  ASSUME Types, NEW c \in Callers, CopyAll(c)
  PROVE  Moved(c) /\ Collects(c)
<1> DEFINE got == UNION {{Told(f, d, 0) : d \in diags[f]} : f \in Files}
<1>1. Becomes(c, [call[c] EXCEPT !.pc = "settle", !.got = got])
  BY DEF CopyAll
<1>2. \A g \in got : \E f \in Files : \E d \in diags[f] : g = Told(f, d, 0)
  OBVIOUS
<1> QED  BY <1>1, <1>2, CollectsMoves

\* A step of a call under way ends it or leaves it the call it is.
LEMMA StepMoves ==
  ASSUME Types, NEW c \in Callers, Step(c)
  PROVE  Moved(c) /\ ~On(c, "idle") /\ (Ended(c) \/ (Same(c) /\ ~On(c, "idle")'))
<1> DEFINE Goal == Moved(c) /\ ~On(c, "idle") /\ (Ended(c) \/ (Same(c) /\ ~On(c, "idle")'))
<1> USE DEF On, Kept
<1>1. CASE Write(c)
  <2>1. Moved(c) /\ Goes(c, "read")
    BY <1>1, PcMoves DEF Write, PCs
  <2> QED  BY <1>1, <2>1 DEF Write, Goes
<1>2. CASE ReadFile(c)
  BY <1>2, ReadFileMoves DEF ReadFile, Goes, Fails
<1>3. CASE Sync(c)
  <2>1. Moved(c) /\ (SyncedTo(c) \/ Pushed(c))
    BY <1>3, SyncMoves
  <2>2. GoesOn(c) => Same(c) /\ call'[c].pc # "idle"
    BY DEF GoesOn
  <2> QED  BY <1>3, <2>1, <2>2 DEF Sync, SyncedTo, Pushed
<1>4. CASE Send(c)
  BY <1>4, SendMoves DEF Send, Goes, Fails
<1>5. CASE Record(c)
  BY <1>5, RecordMoves DEF Record, Goes
<1>6. CASE Ask(c)
  BY <1>6, AskMoves DEF Ask, Goes, Learned
<1>7. CASE Wakes(c)
  BY <1>7, WakesMoves DEF Wakes, Goes, Learned
<1>8. CASE Forget(c)
  BY <1>8, VerdictMoves DEF Forget, Answered
<1>9. CASE Hold(c)
  BY <1>9, VerdictMoves DEF Hold, Answered
<1>10. CASE Latest(c)
  BY <1>10, LatestMoves DEF Latest, Collects
<1>11. CASE CopyAll(c)
  BY <1>11, CopyAllMoves DEF CopyAll, Collects
<1>12. CASE Settle(c)
  BY <1>12, EndsMoves DEF Settle
<1>13. CASE Take(c)
  BY <1>13, EndsMoves DEF Take
<1> QED
  BY <1>1, <1>2, <1>3, <1>4, <1>5, <1>6, <1>7, <1>8, <1>9, <1>10, <1>11, <1>12, <1>13
  DEF Step

-----------------------------------------------------------------------------
\* Every step keeps the types: the call's own by what it did, and the rest one
\* variable at a time.
LEMMA TypesKept == ASSUME Types, Next PROVE Types'
<1> USE DEF outside, client, far
<1>1. call' \in [Callers -> Call]
  <2>1. ASSUME NEW c \in Callers, Begin(c) \/ Step(c) PROVE call' \in [Callers -> Call]
    BY <2>1, BeginMoves, StepMoves DEF Moved
  <2>2. ASSUME NEW f \in Files, Publishes(f) \/ HandEdit(f)
        PROVE  call' \in [Callers -> Call]
    BY <2>2 DEF Publishes, HandEdit, Types
  <2>3. CASE Receives \/ Dies
    BY <2>3 DEF Receives, Dies, Types
  <2> QED  BY <2>1, <2>2, <2>3 DEF Next
<1> USE DEF Types, Stored
<1>2. \A c \in Callers : call[c].file \in Files /\ call[c] \in Call
  BY DEF Call
<1>3. ASSUME NEW c \in Callers, Begin(c) PROVE Stored'
  BY <1>3 DEF Begin
<1>4. ASSUME NEW c \in Callers, Write(c) PROVE Stored'
  <2>1. PICK t \in Texts : disk' = [disk EXCEPT ![call[c].file] = t]
    BY <1>4 DEF Write
  <2> QED  BY <1>4, <2>1 DEF Write
<1>5. ASSUME NEW c \in Callers, ReadFile(c) PROVE Stored'
  BY <1>5 DEF ReadFile
<1>6. ASSUME NEW c \in Callers, Sync(c) PROVE Stored'
  <2>1. /\ UNCHANGED <<outside, synced, pubSeq, diags, held, far>>
        /\ (SyncedTo(c) /\ versions' = versions) \/ Pushed(c)
    BY <1>6, SyncMoves
  <2>2. versions[call[c].file] + 1 \in Nat
    BY <1>2
  <2>3. CASE Pushed(c)
    BY <2>1, <2>2, <2>3 DEF Pushed
  <2>4. CASE versions' = versions
    BY <2>1, <2>4
  <2> QED  BY <2>1, <2>3, <2>4
<1>7. ASSUME NEW c \in Callers, Send(c) PROVE Stored'
  <2>1. [file |-> call[c].file, text |-> call[c].text] \in Message
    BY DEF Call, Message
  <2>2. \/ wire' = wire
        \/ wire' = Append(wire, [file |-> call[c].file, text |-> call[c].text])
    BY <1>7 DEF Send
  <2> HIDE DEF Types, Stored
  <2>3. wire \in Seq(Message)
    BY DEF Types, Stored
  <2>4. wire' \in Seq(Message)
    BY <2>1, <2>2, <2>3
  <2> QED  BY <1>7, <2>4 DEF Send, Types, Stored
<1>8. ASSUME NEW c \in Callers, Record(c) PROVE Stored'
  <2> DEFINE m == [text |-> call[c].text, since |-> call[c].since, at |-> call[c].at]
  <2>1. {m} \subseteq Mark
    BY DEF Call, Mark
  <2>2. synced' = synced \/ synced' = [synced EXCEPT ![call[c].file] = {m}]
    BY <1>8 DEF Record
  <2> HIDE DEF m
  <2>3. synced' \in [Files -> SUBSET Mark]
    BY <2>1, <2>2, SMTT(30)
  <2> QED  BY <1>8, <2>3 DEF Record
<1>9. ASSUME NEW c \in Callers, Ask(c) PROVE Stored'
  BY <1>9 DEF Ask
<1>10. ASSUME NEW c \in Callers, Wakes(c) PROVE Stored'
  BY <1>10 DEF Wakes
<1>11. ASSUME NEW c \in Callers, Forget(c) PROVE Stored'
  BY <1>11 DEF Forget
<1>12. ASSUME NEW c \in Callers, Hold(c) PROVE Stored'
  <2> DEFINE q == [after |-> call[c].since, at |-> call[c].at]
  <2>1. {q} \subseteq Question
    BY <1>2 DEF Call, Question
  <2>2. held' = [held EXCEPT ![call[c].file] = {q}]
    BY <1>12 DEF Hold
  <2> HIDE DEF q
  <2>3. held' \in [Files -> SUBSET Question]
    BY <2>1, <2>2
  <2> QED  BY <1>12, <2>3 DEF Hold
<1>13. ASSUME NEW c \in Callers, Latest(c) PROVE Stored'
  BY <1>13 DEF Latest
<1>14. ASSUME NEW c \in Callers, CopyAll(c) PROVE Stored'
  BY <1>14 DEF CopyAll
<1>15. ASSUME NEW c \in Callers, Settle(c) PROVE Stored'
  BY <1>15 DEF Settle
<1>16. ASSUME NEW c \in Callers, Take(c) PROVE Stored'
  BY <1>16 DEF Take
<1>17. ASSUME Receives PROVE Stored'
  <2> DEFINE p == Head(wire)
  <2>1. p \in Message /\ wire' \in Seq(Message)
    BY <1>17 DEF Receives
  <2>2. server' = [server EXCEPT !.text[p.file] = {p.text}, !.owes = @ \cup {p.file}]
    BY <1>17 DEF Receives
  <2> HIDE DEF p
  <2>3. server' \in Server
    BY <2>1, <2>2 DEF Server, Message
  <2> QED  BY <1>17, <2>1, <2>3 DEF Receives
<1>18. ASSUME Dies PROVE Stored'
  <2>1. server' \in Server
    BY <1>18 DEF Dies, Server
  <2>2. wire' \in Seq(Message)
    BY <1>18 DEF Dies
  <2> QED  BY <1>18, <2>1, <2>2 DEF Dies
<1>19. ASSUME NEW f \in Files, Publishes(f) PROVE Stored'
  <2>1. server' \in Server
    BY <1>19 DEF Publishes, Server
  <2> DEFINE new == {[seq |-> pubSeq', text |-> t, at |-> versions[f]] :
                       t \in server.text[f]}
  <2>2. new \subseteq Finding
    BY <1>19 DEF Publishes, Finding, Server
  <2>3. diags' = [diags EXCEPT ![f] = new] /\ pubSeq' = pubSeq + 1
    BY <1>19 DEF Publishes
  <2> HIDE DEF new
  <2>4. diags' \in [Files -> SUBSET Finding]
    BY <2>2, <2>3
  <2> QED  BY <1>19, <2>1, <2>3, <2>4 DEF Publishes
<1>20. ASSUME NEW f \in Files, HandEdit(f) PROVE Stored'
  <2>1. hands' \in 0..Hands
    BY <1>20, DiagnosticsAssumption DEF HandEdit
  <2>2. disk' \in [Files -> Texts]
    BY <1>20 DEF HandEdit
  <2> QED  BY <1>20, <2>1, <2>2 DEF HandEdit
<1> HIDE DEF Stored, Types, outside, client, far
<1>21. ASSUME NEW c \in Callers, Begin(c) \/ Step(c) PROVE Stored'
  BY <1>3, <1>4, <1>5, <1>6, <1>7, <1>8, <1>9, <1>10, <1>11, <1>12, <1>13, <1>14,
     <1>15, <1>16, <1>21 DEF Step
<1>22. Stored'
  BY <1>17, <1>18, <1>19, <1>20, <1>21 DEF Next
<1> QED  BY <1>1, <1>22 DEF Types

-----------------------------------------------------------------------------
\* The counters only grow, and a report that comes in is about the last version.
Grows ==
  /\ pubSeq' >= pubSeq /\ \A f \in Files : versions'[f] >= versions[f]
  /\ \A f \in Files : \A d \in diags'[f] :
       d \in diags[f] \/ (d.at = versions[f] /\ d.seq = pubSeq' /\ pubSeq' = pubSeq + 1)

LEMMA StepGrows == ASSUME Types, Next PROVE Grows
<1> USE DEF outside, client, far, Grows
<1>1. /\ pubSeq \in Nat /\ versions \in [Files -> Nat]
      /\ \A c \in Callers : call[c].file \in Files
  BY DEF Types, Stored, Call
<1>2. ASSUME NEW c \in Callers, Begin(c) PROVE Grows
  BY <1>1, <1>2 DEF Begin
<1>3. ASSUME NEW c \in Callers, Step(c), ~Sync(c) PROVE Grows
  BY <1>1, <1>3 DEF Step, Write, ReadFile, Send, Record, Ask, Wakes, Forget, Hold,
     Latest, CopyAll, Settle, Take
<1>4. ASSUME NEW c \in Callers, Sync(c) PROVE Grows
  <2>1. /\ UNCHANGED <<outside, synced, pubSeq, diags, held, far>>
        /\ (SyncedTo(c) /\ versions' = versions) \/ Pushed(c)
    BY <1>4, SyncMoves
  <2> QED  BY <1>1, <2>1 DEF Pushed
<1>5. CASE Receives \/ Dies
  BY <1>1, <1>5 DEF Receives, Dies
<1>6. ASSUME NEW f \in Files, Publishes(f) PROVE Grows
  BY <1>1, <1>6 DEF Publishes, Types, Stored
<1>7. ASSUME NEW f \in Files, HandEdit(f) PROVE Grows
  BY <1>1, <1>7 DEF HandEdit
<1> HIDE DEF Grows, outside, client, far
<1> QED  BY <1>2, <1>3, <1>4, <1>5, <1>6, <1>7 DEF Next

\* So a pair of counters that was anchored stays so.
LEMMA StaysAnchored ==
  ASSUME Types, Types', Grows, NEW f \in Files, NEW since \in Nat, NEW at \in Nat,
         Anchored(f, since, at)
  PROVE  Anchored(f, since, at)'
<1>1. /\ versions[f] \in Nat /\ versions'[f] \in Nat /\ pubSeq \in Nat /\ pubSeq' \in Nat
  BY DEF Types, Stored
<1>2. at <= versions'[f] /\ since <= pubSeq'
  BY <1>1 DEF Grows, Anchored
<1>3. \A d \in diags'[f] : d.seq > since => at <= d.at
  BY <1>1 DEF Grows, Anchored
<1> QED  BY <1>2, <1>3 DEF Anchored

\* Every step keeps what the server has of a file, and its reports, in bounds.
LEMMA OpenedKept == ASSUME Types, Shapes, Opened, Next PROVE Opened'
<1> USE DEF outside, client, far, Message
<1>1. /\ Types' /\ Grows
  BY TypesKept, StepGrows
<1>2. /\ \A f \in Files : versions[f] \in Nat /\ versions'[f] \in Nat
      /\ \A f \in Files : versions'[f] >= versions[f]
      /\ wire \in Seq(Message) /\ wire' \in Seq(Message)
      /\ server.owes \subseteq Files /\ server'.owes \subseteq Files
  BY <1>1 DEF Types, Stored, Grows, Server
<1>3. \A i \in 1..Len(wire) : versions'[wire[i].file] >= 1
  <2> SUFFICES ASSUME NEW i \in 1..Len(wire) PROVE versions'[wire[i].file] >= 1
    OBVIOUS
  <2>1. wire[i] \in Message
    <3> HIDE DEF Message
    <3> QED  BY <1>2
  <2>2. wire[i].file \in Files
    BY <2>1
  <2>3. versions[wire[i].file] >= 1
    BY DEF Opened
  <2> QED  BY <1>2, <2>2, <2>3
<1>4. \A f \in server.owes : versions'[f] >= 1
  BY <1>2 DEF Opened
<1>5. \A f \in Files : \A d \in diags'[f] : d.seq \in 1..pubSeq' /\ d.at \in 1..versions'[f]
  <2> SUFFICES ASSUME NEW f \in Files, NEW d \in diags'[f]
               PROVE  d.seq \in 1..pubSeq' /\ d.at \in 1..versions'[f]
    OBVIOUS
  <2>1. d \in Finding /\ pubSeq \in Nat /\ pubSeq' \in Nat
    BY <1>1 DEF Types, Stored
  <2>2. CASE d \in diags[f]
    BY <1>1, <1>2, <2>1, <2>2 DEF Opened, Grows
  <2>3. CASE d \notin diags[f]
    <3>1. d.at = versions[f] /\ d.seq = pubSeq' /\ pubSeq' = pubSeq + 1
      BY <1>1, <2>3 DEF Grows
    <3>2. versions[f] >= 1
      <4>1. diags'[f] # diags[f]
        BY <2>3
      <4>2. PICK g \in Files : Publishes(g)
        BY <4>1, SyncMoves DEF Next, Step, Begin, Write, ReadFile, Send, Record, Ask, Wakes,
           Forget, Hold, Latest, CopyAll, Settle, Take, Receives, Dies, HandEdit
      <4>3. g = f
        BY <4>1, <4>2 DEF Publishes, Types, Stored
      <4> QED  BY <4>2, <4>3 DEF Publishes, Opened
    <3> QED  BY <1>2, <2>1, <3>1, <3>2
  <2> QED  BY <2>2, <2>3
<1> DEFINE Fine == /\ \A i \in 1..Len(wire) : versions[wire[i].file] >= 1
                   /\ \A f \in server.owes : versions[f] >= 1
<1>6. ASSUME UNCHANGED <<wire, server>> PROVE Fine'
  BY <1>3, <1>4, <1>6
<1>7. ASSUME NEW c \in Callers, Send(c) PROVE Fine'
  <2>1. call[c].file \in Files /\ versions[call[c].file] >= 1
    <3>1. call[c].at >= 1 /\ call[c].at <= versions[call[c].file]
      BY <1>7 DEF Send, On, Shapes, Shape
    <3> QED  BY <1>2, <3>1 DEF Types, Call
  <2>2. \/ wire' = wire
        \/ wire' = Append(wire, [file |-> call[c].file, text |-> call[c].text])
    BY <1>7 DEF Send
  <2>3. server' = server /\ versions' = versions
    BY <1>7 DEF Send
  <2>4. \A i \in 1..Len(wire') : versions[wire'[i].file] >= 1
    <3>1. CASE wire' = wire
      BY <1>3, <2>3, <3>1
    <3>2. CASE wire' = Append(wire, [file |-> call[c].file, text |-> call[c].text])
      <4> SUFFICES ASSUME NEW i \in 1..Len(wire') PROVE versions[wire'[i].file] >= 1
        OBVIOUS
      <4>1. CASE i \in 1..Len(wire)
        BY <1>2, <1>3, <2>3, <3>2, <4>1
      <4>2. CASE i = Len(wire) + 1
        BY <1>2, <2>1, <3>2, <4>2
      <4> QED  BY <1>2, <3>2, <4>1, <4>2
    <3> QED  BY <2>2, <3>1, <3>2
  <2> QED  BY <1>4, <2>3, <2>4
<1>8. ASSUME Receives PROVE Fine'
  <2>1. /\ wire # <<>> /\ wire' = Tail(wire) /\ versions' = versions
        /\ server'.owes = server.owes \cup {wire[1].file}
    BY <1>8, <1>2 DEF Receives, Types, Stored, Server
  <2>2. Len(wire) \in Nat /\ 1 \in 1..Len(wire)
    BY <1>2, <2>1
  <2>3. \A i \in 1..Len(wire') : wire'[i] = wire[i + 1] /\ i + 1 \in 1..Len(wire)
    BY <1>2, <2>1, <2>2
  <2>4. versions[wire[1].file] >= 1
    BY <1>3, <2>1, <2>2
  <2>5. \A i \in 1..Len(wire') : versions'[wire'[i].file] >= 1
    BY <1>3, <2>3
  <2>6. \A f \in server'.owes : versions'[f] >= 1
    BY <1>4, <2>1, <2>4
  <2> QED  BY <2>5, <2>6
<1>9. ASSUME Dies PROVE Fine'
  <2>1. wire' = <<>> /\ server'.owes = {}
    BY <1>9 DEF Dies, Types, Stored, Server
  <2> QED  BY <2>1
<1>10. ASSUME NEW f \in Files, Publishes(f) PROVE Fine'
  <2>1. server'.owes \subseteq server.owes /\ wire' = wire
    BY <1>10 DEF Publishes, Types, Stored, Server
  <2> QED  BY <1>3, <1>4, <2>1
<1>11. Fine'
  <2>1. ASSUME NEW c \in Callers, Begin(c) \/ (Step(c) /\ ~Send(c))
        PROVE  UNCHANGED <<wire, server>>
    BY <2>1, SyncMoves DEF Step, Begin, Write, ReadFile, Record, Ask, Wakes,
       Forget, Hold, Latest, CopyAll, Settle, Take
  <2>2. ASSUME NEW f \in Files, HandEdit(f) PROVE UNCHANGED <<wire, server>>
    BY <2>2 DEF HandEdit
  <2> HIDE DEF Fine
  <2> QED  BY <1>6, <1>7, <1>8, <1>9, <1>10, <2>1, <2>2 DEF Next
<1> QED  BY <1>5, <1>11 DEF Opened

\* The questions grow by an edit that stops waiting, and by nothing else.
LEMMA OnlyHoldAsks ==
  ASSUME Types, Next, \A c \in Callers : ~Hold(c)
  PROVE  \A f \in Files : held'[f] \subseteq held[f]
<1> USE DEF outside, client, far
<1>1. ASSUME NEW c \in Callers, Begin(c) \/ Step(c), ~Forget(c), ~Settle(c), ~Take(c)
      PROVE  held' = held
  BY <1>1, SyncMoves DEF Step, Begin, Write, ReadFile, Send, Record, Ask, Wakes, Latest,
     CopyAll
<1>2. ASSUME NEW c \in Callers, Forget(c) PROVE \A f \in Files : held'[f] \subseteq held[f]
  BY <1>2 DEF Forget, Types, Stored
<1>3. ASSUME NEW c \in Callers, Settle(c) \/ Take(c)
      PROVE  \A f \in Files : held'[f] \subseteq held[f]
  BY <1>3 DEF Settle, Take
<1>4. CASE Receives \/ Dies \/ \E f \in Files : Publishes(f) \/ HandEdit(f)
  BY <1>4 DEF Receives, Dies, Publishes, HandEdit
<1>5. CASE \E c \in Callers : Begin(c) \/ Step(c)
  BY <1>1, <1>2, <1>3, <1>5
<1> QED  BY <1>4, <1>5 DEF Next

\* What the server holds of a file is told anew by a record, and by nothing else.
LEMMA OnlyRecordTells ==
  ASSUME Types, Next, \A c \in Callers : ~Record(c)
  PROVE  synced' = synced
<1> USE DEF outside, client, far
<1>1. ASSUME NEW c \in Callers, Begin(c) \/ Step(c) PROVE synced' = synced
  BY <1>1, SyncMoves DEF Step, Begin, Write, ReadFile, Send, Ask, Wakes, Forget, Hold,
     Latest, CopyAll, Settle, Take
<1>2. CASE Receives \/ Dies \/ \E f \in Files : Publishes(f) \/ HandEdit(f)
  BY <1>2 DEF Receives, Dies, Publishes, HandEdit
<1> QED  BY <1>1, <1>2 DEF Next

\* A caller that makes no step of its own is as it was.
LEMMA OnlyOwnSteps ==
  ASSUME Types, Next, NEW d \in Callers
  PROVE  call'[d] = call[d] \/ Begin(d) \/ Step(d)
<1>1. ASSUME NEW c \in Callers, Begin(c) \/ Step(c), c # d PROVE call'[d] = call[d]
  BY <1>1, BeginMoves, StepMoves DEF Moved
<1>2. ASSUME NEW f \in Files, Publishes(f) \/ HandEdit(f) PROVE call'[d] = call[d]
  BY <1>2 DEF Publishes, HandEdit
<1>3. CASE Receives \/ Dies
  BY <1>3 DEF Receives, Dies
<1> QED  BY <1>1, <1>2, <1>3 DEF Next

\* A step that is no push ends a call, takes it to where it reads what came
\* late, or leaves it the pair it has.
LEMMA StepKeeps ==
  ASSUME Types, NEW c \in Callers, Step(c), ~Sync(c)
  PROVE  Ended(c) \/ On(c, "take")' \/ (Kept(c) /\ ~On(c, "take"))
<1> USE DEF On
<1>1. CASE Write(c)
  BY <1>1, PcMoves DEF Write, PCs, Goes
<1>2. CASE ReadFile(c)
  BY <1>2, ReadFileMoves DEF ReadFile, Goes, Fails
<1>3. CASE Send(c)
  BY <1>3, SendMoves DEF Send, Goes, Fails
<1>4. CASE Record(c)
  BY <1>4, RecordMoves DEF Record, Goes
<1>5. CASE Ask(c)
  BY <1>5, AskMoves DEF Ask, Goes, Learned
<1>6. CASE Wakes(c)
  BY <1>6, WakesMoves DEF Wakes, Goes, Learned
<1>7. CASE Forget(c) \/ Hold(c)
  BY <1>7, VerdictMoves DEF Forget, Hold, Answered
<1>8. CASE Latest(c)
  BY <1>8, LatestMoves DEF Latest, Collects
<1>9. CASE CopyAll(c)
  BY <1>9, CopyAllMoves DEF CopyAll, Collects
<1>10. CASE Settle(c) \/ Take(c)
  BY <1>10, EndsMoves DEF Settle, Take
<1> QED
  BY <1>1, <1>2, <1>3, <1>4, <1>5, <1>6, <1>7, <1>8, <1>9, <1>10 DEF Step

\* Every step keeps the pairs anchored: a push takes both counters as they
\* are, and all that is kept after it is a copy of that pair.
LEMMA AnchorsKept == ASSUME IInv, Next PROVE Anchors'
<1>1. Types /\ Types' /\ Grows /\ Shapes /\ Anchors /\ Opened
  BY TypesKept, StepGrows DEF IInv
<1>2. ASSUME NEW f \in Files, NEW m \in synced'[f]
      PROVE  m.at >= 1 /\ Anchored(f, m.since, m.at)'
  <2>1. m \in Mark
    BY <1>1 DEF Types, Stored
  <2>2. CASE m \in synced[f]
    BY <1>1, <2>1, <2>2, StaysAnchored DEF Anchors, Mark
  <2>3. CASE m \notin synced[f]
    <3>1. PICK c \in Callers : Record(c)
      BY <1>1, <2>3, OnlyRecordTells
    <3>2. m = [text |-> call[c].text, since |-> call[c].since, at |-> call[c].at]
          /\ f = call[c].file
      BY <1>1, <2>3, <3>1 DEF Record, Types, Stored, Call
    <3>3. call[c].at >= 1 /\ Anchored(f, m.since, m.at)
      BY <1>1, <3>1, <3>2 DEF Record, On, Shapes, Shape, Anchors
    <3> QED  BY <1>1, <2>1, <3>2, <3>3, StaysAnchored DEF Mark
  <2> QED  BY <2>2, <2>3
<1>3. ASSUME NEW f \in Files, NEW q \in held'[f]
      PROVE  q.at >= 1 /\ Anchored(f, q.after, q.at)'
  <2>1. q \in Question
    BY <1>1 DEF Types, Stored
  <2>2. CASE q \in held[f]
    BY <1>1, <2>1, <2>2, StaysAnchored DEF Anchors, Question
  <2>3. CASE q \notin held[f]
    <3>1. PICK c \in Callers : Hold(c)
      BY <1>1, <2>3, OnlyHoldAsks
    <3>2. q = [after |-> call[c].since, at |-> call[c].at] /\ f = call[c].file
      BY <1>1, <2>3, <3>1 DEF Hold, Types, Stored, Call
    <3>3. call[c].at >= 1 /\ Anchored(f, q.after, q.at)
      BY <1>1, <3>1, <3>2 DEF Hold, On, Shapes, Shape, Anchors
    <3> QED  BY <1>1, <2>1, <3>2, <3>3, StaysAnchored DEF Question
  <2> QED  BY <2>2, <2>3
<1>4. ASSUME NEW c \in Callers, ~On(c, "take")'
      PROVE  Anchored(call[c].file, call[c].since, call[c].at)'
  <2>1. /\ call[c].file \in Files /\ call[c].since \in Nat /\ call[c].at \in Nat
        /\ call'[c].file \in Files /\ versions'[call'[c].file] \in Nat /\ pubSeq' \in Nat
        /\ diags'[call'[c].file] \subseteq Finding
    BY <1>1 DEF Types, Stored, Call
  <2>2. CASE call'[c].at = 0 /\ call'[c].since = 0
    BY <2>1, <2>2 DEF Anchored, Finding
  <2>3. CASE call'[c].file = call[c].file /\ call'[c].at = call[c].at
             /\ call'[c].since = call[c].since /\ ~On(c, "take")
    BY <1>1, <2>1, <2>3, StaysAnchored DEF Anchors
  <2>4. CASE Sync(c)
    <3>1. /\ UNCHANGED <<pubSeq, diags>>
          /\ (SyncedTo(c) /\ versions' = versions) \/ Pushed(c)
      BY <1>1, <2>4, SyncMoves DEF client
    <3>2. CASE Ended(c)
      BY <2>2, <3>2 DEF Ended
    <3>3. CASE \E m \in synced[call[c].file] :
                 Same(c) /\ call'[c].at = m.at /\ call'[c].since = m.since
      <4>1. PICK m \in synced[call[c].file] :
                   Same(c) /\ call'[c].at = m.at /\ call'[c].since = m.since
        BY <3>3
      <4>2. m.at \in Nat /\ m.since \in Nat
        BY <1>1, <2>1 DEF Types, Stored, Mark
      <4> QED  BY <1>1, <2>1, <4>1, <4>2, StaysAnchored DEF Anchors, Same
    <3>4. CASE Pushed(c)
      <4>1. /\ call'[c].file = call[c].file /\ call'[c].since = pubSeq'
            /\ call'[c].at = versions'[call[c].file]
        BY <1>1, <2>1, <3>1, <3>4 DEF Pushed, Same, Types, Stored
      <4>2. \A d \in diags'[call[c].file] : d.seq <= pubSeq' /\ d.seq \in Nat
        BY <1>1, <2>1, <3>1 DEF Opened, Types, Stored, Finding
      <4> QED  BY <2>1, <4>1, <4>2 DEF Anchored
    <3> QED  BY <3>1, <3>2, <3>3, <3>4 DEF SyncedTo, GoesOn
  <2>5. CASE Step(c) /\ ~Sync(c)
    BY <1>1, <1>4, <2>2, <2>3, <2>5, StepKeeps DEF Ended, Kept, Same
  <2>6. CASE Begin(c)
    BY <1>1, <2>2, <2>6, BeginMoves DEF Begun
  <2>7. CASE call'[c] = call[c]
    BY <1>4, <2>3, <2>7 DEF On
  <2> QED  BY <1>1, <2>4, <2>5, <2>6, <2>7, OnlyOwnSteps
<1> QED  BY <1>2, <1>3, <1>4 DEF Anchors

\* Every step leaves its call in the shape of the step it goes to.
LEMMA ShapesKept == ASSUME IInv, Next PROVE Shapes'
<1>1. Types /\ Types' /\ Grows /\ Shapes /\ Anchors /\ Opened
  BY TypesKept, StepGrows DEF IInv
<1> SUFFICES ASSUME NEW c \in Callers PROVE Shape(c)'
  BY DEF Shapes
<1> DEFINE r == call[c]
           n == call'[c]
<1>2. /\ r \in Call /\ n \in Call /\ Shape(c)
      /\ pubSeq \in Nat /\ pubSeq' \in Nat /\ pubSeq' >= pubSeq
      /\ \A f \in Files : versions[f] \in Nat /\ versions'[f] \in Nat
                          /\ versions'[f] >= versions[f]
  BY <1>1 DEF Types, Stored, Shapes, Grows
<1>3. /\ r.pc \in PCs /\ r.file \in Files /\ r.at \in Nat /\ r.since \in Nat
      /\ r.asks \in Nat /\ Asks[c] \in Nat /\ r.got \subseteq Report
      /\ n.pc \in PCs /\ n.file \in Files
      /\ r.at <= versions'[r.file] /\ r.since <= pubSeq' /\ r.asks <= Asks[c]
      /\ \A g \in r.got : g.seq \in 1..pubSeq'
  BY <1>2, DiagnosticsAssumption DEF Call, Report, Shape
<1>4. CASE n = r
  BY <1>2, <1>3, <1>4 DEF Shape
<1>5. CASE Ended(c)
  BY <1>2, <1>3, <1>5 DEF Ended, Shape
<1>6. CASE Begin(c)
  <2>1. Begun(c)
    BY <1>1, <1>6, BeginMoves
  <2>2. n.kind \in Kinds /\ (n.kind = "edit" => c \in Session)
    BY <2>1, DiagnosticsAssumption DEF Begun, Callers
  <2> QED  BY <1>2, <1>3, <2>1, <2>2 DEF Begun, FirstStep, Kinds, Shape
\* A step that keeps the pair, and the reports with it.
<1>7. ASSUME Kept(c), n.got = r.got, r.pc # "forget", n.pc # "forget",
             n.pc \in {"idle", "write", "read", "sync", "copy"} => r.at = 0 /\ r.since = 0,
             n.pc \in {"send", "record", "ask", "parked", "hold"} => r.at >= 1,
             n.pc \notin {"settle", "take"} => r.got = {},
             n.pc \in {"write", "hold"} => r.kind = "edit",
             n.pc \in {"idle", "latest", "settle", "copy"} => r.kind # "edit"
      PROVE  Shape(c)'
  BY <1>2, <1>3, <1>7 DEF Kept, Same, Shape
\* A file that could not be pushed.
<1>8. ASSUME Fails(c), r.got = {} PROVE Shape(c)'
  BY <1>2, <1>3, <1>5, <1>8 DEF Fails, Goes, Kept, Same, Shape
\* A report that came: it is newer, and so about the text or a later one.
<1>9. ASSUME Learned(c), ~On(c, "take") PROVE Shape(c)'
  <2>1. PICK d \in diags[r.file] :
          /\ d.seq > r.since /\ Kept(c) /\ n.pc = "forget"
          /\ n.got = {Told(r.file, d, r.at)}
    BY <1>9 DEF Learned
  <2>2. d.seq \in 1..pubSeq' /\ r.at <= d.at
    BY <1>1, <1>2, <1>3, <1>9, <2>1 DEF Opened, Anchors, Anchored
  <2>3. \A g \in n.got : /\ g.seq = d.seq /\ g.on = r.at /\ g.at = d.at
                         /\ g.file = r.file
    BY <2>1 DEF Told
  <2> QED  BY <1>2, <1>3, <2>1, <2>2, <2>3 DEF Kept, Same, Shape
<1>10. ASSUME Collects(c), r.kind # "edit", ~On(c, "take") PROVE Shape(c)'
  <2>1. ASSUME NEW g \in n.got PROVE g.seq \in 1..pubSeq' /\ g.on <= g.at
    <3>1. PICK f \in Files : \E d \in diags[f] :
            \/ g = Told(f, d, 0)
            \/ f = r.file /\ d.seq > r.since /\ g = Told(f, d, r.at)
      BY <1>10, <2>1 DEF Collects
    <3>2. PICK d \in diags[f] :
            \/ g = Told(f, d, 0)
            \/ f = r.file /\ d.seq > r.since /\ g = Told(f, d, r.at)
      BY <3>1
    <3>3. d.seq \in 1..pubSeq' /\ d.at \in Nat
      BY <1>1, <1>2 DEF Opened
    <3>4. f = r.file /\ d.seq > r.since => r.at <= d.at
      BY <1>1, <1>10 DEF Anchors, Anchored
    <3> QED  BY <3>2, <3>3, <3>4 DEF Told
  <2> QED  BY <1>2, <1>3, <1>10, <2>1 DEF Collects, Kept, Same, Shape
<1>11. ASSUME Answered(c), r.pc \in {"forget", "hold"} PROVE Shape(c)'
  BY <1>2, <1>3, <1>5, <1>11 DEF Answered, Same, Shape
<1> USE DEF On
<1>12. CASE Write(c)
  <2>1. Goes(c, "read") /\ r.pc = "write"
    BY <1>1, <1>12, PcMoves DEF Write, PCs
  <2> QED  BY <1>2, <1>7, <2>1 DEF Goes, Shape
<1>13. CASE ReadFile(c)
  <2>1. r.pc = "read" /\ (Goes(c, "sync") \/ Fails(c))
    BY <1>1, <1>13, ReadFileMoves DEF ReadFile
  <2> QED  BY <1>2, <1>7, <1>8, <2>1 DEF Goes, Shape
<1>14. CASE Sync(c)
  <2>1. /\ r.pc = "sync" /\ UNCHANGED <<pubSeq, diags>>
        /\ (SyncedTo(c) /\ versions' = versions) \/ Pushed(c)
    BY <1>1, <1>14, SyncMoves DEF Sync, client
  <2>2. CASE GoesOn(c) /\ \E m \in synced[r.file] : n.at = m.at /\ n.since = m.since
    <3>1. PICK m \in synced[r.file] : n.at = m.at /\ n.since = m.since
      BY <2>2
    <3>2. m.at >= 1 /\ m.at <= versions'[r.file] /\ m.since <= pubSeq'
          /\ m.at \in Nat /\ m.since \in Nat
      BY <1>1, <1>2, <1>3, <3>1, SMTT(30) DEF Anchors, Anchored, Types, Stored, Mark
    <3>3. r.got = {}
      BY <1>2, <2>1 DEF Shape
    <3> QED  BY <1>2, <1>3, <2>2, <3>1, <3>2, <3>3 DEF GoesOn, Same, Shape
  <2>3. CASE Pushed(c)
    <3>1. n.at = versions'[r.file] /\ n.at >= 1 /\ n.since <= pubSeq' /\ r.got = {}
      BY <1>1, <1>2, <1>3, <2>1, <2>3 DEF Pushed, Types, Stored, Shape
    <3> QED  BY <1>2, <1>3, <2>3, <3>1 DEF Pushed, Same, Shape
  <2> QED  BY <1>5, <2>1, <2>2, <2>3 DEF SyncedTo
<1>15. CASE Send(c)
  <2>1. r.pc = "send" /\ (Goes(c, "record") \/ Fails(c))
    BY <1>1, <1>15, SendMoves DEF Send
  <2> QED  BY <1>2, <1>7, <1>8, <2>1 DEF Goes, Shape
<1>16. CASE Record(c)
  <2>1. r.pc = "record" /\ (Goes(c, "take") \/ Goes(c, "ask") \/ Ended(c))
    BY <1>1, <1>16, RecordMoves DEF Record
  <2> QED  BY <1>2, <1>5, <1>7, <2>1 DEF Goes, Shape
<1>17. CASE Ask(c)
  <2>1. r.pc = "ask" /\ (Learned(c) \/ Goes(c, "parked"))
    BY <1>1, <1>17, AskMoves DEF Ask
  <2> QED  BY <1>2, <1>7, <1>9, <2>1 DEF Goes, Shape
<1>18. CASE Wakes(c)
  <2>1. /\ r.pc = "parked"
        /\ \/ Learned(c)
           \/ r.kind = "edit" /\ Goes(c, "hold")
           \/ r.kind # "edit" /\ Goes(c, "latest")
    BY <1>1, <1>18, WakesMoves DEF Wakes
  <2> QED  BY <1>2, <1>7, <1>9, <2>1 DEF Goes, Shape
<1>19. CASE Forget(c) \/ Hold(c)
  BY <1>1, <1>11, <1>19, VerdictMoves DEF Forget, Hold
<1>20. CASE Latest(c) \/ CopyAll(c)
  <2>1. Collects(c) /\ r.pc \in {"latest", "copy"}
    BY <1>1, <1>20, LatestMoves, CopyAllMoves DEF Latest, CopyAll
  <2> QED  BY <1>2, <1>10, <2>1 DEF Shape
<1>21. CASE Settle(c) \/ Take(c)
  BY <1>1, <1>5, <1>21, EndsMoves DEF Settle, Take
<1>22. CASE Step(c)
  BY <1>12, <1>13, <1>14, <1>15, <1>16, <1>17, <1>18, <1>19, <1>20, <1>21, <1>22 DEF Step
<1> QED  BY <1>1, <1>4, <1>6, <1>22, OnlyOwnSteps

\* Every step keeps an edit alone: only a call that begins is one more, and it
\* waits for the edit, or the edit for it.
LEMMA AloneKept == ASSUME IInv, Next PROVE Alone'
<1>1. Types /\ Types' /\ Alone /\ Shapes
  BY TypesKept DEF IInv
<1>2. Session \subseteq Callers
  BY DEF Callers
<1> SUFFICES ASSUME NEW s \in Session, NEW t \in Session, s # t, call'[s].kind = "edit"
             PROVE  call'[t].pc = "idle"
  BY DEF Alone, On
<1> USE DEF On
<1>3. CASE Begin(s)
  <2>1. Begun(s) /\ call'[t] = call[t]
    BY <1>1, <1>2, <1>3, BeginMoves DEF Moved
  <2>2. call'[s].kind = "edit" /\ MayBegin(s, call'[s].kind)
    BY <2>1 DEF Begun
  <2> QED  BY <2>1, <2>2 DEF MayBegin
<1>4. CASE ~Begin(s)
  <2>1. call[s].kind = "edit"
    BY <1>1, <1>2, <1>4, OnlyOwnSteps, StepMoves DEF Same, Ended
  <2>2. call[t].pc = "idle" /\ call[s].pc # "idle"
    BY <1>1, <1>2, <2>1 DEF Alone, Shapes, Shape
  <2>3. CASE Begin(t)
    <3>1. Begun(t)
      BY <1>1, <1>2, <2>3, BeginMoves
    <3>2. MayBegin(t, call'[t].kind)
      BY <3>1 DEF Begun
    <3> QED  BY <2>1, <2>2, <3>2 DEF MayBegin
  <2>4. ~Step(t)
    BY <1>1, <1>2, <2>2, StepMoves
  <2> QED  BY <1>1, <1>2, <2>2, <2>3, <2>4, OnlyOwnSteps
<1> QED  BY <1>3, <1>4

\* Every step keeps the question of an edit its own: nobody else leaves one
\* while the edit is under way.
LEMMA OwnKept == ASSUME IInv, Next PROVE OwnQuestion'
<1>1. Types /\ Types' /\ Alone /\ Shapes /\ OwnQuestion
  BY TypesKept DEF IInv
<1> SUFFICES ASSUME NEW c \in Callers, call'[c].pc = "take", call'[c].kind = "edit",
                    NEW q \in held'[call'[c].file]
             PROVE  call'[c].at <= q.at
  BY DEF OwnQuestion, On
<1> USE DEF On
<1>2. call[c].file \in Files /\ call'[c].file \in Files /\ call'[c].at \in Nat
  BY <1>1 DEF Types, Call
<1>3. CASE call'[c] = call[c]
  <2>1. ASSUME NEW d \in Callers, Hold(d) PROVE FALSE
    <3>1. call[d].pc = "hold" /\ call[d].kind = "edit" /\ d \in Session
      BY <1>1, <2>1 DEF Hold, Shapes, Shape
    <3>2. call[c].kind = "edit" /\ c \in Session /\ call[c].pc = "take"
      BY <1>1, <1>3 DEF Shapes, Shape
    <3> QED  BY <1>1, <3>1, <3>2 DEF Alone
  <2>2. q \in held[call[c].file]
    BY <1>1, <1>2, <1>3, <2>1, OnlyHoldAsks
  <2> QED  BY <1>1, <1>3, <2>2 DEF OwnQuestion
<1>4. CASE Forget(c)
  <2>1. Answered(c)
    BY <1>1, <1>4, VerdictMoves DEF Forget
  <2>2. call'[c].file = call[c].file
    BY <2>1 DEF Answered, Same, Ended
  <2>3. held'[call[c].file] = {}
    BY <1>1, <1>2, <1>4 DEF Forget, Types, Stored
  <2> QED  BY <2>2, <2>3
<1>5. CASE Hold(c)
  <2>1. Answered(c)
    BY <1>1, <1>5, VerdictMoves DEF Hold
  <2>2. call'[c].file = call[c].file /\ call'[c].at = call[c].at
    BY <2>1 DEF Answered, Same, Ended
  <2>3. q = [after |-> call[c].since, at |-> call[c].at]
    BY <1>1, <1>2, <1>5, <2>2 DEF Hold, Types, Stored
  <2> QED  BY <1>2, <2>2, <2>3
<1>6. CASE Step(c) /\ ~Forget(c) /\ ~Hold(c)
  <2>1. ~(call'[c].pc = "take" /\ call'[c].kind = "edit")
    <3>1. CASE Sync(c)
      BY <1>1, <3>1, SyncMoves DEF SyncedTo, GoesOn, Pushed, Ended
    <3>2. CASE Record(c)
      BY <1>1, <3>2, RecordMoves DEF Goes, Kept, Same, Ended
    <3>3. CASE Write(c)
      BY <1>1, <3>3, PcMoves DEF Write, PCs, Goes
    <3>4. CASE ReadFile(c)
      BY <1>1, <3>4, ReadFileMoves DEF Goes, Fails, Ended
    <3>5. CASE Send(c)
      BY <1>1, <3>5, SendMoves DEF Goes, Fails, Ended
    <3>6. CASE Ask(c)
      BY <1>1, <3>6, AskMoves DEF Goes, Learned
    <3>7. CASE Wakes(c)
      BY <1>1, <3>7, WakesMoves DEF Goes, Learned
    <3>8. CASE Latest(c) \/ CopyAll(c)
      BY <1>1, <3>8, LatestMoves, CopyAllMoves DEF Collects
    <3>9. CASE Settle(c) \/ Take(c)
      BY <1>1, <3>9, EndsMoves DEF Settle, Take, Ended
    <3> QED
      BY <1>6, <3>1, <3>2, <3>3, <3>4, <3>5, <3>6, <3>7, <3>8, <3>9 DEF Step
  <2> QED  BY <2>1
<1>7. CASE Begin(c)
  <2>1. Begun(c)
    BY <1>1, <1>7, BeginMoves
  <2> QED  BY <2>1 DEF Begun, FirstStep, Kinds
<1> QED  BY <1>1, <1>3, <1>4, <1>5, <1>6, <1>7, OnlyOwnSteps

-----------------------------------------------------------------------------
\* A server nobody pushed to satisfies the invariant.
LEMMA InitIInv == Init => IInv
<1> SUFFICES ASSUME Init PROVE IInv
  OBVIOUS
<1>1. Types
  <2>1. server \in Server
    BY DEF Init, Server
  <2>2. call \in [Callers -> Call]
    BY IdleIs DEF Init
  <2>3. disk \in [Files -> Texts] /\ hands \in 0..Hands
    BY IdleIs, DiagnosticsAssumption DEF Init
  <2>4. wire \in Seq(Message)
    BY DEF Init
  <2> QED  BY <2>1, <2>2, <2>3, <2>4 DEF Init, Types, Stored
<1>2. \A c \in Callers : call[c] = Idle
  BY DEF Init
<1>3. Opened
  BY DEF Init, Opened
<1>4. Anchors
  BY <1>2, IdleIs DEF Init, Anchors, Anchored, On, Call
<1>5. Shapes
  BY <1>2, IdleIs, DiagnosticsAssumption DEF Init, Shapes, Shape, Call
<1>6. Alone /\ OwnQuestion
  BY <1>2, IdleIs DEF Init, Alone, OwnQuestion, On, Callers
<1> QED  BY <1>1, <1>3, <1>4, <1>5, <1>6 DEF IInv

\* Every step, taken or not, keeps the invariant.
LEMMA StepIInv == IInv /\ [Next]_vars => IInv'
<1> SUFFICES ASSUME IInv, [Next]_vars PROVE IInv'
  OBVIOUS
<1>1. CASE Next
  BY <1>1, TypesKept, OpenedKept, AnchorsKept, ShapesKept, AloneKept, OwnKept DEF IInv
<1>2. CASE UNCHANGED vars
  BY <1>2 DEF vars, IInv, Types, Stored, Opened, Anchors, Anchored, Shapes, Shape, Alone,
     OwnQuestion, On
<1> QED  BY <1>1, <1>2

\* Every state a session reaches satisfies the invariant.
THEOREM Invariance == Spec => []IInv
BY InitIInv, StepIInv, PTL DEF Spec

\* The invariant has the types, and the bounds of the counters in them.
LEMMA InvTypeOK == IInv => TypeOK
<1> SUFFICES ASSUME IInv PROVE TypeOK
  OBVIOUS
<1> USE DEF IInv, Types, Stored
<1>1. \A f \in Files : versions[f] \in Nat
  OBVIOUS
<1>2. ASSUME NEW f \in Files
      PROVE  /\ synced[f] \subseteq [text : Texts, since : 0..pubSeq, at : 1..versions[f]]
             /\ diags[f] \subseteq [seq : 1..pubSeq, text : Texts, at : 1..versions[f]]
             /\ held[f] \subseteq [after : 0..pubSeq, at : 1..versions[f]]
             /\ server.text[f] \subseteq Texts
  <2>1. synced[f] \subseteq [text : Texts, since : 0..pubSeq, at : 1..versions[f]]
    BY <1>1 DEF Mark, Anchors, Anchored
  <2>2. diags[f] \subseteq [seq : 1..pubSeq, text : Texts, at : 1..versions[f]]
    BY <1>1 DEF Finding, Opened
  <2>3. held[f] \subseteq [after : 0..pubSeq, at : 1..versions[f]]
    BY <1>1 DEF Question, Anchors, Anchored
  <2>4. server.text[f] \subseteq Texts
    BY DEF Server
  <2> QED  BY <2>1, <2>2, <2>3, <2>4
<1>3. ASSUME NEW c \in Callers
      PROVE  LET r == call[c] IN
             /\ r.kind \in Kinds /\ r.file \in Files /\ r.text \in Texts
             /\ r.at \in 0..versions[r.file] /\ r.since \in 0..pubSeq
             /\ r.asks \in 0..Asks[c]
             /\ \A g \in r.got : g \in [file : Files, seq : 1..pubSeq, text : Texts,
                                        at : Nat, on : Nat]
  <2>1. call[c] \in Call /\ Shape(c)
    BY DEF Shapes
  <2>2. call[c].file \in Files /\ call[c].kind \in Kinds /\ call[c].text \in Texts
    BY <2>1 DEF Call
  <2>3. /\ call[c].at \in 0..versions[call[c].file] /\ call[c].since \in 0..pubSeq
        /\ call[c].asks \in 0..Asks[c]
    BY <1>1, <2>1, <2>2, DiagnosticsAssumption DEF Call, Shape
  <2>4. \A g \in call[c].got : g \in [file : Files, seq : 1..pubSeq, text : Texts,
                                      at : Nat, on : Nat]
    BY <2>1 DEF Call, Shape, Report
  <2> QED  BY <2>2, <2>3, <2>4
<1>4. wire \in Seq([file : Files, text : Texts])
  BY DEF Message
<1>5. server.up \in BOOLEAN /\ server.owes \subseteq Files
  BY DEF Server
<1> QED  BY <1>2, <1>3, <1>4, <1>5 DEF TypeOK

\* Every variable has its type: no counter is ahead of the one it was read from.
THEOREM TypeCorrect == Spec => []TypeOK
BY InvTypeOK, Invariance, PTL

\* What the invariant says of the reports a call answers with.
LEMMA InvNoFalseVerdict == IInv => NoFalseVerdict
<1> SUFFICES ASSUME IInv, NEW c \in Callers, NEW g \in Answers(c)
             PROVE  /\ g.on <= g.at
                    /\ call[c].kind = "edit" /\ g.file = call[c].file =>
                         call[c].at <= g.at
  BY DEF NoFalseVerdict
<1>1. Types /\ Shape(c) /\ Anchors /\ OwnQuestion
  BY DEF IInv, Shapes
<1>2. CASE g \in call[c].got
  BY <1>1, <1>2 DEF Shape
<1>3. CASE On(c, "take") /\ g \in Late
  <2>1. PICK f \in Files : g \in UNION {{Told(f, d, q.at) : d \in Newer(f, q.after)} :
                                          q \in held[f]}
    BY <1>3 DEF Late
  <2>2. PICK q \in held[f] : g \in {Told(f, d, q.at) : d \in Newer(f, q.after)}
    BY <2>1
  <2>3. PICK d \in Newer(f, q.after) : g = Told(f, d, q.at)
    BY <2>2
  <2>4. d \in diags[f] /\ d.seq > q.after
    BY <2>3 DEF Newer
  <2>5. q.at <= d.at
    BY <1>1, <2>4 DEF Anchors, Anchored
  <2>6. g.on = q.at /\ g.at = d.at /\ g.file = f
    BY <2>3 DEF Told
  <2>7. q.at \in Nat /\ d.at \in Nat /\ call[c].at \in Nat
    BY <1>1, <2>4 DEF Types, Stored, Question, Finding, Call
  <2>8. call[c].kind = "edit" /\ f = call[c].file => call[c].at <= q.at
    BY <1>1, <1>3 DEF OwnQuestion
  <2> QED  BY <2>5, <2>6, <2>7, <2>8
<1> QED  BY <1>2, <1>3 DEF Answers

\* No report from before a text is told as the verdict on it, whatever calls
\* run beside the one that asks and whoever changes the file.
THEOREM VerdictsAreNew == Spec => []NoFalseVerdict
BY InvNoFalseVerdict, Invariance, PTL

-----------------------------------------------------------------------------
(***************************************************************************)
(* A session without children: there an edit is alone, so what it pushed   *)
(* is what the server was last told of the file.  A child's calls are      *)
(* about the session's files, too, and lose it answers: the property does  *)
(* not hold with children.                                                 *)
(***************************************************************************)
LEMMA InitFresh == Init => Fresh
BY IdleIs DEF Init, Fresh, On

\* While an edit of the session is under way, nobody else makes a call.
LEMMA NobodyElse ==
  ASSUME Children = {}, IInv, NEW c \in Callers, call[c].kind = "edit",
         NEW d \in Callers, d # c
  PROVE  On(d, "idle") /\ ~Step(d)
<1>1. c \in Session /\ d \in Session
  BY DEF Callers
<1>2. On(d, "idle")
  BY <1>1 DEF IInv, Alone
<1>3. ~Step(d)
  BY <1>2, StepMoves DEF IInv
<1> QED  BY <1>2, <1>3

\* Every step keeps a question no newer than what its file's calls wait for.
LEMMA FreshKept ==
  ASSUME Children = {}, IInv, Fresh, Next
  PROVE  Fresh'
<1>1. Types /\ Types' /\ Shapes /\ Shapes' /\ Anchors /\ Alone
  BY TypesKept, ShapesKept DEF IInv
<1> USE DEF On
<1>2. \A c \in Callers : /\ call[c].file \in Files /\ call'[c].file \in Files
                         /\ call[c].since \in Nat /\ call'[c].since \in Nat
                         /\ call'[c].kind \in Kinds
  BY <1>1 DEF Types, Call
\* The mark of a record is its call's pair, and it is the only one.
<1>3. ASSUME NEW c \in Callers, Record(c)
      PROVE  /\ held' = held /\ versions' = versions
             /\ \/ synced' = synced /\ call[c].at # versions[call[c].file]
                \/ /\ call[c].at = versions[call[c].file]
                   /\ \A f \in Files \ {call[c].file} : synced'[f] = synced[f]
                   /\ \A m \in synced'[call[c].file] :
                        m = [text |-> call[c].text, since |-> call[c].since,
                             at |-> call[c].at]
  BY <1>1, <1>2, <1>3 DEF Record, Types, Stored
<1>4. ASSUME NEW c \in Callers, Hold(c)
      PROVE  /\ synced' = synced /\ versions' = versions
             /\ \A f \in Files \ {call[c].file} : held'[f] = held[f]
             /\ \A q \in held'[call[c].file] : q.after = call[c].since
  BY <1>1, <1>2, <1>4 DEF Hold, client, Types, Stored
<1>5. ASSUME NEW f \in Files, NEW m \in synced'[f], NEW n \in synced'[f] PROVE m = n
  BY <1>1, <1>3, OnlyRecordTells DEF Fresh
<1>6. ASSUME NEW f \in Files, NEW q \in held'[f], NEW m \in synced'[f]
      PROVE  q.after <= m.since
  <2>1. CASE \E c \in Callers : Record(c)
    <3>1. PICK c \in Callers : Record(c)
      BY <2>1
    <3>2. call[c].pc = "record"
      BY <3>1 DEF Record
    <3> QED  BY <1>3, <1>6, <3>1, <3>2 DEF Fresh
  <2>2. CASE \E c \in Callers : Hold(c)
    <3>1. PICK c \in Callers : Hold(c)
      BY <2>2
    <3>2. call[c].pc = "hold" /\ call[c].kind = "edit"
      BY <1>1, <3>1 DEF Hold, Shapes, Shape
    <3> QED  BY <1>4, <1>6, <3>1, <3>2 DEF Fresh
  <2>3. CASE \A c \in Callers : ~Record(c) /\ ~Hold(c)
    BY <1>1, <1>6, <2>3, OnlyRecordTells, OnlyHoldAsks DEF Fresh
  <2> QED  BY <2>1, <2>2, <2>3
<1> DEFINE Waits(c) == \/ call[c].pc \in {"send", "record", "ask", "parked", "hold"}
                       \/ call[c].pc = "forget" /\ call[c].got # {}
\* A call that waits had that wait before, or read its pair in this step.
<1>7. ASSUME NEW c \in Callers, Waits(c)'
      PROVE  /\ call'[c].file = call[c].file
             /\ \/ Waits(c) /\ call'[c].since = call[c].since
                \/ call'[c].since = pubSeq /\ call[c].pc = "sync"
                \/ \E m \in synced[call[c].file] : call'[c].since = m.since
                                                   /\ call[c].pc = "sync"
  <2>1. CASE call'[c] = call[c]
    BY <1>7, <2>1
  <2>2. CASE Begin(c)
    <3>1. Begun(c)
      BY <1>1, <2>2, BeginMoves
    <3> QED  BY <1>2, <1>7, <3>1 DEF Begun, FirstStep, Kinds
  <2>3. CASE Write(c)
    BY <1>1, <1>7, <2>3, PcMoves DEF Write, PCs, Goes
  <2>4. CASE ReadFile(c)
    <3>1. Goes(c, "sync") \/ Fails(c)
      BY <1>1, <2>4, ReadFileMoves
    <3>2. call[c].got = {}
      BY <1>1, <2>4 DEF ReadFile, Shapes, Shape
    <3> QED  BY <1>7, <3>1, <3>2 DEF Goes, Fails, Ended
  <2>5. CASE Sync(c)
    BY <1>1, <1>7, <2>5, SyncMoves DEF Sync, SyncedTo, GoesOn, Pushed, Ended, Same
  <2>6. CASE Send(c)
    <3>1. Goes(c, "record") \/ Fails(c)
      BY <1>1, <2>6, SendMoves
    <3> QED  BY <1>7, <2>6, <3>1 DEF Send, Goes, Kept, Same, Fails, Ended
  <2>7. CASE Record(c)
    BY <1>1, <1>7, <2>7, RecordMoves DEF Record, Goes, Kept, Same, Ended
  <2>8. CASE Ask(c)
    BY <1>1, <1>7, <2>8, AskMoves DEF Ask, Goes, Kept, Same, Learned
  <2>9. CASE Wakes(c)
    BY <1>1, <1>7, <2>9, WakesMoves DEF Wakes, Goes, Kept, Same, Learned
  <2>10. CASE Forget(c) \/ Hold(c)
    BY <1>1, <1>7, <2>10, VerdictMoves DEF Forget, Hold, Answered, Ended
  <2>11. CASE Latest(c) \/ CopyAll(c)
    BY <1>1, <1>7, <2>11, LatestMoves, CopyAllMoves DEF Collects
  <2>12. CASE Settle(c) \/ Take(c)
    BY <1>1, <1>7, <2>12, EndsMoves DEF Settle, Take, Ended
  <2> QED
    BY <1>1, <2>1, <2>2, <2>3, <2>4, <2>5, <2>6, <2>7, <2>8, <2>9, <2>10, <2>11, <2>12,
       OnlyOwnSteps DEF Step
<1>8. ASSUME NEW c \in Callers, Waits(c)', NEW q \in held'[call'[c].file]
      PROVE  q.after <= call'[c].since
  <2>1. CASE \E d \in Callers : Hold(d)
    <3>1. PICK d \in Callers : Hold(d)
      BY <2>1
    <3>2. call[d].kind = "edit"
      BY <1>1, <3>1 DEF Hold, Shapes, Shape
    <3>3. c # d => call[c].pc = "idle"
      BY <3>2, NobodyElse
    <3>4. c = d => ~Waits(c)'
      BY <1>1, <3>1, VerdictMoves DEF Hold, Answered, Ended
    <3> QED  BY <1>7, <1>8, <3>3, <3>4
  <2>2. CASE \A d \in Callers : ~Hold(d)
    <3>1. q \in held[call[c].file]
      BY <1>1, <1>2, <1>7, <1>8, <2>2, OnlyHoldAsks
    <3>2. q.after <= pubSeq
      BY <1>1, <1>2, <3>1 DEF Anchors, Anchored
    <3> QED  BY <1>2, <1>7, <1>8, <3>1, <3>2 DEF Fresh
  <2> QED  BY <2>1, <2>2
\* An edit is alone: what it pushes is what the server has last.
<1>9. ASSUME NEW c \in Callers, call'[c].kind = "edit"
      PROVE  /\ call'[c].pc \in {"send", "record"} => versions'[call'[c].file] = call'[c].at
             /\ call'[c].pc \in {"ask", "parked", "hold"} =>
                  \A m \in synced'[call'[c].file] : call'[c].since <= m.since
  <2>1. CASE Begin(c)
    <3>1. Begun(c)
      BY <1>1, <2>1, BeginMoves
    <3> QED  BY <1>2, <3>1 DEF Begun, FirstStep, Kinds
  <2>2. CASE ~Begin(c)
    <3>1. /\ call[c].kind = "edit"
          /\ call'[c] = call[c] \/ (Step(c) /\ call'[c].file = call[c].file)
      BY <1>1, <1>9, <2>2, OnlyOwnSteps, StepMoves DEF Same, Ended
    <3>2. \A d \in Callers \ {c} : ~Step(d)
      BY <3>1, NobodyElse
    <3>3. CASE call'[c] = call[c]
      <4>1. CASE Step(c)
        <5>1. call'[c].pc \notin {"send", "record", "ask", "parked", "hold"}
          <6>1. CASE Sync(c)
            BY <1>1, <3>3, <6>1, SyncMoves DEF Sync, SyncedTo, GoesOn, Pushed, Ended
          <6>2. CASE Send(c)
            BY <1>1, <3>3, <6>2, SendMoves DEF Send, Goes, Fails, Ended
          <6>3. CASE Record(c)
            BY <1>1, <3>3, <6>3, RecordMoves DEF Record, Goes, Ended
          <6>4. CASE Ask(c)
            BY <1>1, <3>3, <6>4, AskMoves DEF Ask, Goes, Learned
          <6>5. CASE Wakes(c)
            BY <1>1, <3>3, <6>5, WakesMoves DEF Wakes, Goes, Learned
          <6>6. CASE Hold(c)
            BY <1>1, <3>3, <6>6, VerdictMoves DEF Hold, Answered, Ended
          <6> QED
            BY <3>3, <4>1, <6>1, <6>2, <6>3, <6>4, <6>5, <6>6 DEF Step, Write, ReadFile,
               Forget, Latest, CopyAll, Settle, Take
        <5> QED  BY <5>1
      <4>2. CASE ~Step(c)
        <5>1. \A d \in Callers : ~Step(d)
          BY <3>2, <4>2
        <5>2. versions' = versions /\ synced' = synced
          <6>1. CASE \E d \in Callers : Begin(d) \/ Step(d)
            BY <5>1, <6>1 DEF Begin, client
          <6>2. CASE Receives \/ Dies \/ \E f \in Files : Publishes(f) \/ HandEdit(f)
            BY <6>2 DEF Receives, Dies, Publishes, HandEdit, client
          <6> QED  BY <6>1, <6>2 DEF Next
        <5> QED  BY <3>1, <3>3, <5>2 DEF Fresh
      <4> QED  BY <4>1, <4>2
    <3>4. CASE Step(c) /\ call'[c].file = call[c].file
      <4>1. CASE Sync(c)
        <5>1. /\ synced' = synced
              /\ (SyncedTo(c) /\ versions' = versions) \/ Pushed(c)
          BY <1>1, <4>1, SyncMoves
        <5>2. CASE Pushed(c)
          <6>1. versions'[call[c].file] = call'[c].at /\ call'[c].pc = "send"
            BY <1>1, <1>2, <5>2 DEF Pushed, Types, Stored
          <6> QED  BY <3>4, <6>1
        <5>3. CASE GoesOn(c) /\ \E m \in synced[call[c].file] :
                                  call'[c].at = m.at /\ call'[c].since = m.since
          <6>1. call'[c].pc = "ask"
            BY <1>9, <5>3 DEF GoesOn
          <6>2. \A m \in synced[call[c].file] : call'[c].since = m.since
            BY <1>2, <5>3 DEF Fresh
          <6> QED  BY <1>2, <3>4, <5>1, <6>1, <6>2
        <5>4. ~Ended(c)
          BY <1>9 DEF Ended
        <5> QED  BY <5>1, <5>2, <5>3, <5>4 DEF SyncedTo
      <4>2. CASE Send(c)
        <5>1. call[c].pc = "send" /\ (Goes(c, "record") \/ call'[c].pc = "forget")
          BY <1>1, <1>9, <4>2, SendMoves DEF Send, Fails, Ended, Goes
        <5>2. versions' = versions
          BY <4>2 DEF Send, client
        <5> QED  BY <3>1, <3>4, <5>1, <5>2 DEF Fresh, Goes, Kept
      <4>3. CASE Record(c)
        <5>1. call[c].pc = "record" /\ Goes(c, "ask")
          BY <1>1, <3>1, <4>3, RecordMoves DEF Record
        <5>2. versions[call[c].file] = call[c].at
          BY <3>1, <5>1 DEF Fresh
        <5>3. \A m \in synced'[call[c].file] : m.since = call[c].since
          BY <1>3, <4>3, <5>2
        <5> QED  BY <1>2, <3>4, <5>1, <5>3 DEF Goes, Kept
      <4>4. CASE Ask(c) \/ Wakes(c)
        <5>1. /\ call[c].pc \in {"ask", "parked"} /\ call'[c].since = call[c].since
              /\ call'[c].pc \notin {"send", "record"}
          BY <1>1, <4>4, AskMoves, WakesMoves DEF Ask, Wakes, Learned, Goes, Kept
        <5>2. synced' = synced
          BY <4>4 DEF Ask, Wakes, client
        <5> QED  BY <3>1, <3>4, <5>1, <5>2 DEF Fresh
      <4>5. CASE Write(c)
        BY <1>1, <4>5, PcMoves DEF Write, PCs, Goes
      <4>6. CASE ReadFile(c)
        BY <1>1, <4>6, ReadFileMoves DEF Goes, Fails, Ended
      <4>7. CASE Forget(c) \/ Hold(c)
        BY <1>1, <4>7, VerdictMoves DEF Forget, Hold, Answered, Ended
      <4>8. CASE Latest(c) \/ CopyAll(c)
        BY <1>1, <4>8, LatestMoves, CopyAllMoves DEF Collects
      <4>9. CASE Settle(c) \/ Take(c)
        BY <1>1, <4>9, EndsMoves DEF Settle, Take, Ended
      <4> QED
        BY <3>4, <4>1, <4>2, <4>3, <4>4, <4>5, <4>6, <4>7, <4>8, <4>9 DEF Step
    <3> QED  BY <3>1, <3>3, <3>4
  <2> QED  BY <2>1, <2>2
<1> QED  BY <1>5, <1>6, <1>8, <1>9 DEF Fresh

\* What closes a question of a session without children.
ClosedRightly ==
  \A f \in SessionFiles : \A q \in held[f] \ held'[f] :
    \/ \E n \in held'[f] : n.after >= q.after
    \/ \E c \in Session : /\ call'[c] # call[c]
                          /\ \E g \in Answers(c) : g.file = f /\ g.seq > q.after
    \/ \E c \in Session : On(c, "forget") /\ call[c].file = f /\ call[c].got = {}

\* No step closes a question but by its answer, by a later one, or where the
\* server could not be told of the edit.
LEMMA StepClosesRightly ==
  ASSUME Children = {}, IInv, Fresh, Next
  PROVE  ClosedRightly
<1>1. Types /\ Types' /\ Shapes
  BY TypesKept DEF IInv
<1> SUFFICES ASSUME NEW f \in Files, NEW q \in held[f], q \notin held'[f]
             PROVE  \/ \E n \in held'[f] : n.after >= q.after
                    \/ \E c \in Session :
                         /\ call'[c] # call[c]
                         /\ \E g \in Answers(c) : g.file = f /\ g.seq > q.after
                    \/ \E c \in Session :
                         On(c, "forget") /\ call[c].file = f /\ call[c].got = {}
  BY DEF ClosedRightly, SessionFiles
<1>2. q.after \in Nat /\ \A c \in Callers : c \in Session
  BY <1>1 DEF Types, Stored, Question, Callers
<1> USE DEF On
\* A step that goes on to where no call had been changes its call.
<1>3. ASSUME NEW c \in Callers, Forget(c)
      PROVE  \/ \E d \in Session : /\ call'[d] # call[d]
                                  /\ \E g \in Answers(d) : g.file = f /\ g.seq > q.after
             \/ call[c].pc = "forget" /\ call[c].file = f /\ call[c].got = {}
  <2>1. call[c].pc = "forget" /\ call[c].file = f /\ Answered(c)
    BY <1>1, <1>3, VerdictMoves DEF Forget, Types, Stored, Call
  <2>2. call'[c] # call[c]
    BY <2>1 DEF Answered, Ended
  <2>3. ASSUME call[c].got # {}
        PROVE  \E g \in Answers(c) : g.file = f /\ g.seq > q.after
    <3>1. PICK g \in call[c].got : g.file = f /\ g.seq > call[c].since
      BY <1>1, <2>1, <2>3 DEF Shapes, Shape
    <3>2. q.after <= call[c].since
      BY <2>1, <2>3 DEF Fresh
    <3>3. g.seq \in Nat /\ call[c].since \in Nat
      BY <1>1, <3>1 DEF Types, Call, Report
    <3>4. g.seq > q.after
      BY <1>2, <3>1, <3>2, <3>3
    <3> QED  BY <3>1, <3>4 DEF Answers
  <2> QED  BY <1>2, <2>1, <2>2, <2>3
<1>4. ASSUME NEW c \in Callers, Settle(c)
      PROVE  call'[c] # call[c] /\ \E g \in Answers(c) : g.file = f /\ g.seq > q.after
  <2>1. Ended(c) /\ call[c].pc = "settle"
    BY <1>1, <1>4, EndsMoves DEF Settle
  <2>2. PICK g \in call[c].got : g.file = f /\ ~(g.seq <= q.after)
    BY <1>4 DEF Settle
  <2>3. g.seq \in Nat
    BY <1>1, <2>2 DEF Types, Call, Report
  <2> QED  BY <1>2, <2>1, <2>2, <2>3 DEF Ended, Answers
<1>5. ASSUME NEW c \in Callers, Take(c)
      PROVE  call'[c] # call[c] /\ \E g \in Answers(c) : g.file = f /\ g.seq > q.after
  <2>1. Ended(c) /\ call[c].pc = "take"
    BY <1>1, <1>5, EndsMoves DEF Take
  <2>2. PICK d \in Newer(f, q.after) : TRUE
    BY <1>5 DEF Take
  <2>3. Told(f, d, q.at) \in Late
    BY <2>2 DEF Late
  <2>4. Told(f, d, q.at).file = f /\ Told(f, d, q.at).seq > q.after
    BY <2>2 DEF Told, Newer
  <2> QED  BY <2>1, <2>3, <2>4 DEF Ended, Answers
<1>6. ASSUME NEW c \in Callers, Hold(c) PROVE \E n \in held'[f] : n.after >= q.after
  <2>1. call[c].file = f /\ call[c].pc = "hold"
    BY <1>1, <1>6 DEF Hold, Types, Stored, Call
  <2>2. [after |-> call[c].since, at |-> call[c].at] \in held'[f]
    BY <1>1, <1>6, <2>1 DEF Hold, Types, Stored
  <2>3. q.after <= call[c].since /\ call[c].since \in Nat
    BY <1>1, <2>1 DEF Fresh, Types, Call
  <2> QED  BY <1>2, <2>2, <2>3
<1>7. ASSUME NEW c \in Callers, Begin(c) \/ Step(c),
             ~Forget(c), ~Settle(c), ~Take(c), ~Hold(c)
      PROVE  held' = held
  BY <1>1, <1>7, SyncMoves DEF Step, Begin, Write, ReadFile, Send, Record, Ask, Wakes,
     Latest, CopyAll
<1>8. ~(Receives \/ Dies \/ \E g \in Files : Publishes(g) \/ HandEdit(g))
  BY DEF Receives, Dies, Publishes, HandEdit
<1>9. PICK c \in Callers : Begin(c) \/ Step(c)
  BY <1>8 DEF Next
<1> QED  BY <1>2, <1>3, <1>4, <1>5, <1>6, <1>7, <1>9

\* "They reach the model exactly once": in a session without children, no
\* question an edit left is closed without its answer being given.
THEOREM NoAnswerIsLost ==
  ASSUME Children = {}
  PROVE  Spec => NoAnswerLost
<1>1. Init => IInv /\ Fresh
  BY InitIInv, InitFresh
<1>2. IInv /\ Fresh /\ [Next]_vars => (IInv /\ Fresh)'
  <2> SUFFICES ASSUME IInv, Fresh, [Next]_vars PROVE IInv' /\ Fresh'
    OBVIOUS
  <2>1. IInv'
    BY StepIInv
  <2>2. CASE Next
    BY <2>1, <2>2, FreshKept
  <2>3. CASE UNCHANGED vars
    BY <2>1, <2>3 DEF vars, Fresh, On
  <2> QED  BY <2>1, <2>2, <2>3
<1>3. IInv /\ Fresh /\ [Next]_vars => [ClosedRightly]_vars
  BY StepClosesRightly
<1> QED  BY <1>1, <1>2, <1>3, PTL DEF Spec, NoAnswerLost, ClosedRightly
=============================================================================
