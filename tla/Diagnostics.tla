---------------------------- MODULE Diagnostics ----------------------------
(***************************************************************************)
(* What a session and its children learn from one language server          *)
(* (src/internal/lsp): a file's text is pushed to it when a tool call asks *)
(* about the file, the server publishes what it finds when it likes, and   *)
(* an edit that stops waiting for that leaves a question behind, to be     *)
(* answered in front of a later result (src/internal/cli/lsp.go).          *)
(*                                                                         *)
(* A caller makes tool calls, one after the other.  The session has        *)
(* several, for it runs the calls of a round that only read at once, and   *)
(* an edit alone; a child's edits are of files of its own, which leaves    *)
(* the calls it makes about the session's.  The server is up from the      *)
(* start, and where it dies it does not come back.  What a report finds is *)
(* left out: a report is the text it is about, and when it came.           *)
(***************************************************************************)
EXTENDS Integers, Sequences

CONSTANTS
  Session,   \* the session's callers
  Children,  \* the children
  Files,     \* the files
  Texts,     \* what a file may hold
  Calls,     \* Calls[c]: the kinds of call c makes, each with its file
  Asks,      \* Asks[c]: bound on the calls of c that push a file
  Hands      \* bound: how often a file changes by no edit of a caller

Callers == Session \cup Children

(* An edit; the diagnostics tool about a file, or about all; a question    *)
(* about a place in a file; any other tool.                                *)
Kinds == {"edit", "diagnose", "all", "navigate", "other"}

ASSUME DiagnosticsAssumption ==
  /\ Session \cap Children = {} /\ Files # {} /\ Texts # {}
  /\ \A c \in Children, f \in Files : <<"edit", f>> \notin Calls[c]
  /\ Calls \in [Callers -> SUBSET (Kinds \X Files)]
  /\ Asks \in [Callers -> Nat] /\ Hands \in Nat

VARIABLES
  disk,      \* each file's text
  hands,     \* how often it changed by no caller's edit
  versions,  \* versions[f]: the last version f was given; 0 is not open
  synced,    \* synced[f]: what the server was last told about f
  pubSeq,    \* how many reports came in
  diags,     \* diags[f]: the last report on f
  held,      \* held[f]: the question an edit of f left open
  wire,      \* the pushes the server has not read yet
  server,    \* the server: whether it is up, its texts, what it will report
  call       \* each caller's call

vars == <<disk, hands, versions, synced, pubSeq, diags, held, wire, server, call>>
outside == <<disk, hands>>
client == <<versions, synced, pubSeq, diags>>
far == <<wire, server>>

(* A call has read its file's text, which went out as version at; a report *)
(* on that text is newer than since.  got are the reports it answers with, *)
(* each with its file's version when it came (at), and with the version it *)
(* is given as the verdict on (on), 0 where it is told as the last report. *)
(* An idle caller keeps nothing but how often it has asked.                *)
Idle == [pc |-> "idle", kind |-> "other", file |-> CHOOSE f \in Files : TRUE,
         text |-> CHOOSE t \in Texts : TRUE, at |-> 0, since |-> 0,
         got |-> {}, asks |-> 0]

Init ==
  /\ disk = [f \in Files |-> Idle.text] /\ hands = 0
  /\ versions = [f \in Files |-> 0] /\ synced = [f \in Files |-> {}]
  /\ pubSeq = 0 /\ diags = [f \in Files |-> {}] /\ held = [f \in Files |-> {}]
  /\ wire = <<>>
  /\ server = [up |-> TRUE, text |-> [f \in Files |-> {}], owes |-> {}]
  /\ call = [c \in Callers |-> Idle]
-----------------------------------------------------------------------------
(***************************************************************************)
(* A call                                                                  *)
(***************************************************************************)
Becomes(c, r) == call' = [call EXCEPT ![c] = r]
On(c, pc) == call[c].pc = pc
Ends(r) == [Idle EXCEPT !.asks = r.asks]

\* The calls of a round that only read run at once; an edit runs alone.
MayBegin(c, kind) == c \in Session => \A s \in Session \ {c} :
  On(s, "idle") \/ (kind # "edit" /\ call[s].kind # "edit")

FirstStep == [edit |-> "write", diagnose |-> "read", all |-> "copy",
              navigate |-> "read", other |-> "take"]

Begin(c) ==
  /\ On(c, "idle")
  /\ \E k \in Calls[c] :
       LET asks == call[c].asks + (IF k[1] \in {"all", "other"} THEN 0 ELSE 1)
       IN  /\ MayBegin(c, k[1]) /\ asks <= Asks[c]
           /\ Becomes(c, [Idle EXCEPT !.pc = FirstStep[k[1]], !.kind = k[1],
                                      !.file = k[2], !.asks = asks])
  /\ UNCHANGED <<outside, client, held, far>>

Write(c) ==
  /\ On(c, "write")
  /\ \E t \in Texts : disk' = [disk EXCEPT ![call[c].file] = t]
  /\ Becomes(c, [call[c] EXCEPT !.pc = "read"])
  /\ UNCHANGED <<hands, client, held, far>>

\* A file that cannot be pushed: an edit says nothing of it, and the other
\* calls are errors.
Unsynced(r) == IF r.kind = "edit" THEN [r EXCEPT !.pc = "forget"] ELSE Ends(r)

\* Behind a push a place is asked about, which may be an error; or the
\* report on the text is waited for.
Synced(r) == IF r.kind = "navigate" THEN {[r EXCEPT !.pc = "take"], Ends(r)}
                                    ELSE {[r EXCEPT !.pc = "ask"]}

ReadFile(c) ==
  /\ On(c, "read")
  /\ \/ Becomes(c, [call[c] EXCEPT !.pc = "sync", !.text = disk[call[c].file]])
     \/ Becomes(c, Unsynced(call[c]))
  /\ UNCHANGED <<outside, client, held, far>>

Push(c) ==
  LET r == call[c]
      v == versions[r.file] + 1
  IN  /\ versions' = [versions EXCEPT ![r.file] = v]
      /\ Becomes(c, [r EXCEPT !.at = v, !.since = pubSeq, !.pc = "send"])
      /\ UNCHANGED <<outside, synced, pubSeq, diags, held, far>>

Holds(f, t) == \E m \in synced[f] : m.text = t

\* Mutants: the wait of a text not sent again is from now, or from the start.
SyncFromNow(c) ==
  /\ On(c, "sync")
  /\ LET r == call[c] IN
     IF Holds(r.file, r.text)
       THEN /\ \E m \in synced[r.file] :
                 \E n \in Synced([r EXCEPT !.at = m.at, !.since = pubSeq]) :
                   Becomes(c, n)
            /\ UNCHANGED <<outside, client, held, far>>
       ELSE Push(c)

SyncFromStart(c) ==
  /\ On(c, "sync")
  /\ LET r == call[c] IN
     IF Holds(r.file, r.text)
       THEN /\ \E m \in synced[r.file] :
                 \E n \in Synced([r EXCEPT !.at = m.at]) : Becomes(c, n)
            /\ UNCHANGED <<outside, client, held, far>>
       ELSE Push(c)

\* A text the server holds is not sent again, and a report on it is newer
\* than the push it went out on.
Sync(c) ==
  /\ On(c, "sync")
  /\ LET r == call[c] IN
     IF Holds(r.file, r.text)
       THEN /\ \E m \in synced[r.file] :
                 \E n \in Synced([r EXCEPT !.at = m.at, !.since = m.since]) :
                   Becomes(c, n)
            /\ UNCHANGED <<outside, client, held, far>>
       ELSE Push(c)

Send(c) ==
  /\ On(c, "send")
  /\ LET r == call[c] IN
     \/ /\ wire' = IF server.up THEN Append(wire, [file |-> r.file, text |-> r.text])
                                ELSE wire
        /\ Becomes(c, [r EXCEPT !.pc = "record"])
     \/ ~server.up /\ Becomes(c, Unsynced(r)) /\ UNCHANGED wire
  /\ UNCHANGED <<outside, client, held, server>>

\* Only the latest sync of a file says what the server holds.
Record(c) ==
  /\ On(c, "record")
  /\ LET r == call[c] IN
     /\ synced' = IF versions[r.file] # r.at THEN synced
          ELSE [synced EXCEPT ![r.file] =
                  {[text |-> r.text, since |-> r.since, at |-> r.at]}]
     /\ \E n \in Synced(r) : Becomes(c, n)
  /\ UNCHANGED <<outside, versions, pubSeq, diags, held, far>>
-----------------------------------------------------------------------------
(***************************************************************************)
(* The wait, and what a call answers with                                  *)
(***************************************************************************)
Newer(f, since) == {d \in diags[f] : d.seq > since}

Told(f, d, on) == [file |-> f, seq |-> d.seq, text |-> d.text, at |-> d.at, on |-> on]

Learns(c) ==
  LET r == call[c] IN \E d \in Newer(r.file, r.since) :
    Becomes(c, [r EXCEPT !.pc = "forget", !.got = {Told(r.file, d, r.at)}])

Ask(c) ==
  /\ On(c, "ask")
  /\ \/ Learns(c)
     \/ /\ Newer(call[c].file, call[c].since) = {}
        /\ Becomes(c, [call[c] EXCEPT !.pc = "parked"])
  /\ UNCHANGED <<outside, client, held, far>>

\* A report, the deadline, or the end of the connection: whichever is taken.
Wakes(c) ==
  /\ On(c, "parked")
  /\ \/ Learns(c)
     \/ Becomes(c, [call[c] EXCEPT !.pc =
                      IF call[c].kind = "edit" THEN "hold" ELSE "latest"])
  /\ UNCHANGED <<outside, client, held, far>>

\* An edit goes on to the answers that came late.
Verdict(r) ==
  IF r.kind # "edit" THEN Ends(r)
  ELSE [r EXCEPT !.pc = "take", !.text = Idle.text, !.since = 0]

Forget(c) ==
  /\ On(c, "forget")
  /\ held' = [held EXCEPT ![call[c].file] = {}]
  /\ Becomes(c, Verdict(call[c]))
  /\ UNCHANGED <<outside, client, far>>

Hold(c) ==
  /\ On(c, "hold")
  /\ held' = [held EXCEPT ![call[c].file] =
                {[after |-> call[c].since, at |-> call[c].at]}]
  /\ Becomes(c, Verdict(call[c]))
  /\ UNCHANGED <<outside, client, far>>

\* The last report there is, which is the verdict if it came meanwhile.
Latest(c) ==
  /\ On(c, "latest")
  /\ LET r == call[c] IN
     Becomes(c, [r EXCEPT !.pc = "settle", !.got =
       {Told(r.file, d, IF d.seq > r.since THEN r.at ELSE 0) : d \in diags[r.file]}])
  /\ UNCHANGED <<outside, client, held, far>>

CopyAll(c) ==
  /\ On(c, "copy")
  /\ Becomes(c, [call[c] EXCEPT !.pc = "settle",
                   !.got = UNION {{Told(f, d, 0) : d \in diags[f]} : f \in Files}])
  /\ UNCHANGED <<outside, client, held, far>>

\* Mutant: the question is closed whatever was reported.
SettleAny(c) ==
  /\ On(c, "settle")
  /\ held' = [f \in Files |-> {q \in held[f] : \A g \in call[c].got : g.file # f}]
  /\ Becomes(c, Ends(call[c]))
  /\ UNCHANGED <<outside, client, far>>

\* A question is closed by a report newer than what it waits for.
Settle(c) ==
  /\ On(c, "settle")
  /\ held' = [f \in Files |-> {q \in held[f] :
                \A g \in call[c].got : g.file = f => g.seq <= q.after}]
  /\ Becomes(c, Ends(call[c]))
  /\ UNCHANGED <<outside, client, far>>

\* The questions whose answer came late, with it.
Late == UNION {UNION {{Told(f, d, q.at) : d \in Newer(f, q.after)} :
                        q \in held[f]} : f \in Files}

\* They are handed over in front of the result, or dropped where all is well.
Take(c) ==
  /\ On(c, "take")
  /\ held' = [f \in Files |-> {q \in held[f] : Newer(f, q.after) = {}}]
  /\ Becomes(c, Ends(call[c]))
  /\ UNCHANGED <<outside, client, far>>
-----------------------------------------------------------------------------
(***************************************************************************)
(* The server, and the hands outside                                       *)
(***************************************************************************)
Receives ==
  /\ wire # <<>>
  /\ LET p == Head(wire) IN
     server' = [server EXCEPT !.text[p.file] = {p.text}, !.owes = @ \cup {p.file}]
  /\ wire' = Tail(wire)
  /\ UNCHANGED <<outside, client, held, call>>

\* Mutant: a report is stamped before it is counted.
PublishesUncounted(f) ==
  /\ f \in server.owes
  /\ server' = [server EXCEPT !.owes = @ \ {f}]
  /\ pubSeq' = pubSeq + 1
  /\ diags' = [diags EXCEPT ![f] = {[seq |-> pubSeq, text |-> t, at |-> versions[f]] :
                                      t \in server.text[f]}]
  /\ UNCHANGED <<outside, versions, synced, held, wire, call>>

\* One report may be on several pushes.
Publishes(f) ==
  /\ f \in server.owes
  /\ server' = [server EXCEPT !.owes = @ \ {f}]
  /\ pubSeq' = pubSeq + 1
  /\ diags' = [diags EXCEPT ![f] = {[seq |-> pubSeq', text |-> t, at |-> versions[f]] :
                                      t \in server.text[f]}]
  /\ UNCHANGED <<outside, versions, synced, held, wire, call>>

Dies ==
  /\ server.up
  /\ server' = [server EXCEPT !.up = FALSE, !.owes = {}] /\ wire' = <<>>
  /\ UNCHANGED <<outside, client, held, call>>

HandEdit(f) ==
  /\ hands < Hands /\ hands' = hands + 1
  /\ \E t \in Texts \ {disk[f]} : disk' = [disk EXCEPT ![f] = t]
  /\ UNCHANGED <<client, held, far, call>>
-----------------------------------------------------------------------------
Step(c) ==
  \/ Write(c) \/ ReadFile(c) \/ Sync(c) \/ Send(c) \/ Record(c)
  \/ Ask(c) \/ Wakes(c) \/ Forget(c) \/ Hold(c) \/ Latest(c) \/ CopyAll(c)
  \/ Settle(c) \/ Take(c)

Next ==
  \/ \E c \in Callers : Begin(c) \/ Step(c)
  \/ Receives \/ Dies \/ \E f \in Files : Publishes(f) \/ HandEdit(f)

Spec == Init /\ [][Next]_vars

(* A call under way goes on, its wait having a deadline, and a server that *)
(* is up reads and reports; no call need be made.                          *)
Fairness ==
  /\ \A c \in Callers : WF_vars(Step(c))
  /\ WF_vars(Receives) /\ \A f \in Files : WF_vars(Publishes(f))

FairSpec == Spec /\ Fairness
-----------------------------------------------------------------------------
(***************************************************************************)
(* Properties                                                              *)
(***************************************************************************)
\* The values the variables take.
TypeOK ==
  /\ disk \in [Files -> Texts] /\ hands \in 0..Hands
  /\ versions \in [Files -> Nat] /\ pubSeq \in Nat
  /\ \A f \in Files :
       /\ synced[f] \subseteq [text : Texts, since : 0..pubSeq, at : 1..versions[f]]
       /\ diags[f] \subseteq [seq : 1..pubSeq, text : Texts, at : 1..versions[f]]
       /\ held[f] \subseteq [after : 0..pubSeq, at : 1..versions[f]]
       /\ server.text[f] \subseteq Texts
  /\ wire \in Seq([file : Files, text : Texts])
  /\ server.up \in BOOLEAN /\ server.owes \subseteq Files
  /\ \A c \in Callers :
       LET r == call[c] IN
       /\ r.kind \in Kinds /\ r.file \in Files /\ r.text \in Texts
       /\ r.at \in 0..versions[r.file] /\ r.since \in 0..pubSeq
       /\ r.asks \in 0..Asks[c]
       /\ \A g \in r.got : g \in [file : Files, seq : 1..pubSeq, text : Texts,
                                  at : Nat, on : Nat]

\* The reports a call answers with at its next step.
Answers(c) == call[c].got \cup (IF On(c, "take") THEN Late ELSE {})

(* "One that takes the last thing said as this content's verdict reports a *)
(* check of the file as it was before the edit": what is given as the      *)
(* verdict on a text came after that text had its version, and an edit is  *)
(* not handed an older answer about its own file.                          *)
NoFalseVerdict == \A c \in Callers : \A g \in Answers(c) :
  /\ g.on <= g.at
  /\ call[c].kind = "edit" /\ g.file = call[c].file => call[c].at <= g.at

(* The stronger reading: the verdict on a text is a report about it.       *)
VerdictIsOnText == \A c \in Callers : \A g \in call[c].got :
  On(c, "forget") => g.text = call[c].text

SessionFiles == {f \in Files : \E s \in Session : <<"edit", f>> \in Calls[s]}

(* "They reach the model exactly once": a question an edit of the session  *)
(* left is closed by an answer to it that the session is given, or by the  *)
(* question of a later edit, or by an edit the server could not be told.   *)
NoAnswerLost == [][\A f \in SessionFiles : \A q \in held[f] \ held'[f] :
  \/ \E n \in held'[f] : n.after >= q.after
  \/ \E c \in Session : /\ call'[c] # call[c]
                        /\ \E g \in Answers(c) : g.file = f /\ g.seq > q.after
  \/ \E c \in Session : On(c, "forget") /\ call[c].file = f /\ call[c].got = {}]_vars

(* The question stays open until the answer lands: as long as the session  *)
(* goes on reading results and the server is up, it does not stay open.    *)
LateAnswerArrives ==
  []<>(\E c \in Session : On(c, "take")) =>
    \A f \in SessionFiles : held[f] # {} ~> held[f] = {} \/ ~server.up
=============================================================================
