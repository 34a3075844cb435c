------------------------------- MODULE ScanSource -------------------------------
(***************************************************************************)
(* The scan source of examples/hello-scan-source: PollChanges reads what     *)
(* was appended to a change log since the byte offset in the host's marker.  *)
(* The log is opened anew for each of the steps of a poll, while another     *)
(* tool appends to it, truncates it or removes it; the host repeats a poll   *)
(* whose answer it could not use, and polls may overlap.                     *)
(*                                                                         *)
(* The log is a sequence of bytes: 0 is the newline, any other number a byte *)
(* of the line with that number.                                            *)
(***************************************************************************)
EXTENDS Naturals, Sequences, FiniteSetsExt

CONSTANTS
  Pollers,   \* polls that may overlap
  MaxLines,  \* bound on the lines the other tool writes
  MaxLen,    \* bound on the length of a line
  MaxGen,    \* bound on the times it truncates or removes the log
  NoMarker,  \* the empty marker of a first poll
  Foreign    \* a marker this plugin did not write

ASSUME BoundsAssumption == MaxLines \in Nat /\ MaxLen \in Nat /\ MaxGen \in Nat
ASSUME MarkersAssumption == NoMarker \notin Nat /\ Foreign \notin Nat

VARIABLES
  exists, log,  \* the change log; <<>> when it is missing
  line,         \* the line being written
  gen,          \* times the log was truncated or removed
  whole,        \* history: the lines completed so far
  marker,       \* the marker the host stores
  mgen,         \* history: the gen of the log that marker was read from
  taken,        \* history: lines the host took over
  skipped,      \* history: lines passed over by starting from now
  fooled,       \* history: how polls resumed in a log other than their marker's
  pc,           \* per poll: where it is
  ask, askgen,  \* per poll: the marker it was sent, and its gen
  offset,       \* per poll: the offset to read from
  checked,      \* per poll: the gen of the log the offset was chosen in
  ans           \* per poll: the answer, with the lines a first poll passes over

tool == <<exists, log, line, gen, whole>>
poll == <<pc, ask, askgen, offset, checked, ans>>
host == <<marker, mgen, taken, skipped>>
vars == <<exists, log, line, gen, whole, marker, mgen, taken, skipped, fooled,
          pc, ask, askgen, offset, checked, ans>>

\* The newlines after offset o of a log s, and the line that ends at newline i.
Newlines(s, o)  == {i \in (o + 1)..Len(s) : s[i] = 0}
LineAt(s, o, i) == SubSeq(s, Max({o} \cup {j \in Newlines(s, o) : j < i}) + 1, i - 1)
\* The non-blank complete lines after o, and the offset past the last newline.
LinesFrom(s, o) == {LineAt(s, o, i) : i \in Newlines(s, o)} \ {<<>>}
EndFrom(s, o)   == Max({o} \cup Newlines(s, o))

\* The markers of a request; its connection and source configuration are not read.
PollChangesRequest == Nat \cup {NoMarker, Foreign}

\* A changed path, as a line of the log.
ScanSourceChange == Seq(1..MaxLines)

\* The changes and the next marker, with the history of the two.
PollChangesResponse ==
  [lines : SUBSET ScanSourceChange, next : Nat, gen : 0..MaxGen,
   skips : SUBSET ScanSourceChange]

NoAnswer == [lines |-> {}, next |-> 0, gen |-> 0, skips |-> {}]

Init ==
  /\ exists \in BOOLEAN /\ log = <<>> /\ line = 1 /\ gen = 0 /\ whole = {}
  /\ marker \in {NoMarker, Foreign} /\ mgen = 0
  /\ taken = {} /\ skipped = {} /\ fooled = {}
  /\ pc = [p \in Pollers |-> "idle"]
  /\ ask = [p \in Pollers |-> NoMarker]
  /\ askgen = [p \in Pollers |-> 0]
  /\ offset = [p \in Pollers |-> 0]
  /\ checked = [p \in Pollers |-> 0]
  /\ ans = [p \in Pollers |-> NoAnswer]

-----------------------------------------------------------------------------
(* The tool that writes the log *)

\* Part of a line, not yet ended; the log is created when missing.
WriteByte ==
  /\ line <= MaxLines
  /\ Len(log) - EndFrom(log, 0) < MaxLen
  /\ exists' = TRUE
  /\ log' = Append(log, line)
  /\ UNCHANGED <<line, gen, whole, host, fooled, poll>>

\* The newline that ends the line, or a blank line.
WriteNewline ==
  /\ exists
  /\ line <= MaxLines
  /\ log' = Append(log, 0)
  /\ whole' = whole \cup {SubSeq(log, EndFrom(log, 0) + 1, Len(log))}
  /\ line' = line + 1
  /\ UNCHANGED <<exists, gen, host, fooled, poll>>

\* The log is truncated in place, or removed: a rotation.
Rotate ==
  /\ exists /\ gen < MaxGen
  /\ exists' \in BOOLEAN
  /\ log' = <<>>
  /\ gen' = gen + 1
  /\ line' = IF EndFrom(log, 0) = Len(log) THEN line ELSE line + 1
  /\ UNCHANGED <<whole, host, fooled, poll>>

-----------------------------------------------------------------------------
(* PollChanges *)

\* The host sends the marker it stores.
Poll(p) ==
  /\ pc[p] = "idle"
  /\ pc' = [pc EXCEPT ![p] = "stat"]
  /\ ask' = [ask EXCEPT ![p] = marker]
  /\ askgen' = [askgen EXCEPT ![p] = mgen]
  /\ UNCHANGED <<tool, host, fooled, offset, checked, ans>>

Goto(p, step, o) ==
  /\ pc' = [pc EXCEPT ![p] = step]
  /\ offset' = [offset EXCEPT ![p] = o]
  /\ checked' = [checked EXCEPT ![p] = gen]
  /\ UNCHANGED <<tool, host, ask, askgen, ans>>

\* The poll's local variables go out of scope.
Forget(p) ==
  /\ ask' = [ask EXCEPT ![p] = NoMarker]
  /\ askgen' = [askgen EXCEPT ![p] = 0]
  /\ offset' = [offset EXCEPT ![p] = 0]
  /\ checked' = [checked EXCEPT ![p] = 0]

Answer(p, lines, next, skips) ==
  /\ pc' = [pc EXCEPT ![p] = "answered"]
  /\ ans' = [ans EXCEPT ![p] = [lines |-> lines, next |-> next, gen |-> gen,
                                skips |-> skips]]
  /\ Forget(p)
  /\ UNCHANGED <<tool, host>>

\* The poll is over, and its answer, if any, gone.
End(p) ==
  /\ pc' = [pc EXCEPT ![p] = "idle"]
  /\ ans' = [ans EXCEPT ![p] = NoAnswer]
  /\ Forget(p)
  /\ UNCHANGED <<tool, fooled>>

\* The poll returns an error; the host keeps its marker.
Fail(p) == End(p) /\ UNCHANGED host

\* stat: the log is missing.
StatMissing(p) ==
  /\ pc[p] = "stat" /\ ~exists
  /\ IF ask[p] \in {NoMarker, 0}
     THEN Answer(p, {}, 0, {}) /\ UNCHANGED fooled
     ELSE Fail(p)

\* A marker that does not parse is used nevertheless.
StatTrustsForeign(p) ==
  /\ pc[p] = "stat" /\ exists
  /\ UNCHANGED fooled
  /\ IF ask[p] = NoMarker THEN Goto(p, "resync", 0) ELSE Goto(p, "read", ask[p])

\* A marker that does not parse is an error.
StatRejectsForeign(p) ==
  /\ pc[p] = "stat" /\ exists
  /\ UNCHANGED fooled
  /\ CASE ask[p] = NoMarker -> Goto(p, "resync", 0)
       [] ask[p] = Foreign  -> Fail(p)
       [] ask[p] \in Nat   ->
            IF ask[p] = 0 \/ ask[p] > Len(log)
            THEN Goto(p, "read", 0)
            ELSE Goto(p, "check", ask[p])

\* A log shorter than the marker is read from its end on.
StatResyncs(p) ==
  /\ pc[p] = "stat" /\ exists
  /\ UNCHANGED fooled
  /\ CASE ask[p] \notin Nat   -> Goto(p, "resync", 0)
       [] ask[p] = 0          -> Goto(p, "read", 0)
       [] ask[p] \in Nat \ {0} ->
            IF ask[p] > Len(log) THEN Goto(p, "resync", 0) ELSE Goto(p, "check", ask[p])

\* stat gives the size; the marker decides where to go on.
Stat(p) ==
  /\ pc[p] = "stat" /\ exists
  /\ UNCHANGED fooled
  /\ CASE ask[p] \notin Nat -> Goto(p, "resync", 0)
       [] ask[p] \in Nat    ->
            IF ask[p] = 0 \/ ask[p] > Len(log)
            THEN Goto(p, "read", 0)
            ELSE Goto(p, "check", ask[p])

\* The byte before the offset is not looked at.
CheckSize(p) ==
  /\ pc[p] = "check"
  /\ IF ~exists \/ Len(log) < offset[p]
     THEN Fail(p)
     ELSE /\ Goto(p, "read", offset[p])
          /\ fooled' = fooled \cup (IF askgen[p] # gen THEN {"aliased"} ELSE {})

\* followsNewline: an open or a read that fails is an error, another byte
\* before the offset restarts the reading.
CheckNewline(p) ==
  /\ pc[p] = "check"
  /\ IF ~exists \/ Len(log) < offset[p]
     THEN Fail(p)
     ELSE IF log[offset[p]] = 0
     THEN /\ Goto(p, "read", offset[p])
          /\ fooled' = fooled \cup (IF askgen[p] # gen THEN {"aliased"} ELSE {})
     ELSE Goto(p, "read", 0) /\ UNCHANGED fooled

\* The log was rotated between the choice of the offset and the reading.
Raced(p) == IF offset[p] > 0 /\ checked[p] # gen THEN {"raced"} ELSE {}

\* A reading whose marker is the size of the log, also amid a line.
ReadToSize(p) ==
  /\ pc[p] = "read"
  /\ exists
  /\ Answer(p, LinesFrom(log, offset[p]), Len(log), {})
  /\ fooled' = fooled \cup Raced(p)

\* readAppended: the complete lines from the offset on.
Read(p) ==
  /\ pc[p] = "read"
  /\ exists
  /\ Answer(p, LinesFrom(log, offset[p]), EndFrom(log, offset[p]), {})
  /\ fooled' = fooled \cup Raced(p)

\* The lines a poll without a usable marker may pass over.
PassedOver(p) == IF ask[p] \in Nat THEN {} ELSE LinesFrom(log, 0)

\* resyncToEnd: no changes, the marker past the last complete line.
Resync(p) ==
  /\ pc[p] = "resync"
  /\ exists
  /\ Answer(p, {}, EndFrom(log, 0), PassedOver(p))
  /\ UNCHANGED fooled

\* The log has gone between stat and open.
OpenFails(p) ==
  /\ pc[p] \in {"read", "resync"}
  /\ ~exists
  /\ Fail(p)

-----------------------------------------------------------------------------
(* The host *)

\* The window's work is done: the host stores the new marker.
Accept(p) ==
  /\ pc[p] = "answered"
  /\ marker' = ans[p].next
  /\ mgen' = ans[p].gen
  /\ taken' = taken \cup ans[p].lines
  /\ skipped' = skipped \cup ans[p].skips
  /\ End(p)

\* The answer is lost, the scans could not be queued or the marker not saved:
\* the host keeps the old marker.
Discard(p) ==
  /\ pc[p] = "answered"
  /\ Fail(p)

-----------------------------------------------------------------------------
Serve(p) ==
  StatMissing(p) \/ Stat(p) \/ CheckNewline(p) \/ Read(p) \/ Resync(p) \/ OpenFails(p)

Next ==
  \/ WriteByte \/ WriteNewline \/ Rotate
  \/ \E p \in Pollers : Poll(p) \/ Serve(p) \/ Accept(p) \/ Discard(p)

Spec == Init /\ [][Next]_vars

(* The host polls on its schedule and takes over an answer sooner or later.  *)
FairSpec ==
  /\ Spec
  /\ \A p \in Pollers : WF_vars(Poll(p)) /\ WF_vars(Serve(p)) /\ SF_vars(Accept(p))

-----------------------------------------------------------------------------
(* Properties *)

TypeOK ==
  /\ exists \in BOOLEAN
  /\ log \in Seq(0..MaxLines) /\ (~exists => log = <<>>)
  /\ line \in 1..(MaxLines + MaxGen + 1) /\ gen \in 0..MaxGen
  /\ marker \in PollChangesRequest /\ mgen \in 0..MaxGen
  /\ fooled \subseteq {"aliased", "raced"}
  /\ pc \in [Pollers -> {"idle", "stat", "check", "read", "resync", "answered"}]
  /\ ask \in [Pollers -> PollChangesRequest] /\ askgen \in [Pollers -> 0..MaxGen]
  /\ offset \in [Pollers -> Nat] /\ checked \in [Pollers -> 0..MaxGen]
  /\ ans \in [Pollers -> PollChangesResponse]

\* The log the host's marker was read from is the log that is there now.
MarkerIsCurrent == marker \in Nat /\ mgen = gen /\ exists

\* Every complete line before the marker was taken over or passed over by a
\* first poll: no overlap, repeat or rotation makes the marker run ahead.
NothingLost ==
  MarkerIsCurrent =>
    \A i \in Newlines(log, 0) :
      i <= marker /\ LineAt(log, 0, i) # <<>> => LineAt(log, 0, i) \in taken \cup skipped

\* The marker ends just past a newline: "Every marker this plugin writes".
MarkerAtLineEnd ==
  MarkerIsCurrent => marker = 0 \/ marker \in Newlines(log, 0)

\* What is handed over are whole lines, never the rest of one.
OnlyWholeLines == taken \subseteq whole

\* Unless a rotated log has a newline just before the marker, or is rotated
\* during a poll, rotation loses nothing: the new log is read from the start.
SafeUnlessFooled == fooled = {} => NothingLost

\* Even a log mistaken for the marker's own yields whole lines, unless it was
\* rotated between followsNewline and readAppended.
WholeUnlessRaced == "raced" \notin fooled => OnlyWholeLines /\ MarkerAtLineEnd

\* A log that is only appended to, and never rotated, fools no poll: nothing is
\* lost and no line cut, whatever the markers, repeats and overlaps.
AppendOnlyIsSafe == gen = 0 => NothingLost /\ OnlyWholeLines /\ MarkerAtLineEnd

\* A line that stays in the log is taken over or passed over in the end, also
\* in a log that replaced the marker's own, unless the new one fooled a poll.
LinesDelivered ==
  \A n \in 1..MaxLines : \A k \in 1..MaxLen :
    LET text == [i \in 1..k |-> n]
    IN  text \in LinesFrom(log, 0)
          ~> text \in taken \cup skipped \/ text \notin LinesFrom(log, 0) \/ fooled # {}
=============================================================================
