---------------------------- MODULE ScanSourceProofs ----------------------------
(***************************************************************************)
(* Proofs about ScanSource for any number of overlapping polls, lines,       *)
(* bytes and rotations: where the markers of the host and of each poll in    *)
(* progress stand in the log, and what has been handed over before them.     *)
(***************************************************************************)
EXTENDS ScanSource, WellFoundedInduction, SequenceTheorems, TLAPS

\* The offset lies just past a newline of the log, or at its start.
Boundary(s, o) == o = 0 \/ o \in Newlines(s, 0)

\* The complete lines of the log up to the offset are among the given ones.
Handed(s, o, lines) ==
  \A i \in Newlines(s, 0) : i <= o /\ LineAt(s, 0, i) # <<>> => LineAt(s, 0, i) \in lines

\* Every complete line of the log was completed by the tool that writes it.
LogIsWhole == \A i \in Newlines(log, 0) : LineAt(log, 0, i) \in whole

\* No marker or poll is ahead of the log's rotations, and what a poll keeps of
\* its marker fits the step it is at.
InOrder(p) ==
  /\ askgen[p] <= gen /\ checked[p] <= gen /\ ans[p].gen <= gen
  /\ pc[p] = "resync" => ask[p] \notin Nat
  /\ pc[p] = "check" => offset[p] = ask[p] /\ offset[p] > 0

PollsInOrder == mgen <= gen /\ \A p \in Pollers : InOrder(p)

\* A log that was never rotated has fooled no poll.
RotationFools == gen = 0 => fooled = {}

\* Markers of this log end a line, and what was read from it are whole lines.
EndsLine(p) ==
  /\ ask[p] \in Nat /\ askgen[p] = gen => Boundary(log, ask[p])
  /\ pc[p] = "read" /\ checked[p] = gen => Boundary(log, offset[p])
  /\ ans[p].lines \subseteq whole
  /\ ans[p].gen = gen => Boundary(log, ans[p].next)

MarkerEndsLine ==
  taken \subseteq whole /\ (marker \in Nat /\ mgen = gen => Boundary(log, marker))

AtLineEnds == "raced" \notin fooled => MarkerEndsLine /\ \A p \in Pollers : EndsLine(p)

\* Before the markers of this log nothing is left to hand over.
Over == taken \cup skipped

HandsOver(p) ==
  /\ ask[p] \in Nat /\ askgen[p] = gen => Handed(log, ask[p], Over)
  /\ pc[p] = "read" /\ checked[p] = gen => Handed(log, offset[p], Over)
  /\ ans[p].gen = gen => Handed(log, ans[p].next, Over \cup ans[p].lines \cup ans[p].skips)

MarkerHandsOver == marker \in Nat /\ mgen = gen => Handed(log, marker, Over)

HandedBefore == fooled = {} => MarkerHandsOver /\ \A p \in Pollers : HandsOver(p)

\* Each rotation cuts one line short at most.
LineBound == line <= MaxLines + gen + 1

IInv ==
  TypeOK /\ LineBound /\ LogIsWhole /\ PollsInOrder /\ RotationFools /\ AtLineEnds /\ HandedBefore

-----------------------------------------------------------------------------
(* The largest of a set of numbers *)

Below == {r \in Nat \X Nat : r[1] < r[2]}

\* A set of natural numbers has a least element: < is well-founded.
LEMMA LeastNumber ==
  ASSUME NEW T, T \subseteq Nat, T # {}
  PROVE  \E x \in T : \A y \in T : x <= y
<1>1. IsWellFoundedOn(Below, Nat)
  BY NatLessThanWellFounded, Zenon DEF Below, OpToRel
<1>2. PICK x \in T : \A y \in T : <<y, x>> \notin Below
  BY <1>1, WFMin, Zenon
<1>3. ASSUME NEW y \in T PROVE x <= y
  <2>1. <<y, x>> \in Nat \X Nat /\ <<y, x>>[1] = y /\ <<y, x>>[2] = x
    OBVIOUS
  <2> QED
    BY <1>2, <2>1 DEF Below
<1> QED
  BY <1>3

\* A bounded set of natural numbers has a largest element, which Max chooses.
LEMMA MaxOf ==
  ASSUME NEW n \in Nat, NEW S, S \subseteq 0..n, S # {}
  PROVE  Max(S) \in S /\ \A y \in S : y <= Max(S)
<1> DEFINE T == {i \in Nat : n - i \in S}
<1>1. ASSUME NEW y \in S PROVE n - y \in T /\ n - (n - y) = y
  <2>1. n - y \in Nat /\ n - (n - y) = y
    OBVIOUS
  <2> QED
    BY <2>1
<1>2. PICK x \in T : \A y \in T : x <= y
  <2>1. T # {} /\ T \subseteq Nat
    BY <1>1
  <2> QED
    BY <2>1, LeastNumber
<1>3. n - x \in S /\ \A y \in S : n - x >= y
  BY <1>1, <1>2
<1> QED
  BY <1>3 DEF Max

\* There is only one.
LEMMA MaxIs ==
  ASSUME NEW S, S \subseteq Nat, NEW m \in S, \A y \in S : y <= m
  PROVE  Max(S) = m
<1>1. Max(S) \in S /\ \A y \in S : Max(S) >= y
  <2>1. \E x \in S : \A y \in S : x >= y
    <3>1. \A y \in S : m >= y
      OBVIOUS
    <3> QED
      BY <3>1
  <2> QED
    BY <2>1, Zenon DEF Max
<1>2. Max(S) \in Nat /\ m \in Nat /\ Max(S) >= m /\ Max(S) <= m
  BY <1>1
<1> QED
  BY <1>2

-----------------------------------------------------------------------------
(* The lines of the log *)

\* The start of the line that ends at newline i, and the end of the last one.
Before(s, o, i) == {o} \cup {j \in Newlines(s, o) : j < i}

LEMMA StartOf ==
  ASSUME NEW s, Len(s) \in Nat, NEW o \in Nat, NEW i \in Newlines(s, o)
  PROVE  /\ Max(Before(s, o, i)) \in Before(s, o, i)
         /\ \A j \in Before(s, o, i) : j <= Max(Before(s, o, i))
         /\ Before(s, o, i) \subseteq Nat /\ o \in Before(s, o, i)
         /\ LineAt(s, o, i) = SubSeq(s, Max(Before(s, o, i)) + 1, i - 1)
         /\ i \in Nat /\ o < i /\ i <= Len(s) /\ s[i] = 0
<1>1. i \in Nat /\ o < i /\ i <= Len(s) /\ s[i] = 0
  BY DEF Newlines
<1>2. Before(s, o, i) \subseteq 0..i /\ o \in Before(s, o, i)
  BY <1>1 DEF Before, Newlines
<1>3. Max(Before(s, o, i)) \in Before(s, o, i) /\ \A j \in Before(s, o, i) : j <= Max(Before(s, o, i))
  BY <1>1, <1>2, MaxOf
<1> QED
  BY <1>1, <1>2, <1>3 DEF LineAt, Before

LEMMA EndOf ==
  ASSUME NEW s, Len(s) \in Nat, NEW o \in Nat
  PROVE  /\ EndFrom(s, o) \in Nat /\ EndFrom(s, o) >= o
         /\ EndFrom(s, o) \in {o} \cup Newlines(s, o)
         /\ \A i \in Newlines(s, o) : i <= EndFrom(s, o)
<1> DEFINE S == {o} \cup Newlines(s, o)
<1>1. PICK n \in Nat : o <= n /\ Len(s) <= n
  <2>1. o + Len(s) \in Nat /\ o <= o + Len(s) /\ Len(s) <= o + Len(s)
    OBVIOUS
  <2> QED
    BY <2>1
<1>2. S \subseteq 0..n /\ S # {}
  BY <1>1 DEF Newlines
<1>3. Max(S) \in S /\ \A y \in S : y <= Max(S)
  BY <1>2, MaxOf
<1>4. EndFrom(s, o) = Max(S)
  BY Zenon DEF EndFrom
<1>5. Max(S) \in Nat /\ o \in S /\ Newlines(s, o) \subseteq S
  BY <1>2, <1>3
<1> HIDE DEF S
<1>6. EndFrom(s, o) \in Nat /\ EndFrom(s, o) >= o /\ \A i \in Newlines(s, o) : i <= EndFrom(s, o)
  BY <1>2, <1>3, <1>4, <1>5
<1> QED
  BY <1>3, <1>4, <1>6, Zenon DEF S

\* A line holds no newline.
LEMMA LineType ==
  ASSUME NEW s \in Seq(0..MaxLines), NEW o \in Nat, NEW i \in Newlines(s, o)
  PROVE  LineAt(s, o, i) \in ScanSourceChange
<1> DEFINE m == Max(Before(s, o, i))
<1>1. Len(s) \in Nat /\ \A k \in 1..Len(s) : s[k] \in 0..MaxLines
  BY LenProperties, ElementOfSeq
<1>2. /\ m \in Nat /\ o <= m /\ i \in Nat /\ i <= Len(s)
      /\ \A j \in Before(s, o, i) : j <= m
      /\ LineAt(s, o, i) = SubSeq(s, m + 1, i - 1)
  BY <1>1, StartOf
<1>3. ASSUME NEW k \in (m + 1)..(i - 1) PROVE s[k] \in 1..MaxLines
  <2>1. k \in (o + 1)..Len(s) /\ k < i /\ k \in 1..Len(s) /\ ~(k <= m)
    BY <1>1, <1>2
  <2>2. k \notin Newlines(s, o)
    BY <1>2, <2>1 DEF Before
  <2>3. s[k] # 0
    BY <2>1, <2>2 DEF Newlines
  <2> QED
    BY <1>1, <2>1, <2>3, BoundsAssumption
<1>4. SubSeq(s, m + 1, i - 1) \in Seq(1..MaxLines)
  <2>1. m + 1 \in Int /\ i - 1 \in Int
    BY <1>2
  <2> HIDE DEF m
  <2> QED
    BY <1>3, <2>1, SubSeqProperties
<1> QED
  BY <1>2, <1>4 DEF ScanSourceChange

LEMMA LinesType ==
  ASSUME NEW s \in Seq(0..MaxLines), NEW o \in Nat
  PROVE  LinesFrom(s, o) \subseteq ScanSourceChange
  BY LineType DEF LinesFrom

\* Reading from the end of a line yields the lines of the log after it.
LEMMA LinesAfter ==
  ASSUME NEW s, Len(s) \in Nat, NEW o \in Nat, Boundary(s, o)
  PROVE  \A i \in Nat : /\ i \in Newlines(s, o) <=> i \in Newlines(s, 0) /\ i > o
                        /\ i \in Newlines(s, o) => LineAt(s, o, i) = LineAt(s, 0, i)
<1>1. ASSUME NEW i \in Nat PROVE i \in Newlines(s, o) <=> i \in Newlines(s, 0) /\ i > o
  BY DEF Newlines
<1>2. ASSUME NEW i \in Newlines(s, o) PROVE LineAt(s, o, i) = LineAt(s, 0, i)
  <2>1. i \in Newlines(s, 0) /\ i \in Nat /\ i > o
    BY <1>1, StartOf
  <2> DEFINE m == Max(Before(s, 0, i))
  <2>2. /\ m \in Before(s, 0, i) /\ Before(s, 0, i) \subseteq Nat
        /\ \A j \in Before(s, 0, i) : j <= m
        /\ LineAt(s, 0, i) = SubSeq(s, m + 1, i - 1)
    BY <2>1, StartOf
  <2>3. o \in Before(s, 0, i)
    BY <2>1 DEF Boundary, Before
  <2>4. m \in Before(s, o, i)
    BY <1>1, <2>2, <2>3 DEF Before
  <2>5. Before(s, o, i) \subseteq Before(s, 0, i)
    BY <1>1, <2>3, StartOf DEF Before
  <2>6. Max(Before(s, o, i)) = m
    <3> HIDE DEF m
    <3> QED
      BY <2>2, <2>4, <2>5, MaxIs
  <2>7. LineAt(s, o, i) = SubSeq(s, Max(Before(s, o, i)) + 1, i - 1)
    BY StartOf
  <2> QED
    BY <2>2, <2>6, <2>7
<1> QED
  BY <1>1, <1>2

\* The end of what was read is the end of a line, too.
LEMMA EndIsBoundary ==
  ASSUME NEW s, Len(s) \in Nat, NEW o \in Nat, Boundary(s, o)
  PROVE  Boundary(s, EndFrom(s, o))
<1>1. EndFrom(s, o) = o \/ EndFrom(s, o) \in Newlines(s, o)
  BY EndOf
<1>2. EndFrom(s, o) \in Newlines(s, o) => EndFrom(s, o) \in Newlines(s, 0)
  BY EndOf, LinesAfter
<1> QED
  BY <1>1, <1>2 DEF Boundary

\* A byte appended to the log leaves its lines as they are.
LEMMA Appended ==
  ASSUME NEW s \in Seq(0..MaxLines), NEW e \in 0..MaxLines
  PROVE  LET t == Append(s, e)
         IN  /\ t \in Seq(0..MaxLines) /\ Len(s) \in Nat
             /\ Newlines(t, 0) = Newlines(s, 0) \cup (IF e = 0 THEN {Len(s) + 1} ELSE {})
             /\ \A i \in Newlines(s, 0) : LineAt(t, 0, i) = LineAt(s, 0, i)
             /\ e = 0 => LineAt(t, 0, Len(s) + 1) = SubSeq(s, EndFrom(s, 0) + 1, Len(s))
<1> DEFINE t == Append(s, e)
<1>1. /\ t \in Seq(0..MaxLines) /\ Len(s) \in Nat /\ Len(t) = Len(s) + 1
      /\ \A k \in 1..Len(s) : t[k] = s[k]
      /\ t[Len(s) + 1] = e
  BY AppendProperties, LenProperties
<1> HIDE DEF t
<1>2. ASSUME NEW k \in Nat
      PROVE  k \in Newlines(t, 0) <=> k \in Newlines(s, 0) \/ (e = 0 /\ k = Len(s) + 1)
  BY <1>1 DEF Newlines
<1>3. Newlines(t, 0) \subseteq Nat /\ Newlines(s, 0) \subseteq Nat
  BY DEF Newlines
<1>4. Newlines(t, 0) = Newlines(s, 0) \cup (IF e = 0 THEN {Len(s) + 1} ELSE {})
  BY <1>1, <1>2, <1>3
<1>5. ASSUME NEW a \in Nat, NEW b \in 0..Len(s), a > 0
      PROVE  SubSeq(t, a, b) = SubSeq(s, a, b)
  <2>1. CASE b < a
    BY <2>1, SubSeqEmpty
  <2>2. CASE a <= b
    <3>1. a \in 1..Len(s) /\ b \in 1..Len(s)
      BY <1>1, <1>5, <2>2
    <3>2. t = s \o <<e>> /\ <<e>> \in Seq(0..MaxLines)
      BY AppendIsConcat DEF t
    <3> QED
      BY <3>1, <3>2, SubSeqOfConcat1
  <2> QED
    BY <1>1, <1>5, <2>1, <2>2
<1>6. ASSUME NEW i \in Newlines(s, 0) PROVE LineAt(t, 0, i) = LineAt(s, 0, i)
  <2>1. /\ Max(Before(s, 0, i)) \in Nat
        /\ LineAt(s, 0, i) = SubSeq(s, Max(Before(s, 0, i)) + 1, i - 1)
        /\ i \in Nat /\ 0 < i /\ i <= Len(s)
    BY <1>1, StartOf
  <2>2. Before(t, 0, i) = Before(s, 0, i)
    BY <1>1, <1>4, <2>1 DEF Before
  <2>3. LineAt(t, 0, i) = SubSeq(t, Max(Before(s, 0, i)) + 1, i - 1)
    BY <2>2, Zenon DEF LineAt, Before
  <2> DEFINE a == Max(Before(s, 0, i)) + 1
  <2>4. a \in Nat /\ a > 0 /\ i - 1 \in 0..Len(s)
    BY <1>1, <2>1
  <2>5. SubSeq(t, a, i - 1) = SubSeq(s, a, i - 1)
    <3> HIDE DEF a
    <3> QED
      BY <1>5, <2>4
  <2> QED
    BY <2>1, <2>3, <2>5, Zenon
<1>7. ASSUME e = 0
      PROVE  LineAt(t, 0, Len(s) + 1) = SubSeq(s, EndFrom(s, 0) + 1, Len(s))
  <2>1. \A i \in Newlines(s, 0) : i < Len(s) + 1
    BY <1>1 DEF Newlines
  <2>2. {0} \cup {j \in Newlines(t, 0) : j < Len(s) + 1} = {0} \cup Newlines(s, 0)
    BY <1>1, <1>4, <1>7, <2>1
  <2>3. LineAt(t, 0, Len(s) + 1) = SubSeq(t, EndFrom(s, 0) + 1, Len(s) + 1 - 1)
    <3> DEFINE k == Len(s) + 1
    <3>1. Max(Before(t, 0, k)) = EndFrom(s, 0)
      BY <2>2 DEF EndFrom, Before
    <3> HIDE DEF k
    <3>2. LineAt(t, 0, k) = SubSeq(t, Max(Before(t, 0, k)) + 1, k - 1)
      BY DEF LineAt, Before
    <3>3. LineAt(t, 0, k) = SubSeq(t, EndFrom(s, 0) + 1, k - 1)
      BY <3>1, <3>2
    <3> QED
      BY <3>3 DEF k
  <2>4. EndFrom(s, 0) \in Nat /\ Len(s) + 1 - 1 = Len(s)
    BY <1>1, EndOf
  <2> QED
    BY <1>1, <1>5, <2>3, <2>4
<1> QED
  BY <1>1, <1>4, <1>6, <1>7 DEF t

\* So a marker of the log stays at the end of a line, with all before it.
LEMMA AppendKeeps ==
  ASSUME NEW s \in Seq(0..MaxLines), NEW e \in 0..MaxLines,
         NEW o \in Nat, Boundary(s, o)
  PROVE  /\ Boundary(Append(s, e), o)
         /\ \A lines : Handed(s, o, lines) => Handed(Append(s, e), o, lines)
<1> DEFINE t == Append(s, e)
<1>1. o <= Len(s) /\ Len(s) \in Nat
  BY LenProperties DEF Boundary, Newlines
<1>2. /\ Newlines(t, 0) = Newlines(s, 0) \cup (IF e = 0 THEN {Len(s) + 1} ELSE {})
      /\ \A i \in Newlines(s, 0) : LineAt(t, 0, i) = LineAt(s, 0, i)
  BY Appended
<1> HIDE DEF t
<1>3. \A i \in Newlines(t, 0) : i <= o => i \in Newlines(s, 0)
  BY <1>1, <1>2
<1>4. Boundary(t, o)
  BY <1>2 DEF Boundary
<1> QED
  BY <1>2, <1>3, <1>4 DEF Handed, t

LEMMA EmptyLog ==
  /\ <<>> \in Seq(0..MaxLines) /\ Newlines(<<>>, 0) = {}
  /\ Boundary(<<>>, 0) /\ \A lines : Handed(<<>>, 0, lines)
<1>1. Newlines(<<>>, 0) = {} /\ <<>> \in Seq(0..MaxLines)
  BY EmptySeq DEF Newlines
<1> QED
  BY <1>1 DEF Boundary, Handed

\* What is read from the end of a line on, with all that was handed over
\* before it, is all there is up to the end of what was read.
LEMMA ReadHandsOver ==
  ASSUME NEW s \in Seq(0..MaxLines), NEW o \in Nat, Boundary(s, o),
         NEW lines, Handed(s, o, lines)
  PROVE  /\ Boundary(s, EndFrom(s, o))
         /\ Handed(s, EndFrom(s, o), lines \cup LinesFrom(s, o))
<1>1. Len(s) \in Nat
  BY LenProperties
<1>2. Boundary(s, EndFrom(s, o))
  BY <1>1, EndIsBoundary
<1>3. ASSUME NEW i \in Newlines(s, 0), LineAt(s, 0, i) # <<>>
      PROVE  LineAt(s, 0, i) \in lines \cup LinesFrom(s, o)
  <2>1. i \in Nat
    BY DEF Newlines
  <2>2. CASE i <= o
    BY <1>3, <2>2 DEF Handed
  <2>3. CASE i > o
    <3>1. i \in Newlines(s, o) /\ LineAt(s, o, i) = LineAt(s, 0, i)
      BY <1>1, <2>1, <2>3, LinesAfter
    <3> QED
      BY <1>3, <3>1 DEF LinesFrom
  <2> QED
    BY <2>1, <2>2, <2>3
<1> QED
  BY <1>2, <1>3 DEF Handed

\* Lines read from the end of a line on are lines of the log.
LEMMA ReadsLines ==
  ASSUME NEW s \in Seq(0..MaxLines), NEW o \in Nat, Boundary(s, o),
         NEW lines, \A i \in Newlines(s, 0) : LineAt(s, 0, i) \in lines
  PROVE  LinesFrom(s, o) \subseteq lines
<1>1. Len(s) \in Nat
  BY LenProperties
<1>2. ASSUME NEW i \in Newlines(s, o) PROVE LineAt(s, o, i) \in lines
  <2>1. i \in Nat
    BY DEF Newlines
  <2> QED
    BY <1>1, <2>1, LinesAfter
<1> QED
  BY <1>2 DEF LinesFrom

-----------------------------------------------------------------------------
(* The steps of the tool that writes the log *)

LEMMA InitIInv == Init => IInv
<1> SUFFICES ASSUME Init PROVE IInv
  OBVIOUS
<1> USE DEF Init
<1>1. TypeOK
  BY BoundsAssumption, EmptyLog DEF TypeOK, PollChangesRequest, PollChangesResponse, NoAnswer
<1>2. LineBound /\ RotationFools
  BY BoundsAssumption DEF LineBound, RotationFools
<1>3. LogIsWhole
  BY EmptyLog DEF LogIsWhole
<1>4. PollsInOrder
  BY MarkersAssumption DEF PollsInOrder, InOrder, NoAnswer
<1>5. AtLineEnds
  BY EmptyLog, MarkersAssumption DEF AtLineEnds, MarkerEndsLine, EndsLine, NoAnswer
<1>6. HandedBefore
  BY EmptyLog, MarkersAssumption DEF HandedBefore, MarkerHandsOver, HandsOver, NoAnswer
<1> QED
  BY <1>1, <1>2, <1>3, <1>4, <1>5, <1>6 DEF IInv

\* What is appended to the log is after every marker of it.
LEMMA AppendStep ==
  ASSUME IInv, NEW e \in 0..MaxLines, log' = Append(log, e), whole \subseteq whole',
         UNCHANGED <<gen, host, fooled, poll>>
  PROVE  PollsInOrder' /\ RotationFools' /\ AtLineEnds' /\ HandedBefore'
<1> USE DEF IInv, host, poll
<1>1. PollsInOrder' /\ RotationFools'
  BY DEF PollsInOrder, InOrder, RotationFools
<1>2. log \in Seq(0..MaxLines)
  BY DEF TypeOK
<1>3. \A o \in Nat : Boundary(log, o) =>
        /\ Boundary(log', o)
        /\ \A lines : Handed(log, o, lines) => Handed(log', o, lines)
  BY <1>2, AppendKeeps
<1>4. \A p \in Pollers : offset[p] \in Nat /\ ans[p].next \in Nat
  BY DEF TypeOK, PollChangesResponse
<1>5. AtLineEnds'
  BY <1>3, <1>4 DEF AtLineEnds, MarkerEndsLine, EndsLine
<1>6. HandedBefore'
  BY <1>3, <1>4 DEF AtLineEnds, MarkerEndsLine, EndsLine,
                    HandedBefore, MarkerHandsOver, HandsOver, Over
<1> QED
  BY <1>1, <1>5, <1>6

LEMMA WriteByteStep == ASSUME IInv, WriteByte PROVE IInv'
<1> USE DEF WriteByte
<1>1. log \in Seq(0..MaxLines) /\ line \in 0..MaxLines /\ line # 0
  BY BoundsAssumption DEF IInv, TypeOK
<1>2. /\ log' \in Seq(0..MaxLines) /\ Newlines(log', 0) = Newlines(log, 0)
      /\ \A i \in Newlines(log, 0) : LineAt(log', 0, i) = LineAt(log, 0, i)
  <2>1. Newlines(Append(log, line), 0) = Newlines(log, 0) \cup {}
    BY <1>1, Appended
  <2> QED
    BY <1>1, <2>1, Appended
<1>3. TypeOK' /\ LineBound'
  BY <1>2 DEF IInv, TypeOK, LineBound, host, poll
<1>4. LogIsWhole'
  BY <1>2 DEF IInv, LogIsWhole
<1>5. PollsInOrder' /\ RotationFools' /\ AtLineEnds' /\ HandedBefore'
  BY <1>1, AppendStep
<1> QED
  BY <1>3, <1>4, <1>5 DEF IInv

LEMMA WriteNewlineStep == ASSUME IInv, WriteNewline PROVE IInv'
<1> USE DEF WriteNewline
<1>1. log \in Seq(0..MaxLines) /\ 0 \in 0..MaxLines
  BY BoundsAssumption DEF IInv, TypeOK
<1>2. /\ log' \in Seq(0..MaxLines) /\ Len(log) \in Nat
      /\ Newlines(log', 0) = Newlines(log, 0) \cup {Len(log) + 1}
      /\ \A i \in Newlines(log, 0) : LineAt(log', 0, i) = LineAt(log, 0, i)
      /\ LineAt(log', 0, Len(log) + 1) = SubSeq(log, EndFrom(log, 0) + 1, Len(log))
  BY <1>1, Appended
<1>3. TypeOK' /\ LineBound'
  BY <1>2, BoundsAssumption DEF IInv, TypeOK, LineBound, host, poll
<1>4. LogIsWhole'
  BY <1>2 DEF IInv, LogIsWhole
<1>5. PollsInOrder' /\ RotationFools' /\ AtLineEnds' /\ HandedBefore'
  BY <1>1, AppendStep
<1> QED
  BY <1>3, <1>4, <1>5 DEF IInv

\* No marker is of a log that was just rotated.
LEMMA RotateStep == ASSUME IInv, Rotate PROVE IInv'
<1> USE DEF IInv, Rotate, host, poll
<1>1. TypeOK' /\ LineBound'
  BY EmptyLog, BoundsAssumption DEF TypeOK, LineBound
<1>2. LogIsWhole' /\ RotationFools'
  BY EmptyLog DEF LogIsWhole, RotationFools, TypeOK
<1>3. PollsInOrder'
  BY DEF PollsInOrder, InOrder, TypeOK, PollChangesResponse
<1>4. /\ gen' \in Nat /\ mgen # gen'
      /\ \A p \in Pollers : askgen[p] # gen' /\ checked[p] # gen' /\ ans[p].gen # gen'
  BY DEF PollsInOrder, InOrder, TypeOK, PollChangesResponse
<1>5. AtLineEnds'
  BY <1>4 DEF AtLineEnds, MarkerEndsLine, EndsLine
<1>6. HandedBefore'
  BY <1>4 DEF HandedBefore, MarkerHandsOver, HandsOver
<1> QED
  BY <1>1, <1>2, <1>3, <1>5, <1>6

-----------------------------------------------------------------------------
(* The steps of the polls *)

\* A step of one poll, or of the host with its answer, leaves the log and the
\* other polls alone: what is left to show is about the poll and the marker.
LEMMA PollStep ==
  ASSUME IInv, NEW p \in Pollers, TypeOK', UNCHANGED tool,
         \A q \in Pollers \ {p} :
           /\ pc'[q] = pc[q] /\ ask'[q] = ask[q] /\ askgen'[q] = askgen[q]
           /\ offset'[q] = offset[q] /\ checked'[q] = checked[q] /\ ans'[q] = ans[q],
         fooled \subseteq fooled', Over \subseteq Over',
         mgen' <= gen, InOrder(p)', RotationFools',
         "raced" \notin fooled' => MarkerEndsLine' /\ EndsLine(p)',
         fooled' = {} => MarkerHandsOver' /\ HandsOver(p)'
  PROVE  IInv'
<1> USE DEF tool
<1>1. LineBound' /\ LogIsWhole'
  BY DEF IInv, LineBound, LogIsWhole
<1>2. PollsInOrder'
  BY DEF IInv, PollsInOrder, InOrder
<1>3. ASSUME "raced" \notin fooled', NEW q \in Pollers \ {p} PROVE EndsLine(q)'
  BY <1>3 DEF IInv, AtLineEnds, EndsLine
<1>4. AtLineEnds'
  BY <1>3 DEF AtLineEnds
<1>5. ASSUME fooled' = {}, NEW q \in Pollers \ {p} PROVE HandsOver(q)'
  <2>1. HandsOver(q) /\ ans'[q] = ans[q] /\ pc'[q] = pc[q] /\ ask'[q] = ask[q]
        /\ askgen'[q] = askgen[q] /\ offset'[q] = offset[q] /\ checked'[q] = checked[q]
    BY <1>5 DEF IInv, HandedBefore
  <2> QED
    BY <2>1 DEF HandsOver, Handed
<1>6. HandedBefore'
  BY <1>5 DEF HandedBefore
<1> QED
  BY <1>1, <1>2, <1>4, <1>6 DEF IInv

\* The poll is sent the marker the host stores.
LEMMA PollSent == ASSUME IInv, NEW p \in Pollers, Poll(p) PROVE IInv'
<1> USE DEF Poll, tool, host
<1>1. TypeOK'
  BY DEF IInv, TypeOK
<1>2. InOrder(p)' /\ mgen' <= gen /\ RotationFools'
  BY DEF IInv, TypeOK, PollsInOrder, InOrder, RotationFools
<1>3. "raced" \notin fooled' => MarkerEndsLine' /\ EndsLine(p)'
  BY DEF IInv, TypeOK, AtLineEnds, MarkerEndsLine, EndsLine
<1>4. fooled' = {} => MarkerHandsOver' /\ HandsOver(p)'
  BY DEF IInv, TypeOK, HandedBefore, MarkerHandsOver, HandsOver, Over
<1> QED
  BY <1>1, <1>2, <1>3, <1>4, PollStep DEF IInv, TypeOK, Over

\* A poll that is over has no answer and no marker left.
LEMMA EndStep ==
  ASSUME IInv, NEW p \in Pollers, End(p), TypeOK',
         mgen' <= gen, Over \subseteq Over',
         "raced" \notin fooled => MarkerEndsLine',
         fooled = {} => MarkerHandsOver'
  PROVE  IInv'
<1> USE DEF End, Forget, tool
<1>1. InOrder(p)' /\ RotationFools'
  BY BoundsAssumption DEF IInv, TypeOK, InOrder, RotationFools, NoAnswer
<1>2. EndsLine(p)'
  BY MarkersAssumption DEF IInv, TypeOK, EndsLine, NoAnswer, Boundary
<1>3. HandsOver(p)'
  BY MarkersAssumption DEF IInv, TypeOK, HandsOver, NoAnswer, Handed, Newlines
<1> QED
  BY <1>1, <1>2, <1>3, PollStep DEF IInv, TypeOK

LEMMA NoAnswerType == NoAnswer \in PollChangesResponse
  BY BoundsAssumption DEF NoAnswer, PollChangesResponse

\* An error, or a lost answer, leaves the host with the marker it has.
LEMMA FailStep == ASSUME IInv, NEW p \in Pollers, Fail(p) PROVE IInv'
<1> USE DEF Fail, host
<1>1. TypeOK'
  BY NoAnswerType, BoundsAssumption
     DEF IInv, TypeOK, End, Forget, tool, PollChangesRequest
<1>2. mgen' <= gen /\ Over \subseteq Over'
  BY DEF IInv, PollsInOrder, Over
<1>3. "raced" \notin fooled => MarkerEndsLine'
  BY DEF IInv, AtLineEnds, MarkerEndsLine, End, tool
<1>4. fooled = {} => MarkerHandsOver'
  BY DEF IInv, HandedBefore, MarkerHandsOver, Over, End, tool
<1> QED
  BY <1>1, <1>2, <1>3, <1>4, EndStep

\* The host takes over the lines of an answer together with its marker.
LEMMA AcceptStep == ASSUME IInv, NEW p \in Pollers, Accept(p) PROVE IInv'
<1> USE DEF Accept
<1>1. ans[p].next \in PollChangesRequest /\ ans[p].gen \in 0..MaxGen
  BY DEF IInv, TypeOK, PollChangesRequest, PollChangesResponse
<1>2. TypeOK'
  <2>1. marker' \in PollChangesRequest /\ mgen' \in 0..MaxGen
    BY <1>1
  <2>2. ans' \in [Pollers -> PollChangesResponse] /\ ask' \in [Pollers -> PollChangesRequest]
    BY NoAnswerType DEF IInv, TypeOK, End, Forget, PollChangesRequest
  <2> QED
    BY <2>1, <2>2, BoundsAssumption DEF IInv, TypeOK, End, Forget, tool
<1>3. mgen' <= gen /\ Over \subseteq Over'
  BY DEF IInv, PollsInOrder, InOrder, Over
<1>4. "raced" \notin fooled => MarkerEndsLine'
  BY DEF IInv, AtLineEnds, MarkerEndsLine, EndsLine, End, tool
<1>5. fooled = {} => MarkerHandsOver'
  <2>1. ASSUME fooled = {}, ans[p].gen = gen
        PROVE  Handed(log, ans[p].next, Over')
    <3>1. Handed(log, ans[p].next, Over \cup ans[p].lines \cup ans[p].skips)
      BY <2>1 DEF IInv, HandedBefore, HandsOver
    <3>2. Over \cup ans[p].lines \cup ans[p].skips = Over'
      BY DEF Over
    <3> QED
      BY <3>1, <3>2
  <2> QED
    BY <2>1 DEF MarkerHandsOver, End, tool
<1> QED
  BY <1>2, <1>3, <1>4, <1>5, EndStep

\* What an answer must be: it ends a line and leaves nothing before its marker.
LEMMA AnswerStep ==
  ASSUME IInv, NEW p \in Pollers,
         NEW lines \in SUBSET ScanSourceChange, NEW next \in Nat,
         NEW skips \in SUBSET ScanSourceChange, Answer(p, lines, next, skips),
         fooled \subseteq fooled', fooled' \subseteq {"aliased", "raced"}, RotationFools',
         "raced" \notin fooled' => lines \subseteq whole /\ Boundary(log, next),
         fooled' = {} => Handed(log, next, Over \cup lines \cup skips)
  PROVE  IInv'
<1> USE DEF Answer, Forget, tool, host
<1>1. [lines |-> lines, next |-> next, gen |-> gen, skips |-> skips] \in PollChangesResponse
  BY DEF IInv, TypeOK, PollChangesResponse
<1>2. TypeOK'
  BY <1>1, BoundsAssumption DEF IInv, TypeOK, PollChangesRequest
<1>3. /\ pc'[p] = "answered" /\ ask'[p] = NoMarker /\ askgen'[p] = 0 /\ checked'[p] = 0
      /\ ans'[p].lines = lines /\ ans'[p].next = next
      /\ ans'[p].gen = gen /\ ans'[p].skips = skips
  BY DEF IInv, TypeOK
<1>4. InOrder(p)' /\ mgen' <= gen
  BY <1>3 DEF IInv, TypeOK, PollsInOrder, InOrder
<1>5. "raced" \notin fooled' => MarkerEndsLine' /\ EndsLine(p)'
  BY <1>3, MarkersAssumption DEF IInv, AtLineEnds, MarkerEndsLine, EndsLine
<1>6. fooled' = {} => MarkerHandsOver' /\ HandsOver(p)'
  BY <1>3, MarkersAssumption DEF IInv, HandedBefore, MarkerHandsOver, HandsOver, Over
<1> QED
  BY <1>2, <1>4, <1>5, <1>6, PollStep DEF IInv, TypeOK, Over

\* What an offset to read from must be.
LEMMA GotoStep ==
  ASSUME IInv, NEW p \in Pollers, NEW step \in {"check", "read", "resync"},
         NEW o \in Nat, Goto(p, step, o),
         fooled \subseteq fooled', fooled' \subseteq {"aliased", "raced"}, RotationFools',
         step = "resync" => ask[p] \notin Nat,
         step = "check" => o = ask[p] /\ o > 0,
         step = "read" => Boundary(log, o),
         step = "read" /\ fooled' = {} => Handed(log, o, Over)
  PROVE  IInv'
<1> USE DEF Goto, tool, host
<1>1. TypeOK'
  BY DEF IInv, TypeOK
<1>2. pc'[p] = step /\ offset'[p] = o /\ checked'[p] = gen
  BY DEF IInv, TypeOK
<1>3. InOrder(p)' /\ mgen' <= gen
  BY <1>2 DEF IInv, TypeOK, PollsInOrder, InOrder
<1>4. "raced" \notin fooled' => MarkerEndsLine' /\ EndsLine(p)'
  BY <1>2 DEF IInv, AtLineEnds, MarkerEndsLine, EndsLine
<1>5. fooled' = {} => MarkerHandsOver' /\ HandsOver(p)'
  BY <1>2 DEF IInv, HandedBefore, MarkerHandsOver, HandsOver, Over
<1> QED
  BY <1>1, <1>3, <1>4, <1>5, PollStep DEF IInv, TypeOK, Over

LEMMA StartIsHanded ==
  ASSUME NEW s PROVE Boundary(s, 0) /\ \A lines : Handed(s, 0, lines)
  BY DEF Boundary, Handed, Newlines

\* A missing log has no lines.
LEMMA StatMissingStep == ASSUME IInv, NEW p \in Pollers, StatMissing(p) PROVE IInv'
<1>1. CASE Fail(p)
  BY <1>1, FailStep
<1>2. CASE Answer(p, {}, 0, {}) /\ UNCHANGED fooled
  <2>1. RotationFools' /\ fooled' \subseteq {"aliased", "raced"}
    BY <1>2 DEF Answer, tool, IInv, TypeOK, RotationFools
  <2> QED
    BY <1>2, <2>1, AnswerStep, StartIsHanded
<1> QED
  BY <1>1, <1>2 DEF StatMissing

\* The marker is checked, or reading starts at the beginning or the end.
LEMMA StatStep == ASSUME IInv, NEW p \in Pollers, Stat(p) PROVE IInv'
<1> USE DEF Stat
<1>1. fooled' = fooled /\ RotationFools' /\ fooled' \subseteq {"aliased", "raced"}
  <2>1. UNCHANGED <<gen, fooled>>
    BY DEF Goto, tool
  <2> QED
    BY <2>1 DEF IInv, TypeOK, RotationFools
<1>2. CASE ask[p] \notin Nat /\ Goto(p, "resync", 0)
  BY <1>1, <1>2, GotoStep
<1>3. CASE Goto(p, "read", 0)
  BY <1>1, <1>3, GotoStep, StartIsHanded
<1>4. CASE ask[p] \in Nat \ {0} /\ Goto(p, "check", ask[p])
  BY <1>1, <1>4, GotoStep
<1> QED
  BY <1>2, <1>3, <1>4

\* A newline before the offset of the marker's own log: the marker holds.
LEMMA CheckNewlineStep == ASSUME IInv, NEW p \in Pollers, CheckNewline(p) PROVE IInv'
<1>1. CASE Fail(p)
  BY <1>1, FailStep
<1>2. CASE /\ pc[p] = "check" /\ Len(log) >= offset[p] /\ log[offset[p]] = 0
           /\ Goto(p, "read", offset[p])
           /\ fooled' = fooled \cup (IF askgen[p] # gen THEN {"aliased"} ELSE {})
  <2>1. /\ offset[p] \in Nat /\ offset[p] > 0 /\ offset[p] = ask[p]
        /\ Len(log) \in Nat /\ askgen[p] <= gen /\ askgen[p] \in Nat /\ gen' = gen
    BY <1>2, LenProperties DEF IInv, TypeOK, PollsInOrder, InOrder, Goto, tool
  <2>2. Boundary(log, offset[p])
    BY <1>2, <2>1 DEF Boundary, Newlines
  <2>3. fooled \subseteq fooled' /\ fooled' \subseteq {"aliased", "raced"} /\ RotationFools'
    BY <1>2, <2>1 DEF IInv, TypeOK, RotationFools
  <2>4. fooled' = {} => Handed(log, offset[p], Over)
    BY <1>2, <2>1 DEF IInv, HandedBefore, HandsOver
  <2> QED
    BY <1>2, <2>1, <2>2, <2>3, <2>4, GotoStep
<1>3. CASE Goto(p, "read", 0) /\ UNCHANGED fooled
  <2>1. RotationFools' /\ fooled' \subseteq {"aliased", "raced"}
    BY <1>3 DEF Goto, tool, IInv, TypeOK, RotationFools
  <2> QED
    BY <1>3, <2>1, GotoStep, StartIsHanded
<1>4. exists \/ ~exists
  OBVIOUS
<1>5. Len(log) \in Nat /\ offset[p] \in Nat
  BY LenProperties DEF IInv, TypeOK
<1> QED
  BY <1>1, <1>2, <1>3, <1>5 DEF CheckNewline

\* Reading from the end of a line on hands over what is there.
LEMMA ReadStep == ASSUME IInv, NEW p \in Pollers, Read(p) PROVE IInv'
<1> USE DEF Read
<1>1. /\ log \in Seq(0..MaxLines) /\ offset[p] \in Nat /\ gen' = gen
      /\ checked[p] \in Nat /\ gen \in Nat /\ checked[p] <= gen
  BY DEF IInv, TypeOK, PollsInOrder, InOrder, Answer, tool
<1>2. LinesFrom(log, offset[p]) \in SUBSET ScanSourceChange
  BY <1>1, LinesType
<1>3. EndFrom(log, offset[p]) \in Nat
  BY <1>1, EndOf, LenProperties
<1>4. fooled \subseteq fooled' /\ fooled' \subseteq {"aliased", "raced"} /\ RotationFools'
  BY <1>1 DEF Raced, IInv, TypeOK, RotationFools
<1>5. ASSUME "raced" \notin fooled'
      PROVE  (offset[p] = 0 \/ checked[p] = gen) /\ Boundary(log, offset[p])
  <2>1. offset[p] = 0 \/ checked[p] = gen
    BY <1>1, <1>5 DEF Raced
  <2> QED
    BY <1>4, <1>5, <2>1, StartIsHanded DEF IInv, AtLineEnds, EndsLine
<1>6. "raced" \notin fooled' =>
        LinesFrom(log, offset[p]) \subseteq whole /\ Boundary(log, EndFrom(log, offset[p]))
  <2>1. \A i \in Newlines(log, 0) : LineAt(log, 0, i) \in whole
    BY DEF IInv, LogIsWhole
  <2>2. ASSUME "raced" \notin fooled' PROVE LinesFrom(log, offset[p]) \subseteq whole
    BY <1>1, <1>5, <2>1, <2>2, ReadsLines
  <2>3. ASSUME "raced" \notin fooled' PROVE Boundary(log, EndFrom(log, offset[p]))
    BY <1>1, <1>5, <2>3, EndIsBoundary, LenProperties
  <2> QED
    BY <2>2, <2>3
<1>7. ASSUME fooled' = {}
      PROVE  Handed(log, EndFrom(log, offset[p]), Over \cup LinesFrom(log, offset[p]) \cup {})
  <2>1. Boundary(log, offset[p]) /\ Handed(log, offset[p], Over)
    BY <1>4, <1>5, <1>7, StartIsHanded DEF IInv, HandedBefore, HandsOver
  <2>2. Handed(log, EndFrom(log, offset[p]), Over \cup LinesFrom(log, offset[p]))
    BY <1>1, <2>1, ReadHandsOver
  <2> QED
    BY <2>2
<1>8. Answer(p, LinesFrom(log, offset[p]), EndFrom(log, offset[p]), {})
  OBVIOUS
<1> HIDE DEF Read
<1> QED
  BY <1>2, <1>3, <1>4, <1>6, <1>7, <1>8, AnswerStep

\* Starting from now passes over all there is.
LEMMA ResyncStep == ASSUME IInv, NEW p \in Pollers, Resync(p) PROVE IInv'
<1> USE DEF Resync
<1>1. log \in Seq(0..MaxLines) /\ gen' = gen /\ PassedOver(p) = LinesFrom(log, 0)
  BY DEF IInv, TypeOK, PollsInOrder, InOrder, Answer, tool, PassedOver
<1>2. PassedOver(p) \in SUBSET ScanSourceChange
  BY <1>1, LinesType
<1>3. EndFrom(log, 0) \in Nat
  BY <1>1, EndOf, LenProperties
<1>4. fooled' = fooled /\ fooled' \subseteq {"aliased", "raced"} /\ RotationFools'
  BY <1>1 DEF IInv, TypeOK, RotationFools
<1>5. /\ Boundary(log, EndFrom(log, 0))
      /\ Handed(log, EndFrom(log, 0), Over \cup LinesFrom(log, 0))
  BY <1>1, ReadHandsOver, StartIsHanded
<1>6. Over \cup {} \cup PassedOver(p) = Over \cup LinesFrom(log, 0)
  BY <1>1
<1>7. Handed(log, EndFrom(log, 0), Over \cup {} \cup PassedOver(p))
  BY <1>5, <1>6
<1> QED
  BY <1>2, <1>3, <1>4, <1>5, <1>7, AnswerStep

-----------------------------------------------------------------------------
(* The theorems *)

LEMMA StutterStep == ASSUME IInv, UNCHANGED vars PROVE IInv'
<1> USE DEF vars
<1>1. TypeOK' /\ LineBound' /\ LogIsWhole'
  BY DEF IInv, TypeOK, LineBound, LogIsWhole
<1>2. PollsInOrder' /\ RotationFools'
  BY DEF IInv, PollsInOrder, InOrder, RotationFools
<1>3. AtLineEnds'
  BY DEF IInv, AtLineEnds, MarkerEndsLine, EndsLine
<1>4. HandedBefore'
  BY DEF IInv, HandedBefore, MarkerHandsOver, HandsOver, Over
<1> QED
  BY <1>1, <1>2, <1>3, <1>4 DEF IInv

LEMMA NextIInv == IInv /\ [Next]_vars => IInv'
<1> SUFFICES ASSUME IInv, [Next]_vars PROVE IInv'
  OBVIOUS
<1>1. CASE WriteByte
  BY <1>1, WriteByteStep
<1>2. CASE WriteNewline
  BY <1>2, WriteNewlineStep
<1>3. CASE Rotate
  BY <1>3, RotateStep
<1>4. ASSUME NEW p \in Pollers, Poll(p) PROVE IInv'
  BY <1>4, PollSent
<1>5. ASSUME NEW p \in Pollers, Serve(p) PROVE IInv'
  <2>1. CASE StatMissing(p)
    BY <2>1, StatMissingStep
  <2>2. CASE Stat(p)
    BY <2>2, StatStep
  <2>3. CASE CheckNewline(p)
    BY <2>3, CheckNewlineStep
  <2>4. CASE Read(p)
    BY <2>4, ReadStep
  <2>5. CASE Resync(p)
    BY <2>5, ResyncStep
  <2>6. CASE OpenFails(p)
    BY <2>6, FailStep DEF OpenFails
  <2> QED
    BY <1>5, <2>1, <2>2, <2>3, <2>4, <2>5, <2>6 DEF Serve
<1>6. ASSUME NEW p \in Pollers, Accept(p) PROVE IInv'
  BY <1>6, AcceptStep
<1>7. ASSUME NEW p \in Pollers, Discard(p) PROVE IInv'
  BY <1>7, FailStep DEF Discard
<1>8. CASE UNCHANGED vars
  BY <1>8, StutterStep
<1> QED
  BY <1>1, <1>2, <1>3, <1>4, <1>5, <1>6, <1>7, <1>8 DEF Next

THEOREM Inductive == Spec => []IInv
<1>1. Init => IInv
  BY InitIInv
<1>2. IInv /\ [Next]_vars => IInv'
  BY NextIInv
<1> QED
  BY <1>1, <1>2, PTL DEF Spec

\* Type correctness: markers, answers and lines are what they are declared.
THEOREM TypeCorrect == Spec => []TypeOK
<1>1. IInv => TypeOK
  BY DEF IInv
<1> QED
  BY <1>1, Inductive, PTL

\* A poll that was not rotated under its reading hands over whole lines only, and
\* its marker ends a line, even in a log mistaken for the marker's own.
THEOREM WholeLines == Spec => []WholeUnlessRaced
<1>1. IInv => WholeUnlessRaced
  BY DEF IInv, AtLineEnds, MarkerEndsLine, Boundary,
         WholeUnlessRaced, OnlyWholeLines, MarkerAtLineEnd, MarkerIsCurrent
<1> QED
  BY <1>1, Inductive, PTL

LEMMA HandedIsNotLost == IInv => SafeUnlessFooled
  BY DEF IInv, HandedBefore, MarkerHandsOver, Handed, Over,
         SafeUnlessFooled, NothingLost, MarkerIsCurrent

\* Unless a rotation fooled a poll, nothing before the host's marker is lost.
THEOREM NothingLostUnlessFooled == Spec => []SafeUnlessFooled
  BY HandedIsNotLost, Inductive, PTL

\* A log that is only appended to is read completely and in whole lines.
THEOREM AppendOnly == Spec => []AppendOnlyIsSafe
<1>1. IInv => AppendOnlyIsSafe
  BY HandedIsNotLost
     DEF IInv, RotationFools, AtLineEnds, MarkerEndsLine, Boundary, AppendOnlyIsSafe,
         SafeUnlessFooled, OnlyWholeLines, MarkerAtLineEnd, MarkerIsCurrent
<1> QED
  BY <1>1, Inductive, PTL
=============================================================================
