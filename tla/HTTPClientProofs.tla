--------------------------- MODULE HTTPClientProofs ---------------------------
(* Proofs about HTTPClient: for every size of the limits and every body, what  *)
(* a success, a "too large" and a kept connection say of the response.        *)
EXTENDS HTTPClient, TLAPS

-----------------------------------------------------------------------------
(* Values *)

LEMMA BodyType ==
  ASSUME NEW b \in Bodies
  PROVE  Len(b) \in Nat /\ b \in [1..Len(b) -> Bytes]
<1>1. PICK m \in 0..MaxBody : b \in [1..m -> Bytes]
  BY DEF Bodies
<1>2. b \in Seq(Bytes) /\ Len(b) = m
  BY <1>1, LimitsAssumption
<1> QED BY <1>1, <1>2

(* A value that ends by itself is the first value of the whole body.           *)
LEMMA ValueStays ==
  ASSUME NEW b, NEW l \in Nat, NEW m \in 0..l, NEW v \in Values(b, m, FALSE)
  PROVE  v \in Values(b, l, TRUE)
  BY DEF Values

(* Neither a value nor an error of syntax goes away as more is read.            *)
LEMMA EndStays ==
  ASSUME NEW b, NEW l \in Nat, NEW m \in 0..l, Partial(b, l)
  PROVE  ~Malformed(b, m) /\ Values(b, m, FALSE) = {}
<1>1. ~Malformed(b, m)
  <2>1. SUFFICES ASSUME Malformed(b, m) PROVE Malformed(b, l)
    BY DEF Partial
  <2>2. PICK i \in 1..m :
          /\ Starts(b, i)
          /\ \/ b[i] = "}"
             \/ b[i] = "{" /\ \E k \in (i + 1)..m :
                              b[k] = "{" /\ \A j \in (i + 1)..k : b[j] # "}"
    BY <2>1 DEF Malformed
  <2>3. i \in 1..l /\ (i + 1)..m \subseteq (i + 1)..l
    OBVIOUS
  <2> QED BY <2>2, <2>3 DEF Malformed
<1>2. Values(b, m, FALSE) = {}
  <2>1. \A v \in Values(b, m, FALSE) : v \in Values(b, l, TRUE)
    BY ValueStays
  <2> QED BY <2>1 DEF Partial
<1> QED BY <1>1, <1>2

(* A value that only the end of the input ends is a number up to that end.      *)
LEMMA EndedIsNumber ==
  ASSUME NEW b, NEW m \in Nat, Values(b, m, FALSE) = {}
  PROVE  \A v \in Values(b, m, TRUE) : Number(b, v[1], v[2]) /\ v[2] = m
<1> SUFFICES ASSUME NEW v \in Values(b, m, TRUE)
             PROVE  Number(b, v[1], v[2]) /\ v[2] = m
  OBVIOUS
<1>1. v \notin Values(b, m, FALSE)
  OBVIOUS
<1> QED BY <1>1 DEF Values

-----------------------------------------------------------------------------
(* The inductive invariant: where the bytes read have gone, and what the end    *)
(* of the decoding knew.                                                     *)

Counters ==
  /\ TypeOK
  /\ left \in 0..MaxOtherBody
  /\ pos = (MaxResponseBody - n) + (MaxOtherBody - left)
  /\ pos <= Len(resp.body)
  /\ resp \in Responses

Phases ==
  /\ phase \in {"idle", "asked"} =>
       resp = NoResponse /\ n = MaxResponseBody /\ left = MaxOtherBody /\ lost = "no"
  /\ phase \in {"idle", "asked", "decoding"} => err = "none" /\ value = None
  /\ phase = "decoding" => Decodes /\ left = MaxOtherBody
  /\ phase # "done" => result = "none"
  /\ ~Decodes => n = MaxResponseBody

\* A value that ends nowhere in the first MaxResponseBody bytes.
TooLong == Len(resp.body) >= MaxResponseBody /\ Partial(resp.body, MaxResponseBody)

\* What the decoder has read.
Taken == MaxResponseBody - n

Knows ==
  /\ phase \in {"reading", "done"} /\ err = "none" /\ Decodes =>
       \/ value # None /\ value \in Values(resp.body, Len(resp.body), TRUE)
       \/ /\ CutShort /\ value # None
          /\ Number(resp.body, value[1], value[2]) /\ value[2] = Taken
  /\ err = "EOF" =>
       /\ value = None
       /\ \/ Blank(resp.body, 1, Len(resp.body))
          \/ CutShort /\ Blank(resp.body, 1, Taken)
  /\ err = "ErrUnexpectedEOF" /\ n = 0 => TooLong
  /\ phase \in {"reading", "done"} /\ Decodes /\ TooLong /\ (n = 0 \/ lost = "no") =>
       err = "ErrUnexpectedEOF" /\ n = 0

Returned ==
  /\ phase = "done" /\ Decodes => result \notin Faults \cup {"request failed"}
  /\ phase = "done" /\ result \notin Faults \cup {"request failed"} =>
       /\ result = "too large" => TooLarge
       /\ Decodes /\ TooLarge => result = "too large"
       /\ Decodes /\ result = "ok" => NoError
       /\ ShortRestKeepsConnection

IInv == Counters /\ Phases /\ Knows /\ Returned

LEMMA InitInv == Init => IInv
<1> SUFFICES ASSUME Init PROVE IInv
  OBVIOUS
<1>1. <<>> \in Bodies
  <2>1. <<>> \in [1..0 -> Bytes]
    OBVIOUS
  <2> QED BY <2>1, LimitsAssumption DEF Bodies
<1>2. resp \in Responses /\ Len(resp.body) = 0
  BY <1>1 DEF Init, NoResponse, Responses
<1>3. MaxResponseBody \in Nat \ {0} /\ MaxOtherBody \in Nat \ {0}
  BY LimitsAssumption
<1>4. Counters
  <2>1. n \in 0..MaxResponseBody /\ left \in 0..MaxOtherBody
    BY <1>3 DEF Init
  <2>4. result \in Faults
    BY DEF Init, Faults
  <2>2. TypeOK
    BY <2>1, <2>4, Zenon DEF Init, TypeOK
  <2>3. pos = (MaxResponseBody - n) + (MaxOtherBody - left) /\ pos <= Len(resp.body)
    BY <1>2, <1>3 DEF Init
  <2> QED BY <1>2, <2>1, <2>2, <2>3 DEF Counters
<1>5. Phases
  BY DEF Init, Phases
<1>6. Knows /\ Returned
  BY DEF Init, Knows, Returned
<1> QED BY <1>4, <1>5, <1>6 DEF IInv

LEMMA Ranges ==
  ASSUME Counters
  PROVE  /\ MaxResponseBody \in Nat \ {0} /\ MaxOtherBody \in Nat \ {0}
         /\ n \in 0..MaxResponseBody /\ left \in 0..MaxOtherBody
         /\ pos = (MaxResponseBody - n) + (MaxOtherBody - left)
         /\ resp \in Responses /\ Len(resp.body) \in Nat /\ pos <= Len(resp.body)
  BY LimitsAssumption, BodyType DEF Counters, TypeOK, Responses

LEMMA ValueType ==
  ASSUME Counters, phase = "decoding", left = MaxOtherBody,
         NEW ended \in BOOLEAN, NEW v \in Values(resp.body, pos, ended)
  PROVE  /\ v \in (1..MaxResponseBody) \X (1..MaxResponseBody)
         /\ v # None
<1>1. pos \in Nat /\ pos <= MaxResponseBody
  BY Ranges
<1>2. v \in (1..pos) \X (1..pos)
  BY DEF Values
<1>3. v \in (1..MaxResponseBody) \X (1..MaxResponseBody)
  BY <1>1, <1>2, Ranges
<1>4. v[1] >= 1 /\ None[1] = 0
  BY <1>2 DEF None
<1>5. v # None
  BY <1>4
<1> QED BY <1>3, <1>5

(* What Decode leaves: no counter moves, and the error says how it ended.      *)
LEMMA DecodeStep ==
  ASSUME Counters, Phases, Decode
  PROVE  /\ phase = "decoding" /\ phase' = "reading"
         /\ UNCHANGED <<req, resp, pos, n, left, lost, result, pooled>>
         /\ err' \in {"none", "EOF", "ErrUnexpectedEOF", "syntax", "type", "read"}
         /\ value' \in {None} \cup (1..MaxResponseBody) \X (1..MaxResponseBody)
         /\ err' # "none" => value' = None
         /\ err' = "none" =>
              \/ value' # None /\ value' \in Values(resp.body, pos, FALSE)
              \/ /\ AsksMore /\ SeesEOF
                 /\ value' # None /\ value' \in Values(resp.body, pos, TRUE)
         /\ err' = "EOF" => SeesEOF /\ Blank(resp.body, 1, pos)
         /\ err' = "ErrUnexpectedEOF" =>
              \/ SeesEOF /\ Partial(resp.body, pos)
              \/ n > 0 /\ lost = "lost"
         /\ (n = 0 \/ lost = "no") /\ err' # "ErrUnexpectedEOF" =>
              \/ Malformed(resp.body, pos)
              \/ Values(resp.body, pos, FALSE) # {}
              \/ SeesEOF /\ ~Partial(resp.body, pos)
<1>0. phase = "decoding" /\ left = MaxOtherBody
  BY DEF Decode, AsksMore, Phases
<1>1. CASE Malformed(resp.body, pos) /\ Decoded("syntax", None)
  BY <1>0, <1>1 DEF Decoded
<1>2. ASSUME NEW ended \in BOOLEAN, DecodedValue(ended)
      PROVE  /\ phase' = "reading"
             /\ UNCHANGED <<req, resp, pos, n, left, lost, result, pooled>>
             /\ \/ err' = "type" /\ value' = None
                \/ /\ err' = "none" /\ value' # None /\ value' \in Values(resp.body, pos, ended)
                   /\ value' \in (1..MaxResponseBody) \X (1..MaxResponseBody)
  BY <1>0, <1>2, ValueType DEF DecodedValue, Decoded
<1>3. CASE DecodedValue(FALSE)
  <2>1. Values(resp.body, pos, FALSE) # {}
    BY <1>3 DEF DecodedValue
  <2> QED BY <1>0, <1>2, <1>3, <2>1
<1>4. CASE AsksMore /\ SeesEOF /\ DecodedValue(TRUE)
  <2>1. ~Partial(resp.body, pos)
    BY <1>4 DEF DecodedValue, Partial
  <2> QED BY <1>0, <1>2, <1>4, <2>1
<1>5. CASE SeesEOF /\ Blank(resp.body, 1, pos) /\ Decoded("EOF", None)
  BY <1>0, <1>5 DEF Decoded, Partial
<1>6. CASE SeesEOF /\ Partial(resp.body, pos) /\ Decoded("ErrUnexpectedEOF", None)
  BY <1>0, <1>6 DEF Decoded
<1>7. CASE ~SeesEOF /\ lost = "lost" /\ Decoded("ErrUnexpectedEOF", None)
  <2>1. n > 0
    BY <1>7, Ranges DEF SeesEOF, CutShort
  <2> QED BY <1>0, <1>7, <2>1 DEF Decoded
<1>8. CASE ReadError /\ Decoded("read", None)
  <2>1. ~(n = 0 \/ lost = "no")
    BY <1>8 DEF ReadError
  <2> QED BY <1>0, <1>8, <2>1 DEF Decoded
<1> QED BY <1>1, <1>3, <1>4, <1>5, <1>6, <1>7, <1>8 DEF Decode

LEMMA CountersInv == ASSUME Counters, Phases, [Next]_vars PROVE Counters'
<1>0. /\ MaxResponseBody \in Nat \ {0} /\ MaxOtherBody \in Nat \ {0}
      /\ n \in 0..MaxResponseBody /\ left \in 0..MaxOtherBody
      /\ pos = (MaxResponseBody - n) + (MaxOtherBody - left)
      /\ resp \in Responses /\ Len(resp.body) \in Nat /\ pos <= Len(resp.body)
  BY Ranges
<1> USE DEF Counters
<1>1. CASE UNCHANGED vars
  <2>1. UNCHANGED <<req, resp, phase, pos, n, left, lost, err, value, result, pooled>>
    BY <1>1 DEF vars
  <2>2. TypeOK'
    BY <2>1, Zenon DEF TypeOK
  <2> QED BY <1>0, <2>1, <2>2
<1>2. CASE DoJSON \/ RequestFails
  <2>1. /\ req' \in Requests \cup {NoRequest} /\ phase' \in {"asked", "done"}
        /\ result' \in Faults \cup {"request failed"}
        /\ UNCHANGED <<resp, pos, n, left, lost, err, value, pooled>>
    BY <1>2 DEF DoJSON, RequestFails, TypeOK, Requests
  <2>2. TypeOK'
    <3>1. TypeOK /\ phase' \in {"idle", "asked", "decoding", "reading", "done"}
      BY <2>1
    <3>2. result' \in Faults \cup {"request failed", "StatusError", "ok", "too large",
                                  "decode response"}
      BY <2>1
    <3> QED BY <2>1, <3>1, <3>2, Zenon DEF TypeOK
  <2> QED BY <1>0, <2>1, <2>2
<1>3. CASE Responds
  <2>1. pos = 0 /\ resp' \in Responses /\ Len(resp'.body) \in Nat
    BY <1>0, <1>3, BodyType DEF Responds, Phases, Responses
  <2>2. phase' \in {"decoding", "reading"}
    BY <1>3 DEF Responds
  <2>3. TypeOK'
    BY <1>0, <1>3, <2>1, <2>2, Zenon DEF Responds, TypeOK
  <2> QED BY <1>0, <1>3, <2>1, <2>3 DEF Responds
<1>4. CASE Decode
  BY <1>4, DecodeStep DEF TypeOK
<1>5. ASSUME NEW k \in 1..MaxBody, Refill(k) PROVE Counters'
  <2>1. n' = n - k /\ k <= n /\ pos' = pos + k /\ pos' <= Len(resp.body)
    BY <1>5 DEF Refill, Limited, Arrive
  <2>2. n' \in 0..MaxResponseBody /\ pos' = (MaxResponseBody - n') + (MaxOtherBody - left)
    BY <1>0, <2>1, LimitsAssumption
  <2>3. TypeOK'
    BY <1>5, <2>2, Zenon DEF Refill, TypeOK
  <2> QED BY <1>0, <1>5, <2>1, <2>2, <2>3 DEF Refill
<1>6. ASSUME NEW k \in 1..MaxBody, ReadRest(k) PROVE Counters'
  <2>1. left' = left - k /\ k <= left /\ pos' = pos + k /\ pos' <= Len(resp.body)
    BY <1>6 DEF ReadRest, RestLimited, Arrive
  <2>2. left' \in 0..MaxOtherBody /\ pos' = (MaxResponseBody - n) + (MaxOtherBody - left')
    BY <1>0, <2>1, LimitsAssumption
  <2>3. TypeOK'
    BY <1>6, Zenon DEF ReadRest, TypeOK
  <2> QED BY <1>0, <1>6, <2>1, <2>2, <2>3 DEF ReadRest
<1>7. CASE Returns
  BY <1>7 DEF Returns, Return, Pooled, TypeOK
<1>8. ASSUME NEW how \in {"lost", "timeout"}, Lost(how) PROVE Counters'
  BY <1>8 DEF Lost, TypeOK
<1> QED
  BY <1>1, <1>2, <1>3, <1>4, <1>5, <1>6, <1>7, <1>8 DEF Next, TimeIsUp, Stopped

LEMMA ReturnStep ==
  ASSUME Returns
  PROVE  /\ phase = "reading" /\ phase' = "done" /\ pooled' \in Pooled
         /\ UNCHANGED <<req, resp, pos, n, left, lost, err, value>>
         /\ result' = "too large" => TooLarge
         /\ Decodes /\ TooLarge => result' = "too large"
         /\ Decodes /\ result' = "ok" => NoError
         /\ result' \notin Faults \cup {"request failed"}
         /\ left <= 0 \/ pos = Len(resp.body) \/ lost # "no"
<1>1. PICK r \in {"StatusError", "ok", "too large", "decode response"} :
        /\ Return(r)
        /\ r = "too large" => TooLarge
        /\ Decodes /\ TooLarge => r = "too large"
        /\ Decodes /\ r = "ok" => NoError
  BY DEF Returns, Decodes
<1>2. phase = "reading" /\ (left <= 0 \/ pos = Len(resp.body) \/ lost # "no")
  BY DEF Returns, Drains
<1> QED BY <1>1, <1>2 DEF Return, Faults

LEMMA PhasesInv == ASSUME Counters, Phases, [Next]_vars PROVE Phases'
<1> USE DEF Phases
<1>1. CASE UNCHANGED vars
  BY <1>1 DEF vars, Decodes, Ok
<1>2. CASE DoJSON \/ RequestFails
  BY <1>2 DEF DoJSON, RequestFails, Requests, Decodes, Ok
<1>3. CASE Responds
  BY <1>3 DEF Responds
<1>4. CASE Decode
  BY <1>4, DecodeStep DEF Decodes, Ok
<1>5. ASSUME NEW k \in 1..MaxBody, Refill(k) PROVE Phases'
  BY <1>5 DEF Refill, AsksMore, Decodes, Ok
<1>6. ASSUME NEW k \in 1..MaxBody, ReadRest(k) PROVE Phases'
  BY <1>6 DEF ReadRest, Decodes, Ok
<1>7. CASE Returns
  BY <1>7, ReturnStep DEF Decodes, Ok
<1>8. ASSUME NEW how \in {"lost", "timeout"}, Lost(how) PROVE Phases'
  BY <1>8 DEF Lost, Decodes, Ok
<1> QED
  BY <1>1, <1>2, <1>3, <1>4, <1>5, <1>6, <1>7, <1>8 DEF Next, TimeIsUp, Stopped

(* What the decoder knew when it stopped stays true while the rest is read.     *)
LEMMA KnowsInv == ASSUME IInv, [Next]_vars PROVE Knows'
<1>0. Counters /\ Phases /\ Knows
  BY DEF IInv
<1> USE DEF Knows
<1>1. CASE UNCHANGED vars
  <2>1. UNCHANGED <<req, resp, phase, n, lost, err, value>>
    BY <1>1 DEF vars
  <2>2. (CutShort <=> CutShort') /\ (TooLong <=> TooLong') /\ Taken = Taken'
    BY <2>1 DEF CutShort, TooLong, Taken
  <2>3. Decodes <=> Decodes'
    BY <2>1 DEF Decodes, Ok
  <2> QED BY <1>0, <2>1, <2>2, <2>3
<1>2. CASE DoJSON \/ RequestFails \/ Responds
  <2>1. ~Decodes' \/ phase' = "decoding"
    <3>1. CASE DoJSON \/ RequestFails
      <4>1. resp' = NoResponse
        BY <1>0, <3>1 DEF DoJSON, RequestFails, Phases
      <4> QED BY <4>1 DEF NoResponse, Decodes, Ok
    <3>2. CASE Responds
      BY <3>2 DEF Responds
    <3> QED BY <1>2, <3>1, <3>2
  <2>2. err' = "none"
    BY <1>0, <1>2 DEF DoJSON, RequestFails, Responds, Phases
  <2> QED BY <2>1, <2>2
<1>4. CASE Decode
  <2>0. /\ phase = "decoding" /\ UNCHANGED <<req, resp, pos, n, left, lost>>
        /\ Decodes /\ left = MaxOtherBody /\ pos = MaxResponseBody - n
    <3>1. phase = "decoding" /\ UNCHANGED <<req, resp, pos, n, left, lost>>
      BY <1>0, <1>4, DecodeStep
    <3>2. Decodes /\ left = MaxOtherBody
      BY <1>0, <3>1 DEF Phases
    <3> QED BY <1>0, <3>1, <3>2, Ranges
  <2>1. /\ SeesEOF => CutShort \/ pos = Len(resp.body)
        /\ pos = Taken /\ pos \in Nat /\ pos \in 0..MaxResponseBody /\ pos \in 0..Len(resp.body)
        /\ MaxResponseBody \in Nat /\ Len(resp.body) \in Nat /\ n >= 0
    BY <1>0, <2>0, Ranges DEF SeesEOF, Taken
  <2>2. (CutShort <=> CutShort') /\ (TooLong <=> TooLong') /\ Taken = Taken'
    BY <2>0 DEF CutShort, TooLong, Taken
  <2>3. ASSUME err' = "none"
        PROVE  /\ value' # None
               /\ \/ value' \in Values(resp.body, Len(resp.body), TRUE)
                  \/ /\ CutShort
                     /\ Number(resp.body, value'[1], value'[2]) /\ value'[2] = Taken
    <3>1. CASE value' \in Values(resp.body, pos, FALSE)
      <4>2. value' \in Values(resp.body, Len(resp.body), TRUE)
        BY <2>1, <3>1, ValueStays
      <4>3. value' # None
        BY <1>0, <1>4, <2>3, DecodeStep
      <4> QED BY <4>2, <4>3, Zenon
    <3>2. CASE AsksMore /\ SeesEOF /\ value' \in Values(resp.body, pos, TRUE)
      <4>0. Values(resp.body, pos, FALSE) = {}
        BY <3>2 DEF AsksMore
      <4>1. Number(resp.body, value'[1], value'[2]) /\ value'[2] = pos
        BY <2>1, <3>2, <4>0, EndedIsNumber
      <4>2. value' # None
        BY <1>0, <1>4, <2>3, DecodeStep
      <4> QED BY <2>1, <3>2, <4>1, <4>2
    <3> QED BY <1>0, <1>4, <2>3, <3>1, <3>2, DecodeStep
  <2>4. ASSUME err' = "EOF"
        PROVE  /\ value' = None
               /\ \/ Blank(resp.body, 1, Len(resp.body))
                  \/ CutShort /\ Blank(resp.body, 1, Taken)
    <3>1. err' # "none" /\ SeesEOF /\ Blank(resp.body, 1, pos) /\ value' = None
      BY <1>0, <1>4, <2>4, DecodeStep
    <3> QED BY <2>1, <3>1
  <2>5. ASSUME err' = "ErrUnexpectedEOF", n = 0
        PROVE  TooLong
    <3>1. Partial(resp.body, pos)
      BY <1>0, <1>4, <2>5, DecodeStep
    <3>2. pos = MaxResponseBody /\ pos <= Len(resp.body)
      BY <1>0, <2>0, <2>5, Ranges
    <3> QED BY <3>1, <3>2 DEF TooLong
  <2>6. ASSUME TooLong, n = 0 \/ lost = "no"
        PROVE  err' = "ErrUnexpectedEOF" /\ n = 0
    <3>1. Partial(resp.body, MaxResponseBody) /\ Len(resp.body) >= MaxResponseBody
      BY <2>6 DEF TooLong
    <3>2. ~Malformed(resp.body, pos) /\ Values(resp.body, pos, FALSE) = {}
      BY <2>1, <3>1, EndStays
    <3>3. SeesEOF => pos = MaxResponseBody
      BY <1>0, <2>0, <2>1, <2>6, <3>1, Ranges DEF SeesEOF, CutShort
    <3>4. ~(SeesEOF /\ ~Partial(resp.body, pos))
      BY <3>1, <3>3
    <3>5. err' = "ErrUnexpectedEOF"
      BY <1>0, <1>4, <2>6, <3>2, <3>4, DecodeStep
    <3>6. SeesEOF
      BY <1>0, <1>4, <2>6, <3>5, DecodeStep
    <3> QED BY <1>0, <2>0, <3>3, <3>5, <3>6, Ranges
  <2> QED BY <2>0, <2>2, <2>3, <2>4, <2>5, <2>6
<1>5. ASSUME NEW k \in 1..MaxBody, Refill(k) PROVE Knows'
  BY <1>0, <1>5 DEF Refill, AsksMore, Phases
<1>6. ASSUME NEW k \in 1..MaxBody, ReadRest(k) PROVE Knows'
  BY <1>0, <1>6 DEF ReadRest, Decodes, Ok, CutShort, TooLong, Taken
<1>7. CASE Returns
  <2>1. phase = "reading" /\ phase' = "done" /\ UNCHANGED <<req, resp, n, lost, err, value>>
    BY <1>7, ReturnStep
  <2>2. (CutShort <=> CutShort') /\ (TooLong <=> TooLong') /\ Taken = Taken'
    BY <2>1 DEF CutShort, TooLong, Taken
  <2>3. Decodes <=> Decodes'
    BY <2>1 DEF Decodes, Ok
  <2> QED BY <1>0, <2>1, <2>2, <2>3
<1>8. ASSUME NEW how \in {"lost", "timeout"}, Lost(how) PROVE Knows'
  BY <1>0, <1>8 DEF Lost, Decodes, Ok, CutShort, TooLong, Taken
<1> QED
  BY <1>1, <1>2, <1>4, <1>5, <1>6, <1>7, <1>8 DEF Next, TimeIsUp, Stopped

(* A rest shorter than the limit leaves some of it, so that the end of the       *)
(* body was met.                                                             *)
LEMMA ReturnedInv == ASSUME IInv, [Next]_vars PROVE Returned'
<1>0. Counters /\ Phases /\ Returned
  BY DEF IInv
<1>1. CASE UNCHANGED vars
  BY <1>0, <1>1 DEF vars, Returned, TooLarge, NoError, Decodes, Ok, ShortRestKeepsConnection
<1>2. CASE DoJSON \/ RequestFails
  <2>1. phase' = "done" => result' \in Faults \cup {"request failed"}
    BY <1>2 DEF DoJSON, RequestFails, Requests
  <2>2. resp' = NoResponse
    BY <1>0, <1>2 DEF DoJSON, RequestFails, Phases
  <2>3. ~Decodes'
    BY <2>2 DEF NoResponse, Decodes, Ok
  <2> QED BY <2>1, <2>3, Zenon DEF Returned
<1>3. CASE Responds \/ Decode
  <2>1. phase' # "done"
    BY <1>0, <1>3, DecodeStep DEF Responds
  <2> QED BY <2>1 DEF Returned
<1>4. ASSUME NEW k \in 1..MaxBody, Refill(k) \/ ReadRest(k) PROVE Returned'
  BY <1>4 DEF Refill, AsksMore, ReadRest, Returned
<1>5. CASE Returns
  <2>1. ShortRestKeepsConnection'
    <3>1. SUFFICES ASSUME resp.framed, lost = "no",
                          Len(resp.body) - (MaxResponseBody - n) < MaxOtherBody
                   PROVE  pooled'
      BY <1>5, ReturnStep DEF ShortRestKeepsConnection
    <3>2. left > 0
      BY <1>0, <3>1, Ranges
    <3>3. pos = Len(resp.body)
      <4>1. ~(left <= 0)
        BY <1>0, <3>2, Ranges
      <4> QED BY <1>5, <3>1, <4>1, ReturnStep
    <3>4. left # 0 /\ ~(pos < Len(resp.body))
      BY <1>0, <3>2, <3>3, Ranges
    <3>5. Pooled = {TRUE}
      BY <3>1, <3>4 DEF Pooled
    <3> QED BY <1>5, <3>5, ReturnStep
  <2>2. /\ TooLarge <=> TooLarge'
        /\ NoError <=> NoError'
        /\ Decodes <=> Decodes'
    BY <1>5, ReturnStep DEF TooLarge, NoError, Decodes, Ok
  <2> QED BY <1>5, <2>1, <2>2, ReturnStep DEF Returned
<1>6. ASSUME NEW how \in {"lost", "timeout"}, Lost(how) PROVE Returned'
  BY <1>6 DEF Lost, Returned
<1> QED
  BY <1>1, <1>2, <1>3, <1>4, <1>5, <1>6 DEF Next, TimeIsUp, Stopped

-----------------------------------------------------------------------------
(* Theorems *)

LEMMA Inductive == Spec => []IInv
<1>1. IInv /\ [Next]_vars => IInv'
  BY CountersInv, PhasesInv, KnowsInv, ReturnedInv DEF IInv
<1> QED BY InitInv, <1>1, PTL DEF Spec

(* Type correctness: the phases, results and counters stay in their ranges.    *)
THEOREM TypeCorrect == Spec => []TypeOK
<1>1. IInv => TypeOK
  BY DEF IInv, Counters
<1> QED BY Inductive, <1>1, PTL

(* Whatever the server sends, the decoder stays within its limit, and DoJSON    *)
(* within the two limits together.                                           *)
THEOREM ReadsWithinLimits == Spec => []ReadsBounded
<1>1. IInv => ReadsBounded
  <2> SUFFICES ASSUME IInv PROVE ReadsBounded
    OBVIOUS
  <2>1. Counters /\ (~Decodes => n = MaxResponseBody)
    BY DEF IInv, Phases
  <2> QED BY <2>1, Ranges DEF ReadsBounded, Counters
<1> QED BY Inductive, <1>1, PTL

(* A value that DoJSON hands out is whole, for every body and every limit; only  *)
(* blanks and a number can end where the cap or a lost connection ends them, and *)
(* a body cut inside an object is no success.                                 *)
THEOREM WholeValues == Spec => []SuccessIsWhole
<1>1. IInv => SuccessIsWhole
  <2> SUFFICES ASSUME IInv, phase = "done", Decodes, result = "ok" PROVE SuccessIsWhole
    BY DEF SuccessIsWhole
  <2>1. err \in {"none", "EOF"}
    BY DEF IInv, Returned, NoError, Faults
  <2> QED BY <2>1 DEF IInv, Knows, Taken, SuccessIsWhole
<1> QED BY Inductive, <1>1, PTL

(* No value that fits the cap is refused as too large, and each that goes on     *)
(* past it is.                                                               *)
THEOREM TooLargeTrue == Spec => []TooLargeIsLarge
<1>1. IInv => TooLargeIsLarge
  <2> SUFFICES ASSUME IInv PROVE TooLargeIsLarge
    OBVIOUS
  <2>1. result = "too large" => TooLong
    BY DEF IInv, Returned, Phases, Knows, TooLarge, Faults
  <2>2. ASSUME phase = "done", Decodes, TooLong, n = 0 \/ lost = "no"
        PROVE  result = "too large"
    <3>1. TooLarge
      BY <2>2 DEF IInv, Knows, TooLarge
    <3>2. result \notin Faults \cup {"request failed"}
      BY <2>2 DEF IInv, Returned
    <3> QED BY <2>2, <3>1, <3>2 DEF IInv, Returned
  <2> QED BY <2>1, <2>2 DEF TooLong, TooLargeIsLarge
<1> QED BY Inductive, <1>1, PTL

(* A connection is kept whenever the rest of its response is short, on every    *)
(* path of the decoding.                                                     *)
THEOREM ConnectionsKept == Spec => []ShortRestKeepsConnection
<1>1. IInv => ShortRestKeepsConnection
  BY DEF IInv, Returned, ShortRestKeepsConnection
<1> QED BY Inductive, <1>1, PTL
=============================================================================
