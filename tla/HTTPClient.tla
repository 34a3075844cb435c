------------------------------ MODULE HTTPClient ------------------------------
(***************************************************************************)
(* DoJSON of pkg/pluginsdk/httpclient: one call of the outbound JSON client,  *)
(* byte by byte.  The bytes of a response are of four kinds: a blank, an       *)
(* opening and a closing brace, and "1", which makes a number of its own or     *)
(* the inside of an object.  net/http delivers them in pieces, may lose the    *)
(* connection, and pools a connection whose response was read to its end;      *)
(* encoding/json decodes the first value and stops there.                    *)
(***************************************************************************)
EXTENDS Integers, Sequences

CONSTANTS
  MaxResponseBody,  \* maxResponseBody
  MaxOtherBody,     \* maxOtherBody
  MaxBody           \* bound: the longest body a server sends

ASSUME LimitsAssumption == {MaxResponseBody, MaxOtherBody, MaxBody} \subseteq Nat \ {0}

VARIABLES
  req,    \* the call: what it fails with unsent, its http client and dest
  resp,   \* the server's response, and whether the length of its body is known
  phase,  \* "idle", "asked", "decoding", "reading" the rest, "done"
  pos,    \* bytes of the body read
  n,      \* limited.N, what the decoder may still read
  left,   \* what may be read besides
  lost,   \* what ended the connection: "no", "lost" or "timeout"
  err,    \* of the decoding
  value,  \* the bytes decoded into dest, None for the zero value
  result, \* what DoJSON returns
  pooled  \* the connection went back to the pool

vars == <<req, resp, phase, pos, n, left, lost, err, value, result, pooled>>

Bytes     == {" ", "1", "{", "}"}
Bodies    == UNION {[1..m -> Bytes] : m \in 0..MaxBody}
Dests     == {"nil", "number", "object"}
Faults    == {"none", "required", "encode request", "create request"}
Requests  == [fault : Faults, hc : {"nil", "given"}, dest : {"nil", "number", "object"}]
Responses == [status : {200, 204, 404}, body : Bodies, framed : BOOLEAN]
None      == <<0, 0>>

-----------------------------------------------------------------------------
(* encoding/json: the first value of the first m bytes of b.  Objects do not   *)
(* nest.                                                                     *)

Blank(b, i, j) == \A k \in i..j : b[k] = " "

\* The first byte that is no blank.
Starts(b, i) == b[i] # " " /\ Blank(b, 1, i - 1)

Object(b, i, j) ==
  i < j /\ b[i] = "{" /\ b[j] = "}" /\ \A k \in (i + 1)..(j - 1) : b[k] \in {"1", " "}
Number(b, i, j) == \A k \in i..j : b[k] = "1"

\* Where a value lies: an object ends by itself, a number by the byte after it,
\* or by the end of the input.
Values(b, m, ended) ==
  {v \in (1..m) \X (1..m) :
     /\ v[1] <= v[2] /\ Starts(b, v[1])
     /\ \/ Object(b, v[1], v[2])
        \/ Number(b, v[1], v[2]) /\ (IF v[2] = m THEN ended ELSE b[v[2] + 1] # "1")}

\* The bytes are no beginning of a value.
Malformed(b, m) ==
  \E i \in 1..m :
    /\ Starts(b, i)
    /\ \/ b[i] = "}"
       \/ b[i] = "{" /\ \E k \in (i + 1)..m : b[k] = "{" /\ \A j \in (i + 1)..k : b[j] # "}"

\* A value without an end.
Partial(b, m) == ~Blank(b, 1, m) /\ ~Malformed(b, m) /\ Values(b, m, TRUE) = {}

-----------------------------------------------------------------------------
(* The call *)

\* A New without the shared client and its two minutes.
NoDefaultTimeout == FALSE

\* New: without an http client the default one, whose time is limited.
HasTimeout == req.hc = "nil"

Ok == resp.status \in 200..299

\* A 2xx other than 204 is decoded, if there is a dest.
Decodes == Ok /\ resp.status # 204 /\ req.dest # "nil"

Fits(v) == req.dest = (IF resp.body[v[1]] = "{" THEN "object" ELSE "number")

NoRequest  == [fault |-> "none", hc |-> "nil", dest |-> "nil"]
NoResponse == [status |-> 404, body |-> <<>>, framed |-> TRUE]

Init ==
  /\ req = NoRequest /\ resp = NoResponse
  /\ phase = "idle" /\ pos = 0 /\ n = MaxResponseBody /\ left = MaxOtherBody /\ lost = "no"
  /\ err = "none" /\ value = None /\ result = "none" /\ pooled = FALSE

\* The base url and the key are checked, the request is made and sent.
DoJSON ==
  /\ phase = "idle"
  /\ req' \in Requests
  /\ result' = req'.fault
  /\ phase' = IF req'.fault = "none" THEN "asked" ELSE "done"
  /\ UNCHANGED <<resp, pos, n, left, lost, err, value, pooled>>

\* Do fails.
RequestFails ==
  /\ phase = "asked"
  /\ phase' = "done" /\ result' = "request failed"
  /\ UNCHANGED <<req, resp, pos, n, left, lost, err, value, pooled>>

\* The status decides what becomes of the body.
Responds ==
  /\ phase = "asked"
  /\ resp' \in Responses
  /\ UNCHANGED <<req, pos, n, left, lost, err, value, result, pooled>>
  /\ phase' = IF Decodes' THEN "decoding" ELSE "reading"

\* k bytes of the body arrive.
Arrive(k) ==
  /\ lost = "no" /\ pos + k <= Len(resp.body)
  /\ pos' = pos + k

\* The decoder asks for more until it has a value or an error.
AsksMore ==
  /\ phase = "decoding"
  /\ ~Malformed(resp.body, pos) /\ Values(resp.body, pos, FALSE) = {}

\* A decoder on the body itself.
NotLimited(k) == TRUE

\* io.LimitedReader.
Limited(k) == k <= n

Refill(k) ==
  /\ AsksMore /\ Limited(k)
  /\ Arrive(k)
  /\ n' = n - k
  /\ UNCHANGED <<req, resp, phase, left, lost, err, value, result, pooled>>

\* The decoder returns, and the rest of the body is read.
Decoded(e, v) ==
  /\ err' = e /\ value' = v
  /\ phase' = "reading"
  /\ UNCHANGED <<req, resp, pos, n, left, lost, result, pooled>>

\* A value, or what the type of dest makes of it.
DecodedValue(ended) ==
  \E v \in Values(resp.body, pos, ended) :
    IF Fits(v) THEN Decoded("none", v) ELSE Decoded("type", None)

\* The limit and the loss of a connection whose body has no known length look
\* like the end of the body.
CutShort == n = 0 \/ (lost = "lost" /\ ~resp.framed)
SeesEOF  == CutShort \/ pos = Len(resp.body)

\* Any other error of the connection, unless the body is known to be whole.
ReadError == n > 0 /\ lost # "no" /\ (resp.framed => pos < Len(resp.body))

Decode ==
  \/ phase = "decoding" /\ Malformed(resp.body, pos) /\ Decoded("syntax", None)
  \/ phase = "decoding" /\ ~Malformed(resp.body, pos) /\ DecodedValue(FALSE)
  \/ AsksMore /\ SeesEOF /\ DecodedValue(TRUE)
  \/ AsksMore /\ SeesEOF /\ Blank(resp.body, 1, pos) /\ Decoded("EOF", None)
  \/ AsksMore /\ SeesEOF /\ Partial(resp.body, pos) /\ Decoded("ErrUnexpectedEOF", None)
  \/ AsksMore /\ ~SeesEOF /\ lost = "lost" /\ Decoded("ErrUnexpectedEOF", None)
  \/ AsksMore /\ ReadError /\ Decoded("read", None)

\* The rest of a body, without a limit.
RestUnlimited(k) == TRUE

\* The limit of what is not decoded.
RestLimited(k) == k <= left

\* A drain of decoded bodies that forgets those with an error.
DrainsDecoded == err = "none"

\* An error body, a body nobody decodes, and the bytes after the value are read.
Drains == TRUE

ReadRest(k) ==
  /\ phase = "reading" /\ Drains /\ RestLimited(k)
  /\ Arrive(k)
  /\ left' = left - k
  /\ UNCHANGED <<req, resp, phase, n, lost, err, value, result, pooled>>

\* A cut that looks at the limit only.
TooLargeAnyError == n = 0 /\ err # "none"

\* The value was cut off at the cap.
TooLarge == n = 0 /\ err = "ErrUnexpectedEOF"

\* A test that takes a truncated body for an empty one.
NoErrorAnyEOF == err \in {"none", "EOF", "ErrUnexpectedEOF"}

NoError == err \in {"none", "EOF"}

\* net/http pools a connection once the end of a body is read; at the limit the
\* reader may not have looked for it.
Pooled ==
  IF lost # "no" \/ ~resp.framed \/ pos < Len(resp.body) THEN {FALSE}
  ELSE IF left = 0 THEN BOOLEAN ELSE {TRUE}

Return(r) ==
  /\ phase' = "done" /\ result' = r
  /\ pooled' \in Pooled
  /\ UNCHANGED <<req, resp, pos, n, left, lost, err, value>>

Returns ==
  /\ phase = "reading"
  /\ ~Drains \/ left <= 0 \/ pos = Len(resp.body) \/ lost # "no"
  /\ \/ ~Ok /\ Return("StatusError")
     \/ Ok /\ ~Decodes /\ Return("ok")
     \/ Decodes /\ TooLarge /\ Return("too large")
     \/ Decodes /\ ~TooLarge /\ ~NoError /\ Return("decode response")
     \/ Decodes /\ ~TooLarge /\ NoError /\ Return("ok")

\* The connection is lost.
Lost(how) ==
  /\ phase \in {"decoding", "reading"} /\ lost = "no"
  /\ lost' = how
  /\ UNCHANGED <<req, resp, phase, pos, n, left, err, value, result, pooled>>

\* The http client's time is up.
TimeIsUp == HasTimeout /\ (RequestFails \/ Lost("timeout"))

Stopped == phase = "done" /\ UNCHANGED vars

Next ==
  \/ DoJSON \/ RequestFails \/ Responds \/ Decode \/ Returns
  \/ \E k \in 1..MaxBody : Refill(k) \/ ReadRest(k)
  \/ Lost("lost") \/ TimeIsUp
  \/ Stopped

Spec == Init /\ [][Next]_vars

\* The plugin runs on and the time passes; nothing is assumed of the server.
FairSpec == Spec /\ WF_vars(Decode) /\ WF_vars(Returns) /\ WF_vars(TimeIsUp)

-----------------------------------------------------------------------------
(* Properties *)

TypeOK ==
  /\ req \in Requests \cup {NoRequest} /\ resp \in Responses \cup {NoResponse}
  /\ phase \in {"idle", "asked", "decoding", "reading", "done"}
  /\ n \in 0..MaxResponseBody /\ lost \in {"no", "lost", "timeout"} /\ pooled \in BOOLEAN
  /\ err \in {"none", "EOF", "ErrUnexpectedEOF", "syntax", "type", "read"}
  /\ result \in Faults \cup {"request failed", "StatusError", "ok", "too large", "decode response"}
  /\ value \in {None} \cup (1..MaxResponseBody) \X (1..MaxResponseBody)

\* What DoJSON reads of a body is bounded: the cap of a decoded value and that
\* of the bytes around it.
ReadsBounded ==
  pos <= (IF Decodes THEN MaxResponseBody ELSE 0) + MaxOtherBody

\* A decoded value is the first value that the server sent, from its first byte
\* to its last, and an untouched dest means that it sent none.  Where the cap, or
\* a lost connection of unknown length, passes for the end, this holds of the
\* bytes before it: all of them blank, or a number that reaches up to it.
SuccessIsWhole ==
  phase = "done" /\ Decodes /\ result = "ok" =>
    \/ value # None /\ value \in Values(resp.body, Len(resp.body), TRUE)
    \/ value = None /\ Blank(resp.body, 1, Len(resp.body))
    \/ CutShort /\ value = None /\ Blank(resp.body, 1, MaxResponseBody - n)
    \/ /\ CutShort /\ value # None
       /\ Number(resp.body, value[1], value[2]) /\ value[2] = MaxResponseBody - n

\* "Too large" is said of a value that goes on past the cap, never of one that
\* fits it or of a malformed one; and it is said of each such value that arrives
\* up to the cap.
TooLargeIsLarge ==
  LET cut == Len(resp.body) >= MaxResponseBody /\ Partial(resp.body, MaxResponseBody)
  IN  /\ result = "too large" => cut
      /\ phase = "done" /\ Decodes /\ cut /\ (n = 0 \/ lost = "no") => result = "too large"

\* However the decoding ends, the connection is kept for the next call if what
\* the decoder left of the response is shorter than the cap of such a rest.
ShortRestKeepsConnection ==
  phase = "done" /\ result \notin Faults \cup {"request failed"}
  /\ resp.framed /\ lost = "no"
  /\ Len(resp.body) - (MaxResponseBody - n) < MaxOtherBody
  => pooled

\* With the default http client a call returns, whatever the server does.
DefaultCallsReturn == (phase = "asked" /\ req.hc = "nil") ~> phase = "done"
=============================================================================
