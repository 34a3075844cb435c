------------------------------ MODULE HostClient ------------------------------
(***************************************************************************)
(* The typed RuntimeHost client of pkg/pluginsdk/runtimehost with calls in    *)
(* progress: goroutines of a plugin call its methods, a request travels to    *)
(* the host, which may handle it late, not at all, or after the caller has     *)
(* given up, and the answer is converted.  The host keeps the plugin          *)
(* instance's private state and passes calls on to other installations.      *)
(*                                                                         *)
(* A call is a record of its op, the method, and the arguments that matter;   *)
(* timeout is that of InstanceStateStore.WithTimeout, or what the caller's     *)
(* context leaves.                                                         *)
(***************************************************************************)
EXTENDS HostMessages

CONSTANTS
  Procs,      \* goroutines of the plugin
  Calls,      \* the calls that each of them makes
  Plugins,    \* the other installations, a set of InstalledPlugin
  Catalog,    \* what the host's libraries hold, a set of CatalogMediaItem
  MaxLate,    \* bound: writes on the way whose caller has given up
  NoCall

VARIABLES
  store,    \* the host's copy of the instance state
  call,     \* per goroutine: its last call
  phase,    \* "idle", "sent", "handled" by the host, "done"
  response, \* what the host answers
  result,   \* how the method returned
  data,     \* and with what
  applied,  \* how often the host has handled the call
  reached,  \* the installation, or media file, that the host took it for
  seen,     \* what a key read had for values since the call began
  alone,    \* no other write of its key was under way during the call
  late      \* writes on the way whose caller has given up

vars == <<store, call, phase, response, result, data, applied, reached, seen, alone, late>>

-----------------------------------------------------------------------------
(* The methods *)

ValidKey(k) == k \notin {"", "longKey"}

\* The argument checks of the methods: a name, path or state; an installation
\* or media file; a key and a value of instance state.
Accepts(a) ==
  /\ "name" \in DOMAIN a => a.name # ""
  /\ "id" \in DOMAIN a => a.id > 0
  /\ "key" \in DOMAIN a => ValidKey(a.key)
  /\ "value" \in DOMAIN a => a.value # "longValue"

\* Nothing is asked for: the method answers an empty map by itself.
AsksNothing(a) == a.op \in {"CheckMediaPresence", "ResolveCatalogImageURLs"} /\ a.ids = {}

\* The arguments that calls have, as far as the checks let them through.
WellTyped(a) ==
  CASE a.op \in {"CallPluginHTTP", "CallPluginJSON", "PublishEventToInstallation"} ->
         "id" \in DOMAIN a /\ a.id \in Ints
    [] a.op = "MintScopedStream" ->
         "id" \in DOMAIN a /\ {a.id, a.minutes, a.height} \subseteq Ints
    [] a.op = "ListLibraryMedia" -> {a.yearMin, a.yearMax, a.pageSize} \subseteq Ints
    [] a.op = "ReadState" -> "key" \in DOMAIN a /\ (ValidKey(a.key) => a.key \in Keys)
    [] a.op = "WriteState" ->
         /\ "key" \in DOMAIN a /\ (ValidKey(a.key) => a.key \in Keys)
         /\ "value" \in DOMAIN a /\ (a.value # "longValue" => a.value \in Values)
    [] a.op \in {"CheckMediaPresence", "ResolveCatalogImageURLs"} -> a.ids \subseteq Ints
    [] OTHER ->
         a.op \in {"ListInstalledPluginsByCapability", "GetHostInfo", "ListLibraries",
                  "GetCatalogStats", "PublishEvent", "PublishEventTo", "SetGlobalConfigEntry",
                  "ReportNetworkAccessStatus"}

ASSUME CallsAssumption ==
  /\ \A p \in Procs : \A a \in Calls[p] : WellTyped(a)
  /\ Absent \notin Values /\ MaxLate \in Nat

ASSUME HostAssumption ==
  /\ Plugins \subseteq InstalledPlugin
  /\ Catalog \subseteq CatalogMediaItem /\ IsFiniteSet(Catalog) /\ Cardinality(Catalog) < Half

CallPluginHTTP(a)             == [rpc |-> "CallPluginHTTP", id |-> Int32(a.id)]
\* A PublishEventToInstallation with the width of CallPluginHTTP.
PublishEventToInt32(a)        == [rpc |-> "PublishEventToInstallation", id |-> Int32(a.id)]
PublishEventToInstallation(a) == [rpc |-> "PublishEventToInstallation", id |-> Int64(a.id)]
MintScopedStream(a)           == [rpc |-> "MintScopedStream", id |-> Int64(a.id),
                                  minutes |-> Int32(a.minutes), height |-> Int32(a.height)]
\* A ListLibraryMedia that hands the page size on as it is.
ListLibraryMediaUncut(a)      == [rpc |-> "ListLibraryMedia", yearMin |-> Int32(a.yearMin),
                                  yearMax |-> Int32(a.yearMax), pageSize |-> a.pageSize]
ListLibraryMedia(a)           == [rpc |-> "ListLibraryMedia", yearMin |-> Int32(a.yearMin),
                                  yearMax |-> Int32(a.yearMax), pageSize |-> Int32(a.pageSize)]
ReadInstanceState(a)          == [rpc |-> "ReadInstanceState", key |-> a.key]
WriteInstanceState(a)         == [rpc |-> "WriteInstanceState", key |-> a.key, value |-> a.value]

Request(a) ==
  CASE a.op \in {"CallPluginHTTP", "CallPluginJSON"} -> CallPluginHTTP(a)
    [] a.op = "PublishEventToInstallation" -> PublishEventToInstallation(a)
    [] a.op = "MintScopedStream"           -> MintScopedStream(a)
    [] a.op = "ListLibraryMedia"           -> ListLibraryMedia(a)
    [] a.op = "ReadState"                  -> ReadInstanceState(a)
    [] a.op = "WriteState"                 -> WriteInstanceState(a)
    [] a.op \in {"CheckMediaPresence", "ResolveCatalogImageURLs"} -> [rpc |-> a.op, ids |-> a.ids]
    [] a.op = "ListInstalledPluginsByCapability" -> [rpc |-> "ListInstalledPlugins"]
    [] OTHER                               -> [rpc |-> a.op]

\* CallPluginJSON: the status, the size, then the decoding.
JSONOutcome(a, r) ==
  CASE r.status >= 400 -> "HTTPStatusError"
    [] r.status < 400 /\ (r.body = "long" \/ (a.decode /\ r.body = "bad")) -> "error"
    [] OTHER -> "ok"

\* ReadState: the key is found or not.
StateOutcome(r) == IF r.found THEN "ok" ELSE "ErrStateNotExist"

\* How the method returns for the host's answer, and with what.
Outcome(a, r) ==
  CASE a.op = "ReadState"      -> StateOutcome(r)
    [] a.op = "CallPluginJSON" -> JSONOutcome(a, r)
    [] OTHER                   -> "ok"

Data(a, r) ==
  CASE a.op = "ReadState"      -> {r.value} \ {Absent}
    [] a.op = "CallPluginJSON" -> {r.body} \cap (IF a.decode THEN {"json"} ELSE {})
    [] a.op = "ListInstalledPluginsByCapability" -> {q.id : q \in {i \in r.plugins : i.capable}}
    [] a.op = "CheckMediaPresence" -> {q.externalId : q \in r.present}
    [] a.op = "ResolveCatalogImageURLs" -> r.urls
    [] a.op \in {"GetHostInfo", "ListLibraries", "ListLibraryMedia", "GetCatalogStats",
                 "MintScopedStream", "CallPluginHTTP"} -> {r}
    [] OTHER -> {}

\* A context that keeps the default timeout out.
DeadlineNever(a) == FALSE

\* InstanceStateStore.context: a timeout that is not positive is none.
HasDeadline(a) == a.timeout > 0

-----------------------------------------------------------------------------
(* The plugin *)

InFlight(p) == phase[p] \in {"sent", "handled"}
Writes(r, k) == r.rpc = "WriteInstanceState" /\ r.key = k

\* A write of key k, other than that of p, may still reach the store.
WriteUnderWay(p, k) ==
  \/ \E q \in Procs \ {p} : InFlight(q) /\ Writes(Request(call[q]), k)
  \/ \E r \in late : Writes(r, k)

Init ==
  /\ store = [k \in Keys |-> Absent]
  /\ call = [p \in Procs |-> NoCall]
  /\ phase = [p \in Procs |-> "idle"]
  /\ response = [p \in Procs |-> "none"] /\ result = [p \in Procs |-> "none"]
  /\ data = [p \in Procs |-> {}]
  /\ applied = [p \in Procs |-> 0] /\ reached = [p \in Procs |-> {}]
  /\ seen = [p \in Procs |-> {}] /\ alone = [p \in Procs |-> FALSE]
  /\ late = {}

\* The method returns without a round trip: an argument was refused, or
\* nothing was asked for.
Answers(p, a) ==
  /\ ~Accepts(a) \/ AsksNothing(a)
  /\ phase' = [phase EXCEPT ![p] = "done"]
  /\ result' = [result EXCEPT ![p] = IF Accepts(a) THEN "ok" ELSE "refused"]
  /\ seen' = [seen EXCEPT ![p] = {}]
  /\ alone' = [alone EXCEPT ![p] = FALSE]

Sends(p, a) ==
  /\ Accepts(a) /\ ~AsksNothing(a)
  /\ phase' = [phase EXCEPT ![p] = "sent"]
  /\ result' = [result EXCEPT ![p] = "none"]
  /\ seen' = [seen EXCEPT ![p] = IF a.op = "ReadState" THEN {store[a.key]} ELSE {}]
  /\ alone' = [q \in Procs |->
       IF a.op # "WriteState" THEN q # p /\ alone[q]
       ELSE IF q = p THEN ~WriteUnderWay(p, a.key)
       ELSE alone[q] /\ call[q].key # a.key]

Invoke(p, a) ==
  /\ ~InFlight(p)
  /\ call' = [call EXCEPT ![p] = a]
  /\ response' = [response EXCEPT ![p] = "none"] /\ data' = [data EXCEPT ![p] = {}]
  /\ applied' = [applied EXCEPT ![p] = 0] /\ reached' = [reached EXCEPT ![p] = {}]
  /\ Answers(p, a) \/ Sends(p, a)
  /\ UNCHANGED <<store, late>>

\* The answer arrives.
Returns(p) ==
  /\ phase[p] = "handled"
  /\ phase' = [phase EXCEPT ![p] = "done"]
  /\ result' = [result EXCEPT ![p] = Outcome(call[p], response[p])]
  /\ data' = [data EXCEPT ![p] = Data(call[p], response[p])]
  /\ UNCHANGED <<store, call, response, applied, reached, seen, alone, late>>

\* A request whose caller has given up stays on its way or is cancelled; only
\* a write can still make a difference.
Abandons(p) ==
  \/ late' = late
  \/ /\ phase[p] = "sent" /\ call[p].op = "WriteState" /\ Cardinality(late) < MaxLate
     /\ late' = late \cup {Request(call[p])}

\* An Outcome of failed calls that makes a read without an answer a read of
\* nothing.
FailedReadAsAbsent(a) == IF a.op = "ReadState" THEN "ErrStateNotExist" ELSE "error"

\* An Outcome of failed calls that drops the error of a write.
FailedWriteAsDone(a) == IF a.op = "WriteState" THEN "ok" ELSE "error"

\* How a method returns for an error of the call.
Failure(a) == "error"

\* The host's answer is an error, or the connection is lost.
Fails(p) ==
  /\ InFlight(p)
  /\ phase' = [phase EXCEPT ![p] = "done"]
  /\ result' = [result EXCEPT ![p] = Failure(call[p])]
  /\ Abandons(p)
  /\ UNCHANGED <<store, call, response, data, applied, reached, seen, alone>>

\* A GiveUp that sends the request once more.
GiveUpRetries(p) ==
  /\ InFlight(p) /\ HasDeadline(call[p])
  /\ phase' = [phase EXCEPT ![p] = "sent"]
  /\ Abandons(p)
  /\ UNCHANGED <<store, call, response, result, data, applied, reached, seen, alone>>

\* The deadline passes.
GiveUp(p) ==
  /\ InFlight(p) /\ HasDeadline(call[p])
  /\ Fails(p)

-----------------------------------------------------------------------------
(* The host *)

\* The catalog, counted.
CatalogStats ==
  [total         |-> Cardinality(Catalog),
   typeCounts    |-> {[type |-> t, count |-> Cardinality({c \in Catalog : c.type = t})] :
                        t \in {"movie", "series"}},
   libraryCounts |-> {[library |-> l, count |-> Cardinality({c \in Catalog : c.library = l})] :
                        l \in Libraries}]

\* Answers to a request: lists are filtered by arguments that are left out.
Response(r) ==
  CASE r.rpc = "ReadInstanceState" ->
         {[found |-> store[r.key] # Absent, value |-> store[r.key]]}
    [] r.rpc = "CallPluginHTTP" -> CallPluginHTTPResponse
    [] r.rpc = "ListInstalledPlugins" -> {[plugins |-> Plugins]}
    [] r.rpc = "CheckMediaPresence" -> {[present |-> p] : p \in SUBSET [externalId : r.ids]}
    [] r.rpc = "ResolveCatalogImageURLs" -> [urls : SUBSET r.ids]
    [] r.rpc = "ListLibraryMedia" -> [items : SUBSET Catalog, total : {Cardinality(Catalog)}]
    [] r.rpc = "GetCatalogStats" -> {CatalogStats}
    [] r.rpc = "GetHostInfo" -> GetHostInfoResponse
    [] r.rpc = "ListLibraries" -> ListLibrariesResponse
    [] r.rpc = "MintScopedStream" -> MintScopedStreamResponse
    [] OTHER -> {[rpc |-> r.rpc]}

\* The request takes effect.
Takes(r) ==
  IF r.rpc # "WriteInstanceState" THEN UNCHANGED <<store, seen>>
  ELSE /\ store' = [store EXCEPT ![r.key] = r.value]
       /\ seen' = [q \in Procs |->
            IF InFlight(q) /\ call[q].op = "ReadState" /\ call[q].key = r.key
            THEN seen[q] \cup {r.value} ELSE seen[q]]

HostHandles(p) ==
  /\ phase[p] = "sent"
  /\ LET r == Request(call[p])
     IN  /\ Takes(r)
         /\ \E a \in Response(r) : response' = [response EXCEPT ![p] = a]
         /\ reached' = [reached EXCEPT ![p] = IF "id" \in DOMAIN r THEN {r.id} ELSE {}]
  /\ phase' = [phase EXCEPT ![p] = "handled"]
  /\ applied' = [applied EXCEPT ![p] = @ + 1]
  /\ UNCHANGED <<call, result, data, alone, late>>

HostHandlesLate ==
  \E r \in late :
    /\ Takes(r)
    /\ late' = late \ {r}
    /\ UNCHANGED <<call, phase, response, result, data, applied, reached, alone>>

Next ==
  \/ \E p \in Procs : (\E a \in Calls[p] : Invoke(p, a)) \/ Returns(p) \/ Fails(p) \/ GiveUp(p) \/ HostHandles(p)
  \/ HostHandlesLate

Spec == Init /\ [][Next]_vars

\* Deadlines pass.  Nothing is assumed of the host.
FairSpec == Spec /\ \A p \in Procs : WF_vars(GiveUp(p))

-----------------------------------------------------------------------------
(* Properties *)

TypeOK ==
  /\ store \in [Keys -> Values \cup {Absent}]
  /\ DOMAIN call = Procs /\ \A p \in Procs : call[p] \in Calls[p] \cup {NoCall}
  /\ phase \in [Procs -> {"idle", "sent", "handled", "done"}]
  /\ \A p \in Procs : InFlight(p) => Request(call[p]) \in Requests
  /\ \A p \in Procs : phase[p] = "handled" => response[p] \in Responses
  /\ seen \in [Procs -> SUBSET (Values \cup {Absent})]
  /\ alone \in [Procs -> BOOLEAN]
  /\ late \subseteq Requests /\ Cardinality(late) <= MaxLate

\* What ReadState returns without an error was stored under the key at some
\* moment of the call; ErrStateNotExist says that nothing was, never that the
\* host did not answer.
ReadsWereStored ==
  \A p \in Procs : phase[p] = "done" /\ call[p].op = "ReadState" =>
    /\ result[p] = "ok" => data[p] # {} /\ data[p] \subseteq seen[p]
    /\ result[p] = "ErrStateNotExist" => Absent \in seen[p]

\* An acknowledged write stays what the host holds while no other write of the
\* key is made and none was under way; a write whose caller gave up counts, as
\* it may still come.
WritesHold ==
  \A p \in Procs : phase[p] = "done" /\ call[p].op = "WriteState" /\ result[p] = "ok" /\ alone[p] =>
    store[call[p].key] = call[p].value

\* A call takes effect at most once, and exactly once if it succeeds.
AppliedOnce ==
  \A p \in Procs :
    /\ applied[p] <= 1
    /\ phase[p] = "done" /\ result[p] = "ok" /\ ~AsksNothing(call[p]) => applied[p] = 1

\* The installation or media file that the host takes a call for is the one it
\* was made for, unless CallPluginHTTP cut an id that is no int32.
IdsReach ==
  \A p \in Procs : reached[p] # {} =>
    reached[p] = {call[p].id} \/ (call[p].op \in {"CallPluginHTTP", "CallPluginJSON"} /\ call[p].id >= Half)

\* A call with a deadline returns, whatever the host does.
BoundedCallsReturn ==
  \A p \in Procs : (InFlight(p) /\ call[p].timeout > 0) ~> ~InFlight(p)
=============================================================================
