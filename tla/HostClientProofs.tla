--------------------------- MODULE HostClientProofs ---------------------------
(* Proofs about HostClient: what a call returns, and what the host holds after *)
(* it, whichever calls run beside it and however many writes come late.       *)
EXTENDS HostClient, FiniteSetTheorems, TLAPS

-----------------------------------------------------------------------------
(* Requests *)

(* An int32 conversion stays within the width, and changes no positive        *)
(* integer that has it.                                                      *)
LEMMA Int32Range == ASSUME NEW n \in Int PROVE Int32(n) \in Int32s
  BY WidthAssumption DEF Int32, Int32s

LEMMA Int32Fits == ASSUME NEW n \in Int, n > 0, n < Half PROVE Int32(n) = n
  BY WidthAssumption DEF Int32

(* A method sends a request of its own kind: only WriteState writes, only      *)
(* ReadState reads.                                                          *)
LEMMA RequestOf ==
  ASSUME NEW a, WellTyped(a)
  PROVE  /\ a.op = "WriteState" => Request(a) = WriteInstanceState(a)
         /\ a.op = "ReadState" => Request(a) = ReadInstanceState(a)
         /\ a.op # "WriteState" => Request(a).rpc # "WriteInstanceState"
  BY DEF WellTyped, Request, CallPluginHTTP, PublishEventToInstallation, MintScopedStream,
         ListLibraryMedia, ReadInstanceState, WriteInstanceState

(* What is sent after the argument checks is a request of the service.        *)
LEMMA RequestType ==
  ASSUME NEW a, WellTyped(a), Accepts(a) PROVE Request(a) \in Requests
<1> USE DEF Accepts, WellTyped, Request, Requests
<1>1. CASE a.op \in {"CallPluginHTTP", "CallPluginJSON"}
  <2>1. Int32(a.id) \in Int32s
    BY <1>1, Int32Range, WidthAssumption
  <2> QED BY <1>1, <2>1 DEF CallPluginHTTP, CallPluginHTTPRequest
<1>2. CASE a.op = "PublishEventToInstallation"
  BY <1>2 DEF PublishEventToInstallation, PublishEventToInstallationRequest, Int64
<1>3. CASE a.op = "MintScopedStream"
  <2>1. Int32(a.minutes) \in Int32s /\ Int32(a.height) \in Int32s
    BY <1>3, Int32Range, WidthAssumption
  <2> QED BY <1>3, <2>1 DEF MintScopedStream, MintScopedStreamRequest, Int64
<1>4. CASE a.op = "ListLibraryMedia"
  <2>1. Int32(a.yearMin) \in Int32s /\ Int32(a.yearMax) \in Int32s /\ Int32(a.pageSize) \in Int32s
    BY <1>4, Int32Range, WidthAssumption
  <2> QED BY <1>4, <2>1 DEF ListLibraryMedia, ListLibraryMediaRequest
<1>5. CASE a.op = "ReadState"
  BY <1>5 DEF ReadInstanceState, ReadInstanceStateRequest
<1>6. CASE a.op = "WriteState"
  BY <1>6 DEF WriteInstanceState, WriteInstanceStateRequest
<1>7. CASE a.op \in {"CheckMediaPresence", "ResolveCatalogImageURLs"}
  BY <1>7 DEF CheckMediaPresenceRequest, ResolveCatalogImageURLsRequest
<1>8. CASE a.op \in {"ListInstalledPluginsByCapability", "GetHostInfo", "ListLibraries",
                     "GetCatalogStats", "PublishEvent", "PublishEventTo",
                     "SetGlobalConfigEntry", "ReportNetworkAccessStatus"}
  BY <1>8 DEF ListInstalledPluginsRequest, GetHostInfoRequest, ListLibrariesRequest,
     GetCatalogStatsRequest, PublishEventRequest, PublishEventToRequest,
     SetGlobalConfigEntryRequest, ReportNetworkAccessStatusRequest
<1> QED BY <1>1, <1>2, <1>3, <1>4, <1>5, <1>6, <1>7, <1>8

(* What a request of a kind carries: a write names a key and a value of the      *)
(* instance state, a read a key, a lookup ids.                                *)
LEMMA RequestFields ==
  ASSUME NEW r \in Requests
  PROVE  /\ r.rpc = "WriteInstanceState" => r.key \in Keys /\ r.value \in Values
         /\ r.rpc = "ReadInstanceState" => r.key \in Keys
         /\ r.rpc \in {"CheckMediaPresence", "ResolveCatalogImageURLs"} => r.ids \subseteq Ints
         /\ r.rpc \in {"ReadInstanceState", "CallPluginHTTP", "ListInstalledPlugins",
                       "CheckMediaPresence", "ResolveCatalogImageURLs", "ListLibraryMedia",
                       "GetCatalogStats", "GetHostInfo", "ListLibraries", "MintScopedStream",
                       "PublishEvent", "PublishEventTo", "PublishEventToInstallation",
                       "SetGlobalConfigEntry", "WriteInstanceState", "ReportNetworkAccessStatus"}
  BY DEF Requests, PublishEventRequest, PublishEventToRequest, PublishEventToInstallationRequest,
     GetHostInfoRequest, ListLibrariesRequest, CheckMediaPresenceRequest,
     ListInstalledPluginsRequest, SetGlobalConfigEntryRequest, ListLibraryMediaRequest,
     GetCatalogStatsRequest, ResolveCatalogImageURLsRequest, MintScopedStreamRequest,
     CallPluginHTTPRequest, ReadInstanceStateRequest, WriteInstanceStateRequest,
     ReportNetworkAccessStatusRequest

(* No part of the catalog has more entries than the catalog, whose size is an    *)
(* int32.                                                                    *)
LEMMA Counts ==
  ASSUME NEW S, S \subseteq Catalog PROVE Cardinality(S) \in Int32s
<1>1. Cardinality(S) \in Nat /\ Cardinality(Catalog) \in Nat /\ Cardinality(S) <= Cardinality(Catalog)
  BY HostAssumption, FS_Subset, FS_CardinalityType
<1> QED BY <1>1, HostAssumption, WidthAssumption DEF Int32s

LEMMA StatsType == CatalogStats \in GetCatalogStatsResponse
<1>1. \A t : Cardinality({c \in Catalog : c.type = t}) \in Int32s
  BY Counts
<1>2. \A l : Cardinality({c \in Catalog : c.library = l}) \in Int32s
  BY Counts
<1>3. Cardinality(Catalog) \in Int32s
  BY Counts
<1>4. \A t \in {"movie", "series"} :
        [type |-> t, count |-> Cardinality({c \in Catalog : c.type = t})] \in CatalogTypeCount
  BY <1>1 DEF CatalogTypeCount
<1>5. \A l \in Libraries :
        [library |-> l, count |-> Cardinality({c \in Catalog : c.library = l})] \in CatalogLibraryCount
  BY <1>2 DEF CatalogLibraryCount
<1>6. CatalogStats.typeCounts \subseteq CatalogTypeCount
  BY <1>4, Zenon DEF CatalogStats
<1>7. CatalogStats.libraryCounts \subseteq CatalogLibraryCount
  BY <1>5, Zenon DEF CatalogStats
<1> QED BY <1>3, <1>6, <1>7 DEF CatalogStats, GetCatalogStatsResponse

(* What the host answers is a response of the service.                         *)
LEMMA ResponseType ==
  ASSUME NEW r \in Requests, store \in [Keys -> Values \cup {Absent}]
  PROVE  Response(r) \subseteq Responses
<1> USE RequestFields DEF Response, Responses
<1>1. CASE r.rpc = "ReadInstanceState"
  <2>1. store[r.key] \in Values \cup {Absent}
    BY <1>1
  <2> QED BY <1>1, <2>1 DEF ReadInstanceStateResponse
<1>2. CASE r.rpc \in {"CallPluginHTTP", "GetHostInfo", "ListLibraries", "MintScopedStream"}
  BY <1>2
<1>3. CASE r.rpc = "ListInstalledPlugins"
  BY <1>3, HostAssumption DEF ListInstalledPluginsResponse
<1>4. CASE r.rpc = "CheckMediaPresence"
  <2>1. [externalId : r.ids] \subseteq MediaPresence
    BY <1>4 DEF MediaPresence
  <2> QED BY <1>4, <2>1 DEF CheckMediaPresenceResponse
<1>5. CASE r.rpc = "ResolveCatalogImageURLs"
  BY <1>5 DEF ResolveCatalogImageURLsResponse
<1>6. CASE r.rpc = "ListLibraryMedia"
  <2>1. Cardinality(Catalog) \in Int32s
    BY Counts
  <2> QED BY <1>6, <2>1, HostAssumption DEF ListLibraryMediaResponse
<1>7. CASE r.rpc = "GetCatalogStats"
  BY <1>7, StatsType
<1>8. CASE r.rpc \in {"PublishEvent", "PublishEventTo", "PublishEventToInstallation",
                      "SetGlobalConfigEntry", "WriteInstanceState", "ReportNetworkAccessStatus"}
  BY <1>8 DEF PublishEventResponse, PublishEventToResponse, PublishEventToInstallationResponse,
     SetGlobalConfigEntryResponse, WriteInstanceStateResponse, ReportNetworkAccessStatusResponse
<1> QED BY <1>1, <1>2, <1>3, <1>4, <1>5, <1>6, <1>7, <1>8

(* The id that a request carries is that of the call, except for the cut.      *)
LEMMA IdOf ==
  ASSUME NEW a, WellTyped(a), Accepts(a), "id" \in DOMAIN Request(a)
  PROVE  \/ Request(a).id = a.id
         \/ a.op \in {"CallPluginHTTP", "CallPluginJSON"} /\ a.id >= Half
<1>0. Half \in Nat /\ Ints \subseteq Int
  BY WidthAssumption
<1>1. CASE a.op \in {"CallPluginHTTP", "CallPluginJSON"}
  <2>1. a.id \in Int /\ a.id > 0
    BY <1>0, <1>1 DEF Accepts, WellTyped
  <2>2. CASE a.id < Half
    BY <1>1, <2>1, <2>2, Int32Fits DEF CallPluginHTTP, Request
  <2>3. CASE a.id >= Half
    BY <1>1, <2>3
  <2>4. a.id < Half \/ a.id >= Half
    BY <1>0, <2>1
  <2> QED BY <2>2, <2>3, <2>4
<1>2. CASE a.op \in {"PublishEventToInstallation", "MintScopedStream"}
  BY <1>2 DEF PublishEventToInstallation, MintScopedStream, Int64, Request
<1>3. CASE a.op = "ListLibraryMedia"
  <2>1. "id" \notin DOMAIN Request(a)
    BY <1>3 DEF ListLibraryMedia, Request
  <2> QED BY <2>1
<1>4. CASE a.op \in {"ReadState", "WriteState"}
  <2>1. "id" \notin DOMAIN Request(a)
    BY <1>4 DEF ReadInstanceState, WriteInstanceState, Request
  <2> QED BY <2>1
<1>5. CASE a.op \in {"CheckMediaPresence", "ResolveCatalogImageURLs"}
  <2>1. "id" \notin DOMAIN Request(a)
    BY <1>5 DEF Request
  <2> QED BY <2>1
<1>6. CASE a.op \in {"ListInstalledPluginsByCapability", "GetHostInfo", "ListLibraries",
                     "GetCatalogStats", "PublishEvent", "PublishEventTo",
                     "SetGlobalConfigEntry", "ReportNetworkAccessStatus"}
  <2>1. "id" \notin DOMAIN Request(a)
    BY <1>6 DEF Request
  <2> QED BY <2>1
<1> QED BY <1>1, <1>2, <1>3, <1>4, <1>5, <1>6 DEF WellTyped

-----------------------------------------------------------------------------
(* The inductive invariant.  What a finished call says is true because of what *)
(* held while it was under way: the value under a key read has been there       *)
(* since the call began, and nobody else could write the key of a write that   *)
(* was alone.                                                                *)

Shape ==
  /\ TypeOK /\ IsFiniteSet(late)
  /\ DOMAIN response = Procs /\ DOMAIN result = Procs /\ DOMAIN data = Procs
  /\ DOMAIN reached = Procs /\ DOMAIN applied = Procs
  /\ \A p \in Procs : phase[p] # "idle" => call[p] \in Calls[p]
  /\ \A p \in Procs : InFlight(p) => Accepts(call[p])

Reached(p) ==
  \/ reached[p] = {call[p].id}
  \/ call[p].op \in {"CallPluginHTTP", "CallPluginJSON"} /\ call[p].id >= Half

Counted(p) ==
  /\ phase[p] \in {"idle", "sent"} => applied[p] = 0 /\ reached[p] = {}
  /\ phase[p] = "handled" => applied[p] = 1
  /\ phase[p] = "done" => applied[p] \in {0, 1}
  /\ phase[p] = "done" /\ result[p] = "ok" /\ ~AsksNothing(call[p]) => applied[p] = 1
  /\ reached[p] # {} => Reached(p)

ReadTrue(p) ==
  phase[p] # "idle" /\ call[p].op = "ReadState" =>
    /\ InFlight(p) => store[call[p].key] \in seen[p]
    /\ phase[p] = "handled" =>
         response[p].value \in seen[p] /\ (response[p].found <=> response[p].value # Absent)
    /\ phase[p] = "done" /\ result[p] = "ok" => data[p] # {} /\ data[p] \subseteq seen[p]
    /\ phase[p] = "done" /\ result[p] = "ErrStateNotExist" => Absent \in seen[p]

Acknowledged(p) == phase[p] = "handled" \/ (phase[p] = "done" /\ result[p] = "ok")

WriteHeld(p) ==
  alone[p] =>
    /\ phase[p] # "idle" /\ call[p].op = "WriteState" /\ call[p].key \in Keys
    /\ phase[p] = "sent" \/ Acknowledged(p) => ~WriteUnderWay(p, call[p].key)
    /\ Acknowledged(p) => store[call[p].key] = call[p].value

IInv == Shape /\ \A p \in Procs : Counted(p) /\ ReadTrue(p) /\ WriteHeld(p)

LEMMA InitInv == Init => IInv
<1> SUFFICES ASSUME Init PROVE IInv
  OBVIOUS
<1>1. late = {} /\ IsFiniteSet(late) /\ Cardinality(late) = 0
  BY FS_EmptySet DEF Init
<1>2. Shape
  BY <1>1, CallsAssumption DEF Init, Shape, TypeOK, InFlight
<1>3. ASSUME NEW p \in Procs PROVE Counted(p) /\ ReadTrue(p) /\ WriteHeld(p)
  BY DEF Init, Counted, ReadTrue, WriteHeld
<1> QED BY <1>2, <1>3 DEF IInv

LEMMA LateInv ==
  ASSUME Shape, [Next]_vars
  PROVE  /\ IsFiniteSet(late') /\ Cardinality(late') <= MaxLate
         /\ late' \subseteq Requests
<1> USE DEF Shape
<1>1. CASE UNCHANGED late
  BY <1>1 DEF TypeOK
<1>2. ASSUME NEW p \in Procs, Abandons(p), InFlight(p) PROVE IsFiniteSet(late') /\ Cardinality(late') <= MaxLate /\ late' \subseteq Requests
  <2>1. CASE UNCHANGED late
    BY <1>1, <2>1
  <2>2. CASE Cardinality(late) < MaxLate /\ late' = late \cup {Request(call[p])}
    <3>1. Request(call[p]) \in Requests
      BY <1>2, RequestType, CallsAssumption DEF InFlight
    <3>2. IsFiniteSet(late') /\ Cardinality(late') \in {Cardinality(late), Cardinality(late) + 1}
      BY <2>2, FS_AddElement
    <3>3. Cardinality(late) \in Nat
      BY FS_CardinalityType
    <3> QED BY <2>2, <3>1, <3>2, <3>3, CallsAssumption DEF TypeOK
  <2> QED BY <1>2, <2>1, <2>2 DEF Abandons
<1>3. CASE HostHandlesLate
  <2>1. PICK r \in late : late' = late \ {r}
    BY <1>3 DEF HostHandlesLate
  <2>2. IsFiniteSet(late') /\ Cardinality(late') = Cardinality(late) - 1
    BY <2>1, FS_RemoveElement
  <2>3. Cardinality(late) \in Nat
    BY FS_CardinalityType
  <2> QED BY <2>1, <2>2, <2>3, CallsAssumption DEF TypeOK
<1> QED
  BY <1>1, <1>2, <1>3 DEF Next, vars, Invoke, Returns, Fails, GiveUp, HostHandles

LEMMA ShapeInv == ASSUME Shape, [Next]_vars PROVE Shape'
<1> USE DEF Shape, TypeOK, InFlight
<1>0. /\ IsFiniteSet(late') /\ Cardinality(late') <= MaxLate
      /\ late' \subseteq Requests
  BY LateInv DEF Shape
<1>1. CASE UNCHANGED vars
  BY <1>1 DEF vars
<1>2. ASSUME NEW p \in Procs, NEW a \in Calls[p], Invoke(p, a) PROVE Shape'
  <2>1. Accepts(a) => Request(a) \in Requests
    BY RequestType, CallsAssumption
  <2>2. CASE Answers(p, a)
    BY <1>0, <1>2, <2>1, <2>2 DEF Invoke, Answers
  <2>3. CASE Sends(p, a)
    <3>1. a.op = "ReadState" => store[a.key] \in Values \cup {Absent}
      BY <2>3, CallsAssumption DEF Sends, Accepts, WellTyped
    <3>2. /\ seen' \in [Procs -> SUBSET (Values \cup {Absent})]
          /\ alone' \in [Procs -> BOOLEAN]
      BY <1>2, <2>3, <3>1 DEF Sends
    <3> QED BY <1>0, <1>2, <2>1, <2>3, <3>2 DEF Invoke, Sends
  <2> QED BY <1>2, <2>2, <2>3 DEF Invoke
<1>3. ASSUME NEW p \in Procs, Returns(p) PROVE Shape'
  BY <1>0, <1>3 DEF Returns
<1>4. ASSUME NEW p \in Procs, Fails(p) PROVE Shape'
  BY <1>0, <1>4 DEF Fails
<1>5. ASSUME NEW r \in Requests, Takes(r)
      PROVE  /\ store' \in [Keys -> Values \cup {Absent}]
             /\ seen' \in [Procs -> SUBSET (Values \cup {Absent})]
  BY <1>5, RequestFields DEF Takes
<1>6. ASSUME NEW p \in Procs, HostHandles(p) PROVE Shape'
  <2>1. Request(call[p]) \in Requests /\ Takes(Request(call[p]))
    BY <1>6 DEF HostHandles
  <2>2. PICK a \in Response(Request(call[p])) : response' = [response EXCEPT ![p] = a]
    BY <1>6 DEF HostHandles
  <2>3. a \in Responses
    BY <2>1, <2>2, ResponseType
  <2>4. \A q \in Procs : phase'[q] = "handled" => response'[q] \in Responses
    BY <1>6, <2>2, <2>3 DEF HostHandles
  <2> QED BY <1>0, <1>5, <1>6, <2>1, <2>2, <2>4 DEF HostHandles
<1>7. CASE HostHandlesLate
  <2>1. PICK r \in late : Takes(r)
    BY <1>7 DEF HostHandlesLate
  <2> QED BY <1>0, <1>5, <1>7, <2>1 DEF HostHandlesLate
<1> QED BY <1>1, <1>2, <1>3, <1>4, <1>6, <1>7 DEF Next, GiveUp

(* One call counts for one effect at the host.                                 *)
LEMMA CountedInv ==
  ASSUME IInv, [Next]_vars, NEW q \in Procs PROVE Counted(q)'
<1> USE DEF IInv, Shape, Counted, Reached, InFlight
<1>1. CASE UNCHANGED vars
  BY <1>1 DEF vars
<1>2. ASSUME NEW p \in Procs, NEW a \in Calls[p], Invoke(p, a) PROVE Counted(q)'
  <2>1. p # q => UNCHANGED <<call[q], phase[q], result[q], applied[q], reached[q]>>
    BY <1>2 DEF Invoke, Answers, Sends, TypeOK
  <2>2. CASE p = q
    <3>1. call'[q] = a /\ applied'[q] = 0 /\ reached'[q] = {}
      BY <1>2, <2>2 DEF Invoke, TypeOK
    <3>2. CASE Answers(p, a)
      BY <2>2, <3>1, <3>2 DEF Answers, TypeOK
    <3>3. CASE Sends(p, a)
      BY <2>2, <3>1, <3>3 DEF Sends, TypeOK
    <3> QED BY <1>2, <3>2, <3>3 DEF Invoke
  <2> QED BY <2>1, <2>2
<1>3. ASSUME NEW p \in Procs, Returns(p) PROVE Counted(q)'
  BY <1>3 DEF Returns, TypeOK
<1>4. ASSUME NEW p \in Procs, Fails(p) PROVE Counted(q)'
  BY <1>4 DEF Fails, Failure, TypeOK
<1>6. ASSUME NEW p \in Procs, HostHandles(p) PROVE Counted(q)'
  <2>1. p # q => UNCHANGED <<call[q], phase[q], result[q], applied[q], reached[q]>>
    BY <1>6 DEF HostHandles, TypeOK
  <2>2. CASE p = q
    <3>1. call' = call /\ phase'[q] = "handled" /\ applied'[q] = 1
      BY <1>6, <2>2 DEF HostHandles, TypeOK
    <3>2. /\ "id" \in DOMAIN Request(call[q]) => reached'[q] = {Request(call[q]).id}
          /\ "id" \notin DOMAIN Request(call[q]) => reached'[q] = {}
      BY <1>6, <2>2 DEF HostHandles, TypeOK
    <3>3. call[q] \in Calls[q] /\ WellTyped(call[q]) /\ Accepts(call[q])
      BY <1>6, <2>2, CallsAssumption DEF HostHandles
    <3>4. "id" \in DOMAIN Request(call[q]) =>
            \/ Request(call[q]).id = call[q].id
            \/ call[q].op \in {"CallPluginHTTP", "CallPluginJSON"} /\ call[q].id >= Half
      BY <3>3, IdOf
    <3> QED BY <3>1, <3>2, <3>4
  <2> QED BY <2>1, <2>2
<1>7. CASE HostHandlesLate
  BY <1>7 DEF HostHandlesLate
<1> QED BY <1>1, <1>2, <1>3, <1>4, <1>6, <1>7 DEF Next, GiveUp

(* Whoever's request the host handles, the values that a read under way has     *)
(* seen include the stored one.                                              *)
LEMMA TakesSeen ==
  ASSUME Shape, NEW r \in Requests, Takes(r), NEW q \in Procs,
         InFlight(q), call[q].op = "ReadState", store[call[q].key] \in seen[q]
  PROVE  seen[q] \subseteq seen'[q] /\ store'[call[q].key] \in seen'[q]
<1>1. CASE r.rpc = "WriteInstanceState" /\ r.key = call[q].key
  <2>1. r.key \in Keys /\ r.value \in Values
    BY <1>1, RequestFields
  <2>2. store'[call[q].key] = r.value
    BY <1>1, <2>1 DEF Takes, Shape, TypeOK
  <2>3. seen'[q] = seen[q] \cup {r.value}
    BY <1>1 DEF Takes, Shape, TypeOK
  <2> QED BY <2>2, <2>3
<1>2. CASE r.rpc = "WriteInstanceState" /\ r.key # call[q].key
  <2>1. store'[call[q].key] = store[call[q].key] /\ seen'[q] = seen[q]
    <3>1. CASE call[q].key \in Keys
      BY <1>2, <3>1 DEF Takes, Shape, TypeOK
    <3>2. call[q].key \in Keys
      BY CallsAssumption DEF Shape, Accepts, WellTyped, InFlight
    <3> QED BY <3>1, <3>2
  <2> QED BY <2>1
<1>3. CASE r.rpc # "WriteInstanceState"
  BY <1>3 DEF Takes
<1> QED BY <1>1, <1>2, <1>3

LEMMA ReadInv ==
  ASSUME IInv, [Next]_vars, NEW q \in Procs PROVE ReadTrue(q)'
<1> USE DEF IInv, Shape, ReadTrue, InFlight
<1>1. CASE UNCHANGED vars
  BY <1>1 DEF vars
<1>2. ASSUME NEW p \in Procs, NEW a \in Calls[p], Invoke(p, a) PROVE ReadTrue(q)'
  <2>1. p # q => UNCHANGED <<store, call[q], phase[q], response[q], result[q], data[q], seen[q]>>
    BY <1>2 DEF Invoke, Answers, Sends, TypeOK
  <2>2. CASE p = q
    <3>1. call'[q] = a /\ store' = store
      BY <1>2, <2>2 DEF Invoke, TypeOK
    <3>2. CASE Answers(p, a)
      <4>1. phase'[q] = "done" /\ (a.op = "ReadState" => result'[q] = "refused")
        BY <2>2, <3>2 DEF Answers, AsksNothing, TypeOK
      <4> QED BY <3>1, <4>1
    <3>3. CASE Sends(p, a)
      BY <2>2, <3>1, <3>3 DEF Sends, TypeOK
    <3> QED BY <1>2, <3>2, <3>3 DEF Invoke
  <2> QED BY <2>1, <2>2
<1>3. ASSUME NEW p \in Procs, Returns(p) PROVE ReadTrue(q)'
  <2>1. p # q => UNCHANGED <<store, call[q], phase[q], response[q], result[q], data[q], seen[q]>>
    BY <1>3 DEF Returns, TypeOK
  <2>2. CASE p = q /\ call[q].op = "ReadState"
    <3>1. /\ phase'[q] = "done" /\ seen' = seen /\ call' = call
          /\ result'[q] = (IF response[q].found THEN "ok" ELSE "ErrStateNotExist")
          /\ data'[q] = {response[q].value} \ {Absent}
      BY <1>3, <2>2 DEF Returns, Outcome, Data, StateOutcome, TypeOK
    <3>2. phase[q] = "handled"
      BY <1>3, <2>2 DEF Returns
    <3> QED BY <2>2, <3>1, <3>2
  <2>3. CASE p = q /\ call[q].op # "ReadState"
    BY <1>3, <2>3 DEF Returns
  <2> QED BY <2>1, <2>2, <2>3
<1>4. ASSUME NEW p \in Procs, Fails(p) PROVE ReadTrue(q)'
  <2>1. p # q => UNCHANGED <<store, call[q], phase[q], response[q], result[q], data[q], seen[q]>>
    BY <1>4 DEF Fails, TypeOK
  <2>2. CASE p = q
    BY <1>4, <2>2 DEF Fails, Failure, TypeOK
  <2> QED BY <2>1, <2>2
<1>5. ASSUME NEW r \in Requests, Takes(r), ~InFlight(q)
      PROVE  seen'[q] = seen[q]
  BY <1>5 DEF Takes, TypeOK
<1>6. ASSUME NEW p \in Procs, HostHandles(p) PROVE ReadTrue(q)'
  <2>1. Request(call[p]) \in Requests /\ Takes(Request(call[p])) /\ call' = call
    BY <1>6 DEF HostHandles, TypeOK
  <2>2. CASE p # q
    <3>1. UNCHANGED <<phase[q], response[q], result[q], data[q]>>
      BY <1>6, <2>2 DEF HostHandles, TypeOK
    <3>2. CASE InFlight(q) /\ call[q].op = "ReadState"
      <4>1. seen[q] \subseteq seen'[q] /\ store'[call[q].key] \in seen'[q]
        BY <2>1, <3>2, TakesSeen
      <4> QED BY <2>1, <3>1, <3>2, <4>1
    <3>3. CASE ~InFlight(q)
      BY <2>1, <3>1, <3>3, <1>5
    <3>4. CASE call[q].op # "ReadState"
      BY <2>1, <3>4
    <3> QED BY <3>2, <3>3, <3>4
  <2>3. CASE p = q /\ call[q].op = "ReadState"
    <3>1. Request(call[q]) = [rpc |-> "ReadInstanceState", key |-> call[q].key]
      BY <1>6, <2>3, RequestOf, CallsAssumption DEF HostHandles, ReadInstanceState
    <3>2. UNCHANGED <<store, seen>> /\ phase'[q] = "handled"
      BY <1>6, <2>1, <2>3, <3>1 DEF Takes, HostHandles, TypeOK
    <3>3. response'[q] \in Response(Request(call[q]))
      BY <1>6, <2>3 DEF HostHandles
    <3>4. response'[q] = [found |-> store[call[q].key] # Absent, value |-> store[call[q].key]]
      BY <3>1, <3>3 DEF Response
    <3>5. phase[q] = "sent" /\ store[call[q].key] \in seen[q]
      BY <1>6, <2>3 DEF HostHandles
    <3>6. response'[q].value = store[call[q].key]
      BY <3>4
    <3>7. response'[q].found = (store[call[q].key] # Absent)
      BY <3>4
    <3> QED BY <2>1, <2>3, <3>2, <3>5, <3>6, <3>7
  <2>4. CASE p = q /\ call[q].op # "ReadState"
    BY <2>1, <2>4
  <2> QED BY <2>2, <2>3, <2>4
<1>7. CASE HostHandlesLate
  <2>1. PICK r \in late : Takes(r)
    BY <1>7 DEF HostHandlesLate
  <2>2. r \in Requests /\ UNCHANGED <<call, phase, response, result, data>>
    BY <1>7 DEF HostHandlesLate, TypeOK
  <2>3. CASE InFlight(q) /\ call[q].op = "ReadState"
    <3>1. seen[q] \subseteq seen'[q] /\ store'[call[q].key] \in seen'[q]
      BY <2>1, <2>2, <2>3, TakesSeen
    <3> QED BY <2>2, <2>3, <3>1
  <2>4. CASE ~InFlight(q)
    BY <2>1, <2>2, <2>4, <1>5
  <2>5. CASE call[q].op # "ReadState"
    BY <2>2, <2>5
  <2> QED BY <2>3, <2>4, <2>5
<1> QED BY <1>1, <1>2, <1>3, <1>4, <1>6, <1>7 DEF Next, GiveUp

(* A write reaches the store only while it is under way.                       *)
LEMMA TakesStore ==
  ASSUME Shape, NEW r \in Requests, Takes(r), NEW k \in Keys, ~Writes(r, k)
  PROVE  store'[k] = store[k]
  BY RequestFields DEF Takes, Writes, Shape, TypeOK

LEMMA WriteInv ==
  ASSUME IInv, [Next]_vars, NEW q \in Procs PROVE WriteHeld(q)'
<1> USE DEF IInv, Shape, InFlight
<1> DEFINE Still == UNCHANGED <<call[q], phase[q], result[q]>>
<1>1. CASE UNCHANGED vars
  BY <1>1 DEF vars, WriteHeld, WriteUnderWay, Acknowledged
<1>2. ASSUME NEW p \in Procs, NEW a \in Calls[p], Invoke(p, a) PROVE WriteHeld(q)'
  <2>1. UNCHANGED <<store, late>> /\ ~InFlight(p) /\ call' = [call EXCEPT ![p] = a]
    BY <1>2 DEF Invoke
  <2>2. CASE Answers(p, a)
    <3>1. CASE p = q
      BY <2>2, <3>1 DEF Answers, WriteHeld, TypeOK
    <3>2. CASE p # q
      BY <2>1, <2>2, <3>2 DEF Answers, WriteHeld, WriteUnderWay, Acknowledged, TypeOK
    <3> QED BY <3>1, <3>2
  <2>3. CASE Sends(p, a)
    <3>1. phase'[p] = "sent" /\ phase' = [phase EXCEPT ![p] = "sent"] /\ Accepts(a) /\ WellTyped(a)
      BY <2>3, CallsAssumption DEF Sends, TypeOK
    <3>2. CASE p = q
      <4>1. alone'[q] => a.op = "WriteState" /\ ~WriteUnderWay(q, a.key)
        BY <2>3, <3>2 DEF Sends
      <4>2. call'[q] = a /\ (a.op = "WriteState" => a.key \in Keys)
        BY <2>1, <3>1, <3>2 DEF TypeOK, Accepts, WellTyped
      <4>3. ~WriteUnderWay(q, a.key) => ~WriteUnderWay(q, a.key)'
        BY <2>1, <3>1, <3>2 DEF WriteUnderWay, TypeOK
      <4> QED BY <3>1, <3>2, <4>1, <4>2, <4>3 DEF WriteHeld, Acknowledged
    <3>3. CASE p # q
      <4>1. Still /\ (result'[q] = result[q])
        BY <2>1, <2>3, <3>3 DEF Sends, TypeOK
      <4>2. alone'[q] => alone[q] /\ (a.op = "WriteState" => call[q].key # a.key)
        BY <2>3, <3>3 DEF Sends
      <4>3. ASSUME alone'[q] PROVE ~Writes(Request(a), call[q].key)
        BY <3>1, <4>2, <4>3, RequestOf DEF Writes, WriteInstanceState
      <4>4. ASSUME alone'[q], ~WriteUnderWay(q, call[q].key)
            PROVE  ~WriteUnderWay(q, call[q].key)'
        BY <2>1, <3>1, <4>1, <4>3, <4>4 DEF WriteUnderWay, TypeOK
      <4> QED BY <2>1, <4>1, <4>2, <4>4 DEF WriteHeld, Acknowledged
    <3> QED BY <3>2, <3>3
  <2> QED BY <1>2, <2>2, <2>3 DEF Invoke
<1>3. ASSUME NEW p \in Procs, Returns(p) PROVE WriteHeld(q)'
  BY <1>3 DEF Returns, WriteHeld, WriteUnderWay, Acknowledged, TypeOK
<1>4. ASSUME NEW p \in Procs, Fails(p) PROVE WriteHeld(q)'
  <2>1. UNCHANGED <<store, call, alone>> /\ late' \subseteq late \cup {Request(call[p])}
    BY <1>4 DEF Fails, Abandons
  <2>2. CASE p = q
    BY <1>4, <2>1, <2>2 DEF Fails, Failure, WriteHeld, Acknowledged, TypeOK
  <2>3. CASE p # q
    <3>1. Still
      BY <1>4, <2>3 DEF Fails, TypeOK
    <3>2. ~WriteUnderWay(q, call[q].key) => ~WriteUnderWay(q, call[q].key)'
      BY <1>4, <2>1, <2>3 DEF Fails, WriteUnderWay, TypeOK
    <3> QED BY <2>1, <3>1, <3>2 DEF WriteHeld, Acknowledged
  <2> QED BY <2>2, <2>3
<1>6. ASSUME NEW p \in Procs, HostHandles(p) PROVE WriteHeld(q)'
  <2>1. /\ Request(call[p]) \in Requests /\ Takes(Request(call[p])) /\ phase[p] = "sent"
        /\ UNCHANGED <<call, result, alone, late>> /\ phase' = [phase EXCEPT ![p] = "handled"]
    BY <1>6 DEF HostHandles, TypeOK
  <2>2. ~WriteUnderWay(q, call[q].key) => ~WriteUnderWay(q, call[q].key)'
    BY <2>1 DEF WriteUnderWay, TypeOK
  <2>3. CASE p # q
    <3>1. Still
      BY <2>1, <2>3 DEF TypeOK
    <3>2. ASSUME alone[q], Acknowledged(q) PROVE store'[call[q].key] = store[call[q].key]
      <4>1. ~Writes(Request(call[p]), call[q].key) /\ call[q].key \in Keys
        BY <2>1, <2>3, <3>2 DEF WriteHeld, WriteUnderWay
      <4> QED BY <2>1, <4>1, TakesStore
    <3> QED BY <2>1, <2>2, <3>1, <3>2 DEF WriteHeld, Acknowledged
  <2>4. CASE p = q
    <3>1. ASSUME alone[q] PROVE store'[call[q].key] = call[q].value
      <4>1. call[q].op = "WriteState" /\ call[q].key \in Keys
        BY <3>1 DEF WriteHeld
      <4>2. Request(call[q]) = WriteInstanceState(call[q])
        BY <2>1, <2>4, <4>1, RequestOf, CallsAssumption
      <4> QED BY <2>1, <2>4, <4>1, <4>2 DEF Takes, WriteInstanceState, TypeOK
    <3> QED BY <2>1, <2>2, <2>4, <3>1 DEF WriteHeld, Acknowledged, TypeOK
  <2> QED BY <2>3, <2>4
<1>7. CASE HostHandlesLate
  <2>1. PICK r \in late : Takes(r) /\ late' = late \ {r}
    BY <1>7 DEF HostHandlesLate
  <2>2. r \in Requests /\ UNCHANGED <<call, phase, result, alone>>
    BY <1>7 DEF HostHandlesLate, TypeOK
  <2>3. ~WriteUnderWay(q, call[q].key) => ~WriteUnderWay(q, call[q].key)'
    BY <2>1, <2>2 DEF WriteUnderWay
  <2>4. ASSUME alone[q], Acknowledged(q) PROVE store'[call[q].key] = store[call[q].key]
    <3>1. ~Writes(r, call[q].key) /\ call[q].key \in Keys
      BY <2>1, <2>4 DEF WriteHeld, WriteUnderWay
    <3> QED BY <2>1, <2>2, <3>1, TakesStore
  <2> QED BY <2>2, <2>3, <2>4 DEF WriteHeld, Acknowledged
<1> QED BY <1>1, <1>2, <1>3, <1>4, <1>6, <1>7 DEF Next, GiveUp

-----------------------------------------------------------------------------
(* Theorems *)

LEMMA Inductive == Spec => []IInv
<1>1. IInv /\ [Next]_vars => IInv'
  <2> SUFFICES ASSUME IInv, [Next]_vars PROVE IInv'
    OBVIOUS
  <2>1. Shape'
    BY ShapeInv DEF IInv
  <2>2. ASSUME NEW p \in Procs PROVE (Counted(p) /\ ReadTrue(p) /\ WriteHeld(p))'
    BY CountedInv, ReadInv, WriteInv
  <2> QED BY <2>1, <2>2 DEF IInv
<1> QED BY InitInv, <1>1, PTL DEF Spec

(* Whatever is sent is a request of the service: the argument checks and the    *)
(* int32 conversions leave nothing else.                                     *)
THEOREM ClientType == Spec => []TypeOK
  BY Inductive, PTL DEF IInv, Shape

(* A read that succeeds returns a value that was stored during the call, and     *)
(* ErrStateNotExist says that the key was absent during it, whoever writes.   *)
THEOREM ReadsTrue == Spec => []ReadsWereStored
<1>1. IInv => ReadsWereStored
  BY DEF IInv, ReadTrue, ReadsWereStored
<1> QED BY Inductive, <1>1, PTL

(* An acknowledged write that was alone is what the host holds, with any number *)
(* of goroutines and of writes whose caller has given up.                     *)
THEOREM WritesLast == Spec => []WritesHold
<1>1. IInv => WritesHold
  BY DEF IInv, WriteHeld, WritesHold, Acknowledged
<1> QED BY Inductive, <1>1, PTL

(* No call takes effect twice, and a call that succeeds takes effect.          *)
THEOREM OncePerCall == Spec => []AppliedOnce
<1>1. IInv => AppliedOnce
  <2> SUFFICES ASSUME IInv, NEW p \in Procs
               PROVE  /\ applied[p] <= 1
                      /\ phase[p] = "done" /\ result[p] = "ok" /\ ~AsksNothing(call[p]) => applied[p] = 1
    BY DEF AppliedOnce
  <2> QED BY DEF IInv, Shape, TypeOK, Counted
<1> QED BY Inductive, <1>1, PTL

(* A call reaches the installation or media file that it names, for every      *)
(* width of int32, unless CallPluginHTTP cut the id.                          *)
THEOREM IdsArrive == Spec => []IdsReach
<1>1. IInv => IdsReach
  BY DEF IInv, Counted, Reached, IdsReach
<1> QED BY Inductive, <1>1, PTL
=============================================================================
