----------------------------- MODULE MCHostClient -----------------------------
(* An instance of HostClient for TLC: one int width of three bits, every       *)
(* method, and for each argument check a call on either side of it.          *)
EXTENDS HostClient, TLC

CONSTANTS p1, p2

\* The first goroutine reads and writes; the second calls every method.
Read(k, t)     == [op |-> "ReadState", key |-> k, timeout |-> t]
Write(k, v, t) == [op |-> "WriteState", key |-> k, value |-> v, timeout |-> t]
ById(o, i, n)  == [op |-> o, id |-> i, name |-> n, timeout |-> 1]

StateCalls ==
  {Read("key", t) : t \in {0, 1}} \cup {Write("key", "v", t) : t \in {0, 1}} \cup {Write("key", "", 1)}

OtherCalls ==
  {Read("", 1), Read("longKey", 1), Write("key", "longValue", 1)}
  \cup {[op |-> "CallPluginJSON", id |-> i, name |-> "path", decode |-> TRUE, timeout |-> 1] : i \in {0, 1, 4, 9}}
  \cup {[op |-> "CallPluginJSON", id |-> 1, name |-> n, decode |-> FALSE, timeout |-> 1] : n \in {"", "path"}}
  \cup {ById("CallPluginHTTP", 9, "path")}
  \cup {ById("PublishEventToInstallation", i, "event") : i \in {0, 1, 9}}
  \cup {[op |-> "MintScopedStream", id |-> i, minutes |-> 9, height |-> 3, timeout |-> 1] : i \in {0, 9}}
  \cup {[op |-> "ListLibraryMedia", yearMin |-> 0, yearMax |-> 9, pageSize |-> 4, timeout |-> 1]}
  \cup {[op |-> o, ids |-> i, timeout |-> 1] : o \in {"CheckMediaPresence", "ResolveCatalogImageURLs"}, i \in {{}, {1}}}
  \cup {[op |-> o, timeout |-> 1] : o \in {"GetHostInfo", "ListLibraries", "GetCatalogStats", "ListInstalledPluginsByCapability"}}
  \cup {[op |-> o, name |-> n, timeout |-> 1] :
          o \in {"PublishEvent", "PublishEventTo", "SetGlobalConfigEntry", "ReportNetworkAccessStatus"}, n \in {"", "event"}}

MCCalls == p1 :> StateCalls @@ p2 :> (StateCalls \cup OtherCalls)

MCInts    == 0..9
MCPlugins == {[id |-> 1, capable |-> TRUE], [id |-> 9, capable |-> FALSE]}
MCCatalog == {[mediaId |-> 1, library |-> "films", type |-> "movie"],
              [mediaId |-> 9, library |-> "shows", type |-> "series"]}
=============================================================================
