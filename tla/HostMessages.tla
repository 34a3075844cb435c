----------------------------- MODULE HostMessages -----------------------------
(***************************************************************************)
(* The messages of the RuntimeHost service, pkg/pluginproto/.../             *)
(* runtime_host.pb.go, as far as the typed client of pkg/pluginsdk/          *)
(* runtimehost turns on them: keys, values, ids and the other integers with   *)
(* their width.  Strings that are only handed through, headers, payloads and  *)
(* timestamps are left out, so that some messages are nothing but their name. *)
(***************************************************************************)
EXTENDS Integers, FiniteSets

CONSTANTS
  Half,    \* an int32 is in -Half .. Half - 1
  Ints,    \* the Go ints and int64s that occur
  Keys,    \* instance state keys
  Values,  \* instance state values
  Libraries, \* the libraries of the host's catalog
  Absent   \* no value is stored

ASSUME WidthAssumption == Half \in Nat \ {0} /\ Ints \subseteq Int

Int32s   == -Half .. Half - 1
Int32(n) == ((n + Half) % (2 * Half)) - Half  \* Go's int32(n)

\* An Int32 that does not convert.
Int64(n) == n

-----------------------------------------------------------------------------
(* Requests *)

PublishEventRequest               == [rpc : {"PublishEvent"}]
PublishEventToRequest             == [rpc : {"PublishEventTo"}]
PublishEventToInstallationRequest == [rpc : {"PublishEventToInstallation"}, id : Ints]
GetHostInfoRequest                == [rpc : {"GetHostInfo"}]
ListLibrariesRequest              == [rpc : {"ListLibraries"}]
CheckMediaPresenceRequest         == [rpc : {"CheckMediaPresence"}, ids : SUBSET Ints]
ListInstalledPluginsRequest       == [rpc : {"ListInstalledPlugins"}]
SetGlobalConfigEntryRequest       == [rpc : {"SetGlobalConfigEntry"}]
ListLibraryMediaRequest           == [rpc : {"ListLibraryMedia"},
                                      yearMin : Int32s, yearMax : Int32s, pageSize : Int32s]
GetCatalogStatsRequest            == [rpc : {"GetCatalogStats"}]
ResolveCatalogImageURLsRequest    == [rpc : {"ResolveCatalogImageURLs"}, ids : SUBSET Ints]
MintScopedStreamRequest           == [rpc : {"MintScopedStream"}, id : Ints,
                                      minutes : Int32s, height : Int32s]
CallPluginHTTPRequest             == [rpc : {"CallPluginHTTP"}, id : Int32s]
ReadInstanceStateRequest          == [rpc : {"ReadInstanceState"}, key : Keys]
WriteInstanceStateRequest         == [rpc : {"WriteInstanceState"}, key : Keys, value : Values]
ReportNetworkAccessStatusRequest  == [rpc : {"ReportNetworkAccessStatus"}]

Requests ==
  PublishEventRequest \cup PublishEventToRequest \cup PublishEventToInstallationRequest
  \cup GetHostInfoRequest \cup ListLibrariesRequest \cup CheckMediaPresenceRequest
  \cup ListInstalledPluginsRequest \cup SetGlobalConfigEntryRequest
  \cup ListLibraryMediaRequest \cup GetCatalogStatsRequest \cup ResolveCatalogImageURLsRequest
  \cup MintScopedStreamRequest \cup CallPluginHTTPRequest \cup ReadInstanceStateRequest
  \cup WriteInstanceStateRequest \cup ReportNetworkAccessStatusRequest

-----------------------------------------------------------------------------
(* Responses *)

PublishEventResponse               == [rpc : {"PublishEvent"}]
PublishEventToResponse             == [rpc : {"PublishEventTo"}]
PublishEventToInstallationResponse == [rpc : {"PublishEventToInstallation"}]
SetGlobalConfigEntryResponse       == [rpc : {"SetGlobalConfigEntry"}]
WriteInstanceStateResponse         == [rpc : {"WriteInstanceState"}]
ReportNetworkAccessStatusResponse  == [rpc : {"ReportNetworkAccessStatus"}]

HostListener                  == [name : {"api", "jellyfin", "abs"}]
GetHostInfoResponse           == [listeners : SUBSET HostListener]
Library                       == [id : Libraries]
ListLibrariesResponse         == [libraries : SUBSET Library]
MediaPresence                 == [externalId : Ints]
CheckMediaPresenceResponse    == [present : SUBSET MediaPresence]
\* An installation that advertises the capability or does not.
InstalledPlugin               == [id : Ints, capable : BOOLEAN]
ListInstalledPluginsResponse  == [plugins : SUBSET InstalledPlugin]
CatalogMediaItem              == [mediaId : Ints, library : Libraries, type : {"movie", "series"}]
ListLibraryMediaResponse      == [items : SUBSET CatalogMediaItem, total : Int32s]
CatalogTypeCount              == [type : {"movie", "series"}, count : Int32s]
CatalogLibraryCount           == [library : Libraries, count : Int32s]
GetCatalogStatsResponse       == [total : Int32s, typeCounts : SUBSET CatalogTypeCount,
                                  libraryCounts : SUBSET CatalogLibraryCount]
\* The paths that the host has a url for.
ResolveCatalogImageURLsResponse == [urls : SUBSET Ints]
MintScopedStreamResponse      == [playMethod : {"direct", "remux"}]
\* A body is empty, JSON, no JSON, or JSON past the limit.
CallPluginHTTPResponse        == [status : {200, 300, 400}, body : {"", "json", "bad", "long"}]
ReadInstanceStateResponse     == [found : BOOLEAN, value : Values \cup {Absent}]

Responses ==
  PublishEventResponse \cup PublishEventToResponse \cup PublishEventToInstallationResponse
  \cup SetGlobalConfigEntryResponse \cup WriteInstanceStateResponse
  \cup ReportNetworkAccessStatusResponse \cup GetHostInfoResponse \cup ListLibrariesResponse
  \cup CheckMediaPresenceResponse \cup ListInstalledPluginsResponse
  \cup ListLibraryMediaResponse \cup GetCatalogStatsResponse
  \cup ResolveCatalogImageURLsResponse \cup MintScopedStreamResponse
  \cup CallPluginHTTPResponse \cup ReadInstanceStateResponse
=============================================================================
