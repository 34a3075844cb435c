------------------------------- MODULE Services -------------------------------
(***************************************************************************)
(* The gRPC services of pkg/pluginproto: the methods of each, as its client, *)
(* its Unimplemented server, its handlers and its ServiceDesc list them, and *)
(* what a call does on a process in which a server answers the service.     *)
(*                                                                         *)
(* A server is "none" (not registered), "nilptr" (a nil pointer in an        *)
(* interface) or "live".                                                   *)
(***************************************************************************)
EXTENDS Functions

Servers == {"none", "nilptr", "live"}

RuntimeMethods              == {"GetManifest", "Configure", "BindHostBroker"}
AuthProviderMethods         == {"Authenticate", "InitAuthorize", "ExchangeCode", "RefreshSession"}
AuthProviderChecksMethods   == {"TestConnection", "CheckAccount", "EndSessionUrl"}
NetworkIdentityAuthMethods  == {"AuthenticatePeer"}
ConfigurationChecksMethods  == {"TestConfiguration"}
EventConsumerMethods        == {"HandleEvent"}
HttpRoutesMethods           == {"Handle"}
MarkerProviderMethods       == {"FetchMarkers", "SubmitMarker", "GetMarkerProviderStats"}
MediaAnalyzerMethods        == {"Analyze"}
MetadataProviderMethods     == {"Search", "GetMetadata", "GetPersonDetail", "GetSeasons", "GetEpisodes",
                                "GetImages", "ResolveImageURL", "ResolveImageURLs"}
ImageResolverMethods        == {"ResolveImageURL", "ResolveImageURLs"}
NetworkAccessProviderMethods == {"Connect", "Disconnect", "GetStatus"}
RequestRouterMethods        == {"Fulfill", "CheckStatus", "ListConfigOptions", "TestConnection", "Validate"}
ScanSourceMethods           == {"PollChanges"}
ScheduledTaskMethods        == {"Run"}
WatchSyncProviderMethods    == {"InitAuthorize", "ExchangeCode", "ExchangeAPIKey", "RefreshCredentials",
                                "GetAccount", "ApplyEvents", "ListRemoteState"}
WatchSyncDeviceMethods      == {"Start", "Poll"}

\* The services of a plugin process.
Methods ==
  [Runtime |-> RuntimeMethods, AuthProvider |-> AuthProviderMethods,
   AuthProviderChecks |-> AuthProviderChecksMethods,
   NetworkIdentityAuth |-> NetworkIdentityAuthMethods,
   ConfigurationChecks |-> ConfigurationChecksMethods,
   EventConsumer |-> EventConsumerMethods, HttpRoutes |-> HttpRoutesMethods,
   MarkerProvider |-> MarkerProviderMethods, MediaAnalyzer |-> MediaAnalyzerMethods,
   MetadataProvider |-> MetadataProviderMethods, ImageResolver |-> ImageResolverMethods,
   NetworkAccessProvider |-> NetworkAccessProviderMethods,
   RequestRouter |-> RequestRouterMethods, ScanSource |-> ScanSourceMethods,
   ScheduledTask |-> ScheduledTaskMethods, WatchSyncProvider |-> WatchSyncProviderMethods,
   WatchSyncDeviceAuthorization |-> WatchSyncDeviceMethods]

\* CapabilityServers without Runtime, and the services kept out of it.
Fields       == {"MetadataProvider", "ImageResolver", "MarkerProvider", "MediaAnalyzer",
                 "ScheduledTask", "ScanSource", "RequestRouter", "EventConsumer",
                 "AuthProvider", "HttpRoutes", "WatchSyncProvider", "NetworkAccessProvider"}
AuthServices == {"AuthProviderChecks", "NetworkIdentityAuth"}
Optional     == AuthServices \cup {"ConfigurationChecks", "WatchSyncDeviceAuthorization"}
AllServices  == DOMAIN Methods

\* What may become of a call of method m of s: a service or method that is not
\* there is Unimplemented, as is what a live server leaves to the Unimplemented
\* server it embeds; a nil pointer is dereferenced, and grpc recovers nothing.
Outcomes(server, s, m) ==
  CASE server = "none" \/ m \notin Methods[s] -> {"unimplemented"}
    [] server = "live" /\ m \in Methods[s]    -> {"served", "unimplemented"}
    [] OTHER                                  -> {"served", "unimplemented", "panic"}

\* Registering a server calls the testEmbeddedByValue of the Unimplemented
\* server it embeds, which on a nil pointer panics.  A type that embeds none, or
\* two, has no such method and is registered as it is.
RegisterOutcomes(server) ==
  CASE server = "none"   -> {"skipped"}
    [] server = "live"   -> {"registered"}
    [] server = "nilptr" -> {"registered", "panic"}
=============================================================================
