-------------------------------- MODULE Manifest --------------------------------
(***************************************************************************)
(* The manifest with its capability descriptors (pluginproto), the rules of  *)
(* pkg/pluginsdk/manifest for them, and the stored form of a capability       *)
(* (pkg/pluginsdk/convert).                                                *)
(*                                                                         *)
(* A type is one of KnownTypes, capability.go in short, a slug "slug", and a  *)
(* metadata value "absent", "true", "false" or "other" (not boolean).        *)
(*                                                                         *)
(* An SDK knows some names of the enums, known.  Binary messages keep a     *)
(* value it does not know, JSON drops it.  Message fields a newer SDK may    *)
(* add are left out, enum values and auth modes it may add are not.         *)
(***************************************************************************)
EXTENDS Integers, Sequences, Functions, ConfigSchemas

CONSTANTS
  MaxWatchSyncBatchSize,
  Rateable   \* media types a host can rate; a newer SDK adds to them

\* The service a node calls for a capability type; the backends have none.
CapabilityService ==
  [event |-> "EventConsumer", http |-> "HttpRoutes", task |-> "ScheduledTask",
   router |-> "RequestRouter", media |-> "MediaAnalyzer", auth |-> "AuthProvider",
   metadata |-> "MetadataProvider", image |-> "ImageResolver", marker |-> "MarkerProvider",
   scan |-> "ScanSource", watch |-> "WatchSyncProvider", network |-> "NetworkAccessProvider"]
KnownTypes   == DOMAIN CapabilityService \cup {"audiobook", "ebook"}
CaseVariants == {"Password", "OAuth2", "Network"}
Modes(d)     == Range(d.modes)

-----------------------------------------------------------------------------
(* Messages *)

WatchSyncAuthMethod == {"unspecified", "authorizationCode", "apiKey", "deviceCode"} \cup Later
WatchSyncMediaType  == {"unspecified", "movie", "episode", "series"} \cup Later

\* Of a default value it is kept whether it is a bool.
WatchSyncConnectionSetting ==
  [key : {"slug", "slug2", "other"}, label : BOOLEAN,
   type : {"unspecified", "boolean"} \cup Later, default : {"bool", "other", Absent}]

WatchSyncOperations ==
  {"exportWatched", "exportUnwatched", "importWatched", "importProgress", "importFavorites",
   "exportFavorites", "removeFavorites", "importWatchlist", "exportWatchlist",
   "removeWatchlist", "scrobblePlayback", "importRatings", "exportRatings", "syncDropped"}

\* The operations are a field each.
WatchSyncProviderDescriptor ==
  [methods : SUBSET WatchSyncAuthMethod, ops : SUBSET WatchSyncOperations, order : BOOLEAN,
   batch : Int, media : SUBSET WatchSyncMediaType, watchedFor : SUBSET WatchSyncMediaType,
   namespaces : SUBSET {"slug", "other"}, settings : Seq(WatchSyncConnectionSetting)]

\* The provider field of the descriptor.
NetworkAccessProviderDescriptor == {"slug", "other", ""}

\* A descriptor without or with wording, the latter within its limits or not.
RequestRouterDescriptor == {"plain", "wording", "badWording"}

CapabilityDescriptor ==
  [type : KnownTypes \cup Later, id : {"", "slug", "other"}, modes : Seq(STRING),
   conn : {"absent", "true", "false", "other"},
   network : NetworkAccessProviderDescriptor \cup {Absent},
   watch : WatchSyncProviderDescriptor \cup {Absent},
   router : RequestRouterDescriptor \cup {Absent}, schemas : Seq(ConfigSchema)]

\* basics: plugin_id, version and presentation are in order; schemas: the
\* global and the user config schemas; check: metadata "configuration_check".
PluginManifest ==
  [basics : BOOLEAN, check : {"absent", "true", "false", "other"},
   caps : Seq(CapabilityDescriptor), schemas : Seq(ConfigSchema)]

-----------------------------------------------------------------------------
(* What the host reads from a descriptor *)

\* AuthProviderUsesNetworkIdentity, AuthProviderSupportsConnectionTest
UsesNetworkIdentity(d)    == d.type = "auth" /\ "network" \in Modes(d)
SupportsConnectionTest(d) == d.type = "auth" /\ d.conn = "true"

\* The services outside CapabilityServers that a descriptor calls for.
Services(d) ==
  (IF SupportsConnectionTest(d) THEN {"AuthProviderChecks"} ELSE {})
  \cup (IF UsesNetworkIdentity(d) THEN {"AuthProviderChecks", "NetworkIdentityAuth"} ELSE {})

-----------------------------------------------------------------------------
(* Validate *)

\* A RatedMediaType that refuses what it does not define.
KnownRatedMediaType(media, known) == media \cap known \cap Rateable # {}

\* watchSyncSupportsRatedMediaType: a rateable type, or one not defined here.
RatedMediaType(media, known) == media \cap known \cap Rateable # {} \/ ~(media \subseteq known)

\* validateWatchSyncConnectionSettings
SettingsOK(settings) ==
  /\ IsInjective([i \in DOMAIN settings |-> settings[i].key])
  /\ \A i \in DOMAIN settings :
       /\ settings[i].key \in {"slug", "slug2"} /\ settings[i].label
       /\ settings[i].type = "boolean" => settings[i].default \in {"bool", Absent}

WatchDescriptorOK(w, known) ==
  /\ w.methods # {} /\ "unspecified" \notin w.methods
  /\ w.ops # {}
  /\ w.order => "importWatchlist" \in w.ops
  /\ w.batch \in 1..MaxWatchSyncBatchSize
  /\ w.media # {} /\ "unspecified" \notin w.media
  /\ w.ops \cap {"importRatings", "exportRatings"} # {} => RatedMediaType(w.media, known)
  /\ "syncDropped" \in w.ops => "series" \in w.media
  /\ w.watchedFor # {} => "exportRatings" \in w.ops
  /\ w.watchedFor \subseteq w.media
  /\ w.namespaces \subseteq {"slug"}
  /\ SettingsOK(w.settings)

WatchSyncOK(d, known) ==
  IF d.type # "watch" THEN d.watch = Absent
  ELSE d.id = "slug" /\ d.watch # Absent /\ WatchDescriptorOK(d.watch, known)

\* The descriptor is its provider field.
NetworkAccessOK(d) ==
  IF d.type # "network" THEN d.network = Absent ELSE d.network = "slug"

\* The descriptor is optional; only its wording can be wrong.
RequestRouterOK(d) ==
  /\ d.type # "router" => d.router = Absent
  /\ d.router # "badWording"

\* Auth modes in any combination.
AuthProviderMixed(d) ==
  d.type = "auth" =>
    /\ Modes(d) \cap ({""} \cup CaseVariants) = {}
    /\ IsInjective(d.modes)
    /\ d.conn # "other"

AuthProviderOK(d) ==
  d.type = "auth" =>
    /\ Modes(d) \cap ({""} \cup CaseVariants) = {}
    /\ IsInjective(d.modes)
    /\ "network" \in Modes(d) => Modes(d) \cap {"password", "oauth2"} = {}
    /\ d.conn # "other"

NetworkAuthPaired(m) ==
  (\E i \in DOMAIN m.caps : UsesNetworkIdentity(m.caps[i]))
    => \E i \in DOMAIN m.caps : m.caps[i].type = "network"

Valid(m, known) ==
  /\ m.basics
  /\ m.check # "other"
  /\ \A i \in DOMAIN m.caps :
       LET d == m.caps[i]
       IN  /\ d.type \in KnownTypes /\ d.id # ""
           /\ WatchSyncOK(d, known)
           /\ NetworkAccessOK(d)
           /\ RequestRouterOK(d)
           /\ AuthProviderOK(d)
  /\ NetworkAuthPaired(m)
  /\ SchemasOK(m.schemas)
  /\ \A i \in DOMAIN m.caps : SchemasOK(m.caps[i].schemas)

-----------------------------------------------------------------------------
(* JSON and stored capability records *)

SettingKnown(s, known) == [s EXCEPT !.type = KnownName(@, known)]

\* In a list the name an SDK does not know is dropped.
WatchKnown(w, known) ==
  [w EXCEPT !.methods = @ \cap known, !.media = @ \cap known, !.watchedFor = @ \cap known,
            !.settings = [i \in DOMAIN @ |-> SettingKnown(@[i], known)]]

\* DiscardUnknown
DropUnknown(d, known) ==
  [d EXCEPT !.watch = IF @ = Absent THEN Absent ELSE WatchKnown(@, known),
            !.schemas = SchemasKnown(@, known)]

\* protojson decoding of a manifest.
Decode(m, known) ==
  [m EXCEPT !.caps = [i \in DOMAIN @ |-> DropUnknown(@[i], known)],
            !.schemas = SchemasKnown(@, known)]

\* A CapabilityMetadata without the auth modes.
MetadataWithoutModes(d) ==
  LET keys == {k \in {"watch", "router"} : d[k] # Absent}
              \cup {k \in {"conn"} : d.conn # "absent"}
              \cup {k \in {"schemas"} : d.schemas # <<>>}
  IN  [k \in keys |-> d[k]]

\* capabilityMetadata: the keys that are set.
CapabilityMetadata(d) ==
  LET keys == {k \in {"watch", "router"} : d[k] # Absent}
              \cup {k \in {"conn"} : d.conn # "absent"}
              \cup {k \in {"modes", "schemas"} : d[k] # <<>>}
  IN  [k \in keys |-> d[k]]

CapabilityRecord(d) == [type |-> d.type, id |-> d.id, metadata |-> CapabilityMetadata(d)]

\* DecodeCapability, with the zero value for a missing key.
DecodeCapability(r, known) ==
  LET Get(k, zero) == IF k \in DOMAIN r.metadata THEN r.metadata[k] ELSE zero
  IN  DropUnknown([type |-> r.type, id |-> r.id, modes |-> Get("modes", <<>>),
                   conn |-> Get("conn", "absent"), network |-> Absent,
                   watch |-> Get("watch", Absent), router |-> Get("router", Absent),
                   schemas |-> Get("schemas", <<>>)], known)
=============================================================================
