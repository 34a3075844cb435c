--------------------------------- MODULE Plugin ---------------------------------
(***************************************************************************)
(* A plugin process from its manifest.json to the services it registers and *)
(* the calls it gets, and the host nodes that decide from stored capability  *)
(* records which services to call: ServeManifestWithOptions,                *)
(* manifestServeConfig, Serve and registerServers of pkg/pluginsdk/runtime,  *)
(* LoadWithChecksum of pkg/pluginsdk/manifest, pkg/pluginsdk/convert.        *)
(*                                                                         *)
(* The author passes servers (see Services) as fields of CapabilityServers   *)
(* or through ServeManifest options; the AuthProvider may implement further  *)
(* services itself.  An author who writes the Runtime server serves          *)
(* directly: Serve takes no options, but a plugin set that may hold the       *)
(* device authorization.                                                     *)
(***************************************************************************)
EXTENDS Manifest, Services

CONSTANTS
  Manifests,  \* the manifests an author may write
  Authors,    \* the servers an author may pass
  SDKKnows,   \* enum names the plugin's SDK knows
  Nodes,      \* host nodes sharing one database
  Knows       \* enum names the SDK of each node knows

Nothing == [s \in Optional |-> "none"]
Given   == [direct : BOOLEAN, servers : [Fields \cup {"Runtime"} -> Servers],
            also : SUBSET AuthServices, options : [Optional -> Servers]]

ASSUME KnowsAssumption == Knows \in [Nodes -> SUBSET SDKKnows]
ASSUME ManifestsAssumption == Manifests \subseteq PluginManifest
ASSUME AuthorsAssumption ==
  Authors \subseteq {g \in Given : /\ g.servers["AuthProvider"] = "none" => g.also = {}
                                   /\ g.direct =>
                                        \A s \in Optional \ {"WatchSyncDeviceAuthorization"} :
                                          g.options[s] = "none"}

VARIABLES
  source,      \* manifest.json, fixed
  given,       \* the servers the author passes, fixed
  phase,       \* the process: "start", "loaded", "wired", "serving", "exited", "dead"
  manifest,    \* the decoded manifest of the process
  optional,    \* optionalServices of the plugin set
  registered,  \* what answers each service
  records,     \* capability records in the database
  loaded       \* per node: the descriptors it decoded

process == <<phase, manifest, optional, registered>>
vars    == <<source, given, phase, manifest, optional, registered, records, loaded>>

NoServer == [s \in AllServices |-> "none"]
Empty    == [basics |-> FALSE, check |-> "absent", caps |-> <<>>, schemas |-> <<>>]

Init ==
  /\ source \in Manifests
  /\ given \in Authors
  /\ phase = "start"
  /\ manifest = Empty /\ optional = Nothing /\ registered = NoServer
  /\ records = <<>>
  /\ loaded = [n \in Nodes |-> <<>>]

\* A resolveAuthService for which an interface that is not nil is a server.
ResolveTrustsNil(s) ==
  CASE given.options[s] # "none" -> given.options[s]
    [] given.options[s] = "none" /\ s \in given.also -> given.servers["AuthProvider"]
    [] OTHER -> "none"

\* resolveAuthService: the option's server, the AuthProvider if it implements
\* the service, or none; a nil pointer counts as none.
ResolveAuthService(s) ==
  CASE given.options[s] = "live" -> "live"
    [] given.options[s] # "live" /\ s \in given.also -> given.servers["AuthProvider"]
    [] OTHER -> "none"

\* The options as they were given.
OptionsAsGiven == given.options

\* manifestServeConfig drops a nil pointer for ConfigurationChecks.
OptionalServices ==
  [given.options EXCEPT !["ConfigurationChecks"] = IF @ = "nilptr" THEN "none" ELSE @]

\* A Server that forgets the newest field of CapabilityServers.
ServerForgotten(s) ==
  CASE s \in AuthServices            -> ResolveAuthService(s)
    [] s \in Optional \ AuthServices -> OptionalServices[s]
    [] s = "NetworkAccessProvider"   -> "none"
    [] s \in Fields \ {"NetworkAccessProvider"} -> given.servers[s]
    [] s = "Runtime" -> IF given.direct THEN given.servers["Runtime"] ELSE "live"

\* What answers s once it is registered.  ServeManifest brings its own Runtime.
Server(s) ==
  CASE s \in AuthServices            -> ResolveAuthService(s)
    [] s \in Optional \ AuthServices -> OptionalServices[s]
    [] s \in Fields                  -> given.servers[s]
    [] s = "Runtime" -> IF given.direct THEN given.servers["Runtime"] ELSE "live"

\* The services the manifest calls for.
Declared(m) ==
  (UNION {Services(m.caps[i]) : i \in DOMAIN m.caps})
  \cup (IF m.check = "true" THEN {"ConfigurationChecks"} ELSE {})

-----------------------------------------------------------------------------
(* The plugin process *)

\* LoadWithChecksum decodes and validates the embedded manifest, or panics.
Load ==
  /\ phase = "start"
  /\ LET m == Decode(source, SDKKnows)
     IN  IF Valid(m, SDKKnows)
         THEN phase' = "loaded" /\ manifest' = m
         ELSE phase' = "dead" /\ UNCHANGED manifest
  /\ UNCHANGED <<source, given, optional, registered, records, loaded>>

\* manifestServeConfig panics if a declared service has no server.
ServeConfig ==
  /\ phase = "loaded" /\ ~given.direct
  /\ IF \E s \in Declared(manifest) : Server(s) = "none"
     THEN phase' = "dead" /\ UNCHANGED optional
     ELSE phase' = "wired" /\ optional' = OptionalServices
  /\ UNCHANGED <<source, given, manifest, registered, records, loaded>>

\* An author with a Runtime server of his own passes the servers to Serve, in
\* the default plugin set or in that with the device authorization.
ServeDirect ==
  /\ phase = "loaded" /\ given.direct
  /\ phase' = "wired" /\ optional' = given.options
  /\ UNCHANGED <<source, given, manifest, registered, records, loaded>>

\* Serve started as "manifest" prints the manifest, or fails, and exits.
PrintManifest ==
  /\ phase = "wired"
  /\ phase' = IF Server("Runtime") = "live" THEN "exited" ELSE "dead"
  /\ UNCHANGED <<source, given, manifest, optional, registered, records, loaded>>

\* registerServers and GRPCServer: the auth services are resolved once more,
\* every server that is not nil is registered; without a Runtime it fails.
Register ==
  /\ phase = "wired"
  /\ Server("Runtime") # "none"
  /\ phase' = "serving"
  /\ registered' = [s \in AllServices |->
       IF s \in Optional \ AuthServices THEN optional[s] ELSE Server(s)]
  /\ UNCHANGED <<source, given, manifest, optional, records, loaded>>

RegisterFails ==
  /\ phase = "wired"
  /\ \/ Server("Runtime") = "none"
     \/ \E s \in AllServices : "panic" \in RegisterOutcomes(Server(s))
  /\ phase' = "dead"
  /\ UNCHANGED <<source, given, manifest, optional, registered, records, loaded>>

\* A call that panics ends the process; any other leaves it as it is.
HostCalls(s, m) ==
  /\ phase = "serving"
  /\ "panic" \in Outcomes(registered[s], s, m)
  /\ phase' = "dead"
  /\ UNCHANGED <<source, given, manifest, optional, registered, records, loaded>>

\* The process ends and the host starts the binary again.
Restart ==
  /\ phase # "start"
  /\ phase' = "start"
  /\ manifest' = Empty /\ optional' = Nothing /\ registered' = NoServer
  /\ UNCHANGED <<source, given, records, loaded>>

-----------------------------------------------------------------------------
(* The host *)

\* GetManifest over the wire; a node with the plugin's SDK stores the records.
Install ==
  /\ phase = "serving"
  /\ records' = [i \in DOMAIN manifest.caps |-> CapabilityRecord(manifest.caps[i])]
  /\ UNCHANGED <<source, given, process, loaded>>

\* A node decodes the records with its own SDK.
LoadRecords(n) ==
  /\ loaded' = [loaded EXCEPT ![n] =
       [i \in DOMAIN records |-> DecodeCapability(records[i], Knows[n])]]
  /\ UNCHANGED <<source, given, process, records>>

Next ==
  \/ Load \/ ServeConfig \/ ServeDirect \/ PrintManifest \/ Register \/ RegisterFails
  \/ \E s \in AllServices : \E m \in Methods[s] : HostCalls(s, m)
  \/ Restart
  \/ Install \/ \E n \in Nodes : LoadRecords(n)

Spec == Init /\ [][Next]_vars

-----------------------------------------------------------------------------
(* Properties *)

TypeOK ==
  /\ phase \in {"start", "loaded", "wired", "serving", "exited", "dead"}
  /\ optional \in [Optional -> Servers] /\ registered \in [AllServices -> Servers]
  /\ optional["ConfigurationChecks"] # "nilptr"
  /\ DOMAIN records \subseteq DOMAIN source.caps
  /\ \A n \in Nodes : DOMAIN loaded[n] \subseteq DOMAIN source.caps

\* What a node calls because of a descriptor, or of the records it decoded.
CallsFor(d) ==
  Services(d)
  \cup {CapabilityService[t] : t \in {d.type} \cap DOMAIN CapabilityService}
  \cup {s \in {"WatchSyncDeviceAuthorization"} :
          d.type = "watch" /\ d.watch # Absent /\ "deviceCode" \in d.watch.methods}
Called(n)   == UNION {CallsFor(loaded[n][i]) : i \in DOMAIN loaded[n]}

\* A service that a node calls, because of what it decoded from the database or
\* of the manifest's configuration_check, is answered by a live server, not by
\* Unimplemented and not by a nil pointer.  Left out: an author who skips the
\* start-up checks or passes a nil pointer in CapabilityServers, and a capability
\* or device authorization for which he passed no server, which nothing checks.
CallsReachServer ==
  phase = "serving" /\ ~given.direct /\ (\A f \in Fields : given.servers[f] # "nilptr") =>
    \A s \in Declared(manifest) \cup UNION {Called(n) : n \in Nodes} :
      \/ registered[s] = "live"
      \/ s \in Fields /\ given.servers[s] = "none"
      \/ s = "WatchSyncDeviceAuthorization" /\ given.options[s] # "live"

\* Once the configuration is accepted, no call of the host and no registration
\* ends the process ("startup fails instead of the first AuthenticatePeer
\* panicking"), but for a nil pointer that nothing checks: one in
\* CapabilityServers or for the device authorization.
OnlyUncheckedNilsKill ==
  [][(phase \in {"wired", "serving"} /\ phase' = "dead")
       => (\/ given.direct
           \/ \E f \in Fields : given.servers[f] = "nilptr"
           \/ given.options["WatchSyncDeviceAuthorization"] = "nilptr")]_vars

\* No node forgets a service on the way through the database: what it decodes
\* calls for the same services as what the plugin validated.
DecisionsKept ==
  phase = "serving" =>
    \A n \in Nodes : \A i \in DOMAIN loaded[n] :
      Services(loaded[n][i]) = Services(manifest.caps[i])

\* A node that signs people in by network identity has the plugin's network
\* access capability on record, and no way to send that provider a password.
NetworkSignInAlone ==
  \A n \in Nodes : \A i \in DOMAIN loaded[n] :
    UsesNetworkIdentity(loaded[n][i]) =>
      /\ Modes(loaded[n][i]) \cap {"password", "oauth2"} = {}
      /\ \E j \in DOMAIN loaded[n] : loaded[n][j].type = "network"

\* A running plugin's manifest, sent over the wire, is valid for a node whose
\* SDK knows fewer enum names (watchSyncSupportsRatedMediaType: "a descriptor
\* built against a newer SDK stays valid here").
NewerStaysValid ==
  phase = "serving" => \A n \in Nodes : Valid(manifest, Knows[n])

\* Whatever names a node does not know, the forms and connection settings it
\* decodes from the database still keep to the rules by which a client draws them.
FormsStayValid ==
  phase = "serving" =>
    \A n \in Nodes : \A i \in DOMAIN loaded[n] :
      LET d == loaded[n][i]
      IN  /\ SchemasOK(d.schemas)
          /\ d.watch # Absent => SettingsOK(d.watch.settings)

\* A node whose SDK knows every name gets back what was stored: it "only loses
\* the parts added after its own SDK version".
RecordsComplete ==
  phase = "serving" =>
    \A n \in Nodes : loaded[n] # <<>> /\ Knows[n] = SDKKnows => loaded[n] = manifest.caps
=============================================================================
