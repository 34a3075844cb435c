------------------------------ MODULE PluginProofs ------------------------------
(***************************************************************************)
(* Theorems about Plugin, for every set of manifests, every set of nodes    *)
(* and whatever names their SDKs know.                                     *)
(***************************************************************************)
EXTENDS Plugin, TLAPS

Decoded == Decode(source, SDKKnows)

\* A checked process holds the decoded manifest.
Checked ==
  phase \in {"loaded", "wired", "serving"} => manifest = Decoded /\ Valid(Decoded, SDKKnows)

\* A wired process has a server for all that its manifest declares.
Wired ==
  phase \in {"wired", "serving"} =>
    /\ optional = OptionalServices
    /\ ~given.direct => \A s \in Declared(manifest) : Server(s) # "none"

Answers == phase = "serving" => registered = [s \in AllServices |-> Server(s)]

\* The database holds nothing or the records of the one valid manifest.
Stored ==
  \/ DOMAIN records = {}
  \/ /\ Valid(Decoded, SDKKnows)
     /\ DOMAIN records = DOMAIN Decoded.caps
     /\ \A i \in DOMAIN records : records[i] = CapabilityRecord(Decoded.caps[i])

\* A node has loaded nothing or all of these records.
Loaded(n) ==
  \/ DOMAIN loaded[n] = {}
  \/ /\ Valid(Decoded, SDKKnows)
     /\ DOMAIN loaded[n] = DOMAIN Decoded.caps
     /\ \A i \in DOMAIN loaded[n] :
          loaded[n][i] = DecodeCapability(CapabilityRecord(Decoded.caps[i]), Knows[n])

Types ==
  /\ source \in Manifests /\ given \in Authors
  /\ phase \in {"start", "loaded", "wired", "serving", "exited", "dead"}
  /\ optional \in [Optional -> Servers] /\ registered \in [AllServices -> Servers]
  /\ optional["ConfigurationChecks"] # "nilptr"
  /\ DOMAIN loaded = Nodes

IInv == Types /\ Checked /\ Wired /\ Answers /\ Stored /\ \A n \in Nodes : Loaded(n)

-----------------------------------------------------------------------------
(* Facts about the operators *)

\* Decoding keeps the capabilities in place.
LEMMA DecodedCaps ==
  ASSUME source \in Manifests
  PROVE  DOMAIN Decoded.caps = DOMAIN source.caps
<1>1. "caps" \in DOMAIN source
  BY ManifestsAssumption DEF PluginManifest
<1>2. Decoded.caps = [i \in DOMAIN source.caps |-> DropUnknown(source.caps[i], SDKKnows)]
  BY <1>1, Zenon DEF Decoded, Decode
<1> QED
  BY <1>2

\* What DiscardUnknown leaves alone.
LEMMA DropKeeps ==
  ASSUME NEW d, NEW known, NEW k \in DOMAIN d, k # "watch", k # "schemas"
  PROVE  DropUnknown(d, known)[k] = d[k]
BY Zenon DEF DropUnknown

LEMMA AllServicesAre ==
  AllServices = Fields \cup Optional \cup {"Runtime"}
BY DEF AllServices, Methods, Fields, Optional, AuthServices

\* A server an option or the AuthProvider gives is what was passed.
LEMMA ServerType ==
  ASSUME given \in Given
  PROVE  /\ OptionalServices \in [Optional -> Servers]
         /\ OptionalServices["ConfigurationChecks"] # "nilptr"
         /\ OptionalServices["WatchSyncDeviceAuthorization"] = given.options["WatchSyncDeviceAuthorization"]
         /\ \A s \in AllServices : Server(s) \in Servers
         /\ given.servers["AuthProvider"] # "nilptr" =>
              \A s \in AuthServices \cup {"ConfigurationChecks"} : Server(s) \in {"none", "live"}
<1>1. given.servers["AuthProvider"] \in Servers /\ given.options \in [Optional -> Servers]
  BY DEF Given, Fields
<1>2. /\ OptionalServices \in [Optional -> Servers]
      /\ OptionalServices["ConfigurationChecks"] # "nilptr"
      /\ OptionalServices["WatchSyncDeviceAuthorization"] = given.options["WatchSyncDeviceAuthorization"]
  BY <1>1 DEF OptionalServices, Servers, Optional
<1>3. \A s \in AuthServices : /\ ResolveAuthService(s) \in Servers
                              /\ given.servers["AuthProvider"] # "nilptr" => ResolveAuthService(s) # "nilptr"
  BY <1>1 DEF ResolveAuthService, Servers
<1>4. \A s \in AuthServices : Server(s) = ResolveAuthService(s)
  BY DEF Server, Optional, AuthServices, Fields
<1>5. \A s \in Optional \ AuthServices : Server(s) = OptionalServices[s]
  BY DEF Server, Optional, AuthServices, Fields
<1>6. \A s \in Fields \cup {"Runtime"} : Server(s) \in Servers
  BY DEF Server, Optional, AuthServices, Fields, Given, Servers
<1>7. \A s \in AllServices : Server(s) \in Servers
  BY <1>2, <1>3, <1>4, <1>5, <1>6, AllServicesAre DEF Optional
<1> QED
  BY <1>2, <1>3, <1>4, <1>5, <1>7 DEF Servers, Optional, AuthServices

\* Without ConfigurationChecks there is no nil pointer to drop.
LEMMA NoOptions ==
  ASSUME given \in Authors, given.direct
  PROVE  OptionalServices = given.options
<1>1. given.options \in [Optional -> Servers] /\ given.options["ConfigurationChecks"] = "none"
  BY AuthorsAssumption DEF Given, Optional
<1> QED
  BY <1>1 DEF OptionalServices, Optional

LEMMA AuthorGiven == ASSUME given \in Authors PROVE given \in Given
BY AuthorsAssumption

\* The trip through the database keeps the type, the auth modes and the
\* connection test, hence the services a descriptor calls for.
LEMMA RoundTrip ==
  ASSUME NEW d, NEW known
  PROVE  LET r == DecodeCapability(CapabilityRecord(d), known)
         IN  r.type = d.type /\ r.modes = d.modes /\ r.conn = d.conn
<1> DEFINE rec == CapabilityRecord(d)
           meta == rec.metadata
<1>1. rec.type = d.type /\ meta = CapabilityMetadata(d)
  BY DEF CapabilityRecord
<1>2. /\ "modes" \in DOMAIN meta <=> d.modes # <<>>
      /\ d.modes # <<>> => meta["modes"] = d.modes
  BY <1>1 DEF CapabilityMetadata
<1>3. /\ "conn" \in DOMAIN meta <=> d.conn # "absent"
      /\ d.conn # "absent" => meta["conn"] = d.conn
  BY <1>1 DEF CapabilityMetadata
<1> DEFINE Get(k, zero) == IF k \in DOMAIN meta THEN meta[k] ELSE zero
           stored == [type |-> rec.type, id |-> rec.id, modes |-> Get("modes", <<>>),
                      conn |-> Get("conn", "absent"), network |-> Absent,
                      watch |-> Get("watch", Absent), router |-> Get("router", Absent),
                      schemas |-> Get("schemas", <<>>)]
<1>4. DecodeCapability(rec, known) = DropUnknown(stored, known)
  BY Zenon DEF DecodeCapability
<1>5. stored.type = d.type /\ stored.modes = d.modes /\ stored.conn = d.conn
  BY <1>1, <1>2, <1>3
<1>6. {"type", "modes", "conn"} \subseteq DOMAIN stored
  OBVIOUS
<1> HIDE DEF stored
<1>7. \A k \in {"type", "modes", "conn"} : DropUnknown(stored, known)[k] = stored[k]
  BY <1>6, DropKeeps
<1> QED
  BY <1>4, <1>5, <1>7

LEMMA ServicesKept ==
  ASSUME NEW d, NEW known
  PROVE  LET r == DecodeCapability(CapabilityRecord(d), known)
         IN  Services(r) = Services(d) /\ (UsesNetworkIdentity(r) <=> UsesNetworkIdentity(d))
BY RoundTrip DEF Services, UsesNetworkIdentity, SupportsConnectionTest, Modes

\* A manifest valid for an SDK is valid for one that knows fewer names.
LEMMA ValidForFewer ==
  ASSUME NEW m, NEW known, NEW fewer \in SUBSET known, Valid(m, known)
  PROVE  Valid(m, fewer)
<1>1. ASSUME NEW media, RatedMediaType(media, known)
      PROVE  RatedMediaType(media, fewer)
  BY <1>1 DEF RatedMediaType
<1>2. ASSUME NEW w, WatchDescriptorOK(w, known)
      PROVE  WatchDescriptorOK(w, fewer)
  BY <1>1, <1>2 DEF WatchDescriptorOK
<1>3. ASSUME NEW d, WatchSyncOK(d, known)
      PROVE  WatchSyncOK(d, fewer)
  BY <1>2, <1>3 DEF WatchSyncOK
<1> QED
  BY <1>3 DEF Valid

-----------------------------------------------------------------------------
(* Forms and connection settings *)

SameButControl(g, f) ==
  /\ g.key = f.key /\ g.dynamicOptions = f.dynamicOptions /\ g.options = f.options
  /\ g.default = f.default /\ g.showWhen = f.showWhen /\ g.group = f.group

\* A control or a type whose name is not known becomes "unspecified", all else
\* of a field or setting stays.
LEMMA FieldKept ==
  ASSUME NEW f \in AdminFormField, NEW known
  PROVE  /\ FieldKnown(f, known) \in AdminFormField
         /\ FieldKnown(f, known).control \in {f.control, "unspecified"}
         /\ SameButControl(FieldKnown(f, known), f)
BY DEF AdminFormField, AdminFormControl, AdminFormCondition, FieldKnown, KnownName, SameButControl

LEMMA SettingKept ==
  ASSUME NEW s \in WatchSyncConnectionSetting, NEW known
  PROVE  /\ SettingKnown(s, known) \in WatchSyncConnectionSetting
         /\ SettingKnown(s, known).type \in {s.type, "unspecified"}
         /\ SettingKnown(s, known).key = s.key
         /\ SettingKnown(s, known).label = s.label
         /\ SettingKnown(s, known).default = s.default
BY DEF WatchSyncConnectionSetting, SettingKnown, KnownName

LEMMA FormKept ==
  ASSUME NEW form \in AdminFormDescriptor, NEW known
  PROVE  LET g == FormKnown(form, known)
         IN  /\ g \in AdminFormDescriptor
             /\ g.sections = form.sections
             /\ DOMAIN g.fields = DOMAIN form.fields
             /\ \A i \in DOMAIN form.fields : g.fields[i] = FieldKnown(form.fields[i], known)
<1> DEFINE fields == [i \in DOMAIN form.fields |-> FieldKnown(form.fields[i], known)]
<1>1. form = [fields |-> form.fields, sections |-> form.sections]
      /\ form.fields \in Seq(AdminFormField) /\ form.sections \in Seq(AdminFormSection)
  BY DEF AdminFormDescriptor
<1>2. FormKnown(form, known) = [fields |-> fields, sections |-> form.sections]
  BY <1>1 DEF FormKnown
<1>3. \A i \in DOMAIN form.fields : FieldKnown(form.fields[i], known) \in AdminFormField
  BY <1>1, FieldKept
<1>4. fields \in Seq(AdminFormField)
  BY <1>1, <1>3
<1> QED
  BY <1>1, <1>2, <1>4 DEF AdminFormDescriptor

\* A schema that keeps to the rules keeps to them without the names not known.
LEMMA SchemaKept ==
  ASSUME NEW s \in ConfigSchema, NEW known
  PROVE  /\ SchemaKnown(s, known) \in ConfigSchema
         /\ SchemaOK(s) => SchemaOK(SchemaKnown(s, known))
<1>1. CASE s.form = Absent
  BY <1>1 DEF SchemaKnown
<1>2. CASE s.form # Absent
  <2> DEFINE t == SchemaKnown(s, known)
  <2>1. s.form \in AdminFormDescriptor
    BY <1>2 DEF ConfigSchema
  <2>2. /\ t = [s EXCEPT !.form = FormKnown(s.form, known)]
        /\ t.json = s.json /\ t.properties = s.properties /\ t.form = FormKnown(s.form, known)
    BY <1>2 DEF SchemaKnown, ConfigSchema
  <2>3. t \in ConfigSchema
    BY <2>1, <2>2, FormKept DEF ConfigSchema
  <2>4. /\ t.form.sections = s.form.sections
        /\ DOMAIN t.form.fields = DOMAIN s.form.fields
        /\ \A i \in DOMAIN s.form.fields :
             /\ t.form.fields[i].control \in {s.form.fields[i].control, "unspecified"}
             /\ SameButControl(t.form.fields[i], s.form.fields[i])
    <3>1. \A i \in DOMAIN s.form.fields : s.form.fields[i] \in AdminFormField
      BY <2>1 DEF AdminFormDescriptor
    <3> QED
      BY <2>1, <2>2, <3>1, FormKept, FieldKept
  <2>5. ASSUME SchemaOK(s) PROVE SchemaOK(t)
    <3> HIDE DEF t
    <3>1. FieldKeys(t.form) = FieldKeys(s.form)
      BY <2>4 DEF FieldKeys, SameButControl
    <3>2. References(t) = References(s)
      BY <2>2, <3>1 DEF References
    <3>3. IsInjective([i \in DOMAIN t.form.fields |-> t.form.fields[i].key])
      <4>1. [i \in DOMAIN t.form.fields |-> t.form.fields[i].key]
              = [i \in DOMAIN s.form.fields |-> s.form.fields[i].key]
        BY <2>4 DEF SameButControl
      <4> QED
        BY <1>2, <2>5, <4>1 DEF SchemaOK
    <3>4. ASSUME NEW i \in DOMAIN t.form.fields
          PROVE  /\ FieldOK(t, t.form.fields[i])
                 /\ t.form.fields[i].showWhen \subseteq References(t)
                 /\ t.form.fields[i].group \in References(t) \cup {""}
      <4> DEFINE f == s.form.fields[i]
                 g == t.form.fields[i]
      <4>1. /\ FieldOK(s, f)
            /\ f.showWhen \subseteq References(s) /\ f.group \in References(s) \cup {""}
        BY <1>2, <2>4, <2>5, <3>4 DEF SchemaOK
      <4>2. g.control \in {f.control, "unspecified"} /\ SameButControl(g, f)
        BY <2>4, <3>4
      <4> HIDE DEF f, g
      <4>3. FieldOK(t, g)
        BY <2>2, <4>1, <4>2 DEF FieldOK, SameButControl
      <4>4. g.showWhen \subseteq References(t) /\ g.group \in References(t) \cup {""}
        BY <3>2, <4>1, <4>2 DEF SameButControl
      <4> QED
        BY <4>3, <4>4 DEF g
    <3>5. ASSUME NEW i \in DOMAIN t.form.sections
          PROVE  /\ t.form.sections[i].fieldKeys \subseteq FieldKeys(t.form)
                 /\ t.form.sections[i].showWhen \subseteq References(t)
      BY <1>2, <2>4, <2>5, <3>1, <3>2, <3>5 DEF SchemaOK
    <3> QED
      BY <1>2, <2>2, <2>5, <3>3, <3>4, <3>5 DEF SchemaOK
  <2> QED
    BY <2>3, <2>5
<1> QED
  BY <1>1, <1>2

\* A descriptor with forms and settings of the right type, and in order.
HasForms(d) ==
  /\ {"watch", "schemas"} \subseteq DOMAIN d
  /\ d.schemas \in Seq(ConfigSchema)
  /\ d.watch # Absent => /\ "settings" \in DOMAIN d.watch
                         /\ d.watch.settings \in Seq(WatchSyncConnectionSetting)

FormsOK(d) == SchemasOK(d.schemas) /\ (d.watch # Absent => SettingsOK(d.watch.settings))

LEMMA DropForms ==
  ASSUME NEW d, NEW known, HasForms(d)
  PROVE  HasForms(DropUnknown(d, known)) /\ (FormsOK(d) => FormsOK(DropUnknown(d, known)))
<1> DEFINE r == DropUnknown(d, known)
<1>1. /\ r.schemas = SchemasKnown(d.schemas, known)
      /\ r.watch = IF d.watch = Absent THEN Absent ELSE WatchKnown(d.watch, known)
      /\ DOMAIN r = DOMAIN d
  BY Zenon DEF HasForms, DropUnknown
<1> HIDE DEF r
<1>2. r.schemas \in Seq(ConfigSchema) /\ (SchemasOK(d.schemas) => SchemasOK(r.schemas))
  <2>1. r.schemas = [i \in DOMAIN d.schemas |-> SchemaKnown(d.schemas[i], known)]
    BY <1>1 DEF SchemasKnown
  <2>2. \A i \in DOMAIN d.schemas : d.schemas[i] \in ConfigSchema
    BY DEF HasForms
  <2>3. \A i \in DOMAIN d.schemas :
          /\ SchemaKnown(d.schemas[i], known) \in ConfigSchema
          /\ SchemaOK(d.schemas[i]) => SchemaOK(SchemaKnown(d.schemas[i], known))
    BY <2>2, SchemaKept
  <2> QED
    BY <2>1, <2>3 DEF HasForms, SchemasOK
<1>3. ASSUME r.watch # Absent
      PROVE  /\ "settings" \in DOMAIN r.watch
             /\ r.watch.settings \in Seq(WatchSyncConnectionSetting)
             /\ SettingsOK(d.watch.settings) => SettingsOK(r.watch.settings)
  <2> DEFINE ss == d.watch.settings
             ts == r.watch.settings
  <2>1. d.watch # Absent /\ r.watch = WatchKnown(d.watch, known)
    BY <1>1, <1>3
  <2>2. "settings" \in DOMAIN d.watch /\ ss \in Seq(WatchSyncConnectionSetting)
    BY <2>1 DEF HasForms
  <2>3. "settings" \in DOMAIN r.watch /\ ts = [i \in DOMAIN ss |-> SettingKnown(ss[i], known)]
    BY <2>1, <2>2, Zenon DEF WatchKnown
  <2>4. \A i \in DOMAIN ss :
          /\ SettingKnown(ss[i], known) \in WatchSyncConnectionSetting
          /\ SettingKnown(ss[i], known).type \in {ss[i].type, "unspecified"}
          /\ SettingKnown(ss[i], known).key = ss[i].key
          /\ SettingKnown(ss[i], known).label = ss[i].label
          /\ SettingKnown(ss[i], known).default = ss[i].default
    <3>1. \A i \in DOMAIN ss : ss[i] \in WatchSyncConnectionSetting
      BY <2>2
    <3> QED
      BY <3>1, SettingKept
  <2>5. ts \in Seq(WatchSyncConnectionSetting)
    BY <2>2, <2>3, <2>4
  <2>6. ASSUME SettingsOK(ss) PROVE SettingsOK(ts)
    <3> HIDE DEF ss, ts
    <3>1. [i \in DOMAIN ts |-> ts[i].key] = [i \in DOMAIN ss |-> ss[i].key]
      BY <2>3, <2>4
    <3> QED
      BY <2>3, <2>4, <2>6, <3>1 DEF SettingsOK
  <2> QED
    BY <2>3, <2>5, <2>6
<1>4. d.watch = Absent => r.watch = Absent
  BY <1>1
<1>5. HasForms(r)
  BY <1>1, <1>2, <1>3 DEF HasForms
<1>6. FormsOK(d) => FormsOK(r)
  BY <1>2, <1>3, <1>4 DEF FormsOK
<1> QED
  BY <1>5, <1>6 DEF r

\* The trip through the database keeps forms and settings in order.
LEMMA RoundTripForms ==
  ASSUME NEW d, NEW known, HasForms(d), FormsOK(d)
  PROVE  FormsOK(DecodeCapability(CapabilityRecord(d), known))
<1> DEFINE rec == CapabilityRecord(d)
           meta == rec.metadata
           Get(k, zero) == IF k \in DOMAIN meta THEN meta[k] ELSE zero
           stored == [type |-> rec.type, id |-> rec.id, modes |-> Get("modes", <<>>),
                      conn |-> Get("conn", "absent"), network |-> Absent,
                      watch |-> Get("watch", Absent), router |-> Get("router", Absent),
                      schemas |-> Get("schemas", <<>>)]
<1>1. meta = CapabilityMetadata(d)
  BY DEF CapabilityRecord
<1>2. /\ "schemas" \in DOMAIN meta <=> d.schemas # <<>>
      /\ d.schemas # <<>> => meta["schemas"] = d.schemas
      /\ "watch" \in DOMAIN meta <=> d.watch # Absent
      /\ d.watch # Absent => meta["watch"] = d.watch
  BY <1>1 DEF CapabilityMetadata
<1>3. stored.schemas = d.schemas /\ stored.watch = d.watch
  BY <1>2
<1>4. {"watch", "schemas"} \subseteq DOMAIN stored
  OBVIOUS
<1>5. DecodeCapability(rec, known) = DropUnknown(stored, known)
  BY Zenon DEF DecodeCapability
<1> HIDE DEF stored
<1>6. HasForms(stored) /\ FormsOK(stored)
  BY <1>3, <1>4 DEF HasForms, FormsOK
<1> QED
  BY <1>5, <1>6, DropForms

-----------------------------------------------------------------------------
(* The invariant *)

LEMMA InitInv == Init => IInv
<1> SUFFICES ASSUME Init PROVE IInv
  OBVIOUS
<1>1. Types
  BY DEF Init, Types, Nothing, NoServer, Servers, Optional, AuthServices
<1>2. Checked /\ Wired /\ Answers
  BY DEF Init, Checked, Wired, Answers
<1>3. Stored /\ \A n \in Nodes : Loaded(n)
  BY DEF Init, Stored, Loaded
<1> QED
  BY <1>1, <1>2, <1>3 DEF IInv

LEMMA LoadInv ==
  ASSUME IInv, Load
  PROVE  IInv'
<1>1. Types'
  BY DEF IInv, Types, Load
<1>2. Decoded' = Decoded
  BY DEF Load, Decoded
<1>3. Checked' /\ Wired' /\ Answers'
  BY <1>2 DEF Load, Checked, Wired, Answers, Decoded
<1>4. Stored' /\ \A n \in Nodes : Loaded(n)'
  BY <1>2 DEF IInv, Load, Stored, Loaded
<1> QED
  BY <1>1, <1>3, <1>4 DEF IInv

\* What answers a service depends on what the author passed only.
LEMMA ServersFixed ==
  ASSUME given' = given
  PROVE  OptionalServices' = OptionalServices /\ \A s : Server(s)' = Server(s)
BY DEF OptionalServices, Server, ResolveAuthService

LEMMA ServeConfigInv ==
  ASSUME IInv, ServeConfig
  PROVE  IInv'
<1>1. Types'
  BY ServerType, AuthorGiven DEF IInv, Types, ServeConfig
<1>2. Decoded' = Decoded
  BY DEF ServeConfig, Decoded
<1>3. Checked' /\ Answers'
  BY <1>2 DEF IInv, ServeConfig, Checked, Answers
<1>4. Wired'
  BY ServersFixed DEF ServeConfig, Wired
<1>5. Stored' /\ \A n \in Nodes : Loaded(n)'
  BY <1>2 DEF IInv, ServeConfig, Stored, Loaded
<1> QED
  BY <1>1, <1>3, <1>4, <1>5 DEF IInv

LEMMA ServeDirectInv ==
  ASSUME IInv, ServeDirect
  PROVE  IInv'
<1>1. Types'
  BY ServerType, AuthorGiven, NoOptions DEF IInv, Types, ServeDirect
<1>2. Decoded' = Decoded
  BY DEF ServeDirect, Decoded
<1>3. Checked' /\ Answers'
  BY <1>2 DEF IInv, ServeDirect, Checked, Answers
<1>4. Wired'
  BY ServersFixed, NoOptions DEF IInv, Types, ServeDirect, Wired
<1>5. Stored' /\ \A n \in Nodes : Loaded(n)'
  BY <1>2 DEF IInv, ServeDirect, Stored, Loaded
<1> QED
  BY <1>1, <1>3, <1>4, <1>5 DEF IInv

\* A step that ends the process.
LEMMA EndsInv ==
  ASSUME IInv, phase' \in {"exited", "dead"},
         UNCHANGED <<source, given, manifest, optional, registered, records, loaded>>
  PROVE  IInv'
<1>1. Types'
  BY DEF IInv, Types
<1>2. Decoded' = Decoded
  BY DEF Decoded
<1>3. Checked' /\ Wired' /\ Answers'
  BY DEF Checked, Wired, Answers
<1>4. Stored' /\ \A n \in Nodes : Loaded(n)'
  BY <1>2 DEF IInv, Stored, Loaded
<1> QED
  BY <1>1, <1>3, <1>4 DEF IInv

LEMMA RegisterInv ==
  ASSUME IInv, Register
  PROVE  IInv'
<1>1. optional = OptionalServices
  BY DEF IInv, Wired, Register
<1>a. \A s \in Optional \ AuthServices : Server(s) = OptionalServices[s]
  BY DEF Server, Optional, AuthServices, Fields
<1>2. registered' = [s \in AllServices |-> Server(s)]
  BY <1>1, <1>a DEF Register
<1>3. Types'
  BY <1>2, ServerType, AuthorGiven DEF IInv, Types, Register
<1>4. Decoded' = Decoded
  BY DEF Register, Decoded
<1>5. Checked'
  BY <1>4 DEF IInv, Register, Checked
<1>6. Wired' /\ Answers'
  BY <1>2, ServersFixed DEF IInv, Register, Wired, Answers
<1>7. Stored' /\ \A n \in Nodes : Loaded(n)'
  BY <1>4 DEF IInv, Register, Stored, Loaded
<1> QED
  BY <1>3, <1>5, <1>6, <1>7 DEF IInv

LEMMA RestartInv ==
  ASSUME IInv, Restart
  PROVE  IInv'
<1>1. Types'
  BY DEF IInv, Types, Restart, Nothing, NoServer, Servers, Optional, AuthServices
<1>2. Decoded' = Decoded
  BY DEF Restart, Decoded
<1>3. Checked' /\ Wired' /\ Answers'
  BY DEF Restart, Checked, Wired, Answers
<1>4. Stored' /\ \A n \in Nodes : Loaded(n)'
  BY <1>2 DEF IInv, Restart, Stored, Loaded
<1> QED
  BY <1>1, <1>3, <1>4 DEF IInv

LEMMA InstallInv ==
  ASSUME IInv, Install
  PROVE  IInv'
<1>1. Types'
  BY DEF IInv, Types, Install, process
<1>2. Decoded' = Decoded
  BY DEF Install, Decoded
<1>3. Checked' /\ Wired' /\ Answers'
  BY <1>2, ServersFixed DEF IInv, Install, process, Checked, Wired, Answers
<1>4. manifest = Decoded /\ Valid(Decoded, SDKKnows)
  BY DEF IInv, Install, Checked
<1>5. Stored'
  BY <1>2, <1>4 DEF Install, Stored
<1>6. \A n \in Nodes : Loaded(n)'
  BY <1>2 DEF IInv, Install, Loaded
<1> QED
  BY <1>1, <1>3, <1>5, <1>6 DEF IInv

LEMMA LoadRecordsInv ==
  ASSUME IInv, NEW n \in Nodes, LoadRecords(n)
  PROVE  IInv'
<1>1. Types'
  BY DEF IInv, Types, LoadRecords, process
<1>2. Decoded' = Decoded
  BY DEF LoadRecords, Decoded
<1>3. Checked' /\ Wired' /\ Answers'
  BY <1>2, ServersFixed DEF IInv, LoadRecords, process, Checked, Wired, Answers
<1>4. Stored'
  BY <1>2 DEF IInv, LoadRecords, Stored
<1>5. ASSUME NEW o \in Nodes
      PROVE  Loaded(o)'
  <2>1. CASE o = n
    <3>1. loaded'[n] = [i \in DOMAIN records |-> DecodeCapability(records[i], Knows[n])]
      BY DEF IInv, Types, LoadRecords
    <3> QED
      BY <1>2, <2>1, <3>1 DEF IInv, Stored, Loaded
  <2>2. CASE o # n
    <3>1. loaded'[o] = loaded[o]
      BY <2>2 DEF IInv, Types, LoadRecords
    <3> QED
      BY <1>2, <3>1 DEF IInv, Loaded
  <2> QED
    BY <2>1, <2>2
<1> QED
  BY <1>1, <1>3, <1>4, <1>5 DEF IInv

LEMMA StutterInv ==
  ASSUME IInv, UNCHANGED vars
  PROVE  IInv'
<1>1. Decoded' = Decoded
  BY DEF vars, Decoded
<1>2. Types' /\ Checked' /\ Wired' /\ Answers'
  BY <1>1, ServersFixed DEF IInv, vars, Types, Checked, Wired, Answers
<1>3. Stored' /\ \A n \in Nodes : Loaded(n)'
  BY <1>1 DEF IInv, vars, Stored, Loaded
<1> QED
  BY <1>2, <1>3 DEF IInv

LEMMA Inductive == Spec => []IInv
<1>1. IInv /\ [Next]_vars => IInv'
  <2> SUFFICES ASSUME IInv, [Next]_vars PROVE IInv'
    OBVIOUS
  <2>1. CASE Load
    BY <2>1, LoadInv
  <2>2. CASE ServeConfig
    BY <2>2, ServeConfigInv
  <2>3. CASE Register
    BY <2>3, RegisterInv
  <2>4. CASE Restart
    BY <2>4, RestartInv
  <2>5. CASE Install
    BY <2>5, InstallInv
  <2>6. ASSUME NEW n \in Nodes, LoadRecords(n) PROVE IInv'
    BY <2>6, LoadRecordsInv
  <2>7. CASE ServeDirect
    BY <2>7, ServeDirectInv
  <2>8. CASE PrintManifest
    BY <2>8, EndsInv DEF PrintManifest
  <2>9. CASE RegisterFails
    BY <2>9, EndsInv DEF RegisterFails
  <2>10. ASSUME NEW s \in AllServices, NEW m \in Methods[s], HostCalls(s, m) PROVE IInv'
    BY <2>10, EndsInv DEF HostCalls
  <2>11. CASE UNCHANGED vars
    BY <2>11, StutterInv
  <2> QED
    BY <2>1, <2>2, <2>3, <2>4, <2>5, <2>6, <2>7, <2>8, <2>9, <2>10, <2>11 DEF Next
<1> QED
  BY InitInv, <1>1, PTL DEF Spec

-----------------------------------------------------------------------------
(* The theorems *)

\* Type correctness: a nil pointer given for ConfigurationChecks is dropped, and
\* no more capabilities are stored or loaded than manifest.json holds.
THEOREM TypeCorrect == Spec => []TypeOK
<1>1. IInv => TypeOK
  <2> SUFFICES ASSUME IInv PROVE TypeOK
    OBVIOUS
  <2>1. DOMAIN Decoded.caps = DOMAIN source.caps
    BY DecodedCaps DEF IInv, Types
  <2> QED
    BY <2>1 DEF IInv, Types, Stored, Loaded, TypeOK
<1> QED
  BY Inductive, <1>1, PTL

\* What a node decodes calls for the services of the validated descriptor.
LEMMA LoadedServices ==
  ASSUME IInv, NEW n \in Nodes, NEW i \in DOMAIN loaded[n]
  PROVE  /\ Valid(Decoded, SDKKnows)
         /\ DOMAIN loaded[n] = DOMAIN Decoded.caps
         /\ Services(loaded[n][i]) = Services(Decoded.caps[i])
         /\ loaded[n][i].type = Decoded.caps[i].type
         /\ loaded[n][i].modes = Decoded.caps[i].modes
<1>1. /\ Valid(Decoded, SDKKnows)
      /\ DOMAIN loaded[n] = DOMAIN Decoded.caps
      /\ loaded[n][i] = DecodeCapability(CapabilityRecord(Decoded.caps[i]), Knows[n])
  BY DEF IInv, Loaded
<1> QED
  BY <1>1, RoundTrip, ServicesKept

\* No service is forgotten on the way through the database: the node and the
\* plugin agree on what a descriptor calls for.
THEOREM DecisionsAgree == Spec => []DecisionsKept
<1>1. IInv => DecisionsKept
  BY LoadedServices DEF IInv, Checked, DecisionsKept
<1> QED
  BY Inductive, <1>1, PTL

\* What answers a service if the author passes no nil pointer that escapes the
\* start-up checks.
LEMMA NoNil ==
  ASSUME given \in Authors, ~given.direct, \A f \in Fields : given.servers[f] # "nilptr"
  PROVE  /\ \A s \in AllServices \ {"WatchSyncDeviceAuthorization"} : Server(s) \in {"none", "live"}
         /\ \A s \in Fields : Server(s) = given.servers[s]
         /\ Server("WatchSyncDeviceAuthorization") = given.options["WatchSyncDeviceAuthorization"]
         /\ Server("Runtime") = "live"
<1>1. given \in Given /\ given.servers["AuthProvider"] # "nilptr"
  BY AuthorGiven DEF Fields
<1>2. \A s \in Fields : Server(s) = given.servers[s]
  BY DEF Server, Optional, AuthServices, Fields
<1>3. \A s \in Fields : given.servers[s] \in Servers
  BY <1>1 DEF Given
<1>4. Server("WatchSyncDeviceAuthorization") = OptionalServices["WatchSyncDeviceAuthorization"]
  BY DEF Server, Optional, AuthServices, Fields
<1>5. Server("Runtime") = "live"
  BY DEF Server, Optional, AuthServices, Fields
<1>6. \A s \in AllServices \ {"WatchSyncDeviceAuthorization"} :
        s \in Fields \/ s = "Runtime" \/ s \in AuthServices \cup {"ConfigurationChecks"}
  BY AllServicesAre DEF Optional
<1>7. \A s \in AuthServices \cup {"ConfigurationChecks"} : Server(s) \in {"none", "live"}
  BY <1>1, ServerType
<1>8. \A s \in Fields : Server(s) \in {"none", "live"}
  BY <1>2, <1>3 DEF Servers
<1>9. OptionalServices["WatchSyncDeviceAuthorization"] = given.options["WatchSyncDeviceAuthorization"]
  BY <1>1, ServerType
<1> QED
  BY <1>2, <1>4, <1>5, <1>6, <1>7, <1>8, <1>9

\* Whatever a node calls on a running plugin is answered by a live server,
\* unless the author passed a nil pointer in CapabilityServers or no server at
\* all for the capability: the start-up checks and the registration agree for
\* every manifest.
THEOREM CallsAnswered == Spec => []CallsReachServer
<1>1. IInv => CallsReachServer
  <2> SUFFICES ASSUME IInv, phase = "serving", ~given.direct,
                      \A f \in Fields : given.servers[f] # "nilptr",
                      NEW s \in Declared(manifest) \cup UNION {Called(n) : n \in Nodes}
               PROVE  \/ registered[s] = "live"
                      \/ s \in Fields /\ given.servers[s] = "none"
                      \/ s = "WatchSyncDeviceAuthorization" /\ given.options[s] # "live"
    BY DEF CallsReachServer
  <2>1. /\ manifest = Decoded
        /\ \A t \in Declared(manifest) : Server(t) # "none"
        /\ registered = [t \in AllServices |-> Server(t)]
    BY DEF IInv, Checked, Wired, Answers
  <2>2. s \in Declared(manifest) \/ s \in Fields \/ s = "WatchSyncDeviceAuthorization"
    <3>1. CASE \E n \in Nodes : s \in Called(n)
      <4>1. PICK n \in Nodes : s \in Called(n)
        BY <3>1
      <4>2. PICK i \in DOMAIN loaded[n] : s \in CallsFor(loaded[n][i])
        BY <4>1 DEF Called
      <4>3. CASE s \in Services(loaded[n][i])
        <5>1. i \in DOMAIN Decoded.caps /\ s \in Services(Decoded.caps[i])
          BY <4>2, <4>3, LoadedServices
        <5> QED
          BY <2>1, <5>1 DEF Declared
      <4>4. CASE s \notin Services(loaded[n][i])
        <5>1. s = "WatchSyncDeviceAuthorization"
              \/ \E t \in DOMAIN CapabilityService : s = CapabilityService[t]
          BY <4>2, <4>4 DEF CallsFor
        <5> QED
          BY <5>1 DEF CapabilityService, Fields
      <4> QED
        BY <4>3, <4>4
    <3> QED
      BY <3>1
  <2>3. CASE s \in Declared(manifest)
    <3>1. \A d : Services(d) \subseteq AuthServices
      BY DEF Services, AuthServices
    <3>2. s = "ConfigurationChecks" \/ \E i \in DOMAIN manifest.caps : s \in Services(manifest.caps[i])
      BY <2>3 DEF Declared
    <3>3. s \in AuthServices \cup {"ConfigurationChecks"}
      BY <3>1, <3>2
    <3>4. Server(s) \in {"none", "live"} /\ registered[s] = Server(s)
      BY <2>1, <3>3, NoNil, AllServicesAre DEF IInv, Types, Optional, AuthServices
    <3> QED
      BY <2>1, <2>3, <3>4
  <2>4. CASE s \in Fields
    <3>1. registered[s] = given.servers[s] /\ Server(s) \in {"none", "live"}
      BY <2>1, <2>4, NoNil, AllServicesAre DEF IInv, Types, Fields
    <3> QED
      BY <2>4, <3>1, NoNil DEF IInv, Types
  <2>5. CASE s = "WatchSyncDeviceAuthorization"
    <3>1. registered[s] = given.options[s]
      BY <2>1, <2>5, NoNil, AllServicesAre DEF IInv, Types, Optional
    <3> QED
      BY <2>5, <3>1
  <2> QED
    BY <2>2, <2>3, <2>4, <2>5
<1> QED
  BY Inductive, <1>1, PTL

\* After manifestServeConfig neither the registration nor a call ends the
\* process but for a nil pointer in CapabilityServers or for the device
\* authorization: the nil pointers of the other options are caught or dropped.
THEOREM NilsCaught == Spec => OnlyUncheckedNilsKill
<1> DEFINE Unchecked ==
      \/ given.direct
      \/ \E f \in Fields : given.servers[f] = "nilptr"
      \/ given.options["WatchSyncDeviceAuthorization"] = "nilptr"
<1>1. IInv /\ [Next]_vars => [(phase \in {"wired", "serving"} /\ phase' = "dead") => Unchecked]_vars
  <2> SUFFICES ASSUME IInv, Next, phase \in {"wired", "serving"}, phase' = "dead", ~Unchecked
               PROVE  FALSE
    OBVIOUS
  <2>1. \A s \in AllServices : Server(s) \in {"none", "live"}
    BY NoNil, AuthorGiven DEF IInv, Types, Given, Servers, Optional
  <2>2. Server("Runtime") = "live"
    BY NoNil DEF IInv, Types
  <2>3. CASE PrintManifest
    BY <2>2, <2>3 DEF PrintManifest
  <2>4. CASE RegisterFails
    BY <2>1, <2>2, <2>4 DEF RegisterFails, RegisterOutcomes
  <2>5. ASSUME NEW s \in AllServices, NEW m \in Methods[s], HostCalls(s, m) PROVE FALSE
    <3>1. registered[s] \in {"none", "live"} /\ "panic" \in Outcomes(registered[s], s, m)
      BY <2>1, <2>5 DEF IInv, Answers, HostCalls
    <3> QED
      BY <3>1 DEF Outcomes
  <2>6. ~(Load \/ ServeConfig \/ ServeDirect)
    BY DEF Load, ServeConfig, ServeDirect
  <2>7. ~(Register \/ Restart)
    BY DEF Register, Restart
  <2>8. ~(Install \/ \E n \in Nodes : LoadRecords(n))
    BY DEF Install, LoadRecords, process
  <2> QED
    BY <2>3, <2>4, <2>5, <2>6, <2>7, <2>8 DEF Next
<1> QED
  <2>1. [][(phase \in {"wired", "serving"} /\ phase' = "dead") => Unchecked]_vars
        <=> OnlyUncheckedNilsKill
    BY DEF OnlyUncheckedNilsKill
  <2> QED
    BY Inductive, <1>1, <2>1, PTL DEF Spec

\* A node that signs people in by network identity has the network access
\* capability on record and no password mode beside it, after the round trip.
THEOREM NetworkSignInGuarded == Spec => []NetworkSignInAlone
<1>1. IInv => NetworkSignInAlone
  <2> SUFFICES ASSUME IInv, NEW n \in Nodes, NEW i \in DOMAIN loaded[n],
                      UsesNetworkIdentity(loaded[n][i])
               PROVE  /\ Modes(loaded[n][i]) \cap {"password", "oauth2"} = {}
                      /\ \E j \in DOMAIN loaded[n] : loaded[n][j].type = "network"
    BY DEF NetworkSignInAlone
  <2>1. /\ Valid(Decoded, SDKKnows) /\ DOMAIN loaded[n] = DOMAIN Decoded.caps
        /\ loaded[n][i].type = Decoded.caps[i].type
        /\ loaded[n][i].modes = Decoded.caps[i].modes
    BY LoadedServices
  <2>2. UsesNetworkIdentity(Decoded.caps[i]) /\ Modes(Decoded.caps[i]) = Modes(loaded[n][i])
    BY <2>1 DEF UsesNetworkIdentity, Modes
  <2>3. Modes(Decoded.caps[i]) \cap {"password", "oauth2"} = {}
    BY <2>1, <2>2 DEF Valid, AuthProviderOK, UsesNetworkIdentity
  <2>4. PICK j \in DOMAIN Decoded.caps : Decoded.caps[j].type = "network"
    BY <2>1, <2>2 DEF Valid, NetworkAuthPaired
  <2>5. loaded[n][j].type = "network"
    BY <2>1, <2>4, LoadedServices
  <2> QED
    BY <2>1, <2>2, <2>3, <2>4, <2>5
<1> QED
  BY Inductive, <1>1, PTL

\* The manifest of a running plugin is valid on every node whose SDK knows
\* fewer enum names: no rule of Validate turns an unknown value into an error.
THEOREM NewerValid == Spec => []NewerStaysValid
<1>1. IInv => NewerStaysValid
  BY ValidForFewer, KnowsAssumption DEF IInv, Checked, NewerStaysValid
<1> QED
  BY Inductive, <1>1, PTL

\* No node decodes a form or a connection setting that breaks the rules, whatever
\* names its SDK does not know.
THEOREM FormsDecodeValid == Spec => []FormsStayValid
<1>1. IInv => FormsStayValid
  <2> SUFFICES ASSUME IInv, NEW n \in Nodes, NEW i \in DOMAIN loaded[n]
               PROVE  FormsOK(loaded[n][i])
    BY DEF FormsStayValid, FormsOK
  <2>1. /\ Valid(Decoded, SDKKnows)
        /\ DOMAIN loaded[n] = DOMAIN Decoded.caps
        /\ loaded[n][i] = DecodeCapability(CapabilityRecord(Decoded.caps[i]), Knows[n])
    BY DEF IInv, Loaded
  <2>2. i \in DOMAIN source.caps /\ Decoded.caps[i] = DropUnknown(source.caps[i], SDKKnows)
    <3>1. "caps" \in DOMAIN source
      BY ManifestsAssumption DEF IInv, Types, PluginManifest
    <3>2. Decoded.caps = [j \in DOMAIN source.caps |-> DropUnknown(source.caps[j], SDKKnows)]
      BY <3>1, Zenon DEF Decoded, Decode
    <3> QED
      BY <2>1, <3>2
  <2>3. HasForms(source.caps[i])
    <3>1. source.caps[i] \in CapabilityDescriptor
      BY <2>2, ManifestsAssumption DEF IInv, Types, PluginManifest
    <3> QED
      BY <3>1 DEF CapabilityDescriptor, WatchSyncProviderDescriptor, HasForms
  <2>4. HasForms(Decoded.caps[i])
    BY <2>2, <2>3, DropForms
  <2>5. FormsOK(Decoded.caps[i])
    <3> DEFINE d == Decoded.caps[i]
    <3>1. SchemasOK(d.schemas) /\ WatchSyncOK(d, SDKKnows)
      BY <2>1 DEF Valid
    <3> QED
      BY <3>1 DEF WatchSyncOK, WatchDescriptorOK, FormsOK
  <2> QED
    BY <2>1, <2>4, <2>5, RoundTripForms
<1> QED
  BY Inductive, <1>1, PTL
=============================================================================
