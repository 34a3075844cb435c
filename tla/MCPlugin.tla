-------------------------------- MODULE MCPlugin --------------------------------
(* Instances of Plugin for TLC: manifests around each rule, two nodes. *)
EXTENDS Plugin

Cap(type) ==
  [type |-> type, id |-> "slug", modes |-> <<>>, conn |-> "absent",
   network |-> Absent, watch |-> Absent, router |-> Absent, schemas |-> <<>>]

MCModes ==
  {<<>>, <<"password">>, <<"network">>, <<"network", "password">>, <<"network", "sso">>,
   <<"Network">>, <<"sso", "sso">>, <<"">>}
MCAuth  == {[Cap("auth") EXCEPT !.modes = m, !.conn = c] : m \in MCModes, c \in {"absent", "true", "other"}}
MCNet   == {[Cap("network") EXCEPT !.network = p] : p \in {"slug", Absent}}
MCOther ==
  {[Cap("router") EXCEPT !.router = r] : r \in {Absent, "wording", "badWording"}}
  \cup {Cap("task"), Cap("metadata"), Cap("ebook"), [Cap("task") EXCEPT !.id = ""], [Cap("task") EXCEPT !.network = "slug"],
        [Cap("task") EXCEPT !.conn = "true"], Cap("future")}

\* A valid watch descriptor.
Watch ==
  [methods |-> {"apiKey"}, ops |-> {"exportRatings"}, order |-> FALSE, batch |-> 1,
   media |-> {"movie"}, watchedFor |-> {}, namespaces |-> {"slug"}, settings |-> <<>>]

MCWatch ==
  {[Watch EXCEPT !.batch = b] : b \in {0, MaxWatchSyncBatchSize, MaxWatchSyncBatchSize + 1}}
  \cup {[Watch EXCEPT !.media = m, !.watchedFor = w] :
          m \in {{}, {"episode"}, {"future"}, {"alien"}, {"movie", "alien"}, {"movie", "future"}},
          w \in {{}, {"movie"}, {"future"}}}
  \cup {[Watch EXCEPT !.ops = o, !.media = m] :
          o \in {{}, {"syncDropped"}, {"importWatchlist"}}, m \in {{"series"}, {"episode"}, {"unspecified"}}}
  \cup {[Watch EXCEPT !.order = TRUE], [Watch EXCEPT !.namespaces = {"other"}], [Watch EXCEPT !.methods = {"deviceCode"}],
         [Watch EXCEPT !.methods = {"alien"}]}

\* Connection settings around each of their rules.
Setting == [key |-> "slug", label |-> TRUE, type |-> "boolean", default |-> Absent]
MCSettings ==
  {<<[Setting EXCEPT !.type = t, !.default = v]>> :
     t \in {"unspecified", "boolean", "future"}, v \in {"bool", "other"}}
  \cup {<<Setting, [Setting EXCEPT !.key = k]>> : k \in {"slug", "slug2", "other"}}
  \cup {<<[Setting EXCEPT !.label = FALSE]>>}

\* Config schemas around each of theirs.
Field == [key |-> "a", control |-> "text", dynamicOptions |-> FALSE, options |-> FALSE,
          default |-> Absent, showWhen |-> {}, group |-> ""]
Schema(a, fields, sections) ==
  [json |-> "object", properties |-> [k \in FormKeys |-> IF k = "a" THEN a ELSE Absent],
   form |-> [fields |-> fields, sections |-> sections]]
Section(keys, when) == [fieldKeys |-> keys, showWhen |-> when]
MCSchemas ==
  {Schema(t, <<[Field EXCEPT !.control = c, !.options = o]>>, <<>>) :
     t \in {"array", "string"}, c \in {"unspecified", "select", "multiSelect", "future"}, o \in BOOLEAN}
  \cup {Schema(t, <<[Field EXCEPT !.default = v]>>, <<>>) :
     t \in {"boolean", "integer", "string", Absent}, v \in {"bool", "number", "string"}}
  \cup {Schema("string", <<[Field EXCEPT !.key = k], [Field EXCEPT !.showWhen = {w}]>>, <<>>) :
     k \in {"", "a", "b"}, w \in {"a", "b"}}
  \cup {Schema("string", <<[Field EXCEPT !.group = g]>>, <<Section({f}, {w})>>) :
     g \in {"", "b"}, f \in {"a", "b"}, w \in {"", "a", "b"}}
  \cup {[Schema("string", <<Field>>, <<>>) EXCEPT !.json = j] : j \in {"bad", "other"}}
  \cup {[Schema("string", <<>>, <<>>) EXCEPT !.json = "bad", !.form = Absent]}

MCWatchCap ==
  {[Cap("watch") EXCEPT !.watch = w] : w \in MCWatch}
  \cup {[Cap("watch") EXCEPT !.watch = Watch, !.id = "other"], Cap("watch"),
        [Cap("auth") EXCEPT !.watch = Watch]}
  \cup {[Cap("watch") EXCEPT !.watch = [Watch EXCEPT !.settings = s]] : s \in MCSettings}

MCForms == {[Cap("task") EXCEPT !.schemas = <<s>>] : s \in MCSchemas}

Manifest(caps, check) == [basics |-> TRUE, check |-> check, caps |-> caps, schemas |-> <<>>]

MCManifests ==
  {Manifest(<<c>>, "absent") : c \in MCAuth \cup MCNet \cup MCOther \cup MCWatchCap \cup MCForms}
  \cup {Manifest(<<a, n>>, "absent") : a \in MCAuth, n \in MCNet}
  \cup {Manifest(<<Cap("task")>>, c) : c \in {"true", "false", "other"}}
  \cup {[Manifest(<<>>, "absent") EXCEPT !.basics = FALSE]}
  \cup {[Manifest(<<>>, "absent") EXCEPT !.schemas = <<s>>] :
          s \in {Schema("string", <<[Field EXCEPT !.control = c]>>, <<>>) : c \in {"select", "future"}}}

\* What an author passes in all of CapabilityServers but AuthProvider, and for
\* the device authorization.
MCOthers == {<<"live", "none">>, <<"nilptr", "none">>, <<"none", "live">>, <<"live", "nilptr">>}

MCAuthor(direct, runtime, auth, also, o, options) ==
  [direct |-> direct, also |-> also,
   servers |-> [f \in Fields \cup {"Runtime"} |->
     CASE f = "Runtime" -> runtime [] f = "AuthProvider" -> auth [] OTHER -> o[1]],
   options |-> [options EXCEPT !["WatchSyncDeviceAuthorization"] = o[2]]]

MCAuthors ==
  LET options == {f \in [Optional -> Servers] : f["WatchSyncDeviceAuthorization"] = "none"}
  IN  {MCAuthor(FALSE, "none", a, b, o, f) :
         a \in {"nilptr", "live"}, b \in SUBSET AuthServices, o \in MCOthers, f \in options}
      \cup {MCAuthor(FALSE, "none", "none", {}, o, f) : o \in MCOthers, f \in options}
      \cup {MCAuthor(TRUE, r, a, b, <<"live", d>>, Nothing) :
         r \in Servers, a \in {"nilptr", "live"}, b \in SUBSET AuthServices, d \in Servers}

MCSDKKnows ==
  {"unspecified", "apiKey", "deviceCode", "movie", "series", "episode", "boolean", "text",
   "select", "multiSelect", "future"}
MCLater    == {"future", "alien"}
MCFormKeys == {"a", "b"}
MCRateable == {"movie", "series", "future"}
MCNodes    == {"same", "older"}
MCKnows    == [n \in MCNodes |-> IF n = "same" THEN MCSDKKnows ELSE MCSDKKnows \ {"future"}]
=============================================================================
