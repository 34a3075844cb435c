# TLA+ models of the Silo plugin SDK

This directory holds a TLA+ development of the Silo plugin SDK: the Go library
under `pkg/pluginsdk` with which plugins are built, and the example plugins
under `examples/`. The modules are translated from the source; TLC checks them
on small instances, and TLAPS proves the main theorems for every value of the
constants.

## The system

A plugin is a separate process, started by the Silo host through
hashicorp/go-plugin. The host calls the plugin's gRPC services (Runtime plus one
per capability); the plugin calls the host's RuntimeHost service back over a
go-plugin *broker stream*. Only the plugin's side is in this repository. What
the host and go-plugin do is modelled as environment, from how the SDK and its
documents use it.

| Component | Source | State | Operations | Interacts with |
|---|---|---|---|---|
| Plugin-side host connection | `pkg/pluginsdk/runtime/runtime.go` (`pluginHostState`), `runtimedefault/runtime.go` | `broker`, `brokerID`, `client` under `mu`; a process singleton | `setBroker`, `setBrokerID`, `dialLocked`, `host` | called by go-plugin's server set-up, by `BindHostBroker`, by every capability handler; dials go-plugin's broker |
| Registration and start-up | `runtime/runtime.go`, `runtime/serve_manifest.go` | none after start | `ServeManifest*`, `manifestServeConfig`, `registerServers`, `Serve` | manifest, go-plugin |
| Typed host client | `runtimehost/*.go` | none (one connection); calls in progress | one method per RuntimeHost RPC, `CallPluginJSON`, `InstanceStateStore` | RuntimeHost |
| Manifest | `manifest/manifest.go`, `checksum.go` | none | `Load*`, `Validate`, `ValidateCatalogPresentation`, `RegisterHTTPRoutes` | start-up, host |
| Capability records | `convert/convert.go` | none | `CapabilityRecordsFromManifest`, `DecodeCapability` | host database |
| Config values | `config/config.go` | none | `ValidateValue` | host |
| Outbound HTTP client | `httpclient/httpclient.go` | connection pool of net/http | `DoJSON` | third-party APIs |
| Network access example | `examples/hello-network-access/main.go` | `connected`, `desired`, `restored`, `hostInfo` under `mu`; `desired_connected` in the host | `Connect`, `Disconnect`, `GetStatus` | `Host()`, instance state, host info, status reports |
| Scan source example | `examples/hello-scan-source/main.go` | none; the marker is kept by the host | `PollChanges` | the change log another tool writes, the host's polling |
| Other examples | `examples/hello-runtime-host`, `examples/hello-scheduled-task` | none | `Run` | `Host()` |
| Wire types | `pkg/pluginproto`, `proto` | none | generated code | all |

### What is hard here

- **The host connection.** A go-plugin stream can be dialed once and only for
  five seconds after the host offered it. Binds, host calls and a second server
  set-up run on any goroutine, and the dial blocks for up to five seconds with
  `s.mu` held. Correct: what `Host()` hands out is the one connection of the
  current binding; no dial's answer is cached under a newer binding; no
  dial leaves a connection that is open and unreachable; no stream is dialed again while its
  client is in use; every call returns; a bound stream does not expire.
- **The provider's intent.** It lives in the process and in the host's instance
  state. RPCs make up to three host calls under one mutex, any of which may fail
  with or without effect, and the process may die between any two. Correct: what
  was acknowledged is what the next process acts on; it is acted on in the end;
  what the provider reports is what it serves.
- **The scan source's marker.** `PollChanges` looks at the log three times while
  another tool writes, truncates or removes it; answers get lost and polls
  overlap. Correct: no complete line is passed over, no part of a line reported.
- **The two together.** A handler of the provider holds its own mutex while it
  queues for `s.mu` behind somebody's dial. Correct: nobody waits for ever; a
  handler only goes on with a stream its own process connected; the restored
  intent survives a host that lets the new process idle.
- **Start-up**: what a manifest declares must be what is registered, when options
  hold nil or typed-nil servers; what is not found at start-up ends the process
  at the first call.
- **Records read by other SDKs**: descriptors and admin forms lose the enum names
  an older SDK does not know, in the database or not, and must keep to the rules.
- **Calls in progress** of the typed client: answers that come late or never, and
  writes that arrive after their caller gave up. Correct: a failed read is not an
  absent key, an acknowledged write is not undone by the plugin's own earlier
  one unless that may still be on its way, nothing happens twice.
- **Edges**: integer widths of the typed client; the byte caps of `DoJSON`, where
  a value cut at the cap may still be a value.

`PROJECT.json` lists each hazard at its line with the properties that cover it.

## Modules

| Module | What it is |
|---|---|
| `HostHandle` | Abstract specification: a binding, and a handle that is absent or is the connection of the current binding; no stream connected twice. |
| `HostBroker` | `pluginHostState` and its callers, with the broker's streams and the clock. Implements `HostHandle`. |
| `NetworkAccess` | The network access provider; to its handlers `runtime.Host()` is nil or not at will. |
| `ProviderHost` | `NetworkAccess` on `HostBroker`, over several processes: the composition. Implements `NetworkAccess`. |
| `ScanSource` | The scan source, the log's writer and the polling host. |
| `Services` | The gRPC services with their methods, what a call or a registration does on an absent, nil-pointer or live server. |
| `ConfigSchemas` | Config schemas and their admin forms: the messages, `validateConfigSchema`, and what decoding drops. |
| `Manifest` | A manifest's messages, the rules of `Validate`, decoding, and the stored form of a capability. Uses `ConfigSchemas`. |
| `Plugin` | A plugin process from `manifest.json` to its registered services and the calls it gets, and host nodes that decide from stored records what to call. Uses `Manifest` and `Services`. |
| `HostMessages` | The requests and answers of RuntimeHost, with integer widths. |
| `HostClient` | The typed client with calls in progress, and the host's instance state. Uses `HostMessages`. |
| `HTTPClient` | One `DoJSON` byte by byte. |
| `HostBrokerProofs`, `NetworkAccessProofs`, `ProviderHostProofs`, `ScanSourceProofs`, `PluginProofs`, `HostClientProofs`, `HTTPClientProofs` | Inductive invariants and theorems of the module they are named after. |
| `MCHostBroker`, `MCPlugin`, `MCHostClient` | Instances for TLC: symmetry, the manifests and authors, the calls. |

Some modules define, just before a definition, a variant of it that contains a
plausible mistake (`BindWithoutLock`, `ResolveTrustsNil`, `FailedReadAsAbsent`,
...). They are part of no specification: `PROJECT.json` pairs each with the
property that breaks when it takes the definition's place, as evidence that the
property depends on the code.

### HostBroker

`broker`, `brokerID`, `client` are the struct's fields; a client is named by the
stream `<<broker, id>>` it is connected to. Critical sections that do not block
are one action (`SetBroker`, and the parts of `HostLocks` and `BindLocks` that
need no dial). `holder` says who keeps `s.mu` across a blocking `Dial`. A
goroutine is `idle`, `waiting` for the lock, or `dialing`. `EnterDial` is
`dialLocked` up to the call of `Dial`; `DialConnects`, `DialRefused` and
`DialTimesOut` are its outcomes and return from the call. `SetBroker` is
`registerServers`, `CallBind` the arrival of a `BindHostBroker`, `CallHost` of a
`runtime.Host()`.

The environment: `HostOffers` is the connection info the host sends for a
stream, `Tick` the clock, which ages offers until they expire after `Window` and
dials until they end after `DialTimeout`. A tick only happens when no goroutine
could run instead, so that local computation takes no time. A dial for an offered
stream ends before the next tick, in a connection or in a refusal. `HostCloses`
is a connection that goes away: the SDK is not told and keeps its client. With
`Orderly`, the host offers a stream before it binds it, and binds one at a time.

A bind or a server set-up drops the cached client without closing it
(`ConnectionsAccounted` counts it as dropped): the connection stays open until the
host closes it.

Not modelled: the death of the process (nothing of the singleton survives it, so
that a new process is the initial state), and the RPCs made over a client.

### NetworkAccess

One handler per goroutine: `Call`, `Lock`, then the steps of `restoreLocked`,
the host calls one by one, then `Return` with its deferred unlock. Every host
call has a success and a failure; a failed write may have been applied
(`PersistFails`). `Crash` loses the fields and every handler in progress and
keeps `store`. `runtime.Host()` is `hostUp`, which changes at will: module
`HostBroker` shows why it may be nil at any moment. `ack` and `durable` record
the last acknowledged intent and whether its handler had a host to store it with;
`Intend` resets them, since an intent in progress supersedes the older one.

Abstracted: the status is reduced to its state and whether it lists listeners;
`GetHostInfo`'s content to whether it was obtained. A write is assumed to take
effect, if it does, before its call returns.

### ProviderHost

Extends `HostBroker` and instantiates `NetworkAccess` with `hostUp` read as "the
last `Host()` returned a client". `AskHost` is a handler entering
`runtime.Host()`; it then queues on `s.mu` and dials as any goroutine of
`HostBroker` does (`Moves`), with `p.mu` held, and keeps what `Host()` returned
in `got`. `Works` are the provider's steps; those that are a host call which
succeeds, or writes, need `got` to be a live stream. `Crash` ends the process
and starts the next one with a broker of its own; the host offers and binds
streams 1, 2, ... of each.

### ScanSource

The log is a sequence of bytes, 0 being the newline, so that partial lines,
blank lines and markers inside a line exist in the model. A poll is `Poll`, then
`Stat`/`StatMissing` (`fileSize` and the choice of the offset), `CheckNewline`
(`followsNewline`), `Read` or `Resync`; each opens the log anew and any action
of the writer may come between. The writer appends bytes and newlines and may
truncate or remove the log (`Rotate`). The host takes over an answer or drops it
(`Accept`, `Discard`), in any order for overlapping polls. `fooled` records that
a poll resumed in a log other than the one its marker came from: "aliased" when
`followsNewline` found a newline there by chance (which the example's README
admits), "raced" when the log changed after that look.

Abstracted: the reading itself is one step; lines are runs of one repeated byte,
whitespace other than a blank line is left out; `changeFor` is the identity on
lines.

### Manifest, ConfigSchemas, Services and Plugin

`Load` is `LoadWithChecksum`, `ServeConfig` is `manifestServeConfig`,
`ServeDirect` an author who calls `Serve` with a Runtime server of his own, in the
default plugin set or in that with the device authorization; `Serve` validates
nothing, and that author is taken to load his manifest with `LoadWithChecksum` too.
`PrintManifest` is the `manifest` subcommand, `Register` and `RegisterFails` are
`GRPCServer` with `registerServers`; each panics or goes on. `HostCalls` is a
call that panics; the others change nothing here. `Install` is a `GetManifest`
followed by `CapabilityRecordsFromManifest` on a node with the plugin's SDK,
`LoadRecords` a node that runs `DecodeCapability` with its own. The author passes
a server as nothing, as a nil pointer or live, by a field of `CapabilityServers`,
by an option or as an `AuthProvider` that implements the service too.

An SDK version is the set of enum names it knows; JSON drops the others
(`Decode`, `DropUnknown`, and `KnownName` to `SchemasKnown` in the forms), the
wire keeps them. `Rateable` are the media types SDKs treat as rateable; a newer
SDK may rate one that an older one does not define.

Abstracted: rules on the text of ids, names and presentation are the flag
`basics`, wording of a watch or router descriptor one value. Slugs and field
keys are two good values and a bad one. A form's visibility condition keeps the
field it names. The errors of `DecodeCapability` are left out: they tell of records
that are no JSON of the right shape, and the records here are those that
`CapabilityRecordsFromManifest` wrote. Message fields a newer SDK may add are not modelled: a
descriptor whose only operation is such a field is refused by `Validate` on an
older SDK.

### HostMessages and HostClient

A call is a record of the method and the arguments its checks or its request
turn on. `Invoke` is the method up to the round trip (`Accepts`, then `Request`),
`HostHandles` the host, `Returns` the conversion of the answer (`Outcome`,
`Data`), `Fails` an error of any kind, `GiveUp` a deadline. A request whose
caller gave up may still be handled (`late`, `HostHandlesLate`). gRPC's own
transparent retry is not there: it sends again only what the server has not
seen, which is a longer way of the same request. Integers keep their width:
`Int32` wraps at `Half`, and `Ints` are the Go ints that occur.

Abstracted: headers, payloads, timestamps and strings handed through; the body
of a JSON answer is good, bad or too long. Instance state is the host's single
copy, with one value per key.

### HTTPClient

The bytes of a body are blanks, braces and the digit 1, enough for an empty
body, numbers, objects, values cut in two and malformed text, with bytes before
and after the value. `Refill` is a read by the decoder through
`io.LimitedReader`, `ReadRest` a read of an error body, of a body nobody decodes,
or of the drain; pieces have any size. `Lost` ends the connection at any byte, which
on a body of unknown length may look like its end (`CutShort`) and otherwise is an
error of the read (`ReadError`, `ErrUnexpectedEOF`). `Pooled` is net/http's rule for
keeping a connection.

Abstracted: `parseMessage`; of what precedes the request (base url and key, the
encoding of its body, its creation) only whether it fails (`Faults`). Objects do not
nest. net/http's own reading ahead is not counted.

## Runs

All bounds are constants of the modules; no run uses a constraint.

| Run | Checks | Shows |
|---|---|---|
| `host_broker` | `TypeOK`, `DialIsCurrent`, `ClientIsCurrent`, `ConnectionsAccounted`, `NoRedial`, `HandleSpec` | What `Host()` hands out is right, and no dial leaves an unreachable connection, in every interleaving of two goroutines, two brokers with two streams each, and three binds, also with a host that is not orderly. |
| `host_broker_rebind` | `WindowKeptForBind` (violated) | On a second bind the new stream may expire undialed: a `Host()` that retries the first, dead stream holds `s.mu` for the dial timeout. |
| `provider_host` | `SystemTypeOK`, `HandlersUseBoundStreams`, `SystemIntentSurvives`, `FirstBindKeepsWindow`, `EveryCallReturns`, `Resumed` | The provider on its connection, over a crash: no call hangs, no handler uses a stream of another process, an acknowledged intent is stored although binds and closes overtake the handler's host call, the first bound stream never expires, and a host that binds once and polls has its intent resumed. |
| `network_access` | `TypeOK`, `IntentSurvives`, `CallsReturn`, `IntentResumed` | Two overlapping RPCs, any number of crashes and failures: an intent acknowledged with a host bound survives, and a polled provider resumes it. |
| `network_access_no_host` | `AcknowledgedIntentHolds` (violated) | Without a host, an acknowledged intent is lost. |
| `network_access_no_listeners` | `ListenersServed` (violated) | A connection resumed by `restoreLocked` whose one `GetHostInfo` fails reports no listeners for good: `restored` is set, so nothing asks again. |
| `scan_source` | `TypeOK`, `AppendOnlyIsSafe`, `SafeUnlessFooled`, `WholeUnlessRaced`, `LinesDelivered` | Two overlapping polls, two lines of up to two bytes, one rotation: a log only appended to is reported whole and in whole lines, a log not mistaken for another loses nothing, and each line that stays is handed over. |
| `scan_source_fragment` | `OnlyWholeLines` (violated) | A rotation between `followsNewline` and `readAppended` makes the rest of a line look like a line. |
| `plugin` | `TypeOK`, `CallsReachServer`, `DecisionsKept`, `NetworkSignInAlone`, `NewerStaysValid`, `FormsStayValid`, `OnlyUncheckedNilsKill` | 194,184 pairs of a manifest and an author, two nodes with different SDKs: what a node calls is answered, what it draws keeps the rules, and only nil pointers that nothing checks end a configured process. |
| `plugin_records` | `RecordsComplete` (violated) | A stored network access capability comes back without its descriptor. |
| `host_client` | `TypeOK`, `ReadsWereStored`, `WritesHold`, `AppliedOnce`, `IdsReach`, `BoundedCallsReturn` | One goroutine that reads and writes a key and one that calls every method, a host that answers late or never: reads, writes and effects are what the result says. |
| `http_client` | `TypeOK`, `ReadsBounded`, `SuccessIsWhole`, `TooLargeIsLarge`, `ShortRestKeepsConnection`, `DefaultCallsReturn` | Every body of up to five bytes under caps of two, in pieces of any size, with lost connections and timeouts: a success is the whole first value or none, "too large" is said of the values that go on past the cap and of no other. |

**Bounds and why they are enough.** `HostBroker`: two brokers for a stale one, two
streams for a rebind, three binds for a rebind back to a stream used before, two
goroutines because all waiting is for one lock and one dial; symmetry for both.
`ProviderHost`: one handler and the binder (handlers exclude each other by `p.mu`,
which `MutualExclusion` proves and `network_access` relies on with two), two processes for one restart, two binds
for a rebind. `NetworkAccess`: two handlers, all others would wait with the
second; nothing else is bounded. `ScanSource`: one rotation gives a foreign log,
two lines a line before and after the marker, two bytes a marker inside a line,
two polls every order of two answers; the marker the source starts from is any
of its own, none, or one of another writer. `Plugin`: the manifests of `MCPlugin`
have at most two capabilities, as each rule speaks of one descriptor or of a pair;
for each rule there are descriptors that satisfy it, break it, and sit on its
boundary (batch sizes 0, 1000 and 1001; a media type known to both SDKs, to one,
to none; a form's control with and without its options). Servers that are options
or come with the `AuthProvider` are absent, nil pointers or live in every
combination; the other fields of `CapabilityServers` are alike in this together.
`HostClient`: a three-bit int32 (`Half` = 4) and ids on both sides of its edge; one
key, as calls on two keys do not meet; one late write, enough to overtake an
acknowledged one. `HTTPClient`: the body is longer than both caps together by one
byte, so that each cap is hit, passed and just reached.

**Deadlock** is checked in every run. `HTTPClient` states its end as `Stopped`.

**Fairness.** `HostBroker` has none: it is checked for safety, and `ProviderHost`
for its liveness. `ProviderHost.FairSystem`: the clock ticks, a dial ends
(go-plugin's dial has a timeout), a host call returns with an answer or an error
(it carries a context), and a goroutine that waits for a mutex gets it in the
end, which is strong fairness because `sync.Mutex` hands over in order to a waiter
that starves; nothing is assumed of the host, except in `Resumed`, whose premise
`HostServes` says what such a host does. `NetworkAccess.FairSpec`: handlers run and
their host calls return; `PolledSpec` adds, for `ListenersServed`, a host that
keeps calling `GetStatus` and answers at least once what is asked again and again;
`IntentResumed` carries the same premise for the read. `ScanSource`: the host polls
on its schedule and does not drop every answer. `HostClient`: deadlines pass.
`HTTPClient`: the plugin runs, and the two minutes of the default client pass;
nothing is assumed of servers.

## Proofs

The proof modules follow one pattern: an inductive invariant `IInv`, a lemma
that the initial states satisfy it, lemmas that every action preserves it, and
theorems that follow. The assumptions are the named `ASSUME`s of the modules; all
other constants are arbitrary.

`HostBrokerProofs`: `IInv` is `TypeOK`, `DialIsCurrent`, `ClientIsCurrent`,
`NoRedial` and two strengthenings: a dialing goroutine dials a stream
(`DialsStream`), and every stream that was ever connected is the cached one or
was dropped (`ConsumedAccounted`; `ConnectionsAccounted` speaks only of live
streams, which a close leaves). From it follow the invariants, and `Refinement`:
every step is a step of `HostHandle` or leaves its variables unchanged. The
argument is that only the holder of `s.mu` writes while it dials, so that the
dial's answer meets the binding it was made for.

`NetworkAccessProofs`: `IInv` is `TypeOK`, `OneHandler` and what ties a handler in
progress to the store: between `Persist` and `Reply` of a handler with a host, the
store holds the intent in memory. Lock ownership makes this stable under the
other handlers. `IntentSurvives` follows, and `OneHandler` itself is `MutualExclusion`. `NoLockLeaked` adds that the holder of
`p.mu` is a handler past `Lock` and before its return: no failed host call, lost
answer or crash leaves it locked.

`ProviderHostProofs` is compositional. Apart from a crash, a step of the system is
a step of `HostBroker` (`ConnectionStep`), so `HostBroker`'s lemmas carry over; a
crash is shown to keep its invariant as it drops all streams of the process.
`HandlersOnBoundStreams` follows. `ProviderRefinement` shows that the system, with
`hostUp` read as "`got` is a stream", implements `NetworkAccess`. The module holds
an instance of `NetworkAccessProofs` under the same substitution, so that its
theorems become theorems of the composition: `SystemIntentDurable` (of
`SystemIntentSurvives`), and the
provider's half of `SystemTypeCorrect`.

`FirstWindowKept` is an argument over the clock. Its strengthening `FirstIInv` says
that the binder alone binds, streams in order, and that a bind still waiting for
`s.mu` is for a stream the singleton is not bound to (`BindsInOrder`); that `s.mu`
is kept across steps only for a dial (`HolderDials`); and that the first stream, as
long as it is bound and on offer, is being dialed (`FirstOfferDialed`). Before the
first bind there is nothing to dial, so that no dial can hold the binder up; after
it, the dial for the offered stream must end before the clock moves.
`host_broker_rebind` shows that a second bind has no such argument.

`NoWaitCycle`: whenever a goroutine is busy, one of them is at a step of its own.
A handler keeps `p.mu` while it queues for `s.mu` (`AsksForStep`, with `OneHandler`
and `NoLockLeaked` of the provider), and who holds `s.mu` dials and queues for
nothing.

`ScanSourceProofs`: `IInv` follows the markers of the log that is there now, the
host's and those of each poll in progress. Unless a poll was "raced", each is at
the start of the log or just past a newline (`AtLineEnds`); unless one was fooled,
every complete line before it was taken over, passed over, or is in the answer
that carries it (`HandedBefore`). `RotationFools` says that only a rotation fools
polls, `PollsInOrder` that no poll is ahead of the rotations. This holds for any
number of polls, lines and rotations. `Appended` shows that a byte appended to the
log leaves its complete lines as they are, `LinesAfter` that reading from the end of
a line yields the lines of the log after it. Both are about the largest newline of a
bounded set; that it exists is drawn from the well-foundedness of `<` (`MaxOf`), and
no induction over the log is needed.

`PluginProofs`: `IInv` says that a process past `Load` holds the decoded, valid
manifest (`Checked`); past `ServeConfig`, that all it declares has a server
(`Wired`); serving, that it registered just these (`Answers`); and that the
database and each node hold nothing or all records of the one valid manifest
(`Stored`, `Loaded`), which is what makes it inductive across restarts. The
lemmas `RoundTrip` (a stored and decoded descriptor keeps type, modes and
connection test), `ServerType`, `ValidForFewer` (no rule of `Validate` turns on
knowing a name) and `FormKept` with its companions (dropping a name never breaks
a rule of a form) carry the theorems. They hold for every set of manifests,
authors, nodes, and SDKs no newer than the plugin's.

`HostClientProofs`: `IInv` ties each call in progress to the store: `seen` holds
what the key read as since the call began (`ReadTrue`), and a write that was alone
is what the store holds (`WriteHeld`), for any number of goroutines and of late
writes. `Int32Range` and `Int32Fits` are the width arithmetic for every `Half`.

`HTTPClientProofs`: `IInv` accounts for every byte read (by the decoder, or by the
rest), and says what the end of the decoding knew. `ValueStays` (a value that ends
by itself in a prefix is the value of the whole body) and `EndedIsNumber` (a value
ended only by the end of the input is a number that reaches up to it) carry
`WholeValues` for every cap and every body. `EndStays` (a body without a value or an
error of syntax up to the cap has none in a shorter prefix) makes `TooLargeTrue` an
equivalence: the decoder cannot stop before the cap, nor find anything at it.

`CallsReachServer` and `OnlyUncheckedNilsKill` name what they leave out. A nil
`AuthProvider` pointer whose type implements another service is registered for
that service; a nil `WatchSyncDeviceAuthorization` pointer is registered too;
and nothing checks that a capability has its server, which the repository's
README leaves to the author.

Every invariant and every action property that a passing run checks is a theorem.
Only model-checked is liveness (`EveryCallReturns`, `Resumed`, `CallsReturn`,
`IntentResumed`, `LinesDelivered`, `BoundedCallsReturn`, `DefaultCallsReturn`): it
rests on fairness, and so on `ENABLED`, which the prover does not reason about.
`NoWaitCycle` is the part of `EveryCallReturns` that is a safety property.

## Findings

Five places where a document or comment says one thing and the code does another,
each shown by a violated run: `host_broker_rebind`, `network_access_no_host`,
`network_access_no_listeners`, `scan_source_fragment`, `plugin_records`.
`PROJECT.json` quotes the lines. Met as well, and stated as exceptions of properties:
`CallPluginHTTP` cuts an installation id to int32 after its check (`IdsReach`, which
covers every other id), a nil `AuthProvider` or device authorization pointer passes
the start-up checks (`OnlyUncheckedNilsKill`, `CallsReachServer`), and a number cut at the cap of `DoJSON` decodes as a shorter number (`SuccessIsWhole`).

## Not modelled

- *Messages of the capability services*, most of `pkg/pluginproto`. Generated
  structs with getters, whose fields plugin authors fill and hosts read. No code in
  the SDK turns on them; a model would list fields without a behaviour. Their
  services, methods, stubs and registration are `Services`; the messages that code
  does act on are in `HostMessages`, `Manifest`, `ConfigSchemas` and `ScanSource`.
- *Config values* (`config`): `ValidateValue` looks a schema up and hands it to a
  JSON-schema library; the decision is the library's.
- *Examples* `hello-runtime-host` and `hello-scheduled-task`: one host call, and
  none. `imagevariant`: one table lookup.
- Of *Registration*: the `Configure` callback, which keeps no state of the SDK's,
  and the typed accessors of the host-side `Client`. Of the *manifest*: rules on
  text, and `RegisterHTTPRoutes`, `RegisterAssets` and `Asset`, which append to a
  list or read a file. Of the *records*: display names, icons, subscriptions.
- The host and go-plugin, beyond the environment actions above; logging; the text
  of errors.

## Plan

1. Proofs: that `HostClient`'s instance state is what `NetworkAccess` takes it to be,
   one host call per step.
2. `HostClient` under `ProviderHost`: a handler's calls with their deadlines on the
   stream they were made on, in place of single steps.
3. Installations of several plugin versions over one database in `Plugin`: records
   of an older manifest read while the newer one is installed.
