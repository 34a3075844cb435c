------------------------------- MODULE HostBroker -------------------------------
(***************************************************************************)
(* The plugin side of the RuntimeHost connection: the process singleton    *)
(* pluginHostState of pkg/pluginsdk/runtime/runtime.go, the handlers that   *)
(* call it (go-plugin's GRPCServer -> setBroker, Runtime.BindHostBroker ->  *)
(* setBrokerID, capability handlers -> Host), and, as its environment, the  *)
(* streams of go-plugin's GRPCBroker.                                      *)
(*                                                                         *)
(* A stream is a pair <<broker, id>>.  The host offers it (AcceptAndServe   *)
(* sends the connection info), the broker keeps the info for Window ticks,  *)
(* and one Dial may consume it.  Dial waits for the info up to DialTimeout  *)
(* ticks, and the code holds s.mu meanwhile.  Time is discrete: Tick        *)
(* happens only when no goroutine has a step it could take right now.       *)
(***************************************************************************)
EXTENDS Naturals

CONSTANTS
  Brokers,      \* GRPCBroker objects a process can be given
  MaxID,        \* largest stream id a host assigns; 0 is "no stream"
  Procs,        \* goroutines serving RPCs
  MaxBinds,     \* bound on the BindHostBroker calls the host makes
  Window,       \* ticks the broker keeps an offered stream (5 s)
  DialTimeout,  \* ticks a Dial waits for the info (5 s)
  Orderly,      \* TRUE: the host binds one stream at a time, while it is on offer
  NoBroker, NoProc, NoStream

IDs     == 1..MaxID
Streams == Brokers \X IDs

ASSUME NumbersAssumption ==
  /\ MaxID \in Nat /\ MaxBinds \in Nat
  /\ Window \in Nat /\ DialTimeout \in Nat
  /\ Orderly \in BOOLEAN
ASSUME NullsAssumption ==
  /\ NoBroker \notin Brokers
  /\ NoProc \notin Procs
  /\ NoStream \notin Streams

VARIABLES
  broker, brokerID, client,  \* the three guarded fields; a client is named by its stream
  holder,                    \* who holds s.mu across a blocking Dial
  pc, op, arg,               \* per goroutine: where it is, in which call, for which id
  target, timer,             \* per goroutine: the stream it dials and for how long
  stream, age,               \* per stream: what became of it, how long it is on offer
  binds,                     \* BindHostBroker calls made so far
  dropped                    \* history: connections whose cached client was discarded

state == <<broker, brokerID, client, dropped>>
calls == <<pc, op, arg>>
dials == <<target, timer>>
wire  == <<stream, age>>
vars  == <<broker, brokerID, client, dropped, holder, pc, op, arg, target, timer,
           stream, age, binds>>

StreamStates == {"unsent", "offered", "expired", "refused", "live", "closed"}
Consumed(s)  == stream[s] \in {"live", "closed"}

Bound      == broker # NoBroker /\ brokerID # 0
BoundTo    == IF Bound THEN <<broker, brokerID>> ELSE NoStream

Init ==
  /\ broker = NoBroker /\ brokerID = 0 /\ client = NoStream
  /\ dropped = {}
  /\ holder = NoProc
  /\ pc = [p \in Procs |-> "idle"]
  /\ op = [p \in Procs |-> "host"]
  /\ arg = [p \in Procs |-> 0]
  /\ target = [p \in Procs |-> NoStream]
  /\ timer = [p \in Procs |-> 0]
  /\ stream = [s \in Streams |-> "unsent"]
  /\ age = [s \in Streams |-> 0]
  /\ binds = 0

-----------------------------------------------------------------------------
(* The plugin process *)

\* A setBroker that forgets the cached client.
SetBrokerKeepsClient(b) ==
  /\ holder = NoProc
  /\ broker' = b
  /\ brokerID' = 0
  /\ UNCHANGED <<client, dropped, holder, calls, dials, wire, binds>>

\* registerServers -> setBroker: the previous broker's stream state goes.
SetBroker(b) ==
  /\ holder = NoProc
  /\ broker' = b
  /\ brokerID' = 0
  /\ client' = NoStream
  /\ dropped' = dropped \cup ({client} \ {NoStream})
  /\ UNCHANGED <<holder, calls, dials, wire, binds>>

\* A capability handler calls runtime.Host(): it queues on s.mu.
CallHost(p) ==
  /\ pc[p] = "idle"
  /\ pc' = [pc EXCEPT ![p] = "waiting"]
  /\ op' = [op EXCEPT ![p] = "host"]
  /\ arg' = [arg EXCEPT ![p] = 0]
  /\ UNCHANGED <<state, holder, dials, wire, binds>>

BindInFlight == \E p \in Procs : op[p] = "bind" /\ pc[p] # "idle"

\* The host invokes Runtime.BindHostBroker(id): SetHostBrokerID queues on s.mu.
\* An orderly host sends the stream's info just before, and waits for the reply.
CallBind(p, id) ==
  /\ pc[p] = "idle"
  /\ broker # NoBroker
  /\ binds < MaxBinds
  /\ Orderly => ~BindInFlight /\ id # 0 /\ stream[<<broker, id>>] = "offered"
  /\ binds' = binds + 1
  /\ pc' = [pc EXCEPT ![p] = "waiting"]
  /\ op' = [op EXCEPT ![p] = "bind"]
  /\ arg' = [arg EXCEPT ![p] = id]
  /\ UNCHANGED <<state, holder, dials, wire>>

\* A dialLocked that does not look at the cached client.
EnterDialAlways(p, b, id, c) ==
  IF b = NoBroker \/ id = 0
  THEN /\ pc' = [pc EXCEPT ![p] = "idle"]
       /\ UNCHANGED <<holder, dials>>
  ELSE /\ pc' = [pc EXCEPT ![p] = "dialing"]
       /\ holder' = p
       /\ target' = [target EXCEPT ![p] = <<b, id>>]
       /\ timer' = [timer EXCEPT ![p] = 0]

\* A dialLocked that releases s.mu for the duration of the dial.
EnterDialUnlocked(p, b, id, c) ==
  IF c # NoStream \/ b = NoBroker \/ id = 0
  THEN /\ pc' = [pc EXCEPT ![p] = "idle"]
       /\ UNCHANGED <<holder, dials>>
  ELSE /\ pc' = [pc EXCEPT ![p] = "dialing"]
       /\ target' = [target EXCEPT ![p] = <<b, id>>]
       /\ timer' = [timer EXCEPT ![p] = 0]
       /\ UNCHANGED holder

\* dialLocked, entered with the lock just taken and the fields as given:
\* nothing to do, or the goroutine keeps the lock and blocks in Dial.
EnterDial(p, b, id, c) ==
  IF c # NoStream \/ b = NoBroker \/ id = 0
  THEN /\ pc' = [pc EXCEPT ![p] = "idle"]
       /\ UNCHANGED <<holder, dials>>
  ELSE /\ pc' = [pc EXCEPT ![p] = "dialing"]
       /\ holder' = p
       /\ target' = [target EXCEPT ![p] = <<b, id>>]
       /\ timer' = [timer EXCEPT ![p] = 0]

\* host(): lock, dialLocked, and return the client when no dial is needed.
HostLocks(p) ==
  /\ pc[p] = "waiting" /\ op[p] = "host"
  /\ holder = NoProc
  /\ EnterDial(p, broker, brokerID, client)
  /\ UNCHANGED <<state, op, arg, wire, binds>>

\* A setBrokerID that does not take s.mu.
BindWithoutLock(p) ==
  /\ pc[p] = "waiting" /\ op[p] = "bind"
  /\ brokerID' = arg[p]
  /\ client' = NoStream
  /\ dropped' = dropped \cup ({client} \ {NoStream})
  /\ EnterDial(p, broker, arg[p], NoStream)
  /\ UNCHANGED <<broker, op, arg, wire, binds>>

\* A setBrokerID that keeps the cached client of the previous stream.
BindKeepsClient(p) ==
  /\ pc[p] = "waiting" /\ op[p] = "bind"
  /\ holder = NoProc
  /\ brokerID' = arg[p]
  /\ EnterDial(p, broker, arg[p], client)
  /\ UNCHANGED <<broker, client, dropped, op, arg, wire, binds>>

\* A setBrokerID that leaves the dial to the first Host() call.
BindWithoutDial(p) ==
  /\ pc[p] = "waiting" /\ op[p] = "bind"
  /\ holder = NoProc
  /\ brokerID' = arg[p]
  /\ client' = NoStream
  /\ dropped' = dropped \cup ({client} \ {NoStream})
  /\ pc' = [pc EXCEPT ![p] = "idle"]
  /\ UNCHANGED <<broker, holder, op, arg, dials, wire, binds>>

\* setBrokerID: lock, record the id, drop the cached client, dialLocked.
BindLocks(p) ==
  /\ pc[p] = "waiting" /\ op[p] = "bind"
  /\ holder = NoProc
  /\ brokerID' = arg[p]
  /\ client' = NoStream
  /\ dropped' = dropped \cup ({client} \ {NoStream})
  /\ EnterDial(p, broker, arg[p], NoStream)
  /\ UNCHANGED <<broker, op, arg, wire, binds>>

\* A return on the dial's error path that skips the unlock.
LeaveDialLocked(p) ==
  /\ pc' = [pc EXCEPT ![p] = "idle"]
  /\ target' = [target EXCEPT ![p] = NoStream]
  /\ timer' = [timer EXCEPT ![p] = 0]
  /\ UNCHANGED <<holder, op, arg, age, binds>>

\* The call in which p was dialing returns and unlocks s.mu.
LeaveDial(p) ==
  /\ pc' = [pc EXCEPT ![p] = "idle"]
  /\ holder' = NoProc
  /\ target' = [target EXCEPT ![p] = NoStream]
  /\ timer' = [timer EXCEPT ![p] = 0]
  /\ UNCHANGED <<op, arg, age, binds>>

\* Dial picks up the connection info and connects; the client is cached.
DialConnects(p) ==
  /\ pc[p] = "dialing"
  /\ stream[target[p]] = "offered"
  /\ stream' = [stream EXCEPT ![target[p]] = "live"]
  /\ client' = target[p]
  /\ LeaveDial(p)
  /\ UNCHANGED <<broker, brokerID, dropped>>

\* A dialLocked that does not look at Dial's error.
DialErrorIgnored(p) ==
  /\ pc[p] = "dialing"
  /\ stream[target[p]] = "offered"
  /\ stream' = [stream EXCEPT ![target[p]] = "refused"]
  /\ client' = target[p]
  /\ LeaveDial(p)
  /\ UNCHANGED <<broker, brokerID, dropped>>

\* Dial picks up the info but cannot connect: the info is spent, no client.
DialRefused(p) ==
  /\ pc[p] = "dialing"
  /\ stream[target[p]] = "offered"
  /\ stream' = [stream EXCEPT ![target[p]] = "refused"]
  /\ LeaveDial(p)
  /\ UNCHANGED state

\* No info within the timeout: dialLocked swallows the error, no client.
DialTimesOut(p) ==
  /\ pc[p] = "dialing"
  /\ stream[target[p]] # "offered"
  /\ timer[p] = DialTimeout
  /\ LeaveDial(p)
  /\ UNCHANGED <<state, stream>>

-----------------------------------------------------------------------------
(* The host, the broker and the clock *)

\* AcceptAndServe sends the connection info of a stream, once.
HostOffers(s) ==
  /\ stream[s] = "unsent"
  /\ stream' = [stream EXCEPT ![s] = "offered"]
  /\ UNCHANGED <<state, holder, calls, dials, age, binds>>

\* The host stops serving a connection; the plugin is not told.
HostCloses(s) ==
  /\ stream[s] = "live"
  /\ stream' = [stream EXCEPT ![s] = "closed"]
  /\ UNCHANGED <<state, holder, calls, dials, age, binds>>

\* A Dial without a timeout.
ReadyNoTimeout(p) ==
  \/ pc[p] = "waiting" /\ holder = NoProc
  \/ pc[p] = "dialing" /\ stream[target[p]] = "offered"

\* A goroutine that could run now: time does not pass it by.
Ready(p) ==
  \/ pc[p] = "waiting" /\ holder = NoProc
  \/ pc[p] = "dialing" /\ (stream[target[p]] = "offered" \/ timer[p] = DialTimeout)

Tick ==
  /\ \A p \in Procs : ~Ready(p)
  /\ timer' = [p \in Procs |-> IF pc[p] = "dialing" THEN timer[p] + 1 ELSE timer[p]]
  /\ age' = [s \in Streams |->
               IF stream[s] = "offered" /\ age[s] < Window THEN age[s] + 1 ELSE age[s]]
  /\ stream' = [s \in Streams |->
               IF stream[s] = "offered" /\ age[s] = Window THEN "expired" ELSE stream[s]]
  /\ UNCHANGED <<state, holder, calls, target, binds>>

-----------------------------------------------------------------------------
Locks(p)    == HostLocks(p) \/ BindLocks(p)
DialEnds(p) == DialConnects(p) \/ DialRefused(p) \/ DialTimesOut(p)

Next ==
  \/ \E b \in Brokers : SetBroker(b)
  \/ \E p \in Procs :
       \/ CallHost(p)
       \/ \E id \in IDs \cup {0} : CallBind(p, id)
       \/ HostLocks(p)
       \/ BindLocks(p)
       \/ DialConnects(p)
       \/ DialRefused(p)
       \/ DialTimesOut(p)
  \/ \E s \in Streams : HostOffers(s) \/ HostCloses(s)
  \/ Tick

Spec == Init /\ [][Next]_vars

-----------------------------------------------------------------------------
(* Properties *)

TypeOK ==
  /\ broker \in Brokers \cup {NoBroker}
  /\ brokerID \in IDs \cup {0}
  /\ client \in Streams \cup {NoStream}
  /\ dropped \subseteq Streams
  /\ holder \in Procs \cup {NoProc}
  /\ pc \in [Procs -> {"idle", "waiting", "dialing"}]
  /\ op \in [Procs -> {"host", "bind"}]
  /\ arg \in [Procs -> IDs \cup {0}]
  /\ target \in [Procs -> Streams \cup {NoStream}]
  /\ timer \in [Procs -> 0..DialTimeout]
  /\ stream \in [Streams -> StreamStates]
  /\ age \in [Streams -> 0..Window]
  /\ binds \in 0..MaxBinds

\* A dial in flight is for the stream the singleton is bound to now, and
\* nothing is cached meanwhile: no interleaving of binds, host calls and
\* setBroker lets Dial's answer be stored under a newer binding.
DialIsCurrent ==
  \A p \in Procs : pc[p] = "dialing" =>
    /\ holder = p
    /\ target[p] = BoundTo
    /\ client = NoStream

\* What Host() hands out is the connection of the current binding, on a
\* stream the host accepted: never one of an earlier bind or broker.
ClientIsCurrent ==
  client # NoStream => client = BoundTo /\ Consumed(client)

\* Every connection the host serves is the cached one or was given up by a
\* later setBroker or setBrokerID: no dial creates a second, unreachable one.
ConnectionsAccounted ==
  \A s \in Streams : stream[s] = "live" => s = client \/ s \in dropped

\* A stream that was connected is dialed again (a dial that hangs until its
\* timeout with s.mu held) only if its client had been dropped by a bind.
NoRedial ==
  \A p \in Procs : pc[p] = "dialing" /\ Consumed(target[p]) => target[p] \in dropped

\* No stream's window closes on it while its BindHostBroker waits for s.mu or
\* the singleton is bound to it.
WindowKept ==
  \A s \in Streams :
    \/ s = BoundTo
    \/ \E p \in Procs : /\ pc[p] = "waiting" /\ op[p] = "bind"
                        /\ s = <<broker, arg[p]>>
    => ~(stream[s] = "offered" /\ stream'[s] = "expired")

\* "setBrokerID records the host-assigned stream and dials it at once", so that
\* the stream it is given does not expire.
WindowKeptForBind == [][WindowKept]_vars

\* That holds for the first bind of an orderly host, however long the plugin
\* idles before its first host call and whoever queues for s.mu.
FirstBindKeepsWindow == [][binds <= 1 => WindowKept]_vars

\* Every Host() and BindHostBroker call returns, whatever the host does (under
\* the fairness of ProviderHost, which has the goroutines run).
CallsReturn ==
  \A p \in Procs : pc[p] # "idle" ~> pc[p] = "idle"

\* The promise made to capability handlers: one handle per binding, dialed at
\* most once per stream (module HostHandle).
Handle == INSTANCE HostHandle
            WITH binding <- BoundTo,
                 handle  <- client,
                 used    <- {s \in Streams : Consumed(s)}
HandleSpec == Handle!Spec
=============================================================================
