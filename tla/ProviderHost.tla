------------------------------- MODULE ProviderHost -------------------------------
(***************************************************************************)
(* The network access provider (NetworkAccess) on the plugin's own host     *)
(* connection (HostBroker), from one process to the next: two mutexes, one  *)
(* held while waiting for the other, a dial behind both, and a host that    *)
(* binds each process it starts.  Where NetworkAccess takes runtime.Host()  *)
(* to be nil or not at will, here a handler calls it, queues on s.mu,        *)
(* perhaps dials, and then makes its host calls over the stream it got.     *)
(*                                                                         *)
(* Process number n has the broker n.  The host offers a stream and invokes *)
(* BindHostBroker for it, one stream after the other.                      *)
(***************************************************************************)
EXTENDS HostBroker

CONSTANTS
  Handlers,   \* goroutines serving the provider's RPCs
  Binder,     \* the goroutine serving Runtime.BindHostBroker
  Processes   \* processes the host starts, one after the crash of the other

ASSUME ProcessesAssumption ==
  Processes \in Nat \ {0} /\ Brokers = 1..Processes /\ MaxBinds <= MaxID
ASSUME HandlersAssumption  == Procs = Handlers \cup {Binder} /\ Binder \notin Handlers
ASSUME OrderlyAssumption   == Orderly

VARIABLES
  connected, desired, restored, info,  \* of NetworkAccess, with the handlers'
  mu, ppc, pop, hasHost,               \* pc and op as ppc and pop
  store, ack, durable,
  got,    \* what the provider's last call of Host() returned
  asked   \* that was for the step its handler is at

Provider == INSTANCE NetworkAccess
              WITH Procs <- Handlers, pc <- ppc, op <- pop, hostUp <- got # NoStream

connection == <<broker, brokerID, client, dropped, holder, pc, op, arg, target, timer,
                stream, age, binds>>
provider   == <<connected, desired, restored, info, mu, ppc, pop, hasHost, store, ack, durable>>
answer     == <<got, asked>>
system     == <<connection, provider, answer>>

\* The first process has its broker before it serves an RPC.
SystemInit ==
  /\ broker = 1 /\ brokerID = 0 /\ client = NoStream
  /\ dropped = {}
  /\ holder = NoProc
  /\ pc = [p \in Procs |-> "idle"]
  /\ op = [p \in Procs |-> "host"]
  /\ arg = [p \in Procs |-> 0]
  /\ target = [p \in Procs |-> NoStream]
  /\ timer = [p \in Procs |-> 0]
  /\ stream = [s \in Streams |-> "unsent"]
  /\ age = [s \in Streams |-> 0]
  /\ binds = 0
  /\ got = NoStream /\ asked = FALSE
  /\ Provider!Init

-----------------------------------------------------------------------------
(* The provider's handlers *)

RPC(p) ==
  /\ UNCHANGED <<connection, answer>>
  /\ \/ \E o \in Provider!Ops : Provider!Call(p, o)
     \/ Provider!Lock(p)

\* The steps that begin with a call of Host(): restoreLocked unless it is
\* done, and Connect and Disconnect.
NeedsHost(p) ==
  \/ ppc[p] = "restore" /\ ~restored
  \/ ppc[p] = "handle" /\ pop[p] # "status"

AskHost(p) ==
  /\ NeedsHost(p) /\ ~asked
  /\ CallHost(p)
  /\ UNCHANGED <<provider, answer>>

\* A goroutine moves in Host() or BindHostBroker; a handler whose call of
\* Host() returns has the client that is cached as it unlocks.
Moves(p) ==
  /\ Locks(p) \/ DialEnds(p)
  /\ IF p \in Handlers /\ pc'[p] = "idle"
     THEN got' = client' /\ asked' = TRUE
     ELSE UNCHANGED answer
  /\ UNCHANGED provider

\* The client the handler holds reaches the host.
Reaches == got # NoStream /\ stream[got] = "live"

\* A persistLocked whose error is only logged.
WriteErrorLogged(p) == Provider!PersistErrorLogged(p) /\ (store' # store => Reaches)

\* persistLocked: the write arrives at the host.
Write(p) == Provider!Persist(p) /\ Reaches

\* The handler goes on.  A host call succeeds, or writes, over a live stream.
Works(p) ==
  /\ NeedsHost(p) => asked
  /\ asked' = FALSE /\ got' = got
  /\ \/ Provider!RestoreSkips(p) \/ Provider!RestoreFails(p)
     \/ Provider!RestoreReads(p) /\ Reaches
     \/ Provider!RestoreInfo(p) /\ (info' # info => Reaches)
     \/ Provider!Connect(p) \/ Provider!Disconnect(p) \/ Provider!GetStatus(p)
     \/ Provider!ConnectInfo(p) /\ Reaches
     \/ Provider!ConnectInfoFails(p)
     \/ Write(p)
     \/ Provider!PersistFails(p) /\ (store' # store => Reaches)
     \/ Provider!Report(p) \/ Provider!Reply(p) \/ Provider!ReplyLost(p)
  /\ UNCHANGED connection

-----------------------------------------------------------------------------
(* The host and the clock *)

\* The stream that the host binds next.
NextStream == <<broker, binds + 1>>

OffersNext ==
  /\ binds < MaxBinds
  /\ ~BindInFlight
  /\ HostOffers(NextStream)
  /\ UNCHANGED <<provider, answer>>

BindsNext ==
  /\ CallBind(Binder, binds + 1)
  /\ UNCHANGED <<provider, answer>>

Closes ==
  /\ \E s \in Streams : HostCloses(s)
  /\ UNCHANGED <<provider, answer>>

\* Time passes, but not between the first offer and its BindHostBroker.
TimePasses ==
  /\ binds = 0 /\ MaxBinds > 0 => stream[NextStream] # "offered"
  /\ Tick
  /\ UNCHANGED <<provider, answer>>

\* The process dies and the host starts the next one.  All its streams go with
\* it: they count as closed and dropped.
Crash ==
  /\ broker < Processes
  /\ got' = NoStream /\ asked' = FALSE
  /\ Provider!Crash
  /\ broker' = broker + 1 /\ brokerID' = 0 /\ client' = NoStream
  /\ dropped' = dropped \cup {s \in Streams : s[1] = broker}
  /\ holder' = NoProc
  /\ pc' = [p \in Procs |-> "idle"]
  /\ op' = [p \in Procs |-> "host"]
  /\ arg' = [p \in Procs |-> 0]
  /\ target' = [p \in Procs |-> NoStream]
  /\ timer' = [p \in Procs |-> 0]
  /\ stream' = [s \in Streams |-> IF s[1] = broker THEN "closed" ELSE stream[s]]
  /\ age' = [s \in Streams |-> 0]
  /\ binds' = 0

SystemNext ==
  \/ \E p \in Handlers : RPC(p) \/ AskHost(p) \/ Works(p)
  \/ \E p \in Procs : Moves(p)
  \/ OffersNext \/ BindsNext \/ Closes
  \/ TimePasses
  \/ Crash

System == SystemInit /\ [][SystemNext]_system

\* A goroutine's own steps: at most one of them can be taken at a time.
Runs(p) ==
  \/ Moves(p)
  \/ p \in Handlers /\ (AskHost(p) \/ Works(p) \/ (RPC(p) /\ ppc[p] = "waiting"))

(* The clock runs; a dial ends; a host call returns, with an answer or an    *)
(* error; and both mutexes are Go's sync.Mutex, which hands itself over in   *)
(* FIFO order to a goroutine that starves, hence strong fairness.  The host  *)
(* need not do anything.                                                   *)
FairSystem == System /\ WF_system(TimePasses) /\ \A p \in Procs : SF_system(Runs(p))

-----------------------------------------------------------------------------
(* Properties *)

SystemTypeOK ==
  /\ TypeOK /\ Provider!TypeOK
  /\ got \in Streams \cup {NoStream}
  /\ asked \in BOOLEAN

\* The client a handler goes on with, also when the host has bound another
\* stream meanwhile, was connected, by this process, and is not forgotten: it
\* is cached or was dropped by a bind.
HandlersUseBoundStreams ==
  got # NoStream => got[1] = broker /\ Consumed(got) /\ (got = client \/ got \in dropped)

\* An intent acknowledged by a handler that got a host from Host() is in the
\* host's store, although the client it holds may be dropped by the next bind, or
\* its stream closed by the host, between Host() and the write.
SystemIntentSurvives == Provider!IntentSurvives

\* Every RPC and every Host() and BindHostBroker call returns, or the process
\* dies, although a handler keeps p.mu while it queues for s.mu and then dials,
\* and whatever the host refuses or closes.
EveryCallReturns == CallsReturn /\ Provider!CallsReturn

\* A host that binds each process once, neither refuses nor closes the stream,
\* asks for the status over and over, at whatever intervals, and does not fail
\* every read.
HostServes ==
  /\ WF_system(binds = 0 /\ (OffersNext \/ BindsNext))
  /\ WF_system(\E p \in Handlers : RPC(p) /\ Provider!Call(p, "status"))
  /\ SF_system(\E p \in Handlers : Works(p) /\ Provider!RestoreReads(p))
  /\ <>[](binds <= 1 /\ stream[<<broker, 1>>] \notin {"refused", "closed"})

\* With such a host, a durably acknowledged Connect is resumed after every
\* restart, however long the new process idles before its first host call: the
\* dial at bind time is what makes the restore possible.
Resumed == HostServes => []<>(connected \/ ~(ack = "1" /\ durable))
=============================================================================
