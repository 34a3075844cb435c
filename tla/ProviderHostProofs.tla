---------------------------- MODULE ProviderHostProofs ----------------------------
(***************************************************************************)
(* Proofs about ProviderHost for any number of handlers, processes, binds    *)
(* and streams.  The composition implements NetworkAccess, so that what is   *)
(* proved of the provider holds of it over a real connection; the inductive  *)
(* invariant of HostBroker, which each process inherits, gives that handlers *)
(* only use streams their own process connected; and the order in which the  *)
(* host binds its streams gives that the first of them does not expire.     *)
(***************************************************************************)
EXTENDS ProviderHost, HostBrokerProofs

SystemIInv ==
  /\ IInv
  /\ broker \in Brokers
  /\ got \in Streams \cup {NoStream}
  /\ HandlersUseBoundStreams

USE NumbersAssumption, NullsAssumption

-----------------------------------------------------------------------------
\* The initial state satisfies the invariant.
LEMMA SystemInitIInv == SystemInit => SystemIInv
<1> SUFFICES ASSUME SystemInit PROVE SystemIInv
  OBVIOUS
<1>1. broker \in Brokers
  BY ProcessesAssumption DEF SystemInit
<1>2. IInv
  BY <1>1 DEF SystemInit, IInv, TypeOK, DialsStream, DialIsCurrent, ClientIsCurrent,
         ConsumedAccounted, NoRedial, Consumed, IDs, StreamStates
<1> QED
  BY <1>1, <1>2 DEF SystemInit, SystemIInv, HandlersUseBoundStreams

\* Apart from crashes, a step of the composition is a step of HostBroker that
\* leaves the process its broker.
LEMMA ConnectionStep ==
  SystemIInv /\ [SystemNext]_system => ([Next]_vars /\ broker' = broker) \/ Crash
<1> SUFFICES ASSUME SystemIInv, [SystemNext]_system, ~Crash
             PROVE [Next]_vars /\ broker' = broker
  OBVIOUS
<1>1. ASSUME UNCHANGED connection PROVE [Next]_vars /\ broker' = broker
  BY <1>1 DEF connection, vars
<1>2. ASSUME NEW p \in Handlers, RPC(p) \/ AskHost(p) \/ Works(p)
      PROVE [Next]_vars /\ broker' = broker
  <2>1. CASE AskHost(p)
    BY <2>1, HandlersAssumption DEF AskHost, CallHost, Next, state
  <2> QED
    BY <1>1, <1>2, <2>1 DEF RPC, Works, Write
<1>3. ASSUME NEW p \in Procs, Moves(p) PROVE [Next]_vars /\ broker' = broker
  <2>1. CASE HostLocks(p) \/ BindLocks(p)
    BY <2>1 DEF Next, HostLocks, BindLocks, state
  <2>2. CASE DialConnects(p) \/ DialRefused(p) \/ DialTimesOut(p)
    BY <2>2 DEF Next, DialConnects, DialRefused, DialTimesOut, state
  <2> QED
    BY <1>3, <2>1, <2>2 DEF Moves, Locks, DialEnds
<1>4. CASE OffersNext
  <2>1. binds + 1 \in IDs
    BY <1>4, ProcessesAssumption DEF OffersNext, SystemIInv, IInv, TypeOK, IDs
  <2>2. NextStream \in Streams
    BY <2>1 DEF NextStream, Streams, SystemIInv
  <2> QED
    BY <1>4, <2>2 DEF OffersNext, HostOffers, Next, state
<1>5. CASE BindsNext
  <2>1. binds + 1 \in IDs
    BY <1>5, ProcessesAssumption DEF BindsNext, CallBind, SystemIInv, IInv, TypeOK, IDs
  <2> QED
    BY <1>5, <2>1, HandlersAssumption DEF BindsNext, CallBind, Next, state
<1>6. CASE Closes
  BY <1>6 DEF Closes, HostCloses, Next, state
<1>7. CASE TimePasses
  BY <1>7 DEF TimePasses, Tick, Next, state
<1>8. CASE UNCHANGED system
  BY <1>1, <1>8 DEF system
<1> QED
  BY <1>2, <1>3, <1>4, <1>5, <1>6, <1>7, <1>8 DEF SystemNext

\* The next process starts in a state that satisfies HostBroker's invariant.
LEMMA CrashStep == SystemIInv /\ Crash => SystemIInv'
<1> SUFFICES ASSUME SystemIInv, Crash PROVE SystemIInv'
  OBVIOUS
<1>0. TypeOK /\ ConsumedAccounted /\ ClientIsCurrent /\ broker \in Brokers
  BY DEF SystemIInv, IInv
<1>1. broker' \in Brokers /\ broker \in Nat
  BY <1>0, ProcessesAssumption DEF Crash
<1>2. TypeOK'
  <2>1. stream' \in [Streams -> StreamStates]
    BY <1>0 DEF Crash, TypeOK, StreamStates
  <2>2. /\ pc' \in [Procs -> {"idle", "waiting", "dialing"}]
        /\ op' \in [Procs -> {"host", "bind"}]
        /\ arg' \in [Procs -> IDs \cup {0}]
        /\ target' \in [Procs -> Streams \cup {NoStream}]
        /\ timer' \in [Procs -> 0..DialTimeout]
    BY DEF Crash
  <2>3. /\ brokerID' \in IDs \cup {0} /\ client' \in Streams \cup {NoStream}
        /\ holder' \in Procs \cup {NoProc} /\ dropped' \subseteq Streams
        /\ age' \in [Streams -> 0..Window] /\ binds' \in 0..MaxBinds
    BY <1>0 DEF Crash, TypeOK
  <2> QED
    BY <1>1, <2>1, <2>2, <2>3 DEF TypeOK
<1>3. DialsStream' /\ DialIsCurrent' /\ NoRedial'
  BY DEF Crash, DialsStream, DialIsCurrent, NoRedial
<1>4. ClientIsCurrent'
  BY DEF Crash, ClientIsCurrent
<1>5. ConsumedAccounted'
  <2> SUFFICES ASSUME NEW s \in Streams, Consumed(s)'
               PROVE s \in dropped'
    BY DEF ConsumedAccounted
  <2>1. s[1] \in Brokers
    BY DEF Streams
  <2>2. CASE s[1] = broker
    BY <1>1, <2>2 DEF Crash
  <2>3. CASE s[1] # broker
    <3>1. Consumed(s)
      BY <1>0, <2>3 DEF Crash, Consumed, TypeOK
    <3>2. s = client \/ s \in dropped
      BY <1>0, <3>1 DEF ConsumedAccounted
    <3>3. client # NoStream => client[1] = broker
      BY <1>0 DEF ClientIsCurrent, BoundTo, Bound
    <3> QED
      BY <2>3, <3>2, <3>3 DEF Crash
  <2> QED
    BY <2>2, <2>3
<1>6. got' = NoStream
  BY DEF Crash
<1> QED
  BY <1>1, <1>2, <1>3, <1>4, <1>5, <1>6 DEF SystemIInv, IInv, HandlersUseBoundStreams

\* A stream that was connected stays connected, or is closed.
LEMMA ConsumedStep ==
  ASSUME IInv, [Next]_vars, NEW s \in Streams, Consumed(s)
  PROVE  Consumed(s)'
<1>0. TypeOK /\ DialsStream
  BY DEF IInv
<1>1. ASSUME NEW p \in Procs, DialConnects(p) \/ DialRefused(p) PROVE Consumed(s)'
  <2>1. target[p] \in Streams /\ stream[target[p]] = "offered"
    BY <1>0, <1>1 DEF DialConnects, DialRefused, DialsStream
  <2> QED
    BY <1>0, <1>1, <2>1 DEF DialConnects, DialRefused, Consumed, TypeOK
<1>2. ASSUME NEW t \in Streams, HostOffers(t) \/ HostCloses(t) PROVE Consumed(s)'
  BY <1>0, <1>2 DEF HostOffers, HostCloses, Consumed, TypeOK
<1>3. CASE Tick
  BY <1>0, <1>3 DEF Tick, Consumed, TypeOK
<1>4. CASE UNCHANGED stream
  BY <1>4 DEF Consumed
<1>5. UNCHANGED stream \/ Tick
      \/ (\E p \in Procs : DialConnects(p) \/ DialRefused(p))
      \/ (\E t \in Streams : HostOffers(t) \/ HostCloses(t))
  BY DEF Next, vars, SetBroker, CallHost, CallBind, HostLocks, BindLocks, DialTimesOut, wire
<1> QED
  BY <1>1, <1>2, <1>3, <1>4, <1>5

\* Between crashes the client of a handler stays a connection of its process,
\* cached or dropped, while it and others queue, dial and bind.
LEMMA AnswerStep ==
  SystemIInv /\ [Next]_vars /\ broker' = broker /\ [SystemNext]_system /\ ~Crash => SystemIInv'
<1> SUFFICES ASSUME SystemIInv, [Next]_vars, broker' = broker, [SystemNext]_system, ~Crash
             PROVE SystemIInv'
  OBVIOUS
<1>1. IInv /\ IInv'
  BY NextIInv DEF SystemIInv
<1>2. ConsumedAccounted' /\ ClientIsCurrent' /\ TypeOK'
  BY <1>1 DEF IInv
<1>3. CASE got' = client'
  <2>1. client' # NoStream => client' \in Streams /\ Consumed(client)' /\ client'[1] = broker'
    BY <1>2 DEF ClientIsCurrent, BoundTo, Bound, TypeOK
  <2> QED
    BY <1>1, <1>2, <1>3, <2>1 DEF SystemIInv, HandlersUseBoundStreams, TypeOK
<1>4. CASE got' = got
  <2>1. got # NoStream => Consumed(got)'
    <3>1. \A s \in Streams : stream[s] \in {"live", "closed"} => stream'[s] \in {"live", "closed"}
      BY <1>1, ConsumedStep DEF Consumed
    <3> QED
      BY <1>4, <3>1 DEF SystemIInv, HandlersUseBoundStreams, Consumed
  <2>2. got # NoStream => got = client' \/ got \in dropped'
    BY <1>2, <1>4, <2>1 DEF ConsumedAccounted, SystemIInv
  <2> QED
    BY <1>1, <1>4, <2>1, <2>2 DEF SystemIInv, HandlersUseBoundStreams
<1>5. got' = client' \/ got' = got
  BY DEF SystemNext, RPC, AskHost, Works, Write, Moves, OffersNext, BindsNext, Closes,
         TimePasses, answer, system
<1> QED
  BY <1>3, <1>4, <1>5

-----------------------------------------------------------------------------
\* The inductive invariant holds in every process, from its start to its crash.
THEOREM SystemInvariance == System => []SystemIInv
<1>1. SystemInit => SystemIInv
  BY SystemInitIInv
<1>2. SystemIInv /\ [SystemNext]_system => SystemIInv'
  BY ConnectionStep, AnswerStep, CrashStep
<1> QED
  BY <1>1, <1>2, PTL DEF System

\* A handler only ever makes its host calls over a stream that its own process
\* dialed and that is cached or was replaced by a later bind.
THEOREM HandlersOnBoundStreams == System => []HandlersUseBoundStreams
<1>1. SystemIInv => HandlersUseBoundStreams
  BY DEF SystemIInv
<1> QED
  BY <1>1, SystemInvariance, PTL

-----------------------------------------------------------------------------
\* What a handler does in the composition it may do in NetworkAccess.
LEMMA HandlerStep ==
  ASSUME NEW p \in Handlers, RPC(p) \/ Works(p)
  PROVE  Provider!Next
<1>1. CASE RPC(p)
  BY <1>1 DEF RPC, Provider!Next
<1>2. CASE Works(p)
  <2>1. Provider!Advance(p)
    BY <1>2 DEF Works, Write, Provider!Advance
  <2> QED
    BY <2>1 DEF Provider!Next
<1> QED
  BY <1>1, <1>2

\* When only Host() returns, NetworkAccess sees its host come, go or stay.
LEMMA HostStep ==
  UNCHANGED provider => [Provider!Next]_Provider!vars
<1> SUFFICES ASSUME UNCHANGED provider PROVE [Provider!Next]_Provider!vars
  OBVIOUS
<1>1. CASE (got' # NoStream) = (got # NoStream)
  BY <1>1 DEF provider, Provider!vars
<1>2. CASE (got' # NoStream) = ~(got # NoStream)
  BY <1>2 DEF provider, Provider!Next, Provider!HostChanges, Provider!fields,
              Provider!handler, Provider!history
<1> QED
  BY <1>1, <1>2

\* The composition implements NetworkAccess: the provider over a connection
\* that is bound, dialed, refused, lost and bound again goes through no
\* behaviour that the provider with a host at will does not.
THEOREM ProviderRefinement == System => Provider!Spec
<1>1. SystemInit => Provider!Init
  BY DEF SystemInit
<1>2. [SystemNext]_system => [Provider!Next]_Provider!vars
  <2> SUFFICES ASSUME [SystemNext]_system PROVE [Provider!Next]_Provider!vars
    OBVIOUS
  <2>1. ASSUME NEW p \in Handlers, RPC(p) \/ Works(p) PROVE Provider!Next
    BY <2>1, HandlerStep
  <2>2. CASE Crash
    BY <2>2 DEF Crash, Provider!Next
  <2>3. ASSUME UNCHANGED provider PROVE [Provider!Next]_Provider!vars
    BY <2>3, HostStep
  <2> QED
    BY <2>1, <2>2, <2>3 DEF SystemNext, AskHost, Moves, OffersNext, BindsNext,
                            Closes, TimePasses, system
<1> QED
  BY <1>1, <1>2, PTL DEF System, Provider!Spec

-----------------------------------------------------------------------------
(* What NetworkAccess alone satisfies, over a real connection *)

ProviderProofs == INSTANCE NetworkAccessProofs
  WITH Procs <- Handlers, pc <- ppc, op <- pop, hostUp <- got # NoStream

\* The module whose theorems are used is the one that is implemented.
LEMMA SameSpec == Provider!Spec => ProviderProofs!Spec
<1>1. Provider!Init => ProviderProofs!Init
  BY DEF Provider!Init, ProviderProofs!Init
<1>2. Provider!Next => ProviderProofs!Next
  BY Zenon DEF Provider!Next, ProviderProofs!Next,
               Provider!Call, ProviderProofs!Call,
               Provider!Lock, ProviderProofs!Lock,
               Provider!RestoreSkips, ProviderProofs!RestoreSkips,
               Provider!RestoreFails, ProviderProofs!RestoreFails,
               Provider!RestoreReads, ProviderProofs!RestoreReads,
               Provider!RestoreInfo, ProviderProofs!RestoreInfo,
               Provider!Connect, ProviderProofs!Connect,
               Provider!ConnectInfo, ProviderProofs!ConnectInfo,
               Provider!ConnectInfoFails, ProviderProofs!ConnectInfoFails,
               Provider!Disconnect, ProviderProofs!Disconnect,
               Provider!GetStatus, ProviderProofs!GetStatus,
               Provider!Persist, ProviderProofs!Persist,
               Provider!PersistFails, ProviderProofs!PersistFails,
               Provider!Report, ProviderProofs!Report,
               Provider!Reply, ProviderProofs!Reply,
               Provider!ReplyLost, ProviderProofs!ReplyLost,
               Provider!Crash, ProviderProofs!Crash,
               Provider!HostChanges, ProviderProofs!HostChanges,
               Provider!Goto, ProviderProofs!Goto,
               Provider!Return, ProviderProofs!Return,
               Provider!Intend, ProviderProofs!Intend,
               Provider!Encode, ProviderProofs!Encode,
               Provider!fields, ProviderProofs!fields,
               Provider!handler, ProviderProofs!handler,
               Provider!history, ProviderProofs!history,
               Provider!Ops, ProviderProofs!Ops,
               Provider!Advance, ProviderProofs!Advance
<1>3. [Provider!Next]_Provider!vars => [ProviderProofs!Next]_ProviderProofs!vars
  <2>1. UNCHANGED Provider!vars => UNCHANGED ProviderProofs!vars
    BY DEF Provider!vars, ProviderProofs!vars
  <2> QED
    BY <1>2, <2>1
<1> QED
  BY <1>1, <1>3, PTL DEF Provider!Spec, ProviderProofs!Spec

LEMMA LockIsFree == NoProc \notin Handlers
  BY HandlersAssumption

\* Type correctness of the composition, in both of its parts.
THEOREM SystemTypeCorrect == System => []SystemTypeOK
<1>1. System => [](asked \in BOOLEAN)
  <2>1. SystemInit => asked \in BOOLEAN
    BY DEF SystemInit
  <2>2. asked \in BOOLEAN /\ [SystemNext]_system => (asked \in BOOLEAN)'
    BY DEF SystemNext, RPC, AskHost, Works, Write, Moves, OffersNext, BindsNext, Closes,
           TimePasses, Crash, answer, system
  <2> QED
    BY <2>1, <2>2, PTL DEF System
<1>2. System => []ProviderProofs!TypeOK
  <2>1. ProviderProofs!Spec => []ProviderProofs!TypeOK
    BY ProviderProofs!TypeCorrect, LockIsFree
  <2> QED
    BY <2>1, ProviderRefinement, SameSpec, PTL
<1>3. SystemIInv /\ ProviderProofs!TypeOK /\ asked \in BOOLEAN => SystemTypeOK
  BY DEF SystemIInv, IInv, SystemTypeOK, Provider!TypeOK, ProviderProofs!TypeOK,
         Provider!Steps, ProviderProofs!Steps, Provider!Ops, ProviderProofs!Ops
<1> QED
  BY <1>1, <1>2, <1>3, SystemInvariance, PTL

\* Over a connection that is dialed, refused, closed and bound again, with
\* handlers queueing on both mutexes, an intent acknowledged with a host bound is
\* in the store, and the handlers of every later process act on it.
THEOREM SystemIntentDurable == System => []SystemIntentSurvives
<1>1. ProviderProofs!Spec => []ProviderProofs!IntentSurvives
  BY ProviderProofs!IntentDurable, LockIsFree
<1>2. ProviderProofs!IntentSurvives => SystemIntentSurvives
  BY DEF SystemIntentSurvives, Provider!IntentSurvives, ProviderProofs!IntentSurvives,
         Provider!Encode, ProviderProofs!Encode
<1> QED
  BY <1>1, <1>2, ProviderRefinement, SameSpec, PTL

-----------------------------------------------------------------------------
(* The window of the first stream *)

\* Only the binder binds, to the streams in their order: a bind that waits for
\* s.mu is for the last stream, and the singleton is not bound to it yet.
BindsInOrder ==
  /\ brokerID <= binds
  /\ \A p \in Procs : op[p] = "bind" /\ pc[p] # "idle" => p = Binder
  /\ \A p \in Procs : op[p] = "bind" /\ pc[p] = "waiting" =>
       arg[p] = binds /\ brokerID < binds

\* s.mu is only kept for a dial.
HolderDials == holder # NoProc => pc[holder] = "dialing"

\* The first stream is dialed for as long as it is bound and on offer.
FirstOfferDialed ==
  binds <= 1 /\ Bound /\ stream[BoundTo] = "offered" =>
    \E p \in Procs : pc[p] = "dialing"

FirstIInv == BindsInOrder /\ HolderDials /\ FirstOfferDialed

LEMMA FirstInit == SystemInit => FirstIInv
  BY DEF SystemInit, FirstIInv, BindsInOrder, HolderDials, FirstOfferDialed, Bound

\* A goroutine that finds s.mu free and enters dialLocked keeps it for its dial.
LEMMA EnterKeeps ==
  ASSUME SystemIInv, FirstIInv, holder = NoProc, NEW p \in Procs,
         NEW id \in IDs \cup {0}, NEW c, EnterDial(p, broker, id, c)
  PROVE  /\ HolderDials'
         /\ c = NoStream /\ id # 0 => pc'[p] = "dialing"
         /\ \A q \in Procs \ {p} : pc'[q] = pc[q]
         /\ pc'[p] # "waiting"
<1>1. broker # NoBroker
  BY DEF SystemIInv
<1> QED
  BY <1>1 DEF EnterDial, SystemIInv, IInv, TypeOK, FirstIInv, HolderDials

LEMMA FirstStep == SystemIInv /\ FirstIInv /\ [SystemNext]_system => FirstIInv'
<1> SUFFICES ASSUME SystemIInv, FirstIInv, [SystemNext]_system PROVE FirstIInv'
  OBVIOUS
<1>0. TypeOK /\ DialsStream /\ DialIsCurrent /\ broker \in Brokers /\ broker # NoBroker
  BY DEF SystemIInv, IInv
<1> USE DEF FirstIInv, BindsInOrder, HolderDials, FirstOfferDialed
<1>1. ASSUME UNCHANGED connection PROVE FirstIInv'
  BY <1>1 DEF connection, Bound, BoundTo
<1>2. ASSUME NEW p \in Handlers, AskHost(p) PROVE FirstIInv'
  <2>1. p \in Procs /\ CallHost(p)
    BY <1>2, HandlersAssumption DEF AskHost
  <2>2. BindsInOrder' /\ HolderDials'
    BY <1>0, <2>1 DEF CallHost, state, TypeOK
  <2>3. FirstOfferDialed'
    BY <1>0, <2>1 DEF CallHost, state, wire, TypeOK, Bound, BoundTo
  <2> QED
    BY <2>2, <2>3
<1>3. ASSUME NEW p \in Procs, HostLocks(p) PROVE FirstIInv'
  <2>1. \A q \in Procs : pc[q] # "dialing"
    BY <1>3, FreeLock DEF SystemIInv, HostLocks
  <2>2. EnterDial(p, broker, brokerID, client) /\ brokerID \in IDs \cup {0}
    BY <1>0, <1>3 DEF HostLocks, TypeOK
  <2>3. HolderDials' /\ (\A q \in Procs \ {p} : pc'[q] = pc[q]) /\ pc'[p] # "waiting"
    BY <1>3, <2>2, EnterKeeps DEF HostLocks
  <2>4. BindsInOrder'
    BY <1>3, <2>3 DEF HostLocks, state
  <2>5. FirstOfferDialed'
    BY <1>3, <2>1 DEF HostLocks, state, wire, Bound, BoundTo
  <2> QED
    BY <2>3, <2>4, <2>5
<1>4. ASSUME NEW p \in Procs, BindLocks(p) PROVE FirstIInv'
  <2>1. EnterDial(p, broker, arg[p], NoStream) /\ arg[p] \in IDs \cup {0}
    BY <1>0, <1>4 DEF BindLocks, TypeOK
  <2>2. arg[p] = binds /\ brokerID < binds /\ p = Binder /\ arg[p] # 0
    BY <1>0, <1>4 DEF BindLocks, TypeOK, IDs
  <2>3. /\ HolderDials' /\ pc'[p] = "dialing"
        /\ (\A q \in Procs \ {p} : pc'[q] = pc[q])
    BY <1>4, <2>1, <2>2, EnterKeeps DEF BindLocks
  <2>4. BindsInOrder'
    BY <1>0, <1>4, <2>2, <2>3 DEF BindLocks, TypeOK, IDs
  <2> QED
    BY <2>3, <2>4
<1>5. ASSUME NEW p \in Procs, DialEnds(p) PROVE FirstIInv'
  <2>1. /\ pc[p] = "dialing" /\ pc' = [pc EXCEPT ![p] = "idle"] /\ holder' = NoProc
        /\ UNCHANGED <<op, arg, binds, broker, brokerID>>
    BY <1>5 DEF DialEnds, DialConnects, DialRefused, DialTimesOut, LeaveDial, state
  <2>2. stream'[BoundTo] # "offered" /\ BoundTo \in Streams
    BY <1>0, <1>5
       DEF DialEnds, DialConnects, DialRefused, DialTimesOut, DialsStream, DialIsCurrent, TypeOK
  <2> QED
    BY <1>0, <2>1, <2>2 DEF Bound, BoundTo, TypeOK
<1>6. CASE OffersNext
  <2>1. /\ stream' = [stream EXCEPT ![NextStream] = "offered"]
        /\ UNCHANGED <<broker, brokerID, holder, pc, op, arg, binds>>
    BY <1>6 DEF OffersNext, HostOffers, state, calls
  <2>2. Bound => BoundTo \in Streams /\ BoundTo # NextStream
    BY <1>0, BoundToStream DEF TypeOK, IDs, NextStream
  <2> QED
    BY <1>0, <2>1, <2>2 DEF Bound, BoundTo, TypeOK
<1>7. CASE BindsNext
  <2>1. /\ ~BindInFlight /\ Binder \in Procs /\ pc[Binder] = "idle"
        /\ binds' = binds + 1 /\ pc' = [pc EXCEPT ![Binder] = "waiting"]
        /\ op' = [op EXCEPT ![Binder] = "bind"] /\ arg' = [arg EXCEPT ![Binder] = binds + 1]
        /\ UNCHANGED <<broker, brokerID, holder, stream>>
    BY <1>7, HandlersAssumption, OrderlyAssumption DEF BindsNext, CallBind, state, wire
  <2>2. BindsInOrder' /\ HolderDials'
    BY <1>0, <2>1 DEF BindInFlight, TypeOK, IDs
  <2>3. FirstOfferDialed'
    BY <1>0, <2>1 DEF Bound, BoundTo, TypeOK, IDs
  <2> QED
    BY <2>2, <2>3
<1>8. CASE Closes
  <2>1. PICK s \in Streams : HostCloses(s)
    BY <1>8 DEF Closes
  <2> QED
    BY <1>0, <2>1, BoundToStream DEF HostCloses, state, calls, Bound, BoundTo, TypeOK
<1>9. CASE TimePasses
  <2>1. /\ UNCHANGED <<broker, brokerID, holder, pc, op, arg, binds>>
        /\ \A s \in Streams : stream'[s] = "offered" => stream[s] = "offered"
    BY <1>9 DEF TimePasses, Tick, state, calls
  <2> QED
    BY <1>0, <2>1, BoundToStream DEF Bound, BoundTo
<1>10. CASE Crash
  BY <1>10 DEF Crash, Bound
<1> QED
  BY <1>1, <1>2, <1>3, <1>4, <1>5, <1>6, <1>7, <1>8, <1>9, <1>10
     DEF SystemNext, RPC, Works, Write, Moves, Locks, DialEnds, system

\* Whoever dials the first stream on offer, or waits for a free s.mu to bind it,
\* has a step to take before time passes.
LEMMA FirstKept ==
  SystemIInv /\ FirstIInv /\ [SystemNext]_system => [binds <= 1 => WindowKept]_vars
<1> SUFFICES ASSUME SystemIInv, FirstIInv, [SystemNext]_system, binds <= 1,
                    NEW s \in Streams, stream[s] = "offered", stream'[s] = "expired",
                    s = BoundTo \/ \E p \in Procs : /\ pc[p] = "waiting" /\ op[p] = "bind"
                                                    /\ s = <<broker, arg[p]>>
             PROVE  FALSE
  BY DEF WindowKept
<1>0. TypeOK /\ DialsStream /\ DialIsCurrent /\ broker \in Brokers /\ broker # NoBroker
  BY DEF SystemIInv, IInv
<1>1. TimePasses
  <2>1. ASSUME Crash PROVE FALSE
    BY <1>0, <2>1 DEF Crash, TypeOK
  <2>2. ASSUME NEW p \in Procs, DialEnds(p) PROVE FALSE
    BY <1>0, <2>2 DEF DialEnds, DialConnects, DialRefused, DialTimesOut, DialsStream, TypeOK
  <2>3. ASSUME NEW t \in Streams, HostCloses(t) PROVE FALSE
    BY <1>0, <2>3 DEF HostCloses, TypeOK
  <2>4. ASSUME OffersNext PROVE FALSE
    BY <1>0, <2>4 DEF OffersNext, HostOffers, TypeOK
  <2>5. stream' # stream
    OBVIOUS
  <2> QED
    BY <2>1, <2>2, <2>3, <2>4, <2>5
       DEF SystemNext, RPC, AskHost, CallHost, Works, Write, Moves, Locks, HostLocks, BindLocks,
           BindsNext, CallBind, Closes, connection, wire, system
<1>2. \A p \in Procs : ~Ready(p)
  BY <1>1 DEF TimePasses, Tick
<1>3. CASE s = BoundTo
  <2>1. Bound
    BY <1>3 DEF BoundTo
  <2>2. PICK p \in Procs : pc[p] = "dialing"
    BY <1>3, <2>1 DEF FirstIInv, FirstOfferDialed
  <2>3. target[p] = s
    BY <1>0, <1>3, <2>2 DEF DialIsCurrent
  <2> QED
    BY <1>2, <2>2, <2>3 DEF Ready
<1>4. ASSUME NEW p \in Procs, pc[p] = "waiting", op[p] = "bind" PROVE FALSE
  <2>1. brokerID = 0
    BY <1>0, <1>4 DEF FirstIInv, BindsInOrder, TypeOK, IDs
  <2>2. \A q \in Procs : pc[q] # "dialing"
    BY <1>0, <2>1 DEF DialIsCurrent, DialsStream, BoundTo, Bound
  <2>3. holder = NoProc
    BY <1>0, <2>2 DEF FirstIInv, HolderDials, TypeOK
  <2> QED
    BY <1>2, <1>4, <2>3 DEF Ready
<1> QED
  BY <1>3, <1>4

\* The stream of a process's first bind does not expire while its BindHostBroker
\* waits for s.mu or dials, however long the plugin idled and whoever queues.
THEOREM FirstWindowKept == System => FirstBindKeepsWindow
<1>1. SystemInit => FirstIInv
  BY FirstInit
<1>2. SystemIInv /\ FirstIInv /\ [SystemNext]_system => FirstIInv'
  BY FirstStep
<1>3. SystemIInv /\ FirstIInv /\ [SystemNext]_system => [binds <= 1 => WindowKept]_vars
  BY FirstKept
<1> QED
  BY <1>1, <1>2, <1>3, SystemInvariance, PTL DEF System, FirstBindKeepsWindow

-----------------------------------------------------------------------------
(* Two mutexes, one held while waiting for the other *)

\* A handler in Host() holds p.mu, for the step that asked for the host.
AsksForStep ==
  \A p \in Handlers : pc[p] # "idle" => NeedsHost(p) /\ ~asked

\* Whoever waits, some goroutine is at a step of its own: it finds its mutex free,
\* or is past p.mu with no call of Host() in progress, or dials, which ends.
SomebodyMoves ==
  (\E p \in Procs : pc[p] # "idle") \/ (\E p \in Handlers : ppc[p] # "idle") =>
    \/ \E p \in Procs : pc[p] = "dialing" \/ (pc[p] = "waiting" /\ holder = NoProc)
    \/ \E p \in Handlers :
         /\ pc[p] = "idle"
         /\ ppc[p] \notin {"idle", "waiting"} \/ (ppc[p] = "waiting" /\ mu = NoProc)

ProviderFacts == ProviderProofs!TypeOK /\ ProviderProofs!OneHandler

LEMMA AsksStep ==
  SystemIInv /\ ProviderFacts /\ AsksForStep /\ [SystemNext]_system => AsksForStep'
<1> SUFFICES ASSUME SystemIInv, ProviderFacts, AsksForStep, [SystemNext]_system PROVE AsksForStep'
  OBVIOUS
<1>0. TypeOK /\ (\A p \in Handlers : p \in Procs)
  BY HandlersAssumption DEF SystemIInv, IInv
<1>1. \A p \in Handlers : ppc[p] \notin {"idle", "waiting"} => mu = p
  BY DEF ProviderFacts, ProviderProofs!OneHandler
<1>2. \A p \in Handlers : pc[p] # "idle" => mu = p
  BY <1>1 DEF AsksForStep, NeedsHost
<1> USE DEF AsksForStep, NeedsHost
<1>3. ASSUME NEW q \in Handlers, RPC(q) PROVE AsksForStep'
  <2>1. /\ UNCHANGED <<pc, asked, restored>> /\ ppc[q] \in {"idle", "waiting"}
        /\ \A p \in Handlers \ {q} : ppc'[p] = ppc[p] /\ pop'[p] = pop[p]
    BY <1>3 DEF RPC, Provider!Call, Provider!Lock, connection, answer, Provider!fields,
                ProviderFacts, ProviderProofs!TypeOK
  <2> QED
    BY <2>1
<1>4. ASSUME NEW q \in Handlers, AskHost(q) PROVE AsksForStep'
  <2>1. UNCHANGED <<ppc, pop, restored, asked>>
    BY <1>4 DEF AskHost, provider, answer
  <2>2. \A p \in Handlers \ {q} : pc'[p] = pc[p]
    BY <1>0, <1>4 DEF AskHost, CallHost, TypeOK
  <2> QED
    BY <1>4, <2>1, <2>2 DEF AskHost
<1>5. ASSUME NEW q \in Handlers, Works(q) PROVE AsksForStep'
  <2>1. mu = q
    BY <1>1, <1>5
       DEF Works, Write, Provider!RestoreSkips, Provider!RestoreFails, Provider!RestoreReads,
           Provider!RestoreInfo, Provider!Connect, Provider!ConnectInfo,
           Provider!ConnectInfoFails, Provider!Disconnect, Provider!GetStatus,
           Provider!Persist, Provider!PersistFails, Provider!Report, Provider!Reply,
           Provider!ReplyLost
  <2>2. \A p \in Handlers : pc[p] = "idle"
    BY <1>2, <1>5, <2>1 DEF Works, Write
  <2> QED
    BY <1>5, <2>2 DEF Works, Write, connection
<1>6. ASSUME NEW q \in Procs, Moves(q) PROVE AsksForStep'
  <2>1. UNCHANGED <<ppc, pop, restored>>
    BY <1>6 DEF Moves, provider
  <2>2. pc[q] # "idle" /\ \A p \in Procs \ {q} : pc'[p] = pc[p]
    BY <1>0, <1>6
       DEF Moves, Locks, HostLocks, BindLocks, EnterDial, DialEnds, DialConnects,
           DialRefused, DialTimesOut, LeaveDial, TypeOK
  <2>3. CASE q \in Handlers /\ pc'[q] = "idle"
    <3>1. \A p \in Handlers \ {q} : pc[p] = "idle"
      BY <1>2, <2>2, <2>3
    <3> QED
      BY <1>0, <2>2, <2>3, <3>1
  <2>4. CASE ~(q \in Handlers /\ pc'[q] = "idle")
    <3>1. asked' = asked
      BY <1>6, <2>4 DEF Moves, answer
    <3> QED
      BY <1>0, <2>1, <2>2, <2>4, <3>1
  <2> QED
    BY <2>3, <2>4
<1>7. CASE BindsNext
  <2>1. UNCHANGED <<ppc, pop, restored, asked>> /\ Binder \notin Handlers
    BY <1>7, HandlersAssumption DEF BindsNext, provider, answer
  <2>2. \A p \in Handlers : pc'[p] = pc[p]
    BY <1>0, <1>7, <2>1 DEF BindsNext, CallBind, TypeOK
  <2> QED
    BY <2>1, <2>2
<1>8. CASE OffersNext \/ Closes \/ TimePasses \/ UNCHANGED system
  BY <1>8 DEF OffersNext, HostOffers, Closes, HostCloses, TimePasses, Tick, calls,
              system, connection, provider, answer
<1>9. CASE Crash
  BY <1>0, <1>9 DEF Crash
<1> QED
  BY <1>3, <1>4, <1>5, <1>6, <1>7, <1>8, <1>9 DEF SystemNext

\* No goroutine waits for one that waits for it: a handler may keep p.mu while it
\* queues for s.mu, but who holds s.mu dials, and waits for no mutex.
THEOREM NoWaitCycle == System => []SomebodyMoves
<1>1. System => []ProviderFacts
  <2>1. ProviderProofs!Spec => []ProviderProofs!TypeOK /\ []ProviderProofs!OneHandler
    BY ProviderProofs!TypeCorrect, ProviderProofs!MutualExclusion, LockIsFree, PTL
  <2> QED
    BY <2>1, ProviderRefinement, SameSpec, PTL DEF ProviderFacts
<1>2. System => []ProviderProofs!HolderWorks
  <2>1. ProviderProofs!Spec => []ProviderProofs!HolderWorks
    BY ProviderProofs!NoLockLeaked, LockIsFree
  <2> QED
    BY <2>1, ProviderRefinement, SameSpec, PTL
<1>3. System => []AsksForStep
  <2>1. SystemInit => AsksForStep
    BY HandlersAssumption DEF SystemInit, AsksForStep
  <2> QED
    BY <1>1, <2>1, AsksStep, SystemInvariance, PTL DEF System
<1>4. System => []FirstIInv
  BY FirstInit, FirstStep, SystemInvariance, PTL DEF System
<1>5. SystemIInv /\ ProviderFacts /\ ProviderProofs!HolderWorks /\ AsksForStep /\ FirstIInv
        => SomebodyMoves
  <2> SUFFICES ASSUME SystemIInv, ProviderFacts, ProviderProofs!HolderWorks, FirstIInv
               PROVE  SomebodyMoves
    OBVIOUS
  <2>0. TypeOK
    BY DEF SystemIInv, IInv
  <2>1. ASSUME NEW p \in Procs, pc[p] # "idle" PROVE SomebodyMoves
    <3>1. holder = NoProc \/ (holder \in Procs /\ pc[holder] = "dialing")
      BY <2>0 DEF TypeOK, FirstIInv, HolderDials
    <3> QED
      BY <2>0, <2>1, <3>1 DEF SomebodyMoves, TypeOK
  <2>2. ASSUME \A p \in Procs : pc[p] = "idle", NEW p \in Handlers, ppc[p] # "idle"
        PROVE SomebodyMoves
    <3>1. \A q \in Handlers : pc[q] = "idle"
      BY <2>2, HandlersAssumption
    <3>2. mu = NoProc \/ (mu \in Handlers /\ ppc[mu] \notin {"idle", "waiting"})
      BY DEF ProviderProofs!HolderWorks
    <3> QED
      BY <2>2, <3>1, <3>2 DEF SomebodyMoves
  <2> QED
    BY <2>1, <2>2 DEF SomebodyMoves
<1> QED
  BY <1>1, <1>2, <1>3, <1>4, <1>5, SystemInvariance, PTL
=============================================================================
