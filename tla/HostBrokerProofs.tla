----------------------------- MODULE HostBrokerProofs -----------------------------
(***************************************************************************)
(* Proofs about HostBroker for every set of brokers and goroutines, every   *)
(* number of streams and every window and timeout: the type invariant, the  *)
(* safety invariants, and that pluginHostState implements HostHandle.       *)
(***************************************************************************)
EXTENDS HostBroker, TLAPS

\* A dialing goroutine dials a real stream.
DialsStream == \A p \in Procs : pc[p] = "dialing" => target[p] \in Streams

\* Closed connections are accounted for like live ones: without this,
\* NoRedial would not survive the host closing a connection.
ConsumedAccounted ==
  \A s \in Streams : Consumed(s) => s = client \/ s \in dropped

IInv ==
  /\ TypeOK
  /\ DialsStream
  /\ DialIsCurrent
  /\ ClientIsCurrent
  /\ ConsumedAccounted
  /\ NoRedial

USE NumbersAssumption, NullsAssumption

-----------------------------------------------------------------------------
\* What a bound process is bound to is a stream.
LEMMA BoundToStream == TypeOK /\ Bound => BoundTo = <<broker, brokerID>> /\ BoundTo \in Streams
  BY DEF TypeOK, Bound, BoundTo, Streams, IDs

\* The initial state satisfies the inductive invariant.
LEMMA InitIInv == Init => IInv
  BY DEF Init, IInv, TypeOK, DialsStream, DialIsCurrent, ClientIsCurrent,
         ConsumedAccounted, NoRedial, Consumed, IDs, StreamStates

\* Entering dialLocked leaves the goroutine idle, or dialing the given stream.
LEMMA EnterDialType ==
  ASSUME TypeOK, NEW p \in Procs, NEW b \in Brokers \cup {NoBroker},
         NEW id \in IDs \cup {0}, NEW c, EnterDial(p, b, id, c)
  PROVE  /\ holder' \in Procs \cup {NoProc}
         /\ pc' \in [Procs -> {"idle", "waiting", "dialing"}]
         /\ target' \in [Procs -> Streams \cup {NoStream}]
         /\ timer' \in [Procs -> 0..DialTimeout]
<1>1. CASE c # NoStream \/ b = NoBroker \/ id = 0
  BY <1>1 DEF EnterDial, TypeOK, dials
<1>2. CASE ~(c # NoStream \/ b = NoBroker \/ id = 0)
  <2>1. <<b, id>> \in Streams
    BY <1>2 DEF Streams, IDs
  <2> QED
    BY <1>2, <2>1 DEF EnterDial, TypeOK
<1> QED
  BY <1>1, <1>2

\* Each step keeps the type invariant; one case per action.
LEMMA TypeStep == IInv /\ [Next]_vars => TypeOK'
<1> SUFFICES ASSUME IInv, [Next]_vars PROVE TypeOK'
  OBVIOUS
<1> USE DEF IInv, TypeOK, StreamStates
<1>1. ASSUME NEW b \in Brokers, SetBroker(b) PROVE TypeOK'
  BY <1>1 DEF SetBroker, calls, dials, wire
<1>2. ASSUME NEW p \in Procs, CallHost(p) PROVE TypeOK'
  BY <1>2 DEF CallHost, state, dials, wire
<1>3. ASSUME NEW p \in Procs, NEW id \in IDs \cup {0}, CallBind(p, id) PROVE TypeOK'
  BY <1>3 DEF CallBind, state, dials, wire
<1>4. ASSUME NEW p \in Procs, HostLocks(p) PROVE TypeOK'
  <2>1. EnterDial(p, broker, brokerID, client)
    BY <1>4 DEF HostLocks
  <2> QED
    BY <1>4, <2>1, EnterDialType DEF HostLocks, state, wire
<1>5. ASSUME NEW p \in Procs, BindLocks(p) PROVE TypeOK'
  <2>1. EnterDial(p, broker, arg[p], NoStream) /\ arg[p] \in IDs \cup {0}
    BY <1>5 DEF BindLocks
  <2> QED
    BY <1>5, <2>1, EnterDialType DEF BindLocks, wire
<1>6. ASSUME NEW p \in Procs, DialConnects(p) PROVE TypeOK'
  BY <1>6 DEF DialConnects, LeaveDial, DialsStream
<1>7. ASSUME NEW p \in Procs, DialRefused(p) PROVE TypeOK'
  BY <1>7 DEF DialRefused, LeaveDial, state, DialsStream
<1>8. ASSUME NEW p \in Procs, DialTimesOut(p) PROVE TypeOK'
  BY <1>8 DEF DialTimesOut, LeaveDial, state
<1>9. ASSUME NEW s \in Streams, HostOffers(s) \/ HostCloses(s) PROVE TypeOK'
  BY <1>9 DEF HostOffers, HostCloses, state, calls, dials
<1>10. CASE Tick
  <2>1. timer' \in [Procs -> 0..DialTimeout]
    BY <1>10 DEF Tick, Ready
  <2>2. age' \in [Streams -> 0..Window]
    BY <1>10 DEF Tick
  <2>3. stream' \in [Streams -> StreamStates]
    BY <1>10 DEF Tick
  <2> QED
    BY <1>10, <2>1, <2>2, <2>3 DEF Tick, state, calls
<1>11. CASE UNCHANGED vars
  BY <1>11 DEF vars
<1> QED
  BY <1>1, <1>2, <1>3, <1>4, <1>5, <1>6, <1>7, <1>8, <1>9, <1>10, <1>11 DEF Next

\* While a goroutine waits for s.mu and finds it free, none is dialing.
LEMMA FreeLock == IInv /\ holder = NoProc => \A p \in Procs : pc[p] # "dialing"
  BY DEF IInv, DialIsCurrent

\* Each step keeps the facts about dials in flight: they hold the lock, and
\* their stream is the one the process is bound to.
LEMMA DialStep == IInv /\ [Next]_vars => DialsStream' /\ DialIsCurrent'
<1> SUFFICES ASSUME IInv, [Next]_vars PROVE DialsStream' /\ DialIsCurrent'
  OBVIOUS
<1>0. TypeOK /\ DialsStream /\ DialIsCurrent
  BY DEF IInv
<1> USE DEF DialsStream, DialIsCurrent, BoundTo, Bound
<1>1. ASSUME NEW b \in Brokers, SetBroker(b) PROVE DialsStream' /\ DialIsCurrent'
  BY <1>0, <1>1, FreeLock DEF SetBroker, calls, dials
<1>2. ASSUME NEW p \in Procs, CallHost(p) PROVE DialsStream' /\ DialIsCurrent'
  BY <1>0, <1>2 DEF CallHost, state, dials, TypeOK
<1>3. ASSUME NEW p \in Procs, NEW id \in IDs \cup {0}, CallBind(p, id)
      PROVE DialsStream' /\ DialIsCurrent'
  BY <1>0, <1>3 DEF CallBind, state, dials, TypeOK
<1>4. ASSUME NEW p \in Procs, HostLocks(p) PROVE DialsStream' /\ DialIsCurrent'
  <2>1. \A q \in Procs : pc[q] # "dialing"
    BY <1>4, FreeLock DEF HostLocks
  <2>2. CASE client # NoStream \/ broker = NoBroker \/ brokerID = 0
    BY <1>0, <1>4, <2>1, <2>2 DEF HostLocks, EnterDial, TypeOK
  <2>3. CASE ~(client # NoStream \/ broker = NoBroker \/ brokerID = 0)
    <3>1. BoundTo = <<broker, brokerID>> /\ BoundTo \in Streams
      BY <1>0, <2>3, BoundToStream
    <3>2. \A q \in Procs : pc'[q] = "dialing" => q = p
      BY <1>0, <1>4, <2>1, <2>3 DEF HostLocks, EnterDial, TypeOK
    <3>3. holder' = p /\ target'[p] = BoundTo
      BY <1>0, <1>4, <2>3, <3>1 DEF HostLocks, EnterDial, TypeOK
    <3>4. BoundTo' = BoundTo /\ client' = NoStream
      BY <1>4, <2>3 DEF HostLocks, state
    <3> QED
      BY <3>1, <3>2, <3>3, <3>4
  <2> QED
    BY <2>2, <2>3
<1>5. ASSUME NEW p \in Procs, BindLocks(p) PROVE DialsStream' /\ DialIsCurrent'
  <2>1. \A q \in Procs : pc[q] # "dialing"
    BY <1>5, FreeLock DEF BindLocks
  <2>2. CASE broker = NoBroker \/ arg[p] = 0
    BY <1>0, <1>5, <2>1, <2>2 DEF BindLocks, EnterDial, TypeOK
  <2>3. CASE ~(broker = NoBroker \/ arg[p] = 0)
    <3>1. <<broker, arg[p]>> \in Streams
      BY <1>0, <2>3 DEF TypeOK, Streams, IDs
    <3>2. \A q \in Procs : pc'[q] = "dialing" => q = p
      BY <1>0, <1>5, <2>1, <2>3 DEF BindLocks, EnterDial, TypeOK
    <3>3. holder' = p /\ target'[p] = <<broker, arg[p]>>
      BY <1>0, <1>5, <2>3 DEF BindLocks, EnterDial, TypeOK
    <3>4. BoundTo' = <<broker, arg[p]>> /\ client' = NoStream
      BY <1>5, <2>3 DEF BindLocks
    <3> QED
      BY <3>1, <3>2, <3>3, <3>4
  <2> QED
    BY <2>2, <2>3
<1>6. ASSUME NEW p \in Procs, DialEnds(p) PROVE DialsStream' /\ DialIsCurrent'
  <2>1. pc' = [pc EXCEPT ![p] = "idle"] /\ pc[p] = "dialing"
    BY <1>6 DEF DialEnds, DialConnects, DialRefused, DialTimesOut, LeaveDial
  <2>2. \A q \in Procs : pc'[q] # "dialing"
    BY <1>0, <2>1 DEF TypeOK
  <2> QED
    BY <2>2
<1>7. ASSUME NEW s \in Streams, HostOffers(s) \/ HostCloses(s)
      PROVE DialsStream' /\ DialIsCurrent'
  BY <1>0, <1>7 DEF HostOffers, HostCloses, state, calls, dials
<1>8. CASE Tick
  BY <1>0, <1>8 DEF Tick, state, calls
<1>9. CASE UNCHANGED vars
  BY <1>0, <1>9 DEF vars
<1> QED
  BY <1>1, <1>2, <1>3, <1>4, <1>5, <1>6, <1>7, <1>8, <1>9 DEF Next, DialEnds

\* Each step keeps the cached client the connection of the current binding,
\* and every connection the host served accounted for.
LEMMA ClientStep == IInv /\ [Next]_vars => ClientIsCurrent' /\ ConsumedAccounted'
<1> SUFFICES ASSUME IInv, [Next]_vars PROVE ClientIsCurrent' /\ ConsumedAccounted'
  OBVIOUS
<1>0. TypeOK /\ DialsStream /\ DialIsCurrent /\ ClientIsCurrent /\ ConsumedAccounted
  BY DEF IInv
<1> USE DEF ClientIsCurrent, ConsumedAccounted, Consumed, BoundTo, Bound
<1>1. ASSUME NEW b \in Brokers, SetBroker(b) PROVE ClientIsCurrent' /\ ConsumedAccounted'
  BY <1>0, <1>1 DEF SetBroker, wire
<1>2. ASSUME NEW p \in Procs, CallHost(p) \/ HostLocks(p)
      PROVE ClientIsCurrent' /\ ConsumedAccounted'
  BY <1>0, <1>2 DEF CallHost, HostLocks, state, wire
<1>3. ASSUME NEW p \in Procs, NEW id \in IDs \cup {0}, CallBind(p, id)
      PROVE ClientIsCurrent' /\ ConsumedAccounted'
  BY <1>0, <1>3 DEF CallBind, state, wire
<1>4. ASSUME NEW p \in Procs, BindLocks(p) PROVE ClientIsCurrent' /\ ConsumedAccounted'
  BY <1>0, <1>4 DEF BindLocks, wire
<1>5. ASSUME NEW p \in Procs, DialConnects(p) PROVE ClientIsCurrent' /\ ConsumedAccounted'
  <2>1. target[p] = BoundTo /\ client = NoStream /\ target[p] \in Streams
    BY <1>0, <1>5 DEF DialConnects, DialIsCurrent, DialsStream
  <2>2. stream' = [stream EXCEPT ![target[p]] = "live"] /\ client' = target[p]
        /\ UNCHANGED <<broker, brokerID, dropped>>
    BY <1>5 DEF DialConnects
  <2> QED
    BY <1>0, <2>1, <2>2 DEF TypeOK
<1>6. ASSUME NEW p \in Procs, DialRefused(p) PROVE ClientIsCurrent' /\ ConsumedAccounted'
  <2>1. client = NoStream
    BY <1>0, <1>6 DEF DialRefused, DialIsCurrent
  <2> QED
    BY <1>0, <1>6, <2>1 DEF DialRefused, state, TypeOK
<1>7. ASSUME NEW p \in Procs, DialTimesOut(p) PROVE ClientIsCurrent' /\ ConsumedAccounted'
  BY <1>0, <1>7 DEF DialTimesOut, state
<1>8. ASSUME NEW s \in Streams, HostOffers(s) \/ HostCloses(s)
      PROVE ClientIsCurrent' /\ ConsumedAccounted'
  BY <1>0, <1>8 DEF HostOffers, HostCloses, state, TypeOK
<1>9. CASE Tick
  BY <1>0, <1>9 DEF Tick, state, TypeOK
<1>10. CASE UNCHANGED vars
  BY <1>0, <1>10 DEF vars
<1> QED
  BY <1>1, <1>2, <1>3, <1>4, <1>5, <1>6, <1>7, <1>8, <1>9, <1>10 DEF Next

\* With no client cached, a consumed stream is one whose client was dropped:
\* so whoever dials it dials a dropped connection again.
LEMMA RedialsDropped ==
  DialIsCurrent /\ DialsStream /\ ConsumedAccounted => NoRedial
<1> SUFFICES ASSUME DialIsCurrent, DialsStream, ConsumedAccounted, NEW p \in Procs,
                    pc[p] = "dialing", Consumed(target[p])
             PROVE target[p] \in dropped
  BY DEF NoRedial
<1>1. target[p] \in Streams /\ client = NoStream
  BY DEF DialsStream, DialIsCurrent
<1> QED
  BY <1>1 DEF ConsumedAccounted

\* The inductive invariant is preserved by every step.
LEMMA NextIInv == IInv /\ [Next]_vars => IInv'
<1> SUFFICES ASSUME IInv, [Next]_vars PROVE IInv'
  OBVIOUS
<1>1. TypeOK' /\ DialsStream' /\ DialIsCurrent' /\ ClientIsCurrent' /\ ConsumedAccounted'
  BY TypeStep, DialStep, ClientStep
<1>2. (DialIsCurrent /\ DialsStream /\ ConsumedAccounted => NoRedial)'
  BY RedialsDropped, PTL
<1> QED
  BY <1>1, <1>2 DEF IInv

-----------------------------------------------------------------------------
\* The inductive invariant holds in every reachable state.
THEOREM Invariance == Spec => []IInv
<1>1. Init => IInv
  BY InitIInv
<1>2. IInv /\ [Next]_vars => IInv'
  BY NextIInv
<1> QED
  BY <1>1, <1>2, PTL DEF Spec

\* Every variable of the singleton and of its environment keeps its type.
THEOREM TypeCorrect == Spec => []TypeOK
<1>1. IInv => TypeOK
  BY DEF IInv
<1> QED
  BY <1>1, Invariance, PTL

\* No dial is ever in flight for anything but the current binding.
THEOREM DialsAreCurrent == Spec => []DialIsCurrent
<1>1. IInv => DialIsCurrent
  BY DEF IInv
<1> QED
  BY <1>1, Invariance, PTL

\* Host() never hands out a connection of an earlier binding.
THEOREM ClientsAreCurrent == Spec => []ClientIsCurrent
<1>1. IInv => ClientIsCurrent
  BY DEF IInv
<1> QED
  BY <1>1, Invariance, PTL

\* No connection is lost except by a later setBroker or setBrokerID.
THEOREM NoConnectionLost == Spec => []ConnectionsAccounted
<1>1. IInv => ConnectionsAccounted
  BY DEF IInv, ConsumedAccounted, ConnectionsAccounted, Consumed
<1> QED
  BY <1>1, Invariance, PTL

\* A connected stream is dialed again only after its client was dropped.
THEOREM NeverRedialed == Spec => []NoRedial
<1>1. IInv => NoRedial
  BY DEF IInv
<1> QED
  BY <1>1, Invariance, PTL

\* pluginHostState implements HostHandle: each of its steps is a binding, a
\* first connection of the bound stream, or invisible to callers of Host().
THEOREM Refinement == Spec => HandleSpec
<1> DEFINE Used == {s \in Streams : Consumed(s)}
<1>1. Init => Handle!Init
  BY DEF Init, Handle!Init, BoundTo, Bound, Consumed
<1>2. IInv /\ [Next]_vars => [Handle!Next]_Handle!vars
  <2> SUFFICES ASSUME IInv, [Next]_vars PROVE [Handle!Next]_Handle!vars
    OBVIOUS
  <2>0. TypeOK /\ DialsStream /\ DialIsCurrent
    BY DEF IInv
  <2> USE DEF BoundTo, Bound, Consumed, Handle!Next, Handle!Bind, Handle!Connect, Handle!vars
  <2>1. ASSUME NEW b \in Brokers, SetBroker(b) PROVE Handle!Bind(NoStream)
    BY <2>1 DEF SetBroker, wire
  <2>2. ASSUME NEW p \in Procs, CallHost(p) \/ HostLocks(p) PROVE UNCHANGED Handle!vars
    BY <2>2 DEF CallHost, HostLocks, state, wire
  <2>3. ASSUME NEW p \in Procs, NEW id \in IDs \cup {0}, CallBind(p, id)
        PROVE UNCHANGED Handle!vars
    BY <2>3 DEF CallBind, state, wire
  <2>4. ASSUME NEW p \in Procs, BindLocks(p)
        PROVE \E s \in Streams \cup {NoStream} : Handle!Bind(s)
    <3>1. BoundTo' \in Streams \cup {NoStream}
      BY <2>0, <2>4 DEF BindLocks, TypeOK, Streams
    <3>2. Handle!Bind(BoundTo')
      BY <2>4 DEF BindLocks, wire
    <3> QED
      BY <3>1, <3>2
  <2>5. ASSUME NEW p \in Procs, DialConnects(p) PROVE Handle!Connect
    <3>1. target[p] = BoundTo /\ client = NoStream /\ target[p] \in Streams
      BY <2>0, <2>5 DEF DialConnects, DialIsCurrent, DialsStream
    <3>2. stream[target[p]] = "offered"
      BY <2>5 DEF DialConnects
    <3>3. client' = target[p] /\ BoundTo' = BoundTo
      BY <2>5 DEF DialConnects
    <3>4. stream' = [stream EXCEPT ![target[p]] = "live"]
      BY <2>5 DEF DialConnects
    <3>5. Used' = Used \cup {target[p]}
      BY <2>0, <3>1, <3>4 DEF TypeOK
    <3> QED
      BY <3>1, <3>2, <3>3, <3>5
  <2>6. ASSUME NEW p \in Procs, DialRefused(p) \/ DialTimesOut(p)
        PROVE UNCHANGED Handle!vars
    <3>1. Used' = Used
      BY <2>0, <2>6 DEF DialRefused, DialTimesOut, TypeOK
    <3> QED
      BY <2>6, <3>1 DEF DialRefused, DialTimesOut, state
  <2>7. ASSUME NEW s \in Streams, HostOffers(s) \/ HostCloses(s)
        PROVE UNCHANGED Handle!vars
    <3>1. Used' = Used
      BY <2>0, <2>7 DEF HostOffers, HostCloses, TypeOK
    <3> QED
      BY <2>7, <3>1 DEF HostOffers, HostCloses, state
  <2>8. CASE Tick
    <3>1. Used' = Used
      BY <2>0, <2>8 DEF Tick, TypeOK
    <3> QED
      BY <2>8, <3>1 DEF Tick, state
  <2>9. CASE UNCHANGED vars
    BY <2>9 DEF vars
  <2> QED
    BY <2>1, <2>2, <2>3, <2>4, <2>5, <2>6, <2>7, <2>8, <2>9 DEF Next
<1> QED
  BY <1>1, <1>2, Invariance, PTL DEF Spec, HandleSpec, Handle!Spec
=============================================================================
