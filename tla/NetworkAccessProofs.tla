---------------------------- MODULE NetworkAccessProofs ----------------------------
(***************************************************************************)
(* Proofs about NetworkAccess for any number of handlers: the lock gives     *)
(* one handler at a time, and an intent acknowledged with a host bound       *)
(* survives every crash, failed host call and lost answer.                   *)
(***************************************************************************)
EXTENDS NetworkAccess, TLAPS

Changing(p) == op[p] \in {"connect", "disconnect"}

\* The host info, the write and the report belong to Connect or Disconnect, with a host.
WritesForHost ==
  \A p \in Procs : pc[p] \in {"info", "persist", "report"} => Changing(p) /\ hasHost[p]

\* From the change of intent to its answer nothing is acknowledged, and
\* connected follows desired.
Unacknowledged ==
  \A p \in Procs : pc[p] \in {"persist", "report", "reply"} /\ Changing(p) =>
    ack = "none" /\ connected = desired

\* Once the write has succeeded the store holds the intent of the handler.
Written ==
  \A p \in Procs :
    pc[p] = "report" \/ (pc[p] = "reply" /\ Changing(p) /\ hasHost[p])
      => store = Encode(desired)

\* A durable intent is stored; a stored "0" is not contradicted even before
\* the restore, which would not undo a stray connection.
DurableIntent ==
  ack # "none" /\ durable =>
    /\ store = ack
    /\ ack = "0" => ~desired /\ ~connected
    /\ ack = "1" /\ restored => desired /\ connected

IInv ==
  /\ TypeOK
  /\ OneHandler
  /\ WritesForHost
  /\ Unacknowledged
  /\ Written
  /\ DurableIntent

USE NoProcAssumption

-----------------------------------------------------------------------------
\* The initial state satisfies the inductive invariant.
LEMMA InitIInv == Init => IInv
  BY DEF Init, IInv, TypeOK, OneHandler, WritesForHost, Unacknowledged, Written,
         DurableIntent, Steps, Ops

\* Only the handler that holds p.mu is beyond the lock.
LEMMA OthersWait ==
  ASSUME OneHandler, NEW p \in Procs, pc[p] \notin {"idle", "waiting"},
         NEW q \in Procs, q # p
  PROVE  pc[q] \in {"idle", "waiting"}
  BY DEF OneHandler

\* Each step keeps the type invariant and the lock's discipline.
LEMMA TypeStep == IInv /\ [Next]_vars => TypeOK' /\ OneHandler'
<1> SUFFICES ASSUME IInv, [Next]_vars PROVE TypeOK' /\ OneHandler'
  OBVIOUS
<1>0. TypeOK /\ OneHandler
  BY DEF IInv
<1> USE DEF TypeOK, OneHandler, Steps, Ops, Encode, fields, history, handler
<1>1. ASSUME NEW p \in Procs, NEW o \in Ops, Call(p, o) PROVE TypeOK' /\ OneHandler'
  BY <1>0, <1>1 DEF Call
<1>2. ASSUME NEW p \in Procs, Lock(p) PROVE TypeOK' /\ OneHandler'
  BY <1>0, <1>2 DEF Lock
<1>3. ASSUME NEW p \in Procs, RestoreSkips(p) \/ RestoreFails(p)
      PROVE TypeOK' /\ OneHandler'
  BY <1>0, <1>3 DEF RestoreSkips, RestoreFails, Goto
<1>11. ASSUME NEW p \in Procs, RestoreReads(p) PROVE TypeOK' /\ OneHandler'
  <2>1. CASE store = "1"
    BY <1>0, <1>11, <2>1 DEF RestoreReads, Goto
  <2>2. CASE store # "1"
    BY <1>0, <1>11, <2>2 DEF RestoreReads, Goto
  <2> QED
    BY <2>1, <2>2
<1>12. ASSUME NEW p \in Procs, RestoreInfo(p) PROVE TypeOK' /\ OneHandler'
  BY <1>0, <1>12 DEF RestoreInfo, Goto
<1>4. ASSUME NEW p \in Procs, Connect(p) PROVE TypeOK' /\ OneHandler'
  BY <1>0, <1>4 DEF Connect, Goto, Intend
<1>5. ASSUME NEW p \in Procs, ConnectInfo(p) \/ ConnectInfoFails(p)
      PROVE TypeOK' /\ OneHandler'
  BY <1>0, <1>5 DEF ConnectInfo, ConnectInfoFails, Goto, Return, Intend
<1>6. ASSUME NEW p \in Procs, Disconnect(p) \/ GetStatus(p)
      PROVE TypeOK' /\ OneHandler'
  BY <1>0, <1>6 DEF Disconnect, GetStatus, Goto, Intend
<1>7. ASSUME NEW p \in Procs, Persist(p) \/ Report(p) PROVE TypeOK' /\ OneHandler'
  BY <1>0, <1>7 DEF Persist, Report, Goto
<1>13. ASSUME NEW p \in Procs, PersistFails(p) PROVE TypeOK' /\ OneHandler'
  <2>1. store' \in {"absent", "0", "1"}
    BY <1>0, <1>13 DEF PersistFails
  <2> QED
    BY <1>0, <1>13, <2>1 DEF PersistFails, Return
<1>8. ASSUME NEW p \in Procs, Reply(p) \/ ReplyLost(p) PROVE TypeOK' /\ OneHandler'
  BY <1>0, <1>8 DEF Reply, ReplyLost, Return
<1>9. CASE Crash \/ HostChanges
  BY <1>0, <1>9 DEF Crash, HostChanges
<1>10. CASE UNCHANGED vars
  BY <1>0, <1>10 DEF vars
<1> QED
  BY <1>1, <1>2, <1>3, <1>4, <1>5, <1>6, <1>7, <1>8, <1>9, <1>10, <1>11, <1>12, <1>13
     DEF Next, Advance

\* Each step of the handlers keeps the link between intent, store and answer.
LEMMA IntentStep ==
  IInv /\ [Next]_vars => WritesForHost' /\ Unacknowledged' /\ Written' /\ DurableIntent'
<1> DEFINE Goal == WritesForHost /\ Unacknowledged /\ Written /\ DurableIntent
<1> SUFFICES ASSUME IInv, [Next]_vars PROVE Goal'
  OBVIOUS
<1>0. TypeOK /\ OneHandler /\ WritesForHost /\ Unacknowledged /\ Written /\ DurableIntent
  BY DEF IInv
<1> USE DEF TypeOK, WritesForHost, Unacknowledged, Written, DurableIntent, Changing,
            Encode, fields, history, handler
<1>1. ASSUME NEW p \in Procs, NEW o \in Ops, Call(p, o) PROVE Goal'
  BY <1>0, <1>1 DEF Call
<1>2. ASSUME NEW p \in Procs, Lock(p) PROVE Goal'
  BY <1>0, <1>2 DEF Lock
<1>3. ASSUME NEW p \in Procs, RestoreSkips(p) \/ RestoreFails(p) PROVE Goal'
  BY <1>0, <1>3 DEF RestoreSkips, RestoreFails, Goto
<1>4. ASSUME NEW p \in Procs, RestoreReads(p) \/ RestoreInfo(p) PROVE Goal'
  <2>1. \A q \in Procs : pc'[q] \notin {"info", "persist", "report", "reply"}
    BY <1>0, <1>4, OthersWait DEF RestoreReads, RestoreInfo, Goto
  <2>2. CASE RestoreReads(p) /\ store = "1"
    BY <1>0, <2>1, <2>2 DEF RestoreReads
  <2>3. CASE RestoreReads(p) /\ store # "1"
    <3>1. connected' = connected /\ desired' = desired
      BY <1>0, <2>3 DEF RestoreReads
    <3> QED
      BY <1>0, <2>1, <2>3, <3>1 DEF RestoreReads
  <2>4. CASE RestoreInfo(p)
    BY <1>0, <2>1, <2>4 DEF RestoreInfo
  <2> QED
    BY <1>4, <2>2, <2>3, <2>4
<1>5. ASSUME NEW p \in Procs, Connect(p) PROVE Goal'
  <2>1. \A q \in Procs \ {p} : pc'[q] \in {"idle", "waiting"}
    BY <1>0, <1>5, OthersWait DEF Connect, Goto
  <2> QED
    BY <1>0, <1>5, <2>1 DEF Connect, Goto, Intend
<1>6. ASSUME NEW p \in Procs, ConnectInfo(p) PROVE Goal'
  <2>1. \A q \in Procs \ {p} : pc'[q] \in {"idle", "waiting"}
    BY <1>0, <1>6, OthersWait DEF ConnectInfo, Goto
  <2>2. pc'[p] = "persist" /\ connected' = TRUE /\ desired' = TRUE /\ ack' = "none"
    BY <1>0, <1>6 DEF ConnectInfo, Goto, Intend
  <2>3. Changing(p)' /\ hasHost'[p]
    BY <1>0, <1>6 DEF ConnectInfo, Goto
  <2> QED
    BY <2>1, <2>2, <2>3
<1>7. ASSUME NEW p \in Procs, Disconnect(p) PROVE Goal'
  BY <1>0, <1>7, OthersWait DEF Disconnect, Goto, Intend
<1>8. ASSUME NEW p \in Procs, ConnectInfoFails(p) \/ GetStatus(p) PROVE Goal'
  BY <1>0, <1>8 DEF ConnectInfoFails, GetStatus, Goto, Return
<1>9. ASSUME NEW p \in Procs, Persist(p) \/ PersistFails(p) PROVE Goal'
  BY <1>0, <1>9, OthersWait DEF Persist, PersistFails, Goto, Return
<1>10. ASSUME NEW p \in Procs, Report(p) PROVE Goal'
  BY <1>0, <1>10 DEF Report, Goto
<1>11. ASSUME NEW p \in Procs, Reply(p) \/ ReplyLost(p) PROVE Goal'
  BY <1>0, <1>11, OthersWait DEF Reply, ReplyLost, Return, Ops
<1>12. CASE Crash
  BY <1>0, <1>12 DEF Crash
<1>13. CASE HostChanges \/ UNCHANGED vars
  BY <1>0, <1>13 DEF HostChanges, vars
<1> QED
  BY <1>1, <1>2, <1>3, <1>4, <1>5, <1>6, <1>7, <1>8, <1>9, <1>10, <1>11, <1>12, <1>13
     DEF Next, Advance

-----------------------------------------------------------------------------
\* The inductive invariant holds in every reachable state.
THEOREM Invariance == Spec => []IInv
<1>1. Init => IInv
  BY InitIInv
<1>2. IInv /\ [Next]_vars => IInv'
  BY TypeStep, IntentStep DEF IInv
<1> QED
  BY <1>1, <1>2, PTL DEF Spec

\* Every variable of the provider keeps its type.
THEOREM TypeCorrect == Spec => []TypeOK
<1>1. IInv => TypeOK
  BY DEF IInv
<1> QED
  BY <1>1, Invariance, PTL

\* One handler at a time works on the provider's fields.
THEOREM MutualExclusion == Spec => []OneHandler
<1>1. IInv => OneHandler
  BY DEF IInv
<1> QED
  BY <1>1, Invariance, PTL

\* An intent acknowledged with a host bound survives crashes and failures.
THEOREM IntentDurable == Spec => []IntentSurvives
<1>1. IInv => IntentSurvives
  BY DEF IInv, TypeOK, DurableIntent, IntentSurvives, Encode
<1> QED
  BY <1>1, Invariance, PTL

-----------------------------------------------------------------------------
\* p.mu is only held by a handler at work: no path leaves it locked.
HolderWorks == mu # NoProc => mu \in Procs /\ pc[mu] \notin {"idle", "waiting"}

\* The lock is released on every path that returns, errors and lost answers too.
LEMMA HolderStep == IInv /\ HolderWorks /\ [Next]_vars => HolderWorks'
<1> SUFFICES ASSUME IInv, HolderWorks, [Next]_vars PROVE HolderWorks'
  OBVIOUS
<1>0. TypeOK /\ OneHandler
  BY DEF IInv
<1> USE DEF HolderWorks, TypeOK
<1>1. ASSUME NEW p \in Procs, NEW o \in Ops, Call(p, o) PROVE HolderWorks'
  BY <1>0, <1>1 DEF Call
<1>2. ASSUME NEW p \in Procs, Lock(p) PROVE HolderWorks'
  BY <1>0, <1>2 DEF Lock
<1>3. ASSUME NEW p \in Procs, NEW s \in Steps \ {"idle", "waiting"}, Goto(p, s),
             pc[p] \notin {"idle", "waiting"}
      PROVE  HolderWorks'
  BY <1>0, <1>3 DEF Goto
<1>4. ASSUME NEW p \in Procs, Return(p) PROVE HolderWorks'
  BY <1>4 DEF Return
<1>5. ASSUME NEW p \in Procs, Advance(p) PROVE HolderWorks'
  BY <1>3, <1>4, <1>5
     DEF Steps, Advance, RestoreSkips, RestoreFails, RestoreReads, RestoreInfo, Connect,
         ConnectInfo, ConnectInfoFails, Disconnect, GetStatus, Persist, PersistFails,
         Report, Reply, ReplyLost
<1>6. CASE Crash \/ HostChanges \/ UNCHANGED vars
  BY <1>6 DEF Crash, HostChanges, handler, vars
<1> QED
  BY <1>1, <1>2, <1>5, <1>6 DEF Next

\* A handler that waits for p.mu waits for one that is at work.
THEOREM NoLockLeaked == Spec => []HolderWorks
<1>1. Init => HolderWorks
  BY DEF Init, HolderWorks
<1>2. IInv /\ HolderWorks /\ [Next]_vars => HolderWorks'
  BY HolderStep
<1> QED
  BY <1>1, <1>2, Invariance, PTL DEF Spec
=============================================================================
