------------------------------ MODULE NetworkAccess ------------------------------
(***************************************************************************)
(* The network access provider of examples/hello-network-access: Connect,   *)
(* Disconnect and GetStatus run under p.mu, restore the desired state from  *)
(* the host's instance state once per process, persist it and push status   *)
(* reports.  Every host call is a step of its own that may fail, a failed   *)
(* write may have been applied, the process may crash between any two       *)
(* steps, and runtime.Host() may be nil (module HostBroker).                *)
(***************************************************************************)
CONSTANTS
  Procs,     \* goroutines serving RPCs
  NoProc     \* p.mu is free

ASSUME NoProcAssumption == NoProc \notin Procs

VARIABLES
  connected, desired, restored,  \* the provider's fields; lost in a crash
  info,       \* hostInfo # nil, which gives the status its listeners
  mu,         \* who holds p.mu
  pc, op,     \* per handler: where it is, which RPC it serves
  hasHost,    \* per handler: its local variable host is not nil
  hostUp,     \* runtime.Host() is not nil
  store,      \* desired_connected in the host's instance state; durable
  ack,        \* history: the intent last acknowledged and not superseded
  durable     \* history: its handler had a host to persist it to

fields  == <<connected, desired, restored, info>>
handler == <<mu, pc, op, hasHost>>
vars    == <<connected, desired, restored, info, mu, pc, op, hasHost, hostUp,
             store, ack, durable>>
history == <<ack, durable>>

Ops    == {"connect", "disconnect", "status"}
Steps  == {"idle", "waiting", "restore", "restoreInfo", "handle", "info",
           "persist", "report", "reply"}

\* An encoding other than the one restoreLocked compares with.
EncodeAsBool(b) == IF b THEN "true" ELSE "false"

\* The value persistLocked writes, "1" or "0".
Encode(b) == IF b THEN "1" ELSE "0"

\* What statusLocked makes of the fields: a connected provider lists one
\* listener per listener of hostInfo, if it has it.
ListsListeners == connected /\ info

Init ==
  /\ connected = FALSE /\ desired = FALSE /\ restored = FALSE /\ info = FALSE
  /\ mu = NoProc
  /\ pc = [p \in Procs |-> "idle"]
  /\ op = [p \in Procs |-> "status"]
  /\ hasHost = [p \in Procs |-> FALSE]
  /\ hostUp = FALSE
  /\ store = "absent"
  /\ ack = "none" /\ durable = FALSE

-----------------------------------------------------------------------------
(* The RPC handlers *)

\* An RPC arrives and queues on p.mu.
Call(p, o) ==
  /\ pc[p] = "idle"
  /\ pc' = [pc EXCEPT ![p] = "waiting"]
  /\ op' = [op EXCEPT ![p] = o]
  /\ UNCHANGED <<fields, mu, hasHost, hostUp, store, history>>

Lock(p) ==
  /\ pc[p] = "waiting"
  /\ mu = NoProc
  /\ mu' = p
  /\ pc' = [pc EXCEPT ![p] = "restore"]
  /\ UNCHANGED <<fields, op, hasHost, hostUp, store, history>>

\* The handler that holds p.mu goes on at step s.
Goto(p, s) ==
  /\ pc' = [pc EXCEPT ![p] = s]
  /\ UNCHANGED <<mu, op>>

\* The deferred unlock, forgotten.
ReturnLocked(p) ==
  /\ pc' = [pc EXCEPT ![p] = "idle"]
  /\ UNCHANGED <<mu, op, hasHost>>

\* The handler returns; the deferred unlock releases p.mu.
Return(p) ==
  /\ pc' = [pc EXCEPT ![p] = "idle"]
  /\ mu' = NoProc
  /\ UNCHANGED <<op, hasHost>>

\* restoreLocked returns at once: already restored, or no host to ask.
RestoreSkips(p) ==
  /\ pc[p] = "restore"
  /\ restored \/ ~hostUp
  /\ Goto(p, "handle")
  /\ UNCHANGED <<fields, hasHost, hostUp, store, history>>

\* A restoreLocked that does not try again after a read error.
RestoreGivesUp(p) ==
  /\ pc[p] = "restore"
  /\ ~restored /\ hostUp
  /\ restored' = TRUE
  /\ Goto(p, "handle")
  /\ UNCHANGED <<connected, desired, info, hasHost, hostUp, store, history>>

\* ReadInstanceState fails: restored stays false, the next RPC tries again.
RestoreFails(p) ==
  /\ pc[p] = "restore"
  /\ ~restored /\ hostUp
  /\ Goto(p, "handle")
  /\ UNCHANGED <<fields, hasHost, hostUp, store, history>>

\* ReadInstanceState answers: "1" resumes the connection, anything else
\* leaves the fields as they are.
RestoreReads(p) ==
  /\ pc[p] = "restore"
  /\ ~restored /\ hostUp
  /\ restored' = TRUE
  /\ desired' = (desired \/ store = "1")
  /\ connected' = (connected \/ store = "1")
  /\ Goto(p, IF store = "1" THEN "restoreInfo" ELSE "handle")
  /\ UNCHANGED <<info, hasHost, hostUp, store, history>>

\* GetHostInfo after a resumed connection; its error is ignored.
RestoreInfo(p) ==
  /\ pc[p] = "restoreInfo"
  /\ info' \in {TRUE, info}
  /\ Goto(p, "handle")
  /\ UNCHANGED <<connected, desired, restored, hasHost, hostUp, store, history>>

\* The handler takes over the admin's intent; it is not acknowledged yet.
Intend(b) ==
  /\ connected' = b /\ desired' = b
  /\ ack' = "none" /\ durable' = FALSE

\* Connect asks for the host; without one it goes straight to its reply, since
\* persistLocked and reportLocked do nothing for a nil host.
Connect(p) ==
  /\ pc[p] = "handle" /\ op[p] = "connect"
  /\ hasHost' = [hasHost EXCEPT ![p] = hostUp]
  /\ IF hostUp
     THEN /\ Goto(p, "info")
          /\ UNCHANGED <<fields, history>>
     ELSE /\ Intend(TRUE)
          /\ Goto(p, "reply")
          /\ UNCHANGED <<restored, info>>
  /\ UNCHANGED <<hostUp, store>>

ConnectInfo(p) ==
  /\ pc[p] = "info"
  /\ info' = TRUE
  /\ Intend(TRUE)
  /\ Goto(p, "persist")
  /\ UNCHANGED <<restored, hasHost, hostUp, store>>

\* Connect's GetHostInfo fails: the error goes to the caller, nothing changed.
ConnectInfoFails(p) ==
  /\ pc[p] = "info"
  /\ Return(p)
  /\ UNCHANGED <<fields, hostUp, store, history>>

Disconnect(p) ==
  /\ pc[p] = "handle" /\ op[p] = "disconnect"
  /\ hasHost' = [hasHost EXCEPT ![p] = hostUp]
  /\ Intend(FALSE)
  /\ Goto(p, IF hostUp THEN "persist" ELSE "reply")
  /\ UNCHANGED <<restored, info, hostUp, store>>

GetStatus(p) ==
  /\ pc[p] = "handle" /\ op[p] = "status"
  /\ Goto(p, "reply")
  /\ UNCHANGED <<fields, hasHost, hostUp, store, history>>

\* A persistLocked whose error is only logged.
PersistErrorLogged(p) ==
  /\ pc[p] = "persist"
  /\ store' \in {store, Encode(desired)}
  /\ Goto(p, "report")
  /\ UNCHANGED <<fields, hasHost, hostUp, history>>

\* persistLocked: WriteInstanceState stores the intent.
Persist(p) ==
  /\ pc[p] = "persist"
  /\ store' = Encode(desired)
  /\ Goto(p, "report")
  /\ UNCHANGED <<fields, hasHost, hostUp, history>>

\* WriteInstanceState returns an error, the write applied or not: the caller
\* gets the error, the fields keep the new intent, nothing is reported.
PersistFails(p) ==
  /\ pc[p] = "persist"
  /\ store' \in {store, Encode(desired)}
  /\ Return(p)
  /\ UNCHANGED <<fields, hostUp, history>>

\* reportLocked: the host is sent the status; a failure is only logged.
Report(p) ==
  /\ pc[p] = "report"
  /\ Goto(p, "reply")
  /\ UNCHANGED <<fields, hasHost, hostUp, store, history>>

\* The RPC answers with the status, which acknowledges a new intent.
Reply(p) ==
  /\ pc[p] = "reply"
  /\ IF op[p] = "status"
     THEN UNCHANGED <<ack, durable>>
     ELSE ack' = Encode(desired) /\ durable' = hasHost[p]
  /\ Return(p)
  /\ UNCHANGED <<fields, hostUp, store>>

\* The answer is sent but lost: the caller has given up.
ReplyLost(p) ==
  /\ pc[p] = "reply"
  /\ Return(p)
  /\ UNCHANGED <<fields, hostUp, store, history>>

-----------------------------------------------------------------------------
(* The process and its host *)

\* The process dies and is started again: only the host's store survives.
Crash ==
  /\ connected' = FALSE /\ desired' = FALSE /\ restored' = FALSE /\ info' = FALSE
  /\ mu' = NoProc
  /\ pc' = [p \in Procs |-> "idle"]
  /\ op' = [p \in Procs |-> "status"]
  /\ hasHost' = [p \in Procs |-> FALSE]
  /\ hostUp' = FALSE
  /\ UNCHANGED <<store, ack, durable>>

\* BindHostBroker, or a retried dial, gives runtime.Host() a client; a rebind
\* that cannot dial takes it away.
HostChanges ==
  /\ hostUp' = ~hostUp
  /\ UNCHANGED <<fields, handler, store, history>>

-----------------------------------------------------------------------------
Advance(p) ==
  \/ RestoreSkips(p) \/ RestoreFails(p) \/ RestoreReads(p) \/ RestoreInfo(p)
  \/ Connect(p) \/ ConnectInfo(p) \/ ConnectInfoFails(p)
  \/ Disconnect(p) \/ GetStatus(p)
  \/ Persist(p) \/ PersistFails(p) \/ Report(p)
  \/ Reply(p) \/ ReplyLost(p)

Next ==
  \/ \E p \in Procs : (\E o \in Ops : Call(p, o)) \/ Lock(p) \/ Advance(p)
  \/ Crash
  \/ HostChanges

Spec == Init /\ [][Next]_vars

(* Handlers run; their host calls return (with an answer or an error), and   *)
(* sync.Mutex starves nobody.                                              *)
FairSpec == Spec /\ \A p \in Procs : WF_vars(Advance(p)) /\ SF_vars(Lock(p))

(* A host at its best: it keeps asking for the status, and a read or a host  *)
(* info that is asked for again and again is answered in the end.            *)
Polled ==
  /\ WF_vars(\E p \in Procs : Call(p, "status"))
  /\ SF_vars(\E p \in Procs : RestoreReads(p))
  /\ SF_vars(\E p \in Procs : RestoreInfo(p) /\ info')
  /\ SF_vars(\E p \in Procs : ConnectInfo(p))

PolledSpec == FairSpec /\ Polled

-----------------------------------------------------------------------------
(* Properties *)

TypeOK ==
  /\ connected \in BOOLEAN /\ desired \in BOOLEAN /\ restored \in BOOLEAN
  /\ info \in BOOLEAN /\ hostUp \in BOOLEAN
  /\ mu \in Procs \cup {NoProc}
  /\ pc \in [Procs -> Steps]
  /\ op \in [Procs -> Ops]
  /\ hasHost \in [Procs -> BOOLEAN]
  /\ store \in {"absent", "0", "1"}
  /\ ack \in {"none", "0", "1"} /\ durable \in BOOLEAN

\* An intent acknowledged with a host bound is in the instance state, and once
\* restored a process acts on it: across crashes, failed reads, lost writes
\* and answers, no later process comes back in the wrong state.
IntentSurvives ==
  ack # "none" /\ durable =>
    /\ store = ack
    /\ restored => Encode(desired) = ack /\ Encode(connected) = ack

\* An acknowledged intent is what a restored process acts on, host or no host:
\* "the admin must know the intent did not survive".
AcknowledgedIntentHolds ==
  ack # "none" /\ restored => Encode(desired) = ack

\* What a handler has decided cannot change before it persists, reports and
\* answers: other RPCs wait for p.mu through every host call.
OneHandler ==
  \A p \in Procs : pc[p] \notin {"idle", "waiting"} => mu = p

\* Every RPC returns, or the process dies.
CallsReturn ==
  \A p \in Procs : pc[p] # "idle" ~> pc[p] = "idle"

\* With the host bound for good and polling, a durably acknowledged Connect is
\* resumed after every restart, however many reads fail on the way.
IntentResumed ==
  Polled => (<>[]hostUp => []<>(connected \/ ~(ack = "1" /\ durable)))

\* With the host bound for good and polling, a connection that restoreLocked
\* has resumed comes to list its listeners, or ends: "one NetworkAccessListener
\* per exposed listener".
ListenersServed ==
  <>[]hostUp =>
    \A p \in Procs : pc[p] = "restoreInfo" ~> (~connected \/ ListsListeners)
=============================================================================
