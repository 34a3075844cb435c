------------------------------- MODULE HostHandle -------------------------------
(***************************************************************************)
(* What pluginHostState promises its callers: the process is bound to at    *)
(* most one host stream; the handle of Host() is absent or is the           *)
(* connection of that stream; it stays the same one until the next binding; *)
(* and no stream is ever connected twice.                                   *)
(***************************************************************************)
CONSTANTS Streams, NoStream

VARIABLES binding, handle, used

vars == <<binding, handle, used>>

Init == binding = NoStream /\ handle = NoStream /\ used = {}

\* setBroker and setBrokerID: another binding (or none), nothing connected yet.
Bind(s) ==
  /\ binding' = s
  /\ handle' = NoStream
  /\ used' = used

\* A dial of the bound stream succeeds.
Connect ==
  /\ handle = NoStream
  /\ binding \in Streams \ used
  /\ handle' = binding
  /\ used' = used \cup {binding}
  /\ binding' = binding

Next == Connect \/ \E s \in Streams \cup {NoStream} : Bind(s)

Spec == Init /\ [][Next]_vars
=============================================================================
