------------------------------ MODULE MCHostBroker ------------------------------
(* Small instances of HostBroker for TLC. *)
EXTENDS HostBroker, TLC

Symmetry == Permutations(Procs) \cup Permutations(Brokers)
=============================================================================
