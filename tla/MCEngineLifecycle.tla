-------------------------- MODULE MCEngineLifecycle --------------------------
(* Instances of EngineLifecycle for TLC.                                   *)
EXTENDS EngineLifecycle, TLC

Symmetric == Permutations(Procs) \cup Permutations(Clients)
=============================================================================
