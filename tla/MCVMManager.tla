----------------------------- MODULE MCVMManager -----------------------------
(* Instances of VMManager for TLC.                                         *)
EXTENDS VMManager, TLC

Symmetric == Permutations(Threads) \cup Permutations(Launches)
=============================================================================
