------------------------------ MODULE MCVMPool ------------------------------
(* Instances of VMPool for TLC.                                            *)
EXTENDS VMPool, TLC

\* Every name has a path of its own, and every thread may pass every name.
SafeDistinct == [n \in Names |-> n]
NamesShared  == [t \in Threads |-> Names]

ThreadSymmetry == Permutations(Threads)
=============================================================================
