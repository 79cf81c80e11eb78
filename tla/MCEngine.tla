------------------------------ MODULE MCEngine ------------------------------
(* Instances of Engine for TLC.                                            *)
EXTENDS Engine, TLC

Symmetric == Permutations(Requests) \cup Permutations(Ids)
=============================================================================
