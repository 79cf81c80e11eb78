----------------------------- MODULE MCBootstrap -----------------------------
(* Three calls, in any overlap; the bundle is its three files.                *)
EXTENDS Bootstrap, TLC

CONSTANTS b1, b2, b3

McCalls == {b1, b2, b3}
Sym == Permutations(McCalls)
=============================================================================
