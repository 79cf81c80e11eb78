--------------------------- MODULE MCWatchSession ---------------------------
(* Two calls at once, in two directories; one command runs both tests, the *)
(* other one of them.                                                      *)
EXTENDS WatchSession, TLC

CONSTANTS c1, c2, d1, d2

McCallers == {c1, c2}
McDirs == {d1, d2}
Sym == Permutations(McCallers) \cup Permutations(McDirs)
McSelects == [c \in {"suite", "one"} |-> IF c = "suite" THEN {"t1", "t2"} ELSE {"t1"}]
=============================================================================
