-------------------------- MODULE MCEngineClients --------------------------
(* Two MCP servers and one run_code.                                       *)
EXTENDS EngineClients, TLC

CONSTANTS a1, a2, i1, i2

McAgents == {a1, a2}
McIds == {i1, i2}
Sym == Permutations(McAgents) \cup Permutations(McIds)
=============================================================================
