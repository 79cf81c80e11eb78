---------------------------- MODULE MCMCPServer ----------------------------
(* Two threads: the tools of the MCP server and one dashboard request.     *)
EXTENDS MCPServer

McThreads == {"mcp", "dash"}
=============================================================================
