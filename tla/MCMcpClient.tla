---------------------------- MODULE MCMcpClient ----------------------------
(* Small instances of McpClient. *)
EXTENDS McpClient

CONSTANTS c1, c2
=============================================================================
