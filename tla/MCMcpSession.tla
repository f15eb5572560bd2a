----------------------------- MODULE MCMcpSession -----------------------------
(* An instance of McpSession for TLC.                                      *)
EXTENDS McpSession

CONSTANTS k1, k2, r1
=============================================================================
