------------------------------ MODULE MCP2pRun ------------------------------
(* P2pRun on a small instance.                                               *)
EXTENDS P2pRun
=============================================================================
