---------------------------- MODULE MCRpcHandler ---------------------------
(* RpcHandler for TLC.                                                       *)
EXTENDS RpcHandler
=============================================================================
