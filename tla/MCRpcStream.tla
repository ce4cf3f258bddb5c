---------------------------- MODULE MCRpcStream ----------------------------
(* RpcStream for TLC.  With a header of one byte and a buffer of four, a     *)
(* message of two bytes leaves room in the buffer, one of three fills it to  *)
(* the last byte and one of six makes it double twice.                       *)
EXTENDS RpcStream
=============================================================================
