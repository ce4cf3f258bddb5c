--------------------------- MODULE MCRpcBehaviour --------------------------
(* RpcBehaviour for TLC.  Connections are interchangeable; so are peers.     *)
EXTENDS RpcBehaviour

Symmetry == Permutations(Conns) \cup Permutations(Peers)
=============================================================================
