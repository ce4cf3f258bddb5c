---------------------------- MODULE MCRpcClient ----------------------------
(* RpcClient for TLC.  Connections are interchangeable; so are peers.        *)
EXTENDS RpcClient

Symmetry == Permutations(Conns) \cup Permutations(Peers)
=============================================================================
