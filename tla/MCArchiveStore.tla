--------------------------- MODULE MCArchiveStore ---------------------------
(* ArchiveStore for TLC: a chain of four blocks and a fork of its last two,  *)
(* one block longer.                                                         *)
EXTENDS ArchiveStore, TLC

CONSTANTS a1, a2, a3, a4, f3, f4, f5

MCBlocks == {a1, a2, a3, a4, f3, f4, f5}
MCHeight == a1 :> 1 @@ a2 :> 2 @@ a3 :> 3 @@ a4 :> 4 @@ f3 :> 3 @@ f4 :> 4 @@ f5 :> 5
MCParent == a1 :> NoBlock @@ a2 :> a1 @@ a3 :> a2 @@ a4 :> a3
            @@ f3 :> a2 @@ f4 :> f3 @@ f5 :> f4
=============================================================================
