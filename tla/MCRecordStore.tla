--------------------------- MODULE MCRecordStore ---------------------------
(* RecordStore for TLC: two best tips of one height, which is a fork, and    *)
(* one of the next height, which shares a block with the first.              *)
EXTENDS RecordStore, TLC

CONSTANTS t1, t2, t3, b1, b2, b3, e1, s1, s2

MCHeight  == t1 :> 1 @@ t2 :> 1 @@ t3 :> 2
MCChain   == t1 :> <<b1>> @@ t2 :> <<b2>> @@ t3 :> <<b3, b1>>
MCEpoch   == t1 :> e1 @@ t2 :> e1 @@ t3 :> e1
MCSnarked == t1 :> s1 @@ t2 :> s2 @@ t3 :> s1
=============================================================================
