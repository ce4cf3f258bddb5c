------------------------- MODULE ArchiveStoreProofs -------------------------
(* Theorems about ArchiveStore, for every set and forest of blocks.          *)
EXTENDS ArchiveStore, TLAPS

(* What is written was not there.                                            *)
Fresh == pc = "write" => disk[File] = Torn

IInv == TypeOK /\ Fresh /\ ChainKept

LEMMA ParentBelow ==
  ASSUME NEW b \in Blocks, Height[b] # 1
  PROVE  Parent[b] \in Blocks /\ Height[Parent[b]] = Height[b] - 1
BY ArchiveStoreAssumption

LEMMA InitIInv == Init => IInv
BY ArchiveStoreAssumption DEF Init, IInv, TypeOK, Fresh, ChainKept

(* Types.                                                                    *)
LEMMA NextTypeOK == TypeOK /\ [Next]_vars => TypeOK'
<1> SUFFICES ASSUME TypeOK, [Next]_vars PROVE TypeOK'
  OBVIOUS
<1> USE ArchiveStoreAssumption
<1>1. ASSUME NEW b \in Blocks, Start(b) PROVE TypeOK'
  BY <1>1 DEF TypeOK, Start
<1>2. CASE GetBlock BY <1>2 DEF TypeOK, GetBlock
<1>3. CASE GetFails BY <1>3 DEF TypeOK, GetFails
<1>4. CASE Stop BY <1>4 DEF TypeOK, Stop, Ends, Undone
<1>5. CASE Exists BY <1>5 DEF TypeOK, Exists, Ends, Undone
<1>6. CASE Create
  <2>1. current \in Blocks /\ File \in Heights
    BY <1>6 DEF TypeOK, Create, File, Heights
  <2> QED BY <1>6, <2>1 DEF TypeOK, Create
<1>7. CASE Fill
  <2>1. current \in Blocks /\ File \in Heights /\ Height[current] = File
    BY <1>7 DEF TypeOK, Fill, File, Heights
  <2>2. disk' \in [Heights -> Blocks \cup {Absent, Torn}]
    BY <1>7, <2>1 DEF TypeOK, Fill
  <2>3. \A h \in Heights : disk'[h] \in Blocks => Height[disk'[h]] = h
    BY <1>7, <2>1 DEF TypeOK, Fill
  <2>4. First(current) \/ Parent[current] \in Blocks
    BY <2>1, ParentBelow DEF First
  <2> QED BY <1>7, <2>1, <2>2, <2>3, <2>4 DEF TypeOK, Fill, First
<1>8. CASE UNCHANGED vars BY <1>8 DEF TypeOK, vars
<1> QED BY <1>1, <1>2, <1>3, <1>4, <1>5, <1>6, <1>7, <1>8 DEF Next, Walk

LEMMA NextFresh == TypeOK /\ Fresh /\ [Next]_vars => Fresh'
<1> SUFFICES ASSUME TypeOK, Fresh, [Next]_vars PROVE Fresh'
  OBVIOUS
<1>1. CASE Create
  <2>1. File \in Heights BY <1>1 DEF TypeOK, Create, File, Heights
  <2> QED BY <1>1, <2>1 DEF TypeOK, Fresh, Create, File
<1>2. CASE ~Create
  BY <1>2 DEF Fresh, Next, Walk, Start, GetBlock, GetFails, Stop, Exists, Ends, Fill,
              File, vars
<1> QED BY <1>1, <1>2

(* A block that is not the last of the run keeps its parent, and the run     *)
(* leaves the last one with its parent below it or in `cut` or `clash`.      *)
LEMMA NextChainKept == IInv /\ [Next]_vars => ChainKept'
<1> SUFFICES ASSUME IInv, [Next]_vars,
                    NEW h \in Heights, disk'[h] \in Blocks, h > 1,
                    disk'[h] # last', disk'[h] \notin cut' \cup clash'
             PROVE  disk'[h - 1] = Parent[disk'[h]]
  BY DEF ChainKept
<1> DEFINE b == disk'[h]
<1> USE DEF IInv
<1>0. /\ TypeOK /\ Fresh /\ ChainKept /\ TypeOK' /\ h \in Nat
      /\ Absent \notin Blocks /\ Torn \notin Blocks
  BY NextTypeOK, ArchiveStoreAssumption DEF Heights
<1>1. Height[b] = h BY <1>0 DEF TypeOK
<1>2. Parent[b] \in Blocks /\ Height[Parent[b]] = h - 1 /\ h - 1 \in Heights
  BY <1>1, <1>0, ParentBelow DEF Heights
<1>3. ASSUME disk[h] = b, b # last, b \notin cut \cup clash PROVE disk[h - 1] = Parent[b]
  BY <1>0, <1>3 DEF ChainKept
<1>4. ASSUME last = b PROVE current = Parent[b] /\ File = h - 1 /\ pc # "idle"
  <2>1. last # NoBlock BY <1>4, ArchiveStoreAssumption
  <2> QED BY <1>0, <1>2, <1>4, <2>1, ArchiveStoreAssumption DEF TypeOK, File
<1>5. ASSUME NEW c \in Blocks, Start(c) PROVE disk'[h - 1] = Parent[b]
  BY <1>3, <1>4, <1>5 DEF Start
<1>6. CASE GetBlock \/ GetFails \/ UNCHANGED vars
  BY <1>3, <1>6 DEF GetBlock, GetFails, vars
<1>7. CASE Stop
  <2>1. b # last BY <1>7, ArchiveStoreAssumption DEF Stop, Undone
  <2> QED BY <1>3, <1>7, <2>1 DEF Stop, Ends
<1>8. CASE Exists
  <2>1. CASE b = last
    <3>1. last # NoBlock BY <2>1, ArchiveStoreAssumption
    <3>2. disk[File] = current BY <1>8, <2>1, <3>1 DEF Exists, Undone
    <3> QED BY <1>4, <1>8, <2>1, <3>2 DEF Exists, Ends
  <2>2. CASE b # last
    BY <1>3, <1>8, <2>2 DEF Exists, Ends
  <2> QED BY <2>1, <2>2
<1>9. CASE Create
  <2>1. File \in Heights BY <1>0, <1>9 DEF TypeOK, Create, File, Heights
  <2>2. h # File BY <1>0, <1>9, <2>1 DEF TypeOK, Create
  <2>3. disk[h - 1] = Parent[b] BY <1>3, <1>9, <2>2 DEF Create, TypeOK
  <2>4. File # h - 1 BY <1>0, <1>2, <1>9, <2>3 DEF Create
  <2> QED BY <1>0, <1>2, <1>9, <2>3, <2>4 DEF Create, TypeOK
<1>10. CASE Fill
  <2>1. current \in Blocks /\ File \in Heights /\ disk[File] = Torn
    BY <1>0, <1>10 DEF TypeOK, Fresh, Fill, File, Heights
  <2>2. h # File
    <3> SUFFICES ASSUME h = File PROVE FALSE
      OBVIOUS
    <3>1. b = current BY <1>0, <1>10, <2>1 DEF Fill, TypeOK
    <3> QED BY <1>1, <1>10, <3>1 DEF Fill, First
  <2>3. disk[h] = b BY <1>10, <2>1, <2>2 DEF Fill, TypeOK
  <2>4. CASE b = last
    <3>1. current = Parent[b] /\ File = h - 1 BY <1>4, <2>4
    <3> QED BY <1>0, <1>2, <1>10, <3>1 DEF Fill, TypeOK
  <2>5. CASE b # last
    <3>1. disk[h - 1] = Parent[b] BY <1>3, <1>10, <2>3, <2>5 DEF Fill
    <3>2. File # h - 1 BY <1>0, <1>2, <2>1, <3>1
    <3> QED BY <1>0, <1>2, <1>10, <3>1, <3>2 DEF Fill, TypeOK
  <2> QED BY <2>4, <2>5
<1> QED BY <1>5, <1>6, <1>7, <1>8, <1>9, <1>10 DEF Next, Walk

LEMMA Invariant == Spec => []IInv
<1>1. Init => IInv BY InitIInv
<1>2. IInv /\ [Next]_vars => IInv'
  BY NextTypeOK, NextFresh, NextChainKept DEF IInv
<1> QED BY <1>1, <1>2, PTL DEF Spec

(* Types, for every forest of blocks, number of tries and of runs.           *)
THEOREM TypeCorrect == Spec => []TypeOK
<1>1. IInv => TypeOK BY DEF IInv
<1> QED BY <1>1, Invariant, PTL

(* Below a stored block is its parent, but for the three excuses that        *)
(* ChainKept names, whatever the order of runs, stops and forks.             *)
THEOREM Chained == Spec => []ChainKept
<1>1. IInv => ChainKept BY DEF IInv
<1> QED BY <1>1, Invariant, PTL

(* No step of any run writes the file of a stored block.                     *)
THEOREM Kept == Spec => StoredKept
<1>1. IInv /\ [Next]_vars => [ \A h \in Heights : disk[h] \in Blocks => disk'[h] = disk[h] ]_vars
  <2> SUFFICES ASSUME IInv, Next,
                      NEW h \in Heights, disk[h] \in Blocks
               PROVE  disk'[h] = disk[h]
    OBVIOUS
  <2>0. TypeOK /\ Fresh /\ Absent \notin Blocks /\ Torn \notin Blocks
    BY ArchiveStoreAssumption DEF IInv
  <2>1. CASE Create
    BY <2>0, <2>1 DEF Create, TypeOK
  <2>2. CASE Fill
    BY <2>0, <2>2 DEF Fill, TypeOK, Fresh
  <2>3. CASE ~Create /\ ~Fill
    BY <2>3 DEF Next, Walk, Start, GetBlock, GetFails, Stop, Exists, Ends
  <2> QED BY <2>1, <2>2, <2>3
<1> QED BY <1>1, Invariant, PTL DEF Spec, StoredKept
=============================================================================
