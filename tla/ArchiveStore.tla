---------------------------- MODULE ArchiveStore ----------------------------
(* `archive_block::store` (archive_block.rs): from an initial block back to  *)
(* the first, each block is asked for by its hash, and stored in a file      *)
(* named by its height, up to a height whose file exists.  A run may be      *)
(* stopped at any point, and run again from any block.  File::create leaves  *)
(* an empty file and the contents follow, as in RecordStore.                 *)
EXTENDS Integers, FiniteSets

CONSTANTS
  Blocks, Height, Parent,
  Tries,     \* attempts at a block: 8 in the code
  Absent, Torn, NoBlock,
  MaxRuns    \* runs of `archive`                                 (bound)

Heights == {Height[b] : b \in Blocks}

ASSUME ArchiveStoreAssumption ==
  /\ Height \in [Blocks -> Nat \ {0}] /\ Parent \in [Blocks -> Blocks \cup {NoBlock}]
  /\ \A b \in Blocks :
       /\ Height[b] = 1 <=> Parent[b] = NoBlock
       /\ Height[b] # 1 => Height[Parent[b]] = Height[b] - 1
  /\ Tries \in Nat \ {0} /\ MaxRuns \in Nat
  /\ Absent # Torn /\ Absent \notin Blocks /\ Torn \notin Blocks /\ NoBlock \notin Blocks

VARIABLES
  disk,     \* what the file of each height holds
  pc,       \* no run, or asks for `current`, has it, or writes it
  current,  \* the block of the loop's turn
  tries,    \* attempts left at it
  last,     \* the block this run stored last                     (history)
  cut,      \* blocks after which a run stopped                   (history)
  clash,    \* blocks whose run met another file below them       (history)
  runs      \* runs of `archive`                                  (history)

vars == <<disk, pc, current, tries, last, cut, clash, runs>>

Init ==
  /\ disk = [h \in Heights |-> Absent]
  /\ pc = "idle" /\ current = NoBlock /\ tries = Tries
  /\ last = NoBlock /\ cut = {} /\ clash = {} /\ runs = 0

File == Height[current]

Start(b) ==
  /\ pc = "idle" /\ runs < MaxRuns /\ runs' = runs + 1
  /\ pc' = "get" /\ current' = b /\ tries' = Tries /\ last' = NoBlock
  /\ UNCHANGED <<disk, cut, clash>>

(* The run ends; what it leaves unfinished is the block stored last.         *)
Ends ==
  /\ pc' = "idle" /\ current' = NoBlock /\ tries' = Tries /\ last' = NoBlock
  /\ UNCHANGED <<disk, runs>>

GetBlock ==
  /\ pc = "get"
  /\ pc' = "have"
  /\ UNCHANGED <<disk, current, tries, last, cut, clash, runs>>

(* Slip: a failure after the last attempt is not noticed.                    *)
GetFails_Forever ==
  /\ pc = "get"
  /\ tries' = IF tries > 1 THEN tries - 1 ELSE Tries
  /\ UNCHANGED <<disk, pc, current, last, cut, clash, runs>>

(* A request fails, or lasts longer than 15 s: the client is built anew.     *)
GetFails ==
  /\ pc = "get" /\ tries > 1
  /\ tries' = tries - 1
  /\ UNCHANGED <<disk, pc, current, last, cut, clash, runs>>

Undone == {last} \ {NoBlock}

(* The last attempt fails an unwrap, as does an answer that is not a block;  *)
(* or the process is killed.                                                 *)
Stop ==
  /\ pc # "idle"
  /\ cut' = cut \cup Undone
  /\ Ends /\ UNCHANGED clash

(* path.exists(): a file of the height, whatever it holds, ends the walk.    *)
Exists ==
  /\ pc = "have" /\ disk[File] # Absent
  /\ clash' = IF disk[File] = current THEN clash ELSE clash \cup Undone
  /\ Ends /\ UNCHANGED cut

(* Slip: whether there is a file is not looked at.                           *)
Create_Over ==
  /\ pc = "have"
  /\ disk' = [disk EXCEPT ![File] = Torn]
  /\ pc' = "write"
  /\ UNCHANGED <<current, tries, last, cut, clash, runs>>

(* File::create                                                              *)
Create ==
  /\ pc = "have" /\ disk[File] = Absent
  /\ disk' = [disk EXCEPT ![File] = Torn]
  /\ pc' = "write"
  /\ UNCHANGED <<current, tries, last, cut, clash, runs>>

(* Slip: the walk ends one block early.                                      *)
First_Second(b) == Height[b] <= 2

(* block_height == 1                                                         *)
First(b) == Height[b] = 1

(* write_all, and on to the previous block.                                  *)
Fill ==
  /\ pc = "write"
  /\ disk' = [disk EXCEPT ![File] = current]
  /\ IF First(current)
     THEN pc' = "idle" /\ current' = NoBlock /\ last' = NoBlock
     ELSE pc' = "get" /\ current' = Parent[current] /\ last' = current
  /\ tries' = Tries
  /\ UNCHANGED <<cut, clash, runs>>

Walk == GetBlock \/ GetFails \/ Stop \/ Exists \/ Create \/ Fill

Next == (\E b \in Blocks : Start(b)) \/ Walk

Spec == Init /\ [][Next]_vars

(* Each attempt ends, by its timeout at the latest, and the loop goes on.    *)
FairSpec == Spec /\ WF_vars(Walk)

-----------------------------------------------------------------------------
(* Properties.                                                               *)

(* Every variable has its type, and a block is in the file of its height.    *)
TypeOK ==
  /\ disk \in [Heights -> Blocks \cup {Absent, Torn}]
  /\ \A h \in Heights : disk[h] \in Blocks => Height[disk[h]] = h
  /\ pc \in {"idle", "get", "have", "write"}
  /\ current \in Blocks \cup {NoBlock} /\ (pc = "idle" <=> current = NoBlock)
  /\ tries \in 1..Tries
  /\ last \in Blocks \cup {NoBlock}
  /\ last # NoBlock => current = Parent[last]
  /\ cut \subseteq Blocks /\ clash \subseteq Blocks /\ runs \in 0..MaxRuns

(* The block below a stored one is its parent, unless the run is on its way  *)
(* there, was stopped on it, or ended at a file of that height that holds    *)
(* something else, a block of a fork or nothing (archive_block.rs:416-428).  *)
(* As a later run ends at the first file it meets, such a gap stays.         *)
ChainKept ==
  \A h \in Heights :
    LET b == disk[h]
    IN  b \in Blocks /\ h > 1 /\ b # last /\ b \notin cut \cup clash =>
          disk[h - 1] = Parent[b]

(* What is stored is not written again, by no run from whatever block        *)
(* (archive_block.rs:419).                                                   *)
StoredKept ==
  [][ \A h \in Heights : disk[h] \in Blocks => disk'[h] = disk[h] ]_vars

(* Every run ends: the remote may fail for ever, but not unnoticed           *)
(* (archive_block.rs:402-414, 424).                                          *)
WalkEnds == pc # "idle" ~> pc = "idle"
=============================================================================
