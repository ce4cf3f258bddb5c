---------------------------- MODULE RecordStore ----------------------------
(* The record on disk: `record::run` (record.rs) writes it file by file,     *)
(* stopped at any point by a crash or a panic, and is run again for the same *)
(* or another best tip; `replay::run` and `bootstrap::again` read it.        *)
(*                                                                           *)
(* File::create leaves an empty file and the contents follow: in between the *)
(* file is torn, and whoever reads a torn file panics.  The peer's answers   *)
(* are what the names asked for say.  --bootstrap writes nothing and is left *)
(* out.                                                                      *)
EXTENDS Integers, Sequences, FiniteSets, SequencesExt

CONSTANTS
  Tips,      \* best tips a peer may answer with
  Height,    \* head_height of each, the name of its directory
  Chain,     \* blocks between a tip and its snarked block, the latest first
  Epoch,     \* the next epoch ledger of each
  Snarked,   \* the snarked ledger of each
  Absent, Torn, NoTip,
  MaxRuns    \* runs of `record`                                  (bound)

Heights == {Height[t] : t \in Tips}
Ledgers == {Epoch[t] : t \in Tips} \cup {Snarked[t] : t \in Tips}
Blocks  == UNION {ToSet(Chain[t]) : t \in Tips}

ASSUME RecordStoreAssumption ==
  /\ \A t \in Tips : Height[t] \in Nat /\ Chain[t] \in Seq(Blocks)
  /\ Absent # Torn /\ NoTip \notin Tips
  /\ {Absent, Torn} \cap (Tips \cup Ledgers \cup Blocks) = {}
  /\ \A bs \in SUBSET Blocks : bs \notin {Absent, Torn}
  /\ MaxRuns \in Nat

VARIABLES
  disk,     \* what each file holds
  todo,     \* what the run has still to do, the first thing now
  begun,    \* the file the run is writing has been created
  table,    \* the table of blocks in memory
  tip,      \* the best tip of the run                            (history)
  done,     \* by height, the tip recorded if the last run ended  (history)
  refused,  \* blocks whose proof the peer refused                (history)
  cut,      \* files a stop left torn, proofs it left unasked     (history)
  runs      \* runs of `record`                                   (history)

vars == <<disk, todo, begun, table, tip, done, refused, cut, runs>>

(* best_tip, ancestry, staged_ledger_aux and the two ledgers worked on are   *)
(* in the directory of the height, and so is every ledger by its name.       *)
Answers == {"best_tip", "ancestry", "staged_ledger_aux"}
Working == {"epoch_ledger.bin", "current_ledger.bin"}

Files ==
  ((Answers \cup Working) \X Heights) \cup ({"ledgers"} \X Heights \X Ledgers)
  \cup ({"block", "proof"} \X Blocks) \cup {<<"table.json">>}

Table == <<"table.json">>
Block(b) == <<"block", b>>
Proof(b) == <<"proof", b>>

Put(file, value) == [op |-> "put", file |-> file, value |-> value]
Load(file)       == [op |-> "load", file |-> file]
Fetch(b)         == [op |-> "fetch", block |-> b]
Prove(b)         == [op |-> "prove", block |-> b]
Save             == [op |-> "save"]

SyncLedger(h, working, ledger) ==
  << Load(<<working, h>>), Put(<<"ledgers", h, ledger>>, ledger),
     Put(<<working, h>>, ledger) >>

(* Slip: the table is not loaded before it is written.                       *)
Plan_NoTable(t) ==
  LET h == Height[t]
  IN  << Put(<<"best_tip", h>>, t), Put(<<"ancestry", h>>, t) >>
      \o SyncLedger(h, "epoch_ledger.bin", Epoch[t])
      \o SyncLedger(h, "current_ledger.bin", Snarked[t])
      \o << Put(<<"staged_ledger_aux", h>>, t) >>
      \o [i \in DOMAIN Chain[t] |-> Fetch(Chain[t][i])]
      \o << Save >>

(* The order of run and download_blocks.                                     *)
Plan(t) ==
  LET h == Height[t]
  IN  << Put(<<"best_tip", h>>, t), Put(<<"ancestry", h>>, t) >>
      \o SyncLedger(h, "epoch_ledger.bin", Epoch[t])
      \o SyncLedger(h, "current_ledger.bin", Snarked[t])
      \o << Put(<<"staged_ledger_aux", h>>, t), Load(Table) >>
      \o [i \in DOMAIN Chain[t] |-> Fetch(Chain[t][i])]
      \o << Save >>

Init ==
  /\ disk = [f \in Files |-> Absent]
  /\ todo = <<>> /\ begun = FALSE /\ table = {} /\ tip = NoTip
  /\ done = [h \in Heights |-> NoTip]
  /\ refused = {} /\ cut = {} /\ runs = 0

Idle == todo = <<>>
Now == Head(todo)

(* `record` is started and the peer tells its best tip.                      *)
Start(t) ==
  /\ Idle /\ runs < MaxRuns /\ runs' = runs + 1
  /\ tip' = t /\ todo' = Plan(t)
  /\ table' = {}
  /\ done' = [done EXCEPT ![Height[t]] = NoTip]
  /\ UNCHANGED <<disk, begun, refused, cut>>

(* The file being written, and what goes into it.                            *)
Target  == IF Now = Save THEN Table ELSE Now.file
Content == IF Now = Save THEN table ELSE Now.value
Writing == ~Idle /\ Now.op \in {"put", "save"}

(* File::create                                                              *)
Create ==
  /\ Writing /\ ~begun
  /\ disk' = [disk EXCEPT ![Target] = Torn]
  /\ begun' = TRUE
  /\ UNCHANGED <<todo, table, tip, done, refused, cut, runs>>

(* Slip: the next file is written without being created.                     *)
Fill_Open ==
  /\ Writing /\ begun
  /\ disk' = [disk EXCEPT ![Target] = Content]
  /\ begun' = TRUE /\ todo' = Tail(todo)
  /\ cut' = cut \ {Target}
  /\ done' = IF Now = Save THEN [done EXCEPT ![Height[tip]] = tip] ELSE done
  /\ UNCHANGED <<table, tip, refused, runs>>

(* binprot_write, or serde_json::to_writer for the table.                    *)
Fill ==
  /\ Writing /\ begun
  /\ disk' = [disk EXCEPT ![Target] = Content]
  /\ begun' = FALSE /\ todo' = Tail(todo)
  /\ cut' = cut \ {Target}
  /\ done' = IF Now = Save THEN [done EXCEPT ![Height[tip]] = tip] ELSE done
  /\ UNCHANGED <<table, tip, refused, runs>>

(* A file that is not there is taken for an empty ledger or table; one that  *)
(* is there must be read.                                                    *)
Open ==
  /\ ~Idle /\ Now.op = "load" /\ disk[Now.file] # Torn
  /\ table' = IF Now.file = Table /\ disk[Table] # Absent THEN disk[Table]
              ELSE table
  /\ todo' = Tail(todo)
  /\ UNCHANGED <<disk, begun, tip, done, refused, cut, runs>>

(* A block of an earlier run is read; its proof is not looked for.           *)
HaveBlock ==
  /\ ~Idle /\ Now.op = "fetch" /\ disk[Block(Now.block)] = Now.block
  /\ table' = table \cup {Now.block}
  /\ todo' = Tail(todo)
  /\ UNCHANGED <<disk, begun, tip, done, refused, cut, runs>>

(* Slip: a block is downloaded although it is there.                         *)
Missing_Any(b) == TRUE

Missing(b) == disk[Block(b)] = Absent

(* Slip: the proofs are left until all blocks are there.                     *)
Download_ProofsLast ==
  /\ ~Idle /\ Now.op = "fetch" /\ Missing(Now.block)
  /\ table' = table \cup {Now.block}
  /\ todo' = <<Put(Block(Now.block), Now.block)>> \o Tail(todo) \o <<Prove(Now.block)>>
  /\ UNCHANGED <<disk, begun, tip, done, refused, cut, runs>>

(* A block is downloaded, and then its proof.                                *)
Download ==
  /\ ~Idle /\ Now.op = "fetch" /\ Missing(Now.block)
  /\ table' = table \cup {Now.block}
  /\ todo' = <<Put(Block(Now.block), Now.block), Prove(Now.block)>> \o Tail(todo)
  /\ UNCHANGED <<disk, begun, tip, done, refused, cut, runs>>

(* Slip: the file of a proof is created before the peer is asked for it.     *)
AskProof_Creates ==
  /\ ~Idle /\ Now.op = "prove"
  /\ disk' = [disk EXCEPT ![Proof(Now.block)] = Torn]
  /\ \/ todo' = <<Put(Proof(Now.block), Now.block)>> \o Tail(todo) /\ UNCHANGED refused
     \/ todo' = Tail(todo) /\ refused' = refused \cup {Now.block}
  /\ UNCHANGED <<begun, table, tip, done, cut, runs>>

(* `if let Ok(new_proof)`: a refusal is passed over.                         *)
AskProof ==
  /\ ~Idle /\ Now.op = "prove"
  /\ \/ todo' = <<Put(Proof(Now.block), Now.block)>> \o Tail(todo) /\ UNCHANGED refused
     \/ todo' = Tail(todo) /\ refused' = refused \cup {Now.block}
  /\ UNCHANGED <<disk, begun, table, tip, done, cut, runs>>

(* What a stop leaves undone: the file begun, or the proof of a block that   *)
(* is there.                                                                 *)
Undone ==
  CASE Now.op = "prove" -> {Proof(Now.block)}
    [] Writing /\ (begun \/ Target[1] = "proof") -> {Target}
    [] OTHER -> {}

(* The process is killed, or an answer of the peer fails an unwrap.          *)
Stop ==
  /\ ~Idle
  /\ todo' = <<>> /\ begun' = FALSE
  /\ cut' = cut \cup Undone
  /\ UNCHANGED <<disk, table, tip, done, refused, runs>>

(* A torn file fails the unwrap of load_bin, from_reader or binprot_read.    *)
Panic ==
  /\ ~Idle
  /\ \/ Now.op = "load" /\ disk[Now.file] = Torn
     \/ Now.op = "fetch" /\ disk[Block(Now.block)] = Torn
  /\ todo' = <<>>
  /\ UNCHANGED <<disk, begun, table, tip, done, refused, cut, runs>>

-----------------------------------------------------------------------------
(* The readers.  Each reads what it needs with an unwrap.                    *)

Whole(f) == disk[f] \notin {Absent, Torn}

(* replay::run before its loop: the answers, every ledger of the directory,  *)
(* and the table.                                                            *)
ReplayStarts(h) ==
  /\ \A a \in Answers : Whole(<<a, h>>)
  /\ \A l \in Ledgers : disk[<<"ledgers", h, l>>] # Torn
  /\ Whole(Table)

(* AnswerSyncLedgerQueryV2, GetTransitionChainV2 and                         *)
(* GetTransitionChainProofV1ForV2: a proof may be missing only for a block   *)
(* that is not in the table.                                                 *)
ServesLedger(h, l) == Whole(<<"ledgers", h, l>>)
ServesBlock(b) == b \in disk[Table] /\ Whole(Block(b))
ServesProof(b) == b \in disk[Table] => Whole(Proof(b))

(* bootstrap::again: from the head back to the snarked block.                *)
AgainWalks(h, t) ==
  /\ disk[<<"best_tip", h>>] = t /\ Whole(<<"staged_ledger_aux", h>>)
  /\ disk[<<"ledgers", h, Snarked[t]>>] = Snarked[t]
  /\ \A i \in DOMAIN Chain[t] : ServesBlock(Chain[t][i])

-----------------------------------------------------------------------------
Next ==
  \/ \E t \in Tips : Start(t)
  \/ Create \/ Fill \/ Open \/ HaveBlock \/ Download \/ AskProof
  \/ Stop \/ Panic

Spec == Init /\ [][Next]_vars

-----------------------------------------------------------------------------
(* Properties.                                                               *)

Tasks ==
  [op : {"put"}, file : Files, value : Tips \cup Ledgers \cup Blocks]
  \cup [op : {"load"}, file : Files] \cup [op : {"fetch", "prove"}, block : Blocks]
  \cup {Save}

(* Every variable has its type, and only a file being written is open.       *)
TypeOK ==
  /\ DOMAIN disk = Files
  /\ \A f \in Files \ {Table} :
       disk[f] \in {Absent, Torn} \cup Tips \cup Ledgers \cup Blocks
  /\ disk[Table] \in {Absent, Torn} \/ disk[Table] \subseteq Blocks
  /\ ToSet(todo) \subseteq Tasks
  /\ begun => Writing
  /\ table \subseteq Blocks /\ tip \in Tips \cup {NoTip}
  /\ done \in [Heights -> Tips \cup {NoTip}]
  /\ refused \subseteq Blocks /\ cut \subseteq Files /\ runs \in 0..MaxRuns

(* A recording that was finished can be replayed and bootstrapped from, and  *)
(* all its answers are of one tip, whatever recordings of other heights      *)
(* follow it or stop half-way.  It takes a run stopped while it wrote the    *)
(* table, or an earlier one stopped in a ledger of the same directory, to    *)
(* prevent it (record.rs:43-219, replay.rs:25-48, bootstrap.rs:38-91).       *)
Replayable ==
  \A h \in Heights :
    LET t == done[h]
    IN  t # NoTip /\ Whole(Table) =>
          /\ ReplayStarts(h) \/ \E l \in Ledgers : <<"ledgers", h, l>> \in cut
          /\ \A a \in Answers : disk[<<a, h>>] = t
          /\ ServesLedger(h, Epoch[t]) /\ ServesLedger(h, Snarked[t])
          /\ AgainWalks(h, t)

(* A torn file is the one being written, or was left by a run stopped while  *)
(* it wrote it: no refusal and no panic leaves one (record.rs:197-214).      *)
TornByStop ==
  \A f \in Files : disk[f] = Torn => f \in cut \/ (begun /\ f = Target)

(* A finished recording lacks the proof of a block only if the peer refused  *)
(* it when the block was downloaded, or a run stopped between the block and  *)
(* its proof: as the block is found then, the proof is not asked for again   *)
(* (record.rs:197-214).                                                      *)
ProofsMissing ==
  \A h \in Heights : done[h] # NoTip =>
    \A b \in ToSet(Chain[done[h]]) :
      disk[Proof(b)] = b \/ b \in refused \/ Proof(b) \in cut

(* A block stored is not written again, as the recordings of other heights   *)
(* share it (record.rs:197).                                                 *)
BlocksKept ==
  [][ \A b \in Blocks : disk[Block(b)] = b => disk'[Block(b)] = b ]_vars

(* The replay of a finished recording answers each query for the proof of a  *)
(* block it has (replay.rs:183-209).                                         *)
ReplayServesProofs ==
  \A h \in Heights : done[h] # NoTip /\ ReplayStarts(h) =>
    \A b \in ToSet(Chain[done[h]]) : ServesProof(b)
=============================================================================
