----------------------------- MODULE SandboxProofs -----------------------------
(* Theorems about RecordStore and about Sandbox on top of it, for every set  *)
(* of best tips and of chains.                                               *)
EXTENDS Sandbox, TLAPS, SequenceTheorems, WellFoundedInduction

-----------------------------------------------------------------------------
(* RecordStore.                                                              *)

Values == Tips \cup Ledgers \cup Blocks

(* What a run may have to do now, and later: a block is written only as the  *)
(* first thing, after it was found missing, and the table only by Save.      *)
Tame == {k \in Tasks : k.op = "put" => k.file # Table}
Late == {k \in Tame : k.op = "put" => k.file[1] # "block"}

Shape == \/ todo = <<>>
         \/ todo \in Seq(Tame) /\ Tail(todo) \in Seq(Late)

(* A block that is about to be written is not there.                         *)
Fresh ==
  todo # <<>> /\ Now.op = "put" =>
    \A b \in Blocks : Now.file = Block(b) => disk[Block(b)] \in {Absent, Torn}

IInv == TypeOK /\ Shape /\ Fresh /\ TornByStop

LEMMA Distinct ==
  /\ Absent # Torn /\ Absent \notin Values /\ Torn \notin Values
  /\ Torn \notin SUBSET Blocks /\ Absent \notin SUBSET Blocks /\ NoTip \notin Tips
BY RecordStoreAssumption DEF Values

LEMMA FilesOf ==
  /\ \A h \in Heights, a \in Answers \cup Working :
       <<a, h>> \in Files \ {Table} /\ <<a, h>>[1] # "block"
  /\ \A h \in Heights, l \in Ledgers :
       <<"ledgers", h, l>> \in Files \ {Table} /\ <<"ledgers", h, l>>[1] # "block"
  /\ \A b \in Blocks :
       /\ Block(b) \in Files \ {Table} /\ Proof(b) \in Files \ {Table}
       /\ Proof(b)[1] # "block" /\ Block(b)[1] = "block"
  /\ Table \in Files /\ Table[1] # "block"
BY DEF Files, Answers, Working, Table, Block, Proof

LEMMA TasksOf ==
  /\ \A f \in Files \ {Table}, v \in Values :
       Put(f, v) \in Tame /\ (f[1] # "block" => Put(f, v) \in Late)
  /\ \A f \in Files : Load(f) \in Late
  /\ \A b \in Blocks : Fetch(b) \in Late /\ Prove(b) \in Late
  /\ Save \in Late
BY DEF Tasks, Tame, Late, Put, Load, Fetch, Prove, Save, Values

LEMMA TipHas ==
  ASSUME NEW t \in Tips
  PROVE  /\ Height[t] \in Heights /\ Epoch[t] \in Ledgers /\ Snarked[t] \in Ledgers
         /\ Chain[t] \in Seq(Blocks)
BY RecordStoreAssumption DEF Heights, Ledgers

LEMMA SyncTasks ==
  ASSUME NEW h \in Heights, NEW w \in Working, NEW l \in Ledgers
  PROVE  SyncLedger(h, w, l) \in Seq(Late)
<1>1. <<w, h>> \in Files \ {Table} /\ <<w, h>>[1] # "block"
  BY FilesOf
<1>2. <<"ledgers", h, l>> \in Files \ {Table} /\ <<"ledgers", h, l>>[1] # "block"
  BY FilesOf
<1>3. l \in Values BY DEF Values
<1> QED BY <1>1, <1>2, <1>3, TasksOf DEF SyncLedger

(* A run begins with nothing to write but answers, ledgers and, at its end,  *)
(* the table (record.rs:41-146, 219).                                        *)
LEMMA PlanTasks ==
  ASSUME NEW t \in Tips
  PROVE  Plan(t) \in Seq(Late)
<1> DEFINE h == Height[t]
           A == << Put(<<"best_tip", h>>, t), Put(<<"ancestry", h>>, t) >>
           B == SyncLedger(h, "epoch_ledger.bin", Epoch[t])
           C == SyncLedger(h, "current_ledger.bin", Snarked[t])
           D == << Put(<<"staged_ledger_aux", h>>, t), Load(Table) >>
           E == [i \in DOMAIN Chain[t] |-> Fetch(Chain[t][i])]
           F == << Save >>
<1>0. h \in Heights /\ t \in Values /\ Table \in Files
  BY TipHas, FilesOf DEF Values
<1>1. \A a \in Answers : Put(<<a, h>>, t) \in Late
  BY <1>0, FilesOf, TasksOf
<1>2. A \in Seq(Late) BY <1>1 DEF Answers
<1>3. B \in Seq(Late) /\ C \in Seq(Late)
  BY <1>0, TipHas, SyncTasks DEF Working
<1>4. D \in Seq(Late) BY <1>0, <1>1, TasksOf DEF Answers
<1>5. E \in Seq(Late)
  <2>1. Chain[t] \in Seq(Blocks) BY TipHas
  <2>2. \A i \in 1..Len(Chain[t]) : Fetch(Chain[t][i]) \in Late
    BY <2>1, TasksOf, ElementOfSeq
  <2>3. DOMAIN Chain[t] = 1..Len(Chain[t]) /\ Len(Chain[t]) \in Nat
    BY <2>1, LenProperties
  <2>4. E \in [1..Len(Chain[t]) -> Late] BY <2>2, <2>3
  <2> QED BY <2>3, <2>4, SeqDef
<1>6. F \in Seq(Late) BY TasksOf
<1>7. Plan(t) = A \o B \o C \o D \o E \o F
  BY DEF Plan
<1> HIDE DEF A, B, C, D, E, F
<1>8. A \o B \in Seq(Late) BY <1>2, <1>3, ConcatProperties
<1>9. A \o B \o C \in Seq(Late) BY <1>8, <1>3, ConcatProperties
<1>10. A \o B \o C \o D \in Seq(Late) BY <1>9, <1>4, ConcatProperties
<1>11. A \o B \o C \o D \o E \in Seq(Late) BY <1>10, <1>5, ConcatProperties
<1>12. A \o B \o C \o D \o E \o F \in Seq(Late) BY <1>11, <1>6, ConcatProperties
<1> QED BY <1>7, <1>12

-----------------------------------------------------------------------------
(* What is left to do.                                                       *)

LEMMA LateAsTame == Late \subseteq Tame /\ Tame \subseteq Tasks
BY DEF Late, Tame

LEMMA LateShape ==
  ASSUME NEW s \in Seq(Late)
  PROVE  \/ s = <<>>
         \/ s \in Seq(Tame) /\ Head(s) \in Late /\ Tail(s) \in Seq(Late)
BY LateAsTame, SeqMonotonic, HeadTailProperties

LEMMA PushedShape ==
  ASSUME NEW x \in Tame, NEW y \in Late, NEW s \in Seq(Late)
  PROVE  /\ <<x, y>> \o s \in Seq(Tame) /\ <<x, y>> \o s # <<>>
         /\ Head(<<x, y>> \o s) = x /\ Tail(<<x, y>> \o s) \in Seq(Late)
<1> DEFINE u == <<x, y>> \o s
<1>1. <<x, y>> \in Seq(Tame) /\ s \in Seq(Tame) /\ Len(<<x, y>>) = 2
  BY LateAsTame, SeqMonotonic
<1>2. /\ u \in Seq(Tame) /\ Len(u) = 2 + Len(s)
      /\ \A i \in 1..(2 + Len(s)) : u[i] = IF i <= 2 THEN <<x, y>>[i] ELSE s[i - 2]
  BY <1>1, ConcatProperties
<1>3. Len(s) \in Nat BY LenProperties
<1>4. u # <<>> /\ Head(u) = x BY <1>2, <1>3
<1>5. /\ Tail(u) \in Seq(Tame) /\ Len(Tail(u)) = 1 + Len(s)
      /\ \A i \in 1..(1 + Len(s)) : Tail(u)[i] = u[i + 1]
  BY <1>2, <1>3, <1>4, HeadTailProperties
<1>6. ASSUME NEW i \in 1..(1 + Len(s)) PROVE Tail(u)[i] \in Late
  <2>1. CASE i = 1 BY <1>2, <1>3, <1>5, <2>1
  <2>2. CASE i # 1
    <3>1. i - 1 \in 1..Len(s) /\ Tail(u)[i] = s[i - 1]
      BY <1>2, <1>3, <1>5, <2>2
    <3> QED BY <3>1, ElementOfSeq
  <2> QED BY <2>1, <2>2
<1>7. Tail(u) \in [1..(1 + Len(s)) -> Late] BY <1>5, <1>6, LenProperties
<1>8. 1 + Len(s) \in Nat BY <1>3
<1>9. Tail(u) \in Seq(Late)
  <2> DEFINE v == Tail(u)
             n == 1 + Len(s)
  <2>1. v \in [1..n -> Late] /\ n \in Nat BY <1>7, <1>8
  <2> HIDE DEF v, n
  <2>2. v \in Seq(Late) BY <2>1, SeqDef
  <2> QED BY <2>2 DEF v
<1> QED BY <1>2, <1>4, <1>9

(* Whatever is not about to write a block.                                   *)
LEMMA LateFresh ==
  ASSUME todo' \in Seq(Late)
  PROVE  Shape' /\ Fresh'
<1>1. CASE todo' = <<>> BY <1>1 DEF Shape, Fresh
<1>2. CASE todo' # <<>>
  <2>1. todo' \in Seq(Tame) /\ Now' \in Late /\ Tail(todo') \in Seq(Late)
    BY <1>2, LateShape DEF Now
  <2>2. Shape' BY <2>1 DEF Shape
  <2>3. \A b \in Blocks : Block(b)[1] = "block" BY FilesOf
  <2>4. Now'.op = "put" => Now'.file[1] # "block" BY <2>1 DEF Late
  <2> QED BY <2>2, <2>3, <2>4 DEF Fresh
<1> QED BY <1>1, <1>2

LEMMA Doing ==
  ASSUME Shape, ~Idle
  PROVE  Now \in Tame /\ Tail(todo) \in Seq(Late) /\ todo \in Seq(Tame)
BY HeadTailProperties DEF Shape, Idle, Now

LEMMA WritingIs ==
  ASSUME Shape, Writing
  PROVE  \/ Now = Save /\ Target = Table /\ Content = table
         \/ /\ Now # Save /\ Now.op = "put" /\ Target = Now.file /\ Content = Now.value
            /\ Target \in Files \ {Table} /\ Content \in Values
<1>1. Now \in Tame BY Doing DEF Writing
<1>2. CASE Now.op = "put"
  BY <1>1, <1>2 DEF Tame, Tasks, Values, Target, Content, Save
<1>3. CASE Now.op = "save"
  BY <1>1, <1>3 DEF Tame, Tasks, Target, Content, Save
<1> QED BY <1>2, <1>3 DEF Writing

LEMMA NextShape == IInv /\ [Next]_vars => Shape' /\ Fresh'
<1> SUFFICES ASSUME IInv, [Next]_vars PROVE Shape' /\ Fresh'
  OBVIOUS
<1>0. Shape /\ Fresh BY DEF IInv
<1>1. ASSUME NEW t \in Tips, Start(t) PROVE Shape' /\ Fresh'
  BY <1>1, PlanTasks, LateFresh DEF Start
<1>2. CASE Fill \/ Open \/ HaveBlock
  BY <1>0, <1>2, Doing, LateFresh DEF Fill, Open, HaveBlock, Writing
<1>3. CASE Stop \/ Panic
  BY <1>3, LateFresh, EmptySeq DEF Stop, Panic
<1>4. CASE Create
  <2>1. Writing /\ todo' = todo /\ disk' = [disk EXCEPT ![Target] = Torn]
    BY <1>4 DEF Create
  <2>2. ASSUME NEW b \in Blocks, Now.op = "put", Now.file = Block(b)
        PROVE  disk'[Block(b)] = Torn
    <3>1. Target = Block(b) /\ Target \in DOMAIN disk
      BY <1>0, <2>1, <2>2, WritingIs DEF Save, IInv, TypeOK
    <3> QED BY <2>1, <3>1
  <2> QED BY <1>0, <2>1, <2>2 DEF Shape, Fresh, Now
<1>5. CASE Download
  <2> DEFINE b == Now.block
  <2>1. Now \in Tame /\ Tail(todo) \in Seq(Late) BY <1>0, <1>5, Doing DEF Download
  <2>2. b \in Blocks BY <1>5, <2>1 DEF Download, Tame, Tasks, Save
  <2>3. Put(Block(b), b) \in Tame /\ Prove(b) \in Late
    BY <2>2, FilesOf, TasksOf DEF Values
  <2>4. todo' = <<Put(Block(b), b), Prove(b)>> \o Tail(todo) /\ disk' = disk
        /\ disk[Block(b)] = Absent
    BY <1>5 DEF Download, Missing
  <2>5. /\ todo' \in Seq(Tame) /\ Tail(todo') \in Seq(Late)
        /\ Now' = Put(Block(b), b)
    BY <2>1, <2>3, <2>4, PushedShape DEF Now
  <2> QED BY <2>4, <2>5 DEF Shape, Fresh, Put
<1>6. CASE AskProof
  <2> DEFINE b == Now.block
  <2>1. Now \in Tame /\ Tail(todo) \in Seq(Late) BY <1>0, <1>6, Doing DEF AskProof
  <2>2. b \in Blocks BY <1>6, <2>1 DEF AskProof, Tame, Tasks, Save
  <2>3. Put(Proof(b), b) \in Late BY <2>2, FilesOf, TasksOf DEF Values
  <2>4. <<Put(Proof(b), b)>> \o Tail(todo) \in Seq(Late)
    BY <2>1, <2>3, ConcatProperties
  <2> QED BY <1>6, <2>1, <2>4, LateFresh DEF AskProof
<1>7. CASE UNCHANGED vars BY <1>0, <1>7 DEF vars, Shape, Fresh, Now
<1> QED BY <1>1, <1>2, <1>3, <1>4, <1>5, <1>6, <1>7 DEF Next

-----------------------------------------------------------------------------
(* Types.                                                                    *)

(* Between the writes no file is open.                                       *)
LEMMA NotBegun ==
  ASSUME TypeOK, Idle \/ Now.op \in {"load", "fetch", "prove"}
  PROVE  ~begun
BY DEF TypeOK, Writing, Idle

LEMMA TaskBlock ==
  ASSUME Now \in Tame
  PROVE  /\ Now.op \in {"fetch", "prove"} => Now.block \in Blocks
         /\ Now.op = "load" => Now.file \in Files
BY DEF Tame, Tasks, Save

LEMMA UndoneFiles ==
  ASSUME Shape, ~Idle
  PROVE  Undone \subseteq Files
<1>1. Now \in Tame BY Doing
<1>2. Now.op = "prove" => Proof(Now.block) \in Files
  BY <1>1, TaskBlock, FilesOf
<1>3. Writing => Target \in Files BY WritingIs, FilesOf
<1> QED BY <1>2, <1>3 DEF Undone

LEMMA TodoTasks ==
  ASSUME Shape
  PROVE  ToSet(todo) \subseteq Tasks
<1>1. todo = <<>> => ToSet(todo) = {} BY DEF ToSet
<1>2. ASSUME todo \in Seq(Tame) PROVE \A i \in DOMAIN todo : todo[i] \in Tasks
  BY <1>2, LateAsTame, ElementOfSeq, LenProperties
<1> QED BY <1>1, <1>2 DEF Shape, ToSet

(* A file is written with what belongs there, or left torn.                  *)
DiskOK ==
  /\ DOMAIN disk = Files
  /\ \A f \in Files \ {Table} : disk[f] \in {Absent, Torn} \cup Values
  /\ disk[Table] \in {Absent, Torn} \/ disk[Table] \subseteq Blocks

LEMMA NextDiskOK == IInv /\ [Next]_vars => DiskOK'
<1> SUFFICES ASSUME IInv, [Next]_vars PROVE DiskOK'
  OBVIOUS
<1>0. DiskOK /\ Shape /\ TypeOK BY DEF IInv, TypeOK, DiskOK, Values
<1>1. CASE Create
  BY <1>0, <1>1, WritingIs DEF Create, DiskOK
<1>2. CASE Fill
  BY <1>0, <1>2, WritingIs DEF Fill, DiskOK, TypeOK
<1>3. CASE UNCHANGED disk BY <1>0, <1>3 DEF DiskOK
<1> QED BY <1>1, <1>2, <1>3
     DEF Next, Start, Open, HaveBlock, Download, AskProof, Stop, Panic, vars

LEMMA NextTypeOK == IInv /\ [Next]_vars => TypeOK'
<1> SUFFICES ASSUME IInv, [Next]_vars PROVE TypeOK'
  OBVIOUS
<1>0. Shape /\ TypeOK /\ DiskOK' /\ Shape' /\ MaxRuns \in Nat
  BY NextShape, NextDiskOK, RecordStoreAssumption DEF IInv
<1>1. ToSet(todo') \subseteq Tasks
  <2>1. (Shape => ToSet(todo) \subseteq Tasks)' BY TodoTasks, PTL
  <2> QED BY <1>0, <2>1
<1>2. /\ DOMAIN disk' = Files
      /\ \A f \in Files \ {Table} :
           disk'[f] \in {Absent, Torn} \cup Tips \cup Ledgers \cup Blocks
      /\ disk'[Table] \in {Absent, Torn} \/ disk'[Table] \subseteq Blocks
  BY <1>0 DEF DiskOK, Values
<1> USE <1>0, <1>1, <1>2 DEF TypeOK
<1>3. ASSUME NEW t \in Tips, Start(t) PROVE TypeOK'
  BY <1>3, NotBegun DEF Start, Heights
<1>4. CASE Create BY <1>4 DEF Create, Writing, Idle, Now
<1>5. CASE Fill BY <1>5 DEF Fill
<1>6. CASE Open BY <1>6, NotBegun DEF Open
<1>7. CASE HaveBlock
  <2>1. Now.block \in Blocks BY <1>7, Doing, TaskBlock DEF HaveBlock
  <2> QED BY <1>7, <2>1, NotBegun DEF HaveBlock
<1>8. CASE Download
  <2>1. Now.block \in Blocks BY <1>8, Doing, TaskBlock DEF Download
  <2> QED BY <1>8, <2>1, NotBegun DEF Download
<1>9. CASE AskProof
  <2>1. Now.block \in Blocks BY <1>9, Doing, TaskBlock DEF AskProof
  <2> QED BY <1>9, <2>1, NotBegun DEF AskProof
<1>10. CASE Stop BY <1>10, UndoneFiles DEF Stop
<1>11. CASE Panic BY <1>11, NotBegun DEF Panic
<1>12. CASE UNCHANGED vars BY <1>12 DEF vars, Writing, Idle, Now
<1> QED BY <1>3, <1>4, <1>5, <1>6, <1>7, <1>8, <1>9, <1>10, <1>11, <1>12 DEF Next

-----------------------------------------------------------------------------
(* Torn files.                                                               *)

LEMMA NextTornByStop == IInv /\ [Next]_vars => TornByStop'
<1> SUFFICES ASSUME IInv, [Next]_vars, NEW f \in Files, disk'[f] = Torn
             PROVE  f \in cut' \/ (begun' /\ f = Target')
  BY DEF TornByStop
<1>0. Shape /\ TypeOK /\ DOMAIN disk = Files
      /\ (disk[f] = Torn => f \in cut \/ (begun /\ f = Target))
  BY DEF IInv, TypeOK, TornByStop
<1>1. ASSUME NEW t \in Tips, Start(t) PROVE f \in cut'
  BY <1>0, <1>1, NotBegun DEF Start
<1>2. CASE Create
  BY <1>0, <1>2 DEF Create, Target, Now
<1>3. CASE Fill
  <2>1. Target \in Files /\ Content # Torn
    BY <1>0, <1>3, WritingIs, FilesOf, Distinct DEF Fill, TypeOK
  <2> QED BY <1>0, <1>3, <2>1 DEF Fill
<1>4. CASE Open \/ HaveBlock \/ Download \/ AskProof \/ Panic
  BY <1>0, <1>4, NotBegun DEF Open, HaveBlock, Download, AskProof, Panic
<1>5. CASE Stop
  <2>1. begun => Target \in Undone
    BY <1>0 DEF TypeOK, Undone, Writing
  <2> QED BY <1>0, <1>5, <2>1 DEF Stop
<1>6. CASE UNCHANGED vars BY <1>0, <1>6 DEF vars, Target, Now
<1> QED BY <1>1, <1>2, <1>3, <1>4, <1>5, <1>6 DEF Next

-----------------------------------------------------------------------------
LEMMA InitIInv == Init => IInv
<1> SUFFICES ASSUME Init PROVE IInv
  OBVIOUS
<1>1. Shape /\ Fresh BY DEF Init, Shape, Fresh
<1>2. ToSet(todo) \subseteq Tasks BY <1>1, TodoTasks
<1>3. TypeOK
  BY <1>2, FilesOf, RecordStoreAssumption DEF Init, TypeOK
<1>4. TornByStop BY Distinct DEF Init, TornByStop
<1> QED BY <1>1, <1>3, <1>4 DEF IInv

LEMMA Invariant == Spec => []IInv
<1>1. Init => IInv BY InitIInv
<1>2. IInv /\ [Next]_vars => IInv'
  BY NextShape, NextTypeOK, NextTornByStop DEF IInv
<1> QED BY <1>1, <1>2, PTL DEF Spec

(* Types, for every set of best tips, their chains and ledgers, and number   *)
(* of runs: each file holds what belongs there, and none is open but the one *)
(* being written (record.rs:41-220).                                         *)
THEOREM TypeCorrect == Spec => []TypeOK
<1>1. IInv => TypeOK BY DEF IInv
<1> QED BY <1>1, Invariant, PTL

(* Whatever is torn is being written or was left so by a stop: no refusal    *)
(* and no panic tears a file (record.rs:197-214).                            *)
THEOREM Torns == Spec => []TornByStop
<1>1. IInv => TornByStop BY DEF IInv
<1> QED BY <1>1, Invariant, PTL

(* A file stays as it is but for the one being written, which is never a     *)
(* block that is there.                                                      *)
LEMMA Elsewhere ==
  ASSUME IInv, Next, NEW f \in Files, ~(Writing /\ f = Target)
  PROVE  disk'[f] = disk[f]
<1>0. TypeOK BY DEF IInv
<1>1. CASE Create \/ Fill
  BY <1>0, <1>1 DEF Create, Fill, TypeOK
<1>2. CASE ~Create /\ ~Fill
  BY <1>2 DEF Next, Start, Open, HaveBlock, Download, AskProof, Stop, Panic
<1> QED BY <1>1, <1>2

LEMMA BlockStays ==
  ASSUME IInv, NEW b \in Blocks, disk[Block(b)] = b
  PROVE  /\ ~(Writing /\ Block(b) = Target)
         /\ Next => disk'[Block(b)] = b
<1>0. /\ Shape /\ Fresh /\ b \notin {Absent, Torn} /\ Block(b) \in Files \ {Table}
  BY Distinct, FilesOf DEF IInv, Values
<1>1. CASE Writing /\ Now.op = "put"
  BY <1>0, <1>1, WritingIs, Elsewhere DEF Fresh, Writing, Idle, Save
<1>2. CASE ~Writing \/ Now.op # "put"
  BY <1>0, <1>2, WritingIs, Elsewhere
<1> QED BY <1>1, <1>2

(* No run writes a block that is there, whatever recordings share it         *)
(* (record.rs:197).                                                          *)
THEOREM Kept == Spec => BlocksKept
<1>1. IInv /\ [Next]_vars =>
        [ \A b \in Blocks : disk[Block(b)] = b => disk'[Block(b)] = b ]_vars
  BY BlockStays
<1> QED BY <1>1, Invariant, PTL DEF Spec, BlocksKept
-----------------------------------------------------------------------------
(* What a run has done.                                                      *)

(* The tasks of Plan(t).                                                     *)
Jobs(t) ==
  LET h == Height[t]
  IN  {Put(<<a, h>>, t) : a \in Answers}
      \cup {Load(<<w, h>>) : w \in Working}
      \cup {Put(<<w, h>>, l) : w \in Working, l \in Ledgers}
      \cup {Put(<<"ledgers", h, l>>, l) : l \in Ledgers}
      \cup {Fetch(b) : b \in Blocks} \cup {Load(Table), Save}

(* What it takes to have a block that is missing.                            *)
Extra(b) == {Put(Block(b), b), Prove(b), Put(Proof(b), b)}

(* What is left is the end of the plan, after what a missing block takes.    *)
Ours ==
  \A i \in DOMAIN todo :
    \/ todo[i] \in Jobs(tip)
    \/ i = 1 /\ \E b \in Blocks : Now \in Extra(b)
    \/ i = 2 /\ \E b \in Blocks : Now = Put(Block(b), b) /\ todo[2] = Prove(b)

ProofNext ==
  \A b \in Blocks : Now = Put(Block(b), b) => Len(todo) >= 2 /\ todo[2] = Prove(b)

SaveLast(s) == \A i \in DOMAIN s : s[i] = Save <=> i = Len(s)

TableFirst(s) ==
  \A i, j \in DOMAIN s : i < j /\ s[j] = Load(Table) => s[i].op \in {"put", "load"}

(* While it runs, nothing of its height counts as recorded.                  *)
Course ==
  ~Idle => /\ tip \in Tips /\ done[Height[tip]] = NoTip
           /\ Ours /\ ProofNext /\ SaveLast(todo) /\ TableFirst(todo)

(* What is not to be done any more was done.                                 *)
Written ==
  ~Idle =>
    LET h == Height[tip]
    IN  /\ \A a \in Answers :
             Put(<<a, h>>, tip) \in ToSet(todo) \/ disk[<<a, h>>] = tip
        /\ \A l \in {Epoch[tip], Snarked[tip]} :
             Put(<<"ledgers", h, l>>, l) \in ToSet(todo) \/ disk[<<"ledgers", h, l>>] = l

Gathered ==
  ~Idle =>
    /\ \A b \in ToSet(Chain[tip]) :
         \/ Fetch(b) \in ToSet(todo)
         \/ b \in table /\ (disk[Block(b)] = b \/ Now = Put(Block(b), b))
    /\ Load(Table) \in ToSet(todo) =>
         \A b \in ToSet(Chain[tip]) : Fetch(b) \in ToSet(todo)
    /\ Load(Table) \notin ToSet(todo) =>
         \A h \in Heights : done[h] # NoTip => ToSet(Chain[done[h]]) \subseteq table

AnswersAre ==
  \A a \in Answers, h \in Heights : disk[<<a, h>>] \in {Absent, Torn} \cup Tips

(* A block is there and its proof is not to be asked for any more.           *)
Settled(b) ==
  disk[Block(b)] = b /\ (~Idle => Now \notin {Prove(b), Put(Proof(b), b)})

Asked ==
  \A b \in Blocks : Settled(b) =>
    disk[Proof(b)] = b \/ b \in refused \/ Proof(b) \in cut

Recorded ==
  \A h \in Heights :
    LET t == done[h]
    IN  t # NoTip =>
          /\ Height[t] = h
          /\ \A a \in Answers : disk[<<a, h>>] = t
          /\ \A l \in {Epoch[t], Snarked[t]} : disk[<<"ledgers", h, l>>] = l
          /\ disk[Table] # Absent
          /\ disk[Table] = Torn \/ ToSet(Chain[t]) \subseteq disk[Table]
          /\ \A b \in ToSet(Chain[t]) : Settled(b)

RInv == Course /\ Written /\ Gathered /\ AnswersAre /\ Asked /\ Recorded

LEMMA TasksApart ==
  /\ \A f, g, v, w : Put(f, v) # Load(g) /\ Put(f, v) # Save /\ Load(f) # Save
                     /\ (Put(f, v) = Put(g, w) => f = g /\ v = w)
                     /\ (Load(f) = Load(g) => f = g)
                     /\ Put(f, v).op = "put" /\ Load(f).op = "load" /\ Put(f, v).file = f
                     /\ Put(f, v).value = v /\ Load(f).file = f
  /\ \A b, f, v : /\ Fetch(b) # Put(f, v) /\ Fetch(b) # Load(f) /\ Fetch(b) # Save
                  /\ Prove(b) # Put(f, v) /\ Prove(b) # Load(f) /\ Prove(b) # Save
                  /\ Fetch(b).op = "fetch" /\ Prove(b).op = "prove"
                  /\ Fetch(b).block = b /\ Prove(b).block = b
  /\ \A b, c : Fetch(b) # Prove(c) /\ (Prove(b) = Prove(c) => b = c)
               /\ (Fetch(b) = Fetch(c) => b = c)
  /\ Save.op = "save"
BY DEF Put, Load, Fetch, Prove, Save

LEMMA FilesApart ==
  /\ \A a \in Answers, w \in Working : \A h, g : <<a, h>> # <<w, g>>
  /\ \A a \in Answers : \A h, g, l : <<a, h>> # <<"ledgers", g, l>>
  /\ \A a \in Answers : \A h, b : <<a, h>> # Block(b) /\ <<a, h>> # Proof(b)
  /\ \A a \in Answers : \A h : <<a, h>> # Table
  /\ \A w \in Working : \A h, g, l : <<w, h>> # <<"ledgers", g, l>>
  /\ \A w \in Working : \A h, b : <<w, h>> # Block(b) /\ <<w, h>> # Proof(b)
  /\ \A w \in Working : \A h : <<w, h>> # Table
  /\ \A h, l, b : <<"ledgers", h, l>> # Block(b) /\ <<"ledgers", h, l>> # Proof(b)
  /\ \A h, l : <<"ledgers", h, l>> # Table
  /\ \A h, g, k, l : <<"ledgers", h, l>> = <<"ledgers", g, k>> => h = g /\ l = k
  /\ \A b, c : Block(b) # Proof(c) /\ (Block(b) = Block(c) => b = c)
               /\ (Proof(b) = Proof(c) => b = c)
  /\ \A b : Block(b) # Table /\ Proof(b) # Table
  /\ \A a, c, h, g : <<a, h>> = <<c, g>> => a = c /\ h = g
BY DEF Answers, Working, Block, Proof, Table

LEMMA JobIs ==
  ASSUME NEW t, NEW k \in Jobs(t)
  PROVE  \/ \E a \in Answers : k = Put(<<a, Height[t]>>, t)
         \/ \E w \in Working : k = Load(<<w, Height[t]>>)
         \/ \E w \in Working, l \in Ledgers : k = Put(<<w, Height[t]>>, l)
         \/ \E l \in Ledgers : k = Put(<<"ledgers", Height[t], l>>, l)
         \/ \E b \in Blocks : k = Fetch(b)
         \/ k = Load(Table) \/ k = Save
<1> DEFINE h == Height[t]
           A == {Put(<<a, h>>, t) : a \in Answers}
           B == {Load(<<w, h>>) : w \in Working}
           C == {Put(<<w, h>>, l) : w \in Working, l \in Ledgers}
           D == {Put(<<"ledgers", h, l>>, l) : l \in Ledgers}
           E == {Fetch(b) : b \in Blocks}
<1>1. \/ k \in A \/ k \in B \/ k \in C \/ k \in D \/ k \in E
      \/ k = Load(Table) \/ k = Save
  <2>1. Jobs(t) = A \cup B \cup C \cup D \cup E \cup {Load(Table), Save} BY DEF Jobs
  <2> HIDE DEF A, B, C, D, E
  <2> QED BY <2>1
<1>2. k \in A => \E a \in Answers : k = Put(<<a, h>>, t) OBVIOUS
<1>3. k \in B => \E w \in Working : k = Load(<<w, h>>) OBVIOUS
<1>4. k \in C => \E w \in Working, l \in Ledgers : k = Put(<<w, h>>, l) OBVIOUS
<1>5. k \in D => \E l \in Ledgers : k = Put(<<"ledgers", h, l>>, l) OBVIOUS
<1>6. k \in E => \E b \in Blocks : k = Fetch(b) OBVIOUS
<1> HIDE DEF A, B, C, D, E
<1> QED BY <1>1, <1>2, <1>3, <1>4, <1>5, <1>6

LEMMA JobOp ==
  ASSUME NEW t, NEW k \in Jobs(t)
  PROVE  /\ k.op # "prove"
         /\ k.op = "fetch" => \E b \in Blocks : k = Fetch(b)
         /\ k.op \in {"put", "save"} =>
              \/ \E a \in Answers : k = Put(<<a, Height[t]>>, t)
              \/ \E w \in Working, l \in Ledgers : k = Put(<<w, Height[t]>>, l)
              \/ \E l \in Ledgers : k = Put(<<"ledgers", Height[t], l>>, l)
              \/ k = Save
<1>1. CASE \E a \in Answers : k = Put(<<a, Height[t]>>, t)
  <2>1. k.op = "put" BY <1>1, TasksApart
  <2> QED BY <1>1, <2>1
<1>4. CASE \E w \in Working, l \in Ledgers : k = Put(<<w, Height[t]>>, l)
  <2>1. k.op = "put" BY <1>4, TasksApart
  <2> QED BY <1>4, <2>1
<1>5. CASE \E l \in Ledgers : k = Put(<<"ledgers", Height[t], l>>, l)
  <2>1. k.op = "put" BY <1>5, TasksApart
  <2> QED BY <1>5, <2>1
<1>2. CASE \/ \E w \in Working : k = Load(<<w, Height[t]>>)
           \/ k = Load(Table) \/ k = Save
  BY <1>2, TasksApart
<1>3. CASE \E b \in Blocks : k = Fetch(b)
  BY <1>3, TasksApart
<1> QED BY <1>1, <1>2, <1>3, <1>4, <1>5, JobIs

LEMMA ExtraApart ==
  ASSUME NEW t, NEW b, NEW k \in Jobs(t)
  PROVE  k \notin Extra(b)
<1>1. CASE \E a \in Answers : k = Put(<<a, Height[t]>>, t)
  BY <1>1 DEF Extra, Put, Prove, Block, Proof, Answers
<1>2. CASE \E w \in Working, l \in Ledgers : k = Put(<<w, Height[t]>>, l)
  BY <1>2 DEF Extra, Put, Prove, Block, Proof, Working
<1>3. CASE \E l \in Ledgers : k = Put(<<"ledgers", Height[t], l>>, l)
  BY <1>3 DEF Extra, Put, Prove, Block, Proof
<1>4. CASE k.op \in {"load", "fetch", "save"}
  BY <1>4 DEF Extra, Put, Prove
<1>5. k = Load(Table) \/ k = Save \/ (\E b1 \in Blocks : k = Fetch(b1))
        \/ (\E w \in Working : k = Load(<<w, Height[t]>>)) => k.op \in {"load", "fetch", "save"}
  BY DEF Load, Fetch, Save
<1> QED BY <1>1, <1>2, <1>3, <1>4, <1>5, JobIs

LEMMA TodoIs ==
  ASSUME Shape, ~Idle
  PROVE  /\ Len(todo) \in Nat \ {0} /\ DOMAIN todo = 1..Len(todo) /\ Now = todo[1]
         /\ Len(Tail(todo)) = Len(todo) - 1 /\ DOMAIN Tail(todo) = 1..(Len(todo) - 1)
         /\ \A i \in 1..(Len(todo) - 1) : Tail(todo)[i] = todo[i + 1]
         /\ Tail(todo) # <<>> => Len(todo) >= 2
<1>1. todo \in Seq(Tame) /\ todo # <<>> BY DEF Shape, Idle
<1>2. /\ Len(todo) \in Nat \ {0} /\ DOMAIN todo = 1..Len(todo)
  BY <1>1, LenProperties, EmptySeq
<1>3. /\ Tail(todo) \in Seq(Tame) /\ Len(Tail(todo)) = Len(todo) - 1
      /\ \A i \in 1..Len(Tail(todo)) : Tail(todo)[i] = todo[i + 1]
  BY <1>1, HeadTailProperties
<1>4. DOMAIN Tail(todo) = 1..Len(Tail(todo)) BY <1>3, LenProperties
<1>5. Tail(todo) # <<>> => Len(Tail(todo)) # 0 BY <1>3, EmptySeq
<1>6. Now = todo[1] BY <1>1 DEF Now
<1> QED BY <1>2, <1>3, <1>4, <1>5, <1>6

LEMMA InToSet == \A s, v : v \in ToSet(s) <=> \E i \in DOMAIN s : s[i] = v
BY DEF ToSet

LEMMA ToSets ==
  ASSUME Shape, ~Idle
  PROVE  ToSet(todo) = {Now} \cup ToSet(Tail(todo))
<1>1. ASSUME NEW i \in 1..Len(todo), i # 1 PROVE \E j \in 1..(Len(todo) - 1) : todo[i] = Tail(todo)[j]
  <2>1. i - 1 \in 1..(Len(todo) - 1) BY <1>1, TodoIs
  <2>2. Tail(todo)[i - 1] = todo[i] BY <2>1, TodoIs
  <2> QED BY <2>1, <2>2
<1>2. ASSUME NEW j \in 1..(Len(todo) - 1)
      PROVE  j + 1 \in 1..Len(todo) /\ Tail(todo)[j] = todo[j + 1]
  BY TodoIs
<1>3. 1 \in 1..Len(todo) BY TodoIs
<1>4. /\ DOMAIN todo = 1..Len(todo) /\ DOMAIN Tail(todo) = 1..(Len(todo) - 1)
      /\ Now = todo[1]
  BY TodoIs
<1>5. ASSUME NEW v PROVE v \in ToSet(todo) <=> v = Now \/ v \in ToSet(Tail(todo))
  <2>1. v \in ToSet(todo) <=> \E i \in 1..Len(todo) : todo[i] = v
    BY <1>4, InToSet
  <2>2. v \in ToSet(Tail(todo)) <=> \E j \in 1..(Len(todo) - 1) : Tail(todo)[j] = v
    BY <1>4, InToSet
  <2>3. CASE v \in ToSet(todo)
    <3>1. PICK i \in 1..Len(todo) : todo[i] = v BY <2>1, <2>3
    <3>2. CASE i = 1 BY <1>4, <2>3, <3>1, <3>2
    <3>3. CASE i # 1 BY <1>1, <2>2, <2>3, <3>1, <3>3
    <3> QED BY <3>2, <3>3
  <2>4. CASE v = Now BY <1>3, <1>4, <2>1, <2>4
  <2>5. CASE v \in ToSet(Tail(todo)) BY <1>2, <2>1, <2>2, <2>5
  <2> QED BY <2>3, <2>4, <2>5
<1> QED BY <1>5

(* One or two tasks before others.                                           *)
LEMMA OneBefore ==
  ASSUME NEW S, NEW x \in S, NEW s \in Seq(S)
  PROVE  LET u == <<x>> \o s
         IN  /\ Len(u) = Len(s) + 1 /\ DOMAIN u = 1..(Len(s) + 1) /\ u # <<>> /\ u[1] = x
             /\ \A i \in 1..(Len(s) + 1) : i # 1 => u[i] = s[i - 1]
             /\ ToSet(u) = {x} \cup ToSet(s)
<1> DEFINE u == <<x>> \o s
<1>0. Len(s) \in Nat /\ DOMAIN s = 1..Len(s) BY LenProperties
<1>1. <<x>> \in Seq(S) /\ Len(<<x>>) = 1 /\ <<x>>[1] = x OBVIOUS
<1>2. /\ u \in Seq(S) /\ Len(u) = 1 + Len(s)
      /\ \A i \in 1..(1 + Len(s)) : u[i] = IF i <= 1 THEN <<x>>[i] ELSE s[i - 1]
  BY <1>1, ConcatProperties
<1> HIDE DEF u
<1>3. Len(u) = Len(s) + 1 /\ DOMAIN u = 1..(Len(s) + 1)
  BY <1>0, <1>2, LenProperties
<1>4. u[1] = x /\ \A i \in 1..(Len(s) + 1) : i # 1 => u[i] = s[i - 1]
  BY <1>0, <1>1, <1>2
<1>5. u # <<>> BY <1>0, <1>3
<1>6. ToSet(u) = {x} \cup ToSet(s)
  <2>1. ASSUME NEW i \in DOMAIN u PROVE u[i] = x \/ \E j \in DOMAIN s : u[i] = s[j]
    BY <1>0, <1>3, <1>4
  <2>2. ASSUME NEW j \in DOMAIN s PROVE j + 1 \in DOMAIN u /\ u[j + 1] = s[j]
    BY <1>0, <1>3, <1>4
  <2>3. 1 \in DOMAIN u BY <1>0, <1>3
  <2>4. ASSUME NEW v PROVE v \in ToSet(u) <=> v = x \/ v \in ToSet(s)
    BY <1>4, <2>1, <2>2, <2>3, InToSet
  <2> QED BY <2>4
<1> QED BY <1>3, <1>4, <1>5, <1>6 DEF u

LEMMA TwoBefore ==
  ASSUME NEW S, NEW x \in S, NEW y \in S, NEW s \in Seq(S)
  PROVE  LET u == <<x, y>> \o s
         IN  /\ Len(u) = Len(s) + 2 /\ DOMAIN u = 1..(Len(s) + 2) /\ u # <<>>
             /\ u[1] = x /\ u[2] = y
             /\ \A i \in 1..(Len(s) + 2) : i > 2 => u[i] = s[i - 2]
             /\ ToSet(u) = {x, y} \cup ToSet(s)
<1> DEFINE u == <<x, y>> \o s
<1>0. Len(s) \in Nat /\ DOMAIN s = 1..Len(s) BY LenProperties
<1>1. <<x, y>> \in Seq(S) /\ Len(<<x, y>>) = 2 /\ <<x, y>>[1] = x /\ <<x, y>>[2] = y
  OBVIOUS
<1>2. /\ u \in Seq(S) /\ Len(u) = 2 + Len(s)
      /\ \A i \in 1..(2 + Len(s)) : u[i] = IF i <= 2 THEN <<x, y>>[i] ELSE s[i - 2]
  BY <1>1, ConcatProperties
<1> HIDE DEF u
<1>3. Len(u) = Len(s) + 2 /\ DOMAIN u = 1..(Len(s) + 2)
  BY <1>0, <1>2, LenProperties
<1>4. /\ u[1] = x /\ u[2] = y
      /\ \A i \in 1..(Len(s) + 2) : i > 2 => u[i] = s[i - 2]
  BY <1>0, <1>1, <1>2
<1>5. u # <<>> BY <1>0, <1>3
<1>6. ToSet(u) = {x, y} \cup ToSet(s)
  <2>1. ASSUME NEW i \in DOMAIN u
        PROVE  u[i] = x \/ u[i] = y \/ \E j \in DOMAIN s : u[i] = s[j]
    <3>1. CASE i > 2 BY <1>0, <1>3, <1>4, <3>1
    <3>2. CASE ~(i > 2)
      <4>1. i = 1 \/ i = 2 BY <1>0, <1>3, <3>2
      <4> QED BY <1>4, <4>1
    <3> QED BY <3>1, <3>2
  <2>2. ASSUME NEW j \in DOMAIN s PROVE j + 2 \in DOMAIN u /\ u[j + 2] = s[j]
    BY <1>0, <1>3, <1>4
  <2>3. 1 \in DOMAIN u /\ 2 \in DOMAIN u BY <1>0, <1>3
  <2>4. ASSUME NEW v PROVE v \in ToSet(u) <=> v = x \/ v = y \/ v \in ToSet(s)
    BY <1>4, <2>1, <2>2, <2>3, InToSet
  <2> QED BY <2>4
<1> QED BY <1>3, <1>4, <1>5, <1>6 DEF u

(* The rest of what is to do, after one or two tasks that were not planned.  *)
LEMMA Replaced ==
  ASSUME Shape, ~Idle, NEW x \in Tame, todo' = <<x>> \o Tail(todo)
  PROVE  /\ Len(todo') = Len(todo) /\ DOMAIN todo' = 1..Len(todo) /\ todo'[1] = x
         /\ \A i \in 1..Len(todo) : i # 1 => todo'[i] = todo[i]
         /\ Now' = x /\ ~Idle'
         /\ ToSet(todo') = {x} \cup ToSet(Tail(todo))
<1>1. Tail(todo) \in Seq(Tame) BY Doing, LateAsTame, SeqMonotonic
<1>2. /\ Len(todo') = Len(Tail(todo)) + 1 /\ DOMAIN todo' = 1..(Len(Tail(todo)) + 1)
      /\ todo' # <<>> /\ todo'[1] = x
      /\ \A i \in 1..(Len(Tail(todo)) + 1) : i # 1 => todo'[i] = Tail(todo)[i - 1]
      /\ ToSet(todo') = {x} \cup ToSet(Tail(todo))
  <2> DEFINE s == Tail(todo)
             u == todo'
  <2>1. s \in Seq(Tame) /\ u = <<x>> \o s BY <1>1
  <2> HIDE DEF s, u
  <2>2. /\ Len(u) = Len(s) + 1 /\ DOMAIN u = 1..(Len(s) + 1) /\ u # <<>>
        /\ u[1] = x 
        /\ \A i \in 1..(Len(s) + 1) : i # 1 => u[i] = s[i - 1]
        /\ ToSet(u) = {x} \cup ToSet(s)
    BY <2>1, OneBefore
  <2> QED BY <2>2 DEF s, u
<1>3. ASSUME NEW i \in 1..Len(todo), i # 1 PROVE Tail(todo)[i - 1] = todo[i]
  BY <1>3, TodoIs
<1>4. Len(Tail(todo)) + 1 = Len(todo) BY TodoIs
<1> QED BY <1>2, <1>3, <1>4 DEF Now, Idle

LEMMA Pushed ==
  ASSUME Shape, ~Idle, NEW x \in Tame, NEW y \in Tame, todo' = <<x, y>> \o Tail(todo)
  PROVE  /\ Len(todo') = Len(todo) + 1 /\ DOMAIN todo' = 1..(Len(todo) + 1)
         /\ todo'[1] = x /\ todo'[2] = y
         /\ \A i \in 1..(Len(todo) + 1) : i > 2 => todo'[i] = todo[i - 1]
         /\ Now' = x /\ ~Idle'
         /\ ToSet(todo') = {x, y} \cup ToSet(Tail(todo))
<1>1. Tail(todo) \in Seq(Tame) BY Doing, LateAsTame, SeqMonotonic
<1>2. /\ Len(todo') = Len(Tail(todo)) + 2 /\ DOMAIN todo' = 1..(Len(Tail(todo)) + 2)
      /\ todo' # <<>> /\ todo'[1] = x /\ todo'[2] = y
      /\ \A i \in 1..(Len(Tail(todo)) + 2) : i > 2 => todo'[i] = Tail(todo)[i - 2]
      /\ ToSet(todo') = {x, y} \cup ToSet(Tail(todo))
  <2> DEFINE s == Tail(todo)
             u == todo'
  <2>1. s \in Seq(Tame) /\ u = <<x, y>> \o s BY <1>1
  <2> HIDE DEF s, u
  <2>2. /\ Len(u) = Len(s) + 2 /\ DOMAIN u = 1..(Len(s) + 2) /\ u # <<>>
        /\ u[1] = x /\ u[2] = y
        /\ \A i \in 1..(Len(s) + 2) : i > 2 => u[i] = s[i - 2]
        /\ ToSet(u) = {x, y} \cup ToSet(s)
    BY <2>1, TwoBefore
  <2> QED BY <2>2 DEF s, u
<1>3. ASSUME NEW i \in 1..(Len(todo) + 1), i > 2 PROVE Tail(todo)[i - 2] = todo[i - 1]
  <2>1. i - 2 \in 1..(Len(todo) - 1) /\ (i - 2) + 1 = i - 1 BY <1>3, TodoIs
  <2> QED BY <2>1, TodoIs
<1> DEFINE n == Len(Tail(todo))
           m == Len(todo)
           s == Tail(todo)
           u == todo'
<1>4. n + 2 = m + 1 BY TodoIs
<1>5. Now' = x /\ ~Idle' BY <1>2 DEF Now, Idle
<1> HIDE DEF n, m, s, u
<1>6. /\ Len(u) = n + 2 /\ DOMAIN u = 1..(n + 2) /\ u[1] = x /\ u[2] = y
      /\ \A i \in 1..(n + 2) : i > 2 => u[i] = s[i - 2]
      /\ ToSet(u) = {x, y} \cup ToSet(s)
  BY <1>2 DEF n, s, u
<1>7. /\ Len(u) = m + 1 /\ DOMAIN u = 1..(m + 1)
      /\ \A i \in 1..(m + 1) : i > 2 => u[i] = todo[i - 1]
  <2>1. \A i \in 1..(m + 1) : i > 2 => s[i - 2] = todo[i - 1] BY <1>3 DEF m, s
  <2> QED BY <1>4, <1>6, <2>1
<1> QED BY <1>5, <1>6, <1>7 DEF m, s, u

(* The next task after the one that was done.                                *)
LEMMA NextTask ==
  ASSUME Shape, ~Idle, Ours, todo' = Tail(todo), todo' # <<>>
  PROVE  /\ Now' = todo[2]
         /\ \/ Now' \in Jobs(tip)
            \/ \E b \in Blocks : Now = Put(Block(b), b) /\ Now' = Prove(b)
<1>1. Len(todo) >= 2 /\ 1 \in 1..(Len(todo) - 1) /\ 2 \in 1..Len(todo) BY TodoIs
<1>2. Tail(todo)[1] = todo[2] BY <1>1, TodoIs
<1>3. Now' = todo[2] BY <1>2 DEF Now
<1> QED BY <1>1, <1>3, TodoIs DEF Ours

LEMMA TailCourse ==
  ASSUME Shape, Course, todo' = Tail(todo), ~Idle, tip' = tip,
         todo' # <<>> => done' = done
  PROVE  Course'
<1> SUFFICES ASSUME todo' # <<>> PROVE Course'
  BY DEF Course, Idle
<1> DEFINE n == Len(todo)
<1>0. /\ n \in Nat /\ n >= 2 /\ DOMAIN todo = 1..n /\ Len(todo') = n - 1 /\ DOMAIN todo' = 1..(n - 1)
      /\ \A i \in 1..(n - 1) : todo'[i] = todo[i + 1] /\ i + 1 \in 1..n
      /\ Ours /\ ProofNext /\ SaveLast(todo) /\ TableFirst(todo)
  BY TodoIs DEF Course
<1> HIDE DEF n
<1>1. /\ Now' = todo[2] /\ 2 \in 1..n
      /\ \/ Now' \in Jobs(tip)
         \/ \E b \in Blocks : Now = Put(Block(b), b) /\ Now' = Prove(b)
  BY <1>0, NextTask
<1>2. Ours'
  <2> SUFFICES ASSUME NEW i \in 1..(n - 1)
               PROVE  todo'[i] \in Jobs(tip)
                      \/ (i = 1 /\ \E b \in Blocks : Now' \in Extra(b))
    BY <1>0 DEF Ours
  <2>1. CASE i = 1 BY <1>0, <1>1, <2>1 DEF Extra
  <2>2. CASE i # 1
    <3>1. i + 1 \in 1..n /\ i + 1 # 1 /\ i + 1 # 2 /\ todo'[i] = todo[i + 1]
      BY <1>0, <2>2
    <3> QED BY <1>0, <3>1 DEF Ours
  <2> QED BY <2>1, <2>2
<1>3. ProofNext'
  <2>1. ASSUME NEW b \in Blocks PROVE Now' # Put(Block(b), b)
    BY <1>1, ExtraApart, TasksApart DEF Extra
  <2> QED BY <2>1 DEF ProofNext
<1>4. SaveLast(todo')
  BY <1>0 DEF SaveLast
<1>5. TableFirst(todo')
  <2> SUFFICES ASSUME NEW i \in 1..(n - 1), NEW j \in 1..(n - 1), i < j, todo'[j] = Load(Table)
               PROVE  todo'[i].op \in {"put", "load"}
    BY <1>0 DEF TableFirst
  <2>1. /\ i + 1 \in DOMAIN todo /\ j + 1 \in DOMAIN todo /\ i + 1 < j + 1
        /\ todo[j + 1] = Load(Table) /\ todo'[i] = todo[i + 1]
    BY <1>0
  <2>2. TableFirst(todo) BY <1>0
  <2> QED BY <2>1, <2>2 DEF TableFirst
<1> QED BY <1>2, <1>3, <1>4, <1>5 DEF Course, Idle

LEMMA ToSetConcat ==
  ASSUME NEW S, NEW s \in Seq(S), NEW u \in Seq(S)
  PROVE  ToSet(s \o u) = ToSet(s) \cup ToSet(u)
<1>1. \A w : ToSet(w) = Range(w) BY DEF ToSet, Range
<1> QED BY <1>1, RangeConcatenation

LEMMA Joined ==
  ASSUME NEW S, NEW s \in Seq(S), NEW u \in Seq(S)
  PROVE  s \o u \in Seq(S) /\ ToSet(s \o u) = ToSet(s) \cup ToSet(u)
<1>1. s \o u \in Seq(S) BY ConcatProperties
<1>2. ToSet(s \o u) = ToSet(s) \cup ToSet(u) BY ToSetConcat
<1> QED BY <1>1, <1>2

(* The plan: answers and ledgers, among them the table, the blocks, and the  *)
(* table at the end (record.rs:41-219).                                      *)
LEMMA PlanParts ==
  ASSUME NEW t \in Tips
  PROVE  \E p \in Seq({k \in Jobs(t) : k.op \in {"put", "load"}}),
            q \in Seq({k \in Jobs(t) : k.op = "fetch"}) :
           /\ Plan(t) = (p \o q) \o <<Save>>
           /\ \A a \in Answers : Put(<<a, Height[t]>>, t) \in ToSet(p)
           /\ \A l \in {Epoch[t], Snarked[t]} : Put(<<"ledgers", Height[t], l>>, l) \in ToSet(p)
           /\ Load(Table) \in ToSet(p)
           /\ \A b \in ToSet(Chain[t]) : b \in Blocks /\ Fetch(b) \in ToSet(q)
<1> DEFINE h == Height[t]
           S == {k \in Jobs(t) : k.op \in {"put", "load"}}
           A == << Put(<<"best_tip", h>>, t), Put(<<"ancestry", h>>, t) >>
           B == SyncLedger(h, "epoch_ledger.bin", Epoch[t])
           C == SyncLedger(h, "current_ledger.bin", Snarked[t])
           D == << Put(<<"staged_ledger_aux", h>>, t), Load(Table) >>
           E == [i \in DOMAIN Chain[t] |-> Fetch(Chain[t][i])]
<1>1. /\ h \in Heights /\ Epoch[t] \in Ledgers /\ Snarked[t] \in Ledgers
      /\ Chain[t] \in Seq(Blocks)
  BY TipHas
<1>2. \A a \in Answers : Put(<<a, h>>, t) \in S
  BY TasksApart DEF Jobs
<1>3. ASSUME NEW w \in Working, NEW l \in Ledgers
      PROVE  Put(<<w, h>>, l) \in S /\ Load(<<w, h>>) \in S /\ Put(<<"ledgers", h, l>>, l) \in S
  BY TasksApart DEF Jobs
<1>4. Load(Table) \in S BY TasksApart DEF Jobs
<1>5. ASSUME NEW w \in Working, NEW l \in Ledgers
      PROVE  SyncLedger(h, w, l) \in Seq(S)
             /\ Put(<<"ledgers", h, l>>, l) \in ToSet(SyncLedger(h, w, l))
  <2>1. SyncLedger(h, w, l) = <<Load(<<w, h>>), Put(<<"ledgers", h, l>>, l), Put(<<w, h>>, l)>>
    BY DEF SyncLedger
  <2>2. SyncLedger(h, w, l)[2] = Put(<<"ledgers", h, l>>, l) /\ 2 \in DOMAIN SyncLedger(h, w, l)
    BY <2>1
  <2>3. SyncLedger(h, w, l) \in Seq(S) BY <1>3, <2>1
  <2> QED BY <2>2, <2>3, InToSet
<1>6. A \in Seq(S) /\ ToSet(A) = {Put(<<"best_tip", h>>, t), Put(<<"ancestry", h>>, t)}
  <2>1. A \in Seq(S) BY <1>2 DEF Answers
  <2>2. DOMAIN A = 1..2 /\ A[1] = Put(<<"best_tip", h>>, t) /\ A[2] = Put(<<"ancestry", h>>, t)
    OBVIOUS
  <2> QED BY <2>1, <2>2 DEF ToSet
<1>7. D \in Seq(S) /\ ToSet(D) = {Put(<<"staged_ledger_aux", h>>, t), Load(Table)}
  <2>1. D \in Seq(S) BY <1>2, <1>4 DEF Answers
  <2>2. DOMAIN D = 1..2 /\ D[1] = Put(<<"staged_ledger_aux", h>>, t) /\ D[2] = Load(Table)
    OBVIOUS
  <2> QED BY <2>1, <2>2 DEF ToSet
<1>8. B \in Seq(S) /\ C \in Seq(S)
      /\ Put(<<"ledgers", h, Epoch[t]>>, Epoch[t]) \in ToSet(B)
      /\ Put(<<"ledgers", h, Snarked[t]>>, Snarked[t]) \in ToSet(C)
  BY <1>1, <1>5 DEF Working
<1>9. /\ E \in Seq({k \in Jobs(t) : k.op = "fetch"})
      /\ \A b \in ToSet(Chain[t]) : b \in Blocks /\ Fetch(b) \in ToSet(E)
  <2>1. \A b \in Blocks : Fetch(b) \in Jobs(t) /\ Fetch(b).op = "fetch"
    BY TasksApart DEF Jobs
  <2>2. DOMAIN Chain[t] = 1..Len(Chain[t]) /\ Len(Chain[t]) \in Nat
    BY <1>1, LenProperties
  <2>3. \A i \in 1..Len(Chain[t]) : Chain[t][i] \in Blocks
    BY <1>1, ElementOfSeq
  <2>4. E \in [1..Len(Chain[t]) -> {k \in Jobs(t) : k.op = "fetch"}]
    BY <2>1, <2>2, <2>3
  <2>5. E \in Seq({k \in Jobs(t) : k.op = "fetch"}) BY <2>2, <2>4, SeqDef
  <2>6. ASSUME NEW b \in ToSet(Chain[t]) PROVE b \in Blocks /\ Fetch(b) \in ToSet(E)
    <3>1. PICK i \in DOMAIN Chain[t] : Chain[t][i] = b BY InToSet
    <3>2. i \in DOMAIN E /\ E[i] = Fetch(b) BY <3>1
    <3> QED BY <2>2, <2>3, <3>1, <3>2, InToSet
  <2> QED BY <2>5, <2>6
<1>10. Plan(t) = A \o B \o C \o D \o E \o <<Save>> BY DEF Plan
<1> HIDE DEF A, B, C, D, E, S
<1> DEFINE AB == A \o B
<1>11. AB \in Seq(S) /\ ToSet(AB) = ToSet(A) \cup ToSet(B)
  <2>1. A \in Seq(S) /\ B \in Seq(S) BY <1>6, <1>8
  <2> QED BY <2>1, Joined
<1> DEFINE ABC == AB \o C
<1> HIDE DEF AB
<1>12. ABC \in Seq(S) /\ ToSet(ABC) = ToSet(A) \cup ToSet(B) \cup ToSet(C)
  <2>1. C \in Seq(S) BY <1>8
  <2>2. ABC \in Seq(S) /\ ToSet(ABC) = ToSet(AB) \cup ToSet(C) BY <1>11, <2>1, Joined
  <2> QED BY <1>11, <2>2
<1> DEFINE P == ABC \o D
<1> HIDE DEF ABC
<1>13. P \in Seq(S) /\ ToSet(P) = ToSet(A) \cup ToSet(B) \cup ToSet(C) \cup ToSet(D)
  <2>1. D \in Seq(S) BY <1>7
  <2>2. P \in Seq(S) /\ ToSet(P) = ToSet(ABC) \cup ToSet(D) BY <1>12, <2>1, Joined
  <2> QED BY <1>12, <2>2
<1> HIDE DEF P
<1>14. P \in Seq({k \in Jobs(t) : k.op \in {"put", "load"}}) BY <1>13 DEF S
<1>15. \A a \in Answers : Put(<<a, h>>, t) \in ToSet(P) BY <1>6, <1>7, <1>13 DEF Answers
<1>16. \A l \in {Epoch[t], Snarked[t]} : Put(<<"ledgers", h, l>>, l) \in ToSet(P)
  BY <1>8, <1>13
<1>17. Load(Table) \in ToSet(P) BY <1>7, <1>13
<1>18. Plan(t) = (P \o E) \o <<Save>> BY <1>10 DEF P, ABC, AB
<1> QED BY <1>9, <1>14, <1>15, <1>16, <1>17, <1>18

LEMMA PlanCourse ==
  ASSUME NEW t \in Tips
  PROVE  /\ DOMAIN Plan(t) = 1..Len(Plan(t)) /\ Len(Plan(t)) \in Nat \ {0}
         /\ Plan(t) # <<>> /\ Head(Plan(t)) = Plan(t)[1]
         /\ \A i \in DOMAIN Plan(t) : Plan(t)[i] \in Jobs(t)
         /\ SaveLast(Plan(t)) /\ TableFirst(Plan(t))
         /\ \A a \in Answers : Put(<<a, Height[t]>>, t) \in ToSet(Plan(t))
         /\ \A l \in {Epoch[t], Snarked[t]} :
              Put(<<"ledgers", Height[t], l>>, l) \in ToSet(Plan(t))
         /\ Load(Table) \in ToSet(Plan(t))
         /\ \A b \in ToSet(Chain[t]) : Fetch(b) \in ToSet(Plan(t))
<1> DEFINE J == Jobs(t)
<1>0. PICK p \in Seq({k \in J : k.op \in {"put", "load"}}), q \in Seq({k \in J : k.op = "fetch"}) :
        /\ Plan(t) = (p \o q) \o <<Save>>
        /\ \A a \in Answers : Put(<<a, Height[t]>>, t) \in ToSet(p)
        /\ \A l \in {Epoch[t], Snarked[t]} : Put(<<"ledgers", Height[t], l>>, l) \in ToSet(p)
        /\ Load(Table) \in ToSet(p)
        /\ \A b \in ToSet(Chain[t]) : b \in Blocks /\ Fetch(b) \in ToSet(q)
  BY PlanParts
<1> DEFINE u == Plan(t)
           m == Len(p)
           n == Len(q)
<1>1. u = (p \o q) \o <<Save>> /\ Save \in J BY <1>0 DEF Jobs
<1>2. /\ m \in Nat /\ n \in Nat
      /\ \A i \in 1..m : p[i] \in J /\ p[i].op \in {"put", "load"}
      /\ \A i \in 1..n : q[i] \in J /\ q[i].op = "fetch"
  BY ElementOfSeq, LenProperties
<1>3. p \in Seq(J) /\ q \in Seq(J) /\ <<Save>> \in Seq(J)
  BY <1>1, SeqMonotonic
<1> HIDE DEF J
<1>4. /\ p \o q \in Seq(J) /\ Len(p \o q) = m + n
      /\ \A i \in 1..(m + n) : (p \o q)[i] = IF i <= m THEN p[i] ELSE q[i - m]
  BY <1>3, ConcatProperties
<1>5. Len(<<Save>>) = 1 /\ <<Save>>[1] = Save OBVIOUS
<1>6. /\ u \in Seq(J) /\ Len(u) = m + n + 1
      /\ \A i \in 1..(m + n + 1) : u[i] = IF i <= m + n THEN (p \o q)[i] ELSE <<Save>>[i - (m + n)]
  <2> DEFINE v == p \o q
  <2>1. u = v \o <<Save>> BY <1>1
  <2>2. v \in Seq(J) /\ Len(v) = m + n /\ <<Save>> \in Seq(J) BY <1>3, <1>4
  <2> HIDE DEF u, v
  <2>3. /\ u \in Seq(J) /\ Len(u) = Len(v) + Len(<<Save>>)
        /\ \A i \in 1..(Len(v) + Len(<<Save>>)) :
             u[i] = IF i <= Len(v) THEN v[i] ELSE <<Save>>[i - Len(v)]
    BY <2>1, <2>2, ConcatProperties
  <2> QED BY <1>5, <2>2, <2>3 DEF v
<1>7. DOMAIN u = 1..(m + n + 1) BY <1>6, LenProperties
<1>8. ToSet(p) \subseteq ToSet(u) /\ ToSet(q) \subseteq ToSet(u)
  <2> DEFINE v == p \o q
             w == <<Save>>
  <2>1. v \in Seq(J) /\ ToSet(v) = ToSet(p) \cup ToSet(q) BY <1>3, Joined
  <2>2. u = v \o w /\ w \in Seq(J) BY <1>1, <1>3
  <2> HIDE DEF u, v, w
  <2>3. ToSet(u) = ToSet(v) \cup ToSet(w) BY <2>1, <2>2, Joined
  <2> QED BY <2>1, <2>3
<1> HIDE DEF u, m, n
<1>9. \A i \in 1..(m + n + 1) :
        /\ i <= m => u[i] = p[i] /\ i \in 1..m
        /\ m < i /\ i <= m + n => u[i] = q[i - m] /\ i - m \in 1..n
        /\ i = m + n + 1 => u[i] = Save
  <2> SUFFICES ASSUME NEW i \in 1..(m + n + 1)
               PROVE  /\ i <= m => u[i] = p[i] /\ i \in 1..m
                      /\ m < i /\ i <= m + n => u[i] = q[i - m] /\ i - m \in 1..n
                      /\ i = m + n + 1 => u[i] = Save
    OBVIOUS
  <2> DEFINE v == p \o q
  <2>0. /\ \A k \in 1..(m + n) : v[k] = IF k <= m THEN p[k] ELSE q[k - m]
        /\ i <= m + n => u[i] = v[i]
    BY <1>2, <1>4, <1>6
  <2> HIDE DEF v
  <2>1. CASE i <= m
    <3>1. i \in 1..m /\ i \in 1..(m + n) BY <1>2, <2>1
    <3>2. u[i] = v[i] /\ v[i] = p[i] BY <1>2, <2>0, <2>1, <3>1
    <3> QED BY <1>2, <2>1, <3>1, <3>2
  <2>2. CASE m < i /\ i <= m + n
    <3>1. i - m \in 1..n /\ i \in 1..(m + n) BY <1>2, <2>2
    <3>2. u[i] = v[i] /\ v[i] = q[i - m] BY <1>2, <2>0, <2>2, <3>1
    <3> QED BY <1>2, <2>2, <3>1, <3>2
  <2>3. CASE i = m + n + 1
    <3>1. u[i] = <<Save>>[i - (m + n)] /\ i - (m + n) = 1 BY <1>2, <1>6, <2>3
    <3>2. u[i] = Save BY <1>5, <3>1
    <3> QED BY <1>2, <2>3, <3>2
  <2> QED BY <2>1, <2>2, <2>3, <1>2
<1>10. \A i \in 1..(m + n + 1) :
        /\ i <= m => u[i] \in J /\ u[i].op \in {"put", "load"}
        /\ m < i /\ i <= m + n => u[i] \in J /\ u[i].op = "fetch"
        /\ i = m + n + 1 => u[i] = Save
  BY <1>2, <1>9
<1>11. \A i \in DOMAIN u : u[i] \in J BY <1>1, <1>2, <1>7, <1>10
<1>12. SaveLast(u)
  <2>1. ASSUME NEW i \in 1..(m + n + 1), u[i].op \in {"put", "load", "fetch"}
        PROVE  u[i] # Save
    BY <2>1, TasksApart
  <2>2. ASSUME NEW i \in 1..(m + n + 1) PROVE u[i] = Save <=> i = m + n + 1
    BY <1>2, <1>10, <2>1, <2>2
  <2> QED BY <1>6, <1>7, <2>2 DEF SaveLast
<1>13. TableFirst(u)
  <2> SUFFICES ASSUME NEW i \in 1..(m + n + 1), NEW j \in 1..(m + n + 1),
                      i < j, u[j] = Load(Table)
               PROVE  u[i].op \in {"put", "load"}
    BY <1>7 DEF TableFirst
  <2>1. u[j].op = "load" /\ u[j] # Save BY TasksApart
  <2>2. j <= m BY <1>2, <1>10, <2>1
  <2> QED BY <1>2, <1>10, <2>2
<1>14. Len(u) \in Nat \ {0} /\ DOMAIN u = 1..Len(u) /\ u # <<>> /\ Head(u) = u[1]
  BY <1>2, <1>6, <1>7
<1>15. /\ \A a \in Answers : Put(<<a, Height[t]>>, t) \in ToSet(u)
       /\ \A l \in {Epoch[t], Snarked[t]} : Put(<<"ledgers", Height[t], l>>, l) \in ToSet(u)
       /\ Load(Table) \in ToSet(u)
       /\ \A b \in ToSet(Chain[t]) : Fetch(b) \in ToSet(u)
  BY <1>0, <1>8
<1> QED BY <1>11, <1>12, <1>13, <1>14, <1>15 DEF u, J

LEMMA StartCourse ==
  ASSUME TypeOK, NEW t \in Tips, Start(t)
  PROVE  /\ ~Idle' /\ Now' \in Jobs(t) /\ Course' /\ Written' /\ Gathered'
<1>1. todo' = Plan(t) /\ tip' = t /\ done' = [done EXCEPT ![Height[t]] = NoTip]
  BY DEF Start
<1>2. todo' # <<>> /\ Now' = Plan(t)[1] /\ 1 \in DOMAIN Plan(t)
  <2>1. Plan(t) # <<>> /\ Head(Plan(t)) = Plan(t)[1]
    BY PlanCourse, Zenon
  <2>2. DOMAIN Plan(t) = 1..Len(Plan(t)) /\ Len(Plan(t)) \in Nat \ {0}
    BY PlanCourse, Zenon
  <2>3. 1 \in DOMAIN Plan(t) BY <2>2
  <2> QED BY <1>1, <2>1, <2>3, Zenon DEF Now
<1>3. Now' \in Jobs(t) BY <1>2, PlanCourse
<1>4. Ours' BY <1>1, PlanCourse DEF Ours
<1>5. ProofNext' BY <1>3, ExtraApart DEF ProofNext, Extra
<1>6. SaveLast(todo') /\ TableFirst(todo') BY <1>1, PlanCourse
<1>7. done'[Height[t]] = NoTip BY <1>1, TipHas DEF TypeOK
<1>8. Course' BY <1>1, <1>4, <1>5, <1>6, <1>7 DEF Course
<1>9. Written' BY <1>1, PlanCourse DEF Written
<1>10. Gathered' BY <1>1, PlanCourse DEF Gathered
<1> QED BY <1>2, <1>3, <1>8, <1>9, <1>10 DEF Idle

LEMMA NowIs ==
  ASSUME Shape, Course, ~Idle
  PROVE  /\ Now \in Tame /\ tip \in Tips
         /\ Now \in Jobs(tip) \/ \E b \in Blocks : Now \in Extra(b)
         /\ Now.op = "fetch" => Now.block \in Blocks /\ Now = Fetch(Now.block)
         /\ Now.op = "prove" => Now.block \in Blocks /\ Now = Prove(Now.block)
         /\ Now.op \in {"fetch", "prove", "save"} => Load(Table) \notin ToSet(todo)
         /\ Now = Save => Tail(todo) = <<>>
<1>1. Now \in Tame /\ tip \in Tips BY Doing DEF Course
<1>2. 1 \in DOMAIN todo /\ Now = todo[1] /\ DOMAIN todo = 1..Len(todo) BY TodoIs
<1>3. Now \in Jobs(tip) \/ \E b \in Blocks : Now \in Extra(b)
  BY <1>2 DEF Course, Ours
<1>4. Now.op = "fetch" => Now.block \in Blocks /\ Now = Fetch(Now.block)
  <2>1. ASSUME Now \in Jobs(tip), Now.op = "fetch" PROVE \E b \in Blocks : Now = Fetch(b)
    BY <2>1, JobOp
  <2>2. ASSUME NEW b \in Blocks, Now \in Extra(b) PROVE Now.op # "fetch"
    BY <2>2, TasksApart DEF Extra
  <2> QED BY <1>3, <2>1, <2>2, TasksApart
<1>5. Now.op = "prove" => Now.block \in Blocks /\ Now = Prove(Now.block)
  <2>1. ASSUME Now \in Jobs(tip) PROVE Now.op # "prove"
    BY <2>1, JobOp
  <2>2. ASSUME NEW b \in Blocks, Now \in Extra(b), Now.op = "prove" PROVE Now = Prove(b)
    BY <2>2, TasksApart DEF Extra
  <2> QED BY <1>3, <2>1, <2>2, TasksApart
<1>6. Now.op \in {"fetch", "prove", "save"} => Load(Table) \notin ToSet(todo)
  <2> SUFFICES ASSUME Now.op \in {"fetch", "prove", "save"}, NEW j \in DOMAIN todo,
                      todo[j] = Load(Table)
               PROVE  FALSE
    BY InToSet
  <2>1. j # 1 BY <1>2, TasksApart
  <2>2. 1 < j BY <1>2, <2>1, TodoIs
  <2> QED BY <1>2, <2>2 DEF Course, TableFirst
<1>7. Now = Save => Tail(todo) = <<>>
  <2>1. Now = Save => Len(todo) = 1 BY <1>2 DEF Course, SaveLast
  <2> QED BY <2>1, TodoIs
<1> QED BY <1>1, <1>3, <1>4, <1>5, <1>6, <1>7

LEMMA TargetIs ==
  ASSUME Shape, Course, Writing
  PROVE  \/ Now = Save /\ Target = Table
         \/ \E a \in Answers : /\ Target = <<a, Height[tip]>> /\ Content = tip
                               /\ Now = Put(<<a, Height[tip]>>, tip)
         \/ \E w \in Working, l \in Ledgers : /\ Target = <<w, Height[tip]>> /\ Content = l
                                              /\ Now = Put(<<w, Height[tip]>>, l)
         \/ \E l \in Ledgers : /\ Target = <<"ledgers", Height[tip], l>> /\ Content = l
                               /\ Now = Put(<<"ledgers", Height[tip], l>>, l)
         \/ \E b \in Blocks : Target = Block(b) /\ Content = b /\ Now = Put(Block(b), b)
         \/ \E b \in Blocks : Target = Proof(b) /\ Content = b /\ Now = Put(Proof(b), b)
<1>1. Now.op \in {"put", "save"} /\ ~Idle BY DEF Writing
<1>2. Now \in Jobs(tip) \/ \E b \in Blocks : Now \in Extra(b) BY <1>1, NowIs
<1>3. \A f, v : Now = Put(f, v) => Target = f /\ Content = v
  BY TasksApart DEF Target, Content
<1>4. Now = Save => Target = Table BY DEF Target
<1>5. ASSUME NEW b \in Blocks, Now \in Extra(b)
      PROVE  Now = Put(Block(b), b) \/ Now = Put(Proof(b), b)
  BY <1>1, <1>5, TasksApart DEF Extra
<1>6. ASSUME Now \in Jobs(tip)
      PROVE  \/ \E a \in Answers : Now = Put(<<a, Height[tip]>>, tip)
             \/ \E w \in Working, l \in Ledgers : Now = Put(<<w, Height[tip]>>, l)
             \/ \E l \in Ledgers : Now = Put(<<"ledgers", Height[tip], l>>, l)
             \/ Now = Save
  BY <1>1, <1>6, JobOp
<1> QED BY <1>2, <1>3, <1>4, <1>5, <1>6

(* What is in a file tells what wrote it.                                    *)
LEMMA TargetAt ==
  ASSUME Shape, Course, Writing
  PROVE  /\ \A a \in Answers : \A h : Target = <<a, h>> =>
              h = Height[tip] /\ Content = tip /\ Now = Put(<<a, h>>, tip)
         /\ \A h, l : Target = <<"ledgers", h, l>> =>
              h = Height[tip] /\ Content = l /\ Now = Put(<<"ledgers", h, l>>, l)
         /\ \A b : Target = Block(b) => Content = b /\ Now = Put(Block(b), b)
         /\ \A b : Target = Proof(b) => Content = b /\ Now = Put(Proof(b), b)
         /\ Target = Table => Now = Save /\ Content = table
<1>1. CASE Now = Save /\ Target = Table
  <2>1. Content = table BY <1>1 DEF Content
  <2>2. \A h, l, b : /\ Target # <<"ledgers", h, l>> /\ Target # Block(b) /\ Target # Proof(b)
    BY <1>1, FilesApart
  <2>3. \A a \in Answers : \A h : Target # <<a, h>> BY <1>1, FilesApart
  <2> QED BY <1>1, <2>1, <2>2, <2>3
<1>2. ASSUME NEW a \in Answers, Target = <<a, Height[tip]>>, Content = tip,
             Now = Put(<<a, Height[tip]>>, tip)
      PROVE  \A c \in Answers : \A h : Target = <<c, h>> =>
               h = Height[tip] /\ Content = tip /\ Now = Put(<<c, h>>, tip)
  BY <1>2, FilesApart
<1>3. ASSUME NEW l \in Ledgers, Target = <<"ledgers", Height[tip], l>>, Content = l,
             Now = Put(<<"ledgers", Height[tip], l>>, l)
      PROVE  \A h, m : Target = <<"ledgers", h, m>> =>
               h = Height[tip] /\ Content = m /\ Now = Put(<<"ledgers", h, m>>, m)
  BY <1>3, FilesApart
<1>4. ASSUME NEW b \in Blocks, Target = Block(b), Content = b, Now = Put(Block(b), b)
      PROVE  \A c : Target = Block(c) => Content = c /\ Now = Put(Block(c), c)
  BY <1>4, FilesApart
<1>5. ASSUME NEW b \in Blocks, Target = Proof(b), Content = b, Now = Put(Proof(b), b)
      PROVE  \A c : Target = Proof(c) => Content = c /\ Now = Put(Proof(c), c)
  BY <1>5, FilesApart
<1> DEFINE AnswerAt == \E a \in Answers : /\ Target = <<a, Height[tip]>> /\ Content = tip
                                          /\ Now = Put(<<a, Height[tip]>>, tip)
           WorkingAt == \E w \in Working, l \in Ledgers :
                          /\ Target = <<w, Height[tip]>> /\ Content = l
                          /\ Now = Put(<<w, Height[tip]>>, l)
           LedgerAt == \E l \in Ledgers :
                         /\ Target = <<"ledgers", Height[tip], l>> /\ Content = l
                         /\ Now = Put(<<"ledgers", Height[tip], l>>, l)
           BlockAt == \E b \in Blocks : Target = Block(b) /\ Content = b /\ Now = Put(Block(b), b)
           ProofAt == \E b \in Blocks : Target = Proof(b) /\ Content = b /\ Now = Put(Proof(b), b)
<1>6. (Now = Save /\ Target = Table) \/ AnswerAt \/ WorkingAt \/ LedgerAt \/ BlockAt \/ ProofAt
  BY TargetIs
<1>7. CASE AnswerAt
  <2>1. PICK a \in Answers : Target = <<a, Height[tip]>> BY <1>7
  <2>2. \A h, l, b : /\ Target # <<"ledgers", h, l>> /\ Target # Block(b)
                     /\ Target # Proof(b) /\ Target # Table
    BY <2>1, FilesApart
  <2> QED BY <1>2, <1>7, <2>2
<1>8. CASE WorkingAt
  <2>1. PICK w \in Working : Target = <<w, Height[tip]>> BY <1>8
  <2>2. \A h, l, b : /\ Target # <<"ledgers", h, l>> /\ Target # Block(b)
                     /\ Target # Proof(b) /\ Target # Table
    BY <2>1, FilesApart
  <2>3. \A a \in Answers : \A h : Target # <<a, h>> BY <2>1, FilesApart
  <2> QED BY <2>2, <2>3
<1>9. CASE LedgerAt
  <2>1. PICK l \in Ledgers : Target = <<"ledgers", Height[tip], l>> BY <1>9
  <2>2. \A b : Target # Block(b) /\ Target # Proof(b) /\ Target # Table
    BY <2>1, FilesApart
  <2>3. \A a \in Answers : \A h : Target # <<a, h>> BY <2>1, FilesApart
  <2> QED BY <1>3, <1>9, <2>2, <2>3
<1>10. CASE BlockAt
  <2>1. PICK b \in Blocks : Target = Block(b) BY <1>10
  <2>2. \A h, l, c : Target # <<"ledgers", h, l>> /\ Target # Proof(c) /\ Target # Table
    BY <2>1, FilesApart
  <2>3. \A a \in Answers : \A h : Target # <<a, h>> BY <2>1, FilesApart
  <2> QED BY <1>4, <1>10, <2>2, <2>3
<1>11. CASE ProofAt
  <2>1. PICK b \in Blocks : Target = Proof(b) BY <1>11
  <2>2. \A h, l, c : Target # <<"ledgers", h, l>> /\ Target # Block(c) /\ Target # Table
    BY <2>1, FilesApart
  <2>3. \A a \in Answers : \A h : Target # <<a, h>> BY <2>1, FilesApart
  <2> QED BY <1>5, <1>11, <2>2, <2>3
<1> QED BY <1>1, <1>6, <1>7, <1>8, <1>9, <1>10, <1>11

LEMMA DownloadCourse ==
  ASSUME IInv, Course, Download
  PROVE  Course'
<1> DEFINE b == Now.block
           n == Len(todo)
<1>0. /\ ~Idle /\ Now.op = "fetch" /\ todo' = <<Put(Block(b), b), Prove(b)>> \o Tail(todo)
      /\ tip' = tip /\ done' = done
      /\ Shape /\ Ours /\ SaveLast(todo) /\ TableFirst(todo)
      /\ tip \in Tips /\ done[Height[tip]] = NoTip
  BY DEF Download, IInv, Course
<1>1. b \in Blocks /\ Now = Fetch(b) /\ Load(Table) \notin ToSet(todo)
  BY <1>0, NowIs
<1>2. Put(Block(b), b) \in Tame /\ Prove(b) \in Tame
  BY <1>1, FilesOf, TasksOf, LateAsTame DEF Values
<1>3. /\ Len(todo') = n + 1 /\ DOMAIN todo' = 1..(n + 1)
      /\ todo'[1] = Put(Block(b), b) /\ todo'[2] = Prove(b)
      /\ \A i \in 1..(n + 1) : i > 2 => todo'[i] = todo[i - 1]
      /\ Now' = Put(Block(b), b)
  BY <1>0, <1>2, Pushed
<1>4. n \in Nat \ {0} /\ DOMAIN todo = 1..n /\ todo[1] = Fetch(b) BY <1>0, <1>1, TodoIs
<1>5. PICK c \in Blocks : c = b BY <1>1
<1> HIDE DEF b, n
<1>6. ASSUME NEW i \in 1..(n + 1), i > 2
      PROVE  i - 1 \in DOMAIN todo /\ i - 1 # 1 /\ todo'[i] = todo[i - 1]
  BY <1>3, <1>4, <1>6
<1>7. Ours'
  <2> SUFFICES ASSUME NEW i \in 1..(n + 1)
               PROVE  \/ todo'[i] \in Jobs(tip)
                      \/ i = 1 /\ Now' \in Extra(c)
                      \/ i = 2 /\ Now' = Put(Block(c), c) /\ todo'[2] = Prove(c)
    BY <1>0, <1>3 DEF Ours
  <2>1. CASE i = 1 BY <1>3, <1>5, <2>1 DEF Extra
  <2>2. CASE i = 2 BY <1>3, <1>5, <2>2
  <2>3. CASE i > 2
    <3>1. Now # Put(Block(c), c) BY <1>1, TasksApart
    <3>2. \A e \in Blocks : Now # Put(Block(e), e) BY <1>1, TasksApart
    <3> QED BY <1>0, <1>6, <2>3, <3>2 DEF Ours
  <2> QED BY <2>1, <2>2, <2>3
<1>8. ProofNext'
  <2>1. \A e \in Blocks : Put(Block(b), b) = Put(Block(e), e) => e = b BY TasksApart
  <2>2. Len(todo') >= 2 BY <1>3, <1>4
  <2> QED BY <1>3, <2>1, <2>2 DEF ProofNext
<1>9. SaveLast(todo')
  <2> SUFFICES ASSUME NEW i \in 1..(n + 1) PROVE todo'[i] = Save <=> i = n + 1
    BY <1>3 DEF SaveLast
  <2>0. n # 1
    <3>1. Fetch(b) # Save BY TasksApart
    <3> QED BY <1>0, <1>4, <3>1 DEF SaveLast, n
  <2>1. CASE i = 1 BY <1>3, <1>4, <2>1, TasksApart
  <2>2. CASE i = 2
    <3>1. todo'[2] # Save BY <1>3, TasksApart
    <3> QED BY <1>4, <2>0, <2>2, <3>1
  <2>3. CASE i > 2
    <3>1. i - 1 \in DOMAIN todo /\ todo'[i] = todo[i - 1] BY <1>6, <2>3
    <3>2. todo[i - 1] = Save <=> i - 1 = n BY <1>0, <3>1 DEF SaveLast, n
    <3> QED BY <1>4, <3>1, <3>2
  <2> QED BY <1>4, <2>1, <2>2, <2>3
<1>10. TableFirst(todo')
  <2>1. ASSUME NEW j \in 1..(n + 1) PROVE todo'[j] # Load(Table)
    <3>1. CASE j = 1 \/ j = 2 BY <1>3, <3>1, TasksApart
    <3>2. CASE j > 2 BY <1>1, <1>6, <3>2, InToSet
    <3> QED BY <1>4, <3>1, <3>2
  <2> QED BY <1>3, <2>1 DEF TableFirst
<1> QED BY <1>0, <1>7, <1>8, <1>9, <1>10 DEF Course

LEMMA AskProofCourse ==
  ASSUME IInv, Course, AskProof
  PROVE  Course'
<1> DEFINE b == Now.block
           n == Len(todo)
<1>0. /\ ~Idle /\ Now.op = "prove" /\ tip' = tip /\ done' = done
      /\ todo' = <<Put(Proof(b), b)>> \o Tail(todo) \/ todo' = Tail(todo)
      /\ Shape /\ Ours /\ SaveLast(todo) /\ TableFirst(todo)
      /\ tip \in Tips /\ done[Height[tip]] = NoTip
  BY DEF AskProof, IInv, Course
<1>1. b \in Blocks /\ Now = Prove(b) /\ Load(Table) \notin ToSet(todo)
  BY <1>0, NowIs
<1>2. CASE todo' = Tail(todo) BY <1>0, <1>2, TailCourse
<1>3. CASE todo' = <<Put(Proof(b), b)>> \o Tail(todo)
  <2>1. Put(Proof(b), b) \in Tame
    BY <1>1, FilesOf, TasksOf, LateAsTame DEF Values
  <2>2. /\ Len(todo') = n /\ DOMAIN todo' = 1..n /\ todo'[1] = Put(Proof(b), b)
        /\ \A i \in 1..n : i # 1 => todo'[i] = todo[i]
        /\ Now' = Put(Proof(b), b)
    BY <1>0, <1>3, <2>1, Replaced
  <2>3. n \in Nat \ {0} /\ DOMAIN todo = 1..n /\ todo[1] = Prove(b)
    BY <1>0, <1>1, TodoIs
  <2>4. PICK c \in Blocks : c = b BY <1>1
  <2> HIDE DEF b, n
  <2>5. Ours'
    <3> SUFFICES ASSUME NEW i \in 1..n
                 PROVE  todo'[i] \in Jobs(tip) \/ (i = 1 /\ Now' \in Extra(c))
      BY <1>0, <2>2 DEF Ours
    <3>1. CASE i = 1 BY <2>2, <2>4, <3>1 DEF Extra
    <3>2. CASE i # 1
      <4>1. \A e \in Blocks : Now # Put(Block(e), e) BY <1>1, TasksApart
      <4> QED BY <1>0, <2>2, <2>3, <3>2, <4>1 DEF Ours
    <3> QED BY <3>1, <3>2
  <2>6. ProofNext'
    <3>1. \A e \in Blocks : Now' # Put(Block(e), e) BY <2>2, TasksApart, FilesApart
    <3> QED BY <3>1 DEF ProofNext
  <2>7. SaveLast(todo')
    <3>1. Prove(b) # Save /\ Put(Proof(b), b) # Save BY TasksApart
    <3>2. n # 1 BY <1>0, <2>3, <3>1 DEF SaveLast, n
    <3>3. \A i \in 1..n : i # 1 => (todo[i] = Save <=> i = n)
      BY <1>0, <2>3 DEF SaveLast, n
    <3> QED BY <2>2, <2>3, <3>1, <3>2, <3>3 DEF SaveLast
  <2>8. TableFirst(todo')
    <3>1. ASSUME NEW j \in 1..n PROVE todo'[j] # Load(Table)
      <4>1. CASE j = 1 BY <2>2, <4>1, TasksApart
      <4>2. CASE j # 1 BY <1>1, <2>2, <2>3, <4>2, InToSet
      <4> QED BY <4>1, <4>2
    <3> QED BY <2>2, <3>1 DEF TableFirst
  <2> QED BY <1>0, <2>5, <2>6, <2>7, <2>8 DEF Course
<1> QED BY <1>0, <1>2, <1>3

LEMMA NextCourse == IInv /\ Course /\ [Next]_vars => Course'
<1> SUFFICES ASSUME IInv, Course, [Next]_vars PROVE Course'
  OBVIOUS
<1>0. Shape /\ TypeOK BY DEF IInv
<1>1. ASSUME NEW t \in Tips, Start(t) PROVE Course'
  BY <1>0, <1>1, StartCourse
<1>2. CASE Fill
  <2>1. /\ ~Idle /\ todo' = Tail(todo) /\ tip' = tip
        /\ done' = IF Now = Save THEN [done EXCEPT ![Height[tip]] = tip] ELSE done
    BY <1>2 DEF Fill, Writing
  <2>2. todo' # <<>> => done' = done BY <1>0, <2>1, NowIs
  <2> QED BY <1>0, <2>1, <2>2, TailCourse
<1>3. CASE Open \/ HaveBlock
  BY <1>0, <1>3, TailCourse DEF Open, HaveBlock
<1>4. CASE Download BY <1>4, DownloadCourse
<1>5. CASE AskProof BY <1>5, AskProofCourse
<1>6. CASE Stop \/ Panic BY <1>6 DEF Stop, Panic, Course, Idle
<1>7. CASE Create \/ UNCHANGED vars
  BY <1>7 DEF Create, vars, Course, Idle, Ours, ProofNext, Now
<1> QED BY <1>1, <1>2, <1>3, <1>4, <1>5, <1>6, <1>7 DEF Next

-----------------------------------------------------------------------------
(* What stays done.                                                          *)

LEMMA LoadIs ==
  ASSUME Shape, ~Idle, Now.op = "load"
  PROVE  Now = Load(Now.file)
BY Doing DEF Tame, Tasks, Save, Load

LEMMA GoesOn ==
  ASSUME IInv, Course, Next, ~Idle, ~Idle'
  PROVE  /\ tip' = tip /\ done' = done
         /\ ToSet(Tail(todo)) \subseteq ToSet(todo')
         /\ Load(Table) \in ToSet(todo') => Load(Table) \in ToSet(todo)
<1>0. Shape BY DEF IInv
<1>1. ToSet(todo) = {Now} \cup ToSet(Tail(todo)) BY <1>0, ToSets
<1>2. CASE Fill
  <2>1. todo' = Tail(todo) /\ tip' = tip BY <1>2 DEF Fill
  <2>2. Now # Save BY <1>0, <2>1, NowIs DEF Idle
  <2> QED BY <1>1, <1>2, <2>1, <2>2 DEF Fill
<1>3. CASE Open \/ HaveBlock BY <1>1, <1>3 DEF Open, HaveBlock
<1>4. CASE Download
  <2> DEFINE b == Now.block
  <2>1. b \in Blocks BY <1>0, <1>4, NowIs DEF Download
  <2>2. Put(Block(b), b) \in Tame /\ Prove(b) \in Tame
    BY <2>1, FilesOf, TasksOf, LateAsTame DEF Values
  <2>3. ToSet(todo') = {Put(Block(b), b), Prove(b)} \cup ToSet(Tail(todo))
    BY <1>0, <1>4, <2>2, Pushed DEF Download
  <2>4. Load(Table) # Put(Block(b), b) /\ Load(Table) # Prove(b) BY TasksApart
  <2> QED BY <1>1, <1>4, <2>3, <2>4 DEF Download
<1>5. CASE AskProof
  <2> DEFINE b == Now.block
  <2>1. b \in Blocks BY <1>0, <1>5, NowIs DEF AskProof
  <2>2. Put(Proof(b), b) \in Tame
    BY <2>1, FilesOf, TasksOf, LateAsTame DEF Values
  <2>3. CASE todo' = Tail(todo) BY <1>1, <1>5, <2>3 DEF AskProof
  <2>4. CASE todo' = <<Put(Proof(b), b)>> \o Tail(todo)
    <3>1. ToSet(todo') = {Put(Proof(b), b)} \cup ToSet(Tail(todo))
      BY <1>0, <2>2, <2>4, Replaced
    <3>2. Load(Table) # Put(Proof(b), b) BY TasksApart
    <3> QED BY <1>1, <1>5, <3>1, <3>2 DEF AskProof
  <2> QED BY <1>5, <2>3, <2>4 DEF AskProof
<1>6. CASE Create BY <1>1, <1>6 DEF Create
<1>7. CASE Stop \/ Panic BY <1>7 DEF Stop, Panic, Idle
<1>8. ASSUME NEW t \in Tips, Start(t) PROVE FALSE BY <1>8 DEF Start
<1> QED BY <1>2, <1>3, <1>4, <1>5, <1>6, <1>7, <1>8 DEF Next

(* The task that comes next is not one for a proof, unless its block was     *)
(* downloaded just before.                                                   *)
LEMMA NextNow ==
  ASSUME IInv, Course, Next, ~Idle', NEW b \in Blocks, Now' \in {Prove(b), Put(Proof(b), b)}
  PROVE  ~Idle /\ \/ Now' = Now
                  \/ Fill /\ Now = Put(Block(b), b)
                  \/ AskProof /\ Now = Prove(b) /\ Now' = Put(Proof(b), b)
<1>0. Shape /\ TypeOK BY DEF IInv
<1>1. Now' \in Extra(b) BY DEF Extra
<1>2. ASSUME NEW t \in Tips, Start(t) PROVE FALSE
  BY <1>0, <1>1, <1>2, StartCourse, ExtraApart
<1>3. ASSUME ~Idle, todo' = Tail(todo)
      PROVE  Now' = Prove(b) /\ Now = Put(Block(b), b)
  <2>1. \/ Now' \in Jobs(tip)
        \/ \E c \in Blocks : Now = Put(Block(c), c) /\ Now' = Prove(c)
    BY <1>0, <1>3, NextTask DEF Course, Idle
  <2>2. Now' \notin Jobs(tip) BY <1>1, ExtraApart
  <2> QED BY <2>1, <2>2, TasksApart
<1>4. CASE Fill BY <1>3, <1>4 DEF Fill, Writing
<1>5. CASE Open \/ HaveBlock
  <2>1. ~Idle /\ todo' = Tail(todo) /\ Now.op \in {"load", "fetch"}
    BY <1>5 DEF Open, HaveBlock
  <2> QED BY <1>3, <2>1, TasksApart
<1>6. CASE Download
  <2> DEFINE c == Now.block
  <2>1. ~Idle /\ c \in Blocks BY <1>0, <1>6, NowIs DEF Download
  <2>2. Put(Block(c), c) \in Tame /\ Prove(c) \in Tame
    BY <2>1, FilesOf, TasksOf, LateAsTame DEF Values
  <2>3. Now' = Put(Block(c), c) BY <1>0, <1>6, <2>1, <2>2, Pushed DEF Download
  <2> QED BY <2>3, TasksApart, FilesApart
<1>7. CASE AskProof
  <2> DEFINE c == Now.block
  <2>1. ~Idle /\ c \in Blocks /\ Now = Prove(c) BY <1>0, <1>7, NowIs DEF AskProof
  <2>2. Put(Proof(c), c) \in Tame
    BY <2>1, FilesOf, TasksOf, LateAsTame DEF Values
  <2>3. CASE todo' = Tail(todo) BY <1>3, <2>1, <2>3, TasksApart
  <2>4. CASE todo' = <<Put(Proof(c), c)>> \o Tail(todo)
    <3>1. Now' = Put(Proof(c), c) BY <1>0, <2>1, <2>2, <2>4, Replaced
    <3>2. Now' = Put(Proof(b), b) /\ Proof(b) = Proof(c) BY <3>1, TasksApart
    <3>3. b = c BY <3>2, FilesApart
    <3> QED BY <1>7, <2>1, <3>2, <3>3
  <2> QED BY <1>7, <2>3, <2>4 DEF AskProof
<1>8. CASE Create BY <1>8 DEF Create, Writing, Now
<1>9. CASE Stop \/ Panic BY <1>9 DEF Stop, Panic, Idle
<1> QED BY <1>2, <1>4, <1>5, <1>6, <1>7, <1>8, <1>9 DEF Next

(* A block that is there, its proof asked for, stays so.                     *)
LEMMA StaysSettled ==
  ASSUME IInv, Course, Next, NEW b \in Blocks, Settled(b)
  PROVE  /\ Settled(b)'
         /\ disk'[Proof(b)] = disk[Proof(b)] /\ refused \subseteq refused'
         /\ Proof(b) \in cut => Proof(b) \in cut'
<1>0. Shape /\ TypeOK /\ Fresh /\ disk[Block(b)] = b BY DEF IInv, Settled
<1>1. disk'[Block(b)] = b BY <1>0, BlockStays
<1>2. ~Idle => Now # Prove(b) /\ Now # Put(Proof(b), b) BY DEF Settled
<1>3. ASSUME ~Idle', Now' \in {Prove(b), Put(Proof(b), b)} PROVE FALSE
  <2>1. ~Idle /\ Now = Put(Block(b), b) BY <1>2, <1>3, NextNow
  <2>2. todo # <<>> /\ Now.op = "put" /\ Now.file = Block(b) BY <2>1, TasksApart DEF Idle
  <2>3. disk[Block(b)] \in {Absent, Torn} BY <1>0, <2>2 DEF Fresh
  <2> QED BY <1>0, <2>3, Distinct DEF Values
<1>4. ASSUME Writing PROVE Target # Proof(b)
  <2>1. ~Idle BY <1>4 DEF Writing
  <2> QED BY <1>0, <1>2, <1>4, <2>1, TargetAt
<1>5. disk'[Proof(b)] = disk[Proof(b)]
  <2>1. Proof(b) \in Files BY FilesOf
  <2> QED BY <1>4, <2>1, Elsewhere
<1>6. refused \subseteq refused'
  BY DEF Next, Start, Create, Fill, Open, HaveBlock, Download, AskProof, Stop, Panic
<1>7. Proof(b) \in cut => Proof(b) \in cut'
  BY <1>4 DEF Next, Start, Create, Fill, Open, HaveBlock, Download, AskProof, Stop, Panic
<1>8. Settled(b)' BY <1>1, <1>3 DEF Settled
<1> QED BY <1>5, <1>6, <1>7, <1>8

(* What a Fill wrote.                                                        *)
LEMMA FillWrites ==
  ASSUME IInv, Fill
  PROVE  ~Idle /\ Writing /\ todo' = Tail(todo) /\ disk'[Target] = Content
         /\ Target \in Files
<1>1. TypeOK /\ Shape BY DEF IInv
<1>2. Writing BY DEF Fill
<1>3. Target \in Files BY <1>1, <1>2, WritingIs, FilesOf
<1> QED BY <1>1, <1>2, <1>3 DEF Fill, TypeOK, Writing

LEMMA NextAnswersAre == IInv /\ Course /\ AnswersAre /\ [Next]_vars => AnswersAre'
<1> SUFFICES ASSUME IInv, Course, AnswersAre, Next PROVE AnswersAre'
  BY DEF AnswersAre, vars
<1> SUFFICES ASSUME NEW a \in Answers, NEW h \in Heights
             PROVE  disk'[<<a, h>>] \in {Absent, Torn} \cup Tips
  BY DEF AnswersAre
<1>0. /\ <<a, h>> \in Files /\ disk[<<a, h>>] \in {Absent, Torn} \cup Tips
      /\ Shape /\ TypeOK
  BY FilesOf DEF AnswersAre, IInv
<1>1. CASE ~(Writing /\ Target = <<a, h>>) BY <1>0, <1>1, Elsewhere
<1>2. CASE Writing /\ Target = <<a, h>>
  <2>1. Content = tip /\ tip \in Tips
    <3>1. ~Idle BY <1>2 DEF Writing
    <3>2. tip \in Tips BY <3>1 DEF Course
    <3>3. Content = tip BY <1>0, <1>2, TargetAt
    <3> QED BY <3>2, <3>3
  <2>2. CASE Fill BY <1>2, <2>1, <2>2, FillWrites
  <2>3. CASE Create BY <1>0, <1>2, <2>3 DEF Create, TypeOK
  <2>4. CASE ~Create /\ ~Fill
    BY <1>0, <2>4 DEF Next, Start, Open, HaveBlock, Download, AskProof, Stop, Panic
  <2> QED BY <2>2, <2>3, <2>4
<1> QED BY <1>1, <1>2

(* A file that was written, or is to be.                                     *)
LEMMA Carried ==
  ASSUME IInv, Course, Next, ~Idle, ~Idle', NEW f \in Files, NEW v,
         Writing /\ Target = f => Now = Put(f, v),
         Put(f, v) \in ToSet(todo) \/ disk[f] = v
  PROVE  Put(f, v) \in ToSet(todo') \/ disk'[f] = v
<1>0. Shape /\ ToSet(todo) = {Now} \cup ToSet(Tail(todo))
  BY ToSets DEF IInv
<1>1. ToSet(Tail(todo)) \subseteq ToSet(todo') BY GoesOn
<1>2. CASE Now = Put(f, v)
  <2>1. Now.op = "put" /\ Writing /\ Target = f /\ Content = v
    BY <1>2, TasksApart DEF Target, Content, Writing
  <2>2. CASE Fill BY <2>1, <2>2, FillWrites
  <2>3. CASE Create BY <1>0, <1>2, <2>3 DEF Create
  <2>4. CASE ~Fill /\ ~Create
    BY <2>1, <2>4 DEF Next, Start, Open, HaveBlock, Download, AskProof, Stop, Panic, Idle
  <2> QED BY <2>2, <2>3, <2>4
<1>3. CASE Now # Put(f, v)
  <2>1. Put(f, v) \in ToSet(todo) => Put(f, v) \in ToSet(todo') BY <1>0, <1>1, <1>3
  <2>2. disk'[f] = disk[f] BY <1>3, Elsewhere
  <2> QED BY <2>1, <2>2
<1> QED BY <1>2, <1>3

LEMMA NextWritten == IInv /\ Course /\ Written /\ [Next]_vars => Written'
<1> SUFFICES ASSUME IInv, Course, Written, Next, ~Idle' PROVE Written'
  BY DEF Written, vars, Idle
<1>1. ASSUME NEW t \in Tips, Start(t) PROVE Written'
  BY <1>1, StartCourse DEF IInv
<1>2. CASE ~Idle
  <2> DEFINE h == Height[tip]
  <2>0. Shape /\ tip \in Tips /\ tip' = tip BY <1>2, GoesOn DEF IInv, Course
  <2>1. h \in Heights /\ Epoch[tip] \in Ledgers /\ Snarked[tip] \in Ledgers
    BY <2>0, TipHas
  <2> HIDE DEF h
  <2>2. ASSUME NEW a \in Answers
        PROVE  Put(<<a, h>>, tip) \in ToSet(todo') \/ disk'[<<a, h>>] = tip
    <3> DEFINE f == <<a, h>>
    <3>1. f \in Files BY <2>1, FilesOf
    <3>2. Writing /\ Target = f => Now = Put(f, tip) BY <2>0, TargetAt
    <3>3. Put(f, tip) \in ToSet(todo) \/ disk[f] = tip BY <1>2 DEF Written, h
    <3> HIDE DEF f
    <3>4. Put(f, tip) \in ToSet(todo') \/ disk'[f] = tip BY <1>2, <3>1, <3>2, <3>3, Carried
    <3> QED BY <3>4 DEF f
  <2>3. ASSUME NEW l \in {Epoch[tip], Snarked[tip]}
        PROVE  Put(<<"ledgers", h, l>>, l) \in ToSet(todo') \/ disk'[<<"ledgers", h, l>>] = l
    <3> DEFINE f == <<"ledgers", h, l>>
    <3>1. f \in Files BY <2>1, FilesOf
    <3>2. Writing /\ Target = f => Now = Put(f, l) BY <2>0, TargetAt
    <3>3. Put(f, l) \in ToSet(todo) \/ disk[f] = l BY <1>2 DEF Written, h
    <3> HIDE DEF f
    <3>4. Put(f, l) \in ToSet(todo') \/ disk'[f] = l BY <1>2, <3>1, <3>2, <3>3, Carried
    <3> QED BY <3>4 DEF f
  <2> QED BY <2>0, <2>2, <2>3 DEF Written, h
<1>3. CASE Idle
  BY <1>1, <1>3 DEF Next, Create, Fill, Open, HaveBlock, Download, AskProof, Stop, Panic, Writing
<1> QED BY <1>2, <1>3

(* A block of the chain that was fetched, and is in the table.               *)
Held(b) == b \in table /\ (disk[Block(b)] = b \/ Now = Put(Block(b), b))

LEMMA StaysHeld ==
  ASSUME IInv, Course, Next, ~Idle, ~Idle', NEW b \in Blocks,
         Load(Table) \in ToSet(todo) => Fetch(b) \in ToSet(todo),
         Fetch(b) \in ToSet(todo) \/ Held(b)
  PROVE  Fetch(b) \in ToSet(todo') \/ Held(b)'
<1>0. Shape /\ TypeOK /\ ToSet(todo) = {Now} \cup ToSet(Tail(todo))
  BY ToSets DEF IInv
<1>1. ToSet(Tail(todo)) \subseteq ToSet(todo') BY GoesOn
<1>2. CASE Now = Fetch(b)
  <2>1. Now.op = "fetch" /\ Now.block = b BY <1>2, TasksApart
  <2>2. CASE HaveBlock BY <2>1, <2>2 DEF HaveBlock, Held
  <2>3. CASE Download
    <3>1. Put(Block(b), b) \in Tame /\ Prove(b) \in Tame
      BY FilesOf, TasksOf, LateAsTame DEF Values
    <3>2. todo' = <<Put(Block(b), b), Prove(b)>> \o Tail(todo) BY <2>1, <2>3 DEF Download
    <3>3. Now' = Put(Block(b), b) BY <1>0, <3>1, <3>2, Pushed
    <3> QED BY <2>1, <2>3, <3>3 DEF Download, Held
  <2>4. CASE ~HaveBlock /\ ~Download
    BY <2>1, <2>4 DEF Next, Start, Create, Fill, Open, AskProof, Stop, Panic, Writing, Idle
  <2> QED BY <2>2, <2>3, <2>4
<1>3. CASE Now # Fetch(b) /\ Fetch(b) \in ToSet(todo) BY <1>0, <1>1, <1>3
<1>4. CASE Fetch(b) \notin ToSet(todo)
  <2>1. Held(b) /\ Load(Table) \notin ToSet(todo) BY <1>4
  <2>2. Now # Load(Table) BY <1>0, <2>1
  <2>3. table \subseteq table'
    <3>1. CASE Open
      <4>1. Now = Load(Now.file) BY <1>0, <3>1, LoadIs DEF Open
      <4> QED BY <2>2, <3>1, <4>1 DEF Open
    <3>2. CASE ~Open
      BY <3>2 DEF Next, Start, Create, Fill, HaveBlock, Download, AskProof, Stop, Panic
    <3> QED BY <3>1, <3>2
  <2>4. CASE disk[Block(b)] = b BY <2>1, <2>3, <2>4, BlockStays DEF Held
  <2>5. CASE Now = Put(Block(b), b)
    <3>1. Now.op = "put" /\ Target = Block(b) /\ Content = b
      BY <2>5, TasksApart DEF Target, Content
    <3>2. CASE Create BY <2>1, <2>3, <2>5, <3>2 DEF Create, Held, Now
    <3>3. CASE Fill
      <4>1. disk'[Block(b)] = b BY <3>1, <3>3, FillWrites
      <4> QED BY <2>1, <2>3, <4>1 DEF Held
    <3>4. CASE ~Create /\ ~Fill
      BY <3>1, <3>4 DEF Next, Start, Open, HaveBlock, Download, AskProof, Stop, Panic, Idle
    <3> QED BY <3>2, <3>3, <3>4
  <2> QED BY <2>1, <2>4, <2>5 DEF Held
<1> QED BY <1>2, <1>3, <1>4

LEMMA NextGathered ==
  IInv /\ Course /\ Gathered /\ Recorded /\ [Next]_vars => Gathered'
<1> SUFFICES ASSUME IInv, Course, Gathered, Recorded, Next, ~Idle' PROVE Gathered'
  BY DEF Gathered, vars, Idle, Now
<1>1. ASSUME NEW t \in Tips, Start(t) PROVE Gathered'
  BY <1>1, StartCourse DEF IInv
<1>2. CASE Idle
  BY <1>1, <1>2 DEF Next, Create, Fill, Open, HaveBlock, Download, AskProof, Stop, Panic, Writing
<1>3. CASE ~Idle
  <2>0. /\ Shape /\ TypeOK /\ tip \in Tips /\ tip' = tip /\ done' = done
        /\ ToSet(todo) = {Now} \cup ToSet(Tail(todo))
        /\ ToSet(Tail(todo)) \subseteq ToSet(todo')
        /\ Load(Table) \in ToSet(todo') => Load(Table) \in ToSet(todo)
    BY <1>3, GoesOn, ToSets DEF IInv, Course
  <2>1. ToSet(Chain[tip]) \subseteq Blocks
    <3>1. Chain[tip] \in Seq(Blocks) BY <2>0, TipHas
    <3> QED BY <3>1, ElementOfSeq, LenProperties DEF ToSet
  <2>2. ASSUME NEW b \in ToSet(Chain[tip])
        PROVE  Fetch(b) \in ToSet(todo') \/ Held(b)'
    <3>1. b \in Blocks BY <2>1
    <3>2. Load(Table) \in ToSet(todo) => Fetch(b) \in ToSet(todo) BY <1>3 DEF Gathered
    <3>3. Fetch(b) \in ToSet(todo) \/ Held(b) BY <1>3 DEF Gathered, Held
    <3> QED BY <1>3, <3>1, <3>2, <3>3, StaysHeld
  <2>3. ASSUME Load(Table) \in ToSet(todo'), NEW b \in ToSet(Chain[tip])
        PROVE  Fetch(b) \in ToSet(todo')
    <3>1. Fetch(b) \in ToSet(todo) /\ Load(Table) \in ToSet(todo)
      BY <1>3, <2>0, <2>3 DEF Gathered
    <3>2. Now # Fetch(b) BY <1>3, <2>0, <3>1, NowIs, TasksApart
    <3> QED BY <2>0, <3>1, <3>2
  <2>4. ASSUME Load(Table) \notin ToSet(todo'), NEW h \in Heights, done[h] # NoTip
        PROVE  ToSet(Chain[done[h]]) \subseteq table'
    <3>1. CASE Load(Table) \in ToSet(todo)
      <4>1. Now = Load(Table) BY <2>0, <2>4, <3>1
      <4>2. Now.op = "load" /\ Now.file = Table BY <4>1, TasksApart
      <4>3. Open
        <5>1. ~Create /\ ~Fill BY <4>2 DEF Create, Fill, Writing
        <5>2. ~HaveBlock /\ ~Download /\ ~AskProof
          BY <4>2 DEF HaveBlock, Download, AskProof
        <5>3. ~Stop /\ ~Panic BY DEF Stop, Panic, Idle
        <5>4. \A t \in Tips : ~Start(t) BY <1>3 DEF Start
        <5> QED BY <5>1, <5>2, <5>3, <5>4 DEF Next
      <4>4. disk[Table] # Torn /\ disk[Table] # Absent
            /\ ToSet(Chain[done[h]]) \subseteq disk[Table]
        BY <2>4, <4>2, <4>3 DEF Recorded, Open
      <4> QED BY <4>2, <4>3, <4>4 DEF Open
    <3>2. CASE Load(Table) \notin ToSet(todo)
      <4>1. ToSet(Chain[done[h]]) \subseteq table BY <1>3, <2>4, <3>2 DEF Gathered
      <4>2. Now # Load(Table) BY <2>0, <3>2
      <4>3. table \subseteq table'
        <5>1. CASE Open
          <6>1. Now = Load(Now.file) BY <2>0, <5>1, LoadIs DEF Open
          <6> QED BY <4>2, <5>1, <6>1 DEF Open
        <5>2. CASE ~Open
          BY <1>3, <5>2 DEF Next, Start, Create, Fill, HaveBlock, Download, AskProof, Stop, Panic
        <5> QED BY <5>1, <5>2
      <4> QED BY <4>1, <4>3
    <3> QED BY <3>1, <3>2
  <2> QED BY <2>0, <2>2, <2>3, <2>4 DEF Gathered, Held
<1> QED BY <1>2, <1>3

LEMMA NextAsked == IInv /\ Course /\ Asked /\ [Next]_vars => Asked'
<1> SUFFICES ASSUME IInv, Course, Asked, Next, NEW b \in Blocks, Settled(b)'
             PROVE  disk'[Proof(b)] = b \/ b \in refused' \/ Proof(b) \in cut'
  BY DEF Asked, Settled, vars, Idle, Now
<1>0. Shape /\ TypeOK BY DEF IInv
<1>1. CASE Settled(b) BY <1>1, StaysSettled DEF Asked
<1>2. CASE disk[Block(b)] # b
  <2>1. disk'[Block(b)] = b /\ Block(b) \in Files BY FilesOf DEF Settled
  <2>2. Writing /\ Target = Block(b) BY <1>2, <2>1, Elsewhere
  <2>3. Now = Put(Block(b), b) /\ ~Idle BY <1>0, <2>2, TargetAt DEF Writing
  <2>4. ~Create
    <3>1. Create => disk'[Block(b)] = Torn BY <1>0, <2>1, <2>2 DEF Create, TypeOK
    <3> QED BY <2>1, <3>1, Distinct DEF Values
  <2>5. Fill
    BY <1>2, <2>1, <2>4 DEF Next, Start, Open, HaveBlock, Download, AskProof, Stop, Panic
  <2>6. Len(todo) >= 2 /\ todo[2] = Prove(b) BY <2>3 DEF Course, ProofNext
  <2>7. todo' # <<>>
    <3>1. Len(Tail(todo)) = Len(todo) - 1 /\ Len(todo) \in Nat BY <1>0, <2>3, TodoIs
    <3>2. Len(todo') >= 1 /\ Len(<<>>) = 0 BY <2>5, <2>6, <3>1 DEF Fill
    <3> QED BY <3>2
  <2>8. Now' = todo[2]
    BY <1>0, <2>3, <2>5, <2>7, NextTask DEF Fill, Course
  <2> QED BY <2>6, <2>7, <2>8 DEF Settled, Idle
<1>3. CASE ~Idle /\ Now = Put(Proof(b), b)
  <2>1. Now.op = "put" /\ Writing /\ Target = Proof(b) /\ Content = b
    BY <1>3, TasksApart DEF Target, Content, Writing
  <2>2. CASE Fill BY <2>1, <2>2, FillWrites
  <2>3. CASE Create BY <1>3, <2>3 DEF Create, Settled, Now, Idle
  <2>4. CASE Stop
    <3>1. Target[1] = "proof" BY <2>1 DEF Proof
    <3>2. Undone = {Target} BY <2>1, <3>1 DEF Undone
    <3> QED BY <2>1, <2>4, <3>2 DEF Stop
  <2>5. CASE ~Fill /\ ~Create /\ ~Stop
    BY <1>3, <2>1, <2>5 DEF Next, Start, Open, HaveBlock, Download, AskProof, Panic
  <2> QED BY <2>2, <2>3, <2>4, <2>5
<1>4. CASE ~Idle /\ Now = Prove(b)
  <2>1. Now.op = "prove" /\ Now.block = b BY <1>4, TasksApart
  <2>2. CASE AskProof
    <3>1. CASE refused' = refused \cup {Now.block} BY <2>1, <3>1
    <3>2. CASE todo' = <<Put(Proof(b), b)>> \o Tail(todo)
      <4>1. Put(Proof(b), b) \in Tame BY FilesOf, TasksOf, LateAsTame DEF Values
      <4>2. Now' = Put(Proof(b), b) /\ ~Idle' BY <1>0, <1>4, <3>2, <4>1, Replaced
      <4> QED BY <4>2 DEF Settled
    <3> QED BY <2>1, <2>2, <3>1, <3>2 DEF AskProof
  <2>3. CASE Stop
    <3>1. ~Writing BY <2>1 DEF Writing
    <3>2. Undone = {Proof(b)} BY <2>1, <3>1 DEF Undone
    <3> QED BY <2>3, <3>2 DEF Stop
  <2>4. CASE ~AskProof /\ ~Stop
    BY <1>4, <2>1, <2>4 DEF Next, Start, Create, Fill, Open, HaveBlock, Download, Panic, Writing
  <2> QED BY <2>2, <2>3, <2>4
<1> QED BY <1>1, <1>2, <1>3, <1>4 DEF Settled

-----------------------------------------------------------------------------
(* A finished recording.                                                     *)

IsRecorded(h, t) ==
  /\ Height[t] = h
  /\ \A a \in Answers : disk[<<a, h>>] = t
  /\ \A l \in {Epoch[t], Snarked[t]} : disk[<<"ledgers", h, l>>] = l
  /\ disk[Table] # Absent
  /\ disk[Table] = Torn \/ ToSet(Chain[t]) \subseteq disk[Table]
  /\ \A b \in ToSet(Chain[t]) : Settled(b)

LEMMA RecordedIs == Recorded <=> \A h \in Heights : done[h] # NoTip => IsRecorded(h, done[h])
BY DEF Recorded, IsRecorded

LEMMA ChainBlocks == \A t \in Tips : ToSet(Chain[t]) \subseteq Blocks
<1> SUFFICES ASSUME NEW t \in Tips PROVE ToSet(Chain[t]) \subseteq Blocks
  OBVIOUS
<1>1. Chain[t] \in Seq(Blocks) BY TipHas
<1> QED BY <1>1, ElementOfSeq, LenProperties DEF ToSet

(* It stays one while other heights are recorded.                            *)
LEMMA StaysRecorded ==
  ASSUME IInv, Course, Gathered, Next, NEW h \in Heights, done[h] # NoTip,
         IsRecorded(h, done[h])
  PROVE  IsRecorded(h, done[h])'  \/ done'[h] # done[h]
<1> DEFINE t == done[h]
<1> SUFFICES ASSUME done'[h] = t PROVE IsRecorded(h, t)'
  OBVIOUS
<1>0. Shape /\ TypeOK /\ t \in Tips /\ IsRecorded(h, t) BY DEF IInv, TypeOK
<1>1. ~Idle => h # Height[tip] BY DEF Course
<1>2. Writing => ~Idle BY DEF Writing
<1> HIDE DEF t
<1>3. ASSUME NEW a \in Answers PROVE disk'[<<a, h>>] = t
  <2>1. <<a, h>> \in Files BY FilesOf
  <2>2. ~(Writing /\ Target = <<a, h>>) BY <1>0, <1>1, <1>2, TargetAt
  <2>3. disk'[<<a, h>>] = disk[<<a, h>>] BY <2>1, <2>2, Elsewhere
  <2> QED BY <1>0, <2>3 DEF IsRecorded
<1>4. ASSUME NEW l \in {Epoch[t], Snarked[t]} PROVE disk'[<<"ledgers", h, l>>] = l
  <2>1. l \in Ledgers BY <1>0, TipHas
  <2>2. <<"ledgers", h, l>> \in Files BY <2>1, FilesOf
  <2>3. ~(Writing /\ Target = <<"ledgers", h, l>>) BY <1>0, <1>1, <1>2, TargetAt
  <2>4. disk'[<<"ledgers", h, l>>] = disk[<<"ledgers", h, l>>] BY <2>2, <2>3, Elsewhere
  <2> QED BY <1>0, <2>4 DEF IsRecorded
<1>5. /\ disk'[Table] # Absent
      /\ disk'[Table] = Torn \/ ToSet(Chain[t]) \subseteq disk'[Table]
  <2>1. CASE ~(Writing /\ Target = Table)
    <3>1. disk'[Table] = disk[Table] BY <2>1, FilesOf, Elsewhere
    <3> QED BY <1>0, <3>1 DEF IsRecorded
  <2>2. CASE Writing /\ Target = Table
    <3>1. Now = Save /\ Content = table /\ ~Idle /\ Now.op = "save"
      BY <1>0, <1>2, <2>2, TargetAt, TasksApart
    <3>2. Load(Table) \notin ToSet(todo) BY <1>0, <3>1, NowIs
    <3>3. ToSet(Chain[t]) \subseteq table BY <3>1, <3>2 DEF Gathered, t
    <3>4. table \subseteq Blocks BY <1>0 DEF TypeOK
    <3>5. CASE Fill
      <4>1. disk'[Table] = table BY <2>2, <3>1, <3>5, FillWrites
      <4> QED BY <3>3, <3>4, <4>1, Distinct
    <3>6. CASE Create
      <4>1. disk'[Table] = Torn BY <1>0, <2>2, <3>6, FilesOf DEF Create, TypeOK
      <4> QED BY <4>1, Distinct
    <3>7. CASE ~Fill /\ ~Create
      <4>1. disk' = disk
        BY <3>7 DEF Next, Start, Open, HaveBlock, Download, AskProof, Stop, Panic
      <4> QED BY <1>0, <4>1 DEF IsRecorded
    <3> QED BY <3>5, <3>6, <3>7
  <2> QED BY <2>1, <2>2
<1>6. ASSUME NEW b \in ToSet(Chain[t]) PROVE Settled(b)'
  <2>1. b \in Blocks /\ Settled(b) BY <1>0, ChainBlocks DEF IsRecorded
  <2> QED BY <2>1, StaysSettled
<1>7. Height[t] = h BY <1>0 DEF IsRecorded
<1>8. /\ \A a \in Answers : disk'[<<a, h>>] = t
      /\ \A l \in {Epoch[t], Snarked[t]} : disk'[<<"ledgers", h, l>>] = l
      /\ \A b \in ToSet(Chain[t]) : Settled(b)'
  BY <1>3, <1>4, <1>6
<1>9. t' = t BY DEF t
<1> QED BY <1>5, <1>7, <1>8, <1>9 DEF IsRecorded

LEMMA NextRecorded ==
  IInv /\ Course /\ Written /\ Gathered /\ Recorded /\ [Next]_vars => Recorded'
<1> SUFFICES ASSUME IInv, Course, Written, Gathered, Recorded, Next,
                    NEW h \in Heights, done'[h] # NoTip
             PROVE  IsRecorded(h, done[h])' 
  BY RecordedIs DEF IsRecorded, Recorded, Settled, Idle, Now, vars
<1>0. Shape /\ TypeOK BY DEF IInv
<1>1. CASE done'[h] = done[h]
  <2>1. done[h] # NoTip /\ IsRecorded(h, done[h]) BY <1>1, RecordedIs
  <2> QED BY <1>1, <2>1, StaysRecorded
<1>2. CASE done'[h] # done[h]
  <2>1. Fill /\ Now = Save /\ h = Height[tip] /\ done'[h] = tip
    BY <1>0, <1>2 DEF Next, Start, Create, Fill, Open, HaveBlock, Download, AskProof, Stop,
                      Panic, TypeOK
  <2>2. ~Idle /\ Writing /\ todo' = Tail(todo) BY <2>1, FillWrites
  <2>3. tip \in Tips /\ Tail(todo) = <<>> /\ Load(Table) \notin ToSet(todo)
    <3>1. Now.op = "save" BY <2>1, TasksApart
    <3> QED BY <1>0, <2>1, <2>2, <3>1, NowIs
  <2>4. ToSet(todo) = {Save}
    <3>1. ToSet(<<>>) = {} BY DEF ToSet
    <3> QED BY <1>0, <2>1, <2>2, <2>3, <3>1, ToSets
  <2>5. Target = Table /\ Content = table BY <2>1 DEF Target, Content
  <2>6. disk'[Table] = table BY <2>1, <2>5, FillWrites
  <2>7. Idle' BY <2>2, <2>3 DEF Idle
  <2>8. ASSUME NEW a \in Answers PROVE disk'[<<a, h>>] = tip
    <3>1. <<a, h>> \in Files /\ <<a, h>> # Table BY FilesOf
    <3>2. disk'[<<a, h>>] = disk[<<a, h>>] BY <2>5, <3>1, Elsewhere
    <3>3. Put(<<a, h>>, tip) \notin ToSet(todo) BY <2>4, TasksApart
    <3> QED BY <2>1, <2>2, <3>2, <3>3 DEF Written
  <2>9. ASSUME NEW l \in {Epoch[tip], Snarked[tip]} PROVE disk'[<<"ledgers", h, l>>] = l
    <3>0. l \in Ledgers BY <2>3, TipHas
    <3>1. <<"ledgers", h, l>> \in Files /\ <<"ledgers", h, l>> # Table BY <3>0, FilesOf
    <3>2. disk'[<<"ledgers", h, l>>] = disk[<<"ledgers", h, l>>] BY <2>5, <3>1, Elsewhere
    <3>3. Put(<<"ledgers", h, l>>, l) \notin ToSet(todo) BY <2>4, TasksApart
    <3> QED BY <2>1, <2>2, <3>2, <3>3 DEF Written
  <2>10. ASSUME NEW b \in ToSet(Chain[tip]) PROVE b \in table /\ Settled(b)'
    <3>1. Fetch(b) \notin ToSet(todo) /\ Now # Put(Block(b), b) BY <2>1, <2>4, TasksApart
    <3>2. b \in table /\ disk[Block(b)] = b BY <2>2, <3>1 DEF Gathered
    <3>3. b \in Blocks BY <2>3, ChainBlocks
    <3>4. disk'[Block(b)] = b BY <3>2, <3>3, BlockStays
    <3> QED BY <2>7, <3>2, <3>4 DEF Settled
  <2>11. table # Absent BY <1>0, Distinct DEF TypeOK
  <2>12. /\ \A a \in Answers : disk'[<<a, h>>] = tip
         /\ \A l \in {Epoch[tip], Snarked[tip]} : disk'[<<"ledgers", h, l>>] = l
         /\ \A b \in ToSet(Chain[tip]) : b \in table /\ Settled(b)'
    BY <2>8, <2>9, <2>10
  <2>13. h = Height[tip] /\ done'[h] = tip BY <2>1
  <2> QED BY <2>6, <2>11, <2>12, <2>13 DEF IsRecorded
<1> QED BY <1>1, <1>2

LEMMA InitRInv == Init => RInv
<1> SUFFICES ASSUME Init PROVE RInv
  OBVIOUS
<1>1. Idle BY DEF Init, Idle
<1>2. Course /\ Written /\ Gathered BY <1>1 DEF Course, Written, Gathered
<1>3. AnswersAre BY FilesOf DEF Init, AnswersAre
<1>4. Asked
  <2>1. \A b \in Blocks : disk[Block(b)] = Absent /\ Absent # b
    BY FilesOf, Distinct DEF Init, Values
  <2> QED BY <2>1 DEF Asked, Settled
<1>5. Recorded BY DEF Init, Recorded
<1> QED BY <1>2, <1>3, <1>4, <1>5 DEF RInv

LEMMA NextRInv == IInv /\ RInv /\ [Next]_vars => RInv'
BY NextCourse, NextWritten, NextGathered, NextAnswersAre, NextAsked, NextRecorded DEF RInv

LEMMA RecordInvariant == Spec => []RInv
<1>1. Init => RInv BY InitRInv
<1>2. IInv /\ RInv /\ [Next]_vars => RInv' BY NextRInv
<1> QED BY <1>1, <1>2, Invariant, PTL DEF Spec

(* A recording that was finished can be replayed and bootstrapped from, its  *)
(* answers all of one tip, whatever recordings of other heights follow it or *)
(* stop half-way, unless one is stopped in the table of blocks               *)
(* (record.rs:43-219, replay.rs:25-48, bootstrap.rs:38-91).                  *)
THEOREM Replays == Spec => []Replayable
<1>1. IInv /\ RInv => Replayable
  <2> SUFFICES ASSUME IInv, RInv, NEW h \in Heights, done[h] # NoTip, Whole(Table)
               PROVE  LET t == done[h]
                      IN  /\ ReplayStarts(h) \/ \E l \in Ledgers : <<"ledgers", h, l>> \in cut
                          /\ \A a \in Answers : disk[<<a, h>>] = t
                          /\ ServesLedger(h, Epoch[t]) /\ ServesLedger(h, Snarked[t])
                          /\ AgainWalks(h, t)
    BY DEF Replayable
  <2> DEFINE t == done[h]
  <2>0. /\ t \in Tips /\ IsRecorded(h, t) /\ TypeOK /\ Shape /\ Course /\ TornByStop
        /\ t \notin {Absent, Torn}
    BY RecordedIs, Distinct DEF IInv, RInv, TypeOK, Values
  <2>a. ~Idle => h # Height[tip] BY <2>0 DEF Course
  <2> HIDE DEF t
  <2>1. \A a \in Answers : disk[<<a, h>>] = t /\ Whole(<<a, h>>)
    BY <2>0 DEF IsRecorded, Whole
  <2>2. \A l \in {Epoch[t], Snarked[t]} : disk[<<"ledgers", h, l>>] = l /\ Whole(<<"ledgers", h, l>>)
    <3>1. \A l \in {Epoch[t], Snarked[t]} : l \notin {Absent, Torn}
      BY <2>0, TipHas, Distinct DEF Values
    <3> QED BY <2>0, <3>1 DEF IsRecorded, Whole
  <2>3. ReplayStarts(h) \/ \E l \in Ledgers : <<"ledgers", h, l>> \in cut
    <3> SUFFICES ASSUME NEW l \in Ledgers, disk[<<"ledgers", h, l>>] = Torn
                 PROVE  <<"ledgers", h, l>> \in cut
      BY <2>1 DEF ReplayStarts
    <3>1. <<"ledgers", h, l>> \in Files BY FilesOf
    <3>2. begun => Writing /\ ~Idle BY <2>0 DEF TypeOK, Writing
    <3>3. Writing => Target # <<"ledgers", h, l>>
      BY <2>0, <2>a, TargetAt DEF Writing
    <3> QED BY <2>0, <3>1, <3>2, <3>3 DEF TornByStop
  <2>4. AgainWalks(h, t)
    <3>1. ASSUME NEW i \in DOMAIN Chain[t] PROVE ServesBlock(Chain[t][i])
      <4>1. Chain[t][i] \in ToSet(Chain[t]) BY InToSet
      <4>2. Settled(Chain[t][i]) /\ Chain[t][i] \in Blocks
        BY <2>0, <4>1, ChainBlocks DEF IsRecorded
      <4>3. Chain[t][i] \in disk[Table] BY <2>0, <4>1 DEF IsRecorded, Whole
      <4>4. Chain[t][i] \notin {Absent, Torn} BY <4>2, Distinct DEF Values
      <4> QED BY <4>2, <4>3, <4>4 DEF ServesBlock, Whole, Settled
    <3> QED BY <2>1, <2>2, <3>1 DEF AgainWalks, Answers
  <2> QED BY <2>1, <2>2, <2>3, <2>4 DEF ServesLedger, t
<1> QED BY <1>1, Invariant, RecordInvariant, PTL

(* A finished recording lacks the proof of a block only if the peer refused  *)
(* it or a run stopped between the block and its proof (record.rs:197-214).  *)
THEOREM ProofsFound == Spec => []ProofsMissing
<1>1. IInv /\ RInv => ProofsMissing
  <2> SUFFICES ASSUME IInv, RInv, NEW h \in Heights, done[h] # NoTip,
                      NEW b \in ToSet(Chain[done[h]])
               PROVE  disk[Proof(b)] = b \/ b \in refused \/ Proof(b) \in cut
    BY DEF ProofsMissing
  <2>1. IsRecorded(h, done[h]) /\ done[h] \in Tips
    BY RecordedIs DEF IInv, RInv, TypeOK
  <2>2. b \in Blocks /\ Settled(b) BY <2>1, ChainBlocks DEF IsRecorded
  <2> QED BY <2>2 DEF RInv, Asked
<1> QED BY <1>1, Invariant, RecordInvariant, PTL

-----------------------------------------------------------------------------
(* Sandbox.                                                                  *)

(* What the replay took of a finished recording stays what the recording is. *)
Lasting ==
  served # Nobody /\ served.finished =>
    /\ served.complete
    /\ \A b \in ToSet(Chain[served.tip]) : b \in Blocks /\ Settled(b)
    /\ node = "failed" =>
         \E b \in ToSet(Chain[served.tip]) : b \in refused \/ Proof(b) \in cut

(* A replay serves, and a test has read, a best tip.                         *)
BoxTypes ==
  /\ served # Nobody => served.tip \in Tips
  /\ test # NoTip => test \in Tips /\ served # Nobody
  /\ node \in {"away", "failed", "early", "done", "ahead"}
  /\ node # "away" => served # Nobody

BoxInv == IInv /\ RInv /\ BoxTypes /\ Lasting

LEMMA BestTip ==
  ASSUME IInv, RInv, NEW h \in Heights, Whole(<<"best_tip", h>>)
  PROVE  disk[<<"best_tip", h>>] \in Tips
BY DEF RInv, AnswersAre, Answers, Whole

(* A step of the recorder.                                                   *)
LEMMA RecorderLasts ==
  BoxInv /\ Recorder => BoxInv'
<1> SUFFICES ASSUME BoxInv, Recorder PROVE BoxInv'
  OBVIOUS
<1>0. IInv /\ RInv /\ BoxTypes /\ Lasting /\ Next /\ UNCHANGED <<served, node, test>>
  BY DEF BoxInv, Recorder, processes
<1>1. IInv' /\ RInv'
  <2>1. [Next]_vars BY <1>0
  <2> QED BY <1>0, <2>1, NextRInv, NextShape, NextTypeOK, NextTornByStop DEF IInv
<1>2. BoxTypes' BY <1>0 DEF BoxTypes
<1>3. Lasting'
  <2> SUFFICES ASSUME served # Nobody, served.finished PROVE Lasting'
    BY <1>0 DEF Lasting
  <2>1. /\ served.complete
        /\ \A b \in ToSet(Chain[served.tip]) : b \in Blocks /\ Settled(b)
        /\ node = "failed" =>
             \E b \in ToSet(Chain[served.tip]) : b \in refused \/ Proof(b) \in cut
    BY <1>0 DEF Lasting
  <2>2. ASSUME NEW b \in ToSet(Chain[served.tip])
        PROVE  /\ Settled(b)' /\ refused \subseteq refused'
               /\ Proof(b) \in cut => Proof(b) \in cut'
    BY <1>0, <2>1, StaysSettled DEF RInv
  <2> QED BY <1>0, <2>1, <2>2 DEF Lasting
<1> QED BY <1>1, <1>2, <1>3 DEF BoxInv

(* The recording is as it was.                                               *)
LEMMA RecorderRests ==
  ASSUME IInv, RInv, UNCHANGED vars
  PROVE  IInv' /\ RInv'
BY NextRInv, NextShape, NextTypeOK, NextTornByStop DEF IInv

(* At its start a replay has all of a finished recording.                    *)
LEMMA ReplayHas ==
  ASSUME BoxInv, NEW h \in Heights, ReplayStart(h)
  PROVE  BoxInv'
<1> DEFINE t == disk[<<"best_tip", h>>]
<1>0. /\ IInv /\ RInv /\ BoxTypes /\ TypeOK /\ UNCHANGED <<vars, node, test>> /\ served = Nobody
      /\ served' = [tip |-> t, complete |-> Complete(h, t), finished |-> done[h] = t]
      /\ ReplayStarts(h)
  BY DEF BoxInv, ReplayStart, IInv
<1>1. t \in Tips /\ t # NoTip /\ Whole(Table)
  BY <1>0, BestTip, Distinct DEF ReplayStarts, Answers
<1>2. served' # Nobody => served'.tip = t /\ served'.complete = Complete(h, t)
                          /\ served'.finished = (done[h] = t)
  BY <1>0
<1> HIDE DEF t
<1>3. BoxTypes' BY <1>0, <1>1, <1>2 DEF BoxTypes
<1>4. IInv' /\ RInv' BY <1>0, RecorderRests
<1>5. Lasting'
  <2> SUFFICES ASSUME served' # Nobody, done[h] = t PROVE Lasting'
    BY <1>2 DEF Lasting
  <2>1. IsRecorded(h, t) BY <1>0, <1>1, RecordedIs DEF RInv
  <2>2. \A b \in ToSet(Chain[t]) : b \in Blocks /\ Settled(b)
    BY <1>1, <2>1, ChainBlocks DEF IsRecorded
  <2>3. Complete(h, t)
    <3>1. \A l \in {Epoch[t], Snarked[t]} : l \notin {Absent, Torn}
      BY <1>1, TipHas, Distinct DEF Values
    <3>2. ToSet(Chain[t]) \subseteq disk[Table]
      BY <1>1, <2>1 DEF IsRecorded, Whole
    <3> QED BY <2>1, <3>1, <3>2 DEF IsRecorded, Complete, ServesLedger, Whole
  <2>4. node # "failed" BY <1>0 DEF BoxTypes
  <2>5. \A b \in ToSet(Chain[t]) : Settled(b)'
    BY <1>0, <2>2 DEF Settled, vars, Idle, Now
  <2> QED BY <1>0, <1>2, <2>2, <2>3, <2>4, <2>5 DEF Lasting
<1> QED BY <1>3, <1>4, <1>5 DEF BoxInv

(* A replay of a finished recording fails a node only for a proof that was   *)
(* not recorded.                                                             *)
LEMMA ReplayFailsFor ==
  ASSUME BoxInv, ReplayFails
  PROVE  BoxInv'
<1>0. /\ IInv /\ RInv /\ BoxTypes /\ Lasting /\ UNCHANGED <<vars, served, test>>
      /\ served # Nobody /\ node' = "failed"
      /\ \/ ~served.complete
         \/ \E b \in ToSet(Chain[served.tip]) : ~Whole(Block(b)) \/ ~Whole(Proof(b))
  BY DEF BoxInv, ReplayFails
<1>1. IInv' /\ RInv' BY <1>0, RecorderRests
<1>2. BoxTypes' BY <1>0 DEF BoxTypes
<1>3. Lasting'
  <2> SUFFICES ASSUME served.finished PROVE Lasting'
    BY <1>0 DEF Lasting
  <2>1. served.complete /\ \A b \in ToSet(Chain[served.tip]) : b \in Blocks /\ Settled(b)
    BY <1>0 DEF Lasting
  <2>2. PICK b \in ToSet(Chain[served.tip]) : ~Whole(Block(b)) \/ ~Whole(Proof(b))
    BY <1>0, <2>1
  <2>3. b \in Blocks /\ Settled(b) /\ b \notin {Absent, Torn}
    BY <2>1, Distinct DEF Values
  <2>4. Whole(Block(b)) BY <2>3 DEF Settled, Whole
  <2>5. disk[Proof(b)] # b BY <2>2, <2>3, <2>4 DEF Whole
  <2>6. b \in refused \/ Proof(b) \in cut BY <1>0, <2>3, <2>5 DEF RInv, Asked
  <2>7. \A c \in ToSet(Chain[served.tip]) : Settled(c)'
    BY <1>0, <2>1 DEF Settled, vars, Idle, Now
  <2> QED BY <1>0, <2>1, <2>2, <2>6, <2>7 DEF Lasting, vars
<1> QED BY <1>1, <1>2, <1>3 DEF BoxInv

LEMMA NodeMoves ==
  ASSUME BoxInv, NodeSyncs \/ NodeGoesOn \/ TestEnds \/ UNCHANGED allVars
  PROVE  BoxInv'
<1>0. IInv /\ RInv /\ BoxTypes /\ Lasting /\ UNCHANGED <<vars, served>>
  BY DEF BoxInv, NodeSyncs, NodeGoesOn, TestEnds, allVars, processes
<1>1. IInv' /\ RInv' BY <1>0, RecorderRests
<1>2. BoxTypes'
  BY <1>0 DEF BoxTypes, NodeSyncs, NodeGoesOn, TestEnds, allVars, processes
<1>3. node' = "failed" => node = "failed"
  BY DEF NodeSyncs, NodeGoesOn, TestEnds, allVars, processes
<1>4. \A c : Settled(c)' = Settled(c) BY <1>0 DEF Settled, vars, Idle, Now
<1>5. Lasting' BY <1>0, <1>3, <1>4 DEF Lasting, vars
<1> QED BY <1>1, <1>2, <1>5 DEF BoxInv

LEMMA TestReadsTip ==
  ASSUME BoxInv, TestReads
  PROVE  BoxInv'
<1> DEFINE h == Height[served.tip]
<1>0. /\ IInv /\ RInv /\ BoxTypes /\ Lasting /\ UNCHANGED <<vars, served, node>>
      /\ served # Nobody /\ Whole(<<"best_tip", h>>) /\ test' = disk[<<"best_tip", h>>]
  BY DEF BoxInv, TestReads
<1>1. IInv' /\ RInv' BY <1>0, RecorderRests
<1>2. test' \in Tips
  <2>1. h \in Heights BY <1>0, TipHas DEF BoxTypes
  <2> QED BY <1>0, <2>1, BestTip
<1>3. BoxTypes' BY <1>0, <1>2 DEF BoxTypes
<1>4. \A c : Settled(c)' = Settled(c) BY <1>0 DEF Settled, vars, Idle, Now
<1>5. Lasting' BY <1>0, <1>4 DEF Lasting, vars
<1> QED BY <1>1, <1>3, <1>5 DEF BoxInv

LEMMA BoxInvariant == BoxSpec => []BoxInv
<1>1. BoxInit => BoxInv
  <2> SUFFICES ASSUME BoxInit PROVE BoxInv
    OBVIOUS
  <2>1. Init /\ served = Nobody /\ node = "away" /\ test = NoTip BY DEF BoxInit
  <2>2. IInv /\ RInv BY <2>1, InitIInv, InitRInv
  <2> QED BY <2>1, <2>2 DEF BoxInv, BoxTypes, Lasting
<1>2. BoxInv /\ [BoxNext]_allVars => BoxInv'
  BY RecorderLasts, ReplayHas, ReplayFailsFor, NodeMoves, TestReadsTip DEF BoxNext
<1> QED BY <1>1, <1>2, PTL DEF BoxSpec

(* Whatever recordings go on, a replay of a finished recording has all that  *)
(* a node needs, but for a proof that was refused or left by a stop          *)
(* (replay.rs:25-48, 169-209, record.rs:197-214).                            *)
THEOREM Replayed == BoxSpec => []ReplayLasts
<1>1. BoxInv => ReplayLasts BY DEF BoxInv, Lasting, ReplayLasts
<1> QED BY <1>1, BoxInvariant, PTL

-----------------------------------------------------------------------------
(* The tests.                                                                *)

LEMMA LeastNat ==
  ASSUME NEW S, S \subseteq Nat, S # {}
  PROVE  \E x \in S : \A y \in S : x <= y
<1>1. PICK x \in S : \A y \in S : ~ (<<y, x>> \in OpToRel(<, Nat))
  BY WFMin, NatLessThanWellFounded, Zenon
<1>2. ASSUME NEW y \in S PROVE x <= y
  <2>1. ~ (<<y, x>> \in OpToRel(<, Nat)) BY <1>1
  <2>2. ~ (y < x) BY <2>1 DEF OpToRel
  <2> QED BY <2>2
<1> QED BY <1>2

(* The verdict is that of the first check that does not hold.                *)
LEMMA VerdictIs ==
  ASSUME NEW checks, NEW n \in Nat, DOMAIN checks = 1..n
  PROVE  \/ Verdict(checks) = "Ok" /\ \A i \in 1..n : checks[i].holds
         \/ \E i \in 1..n :
              /\ Verdict(checks) = checks[i].error /\ ~checks[i].holds
              /\ \A j \in 1..n : j < i => checks[j].holds
<1> DEFINE failed == {i \in DOMAIN checks : ~checks[i].holds}
<1>1. CASE failed = {} BY <1>1 DEF Verdict
<1>2. CASE failed # {}
  <2>1. failed \subseteq Nat OBVIOUS
  <2>2. \E x \in failed : \A y \in failed : x <= y BY <1>2, <2>1, LeastNat
  <2>3. Min(failed) \in failed /\ \A y \in failed : Min(failed) <= y
    BY <2>2 DEF Min
  <2>4. Verdict(checks) = checks[Min(failed)].error BY <1>2 DEF Verdict
  <2>5. ~checks[Min(failed)].holds /\ Min(failed) \in 1..n BY <2>3
  <2>6. ASSUME NEW j \in 1..n, j < Min(failed) PROVE checks[j].holds
    <3>1. j \in failed => Min(failed) <= j BY <2>3
    <3>2. Min(failed) \in 1..n BY <2>5
    <3> HIDE DEF failed
    <3>3. j \notin failed BY <2>6, <3>1, <3>2
    <3> QED BY <3>3 DEF failed
  <2> QED BY <2>4, <2>5, <2>6
<1> QED BY <1>1, <1>2

(* What the verdict of `test` tells, check by check.                         *)
LEMMA StatsVerdict ==
  ASSUME NEW r, NEW t, NEW want
  PROVE  LET v == Verdict(TestChecks(r, t, want))
         IN  /\ v = "Ok" => t = want /\ "synced" \in r
             /\ "synced" \notin r => v \in Waits
             /\ t = want /\ Facts \subseteq r => v = "Ok"
<1> DEFINE c == TestChecks(r, t, want)
           v == Verdict(c)
<1>1. /\ DOMAIN c = 1..7
      /\ c[1].error = "BootstrapNotStarted" /\ c[2].error = "BootstrapNotDone"
      /\ c[3].error = "RootLedgerIsAbsent" /\ c[4].error = "SnarkedLedgerHashMismatch"
      /\ c[5].error = "HeadBlockIsWrong" /\ c[6].error = "HeadBlockIsNotApplied"
      /\ c[7].error = "HeadBlockHashMismatch"
  BY DEF TestChecks, Check
<1>3. /\ c[1].holds <=> "event" \in r
      /\ c[2].holds <=> "synced" \in r
      /\ c[3].holds <=> "root" \in r
      /\ c[4].holds <=> Snarked[t] = Snarked[want]
      /\ c[5].holds <=> Height[t] = Height[want] /\ "head" \in r
      /\ c[6].holds <=> "applied" \in r
      /\ c[7].holds <=> t = want
  BY DEF TestChecks, Check
<1> HIDE DEF c
<1>2. \/ v = "Ok" /\ \A i \in 1..7 : c[i].holds
      \/ \E i \in 1..7 : /\ v = c[i].error /\ ~c[i].holds
                         /\ \A j \in 1..7 : j < i => c[j].holds
  BY <1>1, VerdictIs
<1> HIDE DEF v
<1>4. v = "Ok" => \A i \in 1..7 : c[i].holds
  <2>1. \A i \in 1..7 : c[i].error # "Ok"
    <3>1. \A i \in 1..7 : i = 1 \/ i = 2 \/ i = 3 \/ i = 4 \/ i = 5 \/ i = 6 \/ i = 7
      OBVIOUS
    <3> QED BY <1>1, <1>3, <3>1
  <2> QED BY <1>2, <2>1
<1>5. v = "Ok" => t = want /\ "synced" \in r BY <1>1, <1>3, <1>4
<1>6. ASSUME "synced" \notin r PROVE v \in Waits
  <2>1. ~c[2].holds BY <1>1, <1>3, <1>6
  <2>2. PICK i \in 1..7 : v = c[i].error /\ \A j \in 1..7 : j < i => c[j].holds
    BY <1>2, <2>1
  <2>3. i = 1 \/ i = 2 BY <2>1, <2>2
  <2> QED BY <1>1, <1>3, <2>2, <2>3 DEF Waits
<1>7. ASSUME t = want, Facts \subseteq r PROVE v = "Ok"
  <2>1. \A i \in 1..7 : i = 1 \/ i = 2 \/ i = 3 \/ i = 4 \/ i = 5 \/ i = 6 \/ i = 7
    OBVIOUS
  <2>2. \A i \in 1..7 : c[i].holds BY <1>1, <1>3, <1>7, <2>1 DEF Facts
  <2> QED BY <1>2, <2>2
<1> QED BY <1>5, <1>6, <1>7 DEF v, c

(* What that of `test-graphql` tells.                                        *)
LEMMA GraphqlVerdict ==
  ASSUME NEW r, NEW t \in Tips, NEW want \in Tips
  PROVE  LET v == Verdict(GraphqlChecks(r, t, want))
         IN  /\ v = "Ok" => t = want /\ "synced" \in r
             /\ "synced" \notin r => v \in Waits
             /\ t = want /\ node # "ahead" => v \in Waits \cup {"Ok"}
<1> DEFINE c == GraphqlChecks(r, t, want)
           v == Verdict(c)
<1>1. /\ DOMAIN c = 1..5
      /\ c[1].error = "BootstrapNotDone" /\ c[2].error = "BootstrapNotDone"
      /\ c[3].error = "HeadBlockIsWrong" /\ c[4].error = "SnarkedLedgerHashMismatch"
      /\ c[5].error = "HeadBlockHashMismatch"
  BY DEF GraphqlChecks, Check
<1>2. /\ c[1].holds <=> "synced" \in r /\ "chain" \in r
      /\ c[2].holds <=> HeadHeight(r, t) >= Height[want]
      /\ c[3].holds <=> HeadHeight(r, t) <= Height[want]
      /\ c[4].holds <=> Snarked[t] = Snarked[want]
      /\ c[5].holds <=> t = want
  BY DEF GraphqlChecks, Check
<1> HIDE DEF c
<1>3. \/ v = "Ok" /\ \A i \in 1..5 : c[i].holds
      \/ \E i \in 1..5 : /\ v = c[i].error /\ ~c[i].holds
                         /\ \A j \in 1..5 : j < i => c[j].holds
  BY <1>1, VerdictIs
<1> HIDE DEF v
<1>4. v = "Ok" => \A i \in 1..5 : c[i].holds
  <2>1. \A i \in 1..5 : c[i].error # "Ok"
    <3>1. \A i \in 1..5 : i = 1 \/ i = 2 \/ i = 3 \/ i = 4 \/ i = 5
      OBVIOUS
    <3> QED BY <1>1, <3>1
  <2> QED BY <1>3, <2>1
<1>5. v = "Ok" => t = want /\ "synced" \in r BY <1>2, <1>4
<1>6. ASSUME "synced" \notin r PROVE v \in Waits
  <2>1. ~c[1].holds BY <1>2, <1>6
  <2>2. PICK i \in 1..5 : v = c[i].error /\ \A j \in 1..5 : j < i => c[j].holds
    BY <1>3, <2>1
  <2>3. i = 1 BY <2>1, <2>2
  <2> QED BY <1>1, <2>2, <2>3 DEF Waits
<1>7. ASSUME t = want, node # "ahead" PROVE v \in Waits \cup {"Ok"}
  <2>1. Height[t] \in Nat BY RecordStoreAssumption
  <2>2. HeadHeight(r, t) <= Height[t]
    <3>1. HeadHeight(r, t) = Height[t] + 0 \/ HeadHeight(r, t) = Height[t] - 1
      BY <1>7 DEF HeadHeight
    <3> QED BY <2>1, <3>1
  <2>3. c[3].holds /\ c[4].holds /\ c[5].holds BY <1>2, <1>7, <2>2
  <2>4. CASE v # "Ok"
    <3>1. PICK i \in 1..5 : v = c[i].error /\ ~c[i].holds BY <1>3, <2>4
    <3>2. i = 1 \/ i = 2 BY <2>3, <3>1
    <3> QED BY <1>1, <3>1, <3>2 DEF Waits
  <2> QED BY <2>4
<1> QED BY <1>5, <1>6, <1>7 DEF v, c

(* A test passes only a node that has the block whose tip it read, and fails *)
(* one only if the tip was replaced since the replay started, if `test` saw  *)
(* it synced too early, or `test-graphql` too late                           *)
(* (check.rs:31-38, 116-209, 323-400).                                       *)
THEOREM Judged == BoxSpec => []TestsJudge
<1>1. BoxInv => TestsJudge
  <2> SUFFICES ASSUME BoxInv, test # NoTip, NEW r \in Reports[node]
               PROVE  LET stats == Verdict(TestChecks(r, served.tip, test))
                          graphql == Verdict(GraphqlChecks(r, served.tip, test))
                      IN  /\ "Ok" \in {stats, graphql} => test = served.tip /\ node # "away"
                          /\ Fatal(stats) => test # served.tip \/ node = "early"
                          /\ Fatal(graphql) => test # served.tip \/ node = "ahead"
    BY DEF TestsJudge
  <2> DEFINE stats == Verdict(TestChecks(r, served.tip, test))
             graphql == Verdict(GraphqlChecks(r, served.tip, test))
  <2>1. /\ test \in Tips /\ served.tip \in Tips
        /\ node \in {"away", "failed", "early", "done", "ahead"}
    BY DEF BoxInv, BoxTypes
  <2>2. node \in {"away", "failed"} => "synced" \notin r
    BY <2>1 DEF Reports
  <2>3. node \in {"done", "ahead"} => Facts \subseteq r
    BY <2>1 DEF Reports
  <2>4. /\ stats = "Ok" => served.tip = test /\ "synced" \in r
        /\ "synced" \notin r => stats \in Waits
        /\ served.tip = test /\ Facts \subseteq r => stats = "Ok"
    BY StatsVerdict, Zenon
  <2>5. /\ graphql = "Ok" => served.tip = test /\ "synced" \in r
        /\ "synced" \notin r => graphql \in Waits
        /\ served.tip = test /\ node # "ahead" => graphql \in Waits \cup {"Ok"}
    BY <2>1, GraphqlVerdict, Zenon
  <2> HIDE DEF stats, graphql
  <2>6. "Ok" \in {stats, graphql} => test = served.tip /\ node # "away"
    BY <2>2, <2>4, <2>5
  <2>7. Fatal(stats) => test # served.tip \/ node = "early"
    BY <2>1, <2>2, <2>3, <2>4 DEF Fatal
  <2>8. Fatal(graphql) => test # served.tip \/ node = "ahead"
    BY <2>5 DEF Fatal
  <2> QED BY <2>6, <2>7, <2>8 DEF stats, graphql
<1> QED BY <1>1, BoxInvariant, PTL
================================================================================
