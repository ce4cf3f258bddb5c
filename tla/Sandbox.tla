------------------------------- MODULE Sandbox -------------------------------
(* The commands of the sandbox on one directory: `record` (RecordStore),     *)
(* `replay` (replay.rs), which takes most of a recording into memory and     *)
(* reads blocks and proofs as they are asked for, and `test` and             *)
(* `test-graphql` (check.rs), which read the best tip once and then poll a   *)
(* node that bootstraps from the replay, while other recordings go on.       *)
EXTENDS RecordStore

CONSTANTS Nobody

ASSUME SandboxAssumption == Nobody \notin Tips

VARIABLES
  served,  \* what the replay took into memory; there is one replay
  node,    \* the node: how far its bootstrap is
  test     \* the best tip that a test has read

processes == <<served, node, test>>
allVars == <<vars, processes>>

BoxInit == Init /\ served = Nobody /\ node = "away" /\ test = NoTip

Recorder == Next /\ UNCHANGED processes

-----------------------------------------------------------------------------
(* replay                                                                    *)

(* What is read at the start suffices for a node: answers of one tip, its    *)
(* ledgers, and its blocks in the table.                                     *)
Complete(h, t) ==
  /\ \A a \in Answers : disk[<<a, h>>] = t
  /\ ServesLedger(h, Epoch[t]) /\ ServesLedger(h, Snarked[t])
  /\ ToSet(Chain[t]) \subseteq disk[Table]

(* replay::run, before its loop.                                             *)
ReplayStart(h) ==
  /\ served = Nobody /\ ReplayStarts(h)
  /\ LET t == disk[<<"best_tip", h>>]
     IN  served' = [tip |-> t, complete |-> Complete(h, t), finished |-> done[h] = t]
  /\ UNCHANGED <<vars, node, test>>

(* The node asks for what is not in memory, or for a file that is not there. *)
ReplayFails ==
  /\ served # Nobody /\ node = "away"
  /\ \/ ~served.complete
     \/ \E b \in ToSet(Chain[served.tip]) : ~Whole(Block(b)) \/ ~Whole(Proof(b))
  /\ node' = "failed"
  /\ UNCHANGED <<vars, served, test>>

(* The node has the tip, but may have reported it only in part; later it may *)
(* go beyond the tip, if it has other peers.                                 *)
NodeSyncs ==
  /\ served # Nobody /\ node = "away" /\ served.complete
  /\ \A b \in ToSet(Chain[served.tip]) : Whole(Block(b))
  /\ node' = "early"
  /\ UNCHANGED <<vars, served, test>>

NodeGoesOn ==
  /\ \/ node = "early" /\ node' = "done"
     \/ node = "done" /\ node' = "ahead"
  /\ UNCHANGED <<vars, served, test>>

-----------------------------------------------------------------------------
(* What a node says of itself: that it bootstraps and has synced, its root   *)
(* ledger, its head block, that this is applied, and a chain.  Nothing says  *)
(* that it tells of its blocks before it calls itself synced.                *)
Facts == {"event", "synced", "root", "head", "applied", "chain"}

Reports ==
  [ s \in {"away", "failed", "early", "done", "ahead"} |->
      CASE s \in {"away", "failed"} -> SUBSET (Facts \ {"synced"})
        [] s = "early" -> {r \in SUBSET Facts : {"event", "synced"} \subseteq r}
        [] OTHER -> {Facts} ]

Check(holds, error) == [holds |-> holds, error |-> error]

Verdict(checks) ==
  LET failed == {i \in DOMAIN checks : ~checks[i].holds}
  IN  IF failed = {} THEN "Ok" ELSE checks[Min(failed)].error

(* Slip: a head block not yet applied is the first thing looked for.         *)
TestChecks_HeadFirst(r, t, want) ==
  << Check("event" \in r, "BootstrapNotStarted"),
     Check(Height[t] = Height[want] /\ "head" \in r, "HeadBlockIsWrong"),
     Check("synced" \in r, "BootstrapNotDone"),
     Check("root" \in r, "RootLedgerIsAbsent"),
     Check(Snarked[t] = Snarked[want], "SnarkedLedgerHashMismatch"),
     Check("applied" \in r, "HeadBlockIsNotApplied"),
     Check(t = want, "HeadBlockHashMismatch") >>

(* test_inner of `test`, for a node that reports r of its bootstrap to t.    *)
TestChecks(r, t, want) ==
  << Check("event" \in r, "BootstrapNotStarted"),
     Check("synced" \in r, "BootstrapNotDone"),
     Check("root" \in r, "RootLedgerIsAbsent"),
     Check(Snarked[t] = Snarked[want], "SnarkedLedgerHashMismatch"),
     Check(Height[t] = Height[want] /\ "head" \in r, "HeadBlockIsWrong"),
     Check("applied" \in r, "HeadBlockIsNotApplied"),
     Check(t = want, "HeadBlockHashMismatch") >>

(* The head of the best chain is below t while the block is not applied.     *)
HeadHeight(r, t) ==
  CASE {"head", "applied"} \subseteq r -> Height[t] + IF node = "ahead" THEN 1 ELSE 0
    [] OTHER -> Height[t] - 1

(* test_inner of `test_graphql`.                                             *)
GraphqlChecks(r, t, want) ==
  << Check("synced" \in r /\ "chain" \in r, "BootstrapNotDone"),
     Check(HeadHeight(r, t) >= Height[want], "BootstrapNotDone"),
     Check(HeadHeight(r, t) <= Height[want], "HeadBlockIsWrong"),
     Check(Snarked[t] = Snarked[want], "SnarkedLedgerHashMismatch"),
     Check(t = want, "HeadBlockHashMismatch") >>

(* TestError::fatal                                                          *)
Waits == {"BootstrapNotStarted", "BootstrapNotDone", "RootLedgerIsAbsent"}

Fatal(verdict) == verdict \notin Waits \cup {"Ok"}

(* The best tip is read once; a file that is torn or not there fails.        *)
TestReads ==
  /\ test = NoTip /\ served # Nobody
  /\ LET file == <<"best_tip", Height[served.tip]>>
     IN  Whole(file) /\ test' = disk[file]
  /\ UNCHANGED <<vars, served, node>>

Verdicts(r) ==
  {Verdict(TestChecks(r, served.tip, test)), Verdict(GraphqlChecks(r, served.tip, test))}

(* The loop ends with a verdict other than to wait for a minute.             *)
TestEnds ==
  /\ test # NoTip
  /\ \E r \in Reports[node] : Verdicts(r) \ Waits # {}
  /\ test' = NoTip
  /\ UNCHANGED <<vars, served, node>>

BoxNext ==
  \/ Recorder
  \/ \E h \in Heights : ReplayStart(h)
  \/ ReplayFails \/ NodeSyncs \/ NodeGoesOn
  \/ TestReads \/ TestEnds

BoxSpec == BoxInit /\ [][BoxNext]_allVars

-----------------------------------------------------------------------------
(* Properties.                                                               *)

(* A replay of a finished recording has all a node needs in memory, and what *)
(* it reads from disk later stays there whatever recordings go on: only a    *)
(* proof can be missing, one that was refused or left by a stop              *)
(* (replay.rs:25-48, 169-209, record.rs:197-214).                            *)
ReplayLasts ==
  served # Nobody /\ served.finished =>
    /\ served.complete
    /\ node = "failed" =>
         \E b \in ToSet(Chain[served.tip]) : b \in refused \/ Proof(b) \in cut

(* A test passes only a node that has the block whose tip the test read.  It *)
(* fails a node only if a recording replaced the tip between the start of    *)
(* the replay and the test, or, with `test`, if the node called itself       *)
(* synced before it reported its head, or, with `test-graphql`, if the node  *)
(* went beyond the tip between two polls (check.rs:31-38, 116-209, 323-400). *)
TestsJudge ==
  test # NoTip =>
    \A r \in Reports[node] :
      LET stats == Verdict(TestChecks(r, served.tip, test))
          graphql == Verdict(GraphqlChecks(r, served.tip, test))
      IN  /\ "Ok" \in {stats, graphql} => test = served.tip /\ node # "away"
          /\ Fatal(stats) => test # served.tip \/ node = "early"
          /\ Fatal(graphql) => test # served.tip \/ node = "ahead"
=============================================================================
