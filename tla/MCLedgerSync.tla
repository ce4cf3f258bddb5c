---------------------------- MODULE MCLedgerSync ----------------------------
(* LedgerSync for TLC: trees of sixteen nodes of two accounts; ledgers that  *)
(* end within a node, at its end and at the largest number of a u32, in two  *)
(* versions of some accounts, and a fork from the third on.                  *)
EXTENDS LedgerSync

Version(n, changed, fork) ==
  [i \in 1..n |-> <<IF fork /\ i > 2 THEN 100 + i ELSE i, i \in changed>>]

MCLedgers ==
  {Version(n, changed, FALSE) : n \in {0, 1, 2, 5, 8, 15}, changed \in SUBSET {1, 4, 13}}
  \cup {Version(n, {}, TRUE) : n \in {4, 7, 15}}
=============================================================================
