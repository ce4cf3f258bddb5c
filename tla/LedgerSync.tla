----------------------------- MODULE LedgerSync -----------------------------
(* `SnarkedLedger` of snarked_ledger.rs: the ledger of a hash is fetched     *)
(* from a remote by one query after another, over whatever ledger there is   *)
(* in memory; it is stored, loaded by `replay` and served to the next        *)
(* client, which has another old ledger.                                     *)
(*                                                                           *)
(* A ledger is a tree over Positions.  The hash of an inner node stands for  *)
(* the accounts below it: there are no collisions.  Above Depth the client   *)
(* asks for the hashes of a node's children, at Depth for the accounts.      *)
(* The recursion of sync_at_depth_new is the sequence `stack`, the frame     *)
(* that runs first.                                                          *)
EXTENDS Integers, Sequences, FiniteSets, FiniteSetsExt, SequencesExt

CONSTANTS
  Depth,      \* depth of the nodes asked for accounts, bits of a u32 (32)
  Batch,      \* accounts below such a node (8)
  ByteBits,   \* bits of a byte (8)
  Ledgers,    \* ledgers, as sequences of accounts
  None,
  MaxRelays   \* clients served by a ledger that was recorded     (bound)

Span(d) == 2 ^ (Depth - d) * Batch
Positions == 0..(Span(0) - 1)

(* `num` is a u32.                                                           *)
ASSUME LedgerSyncAssumption ==
  /\ Depth \in Nat \ {0} /\ Batch \in Nat \ {0} /\ MaxRelays \in Nat
  /\ ByteBits \in 1..Depth /\ Depth % ByteBits = 0
  /\ \A l \in Ledgers : /\ l \in Seq(ToSet(l)) /\ Len(l) < 2 ^ Depth
                         /\ None \notin ToSet(l)

VARIABLES
  inner, top_hash, num,   \* the client's SnarkedLedger
  remote,                 \* the SnarkedLedger that serves it
  root,                   \* the hash asked for
  phase,                  \* "idle", "syncs", "synced" or "panicked"
  stack,                  \* calls of sync_at_depth_new under way
  denied,                 \* an answer was an error                (history)
  wanted,                 \* the ledger with the hash `root`       (history)
  relays                  \* clients served by what was recorded   (history)

ledger == <<inner, top_hash, num>>
vars == <<ledger, remote, root, phase, stack, denied, wanted, relays>>

-----------------------------------------------------------------------------
(* Trees.                                                                    *)

TreeOf(l) == [i \in Positions |-> IF i < Len(l) THEN l[i + 1] ELSE None]
NoAccounts == TreeOf(<<>>)

NumAccounts(tree) == Cardinality({i \in Positions : tree[i] # None})

(* get_inner_hash_at_addr, of the node at depth d and position p.            *)
InnerHash(tree, d, p) == [i \in 0..(Span(d) - 1) |-> tree[p * Span(d) + i]]

MerkleRoot(tree) == InnerHash(tree, 0, 0)

(* "NOTE: it is not the same as the merkle tree root"                        *)
TopHash(l) == <<"top", l>>

(* store_bin folds over the accounts, load_bin creates them one by one; the  *)
(* number comes from the accounts, the hash from the file.                   *)
Stored(tree) ==
  LET there == {i \in Positions : tree[i] # None}
      nth(k) == CHOOSE i \in there : Cardinality({j \in there : j < i}) = k - 1
  IN  [k \in 1..Cardinality(there) |-> tree[nth(k)]]

Loaded(l, top) == [inner |-> TreeOf(l), top_hash |-> top, num |-> Len(l)]

-----------------------------------------------------------------------------
(* Addresses: depth and position, in a query as the first bytes of the       *)
(* position shifted to the left end of a u32.  A release build takes the     *)
(* width of a shift modulo the bits of the u32, which matters at depth 0.    *)

(* Slip: a byte that is not full is left out.                                *)
BytesOf_Floor(d) == d \div ByteBits

BytesOf(d) == (d + ByteBits - 1) \div ByteBits

Shifted(d, p) == (p * 2 ^ ((Depth - d) % Depth)) % 2 ^ Depth

Address(d, p) ==
  [depth |-> d,
   bytes |-> Shifted(d, p) \div 2 ^ (Depth - BytesOf(d) * ByteBits)]

(* The first bits of the bytes; bits that were not sent are zeros.           *)
PosOf(address) ==
  LET bits == BytesOf(address.depth) * ByteBits
  IN  IF bits >= address.depth
      THEN address.bytes \div 2 ^ (bits - address.depth)
      ELSE address.bytes * 2 ^ (address.depth - bits)

(* serve_query, WhatChildHashes: the left child is 0, the right one 1.       *)
ChildHash(address, side) ==
  InnerHash(remote.inner, address.depth + 1, 2 * PosOf(address) + side)

(* serve_query, WhatContents: accounts up to the first that is not there.    *)
Contents(address) ==
  LET first == PosOf(address) * Span(address.depth)
      n == Max({k \in 0..Span(address.depth) :
                  \A j \in first..(first + k - 1) :
                    j # remote.num /\ remote.inner[j] # None})
  IN  [k \in 1..n |-> remote.inner[first + k - 1]]

-----------------------------------------------------------------------------
Visit(d, p, hash) == [op |-> "visit", depth |-> d, pos |-> p, hash |-> hash]
Check(d, p, hash) == [op |-> "check", depth |-> d, pos |-> p, hash |-> hash]

Now == Head(stack)

(* The comparison at the start and at the end of sync_at_depth_new: at the   *)
(* root with the hash asked for, as the one told with the number is another. *)
Matches(frame) ==
  InnerHash(inner, frame.depth, frame.pos)
    = IF frame.depth = 0 THEN root ELSE frame.hash

(* SnarkedLedger::empty, or a file that was recorded.                        *)
OldLedgers ==
  {[inner |-> NoAccounts, top_hash |-> None, num |-> 0]}
    \cup {Loaded(l, TopHash(l)) : l \in Ledgers}

Begins(old) ==
  /\ inner = old.inner /\ top_hash = old.top_hash /\ num = old.num

Init ==
  /\ wanted \in Ledgers
  /\ remote = Loaded(wanted, TopHash(wanted))
  /\ root = MerkleRoot(TreeOf(wanted))
  /\ \E old \in OldLedgers : Begins(old)
  /\ phase = "idle" /\ stack = <<>> /\ denied = FALSE /\ relays = 0

(* Slips: accounts beyond the new number are kept; so is the hash loaded.    *)
Kept_All(n) == inner
NewTop_Old == IF top_hash = None THEN remote.top_hash ELSE top_hash

(* A ledger with more accounts than there will be is given up.               *)
Kept(n) == IF NumAccounts(inner) > n THEN NoAccounts ELSE inner

NewTop == remote.top_hash

(* sync_new: NumAccounts is asked.                                           *)
SyncNew ==
  /\ phase = "idle" /\ phase' = "syncs"
  /\ inner' = Kept(remote.num) /\ top_hash' = NewTop /\ num' = remote.num
  /\ stack' = <<Visit(0, 0, remote.top_hash)>>
  /\ UNCHANGED <<remote, root, denied, wanted, relays>>

Running(op) == phase = "syncs" /\ stack # <<>> /\ Now.op = op

(* The subtree is the one wanted.                                            *)
Have ==
  /\ Running("visit") /\ Matches(Now)
  /\ stack' = Tail(stack)
  /\ UNCHANGED <<ledger, remote, root, phase, denied, wanted, relays>>

Children(frame, address) ==
  [side \in 1..2 |-> Visit(frame.depth + 1, 2 * frame.pos + side - 1,
                           ChildHash(address, side - 1))]

(* WhatChildHashes: the left child, the right child, then the node.          *)
AskChildren ==
  /\ Running("visit") /\ ~Matches(Now) /\ Now.depth < Depth
  /\ stack' = Children(Now, Address(Now.depth, Now.pos))
              \o <<Check(Now.depth, Now.pos, Now.hash)>> \o Tail(stack)
  /\ UNCHANGED <<ledger, remote, root, phase, denied, wanted, relays>>

(* WhatContents: set_at_index from (pos * 8) on, computed in a u32.          *)
AskContents ==
  /\ Running("visit") /\ ~Matches(Now) /\ Now.depth = Depth
  /\ LET accounts == Contents(Address(Depth, Now.pos))
         first == (Now.pos * Batch) % 2 ^ Depth
     IN  inner' = [i \in Positions |->
                     IF i - first + 1 \in DOMAIN accounts
                     THEN accounts[i - first + 1] ELSE inner[i]]
  /\ stack' = <<Check(Depth, Now.pos, Now.hash)>> \o Tail(stack)
  /\ UNCHANGED <<top_hash, num, remote, root, phase, denied, wanted, relays>>

(* WhatContents answered with CouldNotConstruct is passed over.              *)
CouldNotConstruct ==
  /\ Running("visit") /\ ~Matches(Now) /\ Now.depth = Depth
  /\ denied' = TRUE
  /\ stack' = <<Check(Depth, Now.pos, Now.hash)>> \o Tail(stack)
  /\ UNCHANGED <<ledger, remote, root, phase, wanted, relays>>

(* Any other error, of any query, fails an unwrap.                           *)
Denied ==
  /\ phase = "idle" \/ (Running("visit") /\ ~Matches(Now))
  /\ denied' = TRUE /\ phase' = "panicked"
  /\ UNCHANGED <<ledger, remote, root, stack, wanted, relays>>

(* assert_eq of a node whose subtree was fetched.                            *)
AssertEq ==
  /\ Running("check")
  /\ IF Matches(Now)
     THEN stack' = Tail(stack) /\ UNCHANGED phase
     ELSE phase' = "panicked" /\ UNCHANGED stack
  /\ UNCHANGED <<ledger, remote, root, denied, wanted, relays>>

(* The last lines of sync_new.                                               *)
Finish ==
  /\ phase = "syncs" /\ stack = <<>>
  /\ phase' = IF MerkleRoot(inner) = root THEN "synced" ELSE "panicked"
  /\ UNCHANGED <<ledger, remote, root, stack, denied, wanted, relays>>

(* store_bin, load_bin by `replay`, and a client that asks it.               *)
Relay ==
  /\ phase = "synced" /\ relays < MaxRelays
  /\ relays' = relays + 1
  /\ remote' = Loaded(Stored(inner), top_hash)
  /\ \E old \in OldLedgers :
       inner' = old.inner /\ top_hash' = old.top_hash /\ num' = old.num
  /\ phase' = "idle"
  /\ UNCHANGED <<root, stack, denied, wanted>>

Next ==
  \/ SyncNew \/ Have \/ AskChildren \/ AskContents \/ CouldNotConstruct
  \/ Denied \/ AssertEq \/ Finish \/ Relay

Spec == Init /\ [][Next]_vars

-----------------------------------------------------------------------------
(* Properties.                                                               *)

Accounts == UNION {ToSet(l) : l \in Ledgers}

Covers(frame, i) == frame.op = "visit" /\ i \div Span(frame.depth) = frame.pos

(* While a ledger is fetched, each account outside the subtrees still to     *)
(* visit is the one wanted, an absent one included: accounts of the old      *)
(* ledger survive nowhere else (snarked_ledger.rs:85-87, 117-175).          *)
OthersFetched ==
  phase = "syncs" /\ ~denied =>
    \A i \in Positions :
      inner[i] = TreeOf(wanted)[i]
        \/ \E k \in DOMAIN stack : Covers(stack[k], i)

(* A synced ledger is the one with the hash asked for, with its number and   *)
(* its other hash, so that it can be served; it is so for the client of a    *)
(* replayed ledger too (snarked_ledger.rs:34-94, 188-246).                   *)
SyncedIsWanted ==
  phase = "synced" =>
    /\ inner = TreeOf(wanted)
    /\ num = Len(wanted) /\ top_hash = TopHash(wanted)

(* From whatever old ledger, no assertion fails and the sync is not given up *)
(* unless the remote answers a query with an error.                          *)
NoPanic == phase = "panicked" => denied
=============================================================================
