---------------------------- MODULE FrameBuffer ----------------------------
(* The receive buffer of one RPC stream: `Buffer { offset, buf }` of         *)
(* libp2p-rpc-behaviour/src/state.rs.  A frame is an 8-byte little-endian    *)
(* length and that many bytes of message.  A byte is modelled by the frame   *)
(* it belongs to and its position in it, so that a cut which does not fall   *)
(* on the boundary between two frames is visible.  `data` stands for         *)
(* buf[..offset] (its length is `offset`), `cap` for buf.len().              *)
EXTENDS Integers, Sequences

CONSTANTS
  Header,       \* bytes of the length prefix (8 in the code)
  InitialSize,  \* Buffer::INITIAL_SIZE (0x1000 in the code)
  PayloadLens,  \* lengths a prefix may announce
  Kinds         \* what the header of a message read may say

(* The divisors of a power of two other than 1 are even.                     *)
IsPowerOfTwo(n) == \A d, q \in 1..n : d * q = n => d = 1 \/ d % 2 = 0

ASSUME FrameBufferAssumption ==
  /\ Header \in Nat \ {0}
  /\ InitialSize \in Nat \ {0}
  /\ IsPowerOfTwo(InitialSize)
  /\ PayloadLens \subseteq Nat \ {0}

(* What this side writes: the handshake, the query of the menu of            *)
(* Inner::new, answers, and queries of the user.                             *)
LocalKinds == {"handshake", "heartbeat", "menuQuery", "menuAnswer", "query"}

Frames == [n : Nat, kind : Kinds \cup LocalKinds, len : PayloadLens]

Size(f) == Header + f.len

Bytes(f) == [k \in 1..Size(f) |-> <<f, k>>]

(* The messages try_cut may read at the front of `data`.  Where the front is *)
(* the start of a frame this is that frame.  Elsewhere the eight bytes taken *)
(* for a length are bytes of a message, and any length, then any message,    *)
(* may come out; n = 0 marks a message that nobody sent.                     *)
Decodings(data) ==
  IF Len(data) < Header
  THEN {}
  ELSE LET f == data[1][1]
           prefixOk == \A k \in 1..Header : data[k] = <<f, k>>
           whole == prefixOk /\ \A k \in 1..Size(f) :
                                  k <= Len(data) => data[k] = <<f, k>>
           lens == IF prefixOk THEN {f.len} ELSE PayloadLens
       IN  IF whole THEN {f}
           ELSE [n : {0}, kind : Kinds, len : lens]

(* offset >= 8 and offset >= 8 + msg_len                                     *)
Complete(data) == {f \in Decodings(data) : Size(f) <= Len(data)}

(* try_cut leaves the loop of poll_recv: fewer than eight bytes, or a length *)
(* that the buffered bytes do not reach.                                     *)
Incomplete(data) == Decodings(data) = {} \/ Complete(data) # Decodings(data)

(* Slip: forgets the eight bytes of the length.                              *)
AfterCut_KeepsHeader(data, f) == SubSeq(data, f.len + 1, Len(data))

AfterCut(data, f) == SubSeq(data, Size(f) + 1, Len(data))

(* usize::next_power_of_two: the smallest power of two not below n.          *)
NextPowerOfTwo(n) ==
  IF n = 0 THEN 1
  ELSE CHOOSE p \in n..(2 * n - 1) :
         IsPowerOfTwo(p) /\ \A q \in n..(p - 1) : ~IsPowerOfTwo(q)

(* buf[(8 + msg_len)..] resized to next_power_of_two().max(INITIAL_SIZE)     *)
CapAfterCut(cap, f) ==
  LET p == NextPowerOfTwo(cap - Size(f))
  IN  IF p < InitialSize THEN InitialSize ELSE p

(* poll_read is given buf[offset..]: it takes at most this many bytes.       *)
Room(data, cap) == cap - Len(data)

(* Slips: `<=` for `<`; and growing by a fixed amount.                       *)
CapAfterRead_OffByOne(cap, data, n) == IF Len(data) + n <= cap THEN cap ELSE 2 * cap
CapAfterRead_Linear(cap, data, n) ==
  IF Len(data) + n < cap THEN cap ELSE cap + InitialSize

(* poll_fill after a read of n bytes: a full buffer doubles.                 *)
CapAfterRead(cap, data, n) == IF Len(data) + n < cap THEN cap ELSE 2 * cap
=============================================================================
