-------------------------- MODULE RpcStreamProofs --------------------------
(* Theorems about FrameBuffer and RpcStream for every header size, initial   *)
(* buffer size, set of lengths and of kinds, and without any of the bounds   *)
(* of the runs.  The last part is what a stream cuts from its bytes: the     *)
(* frames the remote sent, whole, in order and once, however the reads cut   *)
(* them up.                                                                  *)
EXTENDS RpcStream, TLAPS, SequenceTheorems, WellFoundedInduction

-----------------------------------------------------------------------------
(* FrameBuffer.                                                              *)

(* Doubling a power of two, as poll_fill does (state.rs:100), gives one.     *)
LEMMA PowerOfTwoDoubles ==
  ASSUME NEW p \in Nat \ {0}, IsPowerOfTwo(p)
  PROVE  IsPowerOfTwo(2 * p)
<1> SUFFICES ASSUME NEW d \in 1..(2 * p), NEW q \in 1..(2 * p),
                    d * q = 2 * p, d % 2 # 0
             PROVE  d = 1
  BY DEF IsPowerOfTwo
<1>1. PICK e \in Nat : d = 2 * e + 1
  <2>1. d = 2 * (d \div 2) + 1 /\ d \div 2 \in Nat
    OBVIOUS
  <2> QED BY <2>1
<1> DEFINE r == p - e * q
<1>2. e * q \in Nat /\ 2 * (e * q) + q = 2 * p
  <2>1. e * q \in Nat
    BY <1>1
  <2>2. (2 * e + 1) * q = 2 * (e * q) + q
    BY <1>1
  <2> QED BY <1>1, <2>1, <2>2
<1>3. q = 2 * r /\ r \in 1..p
  BY <1>2
<1>4. d * r = p
  <2>1. d * (2 * r) = 2 * (d * r)
    BY <1>3
  <2>2. d * r \in Int
    BY <1>3
  <2> QED BY <1>3, <2>1, <2>2
<1>5. d \in 1..p
  <2>1. CASE d <= p
    BY <2>1
  <2>2. CASE d > p
    <3>1. d * r >= d
      BY <1>3
    <3> QED BY <1>4, <2>2, <3>1
  <2> QED BY <2>1, <2>2
<1> QED BY <1>3, <1>4, <1>5 DEF IsPowerOfTwo

(* A power of two other than 1 is twice a power of two.                      *)
LEMMA PowerOfTwoHalves ==
  ASSUME NEW m \in Nat \ {0, 1}, IsPowerOfTwo(m)
  PROVE  \E k \in Nat \ {0} : m = 2 * k /\ IsPowerOfTwo(k)
<1>1. m % 2 = 0
  <2>1. m * 1 = m /\ m \in 1..m /\ 1 \in 1..m
    OBVIOUS
  <2> QED BY <2>1 DEF IsPowerOfTwo
<1>2. PICK k \in Nat \ {0} : m = 2 * k
  <2>1. m = 2 * (m \div 2) /\ m \div 2 \in Nat \ {0}
    BY <1>1
  <2> QED BY <2>1
<1>3. IsPowerOfTwo(k)
  <2> SUFFICES ASSUME NEW d \in 1..k, NEW q \in 1..k, d * q = k
               PROVE  d = 1 \/ d % 2 = 0
    BY DEF IsPowerOfTwo
  <2>1. d * (2 * q) = m
    <3>1. d * (2 * q) = 2 * (d * q)
      OBVIOUS
    <3> QED BY <1>2, <3>1
  <2>2. d \in 1..m /\ 2 * q \in 1..m
    BY <1>2
  <2> QED BY <2>1, <2>2 DEF IsPowerOfTwo
<1> QED BY <1>2, <1>3

(* A set of naturals that is not empty has a least element.                  *)
LEMMA LeastNatural ==
  ASSUME NEW T, T \subseteq Nat, T # {}
  PROVE  \E m \in T : \A k \in T : m <= k
<1> DEFINE Less == {ss \in Nat \X Nat : ss[1] < ss[2]}
<1>1. IsWellFoundedOn(Less, Nat)
  BY NatLessThanWellFounded DEF OpToRel
<1>2. \E m \in T : \A k \in T : ~ (<<k, m>> \in Less)
  <2> HIDE DEF Less
  <2> QED BY <1>1, WFMin
<1>3. \A a, b \in Nat : a < b => <<a, b>> \in Less
  OBVIOUS
<1> HIDE DEF Less
<1>4. PICK m \in T : \A k \in T : ~ (<<k, m>> \in Less)
  BY <1>2
<1>5. ASSUME NEW k \in T
      PROVE  m <= k
  <2>1. k \in Nat /\ m \in Nat /\ ~ (<<k, m>> \in Less)
    BY <1>4
  <2>2. ~ (k < m)
    BY <2>1, <1>3
  <2> QED BY <2>1, <2>2
<1> QED BY <1>5

(* next_power_of_two is defined, and not above any power of two that is not  *)
(* below its argument: the slice that is left by a cut (state.rs:120-121)    *)
(* fits into a buffer no larger than the one it was cut from.                *)
LEMMA NextPowerOfTwoBounds ==
  ASSUME NEW size \in Nat \ {0}, IsPowerOfTwo(size), NEW n \in 1..size
  PROVE  /\ NextPowerOfTwo(n) \in n..size
         /\ IsPowerOfTwo(NextPowerOfTwo(n))
<1> DEFINE T == {p \in Nat : p >= n /\ IsPowerOfTwo(p)}
<1>1. size \in T
  OBVIOUS
<1>2. PICK m \in T : \A k \in T : m <= k
  <2> HIDE DEF T
  <2>1. T \subseteq Nat
    BY DEF T
  <2> QED BY <1>1, <2>1, LeastNatural
<1>3. m \in n..(2 * n - 1)
  <2> SUFFICES ASSUME m >= 2 * n
               PROVE  FALSE
    OBVIOUS
  <2>1. PICK k \in Nat \ {0} : m = 2 * k /\ IsPowerOfTwo(k)
    BY PowerOfTwoHalves
  <2>2. k \in T /\ k < m
    BY <2>1
  <2> QED BY <1>2, <2>2
<1> DEFINE Least(p) == IsPowerOfTwo(p) /\ \A q \in n..(p - 1) : ~IsPowerOfTwo(q)
<1>4. Least(m)
  <2> SUFFICES ASSUME NEW q \in n..(m - 1), IsPowerOfTwo(q)
               PROVE  FALSE
    OBVIOUS
  <2>1. q \in T
    OBVIOUS
  <2> QED BY <1>2, <2>1
<1>5. NextPowerOfTwo(n) \in n..(2 * n - 1) /\ Least(NextPowerOfTwo(n))
  <2>1. NextPowerOfTwo(n) = CHOOSE p \in n..(2 * n - 1) : Least(p)
    BY DEF NextPowerOfTwo
  <2> HIDE DEF Least
  <2> QED BY <1>3, <1>4, <2>1
<1>6. NextPowerOfTwo(n) <= size
  <2> SUFFICES ASSUME NextPowerOfTwo(n) > size
               PROVE  FALSE
    BY <1>5
  <2>1. size \in n..(NextPowerOfTwo(n) - 1)
    BY <1>5
  <2> QED BY <1>5, <2>1
<1> QED BY <1>5, <1>6

-----------------------------------------------------------------------------
(* RpcStream.                                                                *)

Byte == Frames \X Nat

(* A frame is a sequence of bytes, as many as its header and its message.    *)
LEMMA BytesType ==
  ASSUME NEW f \in Frames
  PROVE  /\ Size(f) \in Nat \ {0}
         /\ Bytes(f) \in Seq(Byte)
         /\ Len(Bytes(f)) = Size(f)
<1>1. Size(f) \in Nat \ {0}
  <2>1. f.len \in Nat \ {0} /\ Header \in Nat
    BY FrameBufferAssumption DEF Frames
  <2> QED BY <2>1 DEF Size
<1>2. Bytes(f) \in [1..Size(f) -> Byte]
  BY <1>1 DEF Bytes, Byte
<1> QED BY <1>1, <1>2

(* A piece of a sequence has the elements of it, and the length of its range *)
(* (the slices of state.rs:95, 114, 120, 250).                               *)
LEMMA SubSeqType ==
  ASSUME NEW S, NEW s \in Seq(S), NEW m \in Nat \ {0}, NEW n \in 0..Len(s)
  PROVE  /\ SubSeq(s, m, n) \in Seq(S)
         /\ Len(SubSeq(s, m, n)) = IF m <= n THEN n - m + 1 ELSE 0
<1>1. \A i \in m..n : s[i] \in S
  OBVIOUS
<1> QED BY <1>1, SubSeqProperties

(* What try_cut reads, at the start of a frame or elsewhere, is a frame.     *)
LEMMA DecodingsType ==
  ASSUME NEW d \in Seq(Byte)
  PROVE  Decodings(d) \subseteq Frames
<1>1. CASE Len(d) < Header
  BY <1>1 DEF Decodings
<1>2. CASE ~(Len(d) < Header)
  <2>1. Len(d) \in Nat \ {0}
    BY <1>2, FrameBufferAssumption
  <2>2. d[1] \in Byte
    BY <2>1
  <2>3. d[1][1] \in Frames
    BY <2>2 DEF Byte
  <2>4. d[1][1].len \in PayloadLens
    BY <2>3 DEF Frames
  <2> DEFINE prefixOk == \A k \in 1..Header : d[k] = <<d[1][1], k>>
             lens == IF prefixOk THEN {d[1][1].len} ELSE PayloadLens
  <2>5. lens \subseteq PayloadLens
    BY <2>4
  <2>6. [n : {0}, kind : Kinds, len : lens] \subseteq Frames
    <3> HIDE DEF lens
    <3> QED BY <2>5 DEF Frames
  <2>7. Decodings(d) \subseteq {d[1][1]} \cup [n : {0}, kind : Kinds, len : lens]
    BY <1>2 DEF Decodings
  <2> QED BY <2>3, <2>6, <2>7
<1> QED BY <1>1, <1>2

(* A cut takes a whole frame's bytes off the front of the buffer.            *)
LEMMA CutLemma ==
  ASSUME NEW d \in Seq(Byte), NEW f \in Complete(d)
  PROVE  /\ f \in Frames
         /\ Size(f) \in 1..Len(d)
         /\ AfterCut(d, f) \in Seq(Byte)
         /\ Len(AfterCut(d, f)) = Len(d) - Size(f)
<1>1. f \in Frames /\ Size(f) <= Len(d)
  BY DecodingsType DEF Complete
<1>2. Size(f) \in 1..Len(d)
  BY <1>1, BytesType
<1>3. Len(d) \in 0..Len(d) /\ Size(f) + 1 \in Nat \ {0}
  BY <1>2
<1> QED BY <1>1, <1>2, <1>3, SubSeqType DEF AfterCut

-----------------------------------------------------------------------------
(* The inductive invariant.  RoomToRead is part of it because the size of    *)
(* a read and of a cut is computed from the room that is left.               *)
IInv == TypeOK /\ RoomToRead

(* What is pushed to command_queue has all its bytes left to write           *)
(* (state.rs:135).                                                           *)
LEMMA EntryType ==
  ASSUME NEW f \in Frames
  PROVE  Entry(f) \in Entries
<1>1. 0 < Size(f)
  BY BytesType
<1> QED BY <1>1 DEF Entry, Entries

(* A stream starts with values of the right types, outgoing or incoming      *)
(* (state.rs:44-69, 80-83).                                                  *)
LEMMA InitType == Init => TypeOK
<1> SUFFICES ASSUME Init PROVE TypeOK
  OBVIOUS
<1>1. Handshake \in Frames /\ AskMenu \in Frames
  BY RpcStreamAssumption DEF Handshake, AskMenu, Frames, LocalKinds
<1>2. log \in Seq(Frames)
  BY <1>1 DEF Init
<1>3. queue \in Seq(Entries)
  <2>1. \A i \in 1..Len(log) : Entry(log[i]) \in Entries
    BY <1>2, EntryType
  <2>2. queue \in [1..Len(log) -> Entries]
    BY <1>2, <2>1 DEF Init
  <2> QED BY <1>2, <2>2
<1>4. opening \in {"none", "requested", "negotiated", "failed"}
  BY Zenon DEF Init
<1>5. cap \in Nat
  BY FrameBufferAssumption DEF Init
<1>6. <<>> \in Seq(Frames \X Nat) /\ <<>> \in Seq(Frames)
  BY EmptySeq
<1> QED BY <1>2, <1>3, <1>4, <1>5, <1>6 DEF Init, TypeOK, Place

(* Stream::add and the answers queue frames.                                 *)
LEMMA EnqueueType ==
  ASSUME TypeOK, NEW kind \in LocalKinds, Enqueue(LocalFrame(kind))
  PROVE  log' \in Seq(Frames) /\ queue' \in Seq(Entries)
<1>1. LocalFrame(kind) \in Frames
  BY RpcStreamAssumption DEF LocalFrame, Frames, TypeOK
<1>2. Entry(LocalFrame(kind)) \in Entries
  BY <1>1, EntryType
<1> QED BY <1>1, <1>2, AppendProperties DEF Enqueue, TypeOK

(* What a cut leaves fits, with room, in a buffer that did not grow.         *)
LEMMA CutStep ==
  ASSUME IInv, NEW f \in Complete(data), Cut(f)
  PROVE  /\ data' \in Seq(Byte) /\ cap' \in Nat /\ got' \in Seq(Frames)
         /\ RoomToRead' /\ cap' <= cap
<1> USE DEF IInv, TypeOK, Byte
<1>1. data \in Seq(Byte) /\ cap \in Nat
  OBVIOUS
<1>2. f \in Frames /\ Size(f) \in 1..Len(data)
  BY <1>1, CutLemma
<1>3. data' \in Seq(Byte) /\ Len(data') = Len(data) - Size(f)
  BY <1>1, CutLemma DEF Cut
<1>4. got' \in Seq(Frames)
  BY <1>2, AppendProperties DEF Cut
<1> DEFINE p == NextPowerOfTwo(cap - Size(f))
<1>5. cap - Size(f) \in 1..cap /\ cap \in Nat \ {0}
  BY <1>1, <1>2 DEF RoomToRead
<1>6. p \in (cap - Size(f))..cap /\ IsPowerOfTwo(p)
  BY <1>5, NextPowerOfTwoBounds DEF RoomToRead
<1> HIDE DEF p
<1>7. cap' = IF p < InitialSize THEN InitialSize ELSE p
  BY DEF Cut, CapAfterCut, p
<1>8. InitialSize \in Nat \ {0} /\ IsPowerOfTwo(InitialSize) /\ InitialSize <= cap
  BY FrameBufferAssumption DEF RoomToRead
<1>9. cap' \in Nat /\ cap' <= cap /\ InitialSize <= cap' /\ p <= cap'
  BY <1>1, <1>6, <1>7, <1>8
<1>10. IsPowerOfTwo(cap')
  BY <1>6, <1>7, <1>8
<1>11. Len(data') < cap'
  BY <1>1, <1>2, <1>3, <1>5, <1>6, <1>9 DEF RoomToRead
<1> QED BY <1>3, <1>4, <1>9, <1>10, <1>11 DEF RoomToRead

(* A read stops at the end of the buffer; one that gets there doubles it.    *)
LEMMA FillStep ==
  ASSUME IInv, Fill
  PROVE  /\ data' \in Seq(Byte) /\ cap' \in Nat /\ rx' \in Seq(Byte)
         /\ RoomToRead'
         /\ Len(data') >= Len(data)
         /\ cap' > cap => cap' = 2 * cap /\ Len(data') = cap
<1> USE DEF IInv, TypeOK, Byte
<1> DEFINE room == Room(data, cap)
           n == IF Len(rx) < room THEN Len(rx) ELSE room
<1>1. data \in Seq(Byte) /\ rx \in Seq(Byte) /\ cap \in Nat /\ Len(data) < cap
  BY DEF RoomToRead
<1>2. n \in 0..Len(rx) /\ Len(data) + n <= cap
  BY <1>1 DEF Room
<1>3. /\ data' = data \o SubSeq(rx, 1, n)
      /\ rx' = SubSeq(rx, n + 1, Len(rx))
      /\ cap' = IF Len(data) + n < cap THEN cap ELSE 2 * cap
  BY DEF Fill, CapAfterRead
<1> HIDE DEF n
<1>4. SubSeq(rx, 1, n) \in Seq(Byte) /\ Len(SubSeq(rx, 1, n)) = n
  BY <1>1, <1>2, SubSeqType
<1>5. data' \in Seq(Byte) /\ Len(data') = Len(data) + n
  BY <1>1, <1>3, <1>4, ConcatProperties
<1>6. rx' \in Seq(Byte)
  <2>1. /\ n + 1 \in Nat \ {0} /\ Len(rx) \in 0..Len(rx) /\ rx \in Seq(Byte)
    BY <1>1, <1>2, LenProperties
  <2> QED BY <1>3, <2>1, SubSeqType
<1>7. IsPowerOfTwo(cap) /\ InitialSize <= cap /\ InitialSize \in Nat
  BY FrameBufferAssumption DEF RoomToRead
<1>8. IsPowerOfTwo(cap')
  <2>1. cap \in Nat \ {0} /\ IsPowerOfTwo(cap) BY <1>1, <1>2, <1>7, LenProperties
  <2>2. IsPowerOfTwo(2 * cap) BY ONLY <2>1, PowerOfTwoDoubles
  <2>3. cap' = cap \/ cap' = 2 * cap BY <1>3
  <2> QED BY <2>1, <2>2, <2>3
<1> QED BY <1>1, <1>2, <1>3, <1>5, <1>6, <1>7, <1>8 DEF RoomToRead

(* Every step keeps the types (stream.rs:54-92, state.rs:89-259).            *)
LEMMA NextType == IInv /\ [Next]_vars => TypeOK'
<1> SUFFICES ASSUME IInv, [Next]_vars PROVE TypeOK'
  OBVIOUS
<1> USE DEF IInv, TypeOK, Place, stream, buffer, written, task, wire, sink
<1> USE DEF Byte
<1>1. CASE RemoteSend
  <2>1. PICK f \in SentFrames : sent' = Append(sent, f) /\ net' = net \o Bytes(f)
    BY <1>1 DEF RemoteSend
  <2>2. f \in Frames
    BY RpcStreamAssumption DEF SentFrames, Frames
  <2>3. sent' \in Seq(Frames) /\ net' \in Seq(Byte)
    BY <2>1, <2>2, BytesType, ConcatProperties, AppendProperties
  <2> QED BY <1>1, <2>3 DEF RemoteSend
<1>2. CASE Arrive
  <2>1. PICK n \in 1..Len(net) : /\ rx' = rx \o SubSeq(net, 1, n)
                                 /\ net' = SubSeq(net, n + 1, Len(net))
    BY <1>2 DEF Arrive
  <2>2. SubSeq(net, 1, n) \in Seq(Byte) /\ SubSeq(net, n + 1, Len(net)) \in Seq(Byte)
    <3>1. /\ net \in Seq(Byte) /\ 1 \in Nat \ {0} /\ n + 1 \in Nat \ {0}
          /\ n \in 0..Len(net) /\ Len(net) \in 0..Len(net)
      BY LenProperties
    <3> HIDE DEF Byte
    <3> QED BY <3>1, SubSeqType
  <2>3. rx' \in Seq(Byte) /\ net' \in Seq(Byte)
    BY <2>1, <2>2, ConcatProperties
  <2> QED BY <1>2, <2>3 DEF Arrive
<1>3. CASE RemoteClose
  <2>1. PICK n \in 0..Len(net) : net' = SubSeq(net, 1, n)
    BY <1>3 DEF RemoteClose
  <2>2. net' \in Seq(Byte)
    BY <2>1, SubSeqType
  <2> QED BY <1>3, <2>2 DEF RemoteClose
<1>4. CASE Credit
  BY <1>4, RpcStreamAssumption DEF Credit
<1>5. CASE Negotiated
  <2>1. <<>> \in Seq(Byte)
    BY EmptySeq
  <2> QED BY <1>5, <2>1 DEF Negotiated
<1>6. CASE Add
  <2>1. log' \in Seq(Frames) /\ queue' \in Seq(Entries)
    <3> "query" \in LocalKinds
      BY DEF LocalKinds
    <3> QED BY <1>6, EnqueueType DEF Add
  <2> QED BY <1>6, <2>1 DEF Add
<1>7. CASE Request
  BY <1>7 DEF Request
<1>8. CASE Poll
  BY <1>8 DEF Poll
<1>9. CASE SkipSend
  BY <1>9 DEF SkipSend
<1>10. CASE Write
  <2> DEFINE e == Head(queue)
             left == Size(e.frame) - e.offset
             n == IF left < credit THEN left ELSE credit
  <2>1. e \in Entries /\ Tail(queue) \in Seq(Entries)
    BY <1>10, HeadTailProperties DEF Write
  <2>2. e.frame \in Frames /\ e.offset \in Nat /\ e.offset < Size(e.frame)
    BY <2>1 DEF Entries
  <2>3. Size(e.frame) \in Nat
    BY <2>2, BytesType
  <2>4. n \in Nat /\ n <= left /\ n <= credit /\ left \in Nat
    <3> HIDE DEF e
    <3> QED BY <2>2, <2>3
  <2>5. credit' \in Nat
    BY <1>10, <2>4 DEF Write
  <2>6. tx' \in Seq(Byte)
    <3> DEFINE piece == SubSeq(Bytes(e.frame), e.offset + 1, e.offset + n)
    <3>1. e.offset + n \in 0..Size(e.frame) /\ e.offset + 1 \in Nat \ {0}
      <4>1. n <= Size(e.frame) - e.offset /\ n \in Nat
        BY <2>4
      <4>2. ASSUME NEW o \in Nat, NEW k \in Nat, NEW z \in Nat, k <= z - o
            PROVE  o + k \in 0..z /\ o + 1 \in Nat \ {0}
        BY <4>2
      <4> HIDE DEF e, n
      <4> QED BY <2>2, <2>3, <4>1, <4>2
    <3>2. piece \in Seq(Byte)
      BY <2>2, <3>1, BytesType, SubSeqType
    <3>3. tx' = tx \o piece
      BY <1>10 DEF Write
    <3> QED BY <3>2, <3>3, ConcatProperties
  <2>7. queue' \in Seq(Entries)
    <3>1. CASE n = left
      BY <1>10, <2>1, <3>1 DEF Write
    <3>2. CASE n # left
      <4> DEFINE rest == [e EXCEPT !.offset = @ + n]
      <4>1. rest \in Entries
        <5> HIDE DEF e, n
        <5>1. rest = [offset |-> e.offset + n, frame |-> e.frame]
          BY <2>1 DEF Entries
        <5>2. e.offset + n \in Nat /\ e.offset + n < Size(e.frame)
          BY <2>2, <2>3, <2>4, <3>2
        <5> QED BY <2>2, <5>1, <5>2 DEF Entries
      <4>2. queue' = [queue EXCEPT ![1] = rest]
        <5>1. queue' = [queue EXCEPT ![1].offset = @ + n]
          BY <1>10, <3>2 DEF Write
        <5>2. queue[1] = e
          BY <1>10 DEF Write
        <5> HIDE DEF n, e
        <5> QED BY <5>1, <5>2
      <4>3. 1 \in 1..Len(queue)
        BY <1>10 DEF Write
      <4> QED BY <4>1, <4>2, <4>3, ExceptSeq
    <3> QED BY <3>1, <3>2
  <2> QED BY <1>10, <2>5, <2>6, <2>7 DEF Write
<1>11. CASE WriteBlocked
  BY <1>11 DEF WriteBlocked
<1>12. CASE WriteFails
  BY <1>12 DEF WriteFails, Fail
<1>13. CASE Answer
  <2>1. PICK f \in Complete(data) : /\ Cut(f)
                                    /\ \/ Enqueue(LocalFrame("heartbeat"))
                                       \/ Enqueue(LocalFrame("menuAnswer"))
    BY <1>13 DEF Answer
  <2>2. data' \in Seq(Byte) /\ cap' \in Nat /\ got' \in Seq(Frames)
    BY <2>1, CutStep
  <2>3. log' \in Seq(Frames) /\ queue' \in Seq(Entries)
    <3> "heartbeat" \in LocalKinds /\ "menuAnswer" \in LocalKinds
      BY DEF LocalKinds
    <3> QED BY <2>1, EnqueueType
  <2> QED BY <1>13, <2>2, <2>3 DEF Answer
<1>14. CASE Deliver
  <2>1. PICK f \in Complete(data) : Cut(f)
    BY <1>14 DEF Deliver
  <2>2. data' \in Seq(Byte) /\ cap' \in Nat /\ got' \in Seq(Frames)
    BY <2>1, CutStep
  <2> QED BY <1>14, <2>2 DEF Deliver
<1>15. CASE ParseFails
  <2>1. PICK f \in Complete(data) : got' = Append(got, f)
    BY <1>15 DEF ParseFails
  <2>2. got' \in Seq(Frames)
    BY <2>1, CutLemma, AppendProperties
  <2> QED BY <1>15, <2>2 DEF ParseFails, Fail
<1>16. CASE NoFrame
  BY <1>16 DEF NoFrame
<1>17. CASE Fill
  <2>1. data' \in Seq(Byte) /\ cap' \in Nat /\ rx' \in Seq(Byte)
    BY <1>17, FillStep
  <2>2. pc' \in {"recv", "fill"}
    BY <1>17 DEF Fill
  <2> QED BY <1>17, <2>1, <2>2 DEF Fill
<1>18. CASE FillBlocked
  BY <1>18 DEF FillBlocked
<1>19. CASE Reopen
  BY <1>19 DEF Reopen
<1>20. CASE Eof
  BY <1>20 DEF Eof, Fail
<1>21. CASE UNCHANGED vars
  BY <1>21 DEF vars
<1> QED
  BY <1>1, <1>2, <1>3, <1>4, <1>5, <1>6, <1>7, <1>8, <1>9, <1>10, <1>11, <1>12,
     <1>13, <1>14, <1>15, <1>16, <1>17, <1>18, <1>19, <1>20, <1>21
  DEF Next, Environment, Task

(* Only cuts and reads touch the buffer.                                     *)
LEMMA BufferStep ==
  ASSUME IInv, [Next]_vars
  PROVE  \/ UNCHANGED buffer
         \/ \E f \in Complete(data) : Cut(f)
         \/ Fill
<1> USE DEF buffer, stream, written, task, wire, sink
<1>1. CASE Environment
  BY <1>1 DEF Environment, RemoteSend, Arrive, RemoteClose, Credit, Negotiated, Add
<1>2. CASE Task
  BY <1>2 DEF Task, Request, Poll, SkipSend, Write, WriteBlocked, WriteFails,
              Fail, Answer, Deliver, ParseFails, NoFrame, FillBlocked, Reopen, Eof
<1>3. CASE UNCHANGED vars
  BY <1>3 DEF vars
<1> QED BY <1>1, <1>2, <1>3 DEF Next

(* Every step leaves room in the buffer (state.rs:95-101, 120-122).          *)
LEMMA NextRoom == IInv /\ [Next]_vars => RoomToRead'
<1> SUFFICES ASSUME IInv, [Next]_vars PROVE RoomToRead'
  OBVIOUS
<1>1. CASE UNCHANGED buffer
  BY <1>1 DEF buffer, IInv, RoomToRead
<1>2. CASE \E f \in Complete(data) : Cut(f)
  BY <1>2, CutStep
<1>3. CASE Fill
  BY <1>3, FillStep
<1> QED BY <1>1, <1>2, <1>3, BufferStep

(* A new buffer is empty and has INITIAL_SIZE bytes (state.rs:77-84).        *)
LEMMA InitRoom == Init => RoomToRead
<1> SUFFICES ASSUME Init PROVE RoomToRead
  OBVIOUS
<1>1. data = <<>> /\ cap = InitialSize
  BY DEF Init
<1> QED BY <1>1, FrameBufferAssumption DEF RoomToRead

(* The conjunction of types and room holds always: neither does without the  *)
(* other, as a frame cut or read has its type only in a buffer that has      *)
(* room, and the other way round (state.rs:89-128).                          *)
LEMMA Invariance == Spec => []IInv
<1>1. Init => IInv
  BY InitType, InitRoom DEF IInv
<1>2. IInv /\ [Next]_vars => IInv'
  BY NextType, NextRoom DEF IInv
<1> QED BY <1>1, <1>2, PTL DEF Spec

(* Every variable of a stream always has its type: in particular what        *)
(* try_cut takes for a message is one even where the buffer does not start   *)
(* at a frame (state.rs:105-128).                                            *)
THEOREM TypeCorrect == Spec => []TypeOK
<1>1. IInv => TypeOK
  BY DEF IInv
<1> QED BY <1>1, Invariance, PTL

(* poll_read always gets a slice that is not empty, so that a zero it        *)
(* returns means the end of the substream (state.rs:95-100, 120-122).        *)
THEOREM RoomAlways == Spec => []RoomToRead
<1>1. IInv => RoomToRead
  BY DEF IInv
<1> QED BY <1>1, Invariance, PTL

(* The buffer grows only when it is full, to its double, and shrinks or      *)
(* stays when a message is cut (state.rs:97-100, 120-122).                   *)
THEOREM BufferGrowth == Spec => CapStep
<1> DEFINE Step == /\ cap' > cap => cap' = 2 * cap /\ Len(data') = cap
                   /\ Len(data') < Len(data) => cap' <= cap
<1>1. IInv /\ [Next]_vars => [Step]_vars
  <2> SUFFICES ASSUME IInv, [Next]_vars PROVE Step
    OBVIOUS
  <2>0. cap \in Nat /\ Len(data) \in Nat
    BY DEF IInv, TypeOK
  <2>1. CASE UNCHANGED buffer
    BY <2>0, <2>1 DEF buffer
  <2>2. CASE \E f \in Complete(data) : Cut(f)
    <3>1. cap' \in Nat /\ cap' <= cap
      BY <2>2, CutStep
    <3> QED BY <2>0, <3>1
  <2>3. CASE Fill
    <3>1. /\ Len(data') >= Len(data) /\ Len(data') \in Nat
          /\ cap' > cap => cap' = 2 * cap /\ Len(data') = cap
      BY <2>3, FillStep
    <3> QED BY <2>0, <3>1
  <2> QED BY <2>1, <2>2, <2>3, BufferStep
<1> QED BY <1>1, Invariance, PTL DEF Spec, CapStep

-----------------------------------------------------------------------------
(* Bytes that are frames one after the other.                                *)

Owner(b, i) == b[i][1]
Pos(b, i)   == b[i][2]

(* Each byte lies in a block of bytes of its frame, of which the end of b    *)
(* may cut off a part; the blocks are the frames of s after the first g.     *)
InBlock(b, i, f, k) ==
  /\ f \in Frames /\ k \in 1..Size(f) /\ k <= i
  /\ \A j \in 1..Size(f) :
       (i - k) + j <= Len(b) => Owner(b, (i - k) + j) = f /\ Pos(b, (i - k) + j) = j

InTurn(b, i, f, k, s, g) ==
  /\ f.n \in 1..Len(s) /\ s[f.n] = f
  /\ i = 1 => f.n = g + 1
  /\ k = Size(f) /\ i < Len(b) => Owner(b, i + 1).n = f.n + 1

Chained(b, s, g) ==
  \A i \in 1..Len(b) : /\ InBlock(b, i, Owner(b, i), Pos(b, i))
                       /\ InTurn(b, i, Owner(b, i), Pos(b, i), s, g)

(* Nothing of the last frame of s is cut off.                                *)
Whole(b, s, g) ==
  IF Len(b) = 0 THEN g = Len(s)
  ELSE Pos(b, Len(b)) = Size(Owner(b, Len(b))) /\ Owner(b, Len(b)).n = Len(s)

(* The bytes of a frame are its own, in order (state.rs:89-128).             *)
LEMMA FrameBytes ==
  ASSUME NEW b \in Seq(Byte), NEW f \in Frames
  PROVE  LET c == b \o Bytes(f) IN
         /\ c \in Seq(Byte) /\ Len(c) = Len(b) + Size(f) /\ Size(f) \in Nat \ {0}
         /\ \A i \in 1..Len(b) : Owner(c, i) = Owner(b, i) /\ Pos(c, i) = Pos(b, i)
         /\ \A k \in 1..Size(f) : Owner(c, Len(b) + k) = f /\ Pos(c, Len(b) + k) = k
<1> DEFINE c == b \o Bytes(f)
<1>1. /\ Size(f) \in Nat \ {0} /\ Bytes(f) \in Seq(Byte) /\ Len(Bytes(f)) = Size(f)
      /\ Len(b) \in Nat
  BY BytesType
<1>2. /\ c \in Seq(Byte) /\ Len(c) = Len(b) + Size(f)
      /\ \A i \in 1..(Len(b) + Size(f)) :
           c[i] = IF i <= Len(b) THEN b[i] ELSE Bytes(f)[i - Len(b)]
  BY <1>1, ConcatProperties
<1>3. \A k \in 1..Size(f) : Bytes(f)[k] = <<f, k>> BY DEF Bytes
<1> HIDE DEF c
<1>4. \A i \in 1..Len(b) : c[i] = b[i] BY <1>1, <1>2
<1>5. ASSUME NEW k \in 1..Size(f) PROVE c[Len(b) + k] = <<f, k>>
  <2>1. /\ Len(b) + k \in 1..(Len(b) + Size(f)) /\ ~(Len(b) + k <= Len(b))
        /\ (Len(b) + k) - Len(b) = k
    BY <1>1
  <2> QED BY <1>2, <1>3, <2>1
<1> QED BY <1>1, <1>2, <1>4, <1>5 DEF Owner, Pos, c

(* The last frame of whole bytes is whole.                                   *)
LEMMA BlockEnds ==
  ASSUME NEW b \in Seq(Byte), NEW s, NEW g, Chained(b, s, g), Whole(b, s, g),
         NEW i \in 1..Len(b)
  PROVE  (i - Pos(b, i)) + Size(Owner(b, i)) <= Len(b)
<1> DEFINE f == Owner(b, i)
           k == Pos(b, i)
           z == Size(f)
           m == Len(b)
<1>1. InBlock(b, i, f, k) BY DEF Chained
<1>2. z \in Nat \ {0} /\ m \in Nat \ {0} BY <1>1, BytesType DEF InBlock
<1>3. k \in 1..z /\ k <= i BY <1>1 DEF InBlock
<1>4. \A j \in 1..z : (i - k) + j <= m => Owner(b, (i - k) + j) = f /\ Pos(b, (i - k) + j) = j
  BY <1>1 DEF InBlock
<1>5. Pos(b, m) = Size(Owner(b, m)) BY <1>2 DEF Whole
<1> HIDE DEF k, m
<1> SUFFICES ASSUME (i - k) + z > m PROVE FALSE
  BY <1>2, <1>3 DEF k, m
<1>6. m - (i - k) \in 1..z /\ m - (i - k) # z /\ (i - k) + (m - (i - k)) = m
  BY <1>2, <1>3 DEF m
<1>7. (i - k) + (m - (i - k)) <= m BY <1>2, <1>6
<1>8. Owner(b, m) = f /\ Pos(b, m) = m - (i - k) BY <1>4, <1>6, <1>7
<1> QED BY <1>5, <1>6, <1>8

(* The remote sends its next frame.                                          *)
LEMMA ChainAppend ==
  ASSUME NEW b \in Seq(Byte), NEW s \in Seq(Frames), NEW g \in Nat, NEW f \in Frames,
         Chained(b, s, g), Whole(b, s, g), f.n = Len(s) + 1
  PROVE  Chained(b \o Bytes(f), Append(s, f), g) /\ Whole(b \o Bytes(f), Append(s, f), g)
<1> DEFINE c == b \o Bytes(f)
           t == Append(s, f)
           m == Len(b)
           z == Size(f)
<1>1. /\ c \in Seq(Byte) /\ Len(c) = m + z /\ z \in Nat \ {0} /\ m \in Nat
      /\ \A i \in 1..m : Owner(c, i) = Owner(b, i) /\ Pos(c, i) = Pos(b, i)
      /\ \A k \in 1..z : Owner(c, m + k) = f /\ Pos(c, m + k) = k
  BY FrameBytes
<1>2. /\ Len(t) = Len(s) + 1 /\ Len(s) \in Nat /\ t[Len(s) + 1] = f
      /\ \A n \in 1..Len(s) : t[n] = s[n]
  BY AppendProperties
<1>3. \A i \in 1..m : (i - Pos(b, i)) + Size(Owner(b, i)) <= m
  BY BlockEnds
<1>4. \A i \in 1..m : InBlock(b, i, Owner(b, i), Pos(b, i))
                      /\ InTurn(b, i, Owner(b, i), Pos(b, i), s, g)
  BY DEF Chained
<1>5. m = 0 => g = Len(s) BY DEF Whole
<1>6. m # 0 => Owner(b, m).n = Len(s) BY DEF Whole
<1>7. f.n = Len(s) + 1 OBVIOUS
<1> HIDE DEF c, t, m, z
<1>8. ASSUME NEW i \in 1..m
      PROVE  InBlock(c, i, Owner(c, i), Pos(c, i)) /\ InTurn(c, i, Owner(c, i), Pos(c, i), t, g)
  <2> DEFINE e == Owner(b, i)
             k == Pos(b, i)
  <2>1. Owner(c, i) = e /\ Pos(c, i) = k BY <1>1
  <2>2. InBlock(b, i, e, k) /\ InTurn(b, i, e, k, s, g) /\ (i - k) + Size(e) <= m
    BY <1>3, <1>4
  <2>3. Size(e) \in Nat BY <2>2, BytesType DEF InBlock
  <2>4. k \in 1..Size(e) /\ k <= i BY <2>2 DEF InBlock
  <2> HIDE DEF e, k
  <2>5. ASSUME NEW j \in 1..Size(e)
        PROVE  Owner(c, (i - k) + j) = e /\ Pos(c, (i - k) + j) = j
    <3>1. (i - k) + j \in 1..m BY <1>1, <2>2, <2>3, <2>4
    <3>2. Owner(b, (i - k) + j) = e /\ Pos(b, (i - k) + j) = j
      <4>1. (i - k) + j <= Len(b) BY <3>1 DEF m
      <4> QED BY <2>2, <4>1 DEF InBlock
    <3> QED BY <1>1, <3>1, <3>2
  <2>6. InBlock(c, i, e, k) BY <2>2, <2>4, <2>5 DEF InBlock
  <2>7. e.n \in 1..Len(t) /\ t[e.n] = e BY <1>2, <2>2 DEF InTurn
  <2>8. i = 1 => e.n = g + 1 BY <2>2 DEF InTurn
  <2>9. k = Size(e) => Owner(c, i + 1).n = e.n + 1
    <3>1. CASE i < m
      <4>1. i + 1 \in 1..m BY <1>1, <3>1
      <4>2. k = Size(e) => Owner(b, i + 1).n = e.n + 1 BY <2>2, <3>1 DEF InTurn, m
      <4> QED BY <1>1, <4>1, <4>2
    <3>2. CASE i = m
      <4>1. e.n = Len(s) BY <1>1, <1>6, <3>2 DEF e
      <4>2. 1 \in 1..z BY <1>1
      <4> QED BY <1>1, <1>7, <3>2, <4>1, <4>2
    <3> QED BY <1>1, <3>1, <3>2
  <2> QED BY <2>1, <2>6, <2>7, <2>8, <2>9 DEF InTurn
<1>9. ASSUME NEW k \in 1..z
      PROVE  /\ InBlock(c, m + k, Owner(c, m + k), Pos(c, m + k))
             /\ InTurn(c, m + k, Owner(c, m + k), Pos(c, m + k), t, g)
  <2>1. Owner(c, m + k) = f /\ Pos(c, m + k) = k BY <1>1
  <2>2. (m + k) - k = m /\ k <= m + k /\ ~(k = z /\ m + k < m + z) BY <1>1
  <2>3. InBlock(c, m + k, f, k) BY <1>1, <2>2 DEF InBlock, z
  <2>4. m + k = 1 => m = 0 BY <1>1
  <2>5. f.n \in 1..Len(t) /\ t[f.n] = f /\ (m + k = 1 => f.n = g + 1)
    BY <1>2, <1>5, <1>7, <2>4
  <2>6. ~(k = Size(f) /\ m + k < Len(c)) BY <1>1, <2>2 DEF z
  <2>7. InTurn(c, m + k, f, k, t, g) BY <2>5, <2>6 DEF InTurn
  <2> QED BY <2>1, <2>3, <2>7
<1>10. \A i \in 1..(m + z) : i \in 1..m \/ (i - m \in 1..z /\ m + (i - m) = i)
  BY <1>1
<1>11. Chained(c, t, g)
  <2> SUFFICES ASSUME NEW i \in 1..(m + z)
               PROVE  /\ InBlock(c, i, Owner(c, i), Pos(c, i))
                      /\ InTurn(c, i, Owner(c, i), Pos(c, i), t, g)
    BY <1>1 DEF Chained
  <2>1. CASE i \in 1..m BY <1>8, <2>1
  <2>2. CASE i - m \in 1..z /\ m + (i - m) = i
    <3> DEFINE k == i - m
    <3>1. k \in 1..z /\ m + k = i BY <2>2
    <3> HIDE DEF k
    <3> QED BY <1>9, <3>1
  <2> QED BY <1>10, <2>1, <2>2
<1>12. Whole(c, t, g)
  <2>1. z \in 1..z /\ m + z # 0 BY <1>1
  <2> QED BY <1>1, <1>2, <1>7, <2>1 DEF Whole, z
<1> QED BY <1>11, <1>12 DEF c, t

(* A reset of the substream cuts off an end of the bytes.                    *)
LEMMA ChainPrefix ==
  ASSUME NEW b, NEW c, NEW s, NEW g, Chained(b, s, g),
         Len(b) \in Nat, Len(c) \in Nat, Len(c) <= Len(b), \A i \in 1..Len(c) : c[i] = b[i]
  PROVE  Chained(c, s, g)
<1> SUFFICES ASSUME NEW i \in 1..Len(c)
             PROVE  /\ InBlock(c, i, Owner(c, i), Pos(c, i))
                    /\ InTurn(c, i, Owner(c, i), Pos(c, i), s, g)
  BY DEF Chained
<1> DEFINE f == Owner(b, i)
           k == Pos(b, i)
<1>1. i \in 1..Len(b) OBVIOUS
<1>2. InBlock(b, i, f, k) /\ InTurn(b, i, f, k, s, g) BY <1>1 DEF Chained
<1>3. \A j \in 1..Len(c) : Owner(c, j) = Owner(b, j) /\ Pos(c, j) = Pos(b, j)
  BY DEF Owner, Pos
<1>4. Owner(c, i) = f /\ Pos(c, i) = k BY <1>3
<1> HIDE DEF f, k
<1>5. k \in 1..Size(f) /\ k <= i /\ Size(f) \in Nat BY <1>2, BytesType DEF InBlock
<1>6. ASSUME NEW j \in 1..Size(f), (i - k) + j <= Len(c)
      PROVE  Owner(c, (i - k) + j) = f /\ Pos(c, (i - k) + j) = j
  <2>1. (i - k) + j \in 1..Len(c) /\ (i - k) + j <= Len(b) BY <1>5, <1>6
  <2>2. Owner(b, (i - k) + j) = f /\ Pos(b, (i - k) + j) = j BY <1>2, <2>1 DEF InBlock
  <2> QED BY <1>3, <2>1, <2>2
<1>7. InBlock(c, i, f, k) BY <1>2, <1>5, <1>6 DEF InBlock
<1>8. ASSUME i < Len(c) PROVE i + 1 \in 1..Len(c) /\ i < Len(b)
  BY <1>8
<1>9. InTurn(c, i, f, k, s, g) BY <1>2, <1>3, <1>8 DEF InTurn
<1> QED BY <1>4, <1>7, <1>9

(* The first byte begins the next frame.                                     *)
LEMMA ChainFirst ==
  ASSUME NEW b, NEW s, NEW g, Chained(b, s, g), Len(b) \in Nat, Len(b) > 0
  PROVE  LET f == Owner(b, 1) IN
         /\ f \in Frames /\ Size(f) \in Nat \ {0}
         /\ \A k \in 1..Size(f) : k <= Len(b) => Owner(b, k) = f /\ Pos(b, k) = k
         /\ f.n \in 1..Len(s) /\ s[f.n] = f /\ f.n = g + 1
<1> DEFINE f == Owner(b, 1)
<1>1. 1 \in 1..Len(b) OBVIOUS
<1>2. InBlock(b, 1, f, Pos(b, 1)) /\ InTurn(b, 1, f, Pos(b, 1), s, g) BY <1>1 DEF Chained
<1>3. f \in Frames /\ Size(f) \in Nat \ {0} BY <1>2, BytesType DEF InBlock
<1>4. Pos(b, 1) = 1 BY <1>2, <1>3 DEF InBlock
<1>5. ASSUME NEW k \in 1..Size(f), k <= Len(b) PROVE Owner(b, k) = f /\ Pos(b, k) = k
  <2>1. (1 - 1) + k = k BY <1>3
  <2> QED BY <1>2, <1>4, <1>5, <2>1 DEF InBlock
<1>6. f.n \in 1..Len(s) /\ s[f.n] = f /\ f.n = g + 1 BY <1>2 DEF InTurn
<1> QED BY <1>3, <1>5, <1>6

(* The first frame is cut off (state.rs:113-126).                            *)
LEMMA ChainCut ==
  ASSUME NEW b, NEW c, NEW s, NEW g \in Nat, NEW f, Chained(b, s, g),
         Len(b) \in Nat, f = Owner(b, 1), Size(f) <= Len(b), Len(b) > 0,
         Len(c) = Len(b) - Size(f), \A i \in 1..Len(c) : c[i] = b[i + Size(f)]
  PROVE  /\ f.n = g + 1 /\ f.n \in 1..Len(s) /\ s[f.n] = f
         /\ Chained(c, s, g + 1)
         /\ Whole(b, s, g) => Whole(c, s, g + 1)
<1> DEFINE z == Size(f)
           n == Len(c)
<1>1. /\ f \in Frames /\ z \in Nat \ {0} /\ f.n = g + 1 /\ f.n \in 1..Len(s) /\ s[f.n] = f
      /\ \A k \in 1..z : k <= Len(b) => Owner(b, k) = f /\ Pos(b, k) = k
  BY ChainFirst
<1>2. n \in Nat /\ Len(b) = n + z BY <1>1
<1>3. \A k \in 1..z : Owner(b, k) = f /\ Pos(b, k) = k BY <1>1, <1>2
<1>4. \A i \in 1..n : Owner(c, i) = Owner(b, i + z) /\ Pos(c, i) = Pos(b, i + z)
  BY DEF Owner, Pos
<1>5. \A i \in 1..(n + z) : InBlock(b, i, Owner(b, i), Pos(b, i))
                            /\ InTurn(b, i, Owner(b, i), Pos(b, i), s, g)
  BY <1>2 DEF Chained
<1> HIDE DEF z, n
<1>6. ASSUME NEW i \in 1..n
      PROVE  /\ InBlock(c, i, Owner(c, i), Pos(c, i))
             /\ InTurn(c, i, Owner(c, i), Pos(c, i), s, g + 1)
  <2> DEFINE e == Owner(b, i + z)
             k == Pos(b, i + z)
             x == i + z
  <2>1. x \in 1..(n + z) /\ Owner(c, i) = e /\ Pos(c, i) = k BY <1>1, <1>2, <1>4
  <2>2. InBlock(b, x, e, k) /\ InTurn(b, x, e, k, s, g) BY <1>5, <2>1
  <2>3. x \in Nat /\ x = i + z BY <1>1
  <2> HIDE DEF e, k, x
  <2>4. e \in Frames /\ Size(e) \in Nat /\ k \in 1..Size(e) /\ k <= x
    BY <2>2, BytesType DEF InBlock
  <2>5. \A j \in 1..Size(e) :
          (x - k) + j <= n + z => Owner(b, (x - k) + j) = e /\ Pos(b, (x - k) + j) = j
    BY <1>2, <2>2 DEF InBlock
  <2>6. k <= i
    <3> SUFFICES ASSUME k > i PROVE FALSE BY <2>4
    <3>1. (x - k) + 1 \in 1..z /\ 1 \in 1..Size(e) /\ (x - k) + 1 <= n + z
      BY <1>1, <1>2, <2>3, <2>4
    <3>2. Owner(b, (x - k) + 1) = e /\ Pos(b, (x - k) + 1) = 1 BY <2>5, <3>1
    <3>3. Owner(b, (x - k) + 1) = f /\ Pos(b, (x - k) + 1) = (x - k) + 1 BY <1>3, <3>1
    <3>4. e = f /\ x = k BY <2>3, <2>4, <3>2, <3>3
    <3> QED BY <1>1, <2>3, <2>4, <3>4 DEF z
  <2>7. ASSUME NEW j \in 1..Size(e), (i - k) + j <= n
        PROVE  Owner(c, (i - k) + j) = e /\ Pos(c, (i - k) + j) = j
    <3>1. /\ (i - k) + j \in 1..n /\ ((i - k) + j) + z = (x - k) + j
          /\ (x - k) + j <= n + z
      BY <1>1, <1>2, <2>3, <2>4, <2>6, <2>7
    <3> QED BY <1>4, <2>5, <3>1
  <2>8. InBlock(c, i, e, k) BY <2>4, <2>6, <2>7 DEF InBlock, n
  <2>9. e.n \in 1..Len(s) /\ s[e.n] = e BY <2>2 DEF InTurn
  <2>10. ASSUME i = 1 PROVE e.n = (g + 1) + 1
    <3>1. z \in 1..(n + z) /\ z \in 1..z /\ x = z + 1 /\ z < n + z
      BY <1>1, <1>2, <2>3, <2>10
    <3>2. Owner(b, z) = f /\ Pos(b, z) = z BY <1>3, <3>1
    <3>3. InTurn(b, z, f, z, s, g) BY <1>5, <3>1, <3>2
    <3>4. Owner(b, z + 1).n = f.n + 1 BY <1>2, <3>1, <3>3 DEF InTurn, z
    <3> QED BY <1>1, <3>1, <3>4 DEF e, x
  <2>11. ASSUME k = Size(e), i < n PROVE Owner(c, i + 1).n = e.n + 1
    <3>1. i + 1 \in 1..n /\ (i + 1) + z = x + 1 /\ x < n + z
      BY <1>1, <1>2, <2>3, <2>11
    <3>2. Owner(b, x + 1).n = e.n + 1 BY <1>2, <2>2, <2>11, <3>1 DEF InTurn
    <3> QED BY <1>4, <3>1, <3>2
  <2>12. InTurn(c, i, e, k, s, g + 1) BY <2>9, <2>10, <2>11 DEF InTurn, n
  <2> QED BY <2>1, <2>8, <2>12
<1>7. Chained(c, s, g + 1) BY <1>6 DEF Chained, n
<1>8. ASSUME Whole(b, s, g) PROVE Whole(c, s, g + 1)
  <2>1. Pos(b, n + z) = Size(Owner(b, n + z)) /\ Owner(b, n + z).n = Len(s)
    BY <1>1, <1>2, <1>8 DEF Whole
  <2>2. CASE n = 0
    <3>1. Owner(b, z) = f /\ n + z = z BY <1>1, <1>3, <2>2
    <3> QED BY <1>1, <2>1, <2>2, <3>1 DEF Whole, n
  <2>3. CASE n # 0
    <3>1. n \in 1..n BY <1>2, <2>3
    <3> QED BY <1>4, <2>1, <2>3, <3>1 DEF Whole, n
  <2> QED BY <2>2, <2>3
<1> QED BY <1>1, <1>7, <1>8

(* What try_cut finds at the front of the buffer is the next frame, once it  *)
(* is there in full, and nothing before that (state.rs:103-116).             *)
LEMMA NextFrame ==
  ASSUME NEW d, NEW b, NEW s, NEW g, Chained(b, s, g),
         Len(b) \in Nat, Len(d) \in Nat, Len(d) <= Len(b),
         \A i \in 1..Len(d) : d[i] = b[i] /\ d[i] = <<Owner(b, i), Pos(b, i)>>
  PROVE  /\ \A f \in Complete(d) : f = Owner(b, 1) /\ Size(f) <= Len(d) /\ Len(d) > 0
         /\ Incomplete(d) => Complete(d) = {}
<1>1. CASE Len(d) < Header
  <2>1. Decodings(d) = {} BY <1>1 DEF Decodings
  <2> QED BY <2>1 DEF Complete
<1>2. CASE ~(Len(d) < Header)
  <2> DEFINE f == Owner(b, 1)
  <2>1. Header \in Nat \ {0} /\ Len(d) > 0 /\ Len(b) > 0 BY <1>2, FrameBufferAssumption
  <2>2. /\ f \in Frames /\ Size(f) \in Nat \ {0}
        /\ \A k \in 1..Size(f) : k <= Len(b) => Owner(b, k) = f /\ Pos(b, k) = k
    BY <2>1, ChainFirst
  <2>3. Header <= Size(f)
    <3>1. f.len \in Nat BY <2>2, FrameBufferAssumption DEF Frames
    <3> QED BY <2>1, <3>1 DEF Size
  <2>4. d[1][1] = f
    <3>1. 1 \in 1..Len(d) BY <2>1
    <3>2. d[1] = b[1] BY <3>1
    <3> QED BY <3>2 DEF Owner
  <2> HIDE DEF f
  <2>5. \A k \in 1..Size(f) : k <= Len(d) => d[k] = <<f, k>>
    <3> SUFFICES ASSUME NEW k \in 1..Size(f), k <= Len(d) PROVE d[k] = <<f, k>>
      OBVIOUS
    <3>1. k \in 1..Len(d) /\ k <= Len(b) BY <2>2
    <3> QED BY <2>2, <3>1
  <2>6. \A k \in 1..Header : d[k] = <<f, k>>
    <3>1. \A k \in 1..Header : k \in 1..Size(f) /\ k <= Len(d) BY <1>2, <2>1, <2>2, <2>3
    <3> QED BY <2>5, <3>1
  <2>7. Decodings(d) = {f} BY <1>2, <2>4, <2>5, <2>6 DEF Decodings
  <2>8. Incomplete(d) => Complete(d) = {} BY <2>7 DEF Incomplete, Complete
  <2> QED BY <2>1, <2>7, <2>8 DEF Complete, f
<1> QED BY <1>1, <1>2

-----------------------------------------------------------------------------
(* The bytes of a stream, from the front of its buffer to those the remote   *)
(* wrote last.                                                               *)
Wire == (data \o rx) \o net

LEMMA WireType ==
  ASSUME TypeOK
  PROVE  /\ Wire \in Seq(Byte) /\ Len(Wire) \in Nat
         /\ Len(Wire) = Len(data) + Len(rx) + Len(net)
         /\ \A i \in 1..Len(data) :
              Wire[i] = data[i] /\ data[i] = <<Owner(Wire, i), Pos(Wire, i)>>
<1>1. data \in Seq(Byte) /\ rx \in Seq(Byte) /\ net \in Seq(Byte)
  BY DEF TypeOK, Byte
<1> DEFINE a == data \o rx
<1>2. /\ a \in Seq(Byte) /\ Len(a) = Len(data) + Len(rx)
      /\ \A i \in 1..(Len(data) + Len(rx)) :
           a[i] = IF i <= Len(data) THEN data[i] ELSE rx[i - Len(data)]
  BY <1>1, ConcatProperties
<1> HIDE DEF a
<1>3. /\ a \o net \in Seq(Byte) /\ Len(a \o net) = Len(a) + Len(net)
      /\ \A i \in 1..(Len(a) + Len(net)) :
           (a \o net)[i] = IF i <= Len(a) THEN a[i] ELSE net[i - Len(a)]
  <2>1. a \in Seq(Byte) /\ net \in Seq(Byte) BY <1>1, <1>2
  <2> QED BY <2>1, ConcatProperties
<1>4. Wire = a \o net BY DEF Wire, a
<1>5. Len(data) \in Nat /\ Len(rx) \in Nat /\ Len(net) \in Nat BY <1>1
<1>6. Len(Wire) = Len(data) + Len(rx) + Len(net) BY <1>2, <1>3, <1>4
<1>7. ASSUME NEW i \in 1..Len(data)
      PROVE  Wire[i] = data[i] /\ data[i] = <<Owner(Wire, i), Pos(Wire, i)>>
  <2>1. /\ i \in 1..(Len(data) + Len(rx)) /\ i <= Len(data) /\ i <= Len(a)
        /\ i \in 1..(Len(a) + Len(net))
    BY <1>2, <1>5
  <2>2. Wire[i] = data[i] BY <1>2, <1>3, <1>4, <2>1
  <2>3. data[i] \in Byte BY <1>1
  <2>4. data[i] = <<data[i][1], data[i][2]>> BY <2>3 DEF Byte
  <2> QED BY <2>2, <2>4 DEF Owner, Pos
<1> QED BY <1>3, <1>4, <1>5, <1>6, <1>7

LEMMA Assoc ==
  \A a, b, c \in Seq(Byte) : a \o (b \o c) = (a \o b) \o c
<1> SUFFICES ASSUME NEW a \in Seq(Byte), NEW b \in Seq(Byte), NEW c \in Seq(Byte)
             PROVE  a \o (b \o c) = (a \o b) \o c
  OBVIOUS
<1> QED BY ConcatAssociative, SMTT(60)

LEMMA Split ==
  ASSUME NEW q \in Seq(Byte), NEW n \in 0..Len(q)
  PROVE  /\ SubSeq(q, 1, n) \in Seq(Byte) /\ SubSeq(q, n + 1, Len(q)) \in Seq(Byte)
         /\ SubSeq(q, 1, n) \o SubSeq(q, n + 1, Len(q)) = q
<1>1. SubSeq(q, 1, n) \in Seq(Byte) /\ SubSeq(q, n + 1, Len(q)) \in Seq(Byte)
  <2>1. Len(q) \in 0..Len(q) /\ n + 1 \in Nat \ {0} OBVIOUS
  <2> QED BY <2>1, SubSeqType
<1>2. SubSeq(q, 1, n) \o SubSeq(q, n + 1, Len(q)) = SubSeq(q, 1, Len(q))
  <2>1. 1 \in 1..(Len(q) + 1) /\ n \in (1 - 1)..Len(q) /\ Len(q) \in n..Len(q)
    OBVIOUS
  <2> QED BY <2>1, ConcatAdjacentSubSeq
<1> QED BY <1>1, <1>2, SubSeqFull

(* Bytes that arrive or are read only move on.                               *)
LEMMA MovedWire ==
  ASSUME TypeOK, RoomToRead, Arrive \/ Fill
  PROVE  Wire' = Wire
<1>1. data \in Seq(Byte) /\ rx \in Seq(Byte) /\ net \in Seq(Byte)
      /\ cap \in Nat /\ Len(data) < cap
  BY DEF TypeOK, Byte, RoomToRead
<1>2. CASE Arrive
  <2>1. PICK n \in 1..Len(net) : /\ rx' = rx \o SubSeq(net, 1, n)
                                 /\ net' = SubSeq(net, n + 1, Len(net))
    BY <1>2 DEF Arrive
  <2>2. data' = data BY <1>2 DEF Arrive, buffer
  <2> DEFINE x == SubSeq(net, 1, n)
             y == SubSeq(net, n + 1, Len(net))
  <2>3. n \in 0..Len(net) BY <1>1
  <2>4. x \in Seq(Byte) /\ y \in Seq(Byte) /\ x \o y = net BY <1>1, <2>3, Split
  <2>5. rx' = rx \o x /\ net' = y BY <2>1
  <2> HIDE DEF x, y
  <2>6. data \o rx \in Seq(Byte) BY <1>1, ConcatProperties
  <2>7. data \o (rx \o x) = (data \o rx) \o x
    <3>1. data \in Seq(Byte) /\ rx \in Seq(Byte) /\ x \in Seq(Byte) BY <1>1, <2>4
    <3> QED BY ONLY <3>1, Assoc, Zenon
  <2>8. ((data \o rx) \o x) \o y = (data \o rx) \o (x \o y) BY <2>4, <2>6, Assoc, Zenon
  <2>9. Wire' = (data \o (rx \o x)) \o y BY <2>2, <2>5 DEF Wire
  <2> QED BY <2>4, <2>7, <2>8, <2>9, Zenon DEF Wire
<1>3. CASE Fill
  <2> DEFINE room == Room(data, cap)
             n == IF Len(rx) < room THEN Len(rx) ELSE room
             x == SubSeq(rx, 1, n)
             y == SubSeq(rx, n + 1, Len(rx))
  <2>1. data' = data \o x /\ rx' = y BY <1>3 DEF Fill
  <2>2. net' = net BY <1>3 DEF Fill
  <2>3. n \in 0..Len(rx) BY <1>1 DEF Room
  <2> HIDE DEF n
  <2>4. x \in Seq(Byte) /\ y \in Seq(Byte) /\ x \o y = rx BY <1>1, <2>3, Split
  <2> HIDE DEF x, y
  <2>5. (data \o x) \o y = data \o (x \o y)
    <3>1. data \in Seq(Byte) /\ x \in Seq(Byte) /\ y \in Seq(Byte) BY <1>1, <2>4
    <3> QED BY ONLY <3>1, Assoc, Zenon
  <2>6. Wire' = ((data \o x) \o y) \o net BY <2>1, <2>2 DEF Wire
  <2> QED BY <2>4, <2>5, <2>6, Zenon DEF Wire
<1> QED BY <1>2, <1>3

(* A cut takes the bytes of the frame off the front.                         *)
LEMMA CutWire ==
  ASSUME TypeOK, NEW z \in 0..Len(data), data' = SubSeq(data, z + 1, Len(data)),
         rx' = rx, net' = net
  PROVE  /\ Len(Wire') = Len(Wire) - z
         /\ \A i \in 1..Len(Wire') : Wire'[i] = Wire[i + z]
<1>1. data \in Seq(Byte) /\ rx \in Seq(Byte) /\ net \in Seq(Byte)
  BY DEF TypeOK, Byte
<1> DEFINE x == SubSeq(data, 1, z)
           y == SubSeq(data, z + 1, Len(data))
           w == (y \o rx) \o net
<1>2. x \in Seq(Byte) /\ y \in Seq(Byte) /\ x \o y = data BY <1>1, Split
<1>3. Len(x) = z
  <2>1. 1 \in Nat \ {0} /\ z \in Nat OBVIOUS
  <2> QED BY <1>1, <2>1, SubSeqType
<1>4. Wire' = (y \o rx) \o net BY DEF Wire
<1> HIDE DEF x, y
<1>5. y \o rx \in Seq(Byte) /\ w \in Seq(Byte) BY <1>1, <1>2, ConcatProperties
<1>6. x \o w = Wire
  <2>1. x \o (y \o rx) = (x \o y) \o rx
    <3>1. x \in Seq(Byte) /\ y \in Seq(Byte) /\ rx \in Seq(Byte) BY <1>1, <1>2
    <3> QED BY ONLY <3>1, Assoc, Zenon
  <2>2. x \o ((y \o rx) \o net) = (x \o (y \o rx)) \o net
    <3> DEFINE v == y \o rx
    <3>1. v \in Seq(Byte) BY <1>1, <1>2, ConcatProperties
    <3> HIDE DEF v
    <3>2. x \in Seq(Byte) /\ net \in Seq(Byte) BY <1>1, <1>2
    <3>3. x \o (v \o net) = (x \o v) \o net BY <3>1, <3>2, Assoc, Zenon
    <3> QED BY <3>3, Zenon DEF v
  <2> QED BY <1>2, <2>1, <2>2, Zenon DEF Wire
<1> HIDE DEF w
<1>7. /\ Len(x \o w) = z + Len(w)
      /\ \A i \in 1..(z + Len(w)) : (x \o w)[i] = IF i <= z THEN x[i] ELSE w[i - z]
  BY <1>2, <1>3, <1>5, ConcatProperties
<1>8. Len(w) \in Nat /\ z \in Nat /\ Wire' = w BY <1>4, <1>5 DEF w
<1>9. \A i \in 1..Len(w) : i + z \in 1..(z + Len(w)) /\ ~(i + z <= z) /\ (i + z) - z = i
  BY <1>8
<1> QED BY <1>6, <1>7, <1>8, <1>9

-----------------------------------------------------------------------------
(* The invariant.  As long as no cut-off frame can be followed by another    *)
(* substream, what was cut is a prefix of what was sent and the bytes that   *)
(* are left are the frames that follow; a stream that failed cuts no more.   *)
Unbroken == ~Truncates \/ closes = 0

Prefix ==
  /\ Len(got) <= Len(sent)
  /\ \A i \in 1..Len(got) : got[i] = sent[i]

Control ==
  /\ opening \in {"none", "requested"} => outgoing /\ rx = <<>> /\ net = <<>>
  /\ pc # "idle" => opening = "negotiated"
  /\ Unbroken \/ outgoing \/ closed

Frame ==
  /\ Unbroken \/ ~outgoing =>
       Prefix /\ (opening # "failed" => Chained(Wire, sent, Len(got)))
  /\ Unbroken /\ opening # "failed" => Whole(Wire, sent, Len(got))

WInv == IInv /\ Control /\ Frame

LEMMA InitWire == Init => WInv
<1> SUFFICES ASSUME Init PROVE WInv
  OBVIOUS
<1>1. IInv BY InitType, InitRoom DEF IInv
<1>2. data = <<>> /\ rx = <<>> /\ net = <<>> /\ closes = 0 /\ sent = <<>> /\ got = <<>>
      /\ pc = "idle"
  BY DEF Init
<1>3. opening = IF outgoing THEN "none" ELSE "negotiated" BY Zenon DEF Init
<1>4. Control BY <1>2, <1>3 DEF Control, Unbroken
<1>5. Len(Wire) = 0 /\ Len(got) = 0 /\ Len(sent) = 0
  BY <1>1, <1>2, WireType DEF IInv
<1>6. Frame BY <1>5 DEF Frame, Prefix, Chained, Whole
<1> QED BY <1>1, <1>4, <1>6 DEF WInv

(* What is cut is the next frame sent.                                       *)
LEMMA CutIsNext ==
  ASSUME WInv, Unbroken \/ ~outgoing, pc = "recv", NEW f \in Complete(data)
  PROVE  /\ Len(got) \in Nat /\ Len(sent) \in Nat /\ Len(got) + 1 <= Len(sent)
         /\ f = sent[Len(got) + 1] /\ f \in Frames
         /\ Len(Wire) > 0 /\ f = Owner(Wire, 1)
         /\ Size(f) \in 0..Len(data) /\ Size(f) <= Len(Wire)
<1>1. /\ Chained(Wire, sent, Len(got)) /\ TypeOK
      /\ Len(got) \in Nat /\ Len(sent) \in Nat /\ data \in Seq(Byte)
  BY DEF WInv, IInv, Frame, Control, TypeOK, Byte
<1>2. /\ Len(Wire) \in Nat /\ Len(data) \in Nat /\ Len(data) <= Len(Wire)
      /\ \A i \in 1..Len(data) :
           data[i] = Wire[i] /\ data[i] = <<Owner(Wire, i), Pos(Wire, i)>>
  <2>1. Len(rx) \in Nat /\ Len(net) \in Nat /\ Len(data) \in Nat BY <1>1 DEF TypeOK
  <2>2. /\ Len(Wire) \in Nat /\ Len(Wire) = Len(data) + Len(rx) + Len(net)
        /\ \A i \in 1..Len(data) :
              Wire[i] = data[i] /\ data[i] = <<Owner(Wire, i), Pos(Wire, i)>>
    BY <1>1, WireType
  <2> QED BY <2>1, <2>2
<1>3. f = Owner(Wire, 1) /\ Size(f) <= Len(data) /\ Len(data) > 0
  BY <1>1, <1>2, NextFrame
<1>4. /\ f \in Frames /\ Size(f) \in Nat \ {0}
      /\ f.n \in 1..Len(sent) /\ sent[f.n] = f /\ f.n = Len(got) + 1
  BY <1>1, <1>2, <1>3, ChainFirst
<1> QED BY <1>1, <1>2, <1>3, <1>4

(* One frame more is cut from what was sent.                                 *)
LEMMA PrefixGrows ==
  ASSUME WInv, Prefix, Len(got) + 1 <= Len(sent),
         got' = Append(got, sent[Len(got) + 1]), sent' = sent
  PROVE  Prefix' /\ Len(got') = Len(got) + 1
<1>1. got \in Seq(Frames) /\ sent \in Seq(Frames) /\ Len(got) \in Nat /\ Len(sent) \in Nat
  BY DEF WInv, IInv, TypeOK
<1> DEFINE f == sent[Len(got) + 1]
<1>2. Len(got) + 1 \in 1..Len(sent) BY <1>1
<1>3. f \in Frames BY <1>1, <1>2
<1>4. /\ Len(got') = Len(got) + 1 /\ got'[Len(got) + 1] = f
      /\ \A i \in 1..Len(got) : got'[i] = got[i]
  BY <1>1, <1>3, AppendProperties
<1>5. \A i \in 1..(Len(got) + 1) : i \in 1..Len(got) \/ i = Len(got) + 1 BY <1>1
<1> QED BY <1>1, <1>4, <1>5 DEF Prefix

(* A step that leaves bytes and frames where they are.                       *)
LEMMA QuietWire ==
  ASSUME WInv, Wire' = Wire, sent' = sent, got' = got, closes' = closes,
         outgoing' = outgoing, opening = "failed" => opening' = "failed"
  PROVE  Frame'
BY DEF WInv, Frame, Unbroken, Prefix

(* The task is in Inner::poll only with a substream, and a substream is      *)
(* asked for only when the last one has nothing more to read                 *)
(* (stream.rs:60-80).                                                        *)
LEMMA NextControl == WInv /\ [Next]_vars => Control'
<1> SUFFICES ASSUME WInv, [Next]_vars PROVE Control'
  OBVIOUS
<1> USE DEF WInv, Control, Unbroken, stream, buffer, written, task, wire, sink
<1>1. CASE RemoteSend \/ Arrive \/ Credit \/ Add
  BY <1>1 DEF RemoteSend, Arrive, Credit, Add
<1>2. CASE RemoteClose BY <1>2 DEF RemoteClose
<1>3. CASE Negotiated BY <1>3 DEF Negotiated
<1>4. CASE Request \/ Poll \/ SkipSend \/ Write \/ WriteBlocked
  BY <1>4 DEF Request, Poll, SkipSend, Write, WriteBlocked
<1>5. CASE WriteFails \/ ParseFails \/ Eof
  BY <1>5 DEF WriteFails, ParseFails, Eof, Fail
<1>6. CASE Answer \/ Deliver \/ NoFrame
  BY <1>6 DEF Answer, Deliver, NoFrame
<1>7. CASE Fill BY <1>7 DEF Fill
<1>8. CASE FillBlocked BY <1>8 DEF FillBlocked
<1>9. CASE Reopen BY <1>9 DEF Reopen, ReadsZero
<1>10. CASE UNCHANGED vars BY <1>10 DEF vars
<1> QED BY <1>1, <1>2, <1>3, <1>4, <1>5, <1>6, <1>7, <1>8, <1>9, <1>10
        DEF Next, Environment, Task

(* The remote's next frame goes to the end of the bytes.                     *)
LEMMA SendFrame ==
  ASSUME WInv, RemoteSend
  PROVE  Frame'
<1>1. PICK f \in SentFrames :
        f.n = Len(sent) + 1 /\ sent' = Append(sent, f) /\ net' = net \o Bytes(f)
  BY DEF RemoteSend
<1>2. /\ UNCHANGED <<data, rx, got, closes, outgoing, opening>> /\ opening = "negotiated"
      /\ ~closed
  BY DEF RemoteSend, stream, buffer
<1>3. /\ f \in Frames /\ data \in Seq(Byte) /\ rx \in Seq(Byte) /\ net \in Seq(Byte)
      /\ sent \in Seq(Frames) /\ Len(got) \in Nat
  BY RpcStreamAssumption DEF SentFrames, Frames, WInv, IInv, TypeOK, Byte
<1>4. Wire \in Seq(Byte) BY WireType DEF WInv, IInv
<1>5. Wire' = Wire \o Bytes(f)
  <2> DEFINE v == data \o rx
             x == Bytes(f)
  <2>1. v \in Seq(Byte) /\ x \in Seq(Byte) BY <1>3, BytesType, ConcatProperties
  <2>2. Wire' = v \o (net \o x) BY <1>1, <1>2 DEF Wire
  <2>3. Wire = v \o net BY DEF Wire
  <2> HIDE DEF v, x
  <2>4. net \in Seq(Byte) BY <1>3
  <2>5. v \o (net \o x) = (v \o net) \o x BY <2>1, <2>4, Assoc, Zenon
  <2>6. Wire' = Wire \o x BY <2>2, <2>3, <2>5, Zenon
  <2> QED BY <2>6 DEF x
<1>6. Unbroken' <=> Unbroken BY <1>2 DEF Unbroken
<1>7. Unbroken \/ ~outgoing => Unbroken
  BY <1>2 DEF WInv, Control
<1>8. ASSUME Unbroken
      PROVE  Chained(Wire', sent', Len(got)') /\ Whole(Wire', sent', Len(got)')
  <2>1. Chained(Wire, sent, Len(got)) /\ Whole(Wire, sent, Len(got))
    BY <1>2, <1>8 DEF WInv, Frame
  <2> QED BY <1>1, <1>2, <1>3, <1>4, <1>5, <2>1, ChainAppend
<1>9. ASSUME Prefix PROVE Prefix'
  <2>1. /\ Len(sent') = Len(sent) + 1 /\ Len(sent) \in Nat
        /\ \A i \in 1..Len(sent) : sent'[i] = sent[i]
    BY <1>1, <1>3, AppendProperties
  <2>2. Len(got) <= Len(sent) /\ \A i \in 1..Len(got) : got[i] = sent[i] BY <1>9 DEF Prefix
  <2>3. \A i \in 1..Len(got) : i \in 1..Len(sent) BY <1>3, <2>1, <2>2
  <2> QED BY <1>2, <1>3, <2>1, <2>2, <2>3 DEF Prefix
<1> QED BY <1>2, <1>6, <1>7, <1>8, <1>9 DEF WInv, Frame

(* A reset leaves the first of the bytes (stream.rs:72-76).                  *)
LEMMA CloseFrame ==
  ASSUME WInv, RemoteClose
  PROVE  Frame'
<1>1. PICK n \in 0..Len(net) : net' = SubSeq(net, 1, n) /\ (~Truncates => n = Len(net))
  BY DEF RemoteClose
<1>2. /\ UNCHANGED <<data, rx, got, sent, outgoing, opening>> /\ opening = "negotiated"
      /\ closes' = closes + 1 /\ closes \in Nat
  BY DEF RemoteClose, stream, buffer, WInv, IInv, TypeOK
<1>3. data \in Seq(Byte) /\ rx \in Seq(Byte) /\ net \in Seq(Byte)
  BY DEF WInv, IInv, TypeOK, Byte
<1>4. ~Truncates => Wire' = Wire
  <2>1. SubSeq(net, 1, Len(net)) = net BY <1>3, SubSeqFull
  <2> QED BY <1>1, <1>2, <2>1 DEF Wire
<1>5. Unbroken' <=> ~Truncates BY <1>2 DEF Unbroken
<1>6. /\ Len(Wire) \in Nat /\ Len(Wire') \in Nat /\ Len(Wire') <= Len(Wire)
      /\ \A i \in 1..Len(Wire') : Wire'[i] = Wire[i]
  <2> DEFINE v == data \o rx
             x == SubSeq(net, 1, n)
             y == SubSeq(net, n + 1, Len(net))
  <2>1. v \in Seq(Byte) /\ x \in Seq(Byte) /\ y \in Seq(Byte) /\ x \o y = net
    BY <1>3, Split, ConcatProperties
  <2>2. Wire' = v \o x /\ Wire = v \o net BY <1>1, <1>2 DEF Wire
  <2> HIDE DEF v, x, y
  <2>3. (v \o x) \o y = v \o (x \o y) BY <2>1, Assoc, Zenon
  <2>4. Wire = Wire' \o y BY <2>1, <2>2, <2>3, Zenon
  <2> DEFINE w == v \o x
  <2>5. w \in Seq(Byte) /\ Wire' = w BY <2>1, <2>2, ConcatProperties
  <2> HIDE DEF w
  <2>6. /\ Len(w \o y) = Len(w) + Len(y)
        /\ \A i \in 1..(Len(w) + Len(y)) : (w \o y)[i] = IF i <= Len(w) THEN w[i] ELSE y[i - Len(w)]
    BY <2>1, <2>5, ConcatProperties
  <2>7. Len(w) \in Nat /\ Len(y) \in Nat BY <2>1, <2>5
  <2>8. \A i \in 1..Len(w) : i \in 1..(Len(w) + Len(y)) /\ i <= Len(w) BY <2>7
  <2> QED BY <2>4, <2>5, <2>6, <2>7, <2>8
<1>7. ASSUME Chained(Wire, sent, Len(got)) PROVE Chained(Wire', sent', Len(got)')
  <2>1. Chained(Wire', sent, Len(got)) BY <1>6, <1>7, ChainPrefix
  <2> QED BY <1>2, <2>1
<1>8. Unbroken' \/ ~outgoing' => Unbroken \/ ~outgoing BY <1>2, <1>5 DEF Unbroken
<1>9. Unbroken' => Unbroken /\ Wire' = Wire BY <1>4, <1>5 DEF Unbroken
<1>10. Prefix => Prefix' BY <1>2 DEF Prefix
<1> QED BY <1>2, <1>7, <1>8, <1>9, <1>10 DEF WInv, Frame

(* A frame is cut (state.rs:113-126).                                        *)
LEMMA CutFrame ==
  ASSUME WInv, pc = "recv", NEW f \in Complete(data), Cut(f),
         UNCHANGED <<rx, net, sent, closes, outgoing, opening>>
  PROVE  Frame'
<1>1. (Unbroken' <=> Unbroken) /\ opening = "negotiated"
  BY DEF Unbroken, WInv, Control
<1>2. ASSUME Unbroken \/ ~outgoing
      PROVE  /\ Prefix' /\ Chained(Wire', sent', Len(got)')
             /\ Unbroken => Whole(Wire', sent', Len(got)')
  <2>1. /\ Len(got) \in Nat /\ Len(got) + 1 <= Len(sent) /\ f = sent[Len(got) + 1]
        /\ Len(Wire) > 0 /\ f = Owner(Wire, 1)
        /\ Size(f) \in 0..Len(data) /\ Size(f) <= Len(Wire)
    BY <1>2, CutIsNext
  <2>2. Prefix /\ Chained(Wire, sent, Len(got)) /\ (Unbroken => Whole(Wire, sent, Len(got)))
    BY <1>1, <1>2 DEF WInv, Frame
  <2>3. got' = Append(got, f) /\ data' = SubSeq(data, Size(f) + 1, Len(data))
    BY DEF Cut, AfterCut
  <2>4. Prefix' /\ Len(got') = Len(got) + 1 BY <2>1, <2>2, <2>3, PrefixGrows
  <2>5. /\ Len(Wire') = Len(Wire) - Size(f)
        /\ \A i \in 1..Len(Wire') : Wire'[i] = Wire[i + Size(f)]
    BY <2>1, <2>3, CutWire DEF WInv, IInv
  <2>6. Len(Wire) \in Nat BY WireType DEF WInv, IInv
  <2>7. /\ Chained(Wire', sent, Len(got) + 1)
        /\ Whole(Wire, sent, Len(got)) => Whole(Wire', sent, Len(got) + 1)
    BY <2>1, <2>2, <2>5, <2>6, ChainCut
  <2> QED BY <2>2, <2>4, <2>7
<1> QED BY <1>1, <1>2 DEF Frame

LEMMA NextFrames == WInv /\ [Next]_vars => Frame'
<1> SUFFICES ASSUME WInv, [Next]_vars PROVE Frame'
  OBVIOUS
<1> USE DEF stream, buffer, written, task, wire, sink
<1>1. CASE RemoteSend BY <1>1, SendFrame
<1>2. CASE RemoteClose BY <1>2, CloseFrame
<1>3. CASE Answer \/ Deliver
  <2>1. PICK f \in Complete(data) : Cut(f) BY <1>3 DEF Answer, Deliver
  <2>2. pc = "recv" /\ UNCHANGED <<rx, net, sent, closes, outgoing, opening>>
    BY <1>3 DEF Answer, Deliver
  <2> QED BY <2>1, <2>2, CutFrame
<1>4. CASE ParseFails
  <2>1. PICK f \in Complete(data) : got' = Append(got, f) BY <1>4 DEF ParseFails
  <2>2. /\ opening' = "failed" /\ UNCHANGED <<sent, outgoing, closes>> /\ pc = "recv"
    BY <1>4 DEF ParseFails, Fail
  <2>3. Unbroken' <=> Unbroken BY <2>2 DEF Unbroken
  <2>4. ASSUME Unbroken \/ ~outgoing PROVE Prefix'
    <3>1. Len(got) + 1 <= Len(sent) /\ f = sent[Len(got) + 1] BY <2>2, <2>4, CutIsNext
    <3>2. Prefix BY <2>4 DEF WInv, Frame
    <3> QED BY <2>1, <2>2, <3>1, <3>2, PrefixGrows
  <2> QED BY <2>2, <2>3, <2>4 DEF Frame
<1>5. CASE Arrive \/ Fill
  <2>1. Wire' = Wire BY <1>5, MovedWire DEF WInv, IInv
  <2>2. UNCHANGED <<sent, got, closes, outgoing, opening>> BY <1>5 DEF Arrive, Fill
  <2> QED BY <2>1, <2>2, QuietWire
<1>6. CASE Negotiated
  <2>1. UNCHANGED <<data, rx, net, sent, got, closes, outgoing>> /\ opening # "failed"
    BY <1>6 DEF Negotiated, WInv, Control
  <2> QED BY <2>1, QuietWire DEF Wire
<1>7. ASSUME UNCHANGED <<data, rx, net, sent, got, closes, outgoing>>,
             opening = "failed" => opening' = "failed"
      PROVE  Frame'
  BY <1>7, QuietWire DEF Wire
<1>8. CASE Credit \/ Add \/ Request \/ Poll \/ SkipSend \/ Write \/ WriteBlocked
  BY <1>7, <1>8 DEF Credit, Add, Request, Poll, SkipSend, Write, WriteBlocked
<1>9. CASE WriteFails \/ Eof \/ NoFrame \/ FillBlocked
  BY <1>7, <1>9 DEF WriteFails, Eof, Fail, NoFrame, FillBlocked
<1>10. CASE Reopen
  <2>1. opening # "failed" BY <1>10 DEF Reopen, ReadsZero, WInv, Control
  <2> QED BY <1>7, <1>10, <2>1 DEF Reopen
<1>11. CASE UNCHANGED vars BY <1>7, <1>11 DEF vars
<1> QED BY <1>1, <1>2, <1>3, <1>4, <1>5, <1>6, <1>8, <1>9, <1>10, <1>11
        DEF Next, Environment, Task

LEMMA WireInvariance == Spec => []WInv
<1>1. WInv /\ [Next]_vars => WInv'
  BY NextType, NextRoom, NextControl, NextFrames DEF WInv, IInv
<1> QED BY <1>1, InitWire, PTL DEF Spec

(* What a stream cuts is what the remote sent, in order, for an incoming     *)
(* stream however its substream ends and for an outgoing one until it ends   *)
(* (state.rs:103-128, stream.rs:72-76).                                      *)
THEOREM FramesInOrder == Spec => []MisframedOnlyByReopen
<1>1. WInv => MisframedOnlyByReopen
  <2> SUFFICES ASSUME WInv, ~(outgoing /\ closes > 0) PROVE IsPrefix(got, sent)
    BY DEF MisframedOnlyByReopen
  <2>1. /\ got \in Seq(Frames) /\ sent \in Seq(Frames) /\ closes \in Nat
        /\ outgoing \in BOOLEAN
    BY DEF WInv, IInv, TypeOK
  <2>2. Prefix BY <2>1 DEF WInv, Frame, Unbroken
  <2> DEFINE n == Len(got)
             x == SubSeq(got, 1, n)
             y == SubSeq(sent, 1, n)
  <2>3. /\ n \in Nat /\ Len(sent) \in Nat /\ n <= Len(sent)
        /\ \A i \in 1..n : got[i] = sent[i] /\ got[i] \in Frames /\ sent[i] \in Frames
    BY <2>1, <2>2 DEF Prefix
  <2> HIDE DEF n
  <2>4. x \in Seq(Frames) /\ Len(x) = n /\ \A i \in 1..n : x[i] = got[i]
    <3>1. Len(x) = IF 1 <= n THEN n - 1 + 1 ELSE 0 BY <2>3, SubSeqProperties
    <3>2. x \in Seq(Frames) /\ \A i \in 1..(n - 1 + 1) : x[i] = got[1 + i - 1]
      BY <2>3, SubSeqProperties
    <3>3. n - 1 + 1 = n /\ \A i \in 1..n : 1 + i - 1 = i BY <2>3
    <3> QED BY <2>3, <3>1, <3>2, <3>3
  <2>5. y \in Seq(Frames) /\ Len(y) = n /\ \A i \in 1..n : y[i] = sent[i]
    <3>1. Len(y) = IF 1 <= n THEN n - 1 + 1 ELSE 0 BY <2>3, SubSeqProperties
    <3>2. y \in Seq(Frames) /\ \A i \in 1..(n - 1 + 1) : y[i] = sent[1 + i - 1]
      BY <2>3, SubSeqProperties
    <3>3. n - 1 + 1 = n /\ \A i \in 1..n : 1 + i - 1 = i BY <2>3
    <3> QED BY <2>3, <3>1, <3>2, <3>3
  <2> HIDE DEF x, y
  <2>6. x = y BY <2>3, <2>4, <2>5, SeqEqual
  <2> QED BY <2>3, <2>6 DEF IsPrefix, n, x, y
<1> QED BY <1>1, WireInvariance, PTL

(* A stream whose remote closes its substreams only between frames is a pipe *)
(* of whole messages, each delivered once and in order, over any number of   *)
(* substreams (state.rs:89-128, stream.rs:60-80).                            *)
THEOREM StreamIsPipe ==
  ASSUME ~Truncates
  PROVE  Spec => PipeSpec
<1>1. Init => Pipe!Init
  BY DEF Init, Pipe!Init
<1>2. WInv /\ [Next]_vars => [Pipe!Next]_<<sent, got>>
  <2> SUFFICES ASSUME WInv, [Next]_vars PROVE Pipe!Next \/ UNCHANGED <<sent, got>>
    OBVIOUS
  <2> USE DEF stream, buffer, written, task, wire, sink
  <2>1. CASE RemoteSend
    <3>1. Pipe!Send BY <2>1 DEF RemoteSend, Pipe!Send
    <3> QED BY <3>1 DEF Pipe!Next
  <2>2. CASE Answer \/ Deliver \/ ParseFails
    <3>1. PICK f \in Complete(data) : got' = Append(got, f)
      BY <2>2 DEF Answer, Deliver, ParseFails, Cut
    <3>2. pc = "recv" /\ UNCHANGED sent
      BY <2>2 DEF Answer, Deliver, ParseFails, Fail
    <3>3. /\ Len(got) \in Nat /\ Len(sent) \in Nat /\ Len(got) + 1 <= Len(sent)
          /\ f = sent[Len(got) + 1]
      BY <3>2, CutIsNext DEF Unbroken
    <3>4. Pipe!Receive BY <3>1, <3>2, <3>3 DEF Pipe!Receive
    <3> QED BY <3>4 DEF Pipe!Next
  <2>3. CASE Arrive \/ RemoteClose \/ Credit \/ Negotiated \/ Add
    BY <2>3 DEF Arrive, RemoteClose, Credit, Negotiated, Add
  <2>4. CASE Request \/ Poll \/ SkipSend \/ Write \/ WriteBlocked \/ WriteFails
    BY <2>4 DEF Request, Poll, SkipSend, Write, WriteBlocked, WriteFails, Fail
  <2>5. CASE NoFrame \/ Fill \/ FillBlocked \/ Reopen \/ Eof
    BY <2>5 DEF NoFrame, Fill, FillBlocked, Reopen, Eof, Fail
  <2>6. CASE UNCHANGED vars BY <2>6 DEF vars
  <2> QED BY <2>1, <2>2, <2>3, <2>4, <2>5, <2>6 DEF Next, Environment, Task
<1> QED BY <1>1, <1>2, WireInvariance, PTL DEF Spec, PipeSpec, Pipe!Spec

-----------------------------------------------------------------------------
(* Sleeping with a message in the buffer.                                    *)

Cleared == Complete(data) # {} => 2 * Len(data) = cap

(* From the moment the task finds no frame until it next reads, the buffer   *)
(* has none but at the boundary.                                             *)
Rests ==
  /\ opening = "none" => data = <<>>
  /\ \/ pc = "fill"
     \/ pc = "send" /\ recv_pending
     \/ pc = "idle" /\ opening = "requested"
     \/ pc = "idle" /\ opening = "negotiated" /\ ~woken
     => Cleared

LEMMA EmptyCleared == data = <<>> => Cleared
BY FrameBufferAssumption DEF Cleared, Complete, Decodings

LEMMA InitRests == Init => Rests
BY EmptyCleared DEF Init, Rests

LEMMA NextRests ==
  ASSUME ~Truncates
  PROVE  WInv /\ Rests /\ [Next]_vars => Rests'
<1> SUFFICES ASSUME WInv, Rests, [Next]_vars PROVE Rests'
  OBVIOUS
<1> USE DEF stream, buffer, written, task, wire, sink
<1>1. UNCHANGED buffer => (Cleared' <=> Cleared) BY DEF Cleared
<1>2. pc # "idle" => opening = "negotiated" BY DEF WInv, Control
<1>3. CASE RemoteSend \/ Arrive \/ RemoteClose \/ Credit \/ Negotiated \/ Add
  <2>1. CASE RemoteSend BY <1>1, <2>1 DEF RemoteSend, Rests
  <2>2. CASE Credit
    <3>1. woken' = (woken \/ send_pending) /\ UNCHANGED <<data, cap, pc, recv_pending, opening>>
      BY <2>2 DEF Credit
    <3>2. ~woken' => ~woken BY <3>1
    <3>3. Cleared' <=> Cleared BY <3>1, <1>1
    <3> QED BY <3>1, <3>2, <3>3 DEF Rests
  <2>3. CASE Arrive BY <1>1, <2>3 DEF Arrive, Rests
  <2>4. CASE RemoteClose BY <1>1, <2>4 DEF RemoteClose, Rests
  <2>5. CASE Negotiated BY <1>1, <2>5 DEF Negotiated, Rests
  <2>6. CASE Add BY <1>1, <2>6 DEF Add, Rests
  <2> QED BY <1>3, <2>1, <2>2, <2>3, <2>4, <2>5, <2>6
<1>4. CASE Request
  <2>1. data = <<>> /\ UNCHANGED buffer BY <1>4 DEF Request, Rests
  <2> QED BY <1>1, <1>4, <2>1, EmptyCleared DEF Request, Rests
<1>5. CASE Poll \/ SkipSend \/ Write \/ WriteBlocked
  BY <1>1, <1>2, <1>5 DEF Poll, SkipSend, Write, WriteBlocked, Rests
<1>6. CASE WriteFails \/ ParseFails \/ Eof
  BY <1>6 DEF WriteFails, ParseFails, Eof, Fail, Rests
<1>7. CASE Answer \/ Deliver
  BY <1>2, <1>7 DEF Answer, Deliver, Rests
<1>8. CASE NoFrame
  <2>1. /\ Chained(Wire, sent, Len(got)) /\ Incomplete(data) /\ UNCHANGED buffer
        /\ opening' = "negotiated"
    BY <1>2, <1>8 DEF NoFrame, WInv, Frame, Unbroken
  <2>2. /\ Len(Wire) \in Nat /\ Len(data) \in Nat /\ Len(data) <= Len(Wire)
        /\ \A i \in 1..Len(data) :
             data[i] = Wire[i] /\ data[i] = <<Owner(Wire, i), Pos(Wire, i)>>
    <3>1. Len(data) \in Nat /\ Len(rx) \in Nat /\ Len(net) \in Nat
      BY DEF WInv, IInv, TypeOK
    <3>2. /\ Len(Wire) \in Nat /\ Len(Wire) = Len(data) + Len(rx) + Len(net)
          /\ \A i \in 1..Len(data) :
               Wire[i] = data[i] /\ data[i] = <<Owner(Wire, i), Pos(Wire, i)>>
      BY WireType DEF WInv, IInv
    <3> QED BY <3>1, <3>2
  <2>3. Complete(data) = {} BY <2>1, <2>2, NextFrame
  <2> QED BY <1>1, <2>1, <2>3 DEF Cleared, Rests
<1>9. CASE Fill
  <2> DEFINE n == IF Len(rx) < Room(data, cap) THEN Len(rx) ELSE Room(data, cap)
  <2>1. /\ data' = data \o SubSeq(rx, 1, n)
        /\ cap' = IF Len(data) + n < cap THEN cap ELSE 2 * cap
        /\ pc' = IF Len(data) + n < cap THEN "recv" ELSE "fill"
        /\ opening' = opening
    BY <1>9 DEF Fill, CapAfterRead
  <2>2. data \in Seq(Byte) /\ rx \in Seq(Byte) /\ cap \in Nat /\ Len(data) < cap
    BY DEF WInv, IInv, TypeOK, RoomToRead, Byte
  <2>3. n \in 0..Len(rx) /\ Len(data) + n <= cap BY <2>2 DEF Room
  <2>4. opening = "negotiated" BY <1>2, <1>9 DEF Fill
  <2> HIDE DEF n
  <2>5. Len(data') = Len(data) + n
    <3>1. 1 \in Nat \ {0} OBVIOUS
    <3>2. SubSeq(rx, 1, n) \in Seq(Byte) /\ Len(SubSeq(rx, 1, n)) = n
      BY <2>2, <2>3, <3>1, SubSeqType
    <3> QED BY <2>1, <2>2, <3>2, ConcatProperties
  <2>6. CASE Len(data) + n < cap
    BY <2>1, <2>4, <2>6 DEF Rests
  <2>7. CASE ~(Len(data) + n < cap)
    <3>1. Len(data') = cap /\ cap' = 2 * cap
      BY <2>1, <2>2, <2>3, <2>5, <2>7
    <3> QED BY <2>1, <2>4, <3>1 DEF Cleared, Rests
  <2> QED BY <2>6, <2>7
<1>10. CASE FillBlocked
  BY <1>1, <1>2, <1>10 DEF FillBlocked, Rests
<1>11. CASE Reopen
  BY <1>1, <1>11 DEF Reopen, ReadsZero, Rests
<1>12. CASE UNCHANGED vars BY <1>1, <1>12 DEF vars, Rests
<1> QED BY <1>3, <1>4, <1>5, <1>6, <1>7, <1>8, <1>9, <1>10, <1>11, <1>12
        DEF Next, Environment, Task

(* A message that is in the buffer in full when the task sleeps, or asks for *)
(* a new substream, ends where the buffer ended before it doubled            *)
(* (state.rs:94-101, 237-240).                                               *)
THEOREM StallsAtBoundary ==
  ASSUME ~Truncates
  PROVE  Spec => []StallOnlyAtBoundary
<1>1. Rests => StallOnlyAtBoundary
  BY DEF Rests, Cleared, StallOnlyAtBoundary
<1> QED BY <1>1, InitRests, NextRests, WireInvariance, PTL DEF Spec

-----------------------------------------------------------------------------
(* What was written.  FlattenSeq of the community modules puts sequences     *)
(* together; nothing is known of it but its definition.                      *)

(* What FlattenSeq builds: g[i] is the first i sequences of s put together.  *)
Stacked(s, n, g) == g = [i \in 1..n |-> IF i = 1 THEN s[i] ELSE g[i - 1] \o s[i]]

LEMMA StackIs ==
  ASSUME NEW s, NEW n \in Nat, NEW g, Stacked(s, n, g)
  PROVE  \A i \in 1..n : g[i] = IF i = 1 THEN s[i] ELSE g[i - 1] \o s[i]
<1> DEFINE e(i) == IF i = 1 THEN s[i] ELSE g[i - 1] \o s[i]
<1>1. g = [i \in 1..n |-> e(i)] BY DEF Stacked
<1> HIDE DEF e
<1>2. \A i \in 1..n : g[i] = e(i) BY <1>1
<1> QED BY <1>2 DEF e

LEMMA StackExists ==
  ASSUME NEW s, NEW n \in Nat
  PROVE  \E g : Stacked(s, n, g)
<1> DEFINE T == {m \in Nat : ~ \E g : Stacked(s, m, g)}
<1> SUFFICES ASSUME T # {} PROVE FALSE
  OBVIOUS
<1>1. PICK m \in T : \A k \in T : m <= k
  <2> HIDE DEF T
  <2>1. T \subseteq Nat BY DEF T
  <2> QED BY <2>1, LeastNatural
<1>2. m \in Nat OBVIOUS
<1>3. CASE m = 0
  <2> DEFINE h == [i \in 1..0 |-> s[i]]
  <2>1. Stacked(s, 0, h) BY DEF Stacked
  <2> QED BY <1>3, <2>1
<1>4. CASE m # 0
  <2>1. m - 1 \in Nat /\ m - 1 \notin T BY <1>1, <1>2, <1>4
  <2>2. PICK g : Stacked(s, m - 1, g) BY <2>1
  <2> DEFINE h == [i \in 1..m |-> IF i = m THEN (IF m = 1 THEN s[m] ELSE g[m - 1] \o s[m])
                                           ELSE g[i]]
  <2>3. ASSUME NEW i \in 1..m
        PROVE  h[i] = IF i = 1 THEN s[i] ELSE h[i - 1] \o s[i]
    <3>1. CASE i = m
      <4>1. m # 1 => h[m - 1] = g[m - 1] BY <1>2, <1>4
      <4> QED BY <3>1, <4>1
    <3>2. CASE i # m
      <4>1. i \in 1..(m - 1) /\ h[i] = g[i] BY <1>2, <3>2
      <4>2. i # 1 => h[i - 1] = g[i - 1] BY <1>2, <4>1
      <4>3. g[i] = IF i = 1 THEN s[i] ELSE g[i - 1] \o s[i]
        <5> HIDE DEF h, T
        <5> QED BY <2>1, <2>2, <4>1, StackIs
      <4> QED BY <4>1, <4>2, <4>3
    <3> QED BY <3>1, <3>2
  <2>4. DOMAIN h = 1..m OBVIOUS
  <2>5. h = [i \in 1..m |-> h[i]] OBVIOUS
  <2> HIDE DEF h
  <2>6. [i \in 1..m |-> h[i]] = [i \in 1..m |-> IF i = 1 THEN s[i] ELSE h[i - 1] \o s[i]]
    BY <2>3
  <2>7. Stacked(s, m, h) BY <2>5, <2>6 DEF Stacked
  <2> QED BY <2>7
<1> QED BY <1>3, <1>4

LEMMA FlattenIs ==
  ASSUME NEW s, Len(s) \in Nat \ {0}
  PROVE  \E g : Stacked(s, Len(s), g) /\ FlattenSeq(s) = g[Len(s)]
<1> DEFINE f == CHOOSE g : g = [i \in 1..Len(s) |-> IF i = 1 THEN s[i] ELSE g[i - 1] \o s[i]]
<1>1. FlattenSeq(s) = f[Len(s)] BY DEF FlattenSeq
<1>2. Stacked(s, Len(s), f)
  <2>1. \E g : Stacked(s, Len(s), g) BY StackExists
  <2> QED BY <2>1 DEF Stacked
<1> QED BY <1>1, <1>2

Agree(s, t, n) == \A i \in 1..n : s[i] = t[i]

(* The same sequences give the same.                                         *)
LEMMA StackSame ==
  ASSUME NEW s, NEW t, NEW n \in Nat, NEW g, NEW h, Stacked(s, n, g), Stacked(t, n + 1, h),
         Agree(s, t, n)
  PROVE  Agree(g, h, n)
<1> DEFINE T == {i \in 1..n : g[i] # h[i]}
<1> SUFFICES ASSUME T # {} PROVE FALSE
  BY DEF Agree
<1>1. PICK i \in T : \A k \in T : i <= k
  <2> HIDE DEF T
  <2>1. T \subseteq Nat BY DEF T
  <2> QED BY <2>1, LeastNatural
<1>2. i \in 1..n /\ i \in 1..(n + 1) /\ n + 1 \in Nat /\ g[i] # h[i] OBVIOUS
<1>3. g[i] = IF i = 1 THEN s[i] ELSE g[i - 1] \o s[i] BY <1>2, StackIs
<1>4. h[i] = IF i = 1 THEN t[i] ELSE h[i - 1] \o t[i] BY <1>2, StackIs
<1>5. i # 1 => g[i - 1] = h[i - 1]
  <2>1. i - 1 \notin T BY <1>1, <1>2
  <2> QED BY <1>2, <2>1
<1> QED BY <1>2, <1>3, <1>4, <1>5 DEF Agree

LEMMA StackType ==
  ASSUME NEW B, NEW s \in Seq(Seq(B)), NEW g, Stacked(s, Len(s), g)
  PROVE  \A i \in 1..Len(s) : g[i] \in Seq(B)
<1> DEFINE T == {i \in 1..Len(s) : g[i] \notin Seq(B)}
<1> SUFFICES ASSUME T # {} PROVE FALSE
  OBVIOUS
<1>0. Len(s) \in Nat /\ DOMAIN s = 1..Len(s) BY LenProperties
<1>1. PICK i \in T : \A k \in T : i <= k
  <2> HIDE DEF T
  <2>1. T \subseteq Nat BY <1>0 DEF T
  <2> QED BY <2>1, LeastNatural
<1>2. i \in 1..Len(s) /\ g[i] \notin Seq(B) OBVIOUS
<1>3. g[i] = IF i = 1 THEN s[i] ELSE g[i - 1] \o s[i]
  <2> HIDE DEF T
  <2> QED BY <1>0, <1>2, StackIs
<1>4. s[i] \in Seq(B) BY <1>0, <1>2, ElementOfSeq
<1>5. i # 1 => g[i - 1] \in Seq(B)
  <2>1. i - 1 \notin T BY <1>0, <1>1, <1>2
  <2> QED BY <1>0, <1>2, <2>1
<1> HIDE DEF T
<1> QED BY <1>2, <1>3, <1>4, <1>5, ConcatProperties

(* What is appended comes last.                                              *)
LEMMA FlattenAppend ==
  ASSUME NEW B, NEW s \in Seq(Seq(B)), NEW x \in Seq(B)
  PROVE  /\ FlattenSeq(s) \in Seq(B)
         /\ FlattenSeq(Append(s, x)) = FlattenSeq(s) \o x
<1> DEFINE t == Append(s, x)
<1>1. /\ Len(s) \in Nat /\ t \in Seq(Seq(B)) /\ Len(t) = Len(s) + 1
      /\ \A i \in 1..Len(s) : t[i] = s[i]
      /\ t[Len(s) + 1] = x
  <2> DEFINE S == Seq(B)
  <2> HIDE DEF S
  <2>1. s \in Seq(S) /\ x \in S BY DEF S
  <2> QED BY <2>1, LenProperties, AppendProperties DEF S
<1> HIDE DEF t
<1>2. PICK h : Stacked(t, Len(t), h) /\ FlattenSeq(t) = h[Len(t)]
  <2>1. Len(t) \in Nat \ {0} BY <1>1
  <2> QED BY ONLY <2>1, FlattenIs
<1>3. h[Len(t)] = IF Len(t) = 1 THEN x ELSE h[Len(t) - 1] \o x BY <1>1, <1>2, StackIs
<1>4. CASE Len(s) = 0
  <2>1. s = <<>> BY <1>4, EmptySeq
  <2>2. FlattenSeq(s) = <<>> BY <2>1, <1>4 DEF FlattenSeq
  <2>3. <<>> \in Seq(B) /\ <<>> \o x = x BY EmptySeq, ConcatEmptySeq
  <2> QED BY <1>1, <1>2, <1>3, <1>4, <2>2, <2>3 DEF t
<1>5. CASE Len(s) # 0
  <2>1. PICK g : Stacked(s, Len(s), g) /\ FlattenSeq(s) = g[Len(s)] BY <1>1, <1>5, FlattenIs
  <2>2. g[Len(s)] = h[Len(s)]
    <3> DEFINE l == Len(s)
    <3>1. l \in Nat /\ l \in 1..l /\ Stacked(s, l, g) /\ Stacked(t, l + 1, h)
      BY <1>1, <1>2, <1>5, <2>1
    <3>2. Agree(s, t, l) BY <1>1 DEF Agree
    <3> HIDE DEF l
    <3>3. Agree(g, h, l) BY <3>1, <3>2, StackSame
    <3> QED BY <3>1, <3>3 DEF Agree, l
  <2>3. FlattenSeq(s) \in Seq(B) BY <1>1, <1>5, <2>1, StackType
  <2>4. Len(t) # 1 /\ Len(t) - 1 = Len(s) BY <1>1, <1>5
  <2> QED BY <1>2, <1>3, <2>1, <2>2, <2>3, <2>4 DEF t
<1> QED BY <1>1, <1>4, <1>5

(* What is first comes first.                                                *)
LEMMA FlattenHead ==
  ASSUME NEW B, NEW s \in Seq(Seq(B)), s # <<>>
  PROVE  /\ Head(s) \in Seq(B) /\ FlattenSeq(Tail(s)) \in Seq(B)
         /\ FlattenSeq(s) = Head(s) \o FlattenSeq(Tail(s))
<1> DEFINE t == Tail(s)
           S == Seq(B)
           n == Len(s)
<1>1. /\ n \in Nat \ {0} /\ t \in Seq(S) /\ Len(t) = n - 1
      /\ Head(s) = s[1] /\ \A i \in 1..n : s[i] \in S
      /\ \A i \in 1..(n - 1) : t[i] = s[i + 1]
  <2> HIDE DEF S
  <2>1. s \in Seq(S) BY DEF S
  <2>2. n \in Nat \ {0} /\ DOMAIN s = 1..n BY <2>1, LenProperties, EmptySeq
  <2>3. /\ t \in Seq(S) /\ Len(t) = n - 1 /\ Head(s) = s[1]
        /\ \A i \in 1..Len(t) : t[i] = s[i + 1]
    BY <2>1, HeadTailProperties
  <2>4. \A i \in 1..n : s[i] \in S BY <2>1, <2>2, ElementOfSeq
  <2> QED BY <2>2, <2>3, <2>4
<1>2. PICK g : Stacked(s, n, g) /\ FlattenSeq(s) = g[n] BY <1>1, FlattenIs
<1>3. \A i \in 1..n : g[i] = IF i = 1 THEN s[i] ELSE g[i - 1] \o s[i] BY <1>1, <1>2, StackIs
<1>4. FlattenSeq(t) \in S
  <2>1. <<>> \in Seq(B) BY EmptySeq
  <2> HIDE DEF t
  <2> QED BY <1>1, <2>1, FlattenAppend
<1>5. s[1] \in Seq(B) BY <1>1
<1> HIDE DEF t, S, n
<1>6. CASE n = 1
  <2>1. t = <<>> BY <1>1, <1>6, EmptySeq
  <2>2. FlattenSeq(t) = <<>> BY <2>1 DEF FlattenSeq
  <2>3. s[1] \o <<>> = s[1] BY <1>5, ConcatEmptySeq
  <2> QED BY <1>1, <1>2, <1>3, <1>4, <1>6, <2>2, <2>3 DEF t, S
<1>7. CASE n # 1
  <2>1. PICK h : Stacked(t, n - 1, h) /\ FlattenSeq(t) = h[n - 1] BY <1>1, <1>7, FlattenIs
  <2>2. \A i \in 1..(n - 1) : h[i] = IF i = 1 THEN t[i] ELSE h[i - 1] \o t[i]
    BY <1>1, <1>7, <2>1, StackIs
  <2>3. \A i \in 1..(n - 1) : h[i] \in Seq(B)
    BY <1>1, <1>7, <2>1, StackType DEF S
  <2> DEFINE T == {i \in 1..(n - 1) : g[i + 1] # s[1] \o h[i]}
  <2>4. T = {}
    <3> SUFFICES ASSUME T # {} PROVE FALSE
      OBVIOUS
    <3>1. PICK i \in T : \A k \in T : i <= k
      <4>0. 1..(n - 1) \subseteq Nat BY <1>1
      <4> HIDE DEF T
      <4>1. T \subseteq Nat BY <4>0 DEF T
      <4> QED BY <4>1, LeastNatural
    <3>2. i \in 1..(n - 1) /\ g[i + 1] # s[1] \o h[i] OBVIOUS
    <3>3. i - 1 \notin T
      <4> HIDE DEF T
      <4>1. i \in Int BY <3>2
      <4> QED BY <3>1, <4>1
    <3>4. i # 1 => i - 1 \in 1..(n - 1) /\ (i - 1) + 1 = i BY <1>1, <3>2
    <3>5. i # 1 => g[i] = s[1] \o h[i - 1] BY <3>3, <3>4
    <3> HIDE DEF T
    <3>6. i + 1 \in 1..n /\ i + 1 # 1 /\ (i + 1) - 1 = i BY <1>1, <3>2
    <3>7. g[i + 1] = g[i] \o s[i + 1] BY <1>3, <3>6
    <3>8. t[i] = s[i + 1] /\ s[i + 1] \in Seq(B) BY <1>1, <3>2, <3>6 DEF S
    <3>9. CASE i = 1
      <4>1. g[1] = s[1] /\ h[1] = t[1] BY <1>1, <1>3, <2>2, <3>2, <3>9
      <4> QED BY <3>2, <3>7, <3>8, <3>9, <4>1
    <3>10. CASE i # 1
      <4>1. h[i] = h[i - 1] \o t[i] BY <2>2, <3>2, <3>10
      <4>2. h[i - 1] \in Seq(B) BY <2>3, <3>4, <3>10
      <4>3. (s[1] \o h[i - 1]) \o t[i] = s[1] \o (h[i - 1] \o t[i])
        <5> DEFINE a == s[1]
                   b == h[i - 1]
                   d == t[i]
        <5>1. a \in Seq(B) /\ b \in Seq(B) /\ d \in Seq(B) BY <1>5, <3>8, <4>2
        <5> HIDE DEF a, b, d
        <5>2. (a \o b) \o d = a \o (b \o d) BY ONLY <5>1, ConcatAssociative, SMTT(60)
        <5> QED BY <5>2 DEF a, b, d
      <4> QED BY <3>2, <3>5, <3>7, <3>8, <3>10, <4>1, <4>3
    <3> QED BY <3>9, <3>10
  <2>5. n - 1 \in 1..(n - 1) /\ (n - 1) + 1 = n BY <1>1, <1>7
  <2>6. g[n] = s[1] \o h[n - 1] BY <2>4, <2>5
  <2> QED BY <1>1, <1>2, <1>4, <1>5, <2>1, <2>6 DEF t, S
<1> QED BY <1>6, <1>7

LEMMA SuffixOf ==
  ASSUME NEW B, NEW s \in Seq(B), NEW u \in Seq(B)
  PROVE  IsSuffix(s, u \o s)
<1> DEFINE t == u \o s
           l == Len(s)
           k == Len(u)
<1>1. /\ l \in Nat /\ k \in Nat /\ Len(t) = k + l
      /\ \A i \in 1..(k + l) : t[i] = IF i <= k THEN u[i] ELSE s[i - k]
  BY ConcatProperties, LenProperties
<1> HIDE DEF t, l, k
<1>2. \A i \in 1..l : t[(k + l) - i + 1] = s[l - i + 1]
  <2> SUFFICES ASSUME NEW i \in 1..l PROVE t[(k + l) - i + 1] = s[l - i + 1]
    OBVIOUS
  <2>1. /\ (k + l) - i + 1 \in 1..(k + l) /\ ~ ((k + l) - i + 1 <= k)
        /\ ((k + l) - i + 1) - k = l - i + 1
    BY <1>1
  <2> QED BY <1>1, <2>1
<1> DEFINE a == Reverse(s)
           b == Reverse(t)
<1>3. /\ a = [i \in 1..l |-> s[l - i + 1]]
      /\ b = [i \in 1..(k + l) |-> t[(k + l) - i + 1]]
  BY <1>1 DEF Reverse, l
<1>4. /\ Len(a) = l /\ Len(b) = k + l /\ \A i \in 1..l : a[i] = b[i]
  <2>1. Len(a) = l /\ Len(b) = k + l BY <1>1, <1>3
  <2>2. \A i \in 1..l : i \in 1..(k + l) BY <1>1
  <2> HIDE DEF a, b
  <2>3. \A i \in 1..l : a[i] = b[i] BY <1>2, <1>3, <2>2
  <2> QED BY <2>1, <2>3
<1> HIDE DEF a, b
<1>5. SubSeq(a, 1, l) = SubSeq(b, 1, l)
  <2>1. SubSeq(a, 1, l) = [i \in 1..l |-> a[i]] /\ SubSeq(b, 1, l) = [i \in 1..l |-> b[i]]
    BY <1>1
  <2>2. [i \in 1..l |-> a[i]] = [i \in 1..l |-> b[i]] BY <1>4
  <2> QED BY <2>1, <2>2
<1>6. IsPrefix(a, b) BY <1>1, <1>4, <1>5 DEF IsPrefix
<1> QED BY <1>6 DEF IsSuffix, a, b, t

(* The bytes an entry has left, and those of the queue, entry by entry.      *)
Left(e) == SubSeq(Bytes(e.frame), e.offset + 1, Size(e.frame))

Lefts(q) == [i \in DOMAIN q |-> Left(q[i])]

Bodies(l) == [i \in DOMAIN l |-> Bytes(l[i])]

LEMMA Pieces == Unwritten = FlattenSeq(Lefts(queue)) /\ Queued = FlattenSeq(Bodies(log))
BY DEF Unwritten, Queued, Lefts, Left, Bodies

LEMMA LeftType ==
  ASSUME NEW e \in Entries
  PROVE  /\ Left(e) \in Seq(Byte) /\ e.frame \in Frames /\ e.offset \in Nat
         /\ Size(e.frame) \in Nat \ {0} /\ e.offset < Size(e.frame)
         /\ Bytes(e.frame) \in Seq(Byte) /\ Len(Bytes(e.frame)) = Size(e.frame)
<1>1. /\ e.frame \in Frames /\ e.offset \in Nat /\ e.offset < Size(e.frame) BY DEF Entries
<1>2. /\ Bytes(e.frame) \in Seq(Byte) /\ Len(Bytes(e.frame)) = Size(e.frame)
      /\ Size(e.frame) \in Nat \ {0}
  BY <1>1, BytesType
<1>3. e.offset + 1 \in Nat \ {0} /\ Size(e.frame) \in 0..Size(e.frame) BY <1>1, <1>2
<1>4. Left(e) \in Seq(Byte) BY <1>2, <1>3, SubSeqType DEF Left
<1> QED BY <1>1, <1>2, <1>4

LEMMA LeftsType ==
  ASSUME NEW q \in Seq(Entries)
  PROVE  /\ Lefts(q) \in Seq(Seq(Byte)) /\ Len(Lefts(q)) = Len(q) /\ Len(q) \in Nat
         /\ \A i \in 1..Len(q) : Lefts(q)[i] = Left(q[i]) /\ q[i] \in Entries
<1> HIDE DEF Entries, Byte
<1>1. DOMAIN q = 1..Len(q) /\ Len(q) \in Nat BY LenProperties
<1>2. \A i \in 1..Len(q) : q[i] \in Entries BY <1>1, ElementOfSeq
<1>3. \A i \in 1..Len(q) : Left(q[i]) \in Seq(Byte) BY <1>2, LeftType
<1>4. Lefts(q) = [i \in 1..Len(q) |-> Left(q[i])] BY <1>1 DEF Lefts
<1>5. Lefts(q) \in Seq(Seq(Byte)) /\ Len(Lefts(q)) = Len(q) BY <1>1, <1>3, <1>4
<1>6. \A i \in 1..Len(q) : Lefts(q)[i] = Left(q[i]) BY <1>4
<1> QED BY <1>1, <1>2, <1>5, <1>6

LEMMA BodiesType ==
  ASSUME NEW l \in Seq(Frames)
  PROVE  /\ Bodies(l) \in Seq(Seq(Byte)) /\ Len(Bodies(l)) = Len(l) /\ Len(l) \in Nat
         /\ \A i \in 1..Len(l) : Bodies(l)[i] = Bytes(l[i])
<1> HIDE DEF Frames, Byte
<1>1. DOMAIN l = 1..Len(l) /\ Len(l) \in Nat BY LenProperties
<1>2. \A i \in 1..Len(l) : l[i] \in Frames BY <1>1, ElementOfSeq
<1>3. \A i \in 1..Len(l) : Bytes(l[i]) \in Seq(Byte) BY <1>2, BytesType
<1>4. Bodies(l) = [i \in 1..Len(l) |-> Bytes(l[i])] BY <1>1 DEF Bodies
<1>5. Bodies(l) \in Seq(Seq(Byte)) /\ Len(Bodies(l)) = Len(l) BY <1>1, <1>3, <1>4
<1>6. \A i \in 1..Len(l) : Bodies(l)[i] = Bytes(l[i]) BY <1>4
<1> QED BY <1>1, <1>5, <1>6

LEMMA NothingWritten ==
  ASSUME NEW f \in Frames
  PROVE  Left(Entry(f)) = Bytes(f) /\ Bytes(f) \in Seq(Byte)
<1>1. Bytes(f) \in Seq(Byte) /\ Len(Bytes(f)) = Size(f) BY BytesType
<1>2. SubSeq(Bytes(f), 1, Size(f)) = Bytes(f) BY <1>1, SubSeqFull
<1> QED BY <1>1, <1>2 DEF Left, Entry

(* What is put in the queue is left last.                                    *)
LEMMA LeftsAppend ==
  ASSUME NEW q \in Seq(Entries), NEW f \in Frames
  PROVE  Lefts(Append(q, Entry(f))) = Append(Lefts(q), Bytes(f))
<1> HIDE DEF Entries, Byte, Frames
<1> DEFINE e == Entry(f)
           r == Append(q, e)
           t == Append(Lefts(q), Bytes(f))
           n == Len(q)
<1>1. e \in Entries /\ Left(e) = Bytes(f) /\ Bytes(f) \in Seq(Byte)
  BY EntryType, NothingWritten
<1> HIDE DEF e
<1>2. /\ r \in Seq(Entries) /\ Len(r) = n + 1 /\ r[n + 1] = e
      /\ \A i \in 1..n : r[i] = q[i]
  BY <1>1, AppendProperties
<1>3. /\ n \in Nat /\ Lefts(q) \in Seq(Seq(Byte)) /\ Len(Lefts(q)) = n
      /\ \A i \in 1..n : Lefts(q)[i] = Left(q[i])
  BY LeftsType
<1>4. /\ t \in Seq(Seq(Byte)) /\ Len(t) = n + 1 /\ t[n + 1] = Bytes(f)
      /\ \A i \in 1..n : t[i] = Left(q[i])
  BY <1>1, <1>3, AppendProperties
<1> HIDE DEF r, t, n
<1>5. /\ Lefts(r) \in Seq(Seq(Byte)) /\ Len(Lefts(r)) = n + 1
      /\ \A i \in 1..(n + 1) : Lefts(r)[i] = Left(r[i])
  BY <1>2, LeftsType
<1>6. \A i \in 1..(n + 1) : Lefts(r)[i] = t[i]
  <2>1. \A i \in 1..(n + 1) : i \in 1..n \/ i = n + 1 BY <1>3
  <2> QED BY <1>1, <1>2, <1>4, <1>5, <2>1
<1>7. Lefts(r) = t BY <1>4, <1>5, <1>6, SeqEqual
<1> QED BY <1>7 DEF r, t, e

LEMMA BodiesAppend ==
  ASSUME NEW l \in Seq(Frames), NEW f \in Frames
  PROVE  Bodies(Append(l, f)) = Append(Bodies(l), Bytes(f))
<1> HIDE DEF Byte, Frames
<1> DEFINE r == Append(l, f)
           t == Append(Bodies(l), Bytes(f))
           n == Len(l)
<1>1. Bytes(f) \in Seq(Byte) BY BytesType
<1>2. /\ r \in Seq(Frames) /\ Len(r) = n + 1 /\ r[n + 1] = f
      /\ \A i \in 1..n : r[i] = l[i]
  BY AppendProperties
<1>3. /\ n \in Nat /\ Bodies(l) \in Seq(Seq(Byte)) /\ Len(Bodies(l)) = n
      /\ \A i \in 1..n : Bodies(l)[i] = Bytes(l[i])
  BY BodiesType
<1>4. /\ t \in Seq(Seq(Byte)) /\ Len(t) = n + 1 /\ t[n + 1] = Bytes(f)
      /\ \A i \in 1..n : t[i] = Bytes(l[i])
  BY <1>1, <1>3, AppendProperties
<1> HIDE DEF r, t, n
<1>5. /\ Bodies(r) \in Seq(Seq(Byte)) /\ Len(Bodies(r)) = n + 1
      /\ \A i \in 1..(n + 1) : Bodies(r)[i] = Bytes(r[i])
  BY <1>2, BodiesType
<1>6. \A i \in 1..(n + 1) : Bodies(r)[i] = t[i]
  <2>1. \A i \in 1..(n + 1) : i \in 1..n \/ i = n + 1 BY <1>3
  <2> QED BY <1>2, <1>4, <1>5, <2>1
<1>7. Bodies(r) = t BY <1>4, <1>5, <1>6, SeqEqual
<1> QED BY <1>7 DEF r, t

(* The first entry's bytes come before those of the others.                  *)
LEMMA LeftsHead ==
  ASSUME NEW q \in Seq(Entries), q # <<>>
  PROVE  /\ FlattenSeq(Lefts(q)) = Left(q[1]) \o FlattenSeq(Lefts(Tail(q)))
         /\ Left(q[1]) \in Seq(Byte) /\ FlattenSeq(Lefts(Tail(q))) \in Seq(Byte)
         /\ q[1] \in Entries /\ Head(q) = q[1] /\ Tail(q) \in Seq(Entries)
         /\ Len(Tail(q)) = Len(q) - 1 /\ Len(q) \in Nat \ {0}
         /\ \A i \in 1..(Len(q) - 1) : Tail(q)[i] = q[i + 1]
<1> HIDE DEF Entries, Byte
<1> DEFINE r == Lefts(q)
           n == Len(q)
           u == Tail(q)
<1>1. /\ r \in Seq(Seq(Byte)) /\ Len(r) = n /\ n \in Nat
      /\ \A i \in 1..n : r[i] = Left(q[i]) /\ q[i] \in Entries
  BY LeftsType
<1>2. n # 0 BY EmptySeq
<1>3. Head(q) = q[1] /\ u \in Seq(Entries) /\ Len(u) = n - 1
      /\ \A i \in 1..(n - 1) : u[i] = q[i + 1]
  BY HeadTailProperties
<1> HIDE DEF r, n, u
<1>4. r # <<>> BY <1>1, <1>2, EmptySeq
<1>5. Head(r) = r[1] /\ Tail(r) \in Seq(Seq(Byte)) /\ Len(Tail(r)) = n - 1
      /\ \A i \in 1..(n - 1) : Tail(r)[i] = r[i + 1]
  BY <1>1, <1>4, HeadTailProperties
<1>6. /\ Lefts(u) \in Seq(Seq(Byte)) /\ Len(Lefts(u)) = n - 1
      /\ \A i \in 1..(n - 1) : Lefts(u)[i] = Left(u[i])
  BY <1>3, LeftsType
<1>7. \A i \in 1..(n - 1) : Tail(r)[i] = Lefts(u)[i]
  <2>1. \A i \in 1..(n - 1) : i + 1 \in 1..n BY <1>1
  <2> QED BY <1>1, <1>3, <1>5, <1>6, <2>1
<1>8. Tail(r) = Lefts(u) BY <1>5, <1>6, <1>7, SeqEqual
<1>9. 1 \in 1..n BY <1>1, <1>2
<1>10. /\ Head(r) = Left(q[1]) /\ q[1] \in Entries BY <1>1, <1>5, <1>9
<1>11. /\ FlattenSeq(r) = Head(r) \o FlattenSeq(Tail(r))
       /\ Head(r) \in Seq(Byte) /\ FlattenSeq(Tail(r)) \in Seq(Byte)
  BY <1>1, <1>4, FlattenHead
<1> QED BY <1>1, <1>2, <1>3, <1>8, <1>10, <1>11 DEF r, n, u

-----------------------------------------------------------------------------
LEMMA PiecesType ==
  ASSUME TypeOK
  PROVE  Unwritten \in Seq(Byte) /\ Queued \in Seq(Byte) /\ tx \in Seq(Byte)
<1>1. queue \in Seq(Entries) /\ log \in Seq(Frames) /\ tx \in Seq(Byte)
  BY DEF TypeOK, Byte
<1>2. Lefts(queue) \in Seq(Seq(Byte)) /\ Bodies(log) \in Seq(Seq(Byte))
  BY <1>1, LeftsType, BodiesType
<1>3. <<>> \in Seq(Byte) BY EmptySeq
<1> QED BY <1>1, <1>2, <1>3, Pieces, FlattenAppend

LEMMA Enqueued ==
  ASSUME TypeOK, NEW f \in Frames, Enqueue(f)
  PROVE  Unwritten' = Unwritten \o Bytes(f) /\ Queued' = Queued \o Bytes(f)
<1>1. queue \in Seq(Entries) /\ log \in Seq(Frames) BY DEF TypeOK
<1>2. Lefts(queue) \in Seq(Seq(Byte)) /\ Bodies(log) \in Seq(Seq(Byte)) /\ Bytes(f) \in Seq(Byte)
  BY <1>1, LeftsType, BodiesType, BytesType
<1>3. queue' = Append(queue, Entry(f)) /\ log' = Append(log, f) BY DEF Enqueue
<1>4. Lefts(queue') = Append(Lefts(queue), Bytes(f)) BY <1>1, <1>3, LeftsAppend
<1>5. Bodies(log') = Append(Bodies(log), Bytes(f)) BY <1>1, <1>3, BodiesAppend
<1>6. Unwritten' = FlattenSeq(Lefts(queue')) /\ Queued' = FlattenSeq(Bodies(log'))
  BY DEF Unwritten, Queued, Lefts, Left, Bodies
<1>7. FlattenSeq(Append(Lefts(queue), Bytes(f))) = Unwritten \o Bytes(f)
  BY <1>2, Pieces, FlattenAppend
<1>8. FlattenSeq(Append(Bodies(log), Bytes(f))) = Queued \o Bytes(f)
  BY <1>2, Pieces, FlattenAppend
<1> QED BY <1>4, <1>5, <1>6, <1>7, <1>8

(* A frame partly written: what poll_write took comes before what is left.   *)
LEMMA LeftSplits ==
  ASSUME NEW e \in Entries, NEW d \in Entries, NEW n \in Nat,
         d.frame = e.frame, d.offset = e.offset + n
  PROVE  LET piece == SubSeq(Bytes(e.frame), e.offset + 1, e.offset + n)
         IN  piece \in Seq(Byte) /\ Left(e) = piece \o Left(d)
<1> DEFINE b == Bytes(e.frame)
           o == e.offset
           z == Size(e.frame)
<1>1. /\ b \in Seq(Byte) /\ Len(b) = z /\ z \in Nat /\ o \in Nat /\ o + n < z
  BY LeftType
<1>2. Left(e) = SubSeq(b, o + 1, z) /\ Left(d) = SubSeq(b, (o + n) + 1, z)
  BY DEF Left
<1> HIDE DEF b, o, z
<1>3. /\ o + 1 \in 1..Len(b) + 1 /\ o + n \in (o + 1) - 1..Len(b) /\ z \in o + n..Len(b)
      /\ o + 1 \in Nat \ {0} /\ o + n \in 0..Len(b)
  BY <1>1
<1>4. SubSeq(b, o + 1, o + n) \o SubSeq(b, (o + n) + 1, z) = SubSeq(b, o + 1, z)
  BY <1>1, <1>3, ConcatAdjacentSubSeq
<1>5. SubSeq(b, o + 1, o + n) \in Seq(Byte) BY <1>1, <1>3, SubSeqType
<1> QED BY <1>2, <1>4, <1>5 DEF b, o, z

(* Changing the first element of a sequence leaves the others.               *)
LEMMA FirstChanged ==
  ASSUME NEW S, NEW q \in Seq(S), q # <<>>, NEW d \in S, NEW r,
         r = [q EXCEPT ![1] = d]
  PROVE  r \in Seq(S) /\ r # <<>> /\ r[1] = d /\ Tail(r) = Tail(q)
<1>1. Len(q) \in Nat \ {0} /\ 1 \in 1..Len(q) BY EmptySeq
<1>2. /\ r \in Seq(S) /\ Len(r) = Len(q) /\ r[1] = d
      /\ \A i \in 1..Len(q) : i # 1 => r[i] = q[i]
  BY <1>1, ExceptSeq
<1>3. r # <<>> BY <1>1, <1>2, EmptySeq
<1>4. /\ Tail(r) \in Seq(S) /\ Len(Tail(r)) = Len(q) - 1
      /\ \A i \in 1..(Len(q) - 1) : Tail(r)[i] = r[i + 1]
  BY <1>2, <1>3, HeadTailProperties
<1>5. /\ Tail(q) \in Seq(S) /\ Len(Tail(q)) = Len(q) - 1
      /\ \A i \in 1..(Len(q) - 1) : Tail(q)[i] = q[i + 1]
  BY HeadTailProperties
<1>6. \A i \in 1..(Len(q) - 1) : i + 1 \in 1..Len(q) /\ i + 1 # 1 BY <1>1
<1>7. \A i \in 1..(Len(q) - 1) : Tail(r)[i] = Tail(q)[i] BY <1>2, <1>4, <1>5, <1>6
<1>8. Tail(r) = Tail(q) BY <1>4, <1>5, <1>7, SeqEqual
<1> QED BY <1>2, <1>3, <1>8

(* Bytes written only move from the queue to the substream.                  *)
LEMMA Moved ==
  ASSUME TypeOK, Write
  PROVE  tx' \o Unwritten' = tx \o Unwritten
<1> DEFINE e == Head(queue)
           left == Size(e.frame) - e.offset
           n == IF left < credit THEN left ELSE credit
           piece == SubSeq(Bytes(e.frame), e.offset + 1, e.offset + n)
           rest == FlattenSeq(Lefts(Tail(queue)))
<1>1. queue \in Seq(Entries) /\ queue # <<>> /\ tx \in Seq(Byte) /\ credit \in Nat
  BY DEF TypeOK, Write, Byte
<1>2. /\ tx' = tx \o piece
      /\ queue' = IF n = left THEN Tail(queue) ELSE [queue EXCEPT ![1].offset = @ + n]
  BY DEF Write
<1>3. /\ Unwritten = Left(e) \o rest /\ Left(e) \in Seq(Byte) /\ rest \in Seq(Byte)
      /\ e \in Entries /\ e = queue[1]
  BY <1>1, LeftsHead, Pieces
<1>4. Unwritten' = FlattenSeq(Lefts(queue')) BY DEF Unwritten, Lefts, Left
<1> HIDE DEF rest, e
<1>5. /\ e.frame \in Frames /\ e.offset \in Nat /\ Size(e.frame) \in Nat
      /\ e.offset < Size(e.frame)
  BY <1>3, LeftType
<1>6. n \in Nat /\ n <= left /\ left \in Nat BY <1>1, <1>5
<1>7. CASE n = left
  <2>1. e.offset + n = Size(e.frame) BY <1>5, <1>7
  <2>2. piece = Left(e) BY <2>1 DEF Left
  <2>3. Unwritten' = rest BY <1>2, <1>4, <1>7 DEF rest
  <2>4. (tx \o Left(e)) \o rest = tx \o (Left(e) \o rest) BY <1>1, <1>3, Assoc, Zenon
  <2>5. tx' = tx \o Left(e) BY <1>2, <2>2
  <2> QED BY <1>3, <2>3, <2>4, <2>5
<1>8. CASE n # left
  <2> DEFINE d == [e EXCEPT !.offset = @ + n]
  <2>1. d = [offset |-> e.offset + n, frame |-> e.frame]
    <3> HIDE DEF n
    <3> QED BY <1>3 DEF Entries
  <2>2. d.frame = e.frame /\ d.offset = e.offset + n /\ d \in Entries
    <3>1. e.offset + n \in Nat /\ e.offset + n < Size(e.frame) BY <1>5, <1>6, <1>8
    <3> HIDE DEF n, d
    <3> QED BY <1>5, <2>1, <3>1 DEF Entries
  <2>3. queue' = [queue EXCEPT ![1] = d]
    <3>1. queue' = [queue EXCEPT ![1].offset = @ + n] BY <1>2, <1>8
    <3> HIDE DEF n
    <3> QED BY <1>3, <3>1
  <2> HIDE DEF d, n
  <2>4. queue' \in Seq(Entries) /\ queue' # <<>> /\ queue'[1] = d /\ Tail(queue') = Tail(queue)
    BY <1>1, <2>2, <2>3, FirstChanged
  <2>5. /\ FlattenSeq(Lefts(queue')) = Left(d) \o rest /\ Left(d) \in Seq(Byte)
    <3>1. PICK q : q = queue' OBVIOUS
    <3>2. q \in Seq(Entries) /\ q # <<>> /\ q[1] = d /\ Tail(q) = Tail(queue)
      BY <2>4, <3>1
    <3>3. /\ FlattenSeq(Lefts(q)) = Left(q[1]) \o FlattenSeq(Lefts(Tail(q)))
          /\ Left(q[1]) \in Seq(Byte)
      BY <3>2, LeftsHead
    <3> QED BY <3>1, <3>2, <3>3 DEF rest
  <2>6. piece \in Seq(Byte) /\ Left(e) = piece \o Left(d)
    BY <1>3, <1>6, <2>2, LeftSplits
  <2> HIDE DEF piece
  <2>7. tx' \o Unwritten' = (tx \o piece) \o (Left(d) \o rest)
    BY <1>2, <1>4, <2>5
  <2>8. tx \o piece \in Seq(Byte) /\ Left(d) \o rest \in Seq(Byte)
    BY <1>1, <1>3, <2>5, <2>6, ConcatProperties
  <2>9. (tx \o piece) \o (Left(d) \o rest) = tx \o (piece \o (Left(d) \o rest))
    BY <1>1, <2>6, <2>8, Assoc, Zenon
  <2>10. piece \o (Left(d) \o rest) = (piece \o Left(d)) \o rest
    BY <1>3, <2>5, <2>6, Assoc, Zenon
  <2> QED BY <1>3, <2>6, <2>7, <2>9, <2>10, Zenon
<1> QED BY <1>7, <1>8

(* The invariant.  u is what earlier substreams took; before the first is    *)
(* closed there is none, and nothing was written before one was opened.      *)
Opens ==
  /\ closed => closes > 0
  /\ opening \in {"none", "requested"} /\ closes = 0 => tx = <<>>

Follows(u, s, q) == q = u \o s

Written ==
  \E u \in Seq(Byte) :
    (closes = 0 => u = <<>>) /\ Follows(u, tx \o Unwritten, Queued)

LEMMA InitWritten == Init => Opens /\ Written
<1> SUFFICES ASSUME Init PROVE Opens /\ Written
  OBVIOUS
<1>1. TypeOK BY InitType
<1>2. tx = <<>> /\ closed = FALSE BY DEF Init
<1>3. log \in Seq(Frames) /\ queue \in Seq(Entries) BY <1>1 DEF TypeOK
<1>4. queue = [i \in DOMAIN log |-> Entry(log[i])] BY DEF Init
<1>5. Lefts(queue) = Bodies(log)
  <2>1. DOMAIN log = 1..Len(log) /\ Len(log) \in Nat BY <1>3, LenProperties
  <2>2. \A i \in 1..Len(log) : log[i] \in Frames BY <1>3, <2>1, ElementOfSeq
  <2>3. \A i \in 1..Len(log) : Left(Entry(log[i])) = Bytes(log[i]) BY <2>2, NothingWritten
  <2>4. DOMAIN queue = 1..Len(log) /\ \A i \in 1..Len(log) : queue[i] = Entry(log[i])
    BY <1>4, <2>1
  <2>5. Lefts(queue) = [i \in 1..Len(log) |-> Left(queue[i])] BY <2>4 DEF Lefts
  <2>6. Bodies(log) = [i \in 1..Len(log) |-> Bytes(log[i])] BY <2>1 DEF Bodies
  <2> QED BY <2>3, <2>4, <2>5, <2>6
<1>6. Unwritten = Queued BY <1>5, Pieces
<1>7. Unwritten \in Seq(Byte) BY <1>1, PiecesType
<1>8. <<>> \in Seq(Byte) /\ <<>> \o Unwritten = Unwritten BY <1>7, EmptySeq, ConcatEmptySeq
<1>9. Follows(<<>>, tx \o Unwritten, Queued) BY <1>2, <1>6, <1>8 DEF Follows
<1> QED BY <1>2, <1>8, <1>9 DEF Opens, Written

LEMMA NextOpens == WInv /\ Opens /\ [Next]_vars => Opens'
<1> SUFFICES ASSUME WInv, Opens, [Next]_vars PROVE Opens'
  OBVIOUS
<1>1. closes \in Nat BY DEF WInv, IInv, TypeOK
<1>2. pc # "idle" => opening = "negotiated" BY DEF WInv, Control
<1> USE DEF Opens, stream, buffer, written, task, wire, sink
<1>3. CASE RemoteSend \/ Arrive \/ Credit \/ Add
  BY <1>3 DEF RemoteSend, Arrive, Credit, Add
<1>4. CASE RemoteClose BY <1>1, <1>4 DEF RemoteClose
<1>5. CASE Negotiated BY <1>5 DEF Negotiated
<1>6. CASE Request \/ Poll \/ SkipSend \/ WriteBlocked
  BY <1>6 DEF Request, Poll, SkipSend, WriteBlocked
<1>7. CASE Write BY <1>2, <1>7 DEF Write
<1>8. CASE WriteFails \/ ParseFails \/ Eof
  BY <1>8 DEF WriteFails, ParseFails, Eof, Fail
<1>9. CASE Answer \/ Deliver \/ NoFrame BY <1>9 DEF Answer, Deliver, NoFrame
<1>10. CASE Fill BY <1>10 DEF Fill
<1>11. CASE FillBlocked BY <1>11 DEF FillBlocked
<1>12. CASE Reopen BY <1>1, <1>12 DEF Reopen, ReadsZero
<1>13. CASE UNCHANGED vars BY <1>13 DEF vars
<1> QED BY <1>3, <1>4, <1>5, <1>6, <1>7, <1>8, <1>9, <1>10, <1>11, <1>12, <1>13
        DEF Next, Environment, Task

(* A frame put in the queue is queued behind all that is not yet written.    *)
LEMMA QueuedWritten ==
  ASSUME TypeOK, Written, NEW f \in Frames, Enqueue(f), UNCHANGED <<tx, closes>>
  PROVE  Written'
<1>1. PICK u \in Seq(Byte) :
        (closes = 0 => u = <<>>) /\ Follows(u, tx \o Unwritten, Queued)
  BY DEF Written
<1>2. Unwritten \in Seq(Byte) /\ tx \in Seq(Byte) /\ Bytes(f) \in Seq(Byte)
  BY PiecesType, BytesType
<1>3. Unwritten' = Unwritten \o Bytes(f) /\ Queued' = Queued \o Bytes(f) BY Enqueued
<1>4. tx \o Unwritten \in Seq(Byte) BY <1>2, ConcatProperties
<1>5. tx \o (Unwritten \o Bytes(f)) = (tx \o Unwritten) \o Bytes(f)
  BY <1>2, Assoc, Zenon
<1>6. u \o ((tx \o Unwritten) \o Bytes(f)) = (u \o (tx \o Unwritten)) \o Bytes(f)
  <2>1. u \in Seq(Byte) BY <1>1
  <2> QED BY ONLY <1>2, <1>4, <2>1, Assoc, Zenon
<1>7. Queued' = u \o (tx \o (Unwritten \o Bytes(f)))
  BY <1>1, <1>3, <1>5, <1>6, Zenon DEF Follows
<1>8. Follows(u, tx' \o Unwritten', Queued') BY <1>3, <1>7 DEF Follows
<1> QED BY <1>1, <1>8 DEF Written

(* On a new substream what was written before is an earlier one's.           *)
LEMMA ReopenedWritten ==
  ASSUME TypeOK, Written, Opens, Negotiated
  PROVE  Written'
<1>1. PICK u \in Seq(Byte) :
        (closes = 0 => u = <<>>) /\ Follows(u, tx \o Unwritten, Queued)
  BY DEF Written
<1>2. Unwritten \in Seq(Byte) /\ tx \in Seq(Byte) BY PiecesType
<1>3. tx' = <<>> /\ closes' = closes /\ UNCHANGED <<queue, log>>
  BY DEF Negotiated, written
<1>4. Unwritten' = Unwritten /\ Queued' = Queued BY <1>3 DEF Unwritten, Queued
<1>5. closes = 0 => tx = <<>> BY DEF Negotiated, Opens
<1>6. u \o tx \in Seq(Byte) BY <1>1, <1>2, ConcatProperties
<1>7. closes' = 0 => u \o tx = <<>> BY <1>1, <1>3, <1>5, EmptySeq, ConcatEmptySeq
<1>8. u \o (tx \o Unwritten) = (u \o tx) \o Unwritten BY <1>1, <1>2, Assoc, Zenon
<1>9. <<>> \o Unwritten = Unwritten BY <1>2, ConcatEmptySeq
<1>10. Follows(u \o tx, tx' \o Unwritten', Queued')
  BY <1>1, <1>3, <1>4, <1>8, <1>9 DEF Follows
<1> QED BY <1>6, <1>7, <1>10 DEF Written

(* A step that neither queues nor writes keeps what was written; a substream *)
(* may have been closed.                                                     *)
LEMMA QuietWritten ==
  ASSUME TypeOK, Written, UNCHANGED <<queue, log, tx>>, closes' \in {closes, closes + 1}
  PROVE  Written'
<1>1. PICK u \in Seq(Byte) :
        (closes = 0 => u = <<>>) /\ Follows(u, tx \o Unwritten, Queued)
  BY DEF Written
<1>2. Unwritten' = Unwritten /\ Queued' = Queued BY DEF Unwritten, Queued
<1>3. closes' = 0 => closes = 0 BY DEF TypeOK
<1> QED BY <1>1, <1>2, <1>3 DEF Written

LEMMA NextWritten == WInv /\ Opens /\ Written /\ [Next]_vars => Written'
<1> SUFFICES ASSUME WInv, Opens, Written, [Next]_vars PROVE Written'
  OBVIOUS
<1>1. TypeOK BY DEF WInv, IInv
<1>2. CASE UNCHANGED <<queue, log, tx>> /\ closes' \in {closes, closes + 1}
  BY <1>1, <1>2, QuietWritten
<1>3. CASE Negotiated BY <1>1, <1>3, ReopenedWritten
<1>4. ASSUME NEW kind \in LocalKinds, Enqueue(LocalFrame(kind)), UNCHANGED <<tx, closes>>
      PROVE  Written'
  <2>1. LocalFrame(kind) \in Frames
    BY <1>1, RpcStreamAssumption DEF LocalFrame, Frames, TypeOK
  <2> QED BY <1>1, <1>4, <2>1, QueuedWritten
<1>5. "query" \in LocalKinds /\ "heartbeat" \in LocalKinds /\ "menuAnswer" \in LocalKinds
  BY DEF LocalKinds
<1>6. CASE Add BY <1>4, <1>5, <1>6 DEF Add, wire, sink
<1>7. CASE Answer
  <2>1. Enqueue(LocalFrame("heartbeat")) \/ Enqueue(LocalFrame("menuAnswer"))
    BY <1>7 DEF Answer
  <2>2. UNCHANGED <<tx, closes>> BY <1>7 DEF Answer, wire, sink
  <2> QED BY <1>4, <1>5, <2>1, <2>2
<1>8. CASE Write
  <2>1. PICK u \in Seq(Byte) :
          (closes = 0 => u = <<>>) /\ Follows(u, tx \o Unwritten, Queued)
    BY DEF Written
  <2>2. tx' \o Unwritten' = tx \o Unwritten BY <1>1, <1>8, Moved
  <2>3. log' = log /\ closes' = closes BY <1>8 DEF Write, wire
  <2>4. Queued' = Queued BY <2>3 DEF Queued
  <2> QED BY <2>1, <2>2, <2>3, <2>4 DEF Written
<1> USE DEF stream, buffer, written, task, wire, sink
<1>9. CASE RemoteSend \/ Arrive \/ RemoteClose \/ Credit
  BY <1>2, <1>9 DEF RemoteSend, Arrive, RemoteClose, Credit
<1>10. CASE Request \/ Poll \/ SkipSend \/ WriteBlocked \/ NoFrame \/ Fill
  BY <1>2, <1>10 DEF Request, Poll, SkipSend, WriteBlocked, NoFrame, Fill
<1>11. CASE WriteFails \/ ParseFails \/ Eof
  BY <1>2, <1>11 DEF WriteFails, ParseFails, Eof, Fail
<1>12. CASE Deliver \/ FillBlocked \/ Reopen
  BY <1>2, <1>12 DEF Deliver, FillBlocked, Reopen
<1>13. CASE UNCHANGED vars BY <1>2, <1>13 DEF vars
<1> QED BY <1>3, <1>6, <1>7, <1>8, <1>9, <1>10, <1>11, <1>12, <1>13
        DEF Next, Environment, Task

(* Whatever poll_write accepts at a time and whenever an answer is queued,   *)
(* what was written and what is still queued are the queued frames in order, *)
(* over any number of substreams (state.rs:186, 229, 244-259).               *)
THEOREM WrittenInOrder == Spec => []WritesInOrder
<1>1. WInv /\ Written => WritesInOrder
  <2> SUFFICES ASSUME WInv, Written PROVE WritesInOrder
    OBVIOUS
  <2>1. PICK u \in Seq(Byte) :
          (closes = 0 => u = <<>>) /\ Follows(u, tx \o Unwritten, Queued)
    BY DEF Written
  <2>2. tx \in Seq(Byte) /\ Unwritten \in Seq(Byte) BY PiecesType DEF WInv, IInv
  <2>3. tx \o Unwritten \in Seq(Byte) BY <2>2, ConcatProperties
  <2>4. IsSuffix(tx \o Unwritten, Queued) BY <2>1, <2>3, SuffixOf DEF Follows
  <2>5. <<>> \o (tx \o Unwritten) = tx \o Unwritten BY <2>3, ConcatEmptySeq
  <2>6. closes = 0 => tx \o Unwritten = Queued BY <2>1, <2>5 DEF Follows
  <2> QED BY <2>4, <2>6 DEF WritesInOrder
<1>2. WInv /\ Opens /\ Written /\ [Next]_vars => (Opens /\ Written)'
  BY NextOpens, NextWritten
<1> QED BY <1>1, <1>2, InitWritten, WireInvariance, PTL DEF Spec
=============================================================================
