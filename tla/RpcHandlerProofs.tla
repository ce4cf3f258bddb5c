-------------------------- MODULE RpcHandlerProofs -------------------------
(* Theorems about RpcHandler, for every set of numbers and without bounds.   *)
EXTENDS RpcHandler, TLAPS, SequenceTheorems, FiniteSetTheorems

(* The accounting is inductive with the types of what it counts.             *)
Counts ==
  /\ last_outgoing_id \in Seq(OutIds)
  /\ requests \in Nat /\ refused \in Nat /\ implicit \in Nat
  /\ DOMAIN streams \subseteq StreamIds /\ last_incoming_id \in Nat

AInv == Counts /\ IdAccounting

(* An outgoing stream carries a number the user chose (behaviour.rs:58-62).  *)
LEMMA OutgoingNumber ==
  ASSUME NEW s \in StreamIds, s[1] = "Outgoing"
  PROVE  s[2] \in OutIds
BY DEF StreamIds, Incoming, Outgoing

(* push_back of a number makes the queue one longer (handler.rs:111, 141).   *)
LEMMA PushNumber ==
  ASSUME NEW q \in Seq(OutIds), NEW id \in OutIds
  PROVE  Append(q, id) \in Seq(OutIds) /\ Len(Append(q, id)) = Len(q) + 1
BY AppendProperties

(* A handler starts with no number queued and no request made                *)
(* (handler.rs:42-51).                                                       *)
LEMMA AccountingInit == Init => AInv
BY EmptySeq DEF Init, AInv, Counts, IdAccounting

(* Every step keeps the account of queued numbers, whichever call it is      *)
(* (handler.rs:61, 111, 141, 163).                                           *)
LEMMA AccountingStep == AInv /\ [Next]_vars => AInv'
<1> SUFFICES ASSUME AInv, [Next]_vars PROVE AInv'
  OBVIOUS
<1> USE DEF AInv, Counts, IdAccounting
<1>1. ASSUME NEW id \in OutIds, Open(id) PROVE AInv'
  BY <1>1 DEF Open, Insert, StreamIds
<1>2. ASSUME NEW s \in StreamIds, SendHere(s) PROVE AInv'
  BY <1>2 DEF SendHere, Send
<1>3. ASSUME NEW s \in StreamIds, SendImplicit(s) PROVE AInv'
  <2>1. s[2] \in OutIds
    BY <1>3, OutgoingNumber DEF SendImplicit
  <2>2. /\ last_outgoing_id' \in Seq(OutIds)
        /\ Len(last_outgoing_id') = Len(last_outgoing_id) + 1
    BY <1>3, <2>1, PushNumber DEF SendImplicit
  <2>3. DOMAIN streams' \subseteq StreamIds
    BY <1>3 DEF SendImplicit, Insert
  <2>4. /\ requests' = requests /\ refused' = refused /\ implicit' = implicit + 1
        /\ last_incoming_id' = last_incoming_id
    BY <1>3 DEF SendImplicit, Send
  <2> QED BY <2>2, <2>3, <2>4
<1>4. ASSUME NEW s \in StreamIds, SendNowhere(s) PROVE AInv'
  BY <1>4 DEF SendNowhere, Send
<1>5. CASE Inbound
  <2>1. Incoming(last_incoming_id) \in StreamIds
    BY <1>5, RpcHandlerAssumption DEF Inbound, StreamIds
  <2> QED BY <1>5, <2>1 DEF Inbound, Insert, counters
<1>6. CASE Outbound
  <2>1. last_outgoing_id # <<>> /\ requests' = requests - 1 /\ requests > 0
    BY <1>6 DEF Outbound
  <2>2. last_outgoing_id' = Tail(last_outgoing_id)
    BY <1>6, <2>1 DEF Outbound
  <2>3. /\ last_outgoing_id' \in Seq(OutIds)
        /\ Len(last_outgoing_id') = Len(last_outgoing_id) - 1
    BY <2>1, <2>2, HeadTailProperties
  <2>4. DOMAIN streams' = DOMAIN streams
    BY <1>6, <2>1 DEF Outbound
  <2> QED BY <1>6, <2>1, <2>3, <2>4 DEF Outbound, counters
<1>7. CASE Refused
  BY <1>7 DEF Refused, tables
<1>8. ASSUME NEW s \in StreamIds, NEW what, Mail(s, what) PROVE AInv'
  BY <1>8 DEF Mail
<1>9. CASE Poll
  <2>1. DOMAIN streams' \subseteq StreamIds
    <3>1. DOMAIN streams' = Alive
      BY <1>9 DEF Poll
    <3> QED BY <3>1 DEF Alive
  <2>2. UNCHANGED <<last_incoming_id, refused, implicit>>
    BY <1>9 DEF Poll, counters
  <2>3. CASE \E s \in Polled : Asks(s)
    <3>1. PICK s \in Polled : Asks(s) /\ Remember(s)
      BY <1>9, <2>3 DEF Poll
    <3>2. s[2] \in OutIds
      BY <3>1, OutgoingNumber DEF Asks, Polled, Alive
    <3>3. /\ last_outgoing_id' \in Seq(OutIds)
          /\ Len(last_outgoing_id') = Len(last_outgoing_id) + 1
      BY <3>1, <3>2, PushNumber DEF Remember
    <3>4. requests' = requests + 1
      BY <1>9, <2>3 DEF Poll
    <3> QED BY <2>1, <2>2, <3>3, <3>4
  <2>4. CASE ~ \E s \in Polled : Asks(s)
    <3>1. UNCHANGED <<last_outgoing_id, requests>>
      BY <1>9, <2>4 DEF Poll
    <3> QED BY <2>1, <2>2, <3>1
  <2> QED BY <2>3, <2>4
<1>10. CASE UNCHANGED vars
  BY <1>10 DEF vars, tables, counters
<1> QED
  BY <1>1, <1>2, <1>3, <1>4, <1>5, <1>6, <1>7, <1>8, <1>9, <1>10 DEF Next

(* Whatever the commands, the refusals and the failures, the queue of        *)
(* numbers exceeds the requests the swarm works on by one for each request   *)
(* refused (handler.rs:163) and each implicit opening (handler.rs:141).      *)
THEOREM Accounting == Spec => []IdAccounting
<1>1. AInv => IdAccounting
  BY DEF AInv
<1> QED BY <1>1, AccountingInit, AccountingStep, PTL DEF Spec

-----------------------------------------------------------------------------
(* Types.                                                                    *)

LEMMA InitTypes == Init => TypeOK
BY RpcHandlerAssumption, EmptySeq DEF Init, TypeOK

LEMMA NewStreamType ==
  /\ NewStream \in Streams
  /\ \A n \in Nat : [NewStream EXCEPT !.held = <<n>>] \in Streams
  /\ ios \in Nat => \A st \in Streams : WithIo(st) \in Streams /\ WithIo(st).held = st.held
<1>1. <<>> \in Seq(Nat) /\ \A n \in Nat : <<n>> \in Seq(Nat)
  BY EmptySeq
<1>2. NewStream \in Streams BY <1>1 DEF NewStream, Streams
<1>3. \A n \in Nat : [NewStream EXCEPT !.held = <<n>>] \in Streams
  BY <1>1 DEF NewStream, Streams
<1>4. ASSUME ios \in Nat, NEW st \in Streams
      PROVE  WithIo(st) \in Streams /\ WithIo(st).held = st.held
  <2>1. WithIo(st) = [opening |-> "negotiated", io |-> ios + 1, held |-> st.held,
                      mail |-> "quiet"]
    <3>1. st = [opening |-> st.opening, io |-> st.io, held |-> st.held, mail |-> st.mail]
      BY <1>4 DEF Streams
    <3> DEFINE n == ios + 1
    <3>2. WithIo(st) = [st EXCEPT !.opening = "negotiated", !.io = n, !.mail = "quiet"]
      BY DEF WithIo
    <3> HIDE DEF n
    <3>3. WithIo(st) = [opening |-> "negotiated", io |-> n, held |-> st.held, mail |-> "quiet"]
      BY <3>1, <3>2
    <3> QED BY <3>3 DEF n
  <2>2. st.held \in Seq(Nat) BY <1>4 DEF Streams
  <2> QED BY <1>4, <2>1, <2>2 DEF Streams
<1> QED BY <1>2, <1>3, <1>4

LEMMA InsertTypes ==
  ASSUME TypeOK, NEW s \in StreamIds, NEW st \in Streams, streams' = Insert(s, st)
  PROVE  /\ DOMAIN streams' = DOMAIN streams \cup {s} /\ DOMAIN streams' \subseteq StreamIds
         /\ \A t \in DOMAIN streams' : streams'[t] \in Streams
BY DEF Insert, TypeOK

LEMMA SendTypes ==
  ASSUME TypeOK, NEW s \in StreamIds, Send(s)
  PROVE  /\ target' \in Seq(StreamIds) /\ Len(target') \in Nat
         /\ Len(target') = Len(target) + 1
BY AppendProperties, LenProperties DEF Send, TypeOK

(* What a poll leaves of a stream is a stream (handler.rs:103-123).          *)
LEMMA AfterPollTypes ==
  ASSUME TypeOK, NEW s \in DOMAIN streams, NEW n \in Nat, n <= Len(streams[s].held)
  PROVE  AfterPoll(s, n) \in Streams
<1>1. streams[s] \in Streams BY DEF TypeOK
<1>2. streams[s].held \in Seq(Nat) BY <1>1 DEF Streams
<1>3. SubSeq(streams[s].held, n + 1, Len(streams[s].held)) \in Seq(Nat)
  <2>1. Len(streams[s].held) \in Nat BY <1>2, LenProperties
  <2>2. \A i \in (n + 1)..Len(streams[s].held) : streams[s].held[i] \in Nat
    BY <1>2, <2>1, ElementOfSeq
  <2> QED BY <2>1, <2>2, SubSeqProperties
<1> QED BY <1>1, <1>3 DEF AfterPoll, Streams

LEMMA NextTypes == TypeOK /\ [Next]_vars => TypeOK'
<1> SUFFICES ASSUME TypeOK, [Next]_vars PROVE TypeOK'
  OBVIOUS
<1>0. ios \in Nat /\ {opens, implicit, replaced, refused, mails} \subseteq Nat BY DEF TypeOK
<1>1. ASSUME NEW id \in OutIds, Open(id) PROVE TypeOK'
  <2>1. Outgoing(id) \in StreamIds BY DEF StreamIds
  <2>2. /\ DOMAIN streams' = DOMAIN streams \cup {Outgoing(id)}
        /\ DOMAIN streams' \subseteq StreamIds
        /\ \A t \in DOMAIN streams' : streams'[t] \in Streams
    BY <1>1, <2>1, InsertTypes, NewStreamType DEF Open
  <2>3. lost' \subseteq Nat
    <3>1. HeldBy(Outgoing(id)) \subseteq Nat
      <4>1. CASE Outgoing(id) \in DOMAIN streams
        <5>1. streams[Outgoing(id)].held \in Seq(Nat) BY <4>1 DEF TypeOK, Streams
        <5> QED BY <4>1, <5>1, LenProperties, ElementOfSeq DEF HeldBy, Range
      <4>2. CASE Outgoing(id) \notin DOMAIN streams BY <4>2 DEF HeldBy
      <4> QED BY <4>1, <4>2
    <3> QED BY <1>1, <3>1 DEF Open, TypeOK
  <2>4. replaced' \in Nat /\ opens' \in Nat BY <1>0, <1>1 DEF Open
  <2> QED BY <1>1, <2>2, <2>3, <2>4 DEF Open, TypeOK
<1>2. ASSUME NEW s \in StreamIds, SendHere(s) PROVE TypeOK'
  <2>1. target' \in Seq(StreamIds) /\ Len(target') \in Nat BY <1>2, SendTypes DEF SendHere
  <2>2. streams' = [streams EXCEPT ![s].held = Append(@, Len(target'))] /\ s \in DOMAIN streams
    BY <1>2 DEF SendHere
  <2>3. streams[s] \in Streams /\ Append(streams[s].held, Len(target')) \in Seq(Nat)
    BY <2>1, <2>2, AppendProperties DEF TypeOK, Streams
  <2>4. [streams[s] EXCEPT !.held = Append(streams[s].held, Len(target'))] \in Streams
    BY <2>3 DEF Streams
  <2>5. DOMAIN streams' = DOMAIN streams /\ \A t \in DOMAIN streams' : streams'[t] \in Streams
    BY <2>2, <2>4 DEF TypeOK
  <2> QED BY <1>2, <2>1, <2>5 DEF SendHere, Send, TypeOK
<1>3. ASSUME NEW s \in StreamIds, SendImplicit(s) PROVE TypeOK'
  <2>1. target' \in Seq(StreamIds) /\ Len(target') \in Nat BY <1>3, SendTypes DEF SendImplicit
  <2>2. /\ DOMAIN streams' = DOMAIN streams \cup {s} /\ DOMAIN streams' \subseteq StreamIds
        /\ \A t \in DOMAIN streams' : streams'[t] \in Streams
    BY <1>3, <2>1, InsertTypes, NewStreamType DEF SendImplicit
  <2>3. last_outgoing_id' \in Seq(OutIds)
    BY <1>3, OutgoingNumber, PushNumber DEF SendImplicit, TypeOK
  <2>4. implicit' \in Nat BY <1>0, <1>3 DEF SendImplicit
  <2> QED BY <1>3, <2>1, <2>2, <2>3, <2>4 DEF SendImplicit, Send, TypeOK
<1>4. ASSUME NEW s \in StreamIds, SendNowhere(s) PROVE TypeOK'
  <2>1. target' \in Seq(StreamIds) /\ Len(target') \in Nat BY <1>4, SendTypes DEF SendNowhere
  <2> QED BY <1>4, <2>1 DEF SendNowhere, Send, TypeOK
<1>5. CASE Inbound
  <2>1. Incoming(last_incoming_id) \in StreamIds /\ last_incoming_id' \in 0..MaxInbound
    <3>1. /\ last_incoming_id \in 0..MaxInbound /\ last_incoming_id < MaxInbound
          /\ last_incoming_id' = last_incoming_id + 1 /\ MaxInbound \in Nat
      BY <1>5, RpcHandlerAssumption DEF Inbound, TypeOK
    <3>2. last_incoming_id \in 0..(MaxInbound - 1) /\ last_incoming_id' \in 0..MaxInbound
      BY <3>1
    <3> QED BY <3>2 DEF StreamIds
  <2>2. /\ DOMAIN streams' = DOMAIN streams \cup {Incoming(last_incoming_id)}
        /\ DOMAIN streams' \subseteq StreamIds
        /\ \A t \in DOMAIN streams' : streams'[t] \in Streams
    BY <1>0, <1>5, <2>1, InsertTypes, NewStreamType DEF Inbound
  <2> QED BY <1>0, <1>5, <2>1, <2>2 DEF Inbound, TypeOK, sends, counters
<1>6. CASE Outbound
  <2>1. CASE last_outgoing_id = <<>>
    BY <1>0, <1>6, <2>1 DEF Outbound, TypeOK, sends, counters
  <2>2. CASE last_outgoing_id # <<>>
    <3> DEFINE s == Outgoing(Head(last_outgoing_id))
    <3>1. last_outgoing_id' \in Seq(OutIds)
      BY <1>6, <2>2, HeadTailProperties DEF Outbound, TypeOK
    <3>2. streams' = IF s \in DOMAIN streams
                     THEN [streams EXCEPT ![s] = WithIo(streams[s])] ELSE streams
      BY <1>6, <2>2 DEF Outbound
    <3>3. DOMAIN streams' = DOMAIN streams /\ \A t \in DOMAIN streams' : streams'[t] \in Streams
      BY <1>0, <3>2, NewStreamType DEF TypeOK
    <3> QED BY <1>0, <1>6, <3>1, <3>3 DEF Outbound, TypeOK, sends, counters
  <2> QED BY <2>1, <2>2
<1>7. CASE Refused
  BY <1>7 DEF Refused, TypeOK, tables, sends
<1>8. ASSUME NEW s \in StreamIds, NEW what \in {"message", "eof", "broken"}, Mail(s, what)
      PROVE  TypeOK'
  <2>1. streams' = [streams EXCEPT ![s].mail = what] /\ s \in DOMAIN streams BY <1>8 DEF Mail
  <2>2. [streams[s] EXCEPT !.mail = what] \in Streams BY <2>1 DEF TypeOK, Streams
  <2>3. DOMAIN streams' = DOMAIN streams /\ \A t \in DOMAIN streams' : streams'[t] \in Streams
    BY <2>1, <2>2 DEF TypeOK
  <2>4. /\ mails' \in Nat /\ woken' \in BOOLEAN
        /\ UNCHANGED <<last_outgoing_id, last_incoming_id, failed, requests, ios, target,
                       wrote, lost, opens, implicit, replaced, refused>>
    BY <1>0, <1>8 DEF Mail, sends
  <2> QED BY <1>0, <2>3, <2>4 DEF TypeOK
<1>9. CASE Poll
  <2> DEFINE polled == Polled
             writers == {s \in polled : Negotiated(s) /\ streams[s].held # <<>>}
  <2>1. PICK n \in [writers -> 0..MaxSends] :
          /\ \A s \in writers : n[s] <= Len(streams[s].held)
          /\ streams' = [s \in Alive |->
                           IF s \in writers THEN AfterPoll(s, n[s])
                           ELSE IF s \in polled THEN AfterPoll(s, 0)
                           ELSE streams[s]]
          /\ wrote' = [s \in StreamIds |->
                         IF s \in writers
                         THEN wrote[s] \o SubSeq(streams[s].held, 1, n[s])
                         ELSE wrote[s]]
    BY <1>9, Zenon DEF Poll
  <2>2. writers \subseteq polled /\ polled \subseteq Alive /\ Alive \subseteq DOMAIN streams
    BY DEF Polled, Alive
  <2>3. \A s \in DOMAIN streams : streams[s].held \in Seq(Nat) /\ Len(streams[s].held) \in Nat
    BY LenProperties DEF TypeOK, Streams
  <2>4. \A s \in writers : n[s] \in Nat BY <2>1, RpcHandlerAssumption
  <2> HIDE DEF polled, writers
  <2>5. DOMAIN streams' = Alive /\ DOMAIN streams' \subseteq StreamIds
    BY <2>1, <2>2 DEF TypeOK
  <2>6. ASSUME NEW s \in Alive PROVE streams'[s] \in Streams
    <3>1. CASE s \in writers
      BY <2>1, <2>2, <2>4, <3>1, AfterPollTypes
    <3>2. CASE s \in polled /\ s \notin writers
      <4>1. 0 \in Nat /\ 0 <= Len(streams[s].held) BY <2>2, <2>3
      <4> QED BY <2>1, <2>2, <3>2, <4>1, AfterPollTypes
    <3>3. CASE s \notin polled /\ s \notin writers
      BY <2>1, <2>2, <3>3 DEF TypeOK
    <3> QED BY <3>1, <3>2, <3>3
  <2>7. wrote' \in [StreamIds -> Seq(Nat)]
    <3>1. ASSUME NEW s \in writers
          PROVE  wrote[s] \o SubSeq(streams[s].held, 1, n[s]) \in Seq(Nat)
      <4>1. \A i \in 1..n[s] : streams[s].held[i] \in Nat
        BY <2>1, <2>2, <2>3, <2>4, ElementOfSeq
      <4>2. SubSeq(streams[s].held, 1, n[s]) \in Seq(Nat)
        BY <2>4, <4>1, SubSeqProperties
      <4>3. wrote[s] \in Seq(Nat) BY <2>2 DEF TypeOK
      <4> QED BY <4>2, <4>3, ConcatProperties
    <3> QED BY <2>1, <3>1 DEF TypeOK
  <2>8. failed' \subseteq DOMAIN streams'
    BY <1>9, <2>2, <2>5 DEF Poll, Failing, polled
  <2>9. last_outgoing_id' \in Seq(OutIds) /\ requests' \in Nat
    <3>1. CASE \E s \in Polled : Asks(s)
      <4>1. PICK s \in Polled : Asks(s) /\ Remember(s) BY <1>9, <3>1 DEF Poll
      <4>2. s[2] \in OutIds
        BY <4>1, OutgoingNumber DEF Asks, Polled, Alive, TypeOK
      <4>3. requests' = requests + 1 BY <1>9, <3>1 DEF Poll
      <4> QED BY <4>1, <4>2, <4>3, PushNumber DEF Remember, TypeOK
    <3>2. CASE ~ \E s \in Polled : Asks(s)
      BY <1>9, <3>2 DEF Poll, TypeOK
    <3> QED BY <3>1, <3>2
  <2>10. lost' \subseteq Nat
    <3>1. \A s \in failed : HeldBy(s) \subseteq Nat
      BY <2>3, ElementOfSeq, LenProperties DEF HeldBy, Range, TypeOK
    <3>2. lost' = lost \cup UNION {HeldBy(s) : s \in failed} BY <1>9 DEF Poll
    <3>3. lost \subseteq Nat BY DEF TypeOK
    <3> QED BY <3>1, <3>2, <3>3
  <2>11. /\ woken' \in BOOLEAN
         /\ UNCHANGED <<last_incoming_id, ios, target, opens, implicit, replaced, refused, mails>>
    BY <1>9 DEF Poll, counters
  <2> QED BY <1>0, <2>5, <2>6, <2>7, <2>8, <2>9, <2>10, <2>11 DEF TypeOK
<1>10. CASE UNCHANGED vars
  BY <1>10 DEF vars, tables, sends, counters, TypeOK
<1> QED
  BY <1>1, <1>2, <1>3, <1>4, <1>5, <1>6, <1>7, <1>8, <1>9, <1>10 DEF Next

(* The tables of a handler hold what their types in handler.rs (29-37) say,  *)
(* and a failed stream stays in the map until the next poll                  *)
(* (handler.rs:98-100, 118-121).                                             *)
THEOREM TypeCorrect == Spec => []TypeOK
BY InitTypes, NextTypes, PTL DEF Spec

-----------------------------------------------------------------------------
(* The order of commands.                                                    *)

Held(s) == IF s \in DOMAIN streams THEN streams[s].held ELSE <<>>
Kept(s) == wrote[s] \o Held(s)
Given(s) == {c \in DOMAIN target : target[c] = s}

InOrder == \A s \in StreamIds : Increasing(Kept(s)) /\ Given(s) \ lost = Range(Kept(s))

(* A number yet to be given was not lost, and of the incoming streams there  *)
(* are only those accepted.                                                  *)
ToCome ==
  /\ lost \subseteq DOMAIN target
  /\ \A s \in DOMAIN streams : s[1] = "Incoming" => s[2] < last_incoming_id

OInv == TypeOK /\ InOrder /\ ToCome

LEMMA HeldTypes ==
  ASSUME TypeOK, NEW s \in StreamIds
  PROVE  /\ Held(s) \in Seq(Nat) /\ wrote[s] \in Seq(Nat) /\ Kept(s) \in Seq(Nat)
         /\ HeldBy(s) = Range(Held(s)) /\ Kept(s) = wrote[s] \o Held(s)
<1>1. wrote[s] \in Seq(Nat) BY DEF TypeOK
<1>2. Held(s) \in Seq(Nat)
  BY EmptySeq DEF Held, TypeOK, Streams
<1>3. HeldBy(s) = Range(Held(s))
  <2>1. Range(<<>>) = {} BY DEF Range
  <2> QED BY <2>1 DEF HeldBy, Held
<1> QED BY <1>1, <1>2, <1>3, ConcatProperties DEF Kept

LEMMA Associative ==
  \A a, b, c \in Seq(Nat) : a \o (b \o c) = (a \o b) \o c
<1> SUFFICES ASSUME NEW a \in Seq(Nat), NEW b \in Seq(Nat), NEW c \in Seq(Nat)
             PROVE  a \o (b \o c) = (a \o b) \o c
  OBVIOUS
<1> QED BY ConcatAssociative, SMTT(60)

LEMMA RangeConcat ==
  ASSUME NEW a \in Seq(Nat), NEW b \in Seq(Nat)
  PROVE  /\ Range(a \o b) = Range(a) \cup Range(b)
         /\ Increasing(a \o b) =>
              Increasing(a) /\ Increasing(b) /\ \A x \in Range(a), y \in Range(b) : x < y
<1>1. PICK m \in Nat, n \in Nat :
        /\ m = Len(a) /\ n = Len(b) /\ DOMAIN a = 1..m /\ DOMAIN b = 1..n
        /\ DOMAIN (a \o b) = 1..(m + n)
  BY ConcatProperties, LenProperties
<1>2. /\ \A i \in 1..m : (a \o b)[i] = a[i] /\ i \in 1..(m + n)
      /\ \A i \in 1..n : (a \o b)[m + i] = b[i] /\ m + i \in 1..(m + n) /\ (m + i) - m = i
  BY <1>1, ConcatProperties
<1>3. \A i \in 1..(m + n) : i \in 1..m \/ (i - m \in 1..n /\ m + (i - m) = i)
  OBVIOUS
<1>4. Range(a \o b) = Range(a) \cup Range(b)
  <2>1. ASSUME NEW x \in Range(a \o b) PROVE x \in Range(a) \cup Range(b)
    BY <1>1, <1>2, <1>3, <2>1 DEF Range
  <2>2. ASSUME NEW x \in Range(a) \cup Range(b) PROVE x \in Range(a \o b)
    <3>1. ASSUME NEW i \in 1..m PROVE a[i] \in Range(a \o b)
      BY <1>1, <1>2 DEF Range
    <3>2. ASSUME NEW i \in 1..n PROVE b[i] \in Range(a \o b)
      BY <1>1, <1>2 DEF Range
    <3> QED BY <1>1, <2>2, <3>1, <3>2 DEF Range
  <2> QED BY <2>1, <2>2
<1>5. ASSUME Increasing(a \o b)
      PROVE  Increasing(a) /\ Increasing(b) /\ \A x \in Range(a), y \in Range(b) : x < y
  <2>1. Increasing(a) BY <1>1, <1>2, <1>5 DEF Increasing
  <2>2. Increasing(b)
    <3> SUFFICES ASSUME NEW i \in 1..n, NEW j \in 1..n, i < j PROVE b[i] < b[j]
      BY <1>1 DEF Increasing
    <3>1. m + i < m + j OBVIOUS
    <3>2. (a \o b)[m + i] < (a \o b)[m + j] BY <1>1, <1>2, <1>5, <3>1 DEF Increasing
    <3> QED BY <1>2, <3>2
  <2>3. ASSUME NEW i \in 1..m, NEW j \in 1..n PROVE a[i] < b[j]
    <3>1. i < m + j OBVIOUS
    <3>2. (a \o b)[i] < (a \o b)[m + j] BY <1>1, <1>2, <1>5, <3>1 DEF Increasing
    <3> QED BY <1>2, <3>2
  <2> QED BY <1>1, <2>1, <2>2, <2>3 DEF Range
<1> QED BY <1>4, <1>5

LEMMA IncreasingAppend ==
  ASSUME NEW a \in Seq(Nat), NEW n \in Nat
  PROVE  /\ Range(Append(a, n)) = Range(a) \cup {n}
         /\ Increasing(a) /\ (\A x \in Range(a) : x < n) => Increasing(Append(a, n))
<1>1. PICK m \in Nat :
        /\ m = Len(a) /\ DOMAIN a = 1..m /\ DOMAIN Append(a, n) = 1..(m + 1)
        /\ \A i \in 1..m : Append(a, n)[i] = a[i]
        /\ Append(a, n)[m + 1] = n
  BY AppendProperties, LenProperties
<1>2. Range(Append(a, n)) = Range(a) \cup {n} BY <1>1 DEF Range
<1>3. ASSUME Increasing(a), \A x \in Range(a) : x < n PROVE Increasing(Append(a, n))
  <2> SUFFICES ASSUME NEW i \in 1..(m + 1), NEW j \in 1..(m + 1), i < j
               PROVE  Append(a, n)[i] < Append(a, n)[j]
    BY <1>1 DEF Increasing
  <2>1. i \in 1..m OBVIOUS
  <2>2. CASE j \in 1..m BY <1>1, <1>3, <2>1, <2>2 DEF Increasing
  <2>3. CASE j = m + 1 BY <1>1, <1>3, <2>1, <2>3 DEF Range
  <2>4. j \in 1..m \/ j = m + 1 OBVIOUS
  <2> QED BY <2>2, <2>3, <2>4
<1> QED BY <1>2, <1>3

(* Streams that go take with them what they hold, and nothing else.          *)
LEMMA DropKeepsOrder ==
  ASSUME TypeOK, InOrder, NEW D \in SUBSET StreamIds,
         target' = target, lost' = lost \cup UNION {Range(Held(s)) : s \in D},
         \A s \in StreamIds : Kept(s)' = IF s \in D THEN wrote[s] ELSE Kept(s)
  PROVE  InOrder'
<1> SUFFICES ASSUME NEW s \in StreamIds
             PROVE  Increasing(Kept(s)') /\ Given(s)' \ lost' = Range(Kept(s)')
  BY DEF InOrder, Increasing, Range
<1>1. Given(s)' = Given(s) BY DEF Given
<1>2. ASSUME NEW t \in StreamIds
      PROVE  /\ Range(Kept(t)) = Range(wrote[t]) \cup Range(Held(t))
             /\ Range(Held(t)) \subseteq Given(t) /\ Increasing(wrote[t])
             /\ \A x \in Range(wrote[t]), y \in Range(Held(t)) : x < y
             /\ Range(wrote[t]) \subseteq Nat
  <2>1. /\ Held(t) \in Seq(Nat) /\ wrote[t] \in Seq(Nat)
        /\ Kept(t) = wrote[t] \o Held(t)
    BY HeldTypes
  <2>2. Increasing(Kept(t)) /\ Given(t) \ lost = Range(Kept(t)) BY DEF InOrder
  <2>3. Range(wrote[t]) \subseteq Nat BY <2>1, ElementOfSeq, LenProperties DEF Range
  <2> QED BY <2>1, <2>2, <2>3, RangeConcat
<1>3. \A t \in StreamIds : t # s => Range(Held(t)) \cap Given(s) = {}
  BY <1>2 DEF Given
<1>4. Increasing(Kept(s)) /\ Given(s) \ lost = Range(Kept(s)) BY DEF InOrder
<1>5. CASE s \in D
  <2>1. Range(Held(s)) \cap Range(wrote[s]) = {}
    <3>1. \A x \in Nat : ~(x < x) OBVIOUS
    <3> QED BY <1>2, <3>1
  <2>2. Given(s) \ lost' = (Given(s) \ lost) \ Range(Held(s))
    BY <1>3, <1>5
  <2> QED BY <1>1, <1>2, <1>4, <1>5, <2>1, <2>2
<1>6. CASE s \notin D
  <2>1. Given(s) \ lost' = Given(s) \ lost
    BY <1>3, <1>6
  <2> QED BY <1>1, <1>4, <1>6, <2>1
<1> QED BY <1>5, <1>6

(* A new command is the latest of its stream.                                *)
LEMMA SendKeepsOrder ==
  ASSUME TypeOK, InOrder, ToCome, NEW s \in StreamIds, Send(s), lost' = lost, wrote' = wrote,
         Held(s)' = Append(Held(s), Len(target')),
         \A t \in StreamIds : t # s => Held(t)' = Held(t)
  PROVE  InOrder'
<1>1. PICK n \in Nat :
        /\ n = Len(target') /\ DOMAIN target' = 1..n /\ DOMAIN target = 1..(n - 1)
        /\ n # 0 /\ target'[n] = s /\ \A i \in 1..(n - 1) : target'[i] = target[i]
  <2>1. target \in Seq(StreamIds) /\ target' = Append(target, s) BY DEF Send, TypeOK
  <2>2. PICK m \in Nat : m = Len(target) /\ DOMAIN target = 1..m BY <2>1, LenProperties
  <2>3. /\ target' \in Seq(StreamIds) /\ Len(target') = m + 1 /\ target'[m + 1] = s
        /\ \A i \in 1..m : target'[i] = target[i]
    BY <2>1, <2>2, AppendProperties
  <2>4. DOMAIN target' = 1..(m + 1) BY <2>3, LenProperties
  <2>5. m + 1 \in Nat /\ (m + 1) - 1 = m /\ m + 1 # 0 OBVIOUS
  <2> QED BY <2>2, <2>3, <2>4, <2>5
<1>2. n \notin lost /\ n \notin DOMAIN target BY <1>1 DEF ToCome
<1>3. \A t \in StreamIds : Given(t)' = IF t = s THEN Given(t) \cup {n} ELSE Given(t)
  BY <1>1 DEF Given
<1>4. ASSUME NEW t \in StreamIds
      PROVE  Increasing(Kept(t)') /\ Given(t)' \ lost' = Range(Kept(t)')
  <2>1. Increasing(Kept(t)) /\ Given(t) \ lost = Range(Kept(t)) /\ Kept(t) \in Seq(Nat)
    BY HeldTypes DEF InOrder
  <2>2. CASE t # s
    <3>1. Kept(t)' = Kept(t) BY <2>2 DEF Kept
    <3> QED BY <1>3, <2>1, <2>2, <3>1
  <2>3. CASE t = s
    <3>1. Held(s) \in Seq(Nat) /\ wrote[s] \in Seq(Nat) /\ Kept(s) = wrote[s] \o Held(s)
      BY HeldTypes
    <3>2. Kept(s)' = wrote[s] \o Append(Held(s), n) BY <1>1 DEF Kept
    <3>3. wrote[s] \o Append(Held(s), n) = Append(Kept(s), n)
      <4>1. <<n>> \in Seq(Nat) OBVIOUS
      <4>2. Append(Held(s), n) = Held(s) \o <<n>> BY <3>1, AppendIsConcat
      <4>3. Append(Kept(s), n) = Kept(s) \o <<n>> BY <2>1, <2>3, AppendIsConcat
      <4>4. wrote[s] \o (Held(s) \o <<n>>) = (wrote[s] \o Held(s)) \o <<n>>
        BY <3>1, <4>1, Associative, Zenon
      <4> QED BY <3>1, <4>2, <4>3, <4>4, Zenon
    <3>4. \A x \in Range(Kept(s)) : x < n
      BY <1>1, <2>1, <2>3 DEF Given
    <3>5. Increasing(Append(Kept(s), n)) /\ Range(Append(Kept(s), n)) = Range(Kept(s)) \cup {n}
      BY <2>1, <2>3, <3>4, IncreasingAppend
    <3> QED BY <1>2, <1>3, <2>1, <2>3, <3>2, <3>3, <3>5
  <2> QED BY <2>2, <2>3
<1> QED BY <1>4 DEF InOrder, Increasing, Range

(* Command::Open drops the stream that was there (handler.rs:128-133).       *)
LEMMA OpenOrder ==
  ASSUME OInv, NEW id \in OutIds, Open(id)
  PROVE  InOrder' /\ ToCome'
<1> DEFINE D == {Outgoing(id)}
<1>1. D \in SUBSET StreamIds BY DEF StreamIds
<1>2. /\ streams' = Insert(Outgoing(id), NewStream) /\ target' = target /\ wrote' = wrote
      /\ lost' = lost \cup HeldBy(Outgoing(id)) /\ last_incoming_id' = last_incoming_id
  BY DEF Open
<1>3. lost' = lost \cup UNION {Range(Held(s)) : s \in D}
  BY <1>1, <1>2, HeldTypes DEF OInv
<1>4. \A s \in StreamIds : Held(s)' = IF s \in D THEN <<>> ELSE Held(s)
  BY <1>2 DEF Held, Insert, NewStream
<1>5. \A s \in StreamIds : Kept(s)' = IF s \in D THEN wrote[s] ELSE Kept(s)
  <2>1. \A a \in Seq(Nat) : a \o <<>> = a BY ConcatEmptySeq
  <2> QED BY <1>2, <1>4, <2>1, HeldTypes DEF Kept, OInv
<1>6. InOrder' BY <1>1, <1>2, <1>3, <1>5, DropKeepsOrder DEF OInv
<1>7. lost' \subseteq DOMAIN target'
  <2>1. Range(Held(Outgoing(id))) \subseteq Range(Kept(Outgoing(id)))
    <3>1. ASSUME NEW s \in StreamIds PROVE Range(Held(s)) \subseteq Range(Kept(s))
      <4>1. Held(s) \in Seq(Nat) /\ wrote[s] \in Seq(Nat) /\ Kept(s) = wrote[s] \o Held(s)
        BY HeldTypes DEF OInv
      <4>2. Range(wrote[s] \o Held(s)) = Range(wrote[s]) \cup Range(Held(s))
        BY <4>1, RangeConcat
      <4> QED BY <4>1, <4>2
    <3> QED BY <1>1, <3>1
  <2>2. Range(Kept(Outgoing(id))) \subseteq DOMAIN target
    BY <1>1 DEF OInv, InOrder, Given
  <2> QED BY <1>2, <1>3, <2>1, <2>2 DEF OInv, ToCome
<1>8. \A s \in DOMAIN streams' : s[1] = "Incoming" => s[2] < last_incoming_id'
  BY <1>2 DEF OInv, ToCome, Insert, Outgoing
<1> QED BY <1>6, <1>7, <1>8 DEF ToCome

(* A step that leaves the commands where they are.                           *)
LEMMA QuietKeepsOrder ==
  ASSUME OInv, target' = target, lost' = lost, wrote' = wrote,
         \A s \in StreamIds : Held(s)' = Held(s)
  PROVE  InOrder'
<1>1. \A s \in StreamIds : Kept(s)' = Kept(s) BY DEF Kept
<1> QED BY <1>1 DEF OInv, InOrder, Given

(* A command is sent, whether to a stream that is there, to one opened for   *)
(* it, or to none (handler.rs:134-145).                                      *)
LEMMA SendOrder ==
  ASSUME OInv, NEW s \in StreamIds, SendHere(s) \/ SendImplicit(s) \/ SendNowhere(s)
  PROVE  InOrder' /\ ToCome'
<1>1. Send(s) BY DEF SendHere, SendImplicit, SendNowhere
<1>2. /\ target \in Seq(StreamIds) /\ target' = Append(target, s)
      /\ wrote' = wrote /\ last_incoming_id' = last_incoming_id
  BY <1>1 DEF Send, OInv, TypeOK
<1>3. PICK n \in Nat :
        /\ n = Len(target') /\ DOMAIN target' = 1..n /\ DOMAIN target = 1..(n - 1)
        /\ n # 0 /\ target'[n] = s /\ \A i \in 1..(n - 1) : target'[i] = target[i]
  <2>1. PICK m \in Nat : m = Len(target) /\ DOMAIN target = 1..m BY <1>2, LenProperties
  <2>2. /\ target' \in Seq(StreamIds) /\ Len(target') = m + 1 /\ target'[m + 1] = s
        /\ \A i \in 1..m : target'[i] = target[i]
    BY <1>2, <2>1, AppendProperties
  <2>3. DOMAIN target' = 1..(m + 1) BY <2>2, LenProperties
  <2>4. m + 1 \in Nat /\ (m + 1) - 1 = m /\ m + 1 # 0 OBVIOUS
  <2> QED BY <2>1, <2>2, <2>3, <2>4
<1>4. DOMAIN target \subseteq DOMAIN target' /\ n \in DOMAIN target' /\ n \notin DOMAIN target
  BY <1>3
<1>5. CASE SendHere(s)
  <2>1. /\ streams' = [streams EXCEPT ![s].held = Append(streams[s].held, Len(target'))]
        /\ s \in DOMAIN streams /\ lost' = lost
    BY <1>5 DEF SendHere
  <2>2. Held(s)' = Append(Held(s), Len(target'))
    <3>1. streams'[s] = [streams[s] EXCEPT !.held = Append(streams[s].held, Len(target'))]
          /\ DOMAIN streams' = DOMAIN streams
      BY <2>1
    <3>2. streams[s] \in Streams BY <2>1 DEF OInv, TypeOK
    <3>3. streams'[s].held = Append(streams[s].held, Len(target')) BY <3>1, <3>2 DEF Streams
    <3> QED BY <2>1, <3>1, <3>3 DEF Held
  <2>3. \A t \in StreamIds : t # s => Held(t)' = Held(t) BY <2>1 DEF Held
  <2>4. InOrder' BY <1>1, <1>2, <2>1, <2>2, <2>3, SendKeepsOrder DEF OInv
  <2>5. DOMAIN streams' = DOMAIN streams BY <2>1
  <2> QED BY <1>2, <1>4, <2>1, <2>4, <2>5 DEF ToCome, OInv
<1>6. CASE SendImplicit(s)
  <2>1. /\ streams' = Insert(s, [NewStream EXCEPT !.held = <<Len(target')>>])
        /\ s \notin DOMAIN streams /\ lost' = lost /\ s[1] = "Outgoing"
    BY <1>6 DEF SendImplicit
  <2>2. Held(s)' = Append(Held(s), Len(target'))
    <3>1. Held(s)' = <<Len(target')>> BY <2>1 DEF Held, Insert, NewStream
    <3>2. Held(s) = <<>> BY <2>1 DEF Held
    <3>3. Append(<<>>, Len(target')) = <<Len(target')>> OBVIOUS
    <3> QED BY <3>1, <3>2, <3>3
  <2>3. \A t \in StreamIds : t # s => Held(t)' = Held(t) BY <2>1 DEF Held, Insert
  <2>4. InOrder' BY <1>1, <1>2, <2>1, <2>2, <2>3, SendKeepsOrder DEF OInv
  <2>5. DOMAIN streams' = DOMAIN streams \cup {s} BY <2>1 DEF Insert
  <2> QED BY <1>2, <1>4, <2>1, <2>4, <2>5 DEF ToCome, OInv
<1>7. CASE SendNowhere(s)
  <2>1. lost' = lost \cup {n} /\ streams' = streams BY <1>3, <1>7 DEF SendNowhere
  <2>2. \A t \in StreamIds : Kept(t)' = Kept(t) BY <1>2, <2>1 DEF Kept, Held
  <2>3. \A t \in StreamIds : Given(t)' \ lost' = Given(t) \ lost
    <3>1. \A t \in StreamIds : Given(t)' = IF t = s THEN Given(t) \cup {n} ELSE Given(t)
      BY <1>3, <1>4 DEF Given
    <3>2. \A t \in StreamIds : n \notin Given(t) BY <1>4 DEF Given
    <3> QED BY <2>1, <3>1, <3>2
  <2>4. InOrder' BY <2>2, <2>3 DEF OInv, InOrder
  <2> QED BY <1>2, <1>4, <2>1, <2>4 DEF ToCome, OInv
<1> QED BY <1>5, <1>6, <1>7

(* A substream handed over leaves the commands where they are                *)
(* (handler.rs:52-67).                                                       *)
LEMMA HandedOver ==
  ASSUME OInv, Inbound \/ Outbound
  PROVE  InOrder' /\ ToCome'
<1>1. /\ UNCHANGED <<target, wrote, lost>> /\ ios \in Nat /\ last_incoming_id \in Nat
      /\ NewStream.held = <<>>
  BY RpcHandlerAssumption DEF Inbound, Outbound, sends, OInv, TypeOK, NewStream
<1>2. \A st \in Streams : WithIo(st).held = st.held BY <1>1, NewStreamType
<1>3. CASE Inbound
  <2> DEFINE i == Incoming(last_incoming_id)
  <2>1. /\ streams' = Insert(i, WithIo(NewStream))
        /\ last_incoming_id' = last_incoming_id + 1
    BY <1>3 DEF Inbound
  <2>2. i \notin DOMAIN streams
    <3>1. i[1] = "Incoming" /\ i[2] = last_incoming_id BY DEF Incoming
    <3>2. ~(last_incoming_id < last_incoming_id) BY <1>1
    <3> HIDE DEF i
    <3> QED BY <3>1, <3>2 DEF OInv, ToCome
  <2>3. WithIo(NewStream).held = <<>> BY <1>1, <1>2, NewStreamType
  <2>4. i[1] = "Incoming" /\ i[2] = last_incoming_id BY DEF Incoming
  <2> HIDE DEF i
  <2>5. /\ DOMAIN streams' = DOMAIN streams \cup {i}
        /\ \A t \in DOMAIN streams' :
             streams'[t] = IF t = i THEN WithIo(NewStream) ELSE streams[t]
    BY <2>1 DEF Insert
  <2>6. \A s \in StreamIds : Held(s)' = Held(s) BY <2>2, <2>3, <2>5 DEF Held
  <2>7. \A s \in DOMAIN streams' : s[1] = "Incoming" => s[2] < last_incoming_id'
    <3>1. ASSUME NEW s \in DOMAIN streams, s[1] = "Incoming" PROVE s[2] < last_incoming_id + 1
      <4>1. s[2] < last_incoming_id BY <3>1 DEF OInv, ToCome
      <4>2. s[2] \in Nat
        <5>1. s \in StreamIds BY DEF OInv, TypeOK
        <5>2. s[1] = "Incoming" => \E n \in 0..(MaxInbound - 1) : s = <<"Incoming", n>>
          BY <5>1 DEF StreamIds, Incoming, Outgoing
        <5> QED BY <3>1, <5>2
      <4> QED BY <1>1, <4>1, <4>2
    <3>2. last_incoming_id < last_incoming_id + 1 BY <1>1
    <3> QED BY <2>1, <2>4, <2>5, <3>1, <3>2
  <2> QED BY <1>1, <2>6, <2>7, QuietKeepsOrder DEF OInv, ToCome
<1>4. CASE Outbound
  <2>1. last_incoming_id' = last_incoming_id BY <1>4 DEF Outbound
  <2>2. streams' = streams
          \/ \E s \in DOMAIN streams : streams' = [streams EXCEPT ![s] = WithIo(streams[s])]
    BY <1>4 DEF Outbound
  <2>3. /\ DOMAIN streams' = DOMAIN streams
        /\ \A s \in DOMAIN streams : streams'[s].held = streams[s].held
    BY <1>2, <2>2 DEF OInv, TypeOK
  <2>4. \A s \in StreamIds : Held(s)' = Held(s) BY <2>3 DEF Held
  <2> QED BY <1>1, <2>1, <2>3, <2>4, QuietKeepsOrder DEF OInv, ToCome
<1> QED BY <1>3, <1>4

(* What a poll writes of a stream is the first of what it held               *)
(* (stream.rs:95-140).                                                       *)
LEMMA WrittenFirst ==
  ASSUME NEW w \in Seq(Nat), NEW h \in Seq(Nat), NEW n \in Nat, n <= Len(h)
  PROVE  (w \o SubSeq(h, 1, n)) \o SubSeq(h, n + 1, Len(h)) = w \o h
<1>1. Len(h) \in Nat /\ \A i \in 1..Len(h) : h[i] \in Nat
  BY LenProperties, ElementOfSeq
<1>2. SubSeq(h, 1, n) \in Seq(Nat) /\ SubSeq(h, n + 1, Len(h)) \in Seq(Nat)
  <2>1. \A i \in 1..n : h[i] \in Nat BY <1>1
  <2>2. \A i \in (n + 1)..Len(h) : h[i] \in Nat BY <1>1
  <2> QED BY <1>1, <2>1, <2>2, SubSeqProperties
<1>3. SubSeq(h, 1, n) \o SubSeq(h, n + 1, Len(h)) = SubSeq(h, 1, Len(h))
  <2>1. 1 \in 1..(Len(h) + 1) /\ n \in (1 - 1)..Len(h) /\ Len(h) \in n..Len(h)
    BY <1>1
  <2> QED BY <2>1, ConcatAdjacentSubSeq
<1>4. SubSeq(h, 1, Len(h)) = h BY SubSeqFull
<1>5. w \o (SubSeq(h, 1, n) \o SubSeq(h, n + 1, Len(h)))
        = (w \o SubSeq(h, 1, n)) \o SubSeq(h, n + 1, Len(h))
  BY <1>2, Associative, Zenon
<1> QED BY <1>3, <1>4, <1>5

(* A poll sweeps the failed streams and writes first what was given first    *)
(* (handler.rs:98-123).                                                      *)
LEMMA PollOrder ==
  ASSUME OInv, Poll
  PROVE  InOrder' /\ ToCome'
<1> DEFINE polled == Polled
           writers == {s \in polled : Negotiated(s) /\ streams[s].held # <<>>}
<1>1. PICK n \in [writers -> 0..MaxSends] :
        /\ \A s \in writers : n[s] <= Len(streams[s].held)
        /\ streams' = [s \in Alive |->
                         IF s \in writers THEN AfterPoll(s, n[s])
                         ELSE IF s \in polled THEN AfterPoll(s, 0)
                         ELSE streams[s]]
        /\ wrote' = [s \in StreamIds |->
                       IF s \in writers
                       THEN wrote[s] \o SubSeq(streams[s].held, 1, n[s])
                       ELSE wrote[s]]
  BY Zenon DEF Poll
<1>2. /\ writers \subseteq polled /\ polled \subseteq Alive
      /\ Alive = DOMAIN streams \ failed /\ DOMAIN streams \subseteq StreamIds
      /\ failed \subseteq StreamIds
  BY DEF Polled, Alive, OInv, TypeOK
<1>3. \A s \in writers : n[s] \in Nat BY <1>1, RpcHandlerAssumption
<1>4. /\ lost' = lost \cup UNION {HeldBy(s) : s \in failed}
      /\ UNCHANGED <<target, last_incoming_id>>
  BY DEF Poll
<1>5. /\ \A s \in DOMAIN streams : Held(s) = streams[s].held
      /\ \A s, k : AfterPoll(s, k).held = SubSeq(streams[s].held, k + 1, Len(streams[s].held))
  BY DEF Held, AfterPoll
<1> HIDE DEF polled, writers
<1>6. DOMAIN streams' = Alive BY <1>1
<1>7. ASSUME NEW s \in StreamIds
      PROVE  Kept(s)' = IF s \in failed THEN wrote[s] ELSE Kept(s)
  <2>1. /\ Held(s) \in Seq(Nat) /\ wrote[s] \in Seq(Nat) /\ Kept(s) = wrote[s] \o Held(s)
        /\ Kept(s)' = wrote'[s] \o Held(s)'
    BY HeldTypes DEF OInv, Kept
  <2>2. CASE s \in writers
    <3>1. Held(s) = streams[s].held /\ s \in Alive /\ s \notin failed BY <1>2, <1>5, <2>2
    <3>2. wrote'[s] = wrote[s] \o SubSeq(Held(s), 1, n[s]) BY <1>1, <2>2, <3>1
    <3>3. streams'[s] = AfterPoll(s, n[s]) BY <1>1, <2>2, <3>1
    <3>4. Held(s)' = SubSeq(Held(s), n[s] + 1, Len(Held(s)))
      BY <1>5, <1>6, <3>1, <3>3 DEF Held
    <3>5. n[s] \in Nat /\ n[s] <= Len(Held(s)) BY <1>1, <1>3, <2>2, <3>1
    <3>6. (wrote[s] \o SubSeq(Held(s), 1, n[s])) \o SubSeq(Held(s), n[s] + 1, Len(Held(s)))
            = wrote[s] \o Held(s)
      BY <2>1, <3>5, WrittenFirst
    <3> QED BY <2>1, <3>1, <3>2, <3>4, <3>6
  <2>3. CASE s \in polled /\ s \notin writers
    <3>1. Held(s) = streams[s].held /\ s \in Alive /\ s \notin failed BY <1>2, <1>5, <2>3
    <3>2. wrote'[s] = wrote[s] /\ streams'[s] = AfterPoll(s, 0) BY <1>1, <2>3, <3>1
    <3>3. 0 + 1 = 1 OBVIOUS
    <3>4. Held(s)' = SubSeq(Held(s), 1, Len(Held(s)))
      BY <1>5, <1>6, <3>1, <3>2, <3>3 DEF Held
    <3>5. SubSeq(Held(s), 1, Len(Held(s))) = Held(s) BY <2>1, SubSeqFull
    <3> QED BY <2>1, <3>1, <3>2, <3>4, <3>5
  <2>4. CASE s \in Alive /\ s \notin polled /\ s \notin writers
    <3>1. wrote'[s] = wrote[s] /\ streams'[s] = streams[s] BY <1>1, <2>4
    <3>2. Held(s)' = Held(s) BY <1>2, <1>6, <2>4, <3>1 DEF Held
    <3> QED BY <1>2, <2>1, <2>4, <3>1, <3>2
  <2>5. CASE s \notin Alive
    <3>1. s \notin writers /\ s \notin polled BY <1>2, <2>5
    <3>2. wrote'[s] = wrote[s] /\ Held(s)' = <<>> BY <1>1, <1>6, <2>5, <3>1 DEF Held
    <3>3. \A a \in Seq(Nat) : a \o <<>> = a BY ConcatEmptySeq
    <3>4. s \notin failed => Held(s) = <<>> BY <1>2, <2>5 DEF Held
    <3> QED BY <2>1, <3>2, <3>3, <3>4
  <2> QED BY <1>2, <2>2, <2>3, <2>4, <2>5
<1>8. lost' = lost \cup UNION {Range(Held(s)) : s \in failed}
  <2>1. \A s \in failed : HeldBy(s) = Range(Held(s)) BY <1>2, HeldTypes DEF OInv
  <2> QED BY <1>4, <2>1
<1>9. InOrder' BY <1>2, <1>4, <1>7, <1>8, DropKeepsOrder DEF OInv
<1>10. lost' \subseteq DOMAIN target'
  <2>1. ASSUME NEW s \in failed PROVE Range(Held(s)) \subseteq DOMAIN target
    <3>1. Held(s) \in Seq(Nat) /\ wrote[s] \in Seq(Nat) /\ Kept(s) = wrote[s] \o Held(s)
      BY <1>2, HeldTypes DEF OInv
    <3>2. Range(wrote[s] \o Held(s)) = Range(wrote[s]) \cup Range(Held(s))
      BY <3>1, RangeConcat
    <3>3. Range(Kept(s)) \subseteq DOMAIN target BY <1>2 DEF OInv, InOrder, Given
    <3> QED BY <3>1, <3>2, <3>3
  <2> QED BY <1>4, <1>8, <2>1 DEF OInv, ToCome
<1> QED BY <1>2, <1>4, <1>6, <1>9, <1>10 DEF ToCome, OInv

LEMMA InitOrder == Init => OInv
<1> SUFFICES ASSUME Init PROVE OInv
  OBVIOUS
<1>1. \A s \in StreamIds : Held(s) = <<>> /\ wrote[s] = <<>> BY DEF Init, Held
<1>2. <<>> \o <<>> = <<>>
  <2>1. \A a \in Seq(Nat) : a \o <<>> = a BY ConcatEmptySeq
  <2> QED BY <2>1, EmptySeq
<1>3. \A s \in StreamIds : Kept(s) = <<>> BY <1>1, <1>2 DEF Kept
<1>4. InOrder BY <1>3 DEF InOrder, Init, Increasing, Range, Given
<1>5. ToCome BY DEF ToCome, Init
<1> QED BY <1>4, <1>5, InitTypes DEF OInv

LEMMA NextOrder == OInv /\ [Next]_vars => OInv'
<1> SUFFICES ASSUME OInv, [Next]_vars PROVE OInv'
  OBVIOUS
<1>0. TypeOK' BY NextTypes DEF OInv
<1>1. ASSUME NEW id \in OutIds, Open(id) PROVE OInv'
  BY <1>0, <1>1, OpenOrder DEF OInv
<1>2. ASSUME NEW s \in StreamIds, SendHere(s) \/ SendImplicit(s) \/ SendNowhere(s) PROVE OInv'
  BY <1>0, <1>2, SendOrder DEF OInv
<1>3. CASE Inbound \/ Outbound
  BY <1>0, <1>3, HandedOver DEF OInv
<1>4. CASE Refused \/ UNCHANGED vars
  <2>1. UNCHANGED <<streams, last_incoming_id, target, wrote, lost>>
    BY <1>4 DEF Refused, vars, tables, sends
  <2>2. \A s \in StreamIds : Held(s)' = Held(s) BY <2>1 DEF Held
  <2> QED BY <1>0, <2>1, <2>2, QuietKeepsOrder DEF OInv, ToCome
<1>5. ASSUME NEW s \in StreamIds, NEW what \in {"message", "eof", "broken"}, Mail(s, what)
      PROVE  OInv'
  <2>1. /\ UNCHANGED <<last_incoming_id, target, wrote, lost>> /\ s \in DOMAIN streams
        /\ streams' = [streams EXCEPT ![s].mail = what]
    BY <1>5 DEF Mail, sends
  <2>2. DOMAIN streams' = DOMAIN streams
    BY <2>1
  <2>3. \A t \in DOMAIN streams : streams'[t].held = streams[t].held
    <3>1. streams[s] \in Streams BY <2>1 DEF OInv, TypeOK
    <3>2. [streams[s] EXCEPT !.mail = what].held = streams[s].held BY <3>1 DEF Streams
    <3> QED BY <2>1, <3>2
  <2>4. \A t \in StreamIds : Held(t)' = Held(t) BY <2>2, <2>3 DEF Held
  <2> QED BY <1>0, <2>1, <2>2, <2>4, QuietKeepsOrder DEF OInv, ToCome
<1>6. CASE Poll
  BY <1>0, <1>6, PollOrder DEF OInv
<1> QED BY <1>1, <1>2, <1>3, <1>4, <1>5, <1>6 DEF Next

(* The commands for a stream are written once and in the order they were     *)
(* given, and none is lost but with a stream that is swept, replaced or gone *)
(* (handler.rs:52-67, 98-123, 126-147).                                      *)
THEOREM CommandsWrittenInOrder == Spec => []CommandsInOrder
<1>1. OInv => CommandsInOrder
  BY DEF OInv, InOrder, CommandsInOrder, Kept, Held, Given
<1> QED BY <1>1, InitOrder, NextOrder, PTL DEF Spec

-----------------------------------------------------------------------------
(* The numbers queued are those of the streams that wait.                    *)

(* A number is queued once, and a stream that failed had its substream: with *)
(* it no number is left in the queue when it is swept.                       *)
Queued ==
  implicit = 0 /\ replaced = 0 =>
    /\ IsInjective(last_outgoing_id)
    /\ Range(last_outgoing_id) = Waiting
    /\ \A s \in failed : streams[s].opening = "negotiated"

QInv == TypeOK /\ Queued

LEMMA DistinctCount ==
  ASSUME NEW q \in Seq(OutIds), IsInjective(q)
  PROVE  Cardinality(Range(q)) = Len(q)
<1>1. PICK n \in Nat : n = Len(q) /\ DOMAIN q = 1..n BY LenProperties
<1>2. \A i \in 1..n : q[i] \in Range(q) BY <1>1 DEF Range
<1>3. q = [i \in 1..n |-> q[i]] BY <1>1, LenProperties
<1>4. q \in [1..n -> Range(q)] BY <1>2, <1>3
<1>5. q \in Injection(1..n, Range(q)) BY <1>4 DEF Injection
<1>6. q \in Surjection(1..n, Range(q)) BY <1>1, <1>4 DEF Surjection, Range
<1>7. ExistsBijection(1..n, Range(q)) BY <1>5, <1>6 DEF ExistsBijection, Bijection
<1> QED BY <1>1, <1>7, FS_CountingElements

(* push_back of a number that is not queued (handler.rs:111).                *)
LEMMA PushDistinct ==
  ASSUME NEW q \in Seq(OutIds), NEW id \in OutIds, IsInjective(q), id \notin Range(q)
  PROVE  IsInjective(Append(q, id)) /\ Range(Append(q, id)) = Range(q) \cup {id}
<1>1. PICK m \in Nat :
        /\ m = Len(q) /\ DOMAIN q = 1..m /\ DOMAIN Append(q, id) = 1..(m + 1)
        /\ \A i \in 1..m : Append(q, id)[i] = q[i]
        /\ Append(q, id)[m + 1] = id
  BY AppendProperties, LenProperties
<1>2. \A i \in 1..(m + 1) : i \in 1..m \/ i = m + 1 OBVIOUS
<1>3. 1..m \subseteq 1..(m + 1) /\ m + 1 \in 1..(m + 1) OBVIOUS
<1>4. \A i \in 1..m : q[i] # id BY <1>1 DEF Range
<1>5. IsInjective(Append(q, id)) BY <1>1, <1>2, <1>4 DEF IsInjective
<1>6. Range(Append(q, id)) = Range(q) \cup {id} BY <1>1, <1>2, <1>3 DEF Range
<1> QED BY <1>5, <1>6

(* pop_front of the first number (handler.rs:61).                            *)
LEMMA PopDistinct ==
  ASSUME NEW q \in Seq(OutIds), q # <<>>, IsInjective(q)
  PROVE  /\ IsInjective(Tail(q)) /\ Head(q) \in Range(q)
         /\ Range(Tail(q)) = Range(q) \ {Head(q)}
<1>1. PICK m \in Nat :
        /\ m = Len(q) /\ m > 0 /\ DOMAIN q = 1..m /\ Head(q) = q[1]
        /\ DOMAIN Tail(q) = 1..(m - 1)
        /\ \A i \in 1..(m - 1) : Tail(q)[i] = q[i + 1]
  <2>1. Len(q) \in Nat /\ Len(q) > 0 /\ DOMAIN q = 1..Len(q) BY LenProperties, EmptySeq
  <2>2. /\ Tail(q) \in Seq(OutIds) /\ Len(Tail(q)) = Len(q) - 1 /\ Head(q) = q[1]
        /\ \A i \in 1..Len(Tail(q)) : Tail(q)[i] = q[i + 1]
    BY HeadTailProperties
  <2>3. DOMAIN Tail(q) = 1..Len(Tail(q)) BY <2>2, LenProperties
  <2> QED BY <2>1, <2>2, <2>3
<1>2. \A i \in 1..(m - 1) : i + 1 \in 1..m /\ i + 1 # 1 OBVIOUS
<1>3. \A i \in 1..m : i = 1 \/ (i - 1 \in 1..(m - 1) /\ (i - 1) + 1 = i) OBVIOUS
<1>4. 1 \in 1..m BY <1>1
<1>5. IsInjective(Tail(q))
  <2> SUFFICES ASSUME NEW i \in 1..(m - 1), NEW j \in 1..(m - 1), Tail(q)[i] = Tail(q)[j]
               PROVE  i = j
    BY <1>1 DEF IsInjective
  <2>1. i + 1 = j + 1 BY <1>1, <1>2 DEF IsInjective
  <2> QED BY <2>1
<1>6. Range(Tail(q)) = Range(q) \ {Head(q)}
  <2>1. ASSUME NEW x \in Range(Tail(q)) PROVE x \in Range(q) \ {Head(q)}
    <3>1. PICK i \in 1..(m - 1) : x = Tail(q)[i] BY <1>1, <2>1 DEF Range
    <3>2. x = q[i + 1] /\ i + 1 \in 1..m /\ i + 1 # 1 BY <1>1, <1>2, <3>1
    <3>3. x # q[1] BY <1>1, <1>4, <3>2 DEF IsInjective
    <3> QED BY <1>1, <3>2, <3>3 DEF Range
  <2>2. ASSUME NEW x \in Range(q) \ {Head(q)} PROVE x \in Range(Tail(q))
    <3>1. PICK i \in 1..m : x = q[i] BY <1>1, <2>2 DEF Range
    <3>2. i # 1 BY <1>1, <2>2, <3>1
    <3>3. i - 1 \in 1..(m - 1) /\ (i - 1) + 1 = i BY <1>3, <3>2
    <3>4. Tail(q)[i - 1] = x BY <1>1, <3>1, <3>3
    <3> QED BY <1>1, <3>3, <3>4 DEF Range
  <2> QED BY <2>1, <2>2
<1>7. Head(q) \in Range(q) BY <1>1, <1>4 DEF Range
<1> QED BY <1>5, <1>6, <1>7

(* A step that leaves the queue and how far each stream is.                  *)
LEMMA QuietKeepsQueued ==
  ASSUME QInv, last_outgoing_id' = last_outgoing_id, failed' = failed,
         implicit' = implicit, replaced' = replaced,
         DOMAIN streams \subseteq DOMAIN streams',
         \A s \in DOMAIN streams : streams'[s].opening = streams[s].opening,
         \A s \in DOMAIN streams' \ DOMAIN streams :
           s[1] = "Outgoing" => streams'[s].opening # "requested"
  PROVE  Queued'
<1>1. Waiting' = Waiting
  <2>1. \A id \in OutIds : Outgoing(id)[1] = "Outgoing" BY DEF Outgoing
  <2> QED BY <2>1 DEF Waiting
<1>2. \A s \in failed : streams'[s].opening = streams[s].opening
  BY DEF QInv, TypeOK
<1> QED BY <1>1, <1>2 DEF QInv, Queued

LEMMA InsertQueued ==
  ASSUME QInv, NEW s, NEW st, s \notin DOMAIN streams, streams' = Insert(s, st),
         s[1] = "Outgoing" => st.opening # "requested",
         last_outgoing_id' = last_outgoing_id, failed' = failed,
         implicit' = implicit, replaced' = replaced
  PROVE  Queued'
<1>1. /\ DOMAIN streams' = DOMAIN streams \cup {s} /\ streams'[s] = st
      /\ \A t \in DOMAIN streams : streams'[t] = streams[t]
  BY DEF Insert
<1> QED BY <1>1, QuietKeepsQueued

(* The first number queued gets the substream, and the stream no longer      *)
(* waits (handler.rs:60-66).                                                 *)
LEMMA OutboundQueued ==
  ASSUME QInv, Outbound
  PROVE  Queued'
<1>1. failed' = failed /\ implicit' = implicit /\ replaced' = replaced
  BY DEF Outbound, counters
<1>2. CASE last_outgoing_id = <<>>
  <2>1. UNCHANGED <<streams, last_outgoing_id>> BY <1>2 DEF Outbound
  <2> QED BY <1>1, <2>1, QuietKeepsQueued
<1>3. CASE last_outgoing_id # <<>>
  <2> DEFINE id == Head(last_outgoing_id)
  <2> SUFFICES ASSUME implicit = 0, replaced = 0
               PROVE  /\ IsInjective(last_outgoing_id')
                      /\ Range(last_outgoing_id') = Waiting'
                      /\ \A s \in failed : streams'[s].opening = "negotiated"
    BY <1>1 DEF Queued
  <2>1. /\ IsInjective(last_outgoing_id) /\ Range(last_outgoing_id) = Waiting
        /\ \A s \in failed : s \in DOMAIN streams /\ streams[s].opening = "negotiated"
        /\ last_outgoing_id \in Seq(OutIds)
    BY DEF QInv, Queued, TypeOK
  <2>2. /\ last_outgoing_id' = Tail(last_outgoing_id)
        /\ streams' = IF Outgoing(id) \in DOMAIN streams
                      THEN [streams EXCEPT ![Outgoing(id)] = WithIo(streams[Outgoing(id)])]
                      ELSE streams
    BY <1>3 DEF Outbound
  <2>3. /\ IsInjective(last_outgoing_id') /\ id \in Waiting
        /\ Range(last_outgoing_id') = Waiting \ {id}
    BY <1>3, <2>1, <2>2, PopDistinct
  <2> HIDE DEF id
  <2>4. Outgoing(id) \in DOMAIN streams BY <2>3 DEF Waiting
  <2>5. WithIo(streams[Outgoing(id)]).opening = "negotiated"
    <3>1. streams[Outgoing(id)] \in Streams BY <2>4 DEF QInv, TypeOK
    <3> QED BY <3>1 DEF WithIo, Streams
  <2>6. /\ DOMAIN streams' = DOMAIN streams
        /\ \A s \in DOMAIN streams :
             streams'[s] = IF s = Outgoing(id) THEN WithIo(streams[s]) ELSE streams[s]
    BY <2>2, <2>4
  <2>7. Waiting' = Waiting \ {id}
    <3>1. \A x, y \in OutIds : Outgoing(x) = Outgoing(y) => x = y BY DEF Outgoing
    <3>2. id \in OutIds BY <2>3 DEF Waiting
    <3> QED BY <2>5, <2>6, <3>1, <3>2 DEF Waiting
  <2> QED BY <2>1, <2>3, <2>5, <2>6, <2>7
<1> QED BY <1>2, <1>3

(* One poll makes at most one request, for the first stream of the map that  *)
(* is ready (handler.rs:103-117).                                            *)
LEMMA OneAsks ==
  ASSUME TypeOK, NEW s \in Polled, NEW t \in Polled, Asks(s), Asks(t)
  PROVE  s = t
<1>1. s \in Ready /\ t \in Ready BY DEF Polled, Ready
<1>2. ~ Before(s, t) /\ ~ Before(t, s) BY <1>1 DEF Polled
<1>3. s \in StreamIds /\ t \in StreamIds BY DEF Polled, Alive, TypeOK
<1>4. PICK x \in OutIds, y \in OutIds : s = Outgoing(x) /\ t = Outgoing(y)
  BY <1>3 DEF Asks, StreamIds, Incoming, Outgoing
<1>5. ~(x < y) /\ ~(y < x) BY <1>2, <1>4 DEF Before, Outgoing
<1>6. x \in Nat /\ y \in Nat BY <1>4, RpcHandlerAssumption
<1>7. x = y BY <1>5, <1>6
<1> QED BY <1>4, <1>7

(* A stream asks when it does not wait, and its number goes to the end of    *)
(* the queue; what fails had its substream (handler.rs:98-123).              *)
LEMMA PollQueued ==
  ASSUME QInv, Poll
  PROVE  Queued'
<1>1. implicit' = implicit /\ replaced' = replaced /\ failed' = Failing(Polled)
  BY DEF Poll, counters
<1> SUFFICES ASSUME implicit = 0, replaced = 0
             PROVE  /\ IsInjective(last_outgoing_id')
                    /\ Range(last_outgoing_id') = Waiting'
                    /\ \A s \in failed' : streams'[s].opening = "negotiated"
  BY <1>1 DEF Queued
<1>2. /\ IsInjective(last_outgoing_id) /\ Range(last_outgoing_id) = Waiting
      /\ \A s \in failed : s \in DOMAIN streams /\ streams[s].opening = "negotiated"
      /\ last_outgoing_id \in Seq(OutIds)
  BY DEF QInv, Queued, TypeOK
<1>3. Polled \subseteq Alive /\ Alive = DOMAIN streams \ failed BY DEF Polled, Alive
<1>4. /\ DOMAIN streams' = Alive
      /\ \A s \in Alive :
           streams'[s].opening = IF s \in Polled /\ Asks(s) THEN "requested"
                                 ELSE streams[s].opening
  <2> DEFINE writers == {s \in Polled : Negotiated(s) /\ streams[s].held # <<>>}
  <2>1. PICK n \in [writers -> 0..MaxSends] :
          streams' = [s \in Alive |->
                        IF s \in writers THEN AfterPoll(s, n[s])
                        ELSE IF s \in Polled THEN AfterPoll(s, 0)
                        ELSE streams[s]]
    BY Zenon DEF Poll
  <2>2. \A s, k : AfterPoll(s, k).opening
                    = IF Asks(s) THEN "requested" ELSE streams[s].opening
    BY DEF AfterPoll
  <2>3. writers \subseteq Polled OBVIOUS
  <2> HIDE DEF writers
  <2> QED BY <2>1, <2>2, <2>3
<1>5. \A s \in failed' : streams'[s].opening = "negotiated"
  <2> SUFFICES ASSUME NEW s \in Polled, Fails(s) PROVE streams'[s].opening = "negotiated"
    BY <1>1 DEF Failing
  <2>1. ~ Asks(s) /\ streams[s].opening = "negotiated" BY DEF Fails, Asks, Negotiated
  <2> QED BY <1>3, <1>4, <2>1
<1>6. CASE \E s \in Polled : Asks(s)
  <2>1. PICK s \in Polled : Asks(s) /\ Remember(s) BY <1>6 DEF Poll
  <2>2. s \in StreamIds BY <1>3 DEF QInv, TypeOK
  <2>3. PICK id \in OutIds : s = Outgoing(id)
    BY <2>1, <2>2 DEF Asks, StreamIds, Incoming, Outgoing
  <2>4. last_outgoing_id' = Append(last_outgoing_id, id)
    BY <2>1, <2>3 DEF Remember, Outgoing
  <2>5. id \notin Waiting BY <2>1, <2>3 DEF Waiting, Asks, Negotiated
  <2>6. \A t \in Polled : Asks(t) => t = s BY <2>1, OneAsks DEF QInv
  <2>7. Waiting' = Waiting \cup {id}
    <3>1. \A x \in OutIds : Outgoing(x) = Outgoing(id) => x = id BY DEF Outgoing
    <3>2. ASSUME NEW x \in Waiting' PROVE x \in Waiting \cup {id}
      <4>1. /\ x \in OutIds /\ Outgoing(x) \in Alive
            /\ streams'[Outgoing(x)].opening = "requested"
        BY <1>4, <3>2 DEF Waiting
      <4> QED BY <1>3, <1>4, <2>3, <2>6, <3>1, <4>1 DEF Waiting
    <3>3. ASSUME NEW x \in Waiting PROVE x \in Waiting'
      <4>1. /\ x \in OutIds /\ Outgoing(x) \in DOMAIN streams
            /\ streams[Outgoing(x)].opening = "requested"
        BY <3>3 DEF Waiting
      <4>2. Outgoing(x) \in Alive BY <1>2, <1>3, <4>1
      <4> QED BY <1>4, <4>1, <4>2 DEF Waiting
    <3>4. id \in Waiting' BY <1>3, <1>4, <2>1, <2>3 DEF Waiting
    <3> QED BY <3>2, <3>3, <3>4
  <2> QED BY <1>2, <1>5, <2>4, <2>5, <2>7, PushDistinct
<1>7. CASE ~ \E s \in Polled : Asks(s)
  <2>1. last_outgoing_id' = last_outgoing_id BY <1>7 DEF Poll
  <2>2. Waiting' = Waiting
    <3>1. \A s \in Alive : streams'[s].opening = streams[s].opening BY <1>4, <1>7
    <3> QED BY <1>2, <1>3, <1>4, <3>1 DEF Waiting
  <2> QED BY <1>2, <1>5, <2>1, <2>2
<1> QED BY <1>6, <1>7

LEMMA InitQueued == Init => QInv
<1> SUFFICES ASSUME Init PROVE Queued
  BY InitTypes DEF QInv
<1>1. Waiting = {} BY DEF Init, Waiting
<1>2. Range(last_outgoing_id) = {} /\ IsInjective(last_outgoing_id)
  BY DEF Init, Range, IsInjective
<1> QED BY <1>1, <1>2 DEF Init, Queued

LEMMA NextQueued == OInv /\ QInv /\ [Next]_vars => QInv'
<1> SUFFICES ASSUME OInv, QInv, [Next]_vars PROVE Queued'
  BY NextTypes DEF QInv
<1>0. replaced \in Nat /\ implicit \in Nat BY DEF QInv, TypeOK
<1>1. ASSUME NEW id \in OutIds, Open(id) PROVE Queued'
  <2>1. /\ UNCHANGED <<last_outgoing_id, failed, implicit>>
        /\ streams' = Insert(Outgoing(id), NewStream)
        /\ replaced' = replaced + (IF Outgoing(id) \in DOMAIN streams THEN 1 ELSE 0)
    BY <1>1 DEF Open
  <2>2. CASE Outgoing(id) \in DOMAIN streams
    <3>1. replaced' # 0 BY <1>0, <2>1, <2>2
    <3> QED BY <3>1 DEF Queued
  <2>3. CASE Outgoing(id) \notin DOMAIN streams
    <3>1. replaced' = replaced BY <1>0, <2>1, <2>3
    <3>2. NewStream.opening # "requested" BY DEF NewStream
    <3> QED BY <2>1, <2>3, <3>1, <3>2, InsertQueued
  <2> QED BY <2>2, <2>3
<1>2. ASSUME NEW s \in StreamIds, SendHere(s) PROVE Queued'
  <2>1. /\ UNCHANGED <<last_outgoing_id, failed, implicit, replaced>>
        /\ s \in DOMAIN streams
        /\ streams' = [streams EXCEPT ![s].held = Append(streams[s].held, Len(target'))]
    BY <1>2 DEF SendHere, Send
  <2>2. [streams[s] EXCEPT !.held = Append(streams[s].held, Len(target'))].opening
          = streams[s].opening
    BY <2>1 DEF QInv, TypeOK, Streams
  <2>3. /\ DOMAIN streams' = DOMAIN streams
        /\ \A t \in DOMAIN streams : streams'[t].opening = streams[t].opening
    BY <2>1, <2>2
  <2> QED BY <2>1, <2>3, QuietKeepsQueued
<1>3. ASSUME NEW s \in StreamIds, SendImplicit(s) PROVE Queued'
  <2>1. implicit' # 0 BY <1>0, <1>3 DEF SendImplicit
  <2> QED BY <2>1 DEF Queued
<1>4. ASSUME UNCHANGED <<streams, last_outgoing_id, failed, implicit, replaced>>
      PROVE  Queued'
  BY <1>4, QuietKeepsQueued
<1>5. CASE Inbound
  <2>1. /\ streams' = Insert(Incoming(last_incoming_id), WithIo(NewStream))
        /\ UNCHANGED <<last_outgoing_id, failed, implicit, replaced>>
    BY <1>5 DEF Inbound, counters
  <2>2. Incoming(last_incoming_id)[1] # "Outgoing" BY DEF Incoming
  <2>3. Incoming(last_incoming_id) \notin DOMAIN streams
    <3>1. last_incoming_id \in Nat BY RpcHandlerAssumption DEF QInv, TypeOK
    <3>2. ~(last_incoming_id < last_incoming_id) BY <3>1
    <3>3. /\ Incoming(last_incoming_id)[1] = "Incoming"
          /\ Incoming(last_incoming_id)[2] = last_incoming_id
      BY DEF Incoming
    <3> QED BY <3>2, <3>3 DEF OInv, ToCome
  <2> QED BY <2>1, <2>2, <2>3, InsertQueued
<1>6. CASE Outbound BY <1>6, OutboundQueued
<1>7. ASSUME NEW s \in StreamIds, NEW what \in {"message", "eof", "broken"}, Mail(s, what)
      PROVE  Queued'
  <2>1. /\ UNCHANGED <<last_outgoing_id, failed, implicit, replaced>>
        /\ s \in DOMAIN streams /\ streams' = [streams EXCEPT ![s].mail = what]
    BY <1>7 DEF Mail
  <2>2. [streams[s] EXCEPT !.mail = what].opening = streams[s].opening
    BY <2>1 DEF QInv, TypeOK, Streams
  <2>3. /\ DOMAIN streams' = DOMAIN streams
        /\ \A t \in DOMAIN streams : streams'[t].opening = streams[t].opening
    BY <2>1, <2>2
  <2> QED BY <2>1, <2>3, QuietKeepsQueued
<1>8. CASE Poll BY <1>8, PollQueued
<1>9. (\E s \in StreamIds : SendNowhere(s)) \/ Refused \/ UNCHANGED vars
        => UNCHANGED <<streams, last_outgoing_id, failed, implicit, replaced>>
  BY DEF SendNowhere, Send, Refused, vars, tables, counters
<1> QED BY <1>1, <1>2, <1>3, <1>4, <1>5, <1>6, <1>7, <1>8, <1>9 DEF Next

(* While no stream was opened implicitly or over another, the numbers queued *)
(* are those of the streams that wait for a substream, each once, for any    *)
(* order of opens, refusals, ends and failures (handler.rs:60-66, 111).      *)
THEOREM QueueIsWaiting == Spec => []IdsAreWaiting
<1>1. QInv => IdsAreWaiting
  BY DistinctCount DEF QInv, Queued, IdsAreWaiting, TypeOK
<1> QED BY <1>1, InitOrder, NextOrder, InitQueued, NextQueued, PTL DEF Spec
=============================================================================
