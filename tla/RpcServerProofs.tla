--------------------------- MODULE RpcServerProofs ---------------------------
(* Theorems about RpcServer, for every set of peers and of connections and   *)
(* without bounds.  What was proved of RpcBehaviour is used through the      *)
(* instance Routed.                                                          *)
EXTENDS RpcServer, TLAPS, SequenceTheorems, FiniteSetTheorems

Routed == INSTANCE RpcBehaviourProofs

(* The server takes the steps of the behaviour, and the behaviour no others. *)
LEMMA InitRouted == Init => Routed!Init
BY DEF Init, Behaviour!Init, Routed!Init

LEMMA SwarmRouted ==
  ASSUME NEW c \in Conns
  PROVE  /\ Behaviour!PollNotify => Routed!PollNotify
         /\ Behaviour!PollEvent => Routed!PollEvent
         /\ Behaviour!Closed(c) => Routed!Closed(c)
         /\ Behaviour!HandlerEvent(c) => Routed!HandlerEvent(c)
<1> USE DEF Behaviour!Popped, Routed!Popped, Behaviour!Known, Routed!Known,
            Behaviour!links, Routed!links
<1>1. Behaviour!PollNotify => Routed!PollNotify
  BY DEF Behaviour!PollNotify, Routed!PollNotify, Behaviour!HasRoom, Routed!HasRoom
<1>2. Behaviour!PollEvent => Routed!PollEvent
  BY DEF Behaviour!PollEvent, Routed!PollEvent
<1>3. Behaviour!Closed(c) => Routed!Closed(c)
  BY DEF Behaviour!Closed, Routed!Closed, Behaviour!Forget, Routed!Forget,
         Behaviour!Generate, Routed!Generate
<1>4. Behaviour!HandlerEvent(c) => Routed!HandlerEvent(c)
  BY DEF Behaviour!HandlerEvent, Routed!HandlerEvent, Behaviour!Generate, Routed!Generate
<1> QED BY <1>1, <1>2, <1>3, <1>4

LEMMA PeersRouted ==
  ASSUME NEW c \in Conns, NEW p \in Peers
  PROVE  /\ Behaviour!Established(c, p) => Routed!Established(c, p)
         /\ Behaviour!Dispatch(p) => Routed!Dispatch(p)
<1> USE DEF Behaviour!Known, Routed!Known, Behaviour!links, Routed!links,
            Behaviour!Notify, Routed!Notify, Behaviour!Generate, Routed!Generate
<1>1. Behaviour!Established(c, p) => Routed!Established(c, p)
  BY DEF Behaviour!Established, Routed!Established, Behaviour!Flush, Routed!Flush
<1>2. Behaviour!Dispatch(p) => Routed!Dispatch(p)
  BY DEF Behaviour!Dispatch, Routed!Dispatch
<1> QED BY <1>1, <1>2

LEMMA TasksRouted ==
  ASSUME NEW c \in Conns
  PROVE  /\ Behaviour!Take(c) => Routed!Take(c)
         /\ Behaviour!Emit(c) => Routed!Emit(c)
         /\ Behaviour!End(c) => Routed!End(c)
<1> USE DEF Behaviour!Known, Routed!Known, Behaviour!Running, Routed!Running,
            Behaviour!own, Routed!own, Behaviour!ToSet, Routed!ToSet
<1>1. Behaviour!Take(c) => Routed!Take(c) BY DEF Behaviour!Take, Routed!Take
<1>2. Behaviour!Emit(c) => Routed!Emit(c) BY DEF Behaviour!Emit, Routed!Emit
<1>3. Behaviour!End(c) => Routed!End(c) BY DEF Behaviour!End, Routed!End
<1> QED BY <1>1, <1>2, <1>3

LEMMA ServerSteps ==
  ASSUME [Next]_vars
  PROVE  \/ UNCHANGED vars
         \/ NextEvent
         \/ OnConnection
         \/ OnNews
         \/ OnQuery
         \/ Swarm
         \/ \E c \in Conns, p \in Peers : Established(c, p)
         \/ \E c \in Conns : Take(c)
         \/ \E c \in Conns : RemoteOpens(c) \/ RemoteEnds(c)
         \/ \E c \in Conns : RemoteSpeaks(c)
         \/ \E c \in Conns : RemoteAsks(c)
         \/ \E c \in Conns : End(c)
BY DEF Next, Arm

Entries == Routed!Notifications \cup Routed!Happenings

LEMMA QueueIs ==
  ASSUME Routed!TypeOK
  PROVE  /\ queue \in Seq(Entries) /\ Len(queue) \in Nat /\ DOMAIN queue = 1..Len(queue)
         /\ ToSet(queue) \subseteq Entries
<1>1. queue \in Seq(Entries) BY DEF Routed!TypeOK, Entries
<1> HIDE DEF Entries
<1>2. Len(queue) \in Nat /\ DOMAIN queue = 1..Len(queue) BY <1>1, LenProperties
<1>3. \A k \in DOMAIN queue : queue[k] \in Entries BY <1>1, <1>2, ElementOfSeq
<1> QED BY <1>1, <1>2, <1>3 DEF ToSet

LEMMA EntryIs ==
  ASSUME NEW e \in Entries
  PROVE  /\ e.peer \in Peers /\ e.conn \in Conns /\ e.to \in {"handler", "user"}
         /\ e.to = "handler" => e.cmd \in Nat
         /\ e.to = "user" => e.event \in {"ConnectionEstablished", "ConnectionClosed", "Stream"}
BY DEF Entries, Routed!Notifications, Routed!Happenings, Routed!Kinds

LEMMA FirstIs ==
  ASSUME Routed!TypeOK, queue # <<>>
  PROVE  /\ Head(queue) \in Entries /\ 1 \in DOMAIN queue /\ Head(queue) = queue[1]
         /\ Head(queue) \in ToSet(queue)
<1> HIDE DEF Entries
<1>1. queue \in Seq(Entries) BY QueueIs
<1>2. Head(queue) \in Entries /\ Head(queue) = queue[1] BY <1>1, HeadTailProperties
<1>3. Len(queue) \in Nat \ {0} BY <1>1, EmptySeq
<1>4. 1 \in DOMAIN queue BY <1>3, QueueIs
<1> QED BY <1>2, <1>4 DEF ToSet

-----------------------------------------------------------------------------
(* What the hand holds.                                                      *)

Asks(h) == h.kind = "Query"

Posed == Asks(hand) => hand.peer \in Peers /\ hand.conn \in Conns

(* What the event next in the queue says.                                    *)
What(e) ==
  IF e.event = "Stream"
  THEN told[e.conn][Nth(heard'[e.conn], "Stream")] ELSE [kind |-> e.event]

LEMMA Polled ==
  ASSUME Routed!TypeOK, NextEvent
  PROVE  /\ Behaviour!PollEvent /\ Head(queue) \in Entries /\ Head(queue).to = "user"
         /\ hand' = Event(Head(queue), What(Head(queue)))
         /\ queue # <<>> /\ queue' = Tail(queue)
         /\ heard' = [heard EXCEPT ![Head(queue).conn] = Append(@, Head(queue).event)]
         /\ UNCHANGED <<peers, pending, pool, inbox, up, issued, said, told, got, met, opened>>
<1>1. Behaviour!PollEvent /\ queue # <<>> BY DEF NextEvent, Behaviour!PollEvent
<1>2. Head(queue) \in Entries BY <1>1, FirstIs
<1>3. Behaviour!Popped = <<Head(queue), Tail(queue)>> BY DEF Behaviour!Popped
<1>4. hand' = Event(Head(queue), What(Head(queue)))
  BY <1>3 DEF NextEvent, What
<1> QED BY <1>1, <1>2, <1>3, <1>4 DEF NextEvent, Behaviour!PollEvent, Behaviour!links, remote

LEMMA PosedFirst == Init => Posed
BY DEF Init, Posed, Asks, Nothing

LEMMA PosedStep == Routed!TypeOK /\ Posed /\ [Next]_vars => Posed'
<1> SUFFICES ASSUME Routed!TypeOK, Posed, [Next]_vars PROVE Posed'
  OBVIOUS
<1>1. CASE NextEvent
  <2> DEFINE e == Head(queue)
  <2>1. e \in Entries /\ hand' = Event(e, What(e)) BY <1>1, Polled
  <2> HIDE DEF e
  <2>2. hand'.peer = e.peer /\ hand'.conn = e.conn BY <2>1 DEF Event
  <2> QED BY <2>1, <2>2, EntryIs DEF Posed
<1>2. ASSUME hand' = Nothing \/ hand' = Panic \/ UNCHANGED hand PROVE Posed'
  BY <1>2 DEF Posed, Asks, Nothing, Panic
<1>3. CASE OnConnection \/ OnNews \/ OnQuery
  BY <1>2, <1>3 DEF OnConnection, OnNews, OnQuery
<1>4. CASE Swarm BY <1>2, <1>4 DEF Swarm
<1>5. ASSUME NEW c \in Conns, NEW p \in Peers, Established(c, p) PROVE Posed'
  BY <1>2, <1>5 DEF Established
<1>6. ASSUME NEW c \in Conns, \/ Take(c) \/ RemoteOpens(c) \/ RemoteEnds(c)
                              \/ RemoteSpeaks(c) \/ RemoteAsks(c) \/ End(c)
      PROVE  Posed'
  <2>1. UNCHANGED hand
    BY <1>6 DEF Take, RemoteOpens, RemoteEnds, RemoteSpeaks, RemoteAsks, Tell, End
  <2> QED BY <1>2, <2>1
<1>7. CASE UNCHANGED vars BY <1>2, <1>7 DEF vars
<1> QED BY <1>1, <1>3, <1>4, <1>5, <1>6, <1>7, ServerSteps

(* The server takes the steps of the behaviour.                              *)
LEMMA NextRouted == Routed!TypeOK /\ Posed /\ [Next]_vars => [Routed!Next]_(Routed!vars)
<1> SUFFICES ASSUME Routed!TypeOK, Posed, [Next]_vars PROVE [Routed!Next]_(Routed!vars)
  OBVIOUS
<1>1. UNCHANGED behaviour => UNCHANGED Routed!vars
  BY DEF behaviour, Routed!vars, Routed!own, Routed!links
<1>2. queue # <<>> => \E c \in Conns : TRUE
  BY FirstIs, EntryIs
<1>3. CASE NextEvent
  <2>1. Behaviour!PollEvent /\ queue # <<>> BY <1>3 DEF NextEvent, Behaviour!PollEvent
  <2>2. Routed!PollEvent BY <1>2, <2>1, SwarmRouted
  <2> QED BY <2>2 DEF Routed!Next, Routed!Swarm
<1>4. CASE Swarm
  <2>1. CASE Behaviour!PollNotify
    <3>1. queue # <<>> BY <2>1 DEF Behaviour!PollNotify
    <3>2. Routed!PollNotify BY <1>2, <2>1, <3>1, SwarmRouted
    <3> QED BY <3>2 DEF Routed!Next, Routed!Swarm
  <2>2. ASSUME NEW c \in Conns, Behaviour!Closed(c) \/ Behaviour!HandlerEvent(c)
        PROVE  [Routed!Next]_(Routed!vars)
    BY <2>2, SwarmRouted DEF Routed!Next, Routed!Swarm
  <2> QED BY <1>4, <2>1, <2>2 DEF Swarm
<1>5. ASSUME NEW c \in Conns, NEW p \in Peers, Established(c, p)
      PROVE  [Routed!Next]_(Routed!vars)
  <2>1. Routed!Established(c, p) BY <1>5, PeersRouted DEF Established
  <2> QED BY <2>1 DEF Routed!Next
<1>6. ASSUME NEW c \in Conns, Take(c) \/ RemoteSpeaks(c) \/ RemoteAsks(c) \/ End(c)
      PROVE  [Routed!Next]_(Routed!vars)
  <2>1. Behaviour!Take(c) \/ Behaviour!Emit(c) \/ Behaviour!End(c)
    BY <1>6 DEF Take, RemoteSpeaks, RemoteAsks, Tell, End
  <2>2. Routed!Take(c) \/ Routed!Emit(c) \/ Routed!End(c) BY <2>1, TasksRouted
  <2> QED BY <2>2 DEF Routed!Next
<1>7. CASE OnQuery
  <2>1. CASE Behaviour!Dispatch(hand.peer)
    <3> DEFINE p == hand.peer
    <3>1. p \in Peers BY <1>7 DEF OnQuery, Posed, Asks
    <3> HIDE DEF p
    <3>2. Behaviour!Dispatch(p) BY <2>1 DEF p
    <3>3. Routed!Dispatch(p)
      <4>1. Conns # {} BY <1>7 DEF OnQuery, Posed, Asks
      <4>2. PICK c \in Conns : TRUE BY <4>1
      <4> QED BY <3>1, <3>2, <4>2, PeersRouted
    <3> QED BY <3>1, <3>3 DEF Routed!Next
  <2>2. CASE UNCHANGED behaviour BY <1>1, <2>2
  <2> QED BY <1>7, <2>1, <2>2 DEF OnQuery
<1>8. CASE OnConnection \/ OnNews \/ \E c \in Conns : RemoteOpens(c) \/ RemoteEnds(c)
  BY <1>1, <1>8 DEF OnConnection, OnNews, RemoteOpens, RemoteEnds
<1>9. CASE UNCHANGED vars BY <1>1, <1>9 DEF vars
<1> QED BY <1>3, <1>4, <1>5, <1>6, <1>7, <1>8, <1>9, ServerSteps

LEMMA Assumed == Routed!RpcBehaviourAssumption
BY RpcServerAssumption DEF Routed!RpcBehaviourAssumption

(* The server implements the behaviour's specification: what it calls        *)
(* (replay.rs:48-210) and what remotes do leave the steps of behaviour.rs as  *)
(* they are, so that all that is proved of them holds here.                  *)
THEOREM Implements == Spec => Routed!Spec
<1> DEFINE Inv == Routed!TypeOK /\ Posed
<1>1. Init => Inv
  BY InitRouted, PosedFirst, Assumed, Routed!InitTypeOK
<1>2. Inv /\ [Next]_vars => Inv'
  BY NextRouted, PosedStep, Assumed, Routed!NextTypeOK
<1>3. Spec => []Inv BY <1>1, <1>2, PTL DEF Spec
<1>4. Inv /\ [Next]_vars => [Routed!Next]_(Routed!vars) BY NextRouted
<1> QED BY <1>3, <1>4, InitRouted, PTL DEF Spec, Routed!Spec

-----------------------------------------------------------------------------
(* The types of what this module adds, and what the hand has of the events   *)
(* of a handler: the one that the latest stream event heard of stands for.   *)

Tellings ==
  [kind : {"News"}] \cup [kind : {"Query"}, stream : Nat, method : Methods, id : Nat]

Sayings == [stream : Nat, id : Nat, conn : Conns, late : BOOLEAN]

Types ==
  /\ met \in [Peers -> SUBSET Conns] /\ got \in [Conns -> Seq(Nat)]
  /\ told \in [Conns -> Seq(Tellings)] /\ opened \in [Conns -> Nat]
  /\ said \in Seq(Sayings) /\ Len(said) = Len(issued)

Heard(c) == Nth(heard[c], "Stream")

Handed ==
  Asks(hand) =>
    /\ Heard(hand.conn) \in DOMAIN told[hand.conn]
    /\ LET t == told[hand.conn][Heard(hand.conn)]
       IN  Asks(t) /\ hand.stream = t.stream /\ hand.id = t.id

LEMMA TellingIs ==
  ASSUME Types, NEW c \in Conns
  PROVE  /\ told[c] \in Seq(Tellings) /\ Len(told[c]) \in Nat /\ DOMAIN told[c] = 1..Len(told[c])
         /\ \A k \in DOMAIN told[c] :
              /\ told[c][k] \in Tellings
              /\ Asks(told[c][k]) => told[c][k].stream \in Nat /\ told[c][k].id \in Nat
<1>1. told[c] \in Seq(Tellings) BY DEF Types
<1> HIDE DEF Tellings
<1>2. Len(told[c]) \in Nat /\ DOMAIN told[c] = 1..Len(told[c]) BY <1>1, LenProperties
<1>3. \A k \in DOMAIN told[c] : told[c][k] \in Tellings BY <1>1, <1>2, ElementOfSeq
<1>4. \A t \in Tellings : Asks(t) => t.stream \in Nat /\ t.id \in Nat
  BY DEF Tellings, Asks
<1> QED BY <1>1, <1>2, <1>3, <1>4

LEMMA SaidIs ==
  ASSUME Types, Routed!TypeOK
  PROVE  /\ Len(said) \in Nat /\ DOMAIN said = 1..Len(said)
         /\ issued \in Seq(Peers) /\ DOMAIN issued = 1..Len(said)
         /\ \A n \in DOMAIN said : /\ said[n].conn \in Conns /\ said[n].stream \in Nat
                                   /\ said[n].id \in Nat /\ issued[n] \in Peers
<1>1. said \in Seq(Sayings) /\ issued \in Seq(Peers) /\ Len(said) = Len(issued)
  BY DEF Types, Routed!TypeOK
<1> HIDE DEF Sayings
<1>2. Len(said) \in Nat /\ DOMAIN said = 1..Len(said) BY <1>1, LenProperties
<1>3. DOMAIN issued = 1..Len(said) BY <1>1, LenProperties
<1>4. \A n \in DOMAIN said : said[n] \in Sayings BY <1>1, <1>2, ElementOfSeq
<1>5. \A n \in DOMAIN said : issued[n] \in Peers BY <1>1, <1>2, <1>3, ElementOfSeq
<1>6. \A a \in Sayings : a.conn \in Conns /\ a.stream \in Nat /\ a.id \in Nat
  BY DEF Sayings
<1> QED BY <1>1, <1>2, <1>3, <1>4, <1>5, <1>6

(* An answer: what is said, and the peer it is addressed to.                 *)
Answer == [stream |-> hand.stream, id |-> hand.id, conn |-> hand.conn,
           late |-> Overtaken(hand.peer, hand.conn)]

Answers == OnQuery /\ Behaviour!Dispatch(hand.peer) /\ said' = Append(said, Answer)

LEMMA Answering ==
  ASSUME OnQuery
  PROVE  /\ Asks(hand) /\ (hand' = Nothing \/ hand' = Panic)
         /\ UNCHANGED <<guests, remote, got, met>>
         /\ Answers \/ UNCHANGED <<behaviour, said>>
BY DEF OnQuery, Answers, Answer, Asks

LEMMA AnswerIs ==
  ASSUME Types, Routed!TypeOK, Posed, Handed, Answers
  PROVE  /\ Answer \in Sayings /\ hand.peer \in Peers /\ hand.conn \in Conns
         /\ hand.stream \in Nat /\ hand.id \in Nat
         /\ said' \in Seq(Sayings) /\ Len(said') = Len(said) + 1 /\ Len(issued') = Len(said) + 1
         /\ \A n \in DOMAIN said : n \in DOMAIN said' /\ said'[n] = said[n] /\ issued'[n] = issued[n]
         /\ DOMAIN said' = 1..(Len(said) + 1)
         /\ said'[Len(said) + 1] = Answer /\ issued'[Len(said) + 1] = hand.peer
<1>1. Asks(hand) BY DEF Answers, OnQuery, Asks
<1>2. hand.peer \in Peers /\ hand.conn \in Conns BY <1>1 DEF Posed
<1>3. hand.stream \in Nat /\ hand.id \in Nat
  BY <1>1, <1>2, TellingIs DEF Handed
<1>4. Answer \in Sayings BY <1>2, <1>3 DEF Answer, Sayings, Overtaken
<1> HIDE DEF Answer, Sayings
<1>5. said \in Seq(Sayings) /\ said' = Append(said, Answer) BY DEF Types, Answers
<1>6. issued \in Seq(Peers) /\ issued' = Append(issued, hand.peer) /\ Len(issued) = Len(said)
  BY SaidIs DEF Answers, Behaviour!Dispatch, Types
<1>7. /\ said' \in Seq(Sayings) /\ Len(said') = Len(said) + 1
      /\ \A i \in 1..Len(said) : said'[i] = said[i]
      /\ said'[Len(said) + 1] = Answer
  BY <1>4, <1>5, AppendProperties
<1>8. /\ issued' \in Seq(Peers) /\ Len(issued') = Len(said) + 1
      /\ \A i \in 1..Len(said) : issued'[i] = issued[i]
      /\ issued'[Len(said) + 1] = hand.peer
  BY <1>2, <1>6, AppendProperties
<1>9. DOMAIN said' = 1..(Len(said) + 1) BY <1>7, LenProperties
<1>10. Len(said) \in Nat /\ DOMAIN said = 1..Len(said) BY SaidIs
<1> QED BY <1>2, <1>3, <1>4, <1>7, <1>8, <1>9, <1>10

(* What is said, and the connections a peer has had, stay.                   *)
Grows ==
  /\ \A n \in DOMAIN said : n \in DOMAIN said' /\ said'[n] = said[n] /\ issued'[n] = issued[n]
  /\ \A p \in Peers : met[p] \subseteq met'[p]

LEMMA NextGrows ==
  ASSUME Types, Routed!TypeOK, Posed, Handed, [Next]_vars
  PROVE  Grows
<1>1. CASE UNCHANGED <<said, issued, met>> BY <1>1 DEF Grows
<1>2. CASE NextEvent BY <1>1, <1>2, Polled
<1>3. CASE OnConnection \/ OnNews
  BY <1>1, <1>3 DEF OnConnection, OnNews, behaviour
<1>4. CASE OnQuery
  <2>1. CASE UNCHANGED <<behaviour, said>> BY <1>1, <1>4, <2>1, Answering DEF behaviour
  <2>2. CASE Answers BY <1>4, <2>2, AnswerIs, Answering DEF Grows
  <2> QED BY <1>4, <2>1, <2>2, Answering
<1>5. CASE Swarm
  BY <1>1, <1>5 DEF Swarm, Behaviour!PollNotify, Behaviour!Closed, Behaviour!HandlerEvent
<1>6. ASSUME NEW c \in Conns, NEW p \in Peers, Established(c, p) PROVE Grows
  <2>1. /\ UNCHANGED <<said, issued>> /\ met' = [met EXCEPT ![p] = @ \cup {c}]
        /\ met \in [Peers -> SUBSET Conns]
    BY <1>6 DEF Established, Behaviour!Established, Types
  <2> QED BY <2>1 DEF Grows
<1>7. ASSUME NEW c \in Conns, Take(c) \/ RemoteOpens(c) \/ RemoteEnds(c) PROVE Grows
  <2>1. UNCHANGED <<said, issued, met>>
    BY <1>7 DEF Take, Behaviour!Take, RemoteOpens, RemoteEnds, behaviour
  <2> QED BY <1>1, <2>1
<1>8. ASSUME NEW c \in Conns, RemoteSpeaks(c) \/ RemoteAsks(c) \/ End(c) PROVE Grows
  <2>1. UNCHANGED <<said, issued, met>>
    BY <1>8 DEF RemoteSpeaks, RemoteAsks, Tell, Behaviour!Emit, End, Behaviour!End
  <2> QED BY <1>1, <2>1
<1>9. CASE UNCHANGED vars BY <1>1, <1>9 DEF vars, behaviour
<1> QED BY <1>2, <1>3, <1>4, <1>5, <1>6, <1>7, <1>8, <1>9, ServerSteps

LEMMA AskedIs ==
  ASSUME Types, NEW c \in Conns, NEW s
  PROVE  IsFiniteSet(AskedOn(c, s)) /\ Cardinality(AskedOn(c, s)) \in Nat
<1>1. AskedOn(c, s) \subseteq 1..Len(told[c]) /\ Len(told[c]) \in Nat
  BY TellingIs DEF AskedOn
<1>2. IsFiniteSet(1..Len(told[c])) BY <1>1, FS_Interval
<1> QED BY <1>1, <1>2, FS_Subset, FS_CardinalityType

(* A handler tells what a remote said.                                       *)
LEMMA Telling ==
  ASSUME Types, NEW c \in Conns, NEW what \in Tellings, Tell(c, what)
  PROVE  /\ told' \in [Conns -> Seq(Tellings)]
         /\ \A d \in Conns : d # c => told'[d] = told[d]
         /\ Len(told'[c]) = Len(told[c]) + 1 /\ DOMAIN told'[c] = 1..(Len(told[c]) + 1)
         /\ \A k \in DOMAIN told[c] : told'[c][k] = told[c][k]
         /\ told'[c][Len(told[c]) + 1] = what
         /\ UNCHANGED <<hand, said, opened, got, met, queue, peers, heard, issued,
                        pending, pool, inbox, taken>>
<1>1. told' = [told EXCEPT ![c] = Append(@, what)] BY DEF Tell
<1>2. told[c] \in Seq(Tellings) /\ told \in [Conns -> Seq(Tellings)] BY DEF Types
<1>3. DOMAIN told[c] = 1..Len(told[c]) BY TellingIs
<1> HIDE DEF Tellings
<1>4. /\ Append(told[c], what) \in Seq(Tellings) /\ Len(Append(told[c], what)) = Len(told[c]) + 1
      /\ \A i \in 1..Len(told[c]) : Append(told[c], what)[i] = told[c][i]
      /\ Append(told[c], what)[Len(told[c]) + 1] = what
  BY <1>2, AppendProperties
<1> DEFINE t == Append(told[c], what)
<1>5. t \in Seq(Tellings) /\ told'[c] = t BY <1>1, <1>2, <1>4
<1> HIDE DEF t
<1>6. DOMAIN t = 1..Len(t) BY <1>5, LenProperties
<1>7. /\ told' \in [Conns -> Seq(Tellings)]
      /\ \A d \in Conns : d # c => told'[d] = told[d]
  BY <1>1, <1>2, <1>4
<1>8. UNCHANGED <<hand, said, opened, got, met, queue, peers, heard, issued,
                  pending, pool, inbox, taken>>
  BY DEF Tell, Behaviour!Emit, Behaviour!own
<1> QED BY <1>3, <1>4, <1>5, <1>6, <1>7, <1>8 DEF t

(* A query of a remote is numbered after those before it on its stream.      *)
LEMMA Asking ==
  ASSUME Types, NEW c \in Conns, RemoteAsks(c)
  PROVE  \E what \in Tellings :
           /\ Tell(c, what) /\ Asks(what)
           /\ what.id = Cardinality(AskedOn(c, what.stream)) + 1
<1>1. PICK s \in Streams(c), m \in Methods :
        Tell(c, [kind |-> "Query", stream |-> s, method |-> m,
                 id |-> Cardinality(AskedOn(c, s)) + 1])
  BY DEF RemoteAsks
<1>2. s \in Nat BY DEF Streams, Types
<1>3. Cardinality(AskedOn(c, s)) + 1 \in Nat BY AskedIs
<1> DEFINE w == [kind |-> "Query", stream |-> s, method |-> m,
                 id |-> Cardinality(AskedOn(c, s)) + 1]
<1>4. w \in Tellings BY <1>2, <1>3 DEF Tellings
<1>5. Asks(w) /\ w.id = Cardinality(AskedOn(c, w.stream)) + 1 BY DEF Asks
<1> QED BY <1>1, <1>4, <1>5

LEMMA Speaking ==
  ASSUME NEW c \in Conns, RemoteSpeaks(c)
  PROVE  \E what \in Tellings : Tell(c, what) /\ ~ Asks(what)
<1> DEFINE w == [kind |-> "News"]
<1>1. Tell(c, w) BY DEF RemoteSpeaks
<1>2. w \in Tellings BY DEF Tellings
<1>3. ~ Asks(w) BY DEF Asks
<1> QED BY <1>1, <1>2, <1>3

LEMMA InitTypes == Init => Types
<1> SUFFICES ASSUME Init PROVE Types
  OBVIOUS
<1>1. Len(said) = 0 /\ Len(issued) = 0 /\ said \in Seq(Sayings)
  BY EmptySeq DEF Init, Behaviour!Init
<1>2. told \in [Conns -> Seq(Tellings)] /\ got \in [Conns -> Seq(Nat)]
  BY EmptySeq DEF Init
<1> QED BY <1>1, <1>2 DEF Init, Types

LEMMA NextTypes ==
  Types /\ Routed!TypeOK /\ Posed /\ Handed /\ [Next]_vars => Types'
<1> SUFFICES ASSUME Types, Routed!TypeOK, Posed, Handed, [Next]_vars PROVE Types'
  OBVIOUS
<1>1. CASE UNCHANGED <<met, got, told, opened, said, issued>>
  BY <1>1 DEF Types
<1>2. CASE NextEvent BY <1>1, <1>2, Polled
<1>3. CASE OnConnection \/ OnNews
  BY <1>1, <1>3 DEF OnConnection, OnNews, behaviour, remote
<1>4. CASE OnQuery
  <2>1. CASE UNCHANGED <<behaviour, said>>
    BY <1>1, <1>4, <2>1, Answering DEF behaviour, remote
  <2>2. CASE Answers
    <3>1. UNCHANGED <<remote, got, met>> BY <1>4, Answering
    <3>2. said' \in Seq(Sayings) /\ Len(said') = Len(issued') BY <2>2, AnswerIs
    <3> QED BY <3>1, <3>2 DEF Types, remote
  <2> QED BY <1>4, <2>1, <2>2, Answering
<1>5. CASE Swarm
  BY <1>1, <1>5
  DEF Swarm, Behaviour!PollNotify, Behaviour!Closed, Behaviour!HandlerEvent, remote
<1>6. ASSUME NEW c \in Conns, NEW p \in Peers, Established(c, p) PROVE Types'
  <2>1. /\ UNCHANGED <<got, told, opened, said, issued>>
        /\ met' = [met EXCEPT ![p] = @ \cup {c}]
    BY <1>6 DEF Established, Behaviour!Established, remote
  <2> QED BY <2>1 DEF Types
<1>7. ASSUME NEW c \in Conns, Take(c) PROVE Types'
  <2>1. UNCHANGED <<met, told, opened, said, issued>>
    BY <1>7 DEF Take, Behaviour!Take, remote
  <2>2. got' \in [Conns -> Seq(Nat)]
    <3>1. inbox[c] \in Seq(Nat) /\ inbox[c] # <<>>
      BY <1>7 DEF Take, Behaviour!Take, Routed!TypeOK
    <3>2. Head(inbox[c]) \in Nat BY <3>1, HeadTailProperties
    <3>3. got[c] \in Seq(Nat) BY DEF Types
    <3>4. Append(got[c], Head(inbox[c])) \in Seq(Nat) BY <3>2, <3>3, AppendProperties
    <3> QED BY <1>7, <3>4 DEF Take, Types
  <2> QED BY <2>1, <2>2 DEF Types
<1>8. ASSUME NEW c \in Conns, RemoteOpens(c) \/ RemoteEnds(c) PROVE Types'
  <2>1. opened' = opened \/ opened' = [opened EXCEPT ![c] = @ + 1]
    BY <1>8 DEF RemoteOpens, RemoteEnds
  <2>2. opened' \in [Conns -> Nat] BY <2>1 DEF Types
  <2>3. UNCHANGED <<met, got, told, said, issued>>
    BY <1>8 DEF RemoteOpens, RemoteEnds, behaviour
  <2> QED BY <2>2, <2>3 DEF Types
<1>9. ASSUME NEW c \in Conns, RemoteSpeaks(c) \/ RemoteAsks(c) PROVE Types'
  <2>1. PICK what \in Tellings : Tell(c, what) BY <1>9, Asking, Speaking
  <2> QED BY <2>1, Telling DEF Types
<1>10. ASSUME NEW c \in Conns, End(c) PROVE Types'
  BY <1>1, <1>10 DEF End, Behaviour!End, remote
<1>11. CASE UNCHANGED vars BY <1>1, <1>11 DEF vars, behaviour, remote
<1> QED
  BY <1>2, <1>3, <1>4, <1>5, <1>6, <1>7, <1>8, <1>9, <1>10, <1>11, ServerSteps

-----------------------------------------------------------------------------
(* The queue.                                                                *)

LEMMA QueueGrows ==
  ASSUME Routed!TypeOK, NEW e \in Entries, queue' = Append(queue, e)
  PROVE  /\ ToSet(queue') = ToSet(queue) \cup {e}
         /\ DOMAIN queue' = 1..(Len(queue) + 1)
         /\ \A k \in DOMAIN queue : queue'[k] = queue[k]
         /\ queue'[Len(queue) + 1] = e
<1> HIDE DEF Entries
<1>1. queue \in Seq(Entries) /\ DOMAIN queue = 1..Len(queue) /\ Len(queue) \in Nat BY QueueIs
<1>2. /\ queue' \in Seq(Entries) /\ Len(queue') = Len(queue) + 1
      /\ \A k \in 1..Len(queue) : queue'[k] = queue[k]
      /\ queue'[Len(queue) + 1] = e
  BY <1>1, AppendProperties
<1>3. DOMAIN queue' = 1..(Len(queue) + 1) BY <1>2, LenProperties
<1>4. ASSUME NEW x PROVE x \in ToSet(queue') <=> x \in ToSet(queue) \cup {e}
  <2>1. \A k \in DOMAIN queue' : k \in DOMAIN queue \/ k = Len(queue) + 1 BY <1>1, <1>3
  <2>2. \A k \in DOMAIN queue : k \in DOMAIN queue' BY <1>1, <1>3
  <2>3. Len(queue) + 1 \in DOMAIN queue' BY <1>1, <1>3
  <2> QED BY <1>1, <1>2, <2>1, <2>2, <2>3 DEF ToSet
<1> QED BY <1>1, <1>2, <1>3, <1>4

LEMMA QueueShrinks ==
  ASSUME Routed!TypeOK, queue # <<>>, queue' = Tail(queue)
  PROVE  /\ ToSet(queue') \subseteq ToSet(queue)
         /\ DOMAIN queue' = 1..(Len(queue) - 1) /\ Len(queue) \in Nat \ {0}
         /\ \A k \in DOMAIN queue' : k + 1 \in DOMAIN queue /\ queue'[k] = queue[k + 1]
<1> HIDE DEF Entries
<1>1. queue \in Seq(Entries) /\ DOMAIN queue = 1..Len(queue) BY QueueIs
<1>2. Len(queue) \in Nat \ {0} BY <1>1, EmptySeq
<1>3. /\ queue' \in Seq(Entries) /\ Len(queue') = Len(queue) - 1
      /\ \A k \in 1..Len(queue') : queue'[k] = queue[k + 1]
  BY <1>1, HeadTailProperties
<1>4. DOMAIN queue' = 1..(Len(queue) - 1) BY <1>3, LenProperties
<1>5. \A k \in DOMAIN queue' : k + 1 \in DOMAIN queue /\ queue'[k] = queue[k + 1]
  BY <1>1, <1>2, <1>3, <1>4
<1> QED BY <1>2, <1>4, <1>5 DEF ToSet

(* What a new connection adds to the queue.                                  *)
LEMMA QueueEstablished ==
  ASSUME Routed!TypeOK, NEW c \in Conns, NEW p \in Peers, Established(c, p)
  PROVE  /\ DOMAIN queue \subseteq DOMAIN queue' /\ Len(queue) + 1 \in DOMAIN queue'
         /\ \A k \in DOMAIN queue : queue'[k] = queue[k]
         /\ \A k \in DOMAIN queue' \ DOMAIN queue :
              /\ k > Len(queue) /\ queue'[k].peer = p /\ queue'[k].conn = c
              /\ \/ queue'[k].to = "user" /\ queue'[k].event = "ConnectionEstablished"
                 \/ queue'[k].to = "handler" /\ queue'[k].cmd \in ToSet(pending[p])
         /\ queue'[Len(queue) + 1] = Routed!Generate(p, c, "ConnectionEstablished")
<1>1. Routed!Established(c, p) BY PeersRouted DEF Established
<1>2. Len(queue) \in Nat /\ DOMAIN queue = 1..Len(queue) BY QueueIs
<1>3. /\ queue' \in Seq(Routed!Entries)
      /\ Len(queue') = Len(queue) + 1 + Len(pending[p])
      /\ \A j \in 1..Len(queue) : queue'[j] = queue[j]
      /\ queue'[Len(queue) + 1] = Routed!Generate(p, c, "ConnectionEstablished")
  BY <1>1, Assumed, Routed!EstablishedQueue
<1>4. Len(pending[p]) \in Nat
  <2>1. pending[p] \in Seq(Nat) BY DEF Routed!TypeOK
  <2> QED BY <2>1, LenProperties
<1>5. DOMAIN queue' = 1..(Len(queue) + 1 + Len(pending[p]))
  <2> DEFINE E == Routed!Entries
  <2> HIDE DEF E
  <2>1. queue' \in Seq(E) BY <1>3 DEF E
  <2>2. DOMAIN queue' = 1..Len(queue') BY <2>1, LenProperties
  <2> QED BY <1>3, <2>2
<1>6. DOMAIN queue \subseteq DOMAIN queue' /\ Len(queue) + 1 \in DOMAIN queue'
  <2> DEFINE m == Len(queue)
             b == Len(pending[p])
             D == DOMAIN queue
             E == DOMAIN queue'
  <2>1. m \in Nat /\ b \in Nat /\ D = 1..m /\ E = 1..(m + 1 + b) BY <1>2, <1>4, <1>5
  <2> HIDE DEF m, b, D, E
  <2>2. D \subseteq E /\ m + 1 \in E BY <2>1
  <2> QED BY <2>2 DEF m, D, E
<1>7. ASSUME NEW k \in DOMAIN queue', k \notin DOMAIN queue
      PROVE  /\ k > Len(queue) /\ queue'[k].peer = p /\ queue'[k].conn = c
             /\ \/ queue'[k].to = "user" /\ queue'[k].event = "ConnectionEstablished"
                \/ queue'[k].to = "handler" /\ queue'[k].cmd \in ToSet(pending[p])
  <2>1. \/ queue'[k] = Routed!Generate(p, c, "ConnectionEstablished")
        \/ \E i \in DOMAIN pending[p] : queue'[k] = Routed!Notify(p, c, pending[p][i])
    BY <1>1, <1>7, Assumed, Routed!EstablishedEntry
  <2>2. k > Len(queue) BY <1>2, <1>4, <1>5, <1>7
  <2> QED BY <2>1, <2>2 DEF Routed!Generate, Routed!Notify, ToSet
<1> QED BY <1>2, <1>3, <1>6, <1>7

-----------------------------------------------------------------------------
(* Connections and peers.                                                    *)

Homes ==
  /\ \A c \in DOMAIN pool : c \in met[pool[c]]
  /\ \A p \in Peers : peers[p] # NoConn => peers[p] \in met[p]
  /\ \A e \in ToSet(queue) : e.conn \in met[e.peer]
  /\ Asks(hand) => hand.conn \in met[hand.peer]

(* The steps that leave alone what is between the swarm and the user.        *)
LEMMA TasksAlone ==
  ASSUME NEW c \in Conns,
         \/ Take(c) \/ RemoteOpens(c) \/ RemoteEnds(c)
         \/ RemoteSpeaks(c) \/ RemoteAsks(c) \/ End(c)
  PROVE  UNCHANGED <<pool, peers, queue, pending, heard, hand, met, said, issued>>
<1>1. CASE Take(c) BY <1>1 DEF Take, Behaviour!Take, Behaviour!own
<1>2. CASE RemoteOpens(c) \/ RemoteEnds(c)
  BY <1>2 DEF RemoteOpens, RemoteEnds, behaviour
<1>3. CASE RemoteSpeaks(c) \/ RemoteAsks(c)
  BY <1>3 DEF RemoteSpeaks, RemoteAsks, Tell, Behaviour!Emit, Behaviour!own
<1>4. CASE End(c) BY <1>4 DEF End, Behaviour!End, Behaviour!own
<1> QED BY <1>1, <1>2, <1>3, <1>4

(* Where the answer goes.                                                    *)
LEMMA Dispatched ==
  ASSUME Types, Routed!TypeOK, Posed, Handed, Answers
  PROVE  /\ UNCHANGED <<peers, pool, inbox, up, taken, heard, got, met, told, opened>>
         /\ \/ /\ peers[hand.peer] # NoConn /\ UNCHANGED pending
               /\ Routed!Notify(hand.peer, peers[hand.peer], Len(said) + 1) \in Entries
               /\ queue' = Append(queue, Routed!Notify(hand.peer, peers[hand.peer], Len(said) + 1))
            \/ /\ peers[hand.peer] = NoConn /\ UNCHANGED queue
               /\ pending' = [pending EXCEPT ![hand.peer] = Append(@, Len(said) + 1)]
<1>1. hand.peer \in Peers /\ Len(issued') = Len(said) + 1 /\ Len(said) \in Nat
  BY AnswerIs, SaidIs
<1>2. peers[hand.peer] \in Conns \cup {NoConn} BY <1>1 DEF Routed!TypeOK
<1>3. peers[hand.peer] # NoConn =>
        Routed!Notify(hand.peer, peers[hand.peer], Len(said) + 1) \in Entries
  BY <1>1, <1>2 DEF Routed!Notify, Entries, Routed!Notifications
<1> HIDE DEF Entries
<1>4. UNCHANGED <<peers, pool, inbox, up, taken, heard, got, met, told, opened>>
  BY DEF Answers, OnQuery, Behaviour!Dispatch, Behaviour!links, remote
<1>5. \/ /\ peers[hand.peer] # NoConn /\ UNCHANGED pending
         /\ queue' = Append(queue, Routed!Notify(hand.peer, peers[hand.peer], Len(said) + 1))
      \/ /\ peers[hand.peer] = NoConn /\ UNCHANGED queue
         /\ pending' = [pending EXCEPT ![hand.peer] = Append(@, Len(said) + 1)]
  BY <1>1 DEF Answers, Behaviour!Dispatch, Behaviour!Notify, Routed!Notify
<1> QED BY <1>3, <1>4, <1>5

(* What the swarm queues for the user.                                       *)
LEMMA Noted ==
  ASSUME Routed!TypeOK, NEW c \in Conns, Behaviour!Closed(c) \/ Behaviour!HandlerEvent(c)
  PROVE  /\ c \in DOMAIN pool /\ pool[c] \in Peers
         /\ \E event \in {"ConnectionClosed", "Stream"} :
              /\ Routed!Generate(pool[c], c, event) \in Entries
              /\ queue' = Append(queue, Routed!Generate(pool[c], c, event))
              /\ event = "Stream" =>
                   /\ peers' = [peers EXCEPT ![pool[c]] = c] /\ pool' = pool
                   /\ Head(up[c]) = "stream"
              /\ event = "ConnectionClosed" =>
                   /\ pool' = [d \in DOMAIN pool \ {c} |-> pool[d]]
                   /\ Head(up[c]) = "closed"
                   /\ peers' = IF peers[pool[c]] = c THEN [peers EXCEPT ![pool[c]] = NoConn]
                                                     ELSE peers
         /\ up[c] # <<>> /\ up' = [up EXCEPT ![c] = Tail(@)]
         /\ UNCHANGED <<pending, inbox, taken, heard, issued>>
<1>1. c \in DOMAIN pool /\ pool[c] \in Peers
  BY DEF Behaviour!Closed, Behaviour!HandlerEvent, Behaviour!Known, Routed!TypeOK
<1>2. \A event \in {"ConnectionClosed", "Stream"} : Routed!Generate(pool[c], c, event) \in Entries
  BY <1>1 DEF Routed!Generate, Entries, Routed!Happenings, Routed!Kinds
<1> HIDE DEF Entries
<1>3. CASE Behaviour!Closed(c)
  BY <1>1, <1>2, <1>3 DEF Behaviour!Closed, Behaviour!Forget, Behaviour!Generate, Routed!Generate
<1>4. CASE Behaviour!HandlerEvent(c)
  BY <1>1, <1>2, <1>4 DEF Behaviour!HandlerEvent, Behaviour!Generate, Routed!Generate
<1> QED BY <1>3, <1>4

(* What a command meets.                                                     *)
LEMMA Notified ==
  ASSUME Routed!TypeOK, Behaviour!PollNotify
  PROVE  /\ queue # <<>> /\ queue' = Tail(queue)
         /\ Head(queue) \in Entries /\ Head(queue).to = "handler"
         /\ \/ inbox' = [inbox EXCEPT ![Head(queue).conn] = Append(@, Head(queue).cmd)]
            \/ inbox' = inbox
         /\ UNCHANGED <<peers, pending, pool, up, taken, heard, issued>>
<1>1. queue # <<>> BY DEF Behaviour!PollNotify
<1>2. Head(queue) \in Entries BY <1>1, FirstIs
<1>3. Behaviour!Popped = <<Head(queue), Tail(queue)>> BY DEF Behaviour!Popped
<1> QED BY <1>1, <1>2, <1>3 DEF Behaviour!PollNotify

LEMMA NextHomes ==
  Types /\ Routed!TypeOK /\ Posed /\ Handed /\ Homes /\ [Next]_vars => Homes'
<1> SUFFICES ASSUME Types, Routed!TypeOK, Posed, Handed, Homes, [Next]_vars PROVE Homes'
  OBVIOUS
<1>0. ASSUME UNCHANGED <<pool, peers, queue, met>>,
             hand' = hand \/ hand' = Nothing \/ hand' = Panic
      PROVE  Homes'
  BY <1>0 DEF Homes, Asks, Nothing, Panic
<1> HIDE DEF Entries
<1>1. CASE NextEvent
  <2> DEFINE e == Head(queue)
  <2>1. e \in ToSet(queue) /\ ToSet(queue') \subseteq ToSet(queue)
    BY <1>1, Polled, FirstIs, QueueShrinks
  <2>2. hand' = Event(e, What(e)) /\ UNCHANGED <<pool, peers, met>> BY <1>1, Polled
  <2> HIDE DEF e
  <2>3. hand'.peer = e.peer /\ hand'.conn = e.conn BY <2>2 DEF Event
  <2> QED BY <2>1, <2>2, <2>3 DEF Homes
<1>2. CASE OnConnection \/ OnNews
  BY <1>0, <1>2 DEF OnConnection, OnNews, behaviour
<1>3. CASE OnQuery
  <2>1. CASE UNCHANGED <<behaviour, said>> BY <1>0, <1>3, <2>1, Answering DEF behaviour
  <2>2. CASE Answers
    <3>1. hand.peer \in Peers /\ ~ Asks(hand')
      BY <1>3, <2>2, Answering, AnswerIs DEF Asks, Nothing, Panic
    <3>2. UNCHANGED <<pool, peers, met>> BY <2>2, Dispatched
    <3>3. CASE UNCHANGED queue BY <3>1, <3>2, <3>3 DEF Homes
    <3>4. CASE queue' # queue
      <4> DEFINE e == Routed!Notify(hand.peer, peers[hand.peer], Len(said) + 1)
      <4>1. peers[hand.peer] # NoConn /\ e \in Entries /\ queue' = Append(queue, e)
        BY <2>2, <3>4, Dispatched
      <4>2. e.peer = hand.peer /\ e.conn = peers[hand.peer] BY DEF Routed!Notify
      <4> HIDE DEF e
      <4>3. ToSet(queue') = ToSet(queue) \cup {e} BY <4>1, QueueGrows
      <4> QED BY <3>1, <3>2, <4>1, <4>2, <4>3 DEF Homes
    <3> QED BY <3>3, <3>4
  <2> QED BY <1>3, <2>1, <2>2, Answering
<1>4. CASE Swarm
  <2>1. UNCHANGED <<hand, met>> BY <1>4 DEF Swarm
  <2>2. CASE Behaviour!PollNotify
    <3>1. UNCHANGED <<pool, peers>> /\ ToSet(queue') \subseteq ToSet(queue)
      BY <2>2, Notified, QueueShrinks
    <3> QED BY <2>1, <3>1 DEF Homes
  <2>3. ASSUME NEW c \in Conns, Behaviour!Closed(c) \/ Behaviour!HandlerEvent(c)
        PROVE  Homes'
    <3>1. PICK event \in {"ConnectionClosed", "Stream"} :
            /\ Routed!Generate(pool[c], c, event) \in Entries
            /\ queue' = Append(queue, Routed!Generate(pool[c], c, event))
            /\ event = "Stream" => peers' = [peers EXCEPT ![pool[c]] = c] /\ pool' = pool
            /\ event = "ConnectionClosed" =>
                 /\ pool' = [d \in DOMAIN pool \ {c} |-> pool[d]]
                 /\ peers' = IF peers[pool[c]] = c THEN [peers EXCEPT ![pool[c]] = NoConn]
                                                   ELSE peers
      BY <2>3, Noted
    <3>2. c \in DOMAIN pool /\ pool[c] \in Peers BY <2>3, Noted
    <3> DEFINE e == Routed!Generate(pool[c], c, event)
    <3>3. e.peer = pool[c] /\ e.conn = c BY DEF Routed!Generate
    <3>4. ToSet(queue') = ToSet(queue) \cup {e}
      <4> HIDE DEF e
      <4> QED BY <3>1, QueueGrows DEF e
    <3> HIDE DEF e
    <3>5. \A x \in ToSet(queue') : x.conn \in met'[x.peer]
      BY <2>1, <3>2, <3>3, <3>4 DEF Homes
    <3>6. \A d \in DOMAIN pool' : d \in DOMAIN pool /\ pool'[d] = pool[d] BY <3>1
    <3>7. \A p \in Peers : peers'[p] # NoConn => peers'[p] \in met[p]
      <4>1. peers \in [Peers -> Conns \cup {NoConn}] BY DEF Routed!TypeOK
      <4>2. \A p \in Peers :
              \/ peers'[p] = peers[p] \/ peers'[p] = NoConn \/ (p = pool[c] /\ peers'[p] = c)
        BY <3>1, <3>2, <4>1
      <4> QED BY <3>2, <4>2 DEF Homes
    <3> QED BY <2>1, <3>5, <3>6, <3>7 DEF Homes
  <2> QED BY <1>4, <2>2, <2>3 DEF Swarm
<1>5. ASSUME NEW c \in Conns, NEW p \in Peers, Established(c, p) PROVE Homes'
  <2>1. /\ UNCHANGED hand /\ met' = [met EXCEPT ![p] = @ \cup {c}]
        /\ peers' = [peers EXCEPT ![p] = c]
        /\ pool' = [d \in DOMAIN pool \cup {c} |-> IF d = c THEN p ELSE pool[d]]
    BY <1>5 DEF Established, Behaviour!Established
  <2>2. met \in [Peers -> SUBSET Conns] /\ peers \in [Peers -> Conns \cup {NoConn}]
        /\ \A d \in DOMAIN pool : pool[d] \in Peers
    BY DEF Types, Routed!TypeOK
  <2>3. c \in met'[p] /\ \A q \in Peers : met[q] \subseteq met'[q] BY <2>1, <2>2
  <2>4. ASSUME NEW x \in ToSet(queue') PROVE x.conn \in met'[x.peer]
    <3>1. PICK k \in DOMAIN queue' : x = queue'[k] BY DEF ToSet
    <3>2. CASE k \in DOMAIN queue
      <4>1. x = queue[k] BY <1>5, <3>1, <3>2, QueueEstablished
      <4>2. x \in ToSet(queue) BY <3>2, <4>1 DEF ToSet
      <4>3. x.peer \in Peers BY <4>2, QueueIs, EntryIs
      <4> QED BY <2>3, <4>2, <4>3 DEF Homes
    <3>3. CASE k \notin DOMAIN queue
      <4>1. x.peer = p /\ x.conn = c BY <1>5, <3>1, <3>3, QueueEstablished
      <4> QED BY <2>3, <4>1
    <3> QED BY <3>2, <3>3
  <2>5. \A d \in DOMAIN pool' : d \in met'[pool'[d]] BY <2>1, <2>2, <2>3 DEF Homes
  <2>6. \A q \in Peers : peers'[q] # NoConn => peers'[q] \in met'[q]
    BY <2>1, <2>2, <2>3 DEF Homes
  <2>7. Asks(hand) => hand.conn \in met'[hand.peer] BY <2>3 DEF Homes, Posed
  <2> QED BY <2>1, <2>4, <2>5, <2>6, <2>7 DEF Homes
<1>6. ASSUME NEW c \in Conns, \/ Take(c) \/ RemoteOpens(c) \/ RemoteEnds(c)
                              \/ RemoteSpeaks(c) \/ RemoteAsks(c) \/ End(c)
      PROVE  Homes'
  BY <1>0, <1>6, TasksAlone
<1>7. CASE UNCHANGED vars BY <1>0, <1>7 DEF vars, behaviour
<1> QED BY <1>1, <1>2, <1>3, <1>4, <1>5, <1>6, <1>7, ServerSteps

-----------------------------------------------------------------------------
(* `peers` follows the events of streams: what the user has not heard yet is *)
(* all that can make it name another connection.                             *)

Overtakes(e, p, c) ==
  e.to = "user" /\ e.peer = p /\ (e.conn # c \/ e.event = "ConnectionClosed")

OfStream(e) == e.to = "user" /\ e.event = "Stream"

Fresh ==
  \A k \in DOMAIN queue : OfStream(queue[k]) =>
    \/ peers[queue[k].peer] = queue[k].conn
    \/ \E j \in DOMAIN queue : j > k /\ Overtakes(queue[j], queue[k].peer, queue[k].conn)

Current ==
  Asks(hand) => peers[hand.peer] = hand.conn \/ Overtaken(hand.peer, hand.conn)

LEMMA OvertakenIs ==
  ASSUME NEW p, NEW c
  PROVE  Overtaken(p, c) <=> \E j \in DOMAIN queue : Overtakes(queue[j], p, c)
BY DEF Overtaken, Overtakes

LEMMA FreshAppended ==
  ASSUME Routed!TypeOK, Homes, Fresh,
         \A k \in DOMAIN queue : k \in DOMAIN queue' /\ queue'[k] = queue[k],
         \A k \in DOMAIN queue' \ DOMAIN queue :
           /\ k \in Int /\ k > Len(queue)
           /\ OfStream(queue'[k]) => peers'[queue'[k].peer] = queue'[k].conn,
         \A p \in Peers : \A c \in met[p] :
           \/ peers'[p] = peers[p] \/ peers'[p] = c
           \/ \E j \in DOMAIN queue' \ DOMAIN queue : Overtakes(queue'[j], p, c)
  PROVE  Fresh'
<1> DEFINE E == Entries
<1> HIDE DEF E, Entries
<1>1. DOMAIN queue = 1..Len(queue) /\ Len(queue) \in Nat BY QueueIs
<1> SUFFICES ASSUME NEW k \in DOMAIN queue', OfStream(queue'[k])
             PROVE  \/ peers'[queue'[k].peer] = queue'[k].conn
                    \/ \E j \in DOMAIN queue' :
                         j > k /\ Overtakes(queue'[j], queue'[k].peer, queue'[k].conn)
  BY DEF Fresh
<1>2. CASE k \notin DOMAIN queue BY <1>2
<1>3. CASE k \in DOMAIN queue
  <2> DEFINE p == queue[k].peer
             c == queue[k].conn
  <2>1. queue'[k] = queue[k] BY <1>3
  <2>2. p \in Peers /\ c \in met[p]
    <3>1. queue[k] \in ToSet(queue) BY <1>3 DEF ToSet
    <3> QED BY <3>1, QueueIs, EntryIs DEF Homes
  <2>3. peers[p] = c \/ \E j \in DOMAIN queue : j > k /\ Overtakes(queue[j], p, c)
    BY <1>3, <2>1 DEF Fresh
  <2> HIDE DEF p, c
  <2>4. CASE \E j \in DOMAIN queue : j > k /\ Overtakes(queue[j], p, c)
    BY <2>1, <2>4 DEF p, c
  <2>5. CASE peers[p] = c
    <3>1. CASE peers'[p] = c BY <2>1, <3>1 DEF p, c
    <3>2. CASE \E j \in DOMAIN queue' \ DOMAIN queue : Overtakes(queue'[j], p, c)
      <4>1. PICK j \in DOMAIN queue' \ DOMAIN queue : Overtakes(queue'[j], p, c) BY <3>2
      <4>2. j > k BY <1>1, <1>3, <4>1
      <4> QED BY <2>1, <4>1, <4>2 DEF p, c
    <3> QED BY <2>2, <2>5, <3>1, <3>2
  <2> QED BY <2>3, <2>4, <2>5
<1> QED BY <1>2, <1>3

LEMMA FreshPopped ==
  ASSUME Routed!TypeOK, Fresh, queue # <<>>, queue' = Tail(queue), peers' = peers
  PROVE  /\ Fresh'
         /\ LET e == Head(queue)
            IN  OfStream(e) =>
                  \/ peers'[e.peer] = e.conn
                  \/ \E j \in DOMAIN queue' : Overtakes(queue'[j], e.peer, e.conn)
<1> HIDE DEF Entries
<1>1. /\ DOMAIN queue = 1..Len(queue) /\ Len(queue) \in Nat
      /\ DOMAIN queue' = 1..(Len(queue) - 1) /\ 1 \in DOMAIN queue
      /\ \A k \in DOMAIN queue' : k + 1 \in DOMAIN queue /\ queue'[k] = queue[k + 1]
      /\ Head(queue) = queue[1]
  BY QueueIs, QueueShrinks, FirstIs
<1>2. ASSUME NEW k \in DOMAIN queue, OfStream(queue[k])
      PROVE  \/ peers'[queue[k].peer] = queue[k].conn
             \/ \E j \in DOMAIN queue' :
                  j > k - 1 /\ Overtakes(queue'[j], queue[k].peer, queue[k].conn)
  <2>1. CASE peers[queue[k].peer] = queue[k].conn BY <2>1
  <2>2. CASE peers[queue[k].peer] # queue[k].conn
    <3>1. PICK j \in DOMAIN queue :
            j > k /\ Overtakes(queue[j], queue[k].peer, queue[k].conn)
      BY <1>2, <2>2 DEF Fresh
    <3>2. j - 1 \in DOMAIN queue' /\ j - 1 > k - 1 /\ (j - 1) + 1 = j BY <1>1, <3>1
    <3>3. queue'[j - 1] = queue[j] BY <1>1, <3>2
    <3> QED BY <3>1, <3>2, <3>3
  <2> QED BY <2>1, <2>2
<1>3. Fresh'
  <2> SUFFICES ASSUME NEW k \in DOMAIN queue', OfStream(queue'[k])
               PROVE  \/ peers'[queue'[k].peer] = queue'[k].conn
                      \/ \E j \in DOMAIN queue' :
                           j > k /\ Overtakes(queue'[j], queue'[k].peer, queue'[k].conn)
    BY DEF Fresh
  <2>1. k + 1 \in DOMAIN queue /\ queue'[k] = queue[k + 1] /\ (k + 1) - 1 = k BY <1>1
  <2> QED BY <1>2, <2>1
<1> QED BY <1>1, <1>2, <1>3

(* A connection that is established is none the peers had.                   *)
LEMMA NewConnection ==
  ASSUME Types, NEW c \in Conns, NEW p \in Peers, Established(c, p), NEW q \in Peers
  PROVE  c \notin met[q]
<1>1. UNION Range(met) = 1..(c - 1) BY DEF Established
<1>2. met[q] \subseteq UNION Range(met) BY DEF Types, Range
<1>3. met[q] \subseteq 1..(c - 1) BY <1>1, <1>2
<1>4. c \in Nat /\ c \notin 1..(c - 1) BY RpcServerAssumption
<1> QED BY <1>3, <1>4

LEMMA HandKind ==
  ASSUME Routed!TypeOK, NextEvent, Asks(hand')
  PROVE  OfStream(Head(queue))
<1> DEFINE e == Head(queue)
<1>1. e \in Entries /\ e.to = "user" /\ hand' = Event(e, What(e)) BY Polled
<1> HIDE DEF e
<1>2. CASE e.event # "Stream"
  <2>1. hand' = Event(e, [kind |-> e.event]) BY <1>1, <1>2 DEF What
  <2>2. hand'.kind = e.event BY <2>1 DEF Event
  <2> QED BY <1>1, <2>2, EntryIs DEF Asks
<1> QED BY <1>1, <1>2 DEF OfStream, e

LEMMA NextFresh ==
  /\ Types /\ Routed!TypeOK /\ Posed /\ Handed /\ Homes /\ Fresh /\ Current /\ [Next]_vars
  => Fresh' /\ Current'
<1> SUFFICES ASSUME Types, Routed!TypeOK, Posed, Handed, Homes, Fresh, Current, [Next]_vars
             PROVE  Fresh' /\ Current'
  OBVIOUS
<1> HIDE DEF Entries
<1>0. /\ UNCHANGED <<queue, peers>> => Fresh'
      /\ UNCHANGED <<queue, peers, hand>> => Current'
      /\ ~ Asks(hand') => Current'
      /\ ~ Asks(Nothing) /\ ~ Asks(Panic)
  BY DEF Fresh, Current, Overtaken, Asks, Nothing, Panic
<1>1. CASE NextEvent
  <2> DEFINE e == Head(queue)
  <2>1. queue # <<>> /\ queue' = Tail(queue) /\ peers' = peers /\ hand' = Event(e, What(e))
    BY <1>1, Polled
  <2>2. /\ Fresh'
        /\ OfStream(e) => \/ peers'[e.peer] = e.conn
                          \/ \E j \in DOMAIN queue' : Overtakes(queue'[j], e.peer, e.conn)
    BY <2>1, FreshPopped
  <2>3. Asks(hand') => OfStream(e) BY <1>1, HandKind
  <2> HIDE DEF e
  <2>4. hand'.peer = e.peer /\ hand'.conn = e.conn BY <2>1 DEF Event
  <2> QED BY <2>2, <2>3, <2>4 DEF Current, Overtaken, Overtakes
<1>2. CASE OnConnection \/ OnNews
  BY <1>0, <1>2 DEF OnConnection, OnNews, behaviour
<1>3. CASE OnQuery
  <2>1. ~ Asks(hand') BY <1>0, <1>3, Answering
  <2>2. CASE UNCHANGED <<queue, peers>> BY <1>0, <2>1, <2>2
  <2>3. CASE ~ UNCHANGED <<queue, peers>>
    <3> DEFINE e == Routed!Notify(hand.peer, peers[hand.peer], Len(said) + 1)
    <3>1. Answers BY <1>3, <2>3, Answering DEF behaviour
    <3>2. peers' = peers /\ e \in Entries /\ queue' = Append(queue, e)
      BY <2>3, <3>1, Dispatched
    <3>3. ~ OfStream(e) BY DEF Routed!Notify, OfStream
    <3> HIDE DEF e
    <3>4. /\ DOMAIN queue' = 1..(Len(queue) + 1) /\ queue'[Len(queue) + 1] = e
          /\ \A k \in DOMAIN queue : queue'[k] = queue[k]
          /\ DOMAIN queue = 1..Len(queue) /\ Len(queue) \in Nat
      BY <3>2, QueueGrows, QueueIs
    <3>5. \A k \in DOMAIN queue' \ DOMAIN queue : k = Len(queue) + 1 /\ k \in Int /\ k > Len(queue)
      BY <3>4
    <3>6. \A k \in DOMAIN queue : k \in DOMAIN queue' BY <3>4
    <3>7. Fresh' BY <3>2, <3>3, <3>4, <3>5, <3>6, FreshAppended
    <3> QED BY <1>0, <2>1, <3>7
  <2> QED BY <2>2, <2>3
<1>4. CASE Swarm
  <2>1. ~ Asks(hand')
    <3>1. hand = Nothing /\ hand' = hand BY <1>4 DEF Swarm, Polling
    <3> QED BY <1>0, <3>1
  <2>2. CASE Behaviour!PollNotify
    <3>1. queue # <<>> /\ queue' = Tail(queue) /\ peers' = peers BY <2>2, Notified
    <3>2. Fresh' BY <3>1, FreshPopped
    <3> QED BY <1>0, <2>1, <3>2
  <2>3. ASSUME NEW c \in Conns, Behaviour!Closed(c) \/ Behaviour!HandlerEvent(c)
        PROVE  Fresh' /\ Current'
    <3>1. PICK event \in {"ConnectionClosed", "Stream"} :
            /\ Routed!Generate(pool[c], c, event) \in Entries
            /\ queue' = Append(queue, Routed!Generate(pool[c], c, event))
            /\ event = "Stream" => peers' = [peers EXCEPT ![pool[c]] = c]
            /\ event = "ConnectionClosed" =>
                 peers' = IF peers[pool[c]] = c THEN [peers EXCEPT ![pool[c]] = NoConn]
                                                ELSE peers
      BY <2>3, Noted
    <3> DEFINE e == Routed!Generate(pool[c], c, event)
    <3>2. /\ pool[c] \in Peers /\ peers \in [Peers -> Conns \cup {NoConn}]
      BY <2>3, Noted DEF Routed!TypeOK
    <3>3. e.to = "user" /\ e.peer = pool[c] /\ e.conn = c /\ e.event = event
      BY DEF Routed!Generate
    <3>4. e \in Entries /\ queue' = Append(queue, e) BY <3>1
    <3> HIDE DEF e
    <3>5. /\ DOMAIN queue' = 1..(Len(queue) + 1) /\ queue'[Len(queue) + 1] = e
          /\ \A k \in DOMAIN queue : queue'[k] = queue[k]
          /\ DOMAIN queue = 1..Len(queue) /\ Len(queue) \in Nat
      BY <3>4, QueueGrows, QueueIs
    <3>6. \A k \in DOMAIN queue' \ DOMAIN queue : k = Len(queue) + 1 /\ k \in Int /\ k > Len(queue)
      BY <3>5
    <3>7. /\ \A k \in DOMAIN queue : k \in DOMAIN queue'
          /\ Len(queue) + 1 \in DOMAIN queue' \ DOMAIN queue
      BY <3>5
    <3>8. OfStream(e) => peers'[e.peer] = e.conn BY <3>1, <3>2, <3>3 DEF OfStream
    <3>9. ASSUME NEW p \in Peers, NEW d \in met[p]
          PROVE  \/ peers'[p] = peers[p] \/ peers'[p] = d \/ Overtakes(e, p, d)
      <4>1. CASE p # pool[c] BY <3>1, <3>2, <4>1
      <4>2. CASE p = pool[c] /\ event = "Stream"
        <5>1. peers'[p] = c BY <3>1, <3>2, <4>2
        <5> QED BY <3>3, <4>2, <5>1 DEF Overtakes
      <4>3. CASE p = pool[c] /\ event = "ConnectionClosed" BY <3>3, <4>3 DEF Overtakes
      <4> QED BY <4>1, <4>2, <4>3
    <3>10. Fresh' BY <3>5, <3>6, <3>7, <3>8, <3>9, FreshAppended
    <3> QED BY <1>0, <2>1, <3>10
  <2> QED BY <1>4, <2>2, <2>3 DEF Swarm
<1>5. ASSUME NEW c \in Conns, NEW p \in Peers, Established(c, p) PROVE Fresh' /\ Current'
  <2>1. ~ Asks(hand')
    <3>1. hand = Nothing /\ hand' = hand BY <1>5 DEF Established, Polling
    <3> QED BY <1>0, <3>1
  <2>2. /\ DOMAIN queue \subseteq DOMAIN queue' /\ Len(queue) + 1 \in DOMAIN queue'
        /\ \A k \in DOMAIN queue : queue'[k] = queue[k]
        /\ \A k \in DOMAIN queue' \ DOMAIN queue : k > Len(queue) /\ ~ OfStream(queue'[k])
        /\ queue'[Len(queue) + 1] = Routed!Generate(p, c, "ConnectionEstablished")
    BY <1>5, QueueEstablished DEF OfStream
  <2>3. Len(queue) \in Nat /\ DOMAIN queue = 1..Len(queue) BY QueueIs
  <2>4. Len(queue) + 1 \in DOMAIN queue' \ DOMAIN queue BY <2>2, <2>3
  <2>5. peers' = [peers EXCEPT ![p] = c] BY <1>5 DEF Established, Behaviour!Established
  <2>6. peers \in [Peers -> Conns \cup {NoConn}] BY DEF Routed!TypeOK
  <2>7. ASSUME NEW q \in Peers, NEW d \in met[q]
        PROVE  peers'[q] = peers[q] \/ Overtakes(queue'[Len(queue) + 1], q, d)
    <3>1. CASE q # p BY <2>5, <2>6, <3>1
    <3>2. CASE q = p
      <4>1. d # c BY <1>5, NewConnection
      <4> QED BY <2>2, <3>2, <4>1 DEF Overtakes, Routed!Generate
    <3> QED BY <3>1, <3>2
  <2>8. \A k \in DOMAIN queue' : k \in Int
    <3>1. Routed!TypeOK'
      BY <1>5, PeersRouted, Assumed, Routed!NextTypeOK DEF Established, Routed!Next
    <3>2. queue' \in Seq(Entries) BY <3>1 DEF Routed!TypeOK, Entries
    <3>3. DOMAIN queue' = 1..Len(queue') BY <3>2, LenProperties
    <3> QED BY <3>3
  <2>9. Fresh' BY <2>2, <2>4, <2>7, <2>8, FreshAppended
  <2> QED BY <1>0, <2>1, <2>9
<1>6. ASSUME NEW c \in Conns, \/ Take(c) \/ RemoteOpens(c) \/ RemoteEnds(c)
                              \/ RemoteSpeaks(c) \/ RemoteAsks(c) \/ End(c)
      PROVE  Fresh' /\ Current'
  BY <1>0, <1>6, TasksAlone
<1>7. CASE UNCHANGED vars BY <1>0, <1>7 DEF vars, behaviour
<1> QED BY <1>1, <1>2, <1>3, <1>4, <1>5, <1>6, <1>7, ServerSteps

-----------------------------------------------------------------------------
(* Where the answers go: an answer that is not late goes, or waits to go, to *)
(* the connection of its query.                                              *)

Sent(n, c) ==
  n \in DOMAIN said /\ c \in met[issued[n]] /\ (said[n].conn = c \/ said[n].late)

Addressed ==
  /\ \A n \in DOMAIN said : said[n].conn \in met[issued[n]]
  /\ \A e \in ToSet(queue) : e.to = "handler" => Sent(e.cmd, e.conn)
  /\ \A c \in Conns : \A n \in ToSet(inbox[c]) \cup ToSet(got[c]) : Sent(n, c)
  /\ \A p \in Peers : \A n \in ToSet(pending[p]) :
       n \in DOMAIN said /\ issued[n] = p /\ said[n].late

LEMMA SentStays ==
  ASSUME Types, Routed!TypeOK, Grows, NEW c, NEW n, Sent(n, c)
  PROVE  Sent(n, c)'
<1>1. n \in DOMAIN said' /\ said'[n] = said[n] /\ issued'[n] = issued[n] /\ issued[n] \in Peers
  BY SaidIs DEF Sent, Grows
<1> QED BY <1>1 DEF Sent, Grows

LEMMA Members ==
  ASSUME NEW S, NEW s \in Seq(S)
  PROVE  /\ \A x \in S : ToSet(Append(s, x)) = ToSet(s) \cup {x}
         /\ s # <<>> => Head(s) \in ToSet(s) /\ ToSet(Tail(s)) \subseteq ToSet(s)
<1>1. Len(s) \in Nat /\ DOMAIN s = 1..Len(s) BY LenProperties
<1>2. ASSUME NEW x \in S PROVE ToSet(Append(s, x)) = ToSet(s) \cup {x}
  <2> DEFINE a == Append(s, x)
  <2>1. /\ a \in Seq(S) /\ Len(a) = Len(s) + 1 /\ a[Len(s) + 1] = x
        /\ \A i \in 1..Len(s) : a[i] = s[i]
    BY AppendProperties
  <2> HIDE DEF a
  <2>2. DOMAIN a = 1..(Len(s) + 1) BY <2>1, LenProperties
  <2>3. ASSUME NEW y PROVE y \in ToSet(a) <=> y \in ToSet(s) \cup {x}
    <3>1. \A i \in DOMAIN a : i \in DOMAIN s \/ i = Len(s) + 1 BY <1>1, <2>2
    <3>2. Len(s) + 1 \in DOMAIN a /\ \A i \in DOMAIN s : i \in DOMAIN a BY <1>1, <2>2
    <3> QED BY <1>1, <2>1, <3>1, <3>2 DEF ToSet
  <2> QED BY <2>3 DEF a
<1>3. ASSUME s # <<>> PROVE Head(s) \in ToSet(s) /\ ToSet(Tail(s)) \subseteq ToSet(s)
  <2> DEFINE t == Tail(s)
  <2>1. /\ t \in Seq(S) /\ Len(t) = Len(s) - 1 /\ Head(s) = s[1]
        /\ \A i \in 1..Len(t) : t[i] = s[i + 1]
    BY <1>3, HeadTailProperties
  <2>2. Len(s) \in Nat \ {0} BY <1>3, EmptySeq
  <2> HIDE DEF t
  <2>3. DOMAIN t = 1..(Len(s) - 1) BY <2>1, LenProperties
  <2>4. \A i \in DOMAIN t : i + 1 \in DOMAIN s /\ t[i] = s[i + 1] BY <1>1, <2>1, <2>2, <2>3
  <2>5. 1 \in DOMAIN s BY <1>1, <2>2
  <2> QED BY <2>1, <2>4, <2>5 DEF ToSet, t
<1> QED BY <1>2, <1>3

(* The parts of Addressed that grow with no new command.                     *)
LEMMA AddressedStays ==
  ASSUME Types, Routed!TypeOK, Grows, Addressed, UNCHANGED <<said, issued>>,
         \A e \in ToSet(queue') : e \in ToSet(queue) \/ e.to = "user",
         \A c \in Conns : \A n \in ToSet(inbox'[c]) \cup ToSet(got'[c]) : Sent(n, c),
         \A p \in Peers : ToSet(pending'[p]) \subseteq ToSet(pending[p])
  PROVE  Addressed'
<1>1. \A n \in DOMAIN said' : said'[n].conn \in met'[issued'[n]]
  BY SaidIs DEF Addressed, Grows
<1>2. \A c, n : Sent(n, c) => Sent(n, c)' BY SentStays
<1>3. \A e \in ToSet(queue') : e.to = "handler" => Sent(e.cmd, e.conn)'
  BY <1>2 DEF Addressed
<1>4. \A c \in Conns : \A n \in ToSet(inbox'[c]) \cup ToSet(got'[c]) : Sent(n, c)' BY <1>2
<1>5. \A p \in Peers : \A n \in ToSet(pending'[p]) :
        n \in DOMAIN said' /\ issued'[n] = p /\ said'[n].late
  BY DEF Addressed
<1> QED BY <1>1, <1>3, <1>4, <1>5 DEF Addressed

LEMMA NextAddressed ==
  /\ Types /\ Routed!TypeOK /\ Posed /\ Handed /\ Homes /\ Current /\ Addressed /\ [Next]_vars
  => Addressed'
<1> SUFFICES ASSUME Types, Routed!TypeOK, Posed, Handed, Homes, Current, Addressed, [Next]_vars
             PROVE  Addressed'
  OBVIOUS
<1> HIDE DEF Entries
<1>0. Grows BY NextGrows
<1>1. \A c \in Conns : \A n \in ToSet(inbox[c]) \cup ToSet(got[c]) : Sent(n, c)
  BY DEF Addressed
<1>2. /\ inbox \in [Conns -> Seq(Nat)] /\ got \in [Conns -> Seq(Nat)]
      /\ pending \in [Peers -> Seq(Nat)]
  BY DEF Types, Routed!TypeOK
<1>3. ASSUME UNCHANGED <<said, issued, inbox, got, pending>>,
             \A e \in ToSet(queue') : e \in ToSet(queue) \/ e.to = "user"
      PROVE  Addressed'
  BY <1>0, <1>1, <1>3, AddressedStays
<1>4. CASE NextEvent
  <2>1. UNCHANGED <<said, issued, inbox, got, pending>> /\ ToSet(queue') \subseteq ToSet(queue)
    BY <1>4, Polled, QueueShrinks
  <2> QED BY <1>3, <2>1
<1>5. CASE OnConnection \/ OnNews
  BY <1>3, <1>5 DEF OnConnection, OnNews, behaviour
<1>6. CASE OnQuery
  <2>1. CASE UNCHANGED <<behaviour, said>>
    <3>1. UNCHANGED <<said, issued, inbox, got, pending, queue>>
      BY <1>6, <2>1, Answering DEF behaviour
    <3> QED BY <1>3, <3>1
  <2>2. CASE Answers
    <3> DEFINE n == Len(said) + 1
               p == hand.peer
    <3>1. /\ UNCHANGED <<inbox, got, met>> /\ p \in Peers /\ Asks(hand)
          /\ n \in DOMAIN said' /\ said'[n] = Answer /\ issued'[n] = p
          /\ DOMAIN said' = 1..n /\ DOMAIN said = 1..(n - 1) /\ n \in Nat
      <4>1. n \in Nat /\ DOMAIN said = 1..Len(said) /\ Len(said) = n - 1 BY SaidIs
      <4>2. DOMAIN said' = 1..n /\ said'[n] = Answer /\ issued'[n] = p /\ p \in Peers
        BY <2>2, AnswerIs
      <4>3. n \in 1..n BY <4>1
      <4> QED BY <1>6, <2>2, <4>1, <4>2, <4>3, Answering, Dispatched
    <3>2. /\ Answer.conn = hand.conn /\ hand.conn \in met[p]
          /\ Answer.late = Overtaken(p, hand.conn) /\ hand.conn \in Conns
      BY <3>1 DEF Answer, Homes, Posed
    <3>3. peers[p] = hand.conn \/ Answer.late BY <3>1, <3>2 DEF Current
    <3>4. \A m \in DOMAIN said' : said'[m].conn \in met'[issued'[m]]
      <4> SUFFICES ASSUME NEW m \in DOMAIN said' PROVE said'[m].conn \in met[issued'[m]]
        BY <3>1
      <4>1. CASE m = n BY <3>1, <3>2, <4>1
      <4>2. CASE m # n
        <5>1. m \in DOMAIN said BY <3>1, <4>2
        <5> QED BY <1>0, <5>1 DEF Addressed, Grows
      <4> QED BY <4>1, <4>2
    <3>5. \A c, m : Sent(m, c) => Sent(m, c)' BY <1>0, SentStays
    <3>6. \A c \in Conns : \A m \in ToSet(inbox'[c]) \cup ToSet(got'[c]) : Sent(m, c)'
      BY <1>1, <3>1, <3>5
    <3>7. \A q \in Peers : \A m \in ToSet(pending[q]) :
            m \in DOMAIN said' /\ issued'[m] = q /\ said'[m].late
      BY <1>0 DEF Addressed, Grows
    <3>8. \A x \in ToSet(queue) : x.to = "handler" => Sent(x.cmd, x.conn)'
      BY <3>5 DEF Addressed
    <3> HIDE DEF n, p
    <3>9. CASE peers[p] # NoConn
      <4> DEFINE q == peers[p]
                 e == Routed!Notify(p, q, n)
      <4>1. UNCHANGED pending /\ e \in Entries /\ queue' = Append(queue, e)
        BY <2>2, <3>9, Dispatched DEF n, p
      <4>2. e.conn = q /\ e.cmd = n BY DEF Routed!Notify
      <4> HIDE DEF e
      <4>3. ToSet(queue') = ToSet(queue) \cup {e} BY <4>1, QueueGrows
      <4>4. /\ n \in DOMAIN said' /\ q \in met'[issued'[n]]
            /\ said'[n].conn = q \/ said'[n].late
        <5>1. q \in met[p] BY <3>1, <3>9 DEF Homes
        <5> QED BY <3>1, <3>2, <3>3, <5>1
      <4> HIDE DEF q
      <4>5. \A x \in ToSet(queue') :
              x.to = "handler" => /\ x.cmd \in DOMAIN said' /\ x.conn \in met'[issued'[x.cmd]]
                                  /\ said'[x.cmd].conn = x.conn \/ said'[x.cmd].late
        BY <3>8, <4>2, <4>3, <4>4 DEF Sent
      <4>6. \A x \in ToSet(queue') : x.to = "handler" => Sent(x.cmd, x.conn)'
        BY <4>5 DEF Sent
      <4> QED BY <3>4, <3>6, <3>7, <4>1, <4>6 DEF Addressed
    <3>10. CASE peers[p] = NoConn
      <4>1. UNCHANGED queue /\ pending' = [pending EXCEPT ![p] = Append(@, n)]
        BY <2>2, <3>10, Dispatched DEF n, p
      <4>2. said'[n].late
        <5>1. hand.conn # NoConn BY <3>2, RpcServerAssumption
        <5> QED BY <3>1, <3>3, <3>10, <5>1
      <4>3. \A q \in Peers : ToSet(pending'[q])
              \subseteq ToSet(pending[q]) \cup (IF q = p THEN {n} ELSE {})
        <5>1. ToSet(Append(pending[p], n)) = ToSet(pending[p]) \cup {n}
          BY <1>2, <3>1, Members
        <5> QED BY <1>2, <3>1, <4>1, <5>1
      <4>4. \A q \in Peers : \A m \in ToSet(pending'[q]) :
              m \in DOMAIN said' /\ issued'[m] = q /\ said'[m].late
        BY <3>1, <3>7, <4>2, <4>3
      <4>5. \A x \in ToSet(queue') : x.to = "handler" => Sent(x.cmd, x.conn)'
        BY <3>8, <4>1
      <4> QED BY <3>4, <3>6, <4>4, <4>5 DEF Addressed
    <3> QED BY <3>9, <3>10
  <2> QED BY <1>6, <2>1, <2>2, Answering
<1>7. CASE Swarm
  <2>1. UNCHANGED <<said, got>> BY <1>7 DEF Swarm
  <2>2. CASE Behaviour!PollNotify
    <3> DEFINE e == Head(queue)
    <3>1. /\ e \in ToSet(queue) /\ ToSet(queue') \subseteq ToSet(queue)
          /\ e \in Entries /\ e.to = "handler" /\ UNCHANGED <<issued, pending>>
          /\ inbox' = [inbox EXCEPT ![e.conn] = Append(@, e.cmd)] \/ inbox' = inbox
      BY <2>2, Notified, FirstIs, QueueShrinks
    <3> HIDE DEF e
    <3>2. Sent(e.cmd, e.conn) /\ e.conn \in Conns /\ e.cmd \in Nat
      BY <3>1, EntryIs DEF Addressed
    <3>3. \A c \in Conns : ToSet(inbox'[c])
            \subseteq ToSet(inbox[c]) \cup (IF c = e.conn THEN {e.cmd} ELSE {})
      <4>1. ToSet(Append(inbox[e.conn], e.cmd)) = ToSet(inbox[e.conn]) \cup {e.cmd}
        BY <1>2, <3>2, Members
      <4> QED BY <1>2, <3>1, <3>2, <4>1
    <3>4. \A c \in Conns : \A n \in ToSet(inbox'[c]) \cup ToSet(got'[c]) : Sent(n, c)
      BY <1>1, <2>1, <3>2, <3>3
    <3> QED BY <1>0, <2>1, <3>1, <3>4, AddressedStays
  <2>3. ASSUME NEW c \in Conns, Behaviour!Closed(c) \/ Behaviour!HandlerEvent(c)
        PROVE  Addressed'
    <3>1. PICK event \in {"ConnectionClosed", "Stream"} :
            /\ Routed!Generate(pool[c], c, event) \in Entries
            /\ queue' = Append(queue, Routed!Generate(pool[c], c, event))
      BY <2>3, Noted
    <3> DEFINE e == Routed!Generate(pool[c], c, event)
    <3>2. e \in Entries /\ queue' = Append(queue, e) /\ e.to = "user"
      BY <3>1 DEF Routed!Generate
    <3> HIDE DEF e
    <3>3. ToSet(queue') = ToSet(queue) \cup {e} BY <3>2, QueueGrows
    <3>4. UNCHANGED <<said, issued, inbox, got, pending>> BY <2>1, <2>3, Noted
    <3> QED BY <1>3, <3>2, <3>3, <3>4
  <2> QED BY <1>7, <2>2, <2>3 DEF Swarm
<1>8. ASSUME NEW c \in Conns, NEW p \in Peers, Established(c, p) PROVE Addressed'
  <2>1. /\ UNCHANGED <<said, issued, inbox, got>> /\ pending' = [pending EXCEPT ![p] = <<>>]
        /\ met' = [met EXCEPT ![p] = @ \cup {c}]
    BY <1>8 DEF Established, Behaviour!Established, Behaviour!Flush, Behaviour!links
  <2>2. c \in met'[p] BY <2>1 DEF Types
  <2>3. \A d, n : Sent(n, d) => Sent(n, d)' BY <1>0, SentStays
  <2>4. ASSUME NEW x \in ToSet(queue'), x.to = "handler" PROVE Sent(x.cmd, x.conn)'
    <3>1. PICK k \in DOMAIN queue' : x = queue'[k] BY DEF ToSet
    <3>2. CASE k \in DOMAIN queue
      <4>1. x = queue[k] BY <1>8, <3>1, <3>2, QueueEstablished
      <4>2. x \in ToSet(queue) BY <3>2, <4>1 DEF ToSet
      <4> QED BY <2>3, <2>4, <4>2 DEF Addressed
    <3>3. CASE k \notin DOMAIN queue
      <4>1. x.conn = c /\ x.cmd \in ToSet(pending[p])
        BY <1>8, <2>4, <3>1, <3>3, QueueEstablished
      <4>2. x.cmd \in DOMAIN said /\ issued[x.cmd] = p /\ said[x.cmd].late
        BY <4>1 DEF Addressed
      <4> QED BY <2>1, <2>2, <4>1, <4>2 DEF Sent
    <3> QED BY <3>2, <3>3
  <2>5. \A n \in DOMAIN said' : said'[n].conn \in met'[issued'[n]]
    BY <1>0, <2>1, SaidIs DEF Addressed, Grows
  <2>6. \A d \in Conns : \A n \in ToSet(inbox'[d]) \cup ToSet(got'[d]) : Sent(n, d)'
    BY <1>1, <2>1, <2>3
  <2>7. \A q \in Peers : \A n \in ToSet(pending'[q]) :
          n \in DOMAIN said' /\ issued'[n] = q /\ said'[n].late
    <3>1. ToSet(<<>>) = {} BY DEF ToSet
    <3>2. \A q \in Peers : q # p => pending'[q] = pending[q] BY <1>2, <2>1
    <3>3. pending'[p] = <<>> BY <1>2, <2>1
    <3> QED BY <2>1, <3>1, <3>2, <3>3 DEF Addressed
  <2> QED BY <2>4, <2>5, <2>6, <2>7 DEF Addressed
<1>9. ASSUME NEW c \in Conns, Take(c) PROVE Addressed'
  <2> DEFINE n == Head(inbox[c])
  <2>1. UNCHANGED <<said, issued, queue, pending>> BY <1>9, TasksAlone
  <2>2. /\ inbox[c] # <<>> /\ inbox' = [inbox EXCEPT ![c] = Tail(@)]
        /\ got' = [got EXCEPT ![c] = Append(@, n)] \/ got' = got
    BY <1>9 DEF Take, Behaviour!Take
  <2>3. n \in ToSet(inbox[c]) /\ ToSet(Tail(inbox[c])) \subseteq ToSet(inbox[c]) /\ n \in Nat
    BY <1>2, <2>2, Members, HeadTailProperties
  <2> HIDE DEF n
  <2>4. ToSet(Append(got[c], n)) = ToSet(got[c]) \cup {n} BY <1>2, <2>3, Members
  <2>5. \A d \in Conns : /\ ToSet(inbox'[d]) \subseteq ToSet(inbox[d])
                         /\ ToSet(got'[d]) \subseteq ToSet(got[d]) \cup (IF d = c THEN {n} ELSE {})
    BY <1>2, <2>2, <2>3, <2>4
  <2>6. \A d \in Conns : \A m \in ToSet(inbox'[d]) \cup ToSet(got'[d]) : Sent(m, d)
    BY <1>1, <2>3, <2>5
  <2> QED BY <1>0, <2>1, <2>6, AddressedStays
<1>10. ASSUME NEW c \in Conns, \/ RemoteOpens(c) \/ RemoteEnds(c)
                               \/ RemoteSpeaks(c) \/ RemoteAsks(c) \/ End(c)
       PROVE  Addressed'
  <2>1. UNCHANGED <<said, issued, queue, pending>> BY <1>10, TasksAlone
  <2>2. got' = got /\ (inbox' = inbox \/ inbox' = [inbox EXCEPT ![c] = <<>>])
    <3>1. CASE RemoteOpens(c) \/ RemoteEnds(c)
      BY <3>1 DEF RemoteOpens, RemoteEnds, behaviour
    <3>2. CASE RemoteSpeaks(c) \/ RemoteAsks(c)
      BY <3>2 DEF RemoteSpeaks, RemoteAsks, Tell, Behaviour!Emit
    <3>3. CASE End(c) BY <3>3 DEF End, Behaviour!End
    <3> QED BY <1>10, <3>1, <3>2, <3>3
  <2>3. \A d \in Conns : ToSet(inbox'[d]) \subseteq ToSet(inbox[d])
    <3>1. ToSet(<<>>) = {} BY DEF ToSet
    <3> QED BY <1>2, <2>2, <3>1
  <2>4. \A d \in Conns : \A m \in ToSet(inbox'[d]) \cup ToSet(got'[d]) : Sent(m, d)
    BY <1>1, <2>2, <2>3
  <2> QED BY <1>0, <2>1, <2>4, AddressedStays
<1>11. CASE UNCHANGED vars BY <1>3, <1>11 DEF vars, behaviour
<1> QED
  BY <1>4, <1>5, <1>6, <1>7, <1>8, <1>9, <1>10, <1>11, ServerSteps

-----------------------------------------------------------------------------
(* What a remote told is heard, queued, or on its way to the swarm.          *)

LEMMA HeardNth == \A s, x : Nth(s, x) = Routed!Times(s, {x})
<1> SUFFICES ASSUME NEW s, NEW x PROVE Nth(s, x) = Routed!Times(s, {x})
  OBVIOUS
<1>1. \A S : Cardinality(S) = Routed!Cardinality(S)
  BY DEF Cardinality, Routed!Cardinality
<1>2. {i \in DOMAIN s : s[i] = x} = {i \in DOMAIN s : s[i] \in {x}} OBVIOUS
<1> QED BY <1>1, <1>2 DEF Nth, Routed!Times

LEMMA HeardIs ==
  ASSUME Routed!TypeOK, NEW c \in Conns
  PROVE  Heard(c) \in Nat
BY Assumed, Routed!HeardTimes, HeardNth DEF Heard

Counted == \A c \in Conns : Routed!Sounded(c) <= Len(told[c])

LEMMA SoundedIs ==
  ASSUME Routed!TypeOK, NEW c \in Conns
  PROVE  Routed!Sounded(c) \in Nat
<1>1. Routed!Times(heard[c], {"Stream"}) \in Nat BY Assumed, Routed!HeardTimes
<1>2. Routed!Times(queue, Routed!StreamsOf(c)) \in Nat BY Assumed, Routed!QueueTimes
<1>3. Routed!Times(up[c], {"stream"}) \in Nat BY Assumed, Routed!ChannelTimes
<1> QED BY <1>1, <1>2, <1>3 DEF Routed!Sounded

(* What is told stays.                                                       *)
LEMMA Untold ==
  ASSUME Types, Routed!TypeOK, Posed, Handed, [Next]_vars
  PROVE  \/ UNCHANGED <<told, emitted>>
         \/ \E c \in Conns : RemoteSpeaks(c) \/ RemoteAsks(c)
<1>1. CASE NextEvent BY <1>1, Polled DEF NextEvent, Behaviour!PollEvent
<1>2. CASE OnConnection \/ OnNews BY <1>2 DEF OnConnection, OnNews, remote, behaviour
<1>3. CASE OnQuery BY <1>3 DEF OnQuery, remote, behaviour, Behaviour!Dispatch
<1>4. CASE Swarm
  BY <1>4 DEF Swarm, remote, Behaviour!PollNotify, Behaviour!Closed, Behaviour!HandlerEvent
<1>5. CASE \E c \in Conns, p \in Peers : Established(c, p)
  BY <1>5 DEF Established, remote, Behaviour!Established
<1>6. CASE \E c \in Conns : Take(c) \/ RemoteOpens(c) \/ RemoteEnds(c) \/ End(c)
  BY <1>6 DEF Take, RemoteOpens, RemoteEnds, End, remote, behaviour, Behaviour!Take, Behaviour!End
<1>7. CASE UNCHANGED vars BY <1>7 DEF vars, remote, behaviour
<1> QED BY <1>1, <1>2, <1>3, <1>4, <1>5, <1>6, <1>7, ServerSteps

(* The events that reach the server are those of the handlers, none of them  *)
(* twice.                                                                    *)
LEMMA NextCounted ==
  Types /\ Routed!TypeOK /\ Posed /\ Handed /\ Counted /\ [Next]_vars => Counted'
<1> SUFFICES ASSUME Types, Routed!TypeOK, Posed, Handed, Counted, [Next]_vars,
                    NEW c \in Conns
             PROVE  Routed!Times(heard'[c], {"Stream"}) + Routed!Times(queue', Routed!StreamsOf(c))
                      + Routed!Times(up'[c], {"stream"}) <= Len(told'[c])
  BY DEF Counted, Routed!Sounded
<1> DEFINE n == Routed!Times(heard'[c], {"Stream"}) + Routed!Times(queue', Routed!StreamsOf(c))
                  + Routed!Times(up'[c], {"stream"})
<1>1. Routed!Sounded(c) \in Nat /\ Len(told[c]) \in Nat /\ Routed!Sounded(c) <= Len(told[c])
  BY SoundedIs, TellingIs DEF Counted
<1>2. CASE UNCHANGED <<told, emitted>>
  <2>1. [Routed!Next]_(Routed!vars) BY NextRouted
  <2>2. n = Routed!Sounded(c) BY <1>2, <2>1, Assumed, Routed!EventsKept
  <2> QED BY <1>1, <1>2, <2>2
<1>3. ASSUME NEW d \in Conns, RemoteSpeaks(d) \/ RemoteAsks(d) PROVE n <= Len(told'[c])
  <2>1. PICK what \in Tellings : Tell(d, what) BY <1>3, Asking, Speaking
  <2>2. Routed!Emit(d) BY <2>1, TasksRouted DEF Tell
  <2>3. n = Routed!Sounded(c) + (IF c = d THEN 1 ELSE 0)
    BY <2>2, Assumed, Routed!EventCounted
  <2>4. Len(told'[c]) = Len(told[c]) + (IF c = d THEN 1 ELSE 0)
    <3>1. Len(told'[d]) = Len(told[d]) + 1 /\ \A x \in Conns : x # d => told'[x] = told[x]
      BY <2>1, Telling
    <3>2. CASE c = d BY <3>1, <3>2
    <3>3. CASE c # d
      <4>1. Len(told'[c]) = Len(told[c]) BY <3>1, <3>3
      <4> QED BY <1>1, <3>3, <4>1
    <3> QED BY <3>2, <3>3
  <2> DEFINE m == Routed!Sounded(c)
             l == Len(told[c])
             ll == Len(told'[c])
             k == IF c = d THEN 1 ELSE 0
  <2>5. m \in Nat /\ l \in Nat /\ m <= l /\ n = m + k /\ ll = l + k BY <1>1, <2>3, <2>4
  <2>6. k \in Nat OBVIOUS
  <2> HIDE DEF n, m, l, ll, k
  <2>7. n <= ll BY <2>5, <2>6
  <2> QED BY <2>7 DEF ll
<1> QED BY <1>2, <1>3, Untold

-----------------------------------------------------------------------------
(* The queries of a remote are numbered in their order, and so are the       *)
(* answers.                                                                  *)

(* A query of a stream: the k-th thing connection c told.                    *)
Query(c, k, s, id) ==
  k \in DOMAIN told[c] /\ Asks(told[c][k]) /\ told[c][k].stream = s /\ told[c][k].id = id

Rising ==
  /\ \A c \in Conns : \A k, s, id : Query(c, k, s, id) => id <= Cardinality(AskedOn(c, s))
  /\ \A c \in Conns : \A j, k, s, a, b :
       Query(c, j, s, a) /\ Query(c, k, s, b) /\ j < k => a < b

(* The query an answer was given to was heard before what is in the hand.    *)
Origins ==
  \A n \in DOMAIN said : \E k \in 1..Heard(said[n].conn) :
    /\ Query(said[n].conn, k, said[n].stream, said[n].id)
    /\ Asks(hand) /\ hand.conn = said[n].conn => k < Heard(said[n].conn)

InTurn ==
  \A m, n \in DOMAIN said :
    m < n /\ said[m].conn = said[n].conn /\ said[m].stream = said[n].stream
      => said[m].id < said[n].id

LEMMA QueriesTold ==
  ASSUME Types, NEW c \in Conns, NEW what \in Tellings, Tell(c, what)
  PROVE  /\ \A d \in Conns : d # c =>
              /\ \A s : AskedOn(d, s)' = AskedOn(d, s)
              /\ \A k, s, id : Query(d, k, s, id)' <=> Query(d, k, s, id)
         /\ \A k, s, id : Query(c, k, s, id)' <=>
              \/ Query(c, k, s, id)
              \/ k = Len(told[c]) + 1 /\ Asks(what) /\ what.stream = s /\ what.id = id
         /\ \A s : AskedOn(c, s)' = AskedOn(c, s)
              \cup (IF Asks(what) /\ what.stream = s THEN {Len(told[c]) + 1} ELSE {})
         /\ \A s : Len(told[c]) + 1 \notin AskedOn(c, s)
         /\ \A k, s, id : Query(c, k, s, id) => k < Len(told[c]) + 1
<1> HIDE DEF Tellings
<1> DEFINE l == Len(told[c])
<1>1. /\ l \in Nat /\ DOMAIN told[c] = 1..l /\ DOMAIN told'[c] = 1..(l + 1)
      /\ \A d \in Conns : d # c => told'[d] = told[d]
      /\ \A k \in DOMAIN told[c] : told'[c][k] = told[c][k]
      /\ told'[c][l + 1] = what
  BY Telling, TellingIs
<1> HIDE DEF l
<1>2. \A k : k \in DOMAIN told'[c] <=> k \in DOMAIN told[c] \/ k = l + 1 BY <1>1
<1>3. l + 1 \notin DOMAIN told[c] /\ \A k \in DOMAIN told[c] : k < l + 1 BY <1>1
<1>4. ASSUME NEW d \in Conns, d # c
      PROVE  /\ \A s : AskedOn(d, s)' = AskedOn(d, s)
             /\ \A k, s, id : Query(d, k, s, id)' <=> Query(d, k, s, id)
  BY <1>1, <1>4 DEF AskedOn, Query
<1>5. \A k, s, id : Query(c, k, s, id)' <=>
        \/ Query(c, k, s, id)
        \/ k = l + 1 /\ Asks(what) /\ what.stream = s /\ what.id = id
  BY <1>1, <1>2, <1>3 DEF Query
<1>6. \A s : AskedOn(c, s)' = AskedOn(c, s)
        \cup (IF Asks(what) /\ what.stream = s THEN {l + 1} ELSE {})
  BY <1>1, <1>2, <1>3 DEF AskedOn, Asks
<1>7. /\ \A s : l + 1 \notin AskedOn(c, s)
      /\ \A k, s, id : Query(c, k, s, id) => k < l + 1
  BY <1>3 DEF AskedOn, Query
<1> QED BY <1>4, <1>5, <1>6, <1>7 DEF l

LEMMA NextRising ==
  Types /\ Routed!TypeOK /\ Posed /\ Handed /\ Rising /\ [Next]_vars => Rising'
<1> SUFFICES ASSUME Types, Routed!TypeOK, Posed, Handed, Rising, [Next]_vars PROVE Rising'
  OBVIOUS
<1> HIDE DEF Tellings
<1>1. CASE UNCHANGED told
  <2>1. \A c, s : AskedOn(c, s)' = AskedOn(c, s) BY <1>1 DEF AskedOn
  <2>2. \A c, k, s, id : Query(c, k, s, id)' <=> Query(c, k, s, id) BY <1>1 DEF Query
  <2> QED BY <2>1, <2>2 DEF Rising
<1>2. ASSUME NEW c \in Conns, RemoteSpeaks(c) \/ RemoteAsks(c) PROVE Rising'
  <2>1. PICK what \in Tellings :
          Tell(c, what) /\ (Asks(what) => what.id = Cardinality(AskedOn(c, what.stream)) + 1)
    BY <1>2, Asking, Speaking
  <2> DEFINE l == Len(told[c])
  <2>2. /\ \A d \in Conns : d # c =>
             /\ \A s : AskedOn(d, s)' = AskedOn(d, s)
             /\ \A k, s, id : Query(d, k, s, id)' <=> Query(d, k, s, id)
        /\ \A k, s, id : Query(c, k, s, id)' <=>
             \/ Query(c, k, s, id)
             \/ k = l + 1 /\ Asks(what) /\ what.stream = s /\ what.id = id
        /\ \A s : AskedOn(c, s)' = AskedOn(c, s)
             \cup (IF Asks(what) /\ what.stream = s THEN {l + 1} ELSE {})
        /\ \A s : l + 1 \notin AskedOn(c, s)
        /\ \A k, s, id : Query(c, k, s, id) => k < l + 1
    BY <2>1, QueriesTold
  <2>3. l \in Nat BY TellingIs
  <2> HIDE DEF l
  <2>4. \A s : Cardinality(AskedOn(c, s))' = Cardinality(AskedOn(c, s))
                 + (IF Asks(what) /\ what.stream = s THEN 1 ELSE 0)
    <3> SUFFICES ASSUME NEW s
                 PROVE  Cardinality(AskedOn(c, s)') = Cardinality(AskedOn(c, s))
                          + (IF Asks(what) /\ what.stream = s THEN 1 ELSE 0)
      OBVIOUS
    <3>1. IsFiniteSet(AskedOn(c, s)) /\ Cardinality(AskedOn(c, s)) \in Nat BY AskedIs
    <3>2. CASE Asks(what) /\ what.stream = s
      <4>1. AskedOn(c, s)' = AskedOn(c, s) \cup {l + 1} BY <2>2, <3>2
      <4> QED BY <2>2, <3>1, <3>2, <4>1, FS_AddElement
    <3>3. CASE ~ (Asks(what) /\ what.stream = s)
      <4>1. AskedOn(c, s)' = AskedOn(c, s) BY <2>2, <3>3
      <4> QED BY <3>1, <3>3, <4>1
    <3> QED BY <3>2, <3>3
  <2>5. ASSUME NEW d \in Conns, NEW k, NEW s, NEW id, Query(d, k, s, id)'
        PROVE  id <= Cardinality(AskedOn(d, s))'
    <3>1. CASE d # c BY <2>2, <2>5, <3>1 DEF Rising
    <3>2. CASE d = c
      <4>1. Cardinality(AskedOn(c, s)) \in Nat BY AskedIs
      <4>2. CASE Query(c, k, s, id)
        <5>1. id \in Nat BY <4>2, TellingIs DEF Query
        <5>2. id <= Cardinality(AskedOn(c, s)) BY <4>2 DEF Rising
        <5> QED BY <2>4, <3>2, <4>1, <5>1, <5>2
      <4>3. CASE Asks(what) /\ what.stream = s /\ what.id = id
        BY <2>1, <2>4, <3>2, <4>1, <4>3
      <4> QED BY <2>2, <2>5, <3>2, <4>2, <4>3
    <3> QED BY <3>1, <3>2
  <2>6. ASSUME NEW d \in Conns, NEW j, NEW k, NEW s, NEW a, NEW b,
               Query(d, j, s, a)', Query(d, k, s, b)', j < k
        PROVE  a < b
    <3>1. CASE d # c
      <4>1. Query(d, j, s, a) /\ Query(d, k, s, b) BY <2>2, <2>6, <3>1
      <4> QED BY <2>6, <4>1 DEF Rising
    <3>2. CASE d = c
      <4>1. CASE Query(c, j, s, a) /\ Query(c, k, s, b) BY <2>6, <4>1 DEF Rising
      <4>2. CASE Query(c, j, s, a) /\ k = l + 1 /\ Asks(what) /\ what.stream = s /\ what.id = b
        <5>1. a \in Nat BY <4>2, TellingIs DEF Query
        <5>2. a <= Cardinality(AskedOn(c, s)) BY <4>2 DEF Rising
        <5>3. Cardinality(AskedOn(c, s)) \in Nat BY AskedIs
        <5> QED BY <2>1, <4>2, <5>1, <5>2, <5>3
      <4>3. CASE j = l + 1
        <5>1. k = l + 1 \/ k < l + 1 BY <2>2, <2>6, <3>2
        <5>2. k \in Nat
          <6>1. CASE Query(c, k, s, b) BY <6>1, TellingIs DEF Query
          <6>2. CASE k = l + 1 BY <2>3, <6>2
          <6> QED BY <2>2, <2>6, <3>2, <6>1, <6>2
        <5> QED BY <2>3, <2>6, <4>3, <5>1, <5>2
      <4> QED BY <2>2, <2>6, <3>2, <4>1, <4>2, <4>3
    <3> QED BY <3>1, <3>2
  <2> QED BY <2>5, <2>6 DEF Rising
<1> QED BY <1>1, <1>2, Untold

(* The query in the hand is the one the latest stream event stands for.      *)
LEMMA Heeded ==
  ASSUME Types, Routed!TypeOK, Counted, NextEvent
  PROVE  \E c \in Conns :
           /\ c = Head(queue).conn /\ hand'.conn = c /\ UNCHANGED <<told, said>>
           /\ \A d \in Conns : d # c => heard'[d] = heard[d]
           /\ Heard(c) \in Nat /\ Nth(heard'[c], "Stream") >= Heard(c)
           /\ Nth(heard'[c], "Stream") \in Nat
           /\ Asks(hand') =>
                /\ Nth(heard'[c], "Stream") = Heard(c) + 1
                /\ Query(c, Heard(c) + 1, hand'.stream, hand'.id)
<1> HIDE DEF Entries, Tellings
<1> DEFINE e == Head(queue)
<1>1. e \in Entries /\ hand' = Event(e, What(e)) /\ UNCHANGED <<told, said>>
  BY Polled
<1>2. Routed!PollEvent
  <2>1. e.conn \in Conns /\ Behaviour!PollEvent BY <1>1, Polled, EntryIs
  <2> QED BY <2>1, SwarmRouted
<1>3. PICK c \in Conns :
        /\ c = e.conn /\ \A d \in Conns : d # c => heard'[d] = heard[d]
        /\ Heard(c) \in Nat
        /\ Nth(heard'[c], "Stream") = Heard(c) + (IF e.event = "Stream" THEN 1 ELSE 0)
        /\ e.event = "Stream" => Heard(c) + 1 <= Routed!Sounded(c)
  BY <1>2, Assumed, Routed!EventHeard, HeardNth DEF Heard
<1> DEFINE h == Heard(c)
           hh == Nth(heard'[c], "Stream")
           l == Len(told[c])
<1>4. Asks(hand') => OfStream(e) BY HandKind
<1>5. h \in Nat /\ hh = h + (IF e.event = "Stream" THEN 1 ELSE 0) BY <1>3
<1>6. OfStream(e) => h + 1 <= l
  <2>1. l \in Nat /\ Routed!Sounded(c) \in Nat /\ Routed!Sounded(c) <= l
    BY SoundedIs, TellingIs DEF Counted
  <2> HIDE DEF h, l
  <2>2. OfStream(e) => h + 1 <= Routed!Sounded(c) BY <1>3 DEF OfStream, h
  <2> QED BY <1>5, <2>1, <2>2
<1>7. \A d \in Conns : d # c => heard'[d] = heard[d] BY <1>3
<1> HIDE DEF e
<1>8. hand'.conn = c BY <1>1, <1>3 DEF Event
<1>9. ASSUME Asks(hand') PROVE hh = h + 1 /\ Query(c, h + 1, hand'.stream, hand'.id)
  <2>1. OfStream(e) /\ e.event = "Stream" BY <1>4, <1>9 DEF OfStream
  <2>2. hh = h + 1 BY <1>5, <2>1
  <2> DEFINE t == told[c][h + 1]
  <2>3. hand' = Event(e, t) BY <1>1, <1>3, <2>1, <2>2 DEF What
  <2>4. h + 1 \in DOMAIN told[c] /\ t \in Tellings
    <3>1. l \in Nat /\ DOMAIN told[c] = 1..l BY TellingIs
    <3> HIDE DEF h, l
    <3>2. h + 1 \in 1..l BY <1>5, <1>6, <2>1, <3>1
    <3> QED BY <3>1, <3>2, TellingIs DEF h
  <2> HIDE DEF h, hh, l
  <2>5. Asks(t) /\ hand'.stream = t.stream /\ hand'.id = t.id
    <3> HIDE DEF t
    <3>1. "kind" \in DOMAIN t BY <2>4 DEF Tellings
    <3>2. hand'.kind = t.kind BY <2>3, <3>1 DEF Event
    <3>3. Asks(t) BY <1>9, <3>2 DEF Asks
    <3>4. "stream" \in DOMAIN t /\ "id" \in DOMAIN t BY <2>4, <3>3 DEF Tellings, Asks
    <3> QED BY <2>3, <3>3, <3>4 DEF Event
  <2> QED BY <2>2, <2>4, <2>5 DEF Query
<1>10. hh >= h /\ hh \in Nat
  <2> HIDE DEF h, hh
  <2> QED BY <1>5
<1> QED BY <1>1, <1>3, <1>5, <1>7, <1>8, <1>9, <1>10 DEF e

(* Every step but NextEvent leaves alone what was heard, and none but        *)
(* NextEvent puts a query in the hand.                                       *)
LEMMA Unheard ==
  ASSUME Types, Routed!TypeOK, Posed, Handed, [Next]_vars
  PROVE  \/ NextEvent
         \/ UNCHANGED heard /\ (Asks(hand') => hand' = hand) /\ (UNCHANGED said \/ Answers)
<1>0. ~ Asks(Nothing) /\ ~ Asks(Panic) BY DEF Asks, Nothing, Panic
<1>1. CASE OnConnection \/ OnNews
  BY <1>0, <1>1 DEF OnConnection, OnNews, behaviour
<1>2. CASE OnQuery
  <2>1. ~ Asks(hand') BY <1>0, <1>2, Answering
  <2>2. UNCHANGED heard BY <1>2, Answering, Dispatched DEF behaviour
  <2> QED BY <1>2, <2>1, <2>2, Answering
<1>3. CASE Swarm
  BY <1>3, Notified, Noted DEF Swarm
<1>4. CASE \E c \in Conns, p \in Peers : Established(c, p)
  BY <1>4 DEF Established, Behaviour!Established
<1>5. ASSUME NEW c \in Conns, \/ Take(c) \/ RemoteOpens(c) \/ RemoteEnds(c)
                              \/ RemoteSpeaks(c) \/ RemoteAsks(c) \/ End(c)
      PROVE  UNCHANGED <<heard, hand, said>>
  BY <1>5, TasksAlone
<1>6. CASE UNCHANGED vars BY <1>6 DEF vars, behaviour
<1> QED BY <1>1, <1>2, <1>3, <1>4, <1>5, <1>6, ServerSteps

LEMMA HandedIs ==
  Handed <=> (Asks(hand) => Query(hand.conn, Heard(hand.conn), hand.stream, hand.id))
BY DEF Handed, Query

LEMMA QueryKept ==
  ASSUME Types, Routed!TypeOK, Posed, Handed, [Next]_vars
  PROVE  \A c \in Conns : \A k, s, id : Query(c, k, s, id) => Query(c, k, s, id)'
<1>1. UNCHANGED told => \A c, k, s, id : Query(c, k, s, id) => Query(c, k, s, id)'
  BY DEF Query
<1>2. ASSUME NEW c \in Conns, RemoteSpeaks(c) \/ RemoteAsks(c),
             NEW d \in Conns, NEW k, NEW s, NEW id, Query(d, k, s, id)
      PROVE  Query(d, k, s, id)'
  <2>1. PICK what \in Tellings : Tell(c, what) BY <1>2, Asking, Speaking
  <2> QED BY <1>2, <2>1, QueriesTold
<1> QED BY <1>1, <1>2, Untold

LEMMA NextHanded ==
  Types /\ Routed!TypeOK /\ Posed /\ Handed /\ Counted /\ [Next]_vars => Handed'
<1> SUFFICES ASSUME Types, Routed!TypeOK, Posed, Handed, Counted, [Next]_vars
             PROVE  Handed'
  OBVIOUS
<1> SUFFICES ASSUME Asks(hand)'
             PROVE  LET c == hand'.conn
                        k == Nth(heard'[c], "Stream")
                    IN  /\ k \in DOMAIN told'[c]
                        /\ Asks(told'[c][k]) /\ hand'.stream = told'[c][k].stream
                        /\ hand'.id = told'[c][k].id
  BY DEF Handed, Heard
<1>1. \A c \in Conns : \A k, s, id : Query(c, k, s, id) => Query(c, k, s, id)'
  BY QueryKept
<1>2. CASE NextEvent
  <2>1. PICK c \in Conns :
          /\ hand'.conn = c
          /\ Asks(hand') =>
               /\ Nth(heard'[c], "Stream") = Heard(c) + 1
               /\ Query(c, Heard(c) + 1, hand'.stream, hand'.id)
    BY <1>2, Heeded
  <2> DEFINE k == Heard(c) + 1
             s == hand'.stream
             id == hand'.id
  <2>2. Nth(heard'[c], "Stream") = k /\ Query(c, k, s, id) BY <2>1
  <2>3. k \in DOMAIN told'[c] /\ Asks(told'[c][k]) /\ told'[c][k].stream = s
        /\ told'[c][k].id = id
    <3> HIDE DEF k, s, id
    <3>1. UNCHANGED told BY <1>2, Polled
    <3> QED BY <2>2, <3>1 DEF Query
  <2> QED BY <2>1, <2>2, <2>3
<1>3. CASE UNCHANGED heard /\ (Asks(hand') => hand' = hand)
  <2>1. hand' = hand /\ hand.conn \in Conns BY <1>3 DEF Posed
  <2>2. PICK c \in Conns : c = hand.conn BY <2>1
  <2>3. Query(c, Nth(heard[c], "Stream"), hand.stream, hand.id)
    BY <2>1, <2>2, HandedIs DEF Heard
  <2>4. PICK k, s, id : k = Nth(heard[c], "Stream") /\ s = hand.stream /\ id = hand.id
    OBVIOUS
  <2>5. Query(c, k, s, id)' BY <1>1, <2>3, <2>4
  <2> QED BY <1>3, <2>1, <2>2, <2>4, <2>5 DEF Query
<1> QED BY <1>2, <1>3, Unheard

LEMMA NextOrigins ==
  /\ Types /\ Routed!TypeOK /\ Posed /\ Handed /\ Counted /\ Origins /\ [Next]_vars
  => Origins'
<1> SUFFICES ASSUME Types, Routed!TypeOK, Posed, Handed, Counted, Origins, [Next]_vars
             PROVE  Origins'
  OBVIOUS
<1> SUFFICES ASSUME NEW n \in DOMAIN said', NEW c, NEW s, NEW id,
                    c = said'[n].conn, s = said'[n].stream, id = said'[n].id
             PROVE  \E k \in 1..Nth(heard'[c], "Stream") :
                      /\ Query(c, k, s, id)'
                      /\ Asks(hand') /\ hand'.conn = c => k < Nth(heard'[c], "Stream")
  BY DEF Origins, Heard, Query
<1>1. \A d \in Conns : \A k, t, a : Query(d, k, t, a) => Query(d, k, t, a)'
  BY QueryKept
<1>2. ASSUME n \in DOMAIN said, said'[n] = said[n]
      PROVE  /\ c \in Conns /\ Heard(c) \in Nat
             /\ \E k \in 1..Heard(c) : /\ Query(c, k, s, id)
                                       /\ Asks(hand) /\ hand.conn = c => k < Heard(c)
  <2>1. c \in Conns BY <1>2, SaidIs
  <2>2. Heard(c) \in Nat BY <2>1, HeardIs
  <2> QED BY <1>2, <2>1, <2>2 DEF Origins
<1>3. CASE NextEvent
  <2>1. PICK d \in Conns :
          /\ hand'.conn = d /\ UNCHANGED said
          /\ \A x \in Conns : x # d => heard'[x] = heard[x]
          /\ Nth(heard'[d], "Stream") >= Heard(d) /\ Nth(heard'[d], "Stream") \in Nat
          /\ Asks(hand') => Nth(heard'[d], "Stream") = Heard(d) + 1
    BY <1>3, Heeded
  <2>2. c \in Conns /\ Heard(c) \in Nat BY <1>2, <2>1
  <2>3. PICK k \in 1..Heard(c) : Query(c, k, s, id) BY <1>2, <2>1
  <2>4. Query(c, k, s, id)' BY <1>1, <2>2, <2>3
  <2>5. CASE c = d
    <3> DEFINE h == Heard(c)
               hh == Nth(heard'[c], "Stream")
    <3>1. h \in Nat /\ hh \in Nat /\ hh >= h /\ (Asks(hand') => hh = h + 1) /\ k \in 1..h
      BY <2>1, <2>2, <2>3, <2>5
    <3> HIDE DEF h, hh
    <3>2. k \in 1..hh /\ (Asks(hand') => k < hh) BY <3>1
    <3> QED BY <2>4, <3>2 DEF hh
  <2>6. CASE c # d
    <3>1. Nth(heard'[c], "Stream") = Heard(c) BY <2>1, <2>2, <2>6 DEF Heard
    <3> QED BY <2>1, <2>3, <2>4, <2>6, <3>1
  <2> QED BY <2>5, <2>6
<1>4. CASE UNCHANGED heard /\ (Asks(hand') => hand' = hand) /\ (UNCHANGED said \/ Answers)
  <2>1. \A d : Nth(heard'[d], "Stream") = Heard(d) BY <1>4 DEF Heard
  <2>2. CASE n \in DOMAIN said /\ said'[n] = said[n]
    <3>1. PICK k \in 1..Heard(c) : /\ Query(c, k, s, id)
                                   /\ Asks(hand) /\ hand.conn = c => k < Heard(c)
      BY <1>2, <2>2
    <3>2. Query(c, k, s, id)' BY <1>1, <1>2, <2>2, <3>1
    <3> QED BY <1>4, <2>1, <3>1, <3>2
  <2>3. CASE Answers /\ ~ (n \in DOMAIN said /\ said'[n] = said[n])
    <3>1. n = Len(said) + 1
      <4>1. \A m \in DOMAIN said : said'[m] = said[m] BY <2>3, AnswerIs
      <4>2. DOMAIN said' = 1..(Len(said) + 1) BY <2>3, AnswerIs
      <4>3. DOMAIN said = 1..Len(said) /\ Len(said) \in Nat BY SaidIs
      <4> QED BY <2>3, <4>1, <4>2, <4>3
    <3>2. said'[n] = Answer BY <2>3, <3>1, AnswerIs
    <3>3. c = hand.conn /\ s = hand.stream /\ id = hand.id BY <3>2 DEF Answer
    <3>4. Asks(hand) /\ ~ Asks(hand') /\ c \in Conns
      BY <2>3, <3>3, Answering DEF Answers, Asks, Nothing, Panic, Posed
    <3>5. Query(c, Heard(c), s, id) BY <3>3, <3>4, HandedIs
    <3>6. PICK k : k = Heard(c) OBVIOUS
    <3>7. k \in 1..Heard(c)
      <4>1. k \in DOMAIN told[c] BY <3>5, <3>6 DEF Query
      <4>2. k \in Nat \ {0} BY <3>4, <4>1, TellingIs
      <4> QED BY <3>6, <4>2
    <3>8. Query(c, k, s, id)' BY <1>1, <3>4, <3>5, <3>6
    <3> QED BY <2>1, <3>4, <3>7, <3>8
  <2> QED BY <1>4, <2>2, <2>3
<1> QED BY <1>3, <1>4, Unheard

LEMMA NextInTurn ==
  /\ Types /\ Routed!TypeOK /\ Posed /\ Handed /\ Rising /\ Origins /\ InTurn /\ [Next]_vars
  => InTurn'
<1> SUFFICES ASSUME Types, Routed!TypeOK, Posed, Handed, Rising, Origins, InTurn, [Next]_vars
             PROVE  InTurn'
  OBVIOUS
<1>1. CASE UNCHANGED said BY <1>1 DEF InTurn
<1>2. CASE Answers
  <2>1. /\ \A n \in DOMAIN said : said'[n] = said[n]
        /\ DOMAIN said' = 1..(Len(said) + 1)
        /\ said'[Len(said) + 1] = Answer
    BY <1>2, AnswerIs
  <2>2. DOMAIN said = 1..Len(said) /\ Len(said) \in Nat BY SaidIs
  <2>3. ASSUME NEW m \in DOMAIN said, said[m].conn = hand.conn, said[m].stream = hand.stream
        PROVE  said[m].id < hand.id
    <3>1. Asks(hand) /\ hand.conn \in Conns BY <1>2, Answering DEF Answers, Posed
    <3>2. PICK c, s, b : c \in Conns /\ c = hand.conn /\ s = hand.stream /\ b = hand.id BY <3>1
    <3>3. PICK a : a = said[m].id OBVIOUS
    <3>4. PICK k \in 1..Heard(c) : Query(c, k, s, a) /\ k < Heard(c)
      BY <2>3, <3>1, <3>2, <3>3 DEF Origins
    <3>5. Query(c, Heard(c), s, b) BY <3>1, <3>2, HandedIs
    <3>6. PICK l : l = Heard(c) OBVIOUS
    <3>7. a < b BY <3>2, <3>4, <3>5, <3>6 DEF Rising
    <3> QED BY <3>2, <3>3, <3>7
  <2>4. Answer.conn = hand.conn /\ Answer.stream = hand.stream /\ Answer.id = hand.id
    BY DEF Answer
  <2> SUFFICES ASSUME NEW m \in DOMAIN said', NEW n \in DOMAIN said', m < n,
                      said'[m].conn = said'[n].conn, said'[m].stream = said'[n].stream
               PROVE  said'[m].id < said'[n].id
    BY DEF InTurn
  <2>5. m \in DOMAIN said BY <2>1, <2>2
  <2>6. CASE n \in DOMAIN said BY <2>1, <2>5, <2>6 DEF InTurn
  <2>7. CASE n = Len(said) + 1 BY <2>1, <2>3, <2>4, <2>5, <2>7
  <2> QED BY <2>1, <2>2, <2>6, <2>7
<1>3. NextEvent => UNCHANGED said BY Polled
<1> QED BY <1>1, <1>2, <1>3, Unheard

-----------------------------------------------------------------------------
(* What a connection got, it took from its channel, in this order.           *)
Received ==
  \A c \in Conns : /\ Routed!Increasing(got[c]) /\ ToSet(got[c]) \subseteq ToSet(taken[c])

LEMMA Untaken ==
  ASSUME Types, Routed!TypeOK, Posed, Handed, [Next]_vars
  PROVE  UNCHANGED <<got, taken>> \/ \E c \in Conns : Take(c)
<1>1. CASE NextEvent
  BY <1>1, Polled DEF NextEvent, Behaviour!PollEvent
<1>2. CASE OnConnection \/ OnNews BY <1>2 DEF OnConnection, OnNews, behaviour
<1>3. CASE OnQuery BY <1>3, Answering, Dispatched DEF behaviour
<1>4. CASE Swarm BY <1>4, Notified, Noted DEF Swarm
<1>5. CASE \E c \in Conns, p \in Peers : Established(c, p)
  BY <1>5 DEF Established, Behaviour!Established
<1>6. CASE \E c \in Conns : RemoteOpens(c) \/ RemoteEnds(c)
  BY <1>6 DEF RemoteOpens, RemoteEnds, behaviour
<1>7. CASE \E c \in Conns : RemoteSpeaks(c) \/ RemoteAsks(c)
  BY <1>7, Speaking, Asking, Telling
<1>8. CASE \E c \in Conns : End(c) BY <1>8 DEF End, Behaviour!End
<1>9. CASE UNCHANGED vars BY <1>9 DEF vars, behaviour
<1> QED
  BY <1>1, <1>2, <1>3, <1>4, <1>5, <1>6, <1>7, <1>8, <1>9, ServerSteps

LEMMA NextReceived ==
  /\ Types /\ Routed!TypeOK /\ Posed /\ Handed /\ Routed!ConnectionOrder /\ Received
  /\ [Next]_vars
  => Received'
<1> SUFFICES ASSUME Types, Routed!TypeOK, Posed, Handed, Routed!ConnectionOrder, Received,
                    [Next]_vars
             PROVE  Received'
  OBVIOUS
<1>1. CASE UNCHANGED <<got, taken>> BY <1>1 DEF Received
<1>2. ASSUME NEW c \in Conns, Take(c) PROVE Received'
  <2>1. /\ inbox[c] \in Seq(Nat) /\ taken[c] \in Seq(Nat) /\ got[c] \in Seq(Nat)
        /\ taken \in [Conns -> Seq(Nat)] /\ got \in [Conns -> Seq(Nat)]
    BY DEF Types, Routed!TypeOK
  <2>2. PICK n : n = Head(inbox[c]) OBVIOUS
  <2>3. /\ inbox[c] # <<>> /\ taken' = [taken EXCEPT ![c] = Append(@, n)]
        /\ got' = [got EXCEPT ![c] = Append(@, n)] \/ got' = got
    BY <1>2, <2>2 DEF Take, Behaviour!Take
  <2>4. n \in Nat /\ n \in ToSet(inbox[c])
    BY <2>1, <2>2, <2>3, HeadTailProperties, Members
  <2>5. ToSet(Append(taken[c], n)) = ToSet(taken[c]) \cup {n} BY <2>1, <2>4, Members
  <2>6. \A m \in ToSet(got[c]) : m < n
    BY <2>4 DEF Received, Routed!ConnectionOrder, ToSet, Routed!ToSet
  <2> DEFINE g == Append(got[c], n)
             l == Len(got[c])
  <2>7. /\ g \in Seq(Nat) /\ Len(g) = l + 1 /\ g[l + 1] = n
        /\ \A i \in 1..l : g[i] = got[c][i]
    BY <2>1, <2>4, AppendProperties
  <2>8. ToSet(g) = ToSet(got[c]) \cup {n} BY <2>1, <2>4, Members
  <2>9. l \in Nat /\ DOMAIN got[c] = 1..l BY <2>1, LenProperties
  <2> HIDE DEF g, l
  <2>10. DOMAIN g = 1..(l + 1) BY <2>7, LenProperties
  <2>11. Routed!Increasing(g)
    <3> SUFFICES ASSUME NEW i \in DOMAIN g, NEW j \in DOMAIN g, i < j PROVE g[i] < g[j]
      BY DEF Routed!Increasing
    <3>1. i \in DOMAIN got[c] /\ g[i] = got[c][i] BY <2>7, <2>9, <2>10
    <3>2. CASE j \in DOMAIN got[c]
      <4>1. g[j] = got[c][j] BY <2>7, <2>9, <3>2
      <4> QED BY <3>1, <3>2, <4>1 DEF Received, Routed!Increasing
    <3>3. CASE j = l + 1
      <4>1. got[c][i] \in ToSet(got[c]) BY <3>1 DEF ToSet
      <4> QED BY <2>6, <2>7, <3>1, <3>3, <4>1
    <3> QED BY <2>9, <2>10, <3>2, <3>3
  <2> SUFFICES ASSUME NEW d \in Conns
               PROVE  Routed!Increasing(got'[d]) /\ ToSet(got'[d]) \subseteq ToSet(taken'[d])
    BY DEF Received, Routed!Increasing
  <2>12. CASE d # c
    <3>1. got'[d] = got[d] /\ taken'[d] = taken[d] BY <2>1, <2>3, <2>12
    <3> QED BY <3>1 DEF Received
  <2>13. CASE d = c
    <3>1. taken'[c] = Append(taken[c], n) BY <2>1, <2>3
    <3>2. got'[c] = g \/ got'[c] = got[c] BY <2>1, <2>3 DEF g
    <3> QED BY <2>5, <2>8, <2>11, <2>13, <3>1, <3>2 DEF Received
  <2> QED BY <2>12, <2>13
<1> QED BY <1>1, <1>2, Untaken

-----------------------------------------------------------------------------
(* The whole.                                                                *)

Server ==
  /\ Types /\ Handed /\ Homes /\ Fresh /\ Current /\ Addressed
  /\ Counted /\ Rising /\ Origins /\ InTurn /\ Received

LEMMA ServerFirst == Init => Server
<1> SUFFICES ASSUME Init PROVE Server
  OBVIOUS
<1>1. Types BY InitTypes
<1>2. /\ peers = [p \in Peers |-> NoConn] /\ queue = <<>> /\ pending = [p \in Peers |-> <<>>]
      /\ pool = <<>> /\ inbox = [c \in Conns |-> <<>>] /\ up = [c \in Conns |-> <<>>]
      /\ heard = [c \in Conns |-> <<>>] /\ said = <<>>
      /\ told = [c \in Conns |-> <<>>] /\ got = [c \in Conns |-> <<>>]
  BY DEF Init, Behaviour!Init
<1>3. ~ Asks(hand) BY DEF Init, Asks, Nothing
<1>4. ToSet(<<>>) = {} /\ DOMAIN <<>> = {} BY DEF ToSet
<1>5. Handed /\ Current BY <1>3 DEF Handed, Current
<1>6. Homes /\ Fresh /\ Addressed BY <1>2, <1>3, <1>4 DEF Homes, Fresh, Addressed
<1>7. Counted
  <2>1. \A T : Routed!Times(<<>>, T) = 0 BY Assumed, Routed!TimesNone
  <2>2. \A c \in Conns : Len(told[c]) = 0 /\ Heard(c) = 0 BY <1>2, <2>1, HeardNth DEF Heard
  <2> QED BY <1>2, <2>1, <2>2, HeardNth DEF Counted, Routed!Sounded, Heard
<1>8. Rising /\ Origins /\ InTurn
  <2>1. \A c \in Conns : \A k, s, id : ~ Query(c, k, s, id) BY <1>2, <1>4 DEF Query
  <2> QED BY <1>2, <1>4, <2>1 DEF Rising, Origins, InTurn
<1>9. Received BY <1>2, <1>4 DEF Received, Routed!Increasing
<1> QED BY <1>1, <1>5, <1>6, <1>7, <1>8, <1>9 DEF Server

LEMMA ServerStep ==
  Routed!TypeOK /\ Routed!ConnectionOrder /\ Posed /\ Server /\ [Next]_vars => Server'
BY NextTypes, NextHanded, NextHomes, NextFresh, NextAddressed, NextCounted, NextRising,
   NextOrigins, NextInTurn, NextReceived
DEF Server

LEMMA ServerHome == Types /\ Routed!TypeOK /\ Server => AnswersHome
<1> SUFFICES ASSUME Types, Routed!TypeOK, Addressed, InTurn, Received, NEW c \in Conns
             PROVE  /\ \A n \in ToSet(got[c]) :
                         c \in met[issued[n]] /\ said[n].conn \in met[issued[n]]
                    /\ \A i, j \in DOMAIN got[c] :
                         LET a == said[got[c][i]]  b == said[got[c][j]]
                         IN  i < j /\ a.conn = b.conn /\ a.stream = b.stream => a.id < b.id
                    /\ \A n \in ToSet(got[c]) : said[n].conn = c \/ said[n].late
  BY DEF Server, AnswersHome
<1>1. \A n \in ToSet(got[c]) : Sent(n, c) BY DEF Addressed
<1>2. \A n \in ToSet(got[c]) :
        /\ c \in met[issued[n]] /\ said[n].conn \in met[issued[n]]
        /\ said[n].conn = c \/ said[n].late
  BY <1>1 DEF Sent, Addressed
<1>3. ASSUME NEW i \in DOMAIN got[c], NEW j \in DOMAIN got[c], i < j,
             said[got[c][i]].conn = said[got[c][j]].conn,
             said[got[c][i]].stream = said[got[c][j]].stream
      PROVE  said[got[c][i]].id < said[got[c][j]].id
  <2>1. got[c][i] < got[c][j] BY <1>3 DEF Received, Routed!Increasing
  <2>2. got[c][i] \in DOMAIN said /\ got[c][j] \in DOMAIN said
    BY <1>1, <1>3 DEF Sent, ToSet
  <2> QED BY <1>3, <2>1, <2>2 DEF InTurn
<1> QED BY <1>2, <1>3

(* A remote gets only answers to its own queries, those of a stream in the   *)
(* order of the queries and none twice; over another connection only when    *)
(* the server had not heard yet what the behaviour had (AnswersHome).        *)
THEOREM Answered == Spec => []AnswersHome
<1>1. Spec => [](Routed!TypeOK /\ Routed!ConnectionOrder)
  BY Implements, Assumed, Routed!TypeCorrect, Routed!CommandsInOrder, PTL
<1>2. Posed /\ Routed!TypeOK /\ [Next]_vars => Posed' BY PosedStep
<1>3. Init => Posed /\ Server BY PosedFirst, ServerFirst
<1>4. Routed!TypeOK /\ Routed!ConnectionOrder /\ Posed /\ Server /\ [Next]_vars => Server'
  BY ServerStep
<1>5. Routed!TypeOK /\ Server => AnswersHome BY ServerHome DEF Server
<1> QED BY <1>1, <1>2, <1>3, <1>4, <1>5, PTL DEF Spec
=============================================================================
