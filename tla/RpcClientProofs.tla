--------------------------- MODULE RpcClientProofs ---------------------------
(* Theorems about RpcClient, for every set of peers and of connections and   *)
(* without bounds.  What was proved of RpcBehaviour is used through the      *)
(* instance Routed.                                                          *)
EXTENDS RpcClient, TLAPS, SequenceTheorems, FiniteSetTheorems

Routed == INSTANCE RpcBehaviourProofs

(* The client takes the steps of the behaviour, and the behaviour no others. *)
LEMMA InitRouted == Init => Routed!Init
BY DEF Init, Behaviour!Init, Routed!Init

LEMMA PollRouted ==
  /\ Behaviour!PollNotify => Routed!PollNotify
  /\ Behaviour!PollEvent => Routed!PollEvent
BY DEF Behaviour!Popped, Routed!Popped, Behaviour!Known, Routed!Known,
       Behaviour!links, Routed!links, Behaviour!HasRoom, Routed!HasRoom,
       Behaviour!PollNotify, Routed!PollNotify, Behaviour!PollEvent, Routed!PollEvent

LEMMA EventsRouted ==
  ASSUME NEW c \in Conns
  PROVE  /\ Behaviour!Closed(c) => Routed!Closed(c)
         /\ Behaviour!HandlerEvent(c) => Routed!HandlerEvent(c)
<1> USE DEF Behaviour!Known, Routed!Known, Behaviour!Generate, Routed!Generate
<1>1. Behaviour!Closed(c) => Routed!Closed(c)
  BY DEF Behaviour!Closed, Routed!Closed, Behaviour!Forget, Routed!Forget
<1>2. Behaviour!HandlerEvent(c) => Routed!HandlerEvent(c)
  BY DEF Behaviour!HandlerEvent, Routed!HandlerEvent
<1> QED BY <1>1, <1>2

LEMMA DispatchRouted ==
  ASSUME NEW p \in Peers, Behaviour!Dispatch(p)
  PROVE  Routed!Dispatch(p)
BY DEF Behaviour!links, Routed!links, Behaviour!Notify, Routed!Notify,
       Behaviour!Dispatch, Routed!Dispatch

LEMMA EstablishedRouted ==
  ASSUME NEW c \in Conns, NEW p \in Peers, Behaviour!Established(c, p)
  PROVE  Routed!Established(c, p)
BY DEF Behaviour!Known, Routed!Known, Behaviour!links, Routed!links,
       Behaviour!Notify, Routed!Notify, Behaviour!Generate, Routed!Generate,
       Behaviour!Established, Routed!Established, Behaviour!Flush, Routed!Flush

LEMMA TasksRouted ==
  ASSUME NEW c \in Conns
  PROVE  /\ Behaviour!Take(c) => Routed!Take(c)
         /\ Behaviour!Emit(c) => Routed!Emit(c)
         /\ Behaviour!End(c) => Routed!End(c)
<1> USE DEF Behaviour!Known, Routed!Known, Behaviour!Running, Routed!Running,
            Behaviour!own, Routed!own, Behaviour!ToSet, Routed!ToSet
<1>1. Behaviour!Take(c) => Routed!Take(c) BY DEF Behaviour!Take, Routed!Take
<1>2. Behaviour!Emit(c) => Routed!Emit(c) BY DEF Behaviour!Emit, Routed!Emit
<1>3. Behaviour!End(c) => Routed!End(c) BY DEF Behaviour!End, Routed!End
<1> QED BY <1>1, <1>2, <1>3

-----------------------------------------------------------------------------
(* The steps of the client: those that give a command, those that a remote   *)
(* tells something in, and the others.                                       *)

Says(p, what) == Behaviour!Dispatch(p) /\ said' = Append(said, what)

Query(s) == [kind |-> "Query", stream |-> s, id |-> id]
Response(s) == [kind |-> "Response", stream |-> s]
Opening == [kind |-> "Open", stream |-> Out]

(* A query is sent: by rpc or with the handshake that was waited for.        *)
Queries ==
  /\ peer # NoPeer /\ Says(peer, Query(stream'))
  /\ call' = "waits" /\ id' = id + 1
  /\ \/ /\ call = "idle" /\ calls' = calls + 1
        /\ stream # NoStream /\ UNCHANGED <<hand, stream>>
     \/ /\ call = "holds" /\ UNCHANGED calls
        /\ hand.kind = "HandshakeDone" /\ hand' = Nothing
        /\ stream' = IF stream = NoStream THEN hand.stream ELSE stream
  /\ UNCHANGED <<peer, remote, astray, met>>

(* rpc finds no peer or no stream, or a handshake comes that was not waited  *)
(* for, or without a peer.                                                   *)
Holds ==
  /\ call = "idle" /\ call' = "holds" /\ calls' = calls + 1
  /\ UNCHANGED <<behaviour, said, id, peer, stream, hand, remote, astray, met>>

Greeted ==
  /\ hand.kind = "HandshakeDone" /\ hand' = Nothing
  /\ stream' = IF stream = NoStream THEN hand.stream ELSE stream
  /\ UNCHANGED <<behaviour, said, id, call, peer, calls, remote, astray, met>>

LEMMA ClientSteps ==
  ASSUME [Next]_vars
  PROVE  \/ UNCHANGED vars
         \/ Queries
         \/ Holds
         \/ Greeted
         \/ NextEvent
         \/ OnEstablished
         \/ OnClosed
         \/ OnQuery
         \/ OnResponse
         \/ Swarm
         \/ \E c \in Conns, p \in Peers : Established(c, p)
         \/ \E c \in Conns : Take(c)
         \/ \E c \in Conns : RemoteOpens(c)
         \/ \E c \in Conns : Greet(c)
         \/ \E c \in Conns : Reply(c)
         \/ \E c \in Conns : RemoteAsks(c)
         \/ \E c \in Conns : End(c)
<1>1. Rpc => Queries \/ Holds
  BY DEF Rpc, Ask, Says, Query, Queries, Holds, remote, behaviour
<1>2. OnHandshake => Queries \/ Greeted
  BY DEF OnHandshake, Ask, Says, Query, Queries, Greeted, remote, behaviour
<1> QED BY <1>1, <1>2 DEF Next, Arm

Entries == Routed!Notifications \cup Routed!Happenings

LEMMA QueueIs ==
  ASSUME Routed!TypeOK
  PROVE  /\ queue \in Seq(Entries) /\ Len(queue) \in Nat /\ DOMAIN queue = 1..Len(queue)
         /\ \A k \in DOMAIN queue : queue[k] \in Entries
<1>1. queue \in Seq(Entries) BY DEF Routed!TypeOK, Entries
<1> HIDE DEF Entries
<1>2. Len(queue) \in Nat /\ DOMAIN queue = 1..Len(queue) BY <1>1, LenProperties
<1>3. \A k \in DOMAIN queue : queue[k] \in Entries BY <1>1, <1>2, ElementOfSeq
<1> QED BY <1>1, <1>2, <1>3

LEMMA EntryIs ==
  ASSUME NEW e \in Entries
  PROVE  /\ e.peer \in Peers /\ e.conn \in Conns /\ e.to \in {"handler", "user"}
         /\ e.to = "handler" => e.cmd \in Nat
         /\ e.to = "user" => e.event \in {"ConnectionEstablished", "ConnectionClosed", "Stream"}
BY DEF Entries, Routed!Notifications, Routed!Happenings, Routed!Kinds

LEMMA FirstIs ==
  ASSUME Routed!TypeOK, queue # <<>>
  PROVE  /\ Head(queue) \in Entries /\ 1 \in DOMAIN queue /\ Head(queue) = queue[1]
         /\ DOMAIN Tail(queue) = 1..(Len(queue) - 1)
         /\ \A k \in DOMAIN Tail(queue) :
              k + 1 \in DOMAIN queue /\ k + 1 # 1 /\ Tail(queue)[k] = queue[k + 1]
<1> HIDE DEF Entries
<1>1. queue \in Seq(Entries) BY QueueIs
<1>2. /\ Head(queue) \in Entries /\ Head(queue) = queue[1] /\ Tail(queue) \in Seq(Entries)
      /\ Len(Tail(queue)) = Len(queue) - 1
      /\ \A k \in 1..Len(Tail(queue)) : Tail(queue)[k] = queue[k + 1]
  BY <1>1, HeadTailProperties
<1>3. Len(queue) \in Nat \ {0} /\ DOMAIN queue = 1..Len(queue) BY <1>1, EmptySeq, QueueIs
<1>4. DOMAIN Tail(queue) = 1..(Len(queue) - 1) BY <1>2, LenProperties
<1> QED BY <1>2, <1>3, <1>4

(* What the hand and the client have of peers.                               *)
Posed == (hand = Nothing \/ hand.peer \in Peers) /\ peer \in Peers \cup {NoPeer}

LEMMA HeldIs ==
  ASSUME Posed, hand.kind # "Nothing"
  PROVE  hand.peer \in Peers
BY DEF Posed, Nothing

(* What the event next in the queue says.                                    *)
What(e) ==
  IF e.event = "Stream"
  THEN told[e.conn][Nth(heard'[e.conn], "Stream")] ELSE [kind |-> e.event]

LEMMA Polled ==
  ASSUME Routed!TypeOK, NextEvent
  PROVE  /\ Routed!PollEvent /\ Head(queue) \in Entries /\ Head(queue).to = "user"
         /\ hand = Nothing /\ hand' = Event(Head(queue), What(Head(queue)))
         /\ hand'.peer = Head(queue).peer
         /\ queue # <<>> /\ queue' = Tail(queue)
         /\ heard' = [heard EXCEPT ![Head(queue).conn] = Append(@, Head(queue).event)]
         /\ UNCHANGED <<client, said, remote, astray, met, pool, ended, issued, taken,
                        emitted>>
<1>1. Behaviour!PollEvent /\ queue # <<>> BY DEF NextEvent, Behaviour!PollEvent
<1>2. Head(queue) \in Entries BY <1>1, FirstIs
<1>3. Behaviour!Popped = <<Head(queue), Tail(queue)>> BY DEF Behaviour!Popped
<1>4. hand' = Event(Head(queue), What(Head(queue)))
  BY <1>3 DEF NextEvent, What
<1>5. hand'.peer = Head(queue).peer BY <1>4 DEF Event
<1> QED BY <1>1, <1>2, <1>3, <1>4, <1>5, PollRouted
        DEF NextEvent, Polling, Behaviour!PollEvent, Behaviour!links

LEMMA InitPosed == Init => Posed
BY DEF Init, Posed

LEMMA NextPosed == Routed!TypeOK /\ Posed /\ [Next]_vars => Posed'
<1> SUFFICES ASSUME Routed!TypeOK, Posed, [Next]_vars PROVE Posed'
  OBVIOUS
<1>1. CASE NextEvent
  <2>1. Head(queue) \in Entries /\ hand'.peer = Head(queue).peer /\ UNCHANGED peer
    BY <1>1, Polled DEF client
  <2> QED BY <2>1, EntryIs DEF Posed
<1>2. CASE (hand' = Nothing \/ hand' = hand) /\ (peer' = peer \/ peer' = NoPeer)
  BY <1>2 DEF Posed
<1>3. CASE OnEstablished
  <2>1. hand.peer \in Peers BY <1>3, HeldIs DEF OnEstablished
  <2> QED BY <1>3, <2>1 DEF OnEstablished, Posed
<1>4. CASE Queries BY <1>2, <1>4 DEF Queries
<1>5. CASE Holds \/ Greeted BY <1>2, <1>5 DEF Holds, Greeted
<1>6. CASE OnClosed \/ OnQuery \/ OnResponse
  BY <1>2, <1>6 DEF OnClosed, OnQuery, OnResponse, client
<1>7. CASE Swarm BY <1>2, <1>7 DEF Swarm, client
<1>8. ASSUME NEW c \in Conns, NEW p \in Peers, Established(c, p) PROVE Posed'
  BY <1>2, <1>8 DEF Established, client
<1>9. ASSUME NEW c \in Conns, \/ Take(c) \/ RemoteOpens(c) \/ Greet(c)
                              \/ Reply(c) \/ RemoteAsks(c) \/ End(c)
      PROVE  Posed'
  BY <1>2, <1>9 DEF Take, RemoteOpens, Greet, Reply, RemoteAsks, Tell, End, client
<1>10. CASE UNCHANGED vars BY <1>2, <1>10 DEF vars, client
<1> QED BY <1>1, <1>3, <1>4, <1>5, <1>6, <1>7, <1>8, <1>9, <1>10, ClientSteps

(* A command is issued by one of three steps.                                *)
LEMMA Speaking ==
  ASSUME Posed, OnEstablished \/ OnQuery \/ Queries
  PROVE  \/ OnEstablished /\ hand.peer \in Peers /\ Says(hand.peer, Opening)
         \/ OnQuery /\ hand.peer \in Peers /\ Says(hand.peer, Response(hand.stream))
         \/ Queries /\ peer \in Peers /\ Says(peer, Query(stream'))
<1>1. CASE OnEstablished
  BY <1>1, HeldIs DEF OnEstablished, Says, Opening
<1>2. CASE OnQuery BY <1>2, HeldIs DEF OnQuery, Says, Response
<1>3. CASE Queries BY <1>3 DEF Queries, Posed
<1> QED BY <1>1, <1>2, <1>3

(* The client takes the steps of the behaviour.                              *)
LEMMA NextRouted == Routed!TypeOK /\ Posed /\ [Next]_vars => [Routed!Next]_(Routed!vars)
<1> SUFFICES ASSUME Routed!TypeOK, Posed, [Next]_vars PROVE [Routed!Next]_(Routed!vars)
  OBVIOUS
<1>1. UNCHANGED behaviour => UNCHANGED Routed!vars
  BY DEF behaviour, Routed!vars, Routed!own, Routed!links
<1>2. CASE NextEvent
  BY <1>2, Polled DEF Routed!Next, Routed!Swarm
<1>3. CASE Swarm
  BY <1>3, PollRouted, EventsRouted DEF Swarm, Routed!Next, Routed!Swarm
<1>4. ASSUME NEW c \in Conns, NEW p \in Peers, Established(c, p)
      PROVE  [Routed!Next]_(Routed!vars)
  BY <1>4, EstablishedRouted DEF Established, Routed!Next
<1>5. ASSUME NEW c \in Conns, Take(c) \/ Greet(c) \/ Reply(c) \/ RemoteAsks(c) \/ End(c)
      PROVE  [Routed!Next]_(Routed!vars)
  <2>1. Behaviour!Take(c) \/ Behaviour!Emit(c) \/ Behaviour!End(c)
    BY <1>5 DEF Take, Greet, Reply, RemoteAsks, Tell, End
  <2> QED BY <2>1, TasksRouted DEF Routed!Next
<1>6. CASE OnEstablished \/ OnQuery \/ Queries
  <2>1. \E p \in Peers : Behaviour!Dispatch(p) BY <1>6, Speaking DEF Says
  <2> QED BY <2>1, DispatchRouted DEF Routed!Next
<1>7. CASE Holds \/ Greeted \/ OnClosed \/ OnResponse \/ \E c \in Conns : RemoteOpens(c)
  BY <1>1, <1>7 DEF Holds, Greeted, OnClosed, OnResponse, RemoteOpens
<1>8. CASE UNCHANGED vars BY <1>1, <1>8 DEF vars
<1> QED BY <1>2, <1>3, <1>4, <1>5, <1>6, <1>7, <1>8, ClientSteps

LEMMA Assumed == Routed!RpcBehaviourAssumption
BY RpcClientAssumption DEF Routed!RpcBehaviourAssumption

(* The client implements the behaviour's specification: what it calls        *)
(* (client.rs:38-110) and what remotes do leave the steps of behaviour.rs as *)
(* they are, so that all that is proved of them holds here.                  *)
THEOREM Implements == Spec => Routed!Spec
<1> DEFINE Inv == Routed!TypeOK /\ Posed
<1>1. Init => Inv
  BY InitRouted, InitPosed, Assumed, Routed!InitTypeOK
<1>2. Inv /\ [Next]_vars => Inv'
  BY NextRouted, NextPosed, Assumed, Routed!NextTypeOK
<1>3. Spec => []Inv BY <1>1, <1>2, PTL DEF Spec
<1>4. Inv /\ [Next]_vars => [Routed!Next]_(Routed!vars) BY NextRouted
<1> QED BY <1>3, <1>4, InitRouted, PTL DEF Spec, Routed!Spec

-----------------------------------------------------------------------------
(* The types of what this module adds, and what the hand has of the events   *)
(* of a handler: the one that the latest stream event heard of stands for.   *)

Heard(c) == Nth(heard[c], "Stream")

Ends == {In, Out}

Sayings ==
  {Opening} \cup [kind : {"Query"}, stream : Ends, id : Nat]
            \cup [kind : {"Response"}, stream : Ends]

Tellings ==
  [kind : {"HandshakeDone", "Query"}, stream : Ends]
  \cup [kind : {"Response"}, stream : Ends, id : Nat]

Types ==
  /\ stream \in Ends \cup {NoStream} /\ id \in Nat \ {0}
  /\ call \in {"idle", "holds", "waits"} /\ calls \in Nat
  /\ said \in Seq(Sayings) /\ Len(said) = Len(issued)
  /\ told \in [Conns -> Seq(Tellings)] /\ met \in [Peers -> Nat]
  /\ streams \in [Conns -> SUBSET Ends] /\ greets \in [Conns -> SUBSET Ends]
  /\ asked \in [Conns -> SUBSET Nat]

SaidAs(n, kind) == n \in DOMAIN said /\ said[n].kind = kind

(* What a remote has not answered was asked on its connection.               *)
Asked == \A c \in Conns : \A n \in asked[c] : n \in ToSet(taken[c]) /\ SaidAs(n, "Query")

Carries(h, t) ==
  h.kind = t.kind /\ h.stream = t.stream /\ (t.kind = "Response" => h.id = t.id)

Handed ==
  \/ hand = Nothing \/ hand.kind \in {"ConnectionEstablished", "ConnectionClosed"}
  \/ \E c \in Conns : Heard(c) \in DOMAIN told[c] /\ Carries(hand, told[c][Heard(c)])

Base == Routed!Footing /\ Posed /\ Types /\ Asked /\ Handed

LEMMA SayingIs ==
  ASSUME NEW a \in Sayings
  PROVE  /\ a.kind \in {"Open", "Query", "Response"}
         /\ a.kind = "Query" => a.stream \in Ends /\ a.id \in Nat
         /\ a.kind = "Open" => a.stream = Out
BY DEF Sayings, Opening

LEMMA SaidIs ==
  ASSUME Types, Routed!TypeOK
  PROVE  /\ said \in Seq(Sayings) /\ Len(said) \in Nat /\ DOMAIN said = 1..Len(said)
         /\ issued \in Seq(Peers) /\ DOMAIN issued = 1..Len(said)
         /\ \A n \in DOMAIN said : said[n] \in Sayings /\ issued[n] \in Peers
<1>1. said \in Seq(Sayings) /\ issued \in Seq(Peers) /\ Len(said) = Len(issued)
  BY DEF Types, Routed!TypeOK
<1> HIDE DEF Sayings
<1>2. Len(said) \in Nat /\ DOMAIN said = 1..Len(said) BY <1>1, LenProperties
<1>3. DOMAIN issued = 1..Len(said) BY <1>1, LenProperties
<1>4. \A n \in DOMAIN said : said[n] \in Sayings BY <1>1, <1>2, ElementOfSeq
<1>5. \A n \in DOMAIN said : issued[n] \in Peers BY <1>1, <1>2, <1>3, ElementOfSeq
<1> QED BY <1>1, <1>2, <1>3, <1>4, <1>5

LEMMA TellingIs ==
  ASSUME NEW t \in Tellings
  PROVE  /\ t.kind \in {"HandshakeDone", "Query", "Response"} /\ t.stream \in Ends
         /\ t.kind = "Response" => t.id \in Nat
BY DEF Tellings

LEMMA ToldIs ==
  ASSUME Types, NEW c \in Conns
  PROVE  /\ told[c] \in Seq(Tellings) /\ Len(told[c]) \in Nat /\ DOMAIN told[c] = 1..Len(told[c])
         /\ \A k \in DOMAIN told[c] : told[c][k] \in Tellings
<1>1. told[c] \in Seq(Tellings) BY DEF Types
<1> HIDE DEF Tellings
<1>2. Len(told[c]) \in Nat /\ DOMAIN told[c] = 1..Len(told[c]) BY <1>1, LenProperties
<1>3. \A k \in DOMAIN told[c] : told[c][k] \in Tellings BY <1>1, <1>2, ElementOfSeq
<1> QED BY <1>1, <1>2, <1>3

LEMMA HandIs ==
  ASSUME Types, Handed, hand.kind \in {"HandshakeDone", "Query", "Response"}
  PROVE  \E c \in Conns : /\ Heard(c) \in DOMAIN told[c] /\ Carries(hand, told[c][Heard(c)])
                          /\ told[c][Heard(c)] \in Tellings
                          /\ hand.stream \in Ends
<1>1. PICK c \in Conns : Heard(c) \in DOMAIN told[c] /\ Carries(hand, told[c][Heard(c)])
  BY DEF Handed, Nothing
<1>2. told[c][Heard(c)] \in Tellings BY <1>1, ToldIs
<1>3. hand.stream \in Ends BY <1>1, <1>2, TellingIs DEF Carries
<1> QED BY <1>1, <1>2, <1>3

(* A command is given: what it says, and whom it is for.                     *)
LEMMA Stated ==
  ASSUME Types, Routed!TypeOK, NEW p \in Peers, NEW what \in Sayings, Says(p, what)
  PROVE  /\ said' \in Seq(Sayings) /\ Len(said') = Len(issued')
         /\ DOMAIN said' = 1..(Len(said) + 1) /\ Len(said) \in Nat
         /\ DOMAIN said = 1..Len(said)
         /\ said'[Len(said) + 1] = what /\ issued'[Len(said) + 1] = p
         /\ \A m \in DOMAIN said : /\ m \in DOMAIN said' /\ said'[m] = said[m]
                                   /\ issued'[m] = issued[m]
         /\ UNCHANGED <<pool, ended, taken, heard, emitted>>
         /\ \/ UNCHANGED queue
            \/ \E e \in Entries : queue' = Append(queue, e) /\ e.to = "handler"
<1> HIDE DEF Sayings, Entries
<1>1. said \in Seq(Sayings) /\ Len(said) \in Nat /\ DOMAIN said = 1..Len(said)
      /\ issued \in Seq(Peers) /\ Len(issued) = Len(said)
  BY SaidIs DEF Types
<1>2. said' = Append(said, what) BY DEF Says
<1>3. Routed!Dispatch(p) BY DispatchRouted DEF Says
<1>4. issued' = Append(issued, p) BY <1>3 DEF Routed!Dispatch
<1>5. /\ said' \in Seq(Sayings) /\ Len(said') = Len(said) + 1
      /\ \A i \in 1..Len(said) : said'[i] = said[i]
      /\ said'[Len(said) + 1] = what
  BY <1>1, <1>2, AppendProperties
<1>6. /\ issued' \in Seq(Peers) /\ Len(issued') = Len(said) + 1
      /\ \A i \in 1..Len(said) : issued'[i] = issued[i]
      /\ issued'[Len(said) + 1] = p
  BY <1>1, <1>4, AppendProperties
<1>7. DOMAIN said' = 1..(Len(said) + 1) BY <1>5, LenProperties
<1>8. \/ UNCHANGED queue
      \/ \E e \in Entries : queue' = Append(queue, e) /\ e.to = "handler"
  <2> DEFINE e == Routed!Notify(p, peers[p], Len(issued'))
  <2>1. CASE peers[p] # NoConn
    <3>1. peers[p] \in Conns BY <2>1 DEF Routed!TypeOK
    <3>2. e \in Entries /\ e.to = "handler"
      BY <1>1, <1>6, <3>1 DEF Entries, Routed!Notify, Routed!Notifications
    <3>3. queue' = Append(queue, e) BY <1>3, <2>1 DEF Routed!Dispatch
    <3> QED BY <3>2, <3>3
  <2>2. CASE peers[p] = NoConn BY <1>3, <2>2 DEF Routed!Dispatch
  <2> QED BY <2>1, <2>2
<1>9. UNCHANGED <<pool, ended, taken, heard, emitted>>
  BY <1>3 DEF Routed!Dispatch, Routed!links
<1>10. \A m \in DOMAIN said : m \in DOMAIN said' BY <1>1, <1>7
<1> QED BY <1>1, <1>5, <1>6, <1>7, <1>8, <1>9, <1>10

(* What the commands say.                                                    *)
LEMMA Spoken ==
  ASSUME Types, Posed, Handed, OnEstablished \/ OnQuery \/ Queries
  PROVE  /\ \E p \in Peers, what \in Sayings :
              /\ Says(p, what)
              /\ \/ OnEstablished /\ what = Opening /\ p = hand.peer
                 \/ OnQuery /\ what.kind = "Response"
                 \/ /\ Queries /\ p = peer /\ what = Query(stream') /\ stream' \in Ends
                    /\ what.kind = "Query" /\ what.id = id /\ what.stream = stream'
         /\ hand' = hand \/ hand' = Nothing
         /\ UNCHANGED <<remote, astray, met>>
<1>1. CASE OnEstablished
  <2>1. Opening \in Sayings BY DEF Sayings
  <2>2. hand.peer \in Peers /\ Says(hand.peer, Opening)
    BY <1>1, HeldIs DEF OnEstablished, Says, Opening
  <2>3. hand' = Nothing /\ UNCHANGED <<remote, astray, met>> BY <1>1 DEF OnEstablished
  <2> QED BY <1>1, <2>1, <2>2, <2>3
<1>2. CASE OnQuery
  <2>1. hand.peer \in Peers /\ Says(hand.peer, Response(hand.stream))
    BY <1>2, HeldIs DEF OnQuery, Says, Response
  <2>2. hand.stream \in Ends BY <1>2, HandIs DEF OnQuery
  <2>3. Response(hand.stream) \in Sayings /\ Response(hand.stream).kind = "Response"
    BY <2>2 DEF Sayings, Response
  <2> QED BY <1>2, <2>1, <2>3 DEF OnQuery
<1>3. CASE Queries
  <2>1. peer \in Peers /\ Says(peer, Query(stream')) BY <1>3 DEF Queries, Posed
  <2>2. stream' \in Ends
    <3>1. CASE stream # NoStream BY <1>3, <3>1 DEF Queries, Types
    <3>2. CASE hand.kind = "HandshakeDone" BY <1>3, <3>2, HandIs DEF Queries, Types
    <3> QED BY <1>3, <3>1, <3>2 DEF Queries
  <2>3. /\ Query(stream') \in Sayings /\ Query(stream').kind = "Query"
        /\ Query(stream').id = id /\ Query(stream').stream = stream'
    BY <2>2 DEF Sayings, Query, Types
  <2> QED BY <1>3, <2>1, <2>2, <2>3 DEF Queries
<1> QED BY <1>1, <1>2, <1>3

(* The steps that say nothing, grouped by what they leave alone.             *)
LEMMA Quiet ==
  ASSUME Holds \/ Greeted \/ OnClosed \/ OnResponse
  PROVE  /\ UNCHANGED <<behaviour, said, id, remote, astray, met>>
         /\ UNCHANGED <<queue, pool, ended, taken, heard, issued, emitted>>
         /\ hand' = hand \/ hand' = Nothing
BY DEF Holds, Greeted, OnClosed, OnResponse, behaviour

LEMMA Polls ==
  ASSUME Routed!TypeOK, Swarm \/ NextEvent \/ \E c \in Conns, p \in Peers : Established(c, p)
  PROVE  UNCHANGED <<client, said, remote, astray, issued, taken, ended, emitted>>
<1>1. CASE NextEvent
  BY <1>1, Polled DEF Behaviour!PollEvent, Behaviour!links, NextEvent
<1>2. CASE Swarm
  BY <1>2 DEF Swarm, Behaviour!PollNotify, Behaviour!Closed, Behaviour!HandlerEvent
<1>3. CASE \E c \in Conns, p \in Peers : Established(c, p)
  BY <1>3 DEF Established, Behaviour!Established, Behaviour!links
<1> QED BY <1>1, <1>2, <1>3

LEMMA Tasks ==
  ASSUME NEW c \in Conns, \/ Take(c) \/ RemoteOpens(c) \/ Greet(c) \/ Reply(c)
                          \/ RemoteAsks(c) \/ End(c)
  PROVE  UNCHANGED <<client, hand, said, met, queue, heard, issued, pool>>
<1>1. CASE Take(c) BY <1>1 DEF Take, Behaviour!Take, Behaviour!own
<1>2. CASE RemoteOpens(c) BY <1>2 DEF RemoteOpens, behaviour
<1>3. CASE Greet(c) \/ Reply(c) \/ RemoteAsks(c)
  BY <1>3 DEF Greet, Reply, RemoteAsks, Tell, Behaviour!Emit, Behaviour!own
<1>4. CASE End(c) BY <1>4 DEF End, Behaviour!End, Behaviour!own
<1> QED BY <1>1, <1>2, <1>3, <1>4

(* A handler tells what a remote said.                                       *)
LEMMA Telling ==
  ASSUME Types, NEW c \in Conns, NEW what \in Tellings, Tell(c, what)
  PROVE  /\ told' \in [Conns -> Seq(Tellings)]
         /\ \A d \in Conns : d # c => told'[d] = told[d]
         /\ Len(told'[c]) = Len(told[c]) + 1 /\ DOMAIN told'[c] = 1..(Len(told[c]) + 1)
         /\ \A k \in DOMAIN told[c] : k \in DOMAIN told'[c] /\ told'[c][k] = told[c][k]
         /\ told'[c][Len(told[c]) + 1] = what
         /\ UNCHANGED <<streams, astray, taken, ended>>
<1>1. told' = [told EXCEPT ![c] = Append(@, what)] BY DEF Tell
<1>2. told[c] \in Seq(Tellings) /\ told \in [Conns -> Seq(Tellings)] BY DEF Types
<1>3. DOMAIN told[c] = 1..Len(told[c]) /\ Len(told[c]) \in Nat BY ToldIs
<1> HIDE DEF Tellings
<1> DEFINE t == Append(told[c], what)
<1>4. /\ t \in Seq(Tellings) /\ Len(t) = Len(told[c]) + 1
      /\ \A i \in 1..Len(told[c]) : t[i] = told[c][i]
      /\ t[Len(told[c]) + 1] = what
  BY <1>2, AppendProperties
<1>5. told'[c] = t BY <1>1, <1>2
<1> HIDE DEF t
<1>6. DOMAIN t = 1..Len(t) BY <1>4, LenProperties
<1>7. told' \in [Conns -> Seq(Tellings)]
  <2>1. told' = [told EXCEPT ![c] = t] BY <1>1 DEF t
  <2> QED BY <1>2, <1>4, <2>1
<1>8. \A d \in Conns : d # c => told'[d] = told[d] BY <1>1, <1>2
<1>9. UNCHANGED <<streams, astray, taken, ended>> BY DEF Tell, Behaviour!Emit
<1> QED BY <1>3, <1>4, <1>5, <1>6, <1>7, <1>8, <1>9

LEMMA Tells ==
  ASSUME Types, Routed!TypeOK, Asked, NEW c \in Conns, Greet(c) \/ Reply(c) \/ RemoteAsks(c)
  PROVE  \E what \in Tellings :
           /\ Tell(c, what)
           /\ \/ /\ what.kind = "HandshakeDone" /\ what.stream \in greets[c]
                 /\ \E s : greets' = [greets EXCEPT ![c] = @ \ {s}]
                 /\ UNCHANGED asked
              \/ /\ what.kind = "Query" /\ UNCHANGED <<greets, asked>>
              \/ /\ what.kind = "Response" /\ UNCHANGED greets
                 /\ \E n \in asked[c] : /\ SaidAs(n, "Query") /\ what.id = said[n].id
                                        /\ asked' = [asked EXCEPT ![c] = @ \ {n}]
<1>1. CASE Greet(c)
  <2>1. PICK s \in greets[c] : /\ Tell(c, [kind |-> "HandshakeDone", stream |-> s])
                               /\ greets' = [greets EXCEPT ![c] = @ \ {s}]
                               /\ UNCHANGED asked
    BY <1>1 DEF Greet
  <2> DEFINE w == [kind |-> "HandshakeDone", stream |-> s]
  <2>2. s \in Ends BY DEF Types
  <2>3. w \in Tellings /\ w.kind = "HandshakeDone" /\ w.stream = s BY <2>2 DEF Tellings
  <2>4. Tell(c, w) BY <2>1
  <2> HIDE DEF w
  <2> QED BY <2>1, <2>3, <2>4
<1>2. CASE Reply(c)
  <2>1. PICK n \in asked[c] :
          /\ Tell(c, [kind |-> "Response", stream |-> said[n].stream, id |-> said[n].id])
          /\ asked' = [asked EXCEPT ![c] = @ \ {n}] /\ UNCHANGED greets
    BY <1>2 DEF Reply
  <2> DEFINE w == [kind |-> "Response", stream |-> said[n].stream, id |-> said[n].id]
  <2>2. SaidAs(n, "Query") BY DEF Asked
  <2>3. said[n].stream \in Ends /\ said[n].id \in Nat
    BY <2>2, SaidIs, SayingIs DEF SaidAs
  <2>4. w \in Tellings /\ w.kind = "Response" /\ w.id = said[n].id BY <2>3 DEF Tellings
  <2>5. Tell(c, w) BY <2>1
  <2> HIDE DEF w
  <2> QED BY <2>1, <2>2, <2>4, <2>5
<1>3. CASE RemoteAsks(c)
  <2>1. PICK s \in streams[c] \ greets[c] : /\ Tell(c, [kind |-> "Query", stream |-> s])
                                            /\ UNCHANGED <<greets, asked>>
    BY <1>3 DEF RemoteAsks
  <2> DEFINE w == [kind |-> "Query", stream |-> s]
  <2>2. s \in Ends BY DEF Types
  <2>3. w \in Tellings /\ w.kind = "Query" BY <2>2 DEF Tellings
  <2>4. Tell(c, w) BY <2>1
  <2> HIDE DEF w
  <2> QED BY <2>1, <2>3, <2>4
<1> QED BY <1>1, <1>2, <1>3

(* A handler takes the command n.                                            *)
Takes(c, n) ==
  /\ c \in DOMAIN pool /\ issued[n] = pool[c]
  /\ \A m \in ToSet(taken[c]) : m \in Nat /\ m < n
  /\ \A d \in Conns : n \notin ToSet(taken[d])
  /\ \A d \in Conns :
       ToSet(taken'[d]) = ToSet(taken[d]) \cup (IF d = c THEN {n} ELSE {})
  /\ \E s \in {{}, {Out}} : /\ streams' = [streams EXCEPT ![c] = @ \cup s]
                            /\ greets' = [greets EXCEPT ![c] = @ \cup s]
  /\ \E r \in SUBSET asked[c], q \in SUBSET {n} :
       /\ asked' = [asked EXCEPT ![c] = (@ \ r) \cup q]
       /\ q # {} => SaidAs(n, "Query")
  /\ \A m \in astray' \ astray :
       \/ m \in asked[c] /\ SaidAs(n, "Open")
       \/ m = n /\ SaidAs(n, "Query") /\ said[n].stream \notin streams[c] \cup {Out}
  /\ UNCHANGED <<told, ended>>

LEMMA Taking ==
  ASSUME Types, Routed!Footing, NEW c \in Conns, Take(c)
  PROVE  \E n \in DOMAIN said : Takes(c, n)
<1> DEFINE n == Head(inbox[c])
           replaced == {m \in asked[c] : said[n].kind = "Open" /\ said[m].stream = Out}
           missed == {m \in {n} : said[n].kind = "Query" /\
                                  said[n].stream \notin streams[c] \cup {Out}}
           query == {m \in {n} : said[n].kind = "Query"}
           s == IF Opens(c, said[n]) THEN {Out} ELSE {}
<1>1. Routed!Take(c) BY TasksRouted DEF Take
<1>2. \A x : Routed!ToSet(x) = ToSet(x) BY DEF ToSet, Routed!ToSet
<1>3. /\ n \in DOMAIN issued /\ c \in DOMAIN pool /\ issued[n] = pool[c]
      /\ \A m \in ToSet(taken[c]) : m \in Nat /\ m < n
      /\ \A d \in Conns : n \notin ToSet(taken[d])
      /\ \A d \in Conns :
           ToSet(taken'[d]) = ToSet(taken[d]) \cup (IF d = c THEN {n} ELSE {})
  <2>1. /\ n \in DOMAIN issued /\ Routed!Known(c) /\ issued[n] = pool[c]
        /\ \A m \in Routed!ToSet(taken[c]) : m \in Nat /\ m < n
        /\ \A d \in Conns : n \notin Routed!ToSet(taken[d])
        /\ \A d \in Conns : Routed!ToSet(taken'[d]) =
             Routed!ToSet(taken[d]) \cup (IF d = c THEN {n} ELSE {})
    BY <1>1, Assumed, Routed!NextTaken
  <2> HIDE DEF n
  <2> QED BY <1>2, <2>1 DEF Routed!Known
<1>4. n \in DOMAIN said
  <2>1. DOMAIN said = 1..Len(said) /\ DOMAIN issued = 1..Len(said)
    BY SaidIs DEF Routed!Footing, Routed!Ground
  <2> QED BY <1>3, <2>1
<1>5. /\ streams' = [streams EXCEPT ![c] = StreamsAfter(c, said[n])]
      /\ greets' = [greets EXCEPT ![c] = IF Opens(c, said[n]) THEN @ \cup {Out} ELSE @]
      /\ asked' = [asked EXCEPT ![c] = (@ \ replaced) \cup (query \ missed)]
      /\ astray' = astray \cup replaced \cup missed
      /\ UNCHANGED told
  BY DEF Take
<1>6. UNCHANGED ended BY <1>1 DEF Routed!Take
<1> HIDE DEF n
<1>7. streams \in [Conns -> SUBSET Ends] /\ greets \in [Conns -> SUBSET Ends] BY DEF Types
<1>8. s \in {{}, {Out}} OBVIOUS
<1>9. streams' = [streams EXCEPT ![c] = @ \cup s] /\ greets' = [greets EXCEPT ![c] = @ \cup s]
  <2>1. StreamsAfter(c, said[n]) = streams[c] \cup s BY DEF StreamsAfter
  <2>2. (IF Opens(c, said[n]) THEN greets[c] \cup {Out} ELSE greets[c]) = greets[c] \cup s
    OBVIOUS
  <2> HIDE DEF s
  <2> QED BY <1>5, <1>7, <2>1, <2>2
<1>10. /\ replaced \in SUBSET asked[c] /\ query \ missed \in SUBSET {n}
       /\ query \ missed # {} => SaidAs(n, "Query")
  BY <1>4 DEF SaidAs
<1>11. ASSUME NEW m \in astray' \ astray
       PROVE  \/ m \in asked[c] /\ SaidAs(n, "Open")
              \/ m = n /\ SaidAs(n, "Query") /\ said[n].stream \notin streams[c] \cup {Out}
  <2>1. m \in replaced \/ m \in missed BY <1>5, <1>11
  <2> QED BY <1>4, <2>1 DEF SaidAs
<1>12. \E r \in SUBSET asked[c], q \in SUBSET {n} :
         /\ asked' = [asked EXCEPT ![c] = (@ \ r) \cup q]
         /\ q # {} => SaidAs(n, "Query")
  <2> DEFINE q == query \ missed
  <2>1. asked' = [asked EXCEPT ![c] = (@ \ replaced) \cup q] BY <1>5
  <2>2. q \in SUBSET {n} /\ (q # {} => SaidAs(n, "Query")) BY <1>10
  <2> HIDE DEF replaced, q
  <2> QED BY <1>10, <2>1, <2>2
<1> HIDE DEF replaced, missed, query, s
<1>13. \E x \in {{}, {Out}} : /\ streams' = [streams EXCEPT ![c] = @ \cup x]
                              /\ greets' = [greets EXCEPT ![c] = @ \cup x]
  BY <1>8, <1>9
<1> QED BY <1>3, <1>4, <1>5, <1>6, <1>11, <1>12, <1>13 DEF Takes

-----------------------------------------------------------------------------
LEMMA BaseIs == Base => Routed!Footing /\ Routed!TypeOK /\ Posed /\ Types /\ Asked /\ Handed
BY DEF Base, Routed!Footing, Routed!Ground

LEMMA InitTypes == Init => Types /\ Asked /\ Handed
<1> SUFFICES ASSUME Init PROVE Types /\ Asked /\ Handed
  OBVIOUS
<1>1. Len(said) = 0 /\ Len(issued) = 0 /\ said \in Seq(Sayings)
  BY EmptySeq DEF Init, Behaviour!Init
<1>2. told \in [Conns -> Seq(Tellings)] BY EmptySeq DEF Init
<1> QED BY <1>1, <1>2 DEF Init, Types, Asked, Handed

LEMMA NextTypes == Base /\ [Next]_vars => Types'
<1> SUFFICES ASSUME Types, Routed!TypeOK, Routed!Footing, Posed, Asked, Handed, [Next]_vars
             PROVE  Types'
  BY BaseIs
<1> HIDE DEF Sayings, Tellings, Entries
<1>1. CASE UNCHANGED <<client, said, told, issued, streams, greets, asked, met>>
  BY <1>1 DEF Types, client
<1>2. CASE OnEstablished \/ OnQuery \/ Queries
  <2>1. said' \in Seq(Sayings) /\ Len(said') = Len(issued') BY <1>2, Spoken, Stated
  <2>2. /\ stream' \in Ends \cup {NoStream} /\ id' \in Nat \ {0}
        /\ call' \in {"idle", "holds", "waits"} /\ calls' \in Nat
    <3>1. CASE OnEstablished \/ OnQuery
      BY <3>1 DEF OnEstablished, OnQuery, client, Types
    <3>2. CASE Queries
      <4>1. stream' \in Ends \cup {NoStream}
        BY <3>2, HandIs DEF Queries, Types
      <4> QED BY <3>2, <4>1 DEF Queries, Types
    <3> QED BY <1>2, <3>1, <3>2
  <2>3. UNCHANGED <<remote, met>> BY <1>2, Spoken
  <2> QED BY <2>1, <2>2, <2>3 DEF Types, remote
<1>3. CASE Holds \/ Greeted \/ OnClosed \/ OnResponse
  <2>1. UNCHANGED <<said, id, remote, met, issued>> BY <1>3, Quiet
  <2>2. stream' \in Ends \cup {NoStream}
    BY <1>3, HandIs DEF Holds, Greeted, OnClosed, OnResponse, Types
  <2>3. call' \in {"idle", "holds", "waits"} /\ calls' \in Nat
    BY <1>3 DEF Holds, Greeted, OnClosed, OnResponse, Types
  <2> QED BY <2>1, <2>2, <2>3 DEF Types, remote
<1>4. CASE NextEvent \/ Swarm
  BY <1>1, <1>4, Polls, Polled DEF remote, Swarm
<1>5. ASSUME NEW c \in Conns, NEW p \in Peers, Established(c, p) PROVE Types'
  <2>1. UNCHANGED <<client, said, remote, issued>> BY <1>5, Polls
  <2>2. met' \in [Peers -> Nat] BY <1>5 DEF Established, Types
  <2> QED BY <2>1, <2>2 DEF Types, client, remote
<1>6. ASSUME NEW c \in Conns, Take(c) PROVE Types'
  <2>1. UNCHANGED <<client, said, met, issued>> BY <1>6, Tasks
  <2>2. PICK n \in DOMAIN said : Takes(c, n) BY <1>6, Taking
  <2>3. {Out} \subseteq Ends BY DEF Ends
  <2>4. n \in Nat BY SaidIs
  <2>5. /\ streams' \in [Conns -> SUBSET Ends] /\ greets' \in [Conns -> SUBSET Ends]
        /\ asked' \in [Conns -> SUBSET Nat]
    BY <2>2, <2>3, <2>4 DEF Types, Takes
  <2>6. UNCHANGED told BY <2>2 DEF Takes
  <2> QED BY <2>1, <2>5, <2>6 DEF Types, client
<1>7. ASSUME NEW c \in Conns, RemoteOpens(c) PROVE Types'
  <2>1. UNCHANGED <<client, said, met, issued>> BY <1>7, Tasks
  <2>2. /\ streams' \in [Conns -> SUBSET Ends] /\ greets' \in [Conns -> SUBSET Ends]
        /\ UNCHANGED <<told, asked>>
    BY <1>7 DEF RemoteOpens, Types, Ends
  <2> QED BY <2>1, <2>2 DEF Types, client
<1>8. ASSUME NEW c \in Conns, Greet(c) \/ Reply(c) \/ RemoteAsks(c) PROVE Types'
  <2>1. UNCHANGED <<client, said, met, issued>> BY <1>8, Tasks
  <2>2. PICK what \in Tellings :
          /\ Tell(c, what)
          /\ UNCHANGED greets \/ \E s : greets' = [greets EXCEPT ![c] = @ \ {s}]
          /\ UNCHANGED asked \/ \E n : asked' = [asked EXCEPT ![c] = @ \ {n}]
    BY <1>8, Tells
  <2>3. told' \in [Conns -> Seq(Tellings)] /\ UNCHANGED streams BY <2>2, Telling
  <2>4. greets' \in [Conns -> SUBSET Ends] /\ asked' \in [Conns -> SUBSET Nat]
    BY <2>2 DEF Types
  <2> QED BY <2>1, <2>3, <2>4 DEF Types, client
<1>9. ASSUME NEW c \in Conns, End(c) PROVE Types'
  BY <1>1, <1>9, Tasks DEF End, remote
<1>10. CASE UNCHANGED vars BY <1>1, <1>10 DEF vars, behaviour, remote
<1> QED BY <1>2, <1>3, <1>4, <1>5, <1>6, <1>7, <1>8, <1>9, <1>10, ClientSteps

(* What was said stays.                                                      *)
LEMMA SaidStays ==
  ASSUME Base, [Next]_vars
  PROVE  \A n \in DOMAIN said : /\ n \in DOMAIN said' /\ said'[n] = said[n]
                                /\ issued'[n] = issued[n]
<1>0. Types /\ Routed!TypeOK /\ Posed /\ Asked /\ Handed BY BaseIs
<1>1. CASE UNCHANGED <<said, issued>> BY <1>1
<1>2. CASE OnEstablished \/ OnQuery \/ Queries BY <1>0, <1>2, Spoken, Stated
<1>3. CASE Holds \/ Greeted \/ OnClosed \/ OnResponse BY <1>1, <1>3, Quiet
<1>4. CASE NextEvent \/ Swarm \/ \E c \in Conns, p \in Peers : Established(c, p)
  BY <1>0, <1>1, <1>4, Polls
<1>5. ASSUME NEW c \in Conns, \/ Take(c) \/ RemoteOpens(c) \/ Greet(c) \/ Reply(c)
                              \/ RemoteAsks(c) \/ End(c)
      PROVE  UNCHANGED <<said, issued>>
  BY <1>5, Tasks
<1>6. CASE UNCHANGED vars BY <1>1, <1>6 DEF vars, behaviour
<1> QED BY <1>1, <1>2, <1>3, <1>4, <1>5, <1>6, ClientSteps

LEMMA NextAsked == Base /\ [Next]_vars => Asked'
<1> SUFFICES ASSUME Base, [Next]_vars, NEW c \in Conns, NEW n \in asked'[c]
             PROVE  n \in ToSet(taken'[c]) /\ SaidAs(n, "Query")'
  BY DEF Asked
<1>0. Types /\ Routed!TypeOK /\ Posed /\ Asked /\ Handed /\ Routed!Footing BY BaseIs
<1>1. SaidAs(n, "Query") => SaidAs(n, "Query")' BY SaidStays DEF SaidAs
<1>2. CASE UNCHANGED <<asked, taken>>
  <2>1. n \in asked[c] BY <1>2
  <2> QED BY <1>0, <1>1, <1>2, <2>1 DEF Asked
<1>3. CASE OnEstablished \/ OnQuery \/ Queries
  BY <1>0, <1>2, <1>3, Spoken, Stated DEF remote
<1>4. CASE Holds \/ Greeted \/ OnClosed \/ OnResponse
  BY <1>2, <1>4, Quiet DEF remote
<1>5. CASE NextEvent \/ Swarm \/ \E d \in Conns, p \in Peers : Established(d, p)
  BY <1>0, <1>2, <1>5, Polls DEF remote
<1>6. ASSUME NEW d \in Conns, Take(d)
      PROVE  n \in ToSet(taken'[c]) /\ SaidAs(n, "Query")'
  <2>1. PICK m \in DOMAIN said : Takes(d, m) BY <1>0, <1>6, Taking
  <2>2. n \in asked[c] \/ (c = d /\ n = m /\ SaidAs(m, "Query"))
    BY <1>0, <2>1 DEF Types, Takes
  <2> QED BY <1>0, <1>1, <2>1, <2>2 DEF Asked, Takes
<1>7. ASSUME NEW d \in Conns, Greet(d) \/ Reply(d) \/ RemoteAsks(d)
      PROVE  n \in ToSet(taken'[c]) /\ SaidAs(n, "Query")'
  <2>1. PICK what \in Tellings :
          /\ Tell(d, what)
          /\ UNCHANGED asked \/ \E m : asked' = [asked EXCEPT ![d] = @ \ {m}]
    BY <1>0, <1>7, Tells
  <2>2. UNCHANGED taken BY <1>0, <2>1, Telling
  <2>3. n \in asked[c] BY <1>0, <2>1 DEF Types
  <2> QED BY <1>0, <1>1, <2>2, <2>3 DEF Asked
<1>8. ASSUME NEW d \in Conns, RemoteOpens(d) \/ End(d)
      PROVE  UNCHANGED <<asked, taken>>
  BY <1>8 DEF RemoteOpens, End, remote, Behaviour!End, behaviour
<1>9. CASE UNCHANGED vars BY <1>2, <1>9 DEF vars, behaviour, remote
<1> QED BY <1>2, <1>3, <1>4, <1>5, <1>6, <1>7, <1>8, <1>9, ClientSteps

-----------------------------------------------------------------------------
(* What a remote told is heard, queued, or on its way to the swarm.          *)

LEMMA HeardNth == \A s, x : Nth(s, x) = Routed!Times(s, {x})
<1> SUFFICES ASSUME NEW s, NEW x PROVE Nth(s, x) = Routed!Times(s, {x})
  OBVIOUS
<1>1. \A S : Cardinality(S) = Routed!Cardinality(S)
  BY DEF Cardinality, Routed!Cardinality
<1>2. {i \in DOMAIN s : s[i] = x} = {i \in DOMAIN s : s[i] \in {x}} OBVIOUS
<1> QED BY <1>1, <1>2 DEF Nth, Routed!Times

LEMMA HeardIs ==
  ASSUME Routed!TypeOK, NEW c \in Conns
  PROVE  Heard(c) \in Nat
BY Assumed, Routed!HeardTimes, HeardNth DEF Heard

Counted == \A c \in Conns : Routed!Sounded(c) <= Len(told[c])

LEMMA SoundedIs ==
  ASSUME Routed!TypeOK, NEW c \in Conns
  PROVE  Routed!Sounded(c) \in Nat
<1>1. Routed!Times(heard[c], {"Stream"}) \in Nat BY Assumed, Routed!HeardTimes
<1>2. Routed!Times(queue, Routed!StreamsOf(c)) \in Nat BY Assumed, Routed!QueueTimes
<1>3. Routed!Times(up[c], {"stream"}) \in Nat BY Assumed, Routed!ChannelTimes
<1> QED BY <1>1, <1>2, <1>3 DEF Routed!Sounded

(* What is told stays.                                                       *)
LEMMA Untold ==
  ASSUME Base, [Next]_vars
  PROVE  \/ UNCHANGED <<told, emitted>>
         \/ \E c \in Conns : Greet(c) \/ Reply(c) \/ RemoteAsks(c)
<1>0. Types /\ Routed!TypeOK /\ Posed /\ Handed BY BaseIs
<1>1. CASE OnEstablished \/ OnQuery \/ Queries
  BY <1>0, <1>1, Spoken, Stated DEF remote
<1>2. CASE Holds \/ Greeted \/ OnClosed \/ OnResponse BY <1>2, Quiet DEF remote
<1>3. CASE NextEvent \/ Swarm \/ \E c \in Conns, p \in Peers : Established(c, p)
  BY <1>0, <1>3, Polls DEF remote
<1>4. CASE \E c \in Conns : Take(c) \/ RemoteOpens(c) \/ End(c)
  BY <1>4 DEF Take, RemoteOpens, End, remote, behaviour, Behaviour!Take, Behaviour!End
<1>5. CASE UNCHANGED vars BY <1>5 DEF vars, remote, behaviour
<1> QED BY <1>1, <1>2, <1>3, <1>4, <1>5, ClientSteps

LEMMA ToldStays ==
  ASSUME Base, [Next]_vars
  PROVE  \A c \in Conns : \A k \in DOMAIN told[c] :
           k \in DOMAIN told'[c] /\ told'[c][k] = told[c][k]
<1>0. Types /\ Routed!TypeOK /\ Asked BY BaseIs
<1>1. ASSUME NEW c \in Conns, Greet(c) \/ Reply(c) \/ RemoteAsks(c),
             NEW d \in Conns, NEW k \in DOMAIN told[d]
      PROVE  k \in DOMAIN told'[d] /\ told'[d][k] = told[d][k]
  <2>1. PICK what \in Tellings : Tell(c, what) BY <1>0, <1>1, Tells
  <2>2. CASE d = c BY <1>0, <2>1, <2>2, Telling
  <2>3. CASE d # c
    <3>1. told'[d] = told[d] BY <1>0, <2>1, <2>3, Telling
    <3> QED BY <3>1
  <2> QED BY <2>2, <2>3
<1> QED BY <1>1, Untold

(* The events that reach the client are those of the handlers, none of them  *)
(* twice.                                                                    *)
LEMMA NextCounted == Base /\ Counted /\ [Next]_vars => Counted'
<1> SUFFICES ASSUME Base, Counted, [Next]_vars, NEW c \in Conns
             PROVE  Routed!Times(heard'[c], {"Stream"}) + Routed!Times(queue', Routed!StreamsOf(c))
                      + Routed!Times(up'[c], {"stream"}) <= Len(told'[c])
  BY DEF Counted, Routed!Sounded
<1> DEFINE n == Routed!Times(heard'[c], {"Stream"}) + Routed!Times(queue', Routed!StreamsOf(c))
                  + Routed!Times(up'[c], {"stream"})
<1>0. Types /\ Routed!TypeOK /\ Posed /\ Asked BY BaseIs
<1>1. Routed!Sounded(c) \in Nat /\ Len(told[c]) \in Nat /\ Routed!Sounded(c) <= Len(told[c])
  BY <1>0, SoundedIs, ToldIs DEF Counted
<1>2. CASE UNCHANGED <<told, emitted>>
  <2>1. [Routed!Next]_(Routed!vars) BY <1>0, NextRouted
  <2>2. n = Routed!Sounded(c) BY <1>0, <1>2, <2>1, Assumed, Routed!EventsKept
  <2> QED BY <1>1, <1>2, <2>2
<1>3. ASSUME NEW d \in Conns, Greet(d) \/ Reply(d) \/ RemoteAsks(d) PROVE n <= Len(told'[c])
  <2>1. PICK what \in Tellings : Tell(d, what) BY <1>0, <1>3, Tells
  <2>2. Routed!Emit(d) BY <2>1, TasksRouted DEF Tell
  <2>3. n = Routed!Sounded(c) + (IF c = d THEN 1 ELSE 0)
    BY <1>0, <2>2, Assumed, Routed!EventCounted
  <2>4. Len(told'[c]) = Len(told[c]) + (IF c = d THEN 1 ELSE 0)
    <3>1. Len(told'[d]) = Len(told[d]) + 1 /\ \A x \in Conns : x # d => told'[x] = told[x]
      BY <1>0, <2>1, Telling
    <3>2. CASE c = d BY <3>1, <3>2
    <3>3. CASE c # d
      <4>1. Len(told'[c]) = Len(told[c]) BY <3>1, <3>3
      <4> QED BY <1>1, <3>3, <4>1
    <3> QED BY <3>2, <3>3
  <2> DEFINE m == Routed!Sounded(c)
             l == Len(told[c])
             ll == Len(told'[c])
             k == IF c = d THEN 1 ELSE 0
  <2>5. m \in Nat /\ l \in Nat /\ m <= l /\ n = m + k /\ ll = l + k BY <1>1, <2>3, <2>4
  <2>6. k \in Nat OBVIOUS
  <2> HIDE DEF n, m, l, ll, k
  <2>7. n <= ll BY <2>5, <2>6
  <2> QED BY <2>7 DEF ll
<1> QED BY <1>2, <1>3, Untold

(* What the hand gets is what the latest stream event stands for.            *)
LEMMA Heeded ==
  ASSUME Base, Counted, NextEvent
  PROVE  \E c \in Conns :
           /\ UNCHANGED told /\ \A d \in Conns : d # c => heard'[d] = heard[d]
           /\ Heard(c) \in Nat /\ Nth(heard'[c], "Stream") \in Nat
           /\ Nth(heard'[c], "Stream") >= Heard(c)
           /\ \/ /\ Head(queue).event # "Stream"
                 /\ hand'.kind = Head(queue).event
                 /\ hand'.kind \in {"ConnectionEstablished", "ConnectionClosed"}
              \/ /\ Nth(heard'[c], "Stream") = Heard(c) + 1
                 /\ Heard(c) + 1 \in DOMAIN told[c]
                 /\ Carries(hand', told[c][Heard(c) + 1])
<1>0. Types /\ Routed!TypeOK BY BaseIs
<1> HIDE DEF Entries, Tellings
<1> DEFINE e == Head(queue)
<1>1. /\ e \in Entries /\ hand' = Event(e, What(e)) /\ e.to = "user"
      /\ Routed!PollEvent /\ UNCHANGED told
  BY <1>0, Polled DEF remote
<1>2. PICK c \in Conns :
        /\ c = e.conn /\ \A d \in Conns : d # c => heard'[d] = heard[d]
        /\ Heard(c) \in Nat
        /\ Nth(heard'[c], "Stream") = Heard(c) + (IF e.event = "Stream" THEN 1 ELSE 0)
        /\ e.event = "Stream" => Heard(c) + 1 <= Routed!Sounded(c)
  BY <1>0, <1>1, Assumed, Routed!EventHeard, HeardNth DEF Heard
<1> DEFINE h == Heard(c)
           hh == Nth(heard'[c], "Stream")
           l == Len(told[c])
<1>3. h \in Nat /\ hh = h + (IF e.event = "Stream" THEN 1 ELSE 0)
      /\ \A d \in Conns : d # c => heard'[d] = heard[d]
  BY <1>2
<1>4. hh \in Nat /\ hh >= h
  <2> HIDE DEF h, hh
  <2> QED BY <1>3
<1>5. e.event \in {"ConnectionEstablished", "ConnectionClosed", "Stream"} BY <1>1, EntryIs
<1>6. CASE e.event # "Stream"
  <2>1. What(e) = [kind |-> e.event] BY <1>6 DEF What
  <2> HIDE DEF e
  <2>2. hand'.kind = e.event BY <1>1, <2>1 DEF Event
  <2> HIDE DEF h, hh, l
  <2> QED BY <1>1, <1>3, <1>4, <1>5, <1>6, <2>2 DEF e, h, hh
<1>7. CASE e.event = "Stream"
  <2>1. h + 1 <= l
    <3>1. l \in Nat /\ Routed!Sounded(c) \in Nat /\ Routed!Sounded(c) <= l
      BY <1>0, SoundedIs, ToldIs DEF Counted
    <3>2. h + 1 <= Routed!Sounded(c) BY <1>2, <1>7
    <3> HIDE DEF h, l
    <3> QED BY <1>3, <3>1, <3>2
  <2>2. hh = h + 1 BY <1>3, <1>7
  <2>3. h + 1 \in DOMAIN told[c] /\ told[c][h + 1] \in Tellings
    <3>1. l \in Nat /\ DOMAIN told[c] = 1..l BY <1>0, ToldIs
    <3> HIDE DEF h, hh, l
    <3>2. h + 1 \in DOMAIN told[c] BY <1>3, <2>1, <3>1
    <3> QED BY <1>0, <3>2, ToldIs
  <2> DEFINE t == told[c][h + 1]
  <2>4. hand' = Event(e, t) BY <1>1, <1>2, <1>7, <2>2 DEF What
  <2>5. t \in Tellings BY <2>3
  <2> HIDE DEF h, hh, l, t, e
  <2>6. hand'.kind = t.kind /\ hand'.stream = t.stream /\ (t.kind = "Response" => hand'.id = t.id)
    <3>1. "kind" \in DOMAIN t /\ "stream" \in DOMAIN t /\ (t.kind = "Response" => "id" \in DOMAIN t)
      BY <2>5 DEF Tellings
    <3> QED BY <2>4, <3>1 DEF Event
  <2>7. Carries(hand', told[c][h + 1])
    BY <2>6 DEF Carries, t
  <2> QED BY <1>1, <1>3, <1>4, <2>2, <2>3, <2>7 DEF h, hh
<1> QED BY <1>6, <1>7

(* Every step but NextEvent leaves alone what was heard, and what is in the  *)
(* hand stays there or is done with.                                         *)
LEMMA Unheard ==
  ASSUME Base, [Next]_vars
  PROVE  NextEvent \/ (UNCHANGED heard /\ (hand' = hand \/ hand' = Nothing))
<1>0. Types /\ Routed!TypeOK /\ Posed /\ Handed BY BaseIs
<1>1. CASE OnEstablished \/ OnQuery \/ Queries BY <1>0, <1>1, Spoken, Stated
<1>2. CASE Holds \/ Greeted \/ OnClosed \/ OnResponse BY <1>2, Quiet
<1>3. CASE Swarm
  BY <1>3 DEF Swarm, Behaviour!PollNotify, Behaviour!Closed, Behaviour!HandlerEvent
<1>4. CASE \E c \in Conns, p \in Peers : Established(c, p)
  BY <1>4 DEF Established, Behaviour!Established
<1>5. ASSUME NEW c \in Conns, \/ Take(c) \/ RemoteOpens(c) \/ Greet(c) \/ Reply(c)
                              \/ RemoteAsks(c) \/ End(c)
      PROVE  UNCHANGED <<heard, hand>>
  BY <1>5, Tasks
<1>6. CASE UNCHANGED vars BY <1>6 DEF vars, behaviour
<1> QED BY <1>1, <1>2, <1>3, <1>4, <1>5, <1>6, ClientSteps

LEMMA NextHanded == Base /\ Counted /\ [Next]_vars => Handed'
<1> SUFFICES ASSUME Base, Counted, [Next]_vars PROVE Handed'
  OBVIOUS
<1>1. CASE NextEvent
  <2>1. PICK c \in Conns :
          /\ UNCHANGED told
          /\ \/ hand'.kind \in {"ConnectionEstablished", "ConnectionClosed"}
             \/ /\ Nth(heard'[c], "Stream") = Heard(c) + 1
                /\ Heard(c) + 1 \in DOMAIN told[c]
                /\ Carries(hand', told[c][Heard(c) + 1])
    BY <1>1, Heeded
  <2>2. CASE hand'.kind \in {"ConnectionEstablished", "ConnectionClosed"}
    BY <2>2 DEF Handed
  <2>3. CASE /\ Nth(heard'[c], "Stream") = Heard(c) + 1
             /\ Heard(c) + 1 \in DOMAIN told[c]
             /\ Carries(hand', told[c][Heard(c) + 1])
    <3>1. PICK k : k = Heard(c) + 1 OBVIOUS
    <3>2. Heard(c)' = k BY <2>3, <3>1 DEF Heard
    <3>3. k \in DOMAIN told'[c] /\ Carries(hand', told'[c][k])
      BY <2>1, <2>3, <3>1
    <3> QED BY <3>2, <3>3 DEF Handed
  <2> QED BY <2>1, <2>2, <2>3
<1>2. CASE UNCHANGED heard /\ (hand' = hand \/ hand' = Nothing)
  <2>1. CASE hand' = Nothing BY <2>1 DEF Handed
  <2>2. CASE hand' = hand
    <3>1. \A c \in Conns : Heard(c)' = Heard(c) BY <1>2 DEF Heard
    <3>2. \A c \in Conns : \A k \in DOMAIN told[c] :
            k \in DOMAIN told'[c] /\ told'[c][k] = told[c][k]
      BY ToldStays
    <3>3. Handed BY BaseIs
    <3> QED BY <2>2, <3>1, <3>2, <3>3 DEF Handed, Carries
  <2> QED BY <1>2, <2>1, <2>2
<1> QED BY <1>1, <1>2, Unheard

-----------------------------------------------------------------------------
(* The queries of the client, numbered in their order, one for each call.    *)

Posted == {n \in DOMAIN said : said[n].kind = "Query"}

Numbered ==
  /\ \A n \in Posted : said[n].id \in 1..(id - 1)
  /\ \A m, n \in Posted : m < n => said[m].id < said[n].id
  /\ id > 1 => \E n \in Posted : said[n].id = id - 1
  /\ Cardinality(Posted) = id - 1
  /\ calls = (id - 1) + (IF call = "holds" THEN 1 ELSE 0)

(* A response that a handler told: the k-th thing connection c told.         *)
Answered(c, k, i) ==
  k \in DOMAIN told[c] /\ told[c][k].kind = "Response" /\ told[c][k].id = i

(* Each is to a query that the connection took, and no query has two.        *)
Fulfilled ==
  /\ \A c \in Conns : \A k, i : Answered(c, k, i) =>
       \E n \in ToSet(taken[c]) \ asked[c] : n \in Posted /\ said[n].id = i
  /\ \A c, d \in Conns : \A k, l, i :
       Answered(c, k, i) /\ Answered(d, l, i) => c = d /\ k = l

(* Unless the client waits, the response to its latest query was heard, and  *)
(* is not in the hand.                                                       *)
Returned ==
  call # "waits" =>
    /\ id > 1 => \E c \in Conns : \E k \in 1..Heard(c) : Answered(c, k, id - 1)
    /\ hand.kind = "Response" => hand.id # id - 1

Correct == Base /\ Counted /\ Numbered /\ Fulfilled /\ Returned

LEMMA PostedIs ==
  ASSUME Types, Routed!TypeOK
  PROVE  IsFiniteSet(Posted) /\ Cardinality(Posted) \in Nat /\ Posted \subseteq Nat
<1>1. Posted \subseteq 1..Len(said) /\ Len(said) \in Nat BY SaidIs DEF Posted
<1>2. IsFiniteSet(1..Len(said)) BY <1>1, FS_Interval
<1>3. Posted \subseteq Nat BY <1>1
<1> QED BY <1>1, <1>2, <1>3, FS_Subset, FS_CardinalityType

(* The number of a response is that of a query.                              *)
LEMMA NumberOf ==
  ASSUME Types, Numbered, Fulfilled, NEW c \in Conns, NEW k, NEW i, Answered(c, k, i)
  PROVE  i \in Nat \ {0} /\ i <= id - 1 /\ id \in Nat
<1>1. PICK n \in Posted : said[n].id = i BY DEF Fulfilled
<1>2. i \in 1..(id - 1) BY <1>1 DEF Numbered
<1> QED BY <1>2 DEF Types

LEMMA HandNumber ==
  ASSUME Types, Handed, Numbered, Fulfilled, hand.kind = "Response"
  PROVE  \E c \in Conns : Answered(c, Heard(c), hand.id) /\ hand.id \in Nat \ {0}
<1>1. PICK c \in Conns : Heard(c) \in DOMAIN told[c] /\ Carries(hand, told[c][Heard(c)])
  BY HandIs
<1>2. Answered(c, Heard(c), hand.id) BY <1>1 DEF Answered, Carries
<1> QED BY <1>2, NumberOf

(* Only a response ends a call.                                              *)
LEMMA Returning ==
  ASSUME Correct, OnResponse, call' # call
  PROVE  hand.kind = "Response" /\ hand.id = id - 1 /\ call = "waits" /\ call' = "idle"
<1>0. Types /\ Handed BY BaseIs DEF Correct
<1>1. hand.kind = "Response" /\ hand.id + 1 = id /\ call' = "idle" BY DEF OnResponse
<1>2. hand.id \in Nat BY <1>0, <1>1, HandNumber DEF Correct
<1>3. hand.id = id - 1 BY <1>0, <1>1, <1>2 DEF Types
<1> QED BY <1>1, <1>3 DEF Correct, Returned

(* The steps that leave the client's own state alone.                        *)
LEMMA ClientStays ==
  ASSUME Base, [Next]_vars
  PROVE  \/ UNCHANGED <<id, call, calls, said>>
         \/ (OnEstablished \/ OnQuery) /\ UNCHANGED <<id, call, calls>>
         \/ Queries \/ Holds \/ OnResponse
<1>0. Types /\ Routed!TypeOK BY BaseIs
<1>1. CASE OnEstablished \/ OnQuery BY <1>1 DEF OnEstablished, OnQuery, client
<1>2. CASE Greeted \/ OnClosed BY <1>2 DEF Greeted, OnClosed
<1>3. CASE NextEvent \/ Swarm \/ \E c \in Conns, p \in Peers : Established(c, p)
  BY <1>0, <1>3, Polls DEF client
<1>4. ASSUME NEW c \in Conns, \/ Take(c) \/ RemoteOpens(c) \/ Greet(c) \/ Reply(c)
                              \/ RemoteAsks(c) \/ End(c)
      PROVE  UNCHANGED <<id, call, calls, said>>
  BY <1>4, Tasks DEF client
<1>5. CASE UNCHANGED vars BY <1>5 DEF vars, client
<1> QED BY <1>1, <1>2, <1>3, <1>4, <1>5, ClientSteps

LEMMA NextNumbered == Correct /\ [Next]_vars => Numbered'
<1> SUFFICES ASSUME Correct, [Next]_vars PROVE Numbered'
  OBVIOUS
<1>0. /\ Base /\ Types /\ Routed!TypeOK /\ Posed /\ Handed /\ Numbered
      /\ id \in Nat \ {0} /\ calls \in Nat
  BY BaseIs DEF Correct, Types
<1>1. CASE UNCHANGED <<id, call, calls, said>>
  BY <1>0, <1>1 DEF Numbered, Posted
<1>2. CASE (OnEstablished \/ OnQuery) /\ UNCHANGED <<id, call, calls>>
  <2>1. PICK p \in Peers, what \in Sayings : Says(p, what) /\ what.kind # "Query"
    BY <1>0, <1>2, Spoken DEF Opening, Queries, OnEstablished, OnQuery
  <2>2. /\ DOMAIN said' = 1..(Len(said) + 1) /\ DOMAIN said = 1..Len(said) /\ Len(said) \in Nat
        /\ said'[Len(said) + 1] = what
        /\ \A m \in DOMAIN said : m \in DOMAIN said' /\ said'[m] = said[m]
    BY <1>0, <2>1, Stated
  <2>3. Posted' = Posted
    <3>1. ASSUME NEW x PROVE x \in DOMAIN said' <=> x \in DOMAIN said \/ x = Len(said) + 1
      BY <2>2
    <3> QED BY <2>1, <2>2, <3>1 DEF Posted
  <2>4. \A n \in Posted : said'[n] = said[n] BY <2>2 DEF Posted
  <2>5. UNCHANGED <<id, call, calls>> BY <1>2
  <2> QED BY <1>0, <2>3, <2>4, <2>5 DEF Numbered
<1>3. CASE Queries
  <2>1. PICK p \in Peers, what \in Sayings :
          Says(p, what) /\ what.kind = "Query" /\ what.id = id
    <3>1. id' # id BY <1>0, <1>3 DEF Queries
    <3>2. ~ OnEstablished /\ ~ OnQuery BY <3>1 DEF OnEstablished, OnQuery, client
    <3> QED BY <1>0, <1>3, <3>2, Spoken
  <2> DEFINE l == Len(said) + 1
  <2>2. /\ DOMAIN said' = 1..l /\ DOMAIN said = 1..(l - 1) /\ l \in Nat \ {0}
        /\ said'[l] = what
        /\ \A m \in DOMAIN said : m \in DOMAIN said' /\ said'[m] = said[m]
    BY <1>0, <2>1, Stated
  <2>3. id' = id + 1 /\ call' = "waits" BY <1>3 DEF Queries
  <2> HIDE DEF l
  <2>4. Posted' = Posted \cup {l} /\ l \notin Posted
    <3>1. ASSUME NEW x PROVE x \in DOMAIN said' <=> x \in DOMAIN said \/ x = l
      BY <2>2
    <3>2. l \notin DOMAIN said BY <2>2
    <3> QED BY <2>1, <2>2, <3>1, <3>2 DEF Posted
  <2>5. /\ said'[l].id = id /\ \A n \in Posted : said'[n] = said[n]
        /\ \A n \in Posted : n \in Nat /\ n < l
    BY <2>1, <2>2 DEF Posted
  <2>6. \A n \in Posted : said[n].id \in 1..(id - 1) BY <1>0 DEF Numbered
  <2>7. \A n \in Posted' : said'[n].id \in 1..(id' - 1)
    BY <1>0, <2>3, <2>4, <2>5, <2>6
  <2>8. ASSUME NEW m \in Posted', NEW n \in Posted', m < n
        PROVE  said'[m].id < said'[n].id
    <3>1. CASE m \in Posted /\ n \in Posted BY <1>0, <2>5, <2>8, <3>1 DEF Numbered
    <3>2. CASE m \in Posted /\ n = l
      <4>1. said'[m].id \in 1..(id - 1) BY <2>5, <2>6, <3>2
      <4> QED BY <1>0, <2>5, <3>2, <4>1
    <3>3. CASE m = l
      <4>1. n < l \/ n = l BY <2>4, <2>5
      <4>2. n \in Nat BY <2>2, <2>4, <2>5
      <4> QED BY <2>2, <2>8, <3>3, <4>1, <4>2
    <3> QED BY <2>4, <3>1, <3>2, <3>3
  <2>9. \E n \in Posted' : said'[n].id = id' - 1 BY <1>0, <2>3, <2>4, <2>5
  <2>10. Cardinality(Posted') = id' - 1
    <3>1. Cardinality(Posted) = id - 1 BY <1>0 DEF Numbered
    <3>2. Cardinality(Posted') = Cardinality(Posted) + 1
      BY <1>0, <2>4, PostedIs, FS_AddElement
    <3> QED BY <1>0, <2>3, <3>1, <3>2
  <2>11. calls' = (id' - 1) + (IF call' = "holds" THEN 1 ELSE 0)
    <3>1. \/ call = "idle" /\ calls' = calls + 1
          \/ call = "holds" /\ calls' = calls
      BY <1>3 DEF Queries
    <3>2. calls = (id - 1) + (IF call = "holds" THEN 1 ELSE 0) BY <1>0 DEF Numbered
    <3>3. calls' = id
      <4>1. CASE call = "idle" BY <1>0, <3>1, <3>2, <4>1
      <4>2. CASE call = "holds" BY <1>0, <3>1, <3>2, <4>2
      <4> QED BY <3>1, <4>1, <4>2
    <3> QED BY <1>0, <2>3, <3>3
  <2> QED BY <2>7, <2>8, <2>9, <2>10, <2>11 DEF Numbered
<1>4. CASE Holds
  <2>1. /\ call = "idle" /\ call' = "holds" /\ calls' = calls + 1 /\ UNCHANGED <<id, said>>
    BY <1>4 DEF Holds
  <2>2. calls = (id - 1) + (IF call = "holds" THEN 1 ELSE 0) BY <1>0 DEF Numbered
  <2>3. calls' = (id' - 1) + (IF call' = "holds" THEN 1 ELSE 0) BY <1>0, <2>1, <2>2
  <2>4. UNCHANGED Posted BY <2>1 DEF Posted
  <2> QED BY <1>0, <2>1, <2>3, <2>4 DEF Numbered
<1>5. CASE OnResponse
  <2>1. UNCHANGED <<id, calls, said>> BY <1>5 DEF OnResponse
  <2>2. call' = call \/ (call = "waits" /\ call' = "idle") BY <1>5, Returning
  <2>3. (call' = "holds") <=> (call = "holds") BY <2>2
  <2>4. UNCHANGED Posted BY <2>1 DEF Posted
  <2> QED BY <1>0, <2>1, <2>3, <2>4 DEF Numbered
<1> QED BY <1>0, <1>1, <1>2, <1>3, <1>4, <1>5, ClientStays

(* What a remote did of what it was asked changes in two ways.               *)
LEMMA RemoteStays ==
  ASSUME Base, [Next]_vars
  PROVE  \/ UNCHANGED <<told, taken, asked>>
         \/ \E c \in Conns : Take(c)
         \/ \E c \in Conns : Greet(c) \/ Reply(c) \/ RemoteAsks(c)
<1>0. Types /\ Routed!TypeOK /\ Posed /\ Handed BY BaseIs
<1>1. CASE OnEstablished \/ OnQuery \/ Queries
  BY <1>0, <1>1, Spoken, Stated DEF remote
<1>2. CASE Holds \/ Greeted \/ OnClosed \/ OnResponse BY <1>2, Quiet DEF remote
<1>3. CASE NextEvent \/ Swarm \/ \E c \in Conns, p \in Peers : Established(c, p)
  BY <1>0, <1>3, Polls DEF remote
<1>4. CASE \E c \in Conns : RemoteOpens(c) \/ End(c)
  BY <1>4 DEF RemoteOpens, End, remote, behaviour, Behaviour!End
<1>5. CASE UNCHANGED vars BY <1>5 DEF vars, remote, behaviour
<1> QED BY <1>1, <1>2, <1>3, <1>4, <1>5, ClientSteps

LEMMA NextFulfilled == Correct /\ [Next]_vars => Fulfilled'
<1> SUFFICES ASSUME Correct, [Next]_vars PROVE Fulfilled'
  OBVIOUS
<1>0. /\ Base /\ Types /\ Routed!TypeOK /\ Routed!Footing /\ Asked /\ Numbered /\ Fulfilled
  BY BaseIs DEF Correct
<1> HIDE DEF Sayings, Tellings
<1>1. \A n \in Posted : n \in Posted' /\ said'[n] = said[n] BY <1>0, SaidStays DEF Posted
<1>2. CASE UNCHANGED <<told, taken, asked>>
  <2>1. \A c, k, i : Answered(c, k, i)' <=> Answered(c, k, i) BY <1>2 DEF Answered
  <2>2. ASSUME NEW c \in Conns, NEW k, NEW i, Answered(c, k, i)'
        PROVE  \E n \in ToSet(taken'[c]) \ asked'[c] : n \in Posted' /\ said'[n].id = i
    <3>1. PICK n \in ToSet(taken[c]) \ asked[c] : n \in Posted /\ said[n].id = i
      BY <1>0, <2>1, <2>2 DEF Fulfilled
    <3> QED BY <1>1, <1>2, <3>1
  <2> QED BY <1>0, <2>1, <2>2 DEF Fulfilled
<1>3. ASSUME NEW d \in Conns, Take(d) PROVE Fulfilled'
  <2>1. PICK m \in DOMAIN said : Takes(d, m) BY <1>0, <1>3, Taking
  <2>2. UNCHANGED told BY <2>1 DEF Takes
  <2>3. \A c, k, i : Answered(c, k, i)' <=> Answered(c, k, i) BY <2>2 DEF Answered
  <2>4. ASSUME NEW c \in Conns, NEW n \in ToSet(taken[c]) \ asked[c]
        PROVE  n \in ToSet(taken'[c]) \ asked'[c]
    <3>1. n # m /\ n \in ToSet(taken'[c]) BY <2>1, <2>4 DEF Takes
    <3>2. n \notin asked'[c] BY <1>0, <2>1, <2>4, <3>1 DEF Takes, Types
    <3> QED BY <3>1, <3>2
  <2>5. ASSUME NEW c \in Conns, NEW k, NEW i, Answered(c, k, i)'
        PROVE  \E n \in ToSet(taken'[c]) \ asked'[c] : n \in Posted' /\ said'[n].id = i
    <3>1. PICK n \in ToSet(taken[c]) \ asked[c] : n \in Posted /\ said[n].id = i
      BY <1>0, <2>3, <2>5 DEF Fulfilled
    <3> QED BY <1>1, <2>4, <3>1
  <2> QED BY <1>0, <2>3, <2>5 DEF Fulfilled
<1>4. ASSUME NEW d \in Conns, Greet(d) \/ Reply(d) \/ RemoteAsks(d) PROVE Fulfilled'
  <2>1. PICK what \in Tellings :
          /\ Tell(d, what)
          /\ \/ what.kind # "Response" /\ UNCHANGED asked
             \/ /\ what.kind = "Response"
                /\ \E n \in asked[d] : /\ SaidAs(n, "Query") /\ what.id = said[n].id
                                       /\ asked' = [asked EXCEPT ![d] = @ \ {n}]
    <3>1. "HandshakeDone" # "Response" /\ "Query" # "Response" OBVIOUS
    <3> QED BY <1>0, <1>4, <3>1, Tells
  <2> DEFINE l == Len(told[d]) + 1
  <2>2. /\ \A c \in Conns : c # d => told'[c] = told[c]
        /\ DOMAIN told'[d] = 1..l /\ told'[d][l] = what
        /\ \A k \in DOMAIN told[d] : k \in DOMAIN told'[d] /\ told'[d][k] = told[d][k]
        /\ UNCHANGED taken
    BY <1>0, <2>1, Telling
  <2>3. DOMAIN told[d] = 1..(l - 1) /\ l \in Nat \ {0} BY <1>0, ToldIs
  <2> HIDE DEF l
  <2>4. \A k : k \in DOMAIN told'[d] <=> k \in DOMAIN told[d] \/ k = l BY <2>2, <2>3
  <2>5. ASSUME NEW c \in Conns, NEW k, NEW i, Answered(c, k, i)'
        PROVE  \/ Answered(c, k, i)
               \/ c = d /\ k = l /\ what.kind = "Response" /\ what.id = i
    BY <2>2, <2>4, <2>5 DEF Answered
  <2>6. ASSUME what.kind # "Response" PROVE Fulfilled'
    <3>1. UNCHANGED asked BY <2>1, <2>6
    <3>2. ASSUME NEW c \in Conns, NEW k, NEW i, Answered(c, k, i)'
          PROVE  \E n \in ToSet(taken'[c]) \ asked'[c] : n \in Posted' /\ said'[n].id = i
      <4>1. PICK n \in ToSet(taken[c]) \ asked[c] : n \in Posted /\ said[n].id = i
        BY <1>0, <2>5, <2>6, <3>2 DEF Fulfilled
      <4> QED BY <1>1, <2>2, <3>1, <4>1
    <3> QED BY <1>0, <2>5, <2>6, <3>2 DEF Fulfilled
  <2>7. ASSUME what.kind = "Response" PROVE Fulfilled'
    <3>1. PICK n \in asked[d] : /\ SaidAs(n, "Query") /\ what.id = said[n].id
                                /\ asked' = [asked EXCEPT ![d] = @ \ {n}]
      BY <2>1, <2>7
    <3>2. n \in Posted /\ n \in ToSet(taken[d]) BY <1>0, <3>1 DEF SaidAs, Posted, Asked
    <3>3. \A c \in Conns : asked'[c] = asked[c] \ (IF c = d THEN {n} ELSE {})
      BY <1>0, <3>1 DEF Types
    <3>4. ASSUME NEW c \in Conns, NEW k, NEW i, Answered(c, k, i)'
          PROVE  \E x \in ToSet(taken'[c]) \ asked'[c] : x \in Posted' /\ said'[x].id = i
      <4>1. CASE Answered(c, k, i)
        <5>1. PICK x \in ToSet(taken[c]) \ asked[c] : x \in Posted /\ said[x].id = i
          BY <1>0, <4>1 DEF Fulfilled
        <5> QED BY <1>1, <2>2, <3>3, <5>1
      <4>2. CASE c = d /\ k = l /\ what.id = i
        <5>1. n \notin asked'[d] /\ n \in ToSet(taken'[d]) BY <2>2, <3>2, <3>3
        <5>2. n \in Posted' /\ said'[n].id = i BY <1>1, <3>1, <3>2, <4>2
        <5> QED BY <4>2, <5>1, <5>2
      <4> QED BY <2>5, <3>4, <4>1, <4>2
    <3>5. ASSUME NEW c \in Conns, NEW k, Answered(c, k, what.id) PROVE FALSE
      <4>1. PICK x \in ToSet(taken[c]) \ asked[c] : x \in Posted /\ said[x].id = what.id
        BY <1>0, <3>5 DEF Fulfilled
      <4>2. x = n
        <5>1. x \in Nat /\ n \in Nat BY <1>0, <3>2, <4>1, PostedIs
        <5>2. said[x].id = said[n].id /\ said[n].id \in Nat
          BY <1>0, <3>1, <3>2, <4>1 DEF Numbered, Types
        <5>3. ~ (x < n) /\ ~ (n < x) BY <1>0, <3>2, <4>1, <5>2 DEF Numbered
        <5> QED BY <5>1, <5>3
      <4>3. \A s : Routed!ToSet(s) = ToSet(s) BY DEF ToSet, Routed!ToSet
      <4>4. c = d
        <5>1. n \in Routed!ToSet(taken[c]) /\ n \in Routed!ToSet(taken[d])
          BY <3>2, <4>1, <4>2, <4>3
        <5> QED BY <1>0, <5>1, Assumed, Routed!TakenOnce
      <4> QED BY <3>1, <4>1, <4>2, <4>4
    <3>6. ASSUME NEW b \in Conns, NEW c \in Conns, NEW k, NEW j, NEW i,
                 Answered(b, k, i)', Answered(c, j, i)'
          PROVE  b = c /\ k = j
      <4>1. \/ Answered(b, k, i)
            \/ b = d /\ k = l /\ what.id = i
        BY <2>5, <3>6
      <4>2. \/ Answered(c, j, i)
            \/ c = d /\ j = l /\ what.id = i
        BY <2>5, <3>6
      <4>3. CASE Answered(b, k, i) /\ Answered(c, j, i) BY <1>0, <4>3 DEF Fulfilled
      <4> QED BY <3>5, <4>1, <4>2, <4>3
    <3> QED BY <3>4, <3>6 DEF Fulfilled
  <2> QED BY <2>6, <2>7
<1> QED BY <1>0, <1>2, <1>3, <1>4, RemoteStays

LEMMA NextReturned == Correct /\ [Next]_vars => Returned'
<1> SUFFICES ASSUME Correct, [Next]_vars, call' # "waits", NEW i, i = id' - 1
             PROVE  /\ id' > 1 => \E c \in Conns : \E k \in 1..(Heard(c)') : Answered(c, k, i)'
                    /\ hand'.kind = "Response" => hand'.id # i
  <2>1. ASSUME Correct, [Next]_vars PROVE Returned'
    <3> PICK i : i = id' - 1 OBVIOUS
    <3>1. call' # "waits" =>
            /\ id' > 1 => \E c \in Conns : \E k \in 1..(Heard(c)') : Answered(c, k, i)'
            /\ hand'.kind = "Response" => hand'.id # i
      BY <2>1
    <3> QED BY <3>1 DEF Returned, Answered
  <2> QED BY <2>1
<1>0. /\ Base /\ Types /\ Routed!TypeOK /\ Counted /\ Handed
      /\ Numbered /\ Fulfilled /\ Returned /\ id \in Nat \ {0}
  BY BaseIs DEF Correct, Types
<1>1. \A c \in Conns : \A k, j : Answered(c, k, j) => Answered(c, k, j)'
  BY <1>0, ToldStays DEF Answered
<1>2. CASE NextEvent
  <2>1. UNCHANGED <<id, call>> BY <1>0, <1>2, Polls DEF client
  <2>2. PICK c \in Conns :
           /\ UNCHANGED told /\ \A d \in Conns : d # c => heard'[d] = heard[d]
           /\ Heard(c) \in Nat /\ Nth(heard'[c], "Stream") \in Nat
           /\ Nth(heard'[c], "Stream") >= Heard(c)
           /\ \/ hand'.kind \in {"ConnectionEstablished", "ConnectionClosed"}
              \/ /\ Heard(c) + 1 \in DOMAIN told[c]
                 /\ Carries(hand', told[c][Heard(c) + 1])
    BY <1>0, <1>2, Heeded
  <2>3. \A d \in Conns : Heard(d) \in Nat /\ Heard(d)' \in Nat /\ Heard(d)' >= Heard(d)
    <3> SUFFICES ASSUME NEW d \in Conns
                 PROVE  Heard(d) \in Nat /\ Heard(d)' \in Nat /\ Heard(d)' >= Heard(d)
      OBVIOUS
    <3>1. CASE d = c BY <2>2, <3>1 DEF Heard
    <3>2. CASE d # c
      <4>1. Heard(d) \in Nat /\ Heard(d)' = Heard(d) BY <1>0, <2>2, <3>2, HeardIs DEF Heard
      <4> QED BY <4>1
    <3> QED BY <3>1, <3>2
  <2>4. ASSUME id > 1
        PROVE  \E d \in Conns : \E k \in 1..Heard(d) : Answered(d, k, id - 1)
    BY <1>0, <2>1, <2>4 DEF Returned
  <2>5. id' > 1 => \E d \in Conns : \E k \in 1..(Heard(d)') : Answered(d, k, i)'
    <3> SUFFICES ASSUME id > 1
                 PROVE  \E d \in Conns : \E k \in 1..(Heard(d)') : Answered(d, k, i)'
      BY <2>1
    <3>1. PICK d \in Conns : \E k \in 1..Heard(d) : Answered(d, k, id - 1) BY <2>4
    <3>2. PICK k \in 1..Heard(d) : Answered(d, k, id - 1) BY <3>1
    <3>3. k \in 1..(Heard(d)') BY <2>3, <3>2
    <3>4. Answered(d, k, i)'
      BY <1>1, <2>1, <3>2
    <3> QED BY <3>3, <3>4
  <2>6. ASSUME hand'.kind = "Response", hand'.id = i PROVE FALSE
    <3>1. Heard(c) + 1 \in DOMAIN told[c] /\ Carries(hand', told[c][Heard(c) + 1])
      BY <2>2, <2>6
    <3>2. Answered(c, Heard(c) + 1, id - 1)
      BY <2>1, <2>6, <3>1 DEF Answered, Carries
    <3>3. id > 1
      <4>1. id - 1 \in Nat \ {0} BY <1>0, <3>2, NumberOf
      <4> QED BY <1>0, <4>1
    <3>4. PICK d \in Conns : \E k \in 1..Heard(d) : Answered(d, k, id - 1)
      BY <2>4, <3>3
    <3>5. PICK k \in 1..Heard(d) : Answered(d, k, id - 1) BY <3>4
    <3>6. c = d /\ k = Heard(c) + 1 BY <1>0, <3>2, <3>5 DEF Fulfilled
    <3> QED BY <2>3, <3>5, <3>6
  <2> QED BY <2>5, <2>6
<1>3. CASE UNCHANGED heard /\ (hand' = hand \/ hand' = Nothing)
  <2>1. \A c \in Conns : Heard(c)' = Heard(c) BY <1>3 DEF Heard
  <2>2. CASE UNCHANGED <<id, call>> \/ Holds
    <3>1. UNCHANGED id /\ call # "waits" BY <2>2 DEF Holds
    <3>2. id' > 1 => \E c \in Conns : \E k \in 1..(Heard(c)') : Answered(c, k, i)'
      <4> SUFFICES ASSUME id > 1
                   PROVE  \E c \in Conns : \E k \in 1..(Heard(c)') : Answered(c, k, i)'
        BY <3>1
      <4>1. PICK c \in Conns : \E k \in 1..Heard(c) : Answered(c, k, id - 1)
        BY <1>0, <3>1 DEF Returned
      <4>2. PICK k \in 1..Heard(c) : Answered(c, k, id - 1) BY <4>1
      <4>3. Answered(c, k, i)' BY <1>1, <3>1, <4>2
      <4>4. k \in 1..(Heard(c)') BY <2>1, <4>2
      <4> QED BY <4>3, <4>4
    <3>3. hand'.kind = "Response" => hand' = hand BY <1>3 DEF Nothing
    <3> QED BY <1>0, <3>1, <3>2, <3>3 DEF Returned
  <2>3. CASE OnResponse /\ call' # call
    <3>1. hand.kind = "Response" /\ hand.id = id - 1 /\ UNCHANGED id /\ hand' = Nothing
      BY <1>0, <2>3, Returning DEF OnResponse
    <3>2. PICK c \in Conns : Answered(c, Heard(c), hand.id) BY <1>0, <3>1, HandNumber
    <3>3. PICK k : k = Heard(c) OBVIOUS
    <3>4. Answered(c, k, i)' BY <1>1, <3>1, <3>2, <3>3
    <3>5. k \in 1..(Heard(c)')
      <4>1. DOMAIN told[c] = 1..Len(told[c]) BY <1>0, ToldIs
      <4>2. k \in Nat /\ k >= 1 BY <3>2, <3>3, <4>1 DEF Answered
      <4>3. Heard(c)' = k BY <2>1, <3>3
      <4> QED BY <4>2, <4>3
    <3> QED BY <3>1, <3>4, <3>5 DEF Nothing
  <2>4. ~ Queries BY DEF Queries
  <2>5. OnResponse => UNCHANGED id BY DEF OnResponse
  <2> QED BY <1>0, <2>2, <2>3, <2>4, <2>5, ClientStays
<1> QED BY <1>0, <1>2, <1>3, Unheard

LEMMA InitCorrect ==
  Init => Posed /\ Types /\ Asked /\ Handed /\ Counted /\ Numbered /\ Fulfilled /\ Returned
<1> SUFFICES ASSUME Init
             PROVE  /\ Posed /\ Types /\ Asked /\ Handed /\ Counted /\ Numbered
                    /\ Fulfilled /\ Returned
  OBVIOUS
<1>1. Posed /\ Types /\ Asked /\ Handed BY InitPosed, InitTypes
<1>2. /\ said = <<>> /\ told = [c \in Conns |-> <<>>] /\ id = 1 /\ calls = 0
      /\ call = "idle" /\ hand = Nothing
      /\ queue = <<>> /\ heard = [c \in Conns |-> <<>>] /\ up = [c \in Conns |-> <<>>]
  BY DEF Init, Behaviour!Init
<1>3. Routed!TypeOK BY InitRouted, Assumed, Routed!InitTypeOK
<1>4. Counted
  <2>1. \A x : Routed!Times(<<>>, x) = 0 BY Assumed, Routed!TimesNone
  <2>2. \A c \in Conns : Len(told[c]) = 0 BY <1>2
  <2> QED BY <1>2, <2>1, <2>2 DEF Counted, Routed!Sounded
<1>5. Numbered
  <2>1. Posted = {} BY <1>2 DEF Posted
  <2>2. Cardinality(Posted) = 0 BY <2>1, FS_EmptySet
  <2> QED BY <1>2, <2>1, <2>2 DEF Numbered
<1>6. Fulfilled BY <1>2 DEF Fulfilled, Answered
<1>7. Returned BY <1>2 DEF Returned, Nothing
<1> QED BY <1>1, <1>4, <1>5, <1>6, <1>7

LEMMA AlwaysCorrect == Spec => []Correct
<1> DEFINE Inv == /\ Posed /\ Types /\ Asked /\ Handed /\ Counted /\ Numbered
                  /\ Fulfilled /\ Returned
<1>1. Spec => []Routed!Footing BY Implements, Assumed, Routed!Founded, PTL
<1>2. Init => Inv BY InitCorrect
<1>3. Routed!Footing /\ Inv <=> Correct BY DEF Correct, Base
<1>4. Routed!Footing /\ Inv /\ [Next]_vars => Inv'
  <2> SUFFICES ASSUME Correct, [Next]_vars PROVE Inv'
    BY <1>3
  <2>1. Base /\ Counted /\ Routed!TypeOK /\ Posed BY BaseIs DEF Correct
  <2> QED BY <2>1, NextPosed, NextTypes, NextAsked, NextHanded, NextCounted, NextNumbered,
             NextFulfilled, NextReturned
<1> HIDE DEF Inv
<1> QED BY <1>1, <1>2, <1>3, <1>4, PTL DEF Spec

(* A call of rpc that returns had sent its query and returns the response to *)
(* it, whatever responses came before, on whichever connection, and however  *)
(* many handshakes and peers came while it ran (client.rs:42-51, 82-88, 110).*)
THEOREM OwnAnswer == Spec => AnswersOwnQuery
<1>1. ASSUME Correct, [Next]_vars, call # "idle", call' = "idle"
      PROVE  /\ call = "waits"
             /\ LET queries == {n \in DOMAIN said : said[n].kind = "Query"}
                IN  /\ Cardinality(queries) = calls
                    /\ said[Max(queries)].id = hand.id
  <2>0. /\ Base /\ Types /\ Routed!TypeOK /\ Handed /\ Numbered /\ Fulfilled
        /\ id \in Nat \ {0}
    BY <1>1, BaseIs DEF Correct, Types
  <2>1. OnResponse
    <3>1. ~ Queries /\ ~ Holds BY <1>1 DEF Queries, Holds
    <3> QED BY <1>1, <2>0, <3>1, ClientStays
  <2>2. hand.kind = "Response" /\ hand.id = id - 1 /\ call = "waits"
    BY <1>1, <2>1, Returning
  <2>3. id > 1
    <3>1. hand.id \in Nat \ {0} BY <2>0, <2>2, HandNumber
    <3> QED BY <2>0, <2>2, <3>1
  <2>4. PICK n \in Posted : said[n].id = id - 1 BY <2>0, <2>3 DEF Numbered
  <2>5. ASSUME NEW m \in Posted PROVE m <= n
    <3>1. m \in Nat /\ n \in Nat BY <2>0, PostedIs
    <3>2. CASE n < m
      <4>1. said[n].id < said[m].id /\ said[m].id \in 1..(id - 1)
        BY <2>0, <3>2 DEF Numbered
      <4> QED BY <2>0, <2>4, <4>1
    <3> QED BY <3>1, <3>2
  <2>6. Max(Posted) = n
    <3>1. \A m \in Posted : m \in Nat BY <2>0, PostedIs
    <3>2. \A m \in Posted : n >= m BY <2>5, <3>1
    <3>3. \A x \in Posted : (\A m \in Posted : x >= m) => x = n BY <2>5, <3>1
    <3> QED BY <3>2, <3>3 DEF Max
  <2>7. Cardinality(Posted) = calls BY <2>0, <2>2 DEF Numbered
  <2> QED BY <2>2, <2>4, <2>6, <2>7 DEF Posted
<1>2. Correct /\ [Next]_vars =>
        [ call # "idle" /\ call' = "idle" =>
            /\ call = "waits"
            /\ LET queries == {n \in DOMAIN said : said[n].kind = "Query"}
               IN  /\ Cardinality(queries) = calls
                   /\ said[Max(queries)].id = hand.id ]_vars
  BY <1>1
<1> QED BY <1>2, AlwaysCorrect, PTL DEF Spec, AnswersOwnQuery

-----------------------------------------------------------------------------
(* The connections a peer has had, and the streams that were opened to it.   *)

Arrives(e, p) == e.to = "user" /\ e.event = "ConnectionEstablished" /\ e.peer = p

InHand(p) == hand.kind = "ConnectionEstablished" /\ hand.peer = p

Opened(n, p) == SaidAs(n, "Open") /\ issued[n] = p

(* A connection is announced once and opens one stream, so that a peer that  *)
(* had one connection got one Open.                                          *)
OnceTo(p) ==
  /\ met[p] = 0 =>
       /\ \A k \in DOMAIN queue : ~ Arrives(queue[k], p)
       /\ ~ InHand(p) /\ \A n \in DOMAIN said : ~ Opened(n, p)
  /\ met[p] <= 1 =>
       /\ \A j, k \in DOMAIN queue : Arrives(queue[j], p) /\ Arrives(queue[k], p) => j = k
       /\ \A m, n \in DOMAIN said : Opened(m, p) /\ Opened(n, p) => m = n
       /\ \A k \in DOMAIN queue : Arrives(queue[k], p) =>
            ~ InHand(p) /\ \A n \in DOMAIN said : ~ Opened(n, p)
       /\ InHand(p) => \A n \in DOMAIN said : ~ Opened(n, p)

Once == \A p \in Peers : OnceTo(p)

(* Whatever is asked of a peer, a stream to it was opened before.            *)
Introduced ==
  /\ \A n \in DOMAIN said : SaidAs(n, "Query") =>
       \E m \in DOMAIN said : m < n /\ Opened(m, issued[n])
  /\ peer # NoPeer => \E m \in DOMAIN said : Opened(m, peer)

Ever == DOMAIN pool \cup ended

(* Two connections are two of the peers' connections.                        *)
Sole ==
  /\ (\A p \in Peers : met[p] = 0) => Ever = {}
  /\ \A p \in Peers : met[p] <= 1 /\ (\A q \in Peers \ {p} : met[q] = 0) =>
       \A c, d \in Ever : c = d

(* An incoming stream the client has or had is one of a connection's.        *)
Rooted ==
  /\ \A c \in Conns : (streams[c] # {} => c \in Ever) /\ greets[c] \subseteq streams[c]
  /\ \A c \in Conns : \A k \in DOMAIN told[c] :
       told[c][k].kind = "HandshakeDone" => told[c][k].stream \in streams[c]
  /\ (stream = In \/ \E n \in DOMAIN said : SaidAs(n, "Query") /\ said[n].stream = In)
       => \E d \in Conns : In \in streams[d]

(* The entries of the queue that announce a peer's connection stay, in their *)
(* order.                                                                    *)
KeepsEntries(s, p) ==
  \A k \in DOMAIN queue' : Arrives(queue'[k], p) =>
    k \in Nat /\ k + s \in DOMAIN queue /\ Arrives(queue[k + s], p)

LEMMA QueueAppended ==
  ASSUME Routed!TypeOK, NEW e \in Entries, queue' = Append(queue, e), NEW p, ~ Arrives(e, p)
  PROVE  KeepsEntries(0, p)
<1> HIDE DEF Entries
<1>1. queue \in Seq(Entries) /\ DOMAIN queue = 1..Len(queue) /\ Len(queue) \in Nat BY QueueIs
<1>2. /\ queue' \in Seq(Entries) /\ Len(queue') = Len(queue) + 1
      /\ \A k \in 1..Len(queue) : queue'[k] = queue[k]
      /\ queue'[Len(queue) + 1] = e
  BY <1>1, AppendProperties
<1>3. DOMAIN queue' = 1..(Len(queue) + 1) BY <1>2, LenProperties
<1>4. \A k \in DOMAIN queue' :
        \/ k \in Nat /\ k + 0 = k /\ k \in DOMAIN queue /\ queue'[k] = queue[k]
        \/ queue'[k] = e
  BY <1>1, <1>2, <1>3
<1> QED BY <1>4 DEF KeepsEntries

LEMMA QueuePopped ==
  ASSUME Routed!TypeOK, queue # <<>>, queue' = Tail(queue), NEW p
  PROVE  /\ KeepsEntries(1, p)
         /\ \A k \in DOMAIN queue' : k \in Nat /\ k + 1 # 1
<1> HIDE DEF Entries
<1>1. /\ DOMAIN queue' = 1..(Len(queue) - 1)
      /\ \A k \in DOMAIN queue' :
           k + 1 \in DOMAIN queue /\ k + 1 # 1 /\ queue'[k] = queue[k + 1]
  BY FirstIs
<1>2. \A k \in DOMAIN queue' : k \in Nat BY <1>1
<1> QED BY <1>1, <1>2 DEF KeepsEntries

LEMMA QueueSame ==
  ASSUME Routed!TypeOK, UNCHANGED queue, NEW p
  PROVE  KeepsEntries(0, p)
<1>1. \A k \in DOMAIN queue : k \in Nat /\ k + 0 = k BY QueueIs
<1> QED BY <1>1 DEF KeepsEntries

(* A command given announces nothing.                                        *)
LEMMA QueueStated ==
  ASSUME Routed!TypeOK, NEW p,
         \/ UNCHANGED queue
         \/ \E e \in Entries : queue' = Append(queue, e) /\ e.to = "handler"
  PROVE  KeepsEntries(0, p)
<1> HIDE DEF Entries
<1>1. CASE UNCHANGED queue BY <1>1, QueueSame
<1>2. CASE \E e \in Entries : queue' = Append(queue, e) /\ e.to = "handler"
  BY <1>2, QueueAppended DEF Arrives
<1> QED BY <1>1, <1>2

LEMMA OnceStays ==
  ASSUME NEW p \in Peers, OnceTo(p), met'[p] = met[p], NEW s \in {0, 1}, KeepsEntries(s, p),
         InHand(p)' => InHand(p),
         \A n \in DOMAIN said' : Opened(n, p)' => n \in DOMAIN said /\ Opened(n, p)
  PROVE  OnceTo(p)'
<1>1. \A k \in DOMAIN queue' : Arrives(queue'[k], p) =>
        k \in Nat /\ k + s \in DOMAIN queue /\ Arrives(queue[k + s], p)
  BY DEF KeepsEntries
<1>2. met[p] = 0 =>
        /\ \A k \in DOMAIN queue' : ~ Arrives(queue'[k], p)
        /\ ~ InHand(p)' /\ \A n \in DOMAIN said' : ~ Opened(n, p)'
  BY <1>1 DEF OnceTo
<1>3. ASSUME met[p] <= 1
      PROVE  /\ \A j, k \in DOMAIN queue' :
                  Arrives(queue'[j], p) /\ Arrives(queue'[k], p) => j = k
             /\ \A m, n \in DOMAIN said' : Opened(m, p)' /\ Opened(n, p)' => m = n
             /\ \A k \in DOMAIN queue' : Arrives(queue'[k], p) =>
                  ~ InHand(p)' /\ \A n \in DOMAIN said' : ~ Opened(n, p)'
             /\ InHand(p)' => \A n \in DOMAIN said' : ~ Opened(n, p)'
  <2>1. ASSUME NEW j \in DOMAIN queue', NEW k \in DOMAIN queue',
               Arrives(queue'[j], p), Arrives(queue'[k], p)
        PROVE  j = k
    <3>1. j + s = k + s BY <1>1, <1>3, <2>1 DEF OnceTo
    <3>2. j \in Nat /\ k \in Nat BY <1>1, <2>1
    <3> QED BY <3>1, <3>2
  <2>2. \A m, n \in DOMAIN said' : Opened(m, p)' /\ Opened(n, p)' => m = n
    BY <1>3 DEF OnceTo
  <2>3. \A k \in DOMAIN queue' : Arrives(queue'[k], p) =>
          ~ InHand(p)' /\ \A n \in DOMAIN said' : ~ Opened(n, p)'
    BY <1>1, <1>3 DEF OnceTo
  <2>4. InHand(p)' => \A n \in DOMAIN said' : ~ Opened(n, p)' BY <1>3 DEF OnceTo
  <2> QED BY <2>1, <2>2, <2>3, <2>4
<1> QED BY <1>2, <1>3 DEF OnceTo, Arrives

(* The same when nothing is said.                                            *)
LEMMA OnceQuiet ==
  ASSUME Once, UNCHANGED <<met, said, issued>>, hand' = hand \/ hand' = Nothing,
         \A p \in Peers : KeepsEntries(0, p) \/ KeepsEntries(1, p)
  PROVE  Once'
<1> SUFFICES ASSUME NEW p \in Peers PROVE OnceTo(p)'
  BY DEF Once
<1>1. OnceTo(p) BY DEF Once
<1>2. InHand(p)' => InHand(p) BY DEF InHand, Nothing
<1>3. \A n \in DOMAIN said' : Opened(n, p)' => n \in DOMAIN said /\ Opened(n, p)
  BY DEF Opened, SaidAs
<1>4. CASE KeepsEntries(0, p) BY <1>1, <1>2, <1>3, <1>4, OnceStays
<1>5. CASE KeepsEntries(1, p) BY <1>1, <1>2, <1>3, <1>5, OnceStays
<1> QED BY <1>4, <1>5

(* The steps of the swarm.                                                   *)
LEMMA OnceSwarm ==
  ASSUME Base, Once, Swarm
  PROVE  Once'
<1>0. Routed!TypeOK BY BaseIs
<1>1. /\ UNCHANGED <<met, said, hand>>
      /\ Behaviour!PollNotify \/ \E c \in Conns : Behaviour!Closed(c) \/ Behaviour!HandlerEvent(c)
  BY DEF Swarm
<1>2. UNCHANGED issued BY <1>0, Polls
<1>3. CASE Behaviour!PollNotify
  <2>1. queue # <<>> /\ queue' = Tail(queue)
    BY <1>3 DEF Behaviour!PollNotify, Behaviour!Popped
  <2>2. \A p \in Peers : KeepsEntries(1, p) BY <1>0, <2>1, QueuePopped
  <2> QED BY <1>1, <1>2, <2>2, OnceQuiet
<1>4. ASSUME NEW c \in Conns, Behaviour!Closed(c) \/ Behaviour!HandlerEvent(c)
      PROVE  Once'
  <2>1. pool[c] \in Peers
    BY <1>0, <1>4 DEF Routed!TypeOK, Behaviour!Closed, Behaviour!HandlerEvent, Behaviour!Known
  <2>2. PICK k \in {"ConnectionClosed", "Stream"} :
          queue' = Append(queue, Behaviour!Generate(pool[c], c, k))
    BY <1>4 DEF Behaviour!Closed, Behaviour!HandlerEvent
  <2> DEFINE e == Behaviour!Generate(pool[c], c, k)
  <2>3. e \in Entries /\ \A p \in Peers : ~ Arrives(e, p)
    BY <2>1 DEF Behaviour!Generate, Entries, Routed!Happenings, Routed!Kinds, Arrives
  <2>4. queue' = Append(queue, e) BY <2>2
  <2> HIDE DEF e
  <2>5. \A p \in Peers : KeepsEntries(0, p) BY <1>0, <2>3, <2>4, QueueAppended
  <2> QED BY <1>1, <1>2, <2>5, OnceQuiet
<1> QED BY <1>1, <1>3, <1>4

(* What a new connection adds to the queue.                                  *)
LEMMA Arriving ==
  ASSUME Routed!TypeOK, NEW c \in Conns, NEW p \in Peers, Established(c, p),
         NEW k \in DOMAIN queue', NEW q, Arrives(queue'[k], q)
  PROVE  \/ k \in DOMAIN queue /\ queue'[k] = queue[k] /\ k # Len(queue) + 1
         \/ k = Len(queue) + 1 /\ q = p
<1>1. Routed!Established(c, p) BY EstablishedRouted DEF Established
<1>2. Len(queue) \in Nat /\ DOMAIN queue = 1..Len(queue) BY QueueIs
<1>3. \/ k \in DOMAIN queue /\ queue'[k] = queue[k]
      \/ k = Len(queue) + 1 /\ queue'[k] = Routed!Generate(p, c, "ConnectionEstablished")
      \/ \E i \in DOMAIN pending[p] : queue'[k] = Routed!Notify(p, c, pending[p][i])
  BY <1>1, Assumed, Routed!EstablishedEntry
<1>4. k \in DOMAIN queue => k # Len(queue) + 1 BY <1>2
<1> QED BY <1>3, <1>4 DEF Arrives, Routed!Generate, Routed!Notify

LEMMA OnceEstablished ==
  ASSUME Base, Once, NEW c \in Conns, NEW p \in Peers, Established(c, p)
  PROVE  Once'
<1> SUFFICES ASSUME NEW q \in Peers PROVE OnceTo(q)'
  BY DEF Once
<1>0. Routed!TypeOK /\ Types /\ OnceTo(q) BY BaseIs DEF Once
<1>1. UNCHANGED <<said, issued, hand>> /\ met' = [met EXCEPT ![p] = @ + 1]
  <2>1. UNCHANGED <<said, issued>> BY <1>0, Polls
  <2> QED BY <2>1 DEF Established
<1>2. InHand(q)' <=> InHand(q) BY <1>1 DEF InHand
<1>3. \A n : Opened(n, q)' <=> Opened(n, q) BY <1>1 DEF Opened, SaidAs
<1>4. met \in [Peers -> Nat] BY <1>0 DEF Types
<1>5. CASE q # p
  <2>1. met'[q] = met[q] BY <1>1, <1>4, <1>5
  <2>2. KeepsEntries(0, q)
    <3>1. \A k \in DOMAIN queue : k \in Nat /\ k + 0 = k BY <1>0, QueueIs
    <3>2. \A k \in DOMAIN queue' : Arrives(queue'[k], q) =>
            k \in DOMAIN queue /\ queue'[k] = queue[k]
      BY <1>0, <1>5, Arriving
    <3> QED BY <3>1, <3>2 DEF KeepsEntries
  <2>3. \A n \in DOMAIN said' : Opened(n, q)' => n \in DOMAIN said /\ Opened(n, q)
    BY <1>1, <1>3
  <2> QED BY <1>0, <1>2, <2>1, <2>2, <2>3, OnceStays
<1>6. CASE q = p
  <2>1. met'[q] = met[q] + 1 /\ met[q] \in Nat BY <1>1, <1>4, <1>6
  <2>2. met'[q] # 0 /\ (met'[q] <= 1 => met[q] = 0) BY <2>1
  <2>3. met[q] = 0 =>
          /\ \A k \in DOMAIN queue : ~ Arrives(queue[k], q)
          /\ ~ InHand(q) /\ \A n \in DOMAIN said : ~ Opened(n, q)
    BY <1>0 DEF OnceTo
  <2>4. met[q] = 0 => \A k \in DOMAIN queue' : Arrives(queue'[k], q) => k = Len(queue) + 1
    BY <1>0, <2>3, Arriving
  <2>5. met'[q] <= 1 =>
          /\ \A j, k \in DOMAIN queue' : Arrives(queue'[j], q) /\ Arrives(queue'[k], q) => j = k
          /\ ~ InHand(q)' /\ \A n \in DOMAIN said' : ~ Opened(n, q)'
    BY <1>1, <1>2, <1>3, <2>2, <2>3, <2>4
  <2> QED BY <2>2, <2>5 DEF OnceTo, Arrives
<1> QED BY <1>5, <1>6

(* A command that opens nothing, and one that does.                          *)
LEMMA OnceSaid ==
  ASSUME Base, Once, OnQuery \/ Queries
  PROVE  Once'
<1>0. Routed!TypeOK /\ Types /\ Posed /\ Handed BY BaseIs
<1>1. UNCHANGED met /\ (hand' = hand \/ hand' = Nothing) BY <1>0, Spoken
<1>2. PICK p \in Peers, what \in Sayings : Says(p, what) /\ what.kind # "Open"
  BY <1>0, Spoken DEF Opening, OnEstablished, OnQuery, Queries
<1>3. /\ DOMAIN said' = 1..(Len(said) + 1) /\ DOMAIN said = 1..Len(said) /\ Len(said) \in Nat
      /\ said'[Len(said) + 1] = what
      /\ \A m \in DOMAIN said : said'[m] = said[m] /\ issued'[m] = issued[m]
      /\ \/ UNCHANGED queue
         \/ \E e \in Entries : queue' = Append(queue, e) /\ e.to = "handler"
  BY <1>0, <1>2, Stated
<1> SUFFICES ASSUME NEW q \in Peers PROVE OnceTo(q)'
  BY DEF Once
<1>4. KeepsEntries(0, q) BY <1>0, <1>3, QueueStated
<1>5. InHand(q)' => InHand(q) BY <1>1 DEF InHand, Nothing
<1>6. ASSUME NEW n \in DOMAIN said', Opened(n, q)'
      PROVE  n \in DOMAIN said /\ Opened(n, q)
  <2>1. n \in DOMAIN said \/ n = Len(said) + 1 BY <1>3
  <2>2. n # Len(said) + 1 BY <1>2, <1>3, <1>6 DEF Opened, SaidAs
  <2> QED BY <1>3, <1>6, <2>1, <2>2 DEF Opened, SaidAs
<1>7. OnceTo(q) /\ met'[q] = met[q] BY <1>1 DEF Once
<1> QED BY <1>4, <1>5, <1>6, <1>7, OnceStays

LEMMA OnceOpened ==
  ASSUME Base, Once, OnEstablished
  PROVE  Once'
<1>0. Routed!TypeOK /\ Types /\ Posed /\ Handed BY BaseIs
<1>1. /\ hand.kind = "ConnectionEstablished" /\ hand.peer \in Peers
      /\ Says(hand.peer, Opening) /\ hand' = Nothing /\ UNCHANGED met
  BY <1>0, Speaking DEF OnEstablished, Says, Opening, OnQuery, Queries
<1>2. Opening \in Sayings BY DEF Sayings
<1>3. /\ DOMAIN said' = 1..(Len(said) + 1) /\ DOMAIN said = 1..Len(said) /\ Len(said) \in Nat
      /\ issued'[Len(said) + 1] = hand.peer
      /\ \A m \in DOMAIN said : said'[m] = said[m] /\ issued'[m] = issued[m]
      /\ \/ UNCHANGED queue
         \/ \E e \in Entries : queue' = Append(queue, e) /\ e.to = "handler"
  BY <1>0, <1>1, <1>2, Stated
<1> SUFFICES ASSUME NEW q \in Peers PROVE OnceTo(q)'
  BY DEF Once
<1>4. KeepsEntries(0, q) BY <1>0, <1>3, QueueStated
<1>5. ~ InHand(q)' BY <1>1 DEF InHand, Nothing
<1>6. ASSUME NEW n \in DOMAIN said', Opened(n, q)'
      PROVE  (n \in DOMAIN said /\ Opened(n, q)) \/ (n = Len(said) + 1 /\ q = hand.peer)
  <2>1. n \in DOMAIN said \/ n = Len(said) + 1 BY <1>3
  <2> QED BY <1>3, <1>6, <2>1 DEF Opened, SaidAs
<1>7. OnceTo(q) /\ met'[q] = met[q] BY <1>1 DEF Once
<1>8. CASE q # hand.peer BY <1>4, <1>5, <1>6, <1>7, <1>8, OnceStays
<1>9. CASE q = hand.peer
  <2>1. InHand(q) BY <1>1, <1>9 DEF InHand
  <2>2. met[q] # 0 BY <1>7, <2>1 DEF OnceTo
  <2>3. met[q] <= 1 =>
          /\ \A k \in DOMAIN queue' : ~ Arrives(queue'[k], q)
          /\ \A n \in DOMAIN said' : Opened(n, q)' => n = Len(said) + 1
    BY <1>4, <1>6, <1>7, <2>1 DEF OnceTo, KeepsEntries
  <2> QED BY <1>5, <1>7, <2>2, <2>3 DEF OnceTo, Arrives
<1> QED BY <1>8, <1>9

(* The event next in the queue comes to hand.                                *)
LEMMA OncePolled ==
  ASSUME Base, Counted, Once, NextEvent
  PROVE  Once'
<1>0. Routed!TypeOK /\ Types BY BaseIs
<1>1. /\ UNCHANGED <<met, said, issued>> /\ queue # <<>> /\ queue' = Tail(queue)
      /\ hand = Nothing /\ hand'.peer = Head(queue).peer /\ Head(queue).to = "user"
  BY <1>0, Polled
<1>2. hand'.kind = "ConnectionEstablished" => Head(queue).event = "ConnectionEstablished"
  <2>1. PICK c \in Conns :
          \/ hand'.kind = Head(queue).event
          \/ Heard(c) + 1 \in DOMAIN told[c] /\ Carries(hand', told[c][Heard(c) + 1])
    BY Heeded
  <2>2. ASSUME NEW k \in DOMAIN told[c], Carries(hand', told[c][k])
        PROVE  hand'.kind # "ConnectionEstablished"
    <3>1. told[c][k] \in Tellings BY <1>0, <2>2, ToldIs
    <3> QED BY <2>2, <3>1, TellingIs DEF Carries
  <2> QED BY <2>1, <2>2
<1> SUFFICES ASSUME NEW q \in Peers PROVE OnceTo(q)'
  BY DEF Once
<1>3. KeepsEntries(1, q) /\ \A k \in DOMAIN queue' : k \in Nat /\ k + 1 # 1
  BY <1>0, <1>1, QueuePopped
<1>4. \A n \in DOMAIN said' : Opened(n, q)' => n \in DOMAIN said /\ Opened(n, q)
  BY <1>1 DEF Opened, SaidAs
<1>5. OnceTo(q) /\ met'[q] = met[q] BY <1>1 DEF Once
<1>6. CASE ~ InHand(q)' BY <1>3, <1>4, <1>5, <1>6, OnceStays
<1>7. CASE InHand(q)'
  <2>1. 1 \in DOMAIN queue /\ Arrives(queue[1], q)
    <3>1. 1 \in DOMAIN queue /\ Head(queue) = queue[1] BY <1>0, <1>1, FirstIs
    <3> QED BY <1>1, <1>2, <1>7, <3>1 DEF InHand, Arrives
  <2>2. met[q] # 0 BY <1>5, <2>1 DEF OnceTo
  <2>3. met[q] <= 1 =>
          /\ \A k \in DOMAIN queue' : ~ Arrives(queue'[k], q)
          /\ \A n \in DOMAIN said' : ~ Opened(n, q)'
    BY <1>3, <1>4, <1>5, <2>1 DEF OnceTo, KeepsEntries
  <2> QED BY <1>5, <2>2, <2>3 DEF OnceTo, Arrives
<1> QED BY <1>6, <1>7

LEMMA NextOnce == Base /\ Counted /\ Once /\ [Next]_vars => Once'
<1> SUFFICES ASSUME Base, Counted, Once, [Next]_vars PROVE Once'
  OBVIOUS
<1>0. Routed!TypeOK BY BaseIs
<1>1. UNCHANGED queue => \A p \in Peers : KeepsEntries(0, p) BY <1>0, QueueSame
<1>2. CASE OnEstablished BY <1>2, OnceOpened
<1>3. CASE OnQuery \/ Queries BY <1>3, OnceSaid
<1>4. CASE NextEvent BY <1>4, OncePolled
<1>5. CASE Swarm BY <1>5, OnceSwarm
<1>6. CASE \E c \in Conns, p \in Peers : Established(c, p) BY <1>6, OnceEstablished
<1>7. CASE Holds \/ Greeted \/ OnClosed \/ OnResponse
  <2>1. UNCHANGED <<queue, met, said, issued>> /\ (hand' = hand \/ hand' = Nothing)
    BY <1>7, Quiet
  <2> QED BY <1>1, <2>1, OnceQuiet
<1>8. ASSUME NEW c \in Conns, \/ Take(c) \/ RemoteOpens(c) \/ Greet(c) \/ Reply(c)
                              \/ RemoteAsks(c) \/ End(c)
      PROVE  Once'
  <2>1. UNCHANGED <<queue, met, said, issued, hand>> BY <1>8, Tasks
  <2> QED BY <1>1, <2>1, OnceQuiet
<1>9. CASE UNCHANGED vars
  <2>1. UNCHANGED <<queue, met, said, issued, hand>> BY <1>9 DEF vars, behaviour
  <2> QED BY <1>1, <2>1, OnceQuiet
<1> QED BY <1>2, <1>3, <1>4, <1>5, <1>6, <1>7, <1>8, <1>9, ClientSteps

-----------------------------------------------------------------------------
(* What is said to whom.                                                     *)

LEMMA SaidNew ==
  ASSUME Base, [Next]_vars, NEW n \in DOMAIN said', n \notin DOMAIN said
  PROVE  /\ n \in Nat /\ \A m \in DOMAIN said : m < n
         /\ SaidAs(n, "Query")' => Queries /\ issued'[n] = peer /\ said'[n].stream = stream'
<1>0. Routed!TypeOK /\ Types /\ Posed /\ Handed BY BaseIs
<1>1. CASE OnEstablished \/ OnQuery \/ Queries
  <2>1. PICK p \in Peers, what \in Sayings :
          /\ Says(p, what)
          /\ what.kind = "Query" => Queries /\ p = peer /\ what.stream = stream'
    BY <1>0, <1>1, Spoken DEF Opening
  <2>2. /\ DOMAIN said' = 1..(Len(said) + 1) /\ DOMAIN said = 1..Len(said) /\ Len(said) \in Nat
        /\ said'[Len(said) + 1] = what /\ issued'[Len(said) + 1] = p
    BY <1>0, <2>1, Stated
  <2>3. n = Len(said) + 1 BY <2>2
  <2>4. n \in Nat /\ \A m \in DOMAIN said : m < n BY <2>2, <2>3
  <2> QED BY <2>1, <2>2, <2>3, <2>4 DEF SaidAs
<1>2. CASE Holds \/ Greeted \/ OnClosed \/ OnResponse BY <1>2, Quiet
<1>3. CASE NextEvent \/ Swarm \/ \E c \in Conns, p \in Peers : Established(c, p)
  BY <1>0, <1>3, Polls
<1>4. ASSUME NEW c \in Conns, \/ Take(c) \/ RemoteOpens(c) \/ Greet(c) \/ Reply(c)
                              \/ RemoteAsks(c) \/ End(c)
      PROVE  UNCHANGED said
  BY <1>4, Tasks
<1>5. CASE UNCHANGED vars BY <1>5 DEF vars
<1> QED BY <1>1, <1>2, <1>3, <1>4, <1>5, ClientSteps

LEMMA PeerStays ==
  ASSUME Base, [Next]_vars
  PROVE  OnEstablished \/ peer' = peer \/ peer' = NoPeer
<1>0. Routed!TypeOK BY BaseIs
<1>1. CASE Queries \/ Holds \/ Greeted BY <1>1 DEF Queries, Holds, Greeted
<1>2. CASE OnQuery \/ OnClosed \/ OnResponse
  BY <1>2 DEF OnQuery, OnClosed, OnResponse, client
<1>3. CASE NextEvent \/ Swarm \/ \E c \in Conns, p \in Peers : Established(c, p)
  BY <1>0, <1>3, Polls DEF client
<1>4. ASSUME NEW c \in Conns, \/ Take(c) \/ RemoteOpens(c) \/ Greet(c) \/ Reply(c)
                              \/ RemoteAsks(c) \/ End(c)
      PROVE  UNCHANGED peer
  BY <1>4, Tasks DEF client
<1>5. CASE UNCHANGED vars BY <1>5 DEF vars, client
<1> QED BY <1>1, <1>2, <1>3, <1>4, <1>5, ClientSteps

LEMMA NextIntroduced == Base /\ Introduced /\ [Next]_vars => Introduced'
<1> SUFFICES ASSUME Base, Introduced, [Next]_vars PROVE Introduced'
  OBVIOUS
<1>0. Routed!TypeOK /\ Types /\ Posed /\ Handed BY BaseIs
<1>1. \A n, p : Opened(n, p) => Opened(n, p)'
  BY SaidStays DEF Opened, SaidAs
<1>2. \A n \in DOMAIN said : n \in DOMAIN said' BY SaidStays
<1>3. ASSUME NEW n \in DOMAIN said', SaidAs(n, "Query")'
      PROVE  \E m \in DOMAIN said' : m < n /\ Opened(m, issued[n])'
  <2>1. CASE n \in DOMAIN said
    <3>1. SaidAs(n, "Query") /\ issued'[n] = issued[n]
      BY <1>3, <2>1, SaidStays DEF SaidAs
    <3>2. PICK m \in DOMAIN said : m < n /\ Opened(m, issued[n])
      BY <2>1, <3>1 DEF Introduced
    <3>3. PICK p : p = issued[n] OBVIOUS
    <3>4. Opened(m, p)' BY <1>1, <3>2, <3>3
    <3> QED BY <1>2, <3>1, <3>2, <3>3, <3>4 DEF Opened
  <2>2. CASE n \notin DOMAIN said
    <3>1. /\ \A m \in DOMAIN said : m < n
          /\ Queries /\ issued'[n] = peer
      BY <1>3, <2>2, SaidNew
    <3>2. PICK m \in DOMAIN said : Opened(m, peer) BY <3>1 DEF Introduced, Queries
    <3>3. PICK p : p = peer OBVIOUS
    <3>4. Opened(m, p)' BY <1>1, <3>2, <3>3
    <3> QED BY <1>2, <3>1, <3>2, <3>3, <3>4 DEF Opened
  <2> QED BY <2>1, <2>2
<1>4. ASSUME peer' # NoPeer PROVE \E m \in DOMAIN said' : Opened(m, peer)'
  <2>1. CASE peer' = peer
    <3>1. PICK m \in DOMAIN said : Opened(m, peer) BY <1>4, <2>1 DEF Introduced
    <3>2. PICK p : p = peer OBVIOUS
    <3>3. Opened(m, p)' BY <1>1, <3>1, <3>2
    <3> QED BY <1>2, <2>1, <3>1, <3>2, <3>3 DEF Opened
  <2>2. CASE OnEstablished
    <3>1. hand.peer \in Peers /\ Says(hand.peer, Opening) /\ peer' = hand.peer
      BY <1>0, <2>2, Speaking DEF OnEstablished, Says, Opening, OnQuery, Queries
    <3>2. Opening \in Sayings /\ Opening.kind = "Open" BY DEF Sayings, Opening
    <3>3. /\ DOMAIN said' = 1..(Len(said) + 1) /\ Len(said) \in Nat
          /\ said'[Len(said) + 1] = Opening /\ issued'[Len(said) + 1] = hand.peer
      BY <1>0, <3>1, <3>2, Stated
    <3>4. PICK m : m = Len(said) + 1 OBVIOUS
    <3>5. m \in DOMAIN said' BY <3>3, <3>4
    <3> QED BY <3>1, <3>2, <3>3, <3>4, <3>5 DEF Opened, SaidAs
  <2> QED BY <1>4, <2>1, <2>2, PeerStays
<1> QED BY <1>3, <1>4 DEF Introduced

-----------------------------------------------------------------------------
(* The connections there have been.                                          *)

LEMMA EverClosed ==
  ASSUME Base, NEW c \in Conns, Behaviour!Closed(c)
  PROVE  Ever' = Ever
<1>0. Routed!TypeOK /\ Routed!Ends BY BaseIs DEF Routed!Footing, Routed!Ground
<1>1. /\ up[c] # <<>> /\ Head(up[c]) = "closed" /\ UNCHANGED ended
      /\ pool' = [d \in DOMAIN pool \ {c} |-> pool[d]]
  BY DEF Behaviour!Closed
<1>2. up[c] \in Seq({"stream", "closed"}) BY <1>0 DEF Routed!TypeOK
<1>3. 1 \in DOMAIN up[c] /\ up[c][1] = "closed"
  <2>1. Len(up[c]) \in Nat \ {0} /\ DOMAIN up[c] = 1..Len(up[c]) BY <1>1, <1>2, EmptySeq, LenProperties
  <2>2. Head(up[c]) = up[c][1] BY <1>1, <1>2, HeadTailProperties
  <2> QED BY <1>1, <2>1, <2>2
<1>4. c \in ended BY <1>0, <1>3 DEF Routed!Ends
<1> QED BY <1>1, <1>4 DEF Ever

LEMMA NextEver ==
  ASSUME Base, [Next]_vars
  PROVE  \/ met' = met /\ Ever' = Ever
         \/ \E c \in Conns, p \in Peers :
              c \notin Ever /\ Ever' = Ever \cup {c} /\ met' = [met EXCEPT ![p] = @ + 1]
<1>0. Routed!TypeOK /\ Types /\ Posed /\ Handed BY BaseIs
<1>1. UNCHANGED <<pool, ended>> => Ever' = Ever BY DEF Ever
<1>2. CASE OnEstablished \/ OnQuery \/ Queries
  BY <1>0, <1>1, <1>2, Spoken, Stated
<1>3. CASE Holds \/ Greeted \/ OnClosed \/ OnResponse BY <1>1, <1>3, Quiet
<1>4. CASE NextEvent BY <1>0, <1>1, <1>4, Polled
<1>5. CASE Swarm
  <2>1. UNCHANGED met BY <1>5 DEF Swarm
  <2>2. Behaviour!PollNotify => Ever' = Ever
    BY <1>1 DEF Behaviour!PollNotify
  <2>3. \A c \in Conns : Behaviour!HandlerEvent(c) => Ever' = Ever
    BY <1>1 DEF Behaviour!HandlerEvent
  <2> QED BY <1>5, <2>1, <2>2, <2>3, EverClosed DEF Swarm
<1>6. ASSUME NEW c \in Conns, NEW p \in Peers, Established(c, p)
      PROVE  c \notin Ever /\ Ever' = Ever \cup {c} /\ met' = [met EXCEPT ![p] = @ + 1]
  BY <1>6 DEF Established, Behaviour!Established, Behaviour!Known, Behaviour!links, Ever
<1>7. ASSUME NEW c \in Conns, \/ Take(c) \/ RemoteOpens(c) \/ Greet(c) \/ Reply(c)
                              \/ RemoteAsks(c)
      PROVE  UNCHANGED <<met, pool, ended>>
  <2>1. UNCHANGED <<met, pool>> BY <1>7, Tasks
  <2>2. UNCHANGED ended
    BY <1>7 DEF Take, RemoteOpens, Greet, Reply, RemoteAsks, Tell, behaviour,
                Behaviour!Take, Behaviour!Emit
  <2> QED BY <2>1, <2>2
<1>8. ASSUME NEW c \in Conns, End(c)
      PROVE  met' = met /\ Ever' = Ever
  <2>1. UNCHANGED <<met, pool>> BY <1>8, Tasks
  <2>2. c \in DOMAIN pool /\ ended' = ended \cup {c}
    BY <1>8 DEF End, Behaviour!End, Behaviour!Running, Behaviour!Known
  <2> QED BY <2>1, <2>2 DEF Ever
<1>9. CASE UNCHANGED vars BY <1>1, <1>9 DEF vars, behaviour
<1> QED BY <1>1, <1>2, <1>3, <1>4, <1>5, <1>6, <1>7, <1>8, <1>9, ClientSteps

LEMMA MetGrows ==
  ASSUME Base, [Next]_vars
  PROVE  Ever \subseteq Ever' /\ \A p \in Peers : met[p] \in Nat /\ met'[p] \in Nat /\ met[p] <= met'[p]
<1>1. met \in [Peers -> Nat] BY BaseIs DEF Types
<1>2. CASE met' = met /\ Ever' = Ever BY <1>1, <1>2
<1>3. ASSUME NEW c \in Conns, NEW p \in Peers,
             Ever' = Ever \cup {c}, met' = [met EXCEPT ![p] = @ + 1]
      PROVE  Ever \subseteq Ever' /\ \A q \in Peers : met[q] \in Nat /\ met'[q] \in Nat /\ met[q] <= met'[q]
  BY <1>1, <1>3
<1> QED BY <1>2, <1>3, NextEver

LEMMA NextSole == Base /\ Sole /\ [Next]_vars => Sole'
<1> SUFFICES ASSUME Base, Sole, [Next]_vars PROVE Sole'
  OBVIOUS
<1>0. met \in [Peers -> Nat] BY BaseIs DEF Types
<1>1. CASE met' = met /\ Ever' = Ever BY <1>1 DEF Sole
<1>2. ASSUME NEW c \in Conns, NEW p \in Peers,
             Ever' = Ever \cup {c}, met' = [met EXCEPT ![p] = @ + 1]
      PROVE  Sole'
  <2>1. met'[p] = met[p] + 1 /\ met[p] \in Nat /\ \A q \in Peers : q # p => met'[q] = met[q]
    BY <1>0, <1>2
  <2>2. met'[p] # 0 /\ (met'[p] <= 1 => met[p] = 0) BY <2>1
  <2>3. ASSUME NEW q \in Peers, met'[q] <= 1, \A r \in Peers \ {q} : met'[r] = 0
        PROVE  \A d, e \in Ever' : d = e
    <3>1. q = p BY <2>2, <2>3
    <3>2. \A r \in Peers : met[r] = 0 BY <2>1, <2>2, <2>3, <3>1
    <3>3. Ever = {} BY <3>2 DEF Sole
    <3> QED BY <1>2, <3>3
  <2> QED BY <2>2, <2>3 DEF Sole
<1> QED BY <1>1, <1>2, NextEver

-----------------------------------------------------------------------------
(* The streams there are.                                                    *)

LEMMA Untouched ==
  ASSUME Base, [Next]_vars
  PROVE  \/ UNCHANGED <<told, streams, greets, astray>>
         \/ \E c \in Conns : Take(c)
         \/ \E c \in Conns : RemoteOpens(c)
         \/ \E c \in Conns : Greet(c) \/ Reply(c) \/ RemoteAsks(c)
<1>0. Types /\ Routed!TypeOK /\ Posed /\ Handed BY BaseIs
<1>1. CASE OnEstablished \/ OnQuery \/ Queries BY <1>0, <1>1, Spoken DEF remote
<1>2. CASE Holds \/ Greeted \/ OnClosed \/ OnResponse BY <1>2, Quiet DEF remote
<1>3. CASE NextEvent \/ Swarm \/ \E c \in Conns, p \in Peers : Established(c, p)
  BY <1>0, <1>3, Polls DEF remote
<1>4. CASE \E c \in Conns : End(c) BY <1>4 DEF End, remote
<1>5. CASE UNCHANGED vars BY <1>5 DEF vars, remote
<1> QED BY <1>1, <1>2, <1>3, <1>4, <1>5, ClientSteps

(* Streams come, on connections that there are, with their handshakes.       *)
LEMMA StreamsCome ==
  ASSUME Base, NEW c \in Conns, Take(c) \/ RemoteOpens(c)
  PROVE  /\ c \in Ever /\ UNCHANGED told
         /\ \E s \in SUBSET Ends : \A d \in Conns :
              /\ streams'[d] = IF d = c THEN streams[d] \cup s ELSE streams[d]
              /\ greets'[d] = IF d = c THEN greets[d] \cup s ELSE greets[d]
<1>0. /\ Types /\ Routed!Footing
      /\ streams \in [Conns -> SUBSET Ends] /\ greets \in [Conns -> SUBSET Ends]
  BY BaseIs DEF Types
<1>1. PICK s \in SUBSET Ends :
        /\ c \in DOMAIN pool /\ UNCHANGED told
        /\ streams' = [streams EXCEPT ![c] = @ \cup s]
        /\ greets' = [greets EXCEPT ![c] = @ \cup s]
  <2>1. CASE Take(c)
    <3>1. PICK n \in DOMAIN said : Takes(c, n) BY <1>0, <2>1, Taking
    <3>2. {} \in SUBSET Ends /\ {Out} \in SUBSET Ends BY DEF Ends
    <3> QED BY <3>1, <3>2 DEF Takes
  <2>2. CASE RemoteOpens(c)
    <3>1. {In} \in SUBSET Ends BY DEF Ends
    <3> QED BY <2>2, <3>1 DEF RemoteOpens, Behaviour!Running, Behaviour!Known
  <2> QED BY <2>1, <2>2
<1>2. \A d \in Conns :
        /\ streams'[d] = IF d = c THEN streams[d] \cup s ELSE streams[d]
        /\ greets'[d] = IF d = c THEN greets[d] \cup s ELSE greets[d]
  BY <1>0, <1>1
<1> QED BY <1>1, <1>2 DEF Ever

(* What is told leaves the streams alone.                                    *)
LEMMA StreamsTold ==
  ASSUME Base, NEW c \in Conns, Greet(c) \/ Reply(c) \/ RemoteAsks(c)
  PROVE  /\ UNCHANGED <<streams, astray>> /\ \A d \in Conns : greets'[d] \subseteq greets[d]
         /\ \A d \in Conns : \A k \in DOMAIN told'[d] :
              \/ k \in DOMAIN told[d] /\ told'[d][k] = told[d][k]
              \/ told'[d][k].kind = "HandshakeDone" => told'[d][k].stream \in greets[d]
<1>0. Types /\ Routed!TypeOK /\ Asked /\ greets \in [Conns -> SUBSET Ends] BY BaseIs DEF Types
<1>1. PICK what \in Tellings :
        /\ Tell(c, what)
        /\ what.kind = "HandshakeDone" => what.stream \in greets[c]
        /\ UNCHANGED greets \/ \E s : greets' = [greets EXCEPT ![c] = @ \ {s}]
  BY <1>0, Tells
<1>2. \A d \in Conns : greets'[d] \subseteq greets[d] BY <1>0, <1>1
<1>3. /\ UNCHANGED <<streams, astray>> /\ \A d \in Conns : d # c => told'[d] = told[d]
      /\ DOMAIN told'[c] = 1..(Len(told[c]) + 1)
      /\ \A k \in DOMAIN told[c] : told'[c][k] = told[c][k]
      /\ told'[c][Len(told[c]) + 1] = what
  BY <1>0, <1>1, Telling
<1>4. DOMAIN told[c] = 1..Len(told[c]) /\ Len(told[c]) \in Nat BY <1>0, ToldIs
<1>5. \A k \in DOMAIN told'[c] : k \in DOMAIN told[c] \/ k = Len(told[c]) + 1 BY <1>3, <1>4
<1> QED BY <1>1, <1>2, <1>3, <1>5

LEMMA NextRooted == Base /\ Rooted /\ [Next]_vars => Rooted'
<1> SUFFICES ASSUME Base, Rooted, [Next]_vars PROVE Rooted'
  OBVIOUS
<1>0. Types /\ Routed!TypeOK /\ Posed /\ Handed BY BaseIs
<1>1. Ever \subseteq Ever' BY MetGrows
<1>2. ASSUME NEW c \in Conns
      PROVE  /\ streams[c] \subseteq streams'[c]
             /\ (streams'[c] # {} => c \in Ever') /\ greets'[c] \subseteq streams'[c]
             /\ \A k \in DOMAIN told'[c] :
                  told'[c][k].kind = "HandshakeDone" => told'[c][k].stream \in streams'[c]
  <2>0. /\ (streams[c] # {} => c \in Ever) /\ greets[c] \subseteq streams[c]
        /\ \A k \in DOMAIN told[c] :
             told[c][k].kind = "HandshakeDone" => told[c][k].stream \in streams[c]
    BY DEF Rooted
  <2>1. CASE UNCHANGED <<told, streams, greets>> BY <1>1, <2>0, <2>1
  <2>2. ASSUME NEW d \in Conns, Take(d) \/ RemoteOpens(d)
        PROVE  <1>2!2
    <3>1. /\ d \in Ever /\ UNCHANGED told
          /\ \E s \in SUBSET Ends :
               /\ streams'[c] = IF c = d THEN streams[c] \cup s ELSE streams[c]
               /\ greets'[c] = IF c = d THEN greets[c] \cup s ELSE greets[c]
      BY <2>2, StreamsCome
    <3> QED BY <1>1, <2>0, <3>1
  <2>3. ASSUME NEW d \in Conns, Greet(d) \/ Reply(d) \/ RemoteAsks(d)
        PROVE  <1>2!2
    BY <1>1, <2>0, <2>3, StreamsTold
  <2> QED BY <2>1, <2>2, <2>3, Untouched
<1>3. ASSUME stream' = In PROVE \E d \in Conns : In \in streams[d]
  <2>1. CASE stream = In BY <2>1 DEF Rooted
  <2>2. CASE hand.kind = "HandshakeDone" /\ stream' = hand.stream
    <3>1. PICK c \in Conns : Heard(c) \in DOMAIN told[c] /\ Carries(hand, told[c][Heard(c)])
      BY <1>0, <2>2, HandIs
    <3> QED BY <1>3, <2>2, <3>1 DEF Carries, Rooted
  <2>3. stream' = stream \/ (hand.kind = "HandshakeDone" /\ stream' = hand.stream)
    <3>1. CASE Queries \/ Holds \/ Greeted BY <3>1 DEF Queries, Holds, Greeted
    <3>2. CASE OnEstablished \/ OnQuery \/ OnClosed \/ OnResponse
      BY <3>2 DEF OnEstablished, OnQuery, OnClosed, OnResponse, client
    <3>3. CASE NextEvent \/ Swarm \/ \E c \in Conns, p \in Peers : Established(c, p)
      BY <1>0, <3>3, Polls DEF client
    <3>4. ASSUME NEW c \in Conns, \/ Take(c) \/ RemoteOpens(c) \/ Greet(c) \/ Reply(c)
                                  \/ RemoteAsks(c) \/ End(c)
          PROVE  UNCHANGED stream
      BY <3>4, Tasks DEF client
    <3>5. CASE UNCHANGED vars BY <3>5 DEF vars, client
    <3> QED BY <3>1, <3>2, <3>3, <3>4, <3>5, ClientSteps
  <2> QED BY <1>3, <2>1, <2>2, <2>3
<1>4. ASSUME NEW n \in DOMAIN said', SaidAs(n, "Query")', said'[n].stream = In
      PROVE  \E d \in Conns : In \in streams[d]
  <2>1. CASE n \in DOMAIN said
    <3>1. SaidAs(n, "Query") /\ said[n].stream = In
      BY <1>4, <2>1, SaidStays DEF SaidAs
    <3> QED BY <2>1, <3>1 DEF Rooted
  <2>2. CASE n \notin DOMAIN said
    <3>1. said'[n].stream = stream' BY <1>4, <2>2, SaidNew
    <3> QED BY <1>3, <1>4, <3>1
  <2> QED BY <2>1, <2>2
<1>5. (\E d \in Conns : In \in streams[d]) => \E d \in Conns : In \in streams'[d]
  BY <1>2
<1> QED BY <1>2, <1>3, <1>4, <1>5 DEF Rooted

-----------------------------------------------------------------------------
(* Queries that go astray.                                                   *)

Sound == Correct /\ Once /\ Introduced /\ Sole /\ Rooted

Strayed(n) ==
  /\ n \in DOMAIN said
  /\ \/ met[issued[n]] > 1
     \/ said[n].stream = In /\ \E p \in Peers \ {issued[n]} : met[p] > 0

(* A command was taken by a connection of the peer it was issued for.        *)
LEMMA TakenFor ==
  ASSUME Routed!Footing, NEW c \in DOMAIN pool, c \in Conns, NEW m \in ToSet(taken[c])
  PROVE  issued[m] = pool[c]
<1>1. \A x : Routed!ToSet(x) = ToSet(x) BY DEF ToSet, Routed!ToSet
<1>2. m \in Routed!SentTo(c) BY <1>1, Assumed, Routed!Sent
<1> QED BY <1>2 DEF Routed!Footing, Routed!Destined, Routed!Goes, Routed!Known

LEMMA Straying ==
  ASSUME Sound, NEW c \in Conns, NEW n \in DOMAIN said, Takes(c, n), NEW m \in astray' \ astray
  PROVE  Strayed(m)
<1>0. /\ Routed!Footing /\ Routed!TypeOK /\ Types /\ Asked /\ met \in [Peers -> Nat]
      /\ \A k \in DOMAIN said : said[k] \in Sayings /\ issued[k] \in Peers /\ k \in Nat
  <2>1. Base BY DEF Sound, Correct
  <2>2. Routed!Footing /\ Routed!TypeOK /\ Types /\ Asked BY <2>1, BaseIs
  <2> QED BY <2>2, SaidIs DEF Types
<1>1. c \in DOMAIN pool /\ issued[n] = pool[c] BY DEF Takes
<1>2. CASE m \in asked[c] /\ SaidAs(n, "Open")
  <2>1. m \in ToSet(taken[c]) /\ SaidAs(m, "Query") /\ m \in DOMAIN said
    BY <1>0, <1>2 DEF Asked, SaidAs
  <2>2. m < n /\ issued[m] = issued[n] BY <1>0, <1>1, <2>1, TakenFor DEF Takes
  <2>3. PICK j \in DOMAIN said : j < m /\ Opened(j, issued[m])
    BY <2>1 DEF Sound, Introduced
  <2>4. Opened(n, issued[m]) BY <1>2, <2>2 DEF Opened
  <2>5. j # n BY <1>0, <2>1, <2>2, <2>3
  <2>6. OnceTo(issued[m]) BY <1>0, <2>1 DEF Sound, Once
  <2>7. ~ (met[issued[m]] <= 1) BY <2>3, <2>4, <2>5, <2>6 DEF OnceTo
  <2>8. met[issued[m]] \in Nat BY <1>0, <2>1
  <2> QED BY <2>1, <2>7, <2>8 DEF Strayed
<1>3. CASE m = n /\ SaidAs(n, "Query") /\ said[n].stream \notin streams[c] \cup {Out}
  <2>1. said[n].stream = In BY <1>0, <1>3, SayingIs DEF SaidAs, Ends
  <2>2. PICK d \in Conns : In \in streams[d] BY <1>3, <2>1 DEF Sound, Rooted
  <2>3. d # c /\ d \in Ever /\ c \in Ever
    BY <1>1, <1>3, <2>1, <2>2 DEF Sound, Rooted, Ever
  <2>4. ~ (met[issued[n]] <= 1 /\ \A q \in Peers \ {issued[n]} : met[q] = 0)
    BY <1>0, <2>3 DEF Sound, Sole
  <2>5. \A q \in Peers : met[q] \in Nat BY <1>0
  <2>6. met[issued[n]] > 1 \/ \E q \in Peers \ {issued[n]} : met[q] > 0
    BY <1>0, <2>4, <2>5
  <2> QED BY <1>3, <2>1, <2>6 DEF Strayed
<1> QED BY <1>2, <1>3 DEF Takes

LEMMA NextStrayed ==
  Sound /\ (\A n \in astray : Strayed(n)) /\ [Next]_vars => \A n \in astray' : Strayed(n)'
<1> SUFFICES ASSUME Sound, \A n \in astray : Strayed(n), [Next]_vars, NEW n \in astray'
             PROVE  Strayed(n)'
  OBVIOUS
<1>0. Base /\ Routed!Footing /\ Routed!TypeOK /\ Types BY BaseIs DEF Sound, Correct
<1>1. Strayed(n)
  <2>1. CASE n \in astray BY <2>1
  <2>2. ASSUME NEW c \in Conns, Take(c), n \notin astray
        PROVE  Strayed(n)
    <3>1. PICK m \in DOMAIN said : Takes(c, m) BY <1>0, <2>2, Taking
    <3> QED BY <2>2, <3>1, Straying
  <2>3. CASE n \notin astray
    <3>1. ~ UNCHANGED astray BY <2>3
    <3>2. \A c \in Conns : RemoteOpens(c) => UNCHANGED astray BY DEF RemoteOpens
    <3>3. \A c \in Conns : Greet(c) \/ Reply(c) \/ RemoteAsks(c) => UNCHANGED astray
      BY <1>0, StreamsTold
    <3> QED BY <1>0, <2>2, <2>3, <3>1, <3>2, <3>3, Untouched
  <2> QED BY <2>1, <2>3
<1>2. n \in DOMAIN said' /\ said'[n] = said[n] /\ issued'[n] = issued[n]
  BY <1>0, <1>1, SaidStays DEF Strayed
<1>3. \A p \in Peers : met[p] \in Nat /\ met'[p] \in Nat /\ met[p] <= met'[p]
  BY <1>0, MetGrows
<1>4. \A p \in Peers : (met[p] > 1 => met'[p] > 1) /\ (met[p] > 0 => met'[p] > 0) BY <1>3
<1>5. issued[n] \in Peers BY <1>0, <1>1, SaidIs DEF Strayed
<1> QED BY <1>1, <1>2, <1>4, <1>5 DEF Strayed

LEMMA AlwaysSound == Spec => [](Sound /\ \A n \in astray : Strayed(n))
<1> DEFINE Inv == Once /\ Introduced /\ Sole /\ Rooted
           Str == \A n \in astray : Strayed(n)
<1>1. Init => Inv /\ Str
  <2> SUFFICES ASSUME Init PROVE Inv /\ Str
    OBVIOUS
  <2>1. /\ queue = <<>> /\ said = <<>> /\ hand = Nothing /\ peer = NoPeer /\ stream = NoStream
        /\ pool = <<>> /\ ended = {} /\ astray = {} /\ met = [p \in Peers |-> 0]
        /\ told = [c \in Conns |-> <<>>] /\ streams = [c \in Conns |-> {}]
        /\ greets = [c \in Conns |-> {}]
    BY DEF Init, Behaviour!Init
  <2>2. DOMAIN queue = {} /\ DOMAIN said = {} /\ DOMAIN pool = {}
        /\ \A c \in Conns : DOMAIN told[c] = {}
    <3>1. \A s : s = <<>> => DOMAIN s = {} OBVIOUS
    <3>2. \A c \in Conns : told[c] = <<>> BY <2>1
    <3> QED BY <2>1, <3>1, <3>2
  <2>3. Once BY <2>1, <2>2 DEF Once, OnceTo, InHand, Nothing
  <2>4. Introduced BY <2>1, <2>2 DEF Introduced
  <2>5. Sole BY <2>1, <2>2 DEF Sole, Ever
  <2>6. Rooted BY <2>1, <2>2 DEF Rooted, NoStream, In
  <2> QED BY <2>1, <2>3, <2>4, <2>5, <2>6
<1>2. Correct /\ Inv /\ [Next]_vars => Inv'
  BY NextOnce, NextIntroduced, NextSole, NextRooted DEF Correct
<1>3. Correct /\ Inv <=> Sound BY DEF Sound
<1>4. Sound /\ Str /\ [Next]_vars => Str' BY NextStrayed
<1> HIDE DEF Inv, Str
<1>5. Spec => [](Sound /\ Str) BY <1>1, <1>2, <1>3, <1>4, AlwaysCorrect, PTL DEF Spec
<1> QED BY <1>5 DEF Str

(* No query goes astray on a peer's first connection, unless it is for the   *)
(* incoming stream of another peer's connection, whatever is queued between  *)
(* the swarm and the client (client.rs:54-83, behaviour.rs:76, 175,          *)
(* handler.rs:131).                                                          *)
THEOREM Strays == Spec => []StraysNotFirst
<1>1. Sound /\ (\A n \in astray : Strayed(n)) => StraysNotFirst
  BY DEF StraysNotFirst, Strayed
<1> QED BY <1>1, AlwaysSound, PTL
=============================================================================
