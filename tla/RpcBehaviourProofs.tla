------------------------- MODULE RpcBehaviourProofs ------------------------
(* Theorems about RpcBehaviour, for every set of peers and of connections    *)
(* and without bounds.                                                       *)
EXTENDS RpcBehaviour, TLAPS, SequenceTheorems, FiniteSetTheorems

Tables ==
  /\ peers \in [Peers -> Conns \cup {NoConn}]
  /\ DOMAIN pool \subseteq Conns
  /\ \A c \in DOMAIN pool : pool[c] \in Peers

RInv == Tables /\ PeersAreConnected

(* No peer has an entry before the first connection (behaviour.rs:49-56).    *)
LEMMA RoutingInit == Init => RInv
BY DEF Init, RInv, Tables, PeersAreConnected

(* Every call that touches `peers` or the connections keeps each entry on a  *)
(* connection of its peer that the swarm knows (behaviour.rs:152, 163, 174,  *)
(* 195-197, 212).                                                            *)
LEMMA RoutingStep == RInv /\ [Next]_vars => RInv'
<1> SUFFICES ASSUME RInv, [Next]_vars PROVE RInv'
  OBVIOUS
<1> USE DEF RInv, Tables, PeersAreConnected, Known
<1>1. CASE UNCHANGED <<peers, pool>>
  BY <1>1
<1>2. ASSUME NEW c \in Conns, NEW p \in Peers, Established(c, p) PROVE RInv'
  <2>1. /\ peers' = [peers EXCEPT ![p] = c]
        /\ pool' = [d \in DOMAIN pool \cup {c} |-> IF d = c THEN p ELSE pool[d]]
        /\ c \notin DOMAIN pool
    BY <1>2 DEF Established
  <2> QED BY <2>1
<1>3. ASSUME NEW c \in Conns, Closed(c) PROVE RInv'
  <2>1. /\ peers' = IF peers[pool[c]] = c
                    THEN [peers EXCEPT ![pool[c]] = NoConn] ELSE peers
        /\ pool' = [d \in DOMAIN pool \ {c} |-> pool[d]]
        /\ c \in DOMAIN pool
    BY <1>3 DEF Closed, Forget
  <2>2. Tables'
    BY <2>1
  <2>3. ASSUME NEW p \in Peers, peers'[p] # NoConn
        PROVE  peers'[p] \in DOMAIN pool' /\ pool'[peers'[p]] = p
    <3>1. peers'[p] = peers[p]
      BY <2>1, <2>3
    <3>2. peers[p] # c
      BY <2>1, <2>3, <3>1
    <3> QED BY <2>1, <2>3, <3>1, <3>2
  <2> QED BY <2>2, <2>3
<1>4. ASSUME NEW c \in Conns, HandlerEvent(c) PROVE RInv'
  <2>1. peers' = [peers EXCEPT ![pool[c]] = c] /\ pool' = pool /\ c \in DOMAIN pool
    BY <1>4 DEF HandlerEvent
  <2> QED BY <2>1
<1>5. ASSUME NEW c \in Conns, Take(c) \/ Emit(c) \/ End(c)
      PROVE  UNCHANGED <<peers, pool>>
  BY <1>5 DEF Take, Emit, End, own
<1>6. CASE PollNotify \/ PollEvent
  BY <1>1, <1>6 DEF PollNotify, PollEvent
<1>7. ASSUME NEW p \in Peers, Dispatch(p) PROVE UNCHANGED <<peers, pool>>
  BY <1>7 DEF Dispatch
<1>8. CASE UNCHANGED vars
  BY <1>1, <1>8 DEF vars, own
<1> QED BY <1>1, <1>2, <1>3, <1>4, <1>5, <1>6, <1>7, <1>8 DEF Next, Swarm

(* A command is only ever addressed to a connection of its peer that the     *)
(* swarm has not reported closed: the entry of `peers` is replaced by newer  *)
(* connections and events, and removed with the connection it names          *)
(* (behaviour.rs:152, 174, 195-197, 212).                                    *)
THEOREM Routing == Spec => []PeersAreConnected
<1>1. RInv => PeersAreConnected
  BY DEF RInv
<1> QED BY <1>1, RoutingInit, RoutingStep, PTL DEF Spec

-----------------------------------------------------------------------------
(* Types.                                                                    *)

Entries == Notifications \cup Happenings

(* The queue after a connection is established: its event, and behind it     *)
(* what was pending (behaviour.rs:175-187).                                  *)
LEMMA EstablishedQueue ==
  ASSUME TypeOK, NEW c \in Conns, NEW p \in Peers, Established(c, p)
  PROVE  /\ queue' \in Seq(Entries)
         /\ Len(queue') = Len(queue) + 1 + Len(pending[p])
         /\ \A k \in 1..Len(queue) : queue'[k] = queue[k]
         /\ queue'[Len(queue) + 1] = Generate(p, c, "ConnectionEstablished")
         /\ \A i \in 1..Len(pending[p]) :
              queue'[Len(queue) + 1 + i] = Notify(p, c, pending[p][i])
<1> DEFINE a == Append(queue, Generate(p, c, "ConnectionEstablished"))
           b == [i \in DOMAIN pending[p] |-> Notify(p, c, pending[p][i])]
<1>1. queue \in Seq(Entries) /\ pending[p] \in Seq(Nat)
  BY DEF TypeOK, Entries
<1>2. Generate(p, c, "ConnectionEstablished") \in Entries
  BY DEF Generate, Entries, Happenings, Kinds
<1>3. /\ a \in Seq(Entries) /\ Len(a) = Len(queue) + 1 /\ Len(queue) \in Nat
      /\ \A k \in 1..Len(queue) : a[k] = queue[k]
      /\ a[Len(queue) + 1] = Generate(p, c, "ConnectionEstablished")
  BY <1>1, <1>2
<1>4. DOMAIN pending[p] = 1..Len(pending[p]) /\ Len(pending[p]) \in Nat
  BY <1>1, LenProperties
<1>5. \A i \in 1..Len(pending[p]) : Notify(p, c, pending[p][i]) \in Entries
  BY <1>1, ElementOfSeq DEF Notify, Entries, Notifications
<1>6. b \in [1..Len(pending[p]) -> Entries] BY <1>4, <1>5
<1>7. queue' = a \o b BY DEF Established
<1>8. \A i \in 1..Len(pending[p]) : b[i] = Notify(p, c, pending[p][i])
  BY <1>4
<1> HIDE DEF a, b
<1>9. b \in Seq(Entries) BY <1>4, <1>6, SeqDef
<1>10. Len(b) = Len(pending[p]) BY <1>4, <1>6, <1>9, LenProperties
<1>11. /\ a \o b \in Seq(Entries) /\ Len(a \o b) = Len(a) + Len(b)
       /\ \A i \in 1..(Len(a) + Len(b)) :
            (a \o b)[i] = IF i <= Len(a) THEN a[i] ELSE b[i - Len(a)]
  BY <1>3, <1>9, ConcatProperties
<1> QED BY <1>3, <1>4, <1>7, <1>8, <1>10, <1>11

LEMMA InitTypeOK == Init => TypeOK
BY RpcBehaviourAssumption DEF Init, TypeOK

LEMMA NextTypeOK == TypeOK /\ [Next]_vars => TypeOK'
<1> SUFFICES ASSUME TypeOK, [Next]_vars PROVE TypeOK'
  OBVIOUS
<1> USE RpcBehaviourAssumption
<1>1. ASSUME NEW p \in Peers, Dispatch(p) PROVE TypeOK'
  <2>1. Len(issued') = Len(issued) + 1 /\ issued' \in Seq(Peers) /\ Len(issued') \in Nat
    BY <1>1 DEF Dispatch, TypeOK
  <2>2. CASE peers[p] # NoConn
    <3>1. Notify(p, peers[p], Len(issued')) \in Notifications
      BY <2>1, <2>2 DEF Notify, Notifications, TypeOK
    <3>2. queue' = Append(queue, Notify(p, peers[p], Len(issued'))) /\ UNCHANGED pending
      BY <1>1, <2>2 DEF Dispatch
    <3>3. queue' \in Seq(Notifications \cup Happenings)
      BY <3>1, <3>2, AppendProperties DEF TypeOK
    <3> QED BY <1>1, <2>1, <3>2, <3>3 DEF Dispatch, TypeOK, links
  <2>3. CASE peers[p] = NoConn
    <3>1. /\ pending' = [pending EXCEPT ![p] = Append(pending[p], Len(issued'))]
          /\ UNCHANGED queue
      BY <1>1, <2>3 DEF Dispatch
    <3>2. Append(pending[p], Len(issued')) \in Seq(Nat)
      BY <2>1, AppendProperties DEF TypeOK
    <3>3. pending' \in [Peers -> Seq(Nat)] BY <3>1, <3>2 DEF TypeOK
    <3> QED BY <1>1, <2>1, <3>1, <3>3 DEF Dispatch, TypeOK, links
  <2> QED BY <2>2, <2>3
<1>2. ASSUME NEW c \in Conns, NEW p \in Peers, Established(c, p) PROVE TypeOK'
  <2>1. queue' \in Seq(Notifications \cup Happenings)
    BY <1>2, EstablishedQueue DEF Entries
  <2>2. DOMAIN pool' \subseteq Conns /\ \A d \in DOMAIN pool' : pool'[d] \in Peers
    BY <1>2 DEF Established, TypeOK
  <2>3. peers' \in [Peers -> Conns \cup {NoConn}] /\ pending' \in [Peers -> Seq(Nat)]
    BY <1>2 DEF Established, TypeOK, Flush
  <2> QED BY <1>2, <2>1, <2>2, <2>3 DEF Established, TypeOK, links
<1>3. ASSUME NEW c \in Conns, Closed(c) \/ HandlerEvent(c) PROVE TypeOK'
  <2>1. pool[c] \in Peers BY <1>3 DEF Closed, HandlerEvent, Known, TypeOK
  <2>2. up' \in [Conns -> Seq({"stream", "closed"})]
    <3>1. up[c] \in Seq({"stream", "closed"}) /\ up[c] # <<>>
      BY <1>3 DEF Closed, HandlerEvent, TypeOK
    <3>2. Tail(up[c]) \in Seq({"stream", "closed"}) BY <3>1, HeadTailProperties
    <3>3. up' = [up EXCEPT ![c] = Tail(up[c])] BY <1>3 DEF Closed, HandlerEvent
    <3> QED BY <3>2, <3>3 DEF TypeOK
  <2>3. \A e \in Kinds : Generate(pool[c], c, e) \in Happenings
    BY <2>1 DEF Generate, Happenings
  <2>4. queue' \in Seq(Notifications \cup Happenings)
    <3>1. PICK e \in Kinds : queue' = Append(queue, Generate(pool[c], c, e))
      BY <1>3 DEF Closed, HandlerEvent, Kinds
    <3>2. Generate(pool[c], c, e) \in Notifications \cup Happenings BY <2>3
    <3> QED BY <3>1, <3>2, AppendProperties DEF TypeOK
  <2>5. DOMAIN pool' \subseteq Conns /\ \A d \in DOMAIN pool' : pool'[d] \in Peers
    BY <1>3 DEF Closed, HandlerEvent, TypeOK
  <2>6. peers' \in [Peers -> Conns \cup {NoConn}]
    BY <1>3, <2>1 DEF Closed, HandlerEvent, Forget, TypeOK
  <2>7. revived' \subseteq Peers BY <1>3, <2>1 DEF Closed, HandlerEvent, TypeOK
  <2> QED BY <1>3, <2>2, <2>4, <2>5, <2>6, <2>7 DEF Closed, HandlerEvent, TypeOK
<1>4. CASE PollNotify
  <2> DEFINE e == Head(queue)
  <2>1. e \in Entries /\ queue' \in Seq(Entries) /\ e.to = "handler"
    BY <1>4, HeadTailProperties DEF PollNotify, Popped, TypeOK, Entries
  <2>2. e.conn \in Conns /\ e.cmd \in Nat
    BY <2>1 DEF Entries, Notifications, Happenings
  <2>3. CASE UNCHANGED inbox
    BY <1>4, <2>1, <2>2, <2>3 DEF PollNotify, Popped, TypeOK, Entries
  <2>4. CASE inbox' = [inbox EXCEPT ![e.conn] = Append(@, e.cmd)] /\ HasRoom(e.conn)
             /\ UNCHANGED dropped
    <3>1. /\ inbox[e.conn] \in Seq(Nat) /\ Len(inbox[e.conn]) < InboxSize
          /\ Len(inbox[e.conn]) \in Nat
      BY <2>2, <2>4, LenProperties DEF TypeOK, HasRoom
    <3>2. /\ Append(inbox[e.conn], e.cmd) \in Seq(Nat)
          /\ Len(Append(inbox[e.conn], e.cmd)) <= InboxSize
      BY <2>2, <3>1, AppendProperties
    <3>3. inbox' \in [Conns -> Seq(Nat)] /\ \A c \in Conns : Len(inbox'[c]) <= InboxSize
      BY <2>4, <3>2 DEF TypeOK
    <3>4. UNCHANGED <<peers, pending, pool, up, ended, taken, heard, issued, emitted, revived>>
      BY <1>4 DEF PollNotify
    <3> HIDE DEF e
    <3> QED BY <2>1, <2>4, <3>3, <3>4 DEF TypeOK, Entries
  <2> QED BY <1>4, <2>3, <2>4 DEF PollNotify, Popped
<1>5. CASE PollEvent
  <2> DEFINE e == Head(queue)
  <2>1. e \in Entries /\ queue' \in Seq(Entries) /\ e.to = "user"
    BY <1>5, HeadTailProperties DEF PollEvent, Popped, TypeOK, Entries
  <2>2. e.conn \in Conns /\ e.event \in Kinds
    BY <2>1 DEF Entries, Notifications, Happenings
  <2>3. heard' = [heard EXCEPT ![e.conn] = Append(heard[e.conn], e.event)]
    BY <1>5 DEF PollEvent, Popped
  <2>4. Append(heard[e.conn], e.event) \in Seq(Kinds) BY <2>2, AppendProperties DEF TypeOK
  <2> HIDE DEF e
  <2>5. heard' \in [Conns -> Seq(Kinds)] BY <2>2, <2>3, <2>4 DEF TypeOK
  <2> QED BY <1>5, <2>1, <2>5 DEF PollEvent, TypeOK, Entries, links
<1>6. ASSUME NEW c \in Conns, Take(c) PROVE TypeOK'
  <2>1. inbox[c] \in Seq(Nat) /\ inbox[c] # <<>> /\ Len(inbox[c]) <= InboxSize
    BY <1>6 DEF Take, TypeOK
  <2>2. Head(inbox[c]) \in Nat /\ Tail(inbox[c]) \in Seq(Nat)
        /\ Len(Tail(inbox[c])) <= InboxSize
    BY <2>1, HeadTailProperties, LenProperties
  <2>3. inbox' \in [Conns -> Seq(Nat)] /\ \A d \in Conns : Len(inbox'[d]) <= InboxSize
    BY <1>6, <2>2 DEF Take, TypeOK
  <2>4. taken' \in [Conns -> Seq(Nat)] BY <1>6, <2>2 DEF Take, TypeOK
  <2> QED BY <1>6, <2>3, <2>4 DEF Take, TypeOK, own
<1>7. ASSUME NEW c \in Conns, Emit(c) PROVE TypeOK'
  BY <1>7 DEF Emit, TypeOK, own
<1>8. ASSUME NEW c \in Conns, End(c) PROVE TypeOK'
  <2>1. ToSet(inbox[c]) \subseteq Nat
    BY ElementOfSeq, LenProperties DEF TypeOK, ToSet
  <2>2. inbox' \in [Conns -> Seq(Nat)] /\ \A d \in Conns : Len(inbox'[d]) <= InboxSize
    BY <1>8 DEF End, TypeOK
  <2>3. up' \in [Conns -> Seq({"stream", "closed"})]
    <3>1. Append(up[c], "closed") \in Seq({"stream", "closed"})
      BY AppendProperties DEF TypeOK
    <3> QED BY <1>8, <3>1 DEF End, TypeOK
  <2> QED BY <1>8, <2>1, <2>2, <2>3 DEF End, TypeOK, own
<1>9. CASE UNCHANGED vars BY <1>9 DEF vars, own, links, TypeOK
<1> QED BY <1>1, <1>2, <1>3, <1>4, <1>5, <1>6, <1>7, <1>8, <1>9 DEF Next, Swarm

-----------------------------------------------------------------------------
(* The order of commands.                                                    *)

(* A connection reports its end only when it has ended.                      *)
Ends == \A c \in Conns : \A i \in DOMAIN up[c] : up[c][i] = "closed" => c \in ended

(* Commands are numbers already given.                                       *)
Numbered ==
  /\ \A p \in Peers : \A n \in ToSet(pending[p]) : n <= Len(issued)
  /\ \A c \in Conns : \A n \in ToSet(taken[c]) \cup ToSet(inbox[c]) : n <= Len(issued)
  /\ \A k \in DOMAIN queue : queue[k].to = "handler" => queue[k].cmd <= Len(issued)

(* Nothing was sent to or heard of a connection that is yet to come.         *)
Unused ==
  \A c \in Conns : ~Known(c) /\ c \notin ended =>
    /\ taken[c] = <<>> /\ inbox[c] = <<>> /\ heard[c] = <<>>
    /\ \A k \in DOMAIN queue : queue[k].conn # c

Ground == TypeOK /\ PeersAreConnected /\ Ends /\ Numbered /\ Unused

LEMMA Queue ==
  ASSUME TypeOK
  PROVE  /\ queue \in Seq(Entries) /\ DOMAIN queue = 1..Len(queue) /\ Len(queue) \in Nat
         /\ \A k \in DOMAIN queue :
              /\ queue[k] \in Entries /\ queue[k].conn \in Conns
              /\ queue[k].to = "handler" => queue[k].cmd \in Nat
              /\ queue[k].to \in {"handler", "user"}
<1>1. queue \in Seq(Entries) BY DEF TypeOK, Entries
<1>2. DOMAIN queue = 1..Len(queue) /\ Len(queue) \in Nat BY <1>1, LenProperties
<1>3. \A k \in DOMAIN queue : queue[k] \in Entries BY <1>1, <1>2, ElementOfSeq
<1>4. \A e \in Entries :
        /\ e.conn \in Conns /\ e.to \in {"handler", "user"}
        /\ e.to = "handler" => e.cmd \in Nat
  BY DEF Entries, Notifications, Happenings
<1>5. \A k \in DOMAIN queue :
        /\ queue[k] \in Entries /\ queue[k].conn \in Conns
        /\ queue[k].to = "handler" => queue[k].cmd \in Nat
        /\ queue[k].to \in {"handler", "user"}
  BY <1>3, <1>4
<1> QED BY <1>1, <1>2, <1>5

(* What waits, is on its way or was taken is a number.                       *)
LEMMA Numbers ==
  ASSUME TypeOK
  PROVE  /\ \A p \in Peers : ToSet(pending[p]) \subseteq Nat
         /\ \A c \in Conns : ToSet(taken[c]) \subseteq Nat /\ ToSet(inbox[c]) \subseteq Nat
BY ElementOfSeq, LenProperties DEF TypeOK, ToSet

(* The queue after a connection is established, place by place.              *)
LEMMA EstablishedEntry ==
  ASSUME TypeOK, NEW c \in Conns, NEW p \in Peers, Established(c, p),
         NEW k \in DOMAIN queue'
  PROVE  \/ k \in DOMAIN queue /\ queue'[k] = queue[k]
         \/ k = Len(queue) + 1 /\ queue'[k] = Generate(p, c, "ConnectionEstablished")
         \/ \E i \in DOMAIN pending[p] :
              k = Len(queue) + 1 + i /\ queue'[k] = Notify(p, c, pending[p][i])
<1> DEFINE m == Len(queue)
           l == Len(pending[p])
<1>1. m \in Nat /\ DOMAIN queue = 1..m BY Queue
<1>2. l \in Nat /\ DOMAIN pending[p] = 1..l BY LenProperties DEF TypeOK
<1>3. queue' \in Seq(Entries) /\ Len(queue') = m + 1 + l BY EstablishedQueue
<1>4. k \in 1..(m + 1 + l) BY <1>3, LenProperties
<1>5. /\ \A j \in 1..m : queue'[j] = queue[j]
      /\ queue'[m + 1] = Generate(p, c, "ConnectionEstablished")
      /\ \A i \in 1..l : queue'[m + 1 + i] = Notify(p, c, pending[p][i])
  BY EstablishedQueue
<1> HIDE DEF m, l
<1>6. CASE k \in 1..m BY <1>1, <1>5, <1>6
<1>7. CASE k = m + 1 BY <1>5, <1>7 DEF m
<1>8. CASE k - m - 1 \in 1..l
  <2>1. m + 1 + (k - m - 1) = k BY <1>1, <1>4
  <2>2. queue'[k] = Notify(p, c, pending[p][k - m - 1]) BY <1>5, <1>8, <2>1
  <2> QED BY <1>2, <1>8, <2>1, <2>2 DEF m
<1> QED BY <1>1, <1>2, <1>4, <1>6, <1>7, <1>8

LEMMA QueueAppended ==
  ASSUME TypeOK, NEW e \in Entries, queue' = Append(queue, e)
  PROVE  /\ DOMAIN queue' = 1..(Len(queue) + 1)
         /\ \A k \in 1..Len(queue) : queue'[k] = queue[k]
         /\ queue'[Len(queue) + 1] = e
<1>1. queue \in Seq(Entries) BY Queue
<1>2. queue' \in Seq(Entries) /\ Len(queue') = Len(queue) + 1
  BY <1>1, AppendProperties
<1> QED BY <1>1, <1>2, AppendProperties, LenProperties

LEMMA QueuePopped ==
  ASSUME TypeOK, queue # <<>>, queue' = Tail(queue)
  PROVE  /\ DOMAIN queue' = 1..(Len(queue) - 1) /\ 1 \in DOMAIN queue
         /\ \A k \in 1..(Len(queue) - 1) : queue'[k] = queue[k + 1]
         /\ Head(queue) = queue[1]
<1>1. queue \in Seq(Entries) BY Queue
<1>2. /\ queue' \in Seq(Entries) /\ Len(queue') = Len(queue) - 1
      /\ \A k \in 1..Len(queue') : queue'[k] = queue[k + 1]
  BY <1>1, HeadTailProperties
<1>3. DOMAIN queue' = 1..(Len(queue) - 1) BY <1>2, LenProperties
<1>4. Len(queue) \in Nat \ {0} BY <1>1, EmptySeq
<1> QED BY <1>1, <1>2, <1>3, <1>4, Queue

LEMMA AppendedNumbers ==
  ASSUME NEW s \in Seq(Nat), NEW n \in Nat
  PROVE  /\ ToSet(Append(s, n)) = ToSet(s) \cup {n}
         /\ Increasing(s) /\ (\A m \in ToSet(s) : m < n) => Increasing(Append(s, n))
<1>1. /\ Append(s, n) \in Seq(Nat) /\ Len(Append(s, n)) = Len(s) + 1
      /\ \A i \in 1..Len(s) : Append(s, n)[i] = s[i]
      /\ Append(s, n)[Len(s) + 1] = n
  BY AppendProperties
<1>2. DOMAIN s = 1..Len(s) /\ DOMAIN Append(s, n) = 1..(Len(s) + 1) /\ Len(s) \in Nat
  BY <1>1, LenProperties
<1>3. ToSet(Append(s, n)) = ToSet(s) \cup {n}
  BY <1>1, <1>2 DEF ToSet
<1>4. ASSUME Increasing(s), \A m \in ToSet(s) : m < n PROVE Increasing(Append(s, n))
  <2> SUFFICES ASSUME NEW i \in 1..(Len(s) + 1), NEW j \in 1..(Len(s) + 1), i < j
               PROVE  Append(s, n)[i] < Append(s, n)[j]
    BY <1>2 DEF Increasing
  <2>1. i \in 1..Len(s) /\ Append(s, n)[i] = s[i] BY <1>1, <1>2
  <2>2. CASE j \in 1..Len(s) BY <1>1, <1>2, <1>4, <2>1, <2>2 DEF Increasing
  <2>3. CASE j = Len(s) + 1 BY <1>1, <1>2, <1>4, <2>1, <2>3 DEF ToSet
  <2> QED BY <2>2, <2>3, <1>2
<1> QED BY <1>3, <1>4

LEMMA TailNumbers ==
  ASSUME NEW s \in Seq(Nat), s # <<>>
  PROVE  /\ Head(s) \in ToSet(s) /\ ToSet(Tail(s)) \subseteq ToSet(s)
         /\ Increasing(s) => Increasing(Tail(s)) /\ \A m \in ToSet(Tail(s)) : Head(s) < m
<1>1. /\ Tail(s) \in Seq(Nat) /\ Len(Tail(s)) = Len(s) - 1
      /\ \A i \in 1..Len(Tail(s)) : Tail(s)[i] = s[i + 1]
  BY HeadTailProperties
<1>2. /\ DOMAIN s = 1..Len(s) /\ DOMAIN Tail(s) = 1..(Len(s) - 1)
      /\ Len(s) \in Nat \ {0} /\ Head(s) = s[1]
  BY <1>1, LenProperties, EmptySeq
<1>3. Head(s) \in ToSet(s) BY <1>2 DEF ToSet
<1>4. ToSet(Tail(s)) \subseteq ToSet(s) BY <1>1, <1>2 DEF ToSet
<1>5. ASSUME Increasing(s)
      PROVE  Increasing(Tail(s)) /\ \A m \in ToSet(Tail(s)) : Head(s) < m
  <2>1. \A i, j \in 1..(Len(s) - 1) : i < j => s[i + 1] < s[j + 1]
    BY <1>2, <1>5 DEF Increasing
  <2>2. \A i \in 1..(Len(s) - 1) : s[1] < s[i + 1]
    BY <1>2, <1>5 DEF Increasing
  <2>3. Increasing(Tail(s)) BY <1>1, <1>2, <2>1 DEF Increasing
  <2>4. \A m \in ToSet(Tail(s)) : Head(s) < m BY <1>1, <1>2, <2>2 DEF ToSet
  <2> QED BY <2>3, <2>4
<1> QED BY <1>3, <1>4, <1>5

LEMMA NextEnds == TypeOK /\ Ends /\ [Next]_vars => Ends'
<1> SUFFICES ASSUME TypeOK, Ends, [Next]_vars PROVE Ends'
  OBVIOUS
<1>0. \A c \in Conns : up[c] \in Seq({"stream", "closed"}) BY DEF TypeOK
<1>1. ASSUME NEW c \in Conns, Closed(c) \/ HandlerEvent(c) PROVE Ends'
  <2>1. up' = [up EXCEPT ![c] = Tail(up[c])] /\ ended' = ended /\ up[c] # <<>>
    BY <1>1 DEF Closed, HandlerEvent
  <2>2. /\ DOMAIN Tail(up[c]) = 1..(Len(up[c]) - 1) /\ DOMAIN up[c] = 1..Len(up[c])
        /\ Len(up[c]) \in Nat
        /\ \A i \in 1..(Len(up[c]) - 1) : Tail(up[c])[i] = up[c][i + 1]
    BY <1>0, <2>1, HeadTailProperties, LenProperties
  <2> QED BY <2>1, <2>2 DEF Ends, TypeOK
<1>2. ASSUME NEW c \in Conns, Emit(c) \/ End(c) PROVE Ends'
  <2>1. PICK e \in {"stream", "closed"} :
          /\ up' = [up EXCEPT ![c] = Append(up[c], e)]
          /\ ended \subseteq ended' /\ (e = "closed" => c \in ended')
    BY <1>2 DEF Emit, End
  <2>2. /\ DOMAIN Append(up[c], e) = 1..(Len(up[c]) + 1) /\ DOMAIN up[c] = 1..Len(up[c])
        /\ Len(up[c]) \in Nat
        /\ \A i \in 1..Len(up[c]) : Append(up[c], e)[i] = up[c][i]
        /\ Append(up[c], e)[Len(up[c]) + 1] = e
    BY <1>0, AppendProperties, LenProperties
  <2> QED BY <2>1, <2>2 DEF Ends, TypeOK
<1>3. CASE UNCHANGED <<up, ended>> BY <1>3 DEF Ends
<1> QED BY <1>1, <1>2, <1>3
     DEF Next, Swarm, Dispatch, Established, PollNotify, PollEvent, Take, links, own, vars

LEMMA NextNumbered == TypeOK /\ Numbered /\ [Next]_vars => Numbered'
<1> SUFFICES ASSUME TypeOK, Numbered, [Next]_vars PROVE Numbered'
  OBVIOUS
<1>0. /\ \A p \in Peers : pending[p] \in Seq(Nat)
      /\ \A c \in Conns : inbox[c] \in Seq(Nat) /\ taken[c] \in Seq(Nat)
      /\ issued \in Seq(Peers) /\ Len(issued) \in Nat /\ ToSet(<<>>) = {}
  BY DEF TypeOK, ToSet
<1>8. /\ \A p \in Peers : \A m \in ToSet(pending[p]) : m <= Len(issued) + 1
      /\ \A c \in Conns :
           \A m \in ToSet(taken[c]) \cup ToSet(inbox[c]) : m <= Len(issued) + 1
      /\ \A k \in DOMAIN queue :
           queue[k].to = "handler" => queue[k].cmd <= Len(issued) + 1
  <2>1. \A m \in Nat : m <= Len(issued) => m <= Len(issued) + 1 BY <1>0
  <2>2. \A k \in DOMAIN queue :
          queue[k].to = "handler" => queue[k].cmd <= Len(issued) + 1
    BY <2>1, Queue DEF Numbered
  <2> QED BY <2>1, <2>2, Numbers DEF Numbered
<1>1. ASSUME NEW p \in Peers, Dispatch(p) PROVE Numbered'
  <2> DEFINE n == Len(issued) + 1
  <2>1. Len(issued') = n /\ n \in Nat BY <1>0, <1>1 DEF Dispatch
  <2>2. CASE peers[p] # NoConn
    <3>1. /\ queue' = Append(queue, Notify(p, peers[p], n))
          /\ UNCHANGED <<pending, inbox, taken>>
      BY <1>1, <2>1, <2>2 DEF Dispatch, links
    <3>2. Notify(p, peers[p], n) \in Entries
      BY <2>1, <2>2 DEF Notify, Entries, Notifications, TypeOK
    <3>3. Notify(p, peers[p], n).cmd = n BY DEF Notify
    <3>4. \A k \in DOMAIN queue' : queue'[k].to = "handler" => queue'[k].cmd <= n
      BY <1>0, <3>1, <3>2, <3>3, QueueAppended, Queue DEF Numbered
    <3>5. /\ \A q \in Peers : \A m \in ToSet(pending'[q]) : m <= n
          /\ \A d \in Conns : \A m \in ToSet(taken'[d]) \cup ToSet(inbox'[d]) : m <= n
      BY <1>8, <2>1, <3>1
    <3> QED BY <2>1, <3>4, <3>5 DEF Numbered
  <2>3. CASE peers[p] = NoConn
    <3>1. /\ pending' = [pending EXCEPT ![p] = Append(pending[p], n)]
          /\ UNCHANGED <<queue, inbox, taken>>
      BY <1>1, <2>1, <2>3 DEF Dispatch, links
    <3>2. ToSet(Append(pending[p], n)) = ToSet(pending[p]) \cup {n}
      BY <1>0, <2>1, AppendedNumbers
    <3>3. \A q \in Peers : pending'[q] = IF q = p THEN Append(pending[p], n) ELSE pending[q]
      BY <3>1 DEF TypeOK
    <3>4. \A q \in Peers : \A m \in ToSet(pending'[q]) : m <= n
      BY <1>8, <2>1, <3>2, <3>3
    <3>5. \A d \in Conns : \A m \in ToSet(taken'[d]) \cup ToSet(inbox'[d]) : m <= n
      BY <1>8, <3>1
    <3>6. \A k \in DOMAIN queue' : queue'[k].to = "handler" => queue'[k].cmd <= n
      BY <1>8, <3>1
    <3> QED BY <2>1, <3>4, <3>5, <3>6 DEF Numbered
  <2> QED BY <2>2, <2>3
<1>2. ASSUME NEW c \in Conns, NEW p \in Peers, Established(c, p) PROVE Numbered'
  <2>1. /\ UNCHANGED <<inbox, taken, issued>>
        /\ pending' = [pending EXCEPT ![p] = <<>>]
    BY <1>2 DEF Established, Flush, links
  <2>2. \A i \in DOMAIN pending[p] : pending[p][i] <= Len(issued)
    BY DEF Numbered, ToSet
  <2>3. ASSUME NEW k \in DOMAIN queue', queue'[k].to = "handler"
        PROVE  queue'[k].cmd <= Len(issued)
    BY <1>2, <2>2, <2>3, EstablishedEntry DEF Numbered, Notify, Generate
  <2>4. \A q \in Peers : \A m \in ToSet(pending'[q]) : m <= Len(issued)
    BY <1>0, <2>1 DEF Numbered, TypeOK
  <2> QED BY <2>1, <2>3, <2>4 DEF Numbered
<1>3. ASSUME NEW c \in Conns, Closed(c) \/ HandlerEvent(c) PROVE Numbered'
  <2>1. PICK e \in Kinds : queue' = Append(queue, Generate(pool[c], c, e))
    BY <1>3 DEF Closed, HandlerEvent, Kinds
  <2>2. Generate(pool[c], c, e) \in Entries /\ Generate(pool[c], c, e).to = "user"
    BY <1>3 DEF Closed, HandlerEvent, Known, Generate, Entries, Happenings, TypeOK
  <2>3. \A k \in DOMAIN queue' : queue'[k].to = "handler" => queue'[k].cmd <= Len(issued)
    BY <2>1, <2>2, QueueAppended, Queue DEF Numbered
  <2> QED BY <1>3, <2>3 DEF Numbered, Closed, HandlerEvent
<1>4. CASE PollNotify \/ PollEvent
  <2>1. queue # <<>> /\ queue' = Tail(queue) /\ UNCHANGED <<pending, issued, taken>>
    BY <1>4 DEF PollNotify, PollEvent, Popped, links
  <2>2. \A k \in DOMAIN queue' : queue'[k].to = "handler" => queue'[k].cmd <= Len(issued)
    BY <2>1, QueuePopped, Queue DEF Numbered
  <2>3. CASE UNCHANGED inbox BY <2>1, <2>2, <2>3 DEF Numbered
  <2>4. CASE ~UNCHANGED inbox
    <3> DEFINE c == queue[1].conn
               n == queue[1].cmd
    <3>1. /\ inbox' = [inbox EXCEPT ![c] = Append(inbox[c], n)] /\ queue[1].to = "handler"
      BY <1>4, <2>1, <2>4, QueuePopped DEF PollNotify, PollEvent, Popped, links
    <3>2. c \in Conns /\ n \in Nat /\ n <= Len(issued)
      BY <2>1, <3>1, QueuePopped, Queue DEF Numbered
    <3>3. ToSet(Append(inbox[c], n)) = ToSet(inbox[c]) \cup {n}
      BY <1>0, <3>2, AppendedNumbers
    <3>4. \A d \in Conns : \A m \in ToSet(inbox'[d]) : m <= Len(issued)
      BY <3>1, <3>2, <3>3 DEF Numbered, TypeOK
    <3> QED BY <2>1, <2>2, <3>4 DEF Numbered
  <2> QED BY <2>3, <2>4
<1>5. ASSUME NEW c \in Conns, Take(c) PROVE Numbered'
  <2>1. /\ taken' = [taken EXCEPT ![c] = Append(taken[c], Head(inbox[c]))]
        /\ inbox' = [inbox EXCEPT ![c] = Tail(inbox[c])] /\ inbox[c] # <<>>
        /\ UNCHANGED <<queue, pending, issued>>
    BY <1>5 DEF Take, own
  <2>2. /\ Head(inbox[c]) \in ToSet(inbox[c]) /\ ToSet(Tail(inbox[c])) \subseteq ToSet(inbox[c])
        /\ Head(inbox[c]) \in Nat
    BY <1>0, <2>1, TailNumbers, HeadTailProperties
  <2>3. ToSet(Append(taken[c], Head(inbox[c]))) = ToSet(taken[c]) \cup {Head(inbox[c])}
    BY <1>0, <2>2, AppendedNumbers
  <2>4. \A d \in Conns : \A n \in ToSet(taken'[d]) \cup ToSet(inbox'[d]) : n <= Len(issued)
    BY <2>1, <2>2, <2>3 DEF Numbered, TypeOK
  <2> QED BY <2>1, <2>4 DEF Numbered
<1>6. ASSUME NEW c \in Conns, Emit(c) \/ End(c) PROVE Numbered'
  BY <1>0, <1>6 DEF Emit, End, own, Numbered, TypeOK
<1>7. CASE UNCHANGED vars BY <1>7 DEF vars, own, links, Numbered
<1> QED BY <1>1, <1>2, <1>3, <1>4, <1>5, <1>6, <1>7 DEF Next, Swarm

LEMMA NextUnused ==
  TypeOK /\ PeersAreConnected /\ Ends /\ Unused /\ [Next]_vars => Unused'
<1> SUFFICES ASSUME TypeOK, PeersAreConnected, Ends, Unused, [Next]_vars,
                    NEW c \in Conns, ~Known(c)', c \notin ended'
             PROVE  /\ taken'[c] = <<>> /\ inbox'[c] = <<>> /\ heard'[c] = <<>>
                    /\ \A k \in DOMAIN queue' : queue'[k].conn # c
  BY DEF Unused
<1>1. ASSUME NEW p \in Peers, Dispatch(p) PROVE UNCHANGED <<taken, inbox, heard, pool, ended>>
  BY <1>1 DEF Dispatch, links
<1>2. ASSUME NEW p \in Peers, Dispatch(p) PROVE \A k \in DOMAIN queue' : queue'[k].conn # c
  <2>1. CASE peers[p] # NoConn
    <3> DEFINE e == Notify(p, peers[p], Len(issued'))
    <3>1. queue' = Append(queue, e) /\ Len(issued') \in Nat
      BY <1>2, <2>1 DEF Dispatch, TypeOK
    <3>2. e \in Entries /\ e.conn = peers[p]
      BY <2>1, <3>1 DEF Notify, Entries, Notifications, TypeOK
    <3>3. peers[p] # c BY <1>1, <1>2, <2>1 DEF PeersAreConnected, Known
    <3>4. \A k \in DOMAIN queue : queue[k].conn # c BY <1>1, <1>2 DEF Unused, Known
    <3> HIDE DEF e
    <3> QED BY <3>1, <3>2, <3>3, <3>4, QueueAppended, Queue
  <2>2. CASE peers[p] = NoConn BY <1>1, <1>2, <2>2 DEF Dispatch, Unused, Known
  <2> QED BY <2>1, <2>2
<1>3. ASSUME NEW d \in Conns, NEW p \in Peers, Established(d, p)
      PROVE  /\ UNCHANGED <<taken, inbox, heard>> /\ ~Known(c) /\ c \notin ended
             /\ \A k \in DOMAIN queue' : queue'[k].conn # c
  <2>1. UNCHANGED <<taken, inbox, heard, ended>> /\ c \notin DOMAIN pool /\ c # d
    BY <1>3 DEF Established, links, Known
  <2>2. \A k \in DOMAIN queue : queue[k].conn # c BY <2>1 DEF Unused, Known
  <2>3. \A k \in DOMAIN queue' : queue'[k].conn # c
    BY <1>3, <2>1, <2>2, EstablishedEntry DEF Notify, Generate
  <2> QED BY <2>1, <2>3 DEF Known
<1>4. ASSUME NEW d \in Conns, Closed(d) \/ HandlerEvent(d)
      PROVE  /\ UNCHANGED <<taken, inbox, heard>> /\ ~Known(c) /\ c \notin ended
             /\ \A k \in DOMAIN queue' : queue'[k].conn # c
  <2>1. PICK e \in Kinds : queue' = Append(queue, Generate(pool[d], d, e))
    BY <1>4 DEF Closed, HandlerEvent, Kinds
  <2>2. Generate(pool[d], d, e) \in Entries /\ Generate(pool[d], d, e).conn = d
    BY <1>4 DEF Closed, HandlerEvent, Known, Generate, Entries, Happenings, TypeOK
  <2>3. UNCHANGED <<taken, inbox, heard, ended>> /\ d \in DOMAIN pool
    BY <1>4 DEF Closed, HandlerEvent, Known
  <2>4. Closed(d) => d \in ended
    <3> SUFFICES ASSUME Closed(d) PROVE d \in ended
      OBVIOUS
    <3>1. up[d] \in Seq({"stream", "closed"}) /\ up[d] # <<>> /\ Head(up[d]) = "closed"
      BY DEF TypeOK, Closed
    <3>2. 1 \in DOMAIN up[d] /\ up[d][1] = "closed"
      BY <3>1, EmptySeq, LenProperties
    <3> QED BY <3>2 DEF Ends
  <2>5. c \notin DOMAIN pool /\ c # d
    BY <1>4, <2>3, <2>4 DEF Closed, HandlerEvent, Known
  <2>6. \A k \in DOMAIN queue : queue[k].conn # c BY <2>3, <2>5 DEF Unused, Known
  <2>7. \A k \in DOMAIN queue' : queue'[k].conn # c
    BY <2>1, <2>2, <2>5, <2>6, QueueAppended, Queue
  <2> QED BY <2>3, <2>5, <2>7 DEF Known
<1>5. CASE PollNotify \/ PollEvent
  <2>1. queue # <<>> /\ queue' = Tail(queue) /\ UNCHANGED <<taken, pool, ended>>
    BY <1>5 DEF PollNotify, PollEvent, Popped, links
  <2>2. /\ taken[c] = <<>> /\ inbox[c] = <<>> /\ heard[c] = <<>>
        /\ \A k \in DOMAIN queue : queue[k].conn # c
    BY <2>1 DEF Unused, Known
  <2>3. Head(queue).conn # c /\ \A k \in DOMAIN queue' : queue'[k].conn # c
    BY <2>1, <2>2, QueuePopped, Queue
  <2>4. inbox'[c] = inbox[c] /\ heard'[c] = heard[c]
    BY <1>5, <2>3 DEF PollNotify, PollEvent, Popped, links, TypeOK
  <2> QED BY <2>1, <2>2, <2>3, <2>4
<1>6. ASSUME NEW d \in Conns, Take(d) \/ Emit(d) \/ End(d)
      PROVE  /\ UNCHANGED <<heard, queue, pool>> /\ ~Known(c) /\ c \notin ended
             /\ taken'[c] = taken[c] /\ inbox'[c] = inbox[c]
  BY <1>6 DEF Take, Emit, End, Running, Known, own, TypeOK
<1>7. CASE UNCHANGED vars BY <1>7 DEF vars, own, links, Unused, Known
<1> QED BY <1>1, <1>2, <1>3, <1>4, <1>5, <1>6, <1>7 DEF Next, Swarm, Unused, Known

(* The commands to one connection are in order.                              *)
OrderTo(c) ==
  /\ Increasing(taken[c]) /\ Increasing(inbox[c])
  /\ \A n \in ToSet(taken[c]), m \in ToSet(inbox[c]) : n < m
  /\ \A k \in DOMAIN queue : CommandFor(k, c) =>
       /\ \A n \in ToSet(taken[c]) \cup ToSet(inbox[c]) : n < queue[k].cmd
       /\ \A j \in 1..(k - 1) : CommandFor(j, c) => queue[j].cmd < queue[k].cmd

LEMMA OrderParts ==
  ConnectionOrder <=> (\A c \in Conns : OrderTo(c)) /\ \A p \in Peers : Increasing(pending[p])
BY DEF ConnectionOrder, OrderTo

(* A new command is behind all others (behaviour.rs:66-96).                  *)
LEMMA DispatchOrder ==
  ASSUME TypeOK, Numbered, ConnectionOrder, NEW p \in Peers, Dispatch(p)
  PROVE  ConnectionOrder'
<1> DEFINE n == Len(issued) + 1
<1>0. Len(issued) \in Nat /\ Len(issued') = n /\ n \in Nat
  BY DEF Dispatch, TypeOK
<1>1. UNCHANGED <<taken, inbox>> BY DEF Dispatch, links
<1>2. /\ \A q \in Peers : \A m \in ToSet(pending[q]) : m < n
      /\ \A c \in Conns : \A m \in ToSet(taken[c]) \cup ToSet(inbox[c]) : m < n
      /\ \A k \in DOMAIN queue : queue[k].to = "handler" => queue[k].cmd < n
  <2>1. \A m \in Nat : m <= Len(issued) => m < n BY <1>0
  <2>2. \A k \in DOMAIN queue : queue[k].to = "handler" => queue[k].cmd < n
    BY <2>1, Queue DEF Numbered
  <2> QED BY <2>1, <2>2, Numbers DEF Numbered
<1>3. CASE peers[p] # NoConn
  <2> DEFINE e == Notify(p, peers[p], n)
  <2>1. queue' = Append(queue, e) /\ pending' = pending
    BY <1>0, <1>3 DEF Dispatch
  <2>2. e \in Entries /\ e.cmd = n
    BY <1>0, <1>3 DEF Notify, Entries, Notifications, TypeOK
  <2> HIDE DEF e, n
  <2>3. /\ DOMAIN queue' = 1..(Len(queue) + 1) /\ queue'[Len(queue) + 1] = e
        /\ \A k \in 1..Len(queue) : queue'[k] = queue[k]
    BY <2>1, <2>2, QueueAppended
  <2>4. DOMAIN queue = 1..Len(queue) /\ Len(queue) \in Nat BY Queue
  <2>5. ASSUME NEW c \in Conns PROVE OrderTo(c)'
    <3>1. OrderTo(c) BY OrderParts
    <3>2. ASSUME NEW k \in DOMAIN queue', CommandFor(k, c)'
          PROVE  /\ \A m \in ToSet(taken[c]) \cup ToSet(inbox[c]) : m < queue'[k].cmd
                 /\ \A j \in 1..(k - 1) : CommandFor(j, c)' => queue'[j].cmd < queue'[k].cmd
      <4>1. \A j \in 1..(k - 1) : j \in 1..Len(queue) /\ queue'[j] = queue[j]
        BY <2>3, <2>4
      <4>2. CASE k \in 1..Len(queue)
        BY <2>3, <2>4, <3>1, <3>2, <4>1, <4>2 DEF OrderTo, CommandFor
      <4>3. CASE k = Len(queue) + 1
        BY <1>2, <2>2, <2>3, <2>4, <4>1, <4>3 DEF CommandFor
      <4> QED BY <2>3, <2>4, <4>2, <4>3
    <3> QED BY <1>1, <3>1, <3>2 DEF OrderTo
  <2> QED BY <2>1, <2>5 DEF ConnectionOrder, OrderTo
<1>4. CASE peers[p] = NoConn
  <2>1. pending' = [pending EXCEPT ![p] = Append(pending[p], n)] /\ queue' = queue
    BY <1>0, <1>4 DEF Dispatch
  <2>2. pending[p] \in Seq(Nat) BY DEF TypeOK
  <2>3. Increasing(pending[p]) BY DEF ConnectionOrder
  <2>4. Increasing(Append(pending[p], n))
    BY <1>0, <1>2, <2>2, <2>3, AppendedNumbers
  <2>5. \A q \in Peers : Increasing(pending'[q])
    BY <2>1, <2>4 DEF ConnectionOrder, TypeOK
  <2> QED BY <1>1, <2>1, <2>5 DEF ConnectionOrder, CommandFor
<1> QED BY <1>3, <1>4

(* What was pending is sent to a connection nothing was sent to before, in   *)
(* its order (behaviour.rs:179-187).                                         *)
LEMMA EstablishedOrder ==
  ASSUME TypeOK, Unused, ConnectionOrder,
         NEW d \in Conns, NEW p \in Peers, Established(d, p)
  PROVE  ConnectionOrder'
<1>1. /\ UNCHANGED <<taken, inbox>>
      /\ taken[d] = <<>> /\ inbox[d] = <<>> /\ \A k \in DOMAIN queue : queue[k].conn # d
  BY DEF Established, Unused, links
<1>2. Increasing(pending[p]) BY DEF ConnectionOrder
<1>3. /\ DOMAIN queue = 1..Len(queue) /\ Len(queue) \in Nat
      /\ DOMAIN pending[p] = 1..Len(pending[p]) /\ Len(pending[p]) \in Nat
      /\ DOMAIN queue' = 1..(Len(queue) + 1 + Len(pending[p]))
  BY Queue, EstablishedQueue, LenProperties DEF TypeOK
<1>4. ASSUME NEW k \in DOMAIN queue', NEW c \in Conns, CommandFor(k, c)'
      PROVE  \/ c # d /\ k \in DOMAIN queue /\ queue'[k] = queue[k] /\ CommandFor(k, c)
             \/ /\ c = d
                /\ \E i \in DOMAIN pending[p] :
                     k = Len(queue) + 1 + i /\ queue'[k].cmd = pending[p][i]
  BY <1>1, <1>4, EstablishedEntry DEF CommandFor, Notify, Generate
<1>5. ASSUME NEW c \in Conns PROVE OrderTo(c)'
  <2>1. OrderTo(c) BY OrderParts
  <2>2. ASSUME NEW k \in DOMAIN queue', CommandFor(k, c)'
        PROVE  /\ \A m \in ToSet(taken[c]) \cup ToSet(inbox[c]) : m < queue'[k].cmd
               /\ \A j \in 1..(k - 1) : CommandFor(j, c)' => queue'[j].cmd < queue'[k].cmd
    <3>1. \A j \in 1..(k - 1) : j \in DOMAIN queue'
      <4> DEFINE l == Len(queue) + 1 + Len(pending[p])
      <4>1. DOMAIN queue' = 1..l BY <1>3
      <4>2. k \in 1..l BY <2>2, <4>1
      <4>3. l \in Nat
        <5>1. \A a, b \in Nat : a + 1 + b \in Nat OBVIOUS
        <5> QED BY <1>3, <5>1, Zenon
      <4> HIDE DEF l
      <4> QED BY <4>1, <4>2, <4>3
    <3>2. CASE c # d
      BY <1>4, <2>1, <2>2, <3>1, <3>2 DEF OrderTo
    <3>3. CASE c = d
      <4>1. PICK i \in DOMAIN pending[p] : k = Len(queue) + 1 + i /\ queue'[k].cmd = pending[p][i]
        BY <1>4, <2>2, <3>3
      <4>2. ASSUME NEW j \in 1..(k - 1), CommandFor(j, c)'
            PROVE  queue'[j].cmd < queue'[k].cmd
        <5>1. PICK h \in DOMAIN pending[p] :
                j = Len(queue) + 1 + h /\ queue'[j].cmd = pending[p][h]
          BY <1>4, <3>1, <3>3, <4>2
        <5>2. h < i BY <1>3, <4>1, <5>1
        <5> QED BY <1>2, <4>1, <5>1, <5>2 DEF Increasing
      <4>3. ToSet(taken[c]) \cup ToSet(inbox[c]) = {} BY <1>1, <3>3 DEF ToSet
      <4> QED BY <4>2, <4>3
    <3> QED BY <3>2, <3>3
  <2> QED BY <1>1, <2>1, <2>2 DEF OrderTo
<1>6. pending' = [pending EXCEPT ![p] = <<>>] /\ Increasing(<<>>)
  BY DEF Established, Flush, Increasing
<1>7. \A q \in Peers : Increasing(pending'[q]) BY <1>6 DEF ConnectionOrder, TypeOK
<1> QED BY <1>5, <1>7 DEF ConnectionOrder, OrderTo

(* Events pass between the commands.                                         *)
LEMMA EventsKeepOrder ==
  ASSUME TypeOK, ConnectionOrder, NEW d \in Conns, Closed(d) \/ HandlerEvent(d)
  PROVE  ConnectionOrder'
<1>1. PICK e \in Kinds : queue' = Append(queue, Generate(pool[d], d, e))
  BY DEF Closed, HandlerEvent, Kinds
<1>2. Generate(pool[d], d, e) \in Entries /\ Generate(pool[d], d, e).to = "user"
  BY DEF Closed, HandlerEvent, Known, Generate, Entries, Happenings, TypeOK
<1>3. DOMAIN queue = 1..Len(queue) /\ Len(queue) \in Nat BY Queue
<1>4. /\ DOMAIN queue' = 1..(Len(queue) + 1) /\ queue'[Len(queue) + 1].to = "user"
      /\ \A k \in 1..Len(queue) : queue'[k] = queue[k]
  BY <1>1, <1>2, QueueAppended
<1>5. UNCHANGED <<taken, inbox, pending>> BY DEF Closed, HandlerEvent
<1>6. ASSUME NEW k \in DOMAIN queue', NEW c \in Conns, CommandFor(k, c)'
      PROVE  k \in DOMAIN queue /\ queue'[k] = queue[k] /\ CommandFor(k, c)
  BY <1>3, <1>4, <1>6 DEF CommandFor
<1>7. \A k \in DOMAIN queue' : \A j \in 1..(k - 1) : j \in DOMAIN queue'
  BY <1>3, <1>4
<1> QED BY <1>5, <1>6, <1>7 DEF ConnectionOrder

(* The oldest command to a connection is the next in its channel.            *)
LEMMA PollOrder ==
  ASSUME TypeOK, ConnectionOrder, PollNotify \/ PollEvent
  PROVE  ConnectionOrder'
<1>1. queue # <<>> /\ queue' = Tail(queue) /\ UNCHANGED <<pending, taken>>
  BY DEF PollNotify, PollEvent, Popped, links
<1>2. DOMAIN queue = 1..Len(queue) /\ Len(queue) \in Nat BY Queue
<1>3. /\ DOMAIN queue' = 1..(Len(queue) - 1) /\ 1 \in DOMAIN queue
      /\ \A k \in 1..(Len(queue) - 1) : queue'[k] = queue[k + 1]
      /\ Head(queue) = queue[1]
  BY <1>1, QueuePopped
<1>4. ASSUME NEW k \in DOMAIN queue', NEW c \in Conns, CommandFor(k, c)'
      PROVE  /\ k + 1 \in DOMAIN queue /\ queue'[k] = queue[k + 1] /\ CommandFor(k + 1, c)
             /\ \A j \in 1..(k - 1) :
                  j + 1 \in 1..k /\ j \in DOMAIN queue' /\ queue'[j] = queue[j + 1]
  BY <1>2, <1>3, <1>4 DEF CommandFor
<1>5. ASSUME NEW k \in DOMAIN queue', NEW c \in Conns, CommandFor(k, c)'
      PROVE  /\ CommandFor(1, c) => queue[1].cmd < queue'[k].cmd
             /\ \A m \in ToSet(taken[c]) \cup ToSet(inbox[c]) : m < queue'[k].cmd
             /\ \A j \in 1..(k - 1) : CommandFor(j, c)' => queue'[j].cmd < queue'[k].cmd
  <2>1. /\ k + 1 \in DOMAIN queue /\ queue'[k] = queue[k + 1] /\ CommandFor(k + 1, c)
        /\ \A j \in 1..(k - 1) :
             j + 1 \in 1..k /\ j \in DOMAIN queue' /\ queue'[j] = queue[j + 1]
    BY <1>4, <1>5
  <2>2. (k + 1) - 1 = k /\ 1 \in 1..k BY <1>2, <1>3
  <2>3. \A j \in 1..k : CommandFor(j, c) => queue[j].cmd < queue[k + 1].cmd
    BY <2>1, <2>2 DEF ConnectionOrder
  <2>4. \A m \in ToSet(taken[c]) \cup ToSet(inbox[c]) : m < queue[k + 1].cmd
    BY <2>1 DEF ConnectionOrder
  <2> QED BY <2>1, <2>2, <2>3, <2>4 DEF CommandFor
<1>6. CASE UNCHANGED inbox BY <1>1, <1>5, <1>6 DEF ConnectionOrder
<1>7. CASE ~UNCHANGED inbox
  <2>1. /\ inbox' = [inbox EXCEPT ![queue[1].conn] = Append(@, queue[1].cmd)]
        /\ queue[1].to = "handler"
    BY <1>1, <1>3, <1>7 DEF PollNotify, PollEvent, Popped, links
  <2>2. PICK d \in Conns, n \in Nat :
          /\ d = queue[1].conn /\ n = queue[1].cmd /\ CommandFor(1, d)
          /\ inbox' = [inbox EXCEPT ![d] = Append(inbox[d], n)]
    BY <1>3, <2>1, Queue DEF CommandFor
  <2>3. inbox[d] \in Seq(Nat) BY <2>2 DEF TypeOK
  <2>4. ToSet(Append(inbox[d], n)) = ToSet(inbox[d]) \cup {n}
    BY <2>2, <2>3, AppendedNumbers
  <2>5. \A m \in ToSet(taken[d]) \cup ToSet(inbox[d]) : m < n
    BY <1>3, <2>2 DEF ConnectionOrder
  <2>6. Increasing(Append(inbox[d], n))
    BY <2>2, <2>3, <2>5, AppendedNumbers DEF ConnectionOrder
  <2>7. \A c \in Conns : inbox'[c] = IF c = d THEN Append(inbox[d], n) ELSE inbox[c]
    BY <2>2 DEF TypeOK
  <2>8. \A k \in DOMAIN queue' : CommandFor(k, d)' => n < queue'[k].cmd
    BY <1>5, <2>2
  <2>9. ASSUME NEW c \in Conns PROVE OrderTo(c)'
    <3>1. CASE c # d BY <1>1, <1>5, <2>7, <3>1 DEF ConnectionOrder, OrderTo
    <3>2. CASE c = d
      BY <1>1, <1>5, <2>4, <2>5, <2>6, <2>7, <2>8, <3>2 DEF ConnectionOrder, OrderTo
    <3> QED BY <3>1, <3>2
  <2> QED BY <1>1, <2>9 DEF ConnectionOrder, OrderTo
<1> QED BY <1>6, <1>7

(* The handler takes the oldest command of its channel.                      *)
LEMMA TakeOrder ==
  ASSUME TypeOK, ConnectionOrder, NEW d \in Conns, Take(d)
  PROVE  ConnectionOrder'
<1> DEFINE n == Head(inbox[d])
           rest == Tail(inbox[d])
<1>1. /\ taken' = [taken EXCEPT ![d] = Append(taken[d], n)]
      /\ inbox' = [inbox EXCEPT ![d] = rest] /\ inbox[d] # <<>>
      /\ UNCHANGED <<queue, pending>>
  BY DEF Take, own
<1>2. inbox[d] \in Seq(Nat) /\ taken[d] \in Seq(Nat) BY DEF TypeOK
<1>3. n \in Nat BY <1>1, <1>2, HeadTailProperties
<1>4. /\ n \in ToSet(inbox[d]) /\ ToSet(rest) \subseteq ToSet(inbox[d])
      /\ Increasing(rest) /\ \A m \in ToSet(rest) : n < m
  BY <1>1, <1>2, TailNumbers DEF ConnectionOrder
<1>5. /\ ToSet(Append(taken[d], n)) = ToSet(taken[d]) \cup {n}
      /\ Increasing(Append(taken[d], n))
  BY <1>2, <1>3, <1>4, AppendedNumbers DEF ConnectionOrder
<1>6. \A c \in Conns : /\ taken'[c] = IF c = d THEN Append(taken[d], n) ELSE taken[c]
                      /\ inbox'[c] = IF c = d THEN rest ELSE inbox[c]
  BY <1>1 DEF TypeOK
<1> HIDE DEF n, rest
<1>7. ASSUME NEW c \in Conns PROVE OrderTo(c)'
  <2>1. OrderTo(c) BY OrderParts
  <2>2. /\ Increasing(taken'[c]) /\ Increasing(inbox'[c])
        /\ \A l \in ToSet(taken'[c]), m \in ToSet(inbox'[c]) : l < m
    BY <1>4, <1>5, <1>6, <2>1 DEF OrderTo
  <2>3. ToSet(taken'[c]) \cup ToSet(inbox'[c]) \subseteq ToSet(taken[c]) \cup ToSet(inbox[c])
    BY <1>4, <1>5, <1>6
  <2> QED BY <1>1, <2>1, <2>2, <2>3 DEF OrderTo, CommandFor
<1> QED BY <1>1, <1>7 DEF ConnectionOrder, OrderTo

LEMMA EndOrder ==
  ASSUME TypeOK, ConnectionOrder, NEW d \in Conns, Emit(d) \/ End(d)
  PROVE  ConnectionOrder'
<1>1. UNCHANGED <<taken, queue, pending>> BY DEF Emit, End, own
<1>2. \A c \in Conns : inbox'[c] = inbox[c] \/ inbox'[c] = <<>>
  BY DEF Emit, End, TypeOK
<1>3. Increasing(<<>>) /\ ToSet(<<>>) = {} BY DEF Increasing, ToSet
<1> QED BY <1>1, <1>2, <1>3 DEF ConnectionOrder, CommandFor

-----------------------------------------------------------------------------
(* The order of events.                                                      *)

(* The body of EventOrder.                                                   *)
Told(c) ==
  /\ \A i \in DOMAIN heard[c] :
       /\ heard[c][i] = "ConnectionEstablished" <=> i = 1
       /\ heard[c][i] = "ConnectionClosed" =>
            i = Len(heard[c]) /\ \A k \in DOMAIN queue : ~EventOf(k, c)
  /\ \A k \in DOMAIN queue : EventOf(k, c) =>
       /\ queue[k].event = "ConnectionEstablished" <=>
            heard[c] = <<>> /\ \A j \in 1..(k - 1) : ~EventOf(j, c)
       /\ queue[k].event = "ConnectionClosed" =>
            \A j \in DOMAIN queue : j > k => ~EventOf(j, c)

(* Of a connection the swarm knows the user heard or will hear that it is    *)
(* established, and nothing yet says that it is closed.                      *)
Begun(c) == heard[c] # <<>> \/ \E k \in DOMAIN queue : EventOf(k, c)

Unclosed(c) ==
  /\ \A i \in DOMAIN heard[c] : heard[c][i] # "ConnectionClosed"
  /\ \A k \in DOMAIN queue : EventOf(k, c) => queue[k].event # "ConnectionClosed"

Announced == \A c \in Conns : Known(c) => Begun(c) /\ Unclosed(c)

(* An event is queued for a connection the swarm knows (behaviour.rs:189-217).*)
LEMMA QueuedEvent ==
  ASSUME TypeOK, EventOrder, Announced, NEW d \in Conns, Closed(d) \/ HandlerEvent(d)
  PROVE  EventOrder' /\ Announced'
<1>1. PICK e \in {"ConnectionClosed", "Stream"} :
        /\ queue' = Append(queue, Generate(pool[d], d, e))
        /\ e = "ConnectionClosed" => ~Known(d)'
  BY DEF Closed, HandlerEvent, Known
<1>2. Generate(pool[d], d, e) \in Entries
  BY DEF Closed, HandlerEvent, Known, Generate, Entries, Happenings, Kinds, TypeOK
<1>3. PICK m \in Nat :
        /\ m = Len(queue) + 1 /\ DOMAIN queue = 1..(m - 1)
  BY Queue
<1>4. /\ DOMAIN queue' = 1..m /\ queue'[m] = Generate(pool[d], d, e)
      /\ \A k \in 1..(m - 1) : queue'[k] = queue[k]
  <2>1. /\ DOMAIN queue' = 1..(Len(queue) + 1)
        /\ queue'[Len(queue) + 1] = Generate(pool[d], d, e)
        /\ \A k \in 1..Len(queue) : queue'[k] = queue[k]
    BY <1>1, <1>2, QueueAppended
  <2>2. DOMAIN queue = 1..Len(queue) BY Queue
  <2> QED BY <1>3, <2>1, <2>2
<1>5. UNCHANGED heard /\ Known(d) /\ \A c \in Conns : Known(c)' => Known(c)
  BY DEF Closed, HandlerEvent, Known
<1>6. Begun(d) /\ Unclosed(d) BY <1>5 DEF Announced
<1>7. /\ \A c \in Conns : EventOf(m, c)' <=> c = d
      /\ queue'[m].event = e /\ m \notin DOMAIN queue /\ DOMAIN queue' = DOMAIN queue \cup {m}
      /\ \A k \in DOMAIN queue : k < m /\ queue'[k] = queue[k]
      /\ \A k \in DOMAIN queue, c \in Conns : EventOf(k, c)' <=> EventOf(k, c)
      /\ \A j \in 1..(m - 1) : j \in DOMAIN queue
      /\ m # 0
  <2>1. \A c \in Conns : EventOf(m, c)' <=> c = d BY <1>4 DEF EventOf, Generate
  <2>2. queue'[m].event = e BY <1>4 DEF Generate
  <2>3. m # 0 BY <1>3, Queue
  <2>4. /\ m \notin DOMAIN queue /\ DOMAIN queue' = DOMAIN queue \cup {m}
        /\ \A k \in DOMAIN queue : k < m
    BY <1>3, <1>4, <2>3
  <2>5. \A k \in DOMAIN queue : queue'[k] = queue[k] BY <1>3, <1>4
  <2>6. \A k \in DOMAIN queue, c \in Conns : EventOf(k, c)' <=> EventOf(k, c)
    BY <2>5 DEF EventOf
  <2> QED BY <1>3, <2>1, <2>2, <2>3, <2>4, <2>5, <2>6
<1>8. \A k \in DOMAIN queue : \A j \in 1..(k - 1) : j \in DOMAIN queue
  BY <1>3
<1>9. ASSUME NEW c \in Conns PROVE Told(c)'
  <2>1. Told(c) BY DEF EventOrder, Told
  <2>2. CASE c # d
    <3>1. \A k \in DOMAIN queue' : EventOf(k, c)' => k \in DOMAIN queue /\ EventOf(k, c)
      BY <1>7, <2>2
    <3>2. ASSUME NEW k \in DOMAIN queue', EventOf(k, c)'
          PROVE  /\ queue'[k].event = "ConnectionEstablished" <=>
                      heard'[c] = <<>> /\ \A j \in 1..(k - 1) : ~EventOf(j, c)'
                 /\ queue'[k].event = "ConnectionClosed" =>
                      \A j \in DOMAIN queue' : j > k => ~EventOf(j, c)'
      <4>1. k \in DOMAIN queue /\ EventOf(k, c) BY <3>1, <3>2
      <4>2. \A j \in 1..(k - 1) : EventOf(j, c)' <=> EventOf(j, c) BY <1>7, <1>8, <4>1
      <4> QED BY <1>5, <1>7, <2>1, <3>1, <4>1, <4>2 DEF Told
    <3> QED BY <1>5, <2>1, <3>1, <3>2 DEF Told
  <2>3. CASE c = d
    <3>1. ASSUME NEW k \in DOMAIN queue', EventOf(k, c)'
          PROVE  /\ queue'[k].event = "ConnectionEstablished" <=>
                      heard'[c] = <<>> /\ \A j \in 1..(k - 1) : ~EventOf(j, c)'
                 /\ queue'[k].event = "ConnectionClosed" =>
                      \A j \in DOMAIN queue' : j > k => ~EventOf(j, c)'
      <4>1. CASE k \in DOMAIN queue
        <5>1. EventOf(k, c) /\ queue'[k] = queue[k] BY <1>7, <3>1, <4>1
        <5>2. \A j \in 1..(k - 1) : EventOf(j, c)' <=> EventOf(j, c) BY <1>7, <1>8, <4>1
        <5> QED BY <1>5, <1>6, <2>1, <2>3, <4>1, <5>1, <5>2 DEF Told, Unclosed
      <4>2. CASE k = m
        <5>1. queue'[k].event # "ConnectionEstablished" BY <1>7, <4>2
        <5>2. \A j \in DOMAIN queue' : ~(j > k)
          BY <1>3, <1>4, <4>2
        <5>3. heard'[c] # <<>> \/ \E j \in 1..(k - 1) : EventOf(j, c)'
          BY <1>3, <1>5, <1>6, <1>7, <2>3, <4>2 DEF Begun
        <5> QED BY <5>1, <5>2, <5>3
      <4> QED BY <1>7, <3>1, <4>1, <4>2
    <3>2. \A i \in DOMAIN heard'[c] :
            /\ heard'[c][i] = "ConnectionEstablished" <=> i = 1
            /\ heard'[c][i] # "ConnectionClosed"
      BY <1>5, <1>6, <2>1, <2>3 DEF Told, Unclosed
    <3> QED BY <3>1, <3>2 DEF Told
  <2> QED BY <2>2, <2>3
<1>10. Announced'
  <2> SUFFICES ASSUME NEW c \in Conns, Known(c)' PROVE Begun(c)' /\ Unclosed(c)'
    BY DEF Announced
  <2>1. Begun(c) /\ Unclosed(c) BY <1>5 DEF Announced
  <2>2. c = d => e # "ConnectionClosed" BY <1>1
  <2>3. Begun(c)' BY <1>5, <1>7, <2>1 DEF Begun
  <2>4. Unclosed(c)' BY <1>5, <1>7, <2>1, <2>2 DEF Unclosed
  <2> QED BY <2>3, <2>4
<1> QED BY <1>9, <1>10 DEF EventOrder, Told

(* The first event of a connection (behaviour.rs:175-187).                   *)
LEMMA FirstEvent ==
  ASSUME TypeOK, Unused, EventOrder, Announced,
         NEW d \in Conns, NEW p \in Peers, Established(d, p)
  PROVE  EventOrder' /\ Announced'
<1>1. /\ UNCHANGED heard /\ heard[d] = <<>> /\ \A k \in DOMAIN queue : queue[k].conn # d
      /\ \A c \in Conns : Known(c)' => c = d \/ Known(c)
  BY DEF Established, Unused, Known
<1>2. PICK m \in Nat : m = Len(queue) + 1 /\ DOMAIN queue = 1..(m - 1) /\ m # 0
  BY Queue
<1>3. /\ \A k \in DOMAIN queue : queue'[k] = queue[k]
      /\ queue'[m] = Generate(p, d, "ConnectionEstablished")
  BY <1>2, EstablishedQueue, Queue
<1>4. DOMAIN queue \subseteq DOMAIN queue' /\ m \in DOMAIN queue'
  <2>1. PICK l \in Nat : DOMAIN queue' = 1..(m + l)
    <3>1. pending[p] \in Seq(Nat) BY DEF TypeOK
    <3>2. Len(pending[p]) \in Nat BY <3>1, LenProperties
    <3>3. queue' \in Seq(Entries) /\ Len(queue') = Len(queue) + 1 + Len(pending[p])
      BY EstablishedQueue
    <3>4. DOMAIN queue' = 1..Len(queue') BY <3>3, LenProperties
    <3> QED BY <1>2, <3>2, <3>3, <3>4
  <2>2. \A k \in 1..(m - 1) : k \in 1..(m + l) BY <1>2
  <2>3. m \in 1..(m + l) BY <1>2
  <2> QED BY <1>2, <2>1, <2>2, <2>3
<1>5. ASSUME NEW k \in DOMAIN queue', NEW c \in Conns, EventOf(k, c)'
      PROVE  \/ c # d /\ k \in DOMAIN queue /\ queue'[k] = queue[k] /\ EventOf(k, c)
             \/ c = d /\ k = m /\ queue'[k].event = "ConnectionEstablished"
  BY <1>1, <1>2, <1>5, EstablishedEntry DEF EventOf, Notify, Generate
<1>6. /\ \A k \in DOMAIN queue : \A j \in 1..(k - 1) : j \in DOMAIN queue
      /\ \A k \in DOMAIN queue, c \in Conns : EventOf(k, c)' <=> EventOf(k, c)
  <2>1. \A k \in DOMAIN queue : \A j \in 1..(k - 1) : j \in DOMAIN queue BY <1>2
  <2> QED BY <1>3, <2>1 DEF EventOf
<1>7. \A k \in DOMAIN queue : queue'[k] = queue[k] BY <1>3
<1>8. EventOf(m, d)' BY <1>3 DEF EventOf, Generate
<1>9. \A j \in 1..(m - 1) : ~EventOf(j, d)'
  BY <1>1, <1>2, <1>3 DEF EventOf
<1>10. ASSUME NEW c \in Conns PROVE Told(c)'
  <2>1. Told(c) BY DEF EventOrder, Told
  <2>2. CASE c # d
    <3>1. ASSUME NEW k \in DOMAIN queue', EventOf(k, c)'
          PROVE  /\ queue'[k].event = "ConnectionEstablished" <=>
                      heard'[c] = <<>> /\ \A j \in 1..(k - 1) : ~EventOf(j, c)'
                 /\ queue'[k].event = "ConnectionClosed" =>
                      \A j \in DOMAIN queue' : j > k => ~EventOf(j, c)'
      <4>1. k \in DOMAIN queue /\ EventOf(k, c) /\ queue'[k] = queue[k] BY <1>5, <2>2, <3>1
      <4>2. \A j \in 1..(k - 1) : EventOf(j, c)' <=> EventOf(j, c) BY <1>6, <4>1
      <4>3. \A j \in DOMAIN queue' : EventOf(j, c)' => j \in DOMAIN queue /\ EventOf(j, c)
        BY <1>5, <2>2
      <4> QED BY <1>1, <2>1, <4>1, <4>2, <4>3 DEF Told
    <3>2. \A k \in DOMAIN queue' : EventOf(k, c)' => k \in DOMAIN queue /\ EventOf(k, c)
      BY <1>5, <2>2
    <3> QED BY <1>1, <2>1, <3>1, <3>2 DEF Told
  <2>3. CASE c = d
    <3>1. heard'[c] = <<>> /\ DOMAIN heard'[c] = {} BY <1>1, <2>3
    <3>2. ASSUME NEW k \in DOMAIN queue', EventOf(k, c)'
          PROVE  /\ queue'[k].event = "ConnectionEstablished"
                 /\ \A j \in 1..(k - 1) : ~EventOf(j, c)'
      BY <1>5, <1>9, <2>3, <3>2
    <3> QED BY <3>1, <3>2 DEF Told
  <2> QED BY <2>2, <2>3
<1>11. Announced'
  <2> SUFFICES ASSUME NEW c \in Conns, Known(c)' PROVE Begun(c)' /\ Unclosed(c)'
    BY DEF Announced
  <2>1. CASE c = d
    <3>1. heard'[c] = <<>> /\ DOMAIN heard'[c] = {} BY <1>1, <2>1
    <3>2. \A k \in DOMAIN queue' : EventOf(k, c)' => queue'[k].event # "ConnectionClosed"
      BY <1>5, <2>1
    <3> QED BY <1>4, <1>8, <2>1, <3>1, <3>2 DEF Begun, Unclosed
  <2>2. CASE c # d
    <3>1. Begun(c) /\ Unclosed(c) BY <1>1, <2>2 DEF Announced
    <3>2. \A k \in DOMAIN queue : EventOf(k, c) => EventOf(k, c)' BY <1>3 DEF EventOf
    <3>3. Begun(c)' BY <1>1, <1>4, <3>1, <3>2 DEF Begun
    <3>4. Unclosed(c)' BY <1>1, <1>5, <2>2, <3>1 DEF Unclosed
    <3> QED BY <3>3, <3>4
  <2> QED BY <2>1, <2>2
<1> QED BY <1>10, <1>11 DEF EventOrder, Told

(* Commands pass between the events (behaviour.rs:66-96).                    *)
LEMMA CommandsKeepEvents ==
  ASSUME TypeOK, EventOrder, Announced, NEW p \in Peers, Dispatch(p)
  PROVE  EventOrder' /\ Announced'
<1>1. UNCHANGED <<heard, pool>> BY DEF Dispatch
<1>2. CASE UNCHANGED queue
  BY <1>1, <1>2 DEF EventOrder, Announced, Begun, Unclosed, EventOf, Known
<1>3. CASE ~UNCHANGED queue
  <2> DEFINE e == Notify(p, peers[p], Len(issued'))
  <2>1. queue' = Append(queue, e) /\ e \in Entries /\ e.to = "handler"
    BY <1>3 DEF Dispatch, Notify, Entries, Notifications, TypeOK
  <2> HIDE DEF e
  <2>2. PICK m \in Nat : m = Len(queue) + 1 /\ DOMAIN queue = 1..(m - 1) /\ m # 0
    BY Queue
  <2>3. /\ DOMAIN queue' = 1..m /\ queue'[m].to = "handler"
        /\ \A k \in DOMAIN queue : queue'[k] = queue[k]
    BY <2>1, <2>2, QueueAppended, Queue
  <2>4. /\ DOMAIN queue \subseteq DOMAIN queue'
        /\ \A k \in DOMAIN queue : \A j \in 1..(k - 1) : j \in DOMAIN queue
    BY <2>2, <2>3
  <2>5. /\ \A k \in DOMAIN queue', c \in Conns :
             EventOf(k, c)' => k \in DOMAIN queue /\ queue'[k] = queue[k] /\ EventOf(k, c)
        /\ \A k \in DOMAIN queue, c \in Conns : EventOf(k, c) <=> EventOf(k, c)'
    BY <2>2, <2>3 DEF EventOf
  <2>6. ASSUME NEW c \in Conns PROVE Told(c)'
    <3>1. Told(c) BY DEF EventOrder, Told
    <3>2. ASSUME NEW k \in DOMAIN queue', EventOf(k, c)'
          PROVE  /\ queue'[k].event = "ConnectionEstablished" <=>
                      heard'[c] = <<>> /\ \A j \in 1..(k - 1) : ~EventOf(j, c)'
                 /\ queue'[k].event = "ConnectionClosed" =>
                      \A j \in DOMAIN queue' : j > k => ~EventOf(j, c)'
      <4>1. k \in DOMAIN queue /\ queue'[k] = queue[k] /\ EventOf(k, c) BY <2>5, <3>2
      <4>2. \A j \in 1..(k - 1) : EventOf(j, c)' <=> EventOf(j, c) BY <2>4, <2>5, <4>1
      <4> QED BY <1>1, <2>5, <3>1, <4>1, <4>2 DEF Told
    <3> QED BY <1>1, <2>5, <3>1, <3>2 DEF Told
  <2>7. \A c \in Conns : Begun(c) => Begun(c)' BY <1>1, <2>4, <2>5 DEF Begun
  <2>8. \A c \in Conns : Unclosed(c) => Unclosed(c)' BY <1>1, <2>5 DEF Unclosed
  <2> QED BY <1>1, <2>6, <2>7, <2>8 DEF EventOrder, Told, Announced, Known
<1> QED BY <1>2, <1>3

(* A command leaves the queue (behaviour.rs:221-229).                        *)
LEMMA NotifyKeepsEvents ==
  ASSUME TypeOK, EventOrder, Announced, PollNotify
  PROVE  EventOrder' /\ Announced'
<1>1. /\ queue # <<>> /\ queue' = Tail(queue) /\ UNCHANGED <<heard, pool>>
      /\ Head(queue).to = "handler"
  BY DEF PollNotify, Popped
<1>2. PICK m \in Nat : DOMAIN queue = 1..(m + 1) /\ DOMAIN queue' = 1..m
  <2>1. Len(queue) - 1 \in Nat /\ Len(queue) = (Len(queue) - 1) + 1
    BY <1>1, QueuePopped, Queue
  <2> QED BY <1>1, <2>1, QueuePopped, Queue
<1>3. queue[1].to = "handler" /\ \A k \in 1..m : queue'[k] = queue[k + 1]
  <2>1. \A k \in 1..(Len(queue) - 1) : queue'[k] = queue[k + 1] BY <1>1, QueuePopped
  <2>2. DOMAIN queue' = 1..(Len(queue) - 1) BY <1>1, QueuePopped
  <2> QED BY <1>1, <1>2, <2>1, <2>2, QueuePopped
<1>4. /\ \A k \in DOMAIN queue', c \in Conns :
           k + 1 \in DOMAIN queue /\ (EventOf(k, c)' <=> EventOf(k + 1, c))
      /\ \A k \in DOMAIN queue, c \in Conns : EventOf(k, c) => k - 1 \in DOMAIN queue'
      /\ \A k \in DOMAIN queue' : \A j \in 1..(k - 1) : j \in DOMAIN queue' /\ j + 1 \in 1..k
      /\ \A k \in DOMAIN queue' : (k + 1) - 1 = k
      /\ \A k \in DOMAIN queue : (k - 1) + 1 = k
      /\ \A k \in DOMAIN queue' : \A j \in 1..k : j = 1 \/ j - 1 \in 1..(k - 1)
      /\ \A j, k \in DOMAIN queue' : j > k => j + 1 > k + 1
  BY <1>2, <1>3 DEF EventOf
<1>5. \A c \in Conns : ~EventOf(1, c) BY <1>3 DEF EventOf
<1>6. ASSUME NEW c \in Conns PROVE Told(c)'
  <2>1. Told(c) BY DEF EventOrder, Told
  <2>2. ASSUME NEW k \in DOMAIN queue', EventOf(k, c)'
        PROVE  /\ queue'[k].event = "ConnectionEstablished" <=>
                    heard'[c] = <<>> /\ \A j \in 1..(k - 1) : ~EventOf(j, c)'
               /\ queue'[k].event = "ConnectionClosed" =>
                    \A j \in DOMAIN queue' : j > k => ~EventOf(j, c)'
    <3>1. k + 1 \in DOMAIN queue /\ queue'[k] = queue[k + 1] /\ EventOf(k + 1, c)
      BY <1>2, <1>3, <1>4, <2>2
    <3>2. (\A j \in 1..(k - 1) : ~EventOf(j, c)') <=> \A j \in 1..k : ~EventOf(j, c)
      <4>1. \A j \in 1..(k - 1) : EventOf(j, c)' <=> EventOf(j + 1, c) BY <1>4, <2>2
      <4>2. ASSUME NEW j \in 1..k, EventOf(j, c)
            PROVE  j - 1 \in 1..(k - 1) /\ EventOf(j - 1, c)'
        <5>1. j # 1 BY <1>5, <4>2
        <5>2. j - 1 \in 1..(k - 1) /\ (j - 1) + 1 = j BY <1>2, <2>2, <5>1
        <5> QED BY <4>1, <4>2, <5>2
      <4> QED BY <1>4, <2>2, <4>1, <4>2
    <3>3. queue[k + 1].event = "ConnectionEstablished" <=>
            heard[c] = <<>> /\ \A j \in 1..k : ~EventOf(j, c)
      BY <1>4, <2>1, <2>2, <3>1 DEF Told
    <3>4. queue[k + 1].event = "ConnectionClosed" =>
            \A j \in DOMAIN queue : j > k + 1 => ~EventOf(j, c)
      BY <2>1, <3>1 DEF Told
    <3> QED BY <1>1, <1>4, <2>2, <3>1, <3>2, <3>3, <3>4
  <2>3. (\A k \in DOMAIN queue : ~EventOf(k, c)) => \A k \in DOMAIN queue' : ~EventOf(k, c)'
    BY <1>4
  <2> QED BY <1>1, <2>1, <2>2, <2>3 DEF Told
<1>7. ASSUME NEW c \in Conns, Begun(c) PROVE Begun(c)'
  <2>1. CASE heard[c] # <<>> BY <1>1, <2>1 DEF Begun
  <2>2. ASSUME NEW k \in DOMAIN queue, EventOf(k, c) PROVE Begun(c)'
    <3>1. k - 1 \in DOMAIN queue' /\ EventOf(k - 1, c)' BY <1>4, <2>2
    <3> QED BY <3>1 DEF Begun
  <2> QED BY <1>7, <2>1, <2>2 DEF Begun
<1>8. ASSUME NEW c \in Conns, Unclosed(c) PROVE Unclosed(c)'
  BY <1>1, <1>2, <1>3, <1>4, <1>8 DEF Unclosed
<1> QED BY <1>1, <1>6, <1>7, <1>8 DEF EventOrder, Told, Announced, Known

(* The user hears the oldest event (behaviour.rs:221-229).                   *)
LEMMA HeardEvent ==
  ASSUME TypeOK, EventOrder, Announced, PollEvent
  PROVE  EventOrder' /\ Announced'
<1>1. /\ queue # <<>> /\ queue' = Tail(queue) /\ UNCHANGED pool
      /\ Head(queue).to = "user" /\ Head(queue) \in Entries
      /\ heard' = [heard EXCEPT ![Head(queue).conn] = Append(@, Head(queue).event)]
  BY HeadTailProperties, Queue DEF PollEvent, Popped
<1>2. PICK m \in Nat : DOMAIN queue = 1..(m + 1) /\ DOMAIN queue' = 1..m
  <2>1. Len(queue) - 1 \in Nat /\ Len(queue) = (Len(queue) - 1) + 1
    BY <1>1, QueuePopped, Queue
  <2> QED BY <1>1, <2>1, QueuePopped, Queue
<1>3. \A k \in 1..m : queue'[k] = queue[k + 1]
  <2>1. \A k \in 1..(Len(queue) - 1) : queue'[k] = queue[k + 1] BY <1>1, QueuePopped
  <2>2. DOMAIN queue' = 1..(Len(queue) - 1) BY <1>1, QueuePopped
  <2> QED BY <1>2, <2>1, <2>2
<1>4. PICK d \in Conns, e \in Kinds :
        /\ queue[1].to = "user" /\ queue[1].conn = d /\ queue[1].event = e
        /\ heard' = [heard EXCEPT ![d] = Append(heard[d], e)]
  <2>1. Head(queue) = queue[1] BY <1>1, QueuePopped
  <2>2. Head(queue).conn \in Conns /\ Head(queue).event \in Kinds
    BY <1>1 DEF Entries, Notifications, Happenings
  <2> QED BY <1>1, <2>1, <2>2
<1>5. PICK n \in Nat :
        /\ n = Len(heard[d]) /\ DOMAIN heard[d] = 1..n /\ DOMAIN heard'[d] = 1..(n + 1)
        /\ \A i \in 1..n : heard'[d][i] = heard[d][i]
        /\ heard'[d][n + 1] = e /\ Len(heard'[d]) = n + 1
        /\ heard'[d] # <<>> /\ (n = 0 <=> heard[d] = <<>>)
  <2>1. heard[d] \in Seq(Kinds) /\ heard'[d] = Append(heard[d], e) BY <1>4 DEF TypeOK
  <2>2. Append(heard[d], e) \in Seq(Kinds) /\ Len(Append(heard[d], e)) = Len(heard[d]) + 1
    BY <2>1, AppendProperties
  <2>3. Len(heard[d]) \in Nat /\ (Len(heard[d]) = 0 <=> heard[d] = <<>>)
    BY <2>1, LenProperties, EmptySeq
  <2>4. DOMAIN heard[d] = 1..Len(heard[d]) /\ DOMAIN heard'[d] = 1..(Len(heard[d]) + 1)
    BY <2>1, <2>2, LenProperties
  <2>5. heard'[d] # <<>> BY <2>1, AppendProperties
  <2> QED BY <2>1, <2>2, <2>3, <2>4, <2>5, AppendProperties
<1>6. \A c \in Conns : c # d => heard'[c] = heard[c] BY <1>4 DEF TypeOK
<1>7. /\ \A k \in DOMAIN queue', c \in Conns :
           k + 1 \in DOMAIN queue /\ (EventOf(k, c)' <=> EventOf(k + 1, c))
      /\ \A k \in DOMAIN queue, c \in Conns :
           EventOf(k, c) /\ k # 1 => k - 1 \in DOMAIN queue' /\ EventOf(k - 1, c)'
      /\ \A k \in DOMAIN queue' : \A j \in 1..(k - 1) : j \in DOMAIN queue' /\ j + 1 \in 1..k
      /\ \A k \in DOMAIN queue' : (k + 1) - 1 = k /\ 1 \in 1..k /\ k + 1 > 1
      /\ \A j, k \in DOMAIN queue' : j > k => j + 1 > k + 1
      /\ 1 \in DOMAIN queue
  BY <1>2, <1>3 DEF EventOf
<1>8. \A c \in Conns : EventOf(1, c) <=> c = d BY <1>4 DEF EventOf
<1>9. e = "ConnectionEstablished" <=> heard[d] = <<>>
  <2>1. \A j \in 1..(1 - 1) : ~EventOf(j, d) OBVIOUS
  <2> QED BY <1>4, <1>7, <1>8, <2>1 DEF EventOrder
<1>10. e = "ConnectionClosed" => \A j \in DOMAIN queue : j > 1 => ~EventOf(j, d)
  BY <1>4, <1>7, <1>8 DEF EventOrder
<1>11. \A i \in DOMAIN heard[d] : heard[d][i] # "ConnectionClosed"
  BY <1>7, <1>8 DEF EventOrder
<1>12. ASSUME NEW c \in Conns, NEW k \in DOMAIN queue', EventOf(k, c)'
       PROVE  /\ queue'[k].event = "ConnectionEstablished" <=>
                   heard'[c] = <<>> /\ \A j \in 1..(k - 1) : ~EventOf(j, c)'
              /\ queue'[k].event = "ConnectionClosed" =>
                   \A j \in DOMAIN queue' : j > k => ~EventOf(j, c)'
  <2>1. k + 1 \in DOMAIN queue /\ queue'[k] = queue[k + 1] /\ EventOf(k + 1, c)
    BY <1>2, <1>3, <1>7, <1>12
  <2>2. queue[k + 1].event = "ConnectionEstablished" <=>
          heard[c] = <<>> /\ \A j \in 1..k : ~EventOf(j, c)
    BY <1>7, <1>12, <2>1 DEF EventOrder
  <2>3. queue[k + 1].event = "ConnectionClosed" =>
          \A j \in DOMAIN queue : j > k + 1 => ~EventOf(j, c)
    BY <2>1 DEF EventOrder
  <2>4. queue'[k].event = "ConnectionClosed" =>
          \A j \in DOMAIN queue' : j > k => ~EventOf(j, c)'
    BY <1>7, <1>12, <2>1, <2>3
  <2>5. CASE c = d
    BY <1>5, <1>7, <1>8, <1>12, <2>1, <2>2, <2>4, <2>5
  <2>6. CASE c # d
    <3>1. \A j \in 1..(k - 1) : EventOf(j, c)' <=> EventOf(j + 1, c) BY <1>7, <1>12
    <3>2. ASSUME NEW j \in 1..k, EventOf(j, c)
          PROVE  j - 1 \in 1..(k - 1) /\ EventOf(j - 1, c)'
      <4>1. j # 1 BY <1>8, <2>6, <3>2
      <4>2. j - 1 \in 1..(k - 1) /\ (j - 1) + 1 = j BY <1>2, <1>12, <4>1
      <4> QED BY <3>1, <3>2, <4>2
    <3>3. (\A j \in 1..(k - 1) : ~EventOf(j, c)') <=> \A j \in 1..k : ~EventOf(j, c)
      BY <1>7, <1>12, <3>1, <3>2
    <3> QED BY <1>6, <2>1, <2>2, <2>4, <2>6, <3>3
  <2> QED BY <2>5, <2>6
<1>13. ASSUME NEW c \in Conns, NEW i \in DOMAIN heard'[c]
       PROVE  /\ heard'[c][i] = "ConnectionEstablished" <=> i = 1
              /\ heard'[c][i] = "ConnectionClosed" =>
                   i = Len(heard'[c]) /\ \A k \in DOMAIN queue' : ~EventOf(k, c)'
  <2>1. CASE c # d
    BY <1>6, <1>7, <1>13, <2>1 DEF EventOrder
  <2>2. CASE c = d /\ i \in 1..n
    BY <1>5, <1>11, <2>2 DEF EventOrder
  <2>3. CASE c = d /\ i = n + 1
    BY <1>5, <1>7, <1>9, <1>10, <2>3
  <2> QED BY <1>5, <1>13, <2>1, <2>2, <2>3
<1>14. ASSUME NEW c \in Conns, Known(c)' PROVE Begun(c)' /\ Unclosed(c)'
  <2>1. Begun(c) /\ Unclosed(c) BY <1>1, <1>14 DEF Announced, Known
  <2>2. Begun(c)'
    <3>1. CASE c = d BY <1>5, <3>1 DEF Begun
    <3>2. CASE c # d BY <1>6, <1>7, <1>8, <2>1, <3>2 DEF Begun
    <3> QED BY <3>1, <3>2
  <2>3. \A k \in DOMAIN queue' : EventOf(k, c)' => queue'[k].event # "ConnectionClosed"
    BY <1>2, <1>3, <1>7, <2>1 DEF Unclosed
  <2>4. \A i \in DOMAIN heard'[c] : heard'[c][i] # "ConnectionClosed"
    <3>1. CASE c = d
      <4>1. e # "ConnectionClosed" BY <1>4, <1>7, <1>8, <2>1, <3>1 DEF Unclosed
      <4>2. \A i \in 1..n : heard'[d][i] # "ConnectionClosed" BY <1>5, <1>11
      <4>3. \A i \in 1..(n + 1) : i \in 1..n \/ i = n + 1 OBVIOUS
      <4>4. DOMAIN heard'[d] = 1..(n + 1) /\ heard'[d][n + 1] = e BY <1>5
      <4> QED BY <3>1, <4>1, <4>2, <4>3, <4>4
    <3>2. CASE c # d
      <4>1. heard'[c] = heard[c] BY <1>6, <3>2
      <4>2. \A i \in DOMAIN heard[c] : heard[c][i] # "ConnectionClosed" BY <2>1 DEF Unclosed
      <4> QED BY <4>1, <4>2
    <3> QED BY <3>1, <3>2
  <2> QED BY <2>2, <2>3, <2>4 DEF Unclosed
<1> QED BY <1>12, <1>13, <1>14 DEF EventOrder, Announced

-----------------------------------------------------------------------------
(* All steps.                                                                *)

Ordered == ConnectionOrder /\ EventOrder /\ Announced /\ PendingMeansAway

LEMMA InitGround == Init => Ground /\ Ordered
<1> SUFFICES ASSUME Init PROVE Ground /\ Ordered
  OBVIOUS
<1>1. TypeOK BY InitTypeOK
<1>2. PeersAreConnected /\ Ends /\ PendingMeansAway
  BY DEF Init, PeersAreConnected, Ends, PendingMeansAway
<1>3. Numbered /\ Unused BY DEF Init, Numbered, Unused, ToSet
<1>4. ConnectionOrder BY DEF Init, ConnectionOrder, Increasing, ToSet
<1>5. EventOrder /\ Announced BY DEF Init, EventOrder, Announced, Known
<1> QED BY <1>1, <1>2, <1>3, <1>4, <1>5 DEF Ground, Ordered

LEMMA NextGround == Ground /\ [Next]_vars => Ground'
<1>1. TypeOK /\ PeersAreConnected => RInv
  BY DEF RInv, Tables, TypeOK
<1>2. RInv' => PeersAreConnected'
  BY DEF RInv
<1> QED BY <1>1, <1>2, RoutingStep, NextTypeOK, NextEnds, NextNumbered, NextUnused
     DEF Ground

(* A command waits for a connected peer only after an event put the peer     *)
(* back (behaviour.rs:90-95, 179-187, 212).                                  *)
LEMMA NextPending == TypeOK /\ PendingMeansAway /\ [Next]_vars => PendingMeansAway'
<1> SUFFICES ASSUME TypeOK, PendingMeansAway, [Next]_vars PROVE PendingMeansAway'
  OBVIOUS
<1> USE DEF PendingMeansAway
<1>1. ASSUME NEW p \in Peers, Dispatch(p) PROVE PendingMeansAway'
  BY <1>1 DEF Dispatch, TypeOK
<1>2. ASSUME NEW c \in Conns, NEW p \in Peers, Established(c, p) PROVE PendingMeansAway'
  BY <1>2 DEF Established, Flush, TypeOK
<1>3. ASSUME NEW c \in Conns, Closed(c) PROVE PendingMeansAway'
  BY <1>3 DEF Closed, Forget, TypeOK
<1>4. ASSUME NEW c \in Conns, HandlerEvent(c) PROVE PendingMeansAway'
  BY <1>4 DEF HandlerEvent, TypeOK
<1>5. CASE UNCHANGED <<peers, pending, revived>> BY <1>5
<1> QED BY <1>1, <1>2, <1>3, <1>4, <1>5
     DEF Next, Swarm, PollNotify, PollEvent, Take, Emit, End, own, vars

LEMMA NextOrdered == Ground /\ Ordered /\ [Next]_vars => Ordered'
<1> SUFFICES ASSUME Ground, Ordered, [Next]_vars PROVE Ordered'
  OBVIOUS
<1>0. PendingMeansAway' BY NextPending DEF Ground, Ordered
<1> USE DEF Ground
<1>1. ASSUME NEW p \in Peers, Dispatch(p) PROVE Ordered'
  BY <1>0, <1>1, DispatchOrder, CommandsKeepEvents DEF Ordered
<1>2. ASSUME NEW c \in Conns, NEW p \in Peers, Established(c, p) PROVE Ordered'
  BY <1>0, <1>2, EstablishedOrder, FirstEvent DEF Ordered
<1>3. ASSUME NEW c \in Conns, Closed(c) \/ HandlerEvent(c) PROVE Ordered'
  BY <1>0, <1>3, EventsKeepOrder, QueuedEvent DEF Ordered
<1>4. CASE PollNotify
  BY <1>0, <1>4, PollOrder, NotifyKeepsEvents DEF Ordered
<1>5. CASE PollEvent
  BY <1>0, <1>5, PollOrder, HeardEvent DEF Ordered
<1>6. ASSUME NEW c \in Conns, Take(c) \/ Emit(c) \/ End(c) PROVE Ordered'
  <2>1. UNCHANGED <<heard, queue, pool>> BY <1>6 DEF Take, Emit, End, own
  <2>2. EventOrder' /\ Announced'
    BY <2>1 DEF Ordered, EventOrder, Announced, Begun, Unclosed, EventOf, Known
  <2>3. ConnectionOrder' BY <1>6, TakeOrder, EndOrder DEF Ordered
  <2> QED BY <1>0, <2>2, <2>3 DEF Ordered
<1>7. CASE UNCHANGED vars
  <2>1. UNCHANGED <<queue, pending, pool, inbox, taken, heard>>
    BY <1>7 DEF vars, own, links
  <2> QED BY <1>0, <2>1
       DEF Ordered, EventOrder, Announced, Begun, Unclosed, EventOf, Known,
           ConnectionOrder, CommandFor
<1> QED BY <1>1, <1>2, <1>3, <1>4, <1>5, <1>6, <1>7 DEF Next, Swarm

(* The tables, queues and channels hold what their types in behaviour.rs     *)
(* (27-34) say, and no channel more than it has room for.                    *)
THEOREM TypeCorrect == Spec => []TypeOK
<1>1. Ground => TypeOK BY DEF Ground
<1> QED BY <1>1, InitGround, NextGround, PTL DEF Spec

(* Commands to a connection arrive in the order of the calls: no flush of    *)
(* `pending` and no change of `peers` lets one overtake another              *)
(* (behaviour.rs:90-95, 179-187, 221-229).                                   *)
THEOREM CommandsInOrder == Spec => []ConnectionOrder
<1>1. Ordered => ConnectionOrder BY DEF Ordered
<1> QED BY <1>1, InitGround, NextGround, NextOrdered, PTL DEF Spec

(* The user hears of a connection first that it is established and last that *)
(* it is closed, each once (behaviour.rs:175-178, 189-205, 206-219).         *)
THEOREM EventsInOrder == Spec => []EventOrder
<1>1. Ordered => EventOrder BY DEF Ordered
<1> QED BY <1>1, InitGround, NextGround, NextOrdered, PTL DEF Spec

(* A command waits in `pending` while `peers` names a connection only if an  *)
(* event put that entry back (behaviour.rs:90-95, 212).                      *)
THEOREM Pending == Spec => []PendingMeansAway
<1>1. Ordered => PendingMeansAway BY DEF Ordered
<1> QED BY <1>1, InitGround, NextGround, NextOrdered, PTL DEF Spec

-----------------------------------------------------------------------------
(* The place of each command.                                                *)

Waits(p) == ToSet(pending[p])

Alone(n) ==
  /\ n \in dropped => /\ \A p \in Peers : n \notin Waits(p)
                      /\ \A c \in Conns : n \notin SentTo(c)
  /\ \/ n \in dropped
     \/ \E p \in Peers : n \in Waits(p)
     \/ \E c \in Conns : n \in SentTo(c)
  /\ \A p, q \in Peers : n \in Waits(p) /\ n \in Waits(q) => p = q
  /\ \A c, d \in Conns : n \in SentTo(c) /\ n \in SentTo(d) => c = d
  /\ \A p \in Peers, c \in Conns : ~(n \in Waits(p) /\ n \in SentTo(c))

(* What is dropped was issued, as is what waits or was sent (`Numbered`).    *)
Placed ==
  /\ \A n \in dropped : n <= Len(issued)
  /\ \A n \in Commands : Alone(n)

LEMMA Sent ==
  \A c \in Conns : \A n :
    n \in SentTo(c) <=> \/ n \in ToSet(taken[c]) \/ n \in ToSet(inbox[c])
                        \/ \E k \in DOMAIN queue : CommandFor(k, c) /\ queue[k].cmd = n
BY DEF SentTo

LEMMA PlacedCounts == Placed => OnePlace
<1> SUFFICES ASSUME Placed, NEW n \in Commands PROVE Places(n) = 1
  BY DEF OnePlace
<1> DEFINE P == {p \in Peers : n \in ToSet(pending[p])}
           C == {c \in Conns : n \in SentTo(c)}
<1>1. Alone(n) BY DEF Placed
<1>2. /\ n \in dropped => P = {} /\ C = {}
      /\ n \notin dropped => \/ (\E p : P = {p}) /\ C = {}
                             \/ P = {} /\ (\E c : C = {c})
  <2>1. n \in dropped => P = {} /\ C = {} BY <1>1 DEF Alone, Waits
  <2>2. ASSUME NEW p \in Peers, n \in Waits(p) PROVE P = {p} /\ C = {}
    BY <1>1, <2>2 DEF Alone, Waits
  <2>3. ASSUME NEW c \in Conns, n \in SentTo(c) PROVE P = {} /\ C = {c}
    BY <1>1, <2>3 DEF Alone, Waits
  <2> HIDE DEF P, C
  <2> QED BY <1>1, <2>1, <2>2, <2>3 DEF Alone
<1>3. Places(n) = (IF n \in dropped THEN 1 ELSE 0) + Cardinality(P) + Cardinality(C)
  BY DEF Places
<1> HIDE DEF P, C
<1>4. Cardinality({}) = 0 /\ \A x : Cardinality({x}) = 1 BY FS_EmptySet, FS_Singleton
<1>5. CASE n \in dropped
  <2>1. Cardinality(P) = 0 /\ Cardinality(C) = 0 BY <1>2, <1>4, <1>5
  <2> QED BY <1>3, <1>5, <2>1
<1>6. CASE n \notin dropped /\ (\E p : P = {p}) /\ C = {}
  <2>1. Cardinality(P) = 1 /\ Cardinality(C) = 0 BY <1>4, <1>6
  <2> QED BY <1>3, <1>6, <2>1
<1>7. CASE n \notin dropped /\ P = {} /\ (\E c : C = {c})
  <2>1. Cardinality(P) = 0 /\ Cardinality(C) = 1 BY <1>4, <1>7
  <2> QED BY <1>3, <1>7, <2>1
<1> QED BY <1>2, <1>5, <1>6, <1>7

(* A step that leaves each command where it is, or hands it on within the    *)
(* same connection.                                                          *)
LEMMA PlacesKept ==
  ASSUME Placed, dropped' = dropped, issued' = issued,
         \A p \in Peers : Waits(p)' = Waits(p),
         \A c \in Conns : SentTo(c)' = SentTo(c)
  PROVE  Placed'
<1>1. Commands' = Commands BY DEF Commands
<1>2. \A n : Alone(n) => Alone(n)' BY DEF Alone
<1> QED BY <1>1, <1>2 DEF Placed

(* A step that drops commands of one connection.                             *)
LEMMA PlacesDropped ==
  ASSUME Placed, NEW d \in Conns, NEW X \in SUBSET SentTo(d), \A n \in X : n <= Len(issued),
         dropped' = dropped \cup X, issued' = issued,
         \A p \in Peers : Waits(p)' = Waits(p),
         \A c \in Conns : SentTo(c)' = IF c = d THEN SentTo(d) \ X ELSE SentTo(c)
  PROVE  Placed'
<1>1. Commands' = Commands BY DEF Commands
<1>2. \A n \in Commands : Alone(n) => Alone(n)'
  <2> SUFFICES ASSUME NEW n \in Commands, Alone(n) PROVE Alone(n)'
    OBVIOUS
  <2>1. CASE n \in X
    <3>1. \A p \in Peers : n \notin Waits(p)' BY <2>1 DEF Alone
    <3>2. \A c \in Conns : n \notin SentTo(c)' BY <2>1 DEF Alone
    <3>3. n \in dropped' BY <2>1
    <3> QED BY <3>1, <3>2, <3>3 DEF Alone
  <2>2. CASE n \notin X
    <3>1. \A c \in Conns : n \in SentTo(c)' <=> n \in SentTo(c) BY <2>2
    <3>2. n \in dropped' <=> n \in dropped BY <2>2
    <3> QED BY <3>1, <3>2 DEF Alone
  <2> QED BY <2>1, <2>2
<1> QED BY <1>1, <1>2 DEF Placed

(* A new command waits for its peer or is on its way (behaviour.rs:80-96).   *)
LEMMA DispatchPlace ==
  ASSUME Ground, Placed, NEW p \in Peers, Dispatch(p)
  PROVE  Placed'
<1> USE DEF Ground
<1>0. Len(issued) \in Nat BY LenProperties DEF TypeOK
<1> PICK n \in Nat : n = Len(issued) + 1 BY <1>0
<1>1. /\ Len(issued) \in Nat /\ Len(issued') = n /\ n = Len(issued) + 1
      /\ UNCHANGED <<taken, inbox, dropped>>
  <2>1. issued \in Seq(Peers) /\ issued' = Append(issued, p) BY DEF Dispatch, TypeOK
  <2>2. Len(issued') = Len(issued) + 1 /\ Len(issued) \in Nat
    BY <2>1, AppendProperties, LenProperties
  <2> QED BY <2>2 DEF Dispatch, links
<1>2. Commands' = Commands \cup {n} /\ n \notin Commands BY <1>1 DEF Commands
<1>3. /\ \A q \in Peers : n \notin Waits(q)
      /\ \A c \in Conns : n \notin SentTo(c)
      /\ n \notin dropped
  <2>1. ~(n <= Len(issued)) BY <1>1
  <2>2. \A c \in Conns : n \notin SentTo(c) BY <2>1, Sent DEF Numbered, CommandFor
  <2> QED BY <1>2, <2>1, <2>2 DEF Numbered, Waits, Placed
<1>4. ASSUME \/ /\ \A q \in Peers : Waits(q)' = Waits(q)
                /\ \E d \in Conns : \A c \in Conns :
                     SentTo(c)' = IF c = d THEN SentTo(c) \cup {n} ELSE SentTo(c)
             \/ /\ \A c \in Conns : SentTo(c)' = SentTo(c)
                /\ \A q \in Peers :
                     Waits(q)' = IF q = p THEN Waits(q) \cup {n} ELSE Waits(q)
      PROVE  Placed'
  <2>1. Alone(n)'
    <3>1. CASE \A q \in Peers : Waits(q)' = Waits(q)
      <4>1. \A q \in Peers : n \notin Waits(q)' BY <1>3, <3>1
      <4>2. \E d \in Conns : \A c \in Conns : n \in SentTo(c)' <=> c = d
        <5>1. CASE \E d \in Conns : \A c \in Conns :
                     SentTo(c)' = IF c = d THEN SentTo(c) \cup {n} ELSE SentTo(c)
          <6>1. PICK d \in Conns : \A c \in Conns :
                     SentTo(c)' = IF c = d THEN SentTo(c) \cup {n} ELSE SentTo(c)
            BY <5>1
          <6> QED BY <1>3, <6>1
        <5>2. CASE Waits(p)' = Waits(p) \cup {n} BY <4>1, <5>2
        <5> QED BY <1>4, <5>1, <5>2
      <4>3. n \notin dropped' BY <1>1, <1>3
      <4> QED BY <4>1, <4>2, <4>3 DEF Alone
    <3>2. CASE \A q \in Peers :
                 Waits(q)' = IF q = p THEN Waits(q) \cup {n} ELSE Waits(q)
      <4>1. \A q \in Peers : n \in Waits(q)' <=> q = p BY <1>3, <3>2
      <4>2. \A c \in Conns : n \notin SentTo(c)'
        <5>1. Waits(p)' # Waits(p) BY <1>3, <4>1
        <5> QED BY <1>3, <1>4, <5>1
      <4>3. n \notin dropped' BY <1>1, <1>3
      <4> QED BY <4>1, <4>2, <4>3 DEF Alone
    <3> QED BY <1>4, <3>1, <3>2
  <2>2. ASSUME NEW m \in Commands PROVE Alone(m)'
    <3>1. Alone(m) /\ m # n BY <1>2 DEF Placed
    <3>2. /\ \A q \in Peers : m \in Waits(q)' <=> m \in Waits(q)
          /\ \A c \in Conns : m \in SentTo(c)' <=> m \in SentTo(c)
      BY <1>4, <3>1
    <3> QED BY <1>1, <3>1, <3>2 DEF Alone
  <2>3. \A m \in dropped' : m <= Len(issued')
    <3> SUFFICES ASSUME NEW m \in dropped PROVE m <= Len(issued')
      BY <1>1
    <3>1. m \in Nat /\ m <= Len(issued) BY DEF Placed, TypeOK
    <3> QED BY <1>1, <3>1
  <2>4. \A m \in Commands' : Alone(m)' BY <1>2, <2>1, <2>2
  <2> QED BY <2>3, <2>4 DEF Placed
<1>5. CASE peers[p] # NoConn
  <2> DEFINE d == peers[p]
             e == Notify(p, d, n)
  <2>1. queue' = Append(queue, e) /\ pending' = pending
    BY <1>1, <1>5 DEF Dispatch
  <2>2. d \in Conns BY <1>5 DEF TypeOK
  <2>3. e \in Entries /\ e.cmd = n /\ e.to = "handler" /\ e.conn = d
    BY <1>1, <2>2 DEF Notify, Entries, Notifications
  <2> HIDE DEF e, d
  <2>4. /\ DOMAIN queue' = 1..(Len(queue) + 1) /\ queue'[Len(queue) + 1] = e
        /\ \A k \in 1..Len(queue) : queue'[k] = queue[k]
    BY <2>1, <2>3, QueueAppended
  <2>5. DOMAIN queue = 1..Len(queue) /\ Len(queue) \in Nat BY Queue
  <2>6. ASSUME NEW c \in Conns
        PROVE  SentTo(c)' = IF c = d THEN SentTo(c) \cup {n} ELSE SentTo(c)
    <3>1. \A m : (\E k \in DOMAIN queue' : CommandFor(k, c)' /\ queue'[k].cmd = m)
                 <=> \/ \E k \in DOMAIN queue : CommandFor(k, c) /\ queue[k].cmd = m
                     \/ c = d /\ m = n
      BY <2>3, <2>4, <2>5 DEF CommandFor
    <3>2. \A m : m \in SentTo(c)' <=>
                   \/ m \in ToSet(taken'[c]) \/ m \in ToSet(inbox'[c])
                   \/ \E k \in DOMAIN queue' : CommandFor(k, c)' /\ queue'[k].cmd = m
      BY DEF SentTo
    <3>3. \A m : m \in SentTo(c)' <=> m \in SentTo(c) \/ (c = d /\ m = n)
      BY <1>1, <3>1, <3>2, Sent
    <3> QED BY <3>3
  <2>7. \A q \in Peers : Waits(q)' = Waits(q) BY <2>1 DEF Waits
  <2> QED BY <1>4, <2>2, <2>6, <2>7
<1>6. CASE peers[p] = NoConn
  <2>1. pending' = [pending EXCEPT ![p] = Append(pending[p], n)] /\ queue' = queue
    BY <1>1, <1>6 DEF Dispatch
  <2>2. ToSet(Append(pending[p], n)) = ToSet(pending[p]) \cup {n}
    BY <1>1, AppendedNumbers DEF TypeOK
  <2>3. \A q \in Peers : Waits(q)' = IF q = p THEN Waits(q) \cup {n} ELSE Waits(q)
    BY <2>1, <2>2 DEF Waits, TypeOK
  <2>4. \A c \in Conns : SentTo(c)' = SentTo(c)
    BY <1>1, <2>1 DEF SentTo, CommandFor
  <2> QED BY <1>4, <2>3, <2>4
<1> QED BY <1>5, <1>6

(* What waited for a peer is on its way to the new connection, all of it and *)
(* once (behaviour.rs:175-187).                                              *)
LEMMA EstablishedPlace ==
  ASSUME Ground, Placed, NEW d \in Conns, NEW p \in Peers, Established(d, p)
  PROVE  Placed'
<1> USE DEF Ground
<1>1. UNCHANGED <<taken, inbox, dropped, issued>> /\ pending' = [pending EXCEPT ![p] = <<>>]
  BY DEF Established, links, Flush
<1>2. \A q \in Peers : Waits(q)' = IF q = p THEN {} ELSE Waits(q)
  BY <1>1 DEF Waits, TypeOK, ToSet
<1>3. ASSUME NEW c \in Conns
      PROVE  SentTo(c)' = IF c = d THEN SentTo(c) \cup Waits(p) ELSE SentTo(c)
  <2> DEFINE m == Len(queue)
             l == Len(pending[p])
  <2>1. m \in Nat /\ DOMAIN queue = 1..m BY Queue
  <2>2. l \in Nat /\ DOMAIN pending[p] = 1..l BY LenProperties DEF TypeOK
  <2>3. DOMAIN queue' = 1..(m + 1 + l)
    <3>1. queue' \in Seq(Entries) /\ Len(queue') = m + 1 + l BY EstablishedQueue
    <3> QED BY <3>1, LenProperties
  <2>4. /\ \A j \in 1..m : queue'[j] = queue[j]
        /\ \A i \in 1..l : queue'[m + 1 + i] = Notify(p, d, pending[p][i])
    BY EstablishedQueue
  <2>5. \A k \in DOMAIN queue' :
          \/ k \in DOMAIN queue /\ queue'[k] = queue[k]
          \/ queue'[k].to = "user"
          \/ \E i \in DOMAIN pending[p] : queue'[k] = Notify(p, d, pending[p][i])
    BY EstablishedEntry DEF Generate
  <2> HIDE DEF m, l
  <2>6. /\ \A j \in 1..m : j \in 1..(m + 1 + l)
        /\ \A i \in 1..l : m + 1 + i \in 1..(m + 1 + l)
    BY <2>1, <2>2
  <2>7. \A i : /\ Notify(p, d, pending[p][i]).to = "handler"
               /\ Notify(p, d, pending[p][i]).conn = d
               /\ Notify(p, d, pending[p][i]).cmd = pending[p][i]
    BY DEF Notify
  <2>8. \A x : x \in Waits(p) <=> \E i \in DOMAIN pending[p] : pending[p][i] = x
    BY DEF Waits, ToSet
  <2>9. ASSUME NEW x
        PROVE  (\E k \in DOMAIN queue' : CommandFor(k, c)' /\ queue'[k].cmd = x)
               <=> \/ \E k \in DOMAIN queue : CommandFor(k, c) /\ queue[k].cmd = x
                   \/ c = d /\ x \in Waits(p)
    <3>1. ASSUME NEW k \in DOMAIN queue', CommandFor(k, c)', queue'[k].cmd = x
          PROVE  \/ \E j \in DOMAIN queue : CommandFor(j, c) /\ queue[j].cmd = x
                 \/ c = d /\ x \in Waits(p)
      BY <2>5, <2>7, <2>8, <3>1 DEF CommandFor
    <3>2. ASSUME NEW k \in DOMAIN queue, CommandFor(k, c), queue[k].cmd = x
          PROVE  \E j \in DOMAIN queue' : CommandFor(j, c)' /\ queue'[j].cmd = x
      BY <2>1, <2>3, <2>4, <2>6, <3>2 DEF CommandFor
    <3>3. ASSUME c = d, x \in Waits(p)
          PROVE  \E j \in DOMAIN queue' : CommandFor(j, c)' /\ queue'[j].cmd = x
      <4>1. PICK i \in 1..l : pending[p][i] = x BY <2>2, <2>8, <3>3
      <4>2. m + 1 + i \in DOMAIN queue' BY <2>3, <2>6
      <4>3. queue'[m + 1 + i] = Notify(p, d, pending[p][i]) BY <2>4
      <4> QED BY <2>7, <3>3, <4>1, <4>2, <4>3 DEF CommandFor
    <3> QED BY <3>1, <3>2, <3>3
  <2>10. \A x : x \in SentTo(c)' <=>
                  \/ x \in ToSet(taken'[c]) \/ x \in ToSet(inbox'[c])
                  \/ \E k \in DOMAIN queue' : CommandFor(k, c)' /\ queue'[k].cmd = x
    BY DEF SentTo
  <2>11. \A x : x \in SentTo(c)' <=> x \in SentTo(c) \/ (c = d /\ x \in Waits(p))
    BY <1>1, <2>9, <2>10, Sent
  <2> QED BY <2>11
<1>4. Commands' = Commands BY <1>1 DEF Commands
<1>5. ASSUME NEW n \in Commands PROVE Alone(n)'
  <2>1. Alone(n) BY DEF Placed
  <2>2. CASE n \in Waits(p)
    <3>1. \A q \in Peers : n \notin Waits(q)' BY <1>2, <2>1, <2>2 DEF Alone
    <3>2. \A c \in Conns : n \in SentTo(c)' <=> c = d BY <1>3, <2>1, <2>2 DEF Alone
    <3>3. n \notin dropped' BY <1>1, <2>1, <2>2 DEF Alone
    <3> QED BY <3>1, <3>2, <3>3 DEF Alone
  <2>3. CASE n \notin Waits(p)
    <3>1. \A q \in Peers : n \in Waits(q)' <=> n \in Waits(q) BY <1>2, <2>3
    <3>2. \A c \in Conns : n \in SentTo(c)' <=> n \in SentTo(c) BY <1>3, <2>3
    <3> QED BY <1>1, <2>1, <3>1, <3>2 DEF Alone
  <2> QED BY <2>2, <2>3
<1> QED BY <1>1, <1>4, <1>5 DEF Placed

(* The oldest entry leaves the queue: its command is in the channel of its   *)
(* connection, or that connection has ended (behaviour.rs:221-229).          *)
LEMMA PollPlace ==
  ASSUME Ground, ConnectionOrder, Placed, PollNotify \/ PollEvent
  PROVE  Placed'
<1> USE DEF Ground
<1>1. queue # <<>> /\ queue' = Tail(queue) /\ UNCHANGED <<pending, taken, issued>>
  BY DEF PollNotify, PollEvent, Popped, links
<1>2. DOMAIN queue = 1..Len(queue) /\ Len(queue) \in Nat BY Queue
<1>3. /\ DOMAIN queue' = 1..(Len(queue) - 1) /\ 1 \in DOMAIN queue
      /\ \A k \in 1..(Len(queue) - 1) : queue'[k] = queue[k + 1]
      /\ Head(queue) = queue[1]
  BY <1>1, QueuePopped
<1>4. ASSUME NEW c \in Conns, NEW x
      PROVE  (\E k \in DOMAIN queue' : CommandFor(k, c)' /\ queue'[k].cmd = x)
             <=> \E k \in DOMAIN queue : k # 1 /\ CommandFor(k, c) /\ queue[k].cmd = x
  <2>1. ASSUME NEW k \in DOMAIN queue', CommandFor(k, c)', queue'[k].cmd = x
        PROVE  \E j \in DOMAIN queue : j # 1 /\ CommandFor(j, c) /\ queue[j].cmd = x
    <3>1. k + 1 \in DOMAIN queue /\ k + 1 # 1 /\ queue'[k] = queue[k + 1]
      BY <1>2, <1>3
    <3> QED BY <2>1, <3>1 DEF CommandFor
  <2>2. ASSUME NEW k \in DOMAIN queue, k # 1, CommandFor(k, c), queue[k].cmd = x
        PROVE  \E j \in DOMAIN queue' : CommandFor(j, c)' /\ queue'[j].cmd = x
    <3>1. k - 1 \in DOMAIN queue' /\ (k - 1) + 1 = k BY <1>2, <1>3, <2>2
    <3>2. queue'[k - 1] = queue[k] BY <1>3, <3>1
    <3> QED BY <2>2, <3>1, <3>2 DEF CommandFor
  <2> QED BY <2>1, <2>2
<1>5. \A c \in Conns : \A x : x \in SentTo(c)' <=>
        \/ x \in ToSet(taken'[c]) \/ x \in ToSet(inbox'[c])
        \/ \E k \in DOMAIN queue' : CommandFor(k, c)' /\ queue'[k].cmd = x
  BY DEF SentTo
<1>6. \A p \in Peers : Waits(p)' = Waits(p) BY <1>1 DEF Waits
<1>7. CASE PollEvent
  <2>1. UNCHANGED <<inbox, dropped>> /\ queue[1].to = "user"
    BY <1>3, <1>7 DEF PollEvent, Popped, links
  <2>2. \A c \in Conns : ~CommandFor(1, c) BY <2>1 DEF CommandFor
  <2>3. \A c \in Conns : \A x : x \in SentTo(c)' <=> x \in SentTo(c)
    <3> SUFFICES ASSUME NEW c \in Conns, NEW x PROVE x \in SentTo(c)' <=> x \in SentTo(c)
      OBVIOUS
    <3>1. (\E k \in DOMAIN queue' : CommandFor(k, c)' /\ queue'[k].cmd = x)
          <=> \E k \in DOMAIN queue : CommandFor(k, c) /\ queue[k].cmd = x
      BY <1>4, <2>2
    <3>2. taken'[c] = taken[c] /\ inbox'[c] = inbox[c] BY <1>1, <2>1
    <3> QED BY <1>5, <3>1, <3>2, Sent
  <2>4. \A c \in Conns : SentTo(c)' = SentTo(c) BY <2>3
  <2> QED BY <1>1, <1>6, <2>1, <2>4, PlacesKept
<1>8. CASE PollNotify
  <2>1. PICK d \in Conns, n \in Nat :
          /\ d = queue[1].conn /\ n = queue[1].cmd /\ queue[1].to = "handler"
          /\ \/ inbox' = [inbox EXCEPT ![d] = Append(inbox[d], n)] /\ dropped' = dropped
             \/ inbox' = inbox /\ dropped' = dropped \cup {n}
    <3> DEFINE c == queue[1].conn
               n == queue[1].cmd
    <3>1. /\ queue[1].to = "handler"
          /\ \/ inbox' = [inbox EXCEPT ![c] = Append(inbox[c], n)] /\ dropped' = dropped
             \/ inbox' = inbox /\ dropped' = dropped \cup {n}
      BY <1>3, <1>8 DEF PollNotify, Popped
    <3>2. c \in Conns /\ n \in Nat BY <1>3, <3>1, Queue
    <3> HIDE DEF c, n
    <3>3. c = queue[1].conn /\ n = queue[1].cmd BY DEF c, n
    <3> QED BY <3>1, <3>2, <3>3
  <2>2. /\ \A c \in Conns : CommandFor(1, c) <=> c = d
        /\ n \in SentTo(d)
    BY <1>3, <2>1, Sent DEF CommandFor
  <2>3. CASE inbox' = [inbox EXCEPT ![d] = Append(inbox[d], n)] /\ dropped' = dropped
    <3>1. ToSet(Append(inbox[d], n)) = ToSet(inbox[d]) \cup {n}
      BY AppendedNumbers DEF TypeOK
    <3>2. \A c \in Conns : \A x :
            x \in ToSet(inbox'[c]) <=> x \in ToSet(inbox[c]) \/ (c = d /\ x = n)
      BY <2>3, <3>1 DEF TypeOK
    <3>3. \A c \in Conns : \A x :
            (\E k \in DOMAIN queue : CommandFor(k, c) /\ queue[k].cmd = x)
            <=> \/ \E k \in DOMAIN queue : k # 1 /\ CommandFor(k, c) /\ queue[k].cmd = x
                \/ c = d /\ x = n
      BY <1>3, <2>1, <2>2
    <3>4. \A c \in Conns : \A x : x \in SentTo(c)' <=> x \in SentTo(c)
      <4> SUFFICES ASSUME NEW c \in Conns, NEW x PROVE x \in SentTo(c)' <=> x \in SentTo(c)
        OBVIOUS
      <4> DEFINE Later == \E k \in DOMAIN queue : k # 1 /\ CommandFor(k, c) /\ queue[k].cmd = x
                 Ever  == \E k \in DOMAIN queue : CommandFor(k, c) /\ queue[k].cmd = x
      <4>1. x \in SentTo(c)' <=> x \in ToSet(taken'[c]) \/ x \in ToSet(inbox'[c]) \/ Later
        BY <1>4, <1>5
      <4>2. x \in SentTo(c) <=> x \in ToSet(taken[c]) \/ x \in ToSet(inbox[c]) \/ Ever
        BY Sent
      <4>3. Ever <=> Later \/ (c = d /\ x = n) BY <3>3
      <4>4. taken'[c] = taken[c] BY <1>1
      <4> HIDE DEF Later, Ever
      <4> QED BY <3>2, <4>1, <4>2, <4>3, <4>4
    <3>5. \A c \in Conns : SentTo(c)' = SentTo(c) BY <3>4
    <3> QED BY <1>1, <1>6, <2>3, <3>5, PlacesKept
  <2>4. CASE inbox' = inbox /\ dropped' = dropped \cup {n}
    <3>1. /\ n \notin ToSet(taken[d]) /\ n \notin ToSet(inbox[d])
          /\ \A k \in DOMAIN queue : k # 1 /\ CommandFor(k, d) => queue[k].cmd # n
      <4>1. \A m \in ToSet(taken[d]) \cup ToSet(inbox[d]) : m < n
        BY <1>3, <2>1, <2>2 DEF ConnectionOrder
      <4>2. ASSUME NEW k \in DOMAIN queue, k # 1, CommandFor(k, d) PROVE n < queue[k].cmd
        <5>1. 1 \in 1..(k - 1) BY <1>2, <4>2
        <5> QED BY <2>1, <2>2, <4>2, <5>1 DEF ConnectionOrder
      <4> QED BY <4>1, <4>2
    <3>2. \A c \in Conns : \A x :
            (\E k \in DOMAIN queue : k # 1 /\ CommandFor(k, c) /\ queue[k].cmd = x)
            <=> /\ \E k \in DOMAIN queue : CommandFor(k, c) /\ queue[k].cmd = x
                /\ ~(c = d /\ x = n)
      BY <1>3, <2>1, <2>2, <3>1
    <3>3. \A c \in Conns : \A x : x \in SentTo(c)' <=> x \in SentTo(c) /\ ~(c = d /\ x = n)
      <4> SUFFICES ASSUME NEW c \in Conns, NEW x
                   PROVE  x \in SentTo(c)' <=> x \in SentTo(c) /\ ~(c = d /\ x = n)
        OBVIOUS
      <4> DEFINE Later == \E k \in DOMAIN queue : k # 1 /\ CommandFor(k, c) /\ queue[k].cmd = x
                 Ever  == \E k \in DOMAIN queue : CommandFor(k, c) /\ queue[k].cmd = x
      <4>1. x \in SentTo(c)' <=> x \in ToSet(taken'[c]) \/ x \in ToSet(inbox'[c]) \/ Later
        BY <1>4, <1>5
      <4>2. x \in SentTo(c) <=> x \in ToSet(taken[c]) \/ x \in ToSet(inbox[c]) \/ Ever
        BY Sent
      <4>3. Later <=> Ever /\ ~(c = d /\ x = n) BY <3>2
      <4>4. taken'[c] = taken[c] /\ inbox'[c] = inbox[c] BY <1>1, <2>4
      <4> HIDE DEF Later, Ever
      <4> QED BY <3>1, <4>1, <4>2, <4>3, <4>4
    <3>4. \A c \in Conns : SentTo(c)' = IF c = d THEN SentTo(d) \ {n} ELSE SentTo(c)
      BY <3>3
    <3>5. n <= Len(issued) BY <1>3, <2>1 DEF Numbered
    <3>6. {n} \in SUBSET SentTo(d) /\ \A m \in {n} : m <= Len(issued) BY <2>2, <3>5
    <3> QED BY <1>1, <1>6, <2>4, <3>4, <3>6, PlacesDropped
  <2> QED BY <2>1, <2>3, <2>4
<1> QED BY <1>7, <1>8

(* An event of a connection moves no command (behaviour.rs:189-219).         *)
LEMMA EventPlace ==
  ASSUME Ground, Placed, NEW d \in Conns, Closed(d) \/ HandlerEvent(d)
  PROVE  Placed'
<1> USE DEF Ground
<1>1. PICK e \in Entries : queue' = Append(queue, e) /\ e.to = "user"
  <2>1. pool[d] \in Peers BY DEF Closed, HandlerEvent, Known, TypeOK
  <2>2. Generate(pool[d], d, "ConnectionClosed") \in Entries
        /\ Generate(pool[d], d, "Stream") \in Entries
    BY <2>1 DEF Generate, Entries, Happenings, Kinds
  <2>3. \A k : Generate(pool[d], d, k).to = "user" BY DEF Generate
  <2> QED BY <2>2, <2>3 DEF Closed, HandlerEvent
<1>2. UNCHANGED <<pending, inbox, taken, dropped, issued>> BY DEF Closed, HandlerEvent
<1>3. /\ DOMAIN queue' = 1..(Len(queue) + 1) /\ queue'[Len(queue) + 1] = e
      /\ \A k \in 1..Len(queue) : queue'[k] = queue[k]
  BY <1>1, QueueAppended
<1>4. DOMAIN queue = 1..Len(queue) /\ Len(queue) \in Nat BY Queue
<1>5. \A c \in Conns : \A x :
        (\E k \in DOMAIN queue' : CommandFor(k, c)' /\ queue'[k].cmd = x)
        <=> \E k \in DOMAIN queue : CommandFor(k, c) /\ queue[k].cmd = x
  BY <1>1, <1>3, <1>4 DEF CommandFor
<1>6. \A c \in Conns : \A x : x \in SentTo(c)' <=>
        \/ x \in ToSet(taken'[c]) \/ x \in ToSet(inbox'[c])
        \/ \E k \in DOMAIN queue' : CommandFor(k, c)' /\ queue'[k].cmd = x
  BY DEF SentTo
<1>7. \A c \in Conns : \A x : x \in SentTo(c)' <=> x \in SentTo(c)
  BY <1>2, <1>5, <1>6, Sent
<1>8. \A c \in Conns : SentTo(c)' = SentTo(c) BY <1>7
<1> QED BY <1>2, <1>8, PlacesKept DEF Waits

LEMMA HeadAndRest ==
  ASSUME NEW s \in Seq(Nat), s # <<>>
  PROVE  ToSet(s) = {Head(s)} \cup ToSet(Tail(s))
<1>1. /\ Tail(s) \in Seq(Nat) /\ Len(Tail(s)) = Len(s) - 1
      /\ \A i \in 1..Len(Tail(s)) : Tail(s)[i] = s[i + 1]
  BY HeadTailProperties
<1>2. /\ DOMAIN s = 1..Len(s) /\ DOMAIN Tail(s) = 1..(Len(s) - 1)
      /\ Len(s) \in Nat \ {0} /\ Head(s) = s[1]
  BY <1>1, LenProperties, EmptySeq
<1>3. ASSUME NEW i \in DOMAIN s PROVE s[i] \in {Head(s)} \cup ToSet(Tail(s))
  <2>1. CASE i = 1 BY <1>2, <2>1
  <2>2. CASE i # 1
    <3>1. i - 1 \in DOMAIN Tail(s) /\ (i - 1) + 1 = i BY <1>2, <2>2
    <3>2. Tail(s)[i - 1] = s[i] BY <1>1, <1>2, <3>1
    <3> QED BY <3>1, <3>2 DEF ToSet
  <2> QED BY <2>1, <2>2
<1>4. ToSet(s) \subseteq {Head(s)} \cup ToSet(Tail(s)) BY <1>3 DEF ToSet
<1> QED BY <1>4, TailNumbers

(* A connection's task takes its commands or ends with them.                 *)
LEMMA TaskPlace ==
  ASSUME Ground, ConnectionOrder, Placed, NEW d \in Conns, Take(d) \/ Emit(d) \/ End(d)
  PROVE  Placed'
<1> USE DEF Ground
<1>1. UNCHANGED <<queue, pending, issued>> BY DEF Take, Emit, End, own
<1>2. \A c \in Conns : \A x : x \in SentTo(c)' <=>
        \/ x \in ToSet(taken'[c]) \/ x \in ToSet(inbox'[c])
        \/ \E k \in DOMAIN queue : CommandFor(k, c) /\ queue[k].cmd = x
  BY <1>1 DEF SentTo, CommandFor
<1>3. \A p \in Peers : Waits(p)' = Waits(p) BY <1>1 DEF Waits
<1>4. CASE Take(d)
  <2> DEFINE n == Head(inbox[d])
             rest == Tail(inbox[d])
  <2>1. /\ taken' = [taken EXCEPT ![d] = Append(taken[d], n)]
        /\ inbox' = [inbox EXCEPT ![d] = rest] /\ inbox[d] # <<>>
        /\ dropped' = dropped
    BY <1>4 DEF Take
  <2>2. inbox[d] \in Seq(Nat) /\ taken[d] \in Seq(Nat) BY DEF TypeOK
  <2>3. n \in Nat BY <2>1, <2>2, HeadTailProperties
  <2>4. ToSet(inbox[d]) = {n} \cup ToSet(rest) BY <2>1, <2>2, HeadAndRest
  <2>5. ToSet(Append(taken[d], n)) = ToSet(taken[d]) \cup {n}
    BY <2>2, <2>3, AppendedNumbers
  <2>6. \A c \in Conns : /\ taken'[c] = IF c = d THEN Append(taken[d], n) ELSE taken[c]
                        /\ inbox'[c] = IF c = d THEN rest ELSE inbox[c]
    BY <2>1 DEF TypeOK
  <2> HIDE DEF n, rest
  <2>7. \A c \in Conns : \A x : x \in ToSet(taken'[c]) \/ x \in ToSet(inbox'[c])
                            <=> x \in ToSet(taken[c]) \/ x \in ToSet(inbox[c])
    BY <2>4, <2>5, <2>6
  <2>8. \A c \in Conns : \A x : x \in SentTo(c)' <=> x \in SentTo(c)
    BY <1>2, <2>7, Sent
  <2>9. \A c \in Conns : SentTo(c)' = SentTo(c) BY <2>8
  <2> QED BY <1>1, <1>3, <2>1, <2>9, PlacesKept
<1>5. CASE Emit(d)
  <2>1. UNCHANGED <<taken, inbox, dropped>> BY <1>5 DEF Emit
  <2> QED BY <1>1, <1>3, <2>1, PlacesKept DEF SentTo, CommandFor
<1>6. CASE End(d)
  <2> DEFINE X == ToSet(inbox[d])
  <2>1. /\ taken' = taken /\ inbox' = [inbox EXCEPT ![d] = <<>>]
        /\ dropped' = dropped \cup X
    BY <1>6 DEF End
  <2>2. ToSet(<<>>) = {} BY DEF ToSet
  <2>3. \A c \in Conns : \A x : x \in ToSet(inbox'[c]) <=> x \in ToSet(inbox[c]) /\ c # d
    BY <2>1, <2>2 DEF TypeOK
  <2>4. X \subseteq Nat BY Numbers
  <2>5. /\ \A x \in X : x \notin ToSet(taken[d])
        /\ \A x \in X, k \in DOMAIN queue : CommandFor(k, d) => queue[k].cmd # x
    <3>1. \A x \in X : \A m \in ToSet(taken[d]) : m < x BY DEF ConnectionOrder
    <3>2. \A x \in X, k \in DOMAIN queue : CommandFor(k, d) => x < queue[k].cmd
      BY DEF ConnectionOrder
    <3> HIDE DEF X
    <3> QED BY <2>4, <3>1, <3>2
  <2>6. \A c \in Conns : \A x : x \in SentTo(c)' <=> x \in SentTo(c) /\ ~(c = d /\ x \in X)
    BY <1>2, <2>1, <2>3, <2>5, Sent
  <2>7. \A c \in Conns : SentTo(c)' = IF c = d THEN SentTo(d) \ X ELSE SentTo(c)
    BY <2>6
  <2>8. X \in SUBSET SentTo(d) /\ \A n \in X : n <= Len(issued)
    BY Sent DEF Numbered
  <2> HIDE DEF X
  <2> QED BY <1>1, <1>3, <2>1, <2>7, <2>8, PlacesDropped
<1> QED BY <1>4, <1>5, <1>6

LEMMA InitPlaced == Init => Placed
<1> SUFFICES ASSUME Init PROVE Placed
  OBVIOUS
<1>1. dropped = {} /\ Len(issued) = 0 BY DEF Init
<1>2. Commands = {} BY <1>1 DEF Commands
<1> QED BY <1>1, <1>2 DEF Placed

LEMMA NextPlaced == Ground /\ ConnectionOrder /\ Placed /\ [Next]_vars => Placed'
<1> SUFFICES ASSUME Ground, ConnectionOrder, Placed, [Next]_vars PROVE Placed'
  OBVIOUS
<1>1. ASSUME NEW p \in Peers, Dispatch(p) PROVE Placed' BY <1>1, DispatchPlace
<1>2. ASSUME NEW c \in Conns, NEW p \in Peers, Established(c, p) PROVE Placed'
  BY <1>2, EstablishedPlace
<1>3. CASE PollNotify \/ PollEvent BY <1>3, PollPlace
<1>4. ASSUME NEW c \in Conns, Closed(c) \/ HandlerEvent(c) PROVE Placed'
  BY <1>4, EventPlace
<1>5. ASSUME NEW c \in Conns, Take(c) \/ Emit(c) \/ End(c) PROVE Placed'
  BY <1>5, TaskPlace
<1>6. CASE UNCHANGED vars
  <2>1. UNCHANGED <<queue, pending, inbox, taken, dropped, issued>>
    BY <1>6 DEF vars, own, links
  <2> QED BY <2>1, PlacesKept DEF Waits, SentTo, CommandFor
<1> QED BY <1>1, <1>2, <1>3, <1>4, <1>5, <1>6 DEF Next, Swarm

(* A command is always in one place: none is lost and none is given twice,   *)
(* whatever connections come and go while it waits (behaviour.rs:80-96,      *)
(* 179-187, 221-229).                                                        *)
THEOREM InOnePlace == Spec => []OnePlace
<1>1. Ordered => ConnectionOrder BY DEF Ordered
<1> QED BY <1>1, PlacedCounts, InitGround, NextGround, NextOrdered, InitPlaced, NextPlaced,
           PTL DEF Spec

-----------------------------------------------------------------------------
(* The events of a handler: heard, queued, or on their way to the swarm.     *)

Times(s, T) == Cardinality({i \in DOMAIN s : s[i] \in T})

LEMMA TimesIs ==
  ASSUME NEW S, NEW s \in Seq(S), NEW T
  PROVE  Times(s, T) \in Nat
<1>1. Len(s) \in Nat /\ DOMAIN s = 1..Len(s) BY LenProperties
<1> DEFINE A == {i \in DOMAIN s : s[i] \in T}
<1>2. A \subseteq 1..Len(s) BY <1>1
<1> HIDE DEF A
<1>3. IsFiniteSet(1..Len(s)) BY <1>1, FS_Interval
<1>4. Cardinality(A) \in Nat BY <1>2, <1>3, FS_Subset, FS_CardinalityType
<1> QED BY <1>4 DEF Times, A

LEMMA TimesAppended ==
  ASSUME NEW S, NEW s \in Seq(S), NEW x \in S, NEW T
  PROVE  /\ Times(s, T) \in Nat
         /\ Times(Append(s, x), T) = Times(s, T) + (IF x \in T THEN 1 ELSE 0)
<1> DEFINE n == Len(s)
           a == Append(s, x)
           A == {i \in DOMAIN s : s[i] \in T}
           B == {i \in DOMAIN a : a[i] \in T}
<1>1. n \in Nat /\ DOMAIN s = 1..n BY LenProperties
<1>2. /\ a \in Seq(S) /\ Len(a) = n + 1 /\ a[n + 1] = x
      /\ \A i \in 1..n : a[i] = s[i]
  BY AppendProperties
<1> HIDE DEF n, a
<1>3. DOMAIN a = 1..(n + 1) BY <1>2, LenProperties
<1>4. A \subseteq 1..n /\ n + 1 \notin A BY <1>1
<1>5. IsFiniteSet(1..n) BY <1>1, FS_Interval
<1>6. IsFiniteSet(A) /\ Cardinality(A) \in Nat BY <1>4, <1>5, FS_Subset, FS_CardinalityType
<1>7. ASSUME NEW i PROVE i \in B <=> i \in A \/ (i = n + 1 /\ x \in T)
  <2>1. i \in DOMAIN a <=> i \in DOMAIN s \/ i = n + 1 BY <1>1, <1>3
  <2>2. n + 1 \notin DOMAIN s BY <1>1
  <2> QED BY <1>1, <1>2, <2>1, <2>2
<1> HIDE DEF A, B
<1>8. Cardinality(B) = Cardinality(A) + (IF x \in T THEN 1 ELSE 0)
  <2>1. CASE x \in T
    <3>1. B = A \cup {n + 1} BY <1>7, <2>1
    <3>2. Cardinality(B) = Cardinality(A) + 1 BY <1>4, <1>6, <3>1, FS_AddElement
    <3> QED BY <2>1, <3>2
  <2>2. CASE x \notin T
    <3>1. B = A BY <1>7, <2>2
    <3> QED BY <1>6, <2>2, <3>1
  <2> QED BY <2>1, <2>2
<1>9. Times(s, T) = Cardinality(A) /\ Times(a, T) = Cardinality(B) BY DEF Times, A, B
<1> QED BY <1>6, <1>8, <1>9 DEF a

LEMMA TimesPopped ==
  ASSUME NEW S, NEW s \in Seq(S), s # <<>>, NEW T
  PROVE  /\ Times(s, T) \in Nat /\ Times(Tail(s), T) \in Nat
         /\ Times(s, T) = Times(Tail(s), T) + (IF Head(s) \in T THEN 1 ELSE 0)
<1> DEFINE n == Len(s)
           t == Tail(s)
           A == {i \in DOMAIN s : s[i] \in T}
           B == {i \in DOMAIN t : t[i] \in T}
           C == {i \in DOMAIN s : s[i] \in T /\ i # 1}
<1>1. n \in Nat \ {0} /\ DOMAIN s = 1..n BY LenProperties, EmptySeq
<1>2. /\ t \in Seq(S) /\ Len(t) = n - 1 /\ Head(s) = s[1]
      /\ \A i \in 1..Len(t) : t[i] = s[i + 1]
  BY HeadTailProperties
<1> HIDE DEF n, t
<1>3. DOMAIN t = 1..(n - 1) BY <1>2, LenProperties
<1>4. IsFiniteSet(1..n) BY <1>1, FS_Interval
<1>5. A \subseteq 1..n /\ B \subseteq 1..n /\ C \subseteq 1..n BY <1>1, <1>3
<1>6. /\ IsFiniteSet(A) /\ IsFiniteSet(B) /\ IsFiniteSet(C)
      /\ Cardinality(A) \in Nat /\ Cardinality(B) \in Nat /\ Cardinality(C) \in Nat
  BY <1>4, <1>5, FS_Subset, FS_CardinalityType
<1>7. Cardinality(C) = Cardinality(B)
  <2> DEFINE f == [i \in B |-> i + 1]
  <2>1. \A i \in B : i + 1 \in C
    BY <1>1, <1>2, <1>3
  <2>2. \A j \in C : j - 1 \in B /\ (j - 1) + 1 = j
    BY <1>1, <1>2, <1>3
  <2>3. \A i \in B : i \in Nat BY <1>5
  <2>4. \A j \in C : j \in Nat BY <1>5
  <2> HIDE DEF B, C
  <2>5. \A i, j \in B : f[i] = f[j] => i = j BY <2>3
  <2>6. f \in [B -> C] BY <2>1
  <2>7. \A j \in C : \E i \in B : f[i] = j BY <2>2, <2>4
  <2>8. f \in Bijection(B, C)
    BY <2>5, <2>6, <2>7 DEF Bijection, Injection, Surjection, IsInjective
  <2>9. ExistsBijection(B, C) BY <2>8 DEF ExistsBijection
  <2> QED BY <1>6, <2>9, FS_Bijection
<1>8. ASSUME NEW i PROVE i \in A <=> i \in C \/ (i = 1 /\ Head(s) \in T)
  BY <1>1, <1>2
<1>9. 1 \notin C OBVIOUS
<1> HIDE DEF A, B, C
<1>10. Cardinality(A) = Cardinality(B) + (IF Head(s) \in T THEN 1 ELSE 0)
  <2>1. CASE Head(s) \in T
    <3>1. A = C \cup {1} BY <1>8, <2>1
    <3>2. Cardinality(A) = Cardinality(C) + 1 BY <1>6, <1>9, <3>1, FS_AddElement
    <3> QED BY <1>7, <2>1, <3>2
  <2>2. CASE Head(s) \notin T
    <3>1. A = C BY <1>8, <2>2
    <3> QED BY <1>6, <1>7, <2>2, <3>1
  <2> QED BY <2>1, <2>2
<1>11. Times(s, T) = Cardinality(A) /\ Times(t, T) = Cardinality(B) BY DEF Times, A, B
<1> QED BY <1>6, <1>10, <1>11 DEF t

LEMMA TimesNone == \A T : Times(<<>>, T) = 0
<1> SUFFICES ASSUME NEW T PROVE Times(<<>>, T) = 0
  OBVIOUS
<1>1. {i \in DOMAIN <<>> : <<>>[i] \in T} = {} OBVIOUS
<1> QED BY <1>1, FS_EmptySet DEF Times

(* How an entry at either end of a sequence changes the counts.              *)
LEMMA QueueTimes ==
  ASSUME TypeOK, NEW T
  PROVE  /\ Times(queue, T) \in Nat
         /\ \A e \in Entries : Times(Append(queue, e), T) =
              Times(queue, T) + (IF e \in T THEN 1 ELSE 0)
         /\ queue # <<>> => /\ Times(Tail(queue), T) \in Nat
                            /\ Times(queue, T) = Times(Tail(queue), T)
                                                 + (IF Head(queue) \in T THEN 1 ELSE 0)
<1>1. queue \in Seq(Entries) BY Queue
<1> HIDE DEF Entries
<1> QED BY <1>1, TimesIs, TimesAppended, TimesPopped

LEMMA ChannelTimes ==
  ASSUME TypeOK, NEW c \in Conns, NEW T
  PROVE  /\ Times(up[c], T) \in Nat
         /\ \A e \in {"stream", "closed"} : Times(Append(up[c], e), T) =
              Times(up[c], T) + (IF e \in T THEN 1 ELSE 0)
         /\ up[c] # <<>> => /\ Times(Tail(up[c]), T) \in Nat
                            /\ Times(up[c], T) = Times(Tail(up[c]), T)
                                                 + (IF Head(up[c]) \in T THEN 1 ELSE 0)
<1> DEFINE U == {"stream", "closed"}
<1>1. up[c] \in Seq(U) BY DEF TypeOK
<1> HIDE DEF U
<1> QED BY <1>1, TimesIs, TimesAppended, TimesPopped DEF U

LEMMA HeardTimes ==
  ASSUME TypeOK, NEW c \in Conns, NEW T
  PROVE  /\ Times(heard[c], T) \in Nat
         /\ \A e \in Kinds : Times(Append(heard[c], e), T) =
              Times(heard[c], T) + (IF e \in T THEN 1 ELSE 0)
<1>1. heard[c] \in Seq(Kinds) BY DEF TypeOK
<1> HIDE DEF Kinds
<1> QED BY <1>1, TimesIs, TimesAppended

OfStream(e) == e.to = "user" /\ e.event = "Stream"

StreamsOf(c) == {e \in Entries : OfStream(e) /\ e.conn = c}

(* The events of c's handler, wherever they are.                             *)
Sounded(c) ==
  Times(heard[c], {"Stream"}) + Times(queue, StreamsOf(c)) + Times(up[c], {"stream"})

LEMMA EventsKept ==
  ASSUME TypeOK, [Next]_vars, UNCHANGED emitted, NEW c \in Conns
  PROVE  Times(heard'[c], {"Stream"}) + Times(queue', StreamsOf(c))
           + Times(up'[c], {"stream"}) = Sounded(c)
<1> HIDE DEF Entries
<1> DEFINE h == Times(heard[c], {"Stream"})
           q == Times(queue, StreamsOf(c))
           u == Times(up[c], {"stream"})
           hh == Times(heard'[c], {"Stream"})
           qq == Times(queue', StreamsOf(c))
           uu == Times(up'[c], {"stream"})
<1>1. h \in Nat /\ q \in Nat /\ u \in Nat BY HeardTimes, QueueTimes, ChannelTimes
<1> SUFFICES hh + qq + uu = h + q + u
  BY DEF Sounded
<1>2. UNCHANGED <<heard, queue, up>> => hh + qq + uu = h + q + u OBVIOUS
<1>3. /\ heard \in [Conns -> Seq(Kinds)] /\ up \in [Conns -> Seq({"stream", "closed"})]
  BY DEF TypeOK
<1>4. ASSUME NEW e \in Entries, e \notin StreamsOf(c), queue' = Append(queue, e)
      PROVE  qq = q
  <2>1. qq = q + 0 BY <1>4, QueueTimes
  <2> QED BY <1>1, <2>1
<1>5. ASSUME NEW p \in Peers, Dispatch(p) PROVE hh + qq + uu = h + q + u
  <2>1. UNCHANGED <<heard, up>> BY <1>5 DEF Dispatch, links
  <2>2. CASE peers[p] = NoConn BY <1>2, <1>5, <2>1, <2>2 DEF Dispatch
  <2>3. CASE peers[p] # NoConn
    <3> DEFINE e == Notify(p, peers[p], Len(issued'))
    <3>1. Len(issued') \in Nat
      <4>1. issued \in Seq(Peers) BY DEF TypeOK
      <4>2. issued' \in Seq(Peers) BY <1>5, <4>1, AppendProperties DEF Dispatch
      <4> QED BY <4>2, LenProperties
    <3>2. e \in Entries BY <2>3, <3>1 DEF Notify, Entries, Notifications, TypeOK
    <3>3. e \notin StreamsOf(c) BY DEF StreamsOf, OfStream, Notify
    <3>4. queue' = Append(queue, e) BY <1>5, <2>3 DEF Dispatch
    <3> HIDE DEF e
    <3>5. qq = q BY <1>4, <3>2, <3>3, <3>4
    <3> QED BY <2>1, <3>5
  <2> QED BY <2>2, <2>3
<1>6. ASSUME NEW d \in Conns, NEW p \in Peers, Established(d, p)
      PROVE  hh + qq + uu = h + q + u
  <2>1. UNCHANGED <<heard, up>> BY <1>6 DEF Established, links
  <2>2. \A k \in DOMAIN queue' : \/ k \in DOMAIN queue /\ queue'[k] = queue[k]
                                 \/ k \notin DOMAIN queue /\ queue'[k] \notin StreamsOf(c)
    <3> SUFFICES ASSUME NEW k \in DOMAIN queue'
                 PROVE  \/ k \in DOMAIN queue /\ queue'[k] = queue[k]
                        \/ k \notin DOMAIN queue /\ queue'[k] \notin StreamsOf(c)
      OBVIOUS
    <3>1. DOMAIN queue = 1..Len(queue) /\ Len(queue) \in Nat BY Queue
    <3>2. /\ Generate(p, d, "ConnectionEstablished") \notin StreamsOf(c)
          /\ \A n : Notify(p, d, n) \notin StreamsOf(c)
      BY DEF StreamsOf, OfStream, Generate, Notify
    <3>3. Len(pending[p]) \in Nat /\ DOMAIN pending[p] = 1..Len(pending[p])
      <4>1. pending[p] \in Seq(Nat) BY DEF TypeOK
      <4> QED BY <4>1, LenProperties
    <3>4. \/ k \in DOMAIN queue /\ queue'[k] = queue[k]
          \/ k = Len(queue) + 1 /\ queue'[k] = Generate(p, d, "ConnectionEstablished")
          \/ \E i \in DOMAIN pending[p] :
               k = Len(queue) + 1 + i /\ queue'[k] = Notify(p, d, pending[p][i])
      BY <1>6, EstablishedEntry
    <3>5. k \in DOMAIN queue => queue'[k] = queue[k]
      BY <3>1, <3>3, <3>4
    <3>6. k \notin DOMAIN queue => queue'[k] \notin StreamsOf(c)
      BY <3>2, <3>4
    <3> QED BY <3>5, <3>6
  <2>3. DOMAIN queue \subseteq DOMAIN queue'
    <3>1. queue' \in Seq(Entries) /\ Len(queue') = Len(queue) + 1 + Len(pending[p])
      BY <1>6, EstablishedQueue
    <3>2. DOMAIN queue' = 1..Len(queue') BY <3>1, LenProperties
    <3>3. Len(queue) \in Nat /\ DOMAIN queue = 1..Len(queue) BY Queue
    <3>4. pending[p] \in Seq(Nat) BY DEF TypeOK
    <3>5. Len(pending[p]) \in Nat BY <3>4, LenProperties
    <3> DEFINE m == Len(queue)
               b == Len(pending[p])
               l == Len(queue')
    <3>6. m \in Nat /\ b \in Nat /\ l = m + 1 + b BY <3>1, <3>3, <3>5
    <3> HIDE DEF m, b, l
    <3>7. 1..m \subseteq 1..l BY <3>6
    <3> QED BY <3>2, <3>3, <3>7 DEF m, l
  <2>4. {k \in DOMAIN queue' : queue'[k] \in StreamsOf(c)}
          = {k \in DOMAIN queue : queue[k] \in StreamsOf(c)}
    BY <2>2, <2>3
  <2>5. qq = q BY <2>4 DEF Times
  <2> QED BY <2>1, <2>5
<1>7. CASE PollNotify
  <2>1. /\ queue # <<>> /\ queue' = Tail(queue) /\ Head(queue).to = "handler"
        /\ UNCHANGED <<heard, up>>
    BY <1>7 DEF PollNotify, Popped
  <2>2. Head(queue) \notin StreamsOf(c) BY <2>1 DEF StreamsOf, OfStream
  <2>3. qq \in Nat /\ q = qq + 0 BY <2>1, <2>2, QueueTimes
  <2> QED BY <1>1, <2>1, <2>3
<1>8. CASE PollEvent
  <2> DEFINE e == Head(queue)
  <2>1. /\ queue # <<>> /\ queue' = Tail(queue) /\ e.to = "user" /\ UNCHANGED up
        /\ heard' = [heard EXCEPT ![e.conn] = Append(@, e.event)]
    BY <1>8 DEF PollEvent, Popped, links
  <2>2. qq \in Nat /\ q = qq + (IF e \in StreamsOf(c) THEN 1 ELSE 0)
    BY <2>1, QueueTimes
  <2>3. e \in Entries BY <2>1, Queue, EmptySeq, QueuePopped
  <2> HIDE DEF e
  <2>4. e.conn \in Conns /\ e.event \in Kinds
    BY <2>1, <2>3 DEF Entries, Notifications, Happenings
  <2>5. e \in StreamsOf(c) <=> e.event = "Stream" /\ e.conn = c
    BY <2>1, <2>3 DEF StreamsOf, OfStream
  <2>6. hh = h + (IF e \in StreamsOf(c) THEN 1 ELSE 0)
    <3>1. CASE e.conn = c
      <4>1. heard'[c] = Append(heard[c], e.event) BY <1>3, <2>1, <3>1
      <4>2. Times(Append(heard[c], e.event), {"Stream"}) =
              h + (IF e.event = "Stream" THEN 1 ELSE 0)
        BY <2>4, HeardTimes
      <4> QED BY <2>5, <3>1, <4>1, <4>2
    <3>2. CASE e.conn # c
      <4>1. heard'[c] = heard[c] BY <1>3, <2>1, <3>2
      <4> QED BY <1>1, <2>5, <3>2, <4>1
    <3> QED BY <3>1, <3>2
  <2>7. uu = u BY <2>1
  <2> HIDE DEF h, q, u, hh, qq, uu
  <2> QED BY <1>1, <2>2, <2>6, <2>7
<1>9. ASSUME NEW d \in Conns, Closed(d) \/ HandlerEvent(d)
      PROVE  hh + qq + uu = h + q + u
  <2>1. PICK event \in {"ConnectionClosed", "Stream"} :
          /\ queue' = Append(queue, Generate(pool[d], d, event))
          /\ event = "Stream" => Head(up[d]) = "stream"
          /\ event = "ConnectionClosed" => Head(up[d]) = "closed"
          /\ up[d] # <<>> /\ up' = [up EXCEPT ![d] = Tail(@)] /\ UNCHANGED heard
          /\ d \in DOMAIN pool
    BY <1>9 DEF Closed, HandlerEvent, Known
  <2> DEFINE e == Generate(pool[d], d, event)
  <2>2. e.to = "user" /\ e.conn = d /\ e.event = event BY DEF Generate
  <2>3. e \in Entries
    <3>1. pool[d] \in Peers BY <2>1 DEF TypeOK
    <3> QED BY <3>1 DEF Generate, Entries, Happenings, Kinds
  <2> HIDE DEF e
  <2>4. e \in StreamsOf(c) <=> event = "Stream" /\ d = c
    BY <2>2, <2>3 DEF StreamsOf, OfStream
  <2>5. qq = q + (IF e \in StreamsOf(c) THEN 1 ELSE 0) BY <2>1, <2>3, QueueTimes DEF e
  <2>6. uu \in Nat /\ u = uu + (IF event = "Stream" /\ d = c THEN 1 ELSE 0)
    <3>1. CASE d = c
      <4>1. up'[c] = Tail(up[c]) BY <1>3, <2>1, <3>1
      <4>2. Head(up[c]) \in {"stream"} <=> event = "Stream" BY <2>1, <3>1
      <4> QED BY <2>1, <3>1, <4>1, <4>2, ChannelTimes
    <3>2. CASE d # c
      <4>1. up'[c] = up[c] BY <1>3, <2>1, <3>2
      <4> QED BY <1>1, <3>2, <4>1
    <3> QED BY <3>1, <3>2
  <2>7. hh = h BY <2>1
  <2> HIDE DEF h, q, u, hh, qq, uu
  <2> QED BY <1>1, <2>4, <2>5, <2>6, <2>7
<1>10. ASSUME NEW d \in Conns, Take(d) PROVE hh + qq + uu = h + q + u
  BY <1>2, <1>10 DEF Take, own
<1>11. ASSUME NEW d \in Conns, Emit(d) PROVE FALSE
  BY <1>11 DEF Emit, TypeOK
<1>12. ASSUME NEW d \in Conns, End(d) PROVE hh + qq + uu = h + q + u
  <2>1. UNCHANGED <<heard, queue>> /\ up' = [up EXCEPT ![d] = Append(@, "closed")]
    BY <1>12 DEF End, own
  <2>2. uu = u
    <3>1. CASE d = c
      <4>1. up'[c] = Append(up[c], "closed") BY <1>3, <2>1, <3>1
      <4>2. Times(Append(up[c], "closed"), {"stream"}) = u + 0 BY ChannelTimes
      <4> QED BY <1>1, <4>1, <4>2
    <3>2. CASE d # c BY <1>3, <2>1, <3>2
    <3> QED BY <3>1, <3>2
  <2> QED BY <2>1, <2>2
<1>13. CASE UNCHANGED vars BY <1>2, <1>13 DEF vars, own, links
<1> QED
  BY <1>5, <1>6, <1>7, <1>8, <1>9, <1>10, <1>11, <1>12, <1>13 DEF Next, Swarm

(* An event is counted once it is emitted, and neither lost nor repeated     *)
(* (behaviour.rs:206-219, 221-229).                                          *)
LEMMA EventCounted ==
  ASSUME TypeOK, NEW c \in Conns, Emit(c), NEW d \in Conns
  PROVE  Times(heard'[d], {"Stream"}) + Times(queue', StreamsOf(d))
           + Times(up'[d], {"stream"}) = Sounded(d) + (IF d = c THEN 1 ELSE 0)
<1>1. UNCHANGED <<heard, queue>> /\ up' = [up EXCEPT ![c] = Append(@, "stream")]
  BY DEF Emit, own
<1>2. up \in [Conns -> Seq({"stream", "closed"})] BY DEF TypeOK
<1> DEFINE h == Times(heard[d], {"Stream"})
           q == Times(queue, StreamsOf(d))
           u == Times(up[d], {"stream"})
           uu == Times(up'[d], {"stream"})
<1>3. h \in Nat /\ q \in Nat /\ u \in Nat BY HeardTimes, QueueTimes, ChannelTimes
<1>4. uu = u + (IF d = c THEN 1 ELSE 0)
  <2>1. CASE d = c
    <3>1. up'[d] = Append(up[d], "stream") BY <1>1, <1>2, <2>1
    <3>2. Times(Append(up[d], "stream"), {"stream"}) = u + 1 BY ChannelTimes
    <3> QED BY <2>1, <3>1, <3>2
  <2>2. CASE d # c
    <3>1. up'[d] = up[d] BY <1>1, <1>2, <2>2
    <3> QED BY <1>3, <2>2, <3>1
  <2> QED BY <2>1, <2>2
<1>5. heard'[d] = heard[d] /\ queue' = queue BY <1>1
<1>6. Sounded(d) = h + q + u BY DEF Sounded
<1>7. Times(heard'[d], {"Stream"}) = h /\ Times(queue', StreamsOf(d)) = q BY <1>5
<1> HIDE DEF h, q, u, uu
<1> QED BY <1>3, <1>4, <1>6, <1>7 DEF uu

(* An event that is heard was counted.                                       *)
LEMMA EventHeard ==
  ASSUME TypeOK, PollEvent
  PROVE  \E c \in Conns :
           /\ c = Head(queue).conn
           /\ \A d \in Conns : d # c => heard'[d] = heard[d]
           /\ Times(heard[c], {"Stream"}) \in Nat
           /\ Times(heard'[c], {"Stream"}) =
                Times(heard[c], {"Stream"}) + (IF Head(queue).event = "Stream" THEN 1 ELSE 0)
           /\ Head(queue).event = "Stream" =>
                Times(heard[c], {"Stream"}) + 1 <= Sounded(c)
<1> HIDE DEF Entries
<1> DEFINE e == Head(queue)
<1>1. /\ queue # <<>> /\ e.to = "user"
      /\ heard' = [heard EXCEPT ![e.conn] = Append(@, e.event)]
  BY DEF PollEvent, Popped
<1>2. e \in Entries BY <1>1, Queue, EmptySeq, QueuePopped
<1>3. e.conn \in Conns /\ e.event \in Kinds
  BY <1>1, <1>2 DEF Entries, Notifications, Happenings
<1>4. PICK c \in Conns : c = e.conn BY <1>3
<1>5. heard \in [Conns -> Seq(Kinds)] BY DEF TypeOK
<1>6. heard'[c] = Append(heard[c], e.event) /\ \A d \in Conns : d # c => heard'[d] = heard[d]
  BY <1>1, <1>4, <1>5
<1>7. /\ Times(heard[c], {"Stream"}) \in Nat
      /\ Times(heard'[c], {"Stream"}) =
           Times(heard[c], {"Stream"}) + (IF e.event = "Stream" THEN 1 ELSE 0)
  <2>1. /\ Times(heard[c], {"Stream"}) \in Nat
        /\ Times(Append(heard[c], e.event), {"Stream"}) =
             Times(heard[c], {"Stream"}) + (IF e.event = "Stream" THEN 1 ELSE 0)
    BY <1>3, HeardTimes
  <2> QED BY <1>6, <2>1
<1>8. ASSUME e.event = "Stream" PROVE Times(heard[c], {"Stream"}) + 1 <= Sounded(c)
  <2> DEFINE h == Times(heard[c], {"Stream"})
             q == Times(queue, StreamsOf(c))
             u == Times(up[c], {"stream"})
             t == Times(Tail(queue), StreamsOf(c))
  <2>1. e \in StreamsOf(c) BY <1>1, <1>2, <1>4, <1>8 DEF StreamsOf, OfStream
  <2>2. t \in Nat /\ q = t + 1 BY <1>1, <2>1, QueueTimes
  <2>3. u \in Nat BY ChannelTimes
  <2>4. Sounded(c) = h + q + u /\ h \in Nat BY <1>7 DEF Sounded
  <2> HIDE DEF h, q, u, t
  <2>5. h + 1 <= Sounded(c) BY <2>2, <2>3, <2>4
  <2> QED BY <2>5 DEF h
<1> QED BY <1>4, <1>6, <1>7, <1>8

-----------------------------------------------------------------------------
(* The peer of a command.                                                    *)

Goes(n, c) == n \in DOMAIN issued /\ (Known(c) => issued[n] = pool[c])

(* A command is given to a connection of the peer it was issued for.         *)
Destined ==
  /\ \A p \in Peers : \A n \in Waits(p) : n \in DOMAIN issued /\ issued[n] = p
  /\ \A c \in Conns : \A n \in SentTo(c) : Goes(n, c)

LEMMA SentNow ==
  ASSUME NEW c \in Conns, NEW n \in SentTo(c)'
  PROVE  \/ n \in ToSet(taken'[c]) \cup ToSet(inbox'[c])
         \/ \E k \in DOMAIN queue' :
              queue'[k].to = "handler" /\ queue'[k].conn = c /\ queue'[k].cmd = n
BY DEF SentTo, CommandFor

(* A step that gives no command to anyone.                                   *)
LEMMA DestinedStays ==
  ASSUME Destined, issued' = issued,
         \A c \in DOMAIN pool' : c \in DOMAIN pool /\ pool'[c] = pool[c],
         \A p \in Peers : Waits(p)' \subseteq Waits(p),
         \A c \in Conns : SentTo(c)' \subseteq SentTo(c)
  PROVE  Destined'
<1>1. \A n, c : Goes(n, c) => Goes(n, c)' BY DEF Goes, Known
<1>2. \A p \in Peers : \A n \in Waits(p)' : n \in DOMAIN issued' /\ issued'[n] = p
  BY DEF Destined
<1>3. \A c \in Conns : \A n \in SentTo(c)' : Goes(n, c)' BY <1>1 DEF Destined
<1> QED BY <1>2, <1>3 DEF Destined

LEMMA DispatchDestined ==
  ASSUME Ground, Destined, NEW p \in Peers, Dispatch(p)
  PROVE  Destined'
<1> USE DEF Ground
<1> PICK n : n = Len(issued) + 1 OBVIOUS
<1>1. /\ issued \in Seq(Peers) /\ issued' = Append(issued, p)
      /\ UNCHANGED <<taken, inbox, pool, peers>>
  BY DEF Dispatch, TypeOK, links
<1>2. /\ DOMAIN issued = 1..(n - 1) /\ DOMAIN issued' = 1..n /\ n \in Nat \ {0}
      /\ issued'[n] = p /\ Len(issued') = n
      /\ \A m \in DOMAIN issued : issued'[m] = issued[m]
  <2>1. Len(issued) \in Nat /\ DOMAIN issued = 1..Len(issued) BY <1>1, LenProperties
  <2>2. /\ issued' \in Seq(Peers) /\ Len(issued') = Len(issued) + 1
        /\ issued'[n] = p /\ \A m \in 1..Len(issued) : issued'[m] = issued[m]
    BY <1>1, AppendProperties
  <2>3. DOMAIN issued' = 1..n BY <2>2, LenProperties
  <2> QED BY <2>1, <2>2, <2>3
<1>3. \A m, c : Goes(m, c) => Goes(m, c)' BY <1>1, <1>2 DEF Goes, Known
<1>4. \A c \in Conns : \A m \in SentTo(c) : Goes(m, c)' BY <1>3 DEF Destined
<1>5. \A q \in Peers : \A m \in Waits(q) : m \in DOMAIN issued' /\ issued'[m] = q
  BY <1>2 DEF Destined
<1>6. CASE peers[p] # NoConn
  <2>0. peers[p] \in Conns BY <1>6 DEF TypeOK
  <2> PICK d \in Conns : d = peers[p] BY <2>0
  <2> DEFINE e == Notify(p, d, n)
  <2>1. queue' = Append(queue, e) /\ UNCHANGED pending BY <1>2, <1>6 DEF Dispatch
  <2>2. Known(d) /\ pool[d] = p BY <1>6 DEF PeersAreConnected
  <2>3. e \in Entries /\ e.cmd = n /\ e.conn = d
    BY <1>2, <2>2 DEF Notify, Entries, Notifications
  <2> HIDE DEF e
  <2>4. /\ DOMAIN queue' = 1..(Len(queue) + 1) /\ queue'[Len(queue) + 1] = e
        /\ \A k \in 1..Len(queue) : queue'[k] = queue[k]
    BY <2>1, <2>3, QueueAppended
  <2>5. DOMAIN queue = 1..Len(queue) /\ Len(queue) \in Nat BY Queue
  <2>6. Goes(n, d)' BY <1>1, <1>2, <2>2 DEF Goes, Known
  <2>7. ASSUME NEW c \in Conns, NEW m \in SentTo(c)' PROVE Goes(m, c)'
    <3>1. CASE m \in ToSet(taken'[c]) \cup ToSet(inbox'[c])
      BY <1>1, <1>4, <3>1, Sent
    <3>2. ASSUME NEW k \in DOMAIN queue', queue'[k].to = "handler", queue'[k].conn = c,
                 queue'[k].cmd = m
          PROVE  Goes(m, c)'
      <4>1. CASE k = Len(queue) + 1
        <5>1. queue'[k] = e BY <2>4, <4>1
        <5>2. m = n /\ c = d BY <2>3, <3>2, <5>1
        <5> QED BY <2>6, <5>2
      <4>2. CASE k \in DOMAIN queue
        <5>1. queue'[k] = queue[k] BY <2>4, <2>5, <4>2
        <5>2. m \in SentTo(c) BY <3>2, <4>2, <5>1, Sent DEF CommandFor
        <5> QED BY <1>4, <5>2
      <4> QED BY <2>4, <2>5, <4>1, <4>2
    <3> QED BY <3>1, <3>2, SentNow
  <2>8. \A q \in Peers : Waits(q)' = Waits(q) BY <2>1 DEF Waits
  <2> QED BY <1>5, <2>7, <2>8 DEF Destined
<1>7. CASE peers[p] = NoConn
  <2>1. pending' = [pending EXCEPT ![p] = Append(pending[p], n)] /\ UNCHANGED queue
    BY <1>2, <1>7 DEF Dispatch
  <2>2. ToSet(Append(pending[p], n)) = ToSet(pending[p]) \cup {n}
    BY <1>2, AppendedNumbers DEF TypeOK
  <2>3. \A q \in Peers : Waits(q)' = IF q = p THEN Waits(q) \cup {n} ELSE Waits(q)
    BY <2>1, <2>2 DEF Waits, TypeOK
  <2>4. \A q \in Peers : \A m \in Waits(q)' : m \in DOMAIN issued' /\ issued'[m] = q
    BY <1>2, <1>5, <2>3
  <2>5. \A c \in Conns : SentTo(c)' = SentTo(c) BY <1>1, <2>1 DEF SentTo, CommandFor
  <2> QED BY <1>4, <2>4, <2>5 DEF Destined
<1> QED BY <1>6, <1>7

LEMMA EstablishedDestined ==
  ASSUME Ground, Destined, NEW c \in Conns, NEW p \in Peers, Established(c, p)
  PROVE  Destined'
<1> USE DEF Ground
<1>1. UNCHANGED <<taken, inbox, issued>> /\ pending' = [pending EXCEPT ![p] = <<>>]
  BY DEF Established, links, Flush
<1>2. /\ ~Known(c) /\ c \notin ended /\ pool'[c] = p
      /\ \A d : d # c => (Known(d)' <=> Known(d)) /\ (Known(d) => pool'[d] = pool[d])
  BY DEF Established, Known
<1>3. \A q \in Peers : Waits(q)' \subseteq Waits(q)
  <2>1. ToSet(<<>>) = {} BY DEF ToSet
  <2> QED BY <1>1, <2>1 DEF Waits, TypeOK
<1>4. \A m, d : Goes(m, d) /\ d # c => Goes(m, d)' BY <1>1, <1>2 DEF Goes
<1>5. ToSet(taken[c]) = {} /\ ToSet(inbox[c]) = {} BY <1>2 DEF Unused, ToSet
<1>6. ASSUME NEW d \in Conns, NEW m \in SentTo(d)' PROVE Goes(m, d)'
  <2>1. CASE m \in ToSet(taken'[d]) \cup ToSet(inbox'[d])
    BY <1>1, <1>4, <1>5, <2>1, Sent DEF Destined
  <2>2. ASSUME NEW k \in DOMAIN queue', queue'[k].to = "handler", queue'[k].conn = d,
               queue'[k].cmd = m
        PROVE  Goes(m, d)'
    <3>1. CASE k \in DOMAIN queue /\ queue'[k] = queue[k]
      <4>1. d # c BY <1>2, <2>2, <3>1 DEF Unused
      <4>2. m \in SentTo(d) BY <2>2, <3>1, Sent DEF CommandFor
      <4> QED BY <1>4, <4>1, <4>2 DEF Destined
    <3>2. CASE queue'[k] = Generate(p, c, "ConnectionEstablished")
      BY <2>2, <3>2 DEF Generate
    <3>3. ASSUME NEW i \in DOMAIN pending[p], queue'[k] = Notify(p, c, pending[p][i])
          PROVE  Goes(m, d)'
      <4>1. d = c /\ m = pending[p][i] BY <2>2, <3>3 DEF Notify
      <4>2. m \in Waits(p) BY <4>1 DEF Waits, ToSet
      <4> QED BY <1>1, <1>2, <4>1, <4>2 DEF Destined, Goes
    <3> QED BY <3>1, <3>2, <3>3, EstablishedEntry
  <2> QED BY <2>1, <2>2, SentNow
<1>7. \A q \in Peers : \A n \in Waits(q)' : n \in DOMAIN issued' /\ issued'[n] = q
  BY <1>1, <1>3 DEF Destined
<1> QED BY <1>6, <1>7 DEF Destined

LEMMA PollDestined ==
  ASSUME Ground, Destined, PollNotify \/ PollEvent
  PROVE  Destined'
<1> USE DEF Ground
<1>1. queue # <<>> /\ queue' = Tail(queue) /\ UNCHANGED <<pending, taken, issued, pool>>
  BY DEF PollNotify, PollEvent, Popped, links
<1>2. DOMAIN queue = 1..Len(queue) /\ Len(queue) \in Nat BY Queue
<1>3. /\ DOMAIN queue' = 1..(Len(queue) - 1) /\ 1 \in DOMAIN queue
      /\ \A k \in 1..(Len(queue) - 1) : queue'[k] = queue[k + 1]
      /\ Head(queue) = queue[1]
  BY <1>1, QueuePopped
<1>4. ASSUME NEW c \in Conns, NEW n \in ToSet(inbox'[c]) PROVE n \in SentTo(c)
  <2>1. CASE n \in ToSet(inbox[c]) BY <2>1, Sent
  <2>2. CASE inbox' # inbox
    <3> DEFINE e == Head(queue)
    <3>1. inbox' = [inbox EXCEPT ![e.conn] = Append(@, e.cmd)] /\ e.to = "handler"
      BY <2>2 DEF PollNotify, PollEvent, Popped, links
    <3>2. e.conn \in Conns /\ e.cmd \in Nat BY <1>3, <3>1, Queue
    <3>3. inbox[e.conn] \in Seq(Nat) BY <3>2 DEF TypeOK
    <3>4. ToSet(Append(inbox[e.conn], e.cmd)) = ToSet(inbox[e.conn]) \cup {e.cmd}
      BY <3>2, <3>3, AppendedNumbers
    <3>5. e.cmd \in SentTo(e.conn) BY <1>3, <3>1, <3>2, Sent DEF CommandFor
    <3> HIDE DEF e
    <3>6. inbox'[c] = IF c = e.conn THEN Append(inbox[c], e.cmd) ELSE inbox[c]
      BY <3>1 DEF TypeOK
    <3> QED BY <3>4, <3>5, <3>6, Sent
  <2> QED BY <2>1, <2>2
<1>5. ASSUME NEW c \in Conns, NEW n \in SentTo(c)' PROVE n \in SentTo(c)
  <2>1. CASE n \in ToSet(taken'[c]) \cup ToSet(inbox'[c]) BY <1>1, <1>4, <2>1, Sent
  <2>2. ASSUME NEW k \in DOMAIN queue', queue'[k].to = "handler", queue'[k].conn = c,
               queue'[k].cmd = n
        PROVE  n \in SentTo(c)
    <3>1. k + 1 \in DOMAIN queue /\ queue'[k] = queue[k + 1] BY <1>2, <1>3
    <3> QED BY <2>2, <3>1, Sent DEF CommandFor
  <2> QED BY <2>1, <2>2, SentNow
<1>6. \A p \in Peers : Waits(p)' = Waits(p) BY <1>1 DEF Waits
<1> QED BY <1>1, <1>5, <1>6, DestinedStays

LEMMA EventDestined ==
  ASSUME Ground, Destined, NEW d \in Conns, Closed(d) \/ HandlerEvent(d)
  PROVE  Destined'
<1> USE DEF Ground
<1>1. PICK e \in Entries : queue' = Append(queue, e) /\ e.to = "user"
  <2>1. pool[d] \in Peers BY DEF Closed, HandlerEvent, Known, TypeOK
  <2>2. Generate(pool[d], d, "ConnectionClosed") \in Entries
        /\ Generate(pool[d], d, "Stream") \in Entries
    BY <2>1 DEF Generate, Entries, Happenings, Kinds
  <2>3. \A k : Generate(pool[d], d, k).to = "user" BY DEF Generate
  <2> QED BY <2>2, <2>3 DEF Closed, HandlerEvent
<1>2. UNCHANGED <<pending, inbox, taken, issued>> BY DEF Closed, HandlerEvent
<1>3. \A c \in DOMAIN pool' : c \in DOMAIN pool /\ pool'[c] = pool[c]
  BY DEF Closed, HandlerEvent
<1>4. /\ DOMAIN queue' = 1..(Len(queue) + 1) /\ queue'[Len(queue) + 1] = e
      /\ \A k \in 1..Len(queue) : queue'[k] = queue[k]
  BY <1>1, QueueAppended
<1>5. DOMAIN queue = 1..Len(queue) /\ Len(queue) \in Nat BY Queue
<1>6. ASSUME NEW c \in Conns, NEW n \in SentTo(c)' PROVE n \in SentTo(c)
  <2>1. CASE n \in ToSet(taken'[c]) \cup ToSet(inbox'[c]) BY <1>2, <2>1, Sent
  <2>2. ASSUME NEW k \in DOMAIN queue', queue'[k].to = "handler", queue'[k].conn = c,
               queue'[k].cmd = n
        PROVE  n \in SentTo(c)
    <3>1. k # Len(queue) + 1 BY <1>1, <1>4, <2>2
    <3>2. k \in DOMAIN queue /\ queue'[k] = queue[k] BY <1>4, <1>5, <3>1
    <3> QED BY <2>2, <3>2, Sent DEF CommandFor
  <2> QED BY <2>1, <2>2, SentNow
<1>7. \A p \in Peers : Waits(p)' = Waits(p) BY <1>2 DEF Waits
<1> QED BY <1>2, <1>3, <1>6, <1>7, DestinedStays

LEMMA TaskDestined ==
  ASSUME Ground, Destined, NEW d \in Conns, Take(d) \/ Emit(d) \/ End(d)
  PROVE  Destined'
<1> USE DEF Ground
<1>1. UNCHANGED <<queue, pending, issued, pool>> BY DEF Take, Emit, End, own
<1>2. ASSUME NEW c \in Conns
      PROVE  ToSet(taken'[c]) \cup ToSet(inbox'[c]) \subseteq ToSet(taken[c]) \cup ToSet(inbox[c])
  <2>1. CASE Take(d)
    <3> DEFINE n == Head(inbox[d])
               rest == Tail(inbox[d])
    <3>1. /\ taken' = [taken EXCEPT ![d] = Append(taken[d], n)]
          /\ inbox' = [inbox EXCEPT ![d] = rest] /\ inbox[d] # <<>>
      BY <2>1 DEF Take
    <3>2. inbox[d] \in Seq(Nat) /\ taken[d] \in Seq(Nat) BY DEF TypeOK
    <3>3. n \in Nat BY <3>1, <3>2, HeadTailProperties
    <3>4. ToSet(inbox[d]) = {n} \cup ToSet(rest) BY <3>1, <3>2, HeadAndRest
    <3>5. ToSet(Append(taken[d], n)) = ToSet(taken[d]) \cup {n}
      BY <3>2, <3>3, AppendedNumbers
    <3>6. /\ taken'[c] = IF c = d THEN Append(taken[d], n) ELSE taken[c]
          /\ inbox'[c] = IF c = d THEN rest ELSE inbox[c]
      BY <3>1 DEF TypeOK
    <3> HIDE DEF n, rest
    <3> QED BY <3>4, <3>5, <3>6
  <2>2. CASE Emit(d)
    <3>1. UNCHANGED <<taken, inbox>> BY <2>2 DEF Emit
    <3> QED BY <3>1
  <2>3. CASE End(d)
    <3>1. taken' = taken /\ inbox'[c] = IF c = d THEN <<>> ELSE inbox[c]
      BY <2>3 DEF End, TypeOK
    <3>2. ToSet(<<>>) = {} BY DEF ToSet
    <3> QED BY <3>1, <3>2
  <2> QED BY <2>1, <2>2, <2>3
<1>3. ASSUME NEW c \in Conns, NEW n \in SentTo(c)' PROVE n \in SentTo(c)
  <2>1. CASE n \in ToSet(taken'[c]) \cup ToSet(inbox'[c]) BY <1>2, <2>1, Sent
  <2>2. ASSUME NEW k \in DOMAIN queue', queue'[k].to = "handler", queue'[k].conn = c,
               queue'[k].cmd = n
        PROVE  n \in SentTo(c)
    BY <1>1, <2>2, Sent DEF CommandFor
  <2> QED BY <2>1, <2>2, SentNow
<1>4. \A p \in Peers : Waits(p)' = Waits(p) BY <1>1 DEF Waits
<1> QED BY <1>1, <1>3, <1>4, DestinedStays

LEMMA InitDestined == Init => Destined
BY DEF Init, Destined, Waits, SentTo, CommandFor, ToSet

LEMMA NextDestined == Ground /\ Destined /\ [Next]_vars => Destined'
<1> SUFFICES ASSUME Ground, Destined, [Next]_vars PROVE Destined'
  OBVIOUS
<1>1. CASE UNCHANGED vars
  <2>1. UNCHANGED <<queue, pending, inbox, taken, issued, pool>> BY <1>1 DEF vars, own, links
  <2> QED BY <2>1, DestinedStays DEF Waits, SentTo, CommandFor
<1> QED BY <1>1, DispatchDestined, EstablishedDestined, PollDestined, EventDestined,
           TaskDestined DEF Next, Swarm

(* A command that is not dropped goes to a connection of the peer it was     *)
(* issued for, whichever connections come and go while it waits              *)
(* (behaviour.rs:80-96, 179-187, 195-197).                                   *)
THEOREM ToTheirPeers == Spec => []Destined
BY InitGround, NextGround, InitDestined, NextDestined, PTL DEF Spec

(* What the modules on top of this one build upon.                           *)
Footing == Ground /\ ConnectionOrder /\ Placed /\ Destined

LEMMA Founded == Spec => []Footing
<1>1. Ordered => ConnectionOrder BY DEF Ordered
<1>2. Ground /\ ConnectionOrder /\ Placed /\ Destined => Footing BY DEF Footing
<1> QED BY <1>1, <1>2, InitGround, NextGround, NextOrdered, InitPlaced, NextPlaced,
           InitDestined, NextDestined, PTL DEF Spec

(* The command a connection takes next was taken by none.                    *)
LEMMA NextTaken ==
  ASSUME Footing, NEW c \in Conns, Take(c)
  PROVE  LET n == Head(inbox[c])
         IN  /\ n \in DOMAIN issued /\ n \in Nat /\ n \in ToSet(inbox[c])
             /\ \A m \in ToSet(taken[c]) : m \in Nat /\ m < n
             /\ \A d \in Conns : n \notin ToSet(taken[d])
             /\ Known(c) /\ issued[n] = pool[c]
             /\ \A d \in Conns :
                  ToSet(taken'[d]) = ToSet(taken[d]) \cup (IF d = c THEN {n} ELSE {})
<1> USE DEF Footing, Ground
<1> DEFINE n == Head(inbox[c])
<1>1. inbox[c] # <<>> /\ Known(c) /\ taken' = [taken EXCEPT ![c] = Append(@, n)]
  BY DEF Take, Running
<1>2. inbox[c] \in Seq(Nat) /\ taken[c] \in Seq(Nat) /\ taken \in [Conns -> Seq(Nat)]
  BY DEF TypeOK
<1>3. n \in Nat /\ n \in ToSet(inbox[c])
  BY <1>1, <1>2, HeadTailProperties, HeadAndRest
<1>4. ToSet(Append(taken[c], n)) = ToSet(taken[c]) \cup {n}
  BY <1>2, <1>3, AppendedNumbers
<1> HIDE DEF n
<1>5. n \in SentTo(c) BY <1>3, Sent
<1>6. Goes(n, c) BY <1>5 DEF Destined
<1>7. \A m \in ToSet(taken[c]) : m \in Nat /\ m < n
  BY <1>3, Numbers DEF ConnectionOrder
<1>8. n \in Commands
  <2>1. DOMAIN issued = 1..Len(issued) BY LenProperties DEF TypeOK
  <2> QED BY <1>6, <2>1 DEF Goes, Commands
<1>9. ASSUME NEW d \in Conns, n \in ToSet(taken[d]) PROVE FALSE
  <2>1. n \in SentTo(d) BY <1>9, Sent
  <2>2. d = c BY <1>5, <1>8, <2>1 DEF Placed, Alone
  <2> QED BY <1>3, <1>7, <1>9, <2>2
<1>10. \A d \in Conns : taken'[d] = IF d = c THEN Append(taken[c], n) ELSE taken[d]
  BY <1>1, <1>2
<1>11. \A d \in Conns :
         ToSet(taken'[d]) = ToSet(taken[d]) \cup (IF d = c THEN {n} ELSE {})
  BY <1>4, <1>10
<1>12. n \in DOMAIN issued /\ issued[n] = pool[c] BY <1>1, <1>6 DEF Goes
<1> QED BY <1>1, <1>3, <1>7, <1>9, <1>11, <1>12 DEF n

(* No command is taken by two connections.                                   *)
LEMMA TakenOnce ==
  ASSUME Footing, NEW c \in Conns, NEW d \in Conns, NEW n \in ToSet(taken[c]),
         n \in ToSet(taken[d])
  PROVE  c = d
<1> USE DEF Footing, Ground
<1>1. n \in SentTo(c) /\ n \in SentTo(d) BY Sent
<1>2. n \in Commands
  <2>1. DOMAIN issued = 1..Len(issued) BY LenProperties DEF TypeOK
  <2> QED BY <1>1, <2>1 DEF Destined, Goes, Commands
<1> QED BY <1>1, <1>2 DEF Placed, Alone
=============================================================================
