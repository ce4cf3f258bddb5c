------------------------------ MODULE RpcServer ------------------------------
(* The loop of `replay::run` (replay.rs) on top of RpcBehaviour: it reads    *)
(* the events of the swarm and answers the queries of remotes, as does the   *)
(* loop of `Empty` (main.rs), which answers fewer of them.  The answer is    *)
(* addressed to a peer, not to a connection.  The events and commands that   *)
(* RpcBehaviour counts get their contents here, as in RpcClient.  A remote   *)
(* opens streams, sends queries, whose identifiers it counts from 1 on each  *)
(* stream, and ends streams.                                                 *)
EXTENDS Integers, Sequences, FiniteSets, SequencesExt

CONSTANTS
  Peers, Conns, NoConn, InboxSize, MaxCommands, MaxEvents,  \* of RpcBehaviour
  MaxStreams   \* streams a remote opens on a connection          (bound)

ASSUME RpcServerAssumption ==
  /\ Conns \cup Peers \subseteq Nat \ {0} /\ NoConn \notin Conns
  /\ InboxSize \in Nat \ {0} /\ MaxStreams \in Nat
  /\ MaxCommands \in Nat /\ MaxEvents \in Nat /\ MaxCommands >= MaxEvents

VARIABLES
  peers, queue, pending, pool, inbox, up, ended, taken, dropped, heard,
  issued, emitted, revived,                                 \* of RpcBehaviour
  guests,   \* `peers` of replay::run
  hand,     \* the event swarm.next() returned, until its arm is executed
  said,     \* contents of the commands, with the query each answers
  told,     \* contents of the events of each handler
  opened,   \* number of streams the remote of a connection opened
  gone,     \* those of them that ended
  got,      \* commands whose stream was there when they came     (history)
  met       \* connections each peer has had                      (history)

behaviour == <<peers, queue, pending, pool, inbox, up, ended, taken, dropped,
               heard, issued, emitted, revived>>
remote == <<told, opened, gone>>
vars == <<behaviour, guests, hand, said, remote, got, met>>

Behaviour == INSTANCE RpcBehaviour

Nothing == [kind |-> "Nothing"]
Panic   == [kind |-> "Panic"]

Init ==
  /\ Behaviour!Init
  /\ guests = {} /\ hand = Nothing /\ said = <<>>
  /\ told = [c \in Conns |-> <<>>] /\ opened = [c \in Conns |-> 0]
  /\ gone = [c \in Conns |-> {}]
  /\ got = [c \in Conns |-> <<>>] /\ met = [p \in Peers |-> {}]

-----------------------------------------------------------------------------
(* replay::run                                                               *)

Polling == hand = Nothing

Nth(seq, x) == Cardinality({i \in DOMAIN seq : seq[i] = x})

(* An event names its peer only; `conn` is kept for the properties.          *)
Event(e, what) ==
  [f \in DOMAIN what \cup {"peer", "conn"} |->
     IF f = "peer" THEN e.peer ELSE IF f = "conn" THEN e.conn ELSE what[f]]

(* swarm.next().await returns an event.                                      *)
NextEvent ==
  /\ Polling
  /\ Behaviour!PollEvent
  /\ LET e == Behaviour!Popped[1]
         what == IF e.event = "Stream"
                 THEN told[e.conn][Nth(heard'[e.conn], "Stream")]
                 ELSE [kind |-> e.event]
     IN  hand' = Event(e, what)
  /\ UNCHANGED <<guests, said, remote, got, met>>

(* Nothing is read from `peers`, which loses a peer with any of its          *)
(* connections.                                                              *)
OnConnection ==
  /\ \/ hand.kind = "ConnectionEstablished" /\ guests' = guests \cup {hand.peer}
     \/ hand.kind = "ConnectionClosed" /\ guests' = guests \ {hand.peer}
  /\ hand' = Nothing
  /\ UNCHANGED <<behaviour, said, remote, got, met>>

(* HandshakeDone, Menu and queries of other methods are logged.              *)
OnNews ==
  /\ hand.kind = "News"
  /\ hand' = Nothing
  /\ UNCHANGED <<behaviour, guests, said, remote, got, met>>

(* The methods answered from memory, and those that look for a ledger or a   *)
(* block.                                                                    *)
Methods == {"kept", "stored"}

(* What the behaviour has heard and the server has not: something of another *)
(* connection of the peer, or the end of this one.                           *)
Overtaken(p, c) ==
  \E i \in DOMAIN queue :
    /\ queue[i].to = "user" /\ queue[i].peer = p
    /\ queue[i].conn # c \/ queue[i].event = "ConnectionClosed"

(* Slip: the query is logged and not answered.                               *)
OnQuery_Silent ==
  /\ hand.kind = "Query"
  /\ hand' = Nothing
  /\ UNCHANGED <<behaviour, guests, said, remote, got, met>>

(* Received::Query: respond addresses the peer; what is not found fails an   *)
(* unwrap.                                                                   *)
OnQuery ==
  /\ hand.kind = "Query"
  /\ \/ /\ Behaviour!Dispatch(hand.peer)
        /\ said' = Append(said, [stream |-> hand.stream, id |-> hand.id,
                                 conn |-> hand.conn,
                                 late |-> Overtaken(hand.peer, hand.conn)])
        /\ hand' = Nothing
     \/ /\ hand.method = "stored"
        /\ hand' = Panic /\ UNCHANGED <<behaviour, said>>
  /\ UNCHANGED <<guests, remote, got, met>>

Arm == OnConnection \/ OnNews \/ OnQuery

-----------------------------------------------------------------------------
(* The rest of the swarm's poll.                                             *)

Swarm ==
  /\ Polling
  /\ \/ Behaviour!PollNotify
     \/ \E c \in Conns : Behaviour!Closed(c) \/ Behaviour!HandlerEvent(c)
  /\ UNCHANGED <<guests, hand, said, remote, got, met>>

(* Connections and peers are numbered in the order in which they come.       *)
Established(c, p) ==
  /\ Polling
  /\ UNION Range(met) = 1..(c - 1) /\ \A q \in Peers : q < p => met[q] # {}
  /\ Behaviour!Established(c, p)
  /\ met' = [met EXCEPT ![p] = @ \cup {c}]
  /\ UNCHANGED <<guests, hand, said, remote, got>>

-----------------------------------------------------------------------------
(* The connections, until a panic ends the process.                          *)

Up == hand # Panic

Streams(c) == (1..opened[c]) \ gone[c]

(* An incoming stream that is not there is not opened.                       *)
Reached(c, s) == s \in Streams(c)

(* on_behaviour_event of the handler.                                        *)
Take(c) ==
  /\ Up
  /\ Behaviour!Take(c)
  /\ LET n == Head(inbox[c])
     IN  got' = IF Reached(c, said[n].stream)
                THEN [got EXCEPT ![c] = Append(@, n)] ELSE got
  /\ UNCHANGED <<guests, hand, said, remote, met>>

(* add_stream: incoming streams are counted from the start of a connection.  *)
RemoteOpens(c) ==
  /\ Up
  /\ Behaviour!Running(c) /\ opened[c] < MaxStreams
  /\ opened' = [opened EXCEPT ![c] = @ + 1]
  /\ UNCHANGED <<behaviour, guests, hand, said, told, gone, got, met>>

(* The end of an incoming stream: it is removed by the next poll.            *)
RemoteEnds(c) ==
  /\ Up
  /\ Behaviour!Running(c)
  /\ \E s \in Streams(c) : gone' = [gone EXCEPT ![c] = @ \cup {s}]
  /\ UNCHANGED <<behaviour, guests, hand, said, told, opened, got, met>>

Tell(c, what) ==
  /\ Up
  /\ Behaviour!Emit(c)
  /\ told' = [told EXCEPT ![c] = Append(@, what)]
  /\ UNCHANGED <<guests, hand, said, opened, gone, got, met>>

(* A handshake, a menu, or a query of another method.                        *)
RemoteSpeaks(c) ==
  /\ Streams(c) # {}
  /\ Tell(c, [kind |-> "News"])

AskedOn(c, s) == {i \in DOMAIN told[c] : told[c][i].kind = "Query" /\ told[c][i].stream = s}

RemoteAsks(c) ==
  \E s \in Streams(c), m \in Methods :
    Tell(c, [kind |-> "Query", stream |-> s, method |-> m,
             id |-> Cardinality(AskedOn(c, s)) + 1])

End(c) ==
  /\ Up
  /\ Behaviour!End(c)
  /\ UNCHANGED <<guests, hand, said, remote, got, met>>

-----------------------------------------------------------------------------
Next ==
  \/ NextEvent \/ Arm \/ Swarm
  \/ \E c \in Conns, p \in Peers : Established(c, p)
  \/ \E c \in Conns : \/ Take(c) \/ RemoteOpens(c) \/ RemoteEnds(c)
                      \/ RemoteSpeaks(c) \/ RemoteAsks(c) \/ End(c)

Spec == Init /\ [][Next]_vars

(* The loop polls the swarm and executes its arms, and the tasks of the      *)
(* connections run; nothing is assumed of remotes.                           *)
FairSpec ==
  /\ Spec
  /\ WF_vars(NextEvent) /\ WF_vars(Arm) /\ WF_vars(Swarm)
  /\ \A c \in Conns : WF_vars(Take(c))

-----------------------------------------------------------------------------
(* Properties.                                                               *)

(* A remote gets answers to its own queries only, those of a connection each *)
(* once and in the order of the queries on a stream.  An answer comes over   *)
(* another connection, where its stream number means another stream, only if *)
(* when it was given the behaviour had already heard from another connection *)
(* of the peer, or of the end of this one, and the server had not            *)
(* (replay.rs:89-210, behaviour.rs:76, 212).                                 *)
AnswersHome ==
  \A c \in Conns :
    /\ \A n \in ToSet(got[c]) :
         c \in met[issued[n]] /\ said[n].conn \in met[issued[n]]
    /\ \A i, j \in DOMAIN got[c] :
         LET a == said[got[c][i]]  b == said[got[c][j]]
         IN  i < j /\ a.conn = b.conn /\ a.stream = b.stream => a.id < b.id
    /\ \A n \in ToSet(got[c]) : said[n].conn = c \/ said[n].late

(* The answers to the k-th query on stream s of c.                           *)
AnswersTo(c, s, k) ==
  {n \in DOMAIN said : said[n].conn = c /\ said[n].stream = s /\ said[n].id = k}

Asked(c, s, k) ==
  \E i \in DOMAIN told[c] :
    /\ told[c][i].kind = "Query" /\ told[c][i].stream = s /\ told[c][i].id = k

(* Each query of a known method is answered on its stream, unless the stream *)
(* or its connection ends, another connection of the peer overtakes it, or   *)
(* the server panics over a query for something it has not (replay.rs:48,    *)
(* 125, 169-173, 199).                                                       *)
QueriesAnswered ==
  \A c \in Conns, s \in 1..MaxStreams, k \in 1..MaxEvents :
    Asked(c, s, k) ~>
      \/ AnswersTo(c, s, k) \cap ToSet(got[c]) # {}
      \/ \E n \in AnswersTo(c, s, k) : said[n].late
      \/ c \in ended \/ s \in gone[c] \/ ~Up

(* A command that is queued is taken by its connection or dropped with it,   *)
(* although a connection that does not read its channel holds up everything  *)
(* behind it in the queue (behaviour.rs:223).                                *)
CommandsSettle ==
  \A n \in 1..MaxCommands :
    Behaviour!Queued(n) ~> Behaviour!Settled(n) \/ ~Up
=============================================================================
