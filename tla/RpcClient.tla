------------------------------ MODULE RpcClient ------------------------------
(* `Client` of client.rs on top of RpcBehaviour: calls of rpc one after      *)
(* another, each of which polls the swarm until its response comes.  The     *)
(* events and commands that RpcBehaviour counts get their contents here:     *)
(* said[cmd] is what a command says, told[c][i] the i-th event of c's        *)
(* handler.  Of a handler and the remote behind it this module keeps which   *)
(* streams there are, which handshakes are to come and which queries were    *)
(* not answered; a stream lives as long as its connection.                   *)
EXTENDS Integers, Sequences, FiniteSets, SequencesExt

CONSTANTS
  Peers, Conns, NoConn, InboxSize, MaxCommands, MaxEvents,  \* of RpcBehaviour
  NoPeer,
  MaxCalls,    \* calls of rpc                                    (bound)
  MaxRemote    \* streams and get_best_tip queries of remotes     (bound)

ASSUME RpcClientAssumption ==
  /\ NoPeer \notin Peers /\ NoConn \notin Conns
  /\ InboxSize \in Nat \ {0} /\ MaxCommands \in Nat /\ MaxEvents \in Nat
  /\ MaxCalls \in Nat /\ MaxRemote \in Nat
  /\ MaxCommands >= MaxRemote + Cardinality(Conns) + MaxCalls

VARIABLES
  peers, queue, pending, pool, inbox, up, ended, taken, dropped, heard,
  issued, emitted, revived,                                 \* of RpcBehaviour
  peer,     \* Client::peer
  stream,   \* Client::stream
  id,       \* Client::id
  call,     \* rpc is not running, holds its query, or waits for the response
  hand,     \* the event swarm.next() returned, until its arm is executed
  said,     \* contents of the commands
  told,     \* contents of the events of each handler
  streams,  \* streams of each handler
  greets,   \* streams whose handshake was not read yet
  asked,    \* queries the remote of a connection has not answered
  astray,   \* queries that met no stream, or the end of theirs   (history)
  calls,    \* calls of rpc made                                  (history)
  met       \* connections each peer has had                      (history)

behaviour == <<peers, queue, pending, pool, inbox, up, ended, taken, dropped,
               heard, issued, emitted, revived>>
client == <<peer, stream, id, call, calls>>
remote == <<told, streams, greets, asked>>
vars == <<behaviour, client, hand, said, remote, astray, met>>

Behaviour == INSTANCE RpcBehaviour

(* The client opens the stream Outgoing(0) and no other; a remote opens one. *)
Out == "Outgoing(0)"
In  == "Incoming(0)"
NoStream == "None"
Nothing == [kind |-> "Nothing"]

Init ==
  /\ Behaviour!Init
  /\ peer = NoPeer /\ stream = NoStream /\ id = 1
  /\ call = "idle" /\ calls = 0 /\ hand = Nothing
  /\ said = <<>> /\ told = [c \in Conns |-> <<>>]
  /\ streams = [c \in Conns |-> {}] /\ greets = [c \in Conns |-> {}]
  /\ asked = [c \in Conns |-> {}] /\ astray = {}
  /\ met = [p \in Peers |-> 0]

-----------------------------------------------------------------------------
(* rpc                                                                       *)

(* query::<M>, then self.id += 1.                                            *)
Ask(p, s) ==
  /\ Behaviour!Dispatch(p)
  /\ said' = Append(said, [kind |-> "Query", stream |-> s, id |-> id])
  /\ call' = "waits" /\ id' = id + 1

(* The query is sent at once if there is a peer and a stream.                *)
Rpc ==
  /\ call = "idle" /\ calls < MaxCalls /\ calls' = calls + 1
  /\ IF peer # NoPeer /\ stream # NoStream
     THEN Ask(peer, stream)
     ELSE call' = "holds" /\ UNCHANGED <<behaviour, said, id>>
  /\ UNCHANGED <<peer, stream, hand, remote, astray, met>>

(* The swarm is polled by rpc only, and not while an event is in hand.       *)
Polling == call # "idle" /\ hand = Nothing

Nth(seq, x) == Cardinality({i \in DOMAIN seq : seq[i] = x})

(* An event names its peer.                                                  *)
Event(e, what) ==
  [f \in DOMAIN what \cup {"peer"} |-> IF f = "peer" THEN e.peer ELSE what[f]]

(* swarm.next().await returns an event.                                      *)
NextEvent ==
  /\ Polling
  /\ Behaviour!PollEvent
  /\ LET e == Behaviour!Popped[1]
         what == IF e.event = "Stream"
                 THEN told[e.conn][Nth(heard'[e.conn], "Stream")]
                 ELSE [kind |-> e.event]
     IN  hand' = Event(e, what)
  /\ UNCHANGED <<client, said, remote, astray, met>>

(* Event::ConnectionEstablished: the latest peer is the one to ask.          *)
OnEstablished ==
  /\ hand.kind = "ConnectionEstablished"
  /\ peer' = hand.peer
  /\ Behaviour!Dispatch(hand.peer)
  /\ said' = Append(said, [kind |-> "Open", stream |-> Out])
  /\ hand' = Nothing
  /\ UNCHANGED <<stream, id, call, calls, remote, astray, met>>

(* Event::ConnectionClosed: "TODO: resend".                                  *)
OnClosed ==
  /\ hand.kind = "ConnectionClosed"
  /\ peer' = IF peer = hand.peer THEN NoPeer ELSE peer
  /\ hand' = Nothing
  /\ UNCHANGED <<behaviour, stream, id, call, calls, said, remote, astray, met>>

(* Slip: the query held is not sent.                                         *)
OnHandshake_Holds ==
  /\ hand.kind = "HandshakeDone"
  /\ stream' = IF stream = NoStream THEN hand.stream ELSE stream
  /\ hand' = Nothing
  /\ UNCHANGED <<behaviour, said, id, call, peer, calls, remote, astray, met>>

(* Slip: the query is cloned, not taken, and sent with every handshake.      *)
OnHandshake_Resends ==
  /\ hand.kind = "HandshakeDone"
  /\ stream' = IF stream = NoStream THEN hand.stream ELSE stream
  /\ IF peer # NoPeer
     THEN Ask(peer, stream')
     ELSE UNCHANGED <<behaviour, said, id, call>>
  /\ hand' = Nothing
  /\ UNCHANGED <<peer, calls, remote, astray, met>>

(* Received::HandshakeDone: the first stream is kept for good.               *)
OnHandshake ==
  /\ hand.kind = "HandshakeDone"
  /\ stream' = IF stream = NoStream THEN hand.stream ELSE stream
  /\ IF peer # NoPeer /\ call = "holds"
     THEN Ask(peer, stream')
     ELSE UNCHANGED <<behaviour, said, id, call>>
  /\ hand' = Nothing
  /\ UNCHANGED <<peer, calls, remote, astray, met>>

(* Slip: the query is read and not answered.                                 *)
OnQuery_Silent ==
  /\ hand.kind = "Query"
  /\ hand' = Nothing
  /\ UNCHANGED <<behaviour, said, client, remote, astray, met>>

(* Received::Query: get_best_tip is answered with nothing.                   *)
OnQuery ==
  /\ hand.kind = "Query"
  /\ Behaviour!Dispatch(hand.peer)
  /\ said' = Append(said, [kind |-> "Response", stream |-> hand.stream])
  /\ hand' = Nothing
  /\ UNCHANGED <<client, remote, astray, met>>

(* Received::Response: with the identifier of the latest query rpc returns.  *)
OnResponse ==
  /\ hand.kind = "Response"
  /\ call' = IF hand.id + 1 = id THEN "idle" ELSE call
  /\ hand' = Nothing
  /\ UNCHANGED <<behaviour, peer, stream, id, calls, said, remote, astray, met>>

-----------------------------------------------------------------------------
(* The rest of the swarm's poll.                                             *)

Swarm ==
  /\ Polling
  /\ \/ Behaviour!PollNotify
     \/ \E c \in Conns : Behaviour!Closed(c) \/ Behaviour!HandlerEvent(c)
  /\ UNCHANGED <<client, hand, said, remote, astray, met>>

Established(c, p) ==
  /\ Polling
  /\ Behaviour!Established(c, p)
  /\ met' = [met EXCEPT ![p] = @ + 1]
  /\ UNCHANGED <<client, hand, said, remote, astray>>

-----------------------------------------------------------------------------
(* The connections.                                                          *)

(* Command::Open begins a stream anew; a query for an outgoing stream that   *)
(* is not there opens it.                                                    *)
Opens(c, cmd) ==
  cmd.kind = "Open" \/ (cmd.stream = Out /\ Out \notin streams[c])

StreamsAfter(c, cmd) ==
  IF Opens(c, cmd) THEN streams[c] \cup {Out} ELSE streams[c]

(* on_behaviour_event of the handler: the queries of a stream replaced, and  *)
(* one for an incoming stream that is not there, are lost.                   *)
Take(c) ==
  /\ Behaviour!Take(c)
  /\ LET n == Head(inbox[c])
         replaced == {m \in asked[c] :
                        said[n].kind = "Open" /\ said[m].stream = Out}
         missed == {m \in {n} : said[n].kind = "Query" /\
                                said[n].stream \notin streams[c] \cup {Out}}
         query == {m \in {n} : said[n].kind = "Query"}
     IN  /\ streams' = [streams EXCEPT ![c] = StreamsAfter(c, said[n])]
         /\ greets' = [greets EXCEPT ![c] =
                         IF Opens(c, said[n]) THEN @ \cup {Out} ELSE @]
         /\ asked' = [asked EXCEPT ![c] =
                        (@ \ replaced) \cup (query \ missed)]
         /\ astray' = astray \cup replaced \cup missed
  /\ UNCHANGED <<client, hand, said, told, met>>

QueriesOf(c) == SelectSeq(told[c], LAMBDA e : e.kind = "Query")

(* What remotes did on their own.                                            *)
Remote ==
  {<<c, 0>> : c \in {d \in Conns : In \in streams[d]}}
  \cup UNION {{<<c, i>> : i \in DOMAIN QueriesOf(c)} : c \in Conns}

(* The remote opens a stream.                                                *)
RemoteOpens(c) ==
  /\ Behaviour!Running(c) /\ In \notin streams[c]
  /\ Cardinality(Remote) < MaxRemote
  /\ streams' = [streams EXCEPT ![c] = @ \cup {In}]
  /\ greets' = [greets EXCEPT ![c] = @ \cup {In}]
  /\ UNCHANGED <<behaviour, client, hand, said, told, asked, astray, met>>

Tell(c, what) ==
  /\ Behaviour!Emit(c)
  /\ told' = [told EXCEPT ![c] = Append(@, what)]
  /\ UNCHANGED <<client, hand, said, streams, astray, met>>

Greet(c) ==
  \E s \in greets[c] :
    /\ Tell(c, [kind |-> "HandshakeDone", stream |-> s])
    /\ greets' = [greets EXCEPT ![c] = @ \ {s}]
    /\ UNCHANGED asked

Reply(c) ==
  \E n \in asked[c] :
    /\ said[n].stream \notin greets[c]
    /\ Tell(c, [kind |-> "Response", stream |-> said[n].stream, id |-> said[n].id])
    /\ asked' = [asked EXCEPT ![c] = @ \ {n}]
    /\ UNCHANGED greets

(* A query, each once, on any stream whose handshake was read.               *)
RemoteAsks(c) ==
  \E s \in streams[c] \ greets[c] :
    /\ Cardinality(Remote) < MaxRemote
    /\ Tell(c, [kind |-> "Query", stream |-> s])
    /\ UNCHANGED <<greets, asked>>

End(c) ==
  /\ Behaviour!End(c)
  /\ UNCHANGED <<client, hand, said, remote, astray, met>>

-----------------------------------------------------------------------------
Arm == OnEstablished \/ OnClosed \/ OnHandshake \/ OnQuery \/ OnResponse

Next ==
  \/ Rpc \/ NextEvent \/ Arm \/ Swarm
  \/ \E c \in Conns, p \in Peers : Established(c, p)
  \/ \E c \in Conns : \/ Take(c) \/ RemoteOpens(c) \/ Greet(c) \/ Reply(c)
                      \/ RemoteAsks(c) \/ End(c)

Spec == Init /\ [][Next]_vars

(* The program awaits rpc, which polls the swarm; the tasks of connections   *)
(* run, and remotes greet.                                                   *)
FairSpec ==
  /\ Spec
  /\ WF_vars(NextEvent) /\ WF_vars(Arm) /\ WF_vars(Swarm)
  /\ \A c \in Conns : WF_vars(Take(c)) /\ WF_vars(Greet(c))

(* Remotes answer.                                                           *)
Answering == \A c \in Conns : WF_vars(Reply(c))

-----------------------------------------------------------------------------
(* Properties.                                                               *)

(* A call of rpc sends its query once, however many peers and handshakes     *)
(* come while it runs, and returns the response to that query: never one     *)
(* that comes while the query is held back, nor that to an earlier query     *)
(* (client.rs:42-51, 82-88, 110).                                            *)
AnswersOwnQuery ==
  [][ call # "idle" /\ call' = "idle" =>
        /\ call = "waits"
        /\ LET queries == {n \in DOMAIN said : said[n].kind = "Query"}
           IN  /\ Cardinality(queries) = calls
               /\ said[Max(queries)].id = hand.id ]_vars

(* The command with the query whose response rpc waits for.                  *)
Latest(n) ==
  /\ call = "waits" /\ said[n].kind = "Query"
  /\ \A m \in DOMAIN said : said[m].kind = "Query" => m <= n

(* A query that no remote is going to answer.                                *)
Lost(n) ==
  \/ n \in dropped \cup astray
  \/ \E p \in Peers : n \in ToSet(pending[p])
  \/ \E c \in ended : n \in ToSet(taken[c])

(* On a peer's first connection no query goes astray.  On a later one it may *)
(* meet no stream, as the client keeps an incoming stream beyond its         *)
(* connection, or lose its stream: while events are queued, `peers` is ahead *)
(* of the client, so that the query precedes the Open of its connection,     *)
(* which replaces the stream (client.rs:54-83, behaviour.rs:76, 175,         *)
(* handler.rs:131).                                                          *)
StraysNotFirst ==
  \A n \in astray :
    \/ met[issued[n]] > 1
    \/ said[n].stream = In /\ \E p \in Peers \ {issued[n]} : met[p] > 0

(* With remotes that answer, a call of rpc returns once there is a           *)
(* connection, unless its query was lost with a connection or went astray,   *)
(* or the client forgot its peer at the end of a connection, although there  *)
(* may be others (client.rs:60-66).                                          *)
RpcReturns ==
  Answering =>
    (call # "idle" /\ DOMAIN pool # {} ~>
       \/ call = "idle"
       \/ peer = NoPeer /\ \E c \in Conns : "ConnectionClosed" \in ToSet(heard[c])
       \/ \E n \in DOMAIN said : Latest(n) /\ Lost(n))

(* While a call of rpc runs, however long its own response takes, each       *)
(* get_best_tip query of a remote is answered, on the connection it came     *)
(* from if that is the peer's only one (client.rs:92-102).                   *)
Responses(c) == SelectSeq(taken[c], LAMBDA n : said[n].kind = "Response")

RemotesAnswered ==
  \A c \in Conns, k \in 1..MaxRemote :
    Len(QueriesOf(c)) >= k ~>
      \/ Len(Responses(c)) >= k \/ c \in ended \/ call = "idle"
      \/ \E p \in Peers : met[p] > 1
=============================================================================
