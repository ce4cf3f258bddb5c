---------------------------- MODULE RpcBehaviour ---------------------------
(* `Behaviour` of behaviour.rs: commands of the user on their way to the     *)
(* connections, events of the connections on their way to the user.  A peer  *)
(* may have several connections; each runs as a task of its own, with a      *)
(* bounded channel of commands to it and a channel of events from it, the    *)
(* last of which is its end.  The calls of one handle_pool_event of the      *)
(* swarm (handle_established_*_connection, then on_swarm_event) are one      *)
(* step.  Commands are numbered in the order of the calls; what they say is  *)
(* the subject of RpcHandler.                                                *)
EXTENDS Integers, Sequences, FiniteSets, SequencesExt

CONSTANTS
  Peers, Conns, NoConn,
  InboxSize,    \* commands a connection's channel holds
  MaxCommands,  \* calls of open, query and respond               (bound)
  MaxEvents     \* events of handlers                             (bound)

ASSUME RpcBehaviourAssumption ==
  /\ NoConn \notin Conns
  /\ InboxSize \in Nat \ {0} /\ MaxCommands \in Nat /\ MaxEvents \in Nat

VARIABLES
  peers,    \* Behaviour::peers
  queue,    \* Behaviour::queue
  pending,  \* Behaviour::pending
  pool,     \* the connections the swarm knows, with their peer
  ended,    \* connections whose task has ended
  inbox,    \* commands in the channel of a connection
  up,       \* events in the channel from a connection
  taken,    \* commands a connection has handed to its handler  (history)
  dropped,  \* commands that met the end of their connection    (history)
  heard,    \* events the user got of each connection           (history)
  issued,   \* the peer of each command                         (history)
  emitted,  \* number of events of handlers                     (history)
  revived   \* peers a stream event put back into `peers`       (history)

own   == <<peers, queue, pending>>
links == <<inbox, up, ended>>
vars == <<own, pool, links, taken, dropped, heard, issued, emitted, revived>>

Notify(p, c, cmd) == [to |-> "handler", peer |-> p, conn |-> c, cmd |-> cmd]
Generate(p, c, e) == [to |-> "user", peer |-> p, conn |-> c, event |-> e]

Init ==
  /\ peers = [p \in Peers |-> NoConn]
  /\ queue = <<>> /\ pending = [p \in Peers |-> <<>>]
  /\ pool = <<>> /\ ended = {}
  /\ inbox = [c \in Conns |-> <<>>] /\ up = [c \in Conns |-> <<>>]
  /\ taken = [c \in Conns |-> <<>>] /\ dropped = {}
  /\ heard = [c \in Conns |-> <<>>]
  /\ issued = <<>> /\ emitted = 0 /\ revived = {}

Known(c) == c \in DOMAIN pool

-----------------------------------------------------------------------------
(* dispatch_command, called by open, query and respond.                      *)
Dispatch(p) ==
  /\ Len(issued) < MaxCommands
  /\ issued' = Append(issued, p)
  /\ IF peers[p] # NoConn
     THEN /\ queue' = Append(queue, Notify(p, peers[p], Len(issued')))
          /\ UNCHANGED pending
     ELSE /\ pending' = [pending EXCEPT ![p] = Append(@, Len(issued'))]
          /\ UNCHANGED queue
  /\ UNCHANGED <<peers, pool, links, taken, dropped, heard, emitted, revived>>

(* Slip: what was pending stays pending.                                     *)
Flush_Repeats(p) == UNCHANGED pending

(* self.pending.remove(&peer_id)                                             *)
Flush(p) == pending' = [pending EXCEPT ![p] = <<>>]

(* handle_established_*_connection and FromSwarm::ConnectionEstablished.     *)
Established(c, p) ==
  /\ ~Known(c) /\ c \notin ended
  /\ pool' = [d \in DOMAIN pool \cup {c} |-> IF d = c THEN p ELSE pool[d]]
  /\ peers' = [peers EXCEPT ![p] = c]
  /\ queue' = Append(queue, Generate(p, c, "ConnectionEstablished"))
              \o [i \in DOMAIN pending[p] |-> Notify(p, c, pending[p][i])]
  /\ Flush(p)
  /\ UNCHANGED <<links, taken, dropped, heard, issued, emitted, revived>>

(* Slip: the entry of the peer outlives the connection.                      *)
Forget_Never(c, p) == UNCHANGED peers

(* Only the connection that `peers` names is forgotten with its end.         *)
Forget(c, p) ==
  peers' = IF peers[p] = c THEN [peers EXCEPT ![p] = NoConn] ELSE peers

(* FromSwarm::ConnectionClosed                                               *)
Closed(c) ==
  /\ Known(c) /\ up[c] # <<>> /\ Head(up[c]) = "closed"
  /\ up' = [up EXCEPT ![c] = Tail(@)]
  /\ pool' = [d \in DOMAIN pool \ {c} |-> pool[d]]
  /\ Forget(c, pool[c])
  /\ queue' = Append(queue, Generate(pool[c], c, "ConnectionClosed"))
  /\ UNCHANGED <<pending, inbox, ended, taken, dropped, heard, issued, emitted,
                 revived>>

(* Slip: `peers` does not follow the events of streams.                      *)
HandlerEvent_Unnoted(c) ==
  /\ Known(c) /\ up[c] # <<>> /\ Head(up[c]) = "stream"
  /\ up' = [up EXCEPT ![c] = Tail(@)]
  /\ queue' = Append(queue, Generate(pool[c], c, "Stream"))
  /\ UNCHANGED <<peers, pending, pool, inbox, ended, taken, dropped, heard, issued,
                 emitted, revived>>

(* on_connection_handler_event                                               *)
HandlerEvent(c) ==
  /\ Known(c) /\ up[c] # <<>> /\ Head(up[c]) = "stream"
  /\ up' = [up EXCEPT ![c] = Tail(@)]
  /\ peers' = [peers EXCEPT ![pool[c]] = c]
  /\ revived' = IF peers[pool[c]] = NoConn THEN revived \cup {pool[c]} ELSE revived
  /\ queue' = Append(queue, Generate(pool[c], c, "Stream"))
  /\ UNCHANGED <<pending, pool, inbox, ended, taken, dropped, heard, issued,
                 emitted>>

(* Slips: the latest entry is taken first; the others are forgotten.         *)
Popped_Newest == <<Last(queue), Front(queue)>>
Popped_Clears == <<Head(queue), <<>>>>

(* self.queue.pop_front()                                                    *)
Popped == <<Head(queue), Tail(queue)>>

(* Slip: one command too many.                                               *)
HasRoom_OneMore(c) == Len(inbox[c]) <= InboxSize

(* A channel of the swarm: task_command_buffer_size.                         *)
HasRoom(c) == Len(inbox[c]) < InboxSize

(* poll returns NotifyHandler, and the swarm sends the command to the task   *)
(* of the connection, waiting while its channel is full; it drops a command  *)
(* whose connection is gone.                                                 *)
PollNotify ==
  /\ queue # <<>> /\ Popped[1].to = "handler"
  /\ LET c == Popped[1].conn
         cmd == Popped[1].cmd
     IN  IF Known(c) /\ c \notin ended
         THEN /\ HasRoom(c)
              /\ inbox' = [inbox EXCEPT ![c] = Append(@, cmd)]
              /\ UNCHANGED dropped
         ELSE dropped' = dropped \cup {cmd} /\ UNCHANGED inbox
  /\ queue' = Popped[2]
  /\ UNCHANGED <<peers, pending, pool, up, ended, taken, heard, issued, emitted,
                 revived>>

(* poll returns GenerateEvent: the user's next call of Swarm::next has it.   *)
PollEvent ==
  /\ queue # <<>> /\ Popped[1].to = "user"
  /\ heard' = [heard EXCEPT ![Popped[1].conn] = Append(@, Popped[1].event)]
  /\ queue' = Popped[2]
  /\ UNCHANGED <<peers, pending, pool, links, taken, dropped, issued, emitted,
                 revived>>

-----------------------------------------------------------------------------
(* The tasks of the connections.                                             *)

Running(c) == Known(c) /\ c \notin ended

(* on_behaviour_event of the handler.                                        *)
Take(c) ==
  /\ Running(c) /\ inbox[c] # <<>>
  /\ taken' = [taken EXCEPT ![c] = Append(@, Head(inbox[c]))]
  /\ inbox' = [inbox EXCEPT ![c] = Tail(@)]
  /\ UNCHANGED <<own, pool, up, ended, dropped, heard, issued, emitted, revived>>

(* The handler's poll returns an event.                                      *)
Emit(c) ==
  /\ Running(c) /\ emitted < MaxEvents
  /\ emitted' = emitted + 1
  /\ up' = [up EXCEPT ![c] = Append(@, "stream")]
  /\ UNCHANGED <<own, pool, inbox, ended, taken, dropped, heard, issued, revived>>

(* The connection ends, with the commands not yet taken from its channel.    *)
End(c) ==
  /\ Running(c)
  /\ ended' = ended \cup {c}
  /\ up' = [up EXCEPT ![c] = Append(@, "closed")]
  /\ dropped' = dropped \cup ToSet(inbox[c])
  /\ inbox' = [inbox EXCEPT ![c] = <<>>]
  /\ UNCHANGED <<own, pool, taken, heard, issued, emitted, revived>>

-----------------------------------------------------------------------------
Swarm ==
  \/ PollNotify \/ PollEvent
  \/ \E c \in Conns : Closed(c) \/ HandlerEvent(c)

Next ==
  \/ \E p \in Peers : Dispatch(p)
  \/ \E c \in Conns, p \in Peers : Established(c, p)
  \/ Swarm
  \/ \E c \in Conns : Take(c) \/ Emit(c) \/ End(c)

Spec == Init /\ [][Next]_vars

-----------------------------------------------------------------------------
(* Properties.                                                               *)

Commands == 1..Len(issued)

Notifications ==
  [to : {"handler"}, peer : Peers, conn : Conns, cmd : Nat]

Kinds == {"ConnectionEstablished", "ConnectionClosed", "Stream"}

Happenings == [to : {"user"}, peer : Peers, conn : Conns, event : Kinds]

TypeOK ==
  /\ peers \in [Peers -> Conns \cup {NoConn}]
  /\ queue \in Seq(Notifications \cup Happenings)
  /\ pending \in [Peers -> Seq(Nat)]
  /\ DOMAIN pool \subseteq Conns /\ \A c \in DOMAIN pool : pool[c] \in Peers
  /\ ended \subseteq Conns
  /\ inbox \in [Conns -> Seq(Nat)] /\ \A c \in Conns : Len(inbox[c]) <= InboxSize
  /\ up \in [Conns -> Seq({"stream", "closed"})]
  /\ taken \in [Conns -> Seq(Nat)] /\ dropped \subseteq Nat
  /\ heard \in [Conns -> Seq(Kinds)]
  /\ issued \in Seq(Peers) /\ emitted \in Nat /\ revived \subseteq Peers

(* `peers` names a connection of that peer that the swarm knows, so that a   *)
(* command never goes to another peer, nor to a connection whose end was     *)
(* already handled (behaviour.rs:195-197).  An event of a stream puts its    *)
(* connection back (behaviour.rs:212); that it does so for a connection      *)
(* already closed is excluded only by the order of the connection's events.  *)
PeersAreConnected ==
  \A p \in Peers : peers[p] # NoConn => Known(peers[p]) /\ pool[peers[p]] = p

CommandFor(k, c) == queue[k].to = "handler" /\ queue[k].conn = c
EventOf(k, c)    == queue[k].to = "user" /\ queue[k].conn = c

Increasing(seq) == \A i, j \in DOMAIN seq : i < j => seq[i] < seq[j]

(* What is sent to a connection reaches it in the order of the calls, and    *)
(* what waits for a connection is older than what comes after it: flushing   *)
(* `pending` (behaviour.rs:179-187) never lets a command overtake another.   *)
ConnectionOrder ==
  /\ \A c \in Conns :
       /\ Increasing(taken[c]) /\ Increasing(inbox[c])
       /\ \A n \in ToSet(taken[c]), m \in ToSet(inbox[c]) : n < m
       /\ \A k \in DOMAIN queue : CommandFor(k, c) =>
            /\ \A n \in ToSet(taken[c]) \cup ToSet(inbox[c]) : n < queue[k].cmd
            /\ \A j \in 1..(k - 1) : CommandFor(j, c) => queue[j].cmd < queue[k].cmd
  /\ \A p \in Peers : Increasing(pending[p])

SentTo(c) ==
  ToSet(taken[c]) \cup ToSet(inbox[c])
  \cup {queue[k].cmd : k \in {i \in DOMAIN queue : CommandFor(i, c)}}

(* Each command is in one place: waiting for its peer, on its way to a       *)
(* connection or taken by it, or dropped because its connection had ended.   *)
(* None is lost or given twice in the flush of `pending`.                    *)
Places(cmd) ==
  (IF cmd \in dropped THEN 1 ELSE 0)
  + Cardinality({p \in Peers : cmd \in ToSet(pending[p])})
  + Cardinality({c \in Conns : cmd \in SentTo(c)})

OnePlace == \A cmd \in Commands : Places(cmd) = 1

(* A command waits in `pending` while its peer has an entry in `peers` only  *)
(* if that entry had been removed with the latest connection, and an event   *)
(* of an older one put it back (behaviour.rs:212): nothing flushes `pending` *)
(* then until another connection is established.                             *)
PendingMeansAway ==
  \A p \in Peers : pending[p] # <<>> /\ peers[p] # NoConn => p \in revived

(* The user hears of a connection first that it is established and last that *)
(* it is closed, each at most once, whatever commands are queued in between. *)
EventOrder ==
  \A c \in Conns :
    /\ \A i \in DOMAIN heard[c] :
         /\ heard[c][i] = "ConnectionEstablished" <=> i = 1
         /\ heard[c][i] = "ConnectionClosed" =>
              i = Len(heard[c]) /\ \A k \in DOMAIN queue : ~EventOf(k, c)
    /\ \A k \in DOMAIN queue : EventOf(k, c) =>
         /\ queue[k].event = "ConnectionEstablished" <=>
              heard[c] = <<>> /\ \A j \in 1..(k - 1) : ~EventOf(j, c)
         /\ queue[k].event = "ConnectionClosed" =>
              \A j \in DOMAIN queue : j > k => ~EventOf(j, c)

(* A command is on its way to a connection; it came there or was dropped.    *)
Queued(cmd) ==
  \E k \in DOMAIN queue : queue[k].to = "handler" /\ queue[k].cmd = cmd

Settled(cmd) ==
  cmd \in dropped \cup UNION {ToSet(taken[c]) : c \in Conns}
=============================================================================
