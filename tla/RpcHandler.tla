---------------------------- MODULE RpcHandler -----------------------------
(* The handler of one connection: `Handler` of handler.rs, with the commands *)
(* of the behaviour, the substreams the swarm hands over, and as much of     *)
(* each Stream as the handler sees.  Bytes and partial writes are the        *)
(* subject of RpcStream; here a stream holds whole commands and what can be  *)
(* read of its substream is one of "quiet", "message", "eof" and "broken".   *)
EXTENDS Integers, Sequences, FiniteSets, Functions

CONSTANTS
  OutIds,      \* numbers the user gives to outgoing streams
  MaxInbound,  \* substreams the remote opens                     (bound)
  MaxOpens,    \* Command::Open                                   (bound)
  MaxSends,    \* Command::Send                                   (bound)
  MaxRefused,  \* requests that end in a DialUpgradeError         (bound)
  MaxMail      \* messages, ends and errors of all substreams     (bound)

ASSUME RpcHandlerAssumption ==
  /\ OutIds \subseteq Nat /\ IsFiniteSet(OutIds)
  /\ {MaxInbound, MaxOpens, MaxSends, MaxRefused, MaxMail} \subseteq Nat

VARIABLES
  streams,           \* Handler::streams
  last_outgoing_id,  \* Handler::last_outgoing_id, a queue of numbers
  last_incoming_id,  \* Handler::last_incoming_id
  failed,            \* Handler::failed
  woken,             \* the connection task is going to call poll
  requests,          \* OutboundSubstreamRequests the swarm works on
  ios,               \* substreams handed over so far
  target,            \* the stream each Send was for                (history)
  wrote,             \* the Sends written, by stream id             (history)
  lost,              \* the Sends dropped with a stream             (history)
  opens, implicit, replaced, refused, mails   \* counters           (history)

tables   == <<streams, last_outgoing_id, last_incoming_id, failed>>
sends    == <<target, wrote, lost>>
counters == <<opens, implicit, replaced, refused, mails>>
vars == <<tables, woken, requests, ios, sends, counters>>

Incoming(id) == <<"Incoming", id>>
Outgoing(id) == <<"Outgoing", id>>

StreamIds ==
  {Incoming(id) : id \in 0..(MaxInbound - 1)} \cup {Outgoing(id) : id \in OutIds}

(* The derived order of the enum StreamId, the order of the BTreeMap.        *)
Before(s, t) ==
  \/ s[1] = "Incoming" /\ t[1] = "Outgoing"
  \/ s[1] = t[1] /\ s[2] < t[2]

(* Stream::new_outgoing and Stream::new_incoming                             *)
NewStream == [opening |-> "none", io |-> 0, held |-> <<>>, mail |-> "quiet"]

(* Stream::negotiated                                                        *)
WithIo(stream) ==
  [stream EXCEPT !.opening = "negotiated", !.io = ios + 1, !.mail = "quiet"]

Insert(s, stream) ==
  [t \in DOMAIN streams \cup {s} |-> IF t = s THEN stream ELSE streams[t]]

Init ==
  /\ streams = <<>> /\ last_outgoing_id = <<>> /\ last_incoming_id = 0
  /\ failed = {} /\ woken = TRUE /\ requests = 0 /\ ios = 0
  /\ target = <<>> /\ wrote = [s \in StreamIds |-> <<>>] /\ lost = {}
  /\ opens = 0 /\ implicit = 0 /\ replaced = 0 /\ refused = 0 /\ mails = 0

-----------------------------------------------------------------------------
(* on_behaviour_event.  The connection task takes every command that is      *)
(* waiting for it before it polls the handler.                               *)

HeldBy(s) == IF s \in DOMAIN streams THEN Range(streams[s].held) ELSE {}

(* Command::Open: the stream that was there, with what it held, is dropped.  *)
Open(id) ==
  /\ opens < MaxOpens /\ opens' = opens + 1
  /\ streams' = Insert(Outgoing(id), NewStream)
  /\ lost' = lost \cup HeldBy(Outgoing(id))
  /\ replaced' = replaced + (IF Outgoing(id) \in DOMAIN streams THEN 1 ELSE 0)
  /\ woken' = TRUE
  /\ UNCHANGED <<last_outgoing_id, last_incoming_id, failed, requests, ios,
                 target, wrote, implicit, refused, mails>>

Send(s) ==
  /\ Len(target) < MaxSends
  /\ target' = Append(target, s)
  /\ woken' = TRUE
  /\ UNCHANGED <<last_incoming_id, failed, requests, ios, wrote,
                 opens, replaced, refused, mails>>

(* Command::Send for a stream in the map: Stream::add.                       *)
SendHere(s) ==
  /\ s \in DOMAIN streams
  /\ Send(s)
  /\ streams' = [streams EXCEPT ![s].held = Append(@, Len(target'))]
  /\ UNCHANGED <<last_outgoing_id, lost, implicit>>

(* "implicitly open outgoing stream"                                         *)
SendImplicit(s) ==
  /\ s[1] = "Outgoing" /\ s \notin DOMAIN streams
  /\ Send(s)
  /\ last_outgoing_id' = Append(last_outgoing_id, s[2])
  /\ streams' = Insert(s, [NewStream EXCEPT !.held = <<Len(target')>>])
  /\ implicit' = implicit + 1
  /\ UNCHANGED lost

(* A response to a query of an incoming stream that is gone.                 *)
SendNowhere(s) ==
  /\ s[1] = "Incoming" /\ s[2] < last_incoming_id /\ s \notin DOMAIN streams
  /\ Send(s)
  /\ lost' = lost \cup {Len(target')}
  /\ UNCHANGED <<streams, last_outgoing_id, implicit>>

-----------------------------------------------------------------------------
(* on_connection_event and the substreams.                                   *)

(* FullyNegotiatedInbound: add_stream(true, io).                             *)
Inbound ==
  /\ last_incoming_id < MaxInbound
  /\ last_incoming_id' = last_incoming_id + 1
  /\ streams' = Insert(Incoming(last_incoming_id), WithIo(NewStream))
  /\ ios' = ios + 1 /\ woken' = TRUE
  /\ UNCHANGED <<last_outgoing_id, failed, requests, sends, counters>>

(* Slip: looks at the first number in the queue and leaves it there.         *)
Outbound_Peeks ==
  /\ requests > 0 /\ requests' = requests - 1
  /\ ios' = ios + 1
  /\ woken' = TRUE
  /\ last_outgoing_id # <<>>
  /\ LET s == Outgoing(Head(last_outgoing_id))
     IN  streams' = IF s \in DOMAIN streams
                    THEN [streams EXCEPT ![s] = WithIo(@)] ELSE streams
  /\ UNCHANGED <<last_outgoing_id, last_incoming_id, failed, sends, counters>>

(* FullyNegotiatedOutbound: add_stream(false, io).  Requests are alike: the  *)
(* substream goes to the first number in the queue.                          *)
Outbound ==
  /\ requests > 0 /\ requests' = requests - 1
  /\ ios' = ios + 1
  /\ woken' = TRUE
  /\ IF last_outgoing_id = <<>>
     THEN UNCHANGED <<streams, last_outgoing_id>>
     ELSE LET s == Outgoing(Head(last_outgoing_id))
          IN  /\ last_outgoing_id' = Tail(last_outgoing_id)
              /\ streams' = IF s \in DOMAIN streams
                            THEN [streams EXCEPT ![s] = WithIo(@)] ELSE streams
  /\ UNCHANGED <<last_incoming_id, failed, sends, counters>>

(* DialUpgradeError falls under `_ => {}`.                                   *)
Refused ==
  /\ requests > 0 /\ requests' = requests - 1
  /\ refused < MaxRefused /\ refused' = refused + 1
  /\ woken' = TRUE
  /\ UNCHANGED <<tables, ios, sends, opens, implicit, replaced, mails>>

(* The remote sends, closes or resets one of the substreams.                 *)
Mail(s, what) ==
  /\ s \in DOMAIN streams /\ s \notin failed
  /\ streams[s].opening = "negotiated" /\ streams[s].mail = "quiet"
  /\ mails < MaxMail /\ mails' = mails + 1
  /\ streams' = [streams EXCEPT ![s].mail = what]
  /\ woken' = TRUE
  /\ UNCHANGED <<last_outgoing_id, last_incoming_id, failed, requests, ios,
                 sends, opens, implicit, replaced, refused>>

-----------------------------------------------------------------------------
(* Handler::poll                                                             *)

Negotiated(s) == streams[s].opening = "negotiated"

(* poll_stream is Ready(Ok(Request)).                                        *)
Asks(s) ==
  /\ s[1] = "Outgoing"
  /\ streams[s].opening = "none" \/ (Negotiated(s) /\ streams[s].mail = "eof")

Speaks(s) == Negotiated(s) /\ streams[s].mail = "message"

(* poll_stream is Ready(Err).                                                *)
Fails(s) ==
  /\ Negotiated(s)
  /\ \/ streams[s].mail = "broken"
     \/ streams[s].mail = "eof" /\ s[1] = "Incoming"

Alive == DOMAIN streams \ failed

Ready == {s \in Alive : Asks(s) \/ Speaks(s)}

(* The loop goes through the map in order and stops at the first stream that *)
(* is ready.                                                                 *)
Polled == LET ready == Ready IN {s \in Alive : ~ \E t \in ready : Before(t, s)}

(* Slip: `failed` is not cleared.                                            *)
Failing_Kept(polled) == failed \cup {s \in polled : Fails(s)}

Failing(polled) == {s \in polled : Fails(s)}

(* Slip: what was written stays in the queue.                                *)
AfterPoll_Repeats(s, n) ==
  [opening |-> IF Asks(s) THEN "requested" ELSE streams[s].opening,
   io      |-> IF Asks(s) THEN 0 ELSE streams[s].io,
   held    |-> streams[s].held,
   mail    |-> IF Asks(s) \/ Speaks(s) THEN "quiet" ELSE streams[s].mail]

(* A stream polled writes n of the commands it holds, then reads.            *)
AfterPoll(s, n) ==
  [opening |-> IF Asks(s) THEN "requested" ELSE streams[s].opening,
   io      |-> IF Asks(s) THEN 0 ELSE streams[s].io,
   held    |-> SubSeq(streams[s].held, n + 1, Len(streams[s].held)),
   mail    |-> IF Asks(s) \/ Speaks(s) THEN "quiet" ELSE streams[s].mail]

(* Slip: the request is made and its number not remembered.                  *)
Remember_Forgets(s) == UNCHANGED last_outgoing_id

Remember(s) == last_outgoing_id' = Append(last_outgoing_id, s[2])

Poll ==
  /\ woken
  /\ LET polled == Polled
         writers == {s \in polled : Negotiated(s) /\ streams[s].held # <<>>}
     IN  /\ \E n \in [writers -> 0..MaxSends] :
              /\ \A s \in writers : n[s] <= Len(streams[s].held)
              /\ streams' = [s \in Alive |->
                               IF s \in writers THEN AfterPoll(s, n[s])
                               ELSE IF s \in polled THEN AfterPoll(s, 0)
                               ELSE streams[s]]
              /\ wrote' = [s \in StreamIds |->
                             IF s \in writers
                             THEN wrote[s] \o SubSeq(streams[s].held, 1, n[s])
                             ELSE wrote[s]]
         /\ failed' = Failing(polled)
         /\ IF \E s \in polled : Asks(s)
            THEN /\ \E s \in polled : Asks(s) /\ Remember(s)
                 /\ requests' = requests + 1
            ELSE UNCHANGED <<last_outgoing_id, requests>>
  /\ lost' = lost \cup UNION {HeldBy(s) : s \in failed}
  /\ woken' = (Ready # {})
  /\ UNCHANGED <<last_incoming_id, ios, target, counters>>

-----------------------------------------------------------------------------
Next ==
  \/ \E id \in OutIds : Open(id)
  \/ \E s \in StreamIds : SendHere(s) \/ SendImplicit(s) \/ SendNowhere(s)
  \/ Inbound \/ Outbound \/ Refused
  \/ \E s \in StreamIds, what \in {"message", "eof", "broken"} : Mail(s, what)
  \/ Poll

Spec == Init /\ [][Next]_vars

(* The connection task polls a handler that was woken; the remote accepts    *)
(* the substreams it does not refuse.                                        *)
FairSpec == Spec /\ WF_vars(Poll) /\ WF_vars(Outbound)

-----------------------------------------------------------------------------
(* Properties.                                                               *)

Streams ==
  [opening : {"none", "requested", "negotiated"}, io : Nat, held : Seq(Nat),
   mail : {"quiet", "message", "eof", "broken"}]

(* Every variable has its type, and a failed stream is in the map until the  *)
(* next poll sweeps it.                                                      *)
TypeOK ==
  /\ DOMAIN streams \subseteq StreamIds
  /\ \A s \in DOMAIN streams : streams[s] \in Streams
  /\ last_outgoing_id \in Seq(OutIds)
  /\ last_incoming_id \in 0..MaxInbound
  /\ failed \subseteq DOMAIN streams
  /\ woken \in BOOLEAN /\ requests \in Nat /\ ios \in Nat
  /\ target \in Seq(StreamIds)
  /\ wrote \in [StreamIds -> Seq(Nat)]
  /\ lost \subseteq Nat
  /\ {opens, implicit, replaced, refused, mails} \subseteq Nat

Waiting == {id \in OutIds : /\ Outgoing(id) \in DOMAIN streams
                            /\ streams[Outgoing(id)].opening = "requested"}

(* The numbers queued for substreams to come are those of the requests the   *)
(* swarm works on, and one for each request refused (handler.rs:163) and     *)
(* each stream implicitly opened (handler.rs:141), which stay behind.        *)
IdAccounting == Len(last_outgoing_id) = requests + refused + implicit

(* As long as no stream is opened implicitly or opened again over another,   *)
(* the numbers queued are those of the streams that wait for a substream,    *)
(* each once: no substream is given to a stream that has one.                *)
IdsAreWaiting ==
  implicit = 0 /\ replaced = 0 =>
    /\ Range(last_outgoing_id) = Waiting
    /\ Cardinality(Waiting) = Len(last_outgoing_id)

Increasing(seq) == \A i, j \in DOMAIN seq : i < j => seq[i] < seq[j]

(* No command is lost but with a stream that is swept, replaced or gone, and *)
(* the commands for one stream are written once and in the order they were   *)
(* given, whatever opens, reopens and failures come in between.              *)
CommandsInOrder ==
  \A s \in StreamIds :
    LET held == IF s \in DOMAIN streams THEN streams[s].held ELSE <<>>
        kept == wrote[s] \o held
    IN  /\ Increasing(kept)
        /\ {c \in DOMAIN target : target[c] = s} \ lost = Range(kept)

(* A stream that has asked for a substream gets one, unless a number left in *)
(* the queue took it.                                                        *)
NoStarvation ==
  \A id \in OutIds :
    id \in Waiting ~> id \notin Waiting \/ Len(last_outgoing_id) > requests

(* A substream in use is not exchanged for another.                          *)
NoTakeover ==
  [][ \A s \in DOMAIN streams \cap DOMAIN streams' :
        streams[s].opening = "negotiated" /\ streams'[s].opening = "negotiated"
          => streams'[s].io = streams[s].io ]_vars
=============================================================================
