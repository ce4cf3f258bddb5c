----------------------------- MODULE RpcStream -----------------------------
(* One stream of a connection: `Stream` (stream.rs) with its `Inner`         *)
(* (state.rs), the substream it runs on, and the remote end of it.           *)
(*                                                                           *)
(* `Inner::poll` is split at its reads and writes, because bytes and credit  *)
(* may come in between: pc says where in the function the task is, "idle"    *)
(* that it is not in it.  A function that returns Ready is called again by   *)
(* the connection task; one that returns Pending is called again only after  *)
(* a wake-up, which `woken` records.                                         *)
EXTENDS FrameBuffer, SequencesExt

CONSTANTS
  MaxSends,    \* frames the remote sends                        (bound)
  MaxAdds,     \* commands the user adds                         (bound)
  MaxReopens,  \* times the remote closes the substream          (bound)
  Credits,     \* bytes poll_write may accept at once
  LocalLen,    \* payload length of the frames this side writes
  Truncates    \* may the remote's close cut a frame short?

ASSUME RpcStreamAssumption ==
  /\ MaxSends \in Nat /\ MaxAdds \in Nat /\ MaxReopens \in Nat
  /\ Credits \subseteq Nat \ {0}
  /\ LocalLen \in PayloadLens
  /\ Truncates \in BOOLEAN

VARIABLES
  outgoing,      \* StreamId::Outgoing or StreamId::Incoming
  opening,       \* Stream::opening_state; "failed" once poll returned Err
  queue,         \* Inner::command_queue, the front entry partly written
  data, cap,     \* Inner::buffer
  pc,            \* where in Inner::poll the task is
  send_pending, recv_pending,
  woken,         \* the task is scheduled to call poll
  rx,            \* bytes the substream can be read for now
  net,           \* bytes of the remote on their way
  closed,        \* the remote has closed the substream
  credit,        \* bytes the substream takes now
  tx,            \* bytes written on the current substream      (history)
  log,           \* frames ever put in the queue                (history)
  sent,          \* frames the remote sent                      (history)
  got,           \* frames cut from the buffer                  (history)
  closes         \* substreams the remote closed                (history)

stream  == <<outgoing, opening>>
buffer  == <<data, cap>>
written == <<queue, log>>
task    == <<pc, send_pending, recv_pending, woken>>
wire    == <<rx, net, closed, closes, sent>>
sink    == <<credit, tx>>
vars == <<stream, buffer, written, task, wire, sink, got>>

(* The remote numbers its frames, so that no two are alike.                  *)
SentFrames == [n : 1..MaxSends, kind : Kinds, len : PayloadLens]

LocalFrame(kind) == [n |-> Len(log) + 1, kind |-> kind, len |-> LocalLen]

Entry(f) == [offset |-> 0, frame |-> f]

(* Slip: the answer is pushed in front of a message partly written.          *)
Enqueue_Front(f) ==
  /\ queue' = <<Entry(f)>> \o queue
  /\ log' = Append(log, f)

(* command_queue.push_back((0, bytes))                                       *)
Enqueue(f) ==
  /\ queue' = Append(queue, Entry(f))
  /\ log' = Append(log, f)

Handshake == [n |-> 1, kind |-> "handshake", len |-> LocalLen]
AskMenu   == [n |-> 2, kind |-> "menuQuery", len |-> LocalLen]

(* Inner::new: the handshake, and the menu query of a stream opened by       *)
(* Command::Open.  An incoming stream is created with its substream.         *)
Init ==
  /\ outgoing \in BOOLEAN
  /\ opening = IF outgoing THEN "none" ELSE "negotiated"
  /\ log \in IF outgoing THEN {<<Handshake>>, <<Handshake, AskMenu>>}
                         ELSE {<<Handshake>>}
  /\ queue = [i \in DOMAIN log |-> Entry(log[i])]
  /\ data = <<>> /\ cap = InitialSize
  /\ pc = "idle" /\ send_pending = FALSE /\ recv_pending = FALSE
  /\ woken = TRUE
  /\ rx = <<>> /\ net = <<>> /\ closed = FALSE /\ closes = 0 /\ sent = <<>>
  /\ credit = 0 /\ tx = <<>> /\ got = <<>>

-----------------------------------------------------------------------------
(* The substream and the remote.                                             *)

RemoteSend ==
  /\ opening = "negotiated" /\ ~closed /\ Len(sent) < MaxSends
  /\ \E f \in SentFrames :
       /\ f.n = Len(sent) + 1
       /\ sent' = Append(sent, f)
       /\ net' = net \o Bytes(f)
  /\ UNCHANGED <<stream, buffer, written, task, rx, closed, closes, sink, got>>

(* Bytes arrive in pieces of any size and wake the reader.                   *)
Arrive ==
  /\ opening = "negotiated"
  /\ \E n \in 1..Len(net) :
       /\ rx' = rx \o SubSeq(net, 1, n)
       /\ net' = SubSeq(net, n + 1, Len(net))
  /\ woken' = TRUE
  /\ UNCHANGED <<stream, buffer, written, pc, send_pending, recv_pending,
                 closed, closes, sent, sink, got>>

(* A graceful close lets everything sent arrive; a reset loses the bytes     *)
(* beyond some point.                                                        *)
RemoteClose ==
  /\ opening = "negotiated" /\ ~closed /\ closes < MaxReopens
  /\ closed' = TRUE
  /\ \E n \in IF Truncates THEN 0..Len(net) ELSE {Len(net)} :
       net' = SubSeq(net, 1, n)
  /\ closes' = closes + 1
  /\ woken' = TRUE
  /\ UNCHANGED <<stream, buffer, written, pc, send_pending, recv_pending,
                 rx, sent, sink, got>>

(* The remote has read what was written; a blocked writer is woken.          *)
Credit ==
  /\ opening = "negotiated" /\ credit = 0
  /\ credit' \in Credits
  /\ woken' = (woken \/ send_pending)
  /\ UNCHANGED <<stream, buffer, written, pc, send_pending, recv_pending,
                 wire, tx, got>>

(* The swarm hands the stream a substream: Stream::negotiated.  Nothing else *)
(* of the stream is reset.                                                   *)
Negotiated ==
  /\ opening = "requested"
  /\ opening' = "negotiated"
  /\ rx' = <<>> /\ net' = <<>> /\ closed' = FALSE /\ credit' = 0 /\ tx' = <<>>
  /\ woken' = TRUE
  /\ UNCHANGED <<outgoing, buffer, written, pc, send_pending, recv_pending,
                 closes, sent, got>>

(* Command::Send for this stream: Stream::add, then the handler's waker.     *)
Add ==
  /\ pc = "idle" /\ opening # "failed"
  /\ Len(SelectSeq(log, LAMBDA f : f.kind = "query")) < MaxAdds
  /\ Enqueue(LocalFrame("query"))
  /\ woken' = TRUE
  /\ UNCHANGED <<stream, buffer, pc, send_pending, recv_pending, wire, sink,
                 got>>

-----------------------------------------------------------------------------
(* poll_stream and Inner::poll.                                              *)

(* opening_state is None: ask for a substream.                               *)
Request ==
  /\ pc = "idle" /\ woken /\ outgoing /\ opening = "none"
  /\ opening' = "requested"
  /\ UNCHANGED <<outgoing, buffer, written, task, wire, sink, got>>

Poll ==
  /\ pc = "idle" /\ woken /\ opening = "negotiated"
  /\ pc' = "send"
  /\ send_pending' = FALSE /\ recv_pending' = FALSE
  /\ woken' = FALSE
  /\ UNCHANGED <<stream, buffer, written, wire, sink, got>>

(* Nothing (more) to write: on to the reading, or to the end of the loop.    *)
SkipSend ==
  /\ pc = "send" /\ (send_pending \/ queue = <<>>)
  /\ pc' = IF recv_pending THEN "idle" ELSE "recv"
  /\ UNCHANGED <<stream, buffer, written, send_pending, recv_pending, woken,
                 wire, sink, got>>

(* Slip: takes the message for written in full.                              *)
Write_All ==
  /\ pc = "send" /\ ~send_pending /\ queue # <<>> /\ credit > 0
  /\ tx' = tx \o Bytes(Head(queue).frame)
  /\ credit' = credit - Size(Head(queue).frame)
  /\ queue' = Tail(queue)
  /\ UNCHANGED <<stream, buffer, log, task, wire, got>>

(* poll_send: poll_write takes what the substream has credit for.            *)
Write ==
  /\ pc = "send" /\ ~send_pending /\ queue # <<>> /\ credit > 0
  /\ LET e == Head(queue)
         left == Size(e.frame) - e.offset
         n == IF left < credit THEN left ELSE credit
     IN  /\ tx' = tx \o SubSeq(Bytes(e.frame), e.offset + 1, e.offset + n)
         /\ credit' = credit - n
         /\ queue' = IF n = left THEN Tail(queue)
                     ELSE [queue EXCEPT ![1].offset = @ + n]
  /\ UNCHANGED <<stream, buffer, log, task, wire, got>>

WriteBlocked ==
  /\ pc = "send" /\ ~send_pending /\ queue # <<>> /\ credit = 0
  /\ send_pending' = TRUE
  /\ UNCHANGED <<stream, buffer, written, pc, recv_pending, woken, wire, sink,
                 got>>

(* Inner::poll returns Ready(Err): the handler will drop the stream.         *)
Fail ==
  /\ opening' = "failed" /\ pc' = "idle"
  /\ UNCHANGED <<outgoing, buffer, written, send_pending, recv_pending, woken,
                 wire, sink>>

(* poll_write on a substream the remote has reset: not an UnexpectedEof.     *)
WriteFails ==
  /\ pc = "send" /\ ~send_pending /\ queue # <<>> /\ closed
  /\ Fail
  /\ UNCHANGED got

(* try_cut                                                                   *)
Cut(f) ==
  /\ data' = AfterCut(data, f)
  /\ cap' = CapAfterCut(cap, f)
  /\ got' = Append(got, f)

(* A heartbeat or a menu query is answered by the stream itself, and the     *)
(* loop over try_cut goes on.                                                *)
Answer ==
  /\ pc = "recv"
  /\ \E f \in Complete(data) :
       /\ Cut(f)
       /\ \/ f.kind = "heartbeat" /\ Enqueue(LocalFrame("heartbeat"))
          \/ f.kind = "menuQuery" /\ Enqueue(LocalFrame("menuAnswer"))
  /\ UNCHANGED <<stream, task, wire, sink>>

(* Slip: the task goes to sleep on a message returned.                       *)
Deliver_Asleep ==
  /\ pc = "recv"
  /\ \E f \in Complete(data) :
       /\ Cut(f)
       /\ f.kind \notin {"heartbeat", "menuQuery", "garbage"}
  /\ pc' = "idle"
  /\ UNCHANGED <<stream, written, send_pending, recv_pending, woken, wire, sink>>

(* Everything else is returned to the handler, which is polled again.        *)
Deliver ==
  /\ pc = "recv"
  /\ \E f \in Complete(data) :
       /\ Cut(f)
       /\ f.kind \notin {"heartbeat", "menuQuery", "garbage"}
  /\ pc' = "idle" /\ woken' = TRUE
  /\ UNCHANGED <<stream, written, send_pending, recv_pending, wire, sink>>

(* MessageHeader::binprot_read, or that of a menu, fails.                    *)
ParseFails ==
  /\ pc = "recv"
  /\ \E f \in Complete(data) : f.kind = "garbage" /\ got' = Append(got, f)
  /\ Fail

NoFrame ==
  /\ pc = "recv" /\ Incomplete(data)
  /\ pc' = "fill"
  /\ UNCHANGED <<stream, buffer, written, send_pending, recv_pending, woken,
                 wire, sink, got>>

(* poll_fill: one poll_read.  A buffer it fills doubles, and poll_fill reads *)
(* on before anything is cut.                                                *)
Fill ==
  /\ pc = "fill"
  /\ LET room == Room(data, cap)
         n == IF Len(rx) < room THEN Len(rx) ELSE room
     IN  /\ n > 0 \/ room = 0
         /\ data' = data \o SubSeq(rx, 1, n)
         /\ rx' = SubSeq(rx, n + 1, Len(rx))
         /\ cap' = CapAfterRead(cap, data, n)
         /\ pc' = IF Len(data) + n < cap THEN "recv" ELSE "fill"
  /\ UNCHANGED <<stream, written, send_pending, recv_pending, woken, net,
                 closed, closes, sent, sink, got>>

(* Slip: returns Pending with answers to write.                              *)
FillBlocked_Asleep ==
  /\ pc = "fill" /\ Room(data, cap) > 0
  /\ rx = <<>> /\ ~(closed /\ net = <<>>)
  /\ recv_pending' = TRUE /\ pc' = "idle"
  /\ UNCHANGED <<stream, buffer, written, send_pending, woken, wire, sink, got>>

(* poll_read is Pending.  Inner::poll returns Pending unless there is        *)
(* something it may still write.                                             *)
FillBlocked ==
  /\ pc = "fill" /\ Room(data, cap) > 0
  /\ rx = <<>> /\ ~(closed /\ net = <<>>)
  /\ recv_pending' = TRUE
  /\ pc' = IF send_pending \/ queue = <<>> THEN "idle" ELSE "send"
  /\ UNCHANGED <<stream, buffer, written, send_pending, woken, wire, sink, got>>

(* poll_read returns 0 and poll_fill Ok(0), whatever it read before that.    *)
ReadsZero ==
  /\ pc = "fill" /\ Room(data, cap) > 0
  /\ rx = <<>> /\ closed /\ net = <<>>

(* UnexpectedEof on an outgoing stream: "reopen stream".                     *)
Reopen ==
  /\ ReadsZero /\ outgoing
  /\ opening' = "requested" /\ pc' = "idle"
  /\ UNCHANGED <<outgoing, buffer, written, send_pending, recv_pending, woken,
                 wire, sink, got>>

Eof ==
  /\ ReadsZero /\ ~outgoing
  /\ Fail
  /\ UNCHANGED got

-----------------------------------------------------------------------------
Environment == RemoteSend \/ Arrive \/ RemoteClose \/ Credit \/ Negotiated \/ Add

Task ==
  \/ Request \/ Poll
  \/ SkipSend \/ Write \/ WriteBlocked \/ WriteFails
  \/ Answer \/ Deliver \/ ParseFails \/ NoFrame
  \/ Fill \/ FillBlocked \/ Reopen \/ Eof

Next == Environment \/ Task

Spec == Init /\ [][Next]_vars

(* A woken task is polled (tokio), sent bytes arrive, and the remote goes on *)
(* reading and accepts substreams (the assumption on the other side).        *)
FairSpec ==
  /\ Spec
  /\ WF_vars(Task)
  /\ WF_vars(Arrive) /\ WF_vars(Credit) /\ WF_vars(Negotiated)
-----------------------------------------------------------------------------
(* Properties.                                                               *)

Place == {"idle", "send", "recv", "fill"}

(* An entry of the queue has bytes left to write: on one that has none the   *)
(* loop of poll_send would never end (state.rs:248-256).                     *)
Entries ==
  {e \in [offset : Nat, frame : Frames] : e.offset < Size(e.frame)}

(* Every variable has its type, and the bytes of the buffer, of the wire and *)
(* of the sink are bytes of frames.                                          *)
TypeOK ==
  /\ outgoing \in BOOLEAN
  /\ opening \in {"none", "requested", "negotiated", "failed"}
  /\ queue \in Seq(Entries)
  /\ data \in Seq(Frames \X Nat) /\ cap \in Nat
  /\ pc \in Place
  /\ send_pending \in BOOLEAN /\ recv_pending \in BOOLEAN /\ woken \in BOOLEAN
  /\ rx \in Seq(Frames \X Nat) /\ net \in Seq(Frames \X Nat)
  /\ closed \in BOOLEAN /\ closes \in Nat
  /\ credit \in Nat /\ tx \in Seq(Frames \X Nat)
  /\ log \in Seq(Frames) /\ sent \in Seq(Frames) /\ got \in Seq(Frames)

(* poll_read is never given an empty slice, and so never returns a zero that *)
(* does not mean the end of the substream: after every fill and every cut    *)
(* (state.rs:95-101, 120-122) the buffer has room, and its size is a power   *)
(* of two that is not below INITIAL_SIZE.                                    *)
RoomToRead ==
  /\ Len(data) < cap
  /\ InitialSize <= cap
  /\ IsPowerOfTwo(cap)

(* The buffer grows only by doubling, only when a read filled it to the last *)
(* byte, and cutting a message never makes it larger (state.rs:97-100, 121). *)
CapStep ==
  [][ /\ cap' > cap => cap' = 2 * cap /\ Len(data') = cap
      /\ Len(data') < Len(data) => cap' <= cap ]_vars

(* The bytes of the queue not yet written.                                   *)
Unwritten ==
  FlattenSeq([i \in DOMAIN queue |->
    SubSeq(Bytes(queue[i].frame), queue[i].offset + 1, Size(queue[i].frame))])

Queued == FlattenSeq([i \in DOMAIN log |-> Bytes(log[i])])

(* Whatever poll_write accepts at a time, what was written and what is still *)
(* queued are the queued frames in order, none lost, repeated or interrupted *)
(* by the answer to a heartbeat (state.rs:186, 229, 244-259).  A substream   *)
(* opened again goes on where the one before it stopped.                     *)
WritesInOrder ==
  /\ IsSuffix(tx \o Unwritten, Queued)
  /\ closes = 0 => tx \o Unwritten = Queued

(* A task that sleeps, or that waits for a new substream after the end of    *)
(* one, has cut every complete frame it has buffered, but for one case:      *)
(* poll_fill found a read to end exactly at the end of the buffer, doubled   *)
(* it and returned the Pending, or the zero, of its next read without        *)
(* cutting (state.rs:94-101, 237-240).                                       *)
StallOnlyAtBoundary ==
  /\ pc = "idle" /\ Complete(data) # {}
  /\ opening = "requested" \/ (opening = "negotiated" /\ ~woken)
  => 2 * Len(data) = cap

(* A message nobody sent, or sent out of order, is cut only on a stream that *)
(* was opened again: a substream that ends within a frame leaves a part of   *)
(* it in the buffer, and the new substream's bytes are read after it         *)
(* (stream.rs:72-76).                                                        *)
MisframedOnlyByReopen ==
  IsPrefix(got, sent) \/ (outgoing /\ closes > 0)

(* The stream is a pipe of whole messages in both its first and its later    *)
(* substreams, as long as no substream ends within a frame.                  *)
Pipe == INSTANCE MessagePipe WITH Message <- SentFrames
PipeSpec == Pipe!Spec

(* What is queued is written, although a command or an answer is queued      *)
(* while the task sleeps, or while it has only reads left to wait for        *)
(* (state.rs:153-167).                                                       *)
QueueDrains == queue # <<>> ~> queue = <<>> \/ opening = "failed"

(* Every message the remote sends is cut from the buffer, unless the stream  *)
(* ends or poll_fill leaves it in a buffer it just doubled: nobody polls the *)
(* task again before more bytes come (state.rs:94-101).                      *)
MessagesArrive ==
  \A n \in 1..MaxSends :
    Len(sent) >= n ~> \/ Len(got) >= n \/ opening = "failed" \/ closes > 0
                     \/ 2 * Len(data) = cap
=============================================================================
