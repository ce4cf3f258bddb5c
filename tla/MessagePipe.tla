---------------------------- MODULE MessagePipe ----------------------------
(* What a stream promises its reader: the messages the remote sent, whole,   *)
(* in order and once, however the bytes were cut up on the way.              *)
EXTENDS Naturals, Sequences

CONSTANT Message

VARIABLES sent, got

Init == sent = <<>> /\ got = <<>>

Send ==
  /\ \E m \in Message : sent' = Append(sent, m)
  /\ UNCHANGED got

Receive ==
  /\ Len(got) < Len(sent)
  /\ got' = Append(got, sent[Len(got) + 1])
  /\ UNCHANGED sent

Next == Send \/ Receive

Spec == Init /\ [][Next]_<<sent, got>>
=============================================================================
