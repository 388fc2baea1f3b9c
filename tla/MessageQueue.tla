---------------------------- MODULE MessageQueue ----------------------------
(***************************************************************************)
(* What decorations/wire.rs promises of a connection: each message arrives  *)
(* once, in order and with its own descriptors.  A message is the sequence  *)
(* of its descriptors.                                                      *)
(***************************************************************************)
EXTENDS Naturals, Sequences

VARIABLES sent, received

Init == sent = <<>> /\ received = <<>>

Send == received' = received /\ Len(sent') = Len(sent) + 1 /\ SubSeq(sent', 1, Len(sent)) = sent

Receive ==
  /\ Len(received) < Len(sent)
  /\ received' = Append(received, sent[Len(received) + 1])
  /\ sent' = sent

Spec == Init /\ [][Send \/ Receive]_<<sent, received>>
=============================================================================
