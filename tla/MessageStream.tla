--------------------------- MODULE MessageStream ---------------------------
(***************************************************************************)
(* What a stream transport promises: the messages accepted for sending are *)
(* received in that order, each once and unaltered.                        *)
(***************************************************************************)
EXTENDS Sequences, Naturals

CONSTANT Message

VARIABLES sent, received

Init == sent = <<>> /\ received = <<>>

Send == \E m \in Message : sent' = Append(sent, m) /\ UNCHANGED received

Receive ==
    /\ Len(received) < Len(sent)
    /\ received' = Append(received, sent[Len(received) + 1])
    /\ UNCHANGED sent

Spec == Init /\ [][Send \/ Receive]_<<sent, received>>
=============================================================================
