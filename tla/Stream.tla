-------------------------------- MODULE Stream --------------------------------
(***************************************************************************)
(* What the layers above take a connection for: whatever is sent arrives,  *)
(* whole, once and in order.  SendQueue (from send to the socket) and      *)
(* Framing (from the socket to data_received) each implement it.           *)
(***************************************************************************)
EXTENDS Naturals, Sequences

CONSTANT Message

VARIABLES sent, received

Init == sent = <<>> /\ received = <<>>

Send ==
    /\ \E m \in Message : sent' = Append(sent, m)
    /\ UNCHANGED received

Receive ==
    /\ Len(received) < Len(sent)
    /\ received' = Append(received, sent[Len(received) + 1])
    /\ UNCHANGED sent

Next == Send \/ Receive

Spec == Init /\ [][Next]_<<sent, received>>

\* Nothing that was sent stays under way for ever.
FairSpec == Spec /\ WF_<<sent, received>>(Receive)
===============================================================================
