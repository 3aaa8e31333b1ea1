------------------------------- MODULE Channel -------------------------------
(***************************************************************************)
(* What one direction of a connection promises: the receiver gets what the *)
(* sender has sent, in order, each byte once and none in between left out, *)
(* until the connection breaks.  Bytes are numbered as they are sent.      *)
(***************************************************************************)
EXTENDS Naturals, Sequences

CONSTANT MaxSent   \* bound: no more bytes than this are sent

VARIABLES sent, received, open

vars == <<sent, received, open>>

Init == sent = <<>> /\ received = <<>> /\ open = TRUE

Send ==
    /\ Len(sent) < MaxSent
    /\ sent' = Append(sent, Len(sent) + 1)
    /\ UNCHANGED <<received, open>>

Receive ==
    /\ open
    /\ \E n \in Len(received) + 1 .. Len(sent) : received' = SubSeq(sent, 1, n)
    /\ UNCHANGED <<sent, open>>

Break == open /\ open' = FALSE /\ UNCHANGED <<sent, received>>

Next == Send \/ Receive \/ Break

Spec == Init /\ [][Next]_vars
=============================================================================
