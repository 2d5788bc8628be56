------------------------------ MODULE Delivery ------------------------------
(***************************************************************************)
(* What header compression is for: the headers put in at one end come out  *)
(* at the other, all of them, unchanged and in order.                      *)
(***************************************************************************)
EXTENDS Naturals, Sequences

CONSTANT Header

VARIABLES sent, received

vars == << sent, received >>

Init == sent = << >> /\ received = << >>

Send(h) ==
    /\ sent' = Append(sent, h)
    /\ UNCHANGED received

Receive ==
    /\ Len(received) < Len(sent)
    /\ received' = Append(received, sent[Len(received) + 1])
    /\ UNCHANGED sent

Next == Receive \/ \E h \in Header : Send(h)

Spec == Init /\ [][Next]_vars
=============================================================================
