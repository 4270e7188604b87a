--------------------------- MODULE PacketChannel ----------------------------
(***************************************************************************)
(* What the link under a virtual circuit promises in one direction: the    *)
(* packets sent are received whole, once each and in order, up to where    *)
(* the connection ends (XotLink::send and XotLink::recv of                 *)
(* libxotpad/src/xot/link.rs).                                             *)
(***************************************************************************)
EXTENDS Sequences, Naturals

CONSTANT Packet

VARIABLES sent, got

Init == sent = <<>> /\ got = <<>>

Send(p) == /\ sent' = Append(sent, p)
           /\ UNCHANGED got

Receive == /\ Len(got) < Len(sent)
           /\ got' = Append(got, sent[Len(got) + 1])
           /\ UNCHANGED sent

Next == Receive \/ \E p \in Packet : Send(p)

Spec == Init /\ [][Next]_<<sent, got>>
=============================================================================
