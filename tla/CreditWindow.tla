---------------------------- MODULE CreditWindow ----------------------------
(***************************************************************************)
(* What a flow control window is for, without sequence numbers that wrap:  *)
(* "the number of packets that can be sent before waiting for an           *)
(* acknowledgment" (libxotpad/src/x25/params.rs).                          *)
(***************************************************************************)
EXTENDS Naturals

CONSTANT Size

VARIABLES sent, acked   \* how many packets were sent, and acknowledged

Init == sent = 0 /\ acked = 0

Send == /\ sent - acked < Size
        /\ sent' = sent + 1
        /\ UNCHANGED acked

(* An acknowledgement covers packets that were sent, never fewer than the  *)
(* one before.                                                             *)
Ack(n) == /\ acked <= n /\ n <= sent
          /\ acked' = n
          /\ UNCHANGED sent

Next == Send \/ \E n \in acked .. sent : Ack(n)

Spec == Init /\ [][Next]_<<sent, acked>>
=============================================================================
