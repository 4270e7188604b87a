------------------------------- MODULE MCPad --------------------------------
(* Pad on small instances: packets of two octets, a forwarding carriage   *)
(* return, a user who types one line and the beginning of the next.         *)
EXTENDS Pad

(* Forwarded after the first octet, sent as the packet is full after the    *)
(* third, and at the deadline. *)
MCTexts == {<<CR, 1, 1, 1>>}

MCParam(echo, forward, idled, lf, edit) ==
    [echo |-> echo, forward |-> forward, idle |-> idled, lf_insert |-> lf, editing |-> edit]

MCPadParams == {MCParam(TRUE, {CR}, TRUE, {"send", "echo"}, FALSE)}
MCPlainParams == {MCParam(FALSE, {}, FALSE, {}, FALSE)}

MCSetting(p, v, ok) == [param |-> p, value |-> v, valid |-> ok]

(* A request one setting of which is refused, one that succeeds, one that   *)
(* cannot be answered and one for a reset of all.                           *)
MCSets == {[kind |-> "Set", request |-> <<MCSetting("echo", FALSE, FALSE),
                                          MCSetting("lf_insert", {}, TRUE)>>],
           [kind |-> "SetRead", request |-> <<MCSetting("idle", FALSE, TRUE)>>],
           [kind |-> "SetRead", request |-> <<MCSetting("lf_insert", {"echo"}, TRUE),
                                              MCSetting("above 127", 0, FALSE)>>],
           [kind |-> "Set", request |-> <<>>]}

MCPeerMessages == MCSets \cup
    {DataMessage(<<CR>>), [kind |-> "Read"], [kind |-> "ClearInvitation"],
     [kind |-> "Malformed"]}

MCDataOnly == {DataMessage(<<2>>)}
=============================================================================
