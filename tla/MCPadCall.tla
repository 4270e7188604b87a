----------------------------- MODULE MCPadCall ------------------------------
(* PadCall on small instances: users who type an octet at a time, a         *)
(* carriage return that forwards, and two parameter requests.               *)
EXTENDS PadCall

MCTexts == {<<1>>, <<CR>>}

MCParam(echo, forward, idled, lf, edit) ==
    [echo |-> echo, forward |-> forward, idle |-> idled, lf_insert |-> lf, editing |-> edit]

MCPadParams == {MCParam(FALSE, {CR}, TRUE, {}, FALSE)}

MCRequests ==
    {[kind |-> "Read"],
     [kind |-> "SetRead", request |-> <<[param |-> "editing", value |-> TRUE, valid |-> TRUE]>>]}
=============================================================================
