--------------------------- MODULE MCX25VcThreads ---------------------------
(* X25VcThreads on small instances: modulo 2, a window of one packet,      *)
(* packets of one octet, a pad thread and a main thread.                   *)
EXTENDS X25VcThreads

CONSTANTS main, pad

MCPacketSizes == {1}
MCOctets == {1}

MCMessages == {[data |-> <<1>>, qualifier |-> FALSE],
               [data |-> <<1, 1>>, qualifier |-> FALSE]}
MCOneMessage == {[data |-> <<1>>, qualifier |-> FALSE]}

MCLocalParams == [modulo : {2}, send_packet_size : {1}, recv_packet_size : {1},
                  send_window_size : {1}, recv_window_size : {1}]

MCThreads == {main, pad}
MCOneThread == {main}

(* As xotpad uses the circuit: the pad thread receives and answers, the    *)
(* main thread sends, flushes and clears.                                  *)
MCPadOps == (main :> {"send", "flush", "clear"}) @@ (pad :> {"recv", "send"})

(* ... and with reset, which the library offers and xotpad does not use. *)
MCAllOps == (main :> {"send", "flush", "clear", "reset"}) @@ (pad :> {"recv"})
MCPadResetOps == (main :> {"send", "flush", "reset"}) @@ (pad :> {"recv", "clear"})

MCAccept == [type |-> "CallAccept", modulo |-> 2, packet_size |-> Absent,
             window_size |-> Absent]
MCRequest == [MCAccept EXCEPT !.type = "CallRequest"]

MCData(seqs, acks) == [type : {"Data"}, send_seq : seqs, recv_seq : acks,
                       data : {<<1>>}, qualifier : {FALSE}, more : BOOLEAN]
MCReady(acks) == [type : {"ReceiveReady"}, recv_seq : acks]

(* Any packet with any sequence number. *)
MCAnyPacket == {MCAccept, MCRequest} \cup MCData(0 .. 1, 0 .. 1)
               \cup MCReady(0 .. 1) \cup PlainPackets

(* Enough of them for every state of the circuit. *)
MCSomePackets == {MCAccept, MCRequest} \cup MCData({0, 1}, {0}) \cup MCReady({1})
                 \cup PlainPackets

(* Peers that say little, to single out one cause at a time. *)
MCSilentPeer == {}
MCCaller     == {MCRequest, [type |-> "ClearRequest"]}
MCClearer    == {MCAccept, [type |-> "ClearRequest"]}
MCMissequencer == {MCAccept} \cup MCData({1}, {0})
MCChatterer  == {[type |-> "ReceiveNotReady"]}
MCConfirmer  == {MCAccept, [type |-> "ClearConfirm"]}

MCNoOps    == [t \in MCThreads |-> {}]
MCRecvOps  == (main :> {}) @@ (pad :> {"recv"})
MCSendOps  == (main :> {"send"}) @@ (pad :> {})
MCResetOps == (main :> {"reset"}) @@ (pad :> {})
MCClearOps == (main :> {"clear"}) @@ (pad :> {"recv"})
=============================================================================
