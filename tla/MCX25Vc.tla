------------------------------ MODULE MCX25Vc -------------------------------
(* X25Vc on small numbers: modulos 3 and 5, packets of one octet. *)
EXTENDS X25Vc

MCPacketSizes == {1}
MCOctets == {1}

(* Two messages: one packet, and two packets chained by the more bit. *)
MCMessages == {[data |-> <<1>>, qualifier |-> FALSE],
               [data |-> <<1, 1>>, qualifier |-> TRUE]}

MCParams(modulos, windows) ==
    [modulo : modulos, send_packet_size : MCPacketSizes,
     recv_packet_size : MCPacketSizes,
     send_window_size : windows, recv_window_size : {1}]

(* Local windows that suit either modulo. *)
MCSmallWindows == MCParams({3, 5}, {1, 2})

(* A local window only the extended modulo admits. *)
MCLargeWindow == MCParams({5}, {4})

(* All packets a peer can form, with one sequence number out of any range. *)
MCPeerPackets ==
    [type : {"CallRequest", "CallAccept"}, modulo : {3, 5},
     packet_size : {Absent, <<1, 1>>}, window_size : {Absent, <<4, 1>>, <<1, 2>>}]
    \cup [type : {"Data"}, send_seq : 0 .. 5, recv_seq : 0 .. 5,
          data : {<<1>>}, qualifier : {FALSE}, more : BOOLEAN]
    \cup [type : {"ReceiveReady"}, recv_seq : 0 .. 5]
    \cup PlainPackets
=============================================================================
