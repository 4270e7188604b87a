----------------------------- MODULE MCX25Call ------------------------------
(* X25Call on small instances: modulos 3 and 5, packets of one or two      *)
(* octets, a message of one octet and one of three.                        *)
EXTENDS X25Call

MCPacketSizes == {1, 2}
MCOctets == 1 .. 4

MCMessages == {[data |-> <<1>>, qualifier |-> TRUE],
               [data |-> <<2, 3, 4>>, qualifier |-> FALSE]}

MCLongMessage == {[data |-> <<2, 3, 4>>, qualifier |-> FALSE]}

MCTwoEach  == [a |-> 2, b |-> 2]
MCTwoOne   == [a |-> 2, b |-> 1]
MCNoMessage == [a |-> 0, b |-> 0]

MCParam(m, ss, rs, sw, rw) ==
    [modulo |-> m, send_packet_size |-> ss, recv_packet_size |-> rs,
     send_window_size |-> sw, recv_window_size |-> rw]

(* The ends differ in modulo, sizes and windows, either way round. *)
MCLocalParams == {MCParam(3, 1, 2, 2, 1), MCParam(5, 2, 1, 1, 4)}
MCOneParams == {MCParam(3, 2, 2, 2, 2)}
MCNarrowParams == {MCParam(3, 2, 2, 1, 1)}
=============================================================================
