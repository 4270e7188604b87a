----------------------------- MODULE MCXotLink ------------------------------
(* XotLink with octets of three values, packets of two or three octets and  *)
(* reads of at most five octets: less than a frame, or the end of one and   *)
(* the beginning of the next.                                               *)
EXTENDS XotLink

(* A shortest and a longest packet, and one too short for send. *)
MCPackets == {<<0, 0>>, <<0, 0, 2>>, <<1>>}

(* An unsupported version, a packet too short, a packet too long. *)
MCNonFrames == {<<0, 1, 0, 2>>, <<0, 0, 0, 1, 1>>, <<0, 0, 1, 1, 0>>}
=============================================================================
