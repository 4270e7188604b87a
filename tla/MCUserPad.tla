----------------------------- MODULE MCUserPad ------------------------------
(* Instances of UserPad. *)
EXTENDS UserPad

MCOctets == {"^C", "^P", "CR", "DEL", "x", "half"}
=============================================================================
