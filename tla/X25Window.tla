----------------------------- MODULE X25Window ------------------------------
(***************************************************************************)
(* The life of one flow control window (the struct Window of               *)
(* libxotpad/src/x25/seq.rs): the sender takes the numbers of the packets  *)
(* it sends from it, the peer acknowledges with any octet.  sent and acked *)
(* count packets without wrapping: they are history, the code has only     *)
(* the window.                                                             *)
(***************************************************************************)
EXTENDS X25Seq

CONSTANTS Modulo, Size,
          MaxSent       \* bound: packets sent

ASSUME WindowAssumption == /\ Modulo \in Nat /\ Modulo > 1 /\ Modulo <= 128
                           /\ Size \in Nat /\ WindowSizeOK(Size, Modulo)
                           /\ MaxSent \in Nat

VARIABLES win, sent, acked

windowVars == <<win, sent, acked>>

WindowInit == /\ win = NewWindow(Size, Modulo)
              /\ sent = 0 /\ acked = 0

(* send_queued_data sends with the number seq() and then calls incr. *)
Send == /\ sent < MaxSent
        /\ IsOpen(win)
        /\ win' = Incr(win)
        /\ sent' = sent + 1
        /\ UNCHANGED acked

(* update_start accepts the peer's seq ... *)
AckAccepted(seq) == /\ StartAccepted(win, seq)
                    /\ win' = UpdateStart(win, seq)
                    /\ acked' = acked + Dist(win.start, seq, Modulo)
                    /\ UNCHANGED sent

(* ... or not, and then leaves the window alone. *)
AckRefused(seq) == /\ ~StartAccepted(win, seq)
                   /\ win' = UpdateStart(win, seq)
                   /\ UNCHANGED <<sent, acked>>

WindowNext == Send \/ \E seq \in 0 .. 255 : AckAccepted(seq) \/ AckRefused(seq)

WindowSpec == WindowInit /\ [][WindowNext]_windowVars

-----------------------------------------------------------------------------
(* The window's numbers stand for the counts, modulo Modulo, and the       *)
(* distance between them is the number of packets outstanding: a window    *)
(* smaller than the modulo never mistakes all for none (update_start,      *)
(* is_seq_in_range).                                                       *)
NumbersStandForCounts ==
    /\ win \in Windows(Modulo) /\ win.size = Size
    /\ sent \in Nat /\ acked \in Nat /\ acked <= sent
    /\ sent - acked = Outstanding(win)
    /\ sent - acked <= Size
    /\ win.start = acked % Modulo
    /\ win.current = sent % Modulo

(* No honest acknowledgement is refused: the number of any packet from the *)
(* last one acknowledged to the next one to be sent is accepted, and taken *)
(* for that packet and no other.                                           *)
HonestAckUnderstood ==
    \A n \in acked .. sent :
        /\ StartAccepted(win, n % Modulo)
        /\ acked + Dist(win.start, n % Modulo, Modulo) = n

(* The window does what CreditWindow, which never wraps, promises. *)
Credit == INSTANCE CreditWindow
ImplementsCredit == Credit!Spec
=============================================================================
