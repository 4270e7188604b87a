------------------------------- MODULE X25Seq -------------------------------
(***************************************************************************)
(* Packet sequence numbering and the flow control window of                *)
(* libxotpad/src/x25/seq.rs.  A modulo is a number here (the enum's        *)
(* discriminant, which is all the code ever uses of it); the code has two, *)
(* 8 and 128.  The arithmetic is on u8 in the code: WindowFitsU8 in        *)
(* SeqProofs shows that no sum leaves 0..255, so Int is faithful.       *)
(***************************************************************************)
EXTENDS Naturals

(* The sequence numbers of a numbering scheme. *)
SeqNos(modulo) == 0 .. (modulo - 1)

(* Slip: the number is not wrapped. *)
NextSeqUnwrapped(seq, modulo) == seq + 1

NextSeq(seq, modulo) == (seq + 1) % modulo

(* The struct Window, with the sizes its constructor's assertion admits. *)
Windows(modulo) == [start   : SeqNos(modulo),
                    size    : 1 .. (modulo - 1),
                    modulo  : {modulo},
                    current : SeqNos(modulo)]

(* The assertion of Window::new. *)
WindowSizeOK(size, modulo) == size > 0 /\ size < modulo

NewWindow(size, modulo) ==
    [start |-> 0, size |-> size, modulo |-> modulo, current |-> 0]

(* Slip: one packet too many. *)
IsOpenLate(w) == w.current # (w.start + w.size + 1) % w.modulo

IsOpen(w) == w.current # (w.start + w.size) % w.modulo

Incr(w) ==
    IF IsOpen(w) THEN [w EXCEPT !.current = NextSeq(w.current, w.modulo)] ELSE w

(* Slip: any number of the modulo will do. *)
AnySeq(seq, start, end, modulo) == ~(seq > modulo - 1)

(* Slip: a range that wraps around is treated like one that does not. *)
UnwrappedRange(seq, start, end, modulo) ==
    ~(seq > modulo - 1) /\ seq >= start /\ seq <= end

(* Slip: the end is excluded. *)
OpenEndedRange(seq, start, end, modulo) ==
    /\ ~(seq > modulo - 1)
    /\ \/ start = end /\ seq = start
       \/ start < end /\ seq >= start /\ seq < end
       \/ start > end /\ (seq >= start \/ seq < end)

IsSeqInRange(seq, start, end, modulo) ==
    /\ ~(seq > modulo - 1)
    /\ \/ start = end /\ seq = start
       \/ start < end /\ seq >= start /\ seq <= end
       \/ start > end /\ (seq >= start \/ seq <= end)

(* update_start answers whether seq was accepted and moves start if it was. *)
StartAccepted(w, seq) == IsSeqInRange(seq, w.start, w.current, w.modulo)

UpdateStart(w, seq) ==
    IF StartAccepted(w, seq) THEN [w EXCEPT !.start = seq] ELSE w

-----------------------------------------------------------------------------
(* Reference definitions: distances around the circle of sequence numbers. *)

(* How far to is ahead of from. *)
Dist(from, to, modulo) == IF to >= from THEN to - from ELSE to + modulo - from

(* Packets sent and not yet acknowledged. *)
Outstanding(w) == Dist(w.start, w.current, w.modulo)
=============================================================================
