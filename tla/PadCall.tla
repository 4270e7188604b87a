------------------------------ MODULE PadCall -------------------------------
(***************************************************************************)
(* A call between two users of this program: the PADs A and B, each a Pad  *)
(* with its threads, over one virtual call (libxotpad/src/pad.rs at both   *)
(* ends).  Between them is what X25Call shows of the circuit: messages     *)
(* arrive whole and in order, and before a clear that follows them; a      *)
(* clear request ends the other end and is confirmed, unless that one      *)
(* clears as well, which its engine does not expect.  What leaves a        *)
(* circuit is in the other's inbox at once: the way and recv_data_queue    *)
(* are one queue.  How much of it is on its way shows when the receiver    *)
(* clears, which loses that.                                               *)
(*                                                                         *)
(* aRead and bRead are history: the octets Pad::read gave each user.       *)
(***************************************************************************)
EXTENDS Integers, SequencesExt

CONSTANTS
    CR, LF, Texts, PadParams, PacketSize, ReadSize, SuppressEcho,
    Requests,           \* what a parameter request may ask for
    AOps, BOps,         \* what each main thread does
    MaxAOps, MaxBOps,   \* bounds: operations begun
    LinkMayFail

ASSUME PadCallAssumption ==
    /\ \A q \in Requests : q.kind \in {"Read", "SetRead"}
    /\ LinkMayFail \in BOOLEAN

VARIABLES
    aParams, aSendq, aDeadline, aRecvq, aRecvEnd, aSlot, aReply, aPoisoned, aPad, aIdle,
    aReader, aMain, aCircuit, aInbox, aOut, aSent, aTyped, aOwed, aBegun, aAsked,
    bParams, bSendq, bDeadline, bRecvq, bRecvEnd, bSlot, bReply, bPoisoned, bPad, bIdle,
    bReader, bMain, bCircuit, bInbox, bOut, bSent, bTyped, bOwed, bBegun, bAsked,
    clears,         \* the ends that have sent a clear request
    confirmed,      \* those whose clear request was confirmed
    link,
    aRead, bRead

aVars == <<aParams, aSendq, aDeadline, aRecvq, aRecvEnd, aSlot, aReply, aPoisoned, aPad, aIdle,
           aReader, aMain, aCircuit, aInbox, aOut, aSent, aTyped, aOwed, aBegun, aAsked, aRead>>
bVars == <<bParams, bSendq, bDeadline, bRecvq, bRecvEnd, bSlot, bReply, bPoisoned, bPad, bIdle,
           bReader, bMain, bCircuit, bInbox, bOut, bSent, bTyped, bOwed, bBegun, bAsked, bRead>>
wire == <<clears, confirmed, link>>
vars == <<aVars, bVars, wire>>

(* Nothing comes from an arbitrary peer. *)
A == INSTANCE Pad WITH
        params <- aParams, send_queue <- aSendq, deadline <- aDeadline, recv_queue <- aRecvq,
        recv_end <- aRecvEnd, slot <- aSlot, reply <- aReply, poisoned <- aPoisoned,
        pad <- aPad, idle <- aIdle, reader <- aReader, main <- aMain, circuit <- aCircuit,
        inbox <- aInbox, out <- aOut, sent <- aSent, typed <- aTyped, owed <- aOwed,
        begun <- aBegun, asked <- aAsked, answered <- 0, inputs <- 0,
        PeerMessages <- {}, MainOps <- AOps, MaxOps <- MaxAOps, MaxInput <- 0, MaxInbox <- 0

B == INSTANCE Pad WITH
        params <- bParams, send_queue <- bSendq, deadline <- bDeadline, recv_queue <- bRecvq,
        recv_end <- bRecvEnd, slot <- bSlot, reply <- bReply, poisoned <- bPoisoned,
        pad <- bPad, idle <- bIdle, reader <- bReader, main <- bMain, circuit <- bCircuit,
        inbox <- bInbox, out <- bOut, sent <- bSent, typed <- bTyped, owed <- bOwed,
        begun <- bBegun, asked <- bAsked, answered <- 0, inputs <- 0,
        PeerMessages <- {}, MainOps <- BOps, MaxOps <- MaxBOps, MaxInput <- 0, MaxInbox <- 0

Init ==
    /\ A!Init /\ B!Init
    /\ clears = {} /\ confirmed = {} /\ link = "up"
    /\ aRead = <<>> /\ bRead = <<>>

-----------------------------------------------------------------------------
(* The threads of each PAD.  Its main or its pad thread may clear.         *)

Threads(end, before, after) ==
    /\ clears' = IF before = "open" /\ after = "clearing" THEN clears \cup {end} ELSE clears
    /\ UNCHANGED <<confirmed, link>>

AThreads ==
    /\ A!Running
    /\ A!MainThread \/ A!PadThread \/ A!IdleSends \/ A!ReadWait \/ A!Expire
    /\ Threads("a", aCircuit, aCircuit')
    /\ UNCHANGED <<aRead, bVars>>

BThreads ==
    /\ B!Running
    /\ B!MainThread \/ B!PadThread \/ B!IdleSends \/ B!ReadWait \/ B!Expire
    /\ Threads("b", bCircuit, bCircuit')
    /\ UNCHANGED <<bRead, aVars>>

Taken(before, after) == SubSeq(before, 1, Len(before) - Len(after))

AReads == /\ A!Running /\ A!ReadCheck /\ aRead' = aRead \o Taken(aRecvq, aRecvq')
          /\ UNCHANGED <<bVars, wire>>

BReads == /\ B!Running /\ B!ReadCheck /\ bRead' = bRead \o Taken(bRecvq, bRecvq')
          /\ UNCHANGED <<aVars, wire>>

-----------------------------------------------------------------------------
(* The virtual call. *)

IndicatesIn(messages) == Len(SelectSeq(messages, LAMBDA m : m.kind = "Indicate"))

(* The n-th message of an end, as the other PAD takes it: questions are a  *)
(* Read or a SetRead, and the k-th answer is to the k-th question.         *)
Carried(messages, n) ==
    LET m == messages[n]
    IN  CASE m.kind = "Ask"      -> Requests
          [] m.kind = "Indicate" -> {[kind |-> "Indicate",
                                      answer |-> IndicatesIn(SubSeq(messages, 1, n))]}
          [] OTHER               -> {m}

(* An end that is clearing, or is over, takes no data. *)
Arrives(circuit, inbox, inbox_, messages, n) ==
    IF circuit = "open" THEN \E m \in Carried(messages, n) : inbox_ = Append(inbox, m)
    ELSE inbox_ = inbox

ASends ==
    /\ link = "up" /\ A!Running /\ A!Drain
    /\ Arrives(bCircuit, bInbox, bInbox', aOut, aSent')
    /\ UNCHANGED <<aRead, wire, bParams, bSendq, bDeadline, bRecvq, bRecvEnd, bSlot, bReply,
                   bPoisoned, bPad, bIdle, bReader, bMain, bCircuit, bOut, bSent, bTyped,
                   bOwed, bBegun, bAsked, bRead>>

BSends ==
    /\ link = "up" /\ B!Running /\ B!Drain
    /\ Arrives(aCircuit, aInbox, aInbox', bOut, bSent')
    /\ UNCHANGED <<bRead, wire, aParams, aSendq, aDeadline, aRecvq, aRecvEnd, aSlot, aReply,
                   aPoisoned, aPad, aIdle, aReader, aMain, aCircuit, aOut, aSent, aTyped,
                   aOwed, aBegun, aAsked, aRead>>

(* What is on its way to an end that clears comes while that waits for its *)
(* confirmation, and is dropped: the last messages of the inbox.           *)
Loses(circuit, inbox, inbox_) ==
    circuit = "clearing" /\ inbox # <<>> /\ inbox_ = Front(inbox)

ALoses ==
    /\ A!Running /\ Loses(aCircuit, aInbox, aInbox')
    /\ UNCHANGED <<bVars, wire, aParams, aSendq, aDeadline, aRecvq, aRecvEnd, aSlot, aReply,
                   aPoisoned, aPad, aIdle, aReader, aMain, aCircuit, aOut, aSent, aTyped,
                   aOwed, aBegun, aAsked, aRead>>

BLoses ==
    /\ B!Running /\ Loses(bCircuit, bInbox, bInbox')
    /\ UNCHANGED <<aVars, wire, bParams, bSendq, bDeadline, bRecvq, bRecvEnd, bSlot, bReply,
                   bPoisoned, bPad, bIdle, bReader, bMain, bCircuit, bOut, bSent, bTyped,
                   bOwed, bBegun, bAsked, bRead>>

(* What the engine of an end does: a clear request of the other, its own   *)
(* confirmed or given up, the connection lost.  A clear request for an end *)
(* that clears is a todo!().                                               *)
Engine(end, other, circuit, circuit_) ==
    \/ /\ link = "up" /\ other \in clears \ confirmed
       /\ \/ circuit = "open" /\ circuit_ = "cleared" /\ confirmed' = confirmed \cup {other}
          \/ circuit = "clearing" /\ circuit_ = "poisoned" /\ UNCHANGED confirmed
    \/ /\ link = "up" /\ end \in confirmed /\ circuit = "clearing" /\ circuit_ = "cleared"
       /\ UNCHANGED confirmed
    \/ circuit = "clearing" /\ circuit_ = "broken" /\ UNCHANGED confirmed
    \/ /\ link = "down" /\ circuit \in {"open", "clearing"} /\ circuit_ = "broken"
       /\ UNCHANGED confirmed

AEngine ==
    /\ A!Running /\ Engine("a", "b", aCircuit, aCircuit')
    /\ UNCHANGED <<bVars, clears, link, aParams, aSendq, aDeadline, aRecvq, aRecvEnd, aSlot,
                   aReply, aPoisoned, aPad, aIdle, aReader, aMain, aInbox, aOut, aSent, aTyped,
                   aOwed, aBegun, aAsked, aRead>>

BEngine ==
    /\ B!Running /\ Engine("b", "a", bCircuit, bCircuit')
    /\ UNCHANGED <<aVars, clears, link, bParams, bSendq, bDeadline, bRecvq, bRecvEnd, bSlot,
                   bReply, bPoisoned, bPad, bIdle, bReader, bMain, bInbox, bOut, bSent, bTyped,
                   bOwed, bBegun, bAsked, bRead>>

(* A program that ends takes its connection along. *)
LinkBreaks ==
    /\ link = "up" /\ (LinkMayFail \/ ~A!Running \/ ~B!Running)
    /\ link' = "down"
    /\ UNCHANGED <<aVars, bVars, clears, confirmed>>

-----------------------------------------------------------------------------
Next == AThreads \/ BThreads \/ AReads \/ BReads \/ ASends \/ BSends
        \/ ALoses \/ BLoses \/ AEngine \/ BEngine \/ LinkBreaks

Spec == Init /\ [][Next]_vars

-----------------------------------------------------------------------------
(* Properties. *)

(* Between the users is a channel of octets: what one types the other      *)
(* reads, once and in order, whichever of the writer, the deadline, a      *)
(* flush and an invitation to clear sends it, and however the call ends    *)
(* (Pad::write to Pad::read).                                              *)
Channel == INSTANCE MsgChannel WITH
    Message  <- {CR} \cup UNION {Range(t) : t \in Texts},
    sent     <- [a |-> aTyped, b |-> bTyped],
    received <- [a |-> aRead, b |-> bRead]
CarriesOctets == Channel!Spec

(* An end where only the user, the other end or a lost connection can make *)
(* anything happen: its threads wait, all it passed to the circuit has     *)
(* left, and no deadline runs that its idle thread will see.               *)
Waits(pad, inbox, reader, main, reply, out, sent, deadline, idle, circuit) ==
    /\ circuit = "open" /\ sent = Len(out) /\ inbox = <<>>
    /\ pad \in {"recv"} \cup Range(A!PadAsleep)
    /\ reader = "wait"
    /\ main \in {"idle"} \cup Range(A!Asleep) \/ (main = "await" /\ reply = A!NoReply)
    /\ deadline = "none" \/ (deadline = "due" /\ idle = "gone")

AtRest ==
    /\ link = "up" /\ clears = {}
    /\ Waits(aPad, aInbox, aReader, aMain, aReply, aOut, aSent, aDeadline, aIdle, aCircuit)
    /\ Waits(bPad, bInbox, bReader, bMain, bReply, bOut, bSent, bDeadline, bIdle, bCircuit)

(* When a call is at rest nothing is stuck: what either user typed the     *)
(* other has read (both have an idle timer), no answer is outstanding, and *)
(* no thread sleeps in a flush that is over.  No wakeup of reader, idle    *)
(* thread or flush is lost, and no lock is kept (params and send_queue are *)
(* held across Svc::flush).                                                *)
RestIsDelivered ==
    AtRest => /\ bRead = aTyped /\ aRead = bTyped
              /\ aMain = "idle" /\ bMain = "idle"
              /\ aPad = "recv" /\ bPad = "recv"

(* A user who invites the other PAD to clear reads all that had been typed *)
(* there when the invitation was read, before the end: sent before the     *)
(* circuit is cleared, received though it is, and read before recv_end is  *)
(* looked at.                                                              *)
InvitationLosesNothing ==
    aReader = "done" /\ clears = {"b"} /\ bMain \notin {"clearing", "gone"} =>
        Len(aRead) >= bOwed
=============================================================================
