------------------------------ MODULE X25Call -------------------------------
(***************************************************************************)
(* A virtual call between two programs built on libxotpad: the calling     *)
(* circuit A and the called circuit B, each an X25Vc, joined by one TCP    *)
(* connection that carries a FIFO of packets in each direction             *)
(* (libxotpad/src/x25/vc.rs over libxotpad/src/xot/link.rs).               *)
(*                                                                         *)
(* Engine turns are atomic here (X25VcThreads is about how they are not)   *)
(* and each end has one application thread, which calls or answers, then   *)
(* sends, receives, resets and clears.  sent and received are history      *)
(* variables: what the applications passed to and got from their circuit.  *)
(***************************************************************************)
EXTENDS Integers, FiniteSets, SequencesExt

CONSTANTS
    Normal, Extended, PacketSizes, Octets, LocalParams, Messages, LinkMayFail,
    MaxSendQueue,
    MaxMessages,    \* bound: messages the application of each end sends
    MaxResets,      \* bound: resets the applications ask for, together
    MayClear,       \* whether the applications clear the call
    MayExpire       \* whether a timer can run out before the peer answers

ASSUME CallAssumption == /\ MaxMessages \in [{"a", "b"} -> Nat] /\ MaxResets \in Nat
                         /\ MayClear \in BOOLEAN /\ MayExpire \in BOOLEAN

VARIABLES
    aState, aInitiator, aDts, aExpired, aParams, aSendq, aRecvq, aPanic,
    bState, bInitiator, bDts, bExpired, bParams, bSendq, bRecvq, bPanic,
    link,           \* the TCP connection
    ab, ba,         \* packets on their way, written before and not yet read
    pc,             \* where each application is
    sent, received, \* messages each application sent and received
    resets          \* resets asked for

aVars == <<aState, aInitiator, aDts, aExpired, aParams, aSendq, aRecvq, aPanic>>
bVars == <<bState, bInitiator, bDts, bExpired, bParams, bSendq, bRecvq, bPanic>>
history == <<sent, received, resets>>
vars == <<aVars, bVars, link, ab, ba, pc, history>>

(* No bound is needed on what comes in, nor a set of packets: it is what   *)
(* the other end sends.                                                    *)
A == INSTANCE X25Vc WITH
        state <- aState, initiator <- aInitiator, dts <- aDts,
        expired <- aExpired, params <- aParams, sendq <- aSendq,
        recvq <- aRecvq, panic <- aPanic, out <- ab,
        PeerPackets <- {}, KeepOut <- TRUE, MaxRecvQueue <- 0

B == INSTANCE X25Vc WITH
        state <- bState, initiator <- bInitiator, dts <- bDts,
        expired <- bExpired, params <- bParams, sendq <- bSendq,
        recvq <- bRecvq, panic <- bPanic, out <- ba,
        PeerPackets <- {}, KeepOut <- TRUE, MaxRecvQueue <- 0

(* What each circuit assumes of the constants (X25Vc): what the program    *)
(* gives it, whichever end it is.                                          *)
ASSUME CircuitAssumption ==
    /\ Normal \in Nat /\ Extended \in Nat
    /\ 1 < Normal /\ Normal < Extended /\ Extended <= 128
    /\ PacketSizes \subseteq (Nat \ {0})
    /\ \A m \in Messages : m.data \in Seq(Octets) /\ m.qualifier \in BOOLEAN
    /\ LocalParams \subseteq A!Params
    /\ \A p \in LocalParams : p.send_window_size < p.modulo
    /\ MaxSendQueue \in Nat /\ LinkMayFail \in BOOLEAN

Init ==
    /\ A!VcInit
    /\ B!VcInit
    /\ pc = [a |-> "start", b |-> "start"]
    /\ sent = [a |-> <<>>, b |-> <<>>]
    /\ received = [a |-> <<>>, b |-> <<>>]
    /\ resets = 0

Moves(e, to) == pc' = [pc EXCEPT ![e] = to]

-----------------------------------------------------------------------------
(* The engines.  A turn without a packet matters when a timer ran out.  An *)
(* end that is done, or whose thread panicked, reads no more.  What either *)
(* end writes is a frame, so the reader fails with the connection only.    *)

AEngine ==
    /\ aPanic = "no" /\ ~A!Terminal
    /\ \/ /\ ba # <<>>
          /\ A!HandleInPacket(Head(ba))
          /\ ba' = Tail(ba)
       \/ aExpired /\ A!HandleInPacket(A!NoPacket) /\ UNCHANGED ba
       \/ link = "down" /\ A!LinkError /\ UNCHANGED ba
    /\ UNCHANGED <<bVars, pc, history>>

BEngine ==
    /\ bPanic = "no" /\ ~B!Terminal
    /\ \/ /\ ab # <<>>
          /\ B!HandleInPacket(Head(ab))
          /\ ab' = Tail(ab)
       \/ bExpired /\ B!HandleInPacket(B!NoPacket) /\ UNCHANGED ab
       \/ link = "down" /\ B!LinkError /\ UNCHANGED ab
    /\ UNCHANGED <<aVars, pc, history>>

-----------------------------------------------------------------------------
(* Opening, with a call request that can be encoded. *)

ACall ==
    /\ pc.a = "start"
    /\ A!Call
    /\ Moves("a", "calling")
    /\ UNCHANGED <<bVars, ba, history>>

ACalled ==
    /\ pc.a = "calling" /\ aState # "WaitCallAccept"
    /\ \/ A!CallOutcome = "ok" /\ Moves("a", "open") /\ UNCHANGED aVars
       \/ A!CallOutcome \notin {"ok", "panic"} /\ Moves("a", "closed") /\ UNCHANGED aVars
    /\ UNCHANGED <<bVars, link, ab, ba, history>>

BListen ==
    /\ pc.b = "start" /\ bState # "Ready"
    /\ \/ B!ListenOutcome = "ok" /\ Moves("b", "incoming") /\ UNCHANGED <<bVars, link, ba>>
       \/ B!ListenOutcome = "out of order" /\ Moves("b", "closed") /\ UNCHANGED <<bVars, link, ba>>
       \/ B!ListenPanics /\ UNCHANGED pc
    /\ UNCHANGED <<aVars, ab, history>>

BAnswer ==
    /\ pc.b = "incoming"
    /\ \/ B!Accept /\ Moves("b", IF bState' = "OutOfOrder" THEN "closed" ELSE "open")
       \/ MayClear /\ B!Reject /\ Moves("b", "closed")
       \/ bState # "Called" /\ Moves("b", "closed") /\ UNCHANGED <<bVars, link, ba>>
    /\ UNCHANGED <<aVars, ab, history>>

-----------------------------------------------------------------------------
(* The open call.  send looks whether the circuit is connected and queues  *)
(* (nothing of the other end can come between these two), then kicks.      *)

APush ==
    /\ pc.a = "open" /\ A!IsConnected /\ Len(sent.a) < MaxMessages.a
    /\ \E m \in Messages : A!SendPush(m) /\ sent' = [sent EXCEPT !.a = Append(@, m)]
    /\ Moves("a", "kick")
    /\ UNCHANGED <<bVars, ba, received, resets>>

BPush ==
    /\ pc.b = "open" /\ B!IsConnected /\ Len(sent.b) < MaxMessages.b
    /\ \E m \in Messages : B!SendPush(m) /\ sent' = [sent EXCEPT !.b = Append(@, m)]
    /\ Moves("b", "kick")
    /\ UNCHANGED <<aVars, ab, received, resets>>

AKick == /\ pc.a = "kick" /\ A!SendKick /\ Moves("a", "open")
         /\ UNCHANGED <<bVars, ba, history>>

BKick == /\ pc.b = "kick" /\ B!SendKick /\ Moves("b", "open")
         /\ UNCHANGED <<aVars, ab, history>>

ARecv ==
    /\ pc.a = "open" /\ A!PopCompleteData
    /\ received' = [received EXCEPT !.a = Append(@, A!CompleteData)]
    /\ UNCHANGED <<bVars, ba, pc, sent, resets>>

BRecv ==
    /\ pc.b = "open" /\ B!PopCompleteData
    /\ received' = [received EXCEPT !.b = Append(@, B!CompleteData)]
    /\ UNCHANGED <<aVars, ab, pc, sent, resets>>

AReset ==
    /\ pc.a = "open" /\ aState = "DataTransfer" /\ resets < MaxResets
    /\ A!Reset /\ resets' = resets + 1
    /\ Moves("a", "resetting")
    /\ UNCHANGED <<bVars, ba, sent, received>>

BReset ==
    /\ pc.b = "open" /\ bState = "DataTransfer" /\ resets < MaxResets
    /\ B!Reset /\ resets' = resets + 1
    /\ Moves("b", "resetting")
    /\ UNCHANGED <<aVars, ab, sent, received>>

AResetDone ==
    /\ pc.a = "resetting" /\ aState # "WaitResetConfirm"
    /\ \/ A!ResetOutcome # "panic" /\ Moves("a", "open") /\ UNCHANGED aVars
       \/ A!ResetPanics /\ UNCHANGED pc
    /\ UNCHANGED <<bVars, link, ab, ba, history>>

BResetDone ==
    /\ pc.b = "resetting" /\ bState # "WaitResetConfirm"
    /\ \/ B!ResetOutcome # "panic" /\ Moves("b", "open") /\ UNCHANGED bVars
       \/ B!ResetPanics /\ UNCHANGED pc
    /\ UNCHANGED <<aVars, link, ab, ba, history>>

AClear == /\ MayClear /\ pc.a = "open" /\ A!IsConnected
          /\ A!Clear /\ Moves("a", "clearing")
          /\ UNCHANGED <<bVars, ba, history>>

BClear == /\ MayClear /\ pc.b = "open" /\ B!IsConnected
          /\ B!Clear /\ Moves("b", "clearing")
          /\ UNCHANGED <<aVars, ab, history>>

(* A clear that was confirmed shuts the connection down. *)
ACleared ==
    /\ pc.a = "clearing" /\ aState # "WaitClearConfirm"
    /\ \/ A!ClearOutcome = "ok" /\ A!Shutdown
       \/ A!ClearOutcome = "out of order" /\ UNCHANGED <<aVars, link, ab>>
    /\ Moves("a", "closed")
    /\ UNCHANGED <<bVars, ba, history>>

BCleared ==
    /\ pc.b = "clearing" /\ bState # "WaitClearConfirm"
    /\ \/ B!ClearOutcome = "ok" /\ B!Shutdown
       \/ B!ClearOutcome = "out of order" /\ UNCHANGED <<bVars, link, ba>>
    /\ Moves("b", "closed")
    /\ UNCHANGED <<aVars, ab, history>>

-----------------------------------------------------------------------------
AApp == /\ aPanic = "no"
        /\ \/ ACall \/ ACalled \/ APush \/ AKick \/ ARecv
           \/ AReset \/ AResetDone \/ AClear \/ ACleared

BApp == /\ bPanic = "no"
        /\ \/ BListen \/ BAnswer \/ BPush \/ BKick \/ BRecv
           \/ BReset \/ BResetDone \/ BClear \/ BCleared

World ==
    \/ MayExpire /\ A!Elapse /\ UNCHANGED <<bVars, ba, pc, history>>
    \/ MayExpire /\ B!Elapse /\ UNCHANGED <<aVars, ab, pc, history>>
    \/ A!LinkBreaks /\ UNCHANGED <<bVars, ba, pc, history>>

Next == AEngine \/ BEngine \/ AApp \/ BApp \/ World

(* The engines run, and the applications finish what they began and keep   *)
(* receiving; whether they send, reset or clear is theirs to decide.       *)
Fairness ==
    /\ WF_vars(AEngine) /\ WF_vars(BEngine)
    /\ WF_vars(aPanic = "no" /\ (ACalled \/ AKick \/ AResetDone \/ ACleared))
    /\ WF_vars(bPanic = "no" /\ (BListen \/ BAnswer \/ BKick \/ BResetDone \/ BCleared))
    /\ WF_vars(aPanic = "no" /\ ARecv) /\ WF_vars(bPanic = "no" /\ BRecv)

Spec == Init /\ [][Next]_vars /\ Fairness

-----------------------------------------------------------------------------
(* Properties. *)

Octs(chunks) == FlattenSeq([i \in 1 .. Len(chunks) |-> chunks[i].data])
DataOn(wire) ==
    FlattenSeq([i \in 1 .. Len(wire) |-> IF wire[i].type = "Data" THEN <<wire[i]>> ELSE <<>>])
DataUnderWay(wire) == Cardinality({i \in 1 .. Len(wire) : wire[i].type = "Data"})
Types(wire)  == {wire[i].type : i \in 1 .. Len(wire)}

(* Negotiation ends in agreement: once both ends transfer data, each sends *)
(* with the modulo, packet size and window the other receives with         *)
(* (create_call_request and create_call_accept against the negotiation     *)
(* functions at the other end).                                            *)
ParamsAgree ==
    A!IsConnected /\ B!IsConnected =>
        /\ aParams.modulo = bParams.modulo
        /\ aParams.send_packet_size = bParams.recv_packet_size
        /\ bParams.send_packet_size = aParams.recv_packet_size
        /\ aParams.send_window_size = bParams.recv_window_size
        /\ bParams.send_window_size = aParams.recv_window_size

(* The two ends' sequence numbers stay in step: as long as no application  *)
(* resets, neither end finds a send or receive sequence number of the      *)
(* other invalid, whatever data, acknowledgements and acknowledging data   *)
(* cross on the way (update_recv_seq, update_send_window).                 *)
NeverOutOfStep == "ResetRequest" \notin Types(ab) \cup Types(ba)

(* The receiver's window: no more data packets are under way to an end     *)
(* than the window it negotiated.                                          *)
InFlightWithinWindow ==
    /\ bState = "DataTransfer" => DataUnderWay(ab) <= bParams.recv_window_size
    /\ aState = "DataTransfer" => DataUnderWay(ba) <= aParams.recv_window_size

GotAll(state, initiator) == \/ state = "DataTransfer" /\ link = "up"
                            \/ state = "Cleared" /\ initiator = "Remote"

(* Unless somebody resets, every octet sent is in exactly one place, in    *)
(* order: received, queued for recv, under way, or queued to send.  So it  *)
(* is for an end that the other cleared: what was flushed before a clear   *)
(* has all been received (pop_complete_data, the order of packets).        *)
NothingLostBeforeClear == resets = 0 =>
    /\ GotAll(bState, bInitiator) =>
          Octs(sent.a) = Octs(received.b) \o Octs(bRecvq) \o Octs(DataOn(ab)) \o Octs(aSendq)
    /\ GotAll(aState, aInitiator) =>
          Octs(sent.b) = Octs(received.a) \o Octs(aRecvq) \o Octs(DataOn(ba)) \o Octs(bSendq)

(* Data is queued only while the window is closed or its sender is about   *)
(* to send it: "the number of packets that can be sent before waiting for  *)
(* an acknowledgment" (x25/params.rs) can be sent without waiting.         *)
QueuedDataWaitsForWindow ==
    /\ aState = "DataTransfer" /\ aSendq # <<>> /\ pc.a # "kick" => ~A!IsOpen(aDts.window)
    /\ bState = "DataTransfer" /\ bSendq # <<>> /\ pc.b # "kick" => ~B!IsOpen(bDts.window)

(* The call is a message channel: whole messages, once each, in order.     *)
Channel == INSTANCE MsgChannel WITH Message <- Messages
DeliversMessages == Channel!Spec

(* While the applications do not clear, each message sent arrives unless   *)
(* somebody resets or the connection fails: again and again nothing is     *)
(* left to arrive, so that flow control never stops for good.              *)
AllArrived == /\ Len(received.b) = Len(sent.a)
              /\ Len(received.a) = Len(sent.b)
EveryMessageArrives == []<>(AllArrived \/ resets > 0 \/ link = "down")

(* A clear that was confirmed has ended the call at both ends: no end is   *)
(* Cleared on its own clear or time-out while the other still transfers    *)
(* data or waits (clear_confirm, cleared; SvcIncomingCall::clear excepted, *)
(* which does not wait for a confirmation).                                *)
ConfirmedClearEndsBoth ==
    /\ aState = "Cleared" /\ aInitiator \in {"Local", "TimeOut"} => B!Terminal
    /\ bState = "Cleared" /\ pc.b = "clearing" => A!Terminal

(* Resets lose data but never repeat or reorder it: the octets received    *)
(* are a subsequence of the octets sent (send_queued_data, reset_confirm,  *)
(* the handlers in WaitResetConfirm).                                      *)
Matched(got, all) ==
    FoldLeft(LAMBDA k, x : IF k < Len(got) /\ got[k + 1] = x THEN k + 1 ELSE k, 0, all)

ReceivedInOrder ==
    /\ LET got == Octs(received.b) IN Matched(got, Octs(sent.a)) = Len(got)
    /\ LET got == Octs(received.a) IN Matched(got, Octs(sent.b)) = Len(got)

(* When nothing is under way the ends are in step, whatever resets crossed  *)
(* each other and data: no end waits for a confirmation the other has not   *)
(* to give, each expects the number the other sends next, and all that was  *)
(* sent is acknowledged, so that no window stays closed (reset_confirm,     *)
(* data_transfer, the answers to data and to resets).                       *)
Quiet == /\ ab = <<>> /\ ba = <<>> /\ link = "up"
         /\ ~aExpired /\ ~bExpired /\ aPanic = "no" /\ bPanic = "no"

ResetsLeaveStep ==
    Quiet /\ A!IsConnected /\ B!IsConnected =>
        /\ aState = "DataTransfer" /\ bState = "DataTransfer"
        /\ aDts.window.current = bDts.recv_seq /\ aDts.window.start = bDts.recv_seq
        /\ bDts.window.current = aDts.recv_seq /\ bDts.window.start = aDts.recv_seq

(* Svc::clear ends in "the expected state" or with the link out of order:  *)
(* a clear returns.                                                        *)
ClearReturns ==
    /\ pc.a = "clearing" ~> pc.a # "clearing"
    /\ pc.b = "clearing" ~> pc.b # "clearing"
=============================================================================
