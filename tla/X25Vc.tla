------------------------------- MODULE X25Vc --------------------------------
(***************************************************************************)
(* One end of an X.25 switched virtual circuit (libxotpad/src/x25/vc.rs).  *)
(*                                                                         *)
(* Every operation of the program on the circuit - each turn of the engine *)
(* thread and each section of an API call - runs with the mutex around     *)
(* VcState held.  An action of this module is one such critical section.   *)
(* The peer is arbitrary: it may send any packet of PeerPackets at any     *)
(* time.  Next lets any number of application threads run the API          *)
(* sections in any order, which over-approximates every program using the  *)
(* circuit; X25VcThreads adds the threads, their condition variables and   *)
(* the order in which one thread runs its sections, X25Call joins two ends.*)
(*                                                                         *)
(* Data abstracted: addresses, cause and diagnostic codes, call user data, *)
(* channel numbers (never checked on receipt) and encoding; the octets of  *)
(* a message are elements of a sequence.                                   *)
(***************************************************************************)
EXTENDS X25Seq, Integers, SequencesExt

CONSTANTS
    Normal, Extended,   \* the two modulos, 8 and 128 in the code
    PacketSizes,        \* negotiable packet sizes
    Octets,             \* what user data is made of
    LocalParams,        \* the X25Params an application may start the circuit with
    Messages,           \* [data, qualifier] pairs the application may send
    PeerPackets,        \* what the peer may send
    LinkMayFail,        \* whether the TCP connection can break
    KeepOut,            \* whether packets written are kept for a reader
    MaxSendQueue,       \* bound: chunks in send_data_queue
    MaxRecvQueue        \* bound: packets in recv_data_queue

Modulos == {Normal, Extended}

(* The window facility's decoder admits 1..=127 whatever the modulo. *)
FacilityWindows == 1 .. (Extended - 1)

(* A facility carries a <<from_called, from_calling>> pair or is absent.   *)
(* get_packet_size and get_window_size take the first of its kind.         *)
Absent == <<>>
PacketSizeFacility == {Absent} \cup (PacketSizes \X PacketSizes)
WindowSizeFacility == {Absent} \cup (FacilityWindows \X FacilityWindows)

Params == [modulo           : Modulos,
           send_packet_size : PacketSizes, recv_packet_size : PacketSizes,
           send_window_size : FacilityWindows,
           recv_window_size : FacilityWindows]

SendData == [data : Seq(Octets), qualifier : BOOLEAN, more : BOOLEAN]

CallPackets == [type : {"CallRequest", "CallAccept"}, modulo : Modulos,
                packet_size : PacketSizeFacility,
                window_size : WindowSizeFacility]

(* A sequence number is a whole octet's worth as far as the handlers know. *)
DataPacketSet == [type : {"Data"}, send_seq : Nat, recv_seq : Nat,
                  data : Seq(Octets), qualifier : BOOLEAN, more : BOOLEAN]

ReceiveReadySet == [type : {"ReceiveReady"}, recv_seq : Nat]

PlainPackets == [type : {"ClearRequest", "ClearConfirm", "ResetRequest",
                         "ResetConfirm", "ReceiveNotReady"}]

Packets == CallPackets \cup DataPacketSet \cup ReceiveReadySet \cup PlainPackets

(* handle_in_packet is also called with no packet, when the wait ended. *)
NoPacket == [type |-> "None"]

ASSUME ModuloAssumption == /\ Normal \in Nat /\ Extended \in Nat
                           /\ 1 < Normal /\ Normal < Extended /\ Extended <= 128
ASSUME SizeAssumption   == PacketSizes \subseteq (Nat \ {0})
ASSUME MessageAssumption ==
    \A m \in Messages : m.data \in Seq(Octets) /\ m.qualifier \in BOOLEAN
(* main.rs starts every circuit with a window its modulo admits. *)
ASSUME ParamsAssumption ==
    /\ LocalParams \subseteq Params
    /\ \A p \in LocalParams : p.send_window_size < p.modulo
ASSUME PeerAssumption   == PeerPackets \subseteq Packets
ASSUME BoundAssumption  == /\ MaxSendQueue \in Nat /\ MaxRecvQueue \in Nat
                           /\ LinkMayFail \in BOOLEAN /\ KeepOut \in BOOLEAN

VARIABLES
    state,      \* the variant of VcState
    initiator,  \* the ClearInitiator carried by WaitClearConfirm and Cleared
    dts,        \* the DataTransferState carried by DataTransfer
    expired,    \* has the timer of the Instant carried by a waiting state run out
    params,     \* X25Params, as negotiated
    sendq,      \* send_data_queue
    recvq,      \* recv_data_queue
    link,       \* the TCP connection below: "up" or "down"
    out,        \* packets written and not yet read by the peer
    panic       \* where a thread panicked with the state mutex held, or "no"

circuit == <<state, initiator, dts, expired>>
wire    == <<link, out>>
vcVars  == <<state, initiator, dts, expired, params, sendq, recvq, link, out, panic>>

States == {"Ready", "WaitCallAccept", "DataTransfer", "WaitResetConfirm",
           "WaitClearConfirm", "Called", "Cleared", "OutOfOrder"}

Waiting == {"WaitCallAccept", "WaitResetConfirm", "WaitClearConfirm"}

NoInitiator == "None"
Initiators == {NoInitiator, "Local", "Remote", "TimeOut"}

(* Stands for the absent DataTransferState of the other variants. *)
NoTransfer == [window |-> NewWindow(1, Normal), recv_seq |-> 0]

IsConnected == state \in {"DataTransfer", "WaitResetConfirm"}
Terminal    == state \in {"Cleared", "OutOfOrder"}

VcInit ==
    /\ state = "Ready" /\ initiator = NoInitiator
    /\ dts = NoTransfer /\ expired = FALSE
    /\ params \in LocalParams
    /\ sendq = <<>> /\ recvq = <<>>
    /\ link = "up" /\ out = <<>>
    /\ panic = "no"

-----------------------------------------------------------------------------
(* Negotiation of call parameters. *)

CreateCallRequest(p) ==
    [type |-> "CallRequest", modulo |-> p.modulo,
     packet_size |-> <<p.recv_packet_size, p.send_packet_size>>,
     window_size |-> <<p.recv_window_size, p.send_window_size>>]

(* Slip: the pairs are in the order of a call request. *)
CreateCallAcceptAsRequest(p) ==
    [CreateCallRequest(p) EXCEPT !.type = "CallAccept"]

CreateCallAccept(p) ==
    [type |-> "CallAccept", modulo |-> p.modulo,
     packet_size |-> <<p.send_packet_size, p.recv_packet_size>>,
     window_size |-> <<p.send_window_size, p.recv_window_size>>]

(* Slip: off by one. *)
ClampToModulo(size, modulo) == IF size < modulo THEN size ELSE modulo

ClampWindowSize(size, modulo) == IF size < modulo - 1 THEN size ELSE modulo - 1

(* Taken by the calling party from a call accept: sends what is from_calling. *)
NegotiateCallingParams(pkt, p) ==
    [modulo           |-> pkt.modulo,
     send_packet_size |-> IF pkt.packet_size = Absent THEN p.send_packet_size
                          ELSE pkt.packet_size[2],
     recv_packet_size |-> IF pkt.packet_size = Absent THEN p.recv_packet_size
                          ELSE pkt.packet_size[1],
     send_window_size |-> IF pkt.window_size = Absent THEN p.send_window_size
                          ELSE ClampWindowSize(pkt.window_size[2], pkt.modulo),
     recv_window_size |-> IF pkt.window_size = Absent THEN p.recv_window_size
                          ELSE ClampWindowSize(pkt.window_size[1], pkt.modulo)]

(* Taken by the called party from a call request: sends what is from_called. *)
NegotiateCalledParams(pkt, p) ==
    [modulo           |-> pkt.modulo,
     send_packet_size |-> IF pkt.packet_size = Absent THEN p.send_packet_size
                          ELSE pkt.packet_size[1],
     recv_packet_size |-> IF pkt.packet_size = Absent THEN p.recv_packet_size
                          ELSE pkt.packet_size[2],
     send_window_size |-> IF pkt.window_size = Absent THEN p.send_window_size
                          ELSE ClampWindowSize(pkt.window_size[1], pkt.modulo),
     recv_window_size |-> IF pkt.window_size = Absent THEN p.recv_window_size
                          ELSE ClampWindowSize(pkt.window_size[2], pkt.modulo)]

-----------------------------------------------------------------------------
(* Writing to the link and changing state: the parts operations are made of. *)

Emitted(pkts) == IF KeepOut /\ link = "up" THEN out \o pkts ELSE out

(* Every write succeeds.  On a connection that is down a write may still   *)
(* succeed: the packet is lost in the socket's buffer.                     *)
SendPackets(pkts) == out' = Emitted(pkts) /\ UNCHANGED link

(* The writes of pkts succeed and the next one fails, as it does only on a *)
(* connection that is down or goes down now.                               *)
SendFails(pkts) == /\ link = "down" \/ LinkMayFail
                   /\ link' = "down"
                   /\ out' = Emitted(pkts)

(* Entering a state takes a new Instant, so its timer starts afresh. *)
ChangeState(s, i, d) == /\ state' = s /\ initiator' = i /\ dts' = d
                        /\ expired' = FALSE

OutOfOrder == ChangeState("OutOfOrder", NoInitiator, NoTransfer)

Cleared(i) == ChangeState("Cleared", i, NoTransfer)

(* Window::new asserts that the negotiated size suits the modulo. *)
DataTransfer(p) ==
    \/ /\ WindowSizeOK(p.send_window_size, p.modulo)
       /\ ChangeState("DataTransfer", NoInitiator,
                      [window   |-> NewWindow(p.send_window_size, p.modulo),
                       recv_seq |-> 0])
       /\ UNCHANGED panic
    \/ /\ ~WindowSizeOK(p.send_window_size, p.modulo)
       /\ panic' = "Window::new"
       /\ UNCHANGED circuit

(* Write one packet, then enter s; OutOfOrder if the write fails. *)
SendThenChange(pkt, s, i) ==
    \/ SendPackets(<<pkt>>) /\ ChangeState(s, i, NoTransfer)
    \/ SendFails(<<>>) /\ OutOfOrder

ClearRequest(i) == SendThenChange([type |-> "ClearRequest"], "WaitClearConfirm", i)

(* Slip: the request is confirmed and the state left as it was. *)
ClearConfirmOnly ==
    \/ SendPackets(<<[type |-> "ClearConfirm"]>>) /\ UNCHANGED circuit
    \/ SendFails(<<>>) /\ OutOfOrder

ClearConfirm == SendThenChange([type |-> "ClearConfirm"], "Cleared", "Remote")

ResetRequest == SendThenChange([type |-> "ResetRequest"], "WaitResetConfirm", NoInitiator)

ResetConfirm ==
    \/ SendPackets(<<[type |-> "ResetConfirm"]>>) /\ DataTransfer(params)
    \/ SendFails(<<>>) /\ OutOfOrder /\ UNCHANGED panic

(* Slip: packets are counted and not acknowledged. *)
ReceiveReadyUnsent(d) == dts' = d /\ UNCHANGED <<wire, state, initiator, expired>>

ReceiveReady(d) ==
    \/ /\ SendPackets(<<[type |-> "ReceiveReady", recv_seq |-> d.recv_seq]>>)
       /\ dts' = d
       /\ UNCHANGED <<state, initiator, expired>>
    \/ SendFails(<<>>) /\ OutOfOrder

-----------------------------------------------------------------------------
(* Sending queued data while the window is open. *)

(* The window after k more packets. *)
Advance(w, k) == [w EXCEPT !.current = (w.current + k) % w.modulo]

(* The first n chunks of the queue as data packets. *)
DataPackets(d, n) ==
    [k \in 1 .. n |->
        [type |-> "Data", send_seq |-> Advance(d.window, k - 1).current,
         recv_seq |-> d.recv_seq, data |-> sendq[k].data,
         qualifier |-> sendq[k].qualifier, more |-> sendq[k].more]]

(* The loop comes to its n-th turn. *)
Reached(d, n) == \A k \in 0 .. (n - 1) : IsOpen(Advance(d.window, k))

(* The loop's condition fails at its n-th turn. *)
Stops(d, n) == n = Len(sendq) \/ ~IsOpen(Advance(d.window, n))

(* One call of send_queued_data from DataTransfer(d) that takes n chunks.  *)
SendQueuedData(d, n) ==
    /\ Reached(d, n)
    /\ sendq' = SubSeq(sendq, n + 1, Len(sendq))
    /\ \/ /\ Stops(d, n)
          /\ SendPackets(DataPackets(d, n))
          /\ dts' = [d EXCEPT !.window = Advance(d.window, n)]
          /\ UNCHANGED <<state, initiator, expired>>
       \/ /\ ~Stops(d, n)
          /\ SendFails(DataPackets(d, n))
          /\ OutOfOrder

-----------------------------------------------------------------------------
(* The engine: handle_in_packet, by the state it finds. *)

InReady(pkt) ==
    /\ state = "Ready"
    /\ \/ /\ pkt.type = "CallRequest"
          /\ params' = NegotiateCalledParams(pkt, params)
          /\ ChangeState("Called", NoInitiator, NoTransfer)
       \/ /\ pkt.type # "CallRequest"
          /\ UNCHANGED <<params, circuit>>
    /\ UNCHANGED <<sendq, recvq, wire, panic>>

(* Slip: the circuit is ready for another call. *)
InCalledAgain(pkt) ==
    /\ state = "Called"
    /\ \/ pkt.type = "ClearRequest" /\ ChangeState("Ready", NoInitiator, NoTransfer)
       \/ pkt.type # "ClearRequest" /\ UNCHANGED circuit
    /\ UNCHANGED <<params, sendq, recvq, wire, panic>>

InCalled(pkt) ==
    /\ state = "Called"
    /\ \/ pkt.type = "ClearRequest" /\ Cleared("Remote")
       \/ pkt.type # "ClearRequest" /\ UNCHANGED circuit
    /\ UNCHANGED <<params, sendq, recvq, wire, panic>>

InWaitCallAccept(pkt) ==
    /\ state = "WaitCallAccept"
    /\ \/ /\ pkt.type = "CallAccept"
          /\ params' = NegotiateCallingParams(pkt, params)
          /\ DataTransfer(params')
          /\ UNCHANGED wire
       \/ /\ pkt.type = "ClearRequest"
          /\ Cleared("Remote")
          /\ UNCHANGED <<params, wire, panic>>
       \/ /\ pkt = NoPacket /\ expired
          /\ ClearRequest("TimeOut")
          /\ UNCHANGED <<params, panic>>
       \/ /\ pkt.type \notin {"CallAccept", "ClearRequest"}
          /\ ~(pkt = NoPacket /\ expired)
          /\ UNCHANGED <<params, circuit, wire, panic>>
    /\ UNCHANGED <<sendq, recvq>>

(* update_recv_seq, then update_send_window. *)
DataInSequence(pkt) == /\ pkt.send_seq = dts.recv_seq
                       /\ StartAccepted(dts.window, pkt.recv_seq)

Acknowledged(d, seq) == [d EXCEPT !.window = UpdateStart(d.window, seq)]

Counted(d) == [d EXCEPT !.recv_seq = NextSeq(d.recv_seq, d.window.modulo)]

QueueRecvData(pkt) ==
    recvq' = Append(recvq, [data |-> pkt.data, qualifier |-> pkt.qualifier,
                            more |-> pkt.more])

(* A data packet in sequence is queued and acknowledged, by the data       *)
(* packets it lets through or else by a receive ready of its own.          *)
InData(pkt) ==
    \/ /\ ~DataInSequence(pkt)
       /\ ResetRequest
       /\ UNCHANGED <<sendq, recvq>>
    \/ /\ DataInSequence(pkt)
       /\ QueueRecvData(pkt)
       /\ LET d == Counted(Acknowledged(dts, pkt.recv_seq))
          IN  \/ Stops(d, 0) /\ ReceiveReady(d) /\ UNCHANGED sendq
              \/ /\ ~Stops(d, 0)
                 /\ \E n \in 0 .. Len(sendq) : SendQueuedData(d, n)

(* Slip: an acknowledgement sends nothing of what waited for it. *)
InReceiveReadyOnly(pkt) ==
    \/ /\ ~StartAccepted(dts.window, pkt.recv_seq)
       /\ ResetRequest
       /\ UNCHANGED sendq
    \/ /\ StartAccepted(dts.window, pkt.recv_seq)
       /\ dts' = Acknowledged(dts, pkt.recv_seq)
       /\ UNCHANGED <<state, initiator, expired, wire, sendq>>

InReceiveReady(pkt) ==
    \/ /\ ~StartAccepted(dts.window, pkt.recv_seq)
       /\ ResetRequest
       /\ UNCHANGED sendq
    \/ /\ StartAccepted(dts.window, pkt.recv_seq)
       /\ \E n \in 0 .. Len(sendq) :
              SendQueuedData(Acknowledged(dts, pkt.recv_seq), n)

InDataTransfer(pkt) ==
    /\ state = "DataTransfer"
    /\ \/ pkt.type = "Data" /\ InData(pkt) /\ UNCHANGED panic
       \/ pkt.type = "ReceiveReady" /\ InReceiveReady(pkt) /\ UNCHANGED <<recvq, panic>>
       \/ pkt.type = "ResetRequest" /\ ResetConfirm /\ UNCHANGED <<sendq, recvq>>
       \/ pkt.type = "ClearRequest" /\ ClearConfirm /\ UNCHANGED <<sendq, recvq, panic>>
       \/ /\ pkt.type \notin {"Data", "ReceiveReady", "ResetRequest", "ClearRequest"}
          /\ UNCHANGED <<circuit, wire, sendq, recvq, panic>>
    /\ UNCHANGED params

(* Slip: a reset collision is ignored. *)
InWaitResetConfirmOnly(pkt) ==
    /\ state = "WaitResetConfirm"
    /\ \/ pkt.type = "ResetConfirm" /\ DataTransfer(params) /\ UNCHANGED wire
       \/ pkt.type = "ClearRequest" /\ ClearConfirm /\ UNCHANGED panic
       \/ pkt = NoPacket /\ expired /\ ClearRequest("TimeOut") /\ UNCHANGED panic
       \/ /\ pkt.type \notin {"ResetConfirm", "ClearRequest"}
          /\ ~(pkt = NoPacket /\ expired)
          /\ UNCHANGED <<circuit, wire, panic>>
    /\ UNCHANGED <<params, sendq, recvq>>

InWaitResetConfirm(pkt) ==
    /\ state = "WaitResetConfirm"
    /\ \/ pkt.type = "ResetConfirm" /\ DataTransfer(params) /\ UNCHANGED wire
       \/ pkt.type = "ResetRequest" /\ ResetConfirm
       \/ pkt.type = "ClearRequest" /\ ClearConfirm /\ UNCHANGED panic
       \/ pkt = NoPacket /\ expired /\ ClearRequest("TimeOut") /\ UNCHANGED panic
       \/ /\ pkt.type \notin {"ResetConfirm", "ResetRequest", "ClearRequest"}
          /\ ~(pkt = NoPacket /\ expired)
          /\ UNCHANGED <<circuit, wire, panic>>
    /\ UNCHANGED <<params, sendq, recvq>>

(* Slip: T23 running out counts as the end of the call. *)
InWaitClearConfirmTimesOut(pkt) ==
    /\ state = "WaitClearConfirm"
    /\ \/ pkt.type = "ClearConfirm" /\ Cleared(initiator) /\ UNCHANGED panic
       \/ pkt.type = "ClearRequest" /\ panic' = "clear collision" /\ UNCHANGED circuit
       \/ pkt = NoPacket /\ expired /\ Cleared("TimeOut") /\ UNCHANGED panic
       \/ /\ pkt.type \notin {"ClearConfirm", "ClearRequest"}
          /\ ~(pkt = NoPacket /\ expired)
          /\ UNCHANGED <<circuit, panic>>
    /\ UNCHANGED <<params, sendq, recvq, wire>>

(* A clear collision runs into todo!(). *)
InWaitClearConfirm(pkt) ==
    /\ state = "WaitClearConfirm"
    /\ \/ pkt.type = "ClearConfirm" /\ Cleared(initiator) /\ UNCHANGED panic
       \/ pkt.type = "ClearRequest" /\ panic' = "clear collision" /\ UNCHANGED circuit
       \/ pkt = NoPacket /\ expired /\ OutOfOrder /\ UNCHANGED panic
       \/ /\ pkt.type \notin {"ClearConfirm", "ClearRequest"}
          /\ ~(pkt = NoPacket /\ expired)
          /\ UNCHANGED <<circuit, panic>>
    /\ UNCHANGED <<params, sendq, recvq, wire>>

InTerminal == Terminal /\ UNCHANGED vcVars

HandleInPacket(pkt) ==
    \/ InReady(pkt)
    \/ InCalled(pkt)
    \/ InWaitCallAccept(pkt)
    \/ InDataTransfer(pkt)
    \/ InWaitResetConfirm(pkt)
    \/ InWaitClearConfirm(pkt)
    \/ InTerminal

(* Slip: the clear timer is forgotten. *)
TimerArmedForAnswers == state \in {"WaitCallAccept", "WaitResetConfirm"}

(* handle_in_packet gives the engine's wait the running timer's remaining  *)
(* time exactly when the state it found has a timer, 100 000 s otherwise.  *)
TimerArmed == state \in Waiting

(* The reader's error reaches the engine: the connection is lost, or what  *)
(* came over it is no frame, as XotLink::recv finds with the link still up. *)
LinkError ==
    /\ OutOfOrder
    /\ UNCHANGED <<params, sendq, recvq, wire, panic>>

-----------------------------------------------------------------------------
(* The application's side. *)

Panic(site) ==
    panic' = site /\ UNCHANGED <<circuit, params, sendq, recvq, wire>>

(* Svc::call, up to where it waits. *)
Call ==
    \/ /\ state = "Ready"
       /\ SendThenChange(CreateCallRequest(params), "WaitCallAccept", NoInitiator)
       /\ UNCHANGED <<params, sendq, recvq, panic>>
    \/ state # "Ready" /\ Panic("call")

(* Nothing is written when the packet cannot be encoded.  That is the call *)
(* request only, with more user data than it can carry: what other packets *)
(* hold is in range by the time they are sent.                             *)
CallRefused ==
    /\ state = "Ready"
    /\ OutOfOrder
    /\ UNCHANGED <<params, sendq, recvq, wire, panic>>

(* What Svc::call makes of the state once it is not WaitCallAccept. *)
CallOutcome ==
    IF recvq # <<>> \/ IsConnected THEN "ok"
    ELSE CASE state = "Cleared" /\ initiator = "Remote" -> "reset"
           [] state \in {"WaitClearConfirm", "Cleared"} /\ initiator = "TimeOut" -> "timed out"
           [] state = "OutOfOrder" -> "out of order"
           [] OTHER -> "panic"

(* What Svc::listen_timeout makes of the state once it is not Ready. *)
ListenOutcome ==
    CASE state = "Called" -> "ok"
      [] state = "OutOfOrder" -> "out of order"
      [] OTHER -> "panic"

(* Slip: the state is not looked at again. *)
AcceptUnchecked ==
    /\ \/ SendPackets(<<CreateCallAccept(params)>>) /\ DataTransfer(params)
       \/ SendFails(<<>>) /\ OutOfOrder /\ UNCHANGED panic
    /\ UNCHANGED <<params, sendq, recvq>>

(* SvcIncomingCall::accept; in another state than Called it fails. *)
Accept ==
    /\ state = "Called"
    /\ \/ SendPackets(<<CreateCallAccept(params)>>) /\ DataTransfer(params)
       \/ SendFails(<<>>) /\ OutOfOrder /\ UNCHANGED panic
    /\ UNCHANGED <<params, sendq, recvq>>

(* SvcIncomingCall::clear, which does not wait for the confirmation. *)
Reject ==
    /\ state = "Called"
    /\ SendThenChange([type |-> "ClearRequest"], "Cleared", "Local")
    /\ UNCHANGED <<params, sendq, recvq, panic>>

(* Svc::clear, up to where it waits. *)
Clear ==
    \/ /\ IsConnected
       /\ ClearRequest("Local")
       /\ UNCHANGED <<params, sendq, recvq, panic>>
    \/ ~IsConnected /\ Panic("clear")

(* What Svc::clear makes of the state once it is not WaitClearConfirm. *)
ClearOutcome ==
    CASE state = "Cleared" /\ initiator = "Local" -> "ok"
      [] state = "OutOfOrder" -> "out of order"
      [] OTHER -> "panic"

(* Svc::clear and an expired listen shut the connection down. *)
Shutdown ==
    /\ link' = "down"
    /\ UNCHANGED <<circuit, params, sendq, recvq, out, panic>>

(* Slip: the chunks of a message are not chained. *)
ChunksUnchained(m, size) ==
    LET count == (Len(m.data) + size - 1) \div size
    IN  [i \in 1 .. count |->
            [data      |-> SubSeq(m.data, (i - 1) * size + 1,
                                  IF i = count THEN Len(m.data) ELSE i * size),
             qualifier |-> m.qualifier,
             more      |-> FALSE]]

(* The user data cut to the packet size, every chunk but the last with more. *)
Chunks(m, size) ==
    LET count == (Len(m.data) + size - 1) \div size
    IN  [i \in 1 .. count |->
            [data      |-> SubSeq(m.data, (i - 1) * size + 1,
                                  IF i = count THEN Len(m.data) ELSE i * size),
             qualifier |-> m.qualifier,
             more      |-> i < count]]

(* The part of Vc::send that queues, under the queue's own mutex. *)
SendPush(m) ==
    /\ Len(sendq) + Len(Chunks(m, params.send_packet_size)) <= MaxSendQueue
    /\ sendq' = sendq \o Chunks(m, params.send_packet_size)
    /\ UNCHANGED <<circuit, params, recvq, wire, panic>>

(* The part of Vc::send that tries to send what is queued. *)
SendKick ==
    \/ /\ state = "DataTransfer"
       /\ \E n \in 0 .. Len(sendq) : SendQueuedData(dts, n)
       /\ UNCHANGED <<params, recvq, panic>>
    \/ state # "DataTransfer" /\ Panic("send_queued_data")

(* pop_complete_data finds a packet without the more bit. *)
HasCompleteData == \E i \in 1 .. Len(recvq) : ~recvq[i].more

CompleteLen == CHOOSE i \in 1 .. Len(recvq) :
                  ~recvq[i].more /\ \A j \in 1 .. (i - 1) : recvq[j].more

CompleteData ==
    [data      |-> FlattenSeq([i \in 1 .. CompleteLen |-> recvq[i].data]),
     qualifier |-> recvq[CompleteLen].qualifier]

(* Slip: what follows the message goes with it. *)
PopEverything ==
    /\ HasCompleteData
    /\ recvq' = <<>>
    /\ UNCHANGED <<circuit, params, sendq, wire, panic>>

(* Slip: the last packet of the message stays. *)
PopAllButLast ==
    /\ HasCompleteData
    /\ recvq' = SubSeq(recvq, CompleteLen, Len(recvq))
    /\ UNCHANGED <<circuit, params, sendq, wire, panic>>

PopCompleteData ==
    /\ HasCompleteData
    /\ recvq' = SubSeq(recvq, CompleteLen + 1, Len(recvq))
    /\ UNCHANGED <<circuit, params, sendq, wire, panic>>

(* What Vc::recv does next. *)
RecvOutcome ==
    CASE HasCompleteData -> "data"
      [] ~HasCompleteData /\ IsConnected -> "wait"
      [] ~HasCompleteData /\ state = "Cleared" /\ initiator \in {"Local", "Remote"} -> "end"
      [] ~HasCompleteData /\ state = "Cleared" /\ initiator = "TimeOut" -> "timed out"
      [] ~HasCompleteData /\ state = "OutOfOrder" -> "out of order"
      [] OTHER -> "panic"

(* What Vc::flush does next. *)
FlushOutcome ==
    CASE sendq = <<>> -> "ok"
      [] sendq # <<>> /\ IsConnected -> "wait"
      [] sendq # <<>> /\ state = "Cleared" /\ initiator \in {"Local", "Remote"} -> "broken pipe"
      [] sendq # <<>> /\ state = "Cleared" /\ initiator = "TimeOut" -> "timed out"
      [] sendq # <<>> /\ state = "OutOfOrder" -> "out of order"
      [] OTHER -> "panic"

(* Vc::reset, up to where it waits. *)
Reset ==
    \/ /\ state = "DataTransfer"
       /\ ResetRequest
       /\ UNCHANGED <<params, sendq, recvq, panic>>
    \/ state # "DataTransfer" /\ Panic("reset")

(* What Vc::reset makes of the state once it is not WaitResetConfirm. *)
ResetOutcome ==
    CASE state = "DataTransfer" -> "ok"
      [] state \in {"WaitClearConfirm", "Cleared"} /\ initiator = "TimeOut" -> "timed out"
      [] state = "OutOfOrder" -> "out of order"
      [] OTHER -> "panic"

(* The matches above end in panic!("unexpected state"), state mutex held. *)
CallPanics   == state # "WaitCallAccept" /\ CallOutcome = "panic" /\ Panic("call result")
ListenPanics == state # "Ready" /\ ListenOutcome = "panic" /\ Panic("listen result")
ClearPanics  == state # "WaitClearConfirm" /\ ClearOutcome = "panic" /\ Panic("clear result")
ResetPanics  == state # "WaitResetConfirm" /\ ResetOutcome = "panic" /\ Panic("reset result")
RecvPanics   == RecvOutcome = "panic" /\ Panic("recv")
FlushPanics  == FlushOutcome = "panic" /\ Panic("flush")

-----------------------------------------------------------------------------
(* The world: time passes and connections break. *)

Elapse ==
    /\ state \in Waiting /\ ~expired
    /\ expired' = TRUE
    /\ UNCHANGED <<state, initiator, dts, params, sendq, recvq, wire, panic>>

LinkBreaks ==
    /\ LinkMayFail /\ link = "up"
    /\ link' = "down"
    /\ UNCHANGED <<circuit, params, sendq, recvq, out, panic>>

Engine ==
    \/ LinkError
    \/ \E pkt \in PeerPackets \cup {NoPacket} :
          /\ pkt.type = "Data" => Len(recvq) < MaxRecvQueue
          /\ HandleInPacket(pkt)

Application ==
    \/ Call \/ CallRefused
    \/ Accept
    \/ Reject
    \/ Clear
    \/ Shutdown
    \/ \E m \in Messages : SendPush(m)
    \/ SendKick
    \/ PopCompleteData
    \/ Reset
    \/ CallPanics
    \/ ListenPanics
    \/ ClearPanics
    \/ ResetPanics
    \/ RecvPanics
    \/ FlushPanics

(* A panic with the state mutex held poisons it: whoever locks it next     *)
(* panics too, so nothing more happens to the circuit.                     *)
Next == panic = "no" /\ (Engine \/ Application \/ Elapse \/ LinkBreaks)

Spec == VcInit /\ [][Next]_vcVars

-----------------------------------------------------------------------------
(* Properties. *)

PanicSites == {"Window::new", "clear collision", "send_queued_data",
               "call", "clear", "reset", "call result", "listen result",
               "clear result", "reset result", "recv", "flush"}

Transfers == [window : UNION {Windows(m) : m \in Modulos},
              recv_seq : SeqNos(Extended)]

(* The circuit's variables keep to the types of the structs they model,    *)
(* and a window only exists at a size its modulo admits (VcState,          *)
(* DataTransferState, Window::new).                                        *)
TypeOK ==
    /\ state \in States
    /\ initiator \in Initiators
    /\ dts \in Transfers
    /\ expired \in BOOLEAN
    /\ params \in Params
    /\ sendq \in Seq(SendData)
    /\ recvq \in Seq(SendData)
    /\ link \in {"up", "down"}
    /\ out \in Seq(Packets)
    /\ panic \in {"no"} \cup PanicSites

(* Flow control: however the peer acknowledges, the packets sent and not   *)
(* acknowledged never exceed the negotiated window (send_queued_data,      *)
(* Window::update_start).                                                  *)
WindowRespected == Outstanding(dts.window) <= dts.window.size

(* The circuit asserts that the window it opens suits the modulo           *)
(* (Window::new): negotiation never leaves one that does not.              *)
WindowAssertionHolds == panic # "Window::new"
=============================================================================
