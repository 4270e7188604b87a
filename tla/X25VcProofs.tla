---------------------------- MODULE X25VcProofs -----------------------------
(***************************************************************************)
(* The circuit of X25Vc keeps its types and its send window, and never     *)
(* runs into the assertion of Window::new, for all values of the constants *)
(* and for an arbitrary peer.                                              *)
(***************************************************************************)
EXTENDS X25Vc, SeqProofs, SequenceTheorems, WellFoundedInduction

(* The parts of the inductive invariant. *)
CircuitOK == /\ state \in States
             /\ initiator \in Initiators
             /\ dts \in Transfers
             /\ expired \in BOOLEAN
             /\ WindowRespected
WireOK    == link \in {"up", "down"} /\ out \in Seq(Packets)
QueuesOK  == sendq \in Seq(SendData) /\ recvq \in Seq(SendData)
ParamsOK  == params \in Params
PanicOK   == panic \in {"no"} \cup PanicSites

IInv == CircuitOK /\ WireOK /\ QueuesOK /\ ParamsOK /\ PanicOK

LEMMA IInvImplies == IInv => TypeOK /\ WindowRespected
  BY DEF IInv, CircuitOK, WireOK, QueuesOK, ParamsOK, PanicOK, TypeOK

-----------------------------------------------------------------------------
(* Constants and data. *)

LEMMA ModuloType ==
    ASSUME NEW m \in Modulos
    PROVE  m \in Nat /\ m > 1 /\ m <= Extended /\ Extended \in Nat
  BY ModuloAssumption DEF Modulos

LEMMA PacketKinds ==
    ASSUME NEW pkt \in PeerPackets \cup {NoPacket}
    PROVE  /\ pkt.type \in {"CallRequest", "CallAccept"} => pkt \in CallPackets
           /\ pkt.type = "Data" => pkt \in DataPacketSet
           /\ pkt.type = "ReceiveReady" => pkt \in ReceiveReadySet
  BY PeerAssumption DEF Packets, CallPackets, DataPacketSet, ReceiveReadySet,
                        PlainPackets, NoPacket

LEMMA ClampType ==
    ASSUME NEW size \in FacilityWindows, NEW m \in Modulos
    PROVE  /\ ClampWindowSize(size, m) \in FacilityWindows
           /\ ClampWindowSize(size, m) < m
  BY ModuloAssumption DEF ClampWindowSize, FacilityWindows, Modulos

LEMMA FacilityType ==
    ASSUME NEW pkt \in CallPackets
    PROVE  /\ pkt.modulo \in Modulos
           /\ pkt.packet_size # Absent =>
                 pkt.packet_size[1] \in PacketSizes /\ pkt.packet_size[2] \in PacketSizes
           /\ pkt.window_size # Absent =>
                 pkt.window_size[1] \in FacilityWindows /\ pkt.window_size[2] \in FacilityWindows
  BY DEF CallPackets, PacketSizeFacility, WindowSizeFacility

LEMMA NegotiateType ==
    ASSUME NEW pkt \in CallPackets, NEW p \in Params
    PROVE  /\ NegotiateCallingParams(pkt, p) \in Params
           /\ NegotiateCalledParams(pkt, p) \in Params
  <1>1. /\ pkt.modulo \in Modulos
        /\ pkt.window_size # Absent =>
              /\ ClampWindowSize(pkt.window_size[1], pkt.modulo) \in FacilityWindows
              /\ ClampWindowSize(pkt.window_size[2], pkt.modulo) \in FacilityWindows
    BY FacilityType, ClampType
  <1>2. NegotiateCallingParams(pkt, p) \in Params
    BY <1>1, FacilityType DEF NegotiateCallingParams, Params
  <1>3. NegotiateCalledParams(pkt, p) \in Params
    BY <1>1, FacilityType DEF NegotiateCalledParams, Params
  <1> QED BY <1>2, <1>3

LEMMA CallPacketType ==
    ASSUME NEW p \in Params
    PROVE  CreateCallRequest(p) \in Packets /\ CreateCallAccept(p) \in Packets
  <1>1. /\ CreateCallRequest(p) \in CallPackets
        /\ CreateCallAccept(p) \in CallPackets
    BY DEF CreateCallRequest, CreateCallAccept, CallPackets, Params,
           PacketSizeFacility, WindowSizeFacility
  <1> QED BY <1>1 DEF Packets

(* Cutting a message gives chunks of its octets. *)
LEMMA ChunksType ==
    ASSUME NEW m \in Messages, NEW size \in PacketSizes
    PROVE  Chunks(m, size) \in Seq(SendData)
  <1> DEFINE len == Len(m.data)
             count == (len + size - 1) \div size
  <1>1. /\ m.data \in Seq(Octets) /\ m.qualifier \in BOOLEAN
        /\ size \in Nat /\ size > 0 /\ len \in Nat
    BY MessageAssumption, SizeAssumption
  <1>2. count \in Nat /\ size * count <= len + size - 1
    <2> HIDE DEF len
    <2> DEFINE x == len + size - 1
    <2>1. x \in Nat
      BY <1>1
    <2> HIDE DEF x
    <2>2. x \div size \in Nat /\ size * (x \div size) <= x
      BY <1>1, <2>1
    <2> QED BY <2>2 DEF x
  <1>3. ASSUME NEW i \in 1 .. count
        PROVE  /\ (i - 1) * size + 1 \in Nat \ {0}
               /\ (IF i = count THEN len ELSE i * size) \in Int
               /\ (IF i = count THEN len ELSE i * size) <= len
    <2> HIDE DEF len, count
    <2>1. (i - 1) * size \in Nat /\ i * size \in Nat
      BY <1>1, <1>2
    <2>2. CASE i = count
      BY <1>1, <2>1, <2>2
    <2>3. CASE i # count
      <3>1. count - i \in Nat /\ count - i >= 1
        BY <1>2, <2>3
      <3>2. size * (count - i) >= size
        BY <1>1, <3>1, MultipleIsLarge
      <3>3. size * (count - i) = size * count - i * size
        BY <1>1, <1>2
      <3> QED BY <1>1, <1>2, <2>1, <2>3, <3>2, <3>3
    <2> QED BY <2>2, <2>3
  <1>4. ASSUME NEW i \in 1 .. count
        PROVE  SubSeq(m.data, (i - 1) * size + 1, IF i = count THEN len ELSE i * size)
                  \in Seq(Octets)
    <2> DEFINE f == (i - 1) * size + 1
               l == IF i = count THEN len ELSE i * size
    <2>1. f \in Nat \ {0} /\ l \in Int /\ l <= Len(m.data)
      BY <1>3
    <2> HIDE DEF f, l
    <2>2. \A j \in f .. l : m.data[j] \in Octets
      BY <1>1, <2>1
    <2>3. SubSeq(m.data, f, l) \in Seq(Octets)
      BY <1>1, <2>1, <2>2, SubSeqProperties
    <2> QED BY <2>3 DEF f, l
  <1> DEFINE part(i) == SubSeq(m.data, (i - 1) * size + 1,
                               IF i = count THEN len ELSE i * size)
  <1>5. Chunks(m, size) = [i \in 1 .. count |->
                              [data |-> part(i), qualifier |-> m.qualifier,
                               more |-> i < count]]
    BY DEF Chunks
  <1>6. \A i \in 1 .. count : part(i) \in Seq(Octets)
    BY <1>4
  <1> HIDE DEF len, count, part
  <1>7. Chunks(m, size) \in [1 .. count -> SendData]
    BY <1>1, <1>5, <1>6 DEF SendData
  <1>8. [1 .. count -> SendData] \subseteq Seq(SendData)
    BY <1>2
  <1> QED BY <1>7, <1>8

-----------------------------------------------------------------------------
(* Windows. *)

LEMMA TransferType ==
    ASSUME NEW d \in Transfers
    PROVE  \E m \in Modulos : d.window \in Windows(m)
  BY DEF Transfers

(* Sending k more packets than are outstanding, while there is room. *)
LEMMA AdvanceWithinWindow ==
    ASSUME NEW m \in Nat, m > 1, NEW w \in Windows(m), NEW k \in Nat,
           Outstanding(w) + k <= w.size
    PROVE  /\ Advance(w, k) \in Windows(m)
           /\ Advance(w, k).size = w.size
           /\ Outstanding(Advance(w, k)) = Outstanding(w) + k
  <1>1. /\ w.start \in SeqNos(m) /\ w.current \in SeqNos(m) /\ w.modulo = m
        /\ w.size \in 1 .. (m - 1)
    BY DEF Windows
  <1>2. Outstanding(w) \in Nat
    <2>1. Dist(w.start, w.current, m) \in SeqNos(m)
      BY <1>1, DistType
    <2> QED BY <1>1, <2>1 DEF Outstanding, SeqNos
  <1>3. (w.current + k) % m = IF w.current + k < m THEN w.current + k ELSE w.current + k - m
    BY <1>1, <1>2, ModOnce DEF SeqNos
  <1>4. Advance(w, k) = [w EXCEPT !.current = (w.current + k) % m]
    BY <1>1 DEF Advance
  <1> DEFINE c == (w.current + k) % m
  <1>5. c \in SeqNos(m)
    BY <1>1, <1>2, <1>3 DEF SeqNos
  <1>6. Dist(w.start, c, m) = Outstanding(w) + k
    BY <1>1, <1>2, <1>3 DEF Outstanding, Dist, SeqNos
  <1> HIDE DEF c
  <1>7. Advance(w, k) = [w EXCEPT !.current = c]
    BY <1>4 DEF c
  <1> QED BY <1>5, <1>6, <1>7 DEF Windows, Outstanding

(* The loop of send_queued_data stays within the window: had it sent more  *)
(* than there was room for, it would have found the window closed earlier. *)
LEMMA LoopWithinWindow ==
    ASSUME NEW m \in Nat, m > 1, NEW d, d.window \in Windows(m),
           NEW n \in Nat, Reached(d, n),
           Outstanding(d.window) <= d.window.size
    PROVE  /\ Advance(d.window, n) \in Windows(m)
           /\ Advance(d.window, n).size = d.window.size
           /\ Outstanding(Advance(d.window, n)) <= d.window.size
           /\ Outstanding(d.window) + n <= d.window.size
  <1> DEFINE w == d.window
             room == w.size - Outstanding(w)
  <1>1. w.size \in Nat /\ Outstanding(w) \in Nat
    BY DistType DEF Windows, Outstanding, SeqNos
  <1>2. room \in Nat
    BY <1>1
  <1>3. n <= room
    <2> SUFFICES ASSUME n > room
                 PROVE  FALSE
      BY <1>2
    <2>1. IsOpen(Advance(w, room))
      BY <1>2 DEF Reached
    <2>2. /\ Advance(w, room) \in Windows(m)
          /\ Advance(w, room).size = w.size
          /\ Outstanding(Advance(w, room)) = w.size
      BY <1>1, <1>2, AdvanceWithinWindow
    <2> QED BY <2>1, <2>2, OpenIsRoom
  <1>4. Outstanding(w) + n <= w.size
    BY <1>1, <1>3
  <1> QED BY <1>1, <1>4, AdvanceWithinWindow

-----------------------------------------------------------------------------
(* What operations are made of. *)

LEMMA NoTransferOK ==
    NoTransfer \in Transfers /\ Outstanding(NoTransfer.window) <= NoTransfer.window.size
  <1>1. WindowSizeOK(1, Normal) /\ Normal \in Modulos /\ Normal \in Nat /\ Normal > 1
    BY ModuloAssumption DEF WindowSizeOK, Modulos
  <1>2. NewWindow(1, Normal) \in Windows(Normal) /\ Outstanding(NewWindow(1, Normal)) = 0
    BY <1>1, NewWindowType
  <1>3. 0 \in SeqNos(Extended)
    BY ModuloAssumption DEF SeqNos
  <1>4. NewWindow(1, Normal).size = 1
    BY DEF NewWindow
  <1> QED BY <1>1, <1>2, <1>3, <1>4 DEF NoTransfer, Transfers

LEMMA EmittedType ==
    ASSUME WireOK, NEW pkts \in Seq(Packets)
    PROVE  Emitted(pkts) \in Seq(Packets)
  BY DEF WireOK, Emitted

LEMMA SendPacketsOK ==
    ASSUME WireOK, NEW pkts \in Seq(Packets), SendPackets(pkts)
    PROVE  WireOK'
  BY EmittedType DEF WireOK, SendPackets

LEMMA SendFailsOK ==
    ASSUME WireOK, NEW pkts \in Seq(Packets), SendFails(pkts)
    PROVE  WireOK'
  BY EmittedType DEF WireOK, SendFails

LEMMA ChangeStateOK ==
    ASSUME NEW s \in States, NEW i \in Initiators, ChangeState(s, i, NoTransfer)
    PROVE  CircuitOK'
  BY NoTransferOK DEF ChangeState, CircuitOK, WindowRespected

LEMMA ClearedOK ==
    ASSUME NEW i \in Initiators, Cleared(i)
    PROVE  CircuitOK'
  BY ChangeStateOK DEF Cleared, States

LEMMA OutOfOrderOK ==
    ASSUME OutOfOrder
    PROVE  CircuitOK'
  BY ChangeStateOK DEF OutOfOrder, States, Initiators, NoInitiator

(* Opening a window of the negotiated size, or failing the assertion. *)
LEMMA DataTransferOK ==
    ASSUME CircuitOK, PanicOK, NEW p \in Params, DataTransfer(p)
    PROVE  CircuitOK' /\ PanicOK'
  <1>1. CASE WindowSizeOK(p.send_window_size, p.modulo)
    <2> DEFINE w == NewWindow(p.send_window_size, p.modulo)
               d == [window |-> w, recv_seq |-> 0]
    <2>1. p.modulo \in Modulos /\ p.modulo \in Nat /\ p.modulo > 1 /\ p.send_window_size \in Nat
      BY ModuloType DEF Params, FacilityWindows
    <2>2. w \in Windows(p.modulo) /\ Outstanding(w) = 0
      BY <1>1, <2>1, NewWindowType
    <2>3. w.size \in Nat
      BY <2>1 DEF NewWindow
    <2>4. 0 \in SeqNos(Extended)
      BY ModuloAssumption DEF SeqNos
    <2>5. ChangeState("DataTransfer", NoInitiator, d) /\ UNCHANGED panic
      BY <1>1 DEF DataTransfer
    <2> HIDE DEF w
    <2>6. d \in Transfers /\ Outstanding(d.window) <= d.window.size
      BY <2>1, <2>2, <2>3, <2>4 DEF Transfers
    <2> HIDE DEF d
    <2> QED BY <2>5, <2>6 DEF ChangeState, CircuitOK, WindowRespected, PanicOK,
                              States, Initiators, NoInitiator
  <1>2. CASE ~WindowSizeOK(p.send_window_size, p.modulo)
    BY <1>2 DEF DataTransfer, circuit, CircuitOK, WindowRespected, PanicOK, PanicSites
  <1> QED BY <1>1, <1>2

LEMMA PlainPacketType ==
    ASSUME NEW t \in {"ClearRequest", "ClearConfirm", "ResetRequest", "ResetConfirm"}
    PROVE  [type |-> t] \in Packets
  BY DEF Packets, PlainPackets

LEMMA SendThenChangeOK ==
    ASSUME WireOK, NEW pkt \in Packets, NEW s \in States, NEW i \in Initiators,
           SendThenChange(pkt, s, i)
    PROVE  CircuitOK' /\ WireOK'
  <1>1. <<pkt>> \in Seq(Packets) /\ <<>> \in Seq(Packets)
    OBVIOUS
  <1>2. CASE SendPackets(<<pkt>>) /\ ChangeState(s, i, NoTransfer)
    BY <1>1, <1>2, SendPacketsOK, ChangeStateOK
  <1>3. CASE SendFails(<<>>) /\ OutOfOrder
    BY <1>1, <1>3, SendFailsOK, OutOfOrderOK
  <1> QED BY <1>2, <1>3 DEF SendThenChange

LEMMA ClearRequestOK ==
    ASSUME WireOK, NEW i \in Initiators, ClearRequest(i)
    PROVE  CircuitOK' /\ WireOK'
  BY SendThenChangeOK, PlainPacketType DEF ClearRequest, States

LEMMA ClearConfirmOK ==
    ASSUME WireOK, ClearConfirm
    PROVE  CircuitOK' /\ WireOK'
  BY SendThenChangeOK, PlainPacketType DEF ClearConfirm, States, Initiators

LEMMA ResetRequestOK ==
    ASSUME WireOK, ResetRequest
    PROVE  CircuitOK' /\ WireOK'
  BY SendThenChangeOK, PlainPacketType DEF ResetRequest, States, Initiators, NoInitiator

LEMMA ResetConfirmOK ==
    ASSUME CircuitOK, WireOK, ParamsOK, PanicOK, ResetConfirm
    PROVE  CircuitOK' /\ WireOK' /\ PanicOK'
  <1>1. <<[type |-> "ResetConfirm"]>> \in Seq(Packets) /\ <<>> \in Seq(Packets)
    BY PlainPacketType
  <1>2. CASE SendPackets(<<[type |-> "ResetConfirm"]>>) /\ DataTransfer(params)
    BY <1>1, <1>2, SendPacketsOK, DataTransferOK DEF ParamsOK
  <1>3. CASE SendFails(<<>>) /\ OutOfOrder /\ UNCHANGED panic
    BY <1>1, <1>3, SendFailsOK, OutOfOrderOK DEF PanicOK
  <1> QED BY <1>2, <1>3 DEF ResetConfirm

LEMMA ReceiveReadyOK ==
    ASSUME CircuitOK, WireOK, NEW d \in Transfers,
           Outstanding(d.window) <= d.window.size, ReceiveReady(d)
    PROVE  CircuitOK' /\ WireOK'
  <1> DEFINE pkt == [type |-> "ReceiveReady", recv_seq |-> d.recv_seq]
  <1>1. pkt \in ReceiveReadySet
    BY ModuloAssumption DEF Transfers, SeqNos, ReceiveReadySet
  <1> HIDE DEF pkt
  <1>2. <<pkt>> \in Seq(Packets) /\ <<>> \in Seq(Packets)
    BY <1>1 DEF Packets
  <1>3. CASE /\ SendPackets(<<pkt>>) /\ dts' = d
             /\ UNCHANGED <<state, initiator, expired>>
    <2>1. WireOK'
      BY <1>2, <1>3, SendPacketsOK
    <2> QED BY <1>3, <2>1 DEF CircuitOK, WindowRespected
  <1>4. CASE SendFails(<<>>) /\ OutOfOrder
    BY <1>2, <1>4, SendFailsOK, OutOfOrderOK
  <1> QED BY <1>3, <1>4 DEF ReceiveReady, pkt

(* The data packets made of the queue's chunks are packets. *)
LEMMA DataPacketsType ==
    ASSUME QueuesOK, NEW d \in Transfers, NEW n \in 0 .. Len(sendq)
    PROVE  DataPackets(d, n) \in Seq(Packets)
  <1> DEFINE packet(k) ==
               [type |-> "Data", send_seq |-> Advance(d.window, k - 1).current,
                recv_seq |-> d.recv_seq, data |-> sendq[k].data,
                qualifier |-> sendq[k].qualifier, more |-> sendq[k].more]
  <1>1. n \in Nat /\ \A k \in 1 .. n : sendq[k] \in SendData
    BY DEF QueuesOK
  <1>2. d.recv_seq \in Nat
    BY ModuloAssumption DEF Transfers, SeqNos
  <1>3. PICK m \in Modulos : d.window \in Windows(m)
    BY TransferType
  <1>4. m \in Nat /\ m > 1
    BY ModuloType
  <1>5. ASSUME NEW k \in 1 .. n
        PROVE  Advance(d.window, k - 1).current \in Nat
    <2>1. d.window.current \in Nat /\ d.window.modulo = m
      BY <1>3, <1>4 DEF Windows, SeqNos
    <2>2. (d.window.current + (k - 1)) % m \in Nat
      BY <1>1, <1>4, <2>1
    <2> DEFINE c == (d.window.current + (k - 1)) % m
    <2>3. Advance(d.window, k - 1) = [d.window EXCEPT !.current = c]
      BY <2>1 DEF Advance
    <2> HIDE DEF c
    <2>4. [d.window EXCEPT !.current = c].current = c
      BY <1>3 DEF Windows
    <2> QED BY <2>2, <2>3, <2>4 DEF c
  <1>6. ASSUME NEW k \in 1 .. n
        PROVE  packet(k) \in DataPacketSet
    <2> DEFINE s == Advance(d.window, k - 1).current
    <2>1. s \in Nat
      BY <1>5
    <2> HIDE DEF s
    <2>2. sendq[k] \in SendData
      BY <1>1
    <2>3. /\ sendq[k].data \in Seq(Octets)
          /\ sendq[k].qualifier \in BOOLEAN
          /\ sendq[k].more \in BOOLEAN
      BY <2>2 DEF SendData
    <2> QED BY <1>2, <2>1, <2>3 DEF DataPacketSet, s
  <1>7. DataPackets(d, n) = [k \in 1 .. n |-> packet(k)]
    BY DEF DataPackets
  <1> HIDE DEF packet
  <1>8. DataPackets(d, n) \in [1 .. n -> Packets]
    BY <1>6, <1>7 DEF Packets
  <1>9. [1 .. n -> Packets] \subseteq Seq(Packets)
    BY <1>1
  <1> QED BY <1>8, <1>9

LEMMA TailType ==
    ASSUME NEW S, NEW q \in Seq(S), NEW n \in 0 .. Len(q)
    PROVE  SubSeq(q, n + 1, Len(q)) \in Seq(S)
  <1>1. n + 1 \in Nat \ {0} /\ Len(q) \in Int /\ Len(q) <= Len(q)
    OBVIOUS
  <1>2. \A j \in n + 1 .. Len(q) : q[j] \in S
    OBVIOUS
  <1> QED BY <1>1, <1>2, SubSeqProperties

LEMMA SendQueuedDataOK ==
    ASSUME CircuitOK, WireOK, QueuesOK, NEW d \in Transfers,
           Outstanding(d.window) <= d.window.size,
           NEW n \in 0 .. Len(sendq), SendQueuedData(d, n)
    PROVE  CircuitOK' /\ WireOK' /\ sendq' \in Seq(SendData)
  <1>1. sendq' \in Seq(SendData)
    BY TailType DEF QueuesOK, SendQueuedData
  <1>2. DataPackets(d, n) \in Seq(Packets)
    BY DataPacketsType
  <1>3. CASE /\ SendPackets(DataPackets(d, n))
             /\ dts' = [d EXCEPT !.window = Advance(d.window, n)]
             /\ UNCHANGED <<state, initiator, expired>>
    <2>1. PICK m \in Modulos : d.window \in Windows(m)
      BY TransferType
    <2>2. m \in Nat /\ m > 1 /\ n \in Nat
      BY ModuloType DEF QueuesOK
    <2>3. Reached(d, n)
      BY DEF SendQueuedData
    <2> DEFINE w == Advance(d.window, n)
    <2>4. w \in Windows(m) /\ Outstanding(w) <= w.size
      BY <2>1, <2>2, <2>3, LoopWithinWindow
    <2> HIDE DEF w
    <2>5. [d EXCEPT !.window = w] \in Transfers /\ [d EXCEPT !.window = w].window = w
      BY <2>1, <2>4 DEF Transfers
    <2>6. dts' \in Transfers /\ Outstanding(dts'.window) <= dts'.window.size
      BY <1>3, <2>4, <2>5 DEF w
    <2>7. WireOK'
      BY <1>2, <1>3, SendPacketsOK
    <2> QED BY <1>1, <1>3, <2>6, <2>7 DEF CircuitOK, WindowRespected
  <1>4. CASE SendFails(DataPackets(d, n)) /\ OutOfOrder
    BY <1>1, <1>2, <1>4, SendFailsOK, OutOfOrderOK
  <1> QED BY <1>3, <1>4 DEF SendQueuedData

(* Counting a packet in and taking its acknowledgment. *)
LEMMA AcknowledgedOK ==
    ASSUME NEW d \in Transfers, Outstanding(d.window) <= d.window.size,
           NEW q \in Nat, StartAccepted(d.window, q)
    PROVE  /\ Acknowledged(d, q) \in Transfers
           /\ Outstanding(Acknowledged(d, q).window) <= Acknowledged(d, q).window.size
  <1>1. PICK m \in Modulos : d.window \in Windows(m)
    BY TransferType
  <1>2. m \in Nat /\ m > 1
    BY ModuloType
  <1> DEFINE w == UpdateStart(d.window, q)
  <1>3. /\ w \in Windows(m)
        /\ w = [d.window EXCEPT !.start = q]
        /\ Outstanding(w) = Outstanding(d.window) - Dist(d.window.start, q, m)
        /\ Dist(d.window.start, q, m) <= Outstanding(d.window)
        /\ q \in SeqNos(m)
    BY <1>1, <1>2, UpdateStartOutstanding
  <1>4. w.size = d.window.size
    BY <1>1, <1>3 DEF Windows
  <1>5. Dist(d.window.start, q, m) \in Nat
    <2>1. d.window.start \in SeqNos(m)
      BY <1>1 DEF Windows
    <2>2. Dist(d.window.start, q, m) \in SeqNos(m)
      BY <1>2, <1>3, <2>1, DistType
    <2> QED BY <1>2, <2>2 DEF SeqNos
  <1>6. Outstanding(d.window) \in Nat /\ d.window.size \in Nat
    <2>1. /\ d.window.start \in SeqNos(m) /\ d.window.current \in SeqNos(m)
          /\ d.window.modulo = m /\ d.window.size \in Nat
      BY <1>1, <1>2 DEF Windows
    <2>2. Dist(d.window.start, d.window.current, m) \in SeqNos(m)
      BY <1>2, <2>1, DistType
    <2> QED BY <1>2, <2>1, <2>2 DEF SeqNos, Outstanding
  <1>7. Outstanding(w) <= w.size
    <2> HIDE DEF w
    <2> QED BY <1>3, <1>4, <1>5, <1>6
  <1>8. Acknowledged(d, q) = [d EXCEPT !.window = w]
    BY DEF Acknowledged
  <1> HIDE DEF w
  <1> QED BY <1>1, <1>3, <1>7, <1>8 DEF Transfers

LEMMA CountedOK ==
    ASSUME NEW d \in Transfers, Outstanding(d.window) <= d.window.size
    PROVE  /\ Counted(d) \in Transfers
           /\ Outstanding(Counted(d).window) <= Counted(d).window.size
  <1>1. PICK m \in Modulos : d.window \in Windows(m)
    BY TransferType
  <1>2. m \in Nat /\ m > 1 /\ m <= Extended /\ Extended \in Nat
    BY ModuloType
  <1>3. d.window.modulo = m /\ d.recv_seq \in Nat
    BY <1>1, <1>2 DEF Windows, Transfers, SeqNos
  <1> DEFINE s == NextSeq(d.recv_seq, m)
  <1>4. s \in SeqNos(Extended)
    BY <1>2, <1>3 DEF NextSeq, SeqNos
  <1>5. Counted(d) = [d EXCEPT !.recv_seq = s]
    BY <1>3 DEF Counted
  <1> HIDE DEF s
  <1> QED BY <1>4, <1>5 DEF Transfers

-----------------------------------------------------------------------------
(* The engine's steps, by the state they start from. *)

LEMMA PeerPacketType ==
    ASSUME NEW pkt \in PeerPackets \cup {NoPacket}
    PROVE  /\ pkt.type \in {"CallRequest", "CallAccept"} => pkt \in CallPackets
           /\ pkt.type = "Data" =>
                 /\ pkt.send_seq \in Nat /\ pkt.recv_seq \in Nat
                 /\ [data |-> pkt.data, qualifier |-> pkt.qualifier,
                     more |-> pkt.more] \in SendData
           /\ pkt.type = "ReceiveReady" => pkt.recv_seq \in Nat
  <1>1. /\ pkt.type \in {"CallRequest", "CallAccept"} => pkt \in CallPackets
        /\ pkt.type = "Data" => pkt \in DataPacketSet
        /\ pkt.type = "ReceiveReady" => pkt \in ReceiveReadySet
    BY PacketKinds
  <1> QED BY <1>1 DEF DataPacketSet, ReceiveReadySet, SendData

LEMMA InReadyOK ==
    ASSUME IInv, NEW pkt \in PeerPackets \cup {NoPacket}, InReady(pkt)
    PROVE  IInv'
  <1>1. WireOK' /\ QueuesOK' /\ PanicOK'
    BY DEF IInv, InReady, WireOK, QueuesOK, PanicOK, wire
  <1>2. CASE /\ pkt.type = "CallRequest"
             /\ params' = NegotiateCalledParams(pkt, params)
             /\ ChangeState("Called", NoInitiator, NoTransfer)
    <2>1. CircuitOK'
      BY <1>2, ChangeStateOK DEF States, Initiators, NoInitiator
    <2>2. ParamsOK'
      BY <1>2, PeerPacketType, NegotiateType DEF IInv, ParamsOK
    <2> QED BY <1>1, <2>1, <2>2 DEF IInv
  <1>3. CASE UNCHANGED <<params, circuit>>
    BY <1>1, <1>3 DEF IInv, CircuitOK, WindowRespected, ParamsOK, circuit
  <1> QED BY <1>2, <1>3 DEF InReady

LEMMA InCalledOK ==
    ASSUME IInv, NEW pkt \in PeerPackets \cup {NoPacket}, InCalled(pkt)
    PROVE  IInv'
  <1>1. WireOK' /\ QueuesOK' /\ ParamsOK' /\ PanicOK'
    BY DEF IInv, InCalled, WireOK, QueuesOK, ParamsOK, PanicOK, wire
  <1>2. CASE Cleared("Remote")
    BY <1>1, <1>2, ClearedOK DEF IInv, Initiators
  <1>3. CASE UNCHANGED circuit
    BY <1>1, <1>3 DEF IInv, CircuitOK, WindowRespected, circuit
  <1> QED BY <1>2, <1>3 DEF InCalled

LEMMA InWaitCallAcceptOK ==
    ASSUME IInv, NEW pkt \in PeerPackets \cup {NoPacket}, InWaitCallAccept(pkt)
    PROVE  IInv'
  <1>1. QueuesOK'
    BY DEF IInv, InWaitCallAccept, QueuesOK
  <1>2. CASE /\ pkt.type = "CallAccept"
             /\ params' = NegotiateCallingParams(pkt, params)
             /\ DataTransfer(params')
             /\ UNCHANGED wire
    <2>1. params' \in Params
      BY <1>2, PeerPacketType, NegotiateType DEF IInv, ParamsOK
    <2>2. CircuitOK' /\ PanicOK'
      BY <1>2, <2>1, DataTransferOK DEF IInv
    <2> QED BY <1>1, <1>2, <2>1, <2>2 DEF IInv, ParamsOK, WireOK, wire
  <1>3. CASE Cleared("Remote") /\ UNCHANGED <<params, wire, panic>>
    BY <1>1, <1>3, ClearedOK DEF IInv, Initiators, WireOK, ParamsOK, PanicOK, wire
  <1>4. CASE ClearRequest("TimeOut") /\ UNCHANGED <<params, panic>>
    BY <1>1, <1>4, ClearRequestOK DEF IInv, Initiators, ParamsOK, PanicOK
  <1>5. CASE UNCHANGED <<params, circuit, wire, panic>>
    BY <1>1, <1>5 DEF IInv, CircuitOK, WindowRespected, WireOK, ParamsOK, PanicOK,
                      circuit, wire
  <1> QED BY <1>2, <1>3, <1>4, <1>5 DEF InWaitCallAccept

LEMMA InDataOK ==
    ASSUME IInv, NEW pkt \in PeerPackets \cup {NoPacket}, pkt.type = "Data", InData(pkt)
    PROVE  CircuitOK' /\ WireOK' /\ QueuesOK'
  <1>1. CASE ResetRequest /\ UNCHANGED <<sendq, recvq>>
    BY <1>1, ResetRequestOK DEF IInv, QueuesOK
  <1> DEFINE d == Counted(Acknowledged(dts, pkt.recv_seq))
  <1>2. CASE /\ DataInSequence(pkt)
             /\ QueueRecvData(pkt)
             /\ \/ Stops(d, 0) /\ ReceiveReady(d) /\ UNCHANGED sendq
                \/ /\ ~Stops(d, 0)
                   /\ \E n \in 0 .. Len(sendq) : SendQueuedData(d, n)
    <2>1. d \in Transfers /\ Outstanding(d.window) <= d.window.size
      <3>1. dts \in Transfers /\ Outstanding(dts.window) <= dts.window.size
        BY DEF IInv, CircuitOK, WindowRespected
      <3>2. pkt.recv_seq \in Nat /\ StartAccepted(dts.window, pkt.recv_seq)
        BY <1>2, PeerPacketType DEF DataInSequence
      <3> QED BY <3>1, <3>2, AcknowledgedOK, CountedOK
    <2>2. recvq' \in Seq(SendData)
      BY <1>2, PeerPacketType DEF IInv, QueuesOK, QueueRecvData
    <2> HIDE DEF d
    <2>3. CASE ReceiveReady(d) /\ UNCHANGED sendq
      BY <2>1, <2>2, <2>3, ReceiveReadyOK DEF IInv, QueuesOK
    <2>4. CASE \E n \in 0 .. Len(sendq) : SendQueuedData(d, n)
      BY <2>1, <2>2, <2>4, SendQueuedDataOK DEF IInv, QueuesOK
    <2> QED BY <1>2, <2>3, <2>4
  <1> QED BY <1>1, <1>2 DEF InData

LEMMA InReceiveReadyOK ==
    ASSUME IInv, NEW pkt \in PeerPackets \cup {NoPacket}, pkt.type = "ReceiveReady",
           InReceiveReady(pkt)
    PROVE  CircuitOK' /\ WireOK' /\ sendq' \in Seq(SendData)
  <1>1. CASE ResetRequest /\ UNCHANGED sendq
    BY <1>1, ResetRequestOK DEF IInv, QueuesOK
  <1> DEFINE d == Acknowledged(dts, pkt.recv_seq)
  <1>2. CASE /\ StartAccepted(dts.window, pkt.recv_seq)
             /\ \E n \in 0 .. Len(sendq) : SendQueuedData(d, n)
    <2>1. dts \in Transfers /\ Outstanding(dts.window) <= dts.window.size
      BY DEF IInv, CircuitOK, WindowRespected
    <2>2. d \in Transfers /\ Outstanding(d.window) <= d.window.size
      BY <1>2, <2>1, PeerPacketType, AcknowledgedOK
    <2> HIDE DEF d
    <2> QED BY <1>2, <2>2, SendQueuedDataOK DEF IInv
  <1> QED BY <1>1, <1>2 DEF InReceiveReady

LEMMA InDataTransferOK ==
    ASSUME IInv, NEW pkt \in PeerPackets \cup {NoPacket}, InDataTransfer(pkt)
    PROVE  IInv'
  <1>1. ParamsOK'
    BY DEF IInv, InDataTransfer, ParamsOK
  <1>2. CASE pkt.type = "Data" /\ InData(pkt) /\ UNCHANGED panic
    BY <1>1, <1>2, InDataOK DEF IInv, PanicOK
  <1>3. CASE pkt.type = "ReceiveReady" /\ InReceiveReady(pkt) /\ UNCHANGED <<recvq, panic>>
    BY <1>1, <1>3, InReceiveReadyOK DEF IInv, QueuesOK, PanicOK
  <1>4. CASE ResetConfirm /\ UNCHANGED <<sendq, recvq>>
    BY <1>1, <1>4, ResetConfirmOK DEF IInv, QueuesOK
  <1>5. CASE ClearConfirm /\ UNCHANGED <<sendq, recvq, panic>>
    BY <1>1, <1>5, ClearConfirmOK DEF IInv, QueuesOK, PanicOK
  <1>6. CASE UNCHANGED <<circuit, wire, sendq, recvq, panic>>
    BY <1>1, <1>6 DEF IInv, CircuitOK, WindowRespected, WireOK, QueuesOK, PanicOK,
                      circuit, wire
  <1> QED BY <1>2, <1>3, <1>4, <1>5, <1>6 DEF InDataTransfer

LEMMA InWaitResetConfirmOK ==
    ASSUME IInv, NEW pkt \in PeerPackets \cup {NoPacket}, InWaitResetConfirm(pkt)
    PROVE  IInv'
  <1>1. ParamsOK' /\ QueuesOK'
    BY DEF IInv, InWaitResetConfirm, ParamsOK, QueuesOK
  <1>2. CASE DataTransfer(params) /\ UNCHANGED wire
    BY <1>1, <1>2, DataTransferOK DEF IInv, ParamsOK, WireOK, wire
  <1>3. CASE ResetConfirm
    BY <1>1, <1>3, ResetConfirmOK DEF IInv
  <1>4. CASE ClearConfirm /\ UNCHANGED panic
    BY <1>1, <1>4, ClearConfirmOK DEF IInv, PanicOK
  <1>5. CASE ClearRequest("TimeOut") /\ UNCHANGED panic
    BY <1>1, <1>5, ClearRequestOK DEF IInv, Initiators, PanicOK
  <1>6. CASE UNCHANGED <<circuit, wire, panic>>
    BY <1>1, <1>6 DEF IInv, CircuitOK, WindowRespected, WireOK, PanicOK, circuit, wire
  <1> QED BY <1>2, <1>3, <1>4, <1>5, <1>6 DEF InWaitResetConfirm

LEMMA InWaitClearConfirmOK ==
    ASSUME IInv, NEW pkt \in PeerPackets \cup {NoPacket}, InWaitClearConfirm(pkt)
    PROVE  IInv'
  <1>1. WireOK' /\ ParamsOK' /\ QueuesOK'
    BY DEF IInv, InWaitClearConfirm, WireOK, ParamsOK, QueuesOK, wire
  <1>2. CASE Cleared(initiator) /\ UNCHANGED panic
    BY <1>1, <1>2, ClearedOK DEF IInv, CircuitOK, PanicOK
  <1>3. CASE panic' = "clear collision" /\ UNCHANGED circuit
    BY <1>1, <1>3 DEF IInv, CircuitOK, WindowRespected, PanicOK, PanicSites, circuit
  <1>4. CASE OutOfOrder /\ UNCHANGED panic
    BY <1>1, <1>4, OutOfOrderOK DEF IInv, PanicOK
  <1>5. CASE UNCHANGED <<circuit, panic>>
    BY <1>1, <1>5 DEF IInv, CircuitOK, WindowRespected, PanicOK, circuit
  <1> QED BY <1>2, <1>3, <1>4, <1>5 DEF InWaitClearConfirm

LEMMA StutterOK == ASSUME IInv, UNCHANGED vcVars PROVE IInv'
  BY DEF IInv, CircuitOK, WindowRespected, WireOK, QueuesOK, ParamsOK, PanicOK, vcVars

LEMMA HandledOK ==
    ASSUME IInv, NEW pkt \in PeerPackets \cup {NoPacket}, HandleInPacket(pkt)
    PROVE  IInv'
  BY InReadyOK, InCalledOK, InWaitCallAcceptOK, InDataTransferOK,
     InWaitResetConfirmOK, InWaitClearConfirmOK, StutterOK
     DEF HandleInPacket, InTerminal

LEMMA LinkErrorOK == ASSUME IInv, LinkError PROVE IInv'
  <1>1. CircuitOK'
    BY OutOfOrderOK DEF LinkError
  <1> QED BY <1>1 DEF LinkError, IInv, WireOK, QueuesOK, ParamsOK, PanicOK, wire

LEMMA EngineOK == ASSUME IInv, Engine PROVE IInv'
  BY HandledOK, LinkErrorOK DEF Engine

-----------------------------------------------------------------------------
(* The application's steps. *)

LEMMA PanicStepOK ==
    ASSUME IInv, NEW site \in PanicSites, Panic(site)
    PROVE  IInv'
  BY DEF IInv, CircuitOK, WindowRespected, WireOK, QueuesOK, ParamsOK, PanicOK,
         Panic, circuit, wire

LEMMA RestOK ==
    ASSUME IInv, CircuitOK', WireOK', UNCHANGED <<params, sendq, recvq, panic>>
    PROVE  IInv'
  BY DEF IInv, QueuesOK, ParamsOK, PanicOK

LEMMA CallOK == ASSUME IInv, Call PROVE IInv'
  <1>1. CASE /\ SendThenChange(CreateCallRequest(params), "WaitCallAccept", NoInitiator)
             /\ UNCHANGED <<params, sendq, recvq, panic>>
    <2>1. CreateCallRequest(params) \in Packets
      BY CallPacketType DEF IInv, ParamsOK
    <2>2. CircuitOK' /\ WireOK'
      BY <1>1, <2>1, SendThenChangeOK DEF IInv, States, Initiators, NoInitiator
    <2> QED BY <1>1, <2>2, RestOK
  <1>2. CASE Panic("call")
    BY <1>2, PanicStepOK DEF PanicSites
  <1> QED BY <1>1, <1>2 DEF Call

LEMMA CallRefusedOK == ASSUME IInv, CallRefused PROVE IInv'
  <1>1. CircuitOK'
    BY OutOfOrderOK DEF CallRefused
  <1> QED BY <1>1, RestOK DEF CallRefused, IInv, WireOK, wire

LEMMA AcceptOK == ASSUME IInv, Accept PROVE IInv'
  <1>1. <<CreateCallAccept(params)>> \in Seq(Packets) /\ <<>> \in Seq(Packets)
    BY CallPacketType DEF IInv, ParamsOK
  <1>2. ParamsOK' /\ QueuesOK'
    BY DEF IInv, Accept, ParamsOK, QueuesOK
  <1>3. CASE SendPackets(<<CreateCallAccept(params)>>) /\ DataTransfer(params)
    BY <1>1, <1>2, <1>3, SendPacketsOK, DataTransferOK DEF IInv, ParamsOK
  <1>4. CASE SendFails(<<>>) /\ OutOfOrder /\ UNCHANGED panic
    BY <1>1, <1>2, <1>4, SendFailsOK, OutOfOrderOK DEF IInv, PanicOK
  <1> QED BY <1>3, <1>4 DEF Accept

LEMMA RejectOK == ASSUME IInv, Reject PROVE IInv'
  <1>1. CircuitOK' /\ WireOK'
    BY SendThenChangeOK, PlainPacketType DEF IInv, Reject, States, Initiators
  <1> QED BY <1>1, RestOK DEF Reject

LEMMA ClearOK == ASSUME IInv, Clear PROVE IInv'
  <1>1. CASE ClearRequest("Local") /\ UNCHANGED <<params, sendq, recvq, panic>>
    BY <1>1, ClearRequestOK, RestOK DEF IInv, Initiators
  <1>2. CASE Panic("clear")
    BY <1>2, PanicStepOK DEF PanicSites
  <1> QED BY <1>1, <1>2 DEF Clear

LEMMA LinkDownOK ==
    ASSUME IInv, link' = "down", UNCHANGED <<circuit, params, sendq, recvq, out, panic>>
    PROVE  IInv'
  BY DEF IInv, CircuitOK, WindowRespected, WireOK, QueuesOK, ParamsOK, PanicOK, circuit

LEMMA SendPushOK ==
    ASSUME IInv, NEW m \in Messages, SendPush(m)
    PROVE  IInv'
  <1>1. params.send_packet_size \in PacketSizes
    BY DEF IInv, ParamsOK, Params
  <1>2. Chunks(m, params.send_packet_size) \in Seq(SendData)
    BY <1>1, ChunksType
  <1>3. sendq' \in Seq(SendData)
    BY <1>2 DEF IInv, QueuesOK, SendPush
  <1> QED BY <1>3 DEF SendPush, IInv, CircuitOK, WindowRespected, WireOK, QueuesOK,
                      ParamsOK, PanicOK, circuit, wire

LEMMA SendKickOK == ASSUME IInv, SendKick PROVE IInv'
  <1>1. ASSUME NEW n \in 0 .. Len(sendq), SendQueuedData(dts, n),
               UNCHANGED <<params, recvq, panic>>
        PROVE  IInv'
    <2>1. CircuitOK' /\ WireOK' /\ sendq' \in Seq(SendData)
      BY <1>1, SendQueuedDataOK DEF IInv, CircuitOK, WindowRespected
    <2> QED BY <1>1, <2>1 DEF IInv, QueuesOK, ParamsOK, PanicOK
  <1>2. CASE Panic("send_queued_data")
    BY <1>2, PanicStepOK DEF PanicSites
  <1> QED BY <1>1, <1>2 DEF SendKick

(* The first packet without the more bit exists when there is one: the     *)
(* natural numbers are well-founded.                                       *)
LEMMA CompleteLenType ==
    ASSUME recvq \in Seq(SendData), HasCompleteData
    PROVE  /\ CompleteLen \in 1 .. Len(recvq)
           /\ ~recvq[CompleteLen].more
           /\ \A j \in 1 .. (CompleteLen - 1) : recvq[j].more
  <1> DEFINE ends == {i \in 1 .. Len(recvq) : ~recvq[i].more}
  <1>1. ends # {} /\ ends \subseteq Nat
    BY DEF HasCompleteData
  <1> HIDE DEF ends
  <1>2. PICK i \in ends : \A j \in ends : <<j, i>> \notin OpToRel(<, Nat)
    BY <1>1, NatLessThanWellFounded, WFMin
  <1>3. \A j \in ends : ~(j < i)
    BY <1>1, <1>2 DEF OpToRel
  <1>4. \E k \in 1 .. Len(recvq) :
            ~recvq[k].more /\ \A j \in 1 .. (k - 1) : recvq[j].more
    BY <1>1, <1>3 DEF ends
  <1> QED BY <1>4 DEF CompleteLen

LEMMA PopCompleteDataOK == ASSUME IInv, PopCompleteData PROVE IInv'
  <1>1. CompleteLen \in 0 .. Len(recvq)
    BY CompleteLenType DEF IInv, QueuesOK, PopCompleteData
  <1>2. recvq' \in Seq(SendData)
    BY <1>1, TailType DEF IInv, QueuesOK, PopCompleteData
  <1> QED BY <1>2 DEF PopCompleteData, IInv, CircuitOK, WindowRespected, WireOK,
                      QueuesOK, ParamsOK, PanicOK, circuit, wire

LEMMA ResetOK == ASSUME IInv, Reset PROVE IInv'
  <1>1. CASE ResetRequest /\ UNCHANGED <<params, sendq, recvq, panic>>
    BY <1>1, ResetRequestOK, RestOK DEF IInv
  <1>2. CASE Panic("reset")
    BY <1>2, PanicStepOK DEF PanicSites
  <1> QED BY <1>1, <1>2 DEF Reset

LEMMA ApplicationOK == ASSUME IInv, Application PROVE IInv'
  <1>1. CASE Shutdown
    BY <1>1, LinkDownOK DEF Shutdown
  <1>2. CASE CallPanics \/ ListenPanics \/ ClearPanics \/ ResetPanics
                \/ RecvPanics \/ FlushPanics
    BY <1>2, PanicStepOK DEF CallPanics, ListenPanics, ClearPanics, ResetPanics,
                             RecvPanics, FlushPanics, PanicSites
  <1> QED BY <1>1, <1>2, CallOK, CallRefusedOK, AcceptOK, RejectOK, ClearOK, SendPushOK, SendKickOK,
             PopCompleteDataOK, ResetOK DEF Application

LEMMA InitIInv == VcInit => IInv
  <1> SUFFICES ASSUME VcInit PROVE IInv
    OBVIOUS
  <1>1. CircuitOK
    BY NoTransferOK DEF VcInit, CircuitOK, WindowRespected, States, Initiators, NoInitiator
  <1>2. WireOK /\ QueuesOK /\ ParamsOK /\ PanicOK
    BY ParamsAssumption DEF VcInit, WireOK, QueuesOK, ParamsOK, PanicOK
  <1> QED BY <1>1, <1>2 DEF IInv

LEMMA ElapseOK == ASSUME IInv, Elapse PROVE IInv'
  BY DEF Elapse, IInv, CircuitOK, WindowRespected, WireOK, QueuesOK, ParamsOK, PanicOK, wire

LEMMA NextIInv == IInv /\ [Next]_vcVars => IInv'
  BY EngineOK, ApplicationOK, ElapseOK, LinkDownOK, StutterOK DEF Next, LinkBreaks

LEMMA IInvAlways == Spec => []IInv
  BY InitIInv, NextIInv, PTL DEF Spec

(* Whatever the peer sends and the application calls, in any order, the    *)
(* circuit's variables keep to their types (VcState, DataTransferState,    *)
(* X25Params in x25/vc.rs), for any modulos, packet sizes and messages.    *)
THEOREM TypeCorrect == Spec => []TypeOK
  BY IInvAlways, IInvImplies, PTL

(* Whatever the peer sends and the application calls, in any order, the    *)
(* packets sent and not acknowledged never exceed the window               *)
(* (send_queued_data in x25/vc.rs, update_start in x25/seq.rs), for any    *)
(* modulos and window sizes and with no bound on packets or messages.      *)
THEOREM WindowSafety == Spec => []WindowRespected
  BY IInvAlways, IInvImplies, PTL

-----------------------------------------------------------------------------
(* Negotiation never runs into the assertion of Window::new - provided the *)
(* application starts every circuit with a send window that suits both     *)
(* modulos, as main.rs does: a peer that answers with the smaller modulo   *)
(* and no window facility leaves the caller's own window in force.         *)

SmallWindows == \A p \in LocalParams : p.send_window_size < Normal

NegotiationOK ==
    /\ params.send_window_size < params.modulo
    /\ state \in {"Ready", "WaitCallAccept"} => params.send_window_size < Normal
    /\ WindowAssertionHolds

LEMMA NegotiatedWindow ==
    ASSUME NEW pkt \in CallPackets, NEW p \in Params, p.send_window_size < Normal
    PROVE  /\ NegotiateCallingParams(pkt, p).send_window_size
                 < NegotiateCallingParams(pkt, p).modulo
           /\ NegotiateCalledParams(pkt, p).send_window_size
                 < NegotiateCalledParams(pkt, p).modulo
  <1>1. pkt.modulo \in Nat /\ Normal <= pkt.modulo /\ p.send_window_size \in Nat
    BY FacilityType, ModuloAssumption DEF Modulos, Params, FacilityWindows
  <1>2. pkt.window_size # Absent =>
           /\ ClampWindowSize(pkt.window_size[1], pkt.modulo) < pkt.modulo
           /\ ClampWindowSize(pkt.window_size[2], pkt.modulo) < pkt.modulo
    BY FacilityType, ClampType
  <1>3. /\ NegotiateCallingParams(pkt, p).modulo = pkt.modulo
        /\ NegotiateCalledParams(pkt, p).modulo = pkt.modulo
        /\ NegotiateCallingParams(pkt, p).send_window_size =
              IF pkt.window_size = Absent THEN p.send_window_size
              ELSE ClampWindowSize(pkt.window_size[2], pkt.modulo)
        /\ NegotiateCalledParams(pkt, p).send_window_size =
              IF pkt.window_size = Absent THEN p.send_window_size
              ELSE ClampWindowSize(pkt.window_size[1], pkt.modulo)
    BY DEF NegotiateCallingParams, NegotiateCalledParams
  <1> QED BY <1>1, <1>2, <1>3, ModuloAssumption

LEMMA WindowOpens ==
    ASSUME NEW p \in Params, p.send_window_size < p.modulo, WindowAssertionHolds,
           DataTransfer(p)
    PROVE  state' = "DataTransfer" /\ WindowAssertionHolds'
  <1>1. WindowSizeOK(p.send_window_size, p.modulo)
    BY DEF Params, FacilityWindows, WindowSizeOK
  <1> QED BY <1>1 DEF DataTransfer, ChangeState, WindowAssertionHolds

(* Steps that open no new window and do not go back to an earlier state. *)
LEMMA LeavesNegotiated ==
    ASSUME NegotiationOK, UNCHANGED params, WindowAssertionHolds',
           state' \notin {"Ready", "WaitCallAccept"} \/ UNCHANGED state
    PROVE  NegotiationOK'
  BY DEF NegotiationOK

LEMMA SentNegotiated ==
    ASSUME NegotiationOK, UNCHANGED <<params, panic>>,
           NEW pkt, NEW s, NEW i, SendThenChange(pkt, s, i),
           s \notin {"Ready", "WaitCallAccept"}
    PROVE  NegotiationOK'
  BY LeavesNegotiated DEF SendThenChange, ChangeState, OutOfOrder, NegotiationOK,
                          WindowAssertionHolds

LEMMA ResetConfirmNegotiated ==
    ASSUME IInv, NegotiationOK, UNCHANGED params, ResetConfirm
    PROVE  NegotiationOK'
  <1>1. CASE DataTransfer(params)
    BY <1>1, WindowOpens, LeavesNegotiated DEF NegotiationOK, IInv, ParamsOK
  <1>2. CASE OutOfOrder /\ UNCHANGED panic
    BY <1>2, LeavesNegotiated DEF OutOfOrder, ChangeState, NegotiationOK, WindowAssertionHolds
  <1> QED BY <1>1, <1>2 DEF ResetConfirm

LEMMA QueuedNegotiated ==
    ASSUME NegotiationOK, UNCHANGED <<params, panic>>, NEW d, NEW n, SendQueuedData(d, n)
    PROVE  NegotiationOK'
  BY LeavesNegotiated DEF SendQueuedData, OutOfOrder, ChangeState, NegotiationOK,
                          WindowAssertionHolds

LEMMA PanicNegotiated ==
    ASSUME NegotiationOK, NEW site, site # "Window::new", Panic(site)
    PROVE  NegotiationOK'
  BY DEF Panic, NegotiationOK, WindowAssertionHolds, circuit

LEMMA HandledNegotiated ==
    ASSUME IInv, NegotiationOK, NEW pkt \in PeerPackets \cup {NoPacket}, HandleInPacket(pkt)
    PROVE  NegotiationOK'
  <1>1. CASE InReady(pkt)
    <2>1. CASE /\ pkt.type = "CallRequest"
               /\ params' = NegotiateCalledParams(pkt, params)
               /\ state' = "Called"
      BY <1>1, <2>1, PeerPacketType, NegotiatedWindow
         DEF InReady, IInv, ParamsOK, NegotiationOK, WindowAssertionHolds
    <2>2. CASE UNCHANGED <<params, circuit>>
      BY <1>1, <2>2, LeavesNegotiated DEF InReady, NegotiationOK, WindowAssertionHolds, circuit
    <2> QED BY <1>1, <2>1, <2>2 DEF InReady, ChangeState
  <1>2. CASE InCalled(pkt)
    BY <1>2, LeavesNegotiated
       DEF InCalled, Cleared, ChangeState, NegotiationOK, WindowAssertionHolds, circuit
  <1>3. CASE InWaitCallAccept(pkt)
    <2>1. CASE /\ pkt.type = "CallAccept"
               /\ params' = NegotiateCallingParams(pkt, params)
               /\ DataTransfer(params')
      <3>1. params' \in Params /\ params'.send_window_size < params'.modulo
        BY <1>3, <2>1, PeerPacketType, NegotiateType, NegotiatedWindow
           DEF InWaitCallAccept, IInv, ParamsOK, NegotiationOK
      <3>2. WindowAssertionHolds
        BY DEF NegotiationOK
      <3>3. state' = "DataTransfer" /\ WindowAssertionHolds'
        BY <2>1, <3>1, <3>2, WindowOpens
      <3> QED BY <3>1, <3>3 DEF NegotiationOK
    <2>2. CASE Cleared("Remote") /\ UNCHANGED <<params, panic>>
      BY <2>2, LeavesNegotiated
         DEF Cleared, ChangeState, NegotiationOK, WindowAssertionHolds
    <2>3. CASE ClearRequest("TimeOut") /\ UNCHANGED <<params, panic>>
      BY <2>3, SentNegotiated DEF ClearRequest
    <2>4. CASE UNCHANGED <<params, circuit, panic>>
      BY <2>4, LeavesNegotiated DEF NegotiationOK, WindowAssertionHolds, circuit
    <2> QED BY <1>3, <2>1, <2>2, <2>3, <2>4 DEF InWaitCallAccept
  <1>4. CASE InDataTransfer(pkt)
    <2>1. UNCHANGED params
      BY <1>4 DEF InDataTransfer
    <2>2. CASE ResetConfirm
      BY <2>1, <2>2, ResetConfirmNegotiated
    <2>3. CASE ClearConfirm /\ UNCHANGED panic
      BY <2>1, <2>3, SentNegotiated DEF ClearConfirm
    <2>4. CASE InReceiveReady(pkt) /\ UNCHANGED panic
      BY <2>1, <2>4, SentNegotiated, QueuedNegotiated DEF InReceiveReady, ResetRequest
    <2>5. CASE InData(pkt) /\ UNCHANGED panic
      <3>1. CASE ResetRequest
        BY <2>1, <2>5, <3>1, SentNegotiated DEF ResetRequest
      <3>2. ASSUME NEW d, ReceiveReady(d)
            PROVE  NegotiationOK'
        BY <2>1, <2>5, <3>2, LeavesNegotiated
           DEF ReceiveReady, OutOfOrder, ChangeState, NegotiationOK, WindowAssertionHolds
      <3>3. ASSUME NEW d, NEW n, SendQueuedData(d, n)
            PROVE  NegotiationOK'
        BY <2>1, <2>5, <3>3, QueuedNegotiated
      <3> QED BY <2>5, <3>1, <3>2, <3>3 DEF InData
    <2>6. CASE UNCHANGED <<circuit, panic>>
      BY <2>1, <2>6, LeavesNegotiated DEF NegotiationOK, WindowAssertionHolds, circuit
    <2> QED BY <1>4, <2>2, <2>3, <2>4, <2>5, <2>6 DEF InDataTransfer
  <1>5. CASE InWaitResetConfirm(pkt)
    <2>1. UNCHANGED params
      BY <1>5 DEF InWaitResetConfirm
    <2>2. CASE DataTransfer(params)
      BY <2>1, <2>2, WindowOpens, LeavesNegotiated DEF NegotiationOK, IInv, ParamsOK
    <2>3. CASE ResetConfirm
      BY <2>1, <2>3, ResetConfirmNegotiated
    <2>4. CASE (ClearConfirm \/ ClearRequest("TimeOut")) /\ UNCHANGED panic
      BY <2>1, <2>4, SentNegotiated DEF ClearConfirm, ClearRequest
    <2>5. CASE UNCHANGED <<circuit, panic>>
      BY <2>1, <2>5, LeavesNegotiated DEF NegotiationOK, WindowAssertionHolds, circuit
    <2> QED BY <1>5, <2>2, <2>3, <2>4, <2>5 DEF InWaitResetConfirm
  <1>6. CASE InWaitClearConfirm(pkt)
    BY <1>6, LeavesNegotiated
       DEF InWaitClearConfirm, Cleared, OutOfOrder, ChangeState, NegotiationOK,
           WindowAssertionHolds, circuit
  <1>7. CASE InTerminal
    BY <1>7, LeavesNegotiated DEF InTerminal, NegotiationOK, WindowAssertionHolds, vcVars
  <1> QED BY <1>1, <1>2, <1>3, <1>4, <1>5, <1>6, <1>7 DEF HandleInPacket

LEMMA AppliedNegotiated ==
    ASSUME IInv, NegotiationOK, Application
    PROVE  NegotiationOK'
  <1>1. CASE Call
    <2>1. CASE /\ SendThenChange(CreateCallRequest(params), "WaitCallAccept", NoInitiator)
               /\ state = "Ready" /\ UNCHANGED <<params, panic>>
      BY <2>1 DEF SendThenChange, ChangeState, OutOfOrder, NegotiationOK, WindowAssertionHolds
    <2>2. CASE Panic("call")
      BY <2>2, PanicNegotiated
    <2> QED BY <1>1, <2>1, <2>2 DEF Call
  <1>9. CASE CallRefused
    BY <1>9 DEF CallRefused, OutOfOrder, ChangeState, NegotiationOK, WindowAssertionHolds
  <1>2. CASE Accept
    <2>1. CASE DataTransfer(params)
      BY <1>2, <2>1, WindowOpens, LeavesNegotiated DEF Accept, NegotiationOK, IInv, ParamsOK
    <2>2. CASE OutOfOrder /\ UNCHANGED panic
      BY <1>2, <2>2, LeavesNegotiated
         DEF Accept, OutOfOrder, ChangeState, NegotiationOK, WindowAssertionHolds
    <2> QED BY <1>2, <2>1, <2>2 DEF Accept
  <1>3. CASE Reject
    BY <1>3, SentNegotiated DEF Reject
  <1>4. CASE Clear
    BY <1>4, SentNegotiated, PanicNegotiated DEF Clear, ClearRequest
  <1>5. CASE Shutdown \/ PopCompleteData \/ \E m \in Messages : SendPush(m)
    BY <1>5, LeavesNegotiated
       DEF Shutdown, PopCompleteData, SendPush, NegotiationOK, WindowAssertionHolds, circuit
  <1>6. CASE SendKick
    BY <1>6, QueuedNegotiated, PanicNegotiated DEF SendKick
  <1>7. CASE Reset
    BY <1>7, SentNegotiated, PanicNegotiated DEF Reset, ResetRequest
  <1>8. CASE CallPanics \/ ListenPanics \/ ClearPanics \/ ResetPanics
                \/ RecvPanics \/ FlushPanics
    BY <1>8, PanicNegotiated DEF CallPanics, ListenPanics, ClearPanics, ResetPanics,
                                 RecvPanics, FlushPanics
  <1> QED BY <1>1, <1>2, <1>3, <1>4, <1>5, <1>6, <1>7, <1>8, <1>9 DEF Application

LEMMA NextNegotiated ==
    IInv /\ NegotiationOK /\ [Next]_vcVars => NegotiationOK'
  <1> SUFFICES ASSUME IInv, NegotiationOK, [Next]_vcVars PROVE NegotiationOK'
    OBVIOUS
  <1>1. CASE LinkError
    BY <1>1, LeavesNegotiated
       DEF LinkError, OutOfOrder, ChangeState, NegotiationOK, WindowAssertionHolds
  <1>2. CASE \E pkt \in PeerPackets \cup {NoPacket} : HandleInPacket(pkt)
    BY <1>2, HandledNegotiated
  <1>3. CASE Application
    BY <1>3, AppliedNegotiated
  <1>4. CASE Elapse \/ LinkBreaks \/ UNCHANGED vcVars
    BY <1>4, LeavesNegotiated
       DEF Elapse, LinkBreaks, vcVars, circuit, NegotiationOK, WindowAssertionHolds
  <1> QED BY <1>1, <1>2, <1>3, <1>4 DEF Next, Engine

LEMMA InitNegotiated ==
    ASSUME SmallWindows
    PROVE  VcInit => NegotiationOK
  BY ParamsAssumption DEF SmallWindows, VcInit, NegotiationOK, WindowAssertionHolds

(* Whatever packet sizes, window sizes and modulo the peer offers or       *)
(* answers with, absent facilities included, the circuit never tries to    *)
(* open a window its modulo does not admit (negotiate_calling_params,      *)
(* negotiate_called_params in x25/vc.rs, Window::new in x25/seq.rs), when  *)
(* the application's own window suits the smaller modulo.                  *)
THEOREM NegotiationSafety ==
    ASSUME SmallWindows
    PROVE  Spec => []WindowAssertionHolds
  <1>1. VcInit => NegotiationOK
    BY InitNegotiated
  <1>2. NegotiationOK => WindowAssertionHolds
    BY DEF NegotiationOK
  <1> QED BY <1>1, <1>2, IInvAlways, NextNegotiated, PTL DEF Spec

-----------------------------------------------------------------------------
(* What a step of one end can write and how it can move: the facts about   *)
(* an end that X25CallProofs uses of both.                                 *)

CallKinds == {"CallRequest", "CallAccept"}
Connected == {"DataTransfer", "WaitResetConfirm"}
Over      == {"WaitClearConfirm", "Cleared", "OutOfOrder"}

(* What is written is no call packet, and a clear confirmation only as the *)
(* circuit ends.                                                           *)
FitsCall(q) == \A i \in 1 .. Len(q) : /\ q[i].type \notin CallKinds
                                      /\ q[i].type = "ClearConfirm" => state' = "Cleared"

WroteInCall == \E q \in Seq(Packets) : out' = out \o q /\ FitsCall(q)

(* A call request or a call accept is taken; the rest of what a turn of    *)
(* the engine, or a section of the application in an open call, can do.    *)
TookRequest(pkt) ==
    /\ state = "Ready" /\ pkt.type = "CallRequest"
    /\ params' = NegotiateCalledParams(pkt, params)
    /\ state' = "Called" /\ UNCHANGED out
TookAccept(pkt) ==
    /\ state = "WaitCallAccept" /\ pkt.type = "CallAccept"
    /\ params' = NegotiateCallingParams(pkt, params)
    /\ state' \in {"WaitCallAccept", "DataTransfer"} /\ UNCHANGED out
Kept == UNCHANGED <<state, params, out>>
Went == /\ state \notin {"Ready", "Cleared", "OutOfOrder"} /\ UNCHANGED params
        /\ \/ state' \in Over
           \/ state \in Connected /\ state' \in Connected
        /\ WroteInCall
        /\ state = "Called" => UNCHANGED out

LEMMA NothingWritten == ASSUME WireOK, UNCHANGED out PROVE WroteInCall
  <1>1. out' = out \o <<>> /\ <<>> \in Seq(Packets) /\ FitsCall(<<>>)
    BY DEF WireOK, FitsCall
  <1> QED BY <1>1 DEF WroteInCall

LEMMA EmittedInCall ==
    ASSUME WireOK, NEW q \in Seq(Packets), out' = Emitted(q), FitsCall(q)
    PROVE  WroteInCall
  <1>1. CASE out' = out \o q
    BY <1>1 DEF WroteInCall
  <1>2. CASE UNCHANGED out
    BY <1>2, NothingWritten
  <1> QED BY <1>1, <1>2 DEF Emitted

LEMMA SentInCall ==
    ASSUME WireOK, NEW pkt \in Packets, pkt.type \notin CallKinds,
           \/ out' = Emitted(<<pkt>>) /\ (pkt.type = "ClearConfirm" => state' = "Cleared")
           \/ out' = Emitted(<<>>)
    PROVE  WroteInCall
  <1>1. /\ <<pkt>> \in Seq(Packets) /\ <<>> \in Seq(Packets) /\ FitsCall(<<>>)
        /\ (pkt.type = "ClearConfirm" => state' = "Cleared") => FitsCall(<<pkt>>)
    BY DEF FitsCall
  <1> QED BY <1>1, EmittedInCall

LEMMA ThenChangedInCall ==
    ASSUME WireOK, NEW pkt \in Packets, pkt.type \notin CallKinds,
           NEW s, NEW i, SendThenChange(pkt, s, i), pkt.type = "ClearConfirm" => s = "Cleared"
    PROVE  WroteInCall /\ state' \in {s, "OutOfOrder"}
  BY SentInCall DEF SendThenChange, SendPackets, SendFails, ChangeState, OutOfOrder

LEMMA QueuedInCall ==
    ASSUME CircuitOK, WireOK, QueuesOK, NEW d \in Transfers,
           NEW n \in 0 .. Len(sendq), SendQueuedData(d, n)
    PROVE  WroteInCall /\ (UNCHANGED state \/ state' = "OutOfOrder")
  <1>1. DataPackets(d, n) \in Seq(Packets)
    BY DataPacketsType
  <1>2. n \in Nat
    BY DEF QueuesOK
  <1>3. FitsCall(DataPackets(d, n))
    BY <1>2 DEF DataPackets, FitsCall, CallKinds
  <1> QED BY <1>1, <1>3, EmittedInCall
             DEF SendQueuedData, SendPackets, SendFails, OutOfOrder, ChangeState

LEMMA OpenedMoves ==
    ASSUME NEW p, DataTransfer(p)
    PROVE  state' = "DataTransfer" \/ UNCHANGED state
  BY DEF DataTransfer, ChangeState, circuit

LEMMA ResetConfirmMoves ==
    ASSUME WireOK, ResetConfirm
    PROVE  WroteInCall /\ state' \in {"DataTransfer", "OutOfOrder", state}
  BY SentInCall, PlainPacketType, OpenedMoves
     DEF ResetConfirm, SendPackets, SendFails, OutOfOrder, ChangeState, CallKinds, PlainPackets

LEMMA StateAfterHandled ==
    ASSUME IInv, NEW pkt \in PeerPackets \cup {NoPacket}, HandleInPacket(pkt)
    PROVE  TookRequest(pkt) \/ TookAccept(pkt) \/ Kept \/ Went
  <1>1. CASE InReady(pkt)
    BY <1>1 DEF InReady, TookRequest, Kept, ChangeState, circuit, wire
  <1>2. CASE InCalled(pkt)
    BY <1>2, NothingWritten
       DEF InCalled, Kept, Went, Over, Cleared, ChangeState, circuit, wire, IInv
  <1>3. CASE InWaitCallAccept(pkt)
    <2>1. CASE TookAccept(pkt)
      BY <2>1
    <2>2. CASE pkt.type = "CallAccept"
      BY <1>3, <2>2, OpenedMoves DEF InWaitCallAccept, TookAccept, NoPacket, wire
    <2>3. CASE Cleared("Remote") /\ UNCHANGED <<params, wire>>
      BY <1>3, <2>3, NothingWritten
         DEF InWaitCallAccept, Went, Over, Cleared, ChangeState, wire, IInv
    <2>4. CASE ClearRequest("TimeOut") /\ UNCHANGED params
      BY <1>3, <2>4, ThenChangedInCall, PlainPacketType
         DEF InWaitCallAccept, Went, Over, ClearRequest, CallKinds, IInv
    <2>5. CASE UNCHANGED <<params, circuit, wire>>
      BY <2>5 DEF Kept, circuit, wire
    <2> QED BY <1>3, <2>2, <2>3, <2>4, <2>5 DEF InWaitCallAccept
  <1>4. CASE InDataTransfer(pkt)
    <2>1. /\ state = "DataTransfer" /\ state \notin {"Called", "Ready", "Cleared", "OutOfOrder"}
          /\ UNCHANGED params /\ WireOK /\ CircuitOK /\ QueuesOK
      BY <1>4 DEF InDataTransfer, IInv
    <2>2. ASSUME WroteInCall, state' \in Over \cup Connected
          PROVE  Went
      BY <2>1, <2>2 DEF Went, Connected
    <2>3. CASE ResetRequest
      BY <2>1, <2>2, <2>3, ThenChangedInCall, PlainPacketType
         DEF ResetRequest, CallKinds, Over, Connected
    <2>4. CASE pkt.type = "Data" /\ InData(pkt)
      <3>1. ASSUME NEW d, ReceiveReady(d), d.recv_seq \in Nat
            PROVE  Went
        <4>1. [type |-> "ReceiveReady", recv_seq |-> d.recv_seq] \in Packets
          BY <3>1 DEF Packets, ReceiveReadySet
        <4>2. WroteInCall
          BY <2>1, <3>1, <4>1, SentInCall DEF ReceiveReady, SendPackets, SendFails, CallKinds
        <4> QED BY <2>1, <2>2, <3>1, <4>2
                   DEF ReceiveReady, OutOfOrder, ChangeState, Over, Connected
      <3>2. ASSUME NEW d \in Transfers, NEW n \in 0 .. Len(sendq), SendQueuedData(d, n)
            PROVE  Went
        BY <2>1, <2>2, <3>2, QueuedInCall DEF Over, Connected
      <3> DEFINE d == Counted(Acknowledged(dts, pkt.recv_seq))
      <3>3. ASSUME DataInSequence(pkt)
            PROVE  d \in Transfers /\ d.recv_seq \in Nat
        <4>1. dts \in Transfers /\ Outstanding(dts.window) <= dts.window.size
          BY <2>1 DEF CircuitOK, WindowRespected
        <4>2. pkt.recv_seq \in Nat /\ StartAccepted(dts.window, pkt.recv_seq)
          BY <2>4, <3>3, PeerPacketType DEF DataInSequence
        <4>3. d \in Transfers
          BY <4>1, <4>2, AcknowledgedOK, CountedOK
        <4> HIDE DEF d
        <4> QED BY <4>3, ModuloAssumption DEF Transfers, SeqNos
      <3> HIDE DEF d
      <3>4. DataInSequence(pkt) =>
               \/ ReceiveReady(d)
               \/ \E n \in 0 .. Len(sendq) : SendQueuedData(d, n)
               \/ ResetRequest
        BY <2>4 DEF InData, d
      <3>5. \/ DataInSequence(pkt)
            \/ ResetRequest
        BY <2>4 DEF InData
      <3> QED BY <2>3, <3>1, <3>2, <3>3, <3>4, <3>5
    <2>5. CASE pkt.type = "ReceiveReady" /\ InReceiveReady(pkt)
      <3>1. dts \in Transfers /\ Outstanding(dts.window) <= dts.window.size
        BY <2>1 DEF CircuitOK, WindowRespected
      <3>2. ASSUME StartAccepted(dts.window, pkt.recv_seq)
            PROVE  Acknowledged(dts, pkt.recv_seq) \in Transfers
        BY <2>5, <3>1, <3>2, PeerPacketType, AcknowledgedOK
      <3>3. ASSUME NEW d \in Transfers, NEW n \in 0 .. Len(sendq), SendQueuedData(d, n)
            PROVE  Went
        BY <2>1, <2>2, <3>3, QueuedInCall DEF Over, Connected
      <3> QED BY <2>3, <2>5, <3>2, <3>3 DEF InReceiveReady
    <2>6. CASE ResetConfirm
      BY <2>1, <2>2, <2>6, ResetConfirmMoves DEF Over, Connected
    <2>7. CASE ClearConfirm
      BY <2>1, <2>2, <2>7, ThenChangedInCall, PlainPacketType
         DEF ClearConfirm, CallKinds, Over
    <2>8. CASE UNCHANGED <<circuit, wire>>
      BY <2>1, <2>8 DEF Kept, circuit, wire
    <2> QED BY <1>4, <2>4, <2>5, <2>6, <2>7, <2>8 DEF InDataTransfer
  <1>5. CASE InWaitResetConfirm(pkt)
    <2>1. /\ state = "WaitResetConfirm"
          /\ state \notin {"Called", "Ready", "Cleared", "OutOfOrder"}
          /\ UNCHANGED params /\ WireOK
      BY <1>5 DEF InWaitResetConfirm, IInv
    <2>2. ASSUME WroteInCall, state' \in Over \cup Connected
          PROVE  Went
      BY <2>1, <2>2 DEF Went, Connected
    <2>3. CASE DataTransfer(params) /\ UNCHANGED wire
      BY <2>1, <2>2, <2>3, OpenedMoves, NothingWritten DEF wire, Connected
    <2>4. CASE ResetConfirm
      BY <2>1, <2>2, <2>4, ResetConfirmMoves DEF Over, Connected
    <2>5. CASE ClearConfirm \/ ClearRequest("TimeOut")
      BY <2>1, <2>2, <2>5, ThenChangedInCall, PlainPacketType
         DEF ClearConfirm, ClearRequest, CallKinds, Over
    <2>6. CASE UNCHANGED <<circuit, wire>>
      BY <2>1, <2>6 DEF Kept, circuit, wire
    <2> QED BY <1>5, <2>3, <2>4, <2>5, <2>6 DEF InWaitResetConfirm
  <1>6. CASE InWaitClearConfirm(pkt)
    BY <1>6, NothingWritten
       DEF InWaitClearConfirm, Kept, Went, Over, Cleared, OutOfOrder, ChangeState,
           circuit, wire, IInv
  <1>7. CASE InTerminal
    BY <1>7 DEF InTerminal, Kept, vcVars
  <1> QED BY <1>1, <1>2, <1>3, <1>4, <1>5, <1>6, <1>7 DEF HandleInPacket

LEMMA KickedMoves == ASSUME IInv, SendKick PROVE Kept \/ Went
  <1>1. ASSUME NEW n \in 0 .. Len(sendq), SendQueuedData(dts, n), state = "DataTransfer",
               UNCHANGED params
        PROVE  Went
    BY <1>1, QueuedInCall DEF IInv, CircuitOK, Went, Over, Connected
  <1> QED BY <1>1 DEF SendKick, Panic, Kept, circuit, wire

LEMMA ClearMoves == ASSUME IInv, Clear PROVE Kept \/ Went
  <1>1. CASE IsConnected /\ ClearRequest("Local") /\ UNCHANGED params
    BY <1>1, ThenChangedInCall, PlainPacketType
       DEF IInv, ClearRequest, IsConnected, CallKinds, Went, Over
  <1> QED BY <1>1 DEF Clear, Panic, Kept, circuit, wire

LEMMA ResetMoves == ASSUME IInv, Reset PROVE Kept \/ Went
  <1>1. CASE state = "DataTransfer" /\ ResetRequest /\ UNCHANGED params
    BY <1>1, ThenChangedInCall, PlainPacketType
       DEF IInv, ResetRequest, CallKinds, Went, Over, Connected
  <1> QED BY <1>1 DEF Reset, Panic, Kept, circuit, wire

LEMMA CallMoves ==
    ASSUME IInv, Call
    PROVE  \/ Kept
           \/ /\ state = "Ready" /\ state' \in {"WaitCallAccept", "OutOfOrder"}
              /\ UNCHANGED params
              /\ UNCHANGED out \/ out' = Append(out, CreateCallRequest(params))
  <1>1. CASE /\ state = "Ready" /\ UNCHANGED params
             /\ SendThenChange(CreateCallRequest(params), "WaitCallAccept", NoInitiator)
    <2>1. out \o <<>> = out
          /\ out \o <<CreateCallRequest(params)>> = Append(out, CreateCallRequest(params))
      BY DEF IInv, WireOK
    <2> QED BY <1>1, <2>1 DEF SendThenChange, SendPackets, SendFails, Emitted,
                              ChangeState, OutOfOrder
  <1> QED BY <1>1 DEF Call, Panic, Kept, circuit, wire

LEMMA AcceptMoves ==
    ASSUME IInv, params.send_window_size < params.modulo, Accept
    PROVE  /\ state = "Called" /\ state' \in {"DataTransfer", "OutOfOrder"}
           /\ UNCHANGED params
           /\ UNCHANGED out \/ out' = Append(out, CreateCallAccept(params))
  <1>1. out \o <<>> = out
        /\ out \o <<CreateCallAccept(params)>> = Append(out, CreateCallAccept(params))
    BY DEF IInv, WireOK
  <1>2. WindowSizeOK(params.send_window_size, params.modulo)
    BY DEF IInv, ParamsOK, Params, FacilityWindows, WindowSizeOK
  <1> QED BY <1>1, <1>2 DEF Accept, DataTransfer, SendPackets, SendFails, Emitted,
                            ChangeState, OutOfOrder

LEMMA RejectMoves == ASSUME IInv, Reject PROVE state = "Called" /\ UNCHANGED params
       /\ state' \in Over /\ WroteInCall
  BY ThenChangedInCall, PlainPacketType DEF IInv, Reject, CallKinds, Over
-----------------------------------------------------------------------------
(* The same, in full, for a call in which nobody resets. *)

Numbered(pkt) == pkt.type \in {"Data", "ReceiveReady"}

InSequence(pkt) == /\ StartAccepted(dts.window, pkt.recv_seq)
                   /\ pkt.type = "Data" => pkt.send_seq = dts.recv_seq

(* The transfer state once pkt is counted and its acknowledgment taken. *)
Taken(d, pkt) == IF pkt.type = "Data" THEN Counted(Acknowledged(d, pkt.recv_seq))
                 ELSE Acknowledged(d, pkt.recv_seq)

(* q is n data packets in sequence from d, or a receive ready, that        *)
(* acknowledge what d has received.                                        *)
Run(d, q, n) ==
    /\ \A i \in 1 .. Len(q) : Numbered(q[i]) /\ q[i].recv_seq = d.recv_seq
    /\ \/ /\ n = Len(q)
          /\ \A i \in 1 .. Len(q) :
                q[i].type = "Data"
                /\ q[i].send_seq = (d.window.current + (i - 1)) % d.window.modulo
       \/ n = 0 /\ Len(q) = 1 /\ q[1].type = "ReceiveReady"

(* From transfer state d, such a run is written and the circuit stays in   *)
(* data transfer, or ends because the connection broke.                    *)
PushedRun(d, q, n) ==
    /\ Run(d, q, n)
    /\ Outstanding(d.window) + n <= d.window.size
    /\ UNCHANGED params
    /\ out' = Emitted(q)
    /\ \/ UNCHANGED <<state, link>> /\ dts' = [d EXCEPT !.window = Advance(d.window, n)]
       \/ state' = "OutOfOrder" /\ link' = "down"

Pushed(d) == \E q \in Seq(Packets), n \in Nat : PushedRun(d, q, n)

(* The circuit ends, with a clear packet or, if it cannot be written, none.*)
Ended(T) == /\ state' \in Over /\ UNCHANGED params
            /\ \/ UNCHANGED link /\ \E t \in T : out' = Emitted(<<[type |-> t]>>)
               \/ link' = "down" /\ UNCHANGED out

LEMMA QueuedRun ==
    ASSUME IInv, KeepOut, UNCHANGED params, NEW d \in Transfers,
           Outstanding(d.window) <= d.window.size,
           NEW n \in 0 .. Len(sendq), SendQueuedData(d, n)
    PROVE  Pushed(d)
  <1>1. n \in Nat
    BY DEF IInv, QueuesOK
  <1>2. PICK m \in Modulos : d.window \in Windows(m)
    BY TransferType
  <1>3. m \in Nat /\ m > 1 /\ d.window.modulo = m
    BY <1>2, ModuloType DEF Windows
  <1>4. Outstanding(d.window) + n <= d.window.size
    BY <1>1, <1>2, <1>3, LoopWithinWindow DEF SendQueuedData
  <1>5. DataPackets(d, n) \in Seq(Packets)
    BY DataPacketsType DEF IInv
  <1>6. Run(d, DataPackets(d, n), n)
    <2>1. ASSUME NEW k \in 1 .. n
          PROVE  Advance(d.window, k - 1).current = (d.window.current + (k - 1)) % d.window.modulo
      BY <1>2 DEF Advance, Windows
    <2>2. Len(DataPackets(d, n)) = n
      BY <1>1 DEF DataPackets
    <2>3. \A k \in 1 .. n :
             /\ DataPackets(d, n)[k].type = "Data"
             /\ DataPackets(d, n)[k].recv_seq = d.recv_seq
             /\ DataPackets(d, n)[k].send_seq
                   = (d.window.current + (k - 1)) % d.window.modulo
      BY <2>1 DEF DataPackets
    <2> QED BY <2>2, <2>3 DEF Run, Numbered
  <1>7. /\ out' = Emitted(DataPackets(d, n))
        /\ \/ UNCHANGED <<state, link>> /\ dts' = [d EXCEPT !.window = Advance(d.window, n)]
           \/ state' = "OutOfOrder" /\ link' = "down"
    BY DEF SendQueuedData, SendPackets, SendFails, OutOfOrder, ChangeState
  <1> QED BY <1>1, <1>4, <1>5, <1>6, <1>7 DEF Pushed, PushedRun
LEMMA AdvanceNone == ASSUME NEW d \in Transfers PROVE d.window = Advance(d.window, 0)
  <1>1. PICK m \in Modulos : d.window \in Windows(m)
    BY TransferType
  <1>2. m \in Nat /\ m > 1 /\ d.window.current \in SeqNos(m) /\ d.window.modulo = m
    BY <1>1, ModuloType DEF Windows
  <1>3. (d.window.current + 0) % m = d.window.current
    BY <1>2, ModOnce DEF SeqNos
  <1> QED BY <1>1, <1>2, <1>3 DEF Advance, Windows

LEMMA ReadyRun ==
    ASSUME IInv, KeepOut, UNCHANGED params, NEW d \in Transfers,
           Outstanding(d.window) <= d.window.size, ReceiveReady(d)
    PROVE  Pushed(d)
  <1>1. PICK m \in Modulos : d.window \in Windows(m)
    BY TransferType
  <1>2. m \in Nat /\ m > 1
    BY <1>1, ModuloType
  <1>3. d.window.current \in SeqNos(m) /\ d.window.modulo = m
    BY <1>1 DEF Windows
  <1>6. [d EXCEPT !.window = Advance(d.window, 0)] = d
    BY AdvanceNone DEF Transfers
  <1>7. Outstanding(d.window) + 0 <= d.window.size
    <2>1. d.window.start \in SeqNos(m) /\ d.window.size \in Nat
      BY <1>1, <1>2 DEF Windows
    <2>2. Dist(d.window.start, d.window.current, m) \in SeqNos(m)
      BY <1>2, <1>3, <2>1, DistType
    <2> QED BY <1>2, <1>3, <2>1, <2>2 DEF Outstanding, SeqNos
  <1> DEFINE rr == [type |-> "ReceiveReady", recv_seq |-> d.recv_seq]
  <1>9. CASE SendPackets(<<rr>>) /\ dts' = d /\ UNCHANGED <<state, initiator, expired>>
    <2>1. d.recv_seq \in Nat
      BY ModuloAssumption DEF Transfers, SeqNos
    <2>2. rr \in Packets
      BY <2>1 DEF Packets, ReceiveReadySet
    <2>3. Run(d, <<rr>>, 0) /\ <<rr>> \in Seq(Packets)
      BY <2>2 DEF Run, Numbered
    <2>4. UNCHANGED link /\ out' = Emitted(<<rr>>)
      BY <1>9 DEF SendPackets
    <2> HIDE DEF rr
    <2>5. PushedRun(d, <<rr>>, 0)
      BY <1>6, <1>7, <1>9, <2>3, <2>4 DEF PushedRun
    <2> QED BY <2>3, <2>5 DEF Pushed
  <1>10. CASE SendFails(<<>>) /\ OutOfOrder
    <2>1. Run(d, <<>>, 0) /\ <<>> \in Seq(Packets)
      BY DEF Run
    <2>2. link' = "down" /\ out' = Emitted(<<>>) /\ state' = "OutOfOrder"
      BY <1>10 DEF SendFails, OutOfOrder, ChangeState
    <2>3. PushedRun(d, <<>>, 0)
      BY <1>7, <2>1, <2>2 DEF PushedRun
    <2> QED BY <2>1, <2>3 DEF Pushed
  <1> QED BY <1>9, <1>10 DEF ReceiveReady

LEMMA PlainEnded ==
    ASSUME WireOK, KeepOut, UNCHANGED params, NEW t \in {"ClearRequest", "ClearConfirm"},
           NEW s \in Over, NEW i, SendThenChange([type |-> t], s, i)
    PROVE  Ended({t})
  <1>1. Emitted(<<>>) = out
    BY DEF WireOK, Emitted
  <1> QED BY <1>1 DEF SendThenChange, SendPackets, SendFails, ChangeState, OutOfOrder,
                      Ended, Over

LEMMA TakenType ==
    ASSUME dts \in Transfers, Outstanding(dts.window) <= dts.window.size,
           NEW pkt \in PeerPackets \cup {NoPacket}, Numbered(pkt), InSequence(pkt)
    PROVE  /\ Taken(dts, pkt) \in Transfers
           /\ Outstanding(Taken(dts, pkt).window) <= Taken(dts, pkt).window.size
  <1>1. pkt.recv_seq \in Nat /\ StartAccepted(dts.window, pkt.recv_seq)
    BY PeerPacketType DEF InSequence, Numbered
  <1>2. /\ Acknowledged(dts, pkt.recv_seq) \in Transfers
        /\ Outstanding(Acknowledged(dts, pkt.recv_seq).window)
              <= Acknowledged(dts, pkt.recv_seq).window.size
    BY <1>1, AcknowledgedOK
  <1> QED BY <1>2, CountedOK DEF Taken

HandledInStep(pkt) ==
    \/ TookRequest(pkt) /\ UNCHANGED link
    \/ TookAccept(pkt) /\ DataTransfer(params') /\ UNCHANGED link
    \/ state = "DataTransfer" /\ Numbered(pkt) /\ Pushed(Taken(dts, pkt))
    \/ state \in {"WaitCallAccept", "DataTransfer"} /\ \E t \in {"ClearRequest", "ClearConfirm"} : Ended({t})
    \/ /\ state' \in Over /\ UNCHANGED <<params, wire>>
       /\ state # "Ready" /\ (state = "Called" => pkt.type = "ClearRequest")
    \/ /\ UNCHANGED <<circuit, params, wire>>
       /\ state = "DataTransfer" => ~Numbered(pkt)
       /\ state = "WaitCallAccept" => pkt.type \notin {"CallAccept", "ClearRequest"}

LEMMA HandledCall ==
    ASSUME IInv, KeepOut, NEW pkt \in PeerPackets \cup {NoPacket}, HandleInPacket(pkt),
           state # "WaitResetConfirm", pkt.type # "ResetRequest",
           state = "DataTransfer" /\ Numbered(pkt) => InSequence(pkt)
    PROVE  HandledInStep(pkt)
  <1>1. CASE InReady(pkt)
    BY <1>1 DEF InReady, HandledInStep, TookRequest, ChangeState, circuit, wire
  <1>2. CASE InCalled(pkt)
    BY <1>2 DEF InCalled, HandledInStep, Over, Cleared, ChangeState, circuit, wire
  <1>3. CASE InWaitCallAccept(pkt)
    <2>1. CASE pkt.type = "CallAccept"
      BY <1>3, <2>1, OpenedMoves
         DEF InWaitCallAccept, HandledInStep, TookAccept, NoPacket, wire
    <2>2. CASE Cleared("Remote") /\ UNCHANGED <<params, wire>>
      BY <1>3, <2>2 DEF InWaitCallAccept, HandledInStep, Over, Cleared, ChangeState, wire
    <2>3. CASE ClearRequest("TimeOut") /\ UNCHANGED params
      BY <1>3, <2>3, PlainEnded
         DEF InWaitCallAccept, HandledInStep, Over, ClearRequest, IInv
    <2>4. CASE UNCHANGED <<params, circuit, wire>> /\ pkt.type \notin {"CallAccept", "ClearRequest"}
      BY <1>3, <2>4 DEF InWaitCallAccept, HandledInStep
    <2> QED BY <1>3, <2>1, <2>2, <2>3, <2>4 DEF InWaitCallAccept
  <1>4. CASE InDataTransfer(pkt)
    <2>1. /\ state = "DataTransfer" /\ state # "WaitCallAccept" /\ UNCHANGED params /\ WireOK
          /\ dts \in Transfers /\ Outstanding(dts.window) <= dts.window.size
      BY <1>4 DEF InDataTransfer, IInv, CircuitOK, WindowRespected
    <2> DEFINE d == Taken(dts, pkt)
    <2>2. ASSUME Numbered(pkt)
          PROVE  d \in Transfers /\ Outstanding(d.window) <= d.window.size
      BY <2>1, <2>2, TakenType
    <2>3. CASE pkt.type = "Data" /\ InData(pkt)
      <3>1. DataInSequence(pkt) /\ Numbered(pkt) /\ d = Counted(Acknowledged(dts, pkt.recv_seq))
        BY <2>1, <2>3 DEF InSequence, DataInSequence, Numbered, Taken
      <3> HIDE DEF d
      <3>2. ReceiveReady(d) \/ \E n \in 0 .. Len(sendq) : SendQueuedData(d, n)
        BY <2>3, <3>1 DEF InData
      <3>3. Pushed(d)
        BY <2>1, <2>2, <3>1, <3>2, QueuedRun, ReadyRun
      <3> QED BY <2>1, <3>1, <3>3 DEF HandledInStep, d
    <2>4. CASE pkt.type = "ReceiveReady" /\ InReceiveReady(pkt)
      <3>1. StartAccepted(dts.window, pkt.recv_seq) /\ Numbered(pkt)
            /\ d = Acknowledged(dts, pkt.recv_seq)
        BY <2>1, <2>4 DEF InSequence, Numbered, Taken
      <3> HIDE DEF d
      <3>2. \E n \in 0 .. Len(sendq) : SendQueuedData(d, n)
        BY <2>4, <3>1 DEF InReceiveReady
      <3>3. Pushed(d)
        BY <2>1, <2>2, <3>1, <3>2, QueuedRun
      <3> QED BY <2>1, <3>1, <3>3 DEF HandledInStep, d
    <2>5. CASE ClearConfirm
      BY <2>1, <2>5, PlainEnded DEF ClearConfirm, Over, HandledInStep
    <2>6. CASE UNCHANGED <<circuit, wire>> /\ ~Numbered(pkt)
      BY <2>1, <2>6 DEF HandledInStep
    <2> QED BY <1>4, <2>3, <2>4, <2>5, <2>6 DEF InDataTransfer, Numbered
  <1>5. CASE InWaitResetConfirm(pkt)
    BY <1>5 DEF InWaitResetConfirm
  <1>6. CASE InWaitClearConfirm(pkt)
    BY <1>6 DEF InWaitClearConfirm, HandledInStep, Over, Cleared, OutOfOrder, ChangeState,
                circuit, wire
  <1>7. CASE InTerminal
    BY <1>7 DEF InTerminal, Terminal, HandledInStep, vcVars, circuit, wire
  <1> QED BY <1>1, <1>2, <1>3, <1>4, <1>5, <1>6, <1>7 DEF HandleInPacket
Unmoved == UNCHANGED <<state, dts, params, link, out>>

LEMMA KickedRun ==
    ASSUME IInv, KeepOut, SendKick
    PROVE  Unmoved \/ (state = "DataTransfer" /\ Pushed(dts))
  <1>1. ASSUME state = "DataTransfer", UNCHANGED params,
               NEW n \in 0 .. Len(sendq), SendQueuedData(dts, n)
        PROVE  Pushed(dts)
    BY <1>1, QueuedRun DEF IInv, CircuitOK, WindowRespected
  <1> QED BY <1>1 DEF SendKick, Panic, Unmoved, circuit, wire

LEMMA ClearEnds == ASSUME IInv, KeepOut, Clear PROVE Unmoved \/ (IsConnected /\ Ended({"ClearRequest"}))
  <1>1. CASE IsConnected /\ ClearRequest("Local") /\ UNCHANGED params
    BY <1>1, PlainEnded DEF IInv, ClearRequest, Over
  <1> QED BY <1>1 DEF Clear, Panic, Unmoved, circuit, wire

LEMMA RejectEnds == ASSUME IInv, KeepOut, Reject PROVE state = "Called" /\ Ended({"ClearRequest"})
  BY PlainEnded DEF IInv, Reject, Over

LEMMA CallStarts ==
    ASSUME IInv, KeepOut, Call
    PROVE  \/ Unmoved
           \/ /\ state = "Ready" /\ UNCHANGED params
              /\ \/ /\ state' = "WaitCallAccept" /\ dts' = NoTransfer /\ UNCHANGED link
                    /\ out' = Emitted(<<CreateCallRequest(params)>>)
                 \/ state' = "OutOfOrder" /\ link' = "down" /\ UNCHANGED out
  <1>1. CASE /\ state = "Ready" /\ UNCHANGED params
             /\ SendThenChange(CreateCallRequest(params), "WaitCallAccept", NoInitiator)
    <2>1. Emitted(<<>>) = out
      BY DEF IInv, WireOK, Emitted
    <2> QED BY <1>1, <2>1 DEF SendThenChange, SendPackets, SendFails, ChangeState, OutOfOrder
  <1> QED BY <1>1 DEF Call, Panic, Unmoved, circuit, wire

LEMMA AcceptStarts ==
    ASSUME IInv, KeepOut, params.send_window_size < params.modulo, Accept
    PROVE  /\ state = "Called" /\ UNCHANGED params
           /\ \/ /\ state' = "DataTransfer" /\ UNCHANGED link
                 /\ dts' = [window   |-> NewWindow(params.send_window_size, params.modulo),
                            recv_seq |-> 0]
                 /\ out' = Emitted(<<CreateCallAccept(params)>>)
              \/ state' = "OutOfOrder" /\ link' = "down" /\ UNCHANGED out
  <1>1. Emitted(<<>>) = out
    BY DEF IInv, WireOK, Emitted
  <1>2. WindowSizeOK(params.send_window_size, params.modulo)
    BY DEF IInv, ParamsOK, Params, FacilityWindows, WindowSizeOK
  <1> QED BY <1>1, <1>2 DEF Accept, DataTransfer, SendPackets, SendFails, ChangeState,
                            OutOfOrder

-----------------------------------------------------------------------------
(* How a circuit comes to be Cleared, and what becomes of its send queue. *)

ClearedHow(pkt) == state' = "Cleared" =>
    \/ state \in {"Cleared", "WaitClearConfirm"} /\ UNCHANGED <<state, initiator>>
    \/ state \notin {"Cleared", "WaitClearConfirm"} /\ initiator' = "Remote"
    \/ state = "WaitClearConfirm" /\ pkt.type = "ClearConfirm"

LEMMA HandledCleared == ASSUME NEW pkt, HandleInPacket(pkt) PROVE ClearedHow(pkt)
  <1> USE DEF ClearedHow, ChangeState, OutOfOrder, Cleared, circuit
  <1>1. CASE InReady(pkt) \/ InCalled(pkt) \/ InWaitClearConfirm(pkt) \/ InTerminal
    BY <1>1 DEF InReady, InCalled, InWaitClearConfirm, InTerminal, vcVars
  <1>2. ASSUME NEW p, DataTransfer(p) PROVE state' = "DataTransfer" \/ UNCHANGED state
    BY <1>2, OpenedMoves
  <1>3. CASE InWaitCallAccept(pkt)
    BY <1>2, <1>3 DEF InWaitCallAccept, ClearRequest, SendThenChange
  <1>4. ASSUME ResetConfirm PROVE state' \in {"DataTransfer", "OutOfOrder", state}
    BY <1>2, <1>4 DEF ResetConfirm
  <1>5. CASE InWaitResetConfirm(pkt)
    BY <1>2, <1>4, <1>5 DEF InWaitResetConfirm, ClearConfirm, ClearRequest, SendThenChange
  <1>6. ASSUME NEW d, NEW n, SendQueuedData(d, n) PROVE state' \in {state, "OutOfOrder"}
    BY <1>6 DEF SendQueuedData
  <1>7. ASSUME InData(pkt) \/ InReceiveReady(pkt), state = "DataTransfer"
        PROVE  state' # "Cleared"
    BY <1>6, <1>7 DEF InData, InReceiveReady, ReceiveReady, ResetRequest, SendThenChange
  <1>8. CASE InDataTransfer(pkt)
    BY <1>4, <1>7, <1>8 DEF InDataTransfer, ClearConfirm, SendThenChange
  <1> QED BY <1>1, <1>3, <1>5, <1>8 DEF HandleInPacket

LEMMA CallsDoNotClear ==
    ASSUME Call \/ Accept \/ SendKick \/ Reset \/ Clear, state' = "Cleared"
    PROVE  UNCHANGED <<state, initiator>>
  <1>1. ASSUME NEW p, DataTransfer(p) PROVE state' = "DataTransfer" \/ UNCHANGED circuit
    BY <1>1 DEF DataTransfer, ChangeState
  <1> QED BY <1>1 DEF Call, Accept, SendKick, Reset, Clear, Panic, ResetRequest, ClearRequest,
                      SendThenChange, SendQueuedData, ChangeState, OutOfOrder, circuit

Opening == {"Ready", "Called", "WaitCallAccept"}

Drained == sendq = <<>> \/ ~IsOpen(dts.window)

(* Whatever a circuit does that is not in a reset, it has drained its send *)
(* queue when it did anything to the window or to the queue.               *)
QueueKept == /\ state' \in Opening => state \in Opening /\ UNCHANGED sendq
             /\ state' = "DataTransfer" => \/ state \in Opening /\ UNCHANGED sendq
                                           \/ state = "DataTransfer" /\ UNCHANGED <<sendq, dts>>
                                           \/ state = "DataTransfer" /\ Drained'

LEMMA QueuedDrains ==
    ASSUME QueuesOK, NEW d \in Transfers, NEW n \in 0 .. Len(sendq), SendQueuedData(d, n)
    PROVE  (Drained' /\ UNCHANGED state) \/ state' = "OutOfOrder"
  <1>1. CASE SendFails(DataPackets(d, n)) /\ OutOfOrder
    BY <1>1 DEF OutOfOrder, ChangeState
  <1>2. CASE Stops(d, n) /\ dts' = [d EXCEPT !.window = Advance(d.window, n)] /\ UNCHANGED state
    <2>1. Len(sendq) \in Nat
      BY DEF QueuesOK
    <2>2. n = Len(sendq) => sendq' = <<>>
      BY <2>1 DEF SendQueuedData, QueuesOK
    <2>3. dts'.window = Advance(d.window, n)
      BY <1>2 DEF Transfers
    <2> QED BY <1>2, <2>2, <2>3 DEF Stops, Drained, IsOpen
  <1> QED BY <1>1, <1>2 DEF SendQueuedData

LEMMA HandledQueue ==
    ASSUME IInv, NEW pkt \in PeerPackets \cup {NoPacket}, HandleInPacket(pkt),
           state # "WaitResetConfirm", pkt.type # "ResetRequest",
           state = "DataTransfer" /\ Numbered(pkt) => InSequence(pkt)
    PROVE  QueueKept
  <1>1. CASE InReady(pkt) \/ InCalled(pkt) \/ InWaitClearConfirm(pkt) \/ InTerminal
    BY <1>1 DEF InReady, InCalled, InWaitClearConfirm, InTerminal, Terminal, QueueKept, Opening,
                Cleared, OutOfOrder, ChangeState, circuit, vcVars
  <1>2. CASE InWaitCallAccept(pkt)
    <2>1. ASSUME NEW p, DataTransfer(p) PROVE state' = "DataTransfer" \/ UNCHANGED state
      BY <2>1, OpenedMoves
    <2> QED BY <1>2, <2>1 DEF InWaitCallAccept, ClearRequest, SendThenChange, Cleared,
                   OutOfOrder, ChangeState, circuit, QueueKept, Opening
  <1>3. CASE InDataTransfer(pkt)
    <2>1. /\ state = "DataTransfer" /\ QueuesOK /\ dts \in Transfers
          /\ Outstanding(dts.window) <= dts.window.size
      BY <1>3 DEF InDataTransfer, IInv, CircuitOK, WindowRespected
    <2>2. ASSUME NEW d \in Transfers, NEW n \in 0 .. Len(sendq), SendQueuedData(d, n)
          PROVE  QueueKept
      BY <2>1, <2>2, QueuedDrains DEF QueueKept, Opening
    <2>3. ASSUME Numbered(pkt)
          PROVE  Taken(dts, pkt) \in Transfers
      BY <2>1, <2>3, TakenType
    <2>4. CASE pkt.type = "Data" /\ InData(pkt)
      <3> DEFINE d == Taken(dts, pkt)
      <3>1. DataInSequence(pkt) /\ Numbered(pkt) /\ d = Counted(Acknowledged(dts, pkt.recv_seq))
        BY <2>1, <2>4 DEF InSequence, DataInSequence, Numbered, Taken
      <3> HIDE DEF d
      <3>2. \/ Stops(d, 0) /\ ReceiveReady(d) /\ UNCHANGED sendq
            \/ \E n \in 0 .. Len(sendq) : SendQueuedData(d, n)
        BY <2>4, <3>1 DEF InData
      <3>3. d \in Transfers
        BY <2>3, <3>1 DEF d
      <3>4. CASE Stops(d, 0) /\ ReceiveReady(d) /\ UNCHANGED sendq
        <4>1. d.window = Advance(d.window, 0)
          BY <3>3, AdvanceNone
        <4>2. sendq = <<>> \/ ~IsOpen(d.window)
          BY <3>4, <4>1 DEF Stops, IInv, QueuesOK
        <4>3. (dts' = d /\ UNCHANGED state) \/ state' = "OutOfOrder"
          BY <3>4 DEF ReceiveReady, OutOfOrder, ChangeState
        <4> QED BY <2>1, <3>4, <4>2, <4>3 DEF QueueKept, Opening, Drained, IsOpen
      <3> QED BY <2>2, <3>2, <3>3, <3>4
    <2>5. CASE pkt.type = "ReceiveReady" /\ InReceiveReady(pkt)
      <3>1. /\ StartAccepted(dts.window, pkt.recv_seq)
            /\ Acknowledged(dts, pkt.recv_seq) \in Transfers
        BY <2>1, <2>3, <2>5 DEF InSequence, Numbered, Taken
      <3> QED BY <2>2, <2>5, <3>1 DEF InReceiveReady
    <2>6. CASE ClearConfirm \/ UNCHANGED <<circuit, sendq>>
      BY <2>1, <2>6 DEF ClearConfirm, SendThenChange, OutOfOrder, ChangeState, circuit,
                        QueueKept, Opening
    <2> QED BY <1>3, <2>4, <2>5, <2>6 DEF InDataTransfer
  <1>4. CASE InWaitResetConfirm(pkt)
    BY <1>4 DEF InWaitResetConfirm
  <1> QED BY <1>1, <1>2, <1>3, <1>4 DEF HandleInPacket

LEMMA KickDrains ==
    ASSUME IInv, SendKick
    PROVE  \/ UNCHANGED <<state, dts, sendq>> /\ state # "DataTransfer"
           \/ state' = "OutOfOrder"
           \/ state = "DataTransfer" /\ state' = "DataTransfer" /\ Drained'
  <1>1. CASE state = "DataTransfer" /\ \E n \in 0 .. Len(sendq) : SendQueuedData(dts, n)
    BY <1>1, QueuedDrains DEF IInv, CircuitOK
  <1> QED BY <1>1 DEF SendKick, Panic, circuit
-----------------------------------------------------------------------------
(* What a step does to the user data: what is written of the send queue,   *)
(* what the receive queue gets, and what becomes of an end that is over.   *)

ByRemote == state = "Cleared" /\ initiator = "Remote"

Chunk(pkt) == [data |-> pkt.data, qualifier |-> pkt.qualifier, more |-> pkt.more]

(* Either a packet without data is written, or none, a clear request only  *)
(* as the circuit ends; or data packets are, with the chunks the send      *)
(* queue loses.                                                            *)
Emits(q) ==
    \/ /\ q = <<>> \/ (Len(q) = 1 /\ q[1].type # "Data")
       /\ q # <<>> /\ q[1].type = "ClearRequest" => state' \in Over
       /\ UNCHANGED sendq
    \/ /\ state = "DataTransfer" /\ Len(q) <= Len(sendq)
       /\ \A i \in 1 .. Len(q) : q[i].type = "Data" /\ Chunk(q[i]) = sendq[i]
       /\ sendq' = SubSeq(sendq, Len(q) + 1, Len(sendq))

Conveys == /\ \E q \in Seq(Packets) : out' = Emitted(q) /\ Emits(q)
           /\ link' \in {link, "down"}
           /\ state \in Over => state' \in Over
           /\ state' = "WaitClearConfirm" => UNCHANGED <<state, initiator>> \/ initiator' # "Remote"

(* The data of pkt is queued if the circuit transfers data, and a clear    *)
(* request makes it Cleared by the remote end.                             *)
TakesIn(pkt) ==
    /\ recvq' = IF state = "DataTransfer" /\ pkt.type = "Data" THEN Append(recvq, Chunk(pkt))
                ELSE recvq
    /\ \/ UNCHANGED <<state, initiator>>
       \/ state' \in Over /\ ~ByRemote'
       \/ state \notin Over /\ state' \notin Over
       \/ state \notin Over /\ ByRemote' /\ pkt.type = "ClearRequest"
       \/ state = "WaitClearConfirm" /\ UNCHANGED initiator

LEMMA NothingEmitted ==
    ASSUME WireOK, UNCHANGED <<out, sendq>>, link' \in {link, "down"},
           state \in Over => state' \in Over,
           state' = "WaitClearConfirm" => UNCHANGED <<state, initiator>> \/ initiator' # "Remote"
    PROVE  Conveys
  <1>1. out' = Emitted(<<>>) /\ <<>> \in Seq(Packets)
    BY DEF WireOK, Emitted
  <1>2. Emits(<<>>)
    BY DEF Emits
  <1> QED BY <1>1, <1>2 DEF Conveys

LEMMA OneEmitted ==
    ASSUME WireOK, UNCHANGED sendq, state \notin Over,
           NEW p \in Packets, p.type # "Data", NEW s \in States, NEW i, i # "Remote" \/ s # "WaitClearConfirm",
           p.type = "ClearRequest" => s \in Over,
           SendThenChange(p, s, i)
    PROVE  Conveys
  <1>1. CASE SendPackets(<<p>>) /\ ChangeState(s, i, NoTransfer)
    <2>1. <<p>> \in Seq(Packets) /\ Len(<<p>>) = 1 /\ <<p>>[1] = p
      OBVIOUS
    <2>2. Emits(<<p>>)
      BY <1>1, <2>1 DEF Emits, ChangeState
    <2> QED BY <1>1, <2>1, <2>2 DEF Conveys, SendPackets, ChangeState
  <1>2. CASE SendFails(<<>>) /\ OutOfOrder
    <2>1. Emitted(<<>>) = out
      BY DEF WireOK, Emitted
    <2> QED BY <1>2, <2>1, NothingEmitted DEF SendFails, OutOfOrder, ChangeState
  <1> QED BY <1>1, <1>2 DEF SendThenChange

LEMMA QueuedEmits ==
    ASSUME QueuesOK, state = "DataTransfer", NEW d \in Transfers, NEW n \in 0 .. Len(sendq),
           SendQueuedData(d, n)
    PROVE  Conveys /\ (UNCHANGED <<state, initiator>> \/ state' = "OutOfOrder")
  <1> DEFINE q == DataPackets(d, n)
  <1>1. q \in Seq(Packets)
    BY DataPacketsType
  <1>2. Len(q) = n
    BY DEF DataPackets, QueuesOK
  <1>3. ASSUME NEW k \in 1 .. n
        PROVE  q[k].type = "Data" /\ Chunk(q[k]) = sendq[k]
    <2>1. sendq[k] \in SendData
      BY DEF QueuesOK
    <2>2. /\ q[k].type = "Data" /\ q[k].data = sendq[k].data
          /\ q[k].qualifier = sendq[k].qualifier /\ q[k].more = sendq[k].more
      BY DEF DataPackets
    <2> HIDE DEF q
    <2> QED BY <2>1, <2>2 DEF Chunk, SendData
  <1>4. /\ out' = Emitted(q) /\ sendq' = SubSeq(sendq, n + 1, Len(sendq))
        /\ \/ UNCHANGED <<link, state, initiator>>
           \/ link' = "down" /\ state' = "OutOfOrder"
    BY DEF SendQueuedData, SendPackets, SendFails, OutOfOrder, ChangeState
  <1> HIDE DEF q
  <1>5. Emits(q)
    BY <1>2, <1>3, <1>4 DEF Emits
  <1> QED BY <1>1, <1>4, <1>5 DEF Conveys, Over

LEMMA PlainPacket ==
    ASSUME NEW t \in {"ClearRequest", "ClearConfirm"}
    PROVE  [type |-> t] \in Packets /\ [type |-> t].type = t
  BY DEF Packets, PlainPackets

LEMMA HandledConveys ==
    ASSUME IInv, NEW pkt \in PeerPackets \cup {NoPacket}, HandleInPacket(pkt),
           state # "WaitResetConfirm", pkt.type # "ResetRequest",
           state = "DataTransfer" /\ Numbered(pkt) => InSequence(pkt)
    PROVE  Conveys /\ TakesIn(pkt)
  <1>0. WireOK /\ QueuesOK
    BY DEF IInv
  <1>1. CASE InReady(pkt) \/ InCalled(pkt)
    <2>1. UNCHANGED <<sendq, recvq, link, out>> /\ state \notin Over /\ state # "DataTransfer"
          /\ \/ UNCHANGED <<state, initiator>>
             \/ state' = "Called" \/ (ByRemote' /\ pkt.type = "ClearRequest")
      BY <1>1 DEF InReady, InCalled, Cleared, ChangeState, circuit, wire, Over, ByRemote
    <2> QED BY <1>0, <2>1, NothingEmitted DEF TakesIn, Over, ByRemote
  <1>2. CASE InWaitCallAccept(pkt)
    <2>1. state = "WaitCallAccept" /\ state \notin Over /\ UNCHANGED <<sendq, recvq>>
      BY <1>2 DEF InWaitCallAccept, Over
    <2>2. CASE pkt.type = "CallAccept"
      <3>1. UNCHANGED <<link, out>> /\ (state' = "DataTransfer" \/ UNCHANGED circuit)
        BY <1>2, <2>2 DEF InWaitCallAccept, DataTransfer, ChangeState, wire, NoPacket
      <3> QED BY <1>0, <2>1, <3>1, NothingEmitted DEF TakesIn, Over, circuit
    <2>3. CASE pkt.type = "ClearRequest" /\ Cleared("Remote") /\ UNCHANGED wire
      <3>1. ByRemote' /\ UNCHANGED <<link, out>>
        BY <2>3 DEF Cleared, ChangeState, ByRemote, wire
      <3> QED BY <1>0, <2>1, <2>3, <3>1, NothingEmitted DEF TakesIn, Over, ByRemote
    <2>4. CASE ClearRequest("TimeOut")
      <3>1. Conveys
        BY <1>0, <2>1, <2>4, OneEmitted, PlainPacket DEF ClearRequest, Over, States
      <3>2. state' \in Over /\ ~ByRemote'
        BY <2>4 DEF ClearRequest, SendThenChange, OutOfOrder, ChangeState, Over, ByRemote
      <3> QED BY <2>1, <3>1, <3>2 DEF TakesIn
    <2>5. CASE UNCHANGED <<circuit, wire>>
      BY <1>0, <2>1, <2>5, NothingEmitted DEF TakesIn, Over, circuit, wire
    <2> QED BY <1>2, <2>2, <2>3, <2>4, <2>5 DEF InWaitCallAccept
  <1>3. CASE InDataTransfer(pkt)
    <2>1. /\ state = "DataTransfer" /\ state \notin Over /\ dts \in Transfers
          /\ Outstanding(dts.window) <= dts.window.size
      BY <1>3 DEF InDataTransfer, Over, IInv, CircuitOK, WindowRespected
    <2> DEFINE d == Taken(dts, pkt)
    <2>2. ASSUME Numbered(pkt) PROVE d \in Transfers
      BY <2>1, <2>2, TakenType
    <2>3. CASE pkt.type = "Data" /\ InData(pkt)
      <3>1. DataInSequence(pkt) /\ Numbered(pkt) /\ d = Counted(Acknowledged(dts, pkt.recv_seq))
        BY <2>1, <2>3 DEF InSequence, DataInSequence, Numbered, Taken
      <3> HIDE DEF d
      <3>2. /\ recvq' = Append(recvq, Chunk(pkt))
            /\ \/ ReceiveReady(d) /\ UNCHANGED sendq
               \/ \E n \in 0 .. Len(sendq) : SendQueuedData(d, n)
        BY <2>3, <3>1 DEF InData, QueueRecvData, Chunk
      <3>3. Conveys /\ (UNCHANGED <<state, initiator>> \/ state' = "OutOfOrder")
        <4> DEFINE rr == [type |-> "ReceiveReady", recv_seq |-> d.recv_seq]
        <4>1. CASE SendPackets(<<rr>>) /\ UNCHANGED <<state, initiator, sendq>>
          <5>1. d.recv_seq \in Nat
            BY <2>2, <3>1, ModuloAssumption DEF Transfers, SeqNos
          <5>2. rr \in Packets /\ rr.type = "ReceiveReady"
            BY <5>1 DEF Packets, ReceiveReadySet
          <5> HIDE DEF rr
          <5>3. <<rr>> \in Seq(Packets) /\ Emits(<<rr>>)
            BY <4>1, <5>2 DEF Emits
          <5> QED BY <2>1, <4>1, <5>3 DEF Conveys, SendPackets
        <4>2. CASE SendFails(<<>>) /\ OutOfOrder /\ UNCHANGED sendq
          <5>1. Emitted(<<>>) = out
            BY <1>0 DEF WireOK, Emitted
          <5> QED BY <1>0, <2>1, <4>2, <5>1, NothingEmitted DEF SendFails, OutOfOrder, ChangeState
        <4>3. CASE \E n \in 0 .. Len(sendq) : SendQueuedData(d, n)
          BY <1>0, <2>1, <2>2, <3>1, <4>3, QueuedEmits
        <4> QED BY <3>2, <4>1, <4>2, <4>3 DEF ReceiveReady
      <3> QED BY <2>1, <2>3, <3>2, <3>3 DEF TakesIn, Over, ByRemote
    <2>4. CASE pkt.type = "ReceiveReady" /\ InReceiveReady(pkt) /\ UNCHANGED recvq
      <3>1. StartAccepted(dts.window, pkt.recv_seq) /\ Numbered(pkt)
            /\ d = Acknowledged(dts, pkt.recv_seq)
        BY <2>1, <2>4 DEF InSequence, Numbered, Taken
      <3> HIDE DEF d
      <3>2. \E n \in 0 .. Len(sendq) : SendQueuedData(d, n)
        BY <2>4, <3>1 DEF InReceiveReady
      <3>3. Conveys /\ (UNCHANGED <<state, initiator>> \/ state' = "OutOfOrder")
        BY <1>0, <2>1, <2>2, <3>1, <3>2, QueuedEmits
      <3> QED BY <2>4, <3>3 DEF TakesIn, Over, ByRemote
    <2>5. CASE pkt.type = "ClearRequest" /\ ClearConfirm /\ UNCHANGED <<sendq, recvq>>
      <3>1. Conveys
        BY <1>0, <2>1, <2>5, OneEmitted, PlainPacket DEF ClearConfirm, Over, States
      <3>2. state' \in Over
        BY <2>5 DEF ClearConfirm, SendThenChange, OutOfOrder, ChangeState, Over
      <3> QED BY <2>1, <2>5, <3>1, <3>2 DEF TakesIn
    <2>6. CASE UNCHANGED <<circuit, wire, sendq, recvq>> /\ pkt.type # "Data"
      BY <1>0, <2>1, <2>6, NothingEmitted DEF TakesIn, Over, circuit, wire
    <2> QED BY <1>3, <2>3, <2>4, <2>5, <2>6 DEF InDataTransfer
  <1>4. CASE InWaitResetConfirm(pkt)
    BY <1>4 DEF InWaitResetConfirm
  <1>5. CASE InWaitClearConfirm(pkt)
    <2>1. /\ UNCHANGED <<sendq, recvq, link, out>> /\ state = "WaitClearConfirm" /\ state' \in Over
          /\ state' = "WaitClearConfirm" => UNCHANGED initiator
          /\ UNCHANGED initiator \/ ~ByRemote'
      BY <1>5 DEF InWaitClearConfirm, Cleared, OutOfOrder, ChangeState, circuit, wire, Over, ByRemote
    <2> QED BY <1>0, <2>1, NothingEmitted DEF TakesIn, Over
  <1>6. CASE InTerminal
    <2>1. UNCHANGED <<state, initiator, sendq, recvq, link, out>> /\ state # "DataTransfer"
          /\ state # "WaitClearConfirm"
      BY <1>6 DEF InTerminal, Terminal, vcVars
    <2> QED BY <1>0, <2>1, NothingEmitted DEF TakesIn, Over
  <1> QED BY <1>1, <1>2, <1>3, <1>4, <1>5, <1>6 DEF HandleInPacket

LEMMA CallsConvey ==
    ASSUME IInv, Call \/ Accept \/ Reject \/ Clear \/ SendKick
    PROVE  Conveys /\ TakesIn(NoPacket)
  <1>0. WireOK /\ QueuesOK /\ NoPacket.type = "None"
    BY DEF IInv, NoPacket
  <1>1. ASSUME UNCHANGED <<state, initiator, sendq, recvq, link, out>>
        PROVE  Conveys /\ TakesIn(NoPacket)
    BY <1>0, <1>1, NothingEmitted DEF TakesIn
  <1>2. ASSUME NEW p \in Packets, p.type # "Data", NEW s \in States, NEW i \in {NoInitiator, "Local"},
               p.type = "ClearRequest" => s \in Over, state \notin Over,
               SendThenChange(p, s, i), UNCHANGED <<sendq, recvq>>
        PROVE  Conveys /\ TakesIn(NoPacket)
    <2>1. Conveys
      BY <1>0, <1>2, OneEmitted DEF NoInitiator
    <2>2. state' \notin Over \/ ~ByRemote'
      BY <1>2 DEF SendThenChange, OutOfOrder, ChangeState, ByRemote, NoInitiator
    <2> QED BY <1>0, <1>2, <2>1, <2>2 DEF TakesIn
  <1>3. CASE Call
    <2>1. CreateCallRequest(params) \in Packets /\ CreateCallRequest(params).type = "CallRequest"
      BY CallPacketType DEF IInv, ParamsOK, Packets, CreateCallRequest
    <2> QED BY <1>1, <1>2, <1>3, <2>1
            DEF Call, Panic, circuit, wire, Over, States, NoInitiator
  <1>4. CASE Clear \/ Reject
    <2>1. CASE Panic("clear")
      BY <1>1, <2>1 DEF Panic, circuit, wire
    <2> QED BY <1>2, <1>4, <2>1, PlainPacket
            DEF Clear, Reject, ClearRequest, IsConnected, Over, States
  <1>5. CASE Accept
    <2> DEFINE p == CreateCallAccept(params)
    <2>1. p \in Packets /\ p.type = "CallAccept"
      BY CallPacketType DEF IInv, ParamsOK, Packets, CreateCallAccept
    <2>2. state = "Called" /\ UNCHANGED <<sendq, recvq>>
      BY <1>5 DEF Accept
    <2>3. CASE SendPackets(<<p>>) /\ DataTransfer(params)
      <3>1. state' = "DataTransfer" \/ UNCHANGED <<state, initiator>>
        BY <2>3 DEF DataTransfer, ChangeState, circuit
      <3>2. UNCHANGED link /\ out' = Emitted(<<p>>)
        BY <2>3 DEF SendPackets
      <3> HIDE DEF p
      <3>3. Emits(<<p>>) /\ <<p>> \in Seq(Packets)
        BY <2>1, <2>2 DEF Emits
      <3> QED BY <1>0, <2>2, <3>1, <3>2, <3>3 DEF Conveys, TakesIn, Over
    <2>4. CASE SendFails(<<>>) /\ OutOfOrder
      <3>1. Emitted(<<>>) = out
        BY <1>0 DEF WireOK, Emitted
      <3>2. UNCHANGED out /\ link' = "down" /\ state' = "OutOfOrder"
        BY <2>4, <3>1 DEF SendFails, OutOfOrder, ChangeState
      <3> QED BY <1>0, <2>2, <3>2, NothingEmitted DEF TakesIn, Over, ByRemote
    <2> QED BY <1>5, <2>3, <2>4 DEF Accept
  <1>6. CASE SendKick
    <2>1. ASSUME state = "DataTransfer", NEW n \in 0 .. Len(sendq), SendQueuedData(dts, n), UNCHANGED recvq
          PROVE  Conveys /\ TakesIn(NoPacket)
      BY <1>0, <2>1, QueuedEmits DEF IInv, CircuitOK, TakesIn, Over, ByRemote
    <2> QED BY <1>1, <1>6, <2>1 DEF SendKick, Panic, circuit, wire
  <1> QED BY <1>3, <1>4, <1>5, <1>6

LEMMA RestConveys ==
    ASSUME IInv, LinkError \/ (UNCHANGED <<state, initiator, sendq, recvq, out>> /\ link' \in {link, "down"})
    PROVE  Conveys /\ TakesIn(NoPacket)
  <1>1. WireOK /\ NoPacket.type = "None"
    BY DEF IInv, NoPacket
  <1> QED BY <1>1, NothingEmitted DEF TakesIn, LinkError, OutOfOrder, ChangeState, wire, Over, ByRemote
=============================================================================
