---------------------------- MODULE PacketCodec -----------------------------
(***************************************************************************)
(* X.25 packets and their octets (libxotpad/src/x25/packet.rs), addresses  *)
(* (x121.rs) being sequences of digits.  Conversions that can be refused   *)
(* are sets of results, as in FacilityCodec.                               *)
(***************************************************************************)
EXTENDS FacilityCodec

Normal == 8
Extended == 128
MaxChannel == 4095

MaxPacketLen == 7 + 4096

(* The longest packet of a call set up or cleared. *)
MaxCallLen == 259

Bit(b) == IF b THEN 1 ELSE 0

(* The octets of buf from i on. *)
From(buf, i) == SubSeq(buf, i, Len(buf))

-----------------------------------------------------------------------------
(* The header: general format identifier and channel, then the type.      *)

Gfi(modulo) == IF modulo = Normal THEN 1 ELSE 2

EncodeHeader(modulo, overlay, channel, type) ==
    IF channel > MaxChannel THEN {}
    ELSE {<<(Gfi(modulo) + overlay) * 16 + channel \div 256, channel % 256, type>>}

DecodeHeader(buf) ==
    LET gfi == buf[1] \div 16
    IN  {[modulo |-> m, gfi |-> gfi, channel |-> (buf[1] % 16) * 256 + buf[2],
          type |-> buf[3]] : m \in {n \in {Normal, Extended} : Gfi(n) = gfi % 4}}

(* Bits of the identifier that must be clear: 0x04 for clears, 0x0c for    *)
(* flow control and resets.  Calls do not look at it.                      *)
DeliveryBit(gfi) == (gfi \div 4) % 2 = 1
QualifierBit(gfi) == gfi \div 8 = 1
Overlay(p) == Bit(p.qualifier) * 8 + Bit(p.delivery) * 4

-----------------------------------------------------------------------------
(* The blocks of call set up and clearing packets.                         *)

IsAddr(digits) == Len(digits) <= 15 /\ \A i \in DOMAIN digits : digits[i] <= 9

EncodeAddrBlock(called, calling) ==
    LET digits == called \o calling
        Nibble(i) == IF i \in DOMAIN digits THEN digits[i] ELSE 0
    IN  <<Len(calling) * 16 + Len(called)>>
        \o [k \in 1 .. (Len(digits) + 1) \div 2 |-> Nibble(2 * k - 1) * 16 + Nibble(2 * k)]

PackedLength(digits) == (digits \div 2) + (digits % 2)

(* Reading a block: what it says, and the octets after it. *)
ReadAddrs(buf) ==
    LET calling_len == buf[1] \div 16
        called_len  == buf[1] % 16
        len         == PackedLength(called_len + calling_len)
        Nibble(i)   == IF i % 2 = 1 THEN buf[(i + 3) \div 2] \div 16
                                    ELSE buf[(i + 2) \div 2] % 16
    IN  IF buf = <<>> \/ Len(buf) < 1 + len THEN {}
        ELSE {addrs \in {[called  |-> [i \in 1 .. called_len |-> Nibble(i)],
                          calling |-> [i \in 1 .. calling_len |-> Nibble(called_len + i)],
                          rest    |-> From(buf, 2 + len)]} :
                 IsAddr(addrs.called) /\ IsAddr(addrs.calling)}

EncodeFacilitiesBlock(facilities) ==
    {<<Len(b)>> \o b : b \in {e \in EncodeFacilities(facilities) : Len(e) <= 255}}

ReadFacilities(buf) ==
    IF buf = <<>> \/ Len(buf) < 1 + buf[1] THEN {}
    ELSE {[facilities |-> fs, rest |-> From(buf, 2 + buf[1])] :
             fs \in DecodeFacilities(SubSeq(buf, 2, 1 + buf[1]))}

NoAddrs == [called |-> <<>>, calling |-> <<>>, rest |-> <<>>]
NoFacilities == [facilities |-> <<>>, rest |-> <<>>]

(* Address block, facilities block and user data.  Except in a call        *)
(* request each may be missing, with those after it.                       *)
EncodeBlocks(p) ==
    {EncodeAddrBlock(p.called_addr, p.calling_addr) \o fs \o p.user_data :
        fs \in EncodeFacilitiesBlock(p.facilities)}

ReadBlocks(buf, required) ==
    UNION {{[called_addr |-> as.called, calling_addr |-> as.calling,
             facilities |-> fs.facilities, user_data |-> fs.rest] :
               fs \in IF as.rest = <<>> /\ ~required THEN {NoFacilities}
                      ELSE ReadFacilities(as.rest)} :
              as \in IF buf = <<>> /\ ~required THEN {NoAddrs} ELSE ReadAddrs(buf)}

HasAddr(p) == p.called_addr # <<>> \/ p.calling_addr # <<>>
HasBlocks(p) == HasAddr(p) \/ p.facilities # <<>> \/ p.user_data # <<>>

Fits(bufs) == {b \in bufs : Len(b) <= MaxCallLen}

-----------------------------------------------------------------------------
(* One pair of operators per packet type.  Decoders get the header h.      *)

EncodeCallRequest(p) ==
    Fits({h \o b : h \in EncodeHeader(p.modulo, 0, p.channel, 11), b \in EncodeBlocks(p)})

DecodeCallRequest(buf, h) ==
    IF Len(buf) \notin 5 .. MaxCallLen THEN {}
    ELSE {[type |-> "CallRequest", modulo |-> h.modulo, channel |-> h.channel] @@ b :
             b \in ReadBlocks(From(buf, 4), TRUE)}

EncodeCallAccept(p) ==
    Fits({h \o b : h \in EncodeHeader(p.modulo, 0, p.channel, 15),
                   b \in IF HasBlocks(p) THEN EncodeBlocks(p) ELSE {<<>>}})

DecodeCallAccept(buf, h) ==
    IF Len(buf) > MaxCallLen THEN {}
    ELSE {[type |-> "CallAccept", modulo |-> h.modulo, channel |-> h.channel] @@ b :
             b \in ReadBlocks(From(buf, 4), FALSE)}

(* Slip: a diagnostic code of zero is left out even if something follows.  *)
DiagnosticIfAny(p) == IF p.diagnostic > 0 THEN <<p.diagnostic>> ELSE <<>>

(* The diagnostic code of a clear is left out if it is zero and last. *)
DiagnosticOctets(p) ==
    IF p.diagnostic > 0 \/ HasBlocks(p) THEN <<p.diagnostic>> ELSE <<>>

EncodeClearRequest(p) ==
    Fits({h \o <<p.cause>> \o DiagnosticOctets(p) \o b :
             h \in EncodeHeader(p.modulo, 0, p.channel, 19),
             b \in IF HasBlocks(p) THEN EncodeBlocks(p) ELSE {<<>>}})

CauseAndDiagnostic(buf) ==
    [cause |-> buf[4], diagnostic |-> IF Len(buf) > 4 THEN buf[5] ELSE 0]

DecodeClearRequest(buf, h) ==
    IF Len(buf) \notin 4 .. MaxCallLen \/ DeliveryBit(h.gfi) THEN {}
    ELSE {[type |-> "ClearRequest", modulo |-> h.modulo, channel |-> h.channel]
          @@ CauseAndDiagnostic(buf) @@ b : b \in ReadBlocks(From(buf, 6), FALSE)}

(* A clear confirmation has no user data: what follows the facilities is   *)
(* not looked at.                                                          *)
EncodeClearConfirm(p) ==
    Fits({h \o (IF HasAddr(p) \/ p.facilities # <<>>
                THEN EncodeAddrBlock(p.called_addr, p.calling_addr) ELSE <<>>) \o fs :
             h  \in EncodeHeader(p.modulo, 0, p.channel, 23),
             fs \in IF p.facilities # <<>> THEN EncodeFacilitiesBlock(p.facilities)
                                           ELSE {<<>>}})

DecodeClearConfirm(buf, h) ==
    IF Len(buf) > MaxCallLen \/ DeliveryBit(h.gfi) THEN {}
    ELSE {[type |-> "ClearConfirm", modulo |-> h.modulo, channel |-> h.channel,
           called_addr |-> b.called_addr, calling_addr |-> b.calling_addr,
           facilities |-> b.facilities] : b \in ReadBlocks(From(buf, 4), FALSE)}

(* Sequence numbers take three bits of the type octet, or seven of an      *)
(* octet each.                                                             *)
SeqFits(seq, modulo) == seq <= modulo - 1

EncodeData(p) ==
    IF ~(SeqFits(p.send_seq, p.modulo) /\ SeqFits(p.recv_seq, p.modulo)) THEN {}
    ELSE IF p.modulo = Normal
    THEN {h \o p.user_data : h \in EncodeHeader(p.modulo, Overlay(p), p.channel,
             p.recv_seq * 32 + Bit(p.more) * 16 + p.send_seq * 2)}
    ELSE {h \o <<p.recv_seq * 2 + Bit(p.more)>> \o p.user_data :
             h \in EncodeHeader(p.modulo, Overlay(p), p.channel, p.send_seq * 2)}

DecodeData(buf, h) ==
    LET Packet(send, recv, more, data) ==
            [type |-> "Data", modulo |-> h.modulo, channel |-> h.channel,
             qualifier |-> QualifierBit(h.gfi), delivery |-> DeliveryBit(h.gfi),
             send_seq |-> send, recv_seq |-> recv, more |-> more % 2 = 1,
             user_data |-> data]
    IN  CASE h.modulo = Normal ->
               {Packet((buf[3] \div 2) % 8, buf[3] \div 32, buf[3] \div 16, From(buf, 4))}
          [] h.modulo = Extended /\ Len(buf) >= 4 ->
               {Packet(buf[3] \div 2, buf[4] \div 2, buf[4], From(buf, 5))}
          [] OTHER -> {}

(* Receive-ready and receive-not-ready differ in the type octet only. *)
FlowControlType(type) == IF type = "ReceiveReady" THEN 1 ELSE 5

EncodeFlowControl(p) ==
    IF ~SeqFits(p.recv_seq, p.modulo) THEN {}
    ELSE IF p.modulo = Normal
    THEN EncodeHeader(p.modulo, 0, p.channel, p.recv_seq * 32 + FlowControlType(p.type))
    ELSE {h \o <<p.recv_seq * 2>> :
             h \in EncodeHeader(p.modulo, 0, p.channel, FlowControlType(p.type))}

DecodeFlowControl(buf, h, type) ==
    IF \/ Len(buf) # (IF h.modulo = Normal THEN 3 ELSE 4)
       \/ h.gfi \div 4 # 0
       \/ h.modulo = Extended /\ (buf[3] # FlowControlType(type) \/ buf[4] % 2 # 0)
    THEN {}
    ELSE {[type |-> type, modulo |-> h.modulo, channel |-> h.channel, recv_seq |-> n] :
             n \in IF h.modulo = Normal THEN {buf[3] \div 32} ELSE {buf[4] \div 2}}

EncodeResetRequest(p) ==
    {h \o <<p.cause>> \o (IF p.diagnostic > 0 THEN <<p.diagnostic>> ELSE <<>>) :
        h \in EncodeHeader(p.modulo, 0, p.channel, 27)}

DecodeResetRequest(buf, h) ==
    IF Len(buf) \notin 4 .. 5 \/ h.gfi \div 4 # 0 THEN {}
    ELSE {[type |-> "ResetRequest", modulo |-> h.modulo, channel |-> h.channel]
          @@ CauseAndDiagnostic(buf)}

EncodeResetConfirm(p) == EncodeHeader(p.modulo, 0, p.channel, 31)

DecodeResetConfirm(buf, h) ==
    IF Len(buf) # 3 \/ h.gfi \div 4 # 0 THEN {}
    ELSE {[type |-> "ResetConfirm", modulo |-> h.modulo, channel |-> h.channel]}

-----------------------------------------------------------------------------

FlowControlTypes == {"ReceiveReady", "ReceiveNotReady"}

Encode(p) ==
    CASE p.type = "CallRequest"  -> EncodeCallRequest(p)
      [] p.type = "CallAccept"   -> EncodeCallAccept(p)
      [] p.type = "ClearRequest" -> EncodeClearRequest(p)
      [] p.type = "ClearConfirm" -> EncodeClearConfirm(p)
      [] p.type = "Data"         -> EncodeData(p)
      [] p.type \in FlowControlTypes -> EncodeFlowControl(p)
      [] p.type = "ResetRequest" -> EncodeResetRequest(p)
      [] p.type = "ResetConfirm" -> EncodeResetConfirm(p)

DecodeBody(buf, h) ==
    CASE h.type = 11          -> DecodeCallRequest(buf, h)
      [] h.type = 15          -> DecodeCallAccept(buf, h)
      [] h.type = 19          -> DecodeClearRequest(buf, h)
      [] h.type = 23          -> DecodeClearConfirm(buf, h)
      [] h.type % 2 = 0       -> DecodeData(buf, h)
      [] h.type % 32 = 1      -> DecodeFlowControl(buf, h, "ReceiveReady")
      [] h.type % 32 = 5      -> DecodeFlowControl(buf, h, "ReceiveNotReady")
      [] h.type = 27          -> DecodeResetRequest(buf, h)
      [] h.type = 31          -> DecodeResetConfirm(buf, h)
      [] OTHER                -> {}

Decode(buf) ==
    IF Len(buf) \notin 3 .. MaxPacketLen THEN {}
    ELSE UNION {DecodeBody(buf, h) : h \in DecodeHeader(buf)}
=============================================================================
