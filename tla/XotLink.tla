------------------------------ MODULE XotLink -------------------------------
(***************************************************************************)
(* One direction of an XOT link (libxotpad/src/xot/link.rs): packets are   *)
(* framed with a version and a length, written to a TCP stream, which may  *)
(* cut them anywhere, read back in chunks into recv_buf and decoded from   *)
(* there.  The program at the other end may be another one and write what  *)
(* is not a frame.                                                         *)
(*                                                                         *)
(* An octet has Base values, 256 in the code; what the X.25 packets say is *)
(* left out, their octets are not, for a frame out of step would take them *)
(* for a header.                                                           *)
(***************************************************************************)
EXTENDS Integers, SequencesExt

CONSTANTS
    Base,               \* values of an octet
    MinLen, MaxLen,     \* x25::MIN_PACKET_LEN and MAX_PACKET_LEN
    Chunk,              \* most octets one read takes, 1024 in the code
    Packets,            \* what the sender may pass to send
    NonFrames,          \* what another program may write instead of a frame
    MaxFrames           \* bound: frames written

ASSUME LinkAssumption ==
    /\ Base \in Nat /\ MinLen \in Nat /\ MaxLen \in Nat /\ MaxFrames \in Nat
    /\ 0 < MinLen /\ MinLen <= MaxLen /\ MaxLen < Base * Base
    /\ Chunk \in Nat \ {0}
    /\ Packets \subseteq Seq(0 .. Base - 1) /\ NonFrames \subseteq Seq(0 .. Base - 1)

VARIABLES
    link,       \* "up", "closed" by the sender's shutdown, or "broken"
    writing,    \* octets write_all has not written yet
    tcp,        \* octets written and not read
    buf,        \* recv_buf
    reader,     \* whether recv is about to decode or to read, or failed
    frames,     \* history: what was written, frame by frame
    got         \* history: the packets recv returned

vars == <<link, writing, tcp, buf, reader, frames, got>>

XOT_HEADER_LEN == 4

Valid(p) == Len(p) \in MinLen .. MaxLen

(* put_u16: most significant octet first. *)
U16(n) == <<n \div Base, n % Base>>

(* encode refuses a packet that is too short or too long. *)
Encode(p) == U16(0) \o U16(Len(p)) \o p

FromU16(octets) == octets[1] * Base + octets[2]

Incomplete == [result |-> "none"]
Invalid    == [result |-> "error"]

(* Slip: any version will do. *)
RefusesLength(version, len) == len \notin MinLen .. MaxLen

Refuses(version, len) == version # 0 \/ len \notin MinLen .. MaxLen

(* Slip: a packet is complete when there is more. *)
HoldsMore(octets, len) == Len(octets) > XOT_HEADER_LEN + len

HoldsFrame(octets, len) == Len(octets) >= XOT_HEADER_LEN + len

(* Slip: the header is not split off. *)
AfterPacket(octets, len) == SubSeq(octets, len + 1, Len(octets))

AfterFrame(octets, len) == SubSeq(octets, XOT_HEADER_LEN + len + 1, Len(octets))

Decode(octets) ==
    IF Len(octets) < XOT_HEADER_LEN THEN Incomplete
    ELSE LET len == FromU16(SubSeq(octets, 3, 4))
         IN  IF Refuses(FromU16(SubSeq(octets, 1, 2)), len) THEN Invalid
             ELSE IF ~HoldsFrame(octets, len) THEN Incomplete
             ELSE [result |-> "packet",
                   packet |-> SubSeq(octets, XOT_HEADER_LEN + 1, XOT_HEADER_LEN + len),
                   rest   |-> AfterFrame(octets, len)]

Init ==
    /\ link = "up" /\ writing = <<>> /\ tcp = <<>>
    /\ buf = <<>> /\ reader = "decode"
    /\ frames = <<>> /\ got = <<>>

-----------------------------------------------------------------------------
(* The sending end.  Whoever sends or shuts down holds the mutex around    *)
(* the link until all is written.                                          *)

BeginsWrite(octets) ==
    /\ link = "up" /\ writing = <<>> /\ Len(frames) < MaxFrames
    /\ writing' = octets
    /\ frames' = Append(frames, octets)
    /\ UNCHANGED <<link, tcp, buf, reader, got>>

Send == \E p \in Packets : Valid(p) /\ BeginsWrite(Encode(p))

OtherProgramSends == \E octets \in NonFrames : BeginsWrite(octets)

(* One write of write_all. *)
Write ==
    /\ link = "up"
    /\ \E n \in 1 .. Len(writing) :
          /\ tcp' = tcp \o SubSeq(writing, 1, n)
          /\ writing' = SubSeq(writing, n + 1, Len(writing))
    /\ UNCHANGED <<link, buf, reader, frames, got>>

(* Slip: the mutex is not taken. *)
ShutdownUnlocked ==
    /\ link = "up"
    /\ link' = "closed"
    /\ UNCHANGED <<writing, tcp, buf, reader, frames, got>>

Shutdown ==
    /\ link = "up" /\ writing = <<>>
    /\ link' = "closed"
    /\ UNCHANGED <<writing, tcp, buf, reader, frames, got>>

(* External: the connection breaks, octets under way are lost. *)
Break ==
    /\ link # "broken"
    /\ link' = "broken"
    /\ \E n \in 0 .. Len(tcp) : tcp' = SubSeq(tcp, 1, n)
    /\ UNCHANGED <<writing, buf, reader, frames, got>>

-----------------------------------------------------------------------------
(* The receiving end: the loop of recv, called again and again by the      *)
(* engine's reader thread until it fails.                                  *)

RecvPacket ==
    /\ reader = "decode"
    /\ LET decoded == Decode(buf)
       IN  /\ decoded.result = "packet"
           /\ got' = Append(got, decoded.packet)
           /\ buf' = decoded.rest
    /\ UNCHANGED <<link, writing, tcp, reader, frames>>

RecvNeedsMore ==
    /\ reader = "decode" /\ Decode(buf) = Incomplete
    /\ reader' = "read"
    /\ UNCHANGED <<link, writing, tcp, buf, frames, got>>

RecvInvalid ==
    /\ reader = "decode" /\ Decode(buf) = Invalid
    /\ reader' = "failed"
    /\ UNCHANGED <<link, writing, tcp, buf, frames, got>>

Read ==
    /\ reader = "read"
    /\ \E n \in 1 .. Len(tcp) :
          /\ n <= Chunk
          /\ buf' = buf \o SubSeq(tcp, 1, n)
          /\ tcp' = SubSeq(tcp, n + 1, Len(tcp))
    /\ reader' = "decode"
    /\ UNCHANGED <<link, writing, frames, got>>

(* A read of no octets is told as ConnectionReset. *)
ReadEnd ==
    /\ reader = "read" /\ tcp = <<>> /\ link # "up"
    /\ reader' = "failed"
    /\ UNCHANGED <<link, writing, tcp, buf, frames, got>>

Recv == RecvPacket \/ RecvNeedsMore \/ RecvInvalid \/ Read \/ ReadEnd

Next == Send \/ OtherProgramSends \/ Write \/ Shutdown \/ Break \/ Recv

(* TCP takes and delivers octets, the reader thread runs. *)
Fairness == WF_vars(Write) /\ WF_vars(Recv)

Spec == Init /\ [][Next]_vars /\ Fairness

-----------------------------------------------------------------------------
(* Properties. *)

IsFrame(octets) ==
    LET p == SubSeq(octets, XOT_HEADER_LEN + 1, Len(octets))
    IN  Valid(p) /\ octets = Encode(p)

(* The packets sent before anything that is not a frame. *)
Sent ==
    LET good(n) == \A i \in 1 .. n : IsFrame(frames[i])
        n == CHOOSE n \in 0 .. Len(frames) :
                good(n) /\ (n < Len(frames) => ~good(n + 1))
    IN  [i \in 1 .. n |-> SubSeq(frames[i], XOT_HEADER_LEN + 1, Len(frames[i]))]

(* Types; and recv_buf never holds more than a frame lacking an octet and  *)
(* one read, as recv decodes all it has before it reads on.                *)
XotTypeOK ==
    /\ link \in {"up", "closed", "broken"}
    /\ reader \in {"decode", "read", "failed"}
    /\ \A octets \in {writing, tcp, buf} : Range(octets) \subseteq 0 .. Base - 1
    /\ \A i \in 1 .. Len(got) : Valid(got[i])
    /\ Len(buf) < XOT_HEADER_LEN + MaxLen + Chunk

(* Wherever TCP cuts the stream and however reads join it, sender and      *)
(* receiver stay in step: what was written is what was returned, framed,   *)
(* then recv_buf, then what is under way (decode's split_to, recv's        *)
(* extend).                                                                *)
InStep ==
    LET arrived == FlattenSeq([i \in 1 .. Len(got) |-> Encode(got[i])])
                      \o buf \o tcp
        written == FlattenSeq(frames)
    IN  IF link = "broken" THEN IsPrefix(arrived, written)
        ELSE arrived \o writing = written

(* A shutdown loses nothing of what was sent before it: a clear confirm    *)
(* sent just before it arrives (Svc::clear, the engine's last packets).    *)
ShutdownLosesNothing == link = "closed" /\ reader = "failed" => got = Sent

(* The link is a channel of whole packets up to the first thing that is    *)
(* not a frame.                                                            *)
Channel == INSTANCE PacketChannel WITH Packet <- Packets, sent <- Sent
ImplementsChannel == Channel!Spec

(* A packet sent on a connection that holds arrives: recv never waits for  *)
(* octets while it has a packet.                                           *)
EveryPacketArrives ==
    []<>(link # "broken") =>
        \A n \in 1 .. MaxFrames : Len(Sent) >= n ~> Len(got) >= n
=============================================================================
