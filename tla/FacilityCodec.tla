--------------------------- MODULE FacilityCodec ----------------------------
(***************************************************************************)
(* Facilities and their octets (libxotpad/src/x25/facility.rs).  A         *)
(* conversion that can be refused is the set of its results here: empty    *)
(* where the code returns Err, a singleton otherwise.                      *)
(*                                                                         *)
(* ClassA(code, ..) to ClassD(code, ..) are one kind of record: the two    *)
(* top bits of a code are its class, which the code asserts.               *)
(***************************************************************************)
EXTENDS Naturals, SequencesExt

Octet == 0 .. 255

SizeCode == 66      \* 0x42
WindowCode == 67    \* 0x43

PacketSize(called, calling) ==
    [kind |-> "PacketSize", from_called |-> called, from_calling |-> calling]
WindowSize(called, calling) ==
    [kind |-> "WindowSize", from_called |-> called, from_calling |-> calling]
Generic(code, params) == [kind |-> "Class", code |-> code, params |-> params]

GetCode(facility) == CASE facility.kind = "PacketSize" -> SizeCode
                       [] facility.kind = "WindowSize" -> WindowCode
                       [] facility.kind = "Class"      -> facility.code

Class(code) == <<"A", "B", "C", "D">>[1 + code \div 64]

(* The octets of parameters of classes A, B and C. *)
FixedLength == [A |-> 1, B |-> 2, C |-> 3]

(* Codes are inserted in a HashSet, by the encoder and by the decoder. *)
CodesUnique(facilities) == \A i, j \in DOMAIN facilities :
    GetCode(facilities[i]) = GetCode(facilities[j]) => i = j

EncodePacketSize(size) == {n \in 4 .. 12 : size = 2 ^ n}
DecodePacketSize(n) == IF n \in 4 .. 12 THEN {2 ^ n} ELSE {}
WindowSizes(n) == {n} \cap (1 .. 127)

EncodeParams(f) ==
    CASE f.kind = "PacketSize" ->
            {<<m, n>> : m \in EncodePacketSize(f.from_called),
                        n \in EncodePacketSize(f.from_calling)}
      [] f.kind = "WindowSize" ->
            {<<m, n>> : m \in WindowSizes(f.from_called),
                        n \in WindowSizes(f.from_calling)}
      [] f.kind = "Class" /\ Class(f.code) = "D" ->
            IF Len(f.params) > 255 THEN {} ELSE {<<Len(f.params)>> \o f.params}
      [] f.kind = "Class" /\ Class(f.code) # "D" -> {f.params}

EncodeFacilities(facilities) ==
    IF ~CodesUnique(facilities) THEN {}
    ELSE FoldLeft(LAMBDA bufs, f : {b \o <<GetCode(f)>> \o ps : b \in bufs,
                                                               ps \in EncodeParams(f)},
                  {<<>>}, facilities)

(* How many octets the parameters of the facility at i take. *)
ParamsLength(buf, i) ==
    IF Class(buf[i]) = "D" THEN 1 + (IF i < Len(buf) THEN buf[i + 1] ELSE 0)
    ELSE FixedLength[Class(buf[i])]

DecodeParams(code, ps) ==
    CASE code = SizeCode   -> {PacketSize(m, n) : m \in DecodePacketSize(ps[1]),
                                                  n \in DecodePacketSize(ps[2])}
      [] code = WindowCode -> {WindowSize(m, n) : m \in WindowSizes(ps[1]),
                                                  n \in WindowSizes(ps[2])}
      [] Class(code) = "D" -> {Generic(code, Tail(ps))}
      [] OTHER             -> {Generic(code, ps)}

DecodeEach(buf) ==
    LET From[i \in 1 .. Len(buf) + 1] ==
            IF i > Len(buf) THEN {<<>>}
            ELSE LET end == i + ParamsLength(buf, i)
                 IN  IF end > Len(buf) THEN {}
                     ELSE {<<f>> \o rest :
                             f \in DecodeParams(buf[i], SubSeq(buf, i + 1, end)),
                             rest \in From[end + 1]}
    IN  From[1]

(* Slip: the decoder does not mind a facility that comes twice. *)
DecodeRepeated(buf) == DecodeEach(buf)

DecodeFacilities(buf) == {fs \in DecodeEach(buf) : CodesUnique(fs)}
=============================================================================
