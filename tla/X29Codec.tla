------------------------------ MODULE X29Codec ------------------------------
(***************************************************************************)
(* X.29: the messages PADs exchange and the user data of their calls       *)
(* (libxotpad/src/x29.rs).  A conversion is the set of its results, empty  *)
(* where it is refused; a message with a parameter above 127 is refused by *)
(* the encoder with a panic, everything else with an Err.                  *)
(***************************************************************************)
EXTENDS Naturals, SequencesExt

Set(request) == [kind |-> "Set", request |-> request]
Read(request) == [kind |-> "Read", request |-> request]
SetRead(request) == [kind |-> "SetRead", request |-> request]
Indicate(response) == [kind |-> "Indicate", response |-> response]
ClearInvitation == [kind |-> "ClearInvitation"]

(* One parameter of a response: Ok(value) or Err(error). *)
Value(param, value) == [param |-> param, value |-> value]
Refusal(param, error) == [param |-> param, error |-> error]
IsRefusal(answer) == "error" \in DOMAIN answer

MessageCode == [Indicate |-> 0, ClearInvitation |-> 1, Set |-> 2, Read |-> 4, SetRead |-> 6]
ErrorCode == [Other |-> 0, Unsupported |-> 1, InvalidValue |-> 2]

ErrorOfCode(n) == CASE n = 1 -> "Unsupported" [] n = 2 -> "InvalidValue"
                    [] OTHER -> "Other"

MaxParam == 127

(* The octet of a parameter that was refused has its top bit set. *)
EncodeAnswer(a) == IF IsRefusal(a) THEN <<a.param + 128, ErrorCode[a.error]>>
                                   ELSE <<a.param, a.value>>
DecodeAnswer(pair) == IF pair[1] < 128 THEN Value(pair[1], pair[2])
                                       ELSE Refusal(pair[1] - 128, ErrorOfCode(pair[2]))

EncodePairs(params, pairs) ==
    IF \E i \in DOMAIN params : params[i] > MaxParam THEN {} ELSE {FlattenSeq(pairs)}

DecodePairs(buf) ==
    IF Len(buf) % 2 # 0 THEN {}
    ELSE {[i \in 1 .. Len(buf) \div 2 |-> <<buf[2 * i - 1], buf[2 * i]>>]}

Firsts(pairs) == [i \in DOMAIN pairs |-> pairs[i][1]]
AskedParams(response) == [i \in DOMAIN response |-> response[i].param]

EncodeMessage(m) ==
    {<<MessageCode[m.kind]>> \o body : body \in
        CASE m.kind \in {"Set", "SetRead"} -> EncodePairs(Firsts(m.request), m.request)
          [] m.kind = "Read" ->
                EncodePairs(m.request, [i \in DOMAIN m.request |-> <<m.request[i], 0>>])
          [] m.kind = "Indicate" ->
                EncodePairs(AskedParams(m.response),
                            [i \in DOMAIN m.response |-> EncodeAnswer(m.response[i])])
          [] m.kind = "ClearInvitation" -> {<<>>}}

DecodeMessage(buf) ==
    IF buf = <<>> THEN {}
    ELSE CASE buf[1] = 0 -> {Indicate([i \in DOMAIN ps |-> DecodeAnswer(ps[i])]) :
                                ps \in DecodePairs(Tail(buf))}
           [] buf[1] = 1 -> IF Len(buf) > 1 THEN {} ELSE {ClearInvitation}
           [] buf[1] = 2 -> {Set(ps) : ps \in DecodePairs(Tail(buf))}
           [] buf[1] = 4 -> {Read(Firsts(ps)) : ps \in
                                {qs \in DecodePairs(Tail(buf)) :
                                    \A i \in DOMAIN qs : qs[i][2] = 0}}
           [] buf[1] = 6 -> {SetRead(ps) : ps \in DecodePairs(Tail(buf))}
           [] OTHER -> {}

-----------------------------------------------------------------------------
(* Call user data: a protocol, by which user_pad knows that the caller is  *)
(* a PAD, and at most twelve octets of the caller's when built here.       *)

PadProtocol == <<1, 0, 0, 0>>
WithCallData(data) ==
    IF Len(data) > 12 THEN {} ELSE {[protocol |-> PadProtocol, call_data |-> data]}
EncodeCallUserData(d) == d.protocol \o d.call_data
DecodeCallUserData(buf) ==
    IF Len(buf) < 4 THEN {}
    ELSE {[protocol |-> SubSeq(buf, 1, 4), call_data |-> SubSeq(buf, 5, Len(buf))]}
IsPadProtocol(d) == d.protocol = PadProtocol
=============================================================================
