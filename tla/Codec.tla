------------------------------- MODULE Codec --------------------------------
(***************************************************************************)
(* The conversions at work, one item at a time: a packet or a message this *)
(* program sends, octets that come from another implementation, a request  *)
(* between two PADs, a call a user asks for.  The item's fate is what the  *)
(* operators of PacketCodec, X3Params and X28Command make of it.           *)
(***************************************************************************)
EXTENDS PacketCodec, X3Params, X28Command

CONSTANTS
    Packets,            \* what the program may have to send
    Frames,             \* packets of another's, as octets
    Headers, Pieces,    \* longer ones: how they begin, how they go on
    MessageHeads, MessageOctets,  \* the same of an X.29 message
    ParamSets,          \* parameters a PAD may have
    Requests,           \* what its peer may ask
    Responses,          \* what a PAD may answer
    CallData,           \* the user data a call is asked for with
    Commands,           \* what a user may want to type
    Separators, Blanks, \* and how: what begins the call user data, blanks anywhere
    MaxPieces           \* bound: pieces and octets after the beginning

ASSUME CodecAssumption ==
    /\ MaxPieces \in Nat
    /\ \A h \in Frames \cup Headers \cup Pieces : \A i \in DOMAIN h : h[i] \in Octet

VARIABLE item

Nothing == [kind |-> "nothing"]

Init == item = Nothing

Take(new) == item' = new

SendPacket == item = Nothing /\ \E p \in Packets : Take([kind |-> "packet", packet |-> p])

HearPacket == item = Nothing /\ \E f \in Frames :
    Take([kind |-> "octets", octets |-> f, pieces |-> MaxPieces])

BeginPacket == item = Nothing /\ \E h \in Headers :
    Take([kind |-> "octets", octets |-> h, pieces |-> 0])

BeginMessage == item = Nothing /\ \E o \in MessageHeads :
    Take([kind |-> "message", octets |-> <<o>>, pieces |-> 0])

GoOn(kind, pieces) ==
    /\ item.kind = kind
    /\ item.pieces < MaxPieces
    /\ \E s \in pieces : item' = [item EXCEPT !.octets = @ \o s, !.pieces = @ + 1]

Ask == item = Nothing /\ \E ps \in ParamSets, r \in Requests :
    Take([kind |-> "request", params |-> ps, request |-> r])

Respond == item = Nothing /\ \E r \in Responses : Take([kind |-> "answer", response |-> r])

CallPad == item = Nothing /\ \E d \in CallData : Take([kind |-> "call", data |-> d])

TypeLine == item = Nothing /\ \E c \in Commands, s \in Separators, b \in Blanks :
    Take([kind |-> "line", command |-> c, separator |-> s, blanks |-> b])

Next ==
    \/ SendPacket
    \/ HearPacket
    \/ BeginPacket \/ GoOn("octets", Pieces)
    \/ BeginMessage \/ GoOn("message", MessageOctets)
    \/ Ask
    \/ Respond
    \/ CallPad
    \/ TypeLine

Spec == Init /\ [][Next]_item

-----------------------------------------------------------------------------
(* should_accept_call of the PAD that is called. *)
ShouldAccept(request, local_addr) ==
    /\ local_addr = <<>> \/ IsPrefix(local_addr, request.called_addr)
    /\ \E d \in DecodeCallUserData(request.user_data) : IsPadProtocol(d)

-----------------------------------------------------------------------------
(* Properties. *)

CallRequestOf(data) ==
    [type |-> "CallRequest", modulo |-> Normal, channel |-> 1,
     called_addr |-> <<1, 2, 3>>, calling_addr |-> <<>>,
     facilities |-> <<PacketSize(128, 128), WindowSize(2, 2)>>, user_data |-> data]

PacketReadsBack(p) == \A buf \in Encode(p) : Decode(buf) = {p}

AnswerReadsBack(response) ==
    \A buf \in EncodeMessage(Indicate(response)) : DecodeMessage(buf) = {Indicate(response)}

CallReadsBack(data) ==
    \A d \in WithCallData(data) :
        LET bufs == Encode(CallRequestOf(EncodeCallUserData(d)))
        IN  /\ bufs # {}
            /\ \A buf \in bufs : \E p \in Decode(buf) :
                   /\ DecodeCallUserData(p.user_data) =
                         {[protocol |-> PadProtocol, call_data |-> data]}
                   /\ \A local_addr \in {<<>>, <<1>>, p.called_addr} : ShouldAccept(p, local_addr)

(* What this program encodes it reads back as it was, whatever the encoder *)
(* does not refuse: no field out of range is cut to fit, no optional part  *)
(* is taken for another, what is long enough for the encoder is not too    *)
(* long for the decoder, and should_accept_call takes a call our PAD makes *)
(* for a PAD's (packet.rs, facility.rs, x29.rs: each encode and decode).   *)
EncodedReadsBack ==
    /\ item.kind = "packet" => PacketReadsBack(item.packet)
    /\ item.kind = "answer" => AnswerReadsBack(item.response)
    /\ item.kind = "call"   => CallReadsBack(item.data)

NumberedTypes == {"Data", "ReceiveReady", "ReceiveNotReady", "ResetRequest", "ResetConfirm"}

(* A diagnostic code of zero may be left out. *)
OneForm(p, octets) ==
    \/ octets \in Encode(p)
    \/ p.type = "ResetRequest" /\ octets \in {b \o <<0>> : b \in Encode(p)}

PacketCouldBeSent(octets) ==
    \A p \in Decode(octets) :
        /\ Encode(p) # {} /\ PacketReadsBack(p)
        /\ p.type \in NumberedTypes => OneForm(p, octets)

ParamsOf(m) ==
    CASE m.kind \in {"Set", "SetRead"} -> Firsts(m.request)
      [] m.kind = "Read"              -> m.request
      [] m.kind = "Indicate"          -> AskedParams(m.response)
      [] m.kind = "ClearInvitation"   -> <<>>

(* Error codes that X.3 does not give become 0.  A parameter of more than  *)
(* seven bits decode admits in a request, encode does not.                 *)
MessageCouldBeSent(octets) ==
    \A m \in DecodeMessage(octets) : Range(ParamsOf(m)) \subseteq 0 .. 127 =>
        /\ EncodeMessage(m) # {}
        /\ \A buf \in EncodeMessage(m) :
               /\ DecodeMessage(buf) = {m}
               /\ Len(buf) = Len(octets)
               /\ \A i \in DOMAIN buf : buf[i] # octets[i] => m.kind = "Indicate" /\ buf[i] = 0

(* Whatever packet the decoder accepts, this program could have sent what  *)
(* it makes of it, and it means the same when it is sent: the decoder is   *)
(* no laxer than the encoder.  So for an X.29 message whose parameters are *)
(* at most 127; of requests beyond that see EveryRequestAnswered.  A       *)
(* packet that moves a window or resets it, and an X.29 message, has one   *)
(* form even: no bit of data is taken for a number and none is dropped     *)
(* (packet.rs, facility.rs, x29.rs: each decode and encode).               *)
AcceptedCouldBeSent ==
    /\ item.kind = "octets"  => PacketCouldBeSent(item.octets)
    /\ item.kind = "message" => MessageCouldBeSent(item.octets)

LastIn(request, i) == \A j \in DOMAIN request : request[j][1] = request[i][1] => j <= i

(* What an answer says of a parameter is so now, unless the request went   *)
(* on to change it; a refusal is of what the PAD does not have.            *)
AnswerTrue(now, request, a, i) ==
    \/ IsRefusal(a) /\ (a.error = "Unsupported" <=> a.param \notin DOMAIN now)
    \/ ~IsRefusal(a) /\ a.param \in DOMAIN now
       /\ \/ now[a.param] = a.value
          \/ request.kind = "SetRead" /\ ~LastIn(request.request, i)

(* A pair of a Set that no answer names is in effect. *)
SilenceMeansSet(now, pairs, learnt) ==
    \A i \in DOMAIN pairs :
        \/ \E m \in learnt : \E j \in DOMAIN m.response : m.response[j].param = pairs[i][1]
        \/ LastIn(pairs, i) => now[pairs[i][1]] = pairs[i][2]

(* What a PAD learns from the answer to its request, and from having none, *)
(* is how the parameters of the other one are now, each of them within     *)
(* what X.3 admits (pad.rs, read_params to set_read_params; x29.rs).       *)
AnswersTellTheTruth ==
    item.kind = "request" =>
        \A sent \in EncodeMessage(item.request) : \A heard \in DecodeMessage(sent) :
            LET done == Serve(item.params, heard)
                learnt == UNION {DecodeMessage(b) :
                                    b \in UNION {EncodeMessage(a) : a \in done.answers}}
            IN  /\ Cardinality(learnt) = Cardinality(done.answers)
                /\ \A p \in DOMAIN done.params : done.params[p] \in Admitted(p)
                /\ \A m \in learnt : \A i \in DOMAIN m.response :
                       AnswerTrue(done.params, item.request, m.response[i], i)
                /\ item.request.kind = "Set" =>
                       SilenceMeansSet(done.params, item.request.request, learnt)

WrittenFacility(f) == <<f.name>> \o f.value
WrittenAddr(a) == IF a.kind = "Abbrev" THEN <<".">> \o a.addr ELSE a.addr
JoinedBy(comma, words) ==
    FlattenSeq([i \in DOMAIN words |-> (IF i = 1 THEN <<>> ELSE <<comma>>) \o words[i]])

(* The hyphen is written even if there are no facilities. *)
WrittenSelection(s, separator) ==
    JoinedBy(",", [i \in DOMAIN s.facilities |-> WrittenFacility(s.facilities[i])])
    \o <<"-">>
    \o JoinedBy(",", [i \in DOMAIN s.addrs |-> WrittenAddr(s.addrs[i])])
    \o (IF s.call_user_data = <<>> THEN <<>> ELSE <<separator>> \o s.call_user_data)

HasAbbrev(s) == \E i \in DOMAIN s.addrs : s.addrs[i].kind = "Abbrev"

WrittenNumber(n, blanks) ==
    LET digits == <<n \div 100, (n \div 10) % 10, n % 10>>
        first  == CASE n >= 100 -> 1 [] n \in 10 .. 99 -> 2 [] OTHER -> 3
    IN  blanks \o [i \in 1 .. 4 - first |-> ToString(digits[first + i - 1])] \o blanks

WrittenArgument(command, separator, blanks) ==
    CASE command.kind = "Selection" -> WrittenSelection(command.argument, separator)
      [] command.kind \in {"Read", "RemoteRead"} ->
            JoinedBy(",", [i \in DOMAIN command.argument |->
                              WrittenNumber(command.argument[i], blanks)])
      [] OTHER ->
            JoinedBy(",", [i \in DOMAIN command.argument |->
                              WrittenNumber(command.argument[i][1], blanks) \o <<":">>
                              \o WrittenNumber(command.argument[i][2], blanks)])

WordsOf == [Selection |-> {"CALL", "call"}, Read |-> {"PAR?", "READ"}, Set |-> {"SET", "set"},
            SetRead |-> {"SET?"}, RemoteRead |-> {"RPAR?", "rpar?"}, RemoteSetRead |-> {"rset?"}]

(* A line written by the grammar of a command is parsed as what it says,   *)
(* whatever the blanks: no part of an address, a facility, the user data   *)
(* or a number is taken for a separator or cut.  A selection typed without *)
(* CALL is the same in upper case (from_str of X28Command, X28Selection).  *)
LineReadsBack ==
    item.kind = "line" =>
        LET c == item.command
            arg == WrittenArgument(c, item.separator, item.blanks)
            line(word) == item.blanks \o <<word, " ">> \o arg \o item.blanks
        IN  \/ c.kind = "Selection" /\ HasAbbrev(c.argument) /\ item.separator # "*"
            \/ /\ \A word \in WordsOf[c.kind] : FromLine(line(word)) = {c}
               /\ c.kind = "Selection" => FromLine(arg) = FromLine(<<"CALL", " ">> \o Upper(arg))

(* What a PAD is asked it can answer.  This fails: decode admits parameter *)
(* numbers above 127, which encode refuses with a panic (x29.rs:198).      *)
EveryRequestAnswered ==
    item.kind = "message" =>
        \A m \in DecodeMessage(item.octets) :
            m.kind \in {"Set", "Read", "SetRead"} /\ m.request # <<>> =>
                \A ps \in ParamSets : \A a \in Serve(ps, m).answers : EncodeMessage(a) # {}
=============================================================================
