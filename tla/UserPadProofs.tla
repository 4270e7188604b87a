--------------------------- MODULE UserPadProofs ----------------------------
(***************************************************************************)
(* What the main loop of UserPad relies on, for any number of calls and    *)
(* octets and a channel of any length, and what the X.3 parameters that it *)
(* and the PAD keep can be, for every request.                             *)
(***************************************************************************)
EXTENDS UserPad, X3Params, SeqProofs

Inputs == [kind : {"Local"}, octet : Octets] \cup {LocalEnd}
          \cup [kind : {"Call", "Data", "End"}, call : Calls]

(* A command line with a complete escape sequence nowhere in it. *)
Plain(buf) == \A k \in 3 .. Len(buf) : ~(buf[k - 2] = "ESC" /\ buf[k - 1] # "O")

ProgramOK == /\ mode \in Modes /\ program \in {"running", "returned", "failed", "panicked"}
             /\ local_state \in {"Command", "Data"} /\ editing \in BOOLEAN
BuffersOK == /\ command_buf \in Seq(Octets) /\ Plain(command_buf)
             /\ line_buf \in Seq(Calls)
InputsOK  == /\ channel \in Seq(Inputs)
             /\ keyboard \in {"open", "error", "ended"} /\ poisoned \in BOOLEAN
             /\ listener \in 0 .. MaxCalls
CallsOK   == /\ current_call \in 0 .. MaxCalls
             /\ circuit \in [Calls -> {"none", "called", "open", "over"}]
             /\ readers \in [Calls -> Nat]
             /\ connected \subseteq Calls /\ shown \subseteq Calls
             /\ current_call # 0 => circuit[current_call] \in {"open", "over"}

TypesOK == ProgramOK /\ BuffersOK /\ InputsOK /\ CallsOK

-----------------------------------------------------------------------------
(* The command line. *)

LEMMA PrefixPlain ==
    ASSUME NEW S, NEW buf \in Seq(S), Plain(buf), NEW n \in 0 .. Len(buf)
    PROVE  SubSeq(buf, 1, n) \in Seq(S) /\ Plain(SubSeq(buf, 1, n))
<1> DEFINE short == SubSeq(buf, 1, n)
<1>1. short \in Seq(S) /\ Len(short) = n /\ \A i \in 1 .. n : short[i] = buf[i]
  BY PrefixIs
<1> HIDE DEF short
<1>2. \A k \in 3 .. n : k - 2 \in 1 .. n /\ k - 1 \in 1 .. n /\ k \in 3 .. Len(buf)
  OBVIOUS
<1>3. Plain(short)
  BY <1>1, <1>2 DEF Plain
<1> QED BY <1>1, <1>3 DEF short

(* Editing a command line leaves no complete escape sequence in it. *)
LEMMA EditPlain ==
    ASSUME NEW buf \in Seq(Octets), Plain(buf), NEW octet \in Octets
    PROVE  Edit(buf, octet) \in Seq(Octets) /\ Plain(Edit(buf, octet))
<1>1. CASE octet = "DEL"
  BY <1>1, FrontIs, PrefixPlain DEF Edit, CharDelete
<1>2. CASE octet \in Controls \ {"DEL", "ESC"}
  BY <1>2 DEF Edit
<1>3. CASE octet \notin Controls \ {"ESC"}
  <2> DEFINE long == Append(buf, octet)
             n == Len(buf) - 2
             short == SubSeq(long, 1, n)
  <2>1. Edit(buf, octet) = TrimEscapeSequence(long)
    BY <1>3 DEF Edit, Controls
  <2>2. long \in Seq(Octets) /\ Len(long) = Len(buf) + 1 /\ Len(buf) \in Nat
        /\ \A i \in 1 .. Len(buf) : long[i] = buf[i]
    BY AppendIs
  <2> HIDE DEF long
  <2>3. CASE Len(long) >= 3 /\ long[Len(long) - 2] = "ESC" /\ long[Len(long) - 1] # "O"
    <3>1. /\ n \in 0 .. Len(buf) /\ n \in 0 .. Len(long) /\ n = Len(long) - 3
          /\ \A i \in 1 .. n : i \in 1 .. Len(buf)
      BY <2>2, <2>3
    <3>2. TrimEscapeSequence(long) = short
      BY <2>3, <3>1 DEF TrimEscapeSequence
    <3> HIDE DEF n
    <3>3. short \in Seq(Octets) /\ Len(short) = n /\ \A i \in 1 .. n : short[i] = long[i]
      BY <2>2, <3>1, PrefixIs
    <3> HIDE DEF short
    <3>4. \A k \in 3 .. n : k - 2 \in 1 .. n /\ k - 1 \in 1 .. n /\ k \in 3 .. Len(buf)
      BY <2>2, <3>1
    <3>5. Plain(short)
      BY <2>2, <3>1, <3>3, <3>4 DEF Plain
    <3> QED BY <2>1, <3>2, <3>3, <3>5
  <2>4. CASE ~(Len(long) >= 3 /\ long[Len(long) - 2] = "ESC" /\ long[Len(long) - 1] # "O")
    <3>1. TrimEscapeSequence(long) = long
      BY <2>4 DEF TrimEscapeSequence
    <3>2. \A k \in 3 .. Len(long) :
          \/ k \in 3 .. Len(buf) /\ k - 2 \in 1 .. Len(buf) /\ k - 1 \in 1 .. Len(buf)
          \/ k = Len(long) /\ Len(long) >= 3
      BY <2>2
    <3>3. \A k \in 3 .. Len(buf) : ~(buf[k - 2] = "ESC" /\ buf[k - 1] # "O")
      BY DEF Plain
    <3>4. \A k \in 3 .. Len(long) : ~(long[k - 2] = "ESC" /\ long[k - 1] # "O")
      BY <2>2, <2>4, <3>2, <3>3
    <3> QED BY <2>1, <2>2, <3>1, <3>4 DEF Plain
  <2> QED BY <2>3, <2>4
<1> QED BY <1>1, <1>2, <1>3 DEF Controls

-----------------------------------------------------------------------------
(* The channel. *)

Grown(x) == /\ channel' \in Seq(Inputs)
            /\ Len(channel) \in Nat /\ Len(channel') = Len(channel) + 1
            /\ \A i \in 1 .. Len(channel) : channel'[i] = channel[i]
            /\ channel'[Len(channel) + 1] = x

Shifted  == /\ channel' \in Seq(Inputs)
            /\ Len(channel) \in Nat \ {0} /\ Len(channel') = Len(channel) - 1
            /\ Head(channel) = channel[1] /\ Head(channel) \in Inputs
            /\ \A i \in 1 .. Len(channel) - 1 : channel'[i] = channel[i + 1]

LEMMA SendGrows ==
    ASSUME channel \in Seq(Inputs), NEW x \in Inputs, Send(x)
    PROVE  Grown(x)
  BY AppendIs DEF Send, Grown

LEMMA TakeShifts ==
    ASSUME channel \in Seq(Inputs), channel # <<>>, channel' = Tail(channel)
    PROVE  Shifted
  BY TailIs DEF Shifted

LEMMA InputsAre ==
    ASSUME NEW c \in Calls, NEW octet \in Octets
    PROVE  /\ Local(octet) \in Inputs /\ Local(octet).kind = "Local"
           /\ LocalEnd \in Inputs /\ LocalEnd.kind = "LocalEnd"
           /\ Call(c) \in Inputs /\ Call(c).kind = "Call" /\ Call(c).call = c
           /\ Data(c) \in Inputs /\ Data(c).kind = "Data" /\ Data(c).call = c
           /\ End(c) \in Inputs /\ End(c).kind = "End" /\ End(c).call = c
  BY DEF Inputs, Local, LocalEnd, Call, Data, End

LEMMA InputIs ==
    ASSUME NEW x \in Inputs
    PROVE  /\ x.kind \in {"Local", "LocalEnd", "Call", "Data", "End"}
           /\ x.kind = "Local" => x.octet \in Octets
           /\ x.kind \in {"Call", "Data", "End"} => x.call \in Calls
           /\ x.kind = "Call" => x = Call(x.call)
  BY DEF Inputs, LocalEnd, Call

LEMMA CallNumbers ==
    /\ \A c : c \in Calls <=> c \in 0 .. MaxCalls /\ c # 0
    /\ 0 \in 0 .. MaxCalls /\ 0 \notin Calls
  BY UserPadAssumption DEF Calls

LEMMA InitTypes == Init => TypesOK
<1> SUFFICES ASSUME Init PROVE TypesOK
  OBVIOUS
<1>1. 1 \in Calls /\ 0 \in 0 .. MaxCalls /\ 1 \in 0 .. MaxCalls
  BY UserPadAssumption DEF Calls
<1>2. ProgramOK
  BY DEF Init, ProgramOK
<1>3. BuffersOK
  BY DEF Init, BuffersOK, Plain
<1>4. InputsOK
  <2>1. <<>> \in Seq(Inputs)
    OBVIOUS
  <2>2. /\ channel = <<>> /\ keyboard = "open" /\ listener = 0 /\ poisoned = FALSE
    BY DEF Init
  <2> QED BY <1>1, <2>1, <2>2 DEF InputsOK
<1>5. CallsOK
  BY <1>1 DEF Init, CallsOK
<1> QED BY <1>2, <1>3, <1>4, <1>5 DEF TypesOK

-----------------------------------------------------------------------------
(* An octet or the end of input taken. *)

LocalStep == \/ TakeLocalEnd \/ CommandInterrupt \/ CommandEscape \/ CommandOctet
             \/ LineNotText \/ LineIdle \/ LineSet \/ LineExit \/ LineSelect \/ LineClear
             \/ LineRemote \/ DataEscape \/ DataOctet

(* The call stays, is let go of, or is a new one with a reader. *)
KeepsCall == UNCHANGED <<current_call, circuit, readers, connected>>

DropsCall == /\ current_call' = 0 /\ UNCHANGED <<readers, connected>>
             /\ \/ UNCHANGED circuit
                \/ /\ current_call # 0 /\ circuit[current_call] = "open"
                   /\ circuit' = [circuit EXCEPT ![current_call] = "over"]

MakesCall == /\ current_call = 0 /\ current_call' \in Calls
             /\ circuit' = [circuit EXCEPT ![current_call'] = "open"]
             /\ readers' = [readers EXCEPT ![current_call'] = @ + 1]
             /\ connected' = connected \cup {current_call'}

(* What every such step does to the calls and to the local state. *)
LocalStepDoes ==
    /\ channel # <<>> /\ channel' = Tail(channel)
    /\ Head(channel).kind \in {"Local", "LocalEnd"}
    /\ UNCHANGED <<mode, keyboard, listener, poisoned, typed, received, shown>>
    /\ KeepsCall \/ DropsCall \/ MakesCall
    /\ program' \in {"running", "returned", "failed", "panicked"}
    /\ local_state' = "Data" /\ current_call' = 0 =>
          local_state = "Data" /\ (current_call = 0 \/ Head(channel).kind = "LocalEnd")
    /\ local_state' \in {"Command", "Data"}

LEMMA LocalSteps ==
    ASSUME TypesOK, LocalStep, program = "running"
    PROVE  LocalStepDoes
<1> USE DEF LocalStepDoes, KeepsCall, threads, remote, terminal, buffers, TypesOK, ProgramOK, CallsOK
<1>1. CASE TakeLocalEnd
  BY <1>1 DEF TakeLocalEnd, Takes, Clears, DropsCall
<1>2. CASE CommandInterrupt
  BY <1>2 DEF CommandInterrupt, InCommand, Takes, Clears, DropsCall
<1>3. CASE CommandEscape
  BY <1>3 DEF CommandEscape, InCommand, Takes, PadDoes
<1>4. CASE CommandOctet
  BY <1>4 DEF CommandOctet, InCommand, Takes
<1>5. CASE LineNotText
  BY <1>5 DEF LineNotText, Line, InCommand, Takes
<1>6. CASE LineIdle
  BY <1>6 DEF LineIdle, Line, InCommand, Takes, AfterLine, UsesParams
<1>7. CASE LineSet
  BY <1>7 DEF LineSet, Spells, Line, InCommand, Takes, AfterLine, UsesParams
<1>8. CASE LineExit
  BY <1>8 DEF LineExit, Spells, Line, InCommand, Takes, Clears, DropsCall
<1>9. CASE LineSelect
  BY <1>9 DEF LineSelect, Spells, Line, InCommand, Takes, AfterLine, Connects, Spawn, MakesCall
<1>10. CASE LineClear
  BY <1>10 DEF LineClear, Spells, Line, InCommand, Takes, Clears, AfterLine, DropsCall
<1>11. CASE LineRemote
  BY <1>11 DEF LineRemote, Spells, Line, InCommand, Takes, PadDoes, AfterLine
<1>12. CASE DataEscape
  BY <1>12 DEF DataEscape, Takes, EnsureCommand
<1>13. CASE DataOctet
  BY <1>13 DEF DataOctet, Takes, PadDoes, UsesParams
<1> QED BY <1>1, <1>2, <1>3, <1>4, <1>5, <1>6, <1>7, <1>8, <1>9, <1>10, <1>11, <1>12, <1>13
        DEF LocalStep

LEMMA LocalStepBuffers ==
    ASSUME TypesOK, LocalStep, program = "running"
    PROVE  BuffersOK' /\ editing' \in BOOLEAN
<1> USE DEF TypesOK, BuffersOK, ProgramOK, buffers
<1>1. CASE UNCHANGED buffers
  BY <1>1 DEF Plain
<1>2. CASE command_buf' = <<>> /\ UNCHANGED line_buf /\ editing' \in BOOLEAN
  BY <1>2 DEF Plain
<1>3. CASE CommandOctet
  <2>1. PICK octet \in Octets : command_buf' = Edit(command_buf, octet)
    BY <1>3 DEF CommandOctet
  <2> QED BY <1>3, <2>1, EditPlain DEF CommandOctet
<1>4. CASE DataOctet
  <2>1. UNCHANGED <<command_buf, editing>>
    BY <1>4 DEF DataOctet
  <2>2. line_buf' \in Seq(Calls)
    <3>1. CharDelete(line_buf) \in Seq(Calls)
      <4>1. CASE line_buf = <<>>
        BY <4>1 DEF CharDelete
      <4>2. CASE line_buf # <<>>
        <5>1. /\ line_buf \in Seq(Calls)
              /\ Front(line_buf) = SubSeq(line_buf, 1, Len(line_buf) - 1)
              /\ Len(line_buf) - 1 \in 0 .. Len(line_buf)
          BY <4>2, FrontIs DEF BuffersOK
        <5>2. SubSeq(line_buf, 1, Len(line_buf) - 1) \in Seq(Calls)
          BY <5>1, PrefixIs, Zenon
        <5> QED BY <4>2, <5>1, <5>2, Zenon DEF CharDelete
      <4> QED BY <4>1, <4>2
    <3>2. current_call # 0 => Append(line_buf, current_call) \in Seq(Calls)
      <4> SUFFICES ASSUME current_call # 0 PROVE Append(line_buf, current_call) \in Seq(Calls)
        OBVIOUS
      <4>1. current_call \in Calls
        BY CallNumbers DEF CallsOK
      <4> QED BY <4>1, AppendIs
    <3>3. line_buf' \in {line_buf, <<>>, CharDelete(line_buf), Append(line_buf, current_call)}
      BY <1>4 DEF DataOctet, LineDelete
    <3>4. current_call = 0 => line_buf' = line_buf
      BY <1>4 DEF DataOctet
    <3>5. line_buf \in Seq(Calls) /\ <<>> \in Seq(Calls)
      OBVIOUS
    <3> HIDE DEF BuffersOK, TypesOK
    <3> QED BY <3>1, <3>2, <3>3, <3>4, <3>5
  <2>3. Plain(command_buf')
    BY <2>1
  <2> QED BY <2>1, <2>2, <2>3
<1>5. CASE CommandInterrupt
  BY <1>1, <1>2, <1>5 DEF CommandInterrupt
<1>6. CASE TakeLocalEnd \/ CommandEscape \/ LineRemote \/ DataEscape \/ LineNotText \/ LineIdle
           \/ LineSet \/ LineExit \/ LineSelect \/ LineClear
  BY <1>1, <1>2, <1>6
     DEF TakeLocalEnd, CommandEscape, LineRemote, DataEscape, LineNotText, LineIdle, LineSet,
         LineExit, LineSelect, LineClear, Spells, Line
<1> QED BY <1>3, <1>4, <1>5, <1>6 DEF LocalStep

LEMMA LocalStepTypes ==
    ASSUME TypesOK, LocalStep, program = "running"
    PROVE  TypesOK'
<1>1. LocalStepDoes
  BY LocalSteps
<1>2. ProgramOK'
  BY <1>1, LocalStepBuffers DEF TypesOK, ProgramOK, LocalStepDoes
<1>3. BuffersOK'
  BY LocalStepBuffers
<1>4. InputsOK'
  <2>1. Shifted
    BY <1>1, TakeShifts DEF TypesOK, InputsOK, LocalStepDoes
  <2> QED BY <1>1, <2>1 DEF TypesOK, InputsOK, LocalStepDoes, Shifted
<1>5. CallsOK'
  <2> USE DEF TypesOK, CallsOK
  <2>0. shown' = shown
    BY <1>1 DEF LocalStepDoes
  <2>1. CASE KeepsCall
    BY <2>0, <2>1 DEF KeepsCall
  <2>2. CASE DropsCall
    BY <2>0, <2>2, CallNumbers DEF DropsCall
  <2>3. CASE MakesCall
    <3>1. /\ current_call' \in Calls
          /\ current_call' \in 0 .. MaxCalls
      BY <2>3, CallNumbers DEF MakesCall
    <3>2. /\ circuit' \in [Calls -> {"none", "called", "open", "over"}]
          /\ circuit'[current_call'] = "open"
      BY <2>3, <3>1 DEF MakesCall
    <3>3. readers' \in [Calls -> Nat]
      BY <2>3, <3>1 DEF MakesCall
    <3>4. connected' \subseteq Calls /\ shown' \subseteq Calls
      BY <2>0, <2>3 DEF MakesCall
    <3> QED BY <3>1, <3>2, <3>3, <3>4
  <2> QED BY <1>1, <2>1, <2>2, <2>3 DEF LocalStepDoes
<1> QED BY <1>2, <1>3, <1>4, <1>5 DEF TypesOK

-----------------------------------------------------------------------------
(* The other steps. *)

LEMMA TypesStep ==
    ASSUME TypesOK, [Next]_vars
    PROVE  TypesOK'
<1> USE DEF TypesOK, buffers, remote, threads, terminal
<1>1. CASE UNCHANGED vars
  BY <1>1 DEF vars, ProgramOK, BuffersOK, InputsOK, CallsOK, Plain
<1>2. CASE Next
  <2> USE <1>2
  <2>0. program = "running"
    BY DEF Next
  <2>1. CASE TypeOctet
    <3>1. PICK octet \in Octets : Send(Local(octet))
      BY <2>1 DEF TypeOctet
    <3>2. Local(octet) \in Inputs
      BY DEF Inputs, Local
    <3>3. channel' \in Seq(Inputs)
      BY <3>1, <3>2, SendGrows DEF Grown, InputsOK
    <3> QED BY <2>1, <3>3 DEF TypeOctet, ProgramOK, BuffersOK, InputsOK, CallsOK, Plain
  <2>2. CASE EndInput
    <3>1. LocalEnd \in Inputs
      BY DEF Inputs
    <3>2. channel' \in Seq(Inputs)
      BY <2>2, <3>1, SendGrows DEF EndInput, Grown, InputsOK
    <3> QED BY <2>2, <3>2 DEF EndInput, ProgramOK, BuffersOK, InputsOK, CallsOK, Plain
  <2>3. CASE Listen
    <3>1. PICK c \in Calls : IsNext(c) /\ listener' = c /\ circuit' = [circuit EXCEPT ![c] = "called"]
      BY <2>3 DEF Listen
    <3>2. listener' \in 0 .. MaxCalls
      BY <3>1, CallNumbers
    <3>3. c # current_call
      BY <3>1, CallNumbers DEF IsNext, CallsOK
    <3> QED BY <2>3, <3>1, <3>2, <3>3, CallNumbers
            DEF Listen, ProgramOK, BuffersOK, InputsOK, CallsOK, Plain
  <2>4. CASE Refuse
    <3>1. listener \in Calls /\ listener' \in 0 .. MaxCalls
      BY <2>4, CallNumbers DEF Refuse, InputsOK
    <3> QED BY <2>4, <3>1, CallNumbers DEF Refuse, ProgramOK, BuffersOK, InputsOK, CallsOK, Plain
  <2>5. CASE Accept
    <3>1. listener \in Calls /\ listener \in 0 .. MaxCalls /\ listener' \in 0 .. MaxCalls
      BY <2>5, CallNumbers DEF Accept, InputsOK
    <3>2. channel' \in Seq(Inputs)
      <4>1. Call(listener) \in Inputs
        BY <3>1 DEF Inputs, Call
      <4>2. Send(Call(listener)) \/ UNCHANGED channel
        BY <2>5 DEF Accept
      <4> QED BY <4>1, <4>2, SendGrows DEF Grown, InputsOK
    <3>3. ProgramOK' /\ BuffersOK'
      BY <2>5 DEF Accept, ProgramOK, BuffersOK, Plain
    <3>4. InputsOK'
      BY <2>5, <3>1, <3>2 DEF Accept, InputsOK
    <3>5. CallsOK'
      BY <2>5, <3>1 DEF Accept, CallsOK
    <3> QED BY <3>3, <3>4, <3>5
  <2>6. CASE MeetPoison \/ TakeCall \/ TakeData \/ TakeEnd
    <3>1. Shifted
      BY <2>6, TakeShifts DEF MeetPoison, TakeCall, TakeData, TakeEnd, Takes, InputsOK
    <3>2. ProgramOK'
      BY <2>6 DEF MeetPoison, TakeCall, TakeData, TakeEnd, EnsureCommand, ProgramOK
    <3>3. BuffersOK'
      BY <2>6 DEF MeetPoison, TakeCall, TakeData, TakeEnd, BuffersOK, Plain
    <3>4. InputsOK'
      BY <2>6, <3>1 DEF MeetPoison, TakeCall, TakeData, TakeEnd, InputsOK, Shifted
    <3>5. CallsOK'
      <4>1. CASE MeetPoison
        BY <4>1 DEF MeetPoison, CallsOK
      <4>2. CASE TakeCall
        <5>1. Head(channel).call \in Calls
          BY <3>1, <4>2, InputIs DEF TakeCall, Takes, Shifted
        <5>2. readers' \in [Calls -> Nat]
          <6>1. CASE readers' = readers
            BY <6>1 DEF CallsOK
          <6>2. CASE current_call # 0 /\ Spawn(current_call)
            BY <6>2, CallNumbers DEF CallsOK, Spawn
          <6> QED BY <4>2, <6>1, <6>2 DEF TakeCall
        <5> QED BY <4>2, <5>1, <5>2 DEF TakeCall, CallsOK
      <4>3. CASE TakeData
        <5>1. Head(channel).call \in Calls
          BY <3>1, <4>3, InputIs DEF TakeData, Takes, Shifted
        <5> QED BY <4>3, <5>1 DEF TakeData, CallsOK
      <4>4. CASE TakeEnd
        BY <4>4, CallNumbers DEF TakeEnd, CallsOK
      <4> QED BY <2>6, <4>1, <4>2, <4>3, <4>4
    <3> QED BY <3>2, <3>3, <3>4, <3>5
  <2>7. CASE LocalStep
    BY <2>0, <2>7, LocalStepTypes
  <2>8. ASSUME NEW c \in Calls, ReadData(c)
        PROVE  TypesOK'
    <3>1. channel' \in Seq(Inputs)
      BY <2>8, InputsAre, SendGrows DEF ReadData, Grown, InputsOK, Inputs, Data
    <3> QED BY <2>8, <3>1 DEF ReadData, ProgramOK, BuffersOK, InputsOK, CallsOK, Plain
  <2>9. ASSUME NEW c \in Calls, ReadEnd(c)
        PROVE  TypesOK'
    <3>1. channel' \in Seq(Inputs)
      BY <2>9, InputsAre, SendGrows DEF ReadEnd, Grown, InputsOK, Inputs, End
    <3>2. readers' \in [Calls -> Nat]
      BY <2>9 DEF ReadEnd, CallsOK
    <3> QED BY <2>9, <3>1, <3>2 DEF ReadEnd, ProgramOK, BuffersOK, InputsOK, CallsOK, Plain
  <2>10. ASSUME NEW c \in Calls, CircuitEnds(c)
         PROVE  TypesOK'
    BY <2>10 DEF CircuitEnds, ProgramOK, BuffersOK, InputsOK, CallsOK, Plain
  <2>11. ASSUME NEW c \in Calls, RemoteSets(c)
         PROVE  TypesOK'
    BY <2>11 DEF RemoteSets, ProgramOK, BuffersOK, InputsOK, CallsOK, Plain
  <2> QED BY <2>1, <2>2, <2>3, <2>4, <2>5, <2>6, <2>7, <2>8, <2>9, <2>10, <2>11
          DEF Next, MainLoop, LocalStep
<1> QED BY <1>1, <1>2

(* The types: command_buf never holds an escape sequence that is complete. *)
THEOREM UserPadTypes == Spec => []UserPadTypeOK
<1>1. TypesOK => UserPadTypeOK
  <2> SUFFICES ASSUME TypesOK PROVE UserPadTypeOK
    OBVIOUS
  <2>1. TrimEscapeSequence(command_buf) = command_buf
    <3>1. Len(command_buf) \in Nat
      BY DEF TypesOK, BuffersOK
    <3>2. Len(command_buf) >= 3 => Len(command_buf) \in 3 .. Len(command_buf)
      BY <3>1
    <3> QED BY <3>1, <3>2 DEF TypesOK, BuffersOK, Plain, TrimEscapeSequence
  <2>2. Range(command_buf) \subseteq Octets /\ Range(line_buf) \subseteq Calls
    BY DEF TypesOK, BuffersOK, Range
  <2> QED BY <2>1, <2>2 DEF TypesOK, ProgramOK, InputsOK, CallsOK, UserPadTypeOK
<1>2. Spec => []TypesOK
  BY InitTypes, TypesStep, PTL DEF Spec
<1> QED BY <1>1, <1>2, PTL

-----------------------------------------------------------------------------
(* Data state has a call. *)

(* The keyboard closes with the end of input: no octet follows it. *)
KeyboardInv ==
    /\ keyboard = "open" => \A i \in 1 .. Len(channel) : channel[i].kind # "LocalEnd"
    /\ \A i, j \in 1 .. Len(channel) :
          i < j /\ channel[i].kind = "LocalEnd" => channel[j].kind # "Local"

LocalInv == TypesOK /\ KeyboardInv /\ DataStateHasCall

Sends == \E x \in Inputs : /\ Grown(x)
                           /\ x.kind = "Local" => TypeOctet
                           /\ x.kind = "LocalEnd" => EndInput
                           /\ x.kind = "Data" => readers[x.call] > 0

(* Every step sends an input, takes one or leaves the channel alone. *)
LEMMA ChannelStep ==
    ASSUME TypesOK, Next
    PROVE  \/ Sends
           \/ Shifted /\ MainLoop
           \/ UNCHANGED channel
<1> USE DEF TypesOK, buffers, remote, threads, terminal
<1>0. program = "running" /\ channel \in Seq(Inputs)
  BY DEF Next, InputsOK
<1>1. CASE TypeOctet
  <2>1. PICK octet \in Octets : Send(Local(octet))
    BY <1>1 DEF TypeOctet
  <2>2. Local(octet) \in Inputs /\ Local(octet).kind = "Local"
    BY DEF Inputs, Local
  <2> QED BY <1>0, <1>1, <2>1, <2>2, SendGrows DEF Sends
<1>2. CASE EndInput
  <2>1. LocalEnd \in Inputs /\ LocalEnd.kind = "LocalEnd"
    BY DEF Inputs, LocalEnd
  <2> QED BY <1>0, <1>2, <2>1, SendGrows DEF EndInput, Sends
<1>3. CASE Listen \/ Refuse
  BY <1>3 DEF Listen, Refuse
<1>4. CASE Accept
  <2>1. Call(listener) \in Inputs /\ Call(listener).kind = "Call"
    BY <1>4, CallNumbers DEF Accept, InputsOK, Inputs, Call
  <2>2. Send(Call(listener)) \/ UNCHANGED channel
    BY <1>4 DEF Accept
  <2> QED BY <1>0, <2>1, <2>2, SendGrows DEF Sends
<1>5. CASE MainLoop
  <2>1. CASE LocalStep
    BY <1>0, <1>5, <2>1, LocalSteps, TakeShifts DEF LocalStepDoes
  <2>2. CASE MeetPoison \/ TakeCall \/ TakeData \/ TakeEnd
    BY <1>0, <1>5, <2>2, TakeShifts DEF MeetPoison, TakeCall, TakeData, TakeEnd, Takes
  <2> QED BY <1>5, <2>1, <2>2 DEF MainLoop, LocalStep
<1>6. ASSUME NEW c \in Calls, ReadData(c)
      PROVE  \E x \in Inputs : Grown(x) /\ x.kind = "Data" /\ readers[x.call] > 0
  BY <1>0, <1>6, SendGrows DEF ReadData, Inputs, Data
<1>7. ASSUME NEW c \in Calls, ReadEnd(c)
      PROVE  \E x \in Inputs : Grown(x) /\ x.kind = "End"
  BY <1>0, <1>7, SendGrows DEF ReadEnd, Inputs, End
<1>8. ASSUME NEW c \in Calls, CircuitEnds(c) \/ RemoteSets(c)
      PROVE  UNCHANGED channel
  BY <1>8 DEF CircuitEnds, RemoteSets
<1> QED BY <1>1, <1>2, <1>3, <1>4, <1>5, <1>6, <1>7, <1>8 DEF Next, Sends

LEMMA KeyboardStep ==
    ASSUME TypesOK, KeyboardInv, [Next]_vars
    PROVE  KeyboardInv'
<1>1. CASE UNCHANGED channel /\ keyboard' = keyboard
  BY <1>1 DEF KeyboardInv
<1>2. CASE Next
  <2>0. /\ keyboard' = keyboard \/ EndInput
        /\ keyboard' = "open" => keyboard = "open"
    <3>1. CASE LocalStep
      BY <1>2, <3>1, LocalSteps DEF LocalStepDoes, Next
    <3>2. CASE ~LocalStep
      BY <1>2, <3>2 DEF Next, MainLoop, LocalStep, TypeOctet, EndInput, Listen, Refuse, Accept,
         MeetPoison, TakeCall, TakeData, TakeEnd, ReadData, ReadEnd, CircuitEnds, RemoteSets,
         threads, remote, buffers, terminal, TypesOK, InputsOK
    <3> QED BY <3>1, <3>2
  <2>1. ASSUME NEW x \in Inputs, Grown(x), x.kind = "Local" => TypeOctet,
               x.kind = "LocalEnd" => EndInput
        PROVE  KeyboardInv'
    <3>1. TypeOctet => keyboard = "open"
      BY DEF TypeOctet
    <3>2. EndInput => keyboard' # "open"
      BY DEF EndInput
    <3>3. \A i \in 1 .. Len(channel') : i \in 1 .. Len(channel) \/ i = Len(channel) + 1
      BY <2>1 DEF Grown
    <3>4. keyboard' = "open" => \A i \in 1 .. Len(channel') : channel'[i].kind # "LocalEnd"
      BY <2>0, <2>1, <3>2, <3>3 DEF Grown, KeyboardInv
    <3>5. ASSUME NEW i \in 1 .. Len(channel'), NEW j \in 1 .. Len(channel'), i < j,
                 channel'[i].kind = "LocalEnd"
          PROVE  channel'[j].kind # "Local"
      <4>1. i \in 1 .. Len(channel) /\ channel[i].kind = "LocalEnd"
        BY <2>1, <3>5 DEF Grown
      <4>2. CASE j \in 1 .. Len(channel)
        BY <2>1, <3>5, <4>1, <4>2 DEF Grown, KeyboardInv
      <4>3. CASE j = Len(channel) + 1
        BY <2>1, <3>1, <4>1, <4>3 DEF Grown, KeyboardInv
      <4> QED BY <3>3, <4>2, <4>3
    <3> QED BY <3>4, <3>5 DEF KeyboardInv
  <2>2. CASE Shifted
    <3>1. \A i \in 1 .. Len(channel') : i + 1 \in 1 .. Len(channel) /\ channel'[i] = channel[i + 1]
      BY <2>2 DEF Shifted
    <3>2. \A i, j \in 1 .. Len(channel') : i < j => i + 1 < j + 1
      OBVIOUS
    <3> QED BY <2>0, <3>1, <3>2 DEF KeyboardInv
  <2>3. CASE UNCHANGED channel
    BY <2>0, <2>3 DEF KeyboardInv
  <2>4. CASE Sends
    BY <2>1, <2>4 DEF Sends
  <2> QED BY <1>2, <2>2, <2>3, <2>4, ChannelStep
<1> QED BY <1>1, <1>2 DEF vars, threads

NoOctets == keyboard # "open" /\ \A i \in 1 .. Len(channel) : channel[i].kind # "Local"

LEMMA DataStateIs ==
    DataStateHasCall <=>
        (program = "running" /\ local_state = "Data" /\ current_call = 0 => NoOctets)
  BY DEF DataStateHasCall, NoOctets, Pending

LEMMA NoOctetsLater ==
    ASSUME TypesOK, NoOctets, Next
    PROVE  NoOctets'
<1>1. keyboard' # "open"
  <2>1. CASE LocalStep
    BY <2>1, LocalSteps DEF LocalStepDoes, Next, NoOctets
  <2>2. CASE ~LocalStep
    BY <2>2 DEF Next, MainLoop, LocalStep, TypeOctet, EndInput, Listen, Refuse, Accept,
       MeetPoison, TakeCall, TakeData, TakeEnd, ReadData, ReadEnd, CircuitEnds, RemoteSets,
       threads, remote, buffers, terminal, NoOctets
  <2> QED BY <2>1, <2>2
<1>2. CASE Sends
  <2>1. PICK x \in Inputs : Grown(x) /\ (x.kind = "Local" => TypeOctet)
    BY <1>2 DEF Sends
  <2>2. x.kind # "Local"
    BY <2>1 DEF TypeOctet, NoOctets
  <2>3. \A i \in 1 .. Len(channel') : i \in 1 .. Len(channel) \/ i = Len(channel) + 1
    BY <2>1 DEF Grown
  <2> QED BY <1>1, <2>1, <2>2, <2>3 DEF Grown, NoOctets
<1>3. CASE Shifted
  <2>1. \A i \in 1 .. Len(channel') : i + 1 \in 1 .. Len(channel) /\ channel'[i] = channel[i + 1]
    BY <1>3 DEF Shifted
  <2> QED BY <1>1, <2>1 DEF NoOctets
<1>4. CASE UNCHANGED channel
  BY <1>1, <1>4 DEF NoOctets
<1> QED BY <1>2, <1>3, <1>4, ChannelStep

LEMMA DataStateStep ==
    ASSUME TypesOK, KeyboardInv, DataStateHasCall, [Next]_vars
    PROVE  DataStateHasCall'
<1>1. CASE UNCHANGED vars
  BY <1>1 DEF vars, threads, DataStateHasCall, Pending
<1>2. CASE Next
  <2> SUFFICES ASSUME program' = "running", local_state' = "Data", current_call' = 0
               PROVE  NoOctets'
    BY DEF DataStateHasCall, NoOctets, Pending
  <2>0. program = "running"
    BY <1>2 DEF Next
  <2>1. CASE LocalStep
    <3>1. LocalStepDoes
      BY <2>0, <2>1, LocalSteps
    <3>2. CASE current_call = 0
      BY <1>2, <2>0, <3>1, <3>2, DataStateIs, NoOctetsLater DEF LocalStepDoes
    <3>3. CASE Head(channel).kind = "LocalEnd"
      <4>1. Shifted
        BY <3>1, TakeShifts DEF LocalStepDoes, TypesOK, InputsOK
      <4>2. channel[1].kind = "LocalEnd" /\ 1 \in 1 .. Len(channel)
        BY <3>3, <4>1 DEF Shifted
      <4>3. keyboard # "open" /\ keyboard' = keyboard
        BY <3>1, <4>2 DEF KeyboardInv, LocalStepDoes
      <4>4. \A i \in 1 .. Len(channel') :
               /\ i + 1 \in 1 .. Len(channel) /\ 1 < i + 1
               /\ channel'[i] = channel[i + 1]
        BY <4>1 DEF Shifted
      <4>5. \A i \in 1 .. Len(channel') : channel[i + 1].kind # "Local"
        BY <4>2, <4>4 DEF KeyboardInv
      <4> QED BY <4>3, <4>4, <4>5 DEF NoOctets
    <3> QED BY <3>1, <3>2, <3>3 DEF LocalStepDoes
  <2>2. CASE ~LocalStep
    <3>1. local_state = "Data" /\ current_call = 0
      BY <1>2, <2>2 DEF Next, MainLoop, LocalStep, TypeOctet, EndInput, Listen, Refuse, Accept,
         MeetPoison, TakeCall, TakeData, TakeEnd, EnsureCommand, ReadData, ReadEnd, CircuitEnds,
         RemoteSets, threads, remote, buffers, terminal
    <3> QED BY <1>2, <2>0, <3>1, DataStateIs, NoOctetsLater
  <2> QED BY <2>1, <2>2
<1> QED BY <1>1, <1>2

(* The unwrap of current_call for an octet in data state cannot fail.      *)
THEOREM DataStateHasCallAlways == Spec => []DataStateHasCall
<1>1. Init => KeyboardInv /\ DataStateHasCall
  BY DEF Init, KeyboardInv, DataStateHasCall
<1>2. LocalInv /\ [Next]_vars => LocalInv'
  BY TypesStep, KeyboardStep, DataStateStep DEF LocalInv
<1>3. Spec => []LocalInv
  BY <1>1, <1>2, InitTypes, PTL DEF Spec, LocalInv
<1> QED BY <1>3, PTL DEF LocalInv

-----------------------------------------------------------------------------
(* Every call is read. *)

ReadInv == TypesOK /\ EveryCallIsRead

Noticed(c) == \E i \in 1 .. Len(channel) : channel[i].kind \in {"Call", "End"} /\ channel[i].call = c

LEMMA EveryCallIs ==
    EveryCallIsRead <=>
        (program = "running" /\ current_call # 0 /\ ~poisoned =>
            readers[current_call] > 0 \/ Noticed(current_call))
  BY DEF EveryCallIsRead, Noticed, Pending

LEMMA NoticedGrown ==
    ASSUME NEW c, Noticed(c), NEW x, Grown(x)
    PROVE  Noticed(c)'
<1>1. PICK i \in 1 .. Len(channel) : channel[i].kind \in {"Call", "End"} /\ channel[i].call = c
  BY DEF Noticed
<1>2. i \in 1 .. Len(channel') /\ channel'[i] = channel[i]
  BY DEF Grown
<1> QED BY <1>1, <1>2 DEF Noticed

LEMMA NoticedNew ==
    ASSUME NEW x, Grown(x), x.kind \in {"Call", "End"}
    PROVE  Noticed(x.call)'
<1>1. Len(channel) + 1 \in 1 .. Len(channel') /\ channel'[Len(channel) + 1] = x
  BY DEF Grown
<1> QED BY <1>1 DEF Noticed

LEMMA NoticedShifted ==
    ASSUME NEW c, Noticed(c), Shifted, Head(channel).kind \notin {"Call", "End"}
    PROVE  Noticed(c)'
<1>1. PICK i \in 1 .. Len(channel) : channel[i].kind \in {"Call", "End"} /\ channel[i].call = c
  BY DEF Noticed
<1>2. i # 1
  BY <1>1 DEF Shifted
<1>3. i - 1 \in 1 .. Len(channel') /\ i - 1 \in 1 .. Len(channel) - 1 /\ i - 1 + 1 = i
  BY <1>2 DEF Shifted
<1>4. channel'[i - 1] = channel[i]
  BY <1>3 DEF Shifted
<1> QED BY <1>1, <1>3, <1>4 DEF Noticed

LEMMA ReadStep ==
    ASSUME TypesOK, EveryCallIsRead, [Next]_vars
    PROVE  EveryCallIsRead'
<1>1. CASE UNCHANGED vars
  BY <1>1 DEF vars, threads, remote, EveryCallIsRead, Pending
<1>2. CASE Next
  <2> SUFFICES ASSUME program' = "running", NEW c, current_call' = c, c # 0, ~poisoned'
               PROVE  readers'[c] > 0 \/ Noticed(c)'
    BY DEF EveryCallIsRead, Noticed, Pending
  <2> USE DEF buffers, remote, threads, terminal
  <2>0. program = "running" /\ (current_call = c /\ ~poisoned => readers[c] > 0 \/ Noticed(c))
    BY <1>2, EveryCallIs DEF Next
  <2>1. CASE LocalStep
    <3>1. LocalStepDoes
      BY <2>0, <2>1, LocalSteps
    <3>2. Shifted
      BY <3>1, TakeShifts DEF LocalStepDoes, TypesOK, InputsOK
    <3>3. CASE KeepsCall
      BY <2>0, <3>1, <3>2, <3>3, NoticedShifted DEF KeepsCall, LocalStepDoes
    <3>4. CASE MakesCall
      BY <3>4 DEF MakesCall, TypesOK, CallsOK
    <3> QED BY <3>1, <3>3, <3>4 DEF LocalStepDoes, DropsCall
  <2>2. CASE Accept
    <3>1. c = listener /\ Send(Call(c))
      BY <2>2 DEF Accept
    <3>2. c \in Calls
      BY <2>2, <3>1, CallNumbers DEF Accept, TypesOK, InputsOK
    <3>3. Call(c) \in Inputs /\ Call(c).kind = "Call" /\ Call(c).call = c
      BY <3>2 DEF Inputs, Call
    <3>4. Grown(Call(c))
      BY <3>1, <3>3, SendGrows DEF TypesOK, InputsOK
    <3> QED BY <3>3, <3>4, NoticedNew
  <2>3. CASE TakeCall
    BY <2>3, CallNumbers DEF TakeCall, Spawn, TypesOK, CallsOK
  <2>4. CASE TakeData
    <3>1. Shifted /\ Head(channel).kind = "Data"
      BY <2>4, TakeShifts DEF TakeData, Takes, TypesOK, InputsOK
    <3>2. current_call = c /\ ~poisoned /\ readers' = readers
      BY <2>4 DEF TakeData
    <3> QED BY <2>0, <3>1, <3>2, NoticedShifted
  <2>5. CASE TakeEnd \/ MeetPoison
    BY <2>5 DEF TakeEnd, MeetPoison
  <2>6. ASSUME NEW d \in Calls, ReadEnd(d)
        PROVE  readers'[c] > 0 \/ Noticed(c)'
    <3>1. End(d) \in Inputs /\ End(d).kind = "End" /\ End(d).call = d
      BY DEF Inputs, End
    <3>2. Grown(End(d))
      BY <2>6, <3>1, SendGrows DEF ReadEnd, TypesOK, InputsOK
    <3>3. CASE c = d
      BY <3>1, <3>2, <3>3, NoticedNew
    <3>4. CASE c # d
      <4>1. current_call = c /\ ~poisoned /\ readers'[c] = readers[c]
        BY <2>6, <3>4, CallNumbers DEF ReadEnd, TypesOK, CallsOK
      <4> QED BY <2>0, <3>2, <4>1, NoticedGrown
    <3> QED BY <3>3, <3>4
  <2>7. CASE TypeOctet \/ EndInput \/ \E d \in Calls : ReadData(d)
    <3>1. current_call = c /\ ~poisoned /\ readers' = readers
      BY <2>7 DEF TypeOctet, EndInput, ReadData
    <3>2. PICK x \in Inputs : Grown(x)
      <4>1. CASE EndInput
        BY <4>1, SendGrows DEF EndInput, TypesOK, InputsOK, Inputs
      <4>2. CASE TypeOctet
        BY <4>2, SendGrows DEF TypeOctet, TypesOK, InputsOK, Inputs, Local
      <4>3. CASE \E d \in Calls : ReadData(d)
        BY <4>3, SendGrows DEF ReadData, TypesOK, InputsOK, Inputs, Data
      <4> QED BY <2>7, <4>1, <4>2, <4>3
    <3> QED BY <2>0, <3>1, <3>2, NoticedGrown
  <2>8. CASE Listen \/ Refuse \/ \E d \in Calls : CircuitEnds(d) \/ RemoteSets(d)
    <3>1. /\ current_call = c /\ ~poisoned /\ readers' = readers /\ channel' = channel
      BY <2>8 DEF Listen, Refuse, CircuitEnds, RemoteSets
    <3> QED BY <2>0, <3>1 DEF Noticed
  <2> QED BY <1>2, <2>1, <2>2, <2>3, <2>4, <2>5, <2>6, <2>7, <2>8 DEF Next, MainLoop, LocalStep
<1> QED BY <1>1, <1>2

(* The end of the current call will be noticed.                            *)
THEOREM EveryCallIsReadAlways == Spec => []EveryCallIsRead
<1>1. Init => EveryCallIsRead
  <2> SUFFICES ASSUME Init, current_call # 0 PROVE readers[current_call] > 0
    BY DEF EveryCallIsRead
  <2>1. 1 \in Calls
    BY UserPadAssumption DEF Calls
  <2> QED BY <2>1 DEF Init
<1>2. ReadInv /\ [Next]_vars => ReadInv'
  BY TypesStep, ReadStep DEF ReadInv
<1>3. Spec => []ReadInv
  BY <1>1, <1>2, InitTypes, PTL DEF Spec, ReadInv
<1> QED BY <1>3, PTL DEF ReadInv

-----------------------------------------------------------------------------
(* A call's data is shown after its signal. *)

(* The calls whose signal was printed, and the one that needs none. *)
Heralded == connected \cup GivenCall

(* The signal was printed or is to come with the first n inputs. *)
Announced(c, n) == c \in Heralded \/ \E j \in 1 .. n : channel[j] = Call(c)

Known(c) == Announced(c, Len(channel))

(* What is current, is read or was read of is known. *)
AnnouncedInv == program = "running" =>
    /\ current_call # 0 => Known(current_call)
    /\ \A c \in Calls : readers[c] > 0 => Known(c)
    /\ \A i \in 1 .. Len(channel) :
          channel[i].kind = "Data" => Announced(channel[i].call, i - 1)

ShownInv == TypesOK /\ AnnouncedInv /\ ConnectedBeforeData

LEMMA AnnouncedGrown ==
    ASSUME NEW c, NEW n \in Nat, n <= Len(channel), Announced(c, n), NEW x, Grown(x),
           Heralded \subseteq Heralded'
    PROVE  Announced(c, n)'
<1>1. \A j \in 1 .. n : j \in 1 .. Len(channel)
  BY DEF Grown
<1> QED BY <1>1 DEF Announced, Grown

LEMMA AnnouncedShifted ==
    ASSUME NEW c, NEW n \in Nat \ {0}, n <= Len(channel), Announced(c, n), Shifted,
           Heralded \subseteq Heralded',
           Head(channel).kind = "Call" => Head(channel).call \in Heralded'
    PROVE  Announced(c, n - 1)'
<1>1. CASE c \in Heralded
  BY <1>1 DEF Announced
<1>2. ASSUME NEW j \in 1 .. n, channel[j] = Call(c)
      PROVE  Announced(c, n - 1)'
  <2>1. CASE j = 1
    BY <1>2, <2>1 DEF Announced, Shifted, Call
  <2>2. CASE j # 1
    <3>1. j - 1 \in 1 .. n - 1 /\ j - 1 \in 1 .. Len(channel) - 1 /\ j - 1 + 1 = j
      BY <2>2 DEF Shifted
    <3>2. channel'[j - 1] = Call(c)
      BY <1>2, <3>1 DEF Shifted
    <3> QED BY <3>1, <3>2 DEF Announced
  <2> QED BY <2>1, <2>2
<1> QED BY <1>1, <1>2 DEF Announced

(* Taking an announcement prints the signal; nothing else is taken for one. *)
LEMMA ConnectedGrows ==
    ASSUME TypesOK, Next
    PROVE  /\ Heralded \subseteq Heralded' /\ mode' = mode
           /\ MainLoop /\ program' = "running" /\ Head(channel).kind = "Call" =>
                 Head(channel).call \in Heralded'
<1> USE DEF Heralded, GivenCall
<1>1. CASE LocalStep
  <2>1. LocalStepDoes
    BY <1>1, LocalSteps DEF Next
  <2> QED BY <2>1 DEF LocalStepDoes, KeepsCall, DropsCall, MakesCall
<1>2. CASE ~LocalStep
  BY <1>2 DEF Next, MainLoop, LocalStep, TypeOctet, EndInput, Listen, Refuse, Accept,
     MeetPoison, TakeCall, TakeData, TakeEnd, Takes, ReadData, ReadEnd, CircuitEnds, RemoteSets,
     threads, remote, buffers, terminal
<1> QED BY <1>1, <1>2

LEMMA KnownLater ==
    ASSUME TypesOK, Next, program' = "running", NEW c, Known(c)
    PROVE  Known(c)'
<1>1. Heralded \subseteq Heralded'
  BY ConnectedGrows
<1>2. CASE Sends
  <2>1. PICK x \in Inputs : Grown(x)
    BY <1>2 DEF Sends
  <2>2. \A j \in 1 .. Len(channel) : j \in 1 .. Len(channel') /\ channel'[j] = channel[j]
    BY <2>1 DEF Grown
  <2> QED BY <1>1, <2>2 DEF Known, Announced
<1>3. CASE Shifted /\ MainLoop
  <2> DEFINE n == Len(channel)
  <2>1. n \in Nat \ {0} /\ n <= Len(channel) /\ Announced(c, n) /\ Len(channel') = n - 1
    BY <1>3 DEF Known, Shifted
  <2>2. Head(channel).kind = "Call" => Head(channel).call \in Heralded'
    BY <1>3, ConnectedGrows
  <2>3. c \in Heralded' \/ \E j \in 1 .. n - 1 : channel'[j] = Call(c)
    BY <1>1, <1>3, <2>1, <2>2, AnnouncedShifted DEF Announced
  <2> QED BY <2>1, <2>3 DEF Known, Announced
<1>4. CASE UNCHANGED channel
  BY <1>1, <1>4 DEF Known, Announced
<1> QED BY <1>2, <1>3, <1>4, ChannelStep

(* A call that becomes current or gets a reader is known. *)
LEMMA CallsKnown ==
    ASSUME TypesOK, AnnouncedInv, Next, program' = "running", NEW c \in Calls
    PROVE  /\ current_call' = c => Known(c)'
           /\ readers'[c] > 0 => Known(c)'
<1> USE DEF buffers, remote, threads, terminal
<1>1. /\ current_call = c => Known(c)'
      /\ readers[c] > 0 => Known(c)'
  <2>1. program = "running" /\ c # 0
    BY CallNumbers DEF Next
  <2> QED BY <2>1, KnownLater DEF AnnouncedInv
<1>2. CASE LocalStep
  <2>1. LocalStepDoes
    BY <1>2, LocalSteps DEF Next
  <2>2. CASE MakesCall
    <3>1. current_call' = c => Known(c)'
      BY <2>2 DEF MakesCall, Known, Announced, Heralded
    <3>2. current_call' # c => readers'[c] = readers[c]
      BY <2>2 DEF MakesCall, TypesOK, CallsOK
    <3> QED BY <1>1, <3>1, <3>2
  <2> QED BY <1>1, <2>1, <2>2, CallNumbers DEF LocalStepDoes, KeepsCall, DropsCall
<1>3. CASE Accept
  <2>1. current_call' # current_call => Send(Call(current_call')) /\ current_call' = listener
    BY <1>3 DEF Accept
  <2>2. ASSUME current_call' = c, current_call # c
        PROVE  Known(c)'
    <3>1. Send(Call(c)) /\ Call(c) \in Inputs
      BY <2>1, <2>2 DEF Inputs, Call
    <3>2. Grown(Call(c))
      BY <3>1, SendGrows DEF TypesOK, InputsOK
    <3>3. Len(channel) + 1 \in 1 .. Len(channel') /\ channel'[Len(channel) + 1] = Call(c)
      BY <3>2 DEF Grown
    <3> QED BY <3>3 DEF Known, Announced
  <2> QED BY <1>1, <1>3, <2>2 DEF Accept
<1>4. CASE TakeCall
  <2>1. current_call' = current_call /\ current_call # 0 /\ Spawn(current_call)
    BY <1>4 DEF TakeCall
  <2>2. c # current_call => readers'[c] = readers[c]
    BY <2>1 DEF Spawn, TypesOK, CallsOK
  <2> QED BY <1>1, <2>1, <2>2
<1>5. CASE \E d \in Calls : ReadEnd(d)
  <2>1. current_call' = current_call /\ (readers'[c] > 0 => readers[c] > 0)
    BY <1>5 DEF ReadEnd, TypesOK, CallsOK
  <2> QED BY <1>1, <2>1
<1>6. CASE TakeEnd
  BY <1>1, <1>6, CallNumbers DEF TakeEnd
<1>7. CASE \/ TypeOctet \/ EndInput \/ Listen \/ Refuse \/ TakeData \/ MeetPoison
           \/ \E d \in Calls : ReadData(d) \/ CircuitEnds(d) \/ RemoteSets(d)
  <2>1. current_call' = current_call /\ readers' = readers
    BY <1>7 DEF TypeOctet, EndInput, Listen, Refuse, TakeData, MeetPoison, ReadData, CircuitEnds,
       RemoteSets
  <2> QED BY <1>1, <2>1
<1> QED BY <1>2, <1>3, <1>4, <1>5, <1>6, <1>7 DEF Next, MainLoop, LocalStep

(* What was read of a call comes after its announcement. *)
LEMMA DataKnown ==
    ASSUME TypesOK, AnnouncedInv, Next, program' = "running",
           NEW i \in 1 .. Len(channel'), channel'[i].kind = "Data", NEW c, c = channel'[i].call
    PROVE  Announced(c, i - 1)'
<1>0. /\ program = "running" /\ Heralded \subseteq Heralded'
      /\ MainLoop /\ Head(channel).kind = "Call" => Head(channel).call \in Heralded'
  BY ConnectedGrows DEF Next
<1>1. CASE Sends
  <2>1. PICK x \in Inputs : Grown(x) /\ (x.kind = "Data" => readers[x.call] > 0)
    BY <1>1 DEF Sends
  <2>2. i - 1 \in Nat /\ i - 1 <= Len(channel)
    BY <2>1 DEF Grown
  <2>3. Announced(c, i - 1)
    <3>1. CASE i \in 1 .. Len(channel)
      BY <1>0, <2>1, <3>1 DEF Grown, AnnouncedInv
    <3>2. CASE i = Len(channel) + 1
      <4>1. x.kind = "Data" /\ c = x.call
        BY <2>1, <3>2 DEF Grown
      <4>2. c \in Calls /\ readers[c] > 0
        BY <2>1, <4>1, InputIs
      <4>3. Known(c) /\ i - 1 = Len(channel)
        BY <1>0, <2>1, <3>2, <4>2 DEF AnnouncedInv, Grown
      <4> QED BY <4>3 DEF Known
    <3> QED BY <2>1, <3>1, <3>2 DEF Grown
  <2> QED BY <1>0, <2>1, <2>2, <2>3, AnnouncedGrown
<1>2. CASE Shifted /\ MainLoop
  <2>1. /\ i + 1 \in 1 .. Len(channel) /\ channel'[i] = channel[i + 1]
        /\ i \in Nat \ {0} /\ i <= Len(channel) /\ i + 1 - 1 = i
    BY <1>2 DEF Shifted
  <2>2. Announced(c, i)
    BY <1>0, <2>1 DEF AnnouncedInv
  <2> QED BY <1>0, <1>2, <2>1, <2>2, AnnouncedShifted
<1>3. CASE UNCHANGED channel
  <2>1. Announced(c, i - 1)
    BY <1>0, <1>3 DEF AnnouncedInv
  <2> QED BY <1>0, <1>3, <2>1 DEF Announced
<1> QED BY <1>1, <1>2, <1>3, ChannelStep

LEMMA AnnouncedStep ==
    ASSUME TypesOK, AnnouncedInv, [Next]_vars
    PROVE  AnnouncedInv'
<1>1. CASE UNCHANGED vars
  BY <1>1 DEF vars, remote, terminal, AnnouncedInv, Known, Announced, Heralded, GivenCall
<1>2. CASE Next
  <2> SUFFICES ASSUME program' = "running"
               PROVE  /\ \A c \in Calls : current_call' = c => Known(c)'
                      /\ \A c \in Calls : readers'[c] > 0 => Known(c)'
                      /\ \A i \in 1 .. Len(channel') : \A c :
                            channel'[i].kind = "Data" /\ c = channel'[i].call =>
                                Announced(c, i - 1)'
    <3>1. TypesOK'
      BY <1>2, TypesStep
    <3>2. current_call' # 0 => current_call' \in Calls
      BY <3>1, CallNumbers DEF TypesOK, CallsOK
    <3> QED BY <3>2 DEF AnnouncedInv, Known, Announced
  <2> QED BY <1>2, CallsKnown, DataKnown
<1> QED BY <1>1, <1>2

LEMMA ConnectedStep ==
    ASSUME TypesOK, AnnouncedInv, ConnectedBeforeData, [Next]_vars
    PROVE  ConnectedBeforeData'
<1> USE DEF buffers, remote, threads, terminal
<1>0. /\ ConnectedBeforeData <=> shown \subseteq Heralded
      /\ ConnectedBeforeData' <=> shown' \subseteq Heralded'
  BY DEF ConnectedBeforeData, Heralded
<1>1. CASE UNCHANGED vars
  BY <1>1 DEF vars, ConnectedBeforeData, GivenCall
<1>2. CASE Next
  <2>0. Heralded \subseteq Heralded' /\ program = "running" /\ shown \subseteq Heralded
    BY <1>0, <1>2, ConnectedGrows DEF Next
  <2>1. CASE TakeData
    <3>1. Shifted /\ Head(channel).kind = "Data"
      BY <2>1, TakeShifts DEF TakeData, Takes, TypesOK, InputsOK
    <3>2. 1 \in 1 .. Len(channel) /\ channel[1].kind = "Data" /\ channel[1] = Head(channel)
      BY <3>1 DEF Shifted
    <3>3. Announced(channel[1].call, 1 - 1)
      BY <2>0, <3>2 DEF AnnouncedInv
    <3>4. channel[1].call \in Heralded
      BY <3>3 DEF Announced
    <3> QED BY <1>0, <2>0, <2>1, <3>2, <3>4 DEF TakeData
  <2>2. CASE LocalStep
    BY <1>0, <2>0, <2>2, LocalSteps DEF LocalStepDoes
  <2>3. CASE ~TakeData /\ ~LocalStep
    BY <1>0, <1>2, <2>0, <2>3 DEF Next, MainLoop, LocalStep, TypeOctet, EndInput, Listen, Refuse, Accept,
       MeetPoison, TakeCall, TakeEnd, ReadData, ReadEnd, CircuitEnds, RemoteSets
  <2> QED BY <2>1, <2>2, <2>3
<1> QED BY <1>1, <1>2

(* What a call receives is shown after its Connected signal, if it has one. *)
THEOREM ConnectedBeforeDataAlways == Spec => []ConnectedBeforeData
<1>1. Init => AnnouncedInv /\ ConnectedBeforeData
  <2> SUFFICES ASSUME Init PROVE AnnouncedInv /\ ConnectedBeforeData
    OBVIOUS
  <2>1. ConnectedBeforeData /\ Len(channel) = 0
    BY DEF Init, ConnectedBeforeData
  <2>2. current_call # 0 => current_call \in Heralded
    BY DEF Init, Heralded, GivenCall
  <2>3. \A c \in Calls : readers[c] > 0 => c \in Heralded
    BY DEF Init, Heralded, GivenCall
  <2> QED BY <2>1, <2>2, <2>3 DEF AnnouncedInv, Known, Announced
<1>2. ShownInv /\ [Next]_vars => ShownInv'
  BY TypesStep, AnnouncedStep, ConnectedStep DEF ShownInv
<1>3. Spec => []ShownInv
  BY <1>1, <1>2, InitTypes, PTL DEF Spec, ShownInv
<1> QED BY <1>3, PTL DEF ShownInv

-----------------------------------------------------------------------------
(* The X.3 parameters, of the PAD and of its user.                         *)

(* Parameters a PAD can have: some of those there are, each within what    *)
(* TryFrom admits.                                                         *)
Numbers == {2, 3, 4, 13, 15, 16, 17, 18}
ParamsOK(params) == /\ DOMAIN params \subseteq Numbers
                    /\ params = [q \in DOMAIN params |-> params[q]]
                    /\ \A q \in DOMAIN params : params[q] \in Admitted(q)

(* "Everything else from IA5 columns 0 and 1" (x3.rs:109): the classes     *)
(* that a forward parameter of 126 selects have every control character.   *)
THEOREM ControlsForward ==
    ASSUME NEW octet \in 0 .. 31
    PROVE  IsForward(126, octet)
<1>1. octet \in {13} \cup {27, 7, 5, 6} \cup {127, 24, 18} \cup {4, 3} \cup {9, 10, 11, 12}
        \cup {0, 1, 2, 8, 14, 15, 16, 17, 19, 20, 21, 22, 23, 25, 26, 28, 29, 30, 31}
  BY SMT
<1>2. \E i \in 2 .. 7 : octet \in ForwardClasses[i]
  BY <1>1, SMT DEF ForwardClasses
<1>3. \A i \in 2 .. 7 : (126 \div BitWeights[i]) % 2 = 1
  BY SMT DEF BitWeights
<1> QED
  BY <1>2, <1>3, SMT DEF IsForward

(* Whatever the other PAD asks for, set leaves every parameter within what *)
(* the type of its field admits, and adds none (PadParams::set,            *)
(* UserPadParams::set).                                                    *)
THEOREM SetKeepsAdmitted ==
    ASSUME NEW params, ParamsOK(params), NEW p \in 0 .. 255, NEW v \in 0 .. 255
    PROVE  ParamsOK(SetParam(params, p, v)) /\ DOMAIN SetParam(params, p, v) = DOMAIN params
<1> DEFINE after == SetParam(params, p, v)
<1>1. CASE p \in DOMAIN params /\ v \in Admitted(p)
  <2>1. after = [params EXCEPT ![p] = v]
    BY <1>1 DEF SetParam
  <2>2. DOMAIN after = DOMAIN params /\ after = [q \in DOMAIN params |-> after[q]]
    BY <2>1
  <2>3. \A q \in DOMAIN params : after[q] = IF q = p THEN v ELSE params[q]
    BY <2>1
  <2> QED
    BY <1>1, <2>2, <2>3 DEF ParamsOK
<1>2. CASE ~(p \in DOMAIN params /\ v \in Admitted(p))
  BY <1>2 DEF SetParam
<1> QED
  BY <1>1, <1>2

(* A setting that set does not refuse is in effect: what set_params leaves *)
(* out of its answer is so, and what set_read_params reads back is what was *)
(* asked for.                                                              *)
THEOREM AcceptedIsSet ==
    ASSUME NEW params, ParamsOK(params), NEW p \in 0 .. 255, NEW v \in 0 .. 255,
           SetError(params, p, v) = <<>>
    PROVE  GetParam(SetParam(params, p, v), p) = Value(p, v)
<1>1. p \in DOMAIN params /\ v \in Admitted(p)
  <2>1. <<Refusal(p, "Unsupported")>> # <<>> /\ <<Refusal(p, "InvalidValue")>> # <<>>
    OBVIOUS
  <2> QED
    BY <2>1 DEF SetError
<1>2. SetParam(params, p, v) = [params EXCEPT ![p] = v]
  BY <1>1 DEF SetParam
<1>3. [params EXCEPT ![p] = v][p] = v /\ p \in DOMAIN [params EXCEPT ![p] = v]
  BY <1>1
<1> QED
  BY <1>2, <1>3 DEF GetParam
=============================================================================
