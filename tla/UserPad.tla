------------------------------ MODULE UserPad -------------------------------
(***************************************************************************)
(* The interactive PAD (src/user_pad.rs): one channel of inputs, fed by    *)
(* the thread that reads the terminal, the listener thread and, for each   *)
(* call, a thread that reads the Pad; and the main loop, which takes an    *)
(* input, locks current_call and handles it.  The lock is kept throughout, *)
(* so that an input is one step, blocking calls into the Pad included.     *)
(*                                                                         *)
(* The Pad is what the module Pad and the circuit make of it: a call may   *)
(* end at any time; writing, flushing and asking then fail or panic, and   *)
(* clear panics (Svc::clear's todo!()).  Pad::read has no error to report  *)
(* (pad.rs:290-325): inputs Remote(Err) do not occur.  What a line spells  *)
(* is any command.                                                         *)
(***************************************************************************)
EXTENDS Integers, SequencesExt

CONSTANTS
    Modes,          \* how the program is started, of "one-shot", "interactive", "listening"
    Octets,         \* what the user may type
    MaxCalls, MaxInput, MaxChannel, MaxData    \* bounds: calls, octets typed, octets and
                                            \* data in the channel, data of a call

Controls == {"^C", "^P", "CR", "DEL", "^X", "^R", "ESC"}

(* "x" and "O" are letters, "half" an octet of a longer UTF-8 character    *)
(* whose others are missing (char delete removes one octet).               *)
ASSUME UserPadAssumption ==
    /\ Modes \subseteq {"one-shot", "interactive", "listening"}
    /\ Octets \subseteq Controls \cup {"x", "O", "half"}
    /\ MaxCalls \in Nat \ {0} /\ MaxInput \in Nat /\ MaxChannel \in Nat /\ MaxData \in Nat

Calls == 1 .. MaxCalls

VARIABLES
    mode,           \* is_one_shot, or whether there is a listener
    program,        \* "running", "returned", "failed" (run returned Err), "panicked"
    local_state,    \* PadLocalState
    current_call,   \* a call, or 0 for None
    command_buf,    \* octets
    line_buf,       \* for each octet, the call it was typed in
    editing,        \* X.3 parameter 15 in x3_params, which all calls share
    channel,        \* inputs sent and not yet received
    keyboard,       \* the local thread: "open", "error" (sent), "ended" (Ok(None) sent)
    listener,       \* the call it is about to answer, or 0
    poisoned,       \* the listener has panicked with current_call locked
    circuit,        \* of each call: "none", "called", "open", "over"
    readers,        \* of each call, its remote threads that go on
    connected,      \* calls whose Connected signal was printed
    shown,          \* calls whose data was written to the terminal
    typed, received \* counters for the bounds

buffers  == <<command_buf, line_buf, editing>>
remote   == <<circuit, readers, received>>
threads  == <<keyboard, typed, listener, poisoned>>
terminal == <<connected, shown>>
vars == <<mode, program, local_state, current_call, channel, buffers, remote, threads, terminal>>

Local(octet) == [kind |-> "Local", octet |-> octet]
LocalEnd     == [kind |-> "LocalEnd"]
Call(c)      == [kind |-> "Call", call |-> c]
Data(c)      == [kind |-> "Data", call |-> c]   \* Remote; the code's input does not
End(c)       == [kind |-> "End", call |-> c]    \* say which call it is of

(* A one-shot program that gets past its call (an error returns).  Nothing *)
(* tells its user that this call is connected.                             *)
Init ==
    /\ mode \in Modes /\ program = "running"
    /\ LET one_shot == mode = "one-shot"
       IN  /\ local_state = IF one_shot THEN "Data" ELSE "Command"
           /\ current_call = IF one_shot THEN 1 ELSE 0
           /\ circuit = [c \in Calls |-> IF one_shot /\ c = 1 THEN "open" ELSE "none"]
           /\ readers = [c \in Calls |-> IF one_shot /\ c = 1 THEN 1 ELSE 0]
    /\ command_buf = <<>> /\ line_buf = <<>> /\ editing \in BOOLEAN
    /\ channel = <<>> /\ keyboard = "open" /\ listener = 0 /\ poisoned = FALSE
    /\ connected = {} /\ shown = {} /\ typed = 0 /\ received = [c \in Calls |-> 0]

-----------------------------------------------------------------------------
(* The other threads. *)

Send(input) == channel' = Append(channel, input)

(* The local thread: octets, then the end; an error counts as the end and  *)
(* is followed by one.                                                     *)
TypeOctet ==
    /\ keyboard = "open" /\ typed < MaxInput /\ Len(channel) < MaxChannel
    /\ \E octet \in Octets : Send(Local(octet))
    /\ typed' = typed + 1
    /\ UNCHANGED <<mode, program, local_state, current_call, buffers, remote, keyboard,
                   listener, poisoned, terminal>>

EndInput ==
    /\ keyboard # "ended" /\ Send(LocalEnd)
    /\ keyboard' \in IF keyboard = "open" THEN {"error", "ended"} ELSE {"ended"}
    /\ UNCHANGED <<mode, program, local_state, current_call, buffers, remote, typed,
                   listener, poisoned, terminal>>

IsNext(c) == circuit[c] = "none" /\ \A d \in 1 .. c - 1 : circuit[d] # "none"

(* Svc::listen_timeout returns a call, and the caller may give it up. *)
Listen ==
    /\ mode = "listening" /\ listener = 0 /\ ~poisoned
    /\ \E c \in Calls : IsNext(c) /\ listener' = c /\ circuit' = [circuit EXCEPT ![c] = "called"]
    /\ UNCHANGED <<mode, program, local_state, current_call, channel, buffers, readers, received,
                   keyboard, typed, poisoned, terminal>>

(* The listener clears a call: the PAD is busy, or should_accept_call says *)
(* no.  Whether that succeeds is ignored.                                  *)
Refuse ==
    /\ listener # 0 /\ circuit' = [circuit EXCEPT ![listener] = "over"]
    /\ listener' = 0
    /\ UNCHANGED <<mode, program, local_state, current_call, channel, buffers, readers, received,
                   keyboard, typed, poisoned, terminal>>

(* Slip: the thread that reads the call is left to spawn, but not told of. *)
AcceptUnannounced ==
    /\ listener # 0 /\ current_call = 0 /\ circuit[listener] = "called"
    /\ circuit' = [circuit EXCEPT ![listener] = "open"]
    /\ current_call' = listener
    /\ readers' = [readers EXCEPT ![listener] = 1]
    /\ listener' = 0
    /\ UNCHANGED <<mode, program, local_state, channel, buffers, received, keyboard, typed,
                   poisoned, terminal>>

(* accept() fails if the caller has given up, and is unwrapped. *)
Accept ==
    /\ listener # 0 /\ current_call = 0
    /\ \/ /\ circuit[listener] = "called"
          /\ circuit' = [circuit EXCEPT ![listener] = "open"]
          /\ current_call' = listener /\ Send(Call(listener))
          /\ UNCHANGED poisoned
       \/ /\ circuit[listener] = "over" /\ poisoned' = TRUE
          /\ UNCHANGED <<circuit, current_call, channel>>
    /\ listener' = 0
    /\ UNCHANGED <<mode, program, local_state, buffers, readers, received, keyboard, typed, terminal>>

(* A remote thread: what it reads, then the end, which every reader of the *)
(* call is given.                                                          *)
ReadData(c) ==
    /\ readers[c] > 0 /\ received[c] < MaxData /\ Len(channel) < MaxChannel
    /\ Send(Data(c)) /\ received' = [received EXCEPT ![c] = @ + 1]
    /\ UNCHANGED <<mode, program, local_state, current_call, buffers, circuit, readers,
                   threads, terminal>>

ReadEnd(c) ==
    /\ readers[c] > 0 /\ circuit[c] = "over"
    /\ Send(End(c)) /\ readers' = [readers EXCEPT ![c] = @ - 1]
    /\ UNCHANGED <<mode, program, local_state, current_call, buffers, circuit, received,
                   threads, terminal>>

(* The other end clears or the link fails; until then it may set X.3       *)
(* parameters.                                                             *)
CircuitEnds(c) ==
    /\ circuit[c] \in {"called", "open"} /\ circuit' = [circuit EXCEPT ![c] = "over"]
    /\ UNCHANGED <<mode, program, local_state, current_call, channel, buffers, readers, received,
                   threads, terminal>>

RemoteSets(c) ==
    /\ circuit[c] = "open" /\ editing' = ~editing
    /\ UNCHANGED <<mode, program, local_state, current_call, channel, command_buf, line_buf,
                   remote, threads, terminal>>

-----------------------------------------------------------------------------
(* The main loop: inputs that are not octets. *)

Takes(kind) == /\ channel # <<>> /\ Head(channel).kind = kind /\ ~poisoned
               /\ channel' = Tail(channel)

Spawn(c) == readers' = [readers EXCEPT ![c] = @ + 1]

(* The lock is unwrapped. *)
MeetPoison ==
    /\ channel # <<>> /\ poisoned /\ channel' = Tail(channel) /\ program' = "panicked"
    /\ UNCHANGED <<mode, local_state, current_call, buffers, remote, threads, terminal>>

(* The signal is of the call announced, the reader for the current one. *)
TakeCall ==
    /\ Takes("Call")
    /\ connected' = connected \cup {Head(channel).call}
    /\ local_state' = "Data"
    /\ \/ current_call # 0 /\ Spawn(current_call) /\ UNCHANGED program
       \/ current_call = 0 /\ program' = "panicked" /\ UNCHANGED readers
    /\ UNCHANGED <<mode, current_call, buffers, circuit, received, threads, shown>>

TakeData ==
    /\ Takes("Data") /\ shown' = shown \cup {Head(channel).call}
    /\ UNCHANGED <<mode, program, local_state, current_call, buffers, remote, threads, connected>>

EnsureCommand == local_state' = "Command"

(* Whichever call is current is over: Cleared is printed, with the cause   *)
(* if the circuit has one, and the Pad dropped.  cleared() unwraps a lock  *)
(* that a thread may have left poisoned when it ended the circuit.         *)
TakeEnd ==
    /\ Takes("End")
    /\ current_call' = 0
    /\ \/ mode = "one-shot" /\ program' = "returned" /\ UNCHANGED local_state
       \/ mode # "one-shot" /\ EnsureCommand /\ UNCHANGED program
       \/ /\ current_call # 0 /\ circuit[current_call] = "over"
          /\ program' = "panicked" /\ UNCHANGED local_state
    /\ UNCHANGED <<mode, buffers, remote, threads, terminal>>

(* Svc::clear, waiting for its result, with what run does next. *)
Clears(next) ==
    IF circuit[current_call] = "open"
    THEN program' \in {next, "failed"} /\ circuit' = [circuit EXCEPT ![current_call] = "over"]
    ELSE program' = "panicked" /\ UNCHANGED circuit

(* What the other calls into the Pad make of run.  A pad thread that died  *)
(* has left its locks poisoned, x3_params or indicate_channel even if the  *)
(* circuit is open, and they are unwrapped.                                *)
PadDoes ==
    program' \in {"running", "panicked"}
                 \cup (IF circuit[current_call] = "open" THEN {} ELSE {"failed"})

(* x3_params outlives the calls and their Pads. *)
UsesParams ==
    \/ UNCHANGED program
    \/ (\E c \in Calls : circuit[c] \in {"open", "over"}) /\ program' = "panicked"

(* Flush and clear; with or without a call the loop goes on. *)
TakeLocalEnd ==
    /\ Takes("LocalEnd")
    /\ current_call' = 0
    /\ \/ current_call = 0 /\ UNCHANGED <<program, circuit>>
       \/ current_call # 0 /\ Clears("running")
       \/ /\ current_call # 0 /\ circuit[current_call] = "over"      \* flush fails
          /\ program' = "failed" /\ UNCHANGED circuit
    /\ UNCHANGED <<mode, local_state, buffers, readers, received, threads, terminal>>

-----------------------------------------------------------------------------
(* Octets in command state. *)

InCommand(octet) == Takes("Local") /\ local_state = "Command" /\ Head(channel).octet = octet

CharDelete(buf) == IF buf = <<>> THEN buf ELSE Front(buf)

LineDelete(buf) == <<>>

(* The code's case of four octets comes under fewer than three: never. *)
TrimEscapeSequence(buf) ==
    LET n == Len(buf)
    IN  IF n >= 3 /\ buf[n - 2] = "ESC" /\ buf[n - 1] # "O" THEN SubSeq(buf, 1, n - 3) ELSE buf

(* handle_command_input, but for CR. *)
Edit(buf, octet) ==
    CASE octet = "DEL" -> CharDelete(buf)
      [] octet \in Controls \ {"DEL", "ESC"} -> buf
      [] OTHER -> TrimEscapeSequence(Append(buf, octet))

(* Ctrl+C ends the program, or drops what was typed. *)
CommandInterrupt ==
    /\ InCommand("^C")
    /\ \/ /\ command_buf # <<>> /\ command_buf' = <<>>
          /\ UNCHANGED <<current_call, program, circuit>>
       \/ /\ command_buf = <<>> /\ current_call' = 0
          /\ \/ current_call = 0 /\ program' = "returned" /\ UNCHANGED circuit
             \/ current_call # 0 /\ Clears("returned")
          /\ UNCHANGED command_buf
    /\ UNCHANGED <<mode, local_state, line_buf, editing, readers, received, threads, terminal>>

(* Ctrl+P is sent and leads back to the call, if there is one. *)
CommandEscape ==
    /\ InCommand("^P")
    /\ IF command_buf = <<>> /\ current_call # 0 THEN PadDoes /\ local_state' = "Data"
       ELSE UNCHANGED <<program, local_state>>
    /\ UNCHANGED <<mode, current_call, buffers, remote, threads, terminal>>

CommandOctet ==
    /\ \E octet \in Octets \ {"^C", "^P", "CR"} :
          InCommand(octet) /\ command_buf' = Edit(command_buf, octet)
    /\ UNCHANGED <<mode, program, local_state, current_call, line_buf, editing, remote, threads,
                   terminal>>

Line == InCommand("CR") /\ command_buf' = <<>> /\ UNCHANGED line_buf

Spells == Line /\ command_buf # <<>> /\ "half" \notin Range(command_buf)

(* Slip: the prompt is forgotten. *)
AlwaysToData == local_state' = "Data"

(* After a line: back to the call, or a prompt. *)
AfterLine == local_state' = IF current_call' # 0 THEN "Data" ELSE local_state

(* str::from_utf8 is unwrapped. *)
LineNotText ==
    /\ Line /\ "half" \in Range(command_buf) /\ program' = "panicked"
    /\ UNCHANGED <<mode, local_state, current_call, editing, remote, threads, terminal>>

(* No command, no valid one, or one that changes nothing: read, status,    *)
(* help; also clear, invite, remote parameters when not connected, and a   *)
(* selection when connected.                                               *)
LineIdle ==
    /\ Line /\ "half" \notin Range(command_buf) /\ UsesParams
    /\ UNCHANGED <<mode, current_call, editing, remote, threads, terminal>>
    /\ AfterLine

LineSet ==
    /\ Spells /\ editing' \in BOOLEAN /\ UsesParams
    /\ UNCHANGED <<mode, current_call, remote, threads, terminal>>
    /\ AfterLine

LineExit ==
    /\ Spells /\ current_call' = 0
    /\ \/ current_call = 0 /\ program' = "returned" /\ UNCHANGED circuit
       \/ current_call # 0 /\ Clears("returned")
    /\ UNCHANGED <<mode, local_state, editing, readers, received, threads, terminal>>

(* Pad::call succeeds ... *)
Connects == \E c \in Calls : /\ IsNext(c) /\ current_call' = c
                             /\ circuit' = [circuit EXCEPT ![c] = "open"]

(* Slip: the call has no reader. *)
LineSelectUnread ==
    /\ Spells /\ current_call = 0
    /\ Connects /\ connected' = connected \cup {current_call'}
    /\ UNCHANGED <<mode, program, editing, readers, received, threads, shown>>
    /\ AfterLine

(* ... or it fails, or the selection is a todo!(). *)
LineSelect ==
    /\ Spells /\ current_call = 0
    /\ \/ /\ Connects /\ Spawn(current_call')
          /\ connected' = connected \cup {current_call'}
          /\ UNCHANGED program
       \/ /\ program' \in {"running", "panicked"}
          /\ UNCHANGED <<current_call, circuit, readers, connected>>
    /\ UNCHANGED <<mode, editing, received, threads, shown>>
    /\ AfterLine

LineClear ==
    /\ Spells /\ current_call' = 0
    /\ LET next == IF mode = "one-shot" THEN "returned" ELSE "running"
       IN  \/ current_call = 0 /\ program' = next /\ UNCHANGED circuit
           \/ current_call # 0 /\ Clears(next)
    /\ UNCHANGED <<mode, editing, readers, received, threads, terminal>>
    /\ AfterLine

(* Remote parameters and the invitation to clear.  A time-out is reported  *)
(* to the user; a question after it, and one for a parameter above 127, is *)
(* a panic (pad.rs:449, x29.rs:161).                                       *)
LineRemote ==
    /\ Spells /\ current_call # 0 /\ PadDoes
    /\ UNCHANGED <<mode, current_call, editing, remote, threads, terminal>>
    /\ AfterLine

-----------------------------------------------------------------------------
(* Octets in data state. *)

DataEscape ==
    /\ Takes("Local") /\ local_state = "Data" /\ Head(channel).octet = "^P"
    /\ EnsureCommand
    /\ UNCHANGED <<mode, program, current_call, buffers, remote, threads, terminal>>

(* The octet goes to the call at once or, when editing, with its line. *)
DataOctet ==
    /\ Takes("Local") /\ local_state = "Data" /\ Head(channel).octet # "^P"
    /\ LET octet == Head(channel).octet
       IN  CASE current_call = 0 -> program' = "panicked" /\ UNCHANGED line_buf
             [] current_call # 0 /\ ~editing -> PadDoes /\ UNCHANGED line_buf
             [] current_call # 0 /\ editing /\ octet = "CR" -> PadDoes /\ line_buf' = <<>>
             [] OTHER -> /\ line_buf' = CASE octet = "DEL" -> CharDelete(line_buf)
                                          [] octet = "^X"  -> LineDelete(line_buf)
                                          [] octet = "^R"  -> line_buf
                                          [] OTHER         -> Append(line_buf, current_call)
                         /\ UsesParams
    /\ UNCHANGED <<mode, local_state, current_call, command_buf, editing, remote, threads,
                   terminal>>

-----------------------------------------------------------------------------
MainLoop == \/ MeetPoison \/ TakeCall \/ TakeData \/ TakeEnd \/ TakeLocalEnd
            \/ CommandInterrupt \/ CommandEscape \/ CommandOctet
            \/ LineNotText \/ LineIdle \/ LineSet \/ LineExit \/ LineSelect \/ LineClear
            \/ LineRemote \/ DataEscape \/ DataOctet

Next == program = "running" /\
        \/ TypeOctet \/ EndInput \/ Listen \/ Refuse \/ Accept \/ MainLoop
        \/ \E c \in Calls : ReadData(c) \/ ReadEnd(c) \/ CircuitEnds(c) \/ RemoteSets(c)

Spec == Init /\ [][Next]_vars

-----------------------------------------------------------------------------
(* Properties. *)

Pending(kind) == {i \in 1 .. Len(channel) : channel[i].kind = kind}

(* Types; command_buf never ends in an escape sequence that is complete    *)
(* (trim_complete_escape_sequence), whatever is deleted in between.        *)
UserPadTypeOK ==
    /\ mode \in Modes /\ program \in {"running", "returned", "failed", "panicked"}
    /\ local_state \in {"Command", "Data"} /\ editing \in BOOLEAN
    /\ current_call \in 0 .. MaxCalls /\ listener \in 0 .. MaxCalls
    /\ current_call # 0 => circuit[current_call] \in {"open", "over"}
    /\ Range(command_buf) \subseteq Octets /\ Range(line_buf) \subseteq Calls
    /\ TrimEscapeSequence(command_buf) = command_buf
    /\ circuit \in [Calls -> {"none", "called", "open", "over"}]
    /\ readers \in [Calls -> Nat]
    /\ connected \cup shown \subseteq Calls

(* The unwrap of current_call for an octet in data state cannot fail:      *)
(* whoever takes the call away, an end, a command or the end of input,     *)
(* leaves data state or leaves no octet to come.                           *)
DataStateHasCall ==
    program = "running" /\ local_state = "Data" /\ current_call = 0 =>
        keyboard # "open" /\ Pending("Local") = {}

(* The end of the current call will be noticed: it has a reader, will get  *)
(* one when its announcement is taken, or its end is in the channel.  It   *)
(* is so even when announcements of other calls come in between.           *)
EveryCallIsRead ==
    program = "running" /\ current_call # 0 /\ ~poisoned =>
        \/ readers[current_call] > 0
        \/ \E i \in Pending("Call") \cup Pending("End") : channel[i].call = current_call

(* No signal is printed for the call that the program is started with. *)
GivenCall == IF mode = "one-shot" THEN {1} ELSE {}

(* What a call receives is shown after its Connected signal, although the  *)
(* reader may be spawned for the announcement of an earlier call.  The     *)
(* call a one-shot program is started with has no signal.                  *)
ConnectedBeforeData == shown \ GivenCall \subseteq connected

(* What the code says and does not do: "If there is a current call then    *)
(* the clear was requested by the remote party" (user_pad.rs:201) when the *)
(* end of a call is taken.                                                 *)
EndMeansCleared ==
    program = "running" /\ channel # <<>> /\ current_call # 0 /\ Head(channel).kind = "End" =>
        circuit[current_call] = "over"

(* ... the unwrap of current_call when an accepted call is announced.      *)
AnnouncedCallIsThere ==
    program = "running" /\ channel # <<>> /\ Head(channel).kind = "Call" => current_call # 0

(* ... the unwrap of accept(), which takes the whole PAD along.            *)
ListenerSurvives == ~poisoned

(* A line is sent to the call it was typed in.                             *)
LineIsOfCall ==
    program = "running" /\ local_state = "Data" /\ current_call # 0 =>
        Range(line_buf) \subseteq {current_call}
=============================================================================
