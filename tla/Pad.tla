-------------------------------- MODULE Pad ---------------------------------
(***************************************************************************)
(* The PAD on top of a virtual circuit (libxotpad/src/pad.rs): the pad     *)
(* thread, which receives data and X.29 messages; the pad_send_idle        *)
(* thread; a thread that calls Pad::read; and the main thread, which       *)
(* writes, flushes, asks for remote parameters, invites to clear and       *)
(* clears.  A lock that is given up before the thread can block is part of *)
(* the action that takes it.  Three are not: params, held for writing      *)
(* while the answer to a Set is flushed; send_queue, held through          *)
(* Pad::flush; recv_queue, between the reader's check and its wait.        *)
(*                                                                         *)
(* The Svc below is what vc.rs makes of it, as X25Vc and X25VcThreads say: *)
(* send queues, flush sleeps until all is sent and is woken by nothing     *)
(* else, what was received can be read after the end, and a todo!() with   *)
(* the state mutex held poisons the circuit for every thread.  That it     *)
(* wakes who waits in recv is X25VcThreads' business.                      *)
(***************************************************************************)
EXTENDS Integers, FiniteSets, SequencesExt

CONSTANTS
    CR, LF,         \* two octets
    Texts,          \* what the main thread may write at once
    PadParams,      \* the X.3 parameters the call may start with
    PacketSize,     \* send_packet_size of the circuit
    ReadSize,       \* octets a Pad::read has room for
    SuppressEcho,   \* should_suppress_echo_when_editing
    PeerMessages,   \* what the other PAD may send of its own accord
    MainOps,        \* what the main thread does
    MaxOps, MaxInput, MaxInbox  \* bounds: operations begun, messages from the peer,
                              \* those not yet received by the pad thread

(* What can be in a text. *)
Octets == {CR, LF} \cup UNION {Range(text) : text \in Texts}

ASSUME PadAssumption ==
    /\ CR # LF /\ \A text \in Texts : text \in Seq(Octets)
    /\ PacketSize \in Nat \ {0} /\ ReadSize \in Nat \ {0}
    /\ SuppressEcho \in BOOLEAN
    /\ MainOps \subseteq {"write", "flush", "ask", "invite", "clear"}
    /\ MaxOps \in Nat /\ MaxInput \in Nat /\ MaxInbox \in Nat

VARIABLES
    params,         \* PadParams: echo, forward, idle, lf_insert, editing
    send_queue,     \* octets typed and not yet passed to the circuit
    deadline,       \* of send_queue: "none", "set", or "due" when it has passed
    recv_queue,     \* octets for Pad::read
    recv_end,
    slot,           \* indicate_channel: the question whose sender it holds, or 0
    reply,          \* what the main thread's receiver holds
    poisoned,       \* locks a thread panicked with
    pad, idle, reader, main,    \* where each thread is
    circuit,        \* "open", "clearing", "cleared", "broken", "poisoned"
    inbox,          \* messages received by the circuit
    out, sent,      \* messages passed to Svc::send; how many of them have left
    typed, owed,    \* history: octets put in send_queue; how many when invited to clear
    begun, asked, answered, inputs

queues  == <<send_queue, deadline, recv_queue, recv_end>>
asking  == <<slot, reply, asked, answered>>
threads == <<pad, idle, reader, main>>
svc     == <<circuit, inbox, out, sent>>
history == <<typed, owed, begun, inputs>>
vars == <<params, queues, asking, poisoned, threads, svc, history>>

NoReply == [to |-> 0, answer |-> 0]
DataMessage(octets) == [kind |-> "Data", octets |-> octets]

Init ==
    /\ params \in PadParams
    /\ send_queue = <<>> /\ deadline = "none"
    /\ recv_queue = <<>> /\ recv_end = FALSE
    /\ slot = 0 /\ reply = NoReply /\ asked = 0 /\ answered = 0
    /\ poisoned = {}
    /\ pad = "recv" /\ idle = "running" /\ reader = "check" /\ main = "idle"
    /\ circuit = "open" /\ inbox = <<>> /\ out = <<>> /\ sent = 0
    /\ typed = <<>> /\ owed = 0 /\ begun = 0 /\ inputs = 0

-----------------------------------------------------------------------------
(* Locks. *)

ParamsFree    == pad \notin {"set flush", "set flush wait"}
SendQueueFree == main \notin {"flush", "flush wait"}
RecvQueueFree == reader # "gap"

(* recv_queue.1.notify_all() *)
WakeReader == reader' = IF reader = "wait" THEN "check" ELSE reader

(* What svc.send, svc.flush and svc.clear find. *)
SendOutcome  == CASE circuit = "open"     -> "ok"
                  [] circuit = "poisoned" -> "panic"
                  [] OTHER                -> "error"
FlushOutcome == CASE circuit = "poisoned" -> "panic"
                  [] circuit # "poisoned" /\ sent = Len(out) -> "ok"
                  [] sent < Len(out) /\ circuit = "open"     -> "wait"
                  [] sent < Len(out) /\ circuit = "clearing" -> "panic"
                  [] OTHER -> "error"

(* recv, flush and clear panic with the state mutex held. *)
Poisoned == circuit' = "poisoned"

-----------------------------------------------------------------------------
(* The main thread, user_pad's.  The program ends when it panics or meets  *)
(* an error, which user_pad::run returns.                                  *)

Begins(op) == /\ main = "idle" /\ op \in MainOps /\ begun < MaxOps
              /\ begun' = begun + 1

WithLf(octet, moment) ==
    IF octet = CR /\ moment \in params.lf_insert THEN <<CR, LF>> ELSE <<octet>>

Echoes == params.echo /\ ~(params.editing /\ SuppressEcho)

(* Pad::write, one octet: echoed, queued, and the queue sent when the      *)
(* octet forwards it or it fills a packet.  A failed send ends the loop.   *)
PutOctet(w, octet) ==
    LET recvq == w.recvq \o (IF Echoes THEN WithLf(octet, "echo") ELSE <<>>)
        sendq == w.sendq \o WithLf(octet, "send")
        full  == octet \in params.forward \/ Len(sendq) >= PacketSize
    IN  IF w.failed THEN w
        ELSE [recvq  |-> recvq,
              typed  |-> w.typed \o WithLf(octet, "send"),
              sendq  |-> IF full THEN <<>> ELSE sendq,
              out    |-> IF full /\ SendOutcome = "ok"
                         THEN Append(w.out, DataMessage(sendq)) ELSE w.out,
              drained |-> w.drained \/ full,
              failed |-> full /\ SendOutcome # "ok"]

(* The octets of text, one after the other. *)
Put(w, text) ==
    LET put[i \in 0 .. Len(text)] == IF i = 0 THEN w ELSE PutOctet(put[i - 1], text[i])
    IN  put[Len(text)]

(* Slip: should_wake_up_recv is never set. *)
WakesNobody(w) == FALSE

(* should_wake_up_recv, unless the loop ended early *)
WakesReader(w) == Echoes /\ ~w.failed

(* The idle thread is notified too, but wakes by itself in any case.  On   *)
(* an error the reader of the echo is not woken.                           *)
Write ==
    /\ Begins("write")
    /\ poisoned \cap {"params", "send_queue"} = {}
    /\ ParamsFree /\ SendQueueFree /\ RecvQueueFree
    /\ \E text \in Texts :
          LET w == Put([recvq |-> recv_queue, sendq |-> send_queue, typed |-> typed,
                        out |-> out, drained |-> FALSE, failed |-> FALSE], text)
          IN  /\ recv_queue' = w.recvq /\ send_queue' = w.sendq
              /\ typed' = w.typed /\ out' = w.out
              /\ deadline' = IF ~w.failed /\ w.sendq # <<>> /\ params.idle THEN "set"
                             ELSE IF w.drained THEN "none" ELSE deadline
              /\ main' = IF ~w.failed THEN "idle"
                         ELSE IF SendOutcome = "panic" THEN "dead" ELSE "failed"
              /\ IF WakesReader(w) THEN WakeReader ELSE UNCHANGED reader
    /\ UNCHANGED <<params, recv_end, asking, poisoned, pad, idle,
                   circuit, inbox, sent, owed, inputs>>

(* Passing a message to the circuit: no octets make no packet.             *)
SvcSend(message) ==
    out' = IF SendOutcome = "ok" /\ message # DataMessage(<<>>) THEN Append(out, message)
           ELSE out

AfterSend(next) == CASE SendOutcome = "ok"    -> next
                     [] SendOutcome = "panic" -> "dead"
                     [] OTHER                 -> "failed"

(* Slip: the queue is sent and not drained. *)
StartFlushUndrained ==
    /\ Begins("flush")
    /\ "send_queue" \notin poisoned
    /\ deadline' = "none"
    /\ SvcSend(DataMessage(send_queue))
    /\ main' = AfterSend("flush")
    /\ UNCHANGED <<params, send_queue, recv_queue, recv_end, asking, poisoned, pad, idle,
                   reader, circuit, inbox, sent, typed, owed, inputs>>

(* Pad::flush sends the queue, be it empty, and keeps the queue's mutex.   *)
StartFlush ==
    /\ Begins("flush")
    /\ "send_queue" \notin poisoned
    /\ send_queue' = <<>> /\ deadline' = "none"
    /\ SvcSend(DataMessage(send_queue))
    /\ main' = AfterSend("flush")
    /\ UNCHANGED <<params, recv_queue, recv_end, asking, poisoned, pad, idle, reader,
                   circuit, inbox, sent, typed, owed, inputs>>

(* get_remote_params and set_remote_params: the sender goes into the slot, *)
(* and stays there if the question cannot be sent; asking for a parameter  *)
(* above 127 is a panic (x29.rs:161).                                      *)
Ask ==
    /\ Begins("ask")
    /\ "indicate" \notin poisoned
    /\ \/ /\ slot = 0
          /\ slot' = asked + 1 /\ asked' = asked + 1 /\ reply' = NoReply
          /\ \/ SvcSend([kind |-> "Ask"]) /\ main' = AfterSend("ask")
             \/ main' = "dead" /\ UNCHANGED out
       \/ /\ slot # 0 /\ main' = "dead"   \* todo!("pending remote command")
          /\ UNCHANGED <<slot, reply, asked, out>>
    /\ UNCHANGED <<params, queues, answered, poisoned, pad, idle, reader, circuit, inbox, sent,
                   typed, owed, inputs>>

InviteClear ==
    /\ Begins("invite")
    /\ SvcSend([kind |-> "ClearInvitation"])
    /\ main' = AfterSend("invite")
    /\ UNCHANGED <<params, queues, asking, poisoned, pad, idle, reader,
                   circuit, inbox, sent, typed, owed, inputs>>

(* An operation that needs a lock some thread panicked with. *)
MeetPoison ==
    /\ \/ Begins("write") /\ poisoned \cap {"params", "send_queue"} # {}
       \/ Begins("flush") /\ "send_queue" \in poisoned
       \/ Begins("ask") /\ "indicate" \in poisoned
    /\ main' = "dead"
    /\ UNCHANGED <<params, queues, asking, poisoned, pad, idle, reader, svc, typed, owed, inputs>>

Asleep == [flush |-> "flush wait", ask |-> "ask wait", invite |-> "invite wait"]

(* svc.flush(), once in it and each time it is woken. *)
MainFlush ==
    /\ main \in DOMAIN Asleep
    /\ main' = CASE FlushOutcome = "ok"    -> IF main = "ask" THEN "await" ELSE "idle"
                 [] FlushOutcome = "wait"  -> Asleep[main]
                 [] FlushOutcome = "panic" -> "dead"
                 [] OTHER                  -> "failed"
    /\ UNCHANGED <<params, queues, asking, poisoned, pad, idle, reader, svc, history>>

GetReply ==
    /\ main = "await" /\ reply # NoReply
    /\ main' = "idle"
    /\ UNCHANGED <<params, queues, asking, poisoned, pad, idle, reader, svc, history>>

(* Slip: the sender is taken back when the time is up. *)
ReplyTimesOutCleanly ==
    /\ main = "await" /\ reply = NoReply
    /\ main' = "idle" /\ slot' = 0
    /\ UNCHANGED <<params, queues, reply, asked, answered, poisoned, pad, idle, reader,
                   svc, history>>

(* After 5 s.  The sender is left in the slot. *)
ReplyTimesOut ==
    /\ main = "await" /\ reply = NoReply
    /\ main' = "idle"
    /\ UNCHANGED <<params, queues, asking, poisoned, pad, idle, reader, svc, history>>

(* Pad::clear; a todo!() unless the circuit is connected. *)
StartClear ==
    /\ Begins("clear")
    /\ \/ circuit = "open" /\ circuit' = "clearing" /\ main' = "clearing"
       \/ circuit # "open" /\ main' = "dead" /\ UNCHANGED circuit
    /\ UNCHANGED <<params, queues, asking, poisoned, pad, idle, reader,
                   inbox, out, sent, typed, owed, inputs>>

EndClear ==
    /\ main = "clearing" /\ circuit \in {"cleared", "broken", "poisoned"}
    /\ main' = CASE circuit = "cleared" -> "gone"
                 [] circuit = "broken"  -> "failed"
                 [] OTHER               -> "dead"
    /\ UNCHANGED <<params, queues, asking, poisoned, pad, idle, reader, svc, history>>

-----------------------------------------------------------------------------
(* The pad thread. *)

PadDies(locks) == pad' = "dead" /\ poisoned' = poisoned \cup locks

(* svc.recv(): data first, whatever the circuit's state. *)
Receives(kind) ==
    /\ pad = "recv" /\ circuit # "poisoned"
    /\ inbox # <<>> /\ Head(inbox).kind = kind
    /\ inbox' = Tail(inbox)

(* ... then the end.  A clear under way is not expected here. *)
RecvEnds ==
    /\ pad = "recv"
    /\ \/ /\ circuit = "poisoned" /\ PadDies({}) /\ UNCHANGED circuit
       \/ /\ inbox = <<>> /\ circuit = "clearing" /\ PadDies({}) /\ Poisoned
       \/ /\ inbox = <<>> /\ circuit \in {"cleared", "broken"}
          /\ pad' = "ending" /\ UNCHANGED <<poisoned, circuit>>
    /\ UNCHANGED <<params, queues, asking, idle, reader, main, inbox, out, sent, history>>

(* queue_recv_data, then notify_all. *)
RecvData ==
    /\ Receives("Data") /\ RecvQueueFree
    /\ \/ /\ "params" \notin poisoned
          /\ recv_queue' = recv_queue \o
                FlattenSeq([i \in 1 .. Len(Head(inbox).octets) |->
                              WithLf(Head(inbox).octets[i], "recv")])
          /\ WakeReader /\ UNCHANGED <<pad, poisoned>>
       \/ "params" \in poisoned /\ PadDies({}) /\ UNCHANGED <<recv_queue, reader>>
    /\ UNCHANGED <<params, send_queue, deadline, recv_end, asking, idle, main,
                   circuit, out, sent, history>>

(* set_params and set_read_params: each setting that is valid takes        *)
(* effect, whatever becomes of the others.                                 *)
SetParams(request) ==
    FoldLeft(LAMBDA p, s : IF s.valid THEN [p EXCEPT ![s.param] = s.value] ELSE p,
             params, request)

Indicate == [kind |-> "Indicate"]

(* A parameter above 127 is no parameter, but decode admits it; to answer  *)
(* with it is a panic (x29.rs:198).                                        *)
Encodable(request) == \A i \in 1 .. Len(request) : request[i].param # "above 127"

SendAnswer(encodable, locks, next) ==
    /\ IF encodable THEN SvcSend(Indicate) ELSE UNCHANGED out
    /\ IF encodable /\ SendOutcome = "ok" THEN pad' = next /\ UNCHANGED poisoned
       ELSE PadDies(locks)

(* A Set is answered when a setting was refused, and params stays locked   *)
(* until the answer is flushed.  An empty request is a todo!().            *)
RecvSet ==
    /\ Receives("Set")
    /\ LET request == Head(inbox).request
           refused == \E i \in 1 .. Len(request) : ~request[i].valid
       IN  IF request = <<>> \/ "params" \in poisoned
           THEN PadDies({"params"}) /\ UNCHANGED <<params, out>>
           ELSE /\ params' = SetParams(request)
                /\ IF refused THEN SendAnswer(Encodable(request), {"params"}, "set flush")
                   ELSE UNCHANGED <<out, pad, poisoned>>
    /\ UNCHANGED <<queues, asking, idle, reader, main, circuit, sent, history>>

(* Read and SetRead are answered in any case, after params is unlocked.  A *)
(* Read of a parameter above 127 is as good as malformed.                  *)
RecvRead ==
    /\ \/ Receives("Read") /\ UNCHANGED params
       \/ Receives("SetRead")
          /\ params' = IF "params" \in poisoned THEN params
                       ELSE SetParams(Head(inbox).request)
    /\ LET request == IF Head(inbox).kind = "SetRead" THEN Head(inbox).request ELSE <<>>
           empty   == Head(inbox).kind = "SetRead" /\ request = <<>>
       IN  IF empty \/ "params" \in poisoned
           THEN PadDies(IF empty THEN {"params"} ELSE {}) /\ UNCHANGED out
           ELSE SendAnswer(Encodable(request), {}, "flush")
    /\ UNCHANGED <<queues, asking, idle, reader, main, circuit, sent, history>>

(* The answer goes to whoever asked last, and kills the pad thread if that *)
(* one has given up waiting.                                               *)
RecvIndicate ==
    /\ Receives("Indicate")
    /\ \/ "indicate" \in poisoned /\ PadDies({}) /\ UNCHANGED <<slot, reply>>
       \/ /\ "indicate" \notin poisoned
          /\ slot' = 0
          /\ \/ slot = 0 /\ UNCHANGED <<reply, pad, poisoned>>
             \/ /\ slot # 0 /\ main \in {"ask", "ask wait", "await"}
                /\ reply' = [to |-> slot, answer |-> Head(inbox).answer]
                /\ UNCHANGED <<pad, poisoned>>
             \/ /\ slot # 0 /\ main \notin {"ask", "ask wait", "await"}
                /\ PadDies({"indicate"}) /\ UNCHANGED reply
    /\ UNCHANGED <<params, queues, asked, answered, idle, reader, main,
                   circuit, out, sent, history>>

(* Slip: what was typed is left in the queue. *)
RecvInvitationUnsent ==
    /\ Receives("ClearInvitation")
    /\ pad' = "clear flush" /\ owed' = Len(typed)
    /\ UNCHANGED <<params, queues, asking, poisoned, idle, reader, main,
                   circuit, out, sent, typed, begun, inputs>>

(* An invitation to clear: what was typed is sent first. *)
RecvInvitation ==
    /\ Receives("ClearInvitation") /\ SendQueueFree
    /\ \/ /\ "send_queue" \notin poisoned
          /\ send_queue' = <<>> /\ deadline' = "none"
          /\ SvcSend(DataMessage(send_queue))
          /\ IF SendOutcome = "ok" THEN pad' = "clear flush" /\ UNCHANGED poisoned
             ELSE PadDies({"send_queue"})
       \/ /\ "send_queue" \in poisoned /\ PadDies({})
          /\ UNCHANGED <<send_queue, deadline, out>>
    /\ owed' = Len(typed)
    /\ UNCHANGED <<params, recv_queue, recv_end, asking, idle, reader, main,
                   circuit, sent, typed, begun, inputs>>

RecvMalformed ==
    /\ Receives("Malformed")
    /\ PadDies({})
    /\ UNCHANGED <<params, queues, asking, idle, reader, main, circuit, out, sent, history>>

PadAsleep == [at \in {"flush", "set flush", "clear flush"} |->
                 CASE at = "flush"     -> "flush wait"
                   [] at = "set flush" -> "set flush wait"
                   [] OTHER            -> "clear flush wait"]

PadFlush ==
    /\ pad \in DOMAIN PadAsleep
    /\ CASE FlushOutcome = "ok"   -> /\ pad' = IF pad = "clear flush" THEN "clear" ELSE "recv"
                                     /\ UNCHANGED <<poisoned, circuit>>
         [] FlushOutcome = "wait" -> pad' = PadAsleep[pad] /\ UNCHANGED <<poisoned, circuit>>
         [] OTHER                 -> /\ PadDies(IF pad = "set flush" THEN {"params"} ELSE {})
                                     /\ IF FlushOutcome = "panic" THEN Poisoned
                                        ELSE UNCHANGED circuit
    /\ UNCHANGED <<params, queues, asking, idle, reader, main, inbox, out, sent, history>>

PadClear ==
    /\ pad = "clear"
    /\ \/ circuit = "open" /\ circuit' = "clearing" /\ pad' = "clearing" /\ UNCHANGED poisoned
       \/ circuit # "open" /\ Poisoned /\ PadDies({})
    /\ UNCHANGED <<params, queues, asking, idle, reader, main, inbox, out, sent, history>>

PadCleared ==
    /\ pad = "clearing"
    /\ \/ circuit = "cleared" /\ pad' = "ending" /\ UNCHANGED poisoned
       \/ circuit \in {"broken", "poisoned"} /\ PadDies({})
    /\ UNCHANGED <<params, queues, asking, idle, reader, main, svc, history>>

(* recv_end is stored and the readers are woken without recv_queue's mutex. *)
PadEnds ==
    /\ \/ pad = "ending" /\ recv_end' = TRUE /\ pad' = "notify" /\ UNCHANGED reader
       \/ pad = "notify" /\ WakeReader /\ pad' = "done" /\ UNCHANGED recv_end
    /\ UNCHANGED <<params, send_queue, deadline, recv_queue, asking, poisoned, idle, main,
                   svc, history>>
-----------------------------------------------------------------------------
(* The idle thread and the reader. *)

(* Slip: it ends when it has sent. *)
IdleSendsOnce ==
    /\ idle = "running" /\ deadline = "due" /\ send_queue # <<>> /\ SendQueueFree
    /\ SvcSend(DataMessage(send_queue))
    /\ send_queue' = <<>> /\ deadline' = "none"
    /\ idle' = "gone"
    /\ UNCHANGED <<params, recv_queue, recv_end, asking, poisoned, pad, reader, main,
                   circuit, inbox, sent, history>>

(* Slip: it sends the queue and leaves it as it is. *)
IdleSendsUndrained ==
    /\ idle = "running" /\ deadline = "due" /\ send_queue # <<>> /\ SendQueueFree
    /\ SvcSend(DataMessage(send_queue))
    /\ deadline' = "none"
    /\ UNCHANGED <<params, send_queue, recv_queue, recv_end, asking, poisoned, pad, idle, reader,
                   main, circuit, inbox, sent, history>>

(* It wakes at the deadline, or after 10 s, and ends on an error only.     *)
IdleSends ==
    /\ idle = "running" /\ deadline = "due" /\ send_queue # <<>> /\ SendQueueFree
    /\ "send_queue" \notin poisoned
    /\ SvcSend(DataMessage(send_queue))
    /\ send_queue' = <<>> /\ deadline' = "none"
    /\ idle' = IF SendOutcome = "ok" THEN "running" ELSE "gone"
    /\ poisoned' = IF SendOutcome = "panic" THEN poisoned \cup {"send_queue"} ELSE poisoned
    /\ UNCHANGED <<params, recv_queue, recv_end, asking, pad, reader, main,
                   circuit, inbox, sent, history>>

(* Pad::read, called again and again until it returns nothing. *)
ReadCheck ==
    /\ reader = "check"
    /\ \/ /\ recv_queue # <<>>
          /\ recv_queue' = SubSeq(recv_queue, ReadSize + 1, Len(recv_queue))
          /\ UNCHANGED reader
       \/ recv_queue = <<>> /\ recv_end /\ reader' = "done" /\ UNCHANGED recv_queue
       \/ recv_queue = <<>> /\ ~recv_end /\ reader' = "gap" /\ UNCHANGED recv_queue
    /\ UNCHANGED <<params, send_queue, deadline, recv_end, asking, poisoned, pad, idle, main,
                   svc, history>>

ReadWait ==
    /\ reader = "gap" /\ reader' = "wait"
    /\ UNCHANGED <<params, queues, asking, poisoned, pad, idle, main, svc, history>>

-----------------------------------------------------------------------------
(* The circuit, the other PAD and the clock. *)

Awake(asleep, at) == IF \E pc \in DOMAIN asleep : at = asleep[pc]
                     THEN CHOOSE pc \in DOMAIN asleep : at = asleep[pc] ELSE at

(* The circuit sends what waited for the window and wakes who flushes. *)
Drain ==
    /\ circuit = "open" /\ sent < Len(out)
    /\ sent' = sent + 1
    /\ pad' = Awake(PadAsleep, pad) /\ main' = Awake(Asleep, main)
    /\ UNCHANGED <<params, queues, asking, poisoned, idle, reader, circuit, inbox, out, history>>

SpuriousWake ==
    /\ \/ reader = "wait" /\ reader' = "check" /\ UNCHANGED <<pad, main>>
       \/ /\ UNCHANGED reader
          /\ pad' = Awake(PadAsleep, pad) /\ main' = Awake(Asleep, main)
          /\ <<pad', main'>> # <<pad, main>>
    /\ UNCHANGED <<params, queues, asking, poisoned, idle, svc, history>>

PeerSends ==
    /\ circuit = "open" /\ inputs < MaxInput /\ Len(inbox) < MaxInbox
    /\ \E message \in PeerMessages : inbox' = Append(inbox, message)
    /\ inputs' = inputs + 1
    /\ UNCHANGED <<params, queues, asking, poisoned, threads, circuit, out, sent,
                   typed, owed, begun>>

(* It answers each question that reached it, in order. *)
PeerAnswers ==
    /\ circuit = "open"
    /\ answered < Cardinality({i \in 1 .. sent : out[i].kind = "Ask"})
    /\ answered' = answered + 1
    /\ inbox' = Append(inbox, [kind |-> "Indicate", answer |-> answered + 1])
    /\ UNCHANGED <<params, queues, slot, reply, asked, poisoned, threads, circuit, out, sent,
                   history>>

CircuitEnds ==
    /\ circuit \in {"open", "clearing"}
    /\ circuit' \in {"cleared", "broken"}
    /\ UNCHANGED <<params, queues, asking, poisoned, threads, inbox, out, sent, history>>

Expire ==
    /\ deadline = "set" /\ deadline' = "due"
    /\ UNCHANGED <<params, send_queue, recv_queue, recv_end, asking, poisoned, threads, svc,
                   history>>

-----------------------------------------------------------------------------
MainThread == \/ Write \/ StartFlush \/ Ask \/ InviteClear \/ MeetPoison \/ MainFlush
              \/ GetReply \/ ReplyTimesOut \/ StartClear \/ EndClear

PadThread == \/ RecvEnds \/ RecvData \/ RecvSet \/ RecvRead \/ RecvIndicate
             \/ RecvInvitation \/ RecvMalformed \/ PadFlush \/ PadClear \/ PadCleared
             \/ PadEnds

Reader == ReadCheck \/ ReadWait

Running == main \notin {"dead", "failed"}

Next == Running /\ \/ MainThread \/ PadThread \/ IdleSends \/ Reader \/ SpuriousWake
                   \/ Drain \/ PeerSends \/ PeerAnswers \/ CircuitEnds \/ Expire

(* Threads that can go on do, and time passes.  Nothing is assumed of the  *)
(* main thread's choices, of the peer or of the circuit.                   *)
Fairness == /\ WF_vars(Running /\ PadThread) /\ WF_vars(Running /\ Reader)
            /\ WF_vars(Running /\ IdleSends) /\ WF_vars(Running /\ Expire)

Spec == Init /\ [][Next]_vars /\ Fairness

-----------------------------------------------------------------------------
(* Properties. *)

Octs(messages) ==
    FlattenSeq([i \in 1 .. Len(messages) |->
                  IF messages[i].kind = "Data" THEN messages[i].octets ELSE <<>>])

PadTypeOK ==
    /\ deadline \in {"none", "set", "due"}
    /\ deadline # "none" => send_queue # <<>>
    /\ Len(send_queue) < PacketSize
    /\ recv_end \in BOOLEAN /\ slot \in 0 .. asked /\ sent \in 0 .. Len(out)
    /\ poisoned \subseteq {"params", "send_queue", "indicate"}
    /\ idle \in {"running", "gone"} /\ reader \in {"check", "gap", "wait", "done"}
    /\ pad \in {"recv", "clear", "clearing", "ending", "notify", "done", "dead"}
                \cup DOMAIN PadAsleep \cup Range(PadAsleep)
    /\ main \in {"idle", "await", "clearing", "gone", "failed", "dead"}
                 \cup DOMAIN Asleep \cup Range(Asleep)
    /\ circuit \in {"open", "clearing", "cleared", "broken", "poisoned"}

(* "We won't miss any data as the queue is locked." (Pad::read): while the *)
(* call lasts no wakeup is lost, for data or for echo, although both       *)
(* notify when they have unlocked the queue.                               *)
SleepingReaderHasNothing == reader = "wait" /\ circuit = "open" => recv_queue = <<>>

(* Three threads empty send_queue, on a forwarding octet, a full packet,   *)
(* the deadline, a flush and an invitation: each octet goes to the circuit *)
(* once and in the order it was typed.                                     *)
NothingTypedIsLost == circuit = "open" => Octs(out) \o send_queue = typed

(* A question is answered by its own answer, never by the late answer to a *)
(* question that timed out (the sender left in the slot sees to it).       *)
AnswersMatch == reply # NoReply => reply.answer = reply.to

(* What the code says and does not do: a reader waiting when the pad       *)
(* thread has ended the call sees the end ("We won't miss any data as the  *)
(* queue is locked", while recv_end is stored and told without the lock).  *)
EndReachesReader == pad = "done" ~> (reader = "done" \/ ~Running)
=============================================================================
