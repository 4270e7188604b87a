# xotpad in TLA+

A model of xotpad, an X.25 PAD over XOT (X.25 over TCP), translated from its Rust
source, with TLC runs over small instances and TLAPS proofs for all values of the
constants. Line numbers refer to the repository's files under `src/`; `PROJECT.json`
maps every definition to the lines it stands for.

## The system

```
 terminal ── user_pad ── Pad ── Svc (vc.rs) ── XotLink ── TCP ── XotLink ── Svc ── ...
             X.28, X.3   X.29    window (seq.rs)  framing
```

| component | state | operations | modules |
|---|---|---|---|
| Virtual circuit, `x25/vc.rs` | `VcState`, parameters, two data queues | call, listen, accept, reject, send, recv, flush, reset, clear; one handler per state for every packet and timer | `X25Vc` |
| its threads | engine loop, reader thread, application threads, `engine_wait` and three more condition variables | `VcInner::run`, `Svc::*` | `X25VcThreads` |
| Window and sequence numbers, `x25/seq.rs` | start, current | `is_open`, `incr`, `update_start` | `X25Seq`, `X25Window`, `CreditWindow` |
| Two circuits and the wires | two `VcInner`, two FIFOs | all of the above | `X25Call`, `MsgChannel` |
| XOT link, `xot/link.rs` | `recv_buf`, the stream | send, recv, shutdown | `XotLink`, `PacketChannel` |
| PAD, `pad.rs` | send and receive queue, `recv_end`, the slot of the pending question, X.3 parameters | read, write, flush, remote parameters, invite to clear, clear; pad thread, idle thread | `Pad` |
| User PAD, `src/user_pad.rs` | current call, local state, line and command buffer | terminal, listener and remote threads, the main loop | `UserPad` |
| Two PADs on one call | two `Pad`, the call between them | all of the above | `PadCall`, `MsgChannel` |
| Codecs: `packet.rs`, `facility.rs`, `x29.rs`, `x121.rs` | none | encode, decode | `PacketCodec`, `FacilityCodec`, `X29Codec`, `Codec` |
| X.3 parameters, `x3.rs`, `src/x28/x3.rs` | the values | try_from, is_match, get, set, all | `X3Params`, `Codec` |
| X.28 parsing, `src/x28/command.rs`, `selection.rs` | none | from_str | `X28Command`, `X28Selection`, `Codec` |
| X.28 signals, XOT resolver, `main.rs`, fuzz targets, `host_pad.rs` (a stub) | none | | not modelled |

How they interact: the application threads call `Svc`, whose state is one mutex; the
engine thread handles packets that its reader thread takes from the link, and runs
the timers T21, T22, T23 by the time-out of its wait on `engine_wait`. What it receives
goes into `recv_data_queue`, where `Svc::recv` waits; what `Svc::send` cannot send
through the window stays in `send_data_queue`, where `Svc::flush` waits. On top, the
pad thread receives from the `Svc`, interprets X.29 messages and feeds
`Pad::read`; `Pad::write` collects octets until one forwards them, they fill a packet,
or the idle thread's deadline passes.

What is hard: condition variables notified without the mutex their waiter holds;
state read under one lock acquisition and relied on under the next (`send`); results
that come in states their waiter did not think of; resets and clears that cross;
flow control with numbers that wrap; a TCP stream without boundaries; locks held
while waiting for the peer; answers that come after their question was given up;
inputs that do not say which call they are of; packets with optional parts, read by
position, and encoders that are stricter than the decoders.
`PROJECT.json` lists these hazards line by line, with the properties that cover them.

## The modules

**X25Seq** has the arithmetic of `seq.rs` as operators (`IsOpen`, `Incr`, `IsSeqInRange`,
`UpdateStart`), on `Int`; `WindowFitsU8` proves that no sum leaves a `u8`.
**X25Window** is one window's life: `Send` and an acknowledgement with any octet
(`AckAccepted`, `AckRefused`). **CreditWindow** is what it promises, in counters that never wrap.

**X25Vc** is the circuit. State: `state` with its `initiator` and `dts` (the data of
`VcState`'s variants), `expired` (whether the running timer has passed), `params`,
`sendq`, `recvq`, `link`, `out` (packets sent), `panic` (the line's name if a thread
panicked with the state mutex held, which poisons the circuit). Each action is a
critical section: `HandleInPacket` with one operator per state (`InReady` ...
`InTerminal`), `Call`, `CallRefused` (a call request with more user data than can be
encoded: the only packet `send_packet` refuses before it writes), `Accept`, `Reject`, `Clear`, `Reset`, `SendPush` and `SendKick`,
`PopCompleteData`; the `...Outcome` operators give what a waiting call returns in each
state. The peer may send any packet at any time. `LinkError` is the reader's error, which
comes of a lost connection or of what is no frame, the connection still up.

**X25VcThreads** extends it with program counters. The engine's loop (`EngineTurn`,
`EngineWait`, `EngineWakes`) keeps its time-out in `armed`: true if the wait ends within a
timer's time, false for the 100 000 s. `inq` is the queue from the reader thread, which ends
(`ReaderFails`) with the connection or, if the peer may send `Malformed` input, at any time. The
pcs `recv gap` and `flush gap` are the points where a thread has checked and not yet
waited, and holds only the queue's mutex (`LocksHeld`). Waiting on the state's own
condition variable needs no such point: it is notified with the mutex held.

**X25Call** joins two `X25Vc` by FIFOs. Engine turns and calls are atomic there.
`MsgChannel` is the service: whole messages, once, in order.

**XotLink** is one direction of the framing: `write_all` in pieces, reads of any size,
`recv`'s loop. `PacketChannel` is what the circuit relies on, and what the FIFOs of
`X25Call` are.

**Pad** is one PAD: the pad thread's handlers (`RecvData`, `RecvSet`, `RecvRead`,
`RecvIndicate`, `RecvInvitation`, ...), the idle thread (`IdleSends`), a reader in `Pad::read`
(`ReadCheck`, `ReadWait`), and the main thread. A lock that is released before the
thread can block is part of the action; the three that are not are `ParamsFree`,
`SendQueueFree`, `RecvQueueFree`. `poisoned` has the locks a thread panicked with.
The circuit below is abstract: it may end at any time, and its calls give the results
`SendOutcome` and `FlushOutcome`, taken from `vc.rs`. A request may name the pseudo
parameter "above 127": it is served, but the answer is not `Encodable`, and `SendAnswer` kills the
thread with whatever it has locked.

**PadCall** is a call between two users: two instances of `Pad`, `A` and `B`, whose circuits are
replaced by one virtual call as `X25Call` shows it (whole messages in order, a clear
request after the data it follows, a confirmation; clears that cross reach the `todo!()`
of the engine, which poisons the circuit). `ASends` moves the next message of A's circuit into
B's inbox; an answer is matched to its question by its number, `Carried`. `aRead` and `bRead` are history: the
octets `Pad::read` returned. What leaves a circuit is in the other's inbox at once; the last
messages of it may turn out to have been on their way still when the receiver clears (`ALoses`, `BLoses`):
while it waits for the confirmation its engine drops them. `MsgChannel` is again the service, now of octets between users.

**UserPad** is the interactive PAD. `channel` is the one channel of inputs, fed by the
terminal's thread (`TypeOctet`, `EndInput`), the listener (`Listen`, `Refuse`, `Accept`) and a remote
thread per call (`ReadData`, `ReadEnd`). The main loop takes an input and keeps `current_call`
locked until it has handled it, so an input is one step (`TakeCall`, `TakeEnd`, `CommandOctet`,
`LineSelect`, `LineClear`, `DataOctet`, ...). A line spells any command. Of a call it has whether it
can be used (`circuit`) and how many threads read it (`readers`); writing to a call that
is over succeeds, fails or panics, and clearing it panics, as `Pad` and `X25Vc` say. A pad thread that
died has left its locks poisoned: every use of the PAD may panic (`PadDoes`), and so may every use of the
X.3 parameters, which outlive the calls (`UsesParams`). `connected` has the calls announced to the user; the
call a one-shot program is started with never is, so `ConnectedBeforeData` leaves it out (`GivenCall`). The call in a
data or end input is history: the code's input does not carry it.

**FacilityCodec**, **PacketCodec**, **X29Codec** are the encoders and decoders as operators on
sequences of octets. A conversion is the *set* of its results: a singleton, or empty for
`Err` or a panic, so that a decoder reads as the conditions under which there is a result.
**X3Params** has the values each parameter admits, the forwarding classes, `get`, `set` and `all` of the
PAD's own parameters and those delegated to the user PAD, and `Serve`, the answer to a
request. **X28Selection** and **X28Command** parse lines. A line there is a sequence of tokens; a word in which
only its being that word matters is one token. **Codec** takes one item at a time (a
packet to send, octets heard, a request, an answer, a call, a line) and its properties say what
the operators make of it. Octets are built up piece by piece (`GoOn`), so that packets with an
illegal part after a legal one occur.

Operators preceded by "Slip:" are plausible errors of the code; nothing refers to them.
`PROJECT.json` says which property fails when one replaces the definition after it.

## The runs

| run | asks | properties |
|---|---|---|
| `vc` | any peer, any application | `TypeOK`, `WindowRespected`, `WindowAssertionHolds` |
| `window` | is the wrapped window a credit counter | `NumbersStandForCounts`, `HonestAckUnderstood`, `ImplementsCredit` |
| `threads` | interleavings around one circuit, calling or called | `SleepersHaveCause`, `ResultsExpected`, `FailedAnswerExplained`, `EngineServes`, `ImplementsVc` |
| `threads_live` | does everybody get away | `LinkLossReleases`, `TimedOutCallEnds` |
| `call_transfer` | two ends with different parameters, data both ways, a link that may fail | `ParamsAgree`, `NeverOutOfStep`, `InFlightWithinWindow`, `QueuedDataWaitsForWindow`, `DeliversMessages`, `EveryMessageArrives` |
| `call_upsets` | rejects, resets, clears and timers crossing data | `NothingLostBeforeClear`, `ConfirmedClearEndsBoth`, `ReceivedInOrder`, `ResetsLeaveStep` |
| `xot_link` | a stream cut, joined, shut down, broken | `InStep`, `ShutdownLosesNothing`, `ImplementsChannel`, `EveryPacketArrives` |
| `pad` | the four threads of a PAD, any peer | `SleepingReaderHasNothing`, `NothingTypedIsLost`, `AnswersMatch` |
| `pad_call` | two PADs on one call | `RestIsDelivered`, `InvitationLosesNothing`, `CarriesOctets` |
| `user_pad` | a user, a listener, calls that end at any time | `DataStateHasCall`, `EveryCallIsRead`, `ConnectedBeforeData` |
| `codec` | do conversions agree, and are answers true | `EncodedReadsBack`, `AcceptedCouldBeSent`, `AnswersTellTheTruth`, `LineReadsBack` |
| `stale_end` | what the code says and does not do, see below | `EndMeansCleared` |

The other type invariants (`ThreadTypeOK`, `XotTypeOK`, `PadTypeOK`, `UserPadTypeOK`) are
theorems and not part of the runs.

The properties that took most thought:

* `QueuedDataWaitsForWindow` and `EveryMessageArrives`: data queued behind a window is sent when it opens,
  although three different callers have to remember to do so.
* `ResetsLeaveStep`: after resets that cross each other and data, neither end holds a sequence
  number the other would refuse, whichever packets of before the reset are still on
  the wires.
* `RestIsDelivered`: a PAD call in which nothing can happen by itself has delivered everything to
  both users. A lost wakeup of the reader, a flush or the idle thread shows as a call at rest that has not.
* `InvitationLosesNothing`: the invited PAD sends what was typed, flushes and clears, the inviting
  one reads it all before the end.
* `AcceptedCouldBeSent`: no decoder makes of foreign octets what this program would not send; of X.29
  messages, those with parameters up to 127. Requests beyond that are decoded and cannot be encoded:
  `EveryRequestAnswered` below says what comes of it.
* `AnswersTellTheTruth`: what one PAD learns of the other's parameters, from an answer or from having none, is so.

Deadlock is not checked: calls end, users stop typing and peers fall silent, so every
one of these systems may really stop. Who must not stop is said by the liveness
properties.

### Bounds, and why they are enough

* Modulos 3 and 5 stand for 8 and 128 (2 and 3 with threads): what matters is that
  numbers wrap, that there is one number too many to be a window, and that one end's
  modulo can be smaller than the other's window. `window` uses 8 and goes round three
  times; the proofs are for every modulo.
* Packets hold one or two octets, messages up to three, so that messages are split in
  the middle, chained with the more bit, and queued behind a closed window.
* `MaxSendQueue`, `MaxRecvQueue`, `MaxInput` bound queues the code leaves unbounded. With one
  packet in the window and two in a queue, a queue is empty, filled while blocked,
  and drained in several turns; a packet can arrive in each place of the code.
* `MaxMessages`, `MaxResets`: two resets cross, or follow each other.
* XOT: octets have three values, packets two or three octets, reads five at most, so that
  headers and packets are cut anywhere and a read joins the end of one frame and the
  beginning of the next. The packets' octets look like headers, and what is no
  frame has a wrong version or a length just out of range on either side.
* `Pad`: packets of two octets; the text typed is forwarded by its first octet, fills a packet with
  the next two and leaves one to the deadline. Two operations of the main thread
  and two messages of the peer, in every order and interleaving.
* `call_transfer` has two messages from one end and one from the other, and a link that may fail
  at any moment; `call_upsets` two-packet messages through a window of one, two from one
  end and one from the other, two resets, clears and timers.
* `PadCall`: A begins two operations of write, flush, parameter request, invitation and clear, B
  one write; writes are of one octet, one of them forwarding, and reads of one octet, so that an octet can be in the
  queue of the writer, in the circuit, in the queue of the reader, at each step of an invitation.
* `Codec`: of every field the least and the greatest value and one beyond; of
  identifiers and types all 16 times 256; call packets of up to three pieces, X.29 messages of up to
  three octets after the first. Fields are independent in the code except through
  the lengths, which are driven to 255 and 256 on their own.
* `UserPad`: two calls are enough for one to be taken for the other, and for the announcement
  of the first to spawn a second reader of the second. Four octets are two
  commands, a clear and a call, or a command and the way to it from data state. The octets are a
  letter, one octet of a broken UTF-8 character, and the control characters that move the program or
  edit a line; ESC, Ctrl+X and Ctrl+R only edit the buffers and are left to the proofs, which have
  every octet (`UserPadTypeOK` has what an escape sequence leaves behind).
  "interactive" is "listening" without a caller.

### Fairness

Safety runs use none. `ThreadSpec`: the engine and the reader thread take a mutex
that is free again and again (strong fairness on their steps: the OS schedules
them, and no application thread keeps a mutex); a wait with a timer in it ends; time
passes; a thread inside a call goes on. Nothing is assumed of the peer, of
application choices or of spurious wakeups, and not that the 100 000 s wait ends.
`X25Call`: engines run, applications finish what they began and keep receiving. `XotLink`: TCP
takes what is written, the reader thread runs. `Pad` (for `EndReachesReader` only): its threads run
and deadlines pass.

## What is proved

Every theorem holds for all values of the constants that satisfy the modules' assumptions,
without a bound on queues, calls or operations.

`SeqProofs`: `WindowFitsU8` (u8 arithmetic never overflows), `InRangeIsBetween`
(`is_seq_in_range` is an interval of the circle), and what the other modules need of
remainders and sequences. In `X25VcThreadsProofs`, its last part: `NumbersAreFaithful`,
`AcksUnderstood` and `WindowIsCredit`, the refinement of `CreditWindow`, for every modulo up
to 128 and every size below it. The invariant is that `start` and `current` are `acked` and
`sent` modulo the modulus and that `sent - acked` is at most the size: neither the
type of the window nor `current - start` alone would survive a wrap.

`X25VcProofs`: `TypeCorrect`, `WindowSafety`, `NegotiationSafety`, against any peer. The
inductive invariant is `IInv == CircuitOK /\ WireOK /\ QueuesOK /\ ParamsOK /\ PanicOK`: the state
with its variant's data, what was sent, the queues, the parameters, and which thread
panicked. `WindowRespected` is not inductive alone: that a window has a size between 1 and
modulo - 1 depends on `params` at the moment of `data_transfer`, and that in turn
on negotiation; hence `ParamsOK`, which keeps the window size in what a facility can carry, and
`PanicOK`, which says the assertion of `Window::new` is the only way out.
`NegotiationSafety` holds under the assumption, in its statement, that local windows suit the normal modulo
(xotpad's own parameters do); without it the assertion fails (`X25VcWindowAssert.cfg`).
There is one lemma per handler, and one step per action.

`X25VcThreadsProofs`, for any set of threads and any interleaving:

* `ThreadsImplementVc`: a step of the threads is a critical section of `X25Vc` or leaves the circuit as it is.
  So `IInv` holds here too, and `ThreadTypes` needs beyond it only `InputsOK` (what the
  reader thread queues), `PcsOK` and `OpenOK` (one thread has opened the call).
* `EngineServesAlways`: `Terminal` is stable under every critical section (`TerminalStays`),
  and the engine leaves its loop only there.
* `ResultsExpectedAlways`, `FailedAnswerExplainedAlways`: `ResultInv` says, for each place a thread can be at
  in `call`, `listen` or `clear`, which states the circuit can have come to meanwhile.
* `SleepersHaveCauseAlways`: `CauseInv` says of a thread in the gap before its wait what it says of one
  asleep. The property alone is not inductive: the queue that the thread saw cannot change in
  the gap, as its mutex is still held (`LocksHeld`).

`X25CallProofs`, of two ends with any parameters, any number of messages and queues of any length. Both circuits keep
`IInv` (`Types2`): `X25VcProofs` is instantiated for each with a peer that may send anything,
which gives `BothRespectWindows` at once. What the ends owe to each other needs more:

* `ParamsAgreeAlways`: `Agreed` says what each end can have put on its wire (`FromCaller`, `FromCalled`: the
  caller's request names its parameters, an accept carries those of the called party, which suit its
  own) and that a connected caller's parameters are the called party's in a mirror.
* `NeverOutOfStepAlways`, `InFlightWithinWindowAlways`: `Orderly` says that the call has begun as it should (`Begun`),
  that nobody resets (`Calm`), and `InStep`. Of one end and its wire, that says (`Sees`): the data packets have the numbers
  due from `recv_seq` on, and the acknowledgements lie between `start` and `current` and never go
  back. Of the two ends (`Pair`, `Tied`): none of the acknowledgements is beyond what the other end has
  received, and what it has received and what is under way to it together are all that is outstanding. As numbers wrap, "beyond"
  and "back" are said by distances on the circle from `start`, which one step changes by the same amount for
  every number. That the outstanding data fits the window bounds what is under way (`Room`).
* `QueuedDataWaitsAlways`: `QueueOrder` adds that a circuit not yet open has queued nothing. `KickDrains`
  says that `send_queued_data` stops only at a closed window or an empty queue.
* `ConfirmedClearEndsBothAlways`: `ClearOrder` says that a confirmation on a wire was sent by an end that is over. It
  holds with resets, time-outs and a link that fails.

`X25CallDataProofs`, of the messages of the same two ends, whatever octets they carry:

* `NothingLostBeforeClearAlways`, `DeliversAlways` (the call implements `MsgChannel`): `DataOrder` is one claim, `Half`, for each
  direction. The messages sent are those received and then others, and these, cut into chunks
  of whatever size, are the receive queue, what is on the wire and the send queue, one after another (`Parts`). The wire
  counts as long as the receiver reads it (`Reads`), the send queue as long as what is written
  arrives (`Keeps`: the link is up or a clear request is on the way); where they do not, something else may stand
  in their place, for `recv` still has to find whole messages in what it queued before the call ended (`Way`).
  `Half` adds that who wrote a clear request is over and so sends nothing after it. `HandledConveys` says of one circuit, handler
  by handler, that it writes a prefix of the send queue or no data, and queues the data it reads.
  `FirstWhole` is why `pop_complete_data` is right: the first chunk without the more bit
  ends the first message with data. `DeliversAlways` assumes `Sendable`, that no message is empty:
  `send` cuts an empty one into no packets, and the other end never hears of it.

Those about numbers, queues and data have the hypothesis `resets = 0`, "no application has called
`reset` yet", in the statement, and need it: an application's reset is a reset request
on the wire, and `QueuedDataWaitsForWindow` fails after one (`ResetStrandsQueue.cfg`). No engine asks for a reset
by itself before: that is what `NeverOutOfStep` says.

`XotLinkProofs`, for packets of any length and any cutting of the stream:

* `AlwaysInStep` rests on `LinkInv`: what was returned, framed, then `recv_buf`, then what is under way, is what was
  written. `FrameDecodes` and `DecodedFrame` say that a length in two octets reads back and that `decode` takes exactly
  one frame.
* `XotLinkTypes` bounds `recv_buf`: `WaitInv` says that the reader reads on only with an unfinished frame.
* `ShutdownLosesNothingAlways` and `LinkImplementsChannel` go packet by packet (`OrderInv`): a frame that `decode`
  finds at the front is the next one written. Their hypothesis `Recognisable` is that `decode` refuses at once
  whatever another program writes instead of a frame, as it does every wrong version and
  length (the instance checked has both): a header that promises more than follows would
  swallow the next frame, and no receiver could tell.

`PadProofs`, for any text, packet size, parameters and number of operations:

* `NothingTypedIsLostAlways`: `SendInv` is the property with the types and program counters under which it is
  kept; `PutAll` goes through `Pad::write`'s loop octet by octet (`PutOne`), with a packet sent in
  the middle of the text or a circuit that has ended.
* `SleepingReaderHasNothingAlways`: `SleepInv` includes the gap, as above.
* `AnswersMatchAlways`: `AskInv` counts the questions on the way, the answers in `inbox` and the slot; at most
  one question is open, since `indicate_channel` is emptied only by its answer, in time or late. The hypothesis
  `OnlyAnswers` is that the other PAD answers what it was asked and nothing else: an indication nobody asked for is taken
  for the answer, as X.29 gives it nothing to tell it by.
* `PadTypes`.

`UserPadProofs`: `DataStateHasCallAlways` (what makes the `unwrap` of `current_call` safe for an octet typed in data
state: once a call is taken away, either the state is left or no octet can follow), `EveryCallIsReadAlways`,
`ConnectedBeforeDataAlways` (every call announced in the channel, and every call that is read, has been told of or
will be before), `UserPadTypes`. And of the parameters, for every octet and value: `SetKeepsAdmitted` (no request
of the other PAD takes a parameter out of what its type admits, or adds one), `AcceptedIsSet` (a setting that is not
refused is in effect, which is why silence may mean so), `ControlsForward` (the classes of
`is_match` leave out no control character).

Where data has to be gone through one by one (the frames of a stream, the octets of a text), the proofs take the
least index at which the claim fails (`LeastNumber`), as the library's induction theorems
cannot be instantiated here; what `FlattenSeq` and the loop of `Pad::write` compute follows the same
way from the equations of their recursive functions. Invariants that quantify over unbounded sequences of messages are
proved and not checked by TLC; the named properties are both.

Only model-checked:

* all liveness and what needs `ENABLED`;
* of `X25Call`, what is said of a call that was reset: `ReceivedInOrder` and `ResetsLeaveStep`, whose
  invariant would have to tell the packets of before each of several crossing resets from those after;
* `PadCall` with its refinement `CarriesOctets`, which relates two PADs and the channel between them;
* `Codec`, whose decoders are sets of results built by folds.

## What the model shows of the code

The run of the project that ends in a violation:

* **An end is taken for another's** (`stale_end`). The user clears a call; its remote thread sends the
  end later, when the listener has already accepted the next call. The main loop takes that one
  from `current_call`, prints that it was cleared, and drops it: it stays open, nobody
  can clear it, and its announcement meets the `unwrap` below.

Further configurations, each of which ends in the violation named, kept to show
where promises of the code stop. Where no file has the name, replace the properties of the
file given by the one in the third column.

| configuration | module | violates | what happens |
|---|---|---|---|
| `PadEndMissed.cfg` | `MCPad` | `EndReachesReader` | the pad thread stores and tells the end without the mutex that `Pad::read` holds between its check and its wait, where a comment says that nothing can be missed, pad.rs:152 |
| `Codec.cfg` with | `MCCodec` | `EveryRequestAnswered` | a parameter above 127 is decoded and served, and its answer cannot be encoded: the pad thread panics, with the parameters locked if it was a Set, x29.rs:198 |
| `CallTimerLost.cfg` | `MCX25VcThreads` | `CallRequestTimesOut` | `Svc::call` notifies `engine_wait` while the engine is between choosing its 100 000 s and waiting; a silent peer is never timed out, vc.rs:646 |
| `RecvNotWoken.cfg` | `MCX25VcThreads` | `ReceiversReleased` | the end of the call is notified between `recv`'s check and its wait, vc.rs:442 |
| `StaleEnd.cfg` with | `MCUserPad` | `AnnouncedCallIsThere` | input ends, or a clear is typed ahead, before the announcement of a call just accepted: `unwrap` of `None`, user_pad.rs:193 |
| `StaleEnd.cfg` with | `MCUserPad` | `ListenerSurvives` | a caller gives up before `accept().unwrap()`; the listener panics with `current_call` locked and the next input ends the program, user_pad.rs:152 |
| `StaleEnd.cfg` with | `MCUserPad` | `LineIsOfCall` | a line edited in one call and not finished is sent in the next, user_pad.rs:441 |
| `ResetTimerUnarmed.cfg` | `MCX25VcThreads` | `ResetRequestTimesOut` | a reset the engine asks for itself leaves the old timeout (100 000 s) in place, vc.rs:710-770 |
| `ClearTimerPostponed.cfg` | `MCX25VcThreads` | `ClearRequestTimesOut` | ignored packets set the timeout anew, vc.rs:809 |
| `SendRacesClear.cfg` | `MCX25VcThreads` | `SendFindsDataTransfer` | `send` panics if the state changes after `is_connected`, vc.rs:373, 949 |
| `RecvRacesClear.cfg` | `MCX25VcThreads` | `RecvFindsKnownState` | `recv` panics in `WaitClearConfirm`, vc.rs:434 |
| `RecvRacesClear.cfg` with `Ops <- MCResetOps`, `PeerPackets <- MCClearer` and | `MCX25VcThreads` | `ResetFindsKnownState` | `reset` panics if the peer clears, vc.rs:476 |
| `ListenRacesClear.cfg` | `MCX25VcThreads` | `ListenFindsKnownState` | `listen` panics if the caller clears at once, vc.rs:196 |
| `ResetStrandsQueue.cfg` | `MCX25Call` | `QueuedDataWaitsForWindow` | queued data is not sent after a reset until something else happens, vc.rs:779 |
| `ClearCollision.cfg` | `MCX25Call` | `ClearReturns` | clears that cross end in a `todo!()`, vc.rs:817 |
| `X25VcWindowAssert.cfg` | `MCX25Vc` | `WindowAssertionHolds` | a local window larger than the negotiated modulo admits, seq.rs:37 |

Read and not stated as a property: nobody wakes `flush` when a call ends (vc.rs:514); T22
and T23 do not notify `recv`; a reset may leave a fragment with the more bit in
`recv_data_queue`, to which the next message is appended; `Called` and `WaitCallAccept` answer a
clear request with no confirmation (vc.rs:670, 692), and `SvcIncomingCall::clear` never shuts
the link; a packet that cannot be decoded ends the engine (vc.rs:622); the idle thread of a
call outlives it, as it ends only when a send fails; an answer that comes after
`recv_timeout` kills the pad thread with `indicate_channel` poisoned (pad.rs:100), and the
next question panics at pad.rs:446 or 449. In `UserPad`, likewise states and no property:
clearing, leaving or ending input on a call that has just ended panics (vc.rs:214); so do
a command line that is not UTF-8, as when half a character was deleted (user_pad.rs:652), and a
selection with facilities, several or abbreviated addresses (user_pad.rs:515-525); the `set` command reports the valid settings, not
the invalid ones its comment names (user_pad.rs:336); the main loop keeps a sender of its own
channel, so that `recv` never fails and a PAD without call or listener does not
end with its input (user_pad.rs:181). In the codecs: a selection without a leading hyphen takes user
data with a hyphen in it for facilities (selection.rs:53); a selection typed without CALL is put in
upper case and cut at its first blank (command.rs:30, 81), so that its user data and abbreviated
addresses arrive changed; what follows the facilities of a clear confirmation is ignored;
asking the other PAD for a parameter above 127 panics here (x29.rs:161).

## Not modelled

* X.28 signals: text printed for the user. `UserPad` has which are printed only where a
  property needs it (`Connected`).
* The XOT resolver (`xot/resolver.rs`) maps an address to a host name by a list of regular
  expressions and asks DNS; it has no state and its result is only passed to TCP connect.
* `main.rs` reads the command line into parameters; they are inside the bounds of the models.
* `host_pad.rs` is a `todo!()`; the fuzz targets drive the decoders, which are modelled.

## Plan

Done, in this order: the window, the circuit, its threads, two ends, the link, the
PAD, the user PAD, two PADs on a call, the codecs, the parameters and X.28 parsing; then the proofs above, the
circuit's and the window's first. Next:

1. `X25Call`: `ResetsLeaveStep` and `ReceivedInOrder` as theorems. `InStep` and `Way` give the order of the
   packets between two resets; what is missing is what crossing resets leave of each.
2. `UserPad`: an abstract specification, one call at a time and each signal of the call it
   happened to, which the code implements as long as no end is stale.
