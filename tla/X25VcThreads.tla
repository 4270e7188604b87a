---------------------------- MODULE X25VcThreads ----------------------------
(***************************************************************************)
(* The threads around one virtual circuit (libxotpad/src/x25/vc.rs): the   *)
(* engine (VcInner::run), the thread that reads the link, and application  *)
(* threads that share clones of the Svc.  X25Vc gives what each does with  *)
(* the state mutex held; this module gives the order in which they do it,  *)
(* the mutexes of the three queues and the condition variables.            *)
(*                                                                         *)
(* Waiting on the state's condition variable is a guard on the state:      *)
(* change_state notifies with the mutex held, so no such wakeup is lost.   *)
(* engine_wait and the condition variables of the two data queues are      *)
(* modelled as such, for they are notified without their mutex.            *)
(***************************************************************************)
EXTENDS X25Vc

CONSTANTS
    Threads,    \* application threads
    Opener,     \* the one that makes or takes the call
    Roles,      \* which of the two it may do: "call", "listen"
    Ops,        \* what each thread does with the circuit, once it is open
    Malformed,  \* whether the peer may send no frame, or no packet in it
    MaxInput    \* bound: packets in the engine's recv_queue

ASSUME ThreadAssumption ==
    /\ Opener \in Threads /\ Roles \subseteq {"call", "listen"} /\ Malformed \in BOOLEAN
    /\ Ops \in [Threads -> SUBSET {"send", "recv", "flush", "reset", "clear"}]
    /\ MaxInput \in Nat

VARIABLES
    engine,     \* where the engine's loop is
    armed,      \* whether its wait ends by itself within a timer's time
    inq,        \* recv_queue
    reading,    \* whether the reader thread still runs
    pc          \* where each application thread is

threadVars == <<engine, armed, inq, reading, pc>>
vars == <<vcVars, threadVars>>

LinkErr     == [type |-> "LinkErr"]
Undecodable == [type |-> "Undecodable"]
Inputs      == PeerPackets \cup (IF Malformed THEN {Undecodable} ELSE {})

Init ==
    /\ VcInit
    /\ engine = "woken" /\ armed = FALSE
    /\ inq = <<>> /\ reading = TRUE
    /\ \E role \in Roles :
          pc = [t \in Threads |-> IF t = Opener THEN role ELSE "unborn"]

-----------------------------------------------------------------------------
(* Mutexes and condition variables. *)

(* Between its check and its wait a thread keeps the queue's mutex only. *)
RecvQueueFree == \A t \in Threads : pc[t] # "recv gap"
SendQueueFree == \A t \in Threads : pc[t] # "flush gap"

LocksHeld == /\ recvq' # recvq => RecvQueueFree
             /\ sendq' # sendq => SendQueueFree

(* engine_wait.notify_all(): nothing, unless the engine is in its wait. *)
NotifyEngine == engine' = IF engine = "wait" THEN "woken" ELSE engine

(* Threads waiting for data and for the send queue, woken. *)
Notified(p, recvs, sends) ==
    [t \in Threads |-> CASE p[t] = "recv wait" /\ recvs  -> "recv"
                         [] p[t] = "flush wait" /\ sends -> "flush"
                         [] OTHER -> p[t]]

(* Slip: the condition variable is never notified. *)
NeverNotified == FALSE

(* queue_recv_data notifies after queueing, send_queued_data after sending. *)
Queued == Len(recvq') > Len(recvq)
Sent   == Len(sendq') < Len(sendq)

Moves(t, to) == pc' = [pc EXCEPT ![t] = to]

-----------------------------------------------------------------------------
(* The engine and the reader.  The engine owns recv_queue except in its    *)
(* wait, so the reader only gets to push when the engine is in or just out *)
(* of it.                                                                  *)

(* One turn of the loop up to the wait, on the packet at the front if any. *)
EngineTurn ==
    /\ engine = "woken"
    /\ LET pkt == IF inq = <<>> THEN NoPacket ELSE Head(inq)
       IN  /\ pkt \notin {LinkErr, Undecodable}
           /\ HandleInPacket(pkt)
           /\ LocksHeld
           /\ armed' = TimerArmed
           /\ inq' = IF inq = <<>> THEN inq ELSE Tail(inq)
           /\ engine' = IF state' \in {"Cleared", "OutOfOrder"} THEN "done"
                        ELSE IF inq' # <<>> THEN "woken" ELSE "gap"
           /\ pc' = Notified(pc, Queued \/ (pkt.type = "ClearRequest" /\ IsConnected),
                             Sent)
    /\ UNCHANGED reading

(* Slip: what was received is dropped with the connection. *)
EngineLinkErrorDrops ==
    /\ engine = "woken" /\ inq # <<>> /\ Head(inq) = LinkErr
    /\ OutOfOrder
    /\ recvq' = <<>> /\ UNCHANGED <<params, sendq, wire, panic>>
    /\ inq' = Tail(inq) /\ engine' = "done"
    /\ pc' = Notified(pc, TRUE, FALSE)
    /\ UNCHANGED <<armed, reading>>

(* Slip: the loop is left and the state not changed. *)
EngineLinkErrorLeaves ==
    /\ engine = "woken" /\ inq # <<>> /\ Head(inq) = LinkErr
    /\ inq' = Tail(inq) /\ engine' = "done"
    /\ pc' = Notified(pc, TRUE, FALSE)
    /\ UNCHANGED <<vcVars, armed, reading>>

(* The loop ends on the reader's error ... *)
EngineLinkError ==
    /\ engine = "woken" /\ inq # <<>> /\ Head(inq) = LinkErr
    /\ LinkError
    /\ inq' = Tail(inq) /\ engine' = "done"
    /\ pc' = Notified(pc, TRUE, FALSE)
    /\ UNCHANGED <<armed, reading>>

(* ... and dies, without the state mutex, on what it cannot decode. *)
EngineDecodeError ==
    /\ engine = "woken" /\ inq # <<>> /\ Head(inq) = Undecodable
    /\ inq' = Tail(inq) /\ engine' = "dead"
    /\ UNCHANGED <<vcVars, armed, reading, pc>>

EngineWait ==
    /\ engine = "gap"
    /\ engine' = "wait"
    /\ UNCHANGED <<vcVars, armed, inq, reading, pc>>

(* The wait times out, or ends for no reason. *)
EngineWakes ==
    /\ engine = "wait"
    /\ engine' = "woken"
    /\ UNCHANGED <<vcVars, armed, inq, reading, pc>>

PeerSends ==
    /\ reading /\ link = "up"
    /\ engine \in {"wait", "woken"} /\ Len(inq) < MaxInput
    /\ \E pkt \in Inputs :
          /\ pkt.type = "Data" => Len(recvq) + Len(inq) < MaxRecvQueue
          /\ inq' = Append(inq, pkt)
    /\ NotifyEngine
    /\ UNCHANGED <<vcVars, armed, reading, pc>>

(* The reader ends with the connection, and on what decode takes for no    *)
(* frame.                                                                  *)
ReaderFails ==
    /\ reading /\ (link = "down" \/ Malformed)
    /\ engine \in {"wait", "woken"}
    /\ inq' = Append(inq, LinkErr) /\ reading' = FALSE
    /\ NotifyEngine
    /\ UNCHANGED <<vcVars, armed, pc>>

-----------------------------------------------------------------------------
(* Opening: Svc::call, or Svc::listen_timeout and SvcIncomingCall. *)

(* A thread that ends with a usable circuit lets the others have clones. *)
Opens(t) == pc' = [u \in Threads |-> IF u = t \/ pc[u] = "unborn" THEN "idle" ELSE pc[u]]

StartCall(t) ==
    /\ pc[t] = "call"
    /\ Call \/ CallRefused
    /\ Moves(t, IF state' = "WaitCallAccept" THEN "calling" ELSE "gone")
    /\ NotifyEngine
    /\ UNCHANGED <<armed, inq, reading>>

EndCall(t) ==
    /\ pc[t] = "calling" /\ state # "WaitCallAccept" /\ RecvQueueFree
    /\ \/ CallOutcome = "ok" /\ Opens(t) /\ UNCHANGED vcVars
       \/ CallOutcome \notin {"ok", "panic"} /\ Moves(t, "gone") /\ UNCHANGED vcVars
       \/ CallPanics /\ UNCHANGED pc
    /\ UNCHANGED <<engine, armed, inq, reading>>

EndListen(t) ==
    /\ pc[t] = "listen" /\ state # "Ready"
    /\ \/ ListenOutcome = "ok" /\ Moves(t, "incoming") /\ UNCHANGED vcVars
       \/ ListenOutcome = "out of order" /\ Moves(t, "gone") /\ UNCHANGED vcVars
       \/ ListenPanics /\ UNCHANGED pc
    /\ UNCHANGED <<engine, armed, inq, reading>>

ListenTimesOut(t) ==
    /\ pc[t] = "listen" /\ state = "Ready"
    /\ Shutdown
    /\ Moves(t, "gone")
    /\ UNCHANGED <<engine, armed, inq, reading>>

Answer(t) ==
    /\ pc[t] = "incoming"
    /\ \/ /\ Accept
          /\ IF state' = "OutOfOrder" THEN Moves(t, "gone") ELSE Opens(t)
          /\ NotifyEngine
       \/ Reject /\ Moves(t, "gone") /\ NotifyEngine
       \/ state # "Called" /\ Moves(t, "gone") /\ UNCHANGED <<vcVars, engine>>
    /\ UNCHANGED <<armed, inq, reading>>

-----------------------------------------------------------------------------
(* Using the open circuit. *)

(* A thread starts an operation.  send looks at the state here, under a    *)
(* lock it gives up before it queues.                                      *)
Begin(t) ==
    /\ pc[t] = "idle"
    /\ \/ "send" \in Ops[t] /\ IsConnected /\ Moves(t, "push")
       \/ "recv" \in Ops[t] /\ Moves(t, "recv")
       \/ "flush" \in Ops[t] /\ Moves(t, "flush")
    /\ UNCHANGED <<vcVars, engine, armed, inq, reading>>

Push(t) ==
    /\ pc[t] = "push" /\ SendQueueFree
    /\ \E m \in Messages : SendPush(m)
    /\ Moves(t, "kick")
    /\ UNCHANGED <<engine, armed, inq, reading>>

Kick(t) ==
    /\ pc[t] = "kick"
    /\ SendKick
    /\ LocksHeld
    /\ pc' = Notified([pc EXCEPT ![t] = "idle"], FALSE, Sent)
    /\ UNCHANGED <<engine, armed, inq, reading>>

Recv(t) ==
    /\ pc[t] = "recv" /\ RecvQueueFree
    /\ \/ RecvOutcome = "data" /\ PopCompleteData /\ Moves(t, "idle")
       \/ RecvOutcome = "wait" /\ Moves(t, "recv gap") /\ UNCHANGED vcVars
       \/ /\ RecvOutcome \notin {"data", "wait", "panic"}
          /\ Moves(t, "gone") /\ UNCHANGED vcVars
       \/ RecvPanics /\ UNCHANGED pc
    /\ UNCHANGED <<engine, armed, inq, reading>>

Flush(t) ==
    /\ pc[t] = "flush" /\ SendQueueFree
    /\ \/ FlushOutcome = "ok" /\ Moves(t, "idle") /\ UNCHANGED vcVars
       \/ FlushOutcome = "wait" /\ Moves(t, "flush gap") /\ UNCHANGED vcVars
       \/ /\ FlushOutcome \notin {"ok", "wait", "panic"}
          /\ Moves(t, "gone") /\ UNCHANGED vcVars
       \/ FlushPanics /\ UNCHANGED pc
    /\ UNCHANGED <<engine, armed, inq, reading>>

(* From check to wait, and out of the wait for no reason. *)
Wait(t) ==
    /\ \/ pc[t] = "recv gap" /\ Moves(t, "recv wait")
       \/ pc[t] = "flush gap" /\ Moves(t, "flush wait")
    /\ UNCHANGED <<vcVars, engine, armed, inq, reading>>

SpuriousWake(t) ==
    /\ \/ pc[t] = "recv wait" /\ Moves(t, "recv")
       \/ pc[t] = "flush wait" /\ Moves(t, "flush")
    /\ UNCHANGED <<vcVars, engine, armed, inq, reading>>

StartReset(t) ==
    /\ pc[t] = "idle" /\ "reset" \in Ops[t]
    /\ Reset
    /\ Moves(t, "resetting")
    /\ NotifyEngine
    /\ UNCHANGED <<armed, inq, reading>>

EndReset(t) ==
    /\ pc[t] = "resetting" /\ state # "WaitResetConfirm"
    /\ \/ ResetOutcome = "ok" /\ Moves(t, "idle") /\ UNCHANGED vcVars
       \/ ResetOutcome \notin {"ok", "panic"} /\ Moves(t, "gone") /\ UNCHANGED vcVars
       \/ ResetPanics /\ UNCHANGED pc
    /\ UNCHANGED <<engine, armed, inq, reading>>

StartClear(t) ==
    /\ pc[t] = "idle" /\ "clear" \in Ops[t]
    /\ Clear
    /\ Moves(t, "clearing")
    /\ NotifyEngine
    /\ UNCHANGED <<armed, inq, reading>>

(* Only a clear that was confirmed wakes the receivers ... *)
EndClear(t) ==
    /\ pc[t] = "clearing" /\ state # "WaitClearConfirm"
    /\ \/ ClearOutcome = "ok" /\ pc' = Notified([pc EXCEPT ![t] = "closing"], TRUE, FALSE)
          /\ UNCHANGED vcVars
       \/ ClearOutcome = "out of order" /\ Moves(t, "gone") /\ UNCHANGED vcVars
       \/ ClearPanics /\ UNCHANGED pc
    /\ UNCHANGED <<engine, armed, inq, reading>>

(* ... and shuts the connection down. *)
Close(t) ==
    /\ pc[t] = "closing"
    /\ Shutdown
    /\ Moves(t, "gone")
    /\ UNCHANGED <<engine, armed, inq, reading>>

(* What a thread does by itself once it has begun an operation. *)
Continues(t) ==
    \/ StartCall(t) \/ EndCall(t) \/ EndListen(t) \/ Answer(t)
    \/ Push(t) \/ Kick(t) \/ Recv(t) \/ Flush(t) \/ Wait(t)
    \/ EndReset(t) \/ EndClear(t) \/ Close(t)

World == (Elapse \/ LinkBreaks) /\ UNCHANGED threadVars

EngineStep == EngineTurn \/ EngineLinkError \/ EngineDecodeError \/ EngineWait

ThreadNext ==
    /\ panic = "no"
    /\ \/ EngineStep
       \/ EngineWakes
       \/ PeerSends
       \/ ReaderFails
       \/ \E t \in Threads :
             \/ Continues(t) \/ ListenTimesOut(t) \/ Begin(t)
             \/ SpuriousWake(t) \/ StartReset(t) \/ StartClear(t)
       \/ World

(* The scheduler runs every thread that can go on and gives the engine and *)
(* the reader a mutex that is free again and again (strong fairness), a    *)
(* wait with a timer in it ends, time passes.  Nothing is assumed of the   *)
(* peer, of the application's choices, of spurious wakeups or of the       *)
(* 100 000 s wait.                                                         *)
Fairness ==
    /\ SF_vars(panic = "no" /\ EngineStep)
    /\ WF_vars(panic = "no" /\ armed /\ EngineWakes)
    /\ SF_vars(panic = "no" /\ link = "down" /\ ReaderFails)
    /\ WF_vars(panic = "no" /\ Elapse /\ UNCHANGED threadVars)
    /\ \A t \in Threads : WF_vars(panic = "no" /\ Continues(t))

ThreadSpec == Init /\ [][ThreadNext]_vars /\ Fairness

-----------------------------------------------------------------------------
(* Properties. *)

OpenerPcs == {"call", "listen", "calling", "incoming"}
RecvPcs   == {"recv", "recv gap", "recv wait"}
FlushPcs  == {"flush", "flush gap", "flush wait"}

(* The circuit's types hold and every thread is at a point of its code.    *)
ThreadTypeOK ==
    /\ TypeOK
    /\ engine \in {"woken", "gap", "wait", "done", "dead"}
    /\ armed \in BOOLEAN /\ reading \in BOOLEAN
    /\ inq \in Seq(Inputs \cup {LinkErr}) /\ Len(inq) <= MaxInput + 1
    /\ pc \in [Threads -> OpenerPcs \cup RecvPcs \cup FlushPcs \cup
                {"unborn", "idle", "push", "kick", "resetting", "clearing",
                 "closing", "gone"}]

(* No wakeup is lost while there is something to do: a thread asleep in    *)
(* Vc::recv has no complete message waiting for it, although               *)
(* queue_recv_data notifies only once and the thread looks at the queue    *)
(* before it sleeps; one asleep in Vc::flush has something left to wait    *)
(* for.                                                                    *)
SleepersHaveCause ==
    /\ (\E t \in Threads : pc[t] = "recv wait") => ~HasCompleteData
    /\ (\E t \in Threads : pc[t] = "flush wait") => sendq # <<>>

(* Svc::call and Svc::clear return a result whatever happened to the       *)
(* circuit before the waiting thread got to look at the state: their       *)
(* panic!("unexpected state") is unreachable.                              *)
ResultsExpected == panic \notin {"call result", "clear result"}

(* When an incoming call cannot be answered any more the caller gave up or *)
(* the link is out of order, as the error of SvcIncomingCall::accept and   *)
(* clear says: nothing else happens to a call between listen and answer.   *)
FailedAnswerExplained ==
    pc[Opener] = "incoming" =>
        \/ state \in {"Called", "OutOfOrder"}
        \/ state = "Cleared" /\ initiator = "Remote"

(* No circuit without an engine: once the loop of VcInner::run has been    *)
(* left, no thread of the application brings the circuit out of its final  *)
(* states again, where nobody would handle the peer's packets.             *)
EngineServes == engine = "done" => Terminal

(* Whatever the threads do is, for the circuit, a critical section of      *)
(* X25Vc: what holds of X25Vc!Spec for any number of threads holds here.   *)
ImplementsVc == Spec

Stopped == panic # "no" \/ engine = "dead"

(* The loss of the connection ends the circuit, wherever the engine and    *)
(* the reader are when it happens, and releases whoever is blocked in      *)
(* call, reset or clear.                                                   *)
LinkLossReleases ==
    /\ link = "down" ~> (Terminal \/ Stopped)
    /\ \A t \in Threads :
          (pc[t] \in {"calling", "resetting", "clearing"} /\ link = "down")
              ~> (pc[t] \notin {"calling", "resetting", "clearing"} \/ Stopped)

(* A call that T21 or T22 gave up on is over in the end, confirmed or not, *)
(* unless the peer never stops sending.                                    *)
TimedOutCallEnds ==
    \/ []<><<PeerSends>>_vars
    \/ (state = "WaitClearConfirm" /\ initiator = "TimeOut") ~> (Terminal \/ Stopped)

-----------------------------------------------------------------------------
(* What the repository says of the program and the program does not do;    *)
(* the README's findings tell how each fails.                              *)

(* "The _call request_ timeout" (x25/params.rs): a call that is not        *)
(* answered times out.                                                     *)
CallRequestTimesOut ==
    state = "WaitCallAccept" ~> (state # "WaitCallAccept" \/ Stopped)

(* "The _reset request_ timeout" (x25/params.rs): a reset that is not      *)
(* confirmed times out.                                                    *)
ResetRequestTimesOut ==
    state = "WaitResetConfirm" ~> (state # "WaitResetConfirm" \/ Stopped)

(* "The _clear request_ timeout" (x25/params.rs): the clear request sent   *)
(* when a call or reset timed out is given up in its turn, whatever else   *)
(* the peer sends.                                                         *)
ClearRequestTimesOut ==
    (state = "WaitClearConfirm" /\ initiator = "TimeOut") ~> (Terminal \/ Stopped)

(* send_queued_data is called in the data transfer state only              *)
(* (its panic!("unexpected state")).                                       *)
SendFindsDataTransfer == panic # "send_queued_data"

(* Vc::recv finds a connected or an ended circuit (its panic).             *)
RecvFindsKnownState == panic # "recv"

(* Vc::reset finds its reset confirmed, timed out or the link lost.        *)
ResetFindsKnownState == panic # "reset result"

(* Svc::listen_timeout finds a call or the link lost.                      *)
ListenFindsKnownState == panic # "listen result"

(* "there may be another thread waiting on recv" (Svc::clear): a thread    *)
(* waiting in Vc::recv is released once the circuit has ended.             *)
ReceiversReleased ==
    \A t \in Threads :
        (pc[t] \in RecvPcs /\ Terminal) ~> (pc[t] \notin RecvPcs \/ Stopped)
=============================================================================
