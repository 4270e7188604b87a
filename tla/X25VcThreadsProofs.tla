------------------------ MODULE X25VcThreadsProofs --------------------------
(***************************************************************************)
(* The threads of X25VcThreads: whatever they do is for the circuit a      *)
(* critical section of X25Vc, no wakeup is lost that has a cause, and what *)
(* the circuit's state can be when a thread gets to look at it again - for *)
(* any number of threads and an arbitrary peer.  Last, what the window     *)
(* they share does by itself (X25Window).                                  *)
(***************************************************************************)
EXTENDS X25VcThreads, X25VcProofs, X25Window

-----------------------------------------------------------------------------
(* What a step of the circuit does to the queues. *)

Queueing      == \E e : recvq' = Append(recvq, e)
Unqueueing    == \E n \in 0 .. Len(sendq) : sendq' = SubSeq(sendq, n + 1, Len(sendq))

LEMMA HandledQueues ==
    ASSUME NEW pkt, HandleInPacket(pkt)
    PROVE  /\ recvq' = recvq \/ (pkt.type = "Data" /\ Queueing)
           /\ sendq' = sendq \/ Unqueueing
<1>1. CASE InReady(pkt) \/ InCalled(pkt)
  BY <1>1 DEF InReady, InCalled
<1>2. CASE InWaitCallAccept(pkt)
  BY <1>2 DEF InWaitCallAccept
<1>3. CASE InDataTransfer(pkt)
  <2>1. CASE pkt.type = "Data" /\ InData(pkt)
    <3>1. CASE UNCHANGED <<sendq, recvq>>
      BY <3>1
    <3>2. CASE /\ QueueRecvData(pkt)
               /\ \/ UNCHANGED sendq
                  \/ \E n \in 0 .. Len(sendq) :
                        SendQueuedData(Counted(Acknowledged(dts, pkt.recv_seq)), n)
      BY <2>1, <3>2 DEF QueueRecvData, SendQueuedData, Queueing, Unqueueing
    <3> QED BY <2>1, <3>1, <3>2 DEF InData
  <2>2. CASE InReceiveReady(pkt) /\ UNCHANGED recvq
    BY <2>2 DEF InReceiveReady, SendQueuedData, Unqueueing
  <2>3. CASE UNCHANGED <<sendq, recvq>>
    BY <2>3
  <2> QED BY <1>3, <2>1, <2>2, <2>3 DEF InDataTransfer
<1>4. CASE InWaitResetConfirm(pkt) \/ InWaitClearConfirm(pkt) \/ InTerminal
  BY <1>4 DEF InWaitResetConfirm, InWaitClearConfirm, InTerminal, vcVars
<1> QED BY <1>1, <1>2, <1>3, <1>4 DEF HandleInPacket

LEMMA KickedQueue ==
    ASSUME SendKick
    PROVE  recvq' = recvq /\ (sendq' = sendq \/ Unqueueing)
  BY DEF SendKick, Panic, SendQueuedData, Unqueueing

(* What is sent from a queue leaves it shorter. *)
LEMMA UnqueuedIsShorter ==
    ASSUME sendq \in Seq(SendData), Unqueueing
    PROVE  sendq' = sendq \/ Len(sendq') < Len(sendq)
<1>1. PICK n \in 0 .. Len(sendq) : sendq' = SubSeq(sendq, n + 1, Len(sendq))
  BY DEF Unqueueing
<1>2. Len(sendq') = Len(sendq) - n /\ Len(sendq) \in Nat
  BY <1>1, SuffixIs
<1>3. CASE n = 0
  <2>1. SubSeq(sendq, 1, Len(sendq)) = sendq
    BY SubSeqFull
  <2> QED BY <1>1, <1>3, <2>1
<1>4. CASE n # 0
  BY <1>2, <1>4
<1> QED BY <1>3, <1>4

-----------------------------------------------------------------------------
(* Types.  A data packet in recv_queue has room in recv_data_queue: the    *)
(* bound of the model, which X25Vc puts on the engine's turn, holds for    *)
(* what the reader pushed before.                                          *)

InputsOK == /\ engine \in {"woken", "gap", "wait", "done", "dead"}
            /\ armed \in BOOLEAN /\ reading \in BOOLEAN
            /\ inq \in Seq(Inputs \cup {LinkErr})
            /\ Len(inq) <= IF reading THEN MaxInput ELSE MaxInput + 1
            /\ \A i \in 1 .. Len(inq) :
                  inq[i].type = "Data" => Len(recvq) + i <= MaxRecvQueue

Pcs == OpenerPcs \cup RecvPcs \cup FlushPcs \cup
           {"unborn", "idle", "push", "kick", "resetting", "clearing", "closing", "gone"}

PcsOK == pc \in [Threads -> Pcs]

(* The engine handles what the peer may send, or nothing. *)
LEMMA HandledInput ==
    ASSUME IInv, InputsOK, NEW pkt, pkt = IF inq = <<>> THEN NoPacket ELSE Head(inq),
           pkt \notin {LinkErr, Undecodable}
    PROVE  /\ pkt \in PeerPackets \cup {NoPacket}
           /\ pkt.type = "Data" => Len(recvq) < MaxRecvQueue
<1>0. inq \in Seq(Inputs \cup {LinkErr})
  BY DEF InputsOK
<1>1. CASE inq = <<>>
  BY <1>1 DEF NoPacket
<1>2. CASE inq # <<>>
  <2>1. Head(inq) \in Inputs \cup {LinkErr} /\ Head(inq) = inq[1] /\ 1 \in 1 .. Len(inq)
    BY <1>0, <1>2, TailIs
  <2>2. pkt \in PeerPackets
    BY <1>2, <2>1 DEF Inputs
  <2>3. pkt.type = "Data" => Len(recvq) + 1 <= MaxRecvQueue
    BY <1>2, <2>1 DEF InputsOK
  <2>4. Len(recvq) \in Nat /\ MaxRecvQueue \in Nat
    BY BoundAssumption DEF IInv, QueuesOK
  <2> QED BY <2>2, <2>3, <2>4
<1> QED BY <1>1, <1>2

(* Each step of the threads is a step of the circuit, or none. *)
LEMMA CircuitStep ==
    ASSUME IInv, InputsOK, [ThreadNext]_vars
    PROVE  [Next]_vcVars
<1>1. CASE UNCHANGED vars
  BY <1>1 DEF vars
<1>2. CASE ThreadNext
  <2> USE <1>2 DEF Next
  <2>0. panic = "no"
    BY DEF ThreadNext
  <2>1. CASE EngineTurn
    <3> DEFINE pkt == IF inq = <<>> THEN NoPacket ELSE Head(inq)
    <3>1. pkt \notin {LinkErr, Undecodable} /\ HandleInPacket(pkt)
      BY <2>1 DEF EngineTurn
    <3> HIDE DEF pkt
    <3>2. pkt \in PeerPackets \cup {NoPacket} /\ (pkt.type = "Data" => Len(recvq) < MaxRecvQueue)
      BY <3>1, HandledInput DEF pkt
    <3> QED BY <2>0, <3>1, <3>2 DEF Engine
  <2>2. CASE EngineLinkError
    BY <2>0, <2>2 DEF EngineLinkError, Engine
  <2>3. CASE UNCHANGED vcVars
    BY <2>3
  <2>4. CASE EngineDecodeError \/ EngineWait \/ EngineWakes \/ PeerSends \/ ReaderFails
    BY <2>3, <2>4 DEF EngineDecodeError, EngineWait, EngineWakes, PeerSends, ReaderFails
  <2>5. CASE World
    BY <2>0, <2>5 DEF World
  <2>6. ASSUME NEW t \in Threads,
               \/ Continues(t) \/ ListenTimesOut(t) \/ Begin(t)
               \/ SpuriousWake(t) \/ StartReset(t) \/ StartClear(t)
        PROVE  [Next]_vcVars
    <3>1. CASE StartCall(t) \/ StartReset(t) \/ StartClear(t)
      BY <2>0, <3>1 DEF StartCall, StartReset, StartClear, Application
    <3>2. CASE EndCall(t) \/ EndListen(t) \/ EndReset(t) \/ EndClear(t)
      BY <2>0, <3>2 DEF EndCall, EndListen, EndReset, EndClear, Application
    <3>3. CASE ListenTimesOut(t) \/ Close(t)
      BY <2>0, <3>3 DEF ListenTimesOut, Close, Application
    <3>4. CASE Answer(t)
      BY <2>0, <3>4 DEF Answer, Application
    <3>5. CASE Push(t) \/ Kick(t)
      BY <2>0, <3>5 DEF Push, Kick, Application
    <3>6. CASE Recv(t) \/ Flush(t)
      BY <2>0, <3>6 DEF Recv, Flush, Application
    <3>7. CASE Begin(t) \/ Wait(t) \/ SpuriousWake(t)
      BY <2>3, <3>7 DEF Begin, Wait, SpuriousWake
    <3> QED BY <2>6, <3>1, <3>2, <3>3, <3>4, <3>5, <3>6, <3>7 DEF Continues
  <2> QED BY <2>1, <2>2, <2>4, <2>5, <2>6 DEF ThreadNext, EngineStep
<1> QED BY <1>1, <1>2

(* What a thread's step leaves of the engine's and the reader's variables. *)
ThreadStep(t) == \/ Continues(t) \/ ListenTimesOut(t) \/ Begin(t)
                 \/ SpuriousWake(t) \/ StartReset(t) \/ StartClear(t)

LEMMA ThreadLeaves ==
    ASSUME NEW t \in Threads, ThreadStep(t)
    PROVE  /\ UNCHANGED <<armed, inq, reading>>
           /\ engine' = engine \/ (engine = "wait" /\ engine' = "woken")
           /\ recvq' = recvq \/ PopCompleteData
<1>1. CASE StartCall(t)
  BY <1>1 DEF StartCall, NotifyEngine, Call, CallRefused, Panic
<1>2. CASE StartReset(t)
  BY <1>2 DEF StartReset, NotifyEngine, Reset, Panic
<1>3. CASE StartClear(t)
  BY <1>3 DEF StartClear, NotifyEngine, Clear, Panic
<1>4. CASE EndCall(t) \/ EndListen(t) \/ EndReset(t) \/ EndClear(t)
  BY <1>4 DEF EndCall, EndListen, EndReset, EndClear, vcVars, CallPanics, ListenPanics,
              ResetPanics, ClearPanics, Panic
<1>5. CASE ListenTimesOut(t) \/ Close(t)
  BY <1>5 DEF ListenTimesOut, Close, Shutdown
<1>6. CASE Answer(t)
  BY <1>6 DEF Answer, NotifyEngine, Accept, Reject, vcVars
<1>7. CASE Push(t) \/ Kick(t)
  BY <1>7, KickedQueue DEF Push, Kick, SendPush
<1>8. CASE Recv(t) \/ Flush(t)
  BY <1>8 DEF Recv, Flush, vcVars, RecvPanics, FlushPanics, Panic
<1>9. CASE Begin(t) \/ Wait(t) \/ SpuriousWake(t)
  BY <1>9 DEF Begin, Wait, SpuriousWake, vcVars
<1> QED BY <1>1, <1>2, <1>3, <1>4, <1>5, <1>6, <1>7, <1>8, <1>9 DEF ThreadStep, Continues

LEMMA PoppedIsShorter ==
    ASSUME recvq \in Seq(SendData), PopCompleteData
    PROVE  Len(recvq') <= Len(recvq) /\ Len(recvq') \in Nat
<1>1. CompleteLen \in 1 .. Len(recvq)
  BY CompleteLenType DEF PopCompleteData
<1>2. CompleteLen \in 0 .. Len(recvq)
  BY <1>1
<1>3. Len(SubSeq(recvq, CompleteLen + 1, Len(recvq))) = Len(recvq) - CompleteLen
  BY <1>2, SuffixIs
<1> QED BY <1>2, <1>3 DEF PopCompleteData

LEMMA InputsKept ==
    ASSUME InputsOK, UNCHANGED <<inq, reading>>, armed' \in BOOLEAN, Len(recvq) \in Nat,
           engine' \in {"woken", "gap", "wait", "done", "dead"},
           Len(recvq') <= Len(recvq) /\ Len(recvq') \in Nat
    PROVE  InputsOK'
<1>1. MaxRecvQueue \in Nat /\ Len(inq) \in Nat
  BY BoundAssumption DEF InputsOK
<1>2. \A i \in 1 .. Len(inq) : Len(recvq) + i <= MaxRecvQueue => Len(recvq') + i <= MaxRecvQueue
  BY <1>1
<1> QED BY <1>2 DEF InputsOK

(* The packet at the front of recv_queue is taken. *)
LEMMA InputTaken ==
    ASSUME InputsOK, inq # <<>>, inq' = Tail(inq), reading' = reading, armed' \in BOOLEAN,
           engine' \in {"woken", "gap", "wait", "done", "dead"},
           Len(recvq) \in Nat, Len(recvq') \in Nat, Len(recvq') <= Len(recvq) + 1
    PROVE  InputsOK'
<1>1. inq \in Seq(Inputs \cup {LinkErr}) /\ MaxRecvQueue \in Nat /\ MaxInput \in Nat
  BY BoundAssumption, ThreadAssumption DEF InputsOK
<1>2. /\ inq' \in Seq(Inputs \cup {LinkErr}) /\ Len(inq') = Len(inq) - 1
      /\ Len(inq) \in Nat \ {0}
      /\ \A i \in 1 .. Len(inq) - 1 : inq'[i] = inq[i + 1]
  BY <1>1, TailIs
<1>3. ASSUME NEW i \in 1 .. Len(inq'), inq'[i].type = "Data"
      PROVE  Len(recvq') + i <= MaxRecvQueue
  <2>1. i \in 1 .. Len(inq) - 1 /\ i + 1 \in 1 .. Len(inq) /\ inq[i + 1].type = "Data"
    BY <1>2, <1>3
  <2>2. Len(recvq) + (i + 1) <= MaxRecvQueue
    BY <2>1 DEF InputsOK
  <2> QED BY <1>1, <2>1, <2>2
<1>4. Len(inq') <= IF reading' THEN MaxInput ELSE MaxInput + 1
  BY <1>1, <1>2 DEF InputsOK
<1> QED BY <1>2, <1>3, <1>4 DEF InputsOK

LEMMA InputsStep ==
    ASSUME IInv, InputsOK, [ThreadNext]_vars
    PROVE  InputsOK'
<1>0. /\ recvq \in Seq(SendData) /\ Len(recvq) \in Nat /\ armed \in BOOLEAN /\ reading \in BOOLEAN
      /\ inq \in Seq(Inputs \cup {LinkErr}) /\ MaxInput \in Nat /\ MaxRecvQueue \in Nat
      /\ engine \in {"woken", "gap", "wait", "done", "dead"}
  BY BoundAssumption, ThreadAssumption DEF IInv, QueuesOK, InputsOK
<1>1. ASSUME UNCHANGED <<recvq, armed, inq, reading>>,
             engine' \in {"woken", "gap", "wait", "done", "dead"}
      PROVE  InputsOK'
  BY <1>0, <1>1, InputsKept
<1>2. CASE UNCHANGED vars
  BY <1>0, <1>1, <1>2 DEF vars, vcVars, threadVars
<1>3. CASE EngineTurn
  <2> DEFINE pkt == IF inq = <<>> THEN NoPacket ELSE Head(inq)
  <2>1. /\ HandleInPacket(pkt)
        /\ armed' = TimerArmed
        /\ inq' = IF inq = <<>> THEN inq ELSE Tail(inq)
        /\ engine' \in {"woken", "gap", "done"}
        /\ reading' = reading
    BY <1>3 DEF EngineTurn
  <2>2. armed' \in BOOLEAN
    BY <2>1 DEF TimerArmed
  <2>3. recvq' = recvq \/ (pkt.type = "Data" /\ Queueing)
    <3> HIDE DEF pkt
    <3> QED BY <2>1, HandledQueues
  <2>4. CASE inq = <<>>
    <3>1. recvq' = recvq
      BY <2>3, <2>4 DEF NoPacket
    <3> QED BY <1>0, <2>1, <2>2, <2>4, <3>1, InputsKept
  <2>5. CASE inq # <<>>
    <3>1. Len(recvq') \in Nat /\ Len(recvq') <= Len(recvq) + 1
      <4>1. CASE recvq' = recvq
        BY <1>0, <4>1
      <4>2. CASE Queueing
        <5>1. PICK e : recvq' = Append(recvq, e)
          BY <4>2 DEF Queueing
        <5>2. recvq \in Seq(SendData \cup {e}) /\ e \in SendData \cup {e}
          BY <1>0
        <5>3. Len(recvq') = Len(recvq) + 1
          BY <5>1, <5>2, AppendIs
        <5> QED BY <1>0, <5>3
      <4> QED BY <2>3, <4>1, <4>2
    <3> QED BY <1>0, <2>1, <2>2, <2>5, <3>1, InputTaken
  <2> QED BY <2>4, <2>5
<1>4. CASE EngineLinkError \/ EngineDecodeError
  <2>1. /\ inq # <<>> /\ inq' = Tail(inq) /\ UNCHANGED <<recvq, armed, reading>>
        /\ engine' \in {"done", "dead"}
    BY <1>4 DEF EngineLinkError, EngineDecodeError, LinkError, vcVars
  <2> QED BY <1>0, <2>1, InputTaken
<1>5. CASE EngineWait \/ EngineWakes
  BY <1>0, <1>1, <1>5 DEF EngineWait, EngineWakes, vcVars
<1>6. ASSUME NEW x \in Inputs \cup {LinkErr}, inq' = Append(inq, x),
             UNCHANGED <<recvq, armed>>, reading' \in BOOLEAN,
             engine' \in {"woken", "gap", "wait", "done", "dead"},
             x.type = "Data" => Len(recvq) + Len(inq) < MaxRecvQueue,
             Len(inq) + 1 <= IF reading' THEN MaxInput ELSE MaxInput + 1
      PROVE  InputsOK'
  <2>1. /\ inq' \in Seq(Inputs \cup {LinkErr}) /\ Len(inq') = Len(inq) + 1 /\ Len(inq) \in Nat
        /\ \A i \in 1 .. Len(inq) : inq'[i] = inq[i]
        /\ inq'[Len(inq) + 1] = x
    BY <1>0, <1>6, AppendIs
  <2>2. ASSUME NEW i \in 1 .. Len(inq'), inq'[i].type = "Data" PROVE Len(recvq') + i <= MaxRecvQueue
    <3>1. CASE i \in 1 .. Len(inq)
      BY <1>6, <2>1, <2>2, <3>1 DEF InputsOK
    <3>2. CASE i = Len(inq) + 1
      <4>1. Len(recvq) + Len(inq) < MaxRecvQueue
        BY <1>6, <2>1, <2>2, <3>2
      <4> QED BY <1>0, <1>6, <2>1, <3>2, <4>1
    <3> QED BY <2>1, <3>1, <3>2
  <2> QED BY <1>0, <1>6, <2>1, <2>2 DEF InputsOK
<1>7. CASE PeerSends
  <2>1. PICK pkt \in Inputs : /\ pkt.type = "Data" => Len(recvq) + Len(inq) < MaxRecvQueue
                              /\ inq' = Append(inq, pkt)
    BY <1>7 DEF PeerSends
  <2>2. UNCHANGED <<recvq, armed, reading>> /\ engine' \in {"wait", "woken"} /\ reading
        /\ Len(inq) < MaxInput
    BY <1>7 DEF PeerSends, NotifyEngine, vcVars
  <2> QED BY <1>0, <1>6, <2>1, <2>2
<1>8. CASE ReaderFails
  <2>1. inq' = Append(inq, LinkErr) /\ UNCHANGED <<recvq, armed>> /\ reading' = FALSE /\ reading
        /\ engine' \in {"wait", "woken"}
    BY <1>8 DEF ReaderFails, NotifyEngine, vcVars
  <2>2. LinkErr.type # "Data"
    BY DEF LinkErr
  <2>3. Len(inq) + 1 <= MaxInput + 1
    BY <1>0, <2>1 DEF InputsOK
  <2> QED BY <1>0, <1>6, <2>1, <2>2, <2>3
<1>9. CASE World
  BY <1>0, <1>1, <1>9 DEF World, Elapse, LinkBreaks, threadVars
<1>10. ASSUME NEW t \in Threads, ThreadStep(t) PROVE InputsOK'
  <2>1. /\ UNCHANGED <<armed, inq, reading>> /\ (recvq' = recvq \/ PopCompleteData)
        /\ (engine' = engine \/ engine' = "woken")
    BY <1>10, ThreadLeaves
  <2>2. Len(recvq') <= Len(recvq) /\ Len(recvq') \in Nat
    BY <1>0, <2>1, PoppedIsShorter
  <2> QED BY <1>0, <2>1, <2>2, InputsKept
<1> QED BY <1>2, <1>3, <1>4, <1>5, <1>7, <1>8, <1>9, <1>10 DEF ThreadNext, EngineStep, ThreadStep

-----------------------------------------------------------------------------
(* Where the threads are. *)

(* A thread stays where it is, is woken, or is handed a clone. *)
Stays(u)  == pc'[u] = pc[u]
Woken(u)  == \/ pc[u] = "recv wait" /\ pc'[u] = "recv"
             \/ pc[u] = "flush wait" /\ pc'[u] = "flush"
Handed(u) == pc[u] = "unborn" /\ pc'[u] = "idle"

(* Only the threads that open the circuit are where it is opened. *)
OpenOK == /\ \A t \in Threads : pc[t] \in OpenerPcs => t = Opener
          /\ pc[Opener] \in OpenerPcs => \A t \in Threads \ {Opener} : pc[t] = "unborn"

(* What a thread's step makes of where it and the others are. *)
LEMMA ThreadMoves ==
    ASSUME PcsOK, NEW t \in Threads, ThreadStep(t)
    PROVE  /\ pc' \in [Threads -> Pcs]
           /\ pc[t] # "unborn"
           /\ \/ \A u \in Threads \ {t} : Stays(u) \/ Woken(u)
              \/ pc'[t] = "idle" /\ \A u \in Threads \ {t} : Stays(u) \/ Handed(u)
           /\ pc'[t] \in OpenerPcs => pc[t] \in OpenerPcs
<1> USE DEF PcsOK, Pcs, OpenerPcs, RecvPcs, FlushPcs, Stays, Woken, Handed
<1>1. CASE StartCall(t) \/ EndCall(t)
  BY <1>1 DEF StartCall, EndCall, Moves, Opens
<1>2. CASE EndListen(t) \/ ListenTimesOut(t)
  BY <1>2 DEF EndListen, ListenTimesOut, Moves
<1>3. CASE Answer(t)
  BY <1>3 DEF Answer, Moves, Opens
<1>4. CASE Push(t)
  BY <1>4 DEF Push, Moves
<1>5. CASE Kick(t)
  BY <1>5 DEF Kick, Notified
<1>6. CASE EndClear(t)
  BY <1>6 DEF EndClear, Notified, Moves
<1>7. CASE Recv(t) \/ Flush(t)
  BY <1>7 DEF Recv, Flush, Moves
<1>8. CASE Begin(t) \/ Wait(t) \/ SpuriousWake(t)
  BY <1>8 DEF Begin, Wait, SpuriousWake, Moves
<1>9. CASE StartReset(t) \/ EndReset(t) \/ StartClear(t) \/ Close(t)
  BY <1>9 DEF StartReset, EndReset, StartClear, Close, Moves
<1> QED BY <1>1, <1>2, <1>3, <1>4, <1>5, <1>6, <1>7, <1>8, <1>9 DEF ThreadStep, Continues

(* The other steps only wake threads. *)
LEMMA OthersMove ==
    ASSUME PcsOK, \/ EngineStep \/ EngineWakes \/ PeerSends \/ ReaderFails \/ World
                  \/ UNCHANGED vars
    PROVE  pc' \in [Threads -> Pcs] /\ \A u \in Threads : Stays(u) \/ Woken(u)
<1>1. CASE pc' = pc
  BY <1>1 DEF PcsOK, Stays
<1>2. ASSUME NEW r, NEW s, pc' = Notified(pc, r, s)
      PROVE  pc' \in [Threads -> Pcs] /\ \A u \in Threads : Stays(u) \/ Woken(u)
  BY <1>2 DEF Notified, PcsOK, Pcs, RecvPcs, FlushPcs, OpenerPcs, Stays, Woken
<1>3. CASE EngineTurn
  <2> DEFINE pkt == IF inq = <<>> THEN NoPacket ELSE Head(inq)
             r == Queued \/ (pkt.type = "ClearRequest" /\ IsConnected)
  <2>1. pc' = Notified(pc, r, Sent)
    BY <1>3 DEF EngineTurn
  <2> HIDE DEF r
  <2> QED BY <1>2, <2>1
<1>4. CASE EngineLinkError
  BY <1>2, <1>4 DEF EngineLinkError
<1>5. CASE \/ EngineDecodeError \/ EngineWait \/ EngineWakes \/ PeerSends \/ ReaderFails
           \/ World \/ UNCHANGED vars
  BY <1>1, <1>5 DEF EngineDecodeError, EngineWait, EngineWakes, PeerSends, ReaderFails, World,
                    vars, threadVars
<1> QED BY <1>3, <1>4, <1>5 DEF EngineStep

LEMMA OpenStep ==
    ASSUME PcsOK, OpenOK, [ThreadNext]_vars
    PROVE  PcsOK' /\ OpenOK'
<1>0. Opener \in Threads
  BY ThreadAssumption
<1>1. CASE \/ EngineStep \/ EngineWakes \/ PeerSends \/ ReaderFails \/ World \/ UNCHANGED vars
  BY <1>0, <1>1, OthersMove DEF PcsOK, OpenOK, Stays, Woken, OpenerPcs
<1>2. ASSUME NEW t \in Threads, ThreadStep(t) PROVE PcsOK' /\ OpenOK'
  <2>1. CASE pc[Opener] \in OpenerPcs
    <3>1. t = Opener
      BY <1>2, <2>1, ThreadMoves DEF OpenOK
    <3> QED BY <1>0, <1>2, <2>1, <3>1, ThreadMoves DEF PcsOK, OpenOK, Stays, Woken, Handed, OpenerPcs
  <2>2. CASE pc[Opener] \notin OpenerPcs
    BY <1>0, <1>2, <2>2, ThreadMoves DEF PcsOK, OpenOK, Stays, Woken, Handed, OpenerPcs
  <2> QED BY <2>1, <2>2
<1> QED BY <1>1, <1>2 DEF ThreadNext, ThreadStep

LEMMA InitThreads == Init => IInv /\ InputsOK /\ PcsOK /\ OpenOK
<1> SUFFICES ASSUME Init PROVE IInv /\ InputsOK /\ PcsOK /\ OpenOK
  OBVIOUS
<1>1. IInv
  BY InitIInv DEF Init
<1>2. InputsOK
  <2>1. inq = <<>> /\ reading = TRUE /\ armed = FALSE /\ engine = "woken"
    BY DEF Init
  <2>2. Len(inq) = 0 /\ MaxInput \in Nat /\ inq \in Seq(Inputs \cup {LinkErr})
    BY <2>1, ThreadAssumption
  <2>3. reading \in BOOLEAN /\ armed \in BOOLEAN
    BY <2>1
  <2> QED BY <2>1, <2>2, <2>3 DEF InputsOK
<1>3. PICK role \in {"call", "listen"} :
         pc = [t \in Threads |-> IF t = Opener THEN role ELSE "unborn"]
  BY ThreadAssumption DEF Init
<1>4. PcsOK /\ OpenOK
  BY <1>3 DEF PcsOK, OpenOK, Pcs, OpenerPcs
<1> QED BY <1>1, <1>2, <1>4

ThreadsInv == IInv /\ InputsOK /\ PcsOK /\ OpenOK

LEMMA ThreadsStep == ThreadsInv /\ [ThreadNext]_vars => ThreadsInv'
  BY CircuitStep, NextIInv, InputsStep, OpenStep DEF ThreadsInv

LEMMA ThreadsAlways == ThreadSpec => []ThreadsInv
<1>1. Init => ThreadsInv
  BY InitThreads DEF ThreadsInv
<1> QED BY <1>1, ThreadsStep, PTL DEF ThreadSpec

(* Each thread is at a point of its code, and recv_queue holds what the    *)
(* reader thread pushes (VcInner, the threads started by VcInner::run).    *)
THEOREM ThreadTypes == ThreadSpec => []ThreadTypeOK
<1>1. ThreadsInv => ThreadTypeOK
  <2> SUFFICES ASSUME ThreadsInv PROVE ThreadTypeOK
    OBVIOUS
  <2>1. TypeOK
    BY IInvImplies DEF ThreadsInv
  <2>2. Len(inq) <= MaxInput + 1
    BY ThreadAssumption DEF ThreadsInv, InputsOK
  <2> QED BY <2>1, <2>2 DEF ThreadsInv, InputsOK, PcsOK, Pcs, ThreadTypeOK
<1> QED BY <1>1, ThreadsAlways, PTL

(* Whatever the threads do is a critical section of X25Vc: what is proved  *)
(* of the circuit holds for every number of threads around it.             *)
THEOREM ThreadsImplementVc == ThreadSpec => ImplementsVc
<1>1. Init => VcInit
  BY DEF Init
<1>2. ThreadsInv /\ [ThreadNext]_vars => [Next]_vcVars
  BY CircuitStep DEF ThreadsInv
<1>3. ThreadSpec => VcInit /\ [][Next]_vcVars
  BY <1>1, <1>2, ThreadsAlways, PTL DEF ThreadSpec
<1> QED BY <1>3 DEF ImplementsVc, Spec

-----------------------------------------------------------------------------
(* What a step does to the state. *)

Goes(s, i) == state' = s /\ initiator' = i

EngineMove ==
    \/ UNCHANGED <<state, initiator>>
    \/ state' = "OutOfOrder"
    \/ state = "Ready" /\ state' = "Called"
    \/ state = "Called" /\ Goes("Cleared", "Remote")
    \/ /\ state \in {"WaitCallAccept", "DataTransfer", "WaitResetConfirm"}
       /\ \/ state' = "DataTransfer"
          \/ state = "DataTransfer" /\ state' = "WaitResetConfirm"
          \/ Goes("Cleared", "Remote")
          \/ Goes("WaitClearConfirm", "TimeOut")
    \/ state = "WaitClearConfirm" /\ Goes("Cleared", initiator)

LEMMA HandledMoves ==
    ASSUME NEW pkt, HandleInPacket(pkt)
    PROVE  EngineMove /\ panic' \in {panic, "Window::new", "clear collision"}
<1> USE DEF EngineMove, Goes, ChangeState
<1>1. CASE InReady(pkt) \/ InCalled(pkt)
  BY <1>1 DEF InReady, InCalled, circuit, Cleared
<1>2. CASE InWaitCallAccept(pkt)
  BY <1>2 DEF InWaitCallAccept, circuit, Cleared, DataTransfer, ClearRequest, SendThenChange, OutOfOrder
<1>3. CASE InDataTransfer(pkt)
  <2> USE DEF OutOfOrder, ResetRequest, SendThenChange
  <2>1. CASE InData(pkt) /\ UNCHANGED panic /\ state = "DataTransfer"
    BY <2>1 DEF InData, ReceiveReady, SendQueuedData
  <2>2. CASE InReceiveReady(pkt) /\ UNCHANGED panic /\ state = "DataTransfer"
    BY <2>2 DEF InReceiveReady, SendQueuedData
  <2>3. CASE ResetConfirm /\ state = "DataTransfer"
    BY <2>3 DEF ResetConfirm, DataTransfer, circuit
  <2>4. CASE ClearConfirm /\ UNCHANGED panic /\ state = "DataTransfer"
    BY <2>4 DEF ClearConfirm
  <2> QED BY <1>3, <2>1, <2>2, <2>3, <2>4 DEF InDataTransfer, circuit
<1>4. CASE InWaitResetConfirm(pkt)
  BY <1>4 DEF InWaitResetConfirm, circuit, DataTransfer, ResetConfirm, ClearConfirm, ClearRequest,
              SendThenChange, OutOfOrder
<1>5. CASE InWaitClearConfirm(pkt) \/ InTerminal
  BY <1>5 DEF InWaitClearConfirm, InTerminal, vcVars, circuit, Cleared, OutOfOrder
<1> QED BY <1>1, <1>2, <1>3, <1>4, <1>5 DEF HandleInPacket

LEMMA TerminalStays ==
    ASSUME NEW t \in Threads, ThreadStep(t), Terminal
    PROVE  Terminal'
<1> USE DEF Terminal
<1>1. CASE StartCall(t) \/ StartReset(t) \/ StartClear(t)
  BY <1>1 DEF StartCall, StartReset, StartClear, Call, CallRefused, Reset, Clear, Panic, circuit,
              IsConnected
<1>2. CASE EndCall(t) \/ EndListen(t) \/ EndReset(t) \/ EndClear(t)
  BY <1>2 DEF EndCall, EndListen, EndReset, EndClear, vcVars, CallPanics, ListenPanics,
              ResetPanics, ClearPanics, Panic, circuit
<1>3. CASE ListenTimesOut(t) \/ Close(t)
  BY <1>3 DEF ListenTimesOut, Close, Shutdown, circuit
<1>4. CASE Answer(t)
  BY <1>4 DEF Answer, Accept, Reject, vcVars
<1>5. CASE Push(t) \/ Kick(t)
  BY <1>5 DEF Push, Kick, SendPush, SendKick, Panic, circuit
<1>6. CASE Recv(t) \/ Flush(t)
  BY <1>6 DEF Recv, Flush, PopCompleteData, vcVars, RecvPanics, FlushPanics, Panic, circuit
<1>7. CASE Begin(t) \/ Wait(t) \/ SpuriousWake(t)
  BY <1>7 DEF Begin, Wait, SpuriousWake, vcVars
<1> QED BY <1>1, <1>2, <1>3, <1>4, <1>5, <1>6, <1>7 DEF ThreadStep, Continues

(* No circuit without an engine: once the loop of VcInner::run has been    *)
(* left, no thread brings the circuit out of its final states.             *)
THEOREM EngineServesAlways == ThreadSpec => []EngineServes
<1>1. Init => EngineServes
  BY DEF Init, EngineServes
<1>2. EngineServes /\ [ThreadNext]_vars => EngineServes'
  <2> SUFFICES ASSUME EngineServes, [ThreadNext]_vars PROVE EngineServes'
    OBVIOUS
  <2> USE DEF EngineServes
  <2>1. CASE UNCHANGED vars
    BY <2>1 DEF vars, vcVars, threadVars, Terminal
  <2>2. CASE EngineTurn
    BY <2>2 DEF EngineTurn, Terminal
  <2>3. CASE EngineLinkError
    BY <2>3 DEF EngineLinkError, LinkError, OutOfOrder, ChangeState, Terminal
  <2>4. CASE EngineDecodeError \/ EngineWait \/ EngineWakes
    BY <2>4 DEF EngineDecodeError, EngineWait, EngineWakes
  <2>5. CASE PeerSends \/ ReaderFails
    BY <2>5 DEF PeerSends, ReaderFails, NotifyEngine
  <2>6. CASE World
    BY <2>6 DEF World, Elapse, LinkBreaks, circuit, threadVars, Terminal
  <2>7. ASSUME NEW t \in Threads, ThreadStep(t) PROVE EngineServes'
    BY <2>7, TerminalStays, ThreadLeaves
  <2> QED BY <2>1, <2>2, <2>3, <2>4, <2>5, <2>6, <2>7 DEF ThreadNext, EngineStep, ThreadStep
<1> QED BY <1>1, <1>2, PTL DEF ThreadSpec

-----------------------------------------------------------------------------
(* What the state can be when a thread gets to look at it again. *)

Calling == \/ state \in {"WaitCallAccept", "DataTransfer", "WaitResetConfirm", "OutOfOrder"}
           \/ state = "WaitClearConfirm" /\ initiator = "TimeOut"
           \/ state = "Cleared" /\ initiator \in {"Remote", "TimeOut"}

Clearing == \/ state = "OutOfOrder"
            \/ state \in {"WaitClearConfirm", "Cleared"} /\ initiator = "Local"

(* Until a thread panics with the state mutex held, which none gets to see *)
(* another one do.                                                         *)
ResultInv == /\ FailedAnswerExplained
             /\ panic = "no" =>
                   /\ pc[Opener] = "calling" => Calling
                   /\ (\E t \in Threads : pc[t] = "clearing") => Clearing
             /\ ResultsExpected

(* What a thread's step makes of the state. *)
StateKept == UNCHANGED <<state, initiator>>

LEMMA ThreadChanges ==
    ASSUME PcsOK, NEW t \in Threads, ThreadStep(t), panic = "no"
    PROVE  /\ \/ StateKept
              \/ state' = "OutOfOrder"
              \/ pc[t] = "call" /\ state' = "WaitCallAccept"
              \/ pc[t] = "incoming"
              \/ pc[t] = "idle" /\ IsConnected
           /\ pc'[t] = "incoming" =>
                 pc[t] = "listen" /\ StateKept /\ state = "Called"
           /\ pc'[t] = "calling" =>
                 \/ pc[t] = "call" /\ state' = "WaitCallAccept"
                 \/ pc[t] = "calling" /\ StateKept
           /\ pc'[t] = "clearing" =>
                 \/ pc[t] = "idle" /\ (Goes("WaitClearConfirm", "Local") \/ state' = "OutOfOrder")
                 \/ pc[t] = "idle" /\ panic' # "no"
                 \/ pc[t] = "clearing" /\ StateKept
           /\ panic' = "call result" => pc[t] = "calling" /\ CallPanics
           /\ panic' = "clear result" => pc[t] = "clearing" /\ ClearPanics
<1> USE DEF StateKept, Goes, PcsOK
<1>1. CASE StartCall(t)
  BY <1>1 DEF StartCall, Call, CallRefused, SendThenChange, ChangeState, OutOfOrder, Panic,
              circuit, Moves
<1>2. CASE EndCall(t)
  BY <1>2 DEF EndCall, vcVars, CallPanics, Panic, circuit, Moves, Opens
<1>3. CASE EndListen(t)
  BY <1>3 DEF EndListen, ListenOutcome, vcVars, ListenPanics, Panic, circuit, Moves
<1>4. CASE EndReset(t)
  BY <1>4 DEF EndReset, vcVars, ResetPanics, Panic, circuit, Moves
<1>5. CASE EndClear(t)
  BY <1>5 DEF EndClear, vcVars, ClearPanics, Panic, circuit, Moves, Notified
<1>6. CASE ListenTimesOut(t) \/ Close(t)
  BY <1>6 DEF ListenTimesOut, Close, Shutdown, circuit, Moves
<1>7. CASE Answer(t)
  BY <1>7 DEF Answer, Accept, Reject, DataTransfer, vcVars, Moves, Opens
<1>8. CASE Push(t)
  BY <1>8 DEF Push, SendPush, circuit, Moves
<1>9. CASE Kick(t)
  BY <1>9 DEF Kick, SendKick, SendQueuedData, OutOfOrder, ChangeState, Panic, circuit, Notified
<1>10. CASE Recv(t) \/ Flush(t)
  BY <1>10 DEF Recv, Flush, PopCompleteData, vcVars, RecvPanics, FlushPanics, Panic, circuit, Moves
<1>11. CASE Begin(t) \/ Wait(t) \/ SpuriousWake(t)
  BY <1>11 DEF Begin, Wait, SpuriousWake, vcVars, Moves
<1>12. CASE StartReset(t)
  BY <1>12 DEF StartReset, Reset, IsConnected, Panic, circuit, Moves
<1>13. CASE StartClear(t)
  BY <1>13 DEF StartClear, Clear, ClearRequest, SendThenChange, OutOfOrder, ChangeState,
               Panic, circuit, Moves
<1> QED BY <1>1, <1>2, <1>3, <1>4, <1>5, <1>6, <1>7, <1>8, <1>9, <1>10, <1>11, <1>12, <1>13
        DEF ThreadStep, Continues

LEMMA EngineResults ==
    ASSUME ResultInv, panic = "no", EngineMove \/ StateKept,
           panic' \in {"no", "Window::new", "clear collision"},
           \A u \in Threads : Stays(u) \/ Woken(u)
    PROVE  ResultInv'
<1>0. Opener \in Threads
  BY ThreadAssumption
<1>1. FailedAnswerExplained'
  BY <1>0 DEF ResultInv, FailedAnswerExplained, EngineMove, StateKept, Goes, Stays, Woken
<1>2. pc'[Opener] = "calling" => Calling'
  <2> SUFFICES ASSUME pc'[Opener] = "calling" PROVE Calling'
    OBVIOUS
  <2>1. Calling
    BY <1>0 DEF ResultInv, Stays, Woken
  <2> QED BY <2>1 DEF EngineMove, StateKept, Goes, Calling
<1>3. ASSUME NEW t \in Threads, pc'[t] = "clearing" PROVE Clearing'
  <2>1. Clearing
    BY <1>3 DEF ResultInv, Stays, Woken
  <2> QED BY <2>1 DEF EngineMove, StateKept, Goes, Clearing
<1>4. ResultsExpected'
  BY DEF ResultsExpected
<1> QED BY <1>1, <1>2, <1>3, <1>4 DEF ResultInv

LEMMA ThreadResults ==
    ASSUME PcsOK, OpenOK, ResultInv, panic = "no", NEW t \in Threads, ThreadStep(t)
    PROVE  ResultInv'
<1>0. Opener \in Threads
  BY ThreadAssumption
<1>1. FailedAnswerExplained'
  <2> SUFFICES ASSUME pc'[Opener] = "incoming"
               PROVE  state' \in {"Called", "OutOfOrder"} \/ (state' = "Cleared" /\ initiator' = "Remote")
    BY DEF FailedAnswerExplained
  <2>1. CASE t = Opener
    BY <2>1, ThreadChanges DEF StateKept
  <2>2. CASE t # Opener
    <3>1. pc[Opener] = "incoming"
      BY <1>0, <2>2, ThreadMoves DEF Stays, Woken, Handed
    <3> QED BY <2>2, <3>1, ThreadMoves DEF OpenOK, OpenerPcs
  <2> QED BY <2>1, <2>2
<1>2. pc'[Opener] = "calling" => Calling'
  <2> SUFFICES ASSUME pc'[Opener] = "calling" PROVE Calling'
    OBVIOUS
  <2>1. CASE t = Opener
    BY <2>1, ThreadChanges DEF StateKept, Calling, ResultInv
  <2>2. CASE t # Opener
    <3>1. pc[Opener] = "calling"
      BY <1>0, <2>2, ThreadMoves DEF Stays, Woken, Handed
    <3> QED BY <2>2, <3>1, ThreadMoves DEF OpenOK, OpenerPcs
  <2> QED BY <2>1, <2>2
<1>3. ASSUME NEW u \in Threads, pc'[u] = "clearing", panic' = "no" PROVE Clearing'
  <2>1. CASE u = t
    BY <1>3, <2>1, ThreadChanges DEF StateKept, Clearing, ResultInv, Goes
  <2>2. CASE u # t
    <3>1. pc[u] = "clearing"
      BY <1>3, <2>2, ThreadMoves DEF Stays, Woken, Handed
    <3>2. Clearing
      BY <3>1 DEF ResultInv
    <3>3. pc[t] \notin {"call", "incoming"}
      <4> SUFFICES ASSUME pc[t] \in {"call", "incoming"} PROVE FALSE
        OBVIOUS
      <4> QED BY <2>2, <3>1 DEF OpenOK, OpenerPcs
    <3>4. ~IsConnected
      BY <3>2 DEF Clearing, IsConnected
    <3> QED BY <3>2, <3>3, <3>4, ThreadChanges DEF StateKept, Clearing
  <2> QED BY <2>1, <2>2
<1>4. ResultsExpected'
  <2> SUFFICES ASSUME panic' \in {"call result", "clear result"} PROVE FALSE
    BY DEF ResultsExpected
  <2>1. CASE panic' = "call result"
    <3>1. pc[t] = "calling" /\ CallPanics
      BY <2>1, ThreadChanges
    <3>2. t = Opener
      BY <3>1 DEF OpenOK, OpenerPcs
    <3>3. Calling
      BY <3>1, <3>2 DEF ResultInv
    <3> QED BY <3>1, <3>3 DEF CallPanics, CallOutcome, Calling, IsConnected
  <2>2. CASE panic' = "clear result"
    <3>1. pc[t] = "clearing" /\ ClearPanics
      BY <2>2, ThreadChanges
    <3>2. Clearing
      BY <3>1 DEF ResultInv
    <3> QED BY <3>1, <3>2 DEF ClearPanics, ClearOutcome, Clearing
  <2> QED BY <2>1, <2>2
<1> QED BY <1>1, <1>2, <1>3, <1>4 DEF ResultInv

LEMMA ResultStep ==
    ASSUME ThreadsInv, ResultInv, [ThreadNext]_vars
    PROVE  ResultInv'
<1>1. CASE UNCHANGED vars
  BY <1>1 DEF vars, vcVars, threadVars, ResultInv, FailedAnswerExplained, Calling, Clearing,
              ResultsExpected
<1>2. CASE ThreadNext
  <2>0. PcsOK /\ OpenOK /\ panic = "no"
    BY <1>2 DEF ThreadsInv, ThreadNext
  <2>1. CASE EngineTurn
    <3>1. EngineMove /\ panic' \in {panic, "Window::new", "clear collision"}
      BY <2>1, HandledMoves DEF EngineTurn
    <3>2. \A u \in Threads : Stays(u) \/ Woken(u)
      BY <2>0, <2>1, OthersMove DEF EngineStep
    <3> QED BY <2>0, <3>1, <3>2, EngineResults
  <2>2. CASE EngineLinkError
    <3>1. EngineMove /\ panic' = panic
      BY <2>2 DEF EngineLinkError, LinkError, OutOfOrder, ChangeState, EngineMove
    <3>2. \A u \in Threads : Stays(u) \/ Woken(u)
      BY <2>0, <2>2, OthersMove DEF EngineStep
    <3> QED BY <2>0, <3>1, <3>2, EngineResults
  <2>3. CASE EngineDecodeError \/ EngineWait \/ EngineWakes \/ PeerSends \/ ReaderFails \/ World
    <3>1. StateKept /\ panic' = panic
      BY <2>3 DEF EngineDecodeError, EngineWait, EngineWakes, PeerSends, ReaderFails, World,
                  vcVars, StateKept, Elapse, LinkBreaks, circuit
    <3>2. \A u \in Threads : Stays(u) \/ Woken(u)
      BY <2>0, <2>3, OthersMove DEF EngineStep
    <3> QED BY <2>0, <3>1, <3>2, EngineResults
  <2>4. ASSUME NEW t \in Threads, ThreadStep(t) PROVE ResultInv'
    BY <2>0, <2>4, ThreadResults
  <2> QED BY <1>2, <2>1, <2>2, <2>3, <2>4 DEF ThreadNext, EngineStep, ThreadStep
<1> QED BY <1>1, <1>2

LEMMA InitResult == Init => ResultInv
<1> SUFFICES ASSUME Init PROVE ResultInv
  OBVIOUS
<1>1. panic = "no" /\ \A t \in Threads : pc[t] \in {"call", "listen", "unborn"}
  BY ThreadAssumption DEF Init, VcInit
<1> QED BY <1>1, ThreadAssumption DEF ResultInv, FailedAnswerExplained, ResultsExpected

LEMMA ResultAlways == ThreadSpec => []ResultInv
<1>1. ThreadsInv /\ ResultInv /\ [ThreadNext]_vars => ResultInv'
  BY ResultStep
<1> QED BY <1>1, InitResult, ThreadsAlways, PTL DEF ThreadSpec

(* Svc::call and Svc::clear return a result whatever happened before the   *)
(* waiting thread got to look: their panic!("unexpected state") is         *)
(* unreachable.                                                            *)
THEOREM ResultsExpectedAlways == ThreadSpec => []ResultsExpected
<1>1. ResultInv => ResultsExpected
  BY DEF ResultInv
<1> QED BY <1>1, ResultAlways, PTL

(* An incoming call that cannot be answered any more was given up by the   *)
(* caller, or the link is out of order (SvcIncomingCall).                  *)
THEOREM FailedAnswerExplainedAlways == ThreadSpec => []FailedAnswerExplained
<1>1. ResultInv => FailedAnswerExplained
  BY DEF ResultInv
<1> QED BY <1>1, ResultAlways, PTL

-----------------------------------------------------------------------------
(* No wakeup is lost that has a cause.  A thread that has seen the queue   *)
(* keeps its mutex until it is in the wait, so what it saw still holds     *)
(* there, and whoever changes it notifies.                                 *)

RecvSleeps(p)  == \E t \in Threads : p[t] \in {"recv gap", "recv wait"}
FlushSleeps(p) == \E t \in Threads : p[t] \in {"flush gap", "flush wait"}

CauseInv == /\ RecvSleeps(pc) => ~HasCompleteData
            /\ FlushSleeps(pc) => sendq # <<>>

(* The queues as they were, and nobody new asleep. *)
LEMMA CauseKept ==
    ASSUME CauseInv, UNCHANGED <<recvq, sendq>>,
           RecvSleeps(pc') => RecvSleeps(pc), FlushSleeps(pc') => FlushSleeps(pc)
    PROVE  CauseInv'
<1>1. HasCompleteData' <=> HasCompleteData
  BY DEF HasCompleteData
<1>2. RecvSleeps(pc)' <=> RecvSleeps(pc')
  BY DEF RecvSleeps
<1>3. FlushSleeps(pc)' <=> FlushSleeps(pc')
  BY DEF FlushSleeps
<1> QED BY <1>1, <1>2, <1>3 DEF CauseInv

LEMMA WokenSleep ==
    ASSUME NEW p, \A u \in Threads : p[u] = pc[u] \/ p[u] \notin {"recv gap", "recv wait", "flush gap", "flush wait"}
    PROVE  (RecvSleeps(p) => RecvSleeps(pc)) /\ (FlushSleeps(p) => FlushSleeps(pc))
  BY DEF RecvSleeps, FlushSleeps

(* Whoever changes a queue has its mutex and notifies. *)
LEMMA NotifiedCause ==
    ASSUME CauseInv, LocksHeld, NEW p \in [Threads -> Pcs], NEW r,
           \A u \in Threads :
              p[u] = pc[u] \/ p[u] \notin {"recv gap", "recv wait", "flush gap", "flush wait"},
           pc' = Notified(p, r, Sent), Queued => r,
           recvq' = recvq \/ Queued, sendq' = sendq \/ Sent
    PROVE  CauseInv'
<1>1. \A u \in Threads : /\ pc'[u] = p[u] \/ pc'[u] \in {"recv", "flush"}
                         /\ r => pc'[u] # "recv wait"
                         /\ Sent => pc'[u] # "flush wait"
  BY DEF Notified
<1>2. RecvSleeps(pc') => ~HasCompleteData'
  <2>1. CASE recvq' = recvq
    <3>1. HasCompleteData' <=> HasCompleteData
      BY <2>1 DEF HasCompleteData
    <3>2. RecvSleeps(pc') => RecvSleeps(pc)
      BY <1>1 DEF RecvSleeps
    <3> QED BY <3>1, <3>2 DEF CauseInv
  <2>2. CASE recvq' # recvq
    <3>1. \A u \in Threads : pc'[u] # "recv wait"
      BY <1>1, <2>2
    <3>2. \A u \in Threads : pc'[u] # "recv gap"
      BY <1>1, <2>2 DEF LocksHeld, RecvQueueFree
    <3> QED BY <3>1, <3>2 DEF RecvSleeps
  <2> QED BY <2>1, <2>2
<1>3. FlushSleeps(pc') => sendq' # <<>>
  <2>1. CASE sendq' = sendq
    <3>1. FlushSleeps(pc') => FlushSleeps(pc)
      BY <1>1 DEF FlushSleeps
    <3> QED BY <2>1, <3>1 DEF CauseInv
  <2>2. CASE sendq' # sendq
    <3>1. \A u \in Threads : pc'[u] # "flush wait"
      BY <1>1, <2>2
    <3>2. \A u \in Threads : pc'[u] # "flush gap"
      BY <1>1, <2>2 DEF LocksHeld, SendQueueFree
    <3> QED BY <3>1, <3>2 DEF FlushSleeps
  <2> QED BY <2>1, <2>2
<1>4. (RecvSleeps(pc)' <=> RecvSleeps(pc')) /\ (FlushSleeps(pc)' <=> FlushSleeps(pc'))
  BY DEF RecvSleeps, FlushSleeps
<1> QED BY <1>2, <1>3, <1>4 DEF CauseInv

LEMMA TurnCause ==
    ASSUME ThreadsInv, CauseInv, EngineTurn
    PROVE  CauseInv'
<1> DEFINE pkt == IF inq = <<>> THEN NoPacket ELSE Head(inq)
           r == Queued \/ (pkt.type = "ClearRequest" /\ IsConnected)
<1>1. HandleInPacket(pkt) /\ LocksHeld /\ pc' = Notified(pc, r, Sent)
  BY DEF EngineTurn
<1>2. recvq \in Seq(SendData) /\ sendq \in Seq(SendData) /\ pc \in [Threads -> Pcs]
  BY DEF ThreadsInv, IInv, QueuesOK, PcsOK
<1>3. Queued => r
  OBVIOUS
<1> HIDE DEF r, pkt
<1>4. (recvq' = recvq \/ Queueing) /\ (sendq' = sendq \/ Unqueueing)
  BY <1>1, HandledQueues
<1>5. recvq' = recvq \/ Queued
  <2> SUFFICES ASSUME Queueing PROVE Queued
    BY <1>4
  <2>1. PICK e : recvq' = Append(recvq, e)
    BY DEF Queueing
  <2>2. recvq \in Seq(SendData \cup {e}) /\ e \in SendData \cup {e}
    BY <1>2
  <2>3. Len(recvq') = Len(recvq) + 1 /\ Len(recvq) \in Nat
    BY <2>1, <2>2, AppendIs
  <2> QED BY <2>3 DEF Queued
<1>6. sendq' = sendq \/ Sent
  BY <1>2, <1>4, UnqueuedIsShorter DEF Sent
<1>7. \A u \in Threads :
         pc[u] = pc[u] \/ pc[u] \notin {"recv gap", "recv wait", "flush gap", "flush wait"}
  OBVIOUS
<1> QED BY <1>1, <1>2, <1>3, <1>5, <1>6, <1>7, NotifiedCause

LEMMA KickCause ==
    ASSUME ThreadsInv, CauseInv, NEW t \in Threads, Kick(t)
    PROVE  CauseInv'
<1> DEFINE p == [pc EXCEPT ![t] = "idle"]
<1>1. SendKick /\ LocksHeld /\ pc' = Notified(p, FALSE, Sent) /\ pc[t] = "kick"
  BY DEF Kick
<1>2. sendq \in Seq(SendData) /\ pc \in [Threads -> Pcs]
  BY DEF ThreadsInv, IInv, QueuesOK, PcsOK
<1>3. /\ p \in [Threads -> Pcs]
      /\ \A u \in Threads :
            p[u] = pc[u] \/ p[u] \notin {"recv gap", "recv wait", "flush gap", "flush wait"}
  BY <1>2 DEF Pcs
<1> HIDE DEF p
<1>4. recvq' = recvq /\ (sendq' = sendq \/ Sent)
  BY <1>1, <1>2, KickedQueue, UnqueuedIsShorter DEF Sent
<1>5. ~Queued
  <2>1. Len(recvq) \in Nat
    BY DEF ThreadsInv, IInv, QueuesOK
  <2> QED BY <1>4, <2>1 DEF Queued
<1> QED BY <1>1, <1>3, <1>4, <1>5, NotifiedCause

LEMMA PushCause ==
    ASSUME ThreadsInv, CauseInv, NEW t \in Threads, Push(t)
    PROVE  CauseInv'
<1>1. PICK m \in Messages : SendPush(m)
  BY DEF Push
<1> DEFINE c == Chunks(m, params.send_packet_size)
<1>2. sendq \in Seq(SendData) /\ c \in Seq(SendData) /\ pc \in [Threads -> Pcs]
  BY SizeAssumption, ChunksType DEF ThreadsInv, IInv, QueuesOK, ParamsOK, Params, PcsOK
<1>3. sendq' = sendq \o c /\ recvq' = recvq /\ pc' = [pc EXCEPT ![t] = "kick"]
  BY <1>1 DEF SendPush, Push, Moves
<1> HIDE DEF c
<1>4. sendq # <<>> => sendq' # <<>>
  <2>1. Len(sendq \o c) = Len(sendq) + Len(c) /\ Len(c) \in Nat /\ Len(sendq) \in Nat
    BY <1>2
  <2>2. sendq # <<>> => Len(sendq) # 0
    BY <1>2
  <2>3. sendq # <<>> => Len(sendq') # 0
    BY <1>3, <2>1, <2>2
  <2> QED BY <2>3
<1>5. (RecvSleeps(pc') => RecvSleeps(pc)) /\ (FlushSleeps(pc') => FlushSleeps(pc))
  BY <1>2, <1>3, WokenSleep
<1>6. HasCompleteData' <=> HasCompleteData
  BY <1>3 DEF HasCompleteData
<1>7. (RecvSleeps(pc)' <=> RecvSleeps(pc')) /\ (FlushSleeps(pc)' <=> FlushSleeps(pc'))
  BY DEF RecvSleeps, FlushSleeps
<1> QED BY <1>4, <1>5, <1>6, <1>7 DEF CauseInv

LEMMA RecvCause ==
    ASSUME ThreadsInv, CauseInv, NEW t \in Threads, Recv(t)
    PROVE  CauseInv'
<1>0. pc \in [Threads -> Pcs]
  BY DEF ThreadsInv, PcsOK
<1>1. CASE PopCompleteData /\ Moves(t, "idle")
  <2>1. ~RecvSleeps(pc) /\ sendq' = sendq
    BY <1>1 DEF PopCompleteData, CauseInv
  <2>2. (RecvSleeps(pc') => RecvSleeps(pc)) /\ (FlushSleeps(pc') => FlushSleeps(pc))
    BY <1>0, <1>1, WokenSleep DEF Moves
  <2>3. (RecvSleeps(pc)' <=> RecvSleeps(pc')) /\ (FlushSleeps(pc)' <=> FlushSleeps(pc'))
    BY DEF RecvSleeps, FlushSleeps
  <2> QED BY <2>1, <2>2, <2>3 DEF CauseInv
<1>2. CASE RecvOutcome = "wait" /\ Moves(t, "recv gap") /\ UNCHANGED vcVars
  <2>1. ~HasCompleteData
    BY <1>2 DEF RecvOutcome
  <2>2. UNCHANGED <<recvq, sendq>> /\ pc' = [pc EXCEPT ![t] = "recv gap"]
    BY <1>2 DEF vcVars, Moves
  <2>3. HasCompleteData' <=> HasCompleteData
    BY <2>2 DEF HasCompleteData
  <2>4. FlushSleeps(pc)' => FlushSleeps(pc)
    BY <1>0, <2>2 DEF FlushSleeps
  <2> QED BY <2>1, <2>2, <2>3, <2>4 DEF CauseInv
<1>3. CASE (Moves(t, "gone") /\ UNCHANGED vcVars) \/ (RecvPanics /\ UNCHANGED pc)
  <2>1. UNCHANGED <<recvq, sendq>>
    BY <1>3 DEF vcVars, RecvPanics, Panic
  <2>2. (RecvSleeps(pc') => RecvSleeps(pc)) /\ (FlushSleeps(pc') => FlushSleeps(pc))
    BY <1>0, <1>3, WokenSleep DEF Moves
  <2> QED BY <2>1, <2>2, CauseKept
<1> QED BY <1>1, <1>2, <1>3 DEF Recv

LEMMA FlushCause ==
    ASSUME ThreadsInv, CauseInv, NEW t \in Threads, Flush(t)
    PROVE  CauseInv'
<1>0. pc \in [Threads -> Pcs]
  BY DEF ThreadsInv, PcsOK
<1>1. CASE FlushOutcome = "wait" /\ Moves(t, "flush gap") /\ UNCHANGED vcVars
  <2>1. sendq # <<>>
    BY <1>1 DEF FlushOutcome
  <2>2. UNCHANGED <<recvq, sendq>> /\ pc' = [pc EXCEPT ![t] = "flush gap"]
    BY <1>1 DEF vcVars, Moves
  <2>3. HasCompleteData' <=> HasCompleteData
    BY <2>2 DEF HasCompleteData
  <2>4. RecvSleeps(pc)' => RecvSleeps(pc)
    BY <1>0, <2>2 DEF RecvSleeps
  <2> QED BY <2>1, <2>2, <2>3, <2>4 DEF CauseInv
<1>2. CASE \/ (Moves(t, "idle") \/ Moves(t, "gone")) /\ UNCHANGED vcVars
           \/ FlushPanics /\ UNCHANGED pc
  <2>1. UNCHANGED <<recvq, sendq>>
    BY <1>2 DEF vcVars, FlushPanics, Panic
  <2>2. (RecvSleeps(pc') => RecvSleeps(pc)) /\ (FlushSleeps(pc') => FlushSleeps(pc))
    BY <1>0, <1>2, WokenSleep DEF Moves
  <2> QED BY <2>1, <2>2, CauseKept
<1> QED BY <1>1, <1>2 DEF Flush

(* The steps that leave both queues alone and put nobody to sleep. *)
LEMMA QuietCause ==
    ASSUME ThreadsInv, CauseInv, NEW t \in Threads,
           \/ StartCall(t) \/ EndCall(t) \/ EndListen(t) \/ Answer(t)
           \/ EndReset(t) \/ EndClear(t) \/ Close(t)
           \/ ListenTimesOut(t) \/ Begin(t) \/ Wait(t)
           \/ SpuriousWake(t) \/ StartReset(t) \/ StartClear(t)
    PROVE  CauseInv'
<1>0. pc \in [Threads -> Pcs]
  BY DEF ThreadsInv, PcsOK
<1> DEFINE Awake == \A u \in Threads :
              pc'[u] = pc[u] \/ pc'[u] \notin {"recv gap", "recv wait", "flush gap", "flush wait"}
<1>1. ASSUME UNCHANGED <<recvq, sendq>>, Awake PROVE CauseInv'
  <2>1. (RecvSleeps(pc') => RecvSleeps(pc)) /\ (FlushSleeps(pc') => FlushSleeps(pc))
    BY <1>1, WokenSleep
  <2> QED BY <1>1, <2>1, CauseKept
<1>2. CASE StartCall(t)
  <2>1. UNCHANGED <<recvq, sendq>> /\ Awake
    BY <1>0, <1>2 DEF StartCall, Call, CallRefused, Panic, Moves
  <2> QED BY <1>1, <2>1
<1>3. CASE StartReset(t)
  <2>1. UNCHANGED <<recvq, sendq>> /\ Awake
    BY <1>0, <1>3 DEF StartReset, Reset, Panic, Moves
  <2> QED BY <1>1, <2>1
<1>4. CASE StartClear(t)
  <2>1. UNCHANGED <<recvq, sendq>> /\ Awake
    BY <1>0, <1>4 DEF StartClear, Clear, Panic, Moves
  <2> QED BY <1>1, <2>1
<1>5. CASE EndCall(t)
  <2>1. UNCHANGED <<recvq, sendq>> /\ Awake
    BY <1>0, <1>5 DEF EndCall, vcVars, CallPanics, Panic, Moves, Opens
  <2> QED BY <1>1, <2>1
<1>6. CASE EndListen(t)
  <2>1. UNCHANGED <<recvq, sendq>> /\ Awake
    BY <1>0, <1>6 DEF EndListen, vcVars, ListenPanics, Panic, Moves
  <2> QED BY <1>1, <2>1
<1>7. CASE EndReset(t)
  <2>1. UNCHANGED <<recvq, sendq>> /\ Awake
    BY <1>0, <1>7 DEF EndReset, vcVars, ResetPanics, Panic, Moves
  <2> QED BY <1>1, <2>1
<1>8. CASE EndClear(t)
  <2>1. UNCHANGED <<recvq, sendq>> /\ Awake
    BY <1>0, <1>8 DEF EndClear, vcVars, ClearPanics, Panic, Moves, Notified
  <2> QED BY <1>1, <2>1
<1>9. CASE ListenTimesOut(t) \/ Close(t)
  <2>1. UNCHANGED <<recvq, sendq>> /\ Awake
    BY <1>0, <1>9 DEF ListenTimesOut, Close, Shutdown, Moves
  <2> QED BY <1>1, <2>1
<1>10. CASE Answer(t)
  <2>1. UNCHANGED <<recvq, sendq>> /\ Awake
    BY <1>0, <1>10 DEF Answer, Accept, Reject, vcVars, Moves, Opens
  <2> QED BY <1>1, <2>1
<1>11. CASE Begin(t) \/ SpuriousWake(t)
  <2>1. UNCHANGED <<recvq, sendq>> /\ Awake
    BY <1>0, <1>11 DEF Begin, SpuriousWake, vcVars, Moves
  <2> QED BY <1>1, <2>1
<1>12. CASE Wait(t)
  <2>1. UNCHANGED <<recvq, sendq>>
    BY <1>12 DEF Wait, vcVars
  <2>2. (RecvSleeps(pc') => RecvSleeps(pc)) /\ (FlushSleeps(pc') => FlushSleeps(pc))
    BY <1>0, <1>12 DEF Wait, Moves, RecvSleeps, FlushSleeps
  <2> QED BY <2>1, <2>2, CauseKept
<1> QED BY <1>2, <1>3, <1>4, <1>5, <1>6, <1>7, <1>8, <1>9, <1>10, <1>11, <1>12

LEMMA CauseStep ==
    ASSUME ThreadsInv, CauseInv, [ThreadNext]_vars
    PROVE  CauseInv'
<1>0. pc \in [Threads -> Pcs]
  BY DEF ThreadsInv, PcsOK
<1>1. ASSUME UNCHANGED <<recvq, sendq, pc>> PROVE CauseInv'
  BY <1>1, CauseKept
<1>2. CASE UNCHANGED vars
  BY <1>1, <1>2 DEF vars, vcVars, threadVars
<1>3. CASE EngineTurn
  BY <1>3, TurnCause
<1>4. CASE EngineLinkError
  <2>1. UNCHANGED <<recvq, sendq>> /\ pc' = Notified(pc, TRUE, FALSE)
    BY <1>4 DEF EngineLinkError, LinkError
  <2>2. \A u \in Threads :
           pc'[u] = pc[u] \/ pc'[u] \notin {"recv gap", "recv wait", "flush gap", "flush wait"}
    BY <2>1 DEF Notified
  <2>3. (RecvSleeps(pc') => RecvSleeps(pc)) /\ (FlushSleeps(pc') => FlushSleeps(pc))
    BY <2>2, WokenSleep
  <2> QED BY <2>1, <2>3, CauseKept
<1>5. CASE EngineDecodeError \/ EngineWait \/ EngineWakes \/ PeerSends \/ ReaderFails
  BY <1>1, <1>5 DEF EngineDecodeError, EngineWait, EngineWakes, PeerSends, ReaderFails, vcVars
<1>6. CASE World
  BY <1>1, <1>6 DEF World, Elapse, LinkBreaks, threadVars
<1>7. ASSUME NEW t \in Threads, ThreadStep(t) PROVE CauseInv'
  BY <1>7, PushCause, KickCause, RecvCause, FlushCause, QuietCause DEF ThreadStep, Continues
<1> QED BY <1>2, <1>3, <1>4, <1>5, <1>6, <1>7 DEF ThreadNext, EngineStep, ThreadStep

LEMMA InitCause == Init => CauseInv
<1> SUFFICES ASSUME Init PROVE CauseInv
  OBVIOUS
<1>1. \A t \in Threads : pc[t] \in {"call", "listen", "unborn"}
  BY ThreadAssumption DEF Init
<1> QED BY <1>1 DEF CauseInv, RecvSleeps, FlushSleeps

(* No wakeup is lost while there is something to do: a thread asleep in    *)
(* Vc::recv has no complete message waiting for it, one asleep in          *)
(* Vc::flush has something left to wait for.                               *)
THEOREM SleepersHaveCauseAlways == ThreadSpec => []SleepersHaveCause
<1>1. CauseInv => SleepersHaveCause
  BY DEF CauseInv, SleepersHaveCause, RecvSleeps, FlushSleeps
<1>2. ThreadsInv /\ CauseInv /\ [ThreadNext]_vars => CauseInv'
  BY CauseStep
<1> QED BY <1>1, <1>2, InitCause, ThreadsAlways, PTL DEF ThreadSpec

-----------------------------------------------------------------------------
(* The window that engine and applications share, by itself: it is a       *)
(* credit window, for every modulo, every size below it and any number of  *)
(* packets.                                                                *)

LEMMA InitNumbers == WindowInit => NumbersStandForCounts
  <1> USE WindowAssumption
  <1> SUFFICES ASSUME WindowInit
               PROVE  NumbersStandForCounts
    OBVIOUS
  <1>1. /\ win \in Windows(Modulo) /\ win.size = Size
        /\ Outstanding(win) = 0
    BY NewWindowType DEF WindowInit, NewWindow
  <1>2. 0 % Modulo = 0
    BY ModOnce
  <1> QED BY <1>1, <1>2 DEF WindowInit, NumbersStandForCounts, NewWindow, WindowSizeOK

LEMMA NextNumbers == NumbersStandForCounts /\ [WindowNext]_windowVars => NumbersStandForCounts'
  <1> USE WindowAssumption
  <1> SUFFICES ASSUME NumbersStandForCounts, [WindowNext]_windowVars
               PROVE  NumbersStandForCounts'
    OBVIOUS
  <1> USE DEF NumbersStandForCounts
  <1>1. CASE Send
    <2>1. /\ win' = [win EXCEPT !.current = NextSeq(win.current, Modulo)]
          /\ win' \in Windows(Modulo)
          /\ Outstanding(win') = Outstanding(win) + 1
          /\ Outstanding(win') <= win.size
      BY <1>1, IncrOutstanding DEF Send
    <2>2. win'.start = win.start /\ win'.size = win.size
      BY <2>1 DEF Windows
    <2>3. win'.current = NextSeq(sent % Modulo, Modulo)
      BY <2>1 DEF Windows
    <2>4. NextSeq(sent % Modulo, Modulo) = (sent + 1) % Modulo
      <3>1. sent % Modulo \in SeqNos(Modulo)
        BY RemainderExists DEF Remains
      <3>2. (sent + 1) % Modulo = IF (sent % Modulo) + 1 < Modulo THEN (sent % Modulo) + 1
                                  ELSE (sent % Modulo) + 1 - Modulo
        <4>1. Modulo \in Nat /\ Modulo > 1 /\ 1 < Modulo /\ sent \in Nat /\ 1 \in Nat
          OBVIOUS
        <4> QED BY <4>1, ModAdd, Zenon
      <3> DEFINE r == sent % Modulo
      <3>3. (r + 1) % Modulo = IF r + 1 < Modulo THEN r + 1 ELSE r + 1 - Modulo
        <4> HIDE DEF r
        <4> QED BY <3>1, ModOnce DEF SeqNos, r
      <3> QED BY <3>2, <3>3 DEF NextSeq
    <2> QED BY <1>1, <2>1, <2>2, <2>3, <2>4 DEF Send
  <1>2. ASSUME NEW seq \in 0 .. 255, AckAccepted(seq)
        PROVE  NumbersStandForCounts'
    <2> DEFINE d == Dist(win.start, seq, Modulo)
    <2>1. /\ seq \in SeqNos(Modulo)
          /\ win' = [win EXCEPT !.start = seq]
          /\ win' \in Windows(Modulo)
          /\ d <= Outstanding(win)
          /\ Outstanding(win') = Outstanding(win) - d
      BY <1>2, UpdateStartOutstanding DEF AckAccepted
    <2>2. win'.start = seq /\ win'.size = win.size /\ win'.current = win.current
      BY <2>1 DEF Windows
    <2>3. d \in SeqNos(Modulo) /\ d \in Nat /\ d < Modulo
      <3>1. win.start \in SeqNos(Modulo)
        BY DEF Windows
      <3>2. d \in SeqNos(Modulo)
        BY <2>1, <3>1, DistType
      <3> QED BY <3>2 DEF SeqNos
    <2>4. acked' = acked + d /\ sent' = sent
      BY <1>2 DEF AckAccepted
    <2>5. seq = IF (acked % Modulo) + d < Modulo THEN (acked % Modulo) + d
                ELSE (acked % Modulo) + d - Modulo
      BY <2>1 DEF Dist, Windows, SeqNos
    <2>6. seq = (acked + d) % Modulo
      <3>1. Modulo \in Nat /\ Modulo > 1 /\ acked \in Nat
        OBVIOUS
      <3> HIDE DEF d
      <3>2. (acked + d) % Modulo = IF (acked % Modulo) + d < Modulo THEN (acked % Modulo) + d
                                   ELSE (acked % Modulo) + d - Modulo
        BY <2>3, <3>1, ModAdd, Zenon
      <3> QED BY <2>5, <3>2
    <2> HIDE DEF d
    <2> QED BY <2>1, <2>2, <2>3, <2>4, <2>6
  <1>3. ASSUME NEW seq \in 0 .. 255, AckRefused(seq)
        PROVE  NumbersStandForCounts'
    BY <1>3 DEF AckRefused, UpdateStart
  <1>4. CASE UNCHANGED windowVars
    BY <1>4 DEF windowVars
  <1> QED BY <1>1, <1>2, <1>3, <1>4 DEF WindowNext

(* The window's two sequence numbers and its size say exactly how many     *)
(* packets are outstanding, and that is never more than the size           *)
(* (Window::is_open, incr and update_start).                               *)
THEOREM NumbersAreFaithful == WindowSpec => []NumbersStandForCounts
  BY InitNumbers, NextNumbers, PTL DEF WindowSpec

LEMMA NumbersUnderstood == NumbersStandForCounts => HonestAckUnderstood
  <1> USE WindowAssumption
  <1> SUFFICES ASSUME NumbersStandForCounts, NEW n \in acked .. sent
               PROVE  /\ StartAccepted(win, n % Modulo)
                      /\ acked + Dist(win.start, n % Modulo, Modulo) = n
    BY DEF HonestAckUnderstood
  <1> DEFINE d == n - acked
  <1>1. d \in Nat /\ d <= Outstanding(win) /\ d < Modulo /\ n = acked + d /\ n \in Nat
    BY DEF NumbersStandForCounts, WindowSizeOK
  <1>2. n % Modulo = IF (acked % Modulo) + d < Modulo THEN (acked % Modulo) + d
                     ELSE (acked % Modulo) + d - Modulo
    <2>1. acked \in Nat
      BY DEF NumbersStandForCounts
    <2> HIDE DEF d
    <2> QED BY <1>1, <2>1, ModAdd
  <1>3. Dist(win.start, n % Modulo, Modulo) = d
    BY <1>1, <1>2, RemainderExists DEF Remains, NumbersStandForCounts, Dist, SeqNos
  <1>4. n % Modulo \in SeqNos(Modulo)
    BY <1>1, RemainderExists DEF Remains
  <1>5. StartAccepted(win, n % Modulo)
    BY <1>1, <1>3, <1>4, InRangeIsBetween
       DEF StartAccepted, NumbersStandForCounts, Windows, SeqNos, Outstanding
  <1> QED BY <1>1, <1>3, <1>5

(* An honest acknowledgement, however late, is never refused or taken for  *)
(* another (Window::update_start).                                         *)
THEOREM AcksUnderstood == WindowSpec => []HonestAckUnderstood
  BY NumbersAreFaithful, NumbersUnderstood, PTL

LEMMA InitCredit == WindowInit => Credit!Init
  BY DEF WindowInit, Credit!Init

LEMMA NextCredit == NumbersStandForCounts /\ [WindowNext]_windowVars => [Credit!Next]_<<sent, acked>>
  <1> USE WindowAssumption
  <1> SUFFICES ASSUME NumbersStandForCounts, [WindowNext]_windowVars
               PROVE  [Credit!Next]_<<sent, acked>>
    OBVIOUS
  <1>1. CASE Send
    <2>1. Outstanding(win) # win.size
      BY <1>1, OpenIsRoom DEF Send, NumbersStandForCounts
    <2>2. Credit!Send
      BY <1>1, <2>1 DEF Send, Credit!Send, NumbersStandForCounts, WindowSizeOK
    <2> QED BY <2>2 DEF Credit!Next
  <1>2. ASSUME NEW seq \in 0 .. 255, AckAccepted(seq)
        PROVE  Credit!Next
    <2>1. /\ seq \in SeqNos(Modulo)
          /\ Dist(win.start, seq, Modulo) <= Outstanding(win)
      BY <1>2, UpdateStartOutstanding DEF AckAccepted, NumbersStandForCounts
    <2>2. Dist(win.start, seq, Modulo) \in Nat
      BY <2>1, DistType DEF NumbersStandForCounts, Windows, SeqNos
    <2>3. acked' \in acked .. sent
      BY <1>2, <2>1, <2>2 DEF AckAccepted, NumbersStandForCounts
    <2>4. Credit!Ack(acked')
      BY <1>2, <2>3 DEF AckAccepted, Credit!Ack, NumbersStandForCounts
    <2> QED BY <2>3, <2>4 DEF Credit!Next
  <1>3. ASSUME NEW seq \in 0 .. 255, AckRefused(seq)
        PROVE  UNCHANGED <<sent, acked>>
    BY <1>3 DEF AckRefused
  <1>4. CASE UNCHANGED windowVars
    BY <1>4 DEF windowVars
  <1> QED BY <1>1, <1>2, <1>3, <1>4 DEF WindowNext

(* The window with its wrapping numbers implements the credit window that  *)
(* counts without end.                                                     *)
THEOREM WindowIsCredit == WindowSpec => ImplementsCredit
  BY InitCredit, NextCredit, NumbersAreFaithful, PTL DEF WindowSpec, Credit!Spec, ImplementsCredit
=============================================================================
