----------------------------- MODULE PadProofs ------------------------------
(***************************************************************************)
(* Theorems about the PAD of libxotpad/src/pad.rs, for any texts, packet   *)
(* size, parameters, messages from the peer and number of operations.      *)
(***************************************************************************)
EXTENDS Pad, SeqProofs, FiniteSetTheorems

-----------------------------------------------------------------------------
(* Messages and their octets. *)

Message == [kind : {"Data"}, octets : Seq(Octets)]
               \cup {[kind |-> "Ask"], [kind |-> "ClearInvitation"], Indicate}

(* The octets of one message, and of each of several. *)
Part(m)  == IF m.kind = "Data" THEN m.octets ELSE <<>>
Parts(q) == [i \in 1 .. Len(q) |-> Part(q[i])]

LEMMA OctsAre == ASSUME NEW q PROVE Octs(q) = FlattenSeq(Parts(q))
  BY DEF Octs, Parts, Part

LEMMA PartType == ASSUME NEW m \in Message PROVE Part(m) \in Seq(Octets)
  BY DEF Part, Message, Indicate

LEMMA PartsType == ASSUME NEW q \in Seq(Message) PROVE Parts(q) \in Seq(Seq(Octets))
<1>1. \A i \in 1 .. Len(q) : q[i] \in Message
  OBVIOUS
<1>2. \A i \in 1 .. Len(q) : Part(q[i]) \in Seq(Octets)
  BY <1>1, PartType
<1> QED BY <1>2 DEF Parts

LEMMA OctsType == ASSUME NEW q \in Seq(Message) PROVE Octs(q) \in Seq(Octets)
  BY OctsAre, PartsType, FlattenType

LEMMA OctsAppend ==
    ASSUME NEW q \in Seq(Message), NEW m \in Message
    PROVE  Octs(Append(q, m)) = Cat(Octs(q), Part(m))
<1> DEFINE p == Append(q, m)
           a == Parts(p)
           b == Append(Parts(q), Part(m))
<1>1. /\ p \in Seq(Message) /\ Len(p) = Len(q) + 1 /\ Len(q) \in Nat
      /\ \A i \in 1 .. Len(q) : p[i] = q[i]
      /\ p[Len(q) + 1] = m
  BY AppendIs
<1> HIDE DEF p
<1>2. a \in Seq(Seq(Octets)) /\ Len(a) = Len(p) /\ \A i \in 1 .. Len(p) : a[i] = Part(p[i])
  BY <1>1, PartsType DEF Parts
<1>3. /\ Parts(q) \in Seq(Seq(Octets)) /\ Part(m) \in Seq(Octets) /\ Len(Parts(q)) = Len(q)
      /\ \A i \in 1 .. Len(q) : Parts(q)[i] = Part(q[i])
  <2>1. Parts(q) \in Seq(Seq(Octets)) /\ Part(m) \in Seq(Octets)
    BY PartsType, PartType
  <2> QED BY <1>1, <2>1 DEF Parts
<1>4. /\ b \in Seq(Seq(Octets)) /\ Len(b) = Len(q) + 1
      /\ \A i \in 1 .. Len(q) : b[i] = Part(q[i])
      /\ b[Len(q) + 1] = Part(m)
  BY <1>3, AppendIs
<1> HIDE DEF a, b
<1>5. \A i \in 1 .. Len(a) : a[i] = b[i]
  <2> DEFINE n == Len(q)
  <2>1. n \in Nat /\ Len(a) = n + 1 /\ \A i \in 1 .. n + 1 : a[i] = Part(p[i])
    BY <1>1, <1>2
  <2>2. \A i \in 1 .. n : a[i] = b[i]
    BY <1>1, <1>4, <2>1
  <2>3. a[n + 1] = b[n + 1]
    BY <1>1, <1>4, <2>1
  <2> HIDE DEF n
  <2> QED BY <2>1, <2>2, <2>3
<1>6. a = b
  <2>1. Len(a) = Len(b)
    BY <1>1, <1>2, <1>4
  <2> QED BY <1>2, <1>4, <1>5, <2>1, SeqEqual
<1>7. FlattenSeq(b) = FlattenSeq(Parts(q)) \o Part(m)
  BY <1>3, FlattenAppend DEF b
<1> QED BY <1>6, <1>7, OctsAre, Zenon DEF Cat, a, p

(* Where the questions are in what was passed to the circuit. *)
AskAt(q) == {i \in 1 .. Len(q) : q[i].kind = "Ask"}

LEMMA AskAtAppend ==
    ASSUME NEW q \in Seq(Message), NEW m \in Message
    PROVE  /\ AskAt(Append(q, m)) = IF m.kind = "Ask" THEN AskAt(q) \cup {Len(q) + 1} ELSE AskAt(q)
           /\ IsFiniteSet(AskAt(q)) /\ Cardinality(AskAt(q)) \in Nat
           /\ Cardinality(AskAt(q) \cup {Len(q) + 1}) = Cardinality(AskAt(q)) + 1
<1>1. /\ Len(Append(q, m)) = Len(q) + 1 /\ Len(q) \in Nat
      /\ \A i \in 1 .. Len(q) : Append(q, m)[i] = q[i]
      /\ Append(q, m)[Len(q) + 1] = m
  BY AppendIs
<1>2. IsFiniteSet(AskAt(q)) /\ Cardinality(AskAt(q)) \in Nat
  <2>1. IsFiniteSet(1 .. Len(q))
    BY <1>1, FS_Interval
  <2>2. AskAt(q) \in SUBSET (1 .. Len(q))
    BY DEF AskAt
  <2> QED BY <2>1, <2>2, FS_Subset, FS_CardinalityType
<1>3. Len(q) + 1 \notin AskAt(q)
  BY <1>1 DEF AskAt
<1>4. Cardinality(AskAt(q) \cup {Len(q) + 1}) = Cardinality(AskAt(q)) + 1
  BY <1>2, <1>3, FS_AddElement
<1>5. AskAt(Append(q, m)) = IF m.kind = "Ask" THEN AskAt(q) \cup {Len(q) + 1} ELSE AskAt(q)
  <2> DEFINE p == Append(q, m)
  <2>1. /\ Len(p) = Len(q) + 1 /\ \A i \in 1 .. Len(q) : p[i] = q[i]
        /\ p[Len(q) + 1] = m
    BY <1>1
  <2> HIDE DEF p
  <2>2. \A i : i \in 1 .. Len(p) <=> i \in 1 .. Len(q) \/ i = Len(q) + 1
    BY <1>1, <2>1
  <2>3. AskAt(p) = IF m.kind = "Ask" THEN AskAt(q) \cup {Len(q) + 1} ELSE AskAt(q)
    BY <2>1, <2>2 DEF AskAt
  <2> QED BY <2>3 DEF p
<1> QED BY <1>2, <1>4, <1>5

-----------------------------------------------------------------------------
(* Pad::write, octet by octet. *)

(* g is what Put computes on its way through the first n octets of text. *)
Puts(g, w, text, n) ==
    g = [i \in 0 .. n |-> IF i = 0 THEN w ELSE PutOctet(g[i - 1], text[i])]

LEMMA PutsExist ==
    ASSUME NEW w, NEW text, NEW n \in Nat
    PROVE  \E g : Puts(g, w, text, n)
<1> DEFINE Bad == {k \in Nat : ~ \E g : Puts(g, w, text, k)}
<1> SUFFICES ASSUME Bad # {} PROVE FALSE
  OBVIOUS
<1>1. PICK k \in Bad : \A j \in Bad : k <= j
  BY LeastNumber, Zenon
<1>2. k # 0
  <2> SUFFICES \E g : Puts(g, w, text, 0)
    OBVIOUS
  <2> DEFINE g == [i \in 0 .. 0 |-> w]
  <2>1. \A i \in 0 .. 0 : i = 0
    OBVIOUS
  <2>2. Puts(g, w, text, 0)
    BY <2>1 DEF Puts
  <2> QED BY <2>2
<1>3. k \in Nat /\ k - 1 \in Nat /\ k - 1 \notin Bad
  BY <1>1, <1>2
<1>4. PICK g : Puts(g, w, text, k - 1)
  BY <1>3
<1> DEFINE next(i) == IF i = 0 THEN w ELSE PutOctet(g[i - 1], text[i])
           h == [i \in 0 .. k |-> next(i)]
<1>5. \A i \in 0 .. k - 1 : g[i] = next(i)
  BY <1>4 DEF Puts
<1>6. \A i \in 0 .. k - 1 : h[i] = g[i]
  BY <1>3, <1>5
<1>7. \A i \in 0 .. k : h[i] = next(i)
  OBVIOUS
<1>8. h = [i \in 0 .. k |-> h[i]]
  OBVIOUS
<1> HIDE DEF h
<1>9. \A i \in 0 .. k : i # 0 => i - 1 \in 0 .. k - 1
  BY <1>3
<1>10. \A i \in 0 .. k : h[i] = IF i = 0 THEN w ELSE PutOctet(h[i - 1], text[i])
  BY <1>6, <1>7, <1>9
<1>11. Puts(h, w, text, k)
  BY <1>8, <1>10 DEF Puts
<1> QED BY <1>1, <1>11

(* What Put leaves is true of the octets of text one by one. *)
LEMMA PutIs ==
    ASSUME NEW w, NEW text, Len(text) \in Nat
    PROVE  \E g : Puts(g, w, text, Len(text)) /\ Put(w, text) = g[Len(text)]
<1> DEFINE g == CHOOSE g : Puts(g, w, text, Len(text))
<1>1. Puts(g, w, text, Len(text))
  BY PutsExist
<1>2. Put(w, text) = g[Len(text)]
  BY DEF Put, Puts
<1> QED BY <1>1, <1>2

(* What was typed has been sent or is in the queue. *)
SendInv ==
    /\ send_queue \in Seq(Octets) /\ Len(send_queue) < PacketSize
    /\ typed \in Seq(Octets) /\ out \in Seq(Message)
    /\ circuit = "open" => Cat(Octs(out), send_queue) = typed

(* The same of a write under way, and what it has done to the rest. *)
PutOK(w) ==
    /\ w.sendq \in Seq(Octets) /\ Len(w.sendq) < PacketSize
    /\ w.typed \in Seq(Octets) /\ w.out \in Seq(Message)
    /\ circuit = "open" => Cat(Octs(w.out), w.sendq) = w.typed
    /\ recv_queue = <<>> => Echoes \/ w.recvq = <<>>
    /\ w.failed => SendOutcome # "ok"
    /\ w.drained \/ w.sendq # <<>> \/ send_queue = <<>>
    /\ AskAt(w.out) = AskAt(out) /\ Len(w.out) >= Len(out)

LEMMA WithLfType ==
    ASSUME NEW octet \in Octets, NEW moment
    PROVE  WithLf(octet, moment) \in Seq(Octets) /\ WithLf(octet, moment) # <<>>
<1>1. LF \in Octets /\ CR \in Octets
  BY DEF Octets
<1> QED BY <1>1 DEF WithLf

LEMMA PutOne ==
    ASSUME SendInv, NEW w, PutOK(w), NEW octet \in Octets
    PROVE  PutOK(PutOctet(w, octet))
<1> DEFINE x == WithLf(octet, "send")
           q == w.sendq \o x
           full == octet \in params.forward \/ Len(q) >= PacketSize
           v == PutOctet(w, octet)
<1>1. CASE w.failed
  <2>1. v = w
    BY <1>1 DEF PutOctet
  <2> QED BY <2>1
<1>2. CASE ~w.failed
  <2>1. x \in Seq(Octets) /\ x # <<>>
    BY WithLfType
  <2> HIDE DEF x
  <2>2. /\ w.sendq \in Seq(Octets) /\ w.typed \in Seq(Octets) /\ w.out \in Seq(Message)
        /\ Len(w.sendq) < PacketSize /\ PacketSize \in Nat \ {0}
    BY PadAssumption DEF PutOK
  <2>3. q \in Seq(Octets) /\ q # <<>> /\ w.typed \o x \in Seq(Octets)
    <3>1. Len(q) = Len(w.sendq) + Len(x) /\ q \in Seq(Octets) /\ w.typed \o x \in Seq(Octets)
      BY <2>1, <2>2
    <3>2. Len(x) \in Nat \ {0} /\ Len(w.sendq) \in Nat
      BY <2>1, <2>2
    <3>3. Len(q) # 0
      BY <3>1, <3>2
    <3> QED BY <3>1, <3>3
  <2>4. /\ Echoes \/ v.recvq = w.recvq \o <<>>
        /\ v.typed = w.typed \o x
        /\ v.sendq = IF full THEN <<>> ELSE q
        /\ v.out = IF full /\ SendOutcome = "ok" THEN Append(w.out, DataMessage(q)) ELSE w.out
        /\ v.drained = (w.drained \/ full)
        /\ v.failed = (full /\ SendOutcome # "ok")
    BY <1>2 DEF PutOctet, x
  <2>5. Echoes \/ (recv_queue = <<>> => v.recvq = <<>>)
    <3>1. <<>> \o <<>> = <<>>
      OBVIOUS
    <3> QED BY <2>4, <3>1 DEF PutOK
  <2>6. DataMessage(q) \in Message /\ Part(DataMessage(q)) = q /\ DataMessage(q).kind # "Ask"
    BY <2>3 DEF DataMessage, Message, Part
  <2>7. /\ Append(w.out, DataMessage(q)) \in Seq(Message)
        /\ Len(Append(w.out, DataMessage(q))) >= Len(out)
        /\ AskAt(Append(w.out, DataMessage(q))) = AskAt(out)
    <3> DEFINE m == DataMessage(q)
    <3>1. m \in Message /\ m.kind # "Ask"
      BY <2>6
    <3> HIDE DEF m
    <3>2. Append(w.out, m) \in Seq(Message) /\ Len(Append(w.out, m)) = Len(w.out) + 1
          /\ Len(w.out) \in Nat
      BY <2>2, <3>1, AppendIs
    <3>3. AskAt(Append(w.out, m)) = AskAt(w.out)
      BY <2>2, <3>1, AskAtAppend
    <3>4. Len(w.out) >= Len(out) /\ AskAt(w.out) = AskAt(out)
      BY DEF PutOK
    <3>5. Len(out) \in Nat
      BY DEF SendInv
    <3> QED BY <3>2, <3>3, <3>4, <3>5 DEF m
  <2>8. /\ v.out \in Seq(Message) /\ AskAt(v.out) = AskAt(out) /\ Len(v.out) >= Len(out)
        /\ v.sendq \in Seq(Octets) /\ v.typed \in Seq(Octets)
    BY <2>2, <2>3, <2>4, <2>7 DEF PutOK
  <2>9. Len(v.sendq) < PacketSize
    BY <2>2, <2>3, <2>4
  <2>10. v.drained \/ v.sendq # <<>> \/ send_queue = <<>>
    BY <2>3, <2>4
  <2>11. v.failed => SendOutcome # "ok"
    BY <2>4
  <2>12. ASSUME circuit = "open" PROVE Cat(Octs(v.out), v.sendq) = v.typed
    <3>1. SendOutcome = "ok" /\ Cat(Octs(w.out), w.sendq) = w.typed /\ Octs(w.out) \in Seq(Octets)
      BY <2>2, <2>12, OctsType DEF SendOutcome, PutOK
    <3>2. q = Cat(w.sendq, x) /\ v.typed = Cat(w.typed, x)
      BY <2>4 DEF Cat
    <3>3. Cat(Cat(Octs(w.out), w.sendq), x) = Cat(Octs(w.out), Cat(w.sendq, x))
      BY <2>1, <2>2, <3>1, CatType
    <3>4. v.typed = Cat(Octs(w.out), q)
      BY <3>1, <3>2, <3>3, Zenon
    <3>5. CASE ~full
      BY <2>4, <3>1, <3>4, <3>5
    <3>6. CASE full
      <4>1. v.out = Append(w.out, DataMessage(q)) /\ v.sendq = <<>>
        BY <2>4, <3>1, <3>6
      <4>2. Octs(v.out) = Cat(Octs(w.out), q)
        BY <2>2, <2>6, <4>1, OctsAppend
      <4>3. Octs(v.out) \in Seq(Octets)
        BY <2>8, OctsType
      <4>4. Octs(v.out) \o <<>> = Octs(v.out)
        BY <4>3, NoneJoined
      <4> QED BY <3>4, <4>1, <4>2, <4>4, Zenon DEF Cat
    <3> QED BY <3>5, <3>6
  <2> QED BY <2>5, <2>8, <2>9, <2>10, <2>11, <2>12 DEF PutOK
<1> QED BY <1>1, <1>2

LEMMA PutAll ==
    ASSUME SendInv, NEW w, PutOK(w), NEW text \in Seq(Octets)
    PROVE  PutOK(Put(w, text))
<1>1. Len(text) \in Nat /\ \A i \in 1 .. Len(text) : text[i] \in Octets
  OBVIOUS
<1>2. PICK g : Puts(g, w, text, Len(text)) /\ Put(w, text) = g[Len(text)]
  BY <1>1, PutIs
<1> DEFINE n == Len(text)
           Bad == {i \in 0 .. n : ~PutOK(g[i])}
<1>3. Bad = {}
  <2> SUFFICES ASSUME Bad # {} PROVE FALSE
    OBVIOUS
  <2>1. Bad \in SUBSET Nat
    BY <1>1
  <2>2. PICK i \in Bad : \A j \in Bad : i <= j
    BY <2>1, LeastNumber, Zenon
  <2>3. i \in 0 .. n /\ ~PutOK(g[i])
    OBVIOUS
  <2>4. g[i] = IF i = 0 THEN w ELSE PutOctet(g[i - 1], text[i])
    BY <1>2, <2>3 DEF Puts
  <2>5. i # 0
    BY <2>3, <2>4
  <2>6. i - 1 \in 0 .. n /\ i \in 1 .. n /\ ~(i <= i - 1)
    BY <1>1, <2>3, <2>5
  <2>7. PutOK(g[i - 1])
    <3>1. i - 1 \notin Bad
      BY <2>2, <2>6
    <3> QED BY <2>6, <3>1
  <2>8. PutOK(PutOctet(g[i - 1], text[i]))
    BY <1>1, <2>6, <2>7, PutOne
  <2> QED BY <2>3, <2>4, <2>5, <2>8
<1>4. n \in 0 .. n
  BY <1>1
<1> QED BY <1>2, <1>3, <1>4

-----------------------------------------------------------------------------
(* Nothing typed is lost. *)

Others == {[kind |-> "ClearInvitation"], Indicate}

(* What a step can do with what was typed and sent. *)
Sends ==
    \/ UNCHANGED <<send_queue, typed, out>>
    \/ \E m \in Others : SvcSend(m) /\ UNCHANGED <<send_queue, typed>>
    \/ Ask /\ (UNCHANGED out \/ SvcSend([kind |-> "Ask"])) /\ UNCHANGED <<send_queue, typed>>
    \/ SvcSend(DataMessage(send_queue)) /\ send_queue' = <<>> /\ UNCHANGED typed
    \/ Write

LEMMA StepSends ==
    ASSUME [Next]_vars
    PROVE  Sends /\ (circuit' = "open" => circuit = "open")
<1>1. CASE UNCHANGED vars
  BY <1>1 DEF vars, queues, svc, history, Sends
<1>2. CASE MainThread
  <2> USE DEF history, queues, svc
  <2>1. CASE Write
    BY <2>1 DEF Write, Sends
  <2>2. CASE StartFlush
    BY <2>2 DEF StartFlush, Sends
  <2>3. CASE Ask
    BY <2>3 DEF Ask, Sends
  <2>4. CASE InviteClear
    BY <2>4 DEF InviteClear, Sends, Others
  <2>5. CASE MeetPoison \/ MainFlush \/ GetReply \/ ReplyTimesOut
    BY <2>5 DEF MeetPoison, MainFlush, GetReply, ReplyTimesOut, Sends
  <2>6. CASE StartClear \/ EndClear
    BY <2>6 DEF StartClear, EndClear, Sends
  <2> QED BY <1>2, <2>1, <2>2, <2>3, <2>4, <2>5, <2>6 DEF MainThread
<1>3. CASE PadThread
  <2> USE DEF history, queues, svc
  <2>1. CASE RecvEnds
    BY <2>1 DEF RecvEnds, Poisoned, Sends
  <2>2. CASE RecvData
    BY <2>2 DEF RecvData, Sends
  <2>3. CASE RecvSet
    <3>1. (UNCHANGED out \/ SvcSend(Indicate)) /\ UNCHANGED <<send_queue, typed, circuit>>
      BY <2>3 DEF RecvSet, SendAnswer
    <3> QED BY <3>1 DEF Sends, Others
  <2>4. CASE RecvRead
    <3>1. (UNCHANGED out \/ SvcSend(Indicate)) /\ UNCHANGED <<send_queue, typed, circuit>>
      BY <2>4 DEF RecvRead, SendAnswer
    <3> QED BY <3>1 DEF Sends, Others
  <2>5. CASE RecvIndicate \/ RecvMalformed
    BY <2>5 DEF RecvIndicate, RecvMalformed, Sends
  <2>6. CASE RecvInvitation
    BY <2>6 DEF RecvInvitation, Sends
  <2>7. CASE PadFlush
    BY <2>7 DEF PadFlush, Poisoned, Sends
  <2>8. CASE PadClear \/ PadCleared \/ PadEnds
    BY <2>8 DEF PadClear, PadCleared, PadEnds, Poisoned, Sends
  <2> QED BY <1>3, <2>1, <2>2, <2>3, <2>4, <2>5, <2>6, <2>7, <2>8 DEF PadThread
<1>4. CASE IdleSends
  BY <1>4 DEF IdleSends, history, Sends
<1>5. CASE ReadCheck \/ ReadWait \/ SpuriousWake
  BY <1>5 DEF ReadCheck, ReadWait, SpuriousWake, svc, history, queues, Sends
<1>6. CASE Drain \/ PeerSends \/ PeerAnswers \/ CircuitEnds \/ Expire
  BY <1>6 DEF Drain, PeerSends, PeerAnswers, CircuitEnds, Expire, svc, history, queues, Sends
<1> QED BY <1>1, <1>2, <1>3, <1>4, <1>5, <1>6 DEF Next, Reader

LEMMA Passed ==
    ASSUME SendInv, NEW m \in Message, SvcSend(m)
    PROVE  /\ out' \in Seq(Message) /\ Len(out') >= Len(out)
           /\ m.kind # "Ask" => AskAt(out') = AskAt(out)
           /\ m.kind = "Ask" => Cardinality(AskAt(out')) <= Cardinality(AskAt(out)) + 1
           /\ circuit = "open" => Octs(out') = Cat(Octs(out), Part(m))
<1>1. out \in Seq(Message) /\ Len(out) \in Nat
  BY DEF SendInv
<1>2. CASE out' = Append(out, m)
  <2>1. out' \in Seq(Message) /\ Len(out') >= Len(out)
    <3>1. Append(out, m) \in Seq(Message) /\ Len(Append(out, m)) = Len(out) + 1
      BY <1>1, AppendIs
    <3> QED BY <1>1, <1>2, <3>1
  <2>2. Octs(out') = Cat(Octs(out), Part(m))
    BY <1>1, <1>2, OctsAppend, Zenon
  <2>3. /\ m.kind # "Ask" => AskAt(out') = AskAt(out)
        /\ m.kind = "Ask" => AskAt(out') = AskAt(out) \cup {Len(out) + 1}
        /\ Cardinality(AskAt(out) \cup {Len(out) + 1}) = Cardinality(AskAt(out)) + 1
        /\ Cardinality(AskAt(out)) \in Nat
    <3> DEFINE p == Append(out, m)
    <3>1. /\ AskAt(p) = IF m.kind = "Ask" THEN AskAt(out) \cup {Len(out) + 1} ELSE AskAt(out)
          /\ Cardinality(AskAt(out)) \in Nat
          /\ Cardinality(AskAt(out) \cup {Len(out) + 1}) = Cardinality(AskAt(out)) + 1
      BY <1>1, AskAtAppend
    <3>2. out' = p
      BY <1>2
    <3> HIDE DEF p
    <3> QED BY <3>1, <3>2
  <2>4. m.kind = "Ask" => Cardinality(AskAt(out')) <= Cardinality(AskAt(out)) + 1
    <3> SUFFICES ASSUME m.kind = "Ask"
                 PROVE  Cardinality(AskAt(out')) <= Cardinality(AskAt(out)) + 1
      OBVIOUS
    <3>1. Cardinality(AskAt(out')) = Cardinality(AskAt(out)) + 1
      BY <2>3
    <3> QED BY <2>3, <3>1
  <2> QED BY <2>1, <2>2, <2>3, <2>4
<1>3. CASE out' = out
  <2>1. circuit = "open" => m = DataMessage(<<>>) \/ out = Append(out, m)
    BY <1>3 DEF SvcSend, SendOutcome
  <2>2. out # Append(out, m)
    BY <1>1, AppendIs
  <2>3. Part(DataMessage(<<>>)) = <<>>
    BY DEF Part, DataMessage
  <2>4. Octs(out) \o <<>> = Octs(out)
    BY <1>1, OctsType, NoneJoined
  <2>5. circuit = "open" => Octs(out') = Cat(Octs(out), Part(m))
    BY <1>3, <2>1, <2>2, <2>3, <2>4, Zenon DEF Cat
  <2>6. Cardinality(AskAt(out)) \in Nat
    BY <1>1, AskAtAppend
  <2> QED BY <1>1, <1>3, <2>5, <2>6
<1> QED BY <1>2, <1>3 DEF SvcSend

LEMMA WriteIs ==
    ASSUME SendInv, Write
    PROVE  \E w : /\ PutOK(w)
                  /\ recv_queue' = w.recvq /\ send_queue' = w.sendq
                  /\ typed' = w.typed /\ out' = w.out
                  /\ deadline' = IF ~w.failed /\ w.sendq # <<>> /\ params.idle THEN "set"
                                 ELSE IF w.drained THEN "none" ELSE deadline
                  /\ IF WakesReader(w) THEN WakeReader ELSE UNCHANGED reader
<1> DEFINE w0 == [recvq |-> recv_queue, sendq |-> send_queue, typed |-> typed,
                  out |-> out, drained |-> FALSE, failed |-> FALSE]
<1>1. PICK text \in Texts :
         LET w == Put(w0, text)
         IN  /\ recv_queue' = w.recvq /\ send_queue' = w.sendq
             /\ typed' = w.typed /\ out' = w.out
             /\ deadline' = IF ~w.failed /\ w.sendq # <<>> /\ params.idle THEN "set"
                            ELSE IF w.drained THEN "none" ELSE deadline
             /\ IF WakesReader(w) THEN WakeReader ELSE UNCHANGED reader
  BY DEF Write
<1>2. text \in Seq(Octets)
  BY PadAssumption
<1>3. PutOK(w0)
  <2>1. Len(out) \in Nat
    BY DEF SendInv
  <2> QED BY <2>1 DEF PutOK, SendInv
<1> HIDE DEF w0
<1>4. PutOK(Put(w0, text))
  BY <1>2, <1>3, PutAll
<1> QED BY <1>1, <1>4

LEMMA SendStep ==
    ASSUME SendInv, [Next]_vars
    PROVE  SendInv' /\ Len(out') >= Len(out)
<1>0. /\ out \in Seq(Message) /\ Len(out) \in Nat /\ typed \in Seq(Octets)
      /\ send_queue \in Seq(Octets) /\ PacketSize \in Nat \ {0}
  BY PadAssumption DEF SendInv
<1>1. circuit' = "open" => circuit = "open"
  BY StepSends
<1>2. CASE UNCHANGED <<send_queue, typed, out>>
  <2>1. Octs(out)' = Octs(out)
    BY <1>2 DEF Octs
  <2> QED BY <1>0, <1>1, <1>2, <2>1 DEF SendInv
<1>3. ASSUME NEW m \in Message, Part(m) = <<>>, SvcSend(m), UNCHANGED <<send_queue, typed>>
      PROVE  SendInv' /\ Len(out') >= Len(out)
  <2>1. Octs(out) \o <<>> = Octs(out)
    BY <1>0, OctsType, NoneJoined
  <2>2. circuit = "open" => Octs(out') = Octs(out)
    BY <1>3, <2>1, Passed, Zenon DEF Cat
  <2> QED BY <1>0, <1>1, <1>3, <2>2, Passed DEF SendInv
<1>4. ASSUME NEW m \in Others \cup {[kind |-> "Ask"]}
      PROVE  m \in Message /\ Part(m) = <<>>
  BY DEF Others, Message, Indicate, Part
<1>5. CASE SvcSend(DataMessage(send_queue)) /\ send_queue' = <<>> /\ UNCHANGED typed
  <2>1. DataMessage(send_queue) \in Message /\ Part(DataMessage(send_queue)) = send_queue
    BY <1>0 DEF DataMessage, Message, Part
  <2>2. /\ out' \in Seq(Message) /\ Len(out') >= Len(out)
        /\ circuit = "open" => Octs(out') = Cat(Octs(out), send_queue)
    BY <1>5, <2>1, Passed
  <2>3. Octs(out') \o <<>> = Octs(out')
    BY <2>2, OctsType, NoneJoined
  <2>4. circuit' = "open" => Cat(Octs(out'), <<>>) = typed
    BY <1>1, <2>2, <2>3, Zenon DEF SendInv, Cat
  <2>5. Len(send_queue') < PacketSize /\ send_queue' \in Seq(Octets)
    BY <1>0, <1>5
  <2> QED BY <1>0, <1>5, <2>2, <2>4, <2>5 DEF SendInv
<1>6. CASE Write
  <2>1. PICK w : /\ PutOK(w) /\ send_queue' = w.sendq /\ typed' = w.typed /\ out' = w.out
    BY <1>6, WriteIs
  <2> QED BY <1>1, <2>1 DEF PutOK, SendInv
<1> QED BY StepSends, <1>2, <1>3, <1>4, <1>5, <1>6 DEF Sends

LEMMA InitSend == Init => SendInv
<1> SUFFICES ASSUME Init PROVE SendInv
  OBVIOUS
<1>1. send_queue = <<>> /\ typed = <<>> /\ out = <<>> /\ PacketSize \in Nat \ {0}
  BY PadAssumption DEF Init
<1>2. Octs(<<>>) = <<>>
  <2>1. Parts(<<>>) = <<>>
    BY DEF Parts
  <2> QED BY <2>1, OctsAre, FlattenNone
<1>3. Cat(<<>>, <<>>) = <<>>
  BY DEF Cat
<1> QED BY <1>1, <1>2, <1>3 DEF SendInv

LEMMA SendAlways == Spec => []SendInv
<1>1. SendInv /\ [Next]_vars => SendInv'
  BY SendStep
<1> QED BY <1>1, InitSend, PTL DEF Spec

(* Each octet goes to the circuit once and in the order it was typed,      *)
(* whichever of three threads empties send_queue, and why: a forwarding    *)
(* octet, a full packet, the deadline, a flush, an invitation to clear.    *)
THEOREM NothingTypedIsLostAlways == Spec => []NothingTypedIsLost
<1>1. SendInv => NothingTypedIsLost
  BY DEF SendInv, NothingTypedIsLost, Cat
<1> QED BY <1>1, SendAlways, PTL

-----------------------------------------------------------------------------
(* The reader sleeps on an empty queue.  It keeps the queue's mutex from   *)
(* its check to its wait, so the gap between them is part of what must     *)
(* hold.                                                                   *)

SleepInv == reader \in {"gap", "wait"} /\ circuit = "open" => recv_queue = <<>>

LEMMA SleepStep ==
    ASSUME SendInv, SleepInv, [Next]_vars
    PROVE  SleepInv'
<1>0. circuit' = "open" => circuit = "open"
  BY StepSends
<1>1. CASE UNCHANGED recv_queue /\ (reader' = reader \/ reader' \notin {"gap", "wait"})
  BY <1>0, <1>1 DEF SleepInv
<1>2. CASE reader' \notin {"gap", "wait"}
  BY <1>2 DEF SleepInv
<1>3. CASE Write
  <2>1. PICK w : /\ PutOK(w) /\ recv_queue' = w.recvq
                 /\ IF WakesReader(w) THEN WakeReader ELSE UNCHANGED reader
    BY <1>3, WriteIs
  <2>2. reader # "gap"
    BY <1>3 DEF Write, RecvQueueFree
  <2>3. CASE WakesReader(w)
    BY <1>2, <2>1, <2>2, <2>3 DEF WakeReader
  <2>4. CASE ~WakesReader(w)
    <3>1. circuit = "open" => ~w.failed
      BY <2>1 DEF PutOK, SendOutcome
    <3>2. circuit = "open" /\ recv_queue = <<>> => w.recvq = <<>>
      BY <2>1, <2>4, <3>1 DEF PutOK, WakesReader
    <3> QED BY <1>0, <2>1, <2>4, <3>2 DEF SleepInv
  <2> QED BY <2>3, <2>4
<1>4. CASE ReadCheck
  BY <1>0, <1>1, <1>2, <1>4 DEF ReadCheck, SleepInv
<1>5. CASE ReadWait
  BY <1>0, <1>5 DEF ReadWait, queues, SleepInv
<1>6. CASE RecvData
  BY <1>1, <1>2, <1>6 DEF RecvData, RecvQueueFree, WakeReader
<1>7. CASE UNCHANGED vars
  BY <1>1, <1>7 DEF vars, queues, threads
<1>8. CASE MainThread
  <2>1. CASE StartFlush \/ Ask \/ InviteClear
    BY <1>1, <2>1 DEF StartFlush, Ask, InviteClear, queues
  <2>2. CASE MeetPoison \/ MainFlush \/ GetReply \/ ReplyTimesOut \/ StartClear \/ EndClear
    BY <1>1, <2>2 DEF MeetPoison, MainFlush, GetReply, ReplyTimesOut, StartClear, EndClear, queues
  <2> QED BY <1>3, <1>8, <2>1, <2>2 DEF MainThread
<1>9. CASE PadThread
  <2>1. CASE RecvEnds \/ RecvSet \/ RecvRead \/ RecvIndicate \/ RecvInvitation \/ RecvMalformed
    BY <1>1, <2>1 DEF RecvEnds, RecvSet, RecvRead, RecvIndicate, RecvInvitation, RecvMalformed, queues
  <2>2. CASE PadFlush \/ PadClear \/ PadCleared
    BY <1>1, <2>2 DEF PadFlush, PadClear, PadCleared, queues
  <2>3. CASE PadEnds
    BY <1>1, <2>3 DEF PadEnds, WakeReader
  <2> QED BY <1>6, <1>9, <2>1, <2>2, <2>3 DEF PadThread
<1>10. CASE IdleSends \/ SpuriousWake
  BY <1>1, <1>10 DEF IdleSends, SpuriousWake, queues
<1>11. CASE Drain \/ PeerSends \/ PeerAnswers \/ CircuitEnds \/ Expire
  BY <1>1, <1>11 DEF Drain, PeerSends, PeerAnswers, CircuitEnds, Expire, queues, threads
<1> QED BY <1>4, <1>5, <1>7, <1>8, <1>9, <1>10, <1>11 DEF Next, Reader

(* "We won't miss any data as the queue is locked" (Pad::read): while the  *)
(* call lasts, no reader sleeps with something to read.                    *)
THEOREM SleepingReaderHasNothingAlways == Spec => []SleepingReaderHasNothing
<1>1. Init => SleepInv
  BY DEF Init, SleepInv
<1>2. SendInv /\ SleepInv /\ [Next]_vars => SleepInv'
  BY SleepStep
<1>3. SleepInv => SleepingReaderHasNothing
  BY DEF SleepInv, SleepingReaderHasNothing
<1> QED BY <1>1, <1>2, <1>3, SendAlways, PTL DEF Spec

-----------------------------------------------------------------------------
(* Questions and answers.  One question is open at a time: the next can be *)
(* asked only when the answer to the last one has been received, in time   *)
(* or late, and emptied the slot.                                          *)

(* The other PAD does not send answers nobody asked for. *)
OnlyAnswers == \A m \in PeerMessages : m.kind # "Indicate"

Inbound == PeerMessages \cup [kind : {"Indicate"}, answer : Nat]

Answers(q) == {i \in 1 .. Len(q) : q[i].kind = "Indicate"}

AskInv ==
    /\ asked \in Nat /\ answered \in Nat /\ inbox \in Seq(Inbound) /\ sent \in 0 .. Len(out)
    /\ Cardinality(AskAt(out)) <= asked
    /\ slot = 0 => answered = asked
    /\ slot # 0 => slot = asked /\ answered \in {asked - 1, asked}
    /\ \A i \in Answers(inbox) : slot # 0 /\ answered = asked /\ inbox[i].answer = asked
    /\ \A i, j \in Answers(inbox) : i = j
    /\ AnswersMatch

(* What a step can do with questions and answers. *)
Asking ==
    \/ /\ UNCHANGED <<slot, reply, asked, answered>>
       /\ inbox' = inbox \/ (inbox # <<>> /\ inbox' = Tail(inbox))
    \/ Ask
    \/ RecvIndicate
    \/ PeerSends
    \/ PeerAnswers

LEMMA StepAsks ==
    ASSUME [Next]_vars
    PROVE  Asking
<1> USE DEF asking, svc
<1>1. CASE UNCHANGED vars
  BY <1>1 DEF vars, Asking
<1>2. CASE Write \/ StartFlush \/ InviteClear
  BY <1>2 DEF Write, StartFlush, InviteClear, Asking
<1>3. CASE MeetPoison \/ MainFlush \/ GetReply \/ ReplyTimesOut \/ StartClear \/ EndClear
  BY <1>3 DEF MeetPoison, MainFlush, GetReply, ReplyTimesOut, StartClear, EndClear, Asking
<1>4. CASE RecvEnds \/ PadFlush \/ PadClear \/ PadCleared \/ PadEnds
  BY <1>4 DEF RecvEnds, PadFlush, PadClear, PadCleared, PadEnds, Asking
<1>5. CASE RecvData \/ RecvSet \/ RecvRead \/ RecvInvitation \/ RecvMalformed
  BY <1>5 DEF RecvData, RecvSet, RecvRead, RecvInvitation, RecvMalformed, Receives, Asking
<1>6. CASE IdleSends \/ ReadCheck \/ ReadWait \/ SpuriousWake
  BY <1>6 DEF IdleSends, ReadCheck, ReadWait, SpuriousWake, Asking
<1>7. CASE Drain \/ CircuitEnds \/ Expire
  BY <1>7 DEF Drain, CircuitEnds, Expire, Asking
<1> QED BY <1>1, <1>2, <1>3, <1>4, <1>5, <1>6, <1>7
        DEF Next, MainThread, PadThread, Reader, Asking

(* Only Ask passes a question on. *)
LEMMA QuestionsKept ==
    ASSUME SendInv, [Next]_vars
    PROVE  AskAt(out') = AskAt(out) \/ (Ask /\ SvcSend([kind |-> "Ask"]))
<1>1. CASE UNCHANGED out
  BY <1>1
<1>2. ASSUME NEW m \in Others, SvcSend(m) PROVE AskAt(out') = AskAt(out)
  <2>1. m \in Message /\ m.kind # "Ask"
    BY DEF Others, Message, Indicate
  <2> QED BY <1>2, <2>1, Passed
<1>3. CASE SvcSend(DataMessage(send_queue))
  <2>1. DataMessage(send_queue) \in Message /\ DataMessage(send_queue).kind # "Ask"
    BY DEF SendInv, DataMessage, Message
  <2> QED BY <1>3, <2>1, Passed
<1>4. CASE Write
  <2>1. PICK w : PutOK(w) /\ out' = w.out
    BY <1>4, WriteIs
  <2> QED BY <2>1 DEF PutOK
<1> QED BY StepSends, <1>1, <1>2, <1>3, <1>4 DEF Sends

LEMMA SentStep ==
    ASSUME SendInv, [Next]_vars, sent \in 0 .. Len(out)
    PROVE  sent' \in 0 .. Len(out')
<1>1. Len(out') >= Len(out) /\ Len(out) \in Nat /\ Len(out') \in Nat
  BY SendStep DEF SendInv
<1>2. CASE sent' = sent
  BY <1>1, <1>2
<1>3. CASE Drain
  BY <1>1, <1>3 DEF Drain
<1>4. CASE UNCHANGED vars
  BY <1>2, <1>4 DEF vars, svc
<1>5. CASE MainThread
  BY <1>2, <1>5 DEF MainThread, Write, StartFlush, Ask, InviteClear, MeetPoison, MainFlush,
              GetReply, ReplyTimesOut, StartClear, EndClear, svc
<1>6. CASE PadThread
  BY <1>2, <1>6 DEF PadThread, RecvEnds, RecvData, RecvSet, RecvRead, RecvIndicate, RecvInvitation,
              RecvMalformed, PadFlush, PadClear, PadCleared, PadEnds, svc
<1>7. CASE IdleSends \/ Reader \/ SpuriousWake
  BY <1>2, <1>7 DEF IdleSends, Reader, ReadCheck, ReadWait, SpuriousWake, svc
<1>8. CASE PeerSends \/ PeerAnswers \/ CircuitEnds \/ Expire
  BY <1>2, <1>8 DEF PeerSends, PeerAnswers, CircuitEnds, Expire, svc
<1> QED BY <1>3, <1>4, <1>5, <1>6, <1>7, <1>8 DEF Next

LEMMA AnswersTail ==
    ASSUME NEW q \in Seq(Inbound), q # <<>>
    PROVE  /\ Tail(q) \in Seq(Inbound)
           /\ \A i \in Answers(Tail(q)) : i + 1 \in Answers(q) /\ Tail(q)[i] = q[i + 1] /\ i \in Nat \ {0}
<1>1. /\ Tail(q) \in Seq(Inbound) /\ Len(Tail(q)) = Len(q) - 1 /\ Len(q) \in Nat \ {0}
      /\ \A i \in 1 .. Len(q) - 1 : Tail(q)[i] = q[i + 1]
  BY TailIs
<1> DEFINE t == Tail(q)
<1>2. t \in Seq(Inbound) /\ Len(t) = Len(q) - 1 /\ \A i \in 1 .. Len(q) - 1 : t[i] = q[i + 1]
  BY <1>1
<1> HIDE DEF t
<1>3. \A i \in Answers(t) : i + 1 \in Answers(q) /\ t[i] = q[i + 1] /\ i \in Nat \ {0}
  BY <1>1, <1>2 DEF Answers
<1> QED BY <1>2, <1>3 DEF t

LEMMA AnswersAppend ==
    ASSUME NEW q \in Seq(Inbound), NEW m \in Inbound
    PROVE  /\ Append(q, m) \in Seq(Inbound)
           /\ \A i \in Answers(Append(q, m)) :
                 \/ i \in Answers(q) /\ Append(q, m)[i] = q[i]
                 \/ i = Len(q) + 1 /\ Append(q, m)[i] = m /\ m.kind = "Indicate"
<1> DEFINE t == Append(q, m)
<1>1. /\ t \in Seq(Inbound) /\ Len(t) = Len(q) + 1 /\ Len(q) \in Nat
      /\ \A i \in 1 .. Len(q) : t[i] = q[i]
      /\ t[Len(q) + 1] = m
  BY AppendIs
<1> HIDE DEF t
<1>2. \A i \in 1 .. Len(t) : i \in 1 .. Len(q) \/ i = Len(q) + 1
  BY <1>1
<1>3. \A i \in Answers(t) : \/ i \in Answers(q) /\ t[i] = q[i]
                            \/ i = Len(q) + 1 /\ t[i] = m /\ m.kind = "Indicate"
  BY <1>1, <1>2 DEF Answers
<1> QED BY <1>1, <1>3 DEF t

LEMMA AskStep ==
    ASSUME OnlyAnswers, SendInv, AskInv, [Next]_vars
    PROVE  AskInv'
<1>0. /\ asked \in Nat /\ answered \in Nat /\ inbox \in Seq(Inbound) /\ sent' \in 0 .. Len(out')
      /\ out \in Seq(Message) /\ out' \in Seq(Message)
      /\ Cardinality(AskAt(out)) \in Nat /\ Cardinality(AskAt(out')) \in Nat
  <2>1. out \in Seq(Message) /\ out' \in Seq(Message) /\ sent' \in 0 .. Len(out')
    BY SendStep, SentStep DEF SendInv, AskInv
  <2>2. Cardinality(AskAt(out)) \in Nat /\ Cardinality(AskAt(out')) \in Nat
    <3>1. Indicate \in Message
      BY DEF Message
    <3> QED BY <2>1, <3>1, AskAtAppend
  <2> QED BY <2>1, <2>2 DEF AskInv
<1>1. CASE Ask
  <2>1. UNCHANGED <<answered, inbox>>
    BY <1>1 DEF Ask
  <2>2. Cardinality(AskAt(out')) <= Cardinality(AskAt(out)) + 1
    <3>1. CASE AskAt(out') = AskAt(out)
      BY <1>0, <3>1
    <3>2. CASE SvcSend([kind |-> "Ask"])
      BY <3>2, Passed DEF Message
    <3> QED BY QuestionsKept, <3>1, <3>2
  <2>3. CASE slot = 0
    <3>1. slot' = asked + 1 /\ asked' = asked + 1 /\ reply' = NoReply
      BY <1>1, <2>3 DEF Ask
    <3>2. Answers(inbox') = {}
      BY <2>1, <2>3 DEF AskInv
    <3>3. Cardinality(AskAt(out')) <= asked'
      BY <1>0, <2>2, <3>1 DEF AskInv
    <3> QED BY <1>0, <2>1, <2>3, <3>1, <3>2, <3>3 DEF AskInv, AnswersMatch
  <2>4. CASE slot # 0
    <3>1. UNCHANGED <<slot, reply, asked, out>>
      BY <1>1, <2>4 DEF Ask
    <3> QED BY <1>0, <2>1, <3>1 DEF AskInv, AnswersMatch
  <2> QED BY <2>3, <2>4
<1>2. CASE ~Ask
  <2>1. AskAt(out') = AskAt(out)
    BY <1>2, QuestionsKept
  <2>2. CASE /\ UNCHANGED <<slot, reply, asked, answered>>
             /\ inbox' = inbox \/ (inbox # <<>> /\ inbox' = Tail(inbox))
    <3>1. CASE inbox' = inbox
      BY <1>0, <2>1, <2>2, <3>1 DEF AskInv, AnswersMatch
    <3>2. CASE inbox # <<>> /\ inbox' = Tail(inbox)
      <4>1. /\ inbox' \in Seq(Inbound)
            /\ \A i \in Answers(inbox') : i + 1 \in Answers(inbox) /\ inbox'[i] = inbox[i + 1] /\ i \in Nat \ {0}
        BY <1>0, <3>2, AnswersTail
      <4>2. \A i, j \in Answers(inbox') : i = j
        BY <4>1 DEF AskInv
      <4>3. \A i \in Answers(inbox') : slot # 0 /\ answered = asked /\ inbox'[i].answer = asked
        BY <4>1 DEF AskInv
      <4> QED BY <1>0, <2>1, <2>2, <4>1, <4>2, <4>3 DEF AskInv, AnswersMatch
    <3> QED BY <2>2, <3>1, <3>2
  <2>3. CASE RecvIndicate
    <3>1. /\ inbox # <<>> /\ Head(inbox).kind = "Indicate" /\ inbox' = Tail(inbox)
          /\ UNCHANGED <<asked, answered>>
      BY <2>3 DEF RecvIndicate, Receives
    <3>2. /\ inbox' \in Seq(Inbound)
          /\ \A i \in Answers(inbox') : i + 1 \in Answers(inbox) /\ i \in Nat \ {0}
      BY <1>0, <3>1, AnswersTail
    <3>3. 1 \in Answers(inbox) /\ Head(inbox) = inbox[1]
      <4>1. Head(inbox) = inbox[1] /\ Len(inbox) \in Nat \ {0}
        BY <1>0, <3>1, TailIs
      <4> QED BY <3>1, <4>1 DEF Answers
    <3>4. Answers(inbox') = {}
      BY <3>2, <3>3 DEF AskInv
    <3>5. slot # 0 /\ slot = asked /\ answered = asked /\ Head(inbox).answer = asked
      BY <3>3 DEF AskInv
    <3>6. slot' = 0 \/ slot' = slot
      BY <2>3 DEF RecvIndicate
    <3>7. reply' = reply \/ reply' = [to |-> slot, answer |-> Head(inbox).answer]
      BY <2>3 DEF RecvIndicate
    <3>8. AnswersMatch'
      BY <3>5, <3>7 DEF AskInv, AnswersMatch
    <3> QED BY <1>0, <2>1, <3>1, <3>2, <3>4, <3>5, <3>6, <3>8 DEF AskInv
  <2>4. CASE PeerSends
    <3>1. PICK m \in PeerMessages : inbox' = Append(inbox, m)
      BY <2>4 DEF PeerSends
    <3>2. m \in Inbound /\ m.kind # "Indicate"
      BY DEF Inbound, OnlyAnswers
    <3>3. UNCHANGED <<slot, reply, asked, answered>>
      BY <2>4 DEF PeerSends, asking
    <3>4. /\ inbox' \in Seq(Inbound)
          /\ \A i \in Answers(inbox') : i \in Answers(inbox) /\ inbox'[i] = inbox[i]
      BY <1>0, <3>1, <3>2, AnswersAppend
    <3> QED BY <1>0, <2>1, <3>3, <3>4 DEF AskInv, AnswersMatch
  <2>5. CASE PeerAnswers
    <3> DEFINE m == [kind |-> "Indicate", answer |-> answered + 1]
               reached == {i \in 1 .. sent : out[i].kind = "Ask"}
    <3>1. /\ answered < Cardinality(reached) /\ answered' = answered + 1
          /\ inbox' = Append(inbox, m) /\ UNCHANGED <<slot, reply, asked>>
      BY <2>5 DEF PeerAnswers
    <3>2. Cardinality(reached) <= Cardinality(AskAt(out)) /\ Cardinality(reached) \in Nat
      <4>1. reached \in SUBSET AskAt(out)
        <5>1. sent \in 0 .. Len(out) /\ Len(out) \in Nat
          BY <1>0 DEF AskInv
        <5> QED BY <5>1 DEF AskAt
      <4>2. IsFiniteSet(AskAt(out))
        <5>1. Indicate \in Message
          BY DEF Message
        <5> QED BY <1>0, <5>1, AskAtAppend
      <4> HIDE DEF reached
      <4> QED BY <4>1, <4>2, FS_Subset, FS_CardinalityType
    <3> HIDE DEF reached
    <3>3. answered < asked
      BY <1>0, <3>1, <3>2 DEF AskInv
    <3>4. slot # 0 /\ slot = asked /\ answered = asked - 1 /\ Answers(inbox) = {}
      BY <1>0, <3>3 DEF AskInv
    <3>5. m \in Inbound /\ m.answer = answered + 1
      BY <1>0 DEF Inbound
    <3> HIDE DEF m
    <3>6. /\ inbox' \in Seq(Inbound)
          /\ \A i \in Answers(inbox') : i = Len(inbox) + 1 /\ inbox'[i] = m
      BY <1>0, <3>1, <3>4, <3>5, AnswersAppend
    <3>7. \A i, j \in Answers(inbox') : i = j
      BY <3>6
    <3>8. answered' = asked /\ \A i \in Answers(inbox') : inbox'[i].answer = asked
      BY <1>0, <3>1, <3>4, <3>5, <3>6
    <3> QED BY <1>0, <2>1, <3>1, <3>4, <3>6, <3>7, <3>8 DEF AskInv, AnswersMatch
  <2> QED BY <1>2, StepAsks, <2>2, <2>3, <2>4, <2>5 DEF Asking
<1> QED BY <1>1, <1>2

LEMMA InitAsk == Init => AskInv
<1> SUFFICES ASSUME Init PROVE AskInv
  OBVIOUS
<1>1. /\ out = <<>> /\ inbox = <<>> /\ sent = 0 /\ asked = 0 /\ answered = 0 /\ slot = 0
      /\ reply = NoReply
  BY DEF Init
<1>2. AskAt(out) = {} /\ Answers(inbox) = {}
  BY <1>1 DEF AskAt, Answers
<1>3. Cardinality({}) = 0
  BY FS_EmptySet
<1>4. inbox \in Seq(Inbound) /\ sent \in 0 .. Len(out)
  BY <1>1
<1>5. AnswersMatch
  BY <1>1 DEF AnswersMatch
<1>6. /\ asked \in Nat /\ answered \in Nat /\ Cardinality(AskAt(out)) <= asked
      /\ (slot = 0 => answered = asked) /\ slot = 0
  BY <1>1, <1>2, <1>3
<1> QED BY <1>2, <1>4, <1>5, <1>6 DEF AskInv

(* A question is answered by its own answer and never by the late answer   *)
(* to one that timed out, whatever the order of the two, if the other PAD  *)
(* only sends answers to what it is asked.                                 *)
THEOREM AnswersMatchAlways ==
    ASSUME OnlyAnswers
    PROVE  Spec => []AnswersMatch
<1>1. SendInv /\ AskInv /\ [Next]_vars => AskInv'
  BY AskStep
<1>2. AskInv => AnswersMatch
  BY DEF AskInv
<1> QED BY <1>1, <1>2, InitAsk, SendAlways, PTL DEF Spec

-----------------------------------------------------------------------------
(* Types. *)

PadPcs == {"recv", "clear", "clearing", "ending", "notify", "done", "dead",
           "flush", "set flush", "clear flush",
           "flush wait", "set flush wait", "clear flush wait"}
MainPcs == {"idle", "await", "clearing", "gone", "failed", "dead",
            "flush", "ask", "invite", "flush wait", "ask wait", "invite wait"}

LEMMA PadAsleepIs ==
    /\ DOMAIN PadAsleep = {"flush", "set flush", "clear flush"}
    /\ PadAsleep["flush"] = "flush wait"
    /\ PadAsleep["set flush"] = "set flush wait"
    /\ PadAsleep["clear flush"] = "clear flush wait"
  BY DEF PadAsleep

LEMMA AsleepIs ==
    /\ DOMAIN Asleep = {"flush", "ask", "invite"}
    /\ Asleep["flush"] = "flush wait" /\ Asleep["ask"] = "ask wait"
    /\ Asleep["invite"] = "invite wait"
  BY DEF Asleep

LEMMA AwakeType ==
    /\ \A at \in PadPcs : Awake(PadAsleep, at) \in PadPcs
    /\ \A at \in MainPcs : Awake(Asleep, at) \in MainPcs
<1>1. \A at \in PadPcs : Awake(PadAsleep, at) \in PadPcs
  BY PadAsleepIs DEF Awake, PadPcs
<1>2. \A at \in MainPcs : Awake(Asleep, at) \in MainPcs
  BY AsleepIs DEF Awake, MainPcs
<1> QED BY <1>1, <1>2

PcsInv == /\ pad \in PadPcs /\ main \in MainPcs
          /\ idle \in {"running", "gone"} /\ reader \in {"check", "gap", "wait", "done"}
          /\ poisoned \subseteq {"params", "send_queue", "indicate"}
          /\ circuit \in {"open", "clearing", "cleared", "broken", "poisoned"}

LEMMA PcsStep ==
    ASSUME PcsInv, [Next]_vars
    PROVE  PcsInv'
<1> USE DEF PcsInv, threads, svc
<1>1. CASE UNCHANGED vars
  BY <1>1 DEF vars
<1>2. CASE MainThread
  <2>1. CASE Write
    BY <2>1 DEF Write, WakeReader, MainPcs
  <2>2. CASE StartFlush \/ Ask \/ InviteClear
    BY <2>2 DEF StartFlush, Ask, InviteClear, AfterSend, MainPcs
  <2>3. CASE MeetPoison \/ GetReply \/ ReplyTimesOut \/ StartClear \/ EndClear
    BY <2>3 DEF MeetPoison, GetReply, ReplyTimesOut, StartClear, EndClear, MainPcs
  <2>4. CASE MainFlush
    BY <2>4, AsleepIs DEF MainFlush, MainPcs
  <2> QED BY <1>2, <2>1, <2>2, <2>3, <2>4 DEF MainThread
<1>3. CASE PadThread
  <2> USE DEF PadDies, PadPcs
  <2>1. CASE RecvEnds \/ RecvMalformed
    BY <2>1 DEF RecvEnds, RecvMalformed, Receives, Poisoned
  <2>2. CASE RecvData
    BY <2>2 DEF RecvData, Receives, WakeReader
  <2>3. CASE RecvSet
    BY <2>3 DEF RecvSet, Receives, SendAnswer
  <2>4. CASE RecvRead
    BY <2>4 DEF RecvRead, Receives, SendAnswer
  <2>5. CASE RecvIndicate
    BY <2>5 DEF RecvIndicate, Receives
  <2>6. CASE RecvInvitation
    BY <2>6 DEF RecvInvitation, Receives
  <2>7. CASE PadFlush
    BY <2>7, PadAsleepIs DEF PadFlush, Poisoned
  <2>8. CASE PadClear \/ PadCleared \/ PadEnds
    BY <2>8 DEF PadClear, PadCleared, PadEnds, Poisoned, WakeReader
  <2> QED BY <1>3, <2>1, <2>2, <2>3, <2>4, <2>5, <2>6, <2>7, <2>8 DEF PadThread
<1>4. CASE IdleSends
  BY <1>4 DEF IdleSends
<1>5. CASE Reader
  BY <1>5 DEF Reader, ReadCheck, ReadWait
<1>6. CASE Drain \/ SpuriousWake
  BY <1>6, AwakeType DEF Drain, SpuriousWake
<1>7. CASE PeerSends \/ PeerAnswers \/ CircuitEnds \/ Expire
  BY <1>7 DEF PeerSends, PeerAnswers, CircuitEnds, Expire
<1> QED BY <1>1, <1>2, <1>3, <1>4, <1>5, <1>6, <1>7 DEF Next

QueueInv == /\ deadline \in {"none", "set", "due"}
            /\ deadline # "none" => send_queue # <<>>
            /\ recv_end \in BOOLEAN
            /\ asked \in Nat /\ slot \in 0 .. asked /\ sent \in 0 .. Len(out)

LEMMA QueueStep ==
    ASSUME SendInv, QueueInv, [Next]_vars
    PROVE  QueueInv'
<1>0. sent' \in 0 .. Len(out')
  BY SentStep DEF QueueInv
<1>1. ASSUME asked' = asked, slot' = slot \/ slot' = 0,
             recv_end' = recv_end \/ recv_end' = TRUE,
             \/ UNCHANGED <<deadline, send_queue>>
             \/ deadline' = "none"
             \/ deadline = "set" /\ deadline' = "due" /\ send_queue' = send_queue
      PROVE  QueueInv'
  <2>1. deadline' \in {"none", "set", "due"} /\ (deadline' # "none" => send_queue' # <<>>)
    BY <1>1 DEF QueueInv
  <2>2. recv_end' \in BOOLEAN
    BY <1>1 DEF QueueInv
  <2>3. asked' \in Nat /\ slot' \in 0 .. asked'
    BY <1>1 DEF QueueInv
  <2> QED BY <1>0, <2>1, <2>2, <2>3 DEF QueueInv
<1> USE DEF queues, asking
<1>2. CASE UNCHANGED vars
  BY <1>1, <1>2 DEF vars
<1>3. CASE Write
  <2>1. PICK w : /\ PutOK(w) /\ send_queue' = w.sendq
                 /\ deadline' = IF ~w.failed /\ w.sendq # <<>> /\ params.idle THEN "set"
                                ELSE IF w.drained THEN "none" ELSE deadline
    BY <1>3, WriteIs
  <2>2. deadline' \in {"none", "set", "due"} /\ (deadline' # "none" => send_queue' # <<>>)
    BY <2>1 DEF PutOK, QueueInv
  <2>3. UNCHANGED <<recv_end, asked, slot>>
    BY <1>3 DEF Write
  <2> QED BY <1>0, <2>2, <2>3 DEF QueueInv
<1>4. CASE StartFlush \/ InviteClear \/ MeetPoison \/ MainFlush
  BY <1>1, <1>4 DEF StartFlush, InviteClear, MeetPoison, MainFlush
<1>5. CASE Ask
  <2>1. UNCHANGED <<deadline, send_queue, recv_end>> /\ slot' \in 0 .. asked' /\ asked' \in Nat
    BY <1>5 DEF Ask, QueueInv
  <2> QED BY <1>0, <2>1 DEF QueueInv
<1>6. CASE GetReply \/ ReplyTimesOut \/ StartClear \/ EndClear
  BY <1>1, <1>6 DEF GetReply, ReplyTimesOut, StartClear, EndClear
<1>7. CASE RecvEnds \/ RecvSet \/ RecvRead \/ RecvMalformed \/ PadFlush
  BY <1>1, <1>7 DEF RecvEnds, RecvSet, RecvRead, RecvMalformed, PadFlush
<1>8. CASE RecvData \/ RecvIndicate \/ RecvInvitation
  BY <1>1, <1>8 DEF RecvData, RecvIndicate, RecvInvitation
<1>9. CASE PadClear \/ PadCleared \/ PadEnds
  BY <1>1, <1>9 DEF PadClear, PadCleared, PadEnds
<1>10. CASE IdleSends \/ ReadCheck \/ ReadWait \/ SpuriousWake
  BY <1>1, <1>10 DEF IdleSends, ReadCheck, ReadWait, SpuriousWake
<1>11. CASE Drain \/ PeerSends \/ PeerAnswers \/ CircuitEnds \/ Expire
  BY <1>1, <1>11 DEF Drain, PeerSends, PeerAnswers, CircuitEnds, Expire
<1> QED BY <1>2, <1>3, <1>4, <1>5, <1>6, <1>7, <1>8, <1>9, <1>10, <1>11
        DEF Next, MainThread, PadThread, Reader

(* Every thread is at a point of its code and holds what it can hold       *)
(* there; a deadline is set only over octets that wait; send_queue is      *)
(* never a packet long between two steps (Pad::write).                     *)
THEOREM PadTypes == Spec => []PadTypeOK
<1>1. Init => PcsInv /\ QueueInv
  <2> SUFFICES ASSUME Init PROVE PcsInv /\ QueueInv
    OBVIOUS
  <2>1. PcsInv
    BY DEF Init, PcsInv, PadPcs, MainPcs
  <2>2. /\ out = <<>> /\ sent = 0 /\ slot = 0 /\ asked = 0
        /\ deadline = "none" /\ recv_end = FALSE
    BY DEF Init
  <2>3. Len(out) = 0
    BY <2>2
  <2>4. sent \in 0 .. Len(out)
    BY <2>2, <2>3
  <2>5. QueueInv
    BY <2>2, <2>4 DEF QueueInv
  <2> QED BY <2>1, <2>5
<1>2. PcsInv /\ [Next]_vars => PcsInv'
  BY PcsStep
<1>3. SendInv /\ QueueInv /\ [Next]_vars => QueueInv'
  BY QueueStep
<1>4. SendInv /\ PcsInv /\ QueueInv => PadTypeOK
  <2> SUFFICES ASSUME SendInv, PcsInv, QueueInv PROVE PadTypeOK
    OBVIOUS
  <2>1. PadPcs = {"recv", "clear", "clearing", "ending", "notify", "done", "dead"}
                     \cup DOMAIN PadAsleep \cup Range(PadAsleep)
    BY PadAsleepIs DEF PadPcs, Range
  <2>2. MainPcs = {"idle", "await", "clearing", "gone", "failed", "dead"}
                      \cup DOMAIN Asleep \cup Range(Asleep)
    BY AsleepIs DEF MainPcs, Range
  <2> QED BY <2>1, <2>2 DEF SendInv, PcsInv, QueueInv, PadTypeOK
<1> QED BY <1>1, <1>2, <1>3, <1>4, SendAlways, PTL DEF Spec
=============================================================================
