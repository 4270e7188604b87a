------------------------- MODULE X25CallDataProofs --------------------------
(***************************************************************************)
(* The data of the virtual call of X25Call, for all values of the          *)
(* constants: as long as nobody resets, nothing that an application sent   *)
(* is lost, and each end receives the messages of the other whole, once    *)
(* each and in order.                                                      *)
(*                                                                         *)
(* First what is true of octets and of chunks on a wire, then how messages *)
(* are cut and put together again, then one direction of the call, then    *)
(* the invariant of both, and last the theorems.                           *)
(***************************************************************************)
EXTENDS X25CallProofs

-----------------------------------------------------------------------------
Carries(S, O) == \A x \in S : x.data \in Seq(O)

(* The octets of chunks, one after another. *)
Datas(c) == [i \in 1 .. Len(c) |-> c[i].data]

LEMMA DatasType ==
    ASSUME NEW O, NEW S, Carries(S, O), NEW c \in Seq(S)
    PROVE  /\ Datas(c) \in Seq(Seq(O)) /\ Len(Datas(c)) = Len(c)
           /\ Octs(c) = FlattenSeq(Datas(c)) /\ Octs(c) \in Seq(O)
  <1>1. Datas(c) \in Seq(Seq(O)) /\ Len(Datas(c)) = Len(c)
    BY DEF Datas, Carries
  <1> QED BY <1>1, FlattenType DEF Octs, Datas

LEMMA OctsNone == Octs(<<>>) = <<>>
  <1>1. Datas(<<>>) = <<>>
    BY DEF Datas
  <1> QED BY <1>1, FlattenNone DEF Octs, Datas

LEMMA OctsAppend ==
    ASSUME NEW O, NEW S, Carries(S, O), NEW c \in Seq(S), NEW x \in S
    PROVE  Octs(Append(c, x)) = Octs(c) \o x.data
  <1>1. Datas(Append(c, x)) = Append(Datas(c), x.data)
    BY AppendIs DEF Datas
  <1>2. Datas(c) \in Seq(Seq(O)) /\ Append(c, x) \in Seq(S) /\ x.data \in Seq(O)
    BY DatasType DEF Carries
  <1> QED BY <1>1, <1>2, DatasType, FlattenAppend DEF Datas, Octs

LEMMA OctsOne ==
    ASSUME NEW O, NEW S, Carries(S, O), NEW x \in S
    PROVE  Octs(<<x>>) = x.data
  <1>1. Append(<<>>, x) = <<x>>
    OBVIOUS
  <1>2. <<>> \in Seq(S) /\ <<>> \o x.data = x.data
    BY NoneJoined DEF Carries
  <1>3. Octs(Append(<<>>, x)) = Octs(<<>>) \o x.data
    BY <1>2, OctsAppend
  <1> QED BY <1>1, <1>2, <1>3, OctsNone, Zenon

LEMMA OctsJoin ==
    ASSUME NEW O, NEW S, Carries(S, O), NEW c \in Seq(S), NEW d \in Seq(S)
    PROVE  Octs(c \o d) = Octs(c) \o Octs(d)
  <1>1. Datas(c \o d) = Datas(c) \o Datas(d)
    BY JoinIs DEF Datas
  <1>2. Datas(c) \in Seq(Seq(O)) /\ Datas(d) \in Seq(Seq(O))
    BY DatasType
  <1>3. FlattenSeq(Datas(c) \o Datas(d)) = FlattenSeq(Datas(c)) \o FlattenSeq(Datas(d))
    BY <1>2, FlattenCat
  <1> QED BY <1>1, <1>3 DEF Octs, Datas

(* What is put together of sequences of chunks. *)
OctsEach(ss) == [i \in 1 .. Len(ss) |-> Octs(ss[i])]

LEMMA OctsEachAppend ==
    ASSUME NEW O, NEW S, Carries(S, O), NEW p \in Seq(Seq(S)), NEW x \in Seq(S)
    PROVE  /\ OctsEach(p) \in Seq(Seq(O)) /\ Octs(x) \in Seq(O)
           /\ OctsEach(Append(p, x)) = Append(OctsEach(p), Octs(x))
  <1>1. \A c \in Seq(S) : Octs(c) \in Seq(O)
    BY DatasType
  <1>2. OctsEach(p) \in Seq(Seq(O))
    BY <1>1 DEF OctsEach
  <1> QED BY <1>1, <1>2, AppendIs DEF OctsEach

LEMMA OctsFlat ==
    ASSUME NEW O, NEW S, Carries(S, O), NEW ss \in Seq(Seq(S))
    PROVE  Octs(FlattenSeq(ss)) = FlattenSeq(OctsEach(ss))
<1> DEFINE Splits(q) == Octs(FlattenSeq(q)) = FlattenSeq(OctsEach(q))
           Bad == {n \in Nat : \E q \in Seq(Seq(S)) : Len(q) = n /\ ~Splits(q)}
<1> SUFFICES ASSUME Bad # {} PROVE FALSE
  <2>1. Len(ss) \in Nat
    OBVIOUS
  <2> QED BY <2>1
<1>1. PICK n \in Bad : \A m \in Bad : n <= m
  BY LeastNumber, Zenon
<1>2. PICK q \in Seq(Seq(S)) : Len(q) = n /\ ~Splits(q)
  BY <1>1
<1>3. CASE q = <<>>
  <2>1. OctsEach(<<>>) = <<>>
    BY DEF OctsEach
  <2> QED BY <1>2, <1>3, <2>1, OctsNone, FlattenNone, Zenon
<1>4. CASE q # <<>>
  <2>1. PICK p \in Seq(Seq(S)), y \in Seq(S) : q = Append(p, y) /\ Len(q) = Len(p) + 1
    BY <1>4, LastIs, Zenon
  <2>2. Len(p) \in Nat /\ n = Len(p) + 1 /\ ~(n <= Len(p))
    <3> HIDE DEF Bad
    <3>1. Len(p) \in Nat /\ n = Len(p) + 1
      BY <1>2, <2>1
    <3> QED BY <3>1
  <2>3. Splits(p)
    <3>1. Len(p) \notin Bad
      BY <1>1, <2>2
    <3> HIDE DEF Splits
    <3> QED BY <2>2, <3>1
  <2>4. FlattenSeq(q) = FlattenSeq(p) \o y /\ FlattenSeq(p) \in Seq(S)
    BY <2>1, FlattenAppend, FlattenType
  <2>5. Octs(FlattenSeq(p) \o y) = Octs(FlattenSeq(p)) \o Octs(y)
    BY <2>1, <2>4, OctsJoin
  <2>6. /\ OctsEach(p) \in Seq(Seq(O)) /\ Octs(y) \in Seq(O)
        /\ OctsEach(q) = Append(OctsEach(p), Octs(y))
    BY <2>1, OctsEachAppend
  <2>7. FlattenSeq(Append(OctsEach(p), Octs(y))) = FlattenSeq(OctsEach(p)) \o Octs(y)
    BY <2>6, FlattenAppend
  <2> QED BY <1>2, <2>3, <2>4, <2>5, <2>6, <2>7, Zenon
<1> QED BY <1>3, <1>4

-----------------------------------------------------------------------------
(* How a message is cut. *)

LEMMA CountIs ==
    ASSUME NEW n \in Nat, NEW z \in Nat \ {0}, NEW c, c = (n + z - 1) \div z
    PROVE  c \in Nat /\ n <= c * z /\ c * z <= n + z - 1
  OBVIOUS

LEMMA PieceOf ==
    ASSUME NEW z \in Nat \ {0}, NEW c \in Nat, NEW n \in Nat, n <= c * z, c * z <= n + z - 1,
           NEW i \in 1 .. c
    PROVE  /\ (i - 1) * z \in Nat /\ (i - 1) * z < n
           /\ i < c => i * z < n /\ i * z = (i - 1) * z + z
  OBVIOUS

LEMMA SubSeqJoin ==
    ASSUME NEW S, NEW q \in Seq(S), NEW a \in 0 .. Len(q), NEW b \in a .. Len(q)
    PROVE  /\ SubSeq(q, 1, a) \o SubSeq(q, a + 1, b) = SubSeq(q, 1, b)
           /\ SubSeq(q, a + 1, b) \in Seq(S)
  <1>1. Len(q) \in Nat /\ a \in Nat /\ b \in Nat /\ a <= b /\ b <= Len(q)
    OBVIOUS
  <1>2. /\ SubSeq(q, a + 1, b) \in Seq(S) /\ Len(SubSeq(q, a + 1, b)) = b - a
        /\ \A i \in 1 .. b - a : SubSeq(q, a + 1, b)[i] = q[a + i]
    BY <1>1
  <1>3. /\ SubSeq(q, 1, a) \in Seq(S) /\ Len(SubSeq(q, 1, a)) = a
        /\ \A i \in 1 .. a : SubSeq(q, 1, a)[i] = q[i]
    BY <1>1
  <1>4. /\ SubSeq(q, 1, b) \in Seq(S) /\ Len(SubSeq(q, 1, b)) = b
        /\ \A i \in 1 .. b : SubSeq(q, 1, b)[i] = q[i]
    BY <1>1
  <1> QED BY <1>1, <1>2, <1>3, <1>4

LEMMA ChunksType ==
    ASSUME NEW m, m.data \in Seq(Octets), m.qualifier \in BOOLEAN, NEW z \in Nat \ {0}
    PROVE  /\ A!Chunks(m, z) \in Seq(A!SendData)
           /\ Len(A!Chunks(m, z)) = (Len(m.data) + z - 1) \div z
           /\ Len(m.data) <= Len(A!Chunks(m, z)) * z
           /\ Len(A!Chunks(m, z)) * z <= Len(m.data) + z - 1
           /\ \A i \in 1 .. Len(A!Chunks(m, z)) :
                 /\ A!Chunks(m, z)[i].data
                       = SubSeq(m.data, (i - 1) * z + 1,
                                IF i = Len(A!Chunks(m, z)) THEN Len(m.data) ELSE i * z)
                 /\ A!Chunks(m, z)[i].more <=> i < Len(A!Chunks(m, z))
                 /\ A!Chunks(m, z)[i].qualifier = m.qualifier
  <1> DEFINE n == Len(m.data)
             c == (n + z - 1) \div z
             piece(i) == SubSeq(m.data, (i - 1) * z + 1, IF i = c THEN n ELSE i * z)
             chunk(i) == [data |-> piece(i), qualifier |-> m.qualifier, more |-> i < c]
  <1>1. n \in Nat
    OBVIOUS
  <1>2. c \in Nat /\ n <= c * z /\ c * z <= n + z - 1
    <2> HIDE DEF n
    <2> QED BY <1>1, CountIs
  <1>3. A!Chunks(m, z) = [i \in 1 .. c |-> chunk(i)]
    BY DEF A!Chunks
  <1>4. ASSUME NEW i \in 1 .. c
        PROVE  piece(i) \in Seq(Octets)
    <2> DEFINE a == (i - 1) * z
               b == IF i = c THEN n ELSE i * z
    <2>1. a \in 0 .. n /\ b \in a .. n
      <3> HIDE DEF n, c
      <3> QED BY <1>1, <1>2, PieceOf
    <2> HIDE DEF a, b
    <2>2. SubSeq(m.data, a + 1, b) \in Seq(Octets)
      BY <2>1, SubSeqJoin
    <2> QED BY <2>2 DEF a, b
  <1> HIDE DEF n, c, piece
  <1>5. \A i \in 1 .. c : chunk(i) \in A!SendData
    BY <1>4 DEF A!SendData
  <1>6. A!Chunks(m, z) \in Seq(A!SendData) /\ Len(A!Chunks(m, z)) = c
    <2> HIDE DEF chunk
    <2> QED BY <1>2, <1>3, <1>5
  <1>7. \A i \in 1 .. c :
           /\ A!Chunks(m, z)[i].data = piece(i)
           /\ A!Chunks(m, z)[i].more <=> i < c
           /\ A!Chunks(m, z)[i].qualifier = m.qualifier
    <2> HIDE DEF chunk
    <2>1. \A i \in 1 .. c : A!Chunks(m, z)[i] = chunk(i)
      BY <1>3
    <2>2. ASSUME NEW i \in 1 .. c
          PROVE  /\ chunk(i).data = piece(i)
                 /\ chunk(i).more <=> i < c
                 /\ chunk(i).qualifier = m.qualifier
      BY Zenon DEF chunk
    <2> QED BY <2>1, <2>2
  <1>8. /\ A!Chunks(m, z) \in Seq(A!SendData)
        /\ Len(A!Chunks(m, z)) = c /\ n <= c * z /\ c * z <= n + z - 1
    BY <1>2, <1>6
  <1> QED BY <1>7, <1>8, Zenon DEF n, c, piece

(* The pieces of a sequence are the sequence. *)
LEMMA PiecesWhole ==
    ASSUME NEW t \in Seq(Octets), NEW z \in Nat \ {0}, NEW w \in Seq(A!SendData),
           Len(t) <= Len(w) * z, Len(w) * z <= Len(t) + z - 1,
           \A i \in 1 .. Len(w) :
              w[i].data = SubSeq(t, (i - 1) * z + 1, IF i = Len(w) THEN Len(t) ELSE i * z)
    PROVE  Octs(w) = t
<1> DEFINE n == Len(t)
           c == Len(w)
           To(k) == IF k = c THEN n ELSE k * z
           Good(k) == Octs(SubSeq(w, 1, k)) = SubSeq(t, 1, To(k))
           Bad == {k \in Nat : k <= c /\ ~Good(k)}
<1>1. n \in Nat /\ c \in Nat /\ n <= c * z /\ c * z <= n + z - 1
  OBVIOUS
<1>2. Carries(A!SendData, Octets)
  BY DEF Carries, A!SendData
<1>3. ASSUME Bad # {} PROVE FALSE
  <2>1. PICK k \in Bad : \A j \in Bad : k <= j
    BY <1>3, LeastNumber, Zenon
  <2>2. CASE k = 0
    <3>1. SubSeq(w, 1, 0) = <<>> /\ SubSeq(t, 1, 0) = <<>>
      OBVIOUS
    <3>2. To(0) = 0
      BY <1>1
    <3> QED BY <2>1, <2>2, <3>1, <3>2, OctsNone, Zenon
  <2>3. CASE k # 0
    <3>1. k \in 1 .. c /\ k - 1 \in 0 .. c /\ k - 1 \in Nat
      BY <1>1, <2>1, <2>3
    <3>2. Good(k - 1)
      <4>1. k - 1 \notin Bad
        BY <2>1, <3>1
      <4> HIDE DEF Good
      <4> QED BY <3>1, <4>1
    <3>3. /\ (k - 1) * z \in 0 .. n /\ To(k - 1) = (k - 1) * z
          /\ To(k) \in (k - 1) * z .. n
      <4> HIDE DEF n, c
      <4> QED BY <1>1, <3>1, PieceOf
    <3>4. w[k] \in A!SendData
          /\ w[k].data = SubSeq(t, (k - 1) * z + 1, To(k))
      <4>1. w[k] \in A!SendData
        BY <3>1
      <4>2. w[k].data = SubSeq(t, (k - 1) * z + 1, To(k))
        BY <3>1, Zenon
      <4> QED BY <4>1, <4>2
    <3>5. /\ SubSeq(w, 1, k - 1) \in Seq(A!SendData)
          /\ SubSeq(w, 1, k) = Append(SubSeq(w, 1, k - 1), w[k])
      BY <1>1, <3>1
    <3>6. SubSeq(t, 1, (k - 1) * z) \o SubSeq(t, (k - 1) * z + 1, To(k))
             = SubSeq(t, 1, To(k))
      <4> DEFINE a == (k - 1) * z
                 b == To(k)
      <4>1. a \in 0 .. Len(t) /\ b \in a .. Len(t)
        BY <3>3
      <4> HIDE DEF a, b
      <4>2. SubSeq(t, 1, a) \o SubSeq(t, a + 1, b) = SubSeq(t, 1, b)
        BY <4>1, SubSeqJoin
      <4> QED BY <4>2 DEF a, b
    <3> DEFINE f == SubSeq(w, 1, k - 1)
               x == w[k]
    <3>7. Octs(Append(f, x)) = Octs(f) \o x.data
      <4>1. f \in Seq(A!SendData) /\ x \in A!SendData
        BY <3>4, <3>5
      <4> HIDE DEF f, x
      <4> QED BY <1>2, <4>1, OctsAppend
    <3>8. Good(k)
      BY <3>2, <3>3, <3>4, <3>5, <3>6, <3>7, Zenon
    <3> QED BY <2>1, <3>8
  <2> QED BY <2>2, <2>3
<1>4. Good(c)
  BY <1>1, <1>3
<1>5. SubSeq(w, 1, c) = w /\ SubSeq(t, 1, n) = t
  BY <1>1
<1> QED BY <1>4, <1>5, Zenon

(* The chunks of a message are the message. *)
LEMMA ChunksWhole ==
    ASSUME NEW m, m.data \in Seq(Octets), m.qualifier \in BOOLEAN, NEW z \in Nat \ {0}
    PROVE  Octs(A!Chunks(m, z)) = m.data
  <1> DEFINE t == m.data
             w == A!Chunks(m, z)
  <1>1. /\ t \in Seq(Octets) /\ w \in Seq(A!SendData)
        /\ Len(t) <= Len(w) * z /\ Len(w) * z <= Len(t) + z - 1
        /\ \A i \in 1 .. Len(w) :
              w[i].data = SubSeq(t, (i - 1) * z + 1, IF i = Len(w) THEN Len(t) ELSE i * z)
    BY ChunksType
  <1> HIDE DEF t, w
  <1>2. Octs(w) = t
    BY <1>1, PiecesWhole
  <1> QED BY <1>2 DEF t, w

-----------------------------------------------------------------------------
(* The chunks on a wire. *)

Chunk(p)    == [data |-> p.data, qualifier |-> p.qualifier, more |-> p.more]
InChunks(p) == IF p.type = "Data" THEN <<Chunk(p)>> ELSE <<>>
OnWire(w)   == [i \in 1 .. Len(w) |-> InChunks(w[i])]
Carried(w)  == FlattenSeq(OnWire(w))

LEMMA InChunksType == ASSUME NEW p \in A!Packets
    PROVE  /\ InChunks(p) \in Seq(A!SendData)
           /\ p.type = "Data" => p.data \in Seq(Octets) /\ Chunk(p) \in A!SendData
  <1>1. ASSUME p.type = "Data" PROVE p \in A!DataPacketSet
    BY <1>1 DEF A!Packets, A!CallPackets, A!ReceiveReadySet, A!PlainPackets
  <1>2. ASSUME p \in A!DataPacketSet PROVE p.data \in Seq(Octets) /\ Chunk(p) \in A!SendData
    BY <1>2 DEF A!DataPacketSet, Chunk, A!SendData
  <1> QED BY <1>1, <1>2 DEF InChunks

LEMMA OnWireIs == ASSUME NEW w \in Seq(A!Packets)
    PROVE  /\ OnWire(w) \in Seq(Seq(A!SendData)) /\ Len(OnWire(w)) = Len(w)
           /\ Carried(w) \in Seq(A!SendData)
  <1>1. OnWire(w) \in Seq(Seq(A!SendData)) /\ Len(OnWire(w)) = Len(w)
    BY InChunksType DEF OnWire
  <1> QED BY <1>1, FlattenType DEF Carried

LEMMA CarriedNone == Carried(<<>>) = <<>>
  <1>1. OnWire(<<>>) = <<>>
    BY DEF OnWire
  <1> QED BY <1>1, FlattenNone DEF Carried

LEMMA CarriedJoin == ASSUME NEW w \in Seq(A!Packets), NEW q \in Seq(A!Packets)
    PROVE  Carried(w \o q) = Carried(w) \o Carried(q)
  <1>1. OnWire(w \o q) = OnWire(w) \o OnWire(q)
    BY JoinIs DEF OnWire
  <1> QED BY <1>1, OnWireIs, FlattenCat DEF Carried

LEMMA CarriedHead == ASSUME NEW w \in Seq(A!Packets), w # <<>>
    PROVE  Carried(w) = InChunks(Head(w)) \o Carried(Tail(w))
  <1>1. Tail(w) \in Seq(A!Packets) /\ Head(w) = w[1] /\ Len(w) \in Nat \ {0}
        /\ Len(Tail(w)) = Len(w) - 1 /\ \A i \in 1 .. Len(w) - 1 : Tail(w)[i] = w[i + 1]
    BY TailIs
  <1>2. OnWire(w) # <<>> /\ Head(OnWire(w)) = InChunks(Head(w))
    BY <1>1 DEF OnWire
  <1>3. Tail(OnWire(w)) = OnWire(Tail(w))
    BY <1>1 DEF OnWire
  <1> QED BY <1>2, <1>3, OnWireIs, FlattenHead DEF Carried

LEMMA CarriedOne == ASSUME NEW p \in A!Packets
    PROVE  Carried(<<p>>) = InChunks(p)
  <1>1. <<p>> \in Seq(A!Packets) /\ <<p>> # <<>> /\ Head(<<p>>) = p /\ Tail(<<p>>) = <<>>
    OBVIOUS
  <1>2. InChunks(p) \o <<>> = InChunks(p)
    BY InChunksType, NoneJoined
  <1>3. Carried(<<p>>) = InChunks(Head(<<p>>)) \o Carried(Tail(<<p>>))
    BY <1>1, CarriedHead
  <1> QED BY <1>1, <1>2, <1>3, CarriedNone, Zenon

Singles(x) == [i \in 1 .. Len(x) |-> <<x[i]>>]

LEMMA SinglesFlat ==
    ASSUME NEW S, NEW x \in Seq(S)
    PROVE  FlattenSeq(Singles(x)) = x
<1> DEFINE Bad == {n \in Nat : \E q \in Seq(S) : Len(q) = n /\ FlattenSeq(Singles(q)) # q}
<1> SUFFICES ASSUME Bad # {} PROVE FALSE
  <2>1. Len(x) \in Nat
    OBVIOUS
  <2> QED BY <2>1
<1>1. PICK n \in Bad : \A m \in Bad : n <= m
  BY LeastNumber, Zenon
<1>2. PICK q \in Seq(S) : Len(q) = n /\ FlattenSeq(Singles(q)) # q
  BY <1>1
<1>3. CASE q = <<>>
  <2>1. Singles(<<>>) = <<>>
    BY DEF Singles
  <2> QED BY <1>2, <1>3, <2>1, FlattenNone, Zenon
<1>4. CASE q # <<>>
  <2>1. PICK p \in Seq(S), y \in S : q = Append(p, y) /\ Len(q) = Len(p) + 1
    BY <1>4, LastIs, Zenon
  <2>2. Len(p) \in Nat /\ ~(n <= Len(p))
    <3> HIDE DEF Bad
    <3> QED BY <1>2, <2>1
  <2>3. FlattenSeq(Singles(p)) = p
    <3>1. Len(p) \notin Bad
      BY <1>1, <2>2
    <3> QED BY <2>1, <2>2, <3>1
  <2>4. Singles(p) \in Seq(Seq(S)) /\ <<y>> \in Seq(S) /\ Singles(q) = Append(Singles(p), <<y>>)
    BY <2>1, AppendIs DEF Singles
  <2>5. FlattenSeq(Singles(q)) = p \o <<y>>
    BY <2>3, <2>4, FlattenAppend
  <2>6. p \o <<y>> = Append(p, y)
    BY <2>1
  <2> QED BY <1>2, <2>1, <2>5, <2>6, Zenon
<1> QED BY <1>3, <1>4

LEMMA CarriedRun ==
    ASSUME NEW s \in Seq(A!SendData), NEW q \in Seq(A!Packets), Len(q) <= Len(s),
           \A i \in 1 .. Len(q) : q[i].type = "Data" /\ Chunk(q[i]) = s[i]
    PROVE  /\ Len(q) \in 0 .. Len(s) /\ Carried(q) = SubSeq(s, 1, Len(q))
           /\ SubSeq(s, 1, Len(q)) \in Seq(A!SendData)
  <1>1. Len(q) \in 0 .. Len(s)
    OBVIOUS
  <1> DEFINE r == SubSeq(s, 1, Len(q))
  <1>2. r \in Seq(A!SendData) /\ Len(r) = Len(q) /\ \A i \in 1 .. Len(q) : r[i] = s[i]
    BY <1>1, PrefixIs
  <1> HIDE DEF r
  <1>3. OnWire(q) = Singles(r)
    BY <1>2 DEF OnWire, Singles, InChunks
  <1> QED BY <1>1, <1>2, <1>3, SinglesFlat DEF Carried, r

(* The octets of the data packets on a wire are those of their chunks. *)
LEMMA OctsCarried == ASSUME NEW w \in Seq(A!Packets) PROVE Octs(DataOn(w)) = Octs(Carried(w))
  <1> DEFINE D == {p \in A!Packets : p.type = "Data"}
             parts == [i \in 1 .. Len(w) |-> IF w[i].type = "Data" THEN <<w[i]>> ELSE <<>>]
  <1>1. Carries(D, Octets) /\ Carries(A!SendData, Octets)
    BY InChunksType DEF Carries, A!SendData
  <1>2. parts \in Seq(Seq(D)) /\ Len(parts) = Len(w)
    <2>1. ASSUME NEW i \in 1 .. Len(w) PROVE parts[i] \in Seq(D)
      <3>1. w[i] \in A!Packets
        OBVIOUS
      <3> QED BY <3>1, SMTT(30)
    <2> HIDE DEF D
    <2>2. Len(w) \in Nat /\ parts = [i \in 1 .. Len(w) |-> parts[i]]
      OBVIOUS
    <2> HIDE DEF parts
    <2> QED BY <2>1, <2>2
  <1>3. ASSUME NEW i \in 1 .. Len(w)
        PROVE  Octs(parts[i]) = Octs(OnWire(w)[i])
    <2>1. w[i] \in A!Packets
      OBVIOUS
    <2>2. CASE w[i].type = "Data"
      <3>1. w[i] \in D /\ Chunk(w[i]) \in A!SendData
        BY <2>1, <2>2, InChunksType
      <3>2. Octs(<<w[i]>>) = w[i].data /\ Octs(<<Chunk(w[i])>>) = Chunk(w[i]).data
        <4> HIDE DEF D
        <4> QED BY <1>1, <3>1, OctsOne
      <3> QED BY <2>2, <3>2 DEF OnWire, InChunks, Chunk
    <2>3. CASE w[i].type # "Data"
      BY <2>3 DEF OnWire, InChunks
    <2> QED BY <2>2, <2>3
  <1>4. OnWire(w) \in Seq(Seq(A!SendData)) /\ Len(OnWire(w)) = Len(w)
    BY OnWireIs
  <1>5. OctsEach(parts) = OctsEach(OnWire(w))
    <2> HIDE DEF parts
    <2> QED BY <1>2, <1>3, <1>4 DEF OctsEach
  <1>6. DataOn(w) = FlattenSeq(parts)
    BY DEF DataOn
  <1> HIDE DEF parts, D
  <1>7. Octs(FlattenSeq(parts)) = FlattenSeq(OctsEach(parts))
    BY <1>1, <1>2, OctsFlat
  <1>8. Octs(FlattenSeq(OnWire(w))) = FlattenSeq(OctsEach(OnWire(w)))
    BY <1>1, <1>4, OctsFlat
  <1> QED BY <1>5, <1>6, <1>7, <1>8 DEF Carried

-----------------------------------------------------------------------------
(* How messages are cut, and how they are put together again. *)

Text == [data : Seq(Octets), qualifier : BOOLEAN]

(* c are the chunks of m, whatever the packet size. *)
IsCut(c, m) ==
    /\ c \in Seq(A!SendData) /\ Octs(c) = m.data
    /\ c = <<>> <=> m.data = <<>>
    /\ \A i \in 1 .. Len(c) : (c[i].more <=> i < Len(c)) /\ c[i].qualifier = m.qualifier

AreCuts(cs, ms) == /\ cs \in Seq(Seq(A!SendData)) /\ Len(cs) = Len(ms)
                   /\ \A i \in 1 .. Len(ms) : IsCut(cs[i], ms[i])

LEMMA MessageIs == ASSUME NEW m \in Messages PROVE m.data \in Seq(Octets) /\ m.qualifier \in BOOLEAN
  BY CircuitAssumption

LEMMA Carrying == /\ Carries(A!SendData, Octets) /\ Carries(Messages, Octets)
                  /\ Carries(Text, Octets)
  BY MessageIs DEF Carries, A!SendData, Text

LEMMA MessagesCat ==
    \A a, b, c \in Seq(Messages) :
        Cat(Cat(a, b), c) = Cat(a, Cat(b, c)) /\ Cat(a, b) \in Seq(Messages)
  BY CatType

LEMMA MessagesJoin ==
    \A a, b \in Seq(Messages) : Octs(a \o b) = Octs(a) \o Octs(b)
  BY Carrying, OctsJoin

LEMMA ChunksJoin ==
    \A a, b \in Seq(A!SendData) : Octs(a \o b) = Octs(a) \o Octs(b)
  BY Carrying, OctsJoin

LEMMA TextAppend ==
    \A r \in Seq(Text), x \in Text : Octs(Append(r, x)) = Octs(r) \o x.data
  BY Carrying, OctsAppend

LEMMA CutAtAnySize ==
    ASSUME NEW m \in Messages, NEW z \in Nat \ {0}
    PROVE  IsCut(A!Chunks(m, z), m)
  <1> DEFINE c == A!Chunks(m, z)
             t == m.data
  <1>1. t \in Seq(Octets) /\ m.qualifier \in BOOLEAN /\ Len(t) \in Nat
    BY MessageIs
  <1>2. /\ c \in Seq(A!SendData) /\ Len(c) \in Nat
        /\ Len(t) <= Len(c) * z /\ Len(c) * z <= Len(t) + z - 1
        /\ \A i \in 1 .. Len(c) : (c[i].more <=> i < Len(c)) /\ c[i].qualifier = m.qualifier
    <2>1. /\ c \in Seq(A!SendData)
          /\ Len(t) <= Len(c) * z /\ Len(c) * z <= Len(t) + z - 1
      BY <1>1, ChunksType
    <2>2. \A i \in 1 .. Len(c) : (c[i].more <=> i < Len(c)) /\ c[i].qualifier = m.qualifier
      <3>1. \A i \in 1 .. Len(c) :
              /\ c[i].data = SubSeq(t, (i - 1) * z + 1, IF i = Len(c) THEN Len(t) ELSE i * z)
              /\ c[i].more <=> i < Len(c)
              /\ c[i].qualifier = m.qualifier
        BY <1>1, ChunksType, ZenonT(60)
      <3> HIDE DEF c, t
      <3> QED BY <3>1
    <2> HIDE DEF c, t
    <2>3. Len(c) \in Nat
      BY <2>1
    <2> QED BY <2>1, <2>2, <2>3
  <1>3. Octs(c) = t
    BY <1>1, ChunksWhole
  <1> HIDE DEF c, t
  <1>4. Len(c) = 0 <=> Len(t) = 0
    <2> DEFINE x == Len(c)
               y == Len(t)
    <2>1. x \in Nat /\ y \in Nat /\ y <= x * z /\ x * z <= y + z - 1
      BY <1>1, <1>2
    <2> HIDE DEF x, y
    <2>2. x = 0 => y = 0
      BY <2>1
    <2>3. x # 0 => x * z >= z
      BY <2>1, MultipleIsLarge
    <2>4. y = 0 => x = 0
      BY <2>1, <2>3
    <2> QED BY <2>2, <2>4 DEF x, y
  <1>5. c = <<>> <=> t = <<>>
    BY <1>1, <1>2, <1>4
  <1> QED BY <1>2, <1>3, <1>5 DEF IsCut, c, t

LEMMA OctsOfCuts ==
    ASSUME NEW ms \in Seq(Messages), NEW cs, AreCuts(cs, ms)
    PROVE  Octs(ms) = Octs(FlattenSeq(cs))
  <1>1. OctsEach(cs) = Datas(ms)
    BY DEF AreCuts, IsCut, OctsEach, Datas
  <1>2. Octs(FlattenSeq(cs)) = FlattenSeq(OctsEach(cs))
    BY Carrying, OctsFlat DEF AreCuts
  <1> QED BY <1>1, <1>2 DEF Octs, Datas

LEMMA CutsAppend ==
    ASSUME NEW ms \in Seq(Messages), NEW cs, AreCuts(cs, ms), NEW m \in Messages, NEW c, IsCut(c, m)
    PROVE  AreCuts(Append(cs, c), Append(ms, m))
           /\ FlattenSeq(Append(cs, c)) = FlattenSeq(cs) \o c
  <1>1. cs \in Seq(Seq(A!SendData)) /\ c \in Seq(A!SendData) /\ Len(cs) = Len(ms)
    BY DEF AreCuts, IsCut
  <1>2. Append(cs, c) \in Seq(Seq(A!SendData)) /\ Len(Append(cs, c)) = Len(ms) + 1
        /\ Len(Append(ms, m)) = Len(ms) + 1 /\ Len(ms) \in Nat
    BY <1>1, AppendIs
  <1>3. ASSUME NEW i \in 1 .. Len(ms) + 1
        PROVE  IsCut(Append(cs, c)[i], Append(ms, m)[i])
    BY <1>1, <1>2, AppendIs DEF AreCuts
  <1> QED BY <1>1, <1>2, <1>3, FlattenAppend DEF AreCuts

LEMMA CutsTail ==
    ASSUME NEW ms \in Seq(Messages), NEW cs, AreCuts(cs, ms), cs # <<>>
    PROVE  /\ ms # <<>> /\ Head(ms) \in Messages /\ Tail(ms) \in Seq(Messages)
           /\ Len(Tail(ms)) = Len(ms) - 1 /\ Len(ms) \in Nat \ {0}
           /\ IsCut(Head(cs), Head(ms)) /\ AreCuts(Tail(cs), Tail(ms))
           /\ FlattenSeq(cs) = Head(cs) \o FlattenSeq(Tail(cs))
  <1>1. cs \in Seq(Seq(A!SendData)) /\ Len(cs) = Len(ms)
    BY DEF AreCuts
  <1>2. ms # <<>>
    BY <1>1
  <1>3. /\ Head(ms) \in Messages /\ Tail(ms) \in Seq(Messages) /\ Head(ms) = ms[1]
        /\ Len(Tail(ms)) = Len(ms) - 1 /\ Len(ms) \in Nat \ {0}
        /\ \A i \in 1 .. Len(ms) - 1 : Tail(ms)[i] = ms[i + 1]
    BY <1>2, TailIs
  <1>4. /\ Tail(cs) \in Seq(Seq(A!SendData)) /\ Head(cs) = cs[1] /\ Len(Tail(cs)) = Len(ms) - 1
        /\ \A i \in 1 .. Len(ms) - 1 : Tail(cs)[i] = cs[i + 1]
    BY <1>1, TailIs
  <1>5. IsCut(Head(cs), Head(ms)) /\ \A i \in 1 .. Len(ms) - 1 : IsCut(Tail(cs)[i], Tail(ms)[i])
    BY <1>3, <1>4 DEF AreCuts
  <1> QED BY <1>1, <1>2, <1>3, <1>4, <1>5, FlattenHead DEF AreCuts

(* Every message that may be sent holds data, and nothing but the fields   *)
(* of a message.  A message without data is cut into no packets: the other *)
(* end never hears of it.                                                  *)
Sendable == Messages \subseteq [data : Seq(Octets) \ {<<>>}, qualifier : BOOLEAN]

(* The first of some messages that has chunks, what comes after, and no    *)
(* octet before.                                                           *)
NextCut(ms, cs, e, m, c, ms2, cs2) ==
    /\ ms = Append(e, m) \o ms2 /\ e \in Seq(Messages) /\ m \in Messages /\ ms2 \in Seq(Messages)
    /\ IsCut(c, m) /\ c # <<>> /\ AreCuts(cs2, ms2)
    /\ FlattenSeq(cs) = c \o FlattenSeq(cs2)
    /\ Octs(e) = <<>> /\ (Sendable => e = <<>>)

LEMMA NextCutExists ==
    ASSUME NEW ms \in Seq(Messages), NEW cs, AreCuts(cs, ms), FlattenSeq(cs) # <<>>
    PROVE  \E e, m, c, ms2, cs2 : NextCut(ms, cs, e, m, c, ms2, cs2)
<1> DEFINE Found(q, s) == \E e, m, c, ms2, cs2 : NextCut(q, s, e, m, c, ms2, cs2)
           Bad == {n \in Nat : \E q \in Seq(Messages), s \in Seq(Seq(A!SendData)) :
                      AreCuts(s, q) /\ FlattenSeq(s) # <<>> /\ Len(q) = n /\ ~Found(q, s)}
<1> SUFFICES ASSUME Bad # {} PROVE FALSE
  <2>1. Len(ms) \in Nat /\ cs \in Seq(Seq(A!SendData))
    BY DEF AreCuts
  <2> HIDE DEF Found
  <2>2. Found(ms, cs)
    BY <2>1
  <2> QED BY <2>2 DEF Found
<1>1. PICK n \in Bad : \A k \in Bad : n <= k
  BY LeastNumber, Zenon
<1> HIDE DEF Found
<1>2. PICK q \in Seq(Messages), s \in Seq(Seq(A!SendData)) :
         AreCuts(s, q) /\ FlattenSeq(s) # <<>> /\ Len(q) = n /\ ~Found(q, s)
  BY <1>1
<1>b. \A k \in Nat : k < n => k \notin Bad
  BY <1>1
<1>c. n \in Nat /\ Len(q) = n
  BY <1>1, <1>2
<1> HIDE DEF Bad
<1>3. s # <<>>
  BY <1>2, FlattenNone
<1>4. /\ q # <<>> /\ Head(q) \in Messages /\ Tail(q) \in Seq(Messages)
      /\ Len(Tail(q)) = Len(q) - 1 /\ Len(q) \in Nat \ {0}
      /\ IsCut(Head(s), Head(q)) /\ AreCuts(Tail(s), Tail(q))
      /\ FlattenSeq(s) = Head(s) \o FlattenSeq(Tail(s))
  BY <1>2, <1>3, CutsTail
<1>5. CASE Head(s) # <<>>
  <2>1. q = Append(<<>>, Head(q)) \o Tail(q)
    BY <1>4
  <2>2. Octs(<<>>) = <<>> /\ <<>> \in Seq(Messages)
    BY OctsNone
  <2>3. NextCut(q, s, <<>>, Head(q), Head(s), Tail(q), Tail(s))
    BY <1>4, <1>5, <2>1, <2>2, Zenon DEF NextCut
  <2> QED BY <1>2, <2>3 DEF Found
<1>6. CASE Head(s) = <<>>
  <2>1. FlattenSeq(Tail(s)) \in Seq(A!SendData)
    BY <1>4, FlattenType DEF AreCuts
  <2>2. FlattenSeq(s) = FlattenSeq(Tail(s))
    BY <1>4, <1>6, <2>1, NoneJoined
  <2>3. Found(Tail(q), Tail(s))
    <3>1. Len(Tail(q)) \notin Bad /\ Len(Tail(q)) \in Nat
      BY <1>b, <1>c, <1>4
    <3> QED BY <1>2, <1>4, <2>2, <3>1 DEF AreCuts, Bad
  <2>4. PICK e, m, c, ms2, cs2 : NextCut(Tail(q), Tail(s), e, m, c, ms2, cs2)
    BY <2>3 DEF Found
  <2>5. Head(q).data = <<>> /\ ~Sendable
    BY <1>4, <1>6 DEF IsCut, Sendable
  <2> DEFINE h == Head(q)
             g == <<h>>
             f == g \o e
  <2>a. h \in Messages /\ h.data = <<>> /\ q = <<h>> \o Tail(q)
    BY <1>4, <2>5
  <2>b. /\ e \in Seq(Messages) /\ m \in Messages /\ ms2 \in Seq(Messages) /\ Octs(e) = <<>>
        /\ Tail(q) = Append(e, m) \o ms2
    BY <2>4 DEF NextCut
  <2> HIDE DEF h
  <2>c. g \in Seq(Messages) /\ Octs(g) = h.data
    BY <2>a, Carrying, OctsOne
  <2>d. q = g \o Tail(q)
    BY <2>a
  <2> HIDE DEF g
  <2>e. g \in Seq(Messages) /\ e \in Seq(Messages) /\ Append(e, m) \in Seq(Messages)
    BY <2>b, <2>c
  <2>6. f \in Seq(Messages) /\ q = Append(f, m) \o ms2
    <3>1. g \o (Append(e, m) \o ms2) = (g \o Append(e, m)) \o ms2
      <4> DEFINE em == Append(e, m)
      <4>1. g \in Seq(Messages) /\ em \in Seq(Messages) /\ ms2 \in Seq(Messages)
        BY <2>b, <2>e
      <4> HIDE DEF em
      <4>2. Cat(Cat(g, em), ms2) = Cat(g, Cat(em, ms2))
        BY <4>1, CatType
      <4> QED BY <4>2, Zenon DEF Cat, em
    <3>2. g \o Append(e, m) = Append(f, m) /\ f \in Seq(Messages)
      BY <2>b, <2>e, AppendJoined, JoinIs, SMTT(30)
    <3> QED BY <2>b, <2>d, <3>1, <3>2, Zenon
  <2>7. Octs(f) = <<>>
    <3>1. Octs(g \o e) = Octs(g) \o Octs(e)
      BY <2>e, MessagesJoin, Zenon
    <3>2. <<>> \o <<>> = <<>>
      OBVIOUS
    <3> QED BY <2>a, <2>b, <2>c, <3>1, <3>2, Zenon
  <2> HIDE DEF f
  <2>8. NextCut(q, s, f, m, c, ms2, cs2)
    BY <2>2, <2>4, <2>5, <2>6, <2>7 DEF NextCut
  <2> QED BY <1>2, <2>8 DEF Found
<1> QED BY <1>5, <1>6

(* Where the first chunk without the more bit ends a queue that begins     *)
(* with a message's chunks, the message ends.                              *)
LEMMA FirstWhole ==
    ASSUME NEW rq \in Seq(A!SendData), NEW y \in Seq(A!SendData), NEW f \in Seq(A!SendData),
           NEW m, NEW c, IsCut(c, m), c # <<>>, rq \o y = c \o f,
           NEW k \in 1 .. Len(rq), ~rq[k].more, \A j \in 1 .. (k - 1) : rq[j].more
    PROVE  /\ SubSeq(rq, 1, k) = c /\ SubSeq(rq, k + 1, Len(rq)) \o y = f
           /\ rq[k].qualifier = m.qualifier /\ SubSeq(rq, k + 1, Len(rq)) \in Seq(A!SendData)
  <1> DEFINE n == Len(c)
             x == rq \o y
  <1>1. c \in Seq(A!SendData) /\ n \in Nat \ {0}
        /\ \A i \in 1 .. n : (c[i].more <=> i < n) /\ c[i].qualifier = m.qualifier
    BY DEF IsCut
  <1>2. /\ Len(rq) \in Nat /\ \A i \in 1 .. Len(rq) : x[i] = rq[i]
        /\ \A i \in 1 .. n : x[i] = c[i]
    BY <1>1, JoinIs
  <1>3. k \in Nat /\ 1 <= k /\ k <= Len(rq)
    BY <1>2
  <1> HIDE DEF n, x
  <1>4. ~(k < n)
    BY <1>1, <1>2, <1>3
  <1>5. ~(n < k)
    <2>1. ASSUME n < k PROVE FALSE
      <3>1. n \in 1 .. n /\ n \in 1 .. (k - 1) /\ n \in 1 .. Len(rq)
        BY <1>1, <1>3, <2>1
      <3>2. rq[n].more /\ ~c[n].more
        BY <1>1, <3>1
      <3> QED BY <1>2, <3>1, <3>2
    <2> QED BY <2>1
  <1>6. k = n
    BY <1>1, <1>3, <1>4, <1>5
  <1> DEFINE p == SubSeq(rq, 1, k)
             r == SubSeq(rq, k + 1, Len(rq))
  <1>7. p \in Seq(A!SendData) /\ Len(p) = k
    BY <1>2, <1>3, PrefixIs
  <1>8. r \in Seq(A!SendData) /\ p \o r = rq
    BY <1>2, <1>3, CutIs
  <1> HIDE DEF p, r
  <1>9. p \o (r \o y) = c \o f /\ r \o y \in Seq(A!SendData)
    <2>1. p \in Seq(A!SendData) /\ r \in Seq(A!SendData)
      BY <1>7, <1>8
    <2>2. Cat(Cat(p, r), y) = Cat(p, Cat(r, y)) /\ Cat(r, y) \in Seq(A!SendData)
      BY <2>1, CatType
    <2>3. p \o (r \o y) = (p \o r) \o y /\ r \o y \in Seq(A!SendData)
      BY <2>2, Zenon DEF Cat
    <2> QED BY <1>8, <2>3
  <1>10. p = c /\ r \o y = f
    <2>1. Len(p) = Len(c)
      BY <1>6, <1>7 DEF n
    <2> DEFINE u == r \o y
    <2>2. p \in Seq(A!SendData) /\ c \in Seq(A!SendData) /\ u \in Seq(A!SendData) /\ p \o u = c \o f
      BY <1>1, <1>7, <1>9
    <2> HIDE DEF u
    <2>3. p = c /\ u = f
      BY <2>1, <2>2, SameStart
    <2> QED BY <2>3 DEF u
  <1>11. rq[k].qualifier = m.qualifier
    BY <1>1, <1>2, <1>3, <1>6
  <1> QED BY <1>8, <1>10, <1>11 DEF p, r

-----------------------------------------------------------------------------
(* One direction of the call.                                              *)

Gone           == {"WaitClearConfirm", "Cleared", "OutOfOrder"}
IsRemote(s, i) == s = "Cleared" /\ i = "Remote"
Clears(w)      == \E k \in 1 .. Len(w) : w[k].type = "ClearRequest"

(* A receiver in state s, cleared by i, has taken all that is not on the   *)
(* wire; and what was written of the send queue is on the wire or taken.   *)
Reads(s, i)       == s \notin Gone \/ IsRemote(s, i)
Keeps(s, i, l, w) == (s \notin Gone /\ (l = "up" \/ Clears(w))) \/ IsRemote(s, i)

(* Of the messages S sent, those in P are received and those in T are not; *)
(* the chunks of these are queued at the receiver, then u, then v.         *)
Parts(S, R, rq, P, T, c, u, v) ==
    /\ S = P \o T /\ P \in Seq(Messages) /\ T \in Seq(Messages) /\ AreCuts(c, T)
    /\ R \in Seq(Text) /\ Octs(R) = Octs(P) /\ (Sendable => R = P)
    /\ rq \in Seq(A!SendData) /\ u \in Seq(A!SendData) /\ v \in Seq(A!SendData)
    /\ rq \o (u \o v) = FlattenSeq(c)

(* u is on the wire as long as the receiver reads, v is the send queue as  *)
(* long as what is written arrives.                                        *)
Way(S, R, rq, w, sq, s, i, l) ==
    \E P, T, c, u, v :
        /\ Parts(S, R, rq, P, T, c, u, v)
        /\ Reads(s, i) => u = Carried(w)
        /\ Keeps(s, i, l, w) => v = sq

LEMMA WayEnds ==
    ASSUME NEW S, NEW R, NEW rq, NEW w, NEW sq, NEW s, NEW i, NEW l,
           NEW w2, NEW sq2, NEW s2, NEW i2, NEW l2,
           Way(S, R, rq, w, sq, s, i, l), s2 \in Gone, ~IsRemote(s2, i2)
    PROVE  Way(S, R, rq, w2, sq2, s2, i2, l2)
  BY DEF Way, Reads, Keeps

LEMMA WayRests ==
    ASSUME NEW S, NEW R, NEW rq, NEW w, NEW sq, NEW s, NEW i, NEW l, NEW s2, NEW i2, NEW l2,
           Way(S, R, rq, w, sq, s, i, l), Reads(s2, i2) => Reads(s, i),
           Keeps(s2, i2, l2, w) => Keeps(s, i, l, w)
    PROVE  Way(S, R, rq, w, sq, s2, i2, l2)
  BY DEF Way

LEMMA ClearsTail ==
    ASSUME NEW w \in Seq(A!Packets), w # <<>>, Clears(Tail(w)) \/ Head(w).type = "ClearRequest"
    PROVE  Clears(w)
  BY TailIs DEF Clears

LEMMA ClearsJoin ==
    ASSUME NEW w \in Seq(A!Packets), NEW q \in Seq(A!Packets), Clears(w \o q)
    PROVE  Clears(w) \/ Clears(q)
  <1>1. PICK k \in 1 .. Len(w \o q) : (w \o q)[k].type = "ClearRequest"
    BY DEF Clears
  <1>2. /\ Len(w \o q) = Len(w) + Len(q) /\ Len(w) \in Nat /\ Len(q) \in Nat
        /\ \A j \in 1 .. Len(w) : (w \o q)[j] = w[j]
        /\ \A j \in 1 .. Len(q) : (w \o q)[Len(w) + j] = q[j]
    BY JoinIs
  <1>3. CASE k \in 1 .. Len(w)
    BY <1>1, <1>2, <1>3 DEF Clears
  <1>4. CASE k \notin 1 .. Len(w)
    <2>1. k - Len(w) \in 1 .. Len(q) /\ Len(w) + (k - Len(w)) = k
      BY <1>2, <1>4
    <2> QED BY <1>1, <1>2, <2>1 DEF Clears
  <1> QED BY <1>3, <1>4

(* The four sequences a, b, c, d one after another. *)
LEMMA Shifted ==
    ASSUME NEW S, NEW a \in Seq(S), NEW b \in Seq(S), NEW c \in Seq(S), NEW d \in Seq(S)
    PROVE  /\ Cat(a, Cat(Cat(b, c), d)) = Cat(Cat(a, b), Cat(c, d))
           /\ Cat(Cat(a, Cat(b, c)), d) = Cat(a, Cat(b, Cat(c, d)))
           /\ Cat(Cat(a, b), Cat(c, d)) = Cat(Cat(Cat(a, b), c), d)
           /\ Cat(Cat(b, c), d) = Cat(b, Cat(c, d))
           /\ Cat(a, b) \in Seq(S) /\ Cat(b, c) \in Seq(S) /\ Cat(c, d) \in Seq(S)
  <1>1. \A q, r, t \in Seq(S) : Cat(Cat(q, r), t) = Cat(q, Cat(r, t))
    BY CatType
  <1>2. \A q, r \in Seq(S) : Cat(q, r) \in Seq(S)
    BY CatType
  <1>3. Cat(a, b) \in Seq(S) /\ Cat(b, c) \in Seq(S) /\ Cat(c, d) \in Seq(S)
    BY <1>2
  <1>4. Cat(Cat(a, Cat(b, c)), d) = Cat(a, Cat(Cat(b, c), d))
    BY <1>1, <1>3
  <1>5. Cat(Cat(b, c), d) = Cat(b, Cat(c, d))
    BY <1>1
  <1>6. Cat(Cat(a, b), Cat(c, d)) = Cat(a, Cat(b, Cat(c, d)))
    BY <1>1, <1>3
  <1>7. Cat(Cat(a, b), Cat(c, d)) = Cat(Cat(Cat(a, b), c), d)
    BY <1>1, <1>3
  <1> QED BY <1>3, <1>4, <1>5, <1>6, <1>7, Zenon

LEMMA PartsTake ==
    ASSUME NEW S, NEW R, NEW rq, NEW P, NEW T, NEW c, NEW u, NEW v, NEW h, NEW u2,
           Parts(S, R, rq, P, T, c, u, v),
           h \in Seq(A!SendData), u2 \in Seq(A!SendData), u = h \o u2
    PROVE  Parts(S, R, rq \o h, P, T, c, u2, v)
  <1>1. rq \in Seq(A!SendData) /\ v \in Seq(A!SendData)
    BY DEF Parts
  <1>2. Cat(rq, Cat(Cat(h, u2), v)) = Cat(Cat(rq, h), Cat(u2, v)) /\ Cat(rq, h) \in Seq(A!SendData)
    BY <1>1, Shifted, SMTT(30)
  <1>3. rq \o ((h \o u2) \o v) = (rq \o h) \o (u2 \o v) /\ rq \o h \in Seq(A!SendData)
    BY <1>2, Zenon DEF Cat
  <1> QED BY <1>3, Zenon DEF Parts

LEMMA WayTakes ==
    ASSUME NEW S, NEW R, NEW rq, NEW w \in Seq(A!Packets), NEW sq, NEW s, NEW i, NEW l,
           NEW s2, NEW i2,
           Way(S, R, rq, w, sq, s, i, l), w # <<>>, s \notin Gone,
           s2 \notin Gone \/ (IsRemote(s2, i2) /\ Head(w).type = "ClearRequest")
    PROVE  Way(S, R, rq \o InChunks(Head(w)), Tail(w), sq, s2, i2, l)
  <1>1. PICK P, T, c, u, v : /\ Parts(S, R, rq, P, T, c, u, v)
                             /\ Reads(s, i) => u = Carried(w)
                             /\ Keeps(s, i, l, w) => v = sq
    BY DEF Way
  <1>2. Head(w) \in A!Packets /\ Tail(w) \in Seq(A!Packets)
    BY TailIs
  <1>3. u = InChunks(Head(w)) \o Carried(Tail(w))
    BY <1>1, CarriedHead DEF Reads
  <1>4. InChunks(Head(w)) \in Seq(A!SendData) /\ Carried(Tail(w)) \in Seq(A!SendData)
    BY <1>2, InChunksType, OnWireIs
  <1>5. Parts(S, R, rq \o InChunks(Head(w)), P, T, c, Carried(Tail(w)), v)
    BY <1>1, <1>3, <1>4, PartsTake
  <1>6. Keeps(s2, i2, l, Tail(w)) => v = sq
    BY <1>1, ClearsTail DEF Keeps, IsRemote, Gone
  <1> QED BY <1>5, <1>6 DEF Way

LEMMA PartsSend ==
    ASSUME NEW S, NEW R, NEW rq, NEW P, NEW T, NEW c, NEW u, NEW v, NEW x, NEW v2,
           Parts(S, R, rq, P, T, c, u, v),
           x \in Seq(A!SendData), v2 \in Seq(A!SendData), v = x \o v2
    PROVE  Parts(S, R, rq, P, T, c, u \o x, v2)
  <1>1. rq \in Seq(A!SendData) /\ u \in Seq(A!SendData)
    BY DEF Parts
  <1>2. Cat(u, Cat(x, v2)) = Cat(Cat(u, x), v2) /\ Cat(u, x) \in Seq(A!SendData)
    BY <1>1, CatType
  <1>3. u \o (x \o v2) = (u \o x) \o v2 /\ u \o x \in Seq(A!SendData)
    BY <1>2, Zenon DEF Cat
  <1> QED BY <1>3, Zenon DEF Parts

(* What the sender writes. *)
PlainWrite(q) == q = <<>> \/ (Len(q) = 1 /\ q[1].type # "Data")
DataWrite(q, sq, sq2) ==
    /\ Len(q) <= Len(sq)
    /\ \A k \in 1 .. Len(q) : q[k].type = "Data" /\ Chunk(q[k]) = sq[k]
    /\ sq2 = SubSeq(sq, Len(q) + 1, Len(sq))
Written(w, q, l) == IF l = "up" THEN w \o q ELSE w

LEMMA WaySendsPlain ==
    ASSUME NEW S, NEW R, NEW rq, NEW w \in Seq(A!Packets), NEW sq, NEW s, NEW i, NEW l,
           NEW q \in Seq(A!Packets), NEW l2, Way(S, R, rq, w, sq, s, i, l),
           l2 \in {l, "down"}, PlainWrite(q)
    PROVE  Way(S, R, rq, Written(w, q, l), sq, s, i, l2)
  <1>1. Carried(Written(w, q, l)) = Carried(w)
    <2>1. Carried(q) = <<>>
      <3>1. CASE Len(q) = 1 /\ q[1].type # "Data"
        <4>1. q = <<q[1]>> /\ q[1] \in A!Packets
          BY <3>1, SMTT(30)
        <4> QED BY <3>1, <4>1, CarriedOne DEF InChunks
      <3> QED BY <3>1, CarriedNone DEF PlainWrite
    <2>2. Carried(w \o q) = Carried(w) \o Carried(q) /\ Carried(w) \in Seq(A!SendData)
      BY CarriedJoin, OnWireIs
    <2>3. Carried(w \o q) = Carried(w)
      BY <2>1, <2>2, NoneJoined
    <2> QED BY <2>3 DEF Written
  <1>2. Keeps(s, i, l2, Written(w, q, l)) => Keeps(s, i, l, w)
    BY DEF Keeps, Written
  <1>3. PICK P, T, c, u, v : /\ Parts(S, R, rq, P, T, c, u, v)
                             /\ Reads(s, i) => u = Carried(w)
                             /\ Keeps(s, i, l, w) => v = sq
    BY DEF Way
  <1> QED BY <1>1, <1>2, <1>3 DEF Way

LEMMA WaySendsData ==
    ASSUME NEW S, NEW R, NEW rq, NEW w \in Seq(A!Packets), NEW sq \in Seq(A!SendData),
           NEW s, NEW i, NEW l, NEW q \in Seq(A!Packets), NEW sq2, NEW l2,
           Way(S, R, rq, w, sq, s, i, l), l2 \in {l, "down"}, l \in {"up", "down"},
           DataWrite(q, sq, sq2), ~Clears(w), ~IsRemote(s, i)
    PROVE  Way(S, R, rq, Written(w, q, l), sq2, s, i, l2)
  <1>1. PICK P, T, c, u, v : /\ Parts(S, R, rq, P, T, c, u, v)
                             /\ Reads(s, i) => u = Carried(w)
                             /\ Keeps(s, i, l, w) => v = sq
    BY DEF Way
  <1>2. CASE l = "up" /\ s \notin Gone
    <2>1. u = Carried(w) /\ v = sq
      BY <1>1, <1>2 DEF Reads, Keeps
    <2>2. /\ Len(q) \in 0 .. Len(sq) /\ Carried(q) = SubSeq(sq, 1, Len(q))
          /\ Carried(q) \in Seq(A!SendData)
      BY CarriedRun DEF DataWrite
    <2>3. sq2 \in Seq(A!SendData) /\ SubSeq(sq, 1, Len(q)) \o sq2 = sq
      BY <2>2, CutIs DEF DataWrite
    <2>4. Carried(q) \o sq2 = sq
      BY <2>2, <2>3
    <2>5. Parts(S, R, rq, P, T, c, u \o Carried(q), sq2)
      BY <1>1, <2>1, <2>2, <2>3, <2>4, PartsSend, Zenon
    <2>6. Carried(Written(w, q, l)) = u \o Carried(q)
      BY <1>2, <2>1, CarriedJoin DEF Written
    <2> QED BY <2>5, <2>6 DEF Way
  <1>3. CASE s \in Gone
    BY <1>3, WayEnds
  <1>4. CASE l # "up"
    <2>1. ~Keeps(s, i, l2, w) /\ Written(w, q, l) = w
      BY <1>4 DEF Keeps, Written
    <2> QED BY <1>1, <2>1 DEF Way
  <1> QED BY <1>2, <1>3, <1>4

-----------------------------------------------------------------------------
LEMMA Rejoined ==
    ASSUME NEW S, NEW a \in Seq(S), NEW b \in Seq(S), NEW c \in Seq(S), NEW d \in Seq(S)
    PROVE  /\ Cat(Cat(a, Cat(b, c)), d) = Cat(a, Cat(b, Cat(c, d)))
           /\ Cat(a, Cat(b, Cat(c, d))) = Cat(Cat(Cat(a, b), c), d)
           /\ Cat(c, d) \in Seq(S)
  <1>1. \A q, r, t \in Seq(S) : Cat(Cat(q, r), t) = Cat(q, Cat(r, t))
    BY CatType
  <1>2. \A q, r \in Seq(S) : Cat(q, r) \in Seq(S)
    BY CatType
  <1>3. Cat(a, b) \in Seq(S) /\ Cat(b, c) \in Seq(S) /\ Cat(c, d) \in Seq(S)
    BY <1>2
  <1>4. Cat(Cat(a, Cat(b, c)), d) = Cat(a, Cat(Cat(b, c), d))
    BY <1>1, <1>3
  <1>5. Cat(Cat(b, c), d) = Cat(b, Cat(c, d))
    BY <1>1
  <1>6. Cat(Cat(a, b), Cat(c, d)) = Cat(a, Cat(b, Cat(c, d)))
    BY <1>1, <1>3
  <1>7. Cat(Cat(a, b), Cat(c, d)) = Cat(Cat(Cat(a, b), c), d)
    BY <1>1, <1>3
  <1> QED BY <1>3, <1>4, <1>5, <1>6, <1>7, ZenonT(60)

LEMMA WayStart == ASSUME NEW s, NEW i, NEW l PROVE Way(<<>>, <<>>, <<>>, <<>>, <<>>, s, i, l)
  <1>1. AreCuts(<<>>, <<>>) /\ FlattenSeq(<<>>) = <<>>
    BY FlattenNone DEF AreCuts
  <1>2. <<>> = <<>> \o <<>> /\ <<>> = <<>> \o (<<>> \o <<>>)
    OBVIOUS
  <1>3. <<>> \in Seq(Messages) /\ <<>> \in Seq(Text) /\ <<>> \in Seq(A!SendData)
    OBVIOUS
  <1>4. Parts(<<>>, <<>>, <<>>, <<>>, <<>>, <<>>, <<>>, <<>>)
    BY <1>1, <1>2, <1>3, Zenon DEF Parts
  <1> QED BY <1>4, CarriedNone DEF Way

LEMMA WayPushes ==
    ASSUME NEW S, NEW R, NEW rq, NEW w, NEW sq, NEW s, NEW i, NEW l,
           NEW m \in Messages, NEW z \in Nat \ {0}, Way(S, R, rq, w, sq, s, i, l)
    PROVE  Way(Append(S, m), R, rq, w, sq \o A!Chunks(m, z), s, i, l)
  <1>1. PICK P, T, c, u, v : /\ Parts(S, R, rq, P, T, c, u, v)
                             /\ Reads(s, i) => u = Carried(w)
                             /\ Keeps(s, i, l, w) => v = sq
    BY DEF Way
  <1> DEFINE x == A!Chunks(m, z)
             v2 == v \o x
  <1>2. IsCut(x, m) /\ x \in Seq(A!SendData)
    BY CutAtAnySize DEF IsCut
  <1> HIDE DEF x
  <1>0. /\ rq \in Seq(A!SendData) /\ u \in Seq(A!SendData) /\ v \in Seq(A!SendData)
        /\ P \in Seq(Messages) /\ T \in Seq(Messages)
    BY <1>1 DEF Parts
  <1>3. AreCuts(c, T) /\ S = P \o T /\ rq \o (u \o v) = FlattenSeq(c)
    BY <1>1 DEF Parts
  <1>4. Append(S, m) = P \o Append(T, m) /\ Append(T, m) \in Seq(Messages)
    <2>1. P \o Append(T, m) = Append(P \o T, m) /\ Append(T, m) \in Seq(Messages)
      BY <1>0, AppendJoined
    <2> QED BY <1>3, <2>1
  <1>5. AreCuts(Append(c, x), Append(T, m)) /\ FlattenSeq(Append(c, x)) = FlattenSeq(c) \o x
    BY <1>0, <1>2, <1>3, CutsAppend
  <1>6. rq \o (u \o v2) = (rq \o (u \o v)) \o x /\ v2 \in Seq(A!SendData)
    <2>1. /\ Cat(Cat(rq, Cat(u, v)), x) = Cat(rq, Cat(u, Cat(v, x)))
          /\ Cat(v, x) \in Seq(A!SendData)
      <3>1. x \in Seq(A!SendData)
        BY <1>2
      <3> QED BY <1>0, <3>1, Rejoined
    <2> QED BY <2>1, Zenon DEF Cat
  <1> HIDE DEF v2
  <1>7. Parts(Append(S, m), R, rq, P, Append(T, m), Append(c, x), u, v2)
    BY <1>0, <1>1, <1>3, <1>4, <1>5, <1>6, Zenon DEF Parts
  <1>8. Keeps(s, i, l, w) => v2 = sq \o x
    BY <1>1 DEF v2
  <1>9. Way(Append(S, m), R, rq, w, sq \o x, s, i, l)
    BY <1>1, <1>7, <1>8, Zenon DEF Way
  <1> QED BY <1>9 DEF x

(* The message recv takes is the first of those not received that has any  *)
(* data.                                                                   *)
LEMMA WayPops ==
    ASSUME NEW S, NEW R, NEW rq, NEW w, NEW sq, NEW s, NEW i, NEW l,
           Way(S, R, rq, w, sq, s, i, l),
           NEW k \in 1 .. Len(rq), ~rq[k].more, \A j \in 1 .. (k - 1) : rq[j].more,
           NEW x, x = [data |-> Octs(SubSeq(rq, 1, k)), qualifier |-> rq[k].qualifier]
    PROVE  Way(S, Append(R, x), SubSeq(rq, k + 1, Len(rq)), w, sq, s, i, l)
  <1>1. PICK P, T, c, u, v : /\ Parts(S, R, rq, P, T, c, u, v)
                             /\ Reads(s, i) => u = Carried(w)
                             /\ Keeps(s, i, l, w) => v = sq
    BY DEF Way
  <1>0. /\ rq \in Seq(A!SendData) /\ u \in Seq(A!SendData) /\ v \in Seq(A!SendData)
        /\ P \in Seq(Messages) /\ T \in Seq(Messages) /\ R \in Seq(Text)
    BY <1>1 DEF Parts
  <1>2. /\ AreCuts(c, T) /\ S = P \o T /\ rq \o (u \o v) = FlattenSeq(c)
        /\ Octs(R) = Octs(P) /\ (Sendable => R = P)
    BY <1>1 DEF Parts
  <1> DEFINE y == u \o v
             rest == SubSeq(rq, k + 1, Len(rq))
  <1>3. y \in Seq(A!SendData) /\ rq \o y = FlattenSeq(c)
    <2>1. y \in Seq(A!SendData)
      BY <1>0, JoinIs
    <2> QED BY <1>2, <2>1
  <1> HIDE DEF y
  <1>4. FlattenSeq(c) # <<>>
    <2>1. Len(rq \o y) = Len(rq) + Len(y) /\ Len(rq) \in Nat /\ Len(y) \in Nat
      BY <1>0, <1>3, JoinIs
    <2>2. Len(rq \o y) # 0
      BY <2>1
    <2> QED BY <1>3, <2>2
  <1>5. PICK e, m, cc, T2, c2 : NextCut(T, c, e, m, cc, T2, c2)
    BY <1>0, <1>2, <1>4, NextCutExists
  <1>6. /\ T = Append(e, m) \o T2 /\ e \in Seq(Messages) /\ m \in Messages /\ T2 \in Seq(Messages)
        /\ IsCut(cc, m) /\ cc # <<>> /\ AreCuts(c2, T2)
        /\ FlattenSeq(c) = cc \o FlattenSeq(c2) /\ FlattenSeq(c2) \in Seq(A!SendData)
        /\ Octs(e) = <<>> /\ (Sendable => e = <<>>)
    BY <1>5, FlattenType DEF NextCut, AreCuts
  <1>7. /\ SubSeq(rq, 1, k) = cc /\ rest \o y = FlattenSeq(c2)
        /\ rq[k].qualifier = m.qualifier /\ rest \in Seq(A!SendData)
    <2> DEFINE f == FlattenSeq(c2)
    <2>1. f \in Seq(A!SendData) /\ rq \o y = cc \o f
      BY <1>3, <1>6
    <2> HIDE DEF f
    <2>2. /\ SubSeq(rq, 1, k) = cc /\ SubSeq(rq, k + 1, Len(rq)) \o y = f
          /\ rq[k].qualifier = m.qualifier /\ SubSeq(rq, k + 1, Len(rq)) \in Seq(A!SendData)
      BY <1>0, <1>3, <1>6, <2>1, FirstWhole
    <2> QED BY <2>2 DEF f
  <1> DEFINE em == Append(e, m)
             P2 == P \o em
  <1>8. x.data = m.data /\ x.qualifier = m.qualifier /\ x \in Text
        /\ x = [data |-> m.data, qualifier |-> m.qualifier]
    BY <1>6, <1>7, MessageIs DEF IsCut, Text
  <1>9. em \in Seq(Messages) /\ Octs(em) = m.data
    <2>0. e \in Seq(Messages) /\ m \in Messages
      BY <1>6
    <2>1. Octs(em) = Octs(e) \o m.data
      BY <2>0, Carrying, OctsAppend
    <2>2. <<>> \o m.data = m.data
      BY <1>6, MessageIs, NoneJoined
    <2> QED BY <1>6, <2>1, <2>2
  <1>10. Sendable => P2 = Append(P, x)
    <2>1. ASSUME Sendable PROVE em = <<x>>
      <3>1. m \in [data : Seq(Octets) \ {<<>>}, qualifier : BOOLEAN]
        BY <1>6, <2>1 DEF Sendable
      <3>2. m = x
        BY <1>8, <3>1
      <3> QED BY <1>6, <2>1, <3>2
    <2>2. m = x \/ ~Sendable
      <3>1. ASSUME Sendable PROVE m \in [data : Seq(Octets) \ {<<>>}, qualifier : BOOLEAN]
        BY <1>6, <3>1 DEF Sendable
      <3> QED BY <1>8, <3>1
    <2> HIDE DEF em
    <2>3. Sendable => P \o <<x>> = Append(P, x)
      BY <1>0, <1>6, <2>2
    <2> QED BY <2>1, <2>3
  <1> HIDE DEF em
  <1>11. S = P2 \o T2 /\ P2 \in Seq(Messages)
    <2>1. Cat(Cat(P, em), T2) = Cat(P, Cat(em, T2)) /\ Cat(P, em) \in Seq(Messages)
      <3>1. T2 \in Seq(Messages) /\ em \in Seq(Messages)
        BY <1>6, <1>9
      <3>2. P \in Seq(Messages)
        BY <1>0
      <3> QED BY <3>1, <3>2, MessagesCat, Zenon
    <2> QED BY <1>2, <1>6, <2>1, Zenon DEF Cat, em
  <1>12. Octs(P2) = Octs(P) \o m.data
    <2>1. em \in Seq(Messages)
      BY <1>9
    <2>2. Octs(P \o em) = Octs(P) \o Octs(em)
      BY <1>0, <2>1, MessagesJoin, Zenon
    <2> QED BY <1>9, <2>2
  <1> HIDE DEF P2
  <1>13. Append(R, x) \in Seq(Text) /\ Octs(Append(R, x)) = Octs(P2)
    <2>0. x \in Text
      BY <1>8
    <2>1. Octs(Append(R, x)) = Octs(R) \o x.data
      BY <1>0, <2>0, TextAppend, Zenon
    <2>2. Append(R, x) \in Seq(Text)
      BY <1>0, <2>0
    <2> QED BY <1>2, <1>8, <1>12, <2>1, <2>2
  <1>14. Sendable => Append(R, x) = P2
    BY <1>2, <1>10
  <1> HIDE DEF rest
  <1>15. Parts(S, Append(R, x), rest, P2, T2, c2, u, v)
    <2>1. rest \o (u \o v) = FlattenSeq(c2)
      BY <1>7 DEF y
    <2> QED BY <1>0, <1>2, <1>6, <1>7, <1>11, <1>13, <1>14, <2>1, Zenon DEF Parts
  <1>16. Way(S, Append(R, x), rest, w, sq, s, i, l)
    BY <1>1, <1>15, Zenon DEF Way
  <1> QED BY <1>16 DEF rest

(* What it all is for: of the octets sent none is missing. *)
AddsUp(S, R, rq, w, sq) == Octs(S) = Octs(R) \o Octs(rq) \o Octs(DataOn(w)) \o Octs(sq)

LEMMA WayGives ==
    ASSUME NEW S, NEW R, NEW rq, NEW w \in Seq(A!Packets), NEW sq, NEW s, NEW i, NEW l,
           Way(S, R, rq, w, sq, s, i, l), Reads(s, i), Keeps(s, i, l, w)
    PROVE  AddsUp(S, R, rq, w, sq)
  <1>1. PICK P, T, c, u, v : Parts(S, R, rq, P, T, c, u, v) /\ u = Carried(w) /\ v = sq
    BY DEF Way
  <1>0. /\ rq \in Seq(A!SendData) /\ u \in Seq(A!SendData) /\ v \in Seq(A!SendData)
        /\ P \in Seq(Messages) /\ T \in Seq(Messages) /\ R \in Seq(Text)
    BY <1>1 DEF Parts
  <1>2. /\ AreCuts(c, T) /\ S = P \o T /\ rq \o (u \o v) = FlattenSeq(c)
        /\ Octs(R) = Octs(P)
    BY <1>1 DEF Parts
  <1>3. Octs(S) = Octs(P) \o Octs(T)
    <2>1. Octs(P \o T) = Octs(P) \o Octs(T)
      BY <1>0, MessagesJoin, Zenon
    <2> QED BY <1>2, <2>1
  <1>4. Octs(T) = Octs(FlattenSeq(c))
    BY <1>0, <1>2, OctsOfCuts
  <1>5. Octs(rq \o (u \o v)) = Octs(rq) \o (Octs(u) \o Octs(v))
    <2> DEFINE y == u \o v
    <2>1. Octs(y) = Octs(u) \o Octs(v)
      BY <1>0, ChunksJoin, Zenon DEF y
    <2>3. y \in Seq(A!SendData)
      BY <1>0, JoinIs
    <2> HIDE DEF y
    <2>2. Octs(rq \o y) = Octs(rq) \o Octs(y)
      BY <1>0, <2>3, ChunksJoin, Zenon
    <2> QED BY <2>1, <2>2 DEF y
  <1>6. Octs(u) = Octs(DataOn(w)) /\ v = sq
    BY <1>1, OctsCarried
  <1>7. /\ Octs(R) \in Seq(Octets) /\ Octs(rq) \in Seq(Octets) /\ Octs(u) \in Seq(Octets)
        /\ Octs(v) \in Seq(Octets)
    BY <1>0, Carrying, DatasType
  <1>8. Cat(Octs(R), Cat(Octs(rq), Cat(Octs(u), Octs(v))))
          = Cat(Cat(Cat(Octs(R), Octs(rq)), Octs(u)), Octs(v))
    <2> DEFINE a == Octs(R)
               b == Octs(rq)
               p == Octs(u)
               d == Octs(v)
    <2>1. a \in Seq(Octets) /\ b \in Seq(Octets) /\ p \in Seq(Octets) /\ d \in Seq(Octets)
      BY <1>7
    <2> HIDE DEF a, b, p, d
    <2>2. Cat(a, Cat(b, Cat(p, d))) = Cat(Cat(Cat(a, b), p), d)
      BY <2>1, Rejoined
    <2> QED BY <2>2 DEF a, b, p, d
  <1> QED BY <1>2, <1>3, <1>4, <1>5, <1>6, <1>8, Zenon DEF Cat, AddsUp

LEMMA PrefixGives ==
    ASSUME NEW S, NEW R, NEW rq, NEW w, NEW sq, NEW s, NEW i, NEW l,
           Way(S, R, rq, w, sq, s, i, l), Sendable
    PROVE  R \in Seq(Messages) /\ \E T \in Seq(Messages) : S = R \o T
  BY DEF Way, Parts

-----------------------------------------------------------------------------
(* One direction, with the sender's state: who wrote a clear request is    *)
(* done, and nobody waits for the confirmation of the other's clear.       *)
Half(S, R, w, sq, rq, ss, si, rs, ri, l) ==
    /\ Way(S, R, rq, w, sq, rs, ri, l)
    /\ Clears(w) \/ IsRemote(rs, ri) => ss \in Gone
    /\ ss = "WaitClearConfirm" => si # "Remote"

(* How the sender may move: q is written. *)
Sending(q, sq, ss, si, sq2, ss2, si2) ==
    /\ \/ /\ PlainWrite(q) /\ sq2 = sq
          /\ q # <<>> /\ q[1].type = "ClearRequest" => ss2 \in Gone
       \/ ss = "DataTransfer" /\ DataWrite(q, sq, sq2)
    /\ ss \in Gone => ss2 \in Gone
    /\ ss2 = "WaitClearConfirm" => (ss2 = ss /\ si2 = si) \/ si2 # "Remote"

(* How the receiver may: it takes pkt. *)
Taking(pkt, rq, rs, ri, rq2, rs2, ri2) ==
    /\ rq2 = IF rs = "DataTransfer" /\ pkt.type = "Data" THEN Append(rq, Chunk(pkt)) ELSE rq
    /\ pkt.type = "Data" => rs = "DataTransfer" \/ rs \in Gone
    /\ rs \in Gone => rs2 \in Gone
    /\ rs = "WaitClearConfirm" => ri # "Remote"
    /\ \/ rs2 = rs /\ ri2 = ri
       \/ rs2 \in Gone /\ ~IsRemote(rs2, ri2)
       \/ rs \notin Gone /\ rs2 \notin Gone
       \/ rs \notin Gone /\ IsRemote(rs2, ri2) /\ pkt.type = "ClearRequest"
       \/ rs = "WaitClearConfirm" /\ ri2 = ri

(* What it takes is the first packet on the wire, or none. *)
Read(pkt, w, w2, rs) ==
    \/ w # <<>> /\ pkt = Head(w) /\ w2 = Tail(w) /\ rs \notin {"Cleared", "OutOfOrder"}
    \/ w2 = w /\ pkt.type \notin {"Data", "ClearRequest"}

LEMMA HalfStart == ASSUME NEW s, NEW i, NEW l, s # "WaitClearConfirm", s \notin Gone
    PROVE  Half(<<>>, <<>>, <<>>, <<>>, <<>>, s, i, s, i, l)
  <1>1. Way(<<>>, <<>>, <<>>, <<>>, <<>>, s, i, l)
    BY WayStart
  <1>2. ~Clears(<<>>) /\ ~IsRemote(s, i)
    BY DEF Clears, IsRemote, Gone
  <1> QED BY <1>1, <1>2 DEF Half

LEMMA HalfLinks ==
    ASSUME NEW S, NEW R, NEW rq, NEW w, NEW sq, NEW ss, NEW si, NEW rs, NEW ri, NEW l,
           NEW l2 \in {l, "down"}, Half(S, R, w, sq, rq, ss, si, rs, ri, l)
    PROVE  Half(S, R, w, sq, rq, ss, si, rs, ri, l2)
  <1>1. Keeps(rs, ri, l2, w) => Keeps(rs, ri, l, w)
    BY DEF Keeps
  <1> QED BY <1>1, WayRests DEF Half

LEMMA HalfSends ==
    ASSUME NEW S, NEW R, NEW rq, NEW w \in Seq(A!Packets), NEW sq \in Seq(A!SendData),
           NEW ss, NEW si, NEW rs, NEW ri, NEW l \in {"up", "down"}, NEW q \in Seq(A!Packets),
           NEW sq2, NEW ss2, NEW si2, NEW l2 \in {l, "down"},
           Half(S, R, w, sq, rq, ss, si, rs, ri, l), Sending(q, sq, ss, si, sq2, ss2, si2)
    PROVE  Half(S, R, Written(w, q, l), sq2, rq, ss2, si2, rs, ri, l2)
  <1>1. ss2 = "WaitClearConfirm" => si2 # "Remote"
    BY DEF Half, Sending
  <1>2. Way(S, R, rq, w, sq, rs, ri, l)
    BY DEF Half
  <1>3. CASE PlainWrite(q) /\ sq2 = sq /\ (q # <<>> /\ q[1].type = "ClearRequest" => ss2 \in Gone)
    <2>1. Way(S, R, rq, Written(w, q, l), sq2, rs, ri, l2)
      BY <1>2, <1>3, WaySendsPlain
    <2>2. Clears(q) => ss2 \in Gone
      BY <1>3 DEF Clears, PlainWrite
    <2>3. Clears(Written(w, q, l)) => Clears(w) \/ Clears(q)
      BY ClearsJoin DEF Written
    <2> QED BY <1>1, <2>1, <2>2, <2>3 DEF Half, Sending
  <1>4. CASE ss = "DataTransfer" /\ DataWrite(q, sq, sq2)
    <2>1. ~Clears(w) /\ ~IsRemote(rs, ri)
      BY <1>4 DEF Half, Gone
    <2>2. Way(S, R, rq, Written(w, q, l), sq2, rs, ri, l2)
      BY <1>2, <1>4, <2>1, WaySendsData
    <2>3. ~Clears(q)
      BY <1>4 DEF Clears, DataWrite
    <2>4. ~Clears(Written(w, q, l))
      BY <2>1, <2>3, ClearsJoin DEF Written
    <2> QED BY <1>1, <2>1, <2>2, <2>4 DEF Half
  <1> QED BY <1>3, <1>4 DEF Sending

LEMMA HalfTakes ==
    ASSUME NEW S, NEW R, NEW rq \in Seq(A!SendData), NEW w \in Seq(A!Packets), NEW sq,
           NEW ss, NEW si, NEW rs, NEW ri, NEW l, NEW pkt, NEW w2, NEW rq2, NEW rs2, NEW ri2,
           Half(S, R, w, sq, rq, ss, si, rs, ri, l),
           Taking(pkt, rq, rs, ri, rq2, rs2, ri2), Read(pkt, w, w2, rs)
    PROVE  Half(S, R, w2, sq, rq2, ss, si, rs2, ri2, l)
  <1>1. Way(S, R, rq, w, sq, rs, ri, l)
    BY DEF Half
  <1>2. Clears(w2) \/ IsRemote(rs2, ri2) => Clears(w) \/ IsRemote(rs, ri)
    <2>1. Clears(w2) => Clears(w)
      BY ClearsTail DEF Read
    <2>2. w # <<>> /\ pkt = Head(w) /\ pkt.type = "ClearRequest" => Clears(w)
      BY ClearsTail
    <2> QED BY <2>1, <2>2 DEF Taking, Read, Gone, IsRemote
  <1>3. ss = "WaitClearConfirm" => si # "Remote"
    BY DEF Half
  <1>4. CASE rs \notin Gone /\ w # <<>> /\ pkt = Head(w) /\ w2 = Tail(w)
    <2>1. rq2 = rq \o InChunks(Head(w))
      <3>1. CASE pkt.type = "Data"
        <4>1. rq2 = Append(rq, Chunk(pkt)) /\ InChunks(Head(w)) = <<Chunk(pkt)>>
          BY <1>4, <3>1 DEF Taking, InChunks
        <4>2. Append(rq, Chunk(pkt)) = rq \o <<Chunk(pkt)>>
          OBVIOUS
        <4> QED BY <4>1, <4>2
      <3>2. CASE pkt.type # "Data"
        BY <1>4, <3>2, NoneJoined DEF Taking, InChunks
      <3> QED BY <3>1, <3>2
    <2>2. ASSUME NEW s, NEW i, s \notin Gone \/ (IsRemote(s, i) /\ Head(w).type = "ClearRequest")
          PROVE  Way(S, R, rq2, w2, sq, s, i, l)
      BY <1>1, <1>4, <2>1, <2>2, WayTakes
    <2>3. Way(S, R, rq2, w2, sq, rs, ri, l)
      BY <1>4, <2>2
    <2>4. CASE rs2 \in Gone /\ ~IsRemote(rs2, ri2)
      BY <1>2, <1>3, <2>3, <2>4, WayEnds DEF Half
    <2>5. CASE rs2 \notin Gone \/ (IsRemote(rs2, ri2) /\ Head(w).type = "ClearRequest")
      BY <1>2, <1>3, <2>2, <2>5 DEF Half
    <2> QED BY <1>4, <2>4, <2>5 DEF Taking, Gone
  <1>5. CASE rs \in Gone /\ w # <<>> /\ pkt = Head(w) /\ w2 = Tail(w)
              /\ rs \notin {"Cleared", "OutOfOrder"}
    <2>1. rs2 \in Gone /\ ~IsRemote(rs2, ri2) /\ rq2 = rq
      BY <1>5 DEF Taking, Gone, IsRemote
    <2> QED BY <1>1, <1>2, <1>3, <2>1, WayEnds DEF Half
  <1>6. CASE w2 = w /\ pkt.type \notin {"Data", "ClearRequest"}
    <2>1. rq2 = rq
      BY <1>6 DEF Taking
    <2>2. CASE rs2 = rs /\ ri2 = ri
      BY <1>1, <1>2, <1>3, <1>6, <2>1, <2>2 DEF Half
    <2>3. CASE rs2 \in Gone /\ ~IsRemote(rs2, ri2)
      BY <1>1, <1>2, <1>3, <2>1, <2>3, WayEnds DEF Half
    <2>4. CASE rs \notin Gone /\ rs2 \notin Gone
      <3>1. Reads(rs, ri) /\ (Keeps(rs2, ri2, l, w) => Keeps(rs, ri, l, w))
        BY <2>4 DEF Reads, Keeps, IsRemote, Gone
      <3> QED BY <1>1, <1>2, <1>3, <1>6, <2>1, <3>1, WayRests DEF Half
    <2>5. CASE rs = "WaitClearConfirm" /\ ri2 = ri
      <3>1. rs2 \in Gone /\ ~IsRemote(rs2, ri2)
        BY <2>5 DEF Taking, Gone, IsRemote
      <3> QED BY <2>3, <3>1
    <2> QED BY <1>6, <2>2, <2>3, <2>4, <2>5 DEF Taking
  <1> QED BY <1>4, <1>5, <1>6 DEF Read, Gone

LEMMA OctsOfStart ==
    ASSUME NEW rq \in Seq(A!SendData), NEW k \in 1 .. Len(rq)
    PROVE  Octs(SubSeq(rq, 1, k)) = FlattenSeq([i \in 1 .. k |-> rq[i].data])
  <1>1. k \in 0 .. Len(rq) /\ k \in Nat
    OBVIOUS
  <1>2. /\ SubSeq(rq, 1, k) \in Seq(A!SendData) /\ Len(SubSeq(rq, 1, k)) = k
        /\ \A i \in 1 .. k : SubSeq(rq, 1, k)[i] = rq[i]
    BY <1>1, PrefixIs
  <1> DEFINE p == SubSeq(rq, 1, k)
  <1> HIDE DEF p
  <1>3. [i \in 1 .. Len(p) |-> p[i].data] = [i \in 1 .. k |-> rq[i].data]
    BY <1>2 DEF p
  <1> QED BY <1>3 DEF Octs, p

LEMMA NextDelivered ==
    ASSUME NEW R \in Seq(Text), NEW x, NEW R2, R2 = Append(R, x), R2 \in Seq(Messages),
           NEW S, NEW T \in Seq(Messages), S = R2 \o T
    PROVE  Len(R) < Len(S) /\ S[Len(R) + 1] = x
  <1>1. Len(R2) = Len(R) + 1 /\ R2[Len(R) + 1] = x /\ Len(R) \in Nat
    OBVIOUS
  <1>2. Len(R2 \o T) = Len(R2) + Len(T) /\ Len(T) \in Nat /\ \A i \in 1 .. Len(R2) : (R2 \o T)[i] = R2[i]
    BY JoinIs
  <1> QED BY <1>1, <1>2

(* A function of the two ends. *)
LEMMA EndsSet ==
    ASSUME NEW T, NEW f \in [{"a", "b"} -> T], NEW x \in T
    PROVE  /\ [f EXCEPT !.a = x] \in [{"a", "b"} -> T] /\ [f EXCEPT !.b = x] \in [{"a", "b"} -> T]
           /\ [f EXCEPT !.a = x].a = x /\ [f EXCEPT !.a = x].b = f.b
           /\ [f EXCEPT !.b = x].b = x /\ [f EXCEPT !.b = x].a = f.a
  OBVIOUS

LEMMA EndsNone ==
    ASSUME NEW T, NEW f, f = [a |-> <<>>, b |-> <<>>]
    PROVE  f \in [{"a", "b"} -> Seq(T)] /\ f.a = <<>> /\ f.b = <<>>
  <1>1. f.a = <<>> /\ f.b = <<>>
    OBVIOUS
  <1>2. <<>> \in Seq(T)
    OBVIOUS
  <1>3. ASSUME NEW U, NEW e \in U PROVE [a |-> e, b |-> e] \in [{"a", "b"} -> U]
    OBVIOUS
  <1>4. [a |-> <<>>, b |-> <<>>] \in [{"a", "b"} -> Seq(T)]
    BY <1>2, <1>3
  <1> QED BY <1>1, <1>4

-----------------------------------------------------------------------------
(* The data of both directions, as long as nobody resets.                  *)

DataOrder ==
    /\ sent \in [{"a", "b"} -> Seq(Messages)] /\ received \in [{"a", "b"} -> Seq(Text)]
    /\ Half(sent.a, received.b, ab, aSendq, bRecvq, aState, aInitiator, bState, bInitiator, link)
    /\ Half(sent.b, received.a, ba, bSendq, aRecvq, bState, bInitiator, aState, aInitiator, link)

LEMMA QueueTypes ==
    ASSUME Types2
    PROVE  /\ aSendq \in Seq(A!SendData) /\ aRecvq \in Seq(A!SendData)
           /\ bSendq \in Seq(A!SendData) /\ bRecvq \in Seq(A!SendData)
           /\ aParams.send_packet_size \in Nat \ {0} /\ bParams.send_packet_size \in Nat \ {0}
  <1>1. AP!SendData = A!SendData /\ BP!SendData = A!SendData
    BY DEF AP!SendData, BP!SendData, A!SendData
  <1>2. aParams.send_packet_size \in PacketSizes /\ bParams.send_packet_size \in PacketSizes
    BY DEF Types2, AP!IInv, BP!IInv, AP!ParamsOK, BP!ParamsOK, AP!Params, BP!Params
  <1> QED BY <1>1, <1>2, CircuitAssumption, Zenon DEF Types2, AP!IInv, BP!IInv, AP!QueuesOK, BP!QueuesOK

LEMMA AFlat == ASSUME NEW s PROVE A!FlattenSeq(s) = FlattenSeq(s)
  BY DEF A!FlattenSeq, FlattenSeq

LEMMA BFlat == ASSUME NEW s PROVE B!FlattenSeq(s) = FlattenSeq(s)
  BY Zenon DEF B!FlattenSeq, FlattenSeq

LEMMA RestData ==
    ASSUME DataOrder, link' \in {link, "down"},
           UNCHANGED <<aState, aInitiator, aSendq, aRecvq, bState, bInitiator, bSendq, bRecvq,
                       ab, ba, sent, received>>
    PROVE  DataOrder'
  BY HalfLinks DEF DataOrder

LEMMA AMoves ==
    ASSUME Types2, DataOrder,
           UNCHANGED <<bState, bInitiator, bSendq, bRecvq, sent, received>>,
           NEW pkt, AP!Conveys, AP!TakesIn(pkt), Read(pkt, ba, ba', aState),
           pkt.type = "Data" => aState = "DataTransfer" \/ aState \in Gone
    PROVE  DataOrder'
  <1>1. /\ ab \in Seq(A!Packets) /\ ba \in Seq(A!Packets) /\ link \in {"up", "down"}
        /\ aSendq \in Seq(A!SendData) /\ aRecvq \in Seq(A!SendData)
    BY WireTypes, QueueTypes
  <1>2. PICK q \in Seq(A!Packets) : ab' = AP!Emitted(q) /\ AP!Emits(q)
    BY ASets DEF AP!Conveys
  <1>3. ab' = Written(ab, q, link) /\ link' \in {link, "down"}
    BY <1>2, AWrites DEF AP!Conveys, Written
  <1>4. Sending(q, aSendq, aState, aInitiator, aSendq', aState', aInitiator')
    BY <1>2 DEF AP!Conveys, AP!Emits, AP!Chunk, Chunk, AP!Over, Gone, Sending, PlainWrite, DataWrite
  <1>5. Taking(pkt, aRecvq, aState, aInitiator, aRecvq', aState', aInitiator')
    <2>1. aState = "WaitClearConfirm" => aInitiator # "Remote"
      BY DEF DataOrder, Half
    <2> QED BY <2>1 DEF AP!Conveys, AP!TakesIn, AP!Chunk, Chunk, AP!Over, AP!ByRemote, Gone, IsRemote,
                        Taking
  <1>6. Half(sent.a, received.b, ab', aSendq', bRecvq, aState', aInitiator', bState, bInitiator, link')
    <2>1. Half(sent.a, received.b, ab, aSendq, bRecvq, aState, aInitiator, bState, bInitiator, link)
      BY DEF DataOrder
    <2>2. q \in Seq(A!Packets) /\ link' \in {link, "down"}
      BY <1>2, <1>3
    <2>3. Half(sent.a, received.b, Written(ab, q, link), aSendq', bRecvq, aState', aInitiator',
               bState, bInitiator, link')
      BY <1>1, <1>4, <2>1, <2>2, HalfSends, Zenon
    <2> QED BY <1>3, <2>3
  <1>7. Half(sent.b, received.a, ba', bSendq, aRecvq', bState, bInitiator, aState', aInitiator', link)
    BY <1>1, <1>5, HalfTakes DEF DataOrder
  <1>8. Half(sent.b, received.a, ba', bSendq, aRecvq', bState, bInitiator, aState', aInitiator', link')
    BY <1>3, <1>7, HalfLinks
  <1> QED BY <1>6, <1>8 DEF DataOrder

LEMMA BMoves ==
    ASSUME Types2, DataOrder,
           UNCHANGED <<aState, aInitiator, aSendq, aRecvq, sent, received>>,
           NEW pkt, BP!Conveys, BP!TakesIn(pkt), Read(pkt, ab, ab', bState),
           pkt.type = "Data" => bState = "DataTransfer" \/ bState \in Gone
    PROVE  DataOrder'
  <1>1. /\ ab \in Seq(A!Packets) /\ ba \in Seq(A!Packets) /\ link \in {"up", "down"}
        /\ bSendq \in Seq(A!SendData) /\ bRecvq \in Seq(A!SendData)
    BY WireTypes, QueueTypes
  <1>2. PICK q \in Seq(A!Packets) : ba' = BP!Emitted(q) /\ BP!Emits(q)
    BY BSets, SameParams DEF BP!Conveys
  <1>3. ba' = Written(ba, q, link) /\ link' \in {link, "down"}
    BY <1>2, BWrites DEF BP!Conveys, Written
  <1>4. Sending(q, bSendq, bState, bInitiator, bSendq', bState', bInitiator')
    BY <1>2 DEF BP!Conveys, BP!Emits, BP!Chunk, Chunk, BP!Over, Gone, Sending, PlainWrite, DataWrite
  <1>5. Taking(pkt, bRecvq, bState, bInitiator, bRecvq', bState', bInitiator')
    <2>1. bState = "WaitClearConfirm" => bInitiator # "Remote"
      BY DEF DataOrder, Half
    <2> QED BY <2>1 DEF BP!Conveys, BP!TakesIn, BP!Chunk, Chunk, BP!Over, BP!ByRemote, Gone, IsRemote,
                        Taking
  <1>6. Half(sent.b, received.a, ba', bSendq', aRecvq, bState', bInitiator', aState, aInitiator, link')
    <2>1. Half(sent.b, received.a, ba, bSendq, aRecvq, bState, bInitiator, aState, aInitiator, link)
      BY DEF DataOrder
    <2>2. q \in Seq(A!Packets) /\ link' \in {link, "down"}
      BY <1>2, <1>3
    <2>3. Half(sent.b, received.a, Written(ba, q, link), bSendq', aRecvq, bState', bInitiator',
               aState, aInitiator, link')
      BY <1>1, <1>4, <2>1, <2>2, HalfSends, Zenon
    <2> QED BY <1>3, <2>3
  <1>7. Half(sent.a, received.b, ab', aSendq, bRecvq', aState, aInitiator, bState', bInitiator', link)
    BY <1>1, <1>5, HalfTakes DEF DataOrder
  <1>8. Half(sent.a, received.b, ab', aSendq, bRecvq', aState, aInitiator, bState', bInitiator', link')
    BY <1>3, <1>7, HalfLinks
  <1> QED BY <1>6, <1>8 DEF DataOrder

LEMMA APushData == ASSUME Types2, DataOrder, APush PROVE DataOrder'
  <1>1. PICK m \in Messages : A!SendPush(m) /\ sent' = [sent EXCEPT !.a = Append(@, m)]
    BY DEF APush
  <1>2. /\ UNCHANGED <<aState, aInitiator, aRecvq, bState, bInitiator, bSendq, bRecvq, ab, ba, link,
                       received>>
        /\ aSendq' = aSendq \o A!Chunks(m, aParams.send_packet_size)
    BY <1>1 DEF APush, A!SendPush, A!circuit, A!wire, bVars
  <1>3. /\ sent' \in [{"a", "b"} -> Seq(Messages)] /\ sent'.a = Append(sent.a, m) /\ sent'.b = sent.b
    <2>1. sent \in [{"a", "b"} -> Seq(Messages)] /\ Append(sent.a, m) \in Seq(Messages)
      BY DEF DataOrder
    <2> QED BY <1>1, <2>1, EndsSet
  <1>4. Way(sent'.a, received.b, bRecvq, ab, aSendq', bState, bInitiator, link)
    BY <1>2, <1>3, QueueTypes, WayPushes DEF DataOrder, Half
  <1> QED BY <1>2, <1>3, <1>4 DEF DataOrder, Half

LEMMA BPushData == ASSUME Types2, DataOrder, BPush PROVE DataOrder'
  <1>1. PICK m \in Messages : B!SendPush(m) /\ sent' = [sent EXCEPT !.b = Append(@, m)]
    BY DEF BPush
  <1>2. /\ UNCHANGED <<bState, bInitiator, bRecvq, aState, aInitiator, aSendq, aRecvq, ab, ba, link,
                       received>>
        /\ bSendq' = bSendq \o A!Chunks(m, bParams.send_packet_size)
    BY <1>1, Zenon DEF BPush, B!SendPush, B!circuit, B!wire, aVars, A!Chunks, B!Chunks
  <1>3. /\ sent' \in [{"a", "b"} -> Seq(Messages)] /\ sent'.b = Append(sent.b, m) /\ sent'.a = sent.a
    <2>1. sent \in [{"a", "b"} -> Seq(Messages)] /\ Append(sent.b, m) \in Seq(Messages)
      BY DEF DataOrder
    <2> QED BY <1>1, <2>1, EndsSet, Zenon
  <1>4. Way(sent'.b, received.a, aRecvq, ba, bSendq', aState, aInitiator, link)
    BY <1>2, <1>3, QueueTypes, WayPushes DEF DataOrder, Half
  <1> QED BY <1>2, <1>3, <1>4 DEF DataOrder, Half

LEMMA ARecvData == ASSUME Types2, DataOrder, ARecv PROVE DataOrder'
  <1> DEFINE k == AP!CompleteLen
             x == A!CompleteData
  <1>1. /\ UNCHANGED <<aState, aInitiator, aSendq, bState, bInitiator, bSendq, bRecvq, ab, ba, link,
                       sent>>
        /\ aRecvq' = SubSeq(aRecvq, k + 1, Len(aRecvq)) /\ AP!HasCompleteData
        /\ received' = [received EXCEPT !.a = Append(@, x)]
    BY DEF ARecv, A!PopCompleteData, A!circuit, A!wire, bVars, A!CompleteLen, AP!CompleteLen,
           A!HasCompleteData, AP!HasCompleteData
  <1>2. k \in 1 .. Len(aRecvq) /\ ~aRecvq[k].more /\ \A j \in 1 .. (k - 1) : aRecvq[j].more
    BY <1>1, AAssumptions, AP!CompleteLenType DEF Types2, AP!IInv, AP!QueuesOK
  <1>3. x = [data |-> Octs(SubSeq(aRecvq, 1, k)), qualifier |-> aRecvq[k].qualifier]
    <2>1. x = [data |-> FlattenSeq([i \in 1 .. k |-> aRecvq[i].data]), qualifier |-> aRecvq[k].qualifier]
      BY AFlat DEF A!CompleteData, A!CompleteLen, AP!CompleteLen
    <2> HIDE DEF k, x
    <2> QED BY <1>2, <2>1, QueueTypes, OctsOfStart
  <1> HIDE DEF k, x
  <1>4. Way(sent.b, Append(received.a, x), aRecvq', ba, bSendq, aState, aInitiator, link)
    BY <1>1, <1>2, <1>3, WayPops DEF DataOrder, Half
  <1>5. Append(received.a, x) \in Seq(Text)
    BY <1>4 DEF Way, Parts
  <1>6. /\ received' \in [{"a", "b"} -> Seq(Text)] /\ received'.a = Append(received.a, x)
        /\ received'.b = received.b
    <2>1. received \in [{"a", "b"} -> Seq(Text)]
      BY DEF DataOrder
    <2> QED BY <1>1, <1>5, <2>1, EndsSet, Zenon
  <1> QED BY <1>1, <1>4, <1>6 DEF DataOrder, Half

LEMMA BRecvData == ASSUME Types2, DataOrder, BRecv PROVE DataOrder'
  <1> DEFINE k == BP!CompleteLen
             x == B!CompleteData
  <1>1. /\ UNCHANGED <<bState, bInitiator, bSendq, aState, aInitiator, aSendq, aRecvq, ab, ba, link,
                       sent>>
        /\ bRecvq' = SubSeq(bRecvq, k + 1, Len(bRecvq)) /\ BP!HasCompleteData
        /\ received' = [received EXCEPT !.b = Append(@, x)]
    BY DEF BRecv, B!PopCompleteData, B!circuit, B!wire, aVars, B!CompleteLen, BP!CompleteLen,
           B!HasCompleteData, BP!HasCompleteData
  <1>2. k \in 1 .. Len(bRecvq) /\ ~bRecvq[k].more /\ \A j \in 1 .. (k - 1) : bRecvq[j].more
    BY <1>1, BAssumptions, BP!CompleteLenType DEF Types2, BP!IInv, BP!QueuesOK
  <1>3. x = [data |-> Octs(SubSeq(bRecvq, 1, k)), qualifier |-> bRecvq[k].qualifier]
    <2>1. x = [data |-> FlattenSeq([i \in 1 .. k |-> bRecvq[i].data]), qualifier |-> bRecvq[k].qualifier]
      BY BFlat DEF B!CompleteData, B!CompleteLen, BP!CompleteLen
    <2> HIDE DEF k, x
    <2> QED BY <1>2, <2>1, QueueTypes, OctsOfStart
  <1> HIDE DEF k, x
  <1>4. Way(sent.a, Append(received.b, x), bRecvq', ab, aSendq, bState, bInitiator, link)
    BY <1>1, <1>2, <1>3, WayPops, Zenon DEF DataOrder, Half
  <1>5. Append(received.b, x) \in Seq(Text)
    BY <1>4 DEF Way, Parts
  <1>6. /\ received' \in [{"a", "b"} -> Seq(Text)] /\ received'.b = Append(received.b, x)
        /\ received'.a = received.a
    <2>1. received \in [{"a", "b"} -> Seq(Text)]
      BY DEF DataOrder
    <2> QED BY <1>1, <1>5, <2>1, EndsSet, Zenon
  <1> QED BY <1>1, <1>4, <1>6 DEF DataOrder, Half

LEMMA AEngineData == ASSUME Types2, Agreed, Orderly, DataOrder, AEngine PROVE DataOrder'
  <1>1. /\ UNCHANGED <<bVars, sent, received>> /\ A!NoPacket = AP!NoPacket
        /\ AP!NoPacket.type = "None" /\ aState \notin {"Cleared", "OutOfOrder"}
    BY DEF AEngine, A!NoPacket, AP!NoPacket, history, A!Terminal
  <1>2. ASSUME NEW pkt \in A!Packets \cup {AP!NoPacket}, A!HandleInPacket(pkt),
               \/ ba # <<>> /\ pkt = Head(ba) /\ ba' = Tail(ba)
               \/ pkt = AP!NoPacket /\ UNCHANGED ba
        PROVE  DataOrder'
    <2>1. /\ pkt.type # "ResetRequest" /\ aState # "WaitResetConfirm"
          /\ Numbered(pkt) => pkt = Head(ba) /\ ba # <<>>
          /\ pkt.type = "Data" => Numbered(pkt)
      BY <1>1, <1>2, WireTypes DEF Orderly, Calm, NoReset, Numbered
    <2>2. aState = "DataTransfer" /\ Numbered(pkt) => AP!InSequence(pkt)
      <3>1. aState = "DataTransfer" =>
                Sees(aDts, ba, M) /\ OpenAs(aDts, aParams.send_window_size, M)
        BY DEF Orderly, InStep, AOn
      <3> QED BY <2>1, <3>1, ATaken
    <2>3. AP!Conveys /\ AP!TakesIn(pkt)
      BY <1>2, <2>1, <2>2, AHandles, AAssumptions, AP!HandledConveys, ASets, ASeqs DEF Types2
    <2>4. pkt.type = "Data" => aState = "DataTransfer" \/ aState \in Gone
      <3>1. aState \in AP!States
        BY DEF Types2, AP!IInv, AP!CircuitOK
      <3> QED BY <2>1, <3>1 DEF AP!States, Gone, Orderly, Begun, Agreed
    <2>5. Read(pkt, ba, ba', aState)
      BY <1>1, <1>2 DEF Read
    <2> QED BY <1>1, <2>3, <2>4, <2>5, AMoves DEF bVars
  <1>3. CASE A!LinkError /\ UNCHANGED ba
    <2>1. AP!Conveys /\ AP!TakesIn(AP!NoPacket)
      BY <1>3, ACalls, AAssumptions, AP!RestConveys DEF Types2
    <2> QED BY <1>1, <1>3, <2>1, AMoves DEF bVars, Read
  <1> QED BY <1>1, <1>2, <1>3, WireTypes DEF AEngine

LEMMA BEngineData == ASSUME Types2, Agreed, Orderly, DataOrder, BEngine PROVE DataOrder'
  <1>1. /\ UNCHANGED <<aVars, sent, received>> /\ B!NoPacket = BP!NoPacket
        /\ BP!NoPacket.type = "None" /\ bState \notin {"Cleared", "OutOfOrder"}
    BY DEF BEngine, B!NoPacket, BP!NoPacket, history, B!Terminal
  <1>2. ASSUME NEW pkt \in B!Packets \cup {BP!NoPacket}, B!HandleInPacket(pkt),
               \/ ab # <<>> /\ pkt = Head(ab) /\ ab' = Tail(ab)
               \/ pkt = BP!NoPacket /\ UNCHANGED ab
        PROVE  DataOrder'
    <2>1. /\ pkt.type # "ResetRequest" /\ bState # "WaitResetConfirm"
          /\ Numbered(pkt) => pkt = Head(ab) /\ ab # <<>>
          /\ pkt.type = "Data" => Numbered(pkt)
      BY <1>1, <1>2, WireTypes DEF Orderly, Calm, NoReset, Numbered
    <2>2. bState = "DataTransfer" /\ Numbered(pkt) => BP!InSequence(pkt)
      <3>1. bState = "DataTransfer" =>
                Sees(bDts, ab, M) /\ OpenAs(bDts, bParams.send_window_size, M)
        BY DEF Orderly, InStep, BOn
      <3> QED BY <2>1, <3>1, BTaken
    <2>3. BP!Conveys /\ BP!TakesIn(pkt)
      BY <1>2, <2>1, <2>2, BHandles, BAssumptions, BP!HandledConveys, BSets, BSeqs DEF Types2
    <2>4. pkt.type = "Data" => bState = "DataTransfer" \/ bState \in Gone
      <3>1. bState \in BP!States
        BY DEF Types2, BP!IInv, BP!CircuitOK
      <3>2. ab # <<>> => Head(ab) = ab[1] /\ 1 \in 1 .. Len(ab)
        BY WireTypes, TailIs
      <3> QED BY <2>1, <3>1, <3>2 DEF BP!States, Gone, Orderly, Begun, Agreed
    <2>5. Read(pkt, ab, ab', bState)
      BY <1>1, <1>2 DEF Read
    <2> QED BY <1>1, <2>3, <2>4, <2>5, BMoves DEF aVars
  <1>3. CASE B!LinkError /\ UNCHANGED ab
    <2>1. BP!Conveys /\ BP!TakesIn(BP!NoPacket)
      BY <1>3, BCalls, BAssumptions, BP!RestConveys DEF Types2
    <2> QED BY <1>1, <1>3, <2>1, BMoves DEF aVars, Read
  <1> QED BY <1>1, <1>2, <1>3, WireTypes DEF BEngine

LEMMA AAppData ==
    ASSUME Types2, DataOrder, AApp, UNCHANGED resets, resets \in Nat
    PROVE  DataOrder'
  <1>1. CASE APush
    BY <1>1, APushData
  <1>2. CASE ARecv
    BY <1>2, ARecvData
  <1>3. CASE (ACall \/ AKick \/ AClear) /\ (A!Call \/ A!SendKick \/ A!Clear)
    <2>1. UNCHANGED <<bVars, ba, sent, received>> /\ AP!NoPacket.type = "None"
      BY <1>3 DEF ACall, AKick, AClear, history, AP!NoPacket
    <2>2. AP!Conveys /\ AP!TakesIn(AP!NoPacket)
      BY <1>3, ACalls, AAssumptions, AP!CallsConvey DEF Types2
    <2> QED BY <2>1, <2>2, AMoves DEF bVars, Read
  <1>4. CASE ACalled \/ AResetDone \/ ACleared
    <2>1. /\ UNCHANGED <<aState, aInitiator, aSendq, aRecvq, bVars, ab, ba, sent, received>>
          /\ link' \in {link, "down"}
      BY <1>4 DEF ACalled, AResetDone, ACleared, A!ResetPanics, A!Panic, A!Shutdown, A!circuit, A!wire,
                  aVars, history
    <2> QED BY <2>1, RestData DEF bVars
  <1>5. ~AReset
    BY DEF AReset
  <1> QED BY <1>1, <1>2, <1>3, <1>4, <1>5 DEF AApp, ACall, AKick, AClear

LEMMA BAppData ==
    ASSUME Types2, DataOrder, BApp, UNCHANGED resets, resets \in Nat
    PROVE  DataOrder'
  <1>1. CASE BPush
    BY <1>1, BPushData
  <1>2. CASE BRecv
    BY <1>2, BRecvData
  <1>3. CASE (BAnswer \/ BKick \/ BClear) /\ (B!Accept \/ B!Reject \/ B!SendKick \/ B!Clear)
    <2>1. UNCHANGED <<aVars, ab, sent, received>> /\ BP!NoPacket.type = "None"
      BY <1>3 DEF BAnswer, BKick, BClear, history, BP!NoPacket
    <2>2. BP!Conveys /\ BP!TakesIn(BP!NoPacket)
      BY <1>3, BCalls, BAssumptions, BP!CallsConvey DEF Types2
    <2> QED BY <2>1, <2>2, BMoves DEF aVars, Read
  <1>4. CASE \/ BListen \/ BResetDone \/ BCleared
             \/ BAnswer /\ UNCHANGED <<bVars, link, ba>>
    <2>1. /\ UNCHANGED <<bState, bInitiator, bSendq, bRecvq, aVars, ab, ba, sent, received>>
          /\ link' \in {link, "down"}
      BY <1>4 DEF BListen, BResetDone, BCleared, BAnswer, B!ResetPanics, B!ListenPanics, B!Panic,
                  B!Shutdown, B!circuit, B!wire, bVars, history
    <2> QED BY <2>1, RestData DEF aVars
  <1>5. ~BReset
    BY DEF BReset
  <1> QED BY <1>1, <1>2, <1>3, <1>4, <1>5 DEF BApp, BAnswer, BKick, BClear

LEMMA WorldData == ASSUME DataOrder, World PROVE DataOrder'
  <1>1. /\ UNCHANGED <<aState, aInitiator, aSendq, aRecvq, bState, bInitiator, bSendq, bRecvq, ab, ba,
                       sent, received>>
        /\ link' \in {link, "down"}
    BY DEF World, A!Elapse, B!Elapse, A!LinkBreaks, A!circuit, A!wire, B!wire, aVars, bVars, history
  <1> QED BY <1>1, RestData

LEMMA InitData == Init => DataOrder
  <1> SUFFICES ASSUME Init PROVE DataOrder
    OBVIOUS
  <1>1. /\ sent = [a |-> <<>>, b |-> <<>>] /\ received = [a |-> <<>>, b |-> <<>>]
        /\ aState = "Ready" /\ bState = "Ready" /\ aSendq = <<>> /\ bSendq = <<>>
        /\ aRecvq = <<>> /\ bRecvq = <<>> /\ ab = <<>> /\ ba = <<>>
        /\ aInitiator = "None" /\ bInitiator = "None"
    BY DEF Init, A!VcInit, B!VcInit, A!NoInitiator, B!NoInitiator
  <1>2. /\ sent \in [{"a", "b"} -> Seq(Messages)] /\ received \in [{"a", "b"} -> Seq(Text)]
        /\ sent.a = <<>> /\ sent.b = <<>> /\ received.a = <<>> /\ received.b = <<>>
    BY <1>1, EndsNone
  <1>3. Half(<<>>, <<>>, <<>>, <<>>, <<>>, "Ready", "None", "Ready", "None", link)
    BY HalfStart DEF Gone
  <1> QED BY <1>1, <1>2, <1>3 DEF DataOrder

LEMMA NextData ==
    /\ Types2 /\ Agreed /\ InOrder /\ InOrder' /\ (resets = 0 => DataOrder) /\ [Next]_vars
    => (resets = 0 => DataOrder)'
  <1> SUFFICES ASSUME Types2, Agreed, InOrder, InOrder', resets = 0 => DataOrder, [Next]_vars,
                      resets' = 0
               PROVE  DataOrder'
    OBVIOUS
  <1>1. resets' = resets \/ resets' = resets + 1
    BY DEF Next, AEngine, BEngine, AApp, ACall, ACalled, APush, AKick, ARecv, AReset,
           AResetDone, AClear, ACleared, BApp, BListen, BAnswer, BPush, BKick, BRecv, BReset,
           BResetDone, BClear, BCleared, World, vars, history
  <1>2. resets = 0 /\ UNCHANGED resets /\ resets \in Nat /\ Orderly /\ DataOrder
    BY <1>1 DEF InOrder
  <1>3. CASE UNCHANGED vars
    BY <1>2, <1>3, RestData DEF vars, aVars, bVars, history
  <1> QED BY <1>2, <1>3, AEngineData, BEngineData, AAppData, BAppData, WorldData DEF Next

LEMMA DataOrderAlways == Spec => [](resets = 0 => DataOrder)
  <1>1. Init => (resets = 0 => DataOrder)
    BY InitData
  <1> QED BY <1>1, NextData, TypesAlways, AgreedAlways, InOrderAlways, PTL DEF Spec

(* A step of the call is one of the channel, or none. *)
LEMMA NextDelivers ==
    ASSUME Sendable, DataOrder, DataOrder', [Next]_vars
    PROVE  [Channel!Next]_<<sent, received>>
  <1>1. CASE APush \/ BPush
    <2>1. \E e \in {"a", "b"}, m \in Messages :
             sent' = [sent EXCEPT ![e] = Append(@, m)] /\ UNCHANGED received
      BY <1>1 DEF APush, BPush
    <2> QED BY <2>1, Zenon DEF Channel!Next, Channel!Send, Channel!Ends
  <1>2. CASE ARecv
    <2> DEFINE x == A!CompleteData
    <2>1. received' = [received EXCEPT !.a = Append(@, x)] /\ UNCHANGED sent
      BY <1>2 DEF ARecv
    <2> HIDE DEF x
    <2>2. received'.a = Append(received.a, x) /\ received.a \in Seq(Text)
      BY <2>1 DEF DataOrder
    <2>3. received'.a \in Seq(Messages) /\ \E T \in Seq(Messages) : sent.b = received'.a \o T
      <3>1. Way(sent.b, received'.a, aRecvq', ba', bSendq', aState', aInitiator', link')
        BY <2>1 DEF DataOrder, Half
      <3> QED BY <3>1, PrefixGives, Zenon
    <2>4. Len(received.a) < Len(sent.b) /\ sent.b[Len(received.a) + 1] = x
      BY <2>2, <2>3, NextDelivered
    <2>5. Channel!Deliver("a")
      <3> DEFINE y == sent["b"][Len(received["a"]) + 1]
      <3>1. Channel!Other("a") = "b"
        BY DEF Channel!Other
      <3>2. x = y
        BY <2>4, Zenon
      <3> HIDE DEF y
      <3>3. received' = [received EXCEPT !["a"] = Append(@, y)]
        BY <2>1, <3>2, Zenon
      <3> QED BY <2>1, <2>4, <3>1, <3>3, Zenon DEF Channel!Deliver, y
    <2> QED BY <2>5 DEF Channel!Next, Channel!Ends
  <1>3. CASE BRecv
    <2> DEFINE x == B!CompleteData
    <2>1. received' = [received EXCEPT !.b = Append(@, x)] /\ UNCHANGED sent
      BY <1>3 DEF BRecv
    <2> HIDE DEF x
    <2>2. received'.b = Append(received.b, x) /\ received.b \in Seq(Text)
      BY <2>1 DEF DataOrder
    <2>3. received'.b \in Seq(Messages) /\ \E T \in Seq(Messages) : sent.a = received'.b \o T
      <3>1. Way(sent.a, received'.b, bRecvq', ab', aSendq', bState', bInitiator', link')
        BY <2>1 DEF DataOrder, Half
      <3> QED BY <3>1, PrefixGives, Zenon
    <2>4. Len(received.b) < Len(sent.a) /\ sent.a[Len(received.b) + 1] = x
      BY <2>2, <2>3, NextDelivered
    <2>5. Channel!Deliver("b")
      <3> DEFINE y == sent["a"][Len(received["b"]) + 1]
      <3>1. Channel!Other("b") = "a"
        BY DEF Channel!Other
      <3>2. x = y
        BY <2>4, Zenon
      <3> HIDE DEF y
      <3>3. received' = [received EXCEPT !["b"] = Append(@, y)]
        BY <2>1, <3>2, Zenon
      <3> QED BY <2>1, <2>4, <3>1, <3>3, Zenon DEF Channel!Deliver, y
    <2> QED BY <2>5 DEF Channel!Next, Channel!Ends
  <1>4. CASE ~(APush \/ BPush \/ ARecv \/ BRecv)
    <2>1. UNCHANGED <<sent, received>>
      BY <1>4, Zenon DEF Next, AEngine, BEngine, AApp, ACall, ACalled, AKick, AReset,
           AResetDone, AClear, ACleared, BApp, BListen, BAnswer, BKick, BReset,
           BResetDone, BClear, BCleared, World, vars, history
    <2> QED BY <2>1
  <1> QED BY <1>1, <1>2, <1>3, <1>4

-----------------------------------------------------------------------------
(* The theorems. *)

(* As long as no application resets, every octet an application sent is in *)
(* exactly one place and in order: received, queued for recv, under way, or*)
(* queued to send; and an end that the other cleared has, or is yet to take*)
(* from its own queue, all that the other wrote before it cleared          *)
(* (send_queued_data, queue_recv_data and pop_complete_data in x25/vc.rs). *)
THEOREM NothingLostBeforeClearAlways == Spec => []NothingLostBeforeClear
  <1>1. Types2 /\ (resets = 0 => DataOrder) => NothingLostBeforeClear
    <2> SUFFICES ASSUME Types2, resets = 0, DataOrder PROVE NothingLostBeforeClear
      BY DEF NothingLostBeforeClear
    <2>1. ab \in Seq(A!Packets) /\ ba \in Seq(A!Packets)
      BY WireTypes
    <2>2. ASSUME GotAll(bState, bInitiator)
          PROVE  Reads(bState, bInitiator) /\ Keeps(bState, bInitiator, link, ab)
      BY <2>2 DEF GotAll, Reads, Keeps, Gone, IsRemote
    <2>3. ASSUME GotAll(aState, aInitiator)
          PROVE  Reads(aState, aInitiator) /\ Keeps(aState, aInitiator, link, ba)
      BY <2>3 DEF GotAll, Reads, Keeps, Gone, IsRemote
    <2>4. ASSUME GotAll(bState, bInitiator)
          PROVE  AddsUp(sent.a, received.b, bRecvq, ab, aSendq)
      <3>1. Way(sent.a, received.b, bRecvq, ab, aSendq, bState, bInitiator, link)
        BY DEF DataOrder, Half
      <3> QED BY <2>1, <2>2, <2>4, <3>1, WayGives, Zenon
    <2>5. ASSUME GotAll(aState, aInitiator)
          PROVE  AddsUp(sent.b, received.a, aRecvq, ba, bSendq)
      <3>1. Way(sent.b, received.a, aRecvq, ba, bSendq, aState, aInitiator, link)
        BY DEF DataOrder, Half
      <3> QED BY <2>1, <2>3, <2>5, <3>1, WayGives, Zenon
    <2> QED BY <2>4, <2>5, Zenon DEF NothingLostBeforeClear, AddsUp
  <1> QED BY <1>1, TypesAlways, DataOrderAlways, PTL

(* A call that no application resets is a message channel: each end gets   *)
(* the messages the other sent, whole, once each and in order, in whatever *)
(* pieces they travel, whatever the two ends negotiated and whenever the   *)
(* call ends (Vc::send, Vc::recv and pop_complete_data in x25/vc.rs), if   *)
(* no message is empty: those send cuts into no packets at all.            *)
THEOREM DeliversAlways ==
    ASSUME Sendable
    PROVE  Spec /\ [](resets = 0) => DeliversMessages
  <1>1. Init => Channel!Init
    BY DEF Init, Channel!Init, Channel!Ends
  <1>2. (resets = 0 => DataOrder) /\ (resets = 0 => DataOrder)' /\ resets = 0 /\ (resets = 0)'
           /\ [Next]_vars => [Channel!Next]_<<sent, received>>
    BY NextDelivers
  <1> QED BY <1>1, <1>2, DataOrderAlways, PTL DEF Spec, DeliversMessages, Channel!Spec
=============================================================================
