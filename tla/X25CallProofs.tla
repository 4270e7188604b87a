---------------------------- MODULE X25CallProofs ---------------------------
(***************************************************************************)
(* The virtual call of X25Call, for all values of the constants: both ends *)
(* keep the invariant of the circuit, negotiation ends in agreement, the   *)
(* sequence numbers stay in step and the data on its way within the window *)
(* as long as nobody resets, and a confirmed clear has ended both ends.    *)
(*                                                                         *)
(* First what is true of numbers and wires, then the two circuits again,   *)
(* with what X25VcProofs proves of one whose peer may send any packet,     *)
(* then the invariants, and last the theorems.                             *)
(***************************************************************************)
EXTENDS X25Call, SeqProofs, FiniteSetTheorems

-----------------------------------------------------------------------------
(* Counting the data packets on a wire. *)

DataIn(w, n) == Cardinality({j \in 1 .. n : w[j].type = "Data"})

LEMMA CountFinite ==
    ASSUME NEW w, NEW n \in Nat
    PROVE  IsFiniteSet({j \in 1 .. n : w[j].type = "Data"}) /\ DataIn(w, n) \in Nat
  <1>1. IsFiniteSet(1 .. n)
    BY FS_Interval
  <1>2. IsFiniteSet({j \in 1 .. n : w[j].type = "Data"})
    BY <1>1, FS_Subset
  <1> QED BY <1>2, FS_CardinalityType DEF DataIn

LEMMA CountNone == ASSUME NEW w PROVE DataIn(w, 0) = 0
  <1>1. {j \in 1 .. 0 : w[j].type = "Data"} = {}
    OBVIOUS
  <1> QED BY <1>1, FS_EmptySet DEF DataIn

LEMMA CountStep ==
    ASSUME NEW w, NEW n \in Nat
    PROVE  DataIn(w, n + 1) = DataIn(w, n) + IF w[n + 1].type = "Data" THEN 1 ELSE 0
  <1> DEFINE S == {j \in 1 .. n : w[j].type = "Data"}
             T == {j \in 1 .. n + 1 : w[j].type = "Data"}
  <1>1. IsFiniteSet(S) /\ DataIn(w, n) \in Nat /\ DataIn(w, n) = Cardinality(S)
    BY CountFinite DEF DataIn
  <1>2. CASE w[n + 1].type = "Data"
    <2>1. T = S \cup {n + 1} /\ n + 1 \notin S
      BY <1>2
    <2> HIDE DEF S, T
    <2>2. Cardinality(T) = Cardinality(S) + 1
      BY <1>1, <2>1, FS_AddElement
    <2> QED BY <1>1, <1>2, <2>2 DEF DataIn, T
  <1>3. CASE w[n + 1].type # "Data"
    <2>1. T = S
      BY <1>3
    <2> HIDE DEF S, T
    <2> QED BY <1>1, <1>3, <2>1 DEF DataIn, T
  <1> QED BY <1>2, <1>3

LEMMA CountSame ==
    ASSUME NEW v, NEW w, NEW n \in Nat, \A j \in 1 .. n : v[j] = w[j]
    PROVE  DataIn(v, n) = DataIn(w, n)
  <1>1. {j \in 1 .. n : v[j].type = "Data"} = {j \in 1 .. n : w[j].type = "Data"}
    OBVIOUS
  <1> QED BY <1>1 DEF DataIn

LEMMA CountUpTo ==
    ASSUME NEW w, NEW n \in Nat, NEW k \in Nat, k <= n
    PROVE  DataIn(w, k) <= DataIn(w, n)
  <1> DEFINE S == {j \in 1 .. k : w[j].type = "Data"}
             T == {j \in 1 .. n : w[j].type = "Data"}
  <1>1. S \subseteq T
    OBVIOUS
  <1>2. IsFiniteSet(T)
    BY CountFinite
  <1> HIDE DEF S, T
  <1>3. Cardinality(S) <= Cardinality(T)
    BY <1>1, <1>2, FS_Subset
  <1> QED BY <1>3 DEF S, T, DataIn

(* Counting from the second packet on. *)
LEMMA CountTail ==
    ASSUME NEW S, NEW w \in Seq(S), w # <<>>, NEW n \in Nat, n <= Len(w) - 1
    PROVE  DataIn(w, n + 1) = DataIn(Tail(w), n) + IF Head(w).type = "Data" THEN 1 ELSE 0
  <1> DEFINE one == IF Head(w).type = "Data" THEN 1 ELSE 0
             Bad == {k \in Nat : k <= Len(w) - 1 /\ DataIn(w, k + 1) # DataIn(Tail(w), k) + one}
  <1> SUFFICES ASSUME Bad # {} PROVE FALSE
    OBVIOUS
  <1>0. /\ Head(w) = w[1] /\ Len(w) \in Nat
        /\ \A i \in 1 .. Len(w) - 1 : Tail(w)[i] = w[i + 1]
    BY TailIs
  <1>1. PICK k \in Bad : \A j \in Bad : k <= j
    BY LeastNumber
  <1>2. k \in Nat /\ k <= Len(w) - 1 /\ DataIn(w, k + 1) # DataIn(Tail(w), k) + one
    OBVIOUS
  <1>3. k # 0
    <2> SUFFICES ASSUME k = 0 PROVE FALSE
      OBVIOUS
    <2>1. DataIn(w, 0 + 1) = DataIn(w, 0) + IF w[0 + 1].type = "Data" THEN 1 ELSE 0
      BY CountStep
    <2>2. DataIn(w, 0) = 0 /\ DataIn(Tail(w), 0) = 0
      BY CountNone
    <2> HIDE DEF Bad
    <2> QED BY <1>0, <1>2, <2>1, <2>2
  <1>4. k - 1 \in Nat /\ k - 1 + 1 = k /\ k - 1 \notin Bad
    BY <1>1, <1>2, <1>3
  <1>5. DataIn(w, k) = DataIn(Tail(w), k - 1) + one
    BY <1>2, <1>4
  <1>6. DataIn(w, k + 1) = DataIn(w, k) + IF w[k + 1].type = "Data" THEN 1 ELSE 0
    BY <1>2, CountStep
  <1>7. DataIn(Tail(w), k) = DataIn(Tail(w), k - 1) + IF Tail(w)[k].type = "Data" THEN 1 ELSE 0
    BY <1>4, CountStep
  <1>8. Tail(w)[k] = w[k + 1]
    BY <1>0, <1>2, <1>3
  <1>9. DataIn(Tail(w), k - 1) \in Nat
    BY <1>4, CountFinite
  <1> DEFINE e == IF w[k + 1].type = "Data" THEN 1 ELSE 0
  <1>10. one \in Nat /\ e \in Nat
    OBVIOUS
  <1>12. DataIn(Tail(w), k) = DataIn(Tail(w), k - 1) + e
    BY <1>7, <1>8
  <1>13. DataIn(w, k + 1) = DataIn(w, k) + e
    BY <1>6
  <1> HIDE DEF Bad, one, e
  <1>11. DataIn(w, k + 1) = DataIn(Tail(w), k) + one
    BY <1>5, <1>9, <1>10, <1>12, <1>13
  <1> QED BY <1>2, <1>11

(* Counting what was joined on. *)
LEMMA CountJoin ==
    ASSUME NEW S, NEW u \in Seq(S), NEW v \in Seq(S), NEW n \in Nat, n <= Len(v)
    PROVE  DataIn(u \o v, Len(u) + n) = DataIn(u, Len(u)) + DataIn(v, n)
  <1> DEFINE w == u \o v
             Bad == {k \in Nat : k <= Len(v)
                                 /\ DataIn(w, Len(u) + k) # DataIn(u, Len(u)) + DataIn(v, k)}
  <1> SUFFICES ASSUME Bad # {} PROVE FALSE
    OBVIOUS
  <1>0. /\ Len(u) \in Nat /\ Len(v) \in Nat
        /\ \A i \in 1 .. Len(u) : w[i] = u[i]
        /\ \A i \in 1 .. Len(v) : w[Len(u) + i] = v[i]
    BY JoinIs
  <1> HIDE DEF w
  <1>1. PICK k \in Bad : \A j \in Bad : k <= j
    BY LeastNumber
  <1>2. k \in Nat /\ k <= Len(v) /\ DataIn(w, Len(u) + k) # DataIn(u, Len(u)) + DataIn(v, k)
    OBVIOUS
  <1>a. DataIn(u, Len(u)) \in Nat
    BY <1>0, CountFinite
  <1>3. k # 0
    <2> SUFFICES ASSUME k = 0 PROVE FALSE
      OBVIOUS
    <2>1. DataIn(w, Len(u)) = DataIn(u, Len(u)) /\ Len(u) + 0 = Len(u)
      BY <1>0, CountSame
    <2>2. DataIn(v, 0) = 0
      BY CountNone
    <2> HIDE DEF Bad
    <2> QED BY <1>2, <1>a, <2>1, <2>2
  <1>4. k - 1 \in Nat /\ k - 1 + 1 = k /\ k - 1 \notin Bad
    BY <1>1, <1>2, <1>3
  <1>5. DataIn(w, Len(u) + (k - 1)) = DataIn(u, Len(u)) + DataIn(v, k - 1)
    BY <1>2, <1>4
  <1>6. DataIn(w, (Len(u) + (k - 1)) + 1)
           = DataIn(w, Len(u) + (k - 1)) + IF w[(Len(u) + (k - 1)) + 1].type = "Data" THEN 1 ELSE 0
    <2>1. Len(u) + (k - 1) \in Nat
      BY <1>0, <1>4
    <2> QED BY <2>1, CountStep
  <1>7. DataIn(v, (k - 1) + 1) = DataIn(v, k - 1) + IF v[(k - 1) + 1].type = "Data" THEN 1 ELSE 0
    BY <1>4, CountStep
  <1>8. w[Len(u) + k] = v[k] /\ (Len(u) + (k - 1)) + 1 = Len(u) + k
    BY <1>0, <1>2, <1>3
  <1>9. DataIn(v, k - 1) \in Nat
    BY <1>4, CountFinite
  <1> HIDE DEF Bad
  <1> QED BY <1>2, <1>4, <1>5, <1>6, <1>7, <1>8, <1>9, <1>a

-----------------------------------------------------------------------------
(* Sequence numbers on the circle. *)

LEMMA DistNat ==
    ASSUME NEW m \in Nat, m > 1, NEW s \in SeqNos(m), NEW x \in SeqNos(m)
    PROVE  Dist(s, x, m) \in Nat /\ Dist(s, x, m) < m
  BY DEF Dist, SeqNos

LEMMA DistFromLater ==
    ASSUME NEW m \in Nat, m > 1, NEW s \in SeqNos(m), NEW q \in SeqNos(m), NEW x \in SeqNos(m),
           Dist(s, q, m) <= Dist(s, x, m)
    PROVE  Dist(q, x, m) = Dist(s, x, m) - Dist(s, q, m)
  BY DEF Dist, SeqNos

LEMMA DistAhead ==
    ASSUME NEW m \in Nat, m > 1, NEW s \in SeqNos(m), NEW c \in SeqNos(m), NEW n \in Nat,
           Dist(s, c, m) + n < m
    PROVE  /\ (c + n) % m \in SeqNos(m)
           /\ Dist(s, (c + n) % m, m) = Dist(s, c, m) + n
  <1>1. c \in Nat /\ c < m /\ s \in Nat /\ s < m /\ n < m
    BY DistType DEF SeqNos
  <1>2. (c + n) % m = IF c + n < m THEN c + n ELSE c + n - m
    BY <1>1, ModOnce
  <1> DEFINE t == (c + n) % m
  <1> HIDE DEF t
  <1>3. t = IF c + n < m THEN c + n ELSE c + n - m
    BY <1>2 DEF t
  <1>4. t \in SeqNos(m) /\ Dist(s, t, m) = Dist(s, c, m) + n
    BY <1>1, <1>3 DEF Dist, SeqNos
  <1> QED BY <1>4 DEF t

LEMMA ModOfSum ==
    ASSUME NEW m \in Nat, m > 1, NEW a \in Nat, NEW b \in Nat
    PROVE  ((a % m) + b) % m = (a + b) % m
  <1> DEFINE r == a % m
             s == (r + b) % m
             t == (a + b) % m
  <1>1. Remains(a, m, r)
    BY RemainderExists
  <1>2. r \in Nat
    BY <1>1 DEF Remains, SeqNos
  <1>3. Remains(r + b, m, s) /\ Remains(a + b, m, t)
    <2> HIDE DEF r
    <2>1. r + b \in Nat /\ a + b \in Nat /\ m > 0
      BY <1>2
    <2> QED BY <2>1, RemainderExists
  <1> HIDE DEF r, s, t
  <1>4. PICK k \in Int : a = (m * k) + r
    BY <1>1 DEF Remains
  <1>5. PICK l \in Int : r + b = (m * l) + s
    BY <1>3 DEF Remains
  <1>6. s \in Nat
    BY <1>3 DEF Remains, SeqNos
  <1>7. m * (k + l) = (m * k) + (m * l)
    BY <1>4, <1>5
  <1>8. k + l \in Int /\ a + b = (m * (k + l)) + s
    <2> DEFINE x == m * k
               y == m * l
    <2>1. x \in Int /\ y \in Int /\ a = x + r /\ r + b = y + s /\ m * (k + l) = x + y
      BY <1>4, <1>5, <1>7
    <2> HIDE DEF x, y
    <2> QED BY <1>2, <1>4, <1>5, <1>6, <2>1
  <1>9. Remains(a + b, m, s)
    BY <1>3, <1>8 DEF Remains
  <1>10. s = t
    BY <1>3, <1>9, RemainderUnique
  <1> QED BY <1>10 DEF r, s, t

LEMMA NextThen ==
    ASSUME NEW m \in Nat, m > 1, NEW r \in SeqNos(m), NEW x \in Nat
    PROVE  (NextSeq(r, m) + x) % m = (r + (x + 1)) % m
  <1>1. r + 1 \in Nat /\ (r + 1) + x = r + (x + 1)
    BY DEF SeqNos
  <1>2. \A a, b \in Nat : ((a % m) + b) % m = (a + b) % m
    BY ModOfSum
  <1>3. (((r + 1) % m) + x) % m = ((r + 1) + x) % m
    BY <1>1, <1>2, Zenon
  <1>4. NextSeq(r, m) = (r + 1) % m
    BY DEF NextSeq
  <1> QED BY <1>1, <1>3, <1>4, Zenon

(* So many packets from er as it takes to reach c do reach c. *)
LEMMA ReachedFrom ==
    ASSUME NEW m \in Nat, m > 1, NEW s \in SeqNos(m), NEW er \in SeqNos(m),
           NEW c \in SeqNos(m), NEW n \in Nat, Dist(s, er, m) + n = Dist(s, c, m)
    PROVE  c = (er + n) % m
  <1>1. Dist(s, c, m) < m /\ Dist(s, c, m) \in Nat
    BY DistType DEF SeqNos
  <1>2. (er + n) % m \in SeqNos(m) /\ Dist(s, (er + n) % m, m) = Dist(s, c, m)
    BY <1>1, DistAhead
  <1> DEFINE t == (er + n) % m
  <1> HIDE DEF t
  <1>3. t \in SeqNos(m) /\ Dist(s, t, m) = Dist(s, c, m)
    BY <1>2 DEF t
  <1>4. t = c
    BY <1>3 DEF Dist, SeqNos
  <1> QED BY <1>4 DEF t

-----------------------------------------------------------------------------
(* What an end that has sent up to c, of which the other has acknowledged  *)
(* up to s, and that has received up to r, finds on the wire to it: data   *)
(* in sequence from r, and acknowledgments that go from s upwards and no   *)
(* further than c.                                                         *)

Numbered(pkt) == pkt.type \in {"Data", "ReceiveReady"}

View(s, c, r, in, m) ==
    /\ \A i \in 1 .. Len(in) :
          in[i].type = "Data" => in[i].send_seq = (r + DataIn(in, i - 1)) % m
    /\ \A i \in 1 .. Len(in) : Numbered(in[i]) =>
          /\ in[i].recv_seq \in SeqNos(m)
          /\ Dist(s, in[i].recv_seq, m) <= Dist(s, c, m)
    /\ \A i \in 1 .. Len(in), j \in 1 .. Len(in) :
          i <= j /\ Numbered(in[i]) /\ Numbered(in[j]) =>
              Dist(s, in[i].recv_seq, m) <= Dist(s, in[j].recv_seq, m)

(* And how that ties it to an end that has received up to er: what is on   *)
(* the wire to that one lies between er and c, and it has acknowledged no  *)
(* more than er.                                                           *)
Tied(s, c, er, in, ot, m) ==
    /\ er \in SeqNos(m)
    /\ \A i \in 1 .. Len(in) :
          Numbered(in[i]) => Dist(s, in[i].recv_seq, m) <= Dist(s, er, m)
    /\ Dist(s, er, m) + DataIn(ot, Len(ot)) = Dist(s, c, m)

(* An end's start and receive sequence number after it took pkt. *)
StartAfter(s, pkt) == IF Numbered(pkt) THEN pkt.recv_seq ELSE s
NextAfter(r, pkt, m) == IF pkt.type = "Data" THEN NextSeq(r, m) ELSE r

LEMMA HeadInSequence ==
    ASSUME NEW m \in Nat, m > 1, NEW s \in SeqNos(m), NEW c \in SeqNos(m), NEW r \in SeqNos(m),
           NEW S, NEW in \in Seq(S), in # <<>>, View(s, c, r, in, m)
    PROVE  /\ Head(in).type = "Data" => Head(in).send_seq = r
           /\ Numbered(Head(in)) => /\ Head(in).recv_seq \in SeqNos(m)
                                    /\ Dist(s, Head(in).recv_seq, m) <= Dist(s, c, m)
           /\ StartAfter(s, Head(in)) \in SeqNos(m)
           /\ NextAfter(r, Head(in), m) \in SeqNos(m)
           /\ Dist(s, StartAfter(s, Head(in)), m) <= Dist(s, c, m)
  <1>1. Head(in) = in[1] /\ 1 \in 1 .. Len(in)
    BY TailIs
  <1>2. (r + 0) % m = r
    BY ModOnce DEF SeqNos
  <1>3. DataIn(in, 1 - 1) = 0
    BY CountNone
  <1>4. Head(in).type = "Data" => Head(in).send_seq = r
    BY <1>1, <1>2, <1>3 DEF View
  <1>5. Numbered(Head(in)) => /\ Head(in).recv_seq \in SeqNos(m)
                              /\ Dist(s, Head(in).recv_seq, m) <= Dist(s, c, m)
    BY <1>1 DEF View
  <1>6. Dist(s, s, m) = 0 /\ Dist(s, c, m) \in Nat
    BY DistType DEF Dist, SeqNos
  <1>7. NextAfter(r, Head(in), m) \in SeqNos(m)
    BY NextSeqType DEF NextAfter
  <1> QED BY <1>4, <1>5, <1>6, <1>7 DEF StartAfter

LEMMA AcksFromStart ==
    ASSUME NEW m \in Nat, m > 1, NEW s \in SeqNos(m), NEW c \in SeqNos(m), NEW r \in SeqNos(m),
           NEW S, NEW in \in Seq(S), in # <<>>, View(s, c, r, in, m),
           NEW i \in 1 .. Len(in), Numbered(in[i])
    PROVE  /\ in[i].recv_seq \in SeqNos(m)
           /\ Dist(StartAfter(s, Head(in)), in[i].recv_seq, m)
                 = Dist(s, in[i].recv_seq, m) - Dist(s, StartAfter(s, Head(in)), m)
  <1> DEFINE h == StartAfter(s, Head(in))
  <1>1. h \in SeqNos(m)
    BY HeadInSequence
  <1>2. in[i].recv_seq \in SeqNos(m)
    BY DEF View
  <1>3. Dist(s, h, m) <= Dist(s, in[i].recv_seq, m)
    <2>1. Head(in) = in[1] /\ 1 \in 1 .. Len(in) /\ 1 <= i
      BY TailIs
    <2>2. CASE Numbered(Head(in))
      BY <2>1, <2>2 DEF View, StartAfter
    <2>3. CASE ~Numbered(Head(in))
      <3>1. Dist(s, s, m) = 0 /\ Dist(s, in[i].recv_seq, m) \in Nat
        BY <1>2, DistType, SMTT(30) DEF Dist, SeqNos
      <3> QED BY <2>3, <3>1 DEF StartAfter
    <2> QED BY <2>2, <2>3
  <1> HIDE DEF h
  <1>4. Dist(h, in[i].recv_seq, m) = Dist(s, in[i].recv_seq, m) - Dist(s, h, m)
    BY <1>1, <1>2, <1>3, DistFromLater
  <1> QED BY <1>2, <1>4 DEF h

LEMMA ViewTakes ==
    ASSUME NEW m \in Nat, m > 1, NEW s \in SeqNos(m), NEW c \in SeqNos(m), NEW r \in SeqNos(m),
           NEW S, NEW in \in Seq(S), in # <<>>, View(s, c, r, in, m)
    PROVE  View(StartAfter(s, Head(in)), c, NextAfter(r, Head(in), m), Tail(in), m)
  <1> DEFINE h == StartAfter(s, Head(in))
             k == NextAfter(r, Head(in), m)
             t == Tail(in)
  <1>1. /\ h \in SeqNos(m) /\ Dist(s, h, m) <= Dist(s, c, m)
        /\ Dist(h, c, m) = Dist(s, c, m) - Dist(s, h, m)
    BY HeadInSequence, DistFromLater
  <1>2. /\ t \in Seq(S) /\ Len(t) = Len(in) - 1 /\ Len(in) \in Nat
        /\ \A i \in 1 .. Len(t) : i + 1 \in 1 .. Len(in) /\ t[i] = in[i + 1]
    BY TailIs
  <1>3. ASSUME NEW i \in 1 .. Len(t), t[i].type = "Data"
        PROVE  t[i].send_seq = (k + DataIn(t, i - 1)) % m
    <2>1. in[i + 1].send_seq = (r + DataIn(in, (i + 1) - 1)) % m
      BY <1>2, <1>3 DEF View
    <2>2. i - 1 \in Nat /\ i - 1 <= Len(in) - 1 /\ (i - 1) + 1 = (i + 1) - 1
      BY <1>2
    <2>3. DataIn(in, (i - 1) + 1) = DataIn(t, i - 1) + IF Head(in).type = "Data" THEN 1 ELSE 0
      BY <2>2, CountTail
    <2>4. DataIn(t, i - 1) \in Nat
      BY <2>2, CountFinite
    <2> HIDE DEF t
    <2>5. CASE Head(in).type = "Data"
      <3>1. DataIn(in, (i + 1) - 1) = DataIn(t, i - 1) + 1
        BY <2>2, <2>3, <2>5
      <3>2. (NextSeq(r, m) + DataIn(t, i - 1)) % m = (r + (DataIn(t, i - 1) + 1)) % m
        BY <2>4, NextThen
      <3> QED BY <1>2, <2>1, <2>5, <3>1, <3>2 DEF NextAfter
    <2>6. CASE Head(in).type # "Data"
      <3>1. DataIn(in, (i + 1) - 1) = DataIn(t, i - 1)
        BY <2>2, <2>3, <2>4, <2>6
      <3> QED BY <1>2, <2>1, <2>6, <3>1 DEF NextAfter
    <2> QED BY <2>5, <2>6
  <1>4. \A i \in 1 .. Len(in) : Numbered(in[i]) =>
           /\ in[i].recv_seq \in SeqNos(m) /\ Dist(s, in[i].recv_seq, m) \in Nat
           /\ Dist(h, in[i].recv_seq, m) = Dist(s, in[i].recv_seq, m) - Dist(s, h, m)
    <2>1. \A i \in 1 .. Len(in) : Numbered(in[i]) =>
           /\ in[i].recv_seq \in SeqNos(m)
           /\ Dist(h, in[i].recv_seq, m) = Dist(s, in[i].recv_seq, m) - Dist(s, h, m)
      BY AcksFromStart
    <2>2. \A x \in SeqNos(m) : Dist(s, x, m) \in Nat
      BY DistNat
    <2> HIDE DEF h
    <2> QED BY <2>1, <2>2
  <1>5. Dist(s, h, m) \in Nat /\ Dist(s, c, m) \in Nat
    BY <1>1, DistType DEF SeqNos
  <1> HIDE DEF h, k, t
  <1>6. ASSUME NEW i \in 1 .. Len(t), Numbered(t[i])
        PROVE  t[i].recv_seq \in SeqNos(m) /\ Dist(h, t[i].recv_seq, m) <= Dist(h, c, m)
    <2>1. Dist(s, in[i + 1].recv_seq, m) <= Dist(s, c, m)
      BY <1>2, <1>6 DEF View
    <2> QED BY <1>1, <1>2, <1>4, <1>5, <1>6, <2>1
  <1>7. ASSUME NEW i \in 1 .. Len(t), NEW j \in 1 .. Len(t), i <= j,
               Numbered(t[i]), Numbered(t[j])
        PROVE  Dist(h, t[i].recv_seq, m) <= Dist(h, t[j].recv_seq, m)
    <2>1. i + 1 <= j + 1
      BY <1>2, <1>7
    <2>2. /\ i + 1 \in 1 .. Len(in) /\ t[i] = in[i + 1] /\ Numbered(in[i + 1])
          /\ j + 1 \in 1 .. Len(in) /\ t[j] = in[j + 1] /\ Numbered(in[j + 1])
      BY <1>2, <1>7
    <2>3. Dist(s, in[i + 1].recv_seq, m) <= Dist(s, in[j + 1].recv_seq, m)
      BY <2>1, <2>2 DEF View
    <2>4. /\ Dist(h, t[i].recv_seq, m) = Dist(s, in[i + 1].recv_seq, m) - Dist(s, h, m)
          /\ Dist(h, t[j].recv_seq, m) = Dist(s, in[j + 1].recv_seq, m) - Dist(s, h, m)
          /\ Dist(s, in[i + 1].recv_seq, m) \in Nat
          /\ Dist(s, in[j + 1].recv_seq, m) \in Nat
      BY <1>4, <2>2
    <2> QED BY <1>5, <2>3, <2>4
  <1>8. View(h, c, k, t, m)
    BY <1>3, <1>6, <1>7 DEF View
  <1> QED BY <1>8 DEF h, k, t

LEMMA ViewAhead ==
    ASSUME NEW m \in Nat, m > 1, NEW s \in SeqNos(m), NEW c \in SeqNos(m), NEW r,
           NEW S, NEW in \in Seq(S), View(s, c, r, in, m),
           NEW n \in Nat, Dist(s, c, m) + n < m
    PROVE  View(s, (c + n) % m, r, in, m)
  <1>1. Dist(s, (c + n) % m, m) = Dist(s, c, m) + n
    BY DistAhead
  <1>2. \A x \in SeqNos(m) : Dist(s, x, m) \in Nat
    BY DistNat
  <1>3. \A i \in 1 .. Len(in) : Numbered(in[i]) =>
          Dist(s, in[i].recv_seq, m) <= Dist(s, (c + n) % m, m)
    BY <1>1, <1>2 DEF View
  <1> QED BY <1>3 DEF View

LEMMA TiedTakesOwn ==
    ASSUME NEW m \in Nat, m > 1, NEW s \in SeqNos(m), NEW c \in SeqNos(m), NEW r \in SeqNos(m),
           NEW S, NEW in \in Seq(S), in # <<>>, View(s, c, r, in, m),
           NEW ot \in Seq(S), NEW er, Tied(s, c, er, in, ot, m)
    PROVE  Tied(StartAfter(s, Head(in)), c, er, Tail(in), ot, m)
  <1> DEFINE h == StartAfter(s, Head(in))
             t == Tail(in)
             n == DataIn(ot, Len(ot))
  <1>1. h \in SeqNos(m) /\ Dist(s, h, m) <= Dist(s, c, m) /\ er \in SeqNos(m)
    BY HeadInSequence DEF Tied
  <1>2. Head(in) = in[1] /\ 1 \in 1 .. Len(in)
    BY TailIs
  <1>3. Dist(s, h, m) <= Dist(s, er, m)
    <2>1. CASE Numbered(Head(in))
      BY <1>2, <2>1 DEF Tied, StartAfter
    <2>2. CASE ~Numbered(Head(in))
      <3>1. Dist(s, s, m) = 0 /\ Dist(s, er, m) \in Nat
        BY <1>1, DistNat DEF Dist, SeqNos
      <3> QED BY <2>2, <3>1 DEF StartAfter
    <2> QED BY <2>1, <2>2
  <1>4. /\ Dist(h, c, m) = Dist(s, c, m) - Dist(s, h, m)
        /\ Dist(h, er, m) = Dist(s, er, m) - Dist(s, h, m)
        /\ Dist(s, h, m) \in Nat /\ Dist(s, c, m) \in Nat /\ Dist(s, er, m) \in Nat
    <2> HIDE DEF h
    <2> QED BY <1>1, <1>3, DistFromLater, DistNat
  <1>5. n \in Nat /\ Dist(s, er, m) + n = Dist(s, c, m)
    <2>1. Len(ot) \in Nat
      OBVIOUS
    <2> QED BY <2>1, CountFinite DEF Tied
  <1>6. /\ Len(t) = Len(in) - 1 /\ Len(in) \in Nat
        /\ \A i \in 1 .. Len(t) : i + 1 \in 1 .. Len(in) /\ t[i] = in[i + 1]
    BY TailIs
  <1>7. \A i \in 1 .. Len(in) : Numbered(in[i]) =>
           /\ in[i].recv_seq \in SeqNos(m)
           /\ Dist(h, in[i].recv_seq, m) = Dist(s, in[i].recv_seq, m) - Dist(s, h, m)
    BY AcksFromStart
  <1> HIDE DEF h, t, n
  <1>8. ASSUME NEW i \in 1 .. Len(t), Numbered(t[i])
        PROVE  Dist(h, t[i].recv_seq, m) <= Dist(h, er, m)
    <2>1. i + 1 \in 1 .. Len(in) /\ t[i] = in[i + 1] /\ Numbered(in[i + 1])
      BY <1>6, <1>8
    <2>2. /\ Dist(h, t[i].recv_seq, m) = Dist(s, in[i + 1].recv_seq, m) - Dist(s, h, m)
          /\ Dist(s, in[i + 1].recv_seq, m) \in Nat
      BY <1>7, <2>1, DistNat
    <2>3. Dist(s, in[i + 1].recv_seq, m) <= Dist(s, er, m)
      BY <2>1 DEF Tied
    <2> QED BY <1>4, <2>2, <2>3
  <1>9. Dist(h, er, m) + n = Dist(h, c, m)
    BY <1>4, <1>5
  <1>10. Tied(h, c, er, t, ot, m)
    BY <1>1, <1>8, <1>9 DEF Tied, n
  <1> QED BY <1>10 DEF h, t

LEMMA TiedTakesOther ==
    ASSUME NEW m \in Nat, m > 1, NEW s \in SeqNos(m), NEW c \in SeqNos(m),
           NEW S, NEW in \in Seq(S), NEW ot \in Seq(S), ot # <<>>,
           NEW er, Tied(s, c, er, in, ot, m), NEW r, View(s, c, r, in, m)
    PROVE  Tied(s, c, NextAfter(er, Head(ot), m), in, Tail(ot), m)
  <1> DEFINE k == NextAfter(er, Head(ot), m)
             n == DataIn(Tail(ot), Len(Tail(ot)))
             one == IF Head(ot).type = "Data" THEN 1 ELSE 0
  <1>1. er \in SeqNos(m) /\ Dist(s, er, m) \in Nat /\ Dist(s, c, m) \in Nat /\ Dist(s, c, m) < m
    BY DistNat DEF Tied
  <1>2. Len(Tail(ot)) = Len(ot) - 1 /\ Len(ot) - 1 \in Nat /\ (Len(ot) - 1) + 1 = Len(ot)
        /\ Len(Tail(ot)) \in Nat
    BY TailIs
  <1>3. n \in Nat
    BY <1>2, CountFinite
  <1>4. DataIn(ot, Len(ot)) = n + one
    <2>1. DataIn(ot, (Len(ot) - 1) + 1) = DataIn(Tail(ot), Len(ot) - 1) + one
      BY <1>2, CountTail
    <2> QED BY <1>2, <2>1
  <1>5. Dist(s, er, m) + (n + one) = Dist(s, c, m) /\ one \in Nat
    BY <1>4 DEF Tied
  <1> HIDE DEF n
  <1>6. k \in SeqNos(m) /\ Dist(s, k, m) = Dist(s, er, m) + one
    <2>1. CASE Head(ot).type = "Data"
      <3>1. Dist(s, er, m) + 1 < m
        BY <1>1, <1>3, <1>5, <2>1
      <3>2. (er + 1) % m \in SeqNos(m) /\ Dist(s, (er + 1) % m, m) = Dist(s, er, m) + 1
        BY <1>1, <3>1, DistAhead
      <3> QED BY <2>1, <3>2 DEF NextAfter, NextSeq
    <2>2. CASE Head(ot).type # "Data"
      BY <1>1, <2>2 DEF NextAfter
    <2> QED BY <2>1, <2>2
  <1> HIDE DEF k, one
  <1>7. ASSUME NEW i \in 1 .. Len(in), Numbered(in[i])
        PROVE  Dist(s, in[i].recv_seq, m) <= Dist(s, k, m)
    <2>1. Dist(s, in[i].recv_seq, m) <= Dist(s, er, m) /\ in[i].recv_seq \in SeqNos(m)
      BY <1>7 DEF Tied, View
    <2>2. Dist(s, in[i].recv_seq, m) \in Nat
      BY <2>1, DistNat
    <2> QED BY <1>1, <1>5, <1>6, <2>1, <2>2
  <1>8. Dist(s, k, m) + n = Dist(s, c, m)
    BY <1>1, <1>3, <1>5, <1>6
  <1>9. Tied(s, c, k, in, Tail(ot), m)
    BY <1>6, <1>7, <1>8 DEF Tied, n
  <1> QED BY <1>9 DEF k

(* q is in sequence from c and acknowledges up to er. *)
Follows(c, er, q, m) ==
    \A i \in 1 .. Len(q) :
        /\ q[i].type = "Data" => q[i].send_seq = (c + DataIn(q, i - 1)) % m
        /\ Numbered(q[i]) => q[i].recv_seq = er

LEMMA TiedSends ==
    ASSUME NEW m \in Nat, m > 1, NEW s \in SeqNos(m), NEW c \in SeqNos(m),
           NEW S, NEW in, NEW ot \in Seq(S), NEW q \in Seq(S),
           NEW er, Tied(s, c, er, in, ot, m),
           NEW n \in Nat, n = DataIn(q, Len(q)), Dist(s, c, m) + n < m
    PROVE  Tied(s, (c + n) % m, er, in, ot \o q, m)
  <1>1. Dist(s, (c + n) % m, m) = Dist(s, c, m) + n /\ Dist(s, c, m) \in Nat
    BY DistAhead, DistNat
  <1>2. Len(ot \o q) = Len(ot) + Len(q) /\ Len(ot) \in Nat /\ Len(q) \in Nat
    BY JoinIs
  <1>3. DataIn(ot \o q, Len(ot) + Len(q)) = DataIn(ot, Len(ot)) + n
    BY <1>2, CountJoin
  <1>4. DataIn(ot, Len(ot)) \in Nat
    BY <1>2, CountFinite
  <1>5. er \in SeqNos(m) /\ Dist(s, er, m) \in Nat
        /\ Dist(s, er, m) + DataIn(ot, Len(ot)) = Dist(s, c, m)
    BY DistNat DEF Tied
  <1>6. Dist(s, er, m) + DataIn(ot \o q, Len(ot \o q)) = Dist(s, (c + n) % m, m)
    BY <1>1, <1>2, <1>3, <1>4, <1>5
  <1> QED BY <1>5, <1>6 DEF Tied

LEMMA TiedReceives ==
    ASSUME NEW m \in Nat, m > 1, NEW s \in SeqNos(m), NEW c \in SeqNos(m),
           NEW S, NEW in \in Seq(S), NEW ot \in Seq(S), NEW q \in Seq(S),
           NEW er, Tied(s, c, er, in, ot, m), NEW c2, Follows(c2, er, q, m)
    PROVE  Tied(s, c, er, in \o q, ot, m)
  <1>1. /\ Len(in \o q) = Len(in) + Len(q) /\ Len(in) \in Nat /\ Len(q) \in Nat
        /\ \A i \in 1 .. Len(in) : (in \o q)[i] = in[i]
        /\ \A i \in 1 .. Len(q) : (in \o q)[Len(in) + i] = q[i]
    BY JoinIs
  <1> DEFINE w == in \o q
  <1> HIDE DEF w
  <1>2. er \in SeqNos(m) /\ Dist(s, er, m) \in Nat
    BY DistNat DEF Tied
  <1>3. ASSUME NEW i \in 1 .. Len(w), Numbered(w[i])
        PROVE  Dist(s, w[i].recv_seq, m) <= Dist(s, er, m)
    <2>1. CASE i <= Len(in)
      <3>1. i \in 1 .. Len(in) /\ w[i] = in[i]
        BY <1>1, <2>1 DEF w
      <3> QED BY <1>3, <3>1 DEF Tied
    <2>2. CASE i > Len(in)
      <3>1. i - Len(in) \in 1 .. Len(q) /\ i = Len(in) + (i - Len(in))
        BY <1>1, <2>2 DEF w
      <3>2. w[i] = q[i - Len(in)]
        BY <1>1, <3>1 DEF w
      <3> QED BY <1>2, <1>3, <3>1, <3>2 DEF Follows
    <2> QED BY <1>1, <2>1, <2>2
  <1>4. Tied(s, c, er, w, ot, m)
    BY <1>3 DEF Tied
  <1> QED BY <1>4 DEF w

(* What its peer, which has received up to er and sent up to c2, writes    *)
(* keeps an end's view.                                                    *)
LEMMA ViewReceives ==
    ASSUME NEW m \in Nat, m > 1, NEW s \in SeqNos(m), NEW c \in SeqNos(m), NEW r \in SeqNos(m),
           NEW S, NEW in \in Seq(S), NEW q \in Seq(S), View(s, c, r, in, m),
           NEW er, NEW ot \in Seq(S), Tied(s, c, er, in, ot, m),
           NEW c2 \in SeqNos(m), c2 = (r + DataIn(in, Len(in))) % m,
           Follows(c2, er, q, m)
    PROVE  View(s, c, r, in \o q, m)
  <1> DEFINE w == in \o q
             D == DataIn(in, Len(in))
  <1>1. /\ Len(w) = Len(in) + Len(q) /\ Len(in) \in Nat /\ Len(q) \in Nat
        /\ \A i \in 1 .. Len(in) : w[i] = in[i]
        /\ \A i \in 1 .. Len(q) : w[Len(in) + i] = q[i]
    BY JoinIs
  <1>2. D \in Nat /\ DataIn(ot, Len(ot)) \in Nat
    <2>1. Len(ot) \in Nat
      OBVIOUS
    <2> QED BY <1>1, <2>1, CountFinite
  <1>3. /\ er \in SeqNos(m) /\ Dist(s, er, m) \in Nat
        /\ Dist(s, er, m) <= Dist(s, c, m)
    <2>1. er \in SeqNos(m) /\ Dist(s, er, m) \in Nat
      BY DistNat DEF Tied
    <2>2. Dist(s, er, m) + DataIn(ot, Len(ot)) = Dist(s, c, m)
      BY DEF Tied
    <2> QED BY <1>2, <2>1, <2>2
  <1>4. ASSUME NEW n \in Nat, n <= Len(q)
        PROVE  DataIn(w, Len(in) + n) = D + DataIn(q, n)
    BY <1>4, CountJoin
  <1>5. ASSUME NEW n \in Nat, n <= Len(in)
        PROVE  DataIn(w, n) = DataIn(in, n)
    <2>1. \A j \in 1 .. n : j \in 1 .. Len(in)
      BY <1>1, <1>5
    <2>2. \A j \in 1 .. n : w[j] = in[j]
      BY <1>1, <2>1
    <2> HIDE DEF w
    <2> QED BY <1>5, <2>2, CountSame
  <1> HIDE DEF w, D
  (* A place on the wire is one that was there before or one of q. *)
  <1>6. \A i \in 1 .. Len(w) :
           \/ i \in 1 .. Len(in) /\ w[i] = in[i]
           \/ /\ i > Len(in) /\ i - Len(in) \in 1 .. Len(q)
              /\ w[i] = q[i - Len(in)]
    <2> SUFFICES ASSUME NEW i \in 1 .. Len(w), i \notin 1 .. Len(in)
                 PROVE  /\ i > Len(in) /\ i - Len(in) \in 1 .. Len(q)
                        /\ w[i] = q[i - Len(in)]
      BY <1>1, Zenon
    <2>1. /\ i > Len(in) /\ i - Len(in) \in 1 .. Len(q)
          /\ i = Len(in) + (i - Len(in))
      BY <1>1
    <2> QED BY <1>1, <2>1
  <1>7. ASSUME NEW i \in 1 .. Len(w), w[i].type = "Data"
        PROVE  w[i].send_seq = (r + DataIn(w, i - 1)) % m
    <2>1. CASE i \in 1 .. Len(in) /\ w[i] = in[i]
      <3>1. in[i].send_seq = (r + DataIn(in, i - 1)) % m
        BY <1>7, <2>1 DEF View
      <3>2. i - 1 \in Nat /\ i - 1 <= Len(in)
        BY <1>1, <2>1
      <3> QED BY <1>5, <2>1, <3>1, <3>2
    <2>2. CASE /\ i > Len(in) /\ i - Len(in) \in 1 .. Len(q)
               /\ w[i] = q[i - Len(in)]
      <3> DEFINE j == i - Len(in)
                 x == DataIn(q, j - 1)
      <3>a. i \in Nat
        BY <1>1
      <3>1. j \in 1 .. Len(q) /\ w[i] = q[j] /\ j - 1 \in Nat /\ j - 1 <= Len(q)
            /\ i - 1 = Len(in) + (j - 1)
        BY <1>1, <2>2, <3>a
      <3>2. q[j].send_seq = (c2 + x) % m /\ x \in Nat
        BY <1>7, <3>1, CountFinite DEF Follows
      <3>3. DataIn(w, i - 1) = D + x
        BY <1>4, <3>1
      <3> HIDE DEF j, x
      <3>b. r \in Nat /\ D \in Nat /\ x \in Nat
        BY <1>2, <3>2 DEF SeqNos
      <3>4. r + D \in Nat /\ (r + D) + x = r + (D + x)
        BY <3>b
      <3>c. c2 = (r + D) % m
        BY DEF D
      <3>d. \A a, b \in Nat : ((a % m) + b) % m = (a + b) % m
        BY ModOfSum
      <3>5. (c2 + x) % m = ((r + D) + x) % m
        BY <3>2, <3>4, <3>c, <3>d, Zenon
      <3> QED BY <3>1, <3>2, <3>3, <3>4, <3>5
    <2> QED BY <1>6, <2>1, <2>2
  <1>8. ASSUME NEW i \in 1 .. Len(w), Numbered(w[i])
        PROVE  w[i].recv_seq \in SeqNos(m) /\ Dist(s, w[i].recv_seq, m) <= Dist(s, c, m)
               /\ Dist(s, w[i].recv_seq, m) <= Dist(s, er, m)
               /\ (i > Len(in) => w[i].recv_seq = er)
    <2>1. CASE i \in 1 .. Len(in) /\ w[i] = in[i]
      BY <1>1, <1>8, <2>1 DEF View, Tied
    <2>2. CASE i > Len(in) /\ i - Len(in) \in 1 .. Len(q) /\ w[i] = q[i - Len(in)]
      <3>1. w[i].recv_seq = er
        BY <1>8, <2>2 DEF Follows
      <3> QED BY <1>3, <3>1
    <2> QED BY <1>6, <2>1, <2>2
  <1>9. ASSUME NEW i \in 1 .. Len(w), NEW j \in 1 .. Len(w), i <= j,
               Numbered(w[i]), Numbered(w[j])
        PROVE  Dist(s, w[i].recv_seq, m) <= Dist(s, w[j].recv_seq, m)
    <2>1. CASE j > Len(in)
      <3>1. w[j].recv_seq = er
        BY <1>8, <1>9, <2>1
      <3> QED BY <1>8, <1>9, <3>1
    <2>2. CASE ~(j > Len(in))
      <3>1. i \in 1 .. Len(in) /\ j \in 1 .. Len(in) /\ w[i] = in[i] /\ w[j] = in[j]
        BY <1>1, <1>9, <2>2
      <3> QED BY <1>9, <3>1 DEF View
    <2> QED BY <2>1, <2>2
  <1>10. View(s, c, r, w, m)
    BY <1>7, <1>8, <1>9 DEF View
  <1> QED BY <1>10 DEF w

LEMMA CountAll ==
    ASSUME NEW q, NEW n \in Nat, \A j \in 1 .. n : q[j].type = "Data"
    PROVE  DataIn(q, n) = n
  <1>1. {j \in 1 .. n : q[j].type = "Data"} = 1 .. n
    OBVIOUS
  <1>2. Cardinality(1 .. n) = n
    BY FS_Interval
  <1> QED BY <1>1, <1>2 DEF DataIn

(* A packet without numbers changes no end's view. *)
LEMMA PlainCounts ==
    ASSUME NEW S, NEW w \in Seq(S), NEW p \in S, p.type # "Data"
    PROVE  DataIn(Append(w, p), Len(Append(w, p))) = DataIn(w, Len(w))
  <1> DEFINE v == Append(w, p)
  <1>1. Len(v) = Len(w) + 1 /\ Len(w) \in Nat /\ v[Len(w) + 1] = p
        /\ \A j \in 1 .. Len(w) : v[j] = w[j]
    BY AppendIs
  <1> HIDE DEF v
  <1>2. DataIn(v, Len(w) + 1) = DataIn(v, Len(w)) + IF v[Len(w) + 1].type = "Data" THEN 1 ELSE 0
    BY <1>1, CountStep
  <1>3. DataIn(v, Len(w)) = DataIn(w, Len(w)) /\ DataIn(v, Len(w)) \in Nat
    BY <1>1, CountSame, CountFinite
  <1>4. DataIn(v, Len(v)) = DataIn(w, Len(w))
    BY <1>1, <1>2, <1>3
  <1> QED BY <1>4 DEF v

LEMMA PlainView ==
    ASSUME NEW m, NEW s, NEW c, NEW r, NEW S, NEW in \in Seq(S), NEW p \in S,
           ~Numbered(p), View(s, c, r, in, m)
    PROVE  View(s, c, r, Append(in, p), m)
  <1> DEFINE v == Append(in, p)
  <1>1. Len(v) = Len(in) + 1 /\ Len(in) \in Nat /\ v[Len(in) + 1] = p
        /\ \A j \in 1 .. Len(in) : v[j] = in[j]
    BY AppendIs
  <1> HIDE DEF v
  <1>2. ASSUME NEW i \in 1 .. Len(v), Numbered(v[i]) \/ v[i].type = "Data"
        PROVE  i \in 1 .. Len(in) /\ v[i] = in[i] /\ DataIn(v, i - 1) = DataIn(in, i - 1)
    <2>1. i # Len(in) + 1
      BY <1>1, <1>2 DEF Numbered
    <2>2. i \in 1 .. Len(in) /\ i - 1 \in Nat
      BY <1>1, <2>1
    <2>3. \A j \in 1 .. i - 1 : v[j] = in[j]
      BY <1>1, <2>2
    <2>4. DataIn(v, i - 1) = DataIn(in, i - 1)
      BY <2>2, <2>3, CountSame
    <2> QED BY <1>1, <2>2, <2>4
  <1>3. View(s, c, r, v, m)
    BY <1>2 DEF View
  <1> QED BY <1>3 DEF v

-----------------------------------------------------------------------------
(* The same of an end's transfer state d, which finds in on its wire, and  *)
(* the other's, e, which finds ot.                                         *)

Numbers(d, m) == /\ d.window.start \in SeqNos(m) /\ d.window.current \in SeqNos(m)
                 /\ d.recv_seq \in SeqNos(m)
Sees(d, in, m) == /\ Numbers(d, m)
                  /\ View(d.window.start, d.window.current, d.recv_seq, in, m)
Pair(d, in, e, ot, m) ==
    /\ Sees(d, in, m) /\ Sees(e, ot, m)
    /\ Tied(d.window.start, d.window.current, e.recv_seq, in, ot, m)
    /\ Tied(e.window.start, e.window.current, d.recv_seq, ot, in, m)

(* d2 is d after it took pkt; d2 is d after it sent n data packets. *)
After(d, pkt, d2, m) == /\ d2.window.start = StartAfter(d.window.start, pkt)
                        /\ d2.window.current = d.window.current
                        /\ d2.recv_seq = NextAfter(d.recv_seq, pkt, m)
Ahead(d, n, d2, m) == /\ d2.window.start = d.window.start
                      /\ d2.window.current = (d.window.current + n) % m
                      /\ d2.recv_seq = d.recv_seq

LEMMA PairTurned ==
    ASSUME NEW d, NEW in, NEW e, NEW ot, NEW m, Pair(d, in, e, ot, m)
    PROVE  Pair(e, ot, d, in, m)
  BY DEF Pair

LEMMA SeesTakes ==
    ASSUME NEW m \in Nat, m > 1, NEW d, NEW S, NEW in \in Seq(S), in # <<>>, Sees(d, in, m),
           NEW d2, After(d, Head(in), d2, m)
    PROVE  Sees(d2, Tail(in), m)
  <1>1. d2.window.start \in SeqNos(m) /\ d2.recv_seq \in SeqNos(m)
    BY HeadInSequence DEF Sees, Numbers, After
  <1>2. View(d2.window.start, d2.window.current, d2.recv_seq, Tail(in), m)
    BY ViewTakes DEF Sees, Numbers, After
  <1> QED BY <1>1, <1>2 DEF Sees, Numbers, After

LEMMA PairTakes ==
    ASSUME NEW m \in Nat, m > 1, NEW d, NEW e, NEW S, NEW in \in Seq(S), NEW ot \in Seq(S),
           in # <<>>, Pair(d, in, e, ot, m), NEW d2, After(d, Head(in), d2, m)
    PROVE  Pair(d2, Tail(in), e, ot, m)
  <1>1. Sees(d2, Tail(in), m)
    BY SeesTakes DEF Pair
  <1>2. Tied(d2.window.start, d2.window.current, e.recv_seq, Tail(in), ot, m)
    BY TiedTakesOwn DEF Pair, Sees, Numbers, After
  <1>3. Tied(e.window.start, e.window.current, d2.recv_seq, ot, Tail(in), m)
    BY TiedTakesOther DEF Pair, Sees, Numbers, After
  <1> QED BY <1>1, <1>2, <1>3 DEF Pair

LEMMA SeesSends ==
    ASSUME NEW m \in Nat, m > 1, NEW d, NEW S, NEW in \in Seq(S), Sees(d, in, m),
           NEW n \in Nat, Dist(d.window.start, d.window.current, m) + n < m,
           NEW d2, Ahead(d, n, d2, m)
    PROVE  Sees(d2, in, m)
  BY ViewAhead, DistAhead DEF Sees, Numbers, Ahead

LEMMA PairSends ==
    ASSUME NEW m \in Nat, m > 1, NEW d, NEW e, NEW S, NEW in \in Seq(S), NEW ot \in Seq(S),
           Pair(d, in, e, ot, m),
           NEW q \in Seq(S), Follows(d.window.current, d.recv_seq, q, m),
           NEW n \in Nat, n = DataIn(q, Len(q)),
           Dist(d.window.start, d.window.current, m) + n < m
    PROVE  /\ Sees(e, ot \o q, m)
           /\ DataIn(ot \o q, Len(ot \o q)) <= Dist(d.window.start, d.window.current, m) + n
           /\ \A d2 : Ahead(d, n, d2, m) => Pair(d2, in, e, ot \o q, m)
  <1> DEFINE s == d.window.start
             c == d.window.current
             r == d.recv_seq
             es == e.window.start
             ec == e.window.current
             er == e.recv_seq
  <1>1. /\ s \in SeqNos(m) /\ c \in SeqNos(m) /\ r \in SeqNos(m)
        /\ es \in SeqNos(m) /\ ec \in SeqNos(m) /\ er \in SeqNos(m)
        /\ View(s, c, r, in, m) /\ View(es, ec, er, ot, m)
        /\ Tied(s, c, er, in, ot, m) /\ Tied(es, ec, r, ot, in, m)
    BY DEF Pair, Sees, Numbers
  <1>h. Follows(c, r, q, m) /\ Dist(s, c, m) + n < m
    OBVIOUS
  <1> HIDE DEF s, c, r, es, ec, er
  <1>2. DataIn(ot, Len(ot)) \in Nat /\ Dist(s, er, m) \in Nat
    <2>1. Len(ot) \in Nat
      OBVIOUS
    <2> QED BY <1>1, <2>1, CountFinite, DistNat
  <1>3. Dist(s, er, m) + DataIn(ot, Len(ot)) = Dist(s, c, m)
    BY <1>1 DEF Tied
  <1>4. c = (er + DataIn(ot, Len(ot))) % m
    BY <1>1, <1>2, <1>3, ReachedFrom
  <1>5. View(es, ec, er, ot \o q, m)
    BY <1>1, <1>4, <1>h, ViewReceives
  <1>6. DataIn(ot \o q, Len(ot \o q)) = DataIn(ot, Len(ot)) + n
    BY JoinIs, CountJoin, SMTT(30)
  <1>7. DataIn(ot \o q, Len(ot \o q)) <= Dist(s, c, m) + n
    BY <1>2, <1>3, <1>6
  <1>8. Sees(e, ot \o q, m)
    BY <1>1, <1>5 DEF Sees, Numbers, es, ec, er
  <1>9. ASSUME NEW d2, Ahead(d, n, d2, m)
        PROVE  Pair(d2, in, e, ot \o q, m)
    <2>1. Sees(d2, in, m)
      BY <1>9, SeesSends DEF Pair
    <2>2. Tied(s, (c + n) % m, er, in, ot \o q, m)
      BY <1>1, <1>h, TiedSends
    <2>3. Tied(es, ec, r, ot \o q, in, m)
      BY <1>1, <1>h, TiedReceives
    <2> QED BY <1>8, <1>9, <2>1, <2>2, <2>3 DEF Pair, Ahead, s, c, r, es, ec, er
  <1> QED BY <1>7, <1>8, <1>9 DEF s, c

LEMMA TailCounts ==
    ASSUME NEW S, NEW w \in Seq(S), w # <<>>
    PROVE  /\ DataIn(Tail(w), Len(Tail(w))) <= DataIn(w, Len(w))
           /\ DataIn(Tail(w), Len(Tail(w))) \in Nat /\ DataIn(w, Len(w)) \in Nat
  <1>1. Len(Tail(w)) = Len(w) - 1 /\ Len(w) - 1 \in Nat /\ (Len(w) - 1) + 1 = Len(w)
        /\ Len(w) \in Nat
    BY TailIs
  <1> DEFINE one == IF Head(w).type = "Data" THEN 1 ELSE 0
  <1>2. DataIn(w, (Len(w) - 1) + 1) = DataIn(Tail(w), Len(w) - 1) + one
    BY <1>1, CountTail
  <1>3. one \in Nat /\ DataIn(Tail(w), Len(w) - 1) \in Nat /\ DataIn(w, Len(w)) \in Nat
    BY <1>1, CountFinite
  <1> HIDE DEF one
  <1> QED BY <1>1, <1>2, <1>3

(* Wires without data or acknowledgments. *)
LEMMA PlainWire ==
    ASSUME NEW m, NEW d, Numbers(d, m), NEW S, NEW in \in Seq(S),
           \A i \in 1 .. Len(in) : ~Numbered(in[i])
    PROVE  Sees(d, in, m) /\ DataIn(in, Len(in)) = 0
  <1>1. {j \in 1 .. Len(in) : in[j].type = "Data"} = {}
    BY DEF Numbered
  <1>2. DataIn(in, Len(in)) = 0
    BY <1>1, FS_EmptySet DEF DataIn
  <1>3. View(d.window.start, d.window.current, d.recv_seq, in, m)
    BY DEF View, Numbered
  <1> QED BY <1>2, <1>3 DEF Sees

LEMMA PlainPair ==
    ASSUME NEW m \in Nat, m > 1, NEW d, NEW e, NEW S, NEW in \in Seq(S), NEW ot \in Seq(S),
           \A i \in 1 .. Len(in) : ~Numbered(in[i]), \A i \in 1 .. Len(ot) : ~Numbered(ot[i]),
           d.window.start = 0, d.window.current = 0, d.recv_seq = 0,
           e.window.start = 0, e.window.current = 0, e.recv_seq = 0
    PROVE  Pair(d, in, e, ot, m)
  <1>1. Numbers(d, m) /\ Numbers(e, m) /\ 0 \in SeqNos(m) /\ Dist(0, 0, m) = 0
    BY DEF Numbers, SeqNos, Dist
  <1>2. Sees(d, in, m) /\ Sees(e, ot, m) /\ DataIn(in, Len(in)) = 0 /\ DataIn(ot, Len(ot)) = 0
    BY <1>1, PlainWire
  <1> QED BY <1>1, <1>2 DEF Pair, Tied

-----------------------------------------------------------------------------
(* The same of what an end reads and writes (vc.rs), step by step. *)

OpenAs(d, size, m) == /\ d.window \in Windows(m) /\ d.window.size = size
                      /\ d.recv_seq \in SeqNos(m)

NoReset(w) == \A i \in 1 .. Len(w) : w[i].type \notin {"ResetRequest", "ResetConfirm"}

(* What send_queued_data or an acknowledgment writes follows what was sent.*)
LEMMA RunFollows ==
    ASSUME NEW m \in Nat, m > 1, NEW c \in SeqNos(m), NEW r, NEW S, NEW q \in Seq(S), NEW n,
           \A i \in 1 .. Len(q) : Numbered(q[i]) /\ q[i].recv_seq = r,
           \/ /\ n = Len(q)
              /\ \A i \in 1 .. Len(q) : q[i].type = "Data" /\ q[i].send_seq = (c + (i - 1)) % m
           \/ n = 0 /\ Len(q) = 1 /\ q[1].type = "ReceiveReady"
    PROVE  Follows(c, r, q, m) /\ n = DataIn(q, Len(q)) /\ n \in Nat
  <1>1. Len(q) \in Nat
    OBVIOUS
  <1>2. CASE n = Len(q) /\ \A i \in 1 .. Len(q) :
                  q[i].type = "Data" /\ q[i].send_seq = (c + (i - 1)) % m
    <2>1. DataIn(q, Len(q)) = n
      BY <1>1, <1>2, CountAll
    <2>2. ASSUME NEW i \in 1 .. Len(q)
          PROVE  DataIn(q, i - 1) = i - 1
      <3>1. i - 1 \in Nat /\ \A j \in 1 .. i - 1 : q[j].type = "Data"
        BY <1>1, <1>2
      <3> QED BY <3>1, CountAll
    <2> QED BY <1>1, <1>2, <2>1, <2>2 DEF Follows
  <1>3. CASE n = 0 /\ Len(q) = 1 /\ q[1].type = "ReceiveReady"
    <2>1. DataIn(q, 0 + 1) = DataIn(q, 0) + IF q[0 + 1].type = "Data" THEN 1 ELSE 0
      BY CountStep
    <2>2. DataIn(q, Len(q)) = 0
      BY <1>3, <2>1, CountNone
    <2>3. \A i \in 1 .. Len(q) : q[i].type = "ReceiveReady"
      BY <1>3
    <2> QED BY <1>3, <2>2, <2>3 DEF Follows
  <1> QED BY <1>2, <1>3

LEMMA InSequenceIs ==
    ASSUME NEW m \in Nat, m > 1, NEW d, d.window \in Windows(m), NEW S, NEW in \in Seq(S),
           in # <<>>, Sees(d, in, m), Numbered(Head(in))
    PROVE  /\ StartAccepted(d.window, Head(in).recv_seq)
           /\ Head(in).recv_seq \in SeqNos(m)
           /\ Head(in).type = "Data" => Head(in).send_seq = d.recv_seq
  <1>1. /\ Head(in).type = "Data" => Head(in).send_seq = d.recv_seq
        /\ Head(in).recv_seq \in SeqNos(m)
        /\ Dist(d.window.start, Head(in).recv_seq, m)
              <= Dist(d.window.start, d.window.current, m)
    BY HeadInSequence DEF Sees, Numbers
  <1>2. d.window.start \in SeqNos(m) /\ d.window.current \in SeqNos(m) /\ d.window.modulo = m
    BY DEF Windows
  <1>3. Head(in).recv_seq \in Nat
    BY <1>1 DEF SeqNos
  <1>4. StartAccepted(d.window, Head(in).recv_seq)
    BY <1>1, <1>2, <1>3, InRangeIsBetween DEF StartAccepted
  <1> QED BY <1>1, <1>4

(* The transfer state after a packet in sequence was counted and its       *)
(* acknowledgment taken.                                                   *)
LEMMA TakenIs ==
    ASSUME NEW m \in Nat, m > 1, NEW d, d.window \in Windows(m), d.recv_seq \in SeqNos(m),
           NEW pkt, Numbered(pkt), StartAccepted(d.window, pkt.recv_seq),
           pkt.recv_seq \in SeqNos(m), NEW d2,
           d2.window = [d.window EXCEPT !.start = pkt.recv_seq],
           d2.recv_seq = IF pkt.type = "Data" THEN NextSeq(d.recv_seq, m) ELSE d.recv_seq
    PROVE  /\ After(d, pkt, d2, m)
           /\ d2.window \in Windows(m) /\ d2.window.size = d.window.size
           /\ d2.recv_seq \in SeqNos(m)
  <1>1. d2.window \in Windows(m) /\ d2.window.size = d.window.size
        /\ d2.window.start = pkt.recv_seq /\ d2.window.current = d.window.current
    BY DEF Windows
  <1>2. d2.recv_seq \in SeqNos(m)
    BY NextSeqType
  <1> QED BY <1>1, <1>2 DEF After, StartAfter, NextAfter

(* What an end in transfer state d writes leaves it in d2; d2 is then, to  *)
(* what is on its way here and to the other end, what d was.               *)
LEMMA Sends ==
    ASSUME NEW m \in Nat, m > 1, NEW d, NEW size, OpenAs(d, size, m),
           NEW S, NEW in \in Seq(S), Sees(d, in, m), NEW q \in Seq(S), NEW n \in Nat,
           \A i \in 1 .. Len(q) : Numbered(q[i]) /\ q[i].recv_seq = d.recv_seq,
           \/ /\ n = Len(q)
              /\ \A i \in 1 .. Len(q) : /\ q[i].type = "Data"
                                        /\ q[i].send_seq = (d.window.current + (i - 1)) % m
           \/ n = 0 /\ Len(q) = 1 /\ q[1].type = "ReceiveReady",
           Outstanding(d.window) + n <= d.window.size,
           NEW d2, d2.recv_seq = d.recv_seq,
           d2.window = [d.window EXCEPT !.current = (d.window.current + n) % m]
    PROVE  /\ OpenAs(d2, size, m) /\ Sees(d2, in, m)
           /\ \A e : \A ot \in Seq(S) : Pair(d, in, e, ot, m) =>
                 /\ Sees(e, ot \o q, m) /\ Pair(d2, in, e, ot \o q, m)
                 /\ DataIn(ot \o q, Len(ot \o q)) <= size
  <1>1. /\ d.window.current \in SeqNos(m) /\ d.window.start \in SeqNos(m)
        /\ d.window.modulo = m /\ d.window.size = size /\ size < m /\ size \in Nat
        /\ Outstanding(d.window) = Dist(d.window.start, d.window.current, m)
    BY DEF OpenAs, Windows, Outstanding
  <1>2. Follows(d.window.current, d.recv_seq, q, m) /\ n = DataIn(q, Len(q))
    <2> DEFINE c == d.window.current
               r == d.recv_seq
    <2>1. /\ m \in Nat /\ m > 1 /\ q \in Seq(S) /\ n \in Nat /\ c \in SeqNos(m)
          /\ \A i \in 1 .. Len(q) : Numbered(q[i]) /\ q[i].recv_seq = r
          /\ \/ /\ n = Len(q)
                /\ \A i \in 1 .. Len(q) : q[i].type = "Data" /\ q[i].send_seq = (c + (i - 1)) % m
             \/ n = 0 /\ Len(q) = 1 /\ q[1].type = "ReceiveReady"
      BY <1>1
    <2> HIDE DEF c, r
    <2>2. Follows(c, r, q, m) /\ n = DataIn(q, Len(q))
      BY ONLY <2>1, RunFollows
    <2> QED BY <2>2 DEF c, r
  <1>3. Dist(d.window.start, d.window.current, m) \in Nat
    BY <1>1, DistNat
  <1>4. Dist(d.window.start, d.window.current, m) + n <= size
    BY <1>1
  <1>5. Dist(d.window.start, d.window.current, m) + n < m
    BY <1>1, <1>3, <1>4
  <1>6. (d.window.current + n) % m \in SeqNos(m)
    BY <1>1, <1>5, DistAhead
  <1>7. Ahead(d, n, d2, m) /\ OpenAs(d2, size, m)
    BY <1>6 DEF Ahead, OpenAs, Windows
  <1>8. Sees(d2, in, m)
    BY <1>5, <1>7, SeesSends
  <1>9. ASSUME NEW e, NEW ot \in Seq(S), Pair(d, in, e, ot, m)
        PROVE  /\ Sees(e, ot \o q, m) /\ Pair(d2, in, e, ot \o q, m)
               /\ DataIn(ot \o q, Len(ot \o q)) <= size
    <2>1. /\ Sees(e, ot \o q, m)
          /\ DataIn(ot \o q, Len(ot \o q)) <= Dist(d.window.start, d.window.current, m) + n
          /\ \A x : Ahead(d, n, x, m) => Pair(x, in, e, ot \o q, m)
      BY <1>2, <1>5, <1>9, PairSends
    <2>2. DataIn(ot \o q, Len(ot \o q)) \in Nat
      <3>1. Len(ot \o q) \in Nat
        OBVIOUS
      <3> QED BY <3>1, CountFinite
    <2>3. DataIn(ot \o q, Len(ot \o q)) <= size
      BY <1>1, <1>3, <1>4, <2>1, <2>2
    <2> QED BY <1>7, <2>1, <2>3
  <1> QED BY <1>7, <1>8, <1>9

LEMMA NoResetTail ==
    ASSUME NEW S, NEW w \in Seq(S), w # <<>>, NoReset(w) PROVE NoReset(Tail(w))
  BY TailIs DEF NoReset

LEMMA NoResetPlain ==
    ASSUME NEW S, NEW w \in Seq(S), NoReset(w), NEW p \in S,
           p.type \notin {"ResetRequest", "ResetConfirm"}
    PROVE  NoReset(Append(w, p))
  BY AppendIs DEF NoReset

LEMMA NoResetJoin ==
    ASSUME NEW S, NEW w \in Seq(S), NEW q \in Seq(S), NoReset(w),
           \A i \in 1 .. Len(q) : Numbered(q[i])
    PROVE  NoReset(w \o q)
  <1>1. \A i \in 1 .. Len(w \o q) : \/ i \in 1 .. Len(w) /\ (w \o q)[i] = w[i]
                                    \/ i - Len(w) \in 1 .. Len(q) /\ (w \o q)[i] = q[i - Len(w)]
    OBVIOUS
  <1> QED BY <1>1 DEF NoReset, Numbered

(* Reading makes no end's way fuller. *)
LEMMA RoomLess ==
    ASSUME NEW S, NEW w \in Seq(S), NEW v, v = w \/ (w # <<>> /\ v = Tail(w)),
           NEW k \in Nat, DataIn(w, Len(w)) <= k
    PROVE  DataIn(v, Len(v)) <= k
  <1>1. CASE w # <<>> /\ v = Tail(w)
    <2>1. /\ DataIn(v, Len(v)) <= DataIn(w, Len(w))
          /\ DataIn(v, Len(v)) \in Nat /\ DataIn(w, Len(w)) \in Nat
      BY <1>1, TailCounts
    <2> QED BY <2>1
  <1> QED BY <1>1

LEMMA ZeroIsSeqNo == ASSUME NEW m \in Nat, m > 1 PROVE 0 \in SeqNos(m)
  BY DEF SeqNos

-----------------------------------------------------------------------------
(* AP and BP are the two circuits again, with what X25VcProofs proves of   *)
(* one circuit whose peer may send any packet.                             *)

AP == INSTANCE X25VcProofs WITH
        state <- aState, initiator <- aInitiator, dts <- aDts,
        expired <- aExpired, params <- aParams, sendq <- aSendq,
        recvq <- aRecvq, panic <- aPanic, out <- ab,
        PeerPackets <- A!Packets, KeepOut <- TRUE, MaxRecvQueue <- 0

BP == INSTANCE X25VcProofs WITH
        state <- bState, initiator <- bInitiator, dts <- bDts,
        expired <- bExpired, params <- bParams, sendq <- bSendq,
        recvq <- bRecvq, panic <- bPanic, out <- ba,
        PeerPackets <- B!Packets, KeepOut <- TRUE, MaxRecvQueue <- 0

-----------------------------------------------------------------------------
(* The operators of X25Call's circuits are those of AP and BP, and what    *)
(* X25Vc assumes of its constants holds of theirs.                         *)

LEMMA ASets == A!Packets = AP!Packets /\ A!Params = AP!Params
  BY DEF A!Packets, AP!Packets, A!Params, AP!Params, A!PlainPackets,
         AP!PlainPackets, A!DataPacketSet, AP!DataPacketSet,
         A!ReceiveReadySet, AP!ReceiveReadySet, A!CallPackets,
         AP!CallPackets, A!PacketSizeFacility, AP!PacketSizeFacility,
         A!WindowSizeFacility, AP!WindowSizeFacility,
         A!FacilityWindows, AP!FacilityWindows, A!Modulos, AP!Modulos,
         A!Absent, AP!Absent

LEMMA AHandles == ASSUME NEW pkt PROVE A!HandleInPacket(pkt) <=> AP!HandleInPacket(pkt)
  BY Zenon DEF A!HandleInPacket, AP!HandleInPacket, A!InReady, AP!InReady,
         A!InCalled, AP!InCalled, A!InWaitCallAccept,
         AP!InWaitCallAccept, A!InDataTransfer, AP!InDataTransfer,
         A!InWaitResetConfirm, AP!InWaitResetConfirm,
         A!InWaitClearConfirm, AP!InWaitClearConfirm, A!InTerminal,
         AP!InTerminal, A!Terminal, AP!Terminal, A!InData, AP!InData,
         A!DataInSequence, AP!DataInSequence, A!QueueRecvData,
         AP!QueueRecvData, A!Counted, AP!Counted, A!NextSeq,
         AP!NextSeq, A!ReceiveReady, AP!ReceiveReady, A!Cleared,
         AP!Cleared, A!ClearConfirm, AP!ClearConfirm, A!ResetConfirm,
         AP!ResetConfirm, A!DataTransfer, AP!DataTransfer,
         A!WindowSizeOK, AP!WindowSizeOK, A!NegotiateCalledParams,
         AP!NegotiateCalledParams, A!NegotiateCallingParams,
         AP!NegotiateCallingParams, A!ClampWindowSize,
         AP!ClampWindowSize, A!Absent, AP!Absent, A!ClearRequest,
         AP!ClearRequest, A!NoPacket, AP!NoPacket, A!circuit,
         AP!circuit, A!wire, AP!wire, A!vcVars, AP!vcVars,
         A!InReceiveReady, AP!InReceiveReady, A!SendThenChange,
         AP!SendThenChange, A!SendPackets, AP!SendPackets,
         A!SendFails, AP!SendFails, A!Emitted, AP!Emitted,
         A!ChangeState, AP!ChangeState, A!OutOfOrder, AP!OutOfOrder,
         A!NoTransfer, AP!NoTransfer, A!NoInitiator, AP!NoInitiator,
         A!NewWindow, AP!NewWindow, A!StartAccepted, AP!StartAccepted,
         A!IsSeqInRange, AP!IsSeqInRange, A!SendQueuedData,
         AP!SendQueuedData, A!Acknowledged, AP!Acknowledged,
         A!UpdateStart, AP!UpdateStart, A!Reached, AP!Reached,
         A!Stops, AP!Stops, A!DataPackets, AP!DataPackets, A!Advance,
         AP!Advance, A!IsOpen, AP!IsOpen, A!ResetRequest,
         AP!ResetRequest

LEMMA ACalls ==
    /\ A!Call <=> AP!Call
    /\ A!Clear <=> AP!Clear
    /\ A!Shutdown <=> AP!Shutdown
    /\ A!SendKick <=> AP!SendKick
    /\ A!PopCompleteData <=> AP!PopCompleteData
    /\ A!Reset <=> AP!Reset
    /\ A!ResetPanics <=> AP!ResetPanics
    /\ A!LinkError <=> AP!LinkError
    /\ A!Elapse <=> AP!Elapse
    /\ A!LinkBreaks <=> AP!LinkBreaks
    /\ \A m : A!SendPush(m) <=> AP!SendPush(m)
    /\ A!IsConnected <=> AP!IsConnected
  BY DEF A!Call, AP!Call, A!Clear, AP!Clear, A!Shutdown, AP!Shutdown,
         A!SendPush, AP!SendPush, A!Chunks, AP!Chunks, A!SendKick,
         AP!SendKick, A!PopCompleteData, AP!PopCompleteData,
         A!HasCompleteData, AP!HasCompleteData, A!CompleteLen,
         AP!CompleteLen, A!Reset, AP!Reset, A!ResetPanics,
         AP!ResetPanics, A!ResetOutcome, AP!ResetOutcome, A!Panic,
         AP!Panic, A!CreateCallRequest, AP!CreateCallRequest,
         A!IsConnected, AP!IsConnected, A!LinkError, AP!LinkError,
         A!Elapse, AP!Elapse, A!Waiting, AP!Waiting, A!LinkBreaks,
         AP!LinkBreaks, A!Emitted, AP!Emitted, A!SendPackets,
         AP!SendPackets, A!SendFails, AP!SendFails, A!ChangeState,
         AP!ChangeState, A!OutOfOrder, AP!OutOfOrder, A!NoTransfer,
         AP!NoTransfer, A!NoInitiator, AP!NoInitiator, A!NewWindow,
         AP!NewWindow, A!circuit, AP!circuit, A!wire, AP!wire,
         A!SendThenChange, AP!SendThenChange, A!ClearRequest,
         AP!ClearRequest, A!ResetRequest, AP!ResetRequest,
         A!SendQueuedData, AP!SendQueuedData, A!Reached, AP!Reached,
         A!Stops, AP!Stops, A!DataPackets, AP!DataPackets, A!Advance,
         AP!Advance, A!IsOpen, AP!IsOpen, A!DataTransfer,
         AP!DataTransfer, A!WindowSizeOK, AP!WindowSizeOK

LEMMA BSets == B!Packets = BP!Packets /\ B!Params = BP!Params
  BY DEF B!Packets, BP!Packets, B!Params, BP!Params, B!PlainPackets,
         BP!PlainPackets, B!DataPacketSet, BP!DataPacketSet,
         B!ReceiveReadySet, BP!ReceiveReadySet, B!CallPackets,
         BP!CallPackets, B!PacketSizeFacility, BP!PacketSizeFacility,
         B!WindowSizeFacility, BP!WindowSizeFacility,
         B!FacilityWindows, BP!FacilityWindows, B!Modulos, BP!Modulos,
         B!Absent, BP!Absent

LEMMA BHandles == ASSUME NEW pkt PROVE B!HandleInPacket(pkt) <=> BP!HandleInPacket(pkt)
  BY DEF B!HandleInPacket, BP!HandleInPacket, B!InReady, BP!InReady,
         B!InCalled, BP!InCalled, B!InWaitCallAccept,
         BP!InWaitCallAccept, B!InDataTransfer, BP!InDataTransfer,
         B!InWaitResetConfirm, BP!InWaitResetConfirm,
         B!InWaitClearConfirm, BP!InWaitClearConfirm, B!InTerminal,
         BP!InTerminal, B!Terminal, BP!Terminal, B!InData, BP!InData,
         B!DataInSequence, BP!DataInSequence, B!QueueRecvData,
         BP!QueueRecvData, B!Counted, BP!Counted, B!NextSeq,
         BP!NextSeq, B!ReceiveReady, BP!ReceiveReady, B!Cleared,
         BP!Cleared, B!ClearConfirm, BP!ClearConfirm, B!ResetConfirm,
         BP!ResetConfirm, B!DataTransfer, BP!DataTransfer,
         B!WindowSizeOK, BP!WindowSizeOK, B!NegotiateCalledParams,
         BP!NegotiateCalledParams, B!NegotiateCallingParams,
         BP!NegotiateCallingParams, B!ClampWindowSize,
         BP!ClampWindowSize, B!Absent, BP!Absent, B!ClearRequest,
         BP!ClearRequest, B!NoPacket, BP!NoPacket, B!circuit,
         BP!circuit, B!wire, BP!wire, B!vcVars, BP!vcVars,
         B!InReceiveReady, BP!InReceiveReady, B!SendThenChange,
         BP!SendThenChange, B!SendPackets, BP!SendPackets,
         B!SendFails, BP!SendFails, B!Emitted, BP!Emitted,
         B!ChangeState, BP!ChangeState, B!OutOfOrder, BP!OutOfOrder,
         B!NoTransfer, BP!NoTransfer, B!NoInitiator, BP!NoInitiator,
         B!NewWindow, BP!NewWindow, B!StartAccepted, BP!StartAccepted,
         B!IsSeqInRange, BP!IsSeqInRange, B!SendQueuedData,
         BP!SendQueuedData, B!Acknowledged, BP!Acknowledged,
         B!UpdateStart, BP!UpdateStart, B!Reached, BP!Reached,
         B!Stops, BP!Stops, B!DataPackets, BP!DataPackets, B!Advance,
         BP!Advance, B!IsOpen, BP!IsOpen, B!ResetRequest,
         BP!ResetRequest

LEMMA BCalls ==
    /\ B!Accept <=> BP!Accept
    /\ B!Reject <=> BP!Reject
    /\ B!Clear <=> BP!Clear
    /\ B!Shutdown <=> BP!Shutdown
    /\ B!SendKick <=> BP!SendKick
    /\ B!PopCompleteData <=> BP!PopCompleteData
    /\ B!Reset <=> BP!Reset
    /\ B!ResetPanics <=> BP!ResetPanics
    /\ B!ListenPanics <=> BP!ListenPanics
    /\ B!LinkError <=> BP!LinkError
    /\ B!Elapse <=> BP!Elapse
    /\ \A m : B!SendPush(m) <=> BP!SendPush(m)
    /\ B!IsConnected <=> BP!IsConnected
  BY DEF B!Accept, BP!Accept, B!Reject, BP!Reject, B!Clear, BP!Clear,
         B!Shutdown, BP!Shutdown, B!SendPush, BP!SendPush, B!Chunks,
         BP!Chunks, B!SendKick, BP!SendKick, B!PopCompleteData,
         BP!PopCompleteData, B!HasCompleteData, BP!HasCompleteData,
         B!CompleteLen, BP!CompleteLen, B!Reset, BP!Reset,
         B!ResetPanics, BP!ResetPanics, B!ResetOutcome,
         BP!ResetOutcome, B!ListenPanics, BP!ListenPanics,
         B!ListenOutcome, BP!ListenOutcome, B!Panic, BP!Panic,
         B!CreateCallAccept, BP!CreateCallAccept, B!IsConnected,
         BP!IsConnected, B!LinkError, BP!LinkError, B!Elapse,
         BP!Elapse, B!Waiting, BP!Waiting, B!Emitted, BP!Emitted,
         B!SendPackets, BP!SendPackets, B!SendFails, BP!SendFails,
         B!ChangeState, BP!ChangeState, B!OutOfOrder, BP!OutOfOrder,
         B!NoTransfer, BP!NoTransfer, B!NoInitiator, BP!NoInitiator,
         B!NewWindow, BP!NewWindow, B!circuit, BP!circuit, B!wire,
         BP!wire, B!SendThenChange, BP!SendThenChange, B!ClearRequest,
         BP!ClearRequest, B!ResetRequest, BP!ResetRequest,
         B!SendQueuedData, BP!SendQueuedData, B!Reached, BP!Reached,
         B!Stops, BP!Stops, B!DataPackets, BP!DataPackets, B!Advance,
         BP!Advance, B!IsOpen, BP!IsOpen, B!DataTransfer,
         BP!DataTransfer, B!WindowSizeOK, BP!WindowSizeOK

LEMMA SameParams == A!Params = B!Params /\ A!Packets = B!Packets
  BY DEF A!Packets, B!Packets, A!Params, B!Params, A!PlainPackets,
         B!PlainPackets, A!DataPacketSet, B!DataPacketSet,
         A!ReceiveReadySet, B!ReceiveReadySet, A!CallPackets,
         B!CallPackets, A!PacketSizeFacility, B!PacketSizeFacility,
         A!WindowSizeFacility, B!WindowSizeFacility,
         A!FacilityWindows, B!FacilityWindows, A!Modulos, B!Modulos,
         A!Absent, B!Absent

LEMMA AAssumptions ==
    /\ AP!ModuloAssumption /\ AP!SizeAssumption /\ AP!MessageAssumption
    /\ AP!ParamsAssumption /\ AP!PeerAssumption /\ AP!BoundAssumption
  BY CircuitAssumption, ASets, BSets, SameParams
     DEF AP!ModuloAssumption, AP!SizeAssumption, AP!MessageAssumption,
         AP!ParamsAssumption, AP!PeerAssumption, AP!BoundAssumption

LEMMA BAssumptions ==
    /\ BP!ModuloAssumption /\ BP!SizeAssumption /\ BP!MessageAssumption
    /\ BP!ParamsAssumption /\ BP!PeerAssumption /\ BP!BoundAssumption
  BY CircuitAssumption, ASets, BSets, SameParams
     DEF BP!ModuloAssumption, BP!SizeAssumption, BP!MessageAssumption,
         BP!ParamsAssumption, BP!PeerAssumption, BP!BoundAssumption

-----------------------------------------------------------------------------
(* Both ends keep the invariant of the circuit: what one reads is what the *)
(* other wrote, and an end at rest keeps it whatever the other does.       *)

Types2 == AP!IInv /\ BP!IInv

LEMMA ARests ==
    ASSUME AP!IInv, UNCHANGED aVars, ab' \in Seq(A!Packets), link' \in {"up", "down"}
    PROVE  AP!IInv'
  BY ASets DEF AP!IInv, AP!CircuitOK, AP!WindowRespected, AP!WireOK, AP!QueuesOK,
               AP!ParamsOK, AP!PanicOK, aVars

LEMMA BRests ==
    ASSUME BP!IInv, UNCHANGED bVars, ba' \in Seq(B!Packets), link' \in {"up", "down"}
    PROVE  BP!IInv'
  BY BSets DEF BP!IInv, BP!CircuitOK, BP!WindowRespected, BP!WireOK, BP!QueuesOK,
               BP!ParamsOK, BP!PanicOK, bVars

LEMMA WireTypes ==
    ASSUME Types2
    PROVE  /\ ab \in Seq(A!Packets) /\ ba \in Seq(A!Packets)
           /\ ab \in Seq(B!Packets) /\ ba \in Seq(B!Packets)
           /\ link \in {"up", "down"}
           /\ ba # <<>> => Head(ba) \in A!Packets /\ Tail(ba) \in Seq(B!Packets)
           /\ ab # <<>> => Head(ab) \in B!Packets /\ Tail(ab) \in Seq(A!Packets)
  BY ASets, BSets, SameParams DEF Types2, AP!IInv, BP!IInv, AP!WireOK, BP!WireOK

LEMMA AEngineTypes == ASSUME Types2, AEngine PROVE Types2'
  <1>1. AP!IInv'
    <2>1. ASSUME NEW pkt \in A!Packets \cup {AP!NoPacket}, A!HandleInPacket(pkt)
          PROVE  AP!IInv'
      BY <2>1, AHandles, AAssumptions, AP!HandledOK DEF Types2
    <2>2. A!NoPacket = AP!NoPacket
      BY DEF A!NoPacket, AP!NoPacket
    <2>3. CASE A!LinkError
      BY <2>3, ACalls, AAssumptions, AP!LinkErrorOK DEF Types2
    <2> QED BY <2>1, <2>2, <2>3, WireTypes DEF AEngine
  <1>2. link' \in {"up", "down"}
    BY <1>1 DEF AP!IInv, AP!WireOK
  <1>3. ba' \in Seq(B!Packets)
    BY WireTypes, SMTT(30) DEF AEngine
  <1> QED BY <1>1, <1>2, <1>3, BRests DEF AEngine, Types2

LEMMA BEngineTypes == ASSUME Types2, BEngine PROVE Types2'
  <1>1. BP!IInv'
    <2>1. ASSUME NEW pkt \in B!Packets \cup {BP!NoPacket}, B!HandleInPacket(pkt)
          PROVE  BP!IInv'
      BY <2>1, BHandles, BAssumptions, BP!HandledOK DEF Types2
    <2>2. B!NoPacket = BP!NoPacket
      BY DEF B!NoPacket, BP!NoPacket
    <2>3. CASE B!LinkError
      BY <2>3, BCalls, BAssumptions, BP!LinkErrorOK DEF Types2
    <2> QED BY <2>1, <2>2, <2>3, WireTypes DEF BEngine
  <1>2. link' \in {"up", "down"}
    BY <1>1 DEF BP!IInv, BP!WireOK
  <1>3. ab' \in Seq(A!Packets)
    BY WireTypes, SMTT(30) DEF BEngine
  <1> QED BY <1>1, <1>2, <1>3, ARests DEF BEngine, Types2

LEMMA AAppTypes == ASSUME Types2, AApp PROVE Types2'
  <1>1. UNCHANGED <<bVars, ba>>
    BY DEF AApp, ACall, ACalled, APush, AKick, ARecv, AReset, AResetDone, AClear, ACleared
  <1>2. AP!IInv'
    <2>1. CASE A!Call \/ A!SendKick \/ A!PopCompleteData \/ A!Reset \/ A!Clear
      BY <2>1, ACalls, AAssumptions, AP!CallOK, AP!SendKickOK, AP!PopCompleteDataOK,
         AP!ResetOK, AP!ClearOK DEF Types2
    <2>2. ASSUME NEW m \in Messages, A!SendPush(m)
          PROVE  AP!IInv'
      BY <2>2, ACalls, AAssumptions, AP!SendPushOK DEF Types2
    <2>3. CASE A!Shutdown
      BY <2>3, ACalls, AAssumptions, AP!LinkDownOK DEF Types2, AP!Shutdown
    <2>4. CASE A!ResetPanics
      BY <2>4, ACalls, AAssumptions, AP!PanicStepOK DEF Types2, AP!ResetPanics, AP!PanicSites
    <2>5. CASE UNCHANGED <<aVars, link, ab>>
      BY <2>5, ARests, WireTypes DEF Types2
    <2> QED BY <2>1, <2>2, <2>3, <2>4, <2>5
            DEF AApp, ACall, ACalled, APush, AKick, ARecv, AReset, AResetDone, AClear, ACleared
  <1>3. link' \in {"up", "down"}
    BY <1>2 DEF AP!IInv, AP!WireOK
  <1> QED BY <1>1, <1>2, <1>3, BRests, WireTypes DEF Types2

LEMMA BAppTypes == ASSUME Types2, BApp PROVE Types2'
  <1>1. UNCHANGED <<aVars, ab>>
    BY DEF BApp, BListen, BAnswer, BPush, BKick, BRecv, BReset, BResetDone, BClear, BCleared
  <1>2. BP!IInv'
    <2>1. CASE \/ B!Accept \/ B!Reject \/ B!SendKick \/ B!PopCompleteData
               \/ B!Reset \/ B!Clear
      BY <2>1, BCalls, BAssumptions, BP!AcceptOK, BP!RejectOK, BP!SendKickOK,
         BP!PopCompleteDataOK, BP!ResetOK, BP!ClearOK DEF Types2
    <2>2. ASSUME NEW m \in Messages, B!SendPush(m)
          PROVE  BP!IInv'
      BY <2>2, BCalls, BAssumptions, BP!SendPushOK DEF Types2
    <2>3. CASE B!Shutdown
      BY <2>3, BCalls, BAssumptions, BP!LinkDownOK DEF Types2, BP!Shutdown
    <2>4. CASE B!ResetPanics \/ B!ListenPanics
      BY <2>4, BCalls, BAssumptions, BP!PanicStepOK
         DEF Types2, BP!ResetPanics, BP!ListenPanics, BP!PanicSites
    <2>5. CASE UNCHANGED <<bVars, link, ba>>
      BY <2>5, BRests, WireTypes DEF Types2
    <2> QED BY <2>1, <2>2, <2>3, <2>4, <2>5
            DEF BApp, BListen, BAnswer, BPush, BKick, BRecv, BReset, BResetDone, BClear, BCleared
  <1>3. link' \in {"up", "down"}
    BY <1>2 DEF BP!IInv, BP!WireOK
  <1> QED BY <1>1, <1>2, <1>3, ARests, WireTypes DEF Types2

LEMMA WorldTypes == ASSUME Types2, World PROVE Types2'
  <1>1. CASE A!Elapse /\ UNCHANGED <<bVars, ba>>
    <2>1. AP!IInv'
      BY <1>1, ACalls, AAssumptions, AP!ElapseOK DEF Types2
    <2>2. link' \in {"up", "down"}
      BY <2>1 DEF AP!IInv, AP!WireOK
    <2> QED BY <1>1, <2>1, <2>2, BRests, WireTypes DEF Types2
  <1>2. CASE B!Elapse /\ UNCHANGED <<aVars, ab>>
    <2>1. BP!IInv'
      BY <1>2, BCalls, BAssumptions, BP!ElapseOK DEF Types2
    <2>2. link' \in {"up", "down"}
      BY <2>1 DEF BP!IInv, BP!WireOK
    <2> QED BY <1>2, <2>1, <2>2, ARests, WireTypes DEF Types2
  <1>3. CASE A!LinkBreaks /\ UNCHANGED <<bVars, ba>>
    <2>1. AP!IInv'
      BY <1>3, ACalls, AAssumptions, AP!LinkDownOK DEF Types2, AP!LinkBreaks
    <2>2. link' \in {"up", "down"}
      BY <2>1 DEF AP!IInv, AP!WireOK
    <2> QED BY <1>3, <2>1, <2>2, BRests, WireTypes DEF Types2
  <1> QED BY <1>1, <1>2, <1>3 DEF World

LEMMA InitTypes == Init => Types2
  <1>1. A!VcInit <=> AP!VcInit
    BY DEF A!VcInit, AP!VcInit, A!NoInitiator, AP!NoInitiator, A!NoTransfer, AP!NoTransfer,
           A!NewWindow, AP!NewWindow
  <1>2. B!VcInit <=> BP!VcInit
    BY DEF B!VcInit, BP!VcInit, B!NoInitiator, BP!NoInitiator, B!NoTransfer, BP!NoTransfer,
           B!NewWindow, BP!NewWindow
  <1> QED BY <1>1, <1>2, AAssumptions, BAssumptions, AP!InitIInv, BP!InitIInv
             DEF Init, Types2

LEMMA NextTypes == Types2 /\ [Next]_vars => Types2'
  <1> SUFFICES ASSUME Types2, [Next]_vars PROVE Types2'
    OBVIOUS
  <1>1. CASE UNCHANGED vars
    BY <1>1, ARests, BRests, WireTypes DEF vars, Types2
  <1> QED BY <1>1, AEngineTypes, BEngineTypes, AAppTypes, BAppTypes, WorldTypes DEF Next

LEMMA TypesAlways == Spec => []Types2
  BY InitTypes, NextTypes, PTL DEF Spec

-----------------------------------------------------------------------------
(* Negotiation.  A call request offers both facilities; what the called    *)
(* party made of it is what its call accept says, and it does not negotiate*)
(* again; the caller takes what the call accept says, the other way round. *)

Suits(p) == p.send_window_size < p.modulo /\ p.recv_window_size < p.modulo

FromCaller ==
    {pkt \in A!Packets :
        /\ pkt.type # "CallAccept"
        /\ pkt.type = "CallRequest" => pkt.packet_size # <<>> /\ pkt.window_size # <<>>}

FromCalled(p) ==
    {pkt \in B!Packets :
        /\ pkt.type # "CallRequest"
        /\ pkt.type = "CallAccept" => Suits(p) /\ pkt = B!CreateCallAccept(p)}

Unanswered == {"Ready", "WaitCallAccept", "WaitClearConfirm", "Cleared", "OutOfOrder"}

Mirrored == aParams = [modulo           |-> bParams.modulo,
                       send_packet_size |-> bParams.recv_packet_size,
                       recv_packet_size |-> bParams.send_packet_size,
                       send_window_size |-> bParams.recv_window_size,
                       recv_window_size |-> bParams.send_window_size]

Agreed ==
    /\ ab \in Seq(FromCaller)
    /\ ba \in Seq(FromCalled(bParams))
    /\ bState \notin {"Ready", "OutOfOrder"} => Suits(bParams)
    /\ bState \in {"Ready", "Called"} => ba = <<>> /\ aState \in Unanswered
    /\ aState # "Called" /\ bState # "WaitCallAccept"
    /\ A!IsConnected => Mirrored

LEMMA AgreedImplies == Agreed => ParamsAgree
  BY DEF Agreed, Mirrored, ParamsAgree

(* What is not a call packet may be on either wire. *)
LEMMA CallerWrites ==
    ASSUME Types2, ab \in Seq(FromCaller), AP!WroteInCall
    PROVE  ab' \in Seq(FromCaller)
  <1>1. PICK q \in Seq(AP!Packets) :
             ab' = ab \o q /\ \A i \in 1 .. Len(q) : q[i].type \notin AP!CallKinds
    BY DEF AP!WroteInCall, AP!FitsCall
  <1>2. \A i \in 1 .. Len(q) : q[i] \in FromCaller
    BY <1>1, ASets DEF FromCaller, AP!CallKinds
  <1>3. q \in Seq(FromCaller)
    BY <1>1, <1>2
  <1> QED BY <1>1, <1>3

LEMMA CalledWrites ==
    ASSUME Types2, NEW p, ba \in Seq(FromCalled(p)), BP!WroteInCall
    PROVE  ba' \in Seq(FromCalled(p))
  <1>1. PICK q \in Seq(BP!Packets) :
             ba' = ba \o q /\ \A i \in 1 .. Len(q) : q[i].type \notin BP!CallKinds
    BY DEF BP!WroteInCall, BP!FitsCall
  <1>2. \A i \in 1 .. Len(q) : q[i] \in FromCalled(p)
    BY <1>1, BSets DEF FromCalled, BP!CallKinds
  <1>3. q \in Seq(FromCalled(p))
    BY <1>1, <1>2
  <1> QED BY <1>1, <1>3

(* The called party's window after it took a call request. *)
LEMMA RequestSuits ==
    ASSUME NEW pkt \in FromCaller, pkt.type = "CallRequest", NEW p \in B!Params
    PROVE  Suits(BP!NegotiateCalledParams(pkt, p))
  <1>1. pkt \in BP!CallPackets
    BY ASets, BSets, SameParams DEF FromCaller, BP!Packets, BP!CallPackets, BP!DataPacketSet,
       BP!ReceiveReadySet, BP!PlainPackets
  <1>2. pkt.packet_size # BP!Absent /\ pkt.window_size # BP!Absent
    BY DEF FromCaller, BP!Absent
  <1>3. /\ pkt.modulo \in BP!Modulos
        /\ pkt.window_size[1] \in BP!FacilityWindows /\ pkt.window_size[2] \in BP!FacilityWindows
    BY <1>1, <1>2, BAssumptions, BP!FacilityType
  <1>4. /\ BP!ClampWindowSize(pkt.window_size[1], pkt.modulo) < pkt.modulo
        /\ BP!ClampWindowSize(pkt.window_size[2], pkt.modulo) < pkt.modulo
    BY <1>3, BAssumptions, BP!ClampType
  <1> QED BY <1>2, <1>4 DEF BP!NegotiateCalledParams, Suits

(* The caller makes of a call accept the mirror image of what it was made  *)
(* from.                                                                   *)
LEMMA AcceptMirrors ==
    ASSUME NEW p \in B!Params, NEW q, Suits(p)
    PROVE  AP!NegotiateCallingParams(B!CreateCallAccept(p), q) =
              [modulo           |-> p.modulo,
               send_packet_size |-> p.recv_packet_size,
               recv_packet_size |-> p.send_packet_size,
               send_window_size |-> p.recv_window_size,
               recv_window_size |-> p.send_window_size]
  <1>1. /\ p.send_window_size \in Nat /\ p.recv_window_size \in Nat /\ p.modulo \in Nat
    BY CircuitAssumption DEF B!Params, B!FacilityWindows, B!Modulos
  <1>2. /\ AP!ClampWindowSize(p.send_window_size, p.modulo) = p.send_window_size
        /\ AP!ClampWindowSize(p.recv_window_size, p.modulo) = p.recv_window_size
    BY <1>1 DEF AP!ClampWindowSize, Suits
  <1> DEFINE pkt == B!CreateCallAccept(p)
  <1>3. /\ pkt.modulo = p.modulo
        /\ pkt.packet_size = <<p.send_packet_size, p.recv_packet_size>>
        /\ pkt.window_size = <<p.send_window_size, p.recv_window_size>>
    BY DEF B!CreateCallAccept
  <1>4. pkt.packet_size # AP!Absent /\ pkt.window_size # AP!Absent
    BY <1>3 DEF AP!Absent
  <1> HIDE DEF pkt
  <1>5. AP!NegotiateCallingParams(pkt, q) =
              [modulo           |-> p.modulo,
               send_packet_size |-> p.recv_packet_size,
               recv_packet_size |-> p.send_packet_size,
               send_window_size |-> p.recv_window_size,
               recv_window_size |-> p.send_window_size]
    BY <1>2, <1>3, <1>4 DEF AP!NegotiateCallingParams
  <1> QED BY <1>5 DEF pkt

LEMMA AStepAgreed ==
    ASSUME Types2, Agreed, AP!Kept \/ AP!Went, UNCHANGED bVars,
           UNCHANGED ba \/ (ba # <<>> /\ ba' = Tail(ba))
    PROVE  Agreed'
  <1>1. ab' \in Seq(FromCaller)
    BY CallerWrites DEF Agreed, AP!Kept, AP!Went
  <1>2. ba' \in Seq(FromCalled(bParams')) /\ (ba = <<>> => ba' = <<>>)
    BY DEF Agreed, bVars
  <1>3. A!IsConnected' => A!IsConnected /\ UNCHANGED aParams
    BY DEF Agreed, AP!Kept, AP!Went, AP!Over, AP!Connected, A!IsConnected
  <1>4. aState' # "Called" /\ (aState \in Unanswered => aState' \in Unanswered)
    BY DEF Agreed, AP!Kept, AP!Went, AP!Over, AP!Connected, Unanswered
  <1> QED BY <1>1, <1>2, <1>3, <1>4 DEF Agreed, Mirrored, bVars

LEMMA BStepAgreed ==
    ASSUME Types2, Agreed, BP!Kept \/ BP!Went, UNCHANGED aVars,
           UNCHANGED ab \/ (ab # <<>> /\ ab' = Tail(ab))
    PROVE  Agreed'
  <1>1. UNCHANGED bParams
    BY DEF BP!Kept, BP!Went
  <1>2. ba' \in Seq(FromCalled(bParams'))
    BY <1>1, CalledWrites DEF Agreed, BP!Kept, BP!Went
  <1>3. ab' \in Seq(FromCaller)
    BY DEF Agreed
  <1>4. bState' \notin {"Ready", "OutOfOrder"} => Suits(bParams)
    BY DEF Agreed, BP!Kept, BP!Went, BP!Over, BP!Connected
  <1>5. bState' \in {"Ready", "Called"} => ba' = <<>> /\ aState \in Unanswered
    BY DEF Agreed, BP!Kept, BP!Went, BP!Over, BP!Connected
  <1>6. bState' # "WaitCallAccept"
    BY DEF Agreed, BP!Kept, BP!Went, BP!Over, BP!Connected
  <1> QED BY <1>1, <1>2, <1>3, <1>4, <1>5, <1>6 DEF Agreed, Mirrored, A!IsConnected, aVars

LEMMA AEngineAgreed == ASSUME Types2, Agreed, AEngine PROVE Agreed'
  <1>1. UNCHANGED bVars
    BY DEF AEngine
  <1>2. A!NoPacket = AP!NoPacket /\ AP!NoPacket.type = "None"
    BY DEF A!NoPacket, AP!NoPacket
  <1>3. ASSUME NEW pkt \in A!Packets \cup {AP!NoPacket}, A!HandleInPacket(pkt)
        PROVE  AP!TookRequest(pkt) \/ AP!TookAccept(pkt) \/ AP!Kept \/ AP!Went
    BY <1>3, AHandles, AAssumptions, AP!StateAfterHandled DEF Types2
  <1>4. CASE ba # <<>> /\ A!HandleInPacket(Head(ba)) /\ ba' = Tail(ba)
    <2>1. /\ Head(ba) \in FromCalled(bParams) /\ Head(ba) \in A!Packets
          /\ ba' \in Seq(FromCalled(bParams))
      BY <1>4, WireTypes DEF Agreed
    <2>2. ~AP!TookRequest(Head(ba))
      BY <2>1 DEF FromCalled, AP!TookRequest
    <2>3. CASE AP!TookAccept(Head(ba))
      <3>1. Suits(bParams) /\ Head(ba) = B!CreateCallAccept(bParams) /\ bParams \in B!Params
        BY <2>1, <2>3, BSets DEF FromCalled, AP!TookAccept, Types2, BP!IInv, BP!ParamsOK
      <3>2. Mirrored'
        BY <1>1, <2>3, <3>1, AcceptMirrors DEF AP!TookAccept, Mirrored, bVars
      <3> QED BY <1>1, <1>4, <2>1, <2>3, <3>2 DEF Agreed, AP!TookAccept, bVars
    <2> QED BY <1>1, <1>3, <1>4, <2>1, <2>2, <2>3, AStepAgreed
  <1>5. CASE A!HandleInPacket(A!NoPacket) /\ UNCHANGED ba
    BY <1>1, <1>2, <1>3, <1>5, AStepAgreed DEF AP!TookRequest, AP!TookAccept
  <1>6. CASE A!LinkError /\ UNCHANGED ba
    <2>1. aState' = "OutOfOrder" /\ UNCHANGED <<aParams, ab>>
      BY <1>6 DEF A!LinkError, A!OutOfOrder, A!ChangeState, A!wire
    <2> QED BY <1>1, <1>6, <2>1 DEF Agreed, Unanswered, A!IsConnected, bVars
  <1> QED BY <1>4, <1>5, <1>6 DEF AEngine

LEMMA BEngineAgreed == ASSUME Types2, Agreed, BEngine PROVE Agreed'
  <1>1. UNCHANGED aVars
    BY DEF BEngine
  <1>2. B!NoPacket = BP!NoPacket /\ BP!NoPacket.type = "None"
    BY DEF B!NoPacket, BP!NoPacket
  <1>3. ASSUME NEW pkt \in B!Packets \cup {BP!NoPacket}, B!HandleInPacket(pkt)
        PROVE  BP!TookRequest(pkt) \/ BP!TookAccept(pkt) \/ BP!Kept \/ BP!Went
    BY <1>3, BHandles, BAssumptions, BP!StateAfterHandled DEF Types2
  <1>4. CASE ab # <<>> /\ B!HandleInPacket(Head(ab)) /\ ab' = Tail(ab)
    <2>1. Head(ab) \in FromCaller /\ Head(ab) \in B!Packets /\ ab' \in Seq(FromCaller)
      BY <1>4, WireTypes DEF Agreed
    <2>2. ~BP!TookAccept(Head(ab))
      BY <2>1 DEF FromCaller, BP!TookAccept
    <2>3. CASE BP!TookRequest(Head(ab))
      <3>1. bParams \in B!Params
        BY BSets DEF Types2, BP!IInv, BP!ParamsOK
      <3>2. Suits(bParams')
        BY <2>1, <2>3, <3>1, RequestSuits DEF BP!TookRequest
      <3>3. ba' = <<>> /\ ba' \in Seq(FromCalled(bParams')) /\ aState \in Unanswered
            /\ ~A!IsConnected
        BY <2>3 DEF Agreed, BP!TookRequest, Unanswered, A!IsConnected
      <3> QED BY <1>1, <2>1, <2>3, <3>2, <3>3 DEF Agreed, BP!TookRequest, A!IsConnected, aVars
    <2> QED BY <1>1, <1>3, <1>4, <2>1, <2>2, <2>3, BStepAgreed
  <1>5. CASE B!HandleInPacket(B!NoPacket) /\ UNCHANGED ab
    BY <1>1, <1>2, <1>3, <1>5, BStepAgreed DEF BP!TookRequest, BP!TookAccept
  <1>6. CASE B!LinkError /\ UNCHANGED ab
    <2>1. bState' = "OutOfOrder" /\ UNCHANGED <<bParams, ba>>
      BY <1>6 DEF B!LinkError, B!OutOfOrder, B!ChangeState, B!wire
    <2> QED BY <1>1, <1>6, <2>1 DEF Agreed, Mirrored, A!IsConnected, aVars
  <1> QED BY <1>4, <1>5, <1>6 DEF BEngine

LEMMA AAppAgreed == ASSUME Types2, Agreed, AApp PROVE Agreed'
  <1>1. UNCHANGED <<bVars, ba>>
    BY DEF AApp, ACall, ACalled, APush, AKick, ARecv, AReset, AResetDone, AClear, ACleared
  <1>2. CASE A!Call
    <2>1. CASE AP!Kept
      BY <1>1, <2>1, AStepAgreed
    <2>2. CASE /\ aState = "Ready" /\ aState' \in {"WaitCallAccept", "OutOfOrder"}
               /\ UNCHANGED aParams
               /\ UNCHANGED ab \/ ab' = Append(ab, AP!CreateCallRequest(aParams))
      <3>1. AP!CreateCallRequest(aParams) \in AP!Packets
        BY AAssumptions, AP!CallPacketType DEF Types2, AP!IInv, AP!ParamsOK
      <3>2. AP!CreateCallRequest(aParams) \in FromCaller
        BY <3>1, ASets DEF FromCaller, AP!CreateCallRequest
      <3>3. ab' \in Seq(FromCaller)
        BY <2>2, <3>2 DEF Agreed
      <3> QED BY <1>1, <2>2, <3>3 DEF Agreed, Unanswered, A!IsConnected, bVars
    <2> QED BY <1>2, <2>1, <2>2, ACalls, AAssumptions, AP!CallMoves DEF Types2
  <1>3. CASE A!SendKick \/ A!Reset \/ A!Clear
    BY <1>1, <1>3, ACalls, AAssumptions, AStepAgreed, AP!KickedMoves, AP!ResetMoves,
       AP!ClearMoves DEF Types2
  <1>4. CASE UNCHANGED <<aState, aParams, ab>>
    BY <1>1, <1>4, AStepAgreed DEF AP!Kept
  <1>5. ASSUME \/ \E m : A!SendPush(m)
               \/ A!PopCompleteData \/ A!ResetPanics \/ A!Shutdown \/ UNCHANGED <<aVars, ab>>
        PROVE  UNCHANGED <<aState, aParams, ab>>
    BY <1>5 DEF A!SendPush, A!PopCompleteData, A!ResetPanics, A!Panic, A!Shutdown,
                A!circuit, A!wire, aVars
  <1> QED BY <1>2, <1>3, <1>4, <1>5
          DEF AApp, ACall, ACalled, APush, AKick, ARecv, AReset, AResetDone, AClear, ACleared

LEMMA BAppAgreed == ASSUME Types2, Agreed, BApp PROVE Agreed'
  <1>1. UNCHANGED <<aVars, ab>>
    BY DEF BApp, BListen, BAnswer, BPush, BKick, BRecv, BReset, BResetDone, BClear, BCleared
  <1>2. CASE B!Accept
    <2>1. B!Accept => bState = "Called"
      BY DEF B!Accept
    <2>2. Suits(bParams)
      BY <1>2, <2>1 DEF Agreed
    <2>3. /\ bState' \in {"DataTransfer", "OutOfOrder"} /\ UNCHANGED bParams
          /\ UNCHANGED ba \/ ba' = Append(ba, BP!CreateCallAccept(bParams))
      BY <1>2, <2>2, BCalls, BAssumptions, BP!AcceptMoves DEF Types2, Suits
    <2>4. BP!CreateCallAccept(bParams) \in BP!Packets
      BY BAssumptions, BP!CallPacketType DEF Types2, BP!IInv, BP!ParamsOK
    <2>5. BP!CreateCallAccept(bParams) \in FromCalled(bParams)
      BY <2>2, <2>4, BSets DEF FromCalled, BP!CreateCallAccept, B!CreateCallAccept
    <2>6. ba' \in Seq(FromCalled(bParams'))
      BY <2>3, <2>5 DEF Agreed
    <2> QED BY <1>1, <1>2, <2>2, <2>3, <2>6 DEF Agreed, Mirrored, A!IsConnected, aVars
  <1>3. CASE B!Reject
    <2>1. bState = "Called" /\ UNCHANGED bParams /\ bState' \in BP!Over /\ BP!WroteInCall
      BY <1>3, BCalls, BAssumptions, BP!RejectMoves DEF Types2
    <2>2. ba' \in Seq(FromCalled(bParams'))
      BY <2>1, CalledWrites DEF Agreed
    <2> QED BY <1>1, <2>1, <2>2 DEF Agreed, Mirrored, BP!Over, A!IsConnected, aVars
  <1>4. CASE B!SendKick \/ B!Reset \/ B!Clear
    BY <1>1, <1>4, BCalls, BAssumptions, BStepAgreed, BP!KickedMoves, BP!ResetMoves,
       BP!ClearMoves DEF Types2
  <1>5. CASE UNCHANGED <<bState, bParams, ba>>
    BY <1>1, <1>5, BStepAgreed DEF BP!Kept
  <1>6. ASSUME \/ \E m : B!SendPush(m)
               \/ B!PopCompleteData \/ B!ResetPanics \/ B!ListenPanics \/ B!Shutdown
               \/ UNCHANGED <<bVars, ba>>
        PROVE  UNCHANGED <<bState, bParams, ba>>
    BY <1>6 DEF B!SendPush, B!PopCompleteData, B!ResetPanics, B!ListenPanics, B!Panic,
                B!Shutdown, B!circuit, B!wire, bVars
  <1> QED BY <1>2, <1>3, <1>4, <1>5, <1>6
          DEF BApp, BListen, BAnswer, BPush, BKick, BRecv, BReset, BResetDone, BClear, BCleared

LEMMA WorldAgreed == ASSUME Types2, Agreed, World PROVE Agreed'
  <1>1. UNCHANGED <<aState, aParams, ab, bState, bParams, ba>>
    BY DEF World, A!Elapse, B!Elapse, A!LinkBreaks, A!circuit, A!wire, B!wire, aVars, bVars
  <1> QED BY <1>1 DEF Agreed, Mirrored, A!IsConnected

LEMMA InitAgreed == Init => Agreed
  BY DEF Init, A!VcInit, B!VcInit, Agreed, Unanswered, A!IsConnected

LEMMA NextAgreed == Types2 /\ Agreed /\ [Next]_vars => Agreed'
  <1> SUFFICES ASSUME Types2, Agreed, [Next]_vars PROVE Agreed'
    OBVIOUS
  <1>1. CASE UNCHANGED vars
    BY <1>1 DEF vars, aVars, bVars, Agreed, Mirrored, A!IsConnected
  <1> QED BY <1>1, AEngineAgreed, BEngineAgreed, AAppAgreed, BAppAgreed, WorldAgreed DEF Next

LEMMA AgreedAlways == Spec => []Agreed
  BY InitAgreed, NextAgreed, TypesAlways, PTL DEF Spec

-----------------------------------------------------------------------------
(* The two ends' numbers, as long as nobody resets.                        *)

M == bParams.modulo

AOn == aState \in {"WaitCallAccept", "DataTransfer"}
BOn == bState = "DataTransfer"

Calm ==
    /\ aState # "WaitResetConfirm" /\ bState # "WaitResetConfirm"
    /\ NoReset(ab) /\ NoReset(ba)

(* The first the caller hears is the answer to its call, and the called    *)
(* party hears no data before it answered.                                 *)
Begun ==
    /\ aState = "Ready" =>
          /\ ab = <<>> /\ ba = <<>>
          /\ bState # "Ready" => bState = "OutOfOrder" /\ link = "down"
    /\ aState = "WaitCallAccept" =>
          /\ aDts = A!NoTransfer
          /\ \A i \in 1 .. Len(ab) : ab[i].type = "CallRequest"
          /\ ba # <<>> => Head(ba).type \in {"CallAccept", "ClearRequest"}
          /\ ba = <<>> /\ link = "up" => bState \in {"Ready", "Called"}
    /\ bState \in {"Ready", "Called"} => \A i \in 1 .. Len(ab) : ~Numbered(ab[i])

InStep ==
    /\ aState = "DataTransfer" => OpenAs(aDts, aParams.send_window_size, M)
    /\ BOn => OpenAs(bDts, bParams.send_window_size, M)
    /\ AOn => Sees(aDts, ba, M)
    /\ BOn => Sees(bDts, ab, M)
    /\ AOn /\ BOn /\ link = "up" => Pair(aDts, ba, bDts, ab, M)

Room ==
    /\ AOn => DataIn(ba, Len(ba)) <= bParams.send_window_size
    /\ BOn => DataIn(ab, Len(ab)) <= bParams.recv_window_size

Orderly == Calm /\ Begun /\ InStep /\ Room

LEMMA ModuloIs == ASSUME Types2 PROVE M \in Nat /\ M > 1
  BY BAssumptions, BP!ModuloType DEF Types2, BP!IInv, BP!ParamsOK, BP!Params, M

LEMMA SizesAre ==
    ASSUME Types2 PROVE bParams.send_window_size \in Nat /\ bParams.recv_window_size \in Nat
  BY CircuitAssumption DEF Types2, BP!IInv, BP!ParamsOK, BP!Params, BP!FacilityWindows

-----------------------------------------------------------------------------
(* The caller's steps. *)

LEMMA ASeqs ==
    /\ \A w, q : AP!StartAccepted(w, q) <=> StartAccepted(w, q)
    /\ \A w, q : AP!UpdateStart(w, q) = UpdateStart(w, q)
    /\ \A s, m : AP!NextSeq(s, m) = NextSeq(s, m)
    /\ \A w : AP!Outstanding(w) = Outstanding(w)
    /\ \A p : AP!Numbered(p) <=> Numbered(p)
  BY DEF AP!StartAccepted, StartAccepted, AP!UpdateStart, UpdateStart, AP!NextSeq, NextSeq,
         AP!Outstanding, Outstanding, AP!Dist, Dist, AP!IsSeqInRange, IsSeqInRange,
         AP!Numbered, Numbered

LEMMA AWrites == ASSUME Types2, NEW q
    PROVE AP!Emitted(q) = IF link = "up" THEN ab \o q ELSE ab
  BY DEF AP!Emitted

LEMMA ATaken ==
    ASSUME Types2, NEW size, OpenAs(aDts, size, M), ba # <<>>, Sees(aDts, ba, M),
           Numbered(Head(ba))
    PROVE  /\ AP!InSequence(Head(ba))
           /\ After(aDts, Head(ba), AP!Taken(aDts, Head(ba)), M)
           /\ OpenAs(AP!Taken(aDts, Head(ba)), size, M)
  <1> DEFINE pkt == Head(ba)
             d2 == AP!Taken(aDts, pkt)
  <1>1. M \in Nat /\ M > 1 /\ ba \in Seq(A!Packets) /\ aDts \in AP!Transfers
    BY ModuloIs, WireTypes DEF Types2, AP!IInv, AP!CircuitOK
  <1>2. aDts.window \in Windows(M) /\ aDts.window.modulo = M /\ aDts.window.size = size
        /\ aDts.recv_seq \in SeqNos(M)
    BY DEF OpenAs, Windows
  <1>3. /\ StartAccepted(aDts.window, pkt.recv_seq) /\ pkt.recv_seq \in SeqNos(M)
        /\ pkt.type = "Data" => pkt.send_seq = aDts.recv_seq
    BY <1>1, <1>2, InSequenceIs
  <1> HIDE DEF pkt
  <1>4. AP!Acknowledged(aDts, pkt.recv_seq)
           = [aDts EXCEPT !.window = [aDts.window EXCEPT !.start = pkt.recv_seq]]
    BY <1>3, ASeqs DEF AP!Acknowledged, UpdateStart
  <1> DEFINE w == [aDts.window EXCEPT !.start = pkt.recv_seq]
  <1>5. w.modulo = M
    BY <1>2 DEF Windows
  <1> HIDE DEF w
  <1>6. AP!Acknowledged(aDts, pkt.recv_seq) = [window |-> w, recv_seq |-> aDts.recv_seq]
    BY <1>1, <1>4 DEF w, AP!Transfers
  <1>7. AP!Counted([window |-> w, recv_seq |-> aDts.recv_seq])
           = [window |-> w, recv_seq |-> NextSeq(aDts.recv_seq, M)]
    BY <1>5, ASeqs DEF AP!Counted
  <1>8. /\ d2.window = w
        /\ d2.recv_seq = IF pkt.type = "Data" THEN NextSeq(aDts.recv_seq, M) ELSE aDts.recv_seq
    BY <1>6, <1>7 DEF AP!Taken
  <1> HIDE DEF d2
  <1>9. Numbered(pkt)
    BY DEF pkt
  <1>10. /\ After(aDts, pkt, d2, M)
         /\ d2.window \in Windows(M) /\ d2.window.size = size /\ d2.recv_seq \in SeqNos(M)
    BY <1>1, <1>2, <1>3, <1>8, <1>9, TakenIs DEF w
  <1>11. AP!InSequence(pkt)
    BY <1>3, ASeqs DEF AP!InSequence
  <1> QED BY <1>10, <1>11 DEF OpenAs, pkt, d2

(* The caller writes from transfer state d, having taken what it took.     *)
LEMMA APushed ==
    ASSUME Types2, Agreed, Orderly, aState = "DataTransfer", UNCHANGED bVars,
           UNCHANGED ba \/ (ba # <<>> /\ ba' = Tail(ba)),
           NEW d \in AP!Transfers, OpenAs(d, aParams.send_window_size, M), Sees(d, ba', M),
           BOn /\ link = "up" => Pair(d, ba', bDts, ab, M),
           AP!Pushed(d)
    PROVE  Orderly'
  <1>1. PICK q \in Seq(AP!Packets), n \in Nat : AP!PushedRun(d, q, n)
    BY DEF AP!Pushed
  <1>2. /\ M \in Nat /\ M > 1 /\ M' = M /\ BOn' = BOn
        /\ q \in Seq(A!Packets) /\ ab \in Seq(A!Packets) /\ ba \in Seq(A!Packets)
        /\ ba' \in Seq(A!Packets)
    BY ModuloIs, WireTypes, ASets, SameParams, Zenon DEF M, bVars, BOn
  <1>3. /\ AP!Run(d, q, n) /\ Outstanding(d.window) + n <= d.window.size
        /\ UNCHANGED aParams
        /\ ab' = IF link = "up" THEN ab \o q ELSE ab
        /\ \/ UNCHANGED <<aState, link>> /\ aDts' = [d EXCEPT !.window = AP!Advance(d.window, n)]
           \/ aState' = "OutOfOrder" /\ link' = "down"
    BY <1>1, ASeqs, AWrites DEF AP!PushedRun
  <1> DEFINE d2 == [d EXCEPT !.window = AP!Advance(d.window, n)]
  <1>4. /\ OpenAs(d2, aParams.send_window_size, M) /\ Sees(d2, ba', M)
        /\ BOn /\ link = "up" =>
              /\ Sees(bDts, ab', M) /\ Pair(d2, ba', bDts, ab', M)
              /\ DataIn(ab', Len(ab')) <= aParams.send_window_size
    <2>1. d.window.modulo = M
      BY DEF OpenAs, Windows
    <2>2. /\ \A i \in 1 .. Len(q) : Numbered(q[i]) /\ q[i].recv_seq = d.recv_seq
          /\ \/ /\ n = Len(q)
                /\ \A i \in 1 .. Len(q) : /\ q[i].type = "Data"
                                          /\ q[i].send_seq = (d.window.current + (i - 1)) % M
             \/ n = 0 /\ Len(q) = 1 /\ q[1].type = "ReceiveReady"
      BY <1>3, <2>1, ASeqs DEF AP!Run
    <2>3. d2.window = [d.window EXCEPT !.current = (d.window.current + n) % M]
          /\ d2.recv_seq = d.recv_seq
      BY <2>1 DEF AP!Advance, AP!Transfers
    <2> HIDE DEF d2
    <2> DEFINE size == aParams.send_window_size
    <2>4. OpenAs(d, size, M)
      OBVIOUS
    <2> HIDE DEF size
    <2>5. /\ OpenAs(d2, size, M) /\ Sees(d2, ba', M)
          /\ \A e : \A ot \in Seq(A!Packets) : Pair(d, ba', e, ot, M) =>
                /\ Sees(e, ot \o q, M) /\ Pair(d2, ba', e, ot \o q, M)
                /\ DataIn(ot \o q, Len(ot \o q)) <= size
      BY <1>2, <1>3, <2>2, <2>3, <2>4, Sends
    <2>6. BOn /\ link = "up" => /\ Sees(bDts, ab \o q, M) /\ Pair(d2, ba', bDts, ab \o q, M)
                                /\ DataIn(ab \o q, Len(ab \o q)) <= size
      BY <1>2, <2>5
    <2> QED BY <1>3, <2>5, <2>6 DEF size
  <1> HIDE DEF d2
  <1>5. NoReset(ab') /\ NoReset(ba')
    <2>1. \A i \in 1 .. Len(q) : Numbered(q[i])
      BY <1>3, ASeqs DEF AP!Run
    <2>2. NoReset(ab \o q)
      BY <1>2, <2>1, NoResetJoin DEF Orderly, Calm
    <2> QED BY <1>2, <1>3, <2>2, NoResetTail DEF Orderly, Calm
  <1>6. bState \notin {"Ready", "Called"}
    BY DEF Agreed, Unanswered
  <1>7. Calm' /\ Begun'
    BY <1>3, <1>5, <1>6 DEF Orderly, Calm, Begun, bVars
  <1>8. BOn => Sees(bDts, ab', M) /\ DataIn(ab', Len(ab')) <= bParams.recv_window_size
    <2>1. CASE link = "up"
      BY <1>4, <2>1 DEF Agreed, Mirrored, A!IsConnected
    <2>2. CASE link # "up"
      BY <1>3, <2>2 DEF Orderly, InStep, Room
    <2> QED BY <2>1, <2>2
  <1>9. InStep'
    <2>1. CASE UNCHANGED <<aState, link>> /\ aDts' = d2
      BY <1>2, <1>3, <1>4, <1>8, <2>1 DEF Orderly, InStep, OpenAs, AOn, bVars
    <2>2. CASE aState' = "OutOfOrder" /\ link' = "down"
      BY <1>2, <1>8, <2>2 DEF Orderly, InStep, AOn, OpenAs, bVars
    <2> QED BY <1>3, <2>1, <2>2 DEF d2
  <1>10. DataIn(ba', Len(ba')) <= bParams.send_window_size
    BY <1>2, RoomLess, SizesAre DEF Orderly, Room, AOn
  <1> QED BY <1>2, <1>7, <1>8, <1>9, <1>10 DEF Orderly, Room, bVars

LEMMA AEnded ==
    ASSUME Types2, Agreed, Orderly, UNCHANGED bVars, aState' \in AP!Over,
           UNCHANGED link \/ link' = "down",
           UNCHANGED ba \/ (ba # <<>> /\ ba' = Tail(ba)),
           UNCHANGED ab \/ \E t \in {"ClearRequest", "ClearConfirm"} :
                                 ab' = AP!Emitted(<<[type |-> t]>>)
    PROVE  Orderly'
  <1>1. /\ M' = M /\ BOn' = BOn /\ ~AOn'
        /\ aState' \notin {"Ready", "WaitCallAccept", "WaitResetConfirm", "DataTransfer"}
    BY DEF M, bVars, BOn, AOn, AP!Over
  <1>2. ab \in Seq(A!Packets) /\ ba \in Seq(A!Packets)
    BY WireTypes
  <1>3. NoReset(ba')
    BY <1>2, NoResetTail DEF Orderly, Calm
  <1>4. CASE UNCHANGED ab
    BY <1>1, <1>3, <1>4 DEF Orderly, Calm, Begun, InStep, Room, OpenAs, bVars
  <1>5. ASSUME NEW p \in A!Packets, p.type \in {"ClearRequest", "ClearConfirm"},
               ab' = Append(ab, p)
        PROVE  Orderly'
    <2>1. ~Numbered(p) /\ p.type # "Data"
      BY <1>5 DEF Numbered
    <2>2. NoReset(ab')
      BY <1>2, <1>5, NoResetPlain DEF Orderly, Calm
    <2>3. \A i \in 1 .. Len(ab') : (i \in 1 .. Len(ab) /\ ab'[i] = ab[i]) \/ ab'[i] = p
      BY <1>2, <1>5, AppendIs
    <2>4. BOn => Sees(bDts, ab', M)
      BY <1>2, <1>5, <2>1, PlainView DEF Orderly, InStep, Sees
    <2>5. DataIn(ab', Len(ab')) = DataIn(ab, Len(ab))
      BY <1>2, <1>5, <2>1, PlainCounts
    <2>6. Calm' /\ Begun'
      BY <1>1, <1>3, <2>1, <2>2, <2>3 DEF Orderly, Calm, Begun, bVars
    <2>7. InStep' /\ Room'
      BY <1>1, <2>4, <2>5 DEF Orderly, InStep, Room, OpenAs, bVars
    <2> QED BY <2>6, <2>7 DEF Orderly
  <1>6. ASSUME NEW t \in {"ClearRequest", "ClearConfirm"}, ab' = AP!Emitted(<<[type |-> t]>>)
        PROVE  Orderly'
    <2> DEFINE p == [type |-> t]
    <2>1. p \in A!Packets /\ p.type = t
      BY DEF A!Packets, A!PlainPackets
    <2>2. ab' = IF link = "up" THEN ab \o <<p>> ELSE ab
      BY <1>6, AWrites, Zenon
    <2> HIDE DEF p
    <2>3. ab \o <<p>> = Append(ab, p)
      BY <1>2, <2>1
    <2> QED BY <1>4, <1>5, <2>1, <2>2, <2>3
  <1> QED BY <1>4, <1>6

(* What the caller reads without numbers changes nothing. *)
LEMMA ARested ==
    ASSUME Types2, Agreed, Orderly, UNCHANGED <<bVars, aState, aDts, aParams, ab>>,
           UNCHANGED link \/ link' = "down",
           \/ UNCHANGED ba
           \/ /\ ba # <<>> /\ ba' = Tail(ba) /\ aState # "WaitCallAccept"
              /\ aState = "DataTransfer" => ~Numbered(Head(ba))
    PROVE  Orderly'
  <1>1. M' = M /\ BOn' = BOn /\ AOn' = AOn /\ M \in Nat /\ M > 1
    BY ModuloIs DEF M, bVars, BOn, AOn
  <1>2. ab \in Seq(A!Packets) /\ ba \in Seq(A!Packets)
    BY WireTypes
  <1>3. CASE UNCHANGED ba
    BY <1>1, <1>3 DEF Orderly, Calm, Begun, InStep, Room, OpenAs, bVars
  <1>4. CASE /\ ba # <<>> /\ ba' = Tail(ba) /\ aState # "WaitCallAccept"
             /\ aState = "DataTransfer" => ~Numbered(Head(ba))
    <2>1. Calm' /\ Begun'
      BY <1>1, <1>2, <1>4, NoResetTail DEF Orderly, Calm, Begun, bVars
    <2>2. ASSUME AOn
          PROVE  After(aDts, Head(ba), aDts, M)
      BY <1>4, <2>2 DEF AOn, After, StartAfter, NextAfter, Numbered
    <2>3. AOn => Sees(aDts, ba', M)
      BY <1>1, <1>2, <1>4, <2>2, SeesTakes, Zenon DEF Orderly, InStep
    <2>4. AOn /\ BOn /\ link = "up" => Pair(aDts, ba', bDts, ab, M)
      BY <1>1, <1>2, <1>4, <2>2, PairTakes DEF Orderly, InStep
    <2>5. InStep'
      BY <1>1, <2>3, <2>4 DEF Orderly, InStep, OpenAs, bVars
    <2>6. Room'
      BY <1>1, <1>2, <1>4, RoomLess, SizesAre, Zenon DEF Orderly, Room, bVars
    <2> QED BY <2>1, <2>5, <2>6 DEF Orderly
  <1> QED BY <1>3, <1>4

LEMMA ATookAccept ==
    ASSUME Types2, Agreed, Orderly, UNCHANGED bVars, ba # <<>>, ba' = Tail(ba),
           AP!TookAccept(Head(ba)), AP!DataTransfer(aParams'), UNCHANGED link
    PROVE  Orderly'
  <1>1. M' = M /\ BOn' = BOn /\ M \in Nat /\ M > 1
    BY ModuloIs DEF M, bVars, BOn
  <1>2. ab \in Seq(A!Packets) /\ ba \in Seq(A!Packets)
    BY WireTypes
  <1>3. aState = "WaitCallAccept" /\ UNCHANGED ab /\ AOn /\ aDts = A!NoTransfer
    BY DEF AP!TookAccept, Orderly, Begun, AOn
  <1>4. /\ Suits(bParams) /\ Head(ba) = B!CreateCallAccept(bParams) /\ bParams \in B!Params
    BY BSets DEF Agreed, FromCalled, AP!TookAccept, Types2, BP!IInv, BP!ParamsOK
  <1>5. /\ aParams'.modulo = M /\ aParams'.send_window_size = bParams.recv_window_size
    BY <1>4, AcceptMirrors DEF AP!TookAccept, M
  <1>6. /\ bParams.recv_window_size \in Nat /\ bParams.recv_window_size > 0
        /\ bParams.recv_window_size < M /\ bParams.send_window_size \in Nat
    BY <1>4, CircuitAssumption DEF B!Params, B!FacilityWindows, Suits, M
  <1>7. /\ aState' = "DataTransfer"
        /\ aDts' = [window |-> AP!NewWindow(aParams'.send_window_size, aParams'.modulo),
                    recv_seq |-> 0]
    BY <1>5, <1>6 DEF AP!DataTransfer, AP!WindowSizeOK, AP!ChangeState
  <1>8. /\ aDts'.window = NewWindow(aParams'.send_window_size, M) /\ aDts'.recv_seq = 0
        /\ aDts'.window.start = 0 /\ aDts'.window.current = 0
        /\ aDts'.window.size = aParams'.send_window_size
    BY <1>5, <1>7 DEF AP!NewWindow, NewWindow
  <1>9. OpenAs(aDts', aParams'.send_window_size, M)
    BY <1>1, <1>5, <1>6, <1>8, NewWindowType DEF OpenAs, WindowSizeOK, SeqNos
  <1>10. aDts.window.start = 0 /\ aDts.window.current = 0 /\ aDts.recv_seq = 0
    BY <1>3 DEF A!NoTransfer, A!NewWindow
  <1>11. After(aDts, Head(ba), aDts', M)
    BY <1>8, <1>10 DEF After, StartAfter, NextAfter, Numbered, AP!TookAccept
  <1>12. Sees(aDts', ba', M)
    BY <1>1, <1>2, <1>3, <1>11, SeesTakes DEF Orderly, InStep
  <1>13. BOn /\ link = "up" => Pair(aDts', ba', bDts, ab, M)
    BY <1>1, <1>2, <1>3, <1>11, PairTakes DEF Orderly, InStep
  <1>14. InStep'
    BY <1>1, <1>3, <1>9, <1>12, <1>13 DEF Orderly, InStep, OpenAs, bVars
  <1>15. Room'
    BY <1>1, <1>2, <1>3, RoomLess, SizesAre DEF Orderly, Room, bVars
  <1>16. Calm' /\ Begun'
    BY <1>2, <1>3, <1>7, NoResetTail DEF Orderly, Calm, Begun, bVars
  <1> QED BY <1>14, <1>15, <1>16 DEF Orderly

LEMMA CallerCalls ==
    ASSUME Types2, Agreed, Orderly, UNCHANGED <<bVars, ba>>, A!Call
    PROVE  Orderly'
  <1>1. M' = M /\ BOn' = BOn /\ M \in Nat /\ M > 1
    BY ModuloIs DEF M, bVars, BOn
  <1>2. CASE AP!Unmoved
    BY <1>2, ARested DEF AP!Unmoved
  <1>3. CASE aState = "Ready" /\ aState' = "OutOfOrder" /\ link' = "down" /\ UNCHANGED ab
    BY <1>3, AEnded DEF AP!Over
  <1>4. CASE /\ aState = "Ready" /\ UNCHANGED aParams /\ aState' = "WaitCallAccept"
             /\ aDts' = AP!NoTransfer /\ UNCHANGED link
             /\ ab' = AP!Emitted(<<AP!CreateCallRequest(aParams)>>)
    <2>1. /\ ab = <<>> /\ ba = <<>> /\ ~BOn
          /\ bState # "Ready" => bState = "OutOfOrder" /\ link = "down"
      BY <1>4 DEF Orderly, Begun, BOn
    <2>2. ab' = <<>> \/ ab' = <<AP!CreateCallRequest(aParams)>>
      BY <1>4, <2>1, AWrites
    <2>3. \A i \in 1 .. Len(ab') : ab'[i].type = "CallRequest"
      BY <2>2 DEF AP!CreateCallRequest
    <2>4. Calm'
      BY <1>4, <2>1, <2>3 DEF Orderly, Calm, NoReset, bVars
    <2>5. AP!NoTransfer = A!NoTransfer
      BY DEF AP!NoTransfer, A!NoTransfer, AP!NewWindow, A!NewWindow
    <2>6. Begun'
      BY <1>4, <2>1, <2>3, <2>5 DEF Orderly, Begun, Numbered, bVars
    <2>7. Numbers(aDts', M)
      BY <1>1, <1>4 DEF Numbers, AP!NoTransfer, AP!NewWindow, SeqNos
    <2>8. Sees(aDts', ba', M) /\ DataIn(ba', Len(ba')) = 0
      BY <2>1, <2>7, CountNone DEF Sees, View
    <2>9. InStep' /\ Room'
      BY <1>1, <1>4, <2>1, <2>8, SizesAre DEF InStep, Room, OpenAs, bVars
    <2> QED BY <2>4, <2>6, <2>9 DEF Orderly
  <1> QED BY <1>2, <1>3, <1>4, ACalls, AAssumptions, AP!CallStarts DEF Types2

-----------------------------------------------------------------------------
(* The called party's steps. *)

LEMMA BSeqs ==
    /\ \A w, q : BP!StartAccepted(w, q) <=> StartAccepted(w, q)
    /\ \A w, q : BP!UpdateStart(w, q) = UpdateStart(w, q)
    /\ \A s, m : BP!NextSeq(s, m) = NextSeq(s, m)
    /\ \A w : BP!Outstanding(w) = Outstanding(w)
    /\ \A p : BP!Numbered(p) <=> Numbered(p)
  BY DEF BP!StartAccepted, StartAccepted, BP!UpdateStart, UpdateStart, BP!NextSeq, NextSeq,
         BP!Outstanding, Outstanding, BP!Dist, Dist, BP!IsSeqInRange, IsSeqInRange,
         BP!Numbered, Numbered

LEMMA BWrites == ASSUME Types2, NEW q
    PROVE BP!Emitted(q) = IF link = "up" THEN ba \o q ELSE ba
  BY DEF BP!Emitted

LEMMA BTaken ==
    ASSUME Types2, NEW size, OpenAs(bDts, size, M), ab # <<>>, Sees(bDts, ab, M),
           Numbered(Head(ab))
    PROVE  /\ BP!InSequence(Head(ab))
           /\ After(bDts, Head(ab), BP!Taken(bDts, Head(ab)), M)
           /\ OpenAs(BP!Taken(bDts, Head(ab)), size, M)
  <1> DEFINE pkt == Head(ab)
             d2 == BP!Taken(bDts, pkt)
  <1>1. M \in Nat /\ M > 1 /\ ab \in Seq(B!Packets) /\ bDts \in BP!Transfers
    BY ModuloIs, WireTypes DEF Types2, BP!IInv, BP!CircuitOK
  <1>2. bDts.window \in Windows(M) /\ bDts.window.modulo = M /\ bDts.window.size = size
        /\ bDts.recv_seq \in SeqNos(M)
    BY DEF OpenAs, Windows
  <1>3. /\ StartAccepted(bDts.window, pkt.recv_seq) /\ pkt.recv_seq \in SeqNos(M)
        /\ pkt.type = "Data" => pkt.send_seq = bDts.recv_seq
    BY <1>1, <1>2, InSequenceIs
  <1> HIDE DEF pkt
  <1>4. BP!Acknowledged(bDts, pkt.recv_seq)
           = [bDts EXCEPT !.window = [bDts.window EXCEPT !.start = pkt.recv_seq]]
    BY <1>3, BSeqs DEF BP!Acknowledged, UpdateStart
  <1> DEFINE w == [bDts.window EXCEPT !.start = pkt.recv_seq]
  <1>5. w.modulo = M
    BY <1>2 DEF Windows
  <1> HIDE DEF w
  <1>6. BP!Acknowledged(bDts, pkt.recv_seq) = [window |-> w, recv_seq |-> bDts.recv_seq]
    BY <1>1, <1>4 DEF w, BP!Transfers
  <1>7. BP!Counted([window |-> w, recv_seq |-> bDts.recv_seq])
           = [window |-> w, recv_seq |-> NextSeq(bDts.recv_seq, M)]
    BY <1>5, BSeqs DEF BP!Counted
  <1>8. /\ d2.window = w
        /\ d2.recv_seq = IF pkt.type = "Data" THEN NextSeq(bDts.recv_seq, M) ELSE bDts.recv_seq
    BY <1>6, <1>7 DEF BP!Taken
  <1> HIDE DEF d2
  <1>9. Numbered(pkt)
    BY DEF pkt
  <1>10. /\ After(bDts, pkt, d2, M)
         /\ d2.window \in Windows(M) /\ d2.window.size = size /\ d2.recv_seq \in SeqNos(M)
    BY <1>1, <1>2, <1>3, <1>8, <1>9, TakenIs DEF w
  <1>11. BP!InSequence(pkt)
    BY <1>3, BSeqs DEF BP!InSequence
  <1> QED BY <1>10, <1>11 DEF OpenAs, pkt, d2

(* The called party writes from transfer state d. *)
LEMMA BPushed ==
    ASSUME Types2, Agreed, Orderly, bState = "DataTransfer", UNCHANGED aVars,
           UNCHANGED ab \/ (ab # <<>> /\ ab' = Tail(ab)),
           NEW d \in BP!Transfers, OpenAs(d, bParams.send_window_size, M), Sees(d, ab', M),
           AOn /\ link = "up" => Pair(d, ab', aDts, ba, M),
           BP!Pushed(d)
    PROVE  Orderly'
  <1>1. PICK q \in Seq(BP!Packets), n \in Nat : BP!PushedRun(d, q, n)
    BY DEF BP!Pushed
  <1>2. /\ M \in Nat /\ M > 1 /\ UNCHANGED aState /\ AOn' = AOn
        /\ q \in Seq(B!Packets) /\ ba \in Seq(B!Packets) /\ ab \in Seq(B!Packets)
        /\ ab' \in Seq(B!Packets)
    BY ModuloIs, WireTypes, BSets, SameParams DEF aVars, AOn
  <1>3. /\ BP!Run(d, q, n) /\ Outstanding(d.window) + n <= d.window.size
        /\ UNCHANGED bParams /\ M' = M
        /\ ba' = IF link = "up" THEN ba \o q ELSE ba
        /\ \/ UNCHANGED <<bState, link>> /\ bDts' = [d EXCEPT !.window = BP!Advance(d.window, n)]
           \/ bState' = "OutOfOrder" /\ link' = "down"
    BY <1>1, BSeqs, BWrites DEF BP!PushedRun, M
  <1> DEFINE d2 == [d EXCEPT !.window = BP!Advance(d.window, n)]
  <1>4. /\ OpenAs(d2, bParams.send_window_size, M) /\ Sees(d2, ab', M)
        /\ AOn /\ link = "up" =>
              /\ Sees(aDts, ba', M) /\ Pair(d2, ab', aDts, ba', M)
              /\ DataIn(ba', Len(ba')) <= bParams.send_window_size
    <2>1. d.window.modulo = M
      BY DEF OpenAs, Windows
    <2>2. /\ \A i \in 1 .. Len(q) : Numbered(q[i]) /\ q[i].recv_seq = d.recv_seq
          /\ \/ /\ n = Len(q)
                /\ \A i \in 1 .. Len(q) : /\ q[i].type = "Data"
                                          /\ q[i].send_seq = (d.window.current + (i - 1)) % M
             \/ n = 0 /\ Len(q) = 1 /\ q[1].type = "ReceiveReady"
      BY <1>3, <2>1, BSeqs DEF BP!Run
    <2>3. d2.window = [d.window EXCEPT !.current = (d.window.current + n) % M]
          /\ d2.recv_seq = d.recv_seq
      BY <2>1 DEF BP!Advance, BP!Transfers
    <2> HIDE DEF d2
    <2> DEFINE size == bParams.send_window_size
    <2>4. OpenAs(d, size, M)
      OBVIOUS
    <2> HIDE DEF size
    <2>5. /\ OpenAs(d2, size, M) /\ Sees(d2, ab', M)
          /\ \A e : \A ot \in Seq(B!Packets) : Pair(d, ab', e, ot, M) =>
                /\ Sees(e, ot \o q, M) /\ Pair(d2, ab', e, ot \o q, M)
                /\ DataIn(ot \o q, Len(ot \o q)) <= size
      BY <1>2, <1>3, <2>2, <2>3, <2>4, Sends
    <2>6. AOn /\ link = "up" => /\ Sees(aDts, ba \o q, M) /\ Pair(d2, ab', aDts, ba \o q, M)
                                /\ DataIn(ba \o q, Len(ba \o q)) <= size
      BY <1>2, <2>5
    <2> QED BY <1>3, <2>5, <2>6 DEF size
  <1> HIDE DEF d2
  <1>5. NoReset(ba') /\ NoReset(ab')
    <2>1. \A i \in 1 .. Len(q) : Numbered(q[i])
      BY <1>3, BSeqs DEF BP!Run
    <2>2. NoReset(ba \o q)
      BY <1>2, <2>1, NoResetJoin DEF Orderly, Calm
    <2> QED BY <1>2, <1>3, <2>2, NoResetTail DEF Orderly, Calm
  <1>6. ab # <<>> => \A i \in 1 .. Len(Tail(ab)) : i + 1 \in 1 .. Len(ab) /\ Tail(ab)[i] = ab[i + 1]
    BY <1>2, TailIs
  <1>7. aState = "WaitCallAccept" /\ link = "up" =>
            ba # <<>> /\ ba \o q # <<>> /\ Head(ba \o q) = Head(ba)
    BY <1>2 DEF Orderly, Begun
  <1>8. Calm' /\ Begun'
    BY <1>3, <1>5, <1>6, <1>7 DEF Orderly, Calm, Begun, aVars
  <1>9. AOn => Sees(aDts, ba', M) /\ DataIn(ba', Len(ba')) <= bParams.send_window_size
    <2>1. CASE link = "up"
      BY <1>4, <2>1
    <2>2. CASE link # "up"
      BY <1>3, <2>2 DEF Orderly, InStep, Room
    <2> QED BY <2>1, <2>2
  <1>10. InStep'
    <2>1. CASE UNCHANGED <<bState, link>> /\ bDts' = d2
      BY <1>2, <1>3, <1>4, <1>9, <2>1, PairTurned DEF Orderly, InStep, OpenAs, BOn, aVars
    <2>2. CASE bState' = "OutOfOrder" /\ link' = "down"
      <3>1. ~BOn' /\ bState' # "DataTransfer"
        BY <2>2 DEF BOn
      <3>2. aState' = "DataTransfer" => OpenAs(aDts, aParams.send_window_size, M)'
        BY <1>3 DEF Orderly, InStep, OpenAs, aVars
      <3>3. AOn' => Sees(aDts, ba, M)'
        BY <1>2, <1>3, <1>9 DEF aVars
      <3> QED BY <3>1, <3>2, <3>3 DEF InStep
    <2> QED BY <1>3, <2>1, <2>2 DEF d2
  <1>11. DataIn(ab', Len(ab')) <= bParams.recv_window_size
    BY <1>2, RoomLess, SizesAre DEF Orderly, Room, BOn
  <1> QED BY <1>2, <1>3, <1>8, <1>9, <1>10, <1>11 DEF Orderly, Room, aVars

(* The called party ends: with a clear packet, as it takes one, or because *)
(* the connection broke.                                                   *)
LEMMA BEnded ==
    ASSUME Types2, Agreed, Orderly, UNCHANGED <<aVars, bParams>>,
           bState # "OutOfOrder", bState' \in BP!Over,
           UNCHANGED ab \/ (ab # <<>> /\ ab' = Tail(ab)),
           \/ UNCHANGED ba /\ link' = "down" /\ (bState = "Ready" => bState' = "OutOfOrder")
           \/ /\ UNCHANGED <<ba, link>> /\ bState # "Ready"
              /\ bState = "Called" => aState # "WaitCallAccept"
           \/ /\ bState # "Ready" /\ UNCHANGED link
              /\ \E t \in {"ClearRequest", "ClearConfirm"} :
                    /\ ba' = BP!Emitted(<<[type |-> t]>>)
                    /\ bState = "Called" => t = "ClearRequest"
    PROVE  Orderly'
  <1>1. /\ M' = M /\ AOn' = AOn /\ ~BOn'
        /\ bState' \notin {"Ready", "Called", "WaitResetConfirm", "DataTransfer"}
    BY DEF M, aVars, BOn, AOn, BP!Over
  <1>2. ab \in Seq(B!Packets) /\ ba \in Seq(B!Packets)
    BY WireTypes
  <1>3. NoReset(ab')
    BY <1>2, NoResetTail DEF Orderly, Calm
  <1>4. ab # <<>> => \A i \in 1 .. Len(Tail(ab)) : i + 1 \in 1 .. Len(ab) /\ Tail(ab)[i] = ab[i + 1]
    BY <1>2, TailIs
  <1> DEFINE Wrote == /\ link = "up" /\ UNCHANGED link /\ bState # "Ready"
                      /\ \E p \in B!Packets : /\ p.type \in {"ClearRequest", "ClearConfirm"}
                                              /\ bState = "Called" => p.type = "ClearRequest"
                                              /\ ba' = Append(ba, p)
         Silent == /\ UNCHANGED ba
                   /\ bState = "Ready" => bState' = "OutOfOrder" /\ link' = "down"
                   /\ link' = "up" => link = "up" /\ (bState = "Called" => aState # "WaitCallAccept")
  <1>5. Wrote \/ Silent
    <2>1. ASSUME NEW t \in {"ClearRequest", "ClearConfirm"}, ba' = BP!Emitted(<<[type |-> t]>>),
                 bState = "Called" => t = "ClearRequest", UNCHANGED link, bState # "Ready"
          PROVE  Wrote \/ Silent
      <3> DEFINE p == [type |-> t]
      <3>1. p \in B!Packets /\ p.type = t
        BY DEF B!Packets, B!PlainPackets
      <3>2. ba' = IF link = "up" THEN ba \o <<p>> ELSE ba
        BY <2>1, BWrites
      <3> HIDE DEF p
      <3>3. ba \o <<p>> = Append(ba, p)
        BY <1>2, <3>1
      <3> QED BY <2>1, <3>1, <3>2, <3>3
    <2> QED BY <2>1
  <1>6. CASE Silent
    <2>1. Calm' /\ InStep' /\ Room'
      BY <1>1, <1>3, <1>6 DEF Orderly, Calm, InStep, Room, OpenAs, AOn, aVars
    <2>2. aState = "Ready" => ab' = <<>> /\ ba' = <<>> /\ bState' = "OutOfOrder" /\ link' = "down"
      BY <1>6 DEF Orderly, Begun
    <2>3. aState = "WaitCallAccept" =>
              /\ \A i \in 1 .. Len(ab') : ab'[i].type = "CallRequest"
              /\ ~(ba' = <<>> /\ link' = "up")
      <3>1. aState = "WaitCallAccept" => \A i \in 1 .. Len(ab') : ab'[i].type = "CallRequest"
        BY <1>4, Zenon DEF Orderly, Begun
      <3>2. aState = "WaitCallAccept" => ~(ba' = <<>> /\ link' = "up")
        BY <1>6 DEF Orderly, Begun
      <3> QED BY <3>1, <3>2
    <2>4. Begun'
      BY <1>1, <1>6, <2>2, <2>3 DEF Orderly, Begun, aVars
    <2> QED BY <2>1, <2>4 DEF Orderly
  <1>7. ASSUME NEW p \in B!Packets, p.type \in {"ClearRequest", "ClearConfirm"},
               bState = "Called" => p.type = "ClearRequest", ba' = Append(ba, p),
               link = "up", UNCHANGED link, bState # "Ready"
        PROVE  Orderly'
    <2>1. ~Numbered(p) /\ p.type # "Data"
      BY <1>7 DEF Numbered
    <2>2. NoReset(ba')
      BY <1>2, <1>7, NoResetPlain DEF Orderly, Calm
    <2>3. ba' # <<>> /\ Head(ba') = IF ba = <<>> THEN p ELSE Head(ba)
      BY <1>2, <1>7
    <2>4. AOn => Sees(aDts, ba', M)
      BY <1>2, <1>7, <2>1, PlainView DEF Orderly, InStep, Sees
    <2>5. DataIn(ba', Len(ba')) = DataIn(ba, Len(ba))
      BY <1>2, <1>7, <2>1, PlainCounts
    <2>6. Calm' /\ Begun'
      <3>1. Calm'
        BY <1>1, <1>3, <2>2 DEF Orderly, Calm, aVars
      <3>2. aState # "Ready"
        BY <1>7 DEF Orderly, Begun
      <3>3. aState = "WaitCallAccept" => Head(ba').type \in {"CallAccept", "ClearRequest"}
        BY <1>7, <2>3 DEF Orderly, Begun
      <3>4. aState = "WaitCallAccept" => \A i \in 1 .. Len(ab') : ab'[i].type = "CallRequest"
        BY <1>4, Zenon DEF Orderly, Begun
      <3>5. Begun'
        BY <1>1, <2>3, <3>2, <3>3, <3>4 DEF Orderly, Begun, aVars
      <3> QED BY <3>1, <3>5
    <2>7. InStep' /\ Room'
      BY <1>1, <2>4, <2>5 DEF Orderly, InStep, Room, OpenAs, AOn, aVars
    <2> QED BY <2>6, <2>7 DEF Orderly
  <1> QED BY <1>5, <1>6, <1>7

(* What the called party reads without numbers changes nothing. *)
LEMMA BRested ==
    ASSUME Types2, Agreed, Orderly, UNCHANGED <<aVars, bState, bDts, bParams, ba>>,
           UNCHANGED link \/ link' = "down",
           \/ UNCHANGED ab
           \/ ab # <<>> /\ ab' = Tail(ab) /\ (BOn => ~Numbered(Head(ab)))
    PROVE  Orderly'
  <1>1. M' = M /\ AOn' = AOn /\ BOn' = BOn /\ M \in Nat /\ M > 1
    BY ModuloIs DEF M, aVars, BOn, AOn
  <1>2. ab \in Seq(B!Packets) /\ ba \in Seq(B!Packets)
    BY WireTypes
  <1>3. CASE UNCHANGED ab
    BY <1>1, <1>3 DEF Orderly, Calm, Begun, InStep, Room, OpenAs, aVars
  <1>4. CASE ab # <<>> /\ ab' = Tail(ab) /\ (BOn => ~Numbered(Head(ab)))
    <2>1. \A i \in 1 .. Len(ab') : i + 1 \in 1 .. Len(ab) /\ ab'[i] = ab[i + 1]
      BY <1>2, <1>4, TailIs
    <2>2. Calm' /\ Begun'
      BY <1>1, <1>2, <1>4, <2>1, NoResetTail DEF Orderly, Calm, Begun, aVars
    <2>3. ASSUME BOn
          PROVE  After(bDts, Head(ab), bDts, M)
      BY <1>4, <2>3 DEF After, StartAfter, NextAfter, Numbered
    <2>4. BOn => Sees(bDts, ab', M)
      BY <1>1, <1>2, <1>4, <2>3, SeesTakes DEF Orderly, InStep
    <2>5. AOn /\ BOn /\ link = "up" => Pair(aDts, ba, bDts, ab', M)
      BY <1>1, <1>2, <1>4, <2>3, PairTakes, PairTurned DEF Orderly, InStep
    <2>6. InStep'
      BY <1>1, <2>4, <2>5 DEF Orderly, InStep, OpenAs, aVars
    <2>7. Room'
      BY <1>1, <1>2, <1>4, RoomLess, SizesAre DEF Orderly, Room, aVars
    <2> QED BY <2>2, <2>6, <2>7 DEF Orderly
  <1> QED BY <1>3, <1>4

LEMMA BTookRequest ==
    ASSUME Types2, Types2', Agreed, Orderly, UNCHANGED <<aVars, link>>,
           ab # <<>>, ab' = Tail(ab), BP!TookRequest(Head(ab))
    PROVE  Orderly'
  <1>1. ba = <<>> /\ ba' = <<>> /\ aState # "DataTransfer" /\ bState' = "Called" /\ ~BOn'
    BY DEF Agreed, Unanswered, BP!TookRequest, BOn
  <1>2. M' \in Nat /\ M' > 1
    BY BAssumptions, BP!ModuloType DEF Types2, BP!IInv, BP!ParamsOK, BP!Params, M
  <1>3. ab \in Seq(B!Packets)
    BY WireTypes
  <1>4. \A i \in 1 .. Len(ab') : i + 1 \in 1 .. Len(ab) /\ ab'[i] = ab[i + 1]
    BY <1>3, TailIs
  <1>5. Calm' /\ Begun'
    BY <1>1, <1>3, <1>4, NoResetTail DEF Orderly, Calm, Begun, BP!TookRequest, aVars
  <1>6. DataIn(ba', Len(ba')) = 0
    BY <1>1, CountNone
  <1>7. bParams'.send_window_size \in Nat
    BY CircuitAssumption DEF Types2, BP!IInv, BP!ParamsOK, BP!Params, BP!FacilityWindows
  <1>8. Room'
    BY <1>1, <1>6, <1>7 DEF Room
  <1>9. ASSUME AOn'
        PROVE  Sees(aDts', ba', M')
    <2>1. aDts' = A!NoTransfer
      BY <1>1, <1>9 DEF AOn, Orderly, Begun, aVars
    <2>2. /\ aDts'.window.start = 0 /\ aDts'.window.current = 0 /\ aDts'.recv_seq = 0
          /\ 0 \in SeqNos(M')
      <3>1. 0 \in SeqNos(M')
        BY <1>2, ZeroIsSeqNo
      <3> QED BY <2>1, <3>1 DEF A!NoTransfer, A!NewWindow
    <2>3. Numbers(aDts', M')
      BY <2>2 DEF Numbers
    <2> QED BY <1>1, <2>3 DEF Sees, View
  <1>10. InStep'
    BY <1>1, <1>9 DEF InStep, aVars
  <1> QED BY <1>5, <1>8, <1>10 DEF Orderly

LEMMA BAccepts ==
    ASSUME Types2, Agreed, Orderly, UNCHANGED <<aVars, ab>>, B!Accept
    PROVE  Orderly'
  <1>1. /\ bState = "Called" /\ ba = <<>> /\ aState # "DataTransfer"
        /\ bParams.send_window_size < bParams.modulo
        /\ aState # "Ready" /\ ab \in Seq(B!Packets) /\ M \in Nat /\ M > 1
        /\ \A i \in 1 .. Len(ab) : ~Numbered(ab[i])
    BY WireTypes, ModuloIs DEF B!Accept, Agreed, Unanswered, Suits, Orderly, Begun
  <1>2. \/ /\ bState' = "DataTransfer" /\ UNCHANGED <<link, bParams>>
           /\ bDts' = [window   |-> BP!NewWindow(bParams.send_window_size, bParams.modulo),
                       recv_seq |-> 0]
           /\ ba' = BP!Emitted(<<BP!CreateCallAccept(bParams)>>)
        \/ bState' = "OutOfOrder" /\ link' = "down" /\ UNCHANGED <<ba, bParams>>
    BY <1>1, BCalls, BAssumptions, BP!AcceptStarts DEF Types2
  <1>3. CASE bState' = "OutOfOrder" /\ link' = "down" /\ UNCHANGED <<ba, bParams>>
    BY <1>1, <1>3, BEnded DEF BP!Over
  <1>4. CASE /\ bState' = "DataTransfer" /\ UNCHANGED <<link, bParams>>
             /\ bDts' = [window   |-> BP!NewWindow(bParams.send_window_size, bParams.modulo),
                         recv_seq |-> 0]
             /\ ba' = BP!Emitted(<<BP!CreateCallAccept(bParams)>>)
    <2> DEFINE p == BP!CreateCallAccept(bParams)
    <2>1. p \in B!Packets /\ p.type = "CallAccept"
      BY BAssumptions, BSets, BP!CallPacketType
         DEF Types2, BP!IInv, BP!ParamsOK, BP!CreateCallAccept
    <2>2. ba' = IF link = "up" THEN <<>> \o <<p>> ELSE <<>>
      BY <1>1, <1>4, BWrites
    <2> HIDE DEF p
    <2>3. ba' \in Seq(B!Packets) /\ \A i \in 1 .. Len(ba') : ba'[i] = p
      BY <2>1, <2>2
    <2>4. NoReset(ba') /\ \A i \in 1 .. Len(ba') : ~Numbered(ba'[i])
      BY <2>1, <2>3 DEF NoReset, Numbered
    <2>5. link = "up" => ba' # <<>> /\ Head(ba') = p
      BY <2>2
    <2>6. ba' # <<>> => Head(ba') = p
      BY <2>2
    <2>7. Calm' /\ Begun'
      BY <1>1, <1>4, <2>1, <2>4, <2>5, <2>6 DEF Orderly, Calm, Begun, aVars
    <2>8. M' = M /\ AOn' = AOn /\ BOn'
      BY <1>4 DEF M, AOn, BOn, aVars
    <2>9. OpenAs(bDts', bParams.send_window_size, M)
      <3>1. WindowSizeOK(bParams.send_window_size, M)
        BY <1>1, CircuitAssumption
           DEF Types2, BP!IInv, BP!ParamsOK, BP!Params, BP!FacilityWindows, WindowSizeOK, M
      <3>2. bDts'.window = NewWindow(bParams.send_window_size, M) /\ bDts'.recv_seq = 0
        BY <1>4 DEF BP!NewWindow, NewWindow, M
      <3>3. bDts'.window.size = bParams.send_window_size
        BY <3>2 DEF NewWindow
      <3>4. NewWindow(bParams.send_window_size, M) \in Windows(M) /\ 0 \in SeqNos(M)
        BY <1>1, <3>1, NewWindowType, SizesAre, ZeroIsSeqNo
      <3> QED BY <3>2, <3>3, <3>4 DEF OpenAs
    <2>10. bDts'.window.start = 0 /\ bDts'.window.current = 0 /\ bDts'.recv_seq = 0
      BY <1>4 DEF BP!NewWindow
    <2>11. AOn => aDts.window.start = 0 /\ aDts.window.current = 0 /\ aDts.recv_seq = 0
      BY <1>1 DEF AOn, Orderly, Begun, A!NoTransfer, A!NewWindow
    <2>12. Sees(bDts', ab, M) /\ DataIn(ab, Len(ab)) = 0
      <3>1. Numbers(bDts', M)
        BY <1>1, <2>10 DEF Numbers, SeqNos
      <3> QED BY <1>1, <3>1, PlainWire
    <2>13. AOn => Sees(aDts, ba', M)
      <3>1. AOn => Numbers(aDts, M)
        BY <1>1, <2>11 DEF Numbers, SeqNos
      <3> QED BY <2>3, <2>4, <3>1, PlainWire
    <2>14. DataIn(ba', Len(ba')) = 0
      <3>1. Numbers(bDts', M)
        BY <1>1, <2>10 DEF Numbers, SeqNos
      <3> QED BY <2>3, <2>4, <3>1, PlainWire
    <2>15. AOn => Pair(aDts, ba', bDts', ab, M)
      BY <1>1, <2>3, <2>4, <2>10, <2>11, PlainPair, Zenon
    <2>16. InStep' /\ Room'
      BY <1>1, <1>4, <2>8, <2>9, <2>12, <2>13, <2>14, <2>15, SizesAre
         DEF InStep, Room, OpenAs, aVars
    <2> QED BY <2>7, <2>16 DEF Orderly
  <1> QED BY <1>2, <1>3, <1>4

LEMMA ATook ==
    ASSUME Types2, Agreed, Orderly, UNCHANGED bVars, ba # <<>>, ba' = Tail(ba),
           aState = "DataTransfer", Numbered(Head(ba)), AP!Pushed(AP!Taken(aDts, Head(ba)))
    PROVE  Orderly'
  <1> DEFINE d == AP!Taken(aDts, Head(ba))
  <1>1. /\ M \in Nat /\ M > 1 /\ ba \in Seq(A!Packets) /\ ab \in Seq(A!Packets) /\ AOn
        /\ Sees(aDts, ba, M) /\ OpenAs(aDts, aParams.send_window_size, M)
        /\ BOn /\ link = "up" => Pair(aDts, ba, bDts, ab, M)
    BY ModuloIs, WireTypes DEF Orderly, InStep, AOn
  <1>2. /\ AP!InSequence(Head(ba)) /\ After(aDts, Head(ba), d, M)
        /\ OpenAs(d, aParams.send_window_size, M)
    BY <1>1, ATaken
  <1>3. d \in AP!Transfers
    BY <1>2, AAssumptions, AP!TakenType, ASets, WireTypes, ASeqs
       DEF Types2, AP!IInv, AP!CircuitOK, AP!WindowRespected
  <1>4. AP!Pushed(d)
    OBVIOUS
  <1> HIDE DEF d
  <1>5. Sees(d, ba', M)
    BY <1>1, <1>2, SeesTakes
  <1>6. BOn /\ link = "up" => Pair(d, ba', bDts, ab, M)
    BY <1>1, <1>2, PairTakes
  <1> QED BY <1>2, <1>3, <1>4, <1>5, <1>6, APushed

LEMMA AHandled ==
    ASSUME Types2, Agreed, Orderly, UNCHANGED bVars,
           NEW pkt \in A!Packets \cup {AP!NoPacket}, A!HandleInPacket(pkt),
           \/ ba # <<>> /\ ba' = Tail(ba) /\ pkt = Head(ba)
           \/ UNCHANGED ba /\ pkt = AP!NoPacket
    PROVE  Orderly'
  <1>1. AP!NoPacket.type = "None"
    BY DEF AP!NoPacket
  <1>2. /\ pkt.type # "ResetRequest" /\ aState # "WaitResetConfirm"
        /\ Numbered(pkt) => pkt = Head(ba) /\ ba # <<>> /\ ba' = Tail(ba)
    BY <1>1, WireTypes DEF Orderly, Calm, NoReset, Numbered
  <1>3. aState = "DataTransfer" /\ Numbered(pkt) => AP!InSequence(pkt)
    <2>1. aState = "DataTransfer" =>
              Sees(aDts, ba, M) /\ OpenAs(aDts, aParams.send_window_size, M)
      BY DEF Orderly, InStep, AOn
    <2> QED BY <1>2, <2>1, ATaken
  <1>4. AP!HandledInStep(pkt)
    BY <1>2, <1>3, AHandles, AAssumptions, AP!HandledCall, ASets, ASeqs DEF Types2
  <1>5. CASE AP!TookRequest(pkt) /\ UNCHANGED link
    <2>1. pkt = Head(ba) /\ ba # <<>>
      BY <1>1, <1>5 DEF AP!TookRequest
    <2>2. Head(ba) \in FromCalled(bParams)
      BY <2>1 DEF Agreed
    <2> QED BY <1>5, <2>1, <2>2 DEF FromCalled, AP!TookRequest
  <1>6. CASE AP!TookAccept(pkt) /\ AP!DataTransfer(aParams') /\ UNCHANGED link
    BY <1>1, <1>6, ATookAccept DEF AP!TookAccept
  <1>7. CASE aState = "DataTransfer" /\ AP!Numbered(pkt) /\ AP!Pushed(AP!Taken(aDts, pkt))
    BY <1>2, <1>7, ATook, ASeqs
  <1>8. CASE \E t \in {"ClearRequest", "ClearConfirm"} : AP!Ended({t})
    BY <1>8, AEnded DEF AP!Ended
  <1>9. CASE aState' \in AP!Over /\ UNCHANGED <<link, ab>>
    BY <1>9, AEnded
  <1>10. CASE /\ UNCHANGED <<aState, aDts, aParams, link, ab>>
              /\ aState = "DataTransfer" => ~AP!Numbered(pkt)
              /\ aState = "WaitCallAccept" => pkt.type \notin {"CallAccept", "ClearRequest"}
    <2>1. ba # <<>> /\ pkt = Head(ba) => aState # "WaitCallAccept"
      BY <1>10 DEF Orderly, Begun
    <2> QED BY <1>10, <2>1, ARested, ASeqs
  <1> QED BY <1>4, <1>5, <1>6, <1>7, <1>8, <1>9, <1>10
          DEF AP!HandledInStep, AP!circuit, AP!wire

LEMMA AEngineOrderly == ASSUME Types2, Agreed, Orderly, AEngine PROVE Orderly'
  <1>1. UNCHANGED bVars /\ A!NoPacket = AP!NoPacket
    BY DEF AEngine, A!NoPacket, AP!NoPacket
  <1>2. CASE ba # <<>> /\ A!HandleInPacket(Head(ba)) /\ ba' = Tail(ba)
    BY <1>1, <1>2, AHandled, WireTypes
  <1>3. CASE A!HandleInPacket(A!NoPacket) /\ UNCHANGED ba
    BY <1>1, <1>3, AHandled
  <1>4. CASE A!LinkError /\ UNCHANGED ba
    BY <1>1, <1>4, AEnded DEF A!LinkError, A!OutOfOrder, A!ChangeState, A!wire, AP!Over
  <1> QED BY <1>2, <1>3, <1>4 DEF AEngine

LEMMA AAppOrderly ==
    ASSUME Types2, Agreed, Orderly, AApp, UNCHANGED resets, resets \in Nat
    PROVE  Orderly'
  <1>1. UNCHANGED <<bVars, ba>>
    BY DEF AApp, ACall, ACalled, APush, AKick, ARecv, AReset, AResetDone, AClear, ACleared
  <1>2. CASE A!SendKick
    <2>1. aDts \in AP!Transfers
      BY DEF Types2, AP!IInv, AP!CircuitOK
    <2>2. CASE AP!Unmoved
      BY <1>1, <2>2, ARested DEF AP!Unmoved
    <2>3. CASE aState = "DataTransfer" /\ AP!Pushed(aDts)
      BY <1>1, <2>1, <2>3, APushed DEF Orderly, InStep, AOn
    <2> QED BY <1>2, <2>2, <2>3, ACalls, AAssumptions, AP!KickedRun DEF Types2
  <1>3. CASE A!Clear
    <2>1. CASE AP!Unmoved
      BY <1>1, <2>1, ARested DEF AP!Unmoved
    <2>2. CASE AP!Ended({"ClearRequest"})
      BY <1>1, <2>2, AEnded DEF AP!Ended
    <2> QED BY <1>3, <2>1, <2>2, ACalls, AAssumptions, AP!ClearEnds DEF Types2
  <1>4. CASE UNCHANGED <<aState, aDts, aParams, ab>> /\ (UNCHANGED link \/ link' = "down")
    BY <1>1, <1>4, ARested
  <1>5. ASSUME \/ \E m : A!SendPush(m)
               \/ A!PopCompleteData \/ A!ResetPanics \/ A!Shutdown
               \/ UNCHANGED <<aVars, link, ab>>
        PROVE  UNCHANGED <<aState, aDts, aParams, ab>> /\ (UNCHANGED link \/ link' = "down")
    BY <1>5 DEF A!SendPush, A!PopCompleteData, A!ResetPanics, A!Panic, A!Shutdown,
                A!circuit, A!wire, aVars
  <1>6. ~AReset
    BY DEF AReset
  <1> QED BY <1>1, <1>2, <1>3, <1>4, <1>5, <1>6, CallerCalls
          DEF AApp, ACall, ACalled, APush, AKick, ARecv, AResetDone, AClear, ACleared

LEMMA BTook ==
    ASSUME Types2, Agreed, Orderly, UNCHANGED aVars, ab # <<>>, ab' = Tail(ab),
           bState = "DataTransfer", Numbered(Head(ab)), BP!Pushed(BP!Taken(bDts, Head(ab)))
    PROVE  Orderly'
  <1> DEFINE d == BP!Taken(bDts, Head(ab))
  <1>1. /\ M \in Nat /\ M > 1 /\ ab \in Seq(B!Packets) /\ ba \in Seq(B!Packets) /\ BOn
        /\ Sees(bDts, ab, M) /\ OpenAs(bDts, bParams.send_window_size, M)
        /\ AOn /\ link = "up" => Pair(bDts, ab, aDts, ba, M)
    BY ModuloIs, WireTypes, PairTurned DEF Orderly, InStep, BOn
  <1>2. /\ BP!InSequence(Head(ab)) /\ After(bDts, Head(ab), d, M)
        /\ OpenAs(d, bParams.send_window_size, M)
    BY <1>1, BTaken
  <1>3. d \in BP!Transfers
    BY <1>2, BAssumptions, BP!TakenType, BSets, WireTypes, BSeqs
       DEF Types2, BP!IInv, BP!CircuitOK, BP!WindowRespected
  <1>4. BP!Pushed(d)
    OBVIOUS
  <1> HIDE DEF d
  <1>5. Sees(d, ab', M)
    BY <1>1, <1>2, SeesTakes
  <1>6. AOn /\ link = "up" => Pair(d, ab', aDts, ba, M)
    BY <1>1, <1>2, PairTakes
  <1> QED BY <1>2, <1>3, <1>4, <1>5, <1>6, BPushed

LEMMA BHandled ==
    ASSUME Types2, Types2', Agreed, Orderly, UNCHANGED aVars, bState # "OutOfOrder",
           NEW pkt \in B!Packets \cup {BP!NoPacket}, B!HandleInPacket(pkt),
           \/ ab # <<>> /\ ab' = Tail(ab) /\ pkt = Head(ab)
           \/ UNCHANGED ab /\ pkt = BP!NoPacket
    PROVE  Orderly'
  <1>1. BP!NoPacket.type = "None"
    BY DEF BP!NoPacket
  <1>2. /\ pkt.type # "ResetRequest" /\ bState # "WaitResetConfirm"
        /\ Numbered(pkt) => pkt = Head(ab) /\ ab # <<>> /\ ab' = Tail(ab)
    BY <1>1, WireTypes DEF Orderly, Calm, NoReset, Numbered
  <1>3. bState = "DataTransfer" /\ Numbered(pkt) => BP!InSequence(pkt)
    <2>1. bState = "DataTransfer" =>
              Sees(bDts, ab, M) /\ OpenAs(bDts, bParams.send_window_size, M)
      BY DEF Orderly, InStep, BOn
    <2> QED BY <1>2, <2>1, BTaken
  <1>4. BP!HandledInStep(pkt)
    BY <1>2, <1>3, BHandles, BAssumptions, BP!HandledCall, BSets, BSeqs DEF Types2
  <1>5. CASE BP!TookRequest(pkt) /\ UNCHANGED link
    BY <1>1, <1>5, BTookRequest DEF BP!TookRequest
  <1>6. CASE BP!TookAccept(pkt)
    BY <1>6 DEF Agreed, BP!TookAccept
  <1>7. CASE bState = "DataTransfer" /\ BP!Numbered(pkt) /\ BP!Pushed(BP!Taken(bDts, pkt))
    BY <1>2, <1>7, BTook, BSeqs
  <1>8. CASE /\ bState \in {"WaitCallAccept", "DataTransfer"}
             /\ \E t \in {"ClearRequest", "ClearConfirm"} : BP!Ended({t})
    BY <1>8, BEnded DEF BP!Ended
  <1>9. CASE /\ bState' \in BP!Over /\ UNCHANGED <<bParams, link, ba>> /\ bState # "Ready"
             /\ bState = "Called" => pkt.type = "ClearRequest"
    <2>1. ab # <<>> /\ pkt = Head(ab) /\ bState = "Called" => aState # "WaitCallAccept"
      <3>1. ab # <<>> => 1 \in 1 .. Len(ab) /\ Head(ab) = ab[1]
        BY WireTypes
      <3> QED BY <1>9, <3>1 DEF Orderly, Begun
    <2> QED BY <1>1, <1>9, <2>1, BEnded
  <1>10. CASE /\ UNCHANGED <<bState, bDts, bParams, link, ba>>
              /\ bState = "DataTransfer" => ~BP!Numbered(pkt)
    BY <1>10, BRested, BSeqs DEF BOn
  <1> QED BY <1>4, <1>5, <1>6, <1>7, <1>8, <1>9, <1>10
          DEF BP!HandledInStep, BP!circuit, BP!wire

LEMMA BEngineOrderly == ASSUME Types2, Types2', Agreed, Orderly, BEngine PROVE Orderly'
  <1>1. UNCHANGED aVars /\ B!NoPacket = BP!NoPacket /\ bState # "OutOfOrder"
    BY DEF BEngine, B!NoPacket, BP!NoPacket, B!Terminal
  <1>2. CASE ab # <<>> /\ B!HandleInPacket(Head(ab)) /\ ab' = Tail(ab)
    BY <1>1, <1>2, BHandled, WireTypes
  <1>3. CASE B!HandleInPacket(B!NoPacket) /\ UNCHANGED ab
    BY <1>1, <1>3, BHandled
  <1>4. CASE link = "down" /\ B!LinkError /\ UNCHANGED ab
    BY <1>1, <1>4, BEnded DEF B!LinkError, B!OutOfOrder, B!ChangeState, B!wire, BP!Over
  <1> QED BY <1>2, <1>3, <1>4 DEF BEngine

LEMMA BAppOrderly ==
    ASSUME Types2, Agreed, Orderly, BApp, UNCHANGED resets, resets \in Nat
    PROVE  Orderly'
  <1>1. UNCHANGED <<aVars, ab>>
    BY DEF BApp, BListen, BAnswer, BPush, BKick, BRecv, BReset, BResetDone, BClear, BCleared
  <1>2. CASE B!SendKick
    <2>1. bDts \in BP!Transfers
      BY DEF Types2, BP!IInv, BP!CircuitOK
    <2>2. CASE BP!Unmoved
      BY <1>1, <2>2, BRested DEF BP!Unmoved
    <2>3. CASE bState = "DataTransfer" /\ BP!Pushed(bDts)
      BY <1>1, <2>1, <2>3, BPushed, PairTurned DEF Orderly, InStep, BOn
    <2> QED BY <1>2, <2>2, <2>3, BCalls, BAssumptions, BP!KickedRun DEF Types2
  <1>3. CASE B!Clear
    <2>1. CASE BP!Unmoved
      BY <1>1, <2>1, BRested DEF BP!Unmoved
    <2>2. CASE BP!IsConnected /\ BP!Ended({"ClearRequest"})
      BY <1>1, <2>2, BEnded DEF BP!Ended, BP!IsConnected
    <2> QED BY <1>3, <2>1, <2>2, BCalls, BAssumptions, BP!ClearEnds DEF Types2
  <1>4. CASE B!Reject
    <2>1. bState = "Called" /\ BP!Ended({"ClearRequest"})
      BY <1>4, BCalls, BAssumptions, BP!RejectEnds DEF Types2
    <2> QED BY <1>1, <2>1, BEnded DEF BP!Ended
  <1>5. CASE UNCHANGED <<bState, bDts, bParams, ba>> /\ (UNCHANGED link \/ link' = "down")
    BY <1>1, <1>5, BRested
  <1>6. ASSUME \/ \E m : B!SendPush(m)
               \/ B!PopCompleteData \/ B!ResetPanics \/ B!ListenPanics \/ B!Shutdown
               \/ UNCHANGED <<bVars, link, ba>>
        PROVE  UNCHANGED <<bState, bDts, bParams, ba>> /\ (UNCHANGED link \/ link' = "down")
    BY <1>6 DEF B!SendPush, B!PopCompleteData, B!ResetPanics, B!ListenPanics, B!Panic,
                B!Shutdown, B!circuit, B!wire, bVars
  <1>7. ~BReset
    BY DEF BReset
  <1> QED BY <1>1, <1>2, <1>3, <1>4, <1>5, <1>6, <1>7, BAccepts
          DEF BApp, BListen, BAnswer, BPush, BKick, BRecv, BResetDone, BClear, BCleared

LEMMA WorldOrderly == ASSUME Types2, Agreed, Orderly, World PROVE Orderly'
  <1>1. \/ /\ UNCHANGED <<bVars, aState, aDts, aParams, ab, ba>>
           /\ UNCHANGED link \/ link' = "down"
        \/ UNCHANGED <<aVars, bState, bDts, bParams, ab, ba, link>>
    BY DEF World, A!Elapse, B!Elapse, A!LinkBreaks, A!circuit, A!wire, B!wire, aVars, bVars
  <1> QED BY <1>1, ARested, BRested

-----------------------------------------------------------------------------
(* The invariant. *)

InOrder == resets \in Nat /\ (resets = 0 => Orderly)

LEMMA InitInOrder == Init => InOrder
  BY DEF Init, A!VcInit, B!VcInit, InOrder, Orderly, Calm, NoReset, Begun, InStep, Room,
         AOn, BOn

LEMMA NextInOrder == Types2 /\ Types2' /\ Agreed /\ InOrder /\ [Next]_vars => InOrder'
  <1> SUFFICES ASSUME Types2, Types2', Agreed, InOrder, [Next]_vars PROVE InOrder'
    OBVIOUS
  <1>1. resets' = resets \/ resets' = resets + 1
    BY DEF Next, AEngine, BEngine, AApp, ACall, ACalled, APush, AKick, ARecv, AReset,
           AResetDone, AClear, ACleared, BApp, BListen, BAnswer, BPush, BKick, BRecv, BReset,
           BResetDone, BClear, BCleared, World, vars, history
  <1>2. resets' \in Nat /\ (resets' = 0 => resets = 0 /\ UNCHANGED resets)
    BY <1>1 DEF InOrder
  <1>3. ASSUME resets' = 0
        PROVE  Orderly'
    <2>1. Orderly /\ UNCHANGED resets /\ resets \in Nat
      BY <1>2, <1>3 DEF InOrder
    <2>2. CASE UNCHANGED vars
      BY <2>1, <2>2, ARested DEF vars, aVars, bVars
    <2> QED BY <2>1, <2>2, AEngineOrderly, BEngineOrderly, AAppOrderly, BAppOrderly,
               WorldOrderly DEF Next
  <1> QED BY <1>2, <1>3 DEF InOrder

LEMMA InOrderAlways == Spec => []InOrder
  BY InitInOrder, NextInOrder, TypesAlways, AgreedAlways, PTL DEF Spec

-----------------------------------------------------------------------------
(* Clearing.  Only a circuit that has ended confirms a clear, and only a   *)
(* confirmation makes a circuit that cleared the call Cleared.             *)

Places == {"start", "calling", "incoming", "open", "kick", "resetting", "clearing", "closed"}

Confirms(w) == \E i \in 1 .. Len(w) : w[i].type = "ClearConfirm"

ClearOrder ==
    /\ pc \in [{"a", "b"} -> Places]
    /\ Confirms(ab) => A!Terminal
    /\ Confirms(ba) => B!Terminal
    /\ pc.b = "clearing" => bState \in BP!Over
    /\ ConfirmedClearEndsBoth

LEMMA ConfirmsTail ==
    ASSUME NEW S, NEW w \in Seq(S), w # <<>>
    PROVE  Confirms(Tail(w)) \/ Head(w).type = "ClearConfirm" => Confirms(w)
  <1>1. 1 \in 1 .. Len(w) /\ Head(w) = w[1]
        /\ \A i \in 1 .. Len(Tail(w)) : i + 1 \in 1 .. Len(w) /\ Tail(w)[i] = w[i + 1]
    BY TailIs
  <1> QED BY <1>1 DEF Confirms

LEMMA AConfirms ==
    ASSUME Types2, AP!WroteInCall, Confirms(ab')
    PROVE  Confirms(ab) \/ aState' = "Cleared"
  <1>1. PICK q \in Seq(AP!Packets) : ab' = ab \o q /\ AP!FitsCall(q)
    BY DEF AP!WroteInCall
  <1>2. \A i \in 1 .. Len(ab \o q) : \/ i \in 1 .. Len(ab) /\ (ab \o q)[i] = ab[i]
                                     \/ i - Len(ab) \in 1 .. Len(q) /\ (ab \o q)[i] = q[i - Len(ab)]
    BY WireTypes
  <1> QED BY <1>1, <1>2 DEF Confirms, AP!FitsCall

LEMMA BConfirms ==
    ASSUME Types2, BP!WroteInCall, Confirms(ba')
    PROVE  Confirms(ba) \/ bState' = "Cleared"
  <1>1. PICK q \in Seq(BP!Packets) : ba' = ba \o q /\ BP!FitsCall(q)
    BY DEF BP!WroteInCall
  <1>2. \A i \in 1 .. Len(ba \o q) : \/ i \in 1 .. Len(ba) /\ (ba \o q)[i] = ba[i]
                                     \/ i - Len(ba) \in 1 .. Len(q) /\ (ba \o q)[i] = q[i - Len(ba)]
    BY WireTypes
  <1> QED BY <1>1, <1>2 DEF Confirms, BP!FitsCall

(* A circuit whose state is kept or goes on within a call stays ended once *)
(* it has.                                                                 *)
LEMMA AKeeps ==
    ASSUME Types2, AP!Kept \/ AP!Went, Confirms(ab) => A!Terminal
    PROVE  (A!Terminal => A!Terminal') /\ (Confirms(ab') => A!Terminal')
  BY AConfirms DEF AP!Kept, AP!Went, AP!Over, AP!Connected, A!Terminal

LEMMA BKeeps ==
    ASSUME Types2, BP!Kept \/ BP!Went, Confirms(ba) => B!Terminal
    PROVE  (B!Terminal => B!Terminal') /\ (Confirms(ba') => B!Terminal')
  BY BConfirms DEF BP!Kept, BP!Went, BP!Over, BP!Connected, B!Terminal

(* A step of the caller, and one of the called party. *)
LEMMA AStepClears ==
    ASSUME Types2, ClearOrder, UNCHANGED bVars, pc' \in [{"a", "b"} -> Places], pc'.b = pc.b,
           UNCHANGED ba \/ (ba # <<>> /\ ba' = Tail(ba)),
           A!Terminal => A!Terminal', Confirms(ab') => A!Terminal',
           aState' = "Cleared" => \/ UNCHANGED <<aState, aInitiator>>
                                  \/ aInitiator' = "Remote"
                                  \/ Confirms(ba)
    PROVE  ClearOrder'
  <1>1. Confirms(ba') => Confirms(ba)
    BY ConfirmsTail, WireTypes, Zenon
  <1>2. B!Terminal' = B!Terminal
    BY DEF B!Terminal, bVars
  <1> QED BY <1>1, <1>2 DEF ClearOrder, ConfirmedClearEndsBoth, bVars

LEMMA BStepClears ==
    ASSUME Types2, ClearOrder, UNCHANGED aVars, pc' \in [{"a", "b"} -> Places],
           UNCHANGED ab \/ (ab # <<>> /\ ab' = Tail(ab)),
           B!Terminal => B!Terminal', Confirms(ba') => B!Terminal',
           pc'.b = "clearing" =>
               /\ bState' \in BP!Over
               /\ bState' = "Cleared" => \/ bState = "Cleared" /\ pc.b = "clearing"
                                         \/ Confirms(ab)
    PROVE  ClearOrder'
  <1>1. Confirms(ab') => Confirms(ab)
    BY ConfirmsTail, WireTypes
  <1>2. A!Terminal' = A!Terminal
    BY DEF A!Terminal, aVars
  <1> QED BY <1>1, <1>2 DEF ClearOrder, ConfirmedClearEndsBoth, aVars

LEMMA AEngineClears == ASSUME Types2, Agreed, ClearOrder, AEngine PROVE ClearOrder'
  <1>1. UNCHANGED <<bVars, pc>> /\ ~A!Terminal /\ A!NoPacket = AP!NoPacket
        /\ AP!NoPacket.type = "None"
    BY DEF AEngine, A!NoPacket, AP!NoPacket
  <1>2. ASSUME NEW pkt \in A!Packets \cup {AP!NoPacket}, A!HandleInPacket(pkt),
               \/ ba # <<>> /\ ba' = Tail(ba) /\ pkt = Head(ba)
               \/ UNCHANGED ba /\ pkt = AP!NoPacket
        PROVE  ClearOrder'
    <2>1. AP!TookRequest(pkt) \/ AP!TookAccept(pkt) \/ AP!Kept \/ AP!Went
      BY <1>2, AHandles, AAssumptions, AP!StateAfterHandled DEF Types2
    <2>2. AP!ClearedHow(pkt)
      BY <1>2, AHandles, AAssumptions, AP!HandledCleared
    <2>3. pkt.type = "ClearConfirm" => Confirms(ba)
      BY <1>1, <1>2, ConfirmsTail, WireTypes
    <2>4. Confirms(ab') => A!Terminal'
      <3>1. CASE AP!TookRequest(pkt) \/ AP!TookAccept(pkt)
        BY <1>1, <3>1 DEF ClearOrder, AP!TookRequest, AP!TookAccept
      <3>2. CASE AP!Kept \/ AP!Went
        BY <3>2, AKeeps DEF ClearOrder
      <3> QED BY <2>1, <3>1, <3>2
    <2> QED BY <1>1, <1>2, <2>2, <2>3, <2>4, AStepClears DEF ClearOrder, AP!ClearedHow
  <1>3. CASE A!LinkError /\ UNCHANGED ba
    <2>1. aState' = "OutOfOrder" /\ UNCHANGED ab
      BY <1>3 DEF A!LinkError, A!OutOfOrder, A!ChangeState, A!wire
    <2> QED BY <1>1, <1>3, <2>1, AStepClears DEF ClearOrder, A!Terminal
  <1> QED BY <1>1, <1>2, <1>3, WireTypes DEF AEngine

LEMMA BEngineClears == ASSUME Types2, Agreed, ClearOrder, BEngine PROVE ClearOrder'
  <1>1. UNCHANGED <<aVars, pc>> /\ ~B!Terminal /\ B!NoPacket = BP!NoPacket
        /\ BP!NoPacket.type = "None"
    BY DEF BEngine, B!NoPacket, BP!NoPacket
  <1>2. ASSUME NEW pkt \in B!Packets \cup {BP!NoPacket}, B!HandleInPacket(pkt),
               \/ ab # <<>> /\ ab' = Tail(ab) /\ pkt = Head(ab)
               \/ UNCHANGED ab /\ pkt = BP!NoPacket
        PROVE  ClearOrder'
    <2>1. BP!TookRequest(pkt) \/ BP!TookAccept(pkt) \/ BP!Kept \/ BP!Went
      BY <1>2, BHandles, BAssumptions, BP!StateAfterHandled DEF Types2
    <2>2. BP!ClearedHow(pkt)
      BY <1>2, BHandles, BAssumptions, BP!HandledCleared
    <2>3. pkt.type = "ClearConfirm" => Confirms(ab)
      BY <1>1, <1>2, ConfirmsTail, WireTypes
    <2>4. Confirms(ba') => B!Terminal'
      <3>1. CASE BP!TookRequest(pkt) \/ BP!TookAccept(pkt)
        BY <1>1, <3>1 DEF ClearOrder, BP!TookRequest, BP!TookAccept
      <3>2. CASE BP!Kept \/ BP!Went
        BY <3>2, BKeeps DEF ClearOrder
      <3> QED BY <2>1, <3>1, <3>2
    <2>5. pc.b = "clearing" => bState = "WaitClearConfirm"
      BY <1>1 DEF ClearOrder, BP!Over, B!Terminal
    <2>6. pc.b = "clearing" => bState' \in BP!Over
      BY <2>1, <2>5 DEF BP!TookRequest, BP!TookAccept, BP!Kept, BP!Went, BP!Connected, BP!Over
    <2>7. pc.b = "clearing" /\ bState' = "Cleared" => Confirms(ab)
      BY <2>2, <2>3, <2>5 DEF BP!ClearedHow
    <2> QED BY <1>1, <1>2, <2>4, <2>6, <2>7, BStepClears DEF ClearOrder
  <1>3. CASE B!LinkError /\ UNCHANGED ab
    <2>1. bState' = "OutOfOrder" /\ UNCHANGED ba
      BY <1>3 DEF B!LinkError, B!OutOfOrder, B!ChangeState, B!wire
    <2> QED BY <1>1, <1>3, <2>1, BStepClears DEF ClearOrder, B!Terminal, BP!Over
  <1> QED BY <1>1, <1>2, <1>3, WireTypes DEF BEngine

LEMMA AAppClears == ASSUME Types2, Agreed, ClearOrder, AApp PROVE ClearOrder'
  <1>1. UNCHANGED <<bVars, ba>>
    BY DEF AApp, ACall, ACalled, APush, AKick, ARecv, AReset, AResetDone, AClear, ACleared
  <1>2. pc' \in [{"a", "b"} -> Places] /\ pc'.b = pc.b
    BY DEF ClearOrder, Moves, Places, AApp, ACall, ACalled, APush, AKick, ARecv, AReset,
           AResetDone, AClear, ACleared
  <1>3. CASE A!Call \/ A!SendKick \/ A!Reset \/ A!Clear
    <2>1. aState' = "Cleared" => UNCHANGED <<aState, aInitiator>>
      BY <1>3, ACalls, AAssumptions, AP!CallsDoNotClear
    <2>2. CASE AP!Kept \/ AP!Went
      BY <1>1, <1>2, <2>1, <2>2, AKeeps, AStepClears DEF ClearOrder
    <2>3. CASE /\ aState = "Ready"
               /\ UNCHANGED ab \/ ab' = Append(ab, AP!CreateCallRequest(aParams))
      <3> DEFINE p == AP!CreateCallRequest(aParams)
      <3>1. p.type # "ClearConfirm"
        BY DEF AP!CreateCallRequest
      <3>2. UNCHANGED ab \/ ab' = Append(ab, p)
        BY <2>3
      <3> HIDE DEF p
      <3>3. \A i \in 1 .. Len(Append(ab, p)) :
                (i \in 1 .. Len(ab) /\ Append(ab, p)[i] = ab[i]) \/ Append(ab, p)[i] = p
        BY WireTypes
      <3>4. ~A!Terminal /\ ~Confirms(ab')
        BY <2>3, <3>1, <3>2, <3>3 DEF A!Terminal, ClearOrder, Confirms
      <3> QED BY <1>1, <1>2, <2>1, <3>4, AStepClears
    <2> QED BY <1>3, <2>2, <2>3, ACalls, AAssumptions, AP!CallMoves, AP!KickedMoves,
               AP!ResetMoves, AP!ClearMoves DEF Types2
  <1>4. CASE UNCHANGED <<aState, aInitiator, ab>>
    BY <1>1, <1>2, <1>4, AStepClears DEF ClearOrder, A!Terminal
  <1>5. ASSUME \/ \E m : A!SendPush(m)
               \/ A!PopCompleteData \/ A!ResetPanics \/ A!Shutdown \/ UNCHANGED <<aVars, ab>>
        PROVE  UNCHANGED <<aState, aInitiator, ab>>
    BY <1>5 DEF A!SendPush, A!PopCompleteData, A!ResetPanics, A!Panic, A!Shutdown,
                A!circuit, A!wire, aVars
  <1> QED BY <1>3, <1>4, <1>5
          DEF AApp, ACall, ACalled, APush, AKick, ARecv, AReset, AResetDone, AClear, ACleared

LEMMA BAppClears == ASSUME Types2, Agreed, ClearOrder, BApp PROVE ClearOrder'
  <1>1. UNCHANGED <<aVars, ab>>
    BY DEF BApp, BListen, BAnswer, BPush, BKick, BRecv, BReset, BResetDone, BClear, BCleared
  <1>2. /\ pc' \in [{"a", "b"} -> Places]
        /\ pc'.b = "clearing" => BClear
    BY DEF ClearOrder, Moves, Places, BApp, BListen, BAnswer, BPush, BKick, BRecv, BReset,
           BResetDone, BClear, BCleared
  <1>3. CASE BClear
    <2>1. bState' \in BP!Over /\ bState' # "Cleared"
      BY <1>3 DEF BClear, B!Clear, B!ClearRequest, B!SendThenChange, B!ChangeState,
                  B!OutOfOrder, B!IsConnected, BP!Over
    <2>2. BP!Kept \/ BP!Went
      BY <1>3, BCalls, BAssumptions, BP!ClearMoves DEF BClear, Types2
    <2> QED BY <1>1, <1>2, <2>1, <2>2, BKeeps, BStepClears DEF ClearOrder
  <1>4. ASSUME ~BClear, B!Terminal => B!Terminal', Confirms(ba') => B!Terminal'
        PROVE  ClearOrder'
    BY <1>1, <1>2, <1>4, BStepClears
  <1>5. CASE B!SendKick \/ B!Reset
    <2>1. BP!Kept \/ BP!Went
      BY <1>5, BCalls, BAssumptions, BP!KickedMoves, BP!ResetMoves DEF Types2
    <2> QED BY <1>3, <1>4, <2>1, BKeeps DEF ClearOrder
  <1>6. CASE B!Accept
    <2> DEFINE p == BP!CreateCallAccept(bParams)
    <2>1. bState = "Called" /\ (UNCHANGED ba \/ ba' = Append(ba, p))
      <3>1. bState = "Called"
        BY <1>6 DEF B!Accept
      <3>2. bParams.send_window_size < bParams.modulo
        BY <3>1 DEF Agreed, Suits
      <3> QED BY <1>6, <3>1, <3>2, BCalls, BAssumptions, BP!AcceptMoves DEF Types2
    <2>2. p.type # "ClearConfirm"
      BY DEF BP!CreateCallAccept
    <2> HIDE DEF p
    <2>3. \A i \in 1 .. Len(Append(ba, p)) :
              (i \in 1 .. Len(ba) /\ Append(ba, p)[i] = ba[i]) \/ Append(ba, p)[i] = p
      BY WireTypes
    <2>4. ~B!Terminal /\ ~Confirms(ba')
      BY <2>1, <2>2, <2>3 DEF B!Terminal, ClearOrder, Confirms
    <2> QED BY <1>3, <1>4, <2>4
  <1>7. CASE B!Reject
    <2>1. /\ bState = "Called" /\ BP!WroteInCall
          /\ bState' = "Cleared" => B!Terminal'
      BY <1>7, BCalls, BAssumptions, BP!RejectMoves DEF Types2, B!Terminal
    <2>2. ~B!Terminal /\ (Confirms(ba') => B!Terminal')
      BY <2>1, BConfirms DEF B!Terminal, ClearOrder
    <2> QED BY <1>3, <1>4, <2>2
  <1>8. CASE UNCHANGED <<bState, ba>>
    BY <1>3, <1>4, <1>8 DEF ClearOrder, B!Terminal
  <1>9. ASSUME \/ \E m : B!SendPush(m)
               \/ B!PopCompleteData \/ B!ResetPanics \/ B!ListenPanics \/ B!Shutdown
               \/ UNCHANGED <<bVars, ba>>
        PROVE  UNCHANGED <<bState, ba>>
    BY <1>9 DEF B!SendPush, B!PopCompleteData, B!ResetPanics, B!ListenPanics, B!Panic,
                B!Shutdown, B!circuit, B!wire, bVars
  <1> QED BY <1>3, <1>5, <1>6, <1>7, <1>8, <1>9
          DEF BApp, BListen, BAnswer, BPush, BKick, BRecv, BReset, BResetDone, BCleared

LEMMA WorldClears == ASSUME Types2, ClearOrder, World PROVE ClearOrder'
  <1>1. UNCHANGED <<aState, aInitiator, ab, bState, bInitiator, ba, pc>>
    BY DEF World, A!Elapse, B!Elapse, A!LinkBreaks, A!circuit, A!wire, B!wire, aVars, bVars
  <1> QED BY <1>1 DEF ClearOrder, ConfirmedClearEndsBoth, A!Terminal, B!Terminal, BP!Over

LEMMA InitClears == Init => ClearOrder
  BY DEF Init, A!VcInit, B!VcInit, ClearOrder, Places, Confirms, ConfirmedClearEndsBoth

LEMMA NextClears == Types2 /\ Agreed /\ ClearOrder /\ [Next]_vars => ClearOrder'
  <1> SUFFICES ASSUME Types2, Agreed, ClearOrder, [Next]_vars PROVE ClearOrder'
    OBVIOUS
  <1>1. CASE UNCHANGED vars
    BY <1>1 DEF vars, aVars, bVars, ClearOrder, ConfirmedClearEndsBoth, A!Terminal,
                B!Terminal, BP!Over
  <1> QED BY <1>1, AEngineClears, BEngineClears, AAppClears, BAppClears, WorldClears DEF Next

LEMMA ClearOrderAlways == Spec => []ClearOrder
  BY InitClears, NextClears, TypesAlways, AgreedAlways, PTL DEF Spec

-----------------------------------------------------------------------------
(* The send queues, as long as nobody resets.                              *)

QueueOrder ==
    /\ aState \in AP!Opening => aSendq = <<>>
    /\ bState \in BP!Opening => bSendq = <<>>
    /\ QueuedDataWaitsForWindow

LEMMA AStepQueue ==
    ASSUME QueueOrder, UNCHANGED bVars, pc'.b = pc.b,
           \/ /\ AP!QueueKept
              /\ pc.a = "kick" => \/ pc'.a = "kick" \/ aState' # "DataTransfer"
                                  \/ AP!Drained'
           \/ aState' \notin AP!Opening /\ pc'.a = "kick"
    PROVE  QueueOrder'
  <1>1. /\ A!IsOpen(aDts.window)' = AP!IsOpen(aDts.window)'
        /\ A!IsOpen(aDts.window) = AP!IsOpen(aDts.window)
    BY DEF A!IsOpen, AP!IsOpen
  <1>2. aState' \in AP!Opening => aSendq' = <<>>
    BY DEF QueueOrder, AP!QueueKept
  <1>3. aState' = "DataTransfer" /\ aSendq' # <<>> /\ pc'.a # "kick" => ~A!IsOpen(aDts.window)'
    BY <1>1 DEF QueueOrder, QueuedDataWaitsForWindow, AP!QueueKept, AP!Drained, AP!Opening
  <1> QED BY <1>2, <1>3 DEF QueueOrder, QueuedDataWaitsForWindow, bVars

LEMMA BStepQueue ==
    ASSUME QueueOrder, UNCHANGED aVars, pc'.a = pc.a,
           \/ /\ BP!QueueKept
              /\ pc.b = "kick" => \/ pc'.b = "kick" \/ bState' # "DataTransfer"
                                  \/ BP!Drained'
           \/ bState' \notin BP!Opening /\ pc'.b = "kick"
    PROVE  QueueOrder'
  <1>1. /\ B!IsOpen(bDts.window)' = BP!IsOpen(bDts.window)'
        /\ B!IsOpen(bDts.window) = BP!IsOpen(bDts.window)
    BY DEF B!IsOpen, BP!IsOpen
  <1>2. bState' \in BP!Opening => bSendq' = <<>>
    BY DEF QueueOrder, BP!QueueKept
  <1>3. bState' = "DataTransfer" /\ bSendq' # <<>> /\ pc'.b # "kick" => ~B!IsOpen(bDts.window)'
    BY <1>1 DEF QueueOrder, QueuedDataWaitsForWindow, BP!QueueKept, BP!Drained, BP!Opening
  <1> QED BY <1>2, <1>3 DEF QueueOrder, QueuedDataWaitsForWindow, aVars

LEMMA AEngineQueue == ASSUME Types2, Orderly, QueueOrder, AEngine PROVE QueueOrder'
  <1>1. UNCHANGED <<bVars, pc>> /\ A!NoPacket = AP!NoPacket /\ AP!NoPacket.type = "None"
    BY DEF AEngine, A!NoPacket, AP!NoPacket
  <1>2. ASSUME NEW pkt \in A!Packets \cup {AP!NoPacket}, A!HandleInPacket(pkt),
               \/ ba # <<>> /\ pkt = Head(ba)
               \/ pkt = AP!NoPacket
        PROVE  AP!QueueKept
    <2>1. /\ pkt.type # "ResetRequest" /\ aState # "WaitResetConfirm"
          /\ Numbered(pkt) => pkt = Head(ba) /\ ba # <<>>
      BY <1>1, <1>2, WireTypes DEF Orderly, Calm, NoReset, Numbered
    <2>2. aState = "DataTransfer" /\ Numbered(pkt) => AP!InSequence(pkt)
      <3>1. aState = "DataTransfer" =>
                Sees(aDts, ba, M) /\ OpenAs(aDts, aParams.send_window_size, M)
        BY DEF Orderly, InStep, AOn
      <3> QED BY <2>1, <3>1, ATaken
    <2> QED BY <1>2, <2>1, <2>2, AHandles, AAssumptions, AP!HandledQueue, ASets, ASeqs DEF Types2
  <1>3. CASE A!LinkError
    <2>1. aState' = "OutOfOrder"
      BY <1>3 DEF A!LinkError, A!OutOfOrder, A!ChangeState
    <2> QED BY <1>1, <2>1, AStepQueue DEF AP!QueueKept, AP!Opening
  <1> QED BY <1>1, <1>2, <1>3, WireTypes, AStepQueue DEF AEngine

LEMMA BEngineQueue == ASSUME Types2, Orderly, QueueOrder, BEngine PROVE QueueOrder'
  <1>1. UNCHANGED <<aVars, pc>> /\ B!NoPacket = BP!NoPacket /\ BP!NoPacket.type = "None"
    BY DEF BEngine, B!NoPacket, BP!NoPacket
  <1>2. ASSUME NEW pkt \in B!Packets \cup {BP!NoPacket}, B!HandleInPacket(pkt),
               \/ ab # <<>> /\ pkt = Head(ab)
               \/ pkt = BP!NoPacket
        PROVE  BP!QueueKept
    <2>1. /\ pkt.type # "ResetRequest" /\ bState # "WaitResetConfirm"
          /\ Numbered(pkt) => pkt = Head(ab) /\ ab # <<>>
      BY <1>1, <1>2, WireTypes DEF Orderly, Calm, NoReset, Numbered
    <2>2. bState = "DataTransfer" /\ Numbered(pkt) => BP!InSequence(pkt)
      <3>1. bState = "DataTransfer" =>
                Sees(bDts, ab, M) /\ OpenAs(bDts, bParams.send_window_size, M)
        BY DEF Orderly, InStep, BOn
      <3> QED BY <2>1, <3>1, BTaken
    <2> QED BY <1>2, <2>1, <2>2, BHandles, BAssumptions, BP!HandledQueue, BSets, BSeqs DEF Types2
  <1>3. CASE B!LinkError
    <2>1. bState' = "OutOfOrder"
      BY <1>3 DEF B!LinkError, B!OutOfOrder, B!ChangeState
    <2> QED BY <1>1, <2>1, BStepQueue DEF BP!QueueKept, BP!Opening
  <1> QED BY <1>1, <1>2, <1>3, WireTypes, BStepQueue DEF BEngine

LEMMA AAppQueue ==
    ASSUME Types2, ClearOrder, QueueOrder, AApp, UNCHANGED resets, resets \in Nat
    PROVE  QueueOrder'
  <1>1. UNCHANGED bVars /\ pc'.b = pc.b
    BY DEF AApp, ACall, ACalled, APush, AKick, ARecv, AReset, AResetDone, AClear, ACleared,
           Moves, ClearOrder
  <1>2. CASE APush
    <2>1. aState' \notin AP!Opening
      BY <1>2 DEF APush, A!SendPush, A!IsConnected, A!circuit, AP!Opening
    <2>2. pc'.a = "kick"
      BY <1>2 DEF APush, Moves, ClearOrder
    <2> QED BY <1>1, <2>1, <2>2, AStepQueue
  <1>3. CASE AKick
    <2>1. A!SendKick
      BY <1>3 DEF AKick
    <2>2. \/ UNCHANGED <<aState, aDts, aSendq>> /\ aState # "DataTransfer"
          \/ aState' = "OutOfOrder"
          \/ aState = "DataTransfer" /\ aState' = "DataTransfer" /\ AP!Drained'
      BY <2>1, ACalls, AAssumptions, AP!KickDrains DEF Types2
    <2>3. /\ AP!QueueKept
          /\ aState' # "DataTransfer" \/ AP!Drained'
      BY <2>2 DEF AP!QueueKept, AP!Opening
    <2> QED BY <1>1, <2>3, AStepQueue
  <1>4. ASSUME ~APush, ~AKick, AP!QueueKept PROVE QueueOrder'
    <2>1. pc.a # "kick"
      BY <1>4 DEF AApp, ACall, ACalled, ARecv, AReset, AResetDone, AClear, ACleared
    <2> QED BY <1>1, <1>4, <2>1, AStepQueue
  <1>5. CASE A!Call
    <2>1. /\ UNCHANGED aSendq
          /\ \/ UNCHANGED <<aState, aDts>>
             \/ aState = "Ready" /\ aState' \in {"WaitCallAccept", "OutOfOrder"}
      BY <1>5 DEF A!Call, A!SendThenChange, A!OutOfOrder, A!ChangeState, A!Panic, A!circuit
    <2>2. AP!QueueKept
      BY <2>1 DEF AP!QueueKept, AP!Opening
    <2> QED BY <1>2, <1>3, <1>4, <2>2
  <1>6. CASE A!Clear
    <2>1. /\ UNCHANGED aSendq
          /\ UNCHANGED <<aState, aDts>> \/ aState' \in {"WaitClearConfirm", "OutOfOrder"}
      BY <1>6 DEF A!Clear, A!ClearRequest, A!SendThenChange, A!OutOfOrder, A!ChangeState,
                  A!Panic, A!circuit
    <2>2. AP!QueueKept
      BY <2>1 DEF AP!QueueKept, AP!Opening
    <2> QED BY <1>2, <1>3, <1>4, <2>2
  <1>7. CASE UNCHANGED <<aState, aDts, aSendq>>
    <2>1. AP!QueueKept
      BY <1>7 DEF AP!QueueKept, AP!Opening
    <2> QED BY <1>2, <1>3, <1>4, <2>1
  <1>8. ASSUME A!PopCompleteData \/ A!ResetPanics \/ A!Shutdown \/ UNCHANGED aVars
        PROVE  UNCHANGED <<aState, aDts, aSendq>>
    BY <1>8 DEF A!PopCompleteData, A!ResetPanics, A!Panic, A!Shutdown, A!circuit, aVars
  <1>9. ~AReset
    BY DEF AReset
  <1> QED BY <1>2, <1>3, <1>5, <1>6, <1>7, <1>8, <1>9
          DEF AApp, ACall, ACalled, ARecv, AResetDone, AClear, ACleared

LEMMA BAppQueue ==
    ASSUME Types2, ClearOrder, QueueOrder, BApp, UNCHANGED resets, resets \in Nat
    PROVE  QueueOrder'
  <1>1. UNCHANGED aVars /\ pc'.a = pc.a
    BY DEF BApp, BListen, BAnswer, BPush, BKick, BRecv, BReset, BResetDone, BClear, BCleared,
           Moves, ClearOrder
  <1>2. CASE BPush
    <2>1. bState' \notin BP!Opening
      BY <1>2 DEF BPush, B!SendPush, B!IsConnected, B!circuit, BP!Opening
    <2>2. pc'.b = "kick"
      BY <1>2 DEF BPush, Moves, ClearOrder
    <2> QED BY <1>1, <2>1, <2>2, BStepQueue
  <1>3. CASE BKick
    <2>1. B!SendKick
      BY <1>3 DEF BKick
    <2>2. \/ UNCHANGED <<bState, bDts, bSendq>> /\ bState # "DataTransfer"
          \/ bState' = "OutOfOrder"
          \/ bState = "DataTransfer" /\ bState' = "DataTransfer" /\ BP!Drained'
      BY <2>1, BCalls, BAssumptions, BP!KickDrains DEF Types2
    <2>3. /\ BP!QueueKept
          /\ bState' # "DataTransfer" \/ BP!Drained'
      BY <2>2 DEF BP!QueueKept, BP!Opening
    <2> QED BY <1>1, <2>3, BStepQueue
  <1>4. ASSUME ~BPush, ~BKick, BP!QueueKept PROVE QueueOrder'
    <2>1. pc.b # "kick"
      BY <1>4 DEF BApp, BListen, BAnswer, BRecv, BReset, BResetDone, BClear, BCleared
    <2> QED BY <1>1, <1>4, <2>1, BStepQueue
  <1>5. CASE B!Accept
    <2>1. bState = "Called" /\ UNCHANGED bSendq
      BY <1>5 DEF B!Accept
    <2>2. bState' \in {"DataTransfer", "OutOfOrder"} \/ UNCHANGED <<bState, bDts>>
      BY <1>5 DEF B!Accept, B!DataTransfer, B!OutOfOrder, B!ChangeState, B!Panic, B!circuit
    <2>3. BP!QueueKept
      BY <2>1, <2>2 DEF BP!QueueKept, BP!Opening
    <2> QED BY <1>2, <1>3, <1>4, <2>3
  <1>6. CASE B!Reject \/ B!Clear
    <2>1. /\ UNCHANGED bSendq
          /\ \/ UNCHANGED <<bState, bDts>>
             \/ bState' \in {"WaitClearConfirm", "Cleared", "OutOfOrder"}
      BY <1>6 DEF B!Reject, B!Clear, B!ClearRequest, B!SendThenChange, B!OutOfOrder,
                  B!ChangeState, B!Panic, B!circuit
    <2>2. BP!QueueKept
      BY <2>1 DEF BP!QueueKept, BP!Opening
    <2> QED BY <1>2, <1>3, <1>4, <2>2
  <1>7. CASE UNCHANGED <<bState, bDts, bSendq>>
    <2>1. BP!QueueKept
      BY <1>7 DEF BP!QueueKept, BP!Opening
    <2> QED BY <1>2, <1>3, <1>4, <2>1
  <1>8. ASSUME \/ B!PopCompleteData \/ B!ResetPanics \/ B!ListenPanics \/ B!Shutdown
               \/ UNCHANGED bVars \/ UNCHANGED <<bVars, link, ba>>
        PROVE  UNCHANGED <<bState, bDts, bSendq>>
    BY <1>8 DEF B!PopCompleteData, B!ResetPanics, B!ListenPanics, B!Panic, B!Shutdown,
                B!circuit, bVars
  <1>9. ~BReset
    BY DEF BReset
  <1> QED BY <1>2, <1>3, <1>5, <1>6, <1>7, <1>8, <1>9
          DEF BApp, BListen, BAnswer, BRecv, BResetDone, BClear, BCleared

LEMMA RestQueue ==
    ASSUME QueueOrder, UNCHANGED <<aState, aDts, aSendq, bState, bDts, bSendq, pc>>
    PROVE  QueueOrder'
  BY DEF QueueOrder, QueuedDataWaitsForWindow, A!IsOpen, B!IsOpen, AP!Opening, BP!Opening

LEMMA WorldQueue == ASSUME QueueOrder, World PROVE QueueOrder'
  <1>1. UNCHANGED <<aState, aDts, aSendq, bState, bDts, bSendq, pc>>
    BY DEF World, A!Elapse, B!Elapse, A!LinkBreaks, A!circuit, aVars, bVars
  <1> QED BY <1>1, RestQueue

LEMMA InitQueue == Init => (resets = 0 => QueueOrder)
  BY DEF Init, A!VcInit, B!VcInit, QueueOrder, QueuedDataWaitsForWindow

LEMMA NextQueue ==
    /\ Types2 /\ ClearOrder /\ InOrder /\ InOrder' /\ (resets = 0 => QueueOrder) /\ [Next]_vars
    => (resets = 0 => QueueOrder)'
  <1> SUFFICES ASSUME Types2, ClearOrder, InOrder, InOrder', resets = 0 => QueueOrder, [Next]_vars,
                      resets' = 0
               PROVE  QueueOrder'
    OBVIOUS
  <1>1. resets' = resets \/ resets' = resets + 1
    BY DEF Next, AEngine, BEngine, AApp, ACall, ACalled, APush, AKick, ARecv, AReset,
           AResetDone, AClear, ACleared, BApp, BListen, BAnswer, BPush, BKick, BRecv, BReset,
           BResetDone, BClear, BCleared, World, vars, history
  <1>2. resets = 0 /\ UNCHANGED resets /\ resets \in Nat /\ Orderly /\ QueueOrder
    BY <1>1 DEF InOrder
  <1>3. CASE UNCHANGED vars
    BY <1>2, <1>3, RestQueue DEF vars, aVars, bVars
  <1> QED BY <1>2, <1>3, AEngineQueue, BEngineQueue, AAppQueue, BAppQueue, WorldQueue DEF Next

LEMMA QueueOrderAlways == Spec => [](resets = 0 => QueueOrder)
  BY InitQueue, NextQueue, TypesAlways, ClearOrderAlways, InOrderAlways, PTL DEF Spec

-----------------------------------------------------------------------------
(* The theorems. *)

(* Whatever parameters the two programs start with, whatever they do and   *)
(* whether or not the connection breaks, two connected ends use one modulo *)
(* and each sends with the packet size and window the other receives with  *)
(* (create_call_request, create_call_accept, negotiate_calling_params and  *)
(* negotiate_called_params in x25/vc.rs).                                  *)
THEOREM ParamsAgreeAlways == Spec => []ParamsAgree
  BY AgreedAlways, AgreedImplies, PTL

(* A circuit of a call has never more packets unacknowledged than its      *)
(* window, whatever the other end does (Window in x25/seq.rs as vc.rs uses *)
(* it): what X25VcProofs proves of a circuit whose peer may send anything  *)
(* holds of both ends of a call.                                           *)
THEOREM BothRespectWindows == Spec => [](A!WindowRespected /\ B!WindowRespected)
  <1>1. Types2 => A!WindowRespected /\ B!WindowRespected
    BY DEF Types2, AP!IInv, BP!IInv, AP!CircuitOK, BP!CircuitOK, A!WindowRespected, B!WindowRespected,
           AP!WindowRespected, BP!WindowRespected, A!Outstanding, AP!Outstanding,
           B!Outstanding, BP!Outstanding, A!Dist, AP!Dist, B!Dist, BP!Dist
  <1> QED BY <1>1, TypesAlways, PTL

(* As long as no application resets the call, no end ever finds a send or  *)
(* receive sequence number of the other invalid, which is what would make  *)
(* it ask for a reset: for every modulo, every pair of windows, every      *)
(* packet size and however data and acknowledgments cross                  *)
(* (update_recv_seq, update_send_window and send_queued_data in x25/vc.rs).*)
THEOREM NeverOutOfStepAlways == Spec => [](resets = 0 => NeverOutOfStep)
  <1>1. InOrder => (resets = 0 => NeverOutOfStep)
    BY DEF InOrder, Orderly, Calm, NoReset, NeverOutOfStep, Types
  <1> QED BY <1>1, InOrderAlways, PTL

(* Nor is more data under way to an end than the window it negotiated: the *)
(* credit the sender has is what the receiver's numbers say it has         *)
(* (Window::is_open in x25/seq.rs, the window sizes of the negotiation).   *)
THEOREM InFlightWithinWindowAlways == Spec => [](resets = 0 => InFlightWithinWindow)
  <1>1. Agreed /\ InOrder => (resets = 0 => InFlightWithinWindow)
    BY DEF Agreed, Mirrored, InOrder, Orderly, Room, AOn, BOn, A!IsConnected, DataIn,
           DataUnderWay, InFlightWithinWindow
  <1> QED BY <1>1, AgreedAlways, InOrderAlways, PTL

(* Data waits in a send queue only behind a closed window, or until the    *)
(* application that queued it has sent it (send_queued_data, called from   *)
(* send and from the handlers of data and of acknowledgments).             *)
THEOREM QueuedDataWaitsAlways == Spec => [](resets = 0 => QueuedDataWaitsForWindow)
  <1>1. (resets = 0 => QueueOrder) => (resets = 0 => QueuedDataWaitsForWindow)
    BY DEF QueueOrder
  <1> QED BY <1>1, QueueOrderAlways, PTL

(* With resets, time-outs and broken connections too: an end that is       *)
(* Cleared on its own clear or time-out knows that the other has ended,    *)
(* for only a circuit that has ended confirms (cleared, clear_confirm and  *)
(* the handlers of x25/vc.rs).                                             *)
THEOREM ConfirmedClearEndsBothAlways == Spec => []ConfirmedClearEndsBoth
  <1>1. ClearOrder => ConfirmedClearEndsBoth
    BY DEF ClearOrder
  <1> QED BY <1>1, ClearOrderAlways, PTL
=============================================================================
