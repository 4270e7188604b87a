----------------------------- MODULE SeqProofs ------------------------------
(***************************************************************************)
(* What the proofs of several modules need: facts about sequence numbers   *)
(* and windows, for every modulo and size, and about sequences.            *)
(***************************************************************************)
EXTENDS X25Seq, Integers, SequencesExt, SequenceTheorems, WellFoundedInduction, TLAPS

(* Modulus of a number less than twice the modulo. *)
LEMMA ModOnce ==
    ASSUME NEW m \in Nat, m > 0, NEW a \in Nat, a < m + m
    PROVE  a % m = IF a < m THEN a ELSE a - m
  OBVIOUS

LEMMA MultipleIsLarge ==
    ASSUME NEW m \in Nat, NEW d \in Nat, d >= 1
    PROVE  m * d >= m
  OBVIOUS

(* s is what is left of x by a division by m. *)
Remains(x, m, s) == s \in SeqNos(m) /\ \E k \in Int : x = (m * k) + s

LEMMA RemainderExists ==
    ASSUME NEW m \in Nat, m > 0, NEW x \in Nat
    PROVE  Remains(x, m, x % m)
  <1>1. /\ x \div m \in Int
        /\ x % m \in SeqNos(m)
        /\ x = (m * (x \div m)) + (x % m)
    BY DEF SeqNos
  <1> QED BY <1>1 DEF Remains

LEMMA RemainderUnique ==
    ASSUME NEW m \in Nat, m > 0, NEW x \in Nat, NEW s, NEW t,
           Remains(x, m, s), Remains(x, m, t)
    PROVE  s = t
  <1>1. PICK k \in Int : x = (m * k) + s
    BY DEF Remains
  <1>2. PICK l \in Int : x = (m * l) + t
    BY DEF Remains
  <1>3. s \in SeqNos(m) /\ t \in SeqNos(m)
    BY DEF Remains
  <1>4. CASE k - l >= 1
    <2>1. m * (k - l) >= m
      BY <1>4, MultipleIsLarge
    <2>2. m * (k - l) = t - s
      BY <1>1, <1>2, <1>3 DEF SeqNos
    <2> QED BY <1>3, <2>1, <2>2 DEF SeqNos
  <1>5. CASE l - k >= 1
    <2>1. m * (l - k) >= m
      BY <1>5, MultipleIsLarge
    <2>2. m * (l - k) = s - t
      BY <1>1, <1>2, <1>3 DEF SeqNos
    <2> QED BY <1>3, <2>1, <2>2 DEF SeqNos
  <1>6. CASE k = l
    BY <1>1, <1>2, <1>3, <1>6 DEF SeqNos
  <1> QED BY <1>4, <1>5, <1>6

(* Adding less than a modulo to a count moves its number as far around. *)
LEMMA ModAdd ==
    ASSUME NEW m \in Nat, m > 1, NEW a \in Nat, NEW d \in Nat, d < m
    PROVE  (a + d) % m = IF (a % m) + d < m THEN (a % m) + d ELSE (a % m) + d - m
  <1> DEFINE r == a % m
             s == IF r + d < m THEN r + d ELSE r + d - m
  <1>1. r \in SeqNos(m) /\ Remains(a, m, r)
    <2>1. Remains(a, m, a % m)
      BY RemainderExists
    <2> QED BY <2>1 DEF Remains
  <1>2. PICK k \in Int : a = (m * k) + r
    BY <1>1 DEF Remains
  <1> HIDE DEF r
  <1>3. s \in SeqNos(m)
    BY <1>1 DEF SeqNos
  <1>4. a + d = (m * k) + s \/ a + d = (m * (k + 1)) + s
    BY <1>1, <1>2 DEF SeqNos
  <1>5. k + 1 \in Int
    OBVIOUS
  <1> HIDE DEF s
  <1>6. Remains(a + d, m, s)
    BY <1>2, <1>3, <1>4, <1>5 DEF Remains
  <1>7. Remains(a + d, m, (a + d) % m)
    BY RemainderExists
  <1>8. s = (a + d) % m
    BY <1>6, <1>7, RemainderUnique
  <1> QED BY <1>8 DEF s, r

LEMMA NextSeqType ==
    ASSUME NEW m \in Nat, m > 0, NEW s \in SeqNos(m)
    PROVE  NextSeq(s, m) \in SeqNos(m)
  BY ModOnce DEF NextSeq, SeqNos

(* No sum of the window arithmetic leaves a u8 (next_seq, is_open in       *)
(* x25/seq.rs), whatever the window, since a modulo is at most 128.        *)
THEOREM WindowFitsU8 ==
    ASSUME NEW m \in 2 .. 128, NEW w \in Windows(m)
    PROVE  w.start + w.size \in 0 .. 255 /\ w.current + 1 \in 0 .. 255
<1>1. w.start \in 0 .. 127 /\ w.current \in 0 .. 127 /\ w.size \in 0 .. 127
  BY DEF Windows, SeqNos
<1>2. PICK a \in 0 .. 127, b \in 0 .. 127, c \in 0 .. 127 : w.start = a /\ w.current = b /\ w.size = c
  BY <1>1, Zenon
<1>3. a + c \in 0 .. 255 /\ b + 1 \in 0 .. 255
  OBVIOUS
<1> QED BY <1>2, <1>3, Zenon

LEMMA NewWindowType ==
    ASSUME NEW m \in Nat, m > 1, NEW size \in Nat, WindowSizeOK(size, m)
    PROVE  NewWindow(size, m) \in Windows(m) /\ Outstanding(NewWindow(size, m)) = 0
  BY DEF NewWindow, Windows, WindowSizeOK, SeqNos, Outstanding, Dist

LEMMA DistType ==
    ASSUME NEW m \in Nat, m > 0, NEW s \in SeqNos(m), NEW t \in SeqNos(m)
    PROVE  Dist(s, t, m) \in SeqNos(m)
  BY DEF Dist, SeqNos

(* The window is closed just when the packets outstanding fill it. *)
LEMMA OpenIsRoom ==
    ASSUME NEW m \in Nat, m > 1, NEW w \in Windows(m)
    PROVE  IsOpen(w) <=> Outstanding(w) # w.size
  BY ModOnce DEF IsOpen, Outstanding, Dist, Windows, SeqNos

(* is_seq_in_range (x25/seq.rs) is the interval of the circle of sequence  *)
(* numbers it is meant to be: it accepts what lies between start and end,  *)
(* both included, going upwards from start, and nothing else - wrapped     *)
(* around or not, and whatever octet the peer sent.                        *)
THEOREM InRangeIsBetween ==
    ASSUME NEW m \in Nat, m > 1, NEW s \in SeqNos(m), NEW e \in SeqNos(m),
           NEW q \in Nat
    PROVE  IsSeqInRange(q, s, e, m)
              <=> q \in SeqNos(m) /\ Dist(s, q, m) <= Dist(s, e, m)
  BY DEF IsSeqInRange, Dist, SeqNos

LEMMA IncrOutstanding ==
    ASSUME NEW m \in Nat, m > 1, NEW w \in Windows(m),
           IsOpen(w), Outstanding(w) <= w.size
    PROVE  /\ Incr(w) \in Windows(m)
           /\ Incr(w) = [w EXCEPT !.current = NextSeq(w.current, m)]
           /\ Outstanding(Incr(w)) = Outstanding(w) + 1
           /\ Outstanding(Incr(w)) <= w.size
  <1>1. Incr(w) = [w EXCEPT !.current = NextSeq(w.current, m)]
    BY DEF Incr, Windows
  <1>2. Incr(w) \in Windows(m)
    BY <1>1, NextSeqType DEF Windows
  <1>3. Outstanding(w) < w.size
    BY OpenIsRoom, DistType DEF Outstanding, Windows, SeqNos
  <1>4. NextSeq(w.current, m) = IF w.current + 1 < m THEN w.current + 1 ELSE 0
    BY ModOnce DEF NextSeq, Windows, SeqNos
  <1>5. Outstanding(Incr(w)) = Dist(w.start, NextSeq(w.current, m), m)
    BY <1>1 DEF Outstanding, Windows
  <1>6. Dist(w.start, NextSeq(w.current, m), m) = Outstanding(w) + 1
    BY <1>3, <1>4 DEF Outstanding, Dist, Windows, SeqNos
  <1> QED BY <1>1, <1>2, <1>3, <1>5, <1>6, DistType DEF Outstanding, Windows, SeqNos

(* An acknowledgement that is accepted takes as many packets off those     *)
(* outstanding as it is ahead of start.                                    *)
LEMMA UpdateStartOutstanding ==
    ASSUME NEW m \in Nat, m > 1, NEW w \in Windows(m), NEW q \in Nat,
           StartAccepted(w, q)
    PROVE  /\ q \in SeqNos(m)
           /\ UpdateStart(w, q) = [w EXCEPT !.start = q]
           /\ UpdateStart(w, q) \in Windows(m)
           /\ Dist(w.start, q, m) <= Outstanding(w)
           /\ Outstanding(UpdateStart(w, q)) = Outstanding(w) - Dist(w.start, q, m)
  <1>1. /\ q \in SeqNos(m)
        /\ Dist(w.start, q, m) <= Outstanding(w)
    BY InRangeIsBetween DEF StartAccepted, Outstanding, Windows
  <1>2. UpdateStart(w, q) = [w EXCEPT !.start = q]
    BY DEF UpdateStart
  <1>3. UpdateStart(w, q) \in Windows(m)
    BY <1>1, <1>2 DEF Windows
  <1>4. Outstanding(UpdateStart(w, q)) = Dist(q, w.current, m)
    BY <1>2 DEF Outstanding, Windows
  <1>5. Dist(q, w.current, m) = Outstanding(w) - Dist(w.start, q, m)
    BY <1>1 DEF Outstanding, Dist, Windows, SeqNos
  <1> QED BY <1>1, <1>2, <1>3, <1>4, <1>5

-----------------------------------------------------------------------------
(* Sequences. *)

(* Induction by a least counterexample: the induction rules of the library *)
(* need the predicate as a parameter.                                      *)
LEMMA LeastNumber ==
    ASSUME NEW T \in SUBSET Nat, T # {}
    PROVE  \E x \in T : \A y \in T : x <= y
<1>1. PICK x \in T : \A y \in T : ~ (<<y, x>> \in OpToRel(<, Nat))
  BY NatLessThanWellFounded, WFMin, Zenon
<1>2. \A y \in T : ~(y < x)
  BY <1>1, Zenon DEF OpToRel
<1> QED BY <1>2

LEMMA AppendIs ==
    ASSUME NEW S, NEW q \in Seq(S), NEW e \in S
    PROVE  /\ Append(q, e) \in Seq(S)
           /\ Len(Append(q, e)) = Len(q) + 1
           /\ Len(q) \in Nat
           /\ \A i \in 1 .. Len(q) : Append(q, e)[i] = q[i]
           /\ Append(q, e)[Len(q) + 1] = e
  OBVIOUS

LEMMA TailIs ==
    ASSUME NEW S, NEW q \in Seq(S), q # <<>>
    PROVE  /\ Tail(q) \in Seq(S) /\ Head(q) \in S /\ Head(q) = q[1]
           /\ Len(Tail(q)) = Len(q) - 1
           /\ Len(q) \in Nat \ {0}
           /\ \A i \in 1 .. Len(q) - 1 : Tail(q)[i] = q[i + 1]
  OBVIOUS

LEMMA PrefixIs ==
    ASSUME NEW S, NEW q \in Seq(S), NEW n \in 0 .. Len(q)
    PROVE  /\ SubSeq(q, 1, n) \in Seq(S)
           /\ Len(SubSeq(q, 1, n)) = n
           /\ \A i \in 1 .. n : SubSeq(q, 1, n)[i] = q[i]
<1>1. \A i \in 1 .. n : q[i] \in S
  OBVIOUS
<1>2. n \in Int /\ 1 \in Int /\ n >= 0
  OBVIOUS
<1>3. /\ SubSeq(q, 1, n) \in Seq(S)
      /\ Len(SubSeq(q, 1, n)) = IF 1 <= n THEN n - 1 + 1 ELSE 0
      /\ \A i \in 1 .. n - 1 + 1 : SubSeq(q, 1, n)[i] = q[1 + i - 1]
  BY <1>1, <1>2, SubSeqProperties
<1> QED BY <1>2, <1>3

LEMMA FrontIs ==
    ASSUME NEW S, NEW q \in Seq(S), q # <<>>
    PROVE  Front(q) = SubSeq(q, 1, Len(q) - 1) /\ Len(q) - 1 \in 0 .. Len(q)
  BY DEF Front

(* A sequence cut in two is its parts joined. *)
LEMMA CutIs ==
    ASSUME NEW S, NEW q \in Seq(S), NEW n \in 0 .. Len(q)
    PROVE  /\ SubSeq(q, 1, n) \in Seq(S) /\ SubSeq(q, n + 1, Len(q)) \in Seq(S)
           /\ SubSeq(q, 1, n) \o SubSeq(q, n + 1, Len(q)) = q
<1>1. SubSeq(q, 1, Len(q)) = q
  BY SubSeqFull
<1>2. 1 \in 1 .. Len(q) + 1 /\ n \in 1 - 1 .. Len(q) /\ Len(q) \in n .. Len(q)
  OBVIOUS
<1>3. SubSeq(q, 1, n) \o SubSeq(q, n + 1, Len(q)) = SubSeq(q, 1, Len(q))
  BY <1>2, ConcatAdjacentSubSeq
<1>4. SubSeq(q, n + 1, Len(q)) \in Seq(S)
  <2>1. \A i \in n + 1 .. Len(q) : q[i] \in S
    OBVIOUS
  <2>2. n + 1 \in Int /\ Len(q) \in Int
    OBVIOUS
  <2> QED BY <2>1, <2>2, SubSeqProperties
<1> QED BY <1>1, <1>3, <1>4, PrefixIs

LEMMA SuffixIs ==
    ASSUME NEW S, NEW q \in Seq(S), NEW n \in 0 .. Len(q)
    PROVE  /\ SubSeq(q, n + 1, Len(q)) \in Seq(S)
           /\ Len(SubSeq(q, n + 1, Len(q))) = Len(q) - n
           /\ \A i \in 1 .. Len(q) - n : SubSeq(q, n + 1, Len(q))[i] = q[n + i]
<1>1. \A i \in n + 1 .. Len(q) : q[i] \in S
  OBVIOUS
<1>2. n + 1 \in Int /\ Len(q) \in Int /\ n \in Int /\ n <= Len(q)
  OBVIOUS
<1> DEFINE m == n + 1
           s == SubSeq(q, m, Len(q))
<1>3. m \in Int /\ Len(q) \in Int /\ \A i \in m .. Len(q) : q[i] \in S
  BY <1>1, <1>2
<1> HIDE DEF m
<1>4. /\ s \in Seq(S)
      /\ Len(s) = (IF m <= Len(q) THEN Len(q) - m + 1 ELSE 0)
      /\ \A i \in 1 .. Len(q) - m + 1 : s[i] = q[m + i - 1]
  BY <1>3, SubSeqProperties
<1> HIDE DEF s
<1>5. m = n + 1
  BY DEF m
<1>6. Len(s) = Len(q) - n /\ \A i \in 1 .. Len(q) - n : s[i] = q[n + i]
  BY <1>2, <1>4, <1>5
<1> QED BY <1>4, <1>6 DEF s, m

LEMMA JoinIs ==
    ASSUME NEW S, NEW q \in Seq(S), NEW r \in Seq(S)
    PROVE  /\ q \o r \in Seq(S) /\ Len(q \o r) = Len(q) + Len(r)
           /\ Len(q) \in Nat /\ Len(r) \in Nat
           /\ \A i \in 1 .. Len(q) : (q \o r)[i] = q[i]
           /\ \A i \in 1 .. Len(r) : (q \o r)[Len(q) + i] = r[i]
  OBVIOUS

LEMMA NoneJoined ==
    ASSUME NEW S, NEW a \in Seq(S)
    PROVE  a \o <<>> = a /\ <<>> \o a = a
  OBVIOUS

LEMMA SameStart ==
    ASSUME NEW S, NEW q \in Seq(S), NEW r \in Seq(S), NEW u \in Seq(S), NEW v \in Seq(S),
           q \o u = r \o v, Len(q) = Len(r)
    PROVE  q = r /\ u = v
<1>1. \A i \in 1 .. Len(q) : q[i] = r[i]
  BY JoinIs
<1>2. q = r
  BY <1>1, SeqEqual
<1>3. Len(u) = Len(v)
  BY JoinIs
<1>4. \A i \in 1 .. Len(u) : u[i] = v[i]
  <2>1. \A i \in 1 .. Len(u) : (q \o u)[Len(q) + i] = u[i]
    OBVIOUS
  <2>2. \A i \in 1 .. Len(v) : (r \o v)[Len(r) + i] = v[i]
    OBVIOUS
  <2> QED BY <1>3, <2>1, <2>2
<1>5. u = v
  BY <1>3, <1>4, SeqEqual
<1> QED BY <1>2, <1>5

LEMMA PairsJoin ==
    ASSUME NEW a, NEW b, NEW c, NEW d
    PROVE  <<a, b>> \o <<c, d>> = <<a, b, c, d>>
<1> DEFINE S == {a, b, c, d}
           q == <<a, b>>
           r == <<c, d>>
           t == <<a, b, c, d>>
<1>1. q \in Seq(S) /\ r \in Seq(S) /\ t \in Seq(S)
  OBVIOUS
<1>2. /\ Len(q) = 2 /\ Len(r) = 2 /\ Len(t) = 4 /\ q[1] = a /\ q[2] = b /\ r[1] = c /\ r[2] = d
      /\ t[1] = a /\ t[2] = b /\ t[3] = c /\ t[4] = d
  OBVIOUS
<1> HIDE DEF q, r, t, S
<1>3. Len(q \o r) = Len(q) + Len(r) /\ q \o r \in Seq(S)
  BY <1>1
<1>4. /\ \A i \in 1 .. Len(q) : (q \o r)[i] = q[i]
      /\ \A i \in 1 .. Len(r) : (q \o r)[Len(q) + i] = r[i]
  BY <1>1
<1> DEFINE j == q \o r
<1>5. /\ j \in Seq(S) /\ Len(j) = Len(q) + Len(r)
      /\ \A i \in 1 .. Len(q) : j[i] = q[i]
      /\ \A i \in 1 .. Len(r) : j[Len(q) + i] = r[i]
  BY <1>3, <1>4
<1> HIDE DEF j
<1>6. Len(j) = 4 /\ \A i \in 1 .. 4 : j[i] = t[i]
  <2>1. 1 \in 1 .. 2 /\ 2 \in 1 .. 2
    OBVIOUS
  <2>2. j[1] = a /\ j[2] = b /\ j[2 + 1] = c /\ j[2 + 2] = d
    BY <1>2, <1>5, <2>1
  <2> QED BY <1>2, <1>5, <2>2
<1>7. j = t
  BY <1>1, <1>2, <1>5, <1>6, SeqEqual
<1> QED BY <1>7 DEF q, r, t, j

LEMMA PrefixJoined ==
    ASSUME NEW S, NEW a \in Seq(S), NEW b \in Seq(S), NEW c, c = a \o b
    PROVE  IsPrefix(a, c)
<1> DEFINE s == SubSeq(c, 1, Len(a))
<1>1. c \in Seq(S) /\ Len(c) = Len(a) + Len(b) /\ Len(a) \in Nat /\ Len(b) \in Nat
      /\ \A i \in 1 .. Len(a) : c[i] = a[i]
  OBVIOUS
<1>2. Len(a) \in 0 .. Len(c) /\ Len(a) <= Len(c)
  BY <1>1
<1>3. s \in Seq(S) /\ Len(s) = Len(a) /\ \A i \in 1 .. Len(a) : s[i] = c[i]
  BY <1>1, <1>2, PrefixIs
<1> HIDE DEF s
<1>4. s = a
  BY <1>1, <1>3, SeqEqual
<1>5. SubSeq(a, 1, Len(a)) = a
  BY SubSeqFull
<1> QED BY <1>2, <1>4, <1>5 DEF IsPrefix, s

(* A name for \o, which the provers expand otherwise and then do not       *)
(* recognise in a lemma that is cited.                                     *)
Cat(s, t) == s \o t

LEMMA Regroup ==
    ASSUME NEW S, NEW a \in Seq(S), NEW b \in Seq(S), NEW c \in Seq(S), NEW d \in Seq(S)
    PROVE  /\ Cat(Cat(Cat(a, b), c), d) = Cat(Cat(a, Cat(b, c)), d)
           /\ Cat(Cat(Cat(a, b), c), d) = Cat(Cat(a, b), Cat(c, d))
           /\ Cat(a, b) \in Seq(S) /\ Cat(Cat(a, b), c) \in Seq(S)
           /\ Cat(Cat(Cat(a, b), c), d) \in Seq(S)
<1> DEFINE ab == a \o b
           abc == ab \o c
<1>1. ab \in Seq(S)
  OBVIOUS
<1>2. (a \o b) \o c = a \o (b \o c)
  BY SMTT(20)
<1> HIDE DEF ab
<1>3. abc \in Seq(S)
  BY <1>1
<1>4. (ab \o c) \o d = ab \o (c \o d)
  BY <1>1
<1> HIDE DEF abc
<1>5. abc \o d \in Seq(S)
  BY <1>3
<1> QED BY <1>1, <1>2, <1>3, <1>4, <1>5, Zenon DEF ab, abc, Cat

LEMMA CatType ==
    ASSUME NEW S, NEW a \in Seq(S), NEW b \in Seq(S), NEW c \in Seq(S)
    PROVE  Cat(a, b) \in Seq(S) /\ Cat(Cat(a, b), c) \in Seq(S)
           /\ Cat(Cat(a, b), c) = Cat(a, Cat(b, c))
  BY DEF Cat

LEMMA CatLeft ==
    ASSUME NEW S, NEW a \in Seq(S), NEW b \in Seq(S), NEW c \in Seq(S), NEW d \in Seq(S)
    PROVE  Cat(Cat(Cat(a, b), c), d) = Cat(a, Cat(Cat(b, c), d))
<1>1. Cat(Cat(Cat(a, b), c), d) = Cat(Cat(a, Cat(b, c)), d)
  BY Regroup
<1>2. Cat(b, c) \in Seq(S)
  BY CatType
<1>3. Cat(Cat(a, Cat(b, c)), d) = Cat(a, Cat(Cat(b, c), d))
  BY <1>2, CatType
<1> QED BY <1>1, <1>3

-----------------------------------------------------------------------------
(* FlattenSeq. *)

(* g is what FlattenSeq computes on its way through the first n of seqs. *)
Flattens(g, seqs, n) ==
    g = [i \in 1 .. n |-> IF i = 1 THEN seqs[i] ELSE g[i - 1] \o seqs[i]]

LEMMA FlattensExist ==
    ASSUME NEW seqs, NEW n \in Nat
    PROVE  \E g : Flattens(g, seqs, n)
<1> DEFINE Bad == {k \in Nat : ~ \E g : Flattens(g, seqs, k)}
<1> SUFFICES ASSUME Bad # {} PROVE FALSE
  OBVIOUS
<1>1. PICK k \in Bad : \A j \in Bad : k <= j
  BY LeastNumber, Zenon
<1>2. k # 0
  <2> SUFFICES \E g : Flattens(g, seqs, 0)
    OBVIOUS
  <2> DEFINE g == [i \in 1 .. 0 |-> i]
  <2>1. Flattens(g, seqs, 0)
    BY DEF Flattens
  <2> QED BY <2>1
<1>3. k \in Nat /\ k - 1 \in Nat /\ k - 1 \notin Bad
  BY <1>1, <1>2
<1>4. PICK g : Flattens(g, seqs, k - 1)
  BY <1>3
<1> DEFINE next(i) == IF i = 1 THEN seqs[i] ELSE g[i - 1] \o seqs[i]
           h == [i \in 1 .. k |-> next(i)]
<1>5. \A i \in 1 .. k - 1 : g[i] = next(i)
  BY <1>4 DEF Flattens
<1>6. \A i \in 1 .. k - 1 : h[i] = g[i]
  BY <1>3, <1>5
<1>7. \A i \in 1 .. k : h[i] = next(i)
  OBVIOUS
<1>8. h = [i \in 1 .. k |-> h[i]]
  OBVIOUS
<1> HIDE DEF h
<1>9. \A i \in 1 .. k : i # 1 => i - 1 \in 1 .. k - 1
  BY <1>3
<1>10. \A i \in 1 .. k : h[i] = IF i = 1 THEN seqs[i] ELSE h[i - 1] \o seqs[i]
  BY <1>6, <1>7, <1>9
<1>11. Flattens(h, seqs, k)
  BY <1>8, <1>10 DEF Flattens
<1> QED BY <1>1, <1>11

LEMMA FlattensAgree ==
    ASSUME NEW s, NEW t, NEW n \in Nat, NEW m \in Nat, n <= m,
           \A i \in 1 .. n : s[i] = t[i],
           NEW g, Flattens(g, s, n), NEW h, Flattens(h, t, m)
    PROVE  \A i \in 1 .. n : g[i] = h[i]
<1>a. \A i \in 1 .. n : i \in Nat /\ i \in 1 .. m /\ (i # 1 => i - 1 \in 1 .. n)
  OBVIOUS
<1>b. \A i \in 1 .. n : g[i] = IF i = 1 THEN s[i] ELSE g[i - 1] \o s[i]
  BY DEF Flattens
<1>c. \A i \in 1 .. m : h[i] = IF i = 1 THEN t[i] ELSE h[i - 1] \o t[i]
  BY DEF Flattens
<1> DEFINE Bad == {i \in 1 .. n : g[i] # h[i]}
<1> SUFFICES ASSUME Bad # {} PROVE FALSE
  OBVIOUS
<1>1. Bad \in SUBSET Nat
  BY <1>a
<1>2. PICK i \in Bad : \A j \in Bad : i <= j
  BY <1>1, LeastNumber, Zenon
<1>3. i \in 1 .. n /\ i \in Nat /\ g[i] # h[i]
  BY <1>a
<1>4. i # 1 => i - 1 \notin Bad
  BY <1>2, <1>3
<1>5. i # 1 => g[i - 1] = h[i - 1]
  BY <1>3, <1>4, <1>a
<1> QED BY <1>3, <1>5, <1>a, <1>b, <1>c

LEMMA FlattenIs ==
    ASSUME NEW s, Len(s) \in Nat \ {0}, NEW g, Flattens(g, s, Len(s))
    PROVE  FlattenSeq(s) = g[Len(s)]
<1> DEFINE f == CHOOSE f : f = [i \in 1 .. Len(s) |-> IF i = 1 THEN s[i] ELSE f[i - 1] \o s[i]]
<1>1. FlattenSeq(s) = f[Len(s)]
  BY DEF FlattenSeq
<1>2. Len(s) \in Nat /\ Len(s) <= Len(s) /\ Len(s) \in 1 .. Len(s)
  OBVIOUS
<1>3. Flattens(f, s, Len(s))
  BY <1>2, FlattensExist DEF Flattens
<1> HIDE DEF f
<1>5. \A i \in 1 .. Len(s) : f[i] = g[i]
  <2> DEFINE n == Len(s)
             t == s
  <2>1. n \in Nat /\ n <= n /\ Flattens(f, s, n) /\ Flattens(g, t, n) /\ \A i \in 1 .. n : s[i] = t[i]
    BY <1>2, <1>3
  <2> HIDE DEF n, t
  <2>2. \A i \in 1 .. n : f[i] = g[i]
    BY <2>1, FlattensAgree, SMTT(20)
  <2> QED BY <2>2 DEF n
<1> QED BY <1>1, <1>2, <1>5

LEMMA FlattenNone == FlattenSeq(<<>>) = <<>>
  BY DEF FlattenSeq

LEMMA FlattenType ==
    ASSUME NEW S, NEW s \in Seq(Seq(S))
    PROVE  FlattenSeq(s) \in Seq(S)
<1>1. CASE Len(s) = 0
  BY <1>1 DEF FlattenSeq
<1>2. CASE Len(s) # 0
  <2>0. Len(s) \in Nat /\ \A i \in 1 .. Len(s) : s[i] \in Seq(S)
    OBVIOUS
  <2>1. PICK g : Flattens(g, s, Len(s))
    BY <2>0, FlattensExist, Zenon
  <2> DEFINE Bad == {i \in 1 .. Len(s) : g[i] \notin Seq(S)}
  <2>2. Bad = {}
    <3> SUFFICES ASSUME Bad # {} PROVE FALSE
      OBVIOUS
    <3>1. Bad \in SUBSET Nat
      OBVIOUS
    <3>2. PICK i \in Bad : \A j \in Bad : i <= j
      BY <3>1, LeastNumber, Zenon
    <3>3. i \in 1 .. Len(s) /\ i \in Nat /\ g[i] \notin Seq(S) /\ s[i] \in Seq(S)
      BY <2>0
    <3>4. g[i] = IF i = 1 THEN s[i] ELSE g[i - 1] \o s[i]
      BY <2>1, <3>3 DEF Flattens
    <3>5. i # 1 => i - 1 \in 1 .. Len(s) /\ i - 1 \notin Bad
      BY <3>2, <3>3, <2>0
    <3>6. i # 1 => g[i - 1] \in Seq(S)
      BY <3>5
    <3> QED BY <3>3, <3>4, <3>6
  <2>3. FlattenSeq(s) = g[Len(s)]
    BY <1>2, <2>1, FlattenIs
  <2>4. Len(s) \in 1 .. Len(s)
    BY <1>2
  <2> QED BY <2>2, <2>3, <2>4
<1> QED BY <1>1, <1>2

(* One more sequence is joined at the end. *)
LEMMA FlattenAppend ==
    ASSUME NEW S, NEW s \in Seq(Seq(S)), NEW x \in Seq(S)
    PROVE  FlattenSeq(Append(s, x)) = FlattenSeq(s) \o x
<1> DEFINE t == Append(s, x)
           n == Len(s)
<1>1. /\ t \in Seq(Seq(S)) /\ Len(t) = n + 1 /\ n \in Nat
      /\ \A i \in 1 .. n : t[i] = s[i]
      /\ t[n + 1] = x
  OBVIOUS
<1> HIDE DEF t
<1>2. n + 1 \in Nat \ {0} /\ n <= n + 1 /\ n + 1 \in 1 .. n + 1
  BY <1>1
<1>3. PICK g : Flattens(g, t, n + 1)
  BY <1>2, FlattensExist, Zenon
<1>4. FlattenSeq(t) = g[n + 1]
  <2>1. Len(t) \in Nat \ {0} /\ Flattens(g, t, Len(t))
    BY <1>1, <1>2, <1>3
  <2> QED BY <1>1, <2>1, FlattenIs
<1>5. g[n + 1] = IF n + 1 = 1 THEN x ELSE g[n + 1 - 1] \o x
  <2> DEFINE m == n + 1
  <2>1. m \in 1 .. m /\ t[m] = x
    BY <1>1, <1>2
  <2>2. g = [i \in 1 .. m |-> IF i = 1 THEN t[i] ELSE g[i - 1] \o t[i]]
    BY <1>3 DEF Flattens
  <2> HIDE DEF m
  <2>3. g[m] = IF m = 1 THEN x ELSE g[m - 1] \o x
    BY <2>1, <2>2
  <2> QED BY <2>3 DEF m
<1>6. CASE n = 0
  <2>1. s = <<>> /\ g[n + 1] = x /\ <<>> \o x = x
    BY <1>5, <1>6
  <2> QED BY <1>4, <2>1, FlattenNone DEF t
<1>7. CASE n # 0
  <2>1. PICK h : Flattens(h, s, n)
    BY <1>1, FlattensExist, Zenon
  <2>2. FlattenSeq(s) = h[n]
    BY <1>1, <1>7, <2>1, FlattenIs
  <2>3. \A i \in 1 .. n : h[i] = g[i]
    <3>1. \A i \in 1 .. n : s[i] = t[i]
      BY <1>1
    <3> DEFINE m == n + 1
    <3>2. n \in Nat /\ m \in Nat /\ n <= m /\ Flattens(g, t, m) /\ Flattens(h, s, n)
      BY <1>1, <1>3, <2>1
    <3> HIDE DEF n, m
    <3> QED BY <3>1, <3>2, FlattensAgree, SMTT(20)
  <2>4. n \in 1 .. n /\ n + 1 # 1 /\ n + 1 - 1 = n
    BY <1>1, <1>7
  <2>5. g[n + 1] = g[n] \o x
    BY <1>5, <2>4
  <2> QED BY <1>4, <2>2, <2>3, <2>4, <2>5 DEF t
<1> QED BY <1>6, <1>7

(* A nonempty sequence is its last element appended to the others. *)
LEMMA LastIs ==
    ASSUME NEW S, NEW q \in Seq(S), q # <<>>
    PROVE  \E p \in Seq(S), x \in S : q = Append(p, x) /\ Len(q) = Len(p) + 1
<1> DEFINE n == Len(q)
           p == SubSeq(q, 1, n - 1)
<1>1. n \in Nat \ {0} /\ q[n] \in S /\ n - 1 \in 0 .. Len(q) /\ n - 1 + 1 = n
  OBVIOUS
<1>2. p \in Seq(S) /\ Len(p) = n - 1 /\ \A i \in 1 .. n - 1 : p[i] = q[i]
  BY <1>1, PrefixIs
<1> HIDE DEF p
<1>3. /\ Append(p, q[n]) \in Seq(S) /\ Len(Append(p, q[n])) = n
      /\ \A i \in 1 .. n - 1 : Append(p, q[n])[i] = p[i]
      /\ Append(p, q[n])[n] = q[n]
  <2>1. n - 1 = Len(p) /\ n = Len(p) + 1
    BY <1>1, <1>2
  <2> HIDE DEF n
  <2> QED BY <1>1, <1>2, <2>1, AppendIs
<1>4. \A i \in 1 .. n : Append(p, q[n])[i] = q[i]
  BY <1>1, <1>2, <1>3
<1>5. q = Append(p, q[n])
  BY <1>3, <1>4, SeqEqual
<1> QED BY <1>1, <1>2, <1>5

LEMMA EndsOfAppend ==
    ASSUME NEW S, NEW p \in Seq(S), NEW x \in S, p # <<>>
    PROVE  Head(Append(p, x)) = Head(p) /\ Tail(Append(p, x)) = Append(Tail(p), x)
  OBVIOUS

LEMMA FlattenJoin ==
    ASSUME NEW S, NEW p \in Seq(Seq(S)), NEW x \in Seq(S), p # <<>>
    PROVE  (Head(p) \o FlattenSeq(Tail(p))) \o x = Head(p) \o (FlattenSeq(Tail(p)) \o x)
<1>1. \A q, r, t \in Seq(S) : Cat(Cat(q, r), t) = Cat(q, Cat(r, t))
  BY CatType
<1>2. Head(p) \in Seq(S) /\ FlattenSeq(Tail(p)) \in Seq(S)
  BY TailIs, FlattenType
<1> QED BY <1>1, <1>2, Zenon DEF Cat

LEMMA AppendJoined ==
    ASSUME NEW S, NEW s \in Seq(S), NEW p \in Seq(S), NEW x \in S
    PROVE  s \o Append(p, x) = Append(s \o p, x)
  OBVIOUS

LEMMA FlattenRegroup ==
    ASSUME NEW S, NEW s \in Seq(Seq(S)), NEW p \in Seq(Seq(S)), NEW x \in Seq(S)
    PROVE  (FlattenSeq(s) \o FlattenSeq(p)) \o x = FlattenSeq(s) \o (FlattenSeq(p) \o x)
<1>1. \A q, r, t \in Seq(S) : Cat(Cat(q, r), t) = Cat(q, Cat(r, t))
  BY CatType
<1>2. FlattenSeq(s) \in Seq(S) /\ FlattenSeq(p) \in Seq(S)
  BY FlattenType
<1> QED BY <1>1, <1>2, Zenon DEF Cat

(* ... and at the beginning. *)
LEMMA FlattenHead ==
    ASSUME NEW S, NEW s \in Seq(Seq(S)), s # <<>>
    PROVE  FlattenSeq(s) = Head(s) \o FlattenSeq(Tail(s))
<1> DEFINE Splits(q) == FlattenSeq(q) = Head(q) \o FlattenSeq(Tail(q))
           Bad == {n \in Nat : \E q \in Seq(Seq(S)) : Len(q) = n /\ q # <<>> /\ ~Splits(q)}
<1> SUFFICES ASSUME Bad # {} PROVE FALSE
  <2>1. Len(s) \in Nat
    OBVIOUS
  <2> QED BY <2>1
<1>1. PICK n \in Bad : \A m \in Bad : n <= m
  BY LeastNumber, Zenon
<1>2. PICK q \in Seq(Seq(S)) : Len(q) = n /\ q # <<>> /\ ~Splits(q)
  BY <1>1
<1>3. PICK p \in Seq(Seq(S)), x \in Seq(S) : q = Append(p, x) /\ Len(q) = Len(p) + 1
  BY <1>2, LastIs, Zenon
<1>4. FlattenSeq(q) = FlattenSeq(p) \o x
  BY <1>3, FlattenAppend
<1>5. CASE p = <<>>
  <2>1. Head(q) = x /\ Tail(q) = <<>> /\ <<>> \o x = x /\ x \o <<>> = x
    BY <1>3, <1>5
  <2> QED BY <1>2, <1>4, <1>5, <2>1, FlattenNone
<1>6. CASE p # <<>>
  <2>1. Len(p) \in Nat /\ n = Len(p) + 1 /\ ~(n <= Len(p))
    <3>1. Len(p) \in Nat /\ n = Len(p) + 1
      <4> HIDE DEF Bad
      <4> QED BY <1>2, <1>3
    <3> QED BY <3>1
  <2>2. Splits(p)
    <3>1. Len(p) \notin Bad
      BY <1>1, <2>1
    <3> HIDE DEF Splits
    <3> QED BY <1>6, <2>1, <3>1
  <2>3. Head(q) = Head(p) /\ Tail(q) = Append(Tail(p), x)
    BY <1>3, <1>6, EndsOfAppend
  <2>4. Tail(p) \in Seq(Seq(S)) /\ Head(p) \in Seq(S)
    BY <1>6, TailIs
  <2>5. FlattenSeq(Tail(p)) \in Seq(S)
    BY <2>4, FlattenType
  <2>6. FlattenSeq(Tail(q)) = FlattenSeq(Tail(p)) \o x
    BY <2>3, <2>4, FlattenAppend
  <2>7. (Head(p) \o FlattenSeq(Tail(p))) \o x = Head(p) \o (FlattenSeq(Tail(p)) \o x)
    BY <1>6, FlattenJoin, Zenon
  <2> QED BY <1>2, <1>4, <2>2, <2>3, <2>6, <2>7
<1> QED BY <1>5, <1>6

(* Joined sequences of sequences are joined. *)
LEMMA FlattenCatAppend ==
    ASSUME NEW S, NEW s \in Seq(Seq(S)), NEW p \in Seq(Seq(S)), NEW x \in Seq(S),
           FlattenSeq(s \o p) = FlattenSeq(s) \o FlattenSeq(p)
    PROVE  FlattenSeq(s \o Append(p, x)) = FlattenSeq(s) \o FlattenSeq(Append(p, x))
<1>1. s \o Append(p, x) = Append(s \o p, x)
  BY AppendJoined, SMTT(20)
<1>2. FlattenSeq(Append(s \o p, x)) = FlattenSeq(s \o p) \o x
  <2> DEFINE j == s \o p
  <2>1. j \in Seq(Seq(S))
    OBVIOUS
  <2> HIDE DEF j
  <2>2. FlattenSeq(Append(j, x)) = FlattenSeq(j) \o x
    BY <2>1, FlattenAppend
  <2> QED BY <2>2, Zenon DEF j
<1>3. FlattenSeq(Append(p, x)) = FlattenSeq(p) \o x
  BY FlattenAppend
<1>4. (FlattenSeq(s) \o FlattenSeq(p)) \o x = FlattenSeq(s) \o (FlattenSeq(p) \o x)
  BY FlattenRegroup, SMTT(20)
<1> QED BY <1>1, <1>2, <1>3, <1>4, Zenon

LEMMA FlattenCat ==
    ASSUME NEW S, NEW s \in Seq(Seq(S)), NEW t \in Seq(Seq(S))
    PROVE  FlattenSeq(s \o t) = FlattenSeq(s) \o FlattenSeq(t)
<1> DEFINE Splits(q) == FlattenSeq(s \o q) = FlattenSeq(s) \o FlattenSeq(q)
           Bad == {n \in Nat : \E q \in Seq(Seq(S)) : Len(q) = n /\ ~Splits(q)}
<1> SUFFICES ASSUME Bad # {} PROVE FALSE
  <2>1. Len(t) \in Nat
    OBVIOUS
  <2> QED BY <2>1
<1>1. PICK n \in Bad : \A m \in Bad : n <= m
  BY LeastNumber, Zenon
<1>2. PICK q \in Seq(Seq(S)) : Len(q) = n /\ ~Splits(q)
  BY <1>1
<1>3. CASE q = <<>>
  <2>1. s \o <<>> = s
    BY NoneJoined
  <2>2. FlattenSeq(s) \in Seq(S)
    BY FlattenType
  <2>3. FlattenSeq(s) \o <<>> = FlattenSeq(s)
    BY <2>2, NoneJoined
  <2> QED BY <1>2, <1>3, <2>1, <2>3, FlattenNone, Zenon
<1>4. CASE q # <<>>
  <2>1. PICK p \in Seq(Seq(S)), x \in Seq(S) : q = Append(p, x) /\ Len(q) = Len(p) + 1
    BY <1>4, LastIs, Zenon
  <2>2. Len(p) \in Nat /\ n = Len(p) + 1 /\ ~(n <= Len(p))
    <3> HIDE DEF Bad
    <3>1. Len(p) \in Nat /\ n = Len(p) + 1
      BY <1>2, <2>1
    <3> QED BY <3>1
  <2>3. Splits(p)
    <3>1. Len(p) \notin Bad
      BY <1>1, <2>2
    <3> HIDE DEF Splits
    <3> QED BY <2>2, <3>1
  <2>4. Splits(q)
    BY <2>1, <2>3, FlattenCatAppend
  <2> QED BY <1>2, <2>4
<1> QED BY <1>3, <1>4
=============================================================================
