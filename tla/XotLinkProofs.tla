--------------------------- MODULE XotLinkProofs ----------------------------
(***************************************************************************)
(* Sender and receiver of XotLink stay in step, a shutdown loses nothing,  *)
(* and the framing implements PacketChannel, for packets of any length,    *)
(* any number of them and any cutting of the stream.                       *)
(***************************************************************************)
EXTENDS XotLink, SeqProofs

Octet == 0 .. Base - 1

-----------------------------------------------------------------------------
(* A length in two octets. *)

LEMMA ProductGrows ==
    ASSUME NEW a \in Nat, NEW b \in Nat, NEW m \in Nat, a <= b
    PROVE  m * a <= m * b
<1>1. b - a \in Nat /\ m * (b - a) >= 0
  OBVIOUS
<1>2. m * (b - a) = m * b - m * a
  OBVIOUS
<1> QED BY <1>1, <1>2

LEMMA BasePositive == Base \in Nat /\ Base > 0
  BY LinkAssumption

LEMMA U16Is ==
    ASSUME NEW n \in Nat, n < Base * Base
    PROVE  /\ n \div Base \in Octet /\ n % Base \in Octet
           /\ ((n \div Base) * Base) + (n % Base) = n
<1>1. /\ n \div Base \in Nat /\ n % Base \in Octet
      /\ n = (Base * (n \div Base)) + (n % Base)
  BY BasePositive DEF Octet
<1>2. n \div Base < Base
  <2> SUFFICES ASSUME Base <= n \div Base PROVE FALSE
    BY <1>1, BasePositive
  <2>1. Base * Base <= Base * (n \div Base)
    BY <1>1, BasePositive, ProductGrows
  <2>2. n % Base >= 0 /\ Base * (n \div Base) \in Nat /\ Base * Base \in Nat
    BY <1>1, BasePositive DEF Octet
  <2> HIDE DEF Octet
  <2> QED BY <1>1, <2>1, <2>2 DEF Octet
<1>3. (n \div Base) * Base = Base * (n \div Base)
  BY <1>1, BasePositive
<1> QED BY <1>1, <1>2, <1>3, BasePositive DEF Octet

LEMMA U16Unique ==
    ASSUME NEW a \in Octet, NEW b \in Octet
    PROVE  /\ a * Base + b \in Nat
           /\ (a * Base + b) \div Base = a /\ (a * Base + b) % Base = b
<1> DEFINE n == a * Base + b
<1>1. n \in Nat /\ a \in Nat /\ b \in Nat /\ b < Base
  BY BasePositive DEF Octet
<1>2. b \in SeqNos(Base) /\ n = (Base * a) + b
  BY <1>1, BasePositive DEF SeqNos
<1>3. Remains(n, Base, b)
  BY <1>1, <1>2 DEF Remains
<1>4. n % Base = b
  <2>1. Remains(n, Base, n % Base)
    BY <1>1, BasePositive, RemainderExists
  <2> QED BY <1>1, <1>3, <2>1, BasePositive, RemainderUnique
<1>5. n = (Base * (n \div Base)) + (n % Base) /\ n \div Base \in Nat
  BY <1>1, BasePositive
<1>6. Base * (n \div Base) = Base * a
  BY <1>1, <1>2, <1>4, <1>5, BasePositive
<1>7. n \div Base = a
  <2> DEFINE q == n \div Base
  <2>1. q \in Nat /\ Base * q = Base * a
    BY <1>5, <1>6
  <2> HIDE DEF q
  <2>2. ASSUME q < a PROVE FALSE
    <3>1. Base * (q + 1) <= Base * a /\ Base * (q + 1) = Base * q + Base
      BY <1>1, <2>1, <2>2, BasePositive, ProductGrows
    <3> QED BY <2>1, <3>1, <1>1, BasePositive
  <2>3. ASSUME a < q PROVE FALSE
    <3>1. Base * (a + 1) <= Base * q /\ Base * (a + 1) = Base * a + Base
      BY <1>1, <2>1, <2>3, BasePositive, ProductGrows
    <3> QED BY <2>1, <3>1, <1>1, BasePositive
  <2>4. q = a
    <3>1. q < a \/ a < q \/ q = a
      BY <1>1, <2>1
    <3> QED BY <2>2, <2>3, <3>1
  <2> QED BY <2>4 DEF q
<1> QED BY <1>1, <1>4, <1>7

-----------------------------------------------------------------------------
(* Frames. *)

(* What the header says. *)
VersionOf(x) == x[1] * Base + x[2]
LengthOf(x)  == x[3] * Base + x[4]
Headed(x)    == x \in Seq(Octet) /\ Len(x) >= XOT_HEADER_LEN
Good(x)      == ~Refuses(VersionOf(x), LengthOf(x))

LEMMA ValidLength ==
    ASSUME NEW p \in Seq(Octet), Valid(p)
    PROVE  Len(p) \in Nat \ {0} /\ Len(p) < Base * Base /\ Len(p) \in MinLen .. MaxLen
  <1>1. Base * Base \in Nat
    BY BasePositive
  <1> QED BY <1>1, LinkAssumption DEF Valid

LEMMA EncodeIs ==
    ASSUME NEW p \in Seq(Octet), Valid(p)
    PROVE  /\ Encode(p) \in Seq(Octet) /\ Len(Encode(p)) = XOT_HEADER_LEN + Len(p)
           /\ VersionOf(Encode(p)) = 0 /\ LengthOf(Encode(p)) = Len(p)
           /\ \A i \in 1 .. Len(p) : Encode(p)[XOT_HEADER_LEN + i] = p[i]
           /\ SubSeq(Encode(p), XOT_HEADER_LEN + 1, Len(Encode(p))) = p
<1> DEFINE h == <<0, 0, Len(p) \div Base, Len(p) % Base>>
<1>1. /\ Len(p) \div Base \in Octet /\ Len(p) % Base \in Octet
      /\ ((Len(p) \div Base) * Base) + (Len(p) % Base) = Len(p)
  BY ValidLength, U16Is
<1>2. 0 \in Octet /\ 0 \div Base = 0 /\ 0 % Base = 0
  <2>1. 0 \in Octet
    BY BasePositive DEF Octet
  <2>2. 0 * Base + 0 = 0
    BY BasePositive
  <2> QED BY <2>1, <2>2, U16Unique
<1>3. h \in Seq(Octet) /\ Len(h) = 4 /\ h[1] = 0 /\ h[2] = 0
      /\ h[3] = Len(p) \div Base /\ h[4] = Len(p) % Base
  BY <1>1, <1>2
<1>4. U16(0) \o U16(Len(p)) = h
  BY <1>2, PairsJoin DEF U16
<1> HIDE DEF h
<1>5. Encode(p) = h \o p
  BY <1>4 DEF Encode
<1> DEFINE e == h \o p
<1>6. /\ e \in Seq(Octet) /\ Len(e) = 4 + Len(p) /\ Len(p) \in Nat
      /\ e[1] = 0 /\ e[2] = 0 /\ e[3] = h[3] /\ e[4] = h[4]
      /\ \A i \in 1 .. Len(p) : e[4 + i] = p[i]
  <2>1. /\ e \in Seq(Octet) /\ Len(e) = Len(h) + Len(p) /\ Len(p) \in Nat
        /\ \A i \in 1 .. Len(h) : e[i] = h[i]
        /\ \A i \in 1 .. Len(p) : e[Len(h) + i] = p[i]
    <3>1. h \in Seq(Octet)
      BY <1>3
    <3>2. e \in Seq(Octet)
      BY <3>1
    <3>3. Len(e) = Len(h) + Len(p)
      BY <3>1
    <3>4. Len(p) \in Nat /\ Len(h) \in Nat
      BY <3>1
    <3>5. \A i \in 1 .. Len(h) : e[i] = h[i]
      BY <3>1
    <3>6. \A i \in 1 .. Len(p) : e[Len(h) + i] = p[i]
      BY <3>1
    <3> QED BY <3>1, <3>2, <3>3, <3>4, <3>5, <3>6
  <2> HIDE DEF e
  <2> QED BY <1>3, <2>1
<1> HIDE DEF e
<1>8. SubSeq(e, 4 + 1, Len(e)) = p
  <2> DEFINE s == SubSeq(e, 4 + 1, Len(e))
  <2>1. 4 \in 0 .. Len(e) /\ Len(e) - 4 = Len(p)
    BY <1>6
  <2>2. s \in Seq(Octet) /\ Len(s) = Len(e) - 4 /\ \A i \in 1 .. Len(e) - 4 : s[i] = e[4 + i]
    BY <1>6, <2>1, SuffixIs
  <2> HIDE DEF s
  <2>3. s = p
    BY <1>6, <2>1, <2>2, SeqEqual
  <2> QED BY <2>3 DEF s
<1>9. 0 * Base + 0 = 0
  BY BasePositive
<1>10. Encode(p) = e
  BY <1>5 DEF e
<1> QED BY <1>1, <1>3, <1>6, <1>8, <1>9, <1>10 DEF VersionOf, LengthOf, XOT_HEADER_LEN

(* What follows does not change a header. *)
LEMMA HeaderStays ==
    ASSUME NEW x \in Seq(Octet), Len(x) >= XOT_HEADER_LEN, NEW u \in Seq(Octet)
    PROVE  /\ Headed(x \o u)
           /\ VersionOf(x \o u) = VersionOf(x) /\ LengthOf(x \o u) = LengthOf(x)
<1> DEFINE j == x \o u
<1>1. /\ j \in Seq(Octet) /\ Len(j) = Len(x) + Len(u) /\ Len(x) \in Nat /\ Len(u) \in Nat
      /\ \A i \in 1 .. Len(x) : j[i] = x[i]
  OBVIOUS
<1> HIDE DEF j
<1>2. Len(x) >= 4
  BY DEF XOT_HEADER_LEN
<1>3. Len(j) >= 4 /\ \A i \in 1 .. 4 : j[i] = x[i]
  BY <1>1, <1>2
<1>4. j[1] = x[1] /\ j[2] = x[2] /\ j[3] = x[3] /\ j[4] = x[4]
  BY <1>3
<1>5. Headed(j) /\ VersionOf(j) = VersionOf(x) /\ LengthOf(j) = LengthOf(x)
  BY <1>1, <1>3, <1>4 DEF Headed, VersionOf, LengthOf, XOT_HEADER_LEN
<1> QED BY <1>5 DEF j

LEMMA HeaderReads ==
    ASSUME NEW x, Headed(x)
    PROVE  /\ FromU16(SubSeq(x, 1, 2)) = VersionOf(x)
           /\ FromU16(SubSeq(x, 3, 4)) = LengthOf(x)
           /\ x[1] \in Octet /\ x[2] \in Octet /\ x[3] \in Octet /\ x[4] \in Octet
           /\ VersionOf(x) \in Nat /\ LengthOf(x) \in Nat
<1>1. x \in Seq(Octet) /\ Len(x) >= 4 /\ Len(x) \in Nat
  BY DEF Headed, XOT_HEADER_LEN
<1>2. x[1] \in Octet /\ x[2] \in Octet /\ x[3] \in Octet /\ x[4] \in Octet
  BY <1>1
<1>3. VersionOf(x) \in Nat /\ LengthOf(x) \in Nat
  BY <1>2, U16Unique DEF VersionOf, LengthOf
<1>4. SubSeq(x, 1, 2)[1] = x[1] /\ SubSeq(x, 1, 2)[2] = x[2]
  <2>1. 2 \in 0 .. Len(x) /\ 1 \in 1 .. 2 /\ 2 \in 1 .. 2
    BY <1>1
  <2> QED BY <1>1, <2>1, PrefixIs
<1>5. SubSeq(x, 3, 4)[1] = x[3] /\ SubSeq(x, 3, 4)[2] = x[4]
  <2>1. \A i \in 3 .. 4 : x[i] \in Octet
    BY <1>1
  <2>2. \A i \in 1 .. 4 - 3 + 1 : SubSeq(x, 3, 4)[i] = x[3 + i - 1]
    BY <2>1, SubSeqProperties
  <2>3. 1 \in 1 .. 4 - 3 + 1 /\ 2 \in 1 .. 4 - 3 + 1 /\ 3 + 1 - 1 = 3 /\ 3 + 2 - 1 = 4
    OBVIOUS
  <2>4. SubSeq(x, 3, 4)[1] = x[3 + 1 - 1] /\ SubSeq(x, 3, 4)[2] = x[3 + 2 - 1]
    BY <2>2, <2>3
  <2> QED BY <2>3, <2>4
<1> QED BY <1>2, <1>3, <1>4, <1>5 DEF FromU16, VersionOf, LengthOf

LEMMA PacketIs ==
    ASSUME NEW p, NEW r, NEW d, d = [result |-> "packet", packet |-> p, rest |-> r]
    PROVE  d.result = "packet" /\ d.packet = p /\ d.rest = r
  OBVIOUS

(* decode refuses, hands out a packet or waits. *)
LEMMA DecodeIs ==
    ASSUME NEW x \in Seq(Octet)
    PROVE  /\ Decode(x) = Invalid <=> Headed(x) /\ ~Good(x)
           /\ Decode(x).result = "packet" <=>
                 Headed(x) /\ Good(x) /\ Len(x) >= XOT_HEADER_LEN + LengthOf(x)
           /\ Decode(x).result = "packet" =>
                 /\ Decode(x).packet = SubSeq(x, XOT_HEADER_LEN + 1, XOT_HEADER_LEN + LengthOf(x))
                 /\ Decode(x).rest = AfterFrame(x, LengthOf(x))
           /\ Decode(x) = Incomplete <=> Decode(x) # Invalid /\ Decode(x).result # "packet"
<1>0. Len(x) \in Nat
  OBVIOUS
<1>1. CASE Len(x) < XOT_HEADER_LEN
  BY <1>0, <1>1 DEF Decode, Headed, Incomplete, Invalid, XOT_HEADER_LEN
<1>2. CASE ~(Len(x) < XOT_HEADER_LEN)
  <2>1. Headed(x)
    BY <1>0, <1>2 DEF Headed, XOT_HEADER_LEN
  <2>2. CASE ~Good(x)
    BY <1>2, <2>1, <2>2, HeaderReads DEF Decode, Good, Incomplete, Invalid
  <2>3. CASE Good(x) /\ ~HoldsFrame(x, LengthOf(x))
    <3>1. Decode(x) = Incomplete
      BY <1>2, <2>1, <2>3, HeaderReads DEF Decode, Good
    <3> QED BY <2>3, <3>1 DEF Incomplete, Invalid, HoldsFrame
  <2>4. CASE Good(x) /\ HoldsFrame(x, LengthOf(x))
    <3>1. Decode(x) = [result |-> "packet",
                       packet |-> SubSeq(x, XOT_HEADER_LEN + 1, XOT_HEADER_LEN + LengthOf(x)),
                       rest   |-> AfterFrame(x, LengthOf(x))]
      BY <1>2, <2>1, <2>4, HeaderReads DEF Decode, Good
    <3>2. /\ Decode(x).result = "packet"
          /\ Decode(x).packet = SubSeq(x, XOT_HEADER_LEN + 1, XOT_HEADER_LEN + LengthOf(x))
          /\ Decode(x).rest = AfterFrame(x, LengthOf(x))
      <4> DEFINE d == Decode(x)
                 p == SubSeq(x, XOT_HEADER_LEN + 1, XOT_HEADER_LEN + LengthOf(x))
                 r == AfterFrame(x, LengthOf(x))
      <4>1. d = [result |-> "packet", packet |-> p, rest |-> r]
        BY <3>1
      <4> HIDE DEF d, p, r
      <4>2. d.result = "packet" /\ d.packet = p /\ d.rest = r
        BY <4>1, PacketIs
      <4> QED BY <4>2 DEF d, p, r
    <3>3. Incomplete.result = "none" /\ Invalid.result = "error"
      BY DEF Incomplete, Invalid
    <3>4. Decode(x) # Incomplete /\ Decode(x) # Invalid
      BY <3>2, <3>3
    <3>5. Len(x) >= XOT_HEADER_LEN + LengthOf(x)
      BY <2>4 DEF HoldsFrame
    <3> QED BY <2>1, <2>4, <3>2, <3>4, <3>5
  <2> QED BY <2>2, <2>3, <2>4
<1> QED BY <1>1, <1>2

(* A frame at the beginning is decoded ... *)
LEMMA FrameDecodes ==
    ASSUME NEW p \in Seq(Octet), Valid(p), NEW u \in Seq(Octet)
    PROVE  /\ Headed(Encode(p) \o u) /\ Good(Encode(p) \o u)
           /\ LengthOf(Encode(p) \o u) = Len(p)
           /\ Decode(Encode(p) \o u).result = "packet"
<1> DEFINE e == Encode(p)
           x == e \o u
<1>1. /\ e \in Seq(Octet) /\ Len(e) = XOT_HEADER_LEN + Len(p)
      /\ VersionOf(e) = 0 /\ LengthOf(e) = Len(p)
  BY EncodeIs
<1>2. Len(p) \in Nat \ {0} /\ Len(p) \in MinLen .. MaxLen
  BY ValidLength
<1> HIDE DEF e
<1>3. Len(e) >= XOT_HEADER_LEN
  BY <1>1, <1>2 DEF XOT_HEADER_LEN
<1>4. Headed(x) /\ VersionOf(x) = 0 /\ LengthOf(x) = Len(p)
  BY <1>1, <1>3, HeaderStays
<1>5. Good(x)
  BY <1>2, <1>4 DEF Good, Refuses
<1>6. Len(x) = Len(e) + Len(u) /\ Len(u) \in Nat /\ x \in Seq(Octet)
  BY <1>1
<1> HIDE DEF x
<1>7. Len(x) >= XOT_HEADER_LEN + LengthOf(x)
  BY <1>1, <1>2, <1>4, <1>6 DEF XOT_HEADER_LEN
<1>8. Decode(x).result = "packet"
  BY <1>4, <1>5, <1>6, <1>7, DecodeIs
<1> QED BY <1>4, <1>5, <1>8 DEF x, e

(* ... and what is decoded was a frame at the beginning. *)
LEMMA DecodedFrame ==
    ASSUME NEW x \in Seq(Octet), Decode(x).result = "packet"
    PROVE  /\ Decode(x).packet \in Seq(Octet) /\ Valid(Decode(x).packet)
           /\ Decode(x).rest \in Seq(Octet)
           /\ x = Encode(Decode(x).packet) \o Decode(x).rest
<1> DEFINE n == XOT_HEADER_LEN + LengthOf(x)
           f == SubSeq(x, 1, n)
           p == SubSeq(x, XOT_HEADER_LEN + 1, n)
           r == SubSeq(x, n + 1, Len(x))
<1>1. /\ Headed(x) /\ Good(x) /\ Len(x) >= n
      /\ Decode(x).packet = p /\ Decode(x).rest = r
  BY DecodeIs DEF AfterFrame
<1>2. LengthOf(x) \in Nat /\ VersionOf(x) = 0 /\ LengthOf(x) \in MinLen .. MaxLen
  BY <1>1, HeaderReads DEF Good, Refuses
<1>3. n \in 0 .. Len(x) /\ n = 4 + LengthOf(x) /\ n \in Nat /\ n >= 4
  BY <1>1, <1>2 DEF XOT_HEADER_LEN
<1>4. f \in Seq(Octet) /\ r \in Seq(Octet) /\ f \o r = x
  BY <1>3, CutIs
<1>5. Len(f) = n /\ \A i \in 1 .. n : f[i] = x[i]
  BY <1>3, PrefixIs
<1>6. p \in Seq(Octet) /\ Len(p) = LengthOf(x) /\ \A i \in 1 .. LengthOf(x) : p[i] = x[4 + i]
  <2> DEFINE m == XOT_HEADER_LEN + 1
  <2>0. m = 5 /\ m \in Int /\ n \in Int /\ n <= Len(x)
    BY <1>3 DEF XOT_HEADER_LEN
  <2> HIDE DEF m, n
  <2>1. \A i \in m .. n : x[i] \in Octet
    BY <1>3, <2>0
  <2> DEFINE s == SubSeq(x, m, n)
  <2>2. /\ s \in Seq(Octet) /\ Len(s) = (IF m <= n THEN n - m + 1 ELSE 0)
        /\ \A i \in 1 .. n - m + 1 : s[i] = x[m + i - 1]
    BY <2>0, <2>1, SubSeqProperties
  <2> HIDE DEF s
  <2>3. s \in Seq(Octet) /\ Len(s) = LengthOf(x) /\ \A i \in 1 .. LengthOf(x) : s[i] = x[4 + i]
    BY <1>2, <1>3, <2>0, <2>2
  <2> QED BY <2>3 DEF s, m
<1> HIDE DEF f, p, r
<1>7. Valid(p)
  BY <1>2, <1>6 DEF Valid
<1>8. f = Encode(p)
  <2> DEFINE e == Encode(p)
  <2>1. /\ e \in Seq(Octet) /\ Len(e) = 4 + Len(p)
        /\ VersionOf(e) = 0 /\ LengthOf(e) = Len(p)
        /\ \A i \in 1 .. Len(p) : e[4 + i] = p[i]
    BY <1>6, <1>7, EncodeIs DEF XOT_HEADER_LEN
  <2> HIDE DEF e
  <2>2. Headed(e)
    BY <1>2, <1>6, <2>1 DEF Headed, XOT_HEADER_LEN
  <2>3. /\ x[1] \in Octet /\ x[2] \in Octet /\ x[3] \in Octet /\ x[4] \in Octet
        /\ e[1] \in Octet /\ e[2] \in Octet /\ e[3] \in Octet /\ e[4] \in Octet
    BY <1>1, <2>2, HeaderReads
  <2>4. x[1] * Base + x[2] = e[1] * Base + e[2] /\ x[3] * Base + x[4] = e[3] * Base + e[4]
    BY <1>2, <1>6, <2>1 DEF VersionOf, LengthOf
  <2>5. x[1] = e[1] /\ x[2] = e[2]
    <3>1. (x[1] * Base + x[2]) \div Base = x[1] /\ (x[1] * Base + x[2]) % Base = x[2]
      BY <2>3, U16Unique
    <3>2. (e[1] * Base + e[2]) \div Base = e[1] /\ (e[1] * Base + e[2]) % Base = e[2]
      BY <2>3, U16Unique
    <3> QED BY <2>4, <3>1, <3>2
  <2>6. x[3] = e[3] /\ x[4] = e[4]
    <3>1. (x[3] * Base + x[4]) \div Base = x[3] /\ (x[3] * Base + x[4]) % Base = x[4]
      BY <2>3, U16Unique
    <3>2. (e[3] * Base + e[4]) \div Base = e[3] /\ (e[3] * Base + e[4]) % Base = e[4]
      BY <2>3, U16Unique
    <3> QED BY <2>4, <3>1, <3>2
  <2>7. \A i \in 1 .. n : f[i] = e[i]
    <3> SUFFICES ASSUME NEW i \in 1 .. n PROVE f[i] = e[i]
      OBVIOUS
    <3>1. CASE i \in 1 .. 4
      <4>1. i = 1 \/ i = 2 \/ i = 3 \/ i = 4
        BY <3>1
      <4> QED BY <1>5, <2>5, <2>6, <4>1
    <3>2. CASE i \notin 1 .. 4
      <4>1. i - 4 \in 1 .. LengthOf(x) /\ 4 + (i - 4) = i
        BY <1>2, <1>3, <3>2
      <4>2. p[i - 4] = x[4 + (i - 4)] /\ e[4 + (i - 4)] = p[i - 4]
        BY <1>6, <2>1, <4>1
      <4> QED BY <1>5, <4>1, <4>2
    <3> QED BY <3>1, <3>2
  <2>8. f = e
    BY <1>3, <1>4, <1>5, <1>6, <2>1, <2>7, SeqEqual
  <2> QED BY <2>8 DEF e
<1> QED BY <1>1, <1>4, <1>6, <1>7, <1>8

-----------------------------------------------------------------------------
(* In step. *)

Framed(packets) == [i \in 1 .. Len(packets) |-> Encode(packets[i])]

ReadTypes == /\ link \in {"up", "closed", "broken"} /\ reader \in {"decode", "read", "failed"}
             /\ writing \in Seq(Octet) /\ tcp \in Seq(Octet) /\ buf \in Seq(Octet)
             /\ frames \in Seq(Seq(Octet))
             /\ got \in Seq(Seq(Octet)) /\ \A i \in 1 .. Len(got) : Valid(got[i])

Returned == FlattenSeq(Framed(got))

(* What is on its way, before it breaks and after. *)
Joined == IF link = "broken"
          THEN \E lost \in Seq(Octet) : ((Returned \o buf) \o tcp) \o lost = FlattenSeq(frames)
          ELSE ((Returned \o buf) \o tcp) \o writing = FlattenSeq(frames)

LinkInv == ReadTypes /\ Joined

LEMMA FramedIs ==
    ASSUME NEW g \in Seq(Seq(Octet)), \A i \in 1 .. Len(g) : Valid(g[i])
    PROVE  Framed(g) \in Seq(Seq(Octet)) /\ FlattenSeq(Framed(g)) \in Seq(Octet)
<1>1. \A i \in 1 .. Len(g) : Encode(g[i]) \in Seq(Octet)
  BY EncodeIs
<1>2. Framed(g) \in Seq(Seq(Octet))
  BY <1>1 DEF Framed
<1> QED BY <1>2, FlattenType

LEMMA FramedAppend ==
    ASSUME NEW g \in Seq(Seq(Octet)), \A i \in 1 .. Len(g) : Valid(g[i]),
           NEW p \in Seq(Octet), Valid(p)
    PROVE  /\ \A i \in 1 .. Len(Append(g, p)) : Valid(Append(g, p)[i])
           /\ FlattenSeq(Framed(Append(g, p))) = FlattenSeq(Framed(g)) \o Encode(p)
<1> DEFINE a == Append(g, p)
           b == Append(Framed(g), Encode(p))
<1>1. /\ a \in Seq(Seq(Octet)) /\ Len(a) = Len(g) + 1 /\ Len(g) \in Nat
      /\ \A i \in 1 .. Len(g) : a[i] = g[i]
      /\ a[Len(g) + 1] = p
  BY AppendIs
<1> HIDE DEF a
<1>2. \A i \in 1 .. Len(a) : i \in 1 .. Len(g) \/ i = Len(g) + 1
  BY <1>1
<1>3. \A i \in 1 .. Len(a) : Valid(a[i])
  BY <1>1, <1>2
<1>4. Encode(p) \in Seq(Octet) /\ Framed(g) \in Seq(Seq(Octet)) /\ Framed(a) \in Seq(Seq(Octet))
  BY <1>1, <1>3, FramedIs, EncodeIs
<1>5. Len(Framed(g)) = Len(g) /\ \A i \in 1 .. Len(g) : Framed(g)[i] = Encode(g[i])
  BY <1>1, <1>4 DEF Framed
<1>6. Len(Framed(a)) = Len(a) /\ \A i \in 1 .. Len(a) : Framed(a)[i] = Encode(a[i])
  BY <1>1, <1>4 DEF Framed
<1>7. /\ b \in Seq(Seq(Octet)) /\ Len(b) = Len(g) + 1
      /\ \A i \in 1 .. Len(g) : b[i] = Encode(g[i])
      /\ b[Len(g) + 1] = Encode(p)
  BY <1>4, <1>5, AppendIs
<1> HIDE DEF b
<1>8. \A i \in 1 .. Len(a) : Framed(a)[i] = b[i]
  BY <1>1, <1>2, <1>6, <1>7
<1>9. Framed(a) = b
  <2>1. Len(Framed(a)) = Len(b) /\ Len(a) = Len(Framed(a))
    BY <1>1, <1>6, <1>7
  <2> QED BY <1>4, <1>7, <1>8, <2>1, SeqEqual
<1>10. FlattenSeq(b) = FlattenSeq(Framed(g)) \o Encode(p)
  BY <1>4, FlattenAppend DEF b
<1> QED BY <1>3, <1>9, <1>10 DEF a

Arrived == (Returned \o buf) \o tcp

LEMMA InitLink == Init => LinkInv
<1> SUFFICES ASSUME Init PROVE LinkInv
  OBVIOUS
<1>1. ReadTypes
  BY DEF Init, ReadTypes
<1>2. Returned = <<>>
  <2>1. Framed(<<>>) = <<>>
    BY DEF Framed
  <2> QED BY <2>1, FlattenNone DEF Returned, Init
<1>3. ((Returned \o buf) \o tcp) \o writing = <<>>
  BY <1>2 DEF Init
<1>4. link # "broken" /\ FlattenSeq(frames) = <<>>
  BY FlattenNone DEF Init
<1> QED BY <1>1, <1>3, <1>4 DEF LinkInv, Joined

LEMMA JoinedIs ==
    /\ link # "broken" => (Joined <=> Arrived \o writing = FlattenSeq(frames))
    /\ link = "broken" => (Joined <=> \E lost \in Seq(Octet) : Arrived \o lost = FlattenSeq(frames))
  BY Zenon DEF Joined, Arrived

LEMMA JoinedKept ==
    ASSUME Joined, Arrived' = Arrived, link' # "broken" <=> link # "broken",
           UNCHANGED <<writing, frames>>
    PROVE  Joined'
<1>1. CASE link # "broken"
  <2>1. Arrived \o writing = FlattenSeq(frames)
    BY <1>1, JoinedIs, Zenon
  <2>2. Arrived' \o writing' = FlattenSeq(frames')
    BY <2>1, Zenon
  <2> QED BY <1>1, <2>2, Zenon DEF Joined, Arrived
<1>2. CASE link = "broken"
  <2>1. PICK lost \in Seq(Octet) : Arrived \o lost = FlattenSeq(frames)
    BY <1>2, JoinedIs, Zenon
  <2>2. Arrived' \o lost = FlattenSeq(frames')
    BY <2>1, Zenon
  <2> QED BY <1>2, <2>2, Zenon DEF Joined, Arrived
<1> QED BY <1>1, <1>2

LEMMA WriteBegins ==
    ASSUME LinkInv, NEW octets \in Seq(Octet), BeginsWrite(octets)
    PROVE  LinkInv'
<1> USE DEF LinkInv, ReadTypes, BeginsWrite
<1>1. ReadTypes'
  <2>1. Append(frames, octets) \in Seq(Seq(Octet))
    BY AppendIs
  <2> QED BY <2>1
<1>2. Returned \in Seq(Octet) /\ Returned' = Returned /\ Arrived' = Arrived
  BY FramedIs DEF Returned, Arrived
<1>3. Arrived \in Seq(Octet)
  BY <1>2 DEF Arrived
<1>4. Arrived \o writing = FlattenSeq(frames)
  BY JoinedIs
<1>5. Arrived = FlattenSeq(frames)
  <2>1. writing = <<>>
    OBVIOUS
  <2>2. Arrived \o <<>> = Arrived
    BY <1>3, NoneJoined
  <2> QED BY <1>4, <2>1, <2>2, Zenon
<1>6. FlattenSeq(frames') = FlattenSeq(frames) \o octets
  BY FlattenAppend
<1>7. Arrived' \o writing' = FlattenSeq(frames')
  <2>1. writing' = octets
    OBVIOUS
  <2> QED BY <1>2, <1>5, <1>6, <2>1, Zenon
<1>8. Joined'
  <2>1. link' # "broken"
    OBVIOUS
  <2> QED BY <1>7, <2>1, Zenon DEF Joined, Arrived
<1> QED BY <1>1, <1>8

LEMMA WriteKeeps ==
    ASSUME LinkInv, Write
    PROVE  LinkInv'
<1>1. PICK n \in 1 .. Len(writing) : /\ tcp' = tcp \o SubSeq(writing, 1, n)
                                    /\ writing' = SubSeq(writing, n + 1, Len(writing))
  BY DEF Write
<1> DEFINE a == SubSeq(writing, 1, n)
           b == SubSeq(writing, n + 1, Len(writing))
           x == Returned \o buf
<1>2. a \in Seq(Octet) /\ b \in Seq(Octet) /\ a \o b = writing
  <2>1. n \in 0 .. Len(writing) /\ writing \in Seq(Octet)
    BY DEF LinkInv, ReadTypes
  <2> QED BY <2>1, CutIs
<1> HIDE DEF a, b
<1>3. tcp' = tcp \o a /\ writing' = b
  BY <1>1 DEF a, b
<1>4. /\ Returned \in Seq(Octet) /\ buf \in Seq(Octet) /\ tcp \in Seq(Octet)
      /\ Returned' = Returned /\ buf' = buf /\ link # "broken" /\ link' = link
      /\ frames' = frames
  BY FramedIs DEF LinkInv, ReadTypes, Write, Returned
<1>5. x \in Seq(Octet)
  BY <1>4
<1>6. tcp' \in Seq(Octet)
  BY <1>2, <1>3, <1>4
<1>7. ReadTypes'
  BY <1>2, <1>3, <1>6 DEF LinkInv, ReadTypes, Write
<1>8. (x \o tcp) \o writing = FlattenSeq(frames)
  BY <1>4, Zenon DEF LinkInv, Joined
<1> HIDE DEF x
<1>9. /\ Cat(Cat(Cat(x, tcp), a), b) = Cat(Cat(x, Cat(tcp, a)), b)
      /\ Cat(Cat(Cat(x, tcp), a), b) = Cat(Cat(x, tcp), Cat(a, b))
  BY <1>2, <1>4, <1>5, Regroup
<1>11. (x \o tcp') \o writing' = FlattenSeq(frames')
  BY <1>2, <1>3, <1>4, <1>8, <1>9, Zenon DEF Cat
<1>12. Joined'
  BY <1>4, <1>11, Zenon DEF Joined, x
<1> QED BY <1>7, <1>12 DEF LinkInv

LEMMA BreakKeeps ==
    ASSUME LinkInv, Break
    PROVE  LinkInv'
<1>1. PICK n \in 0 .. Len(tcp) : tcp' = SubSeq(tcp, 1, n)
  BY DEF Break
<1> DEFINE a == SubSeq(tcp, 1, n)
           b == SubSeq(tcp, n + 1, Len(tcp))
           x == Returned \o buf
<1>2. a \in Seq(Octet) /\ b \in Seq(Octet) /\ a \o b = tcp
  BY CutIs DEF LinkInv, ReadTypes
<1> HIDE DEF a, b
<1>3. /\ Returned \in Seq(Octet) /\ buf \in Seq(Octet) /\ writing \in Seq(Octet)
      /\ Returned' = Returned /\ buf' = buf /\ link # "broken" /\ link' = "broken"
      /\ frames' = frames /\ tcp' = a
  BY <1>1, FramedIs DEF LinkInv, ReadTypes, Break, Returned, a
<1>4. x \in Seq(Octet) /\ b \o writing \in Seq(Octet)
  BY <1>2, <1>3
<1>5. ReadTypes'
  BY <1>2, <1>3 DEF LinkInv, ReadTypes, Break
<1>6. (x \o tcp) \o writing = FlattenSeq(frames)
  BY <1>3, Zenon DEF LinkInv, Joined
<1> HIDE DEF x
<1>7. /\ Cat(Cat(Cat(x, a), b), writing) = Cat(Cat(x, Cat(a, b)), writing)
      /\ Cat(Cat(Cat(x, a), b), writing) = Cat(Cat(x, a), Cat(b, writing))
  BY <1>2, <1>3, <1>4, Regroup
<1>8. (x \o tcp') \o (b \o writing) = FlattenSeq(frames')
  BY <1>2, <1>3, <1>6, <1>7, Zenon DEF Cat
<1>9. Joined'
  BY <1>3, <1>4, <1>8, Zenon DEF Joined, x
<1> QED BY <1>5, <1>9 DEF LinkInv

LEMMA RecvPacketKeeps ==
    ASSUME LinkInv, RecvPacket
    PROVE  LinkInv'
<1> DEFINE p == Decode(buf).packet
           r == Decode(buf).rest
           e == Encode(p)
<1>1. /\ Decode(buf).result = "packet" /\ got' = Append(got, p) /\ buf' = r
      /\ UNCHANGED <<link, writing, tcp, reader, frames>>
  BY DEF RecvPacket
<1>2. /\ got \in Seq(Seq(Octet)) /\ \A i \in 1 .. Len(got) : Valid(got[i])
      /\ buf \in Seq(Octet) /\ tcp \in Seq(Octet) /\ Returned \in Seq(Octet)
  BY FramedIs DEF LinkInv, ReadTypes, Returned
<1>3. p \in Seq(Octet) /\ Valid(p) /\ r \in Seq(Octet) /\ buf = e \o r
  BY <1>1, <1>2, DecodedFrame
<1>4. e \in Seq(Octet)
  BY <1>3, EncodeIs
<1> HIDE DEF p, r
<1>5. ReadTypes'
  <2>1. Append(got, p) \in Seq(Seq(Octet)) /\ \A i \in 1 .. Len(Append(got, p)) : Valid(Append(got, p)[i])
    BY <1>2, <1>3, AppendIs, FramedAppend
  <2> QED BY <1>1, <1>3, <2>1 DEF LinkInv, ReadTypes
<1>6. Returned' = Returned \o e
  BY <1>1, <1>2, <1>3, FramedAppend DEF Returned
<1> HIDE DEF e
<1>7. Cat(Cat(Cat(Returned, e), r), tcp) = Cat(Cat(Returned, Cat(e, r)), tcp)
  BY <1>2, <1>3, <1>4, Regroup
<1>8. Arrived' = Arrived
  BY <1>1, <1>3, <1>6, <1>7, Zenon DEF Arrived, Cat
<1>9. Joined'
  BY <1>1, <1>8, JoinedKept, Zenon DEF LinkInv
<1> QED BY <1>5, <1>9 DEF LinkInv

LEMMA ReadKeeps ==
    ASSUME LinkInv, Read
    PROVE  LinkInv'
<1>1. PICK n \in 1 .. Len(tcp) : /\ buf' = buf \o SubSeq(tcp, 1, n)
                                /\ tcp' = SubSeq(tcp, n + 1, Len(tcp))
  BY DEF Read
<1> DEFINE a == SubSeq(tcp, 1, n)
           b == SubSeq(tcp, n + 1, Len(tcp))
<1>2. a \in Seq(Octet) /\ b \in Seq(Octet) /\ a \o b = tcp
  <2>1. n \in 0 .. Len(tcp) /\ tcp \in Seq(Octet)
    BY DEF LinkInv, ReadTypes
  <2> QED BY <2>1, CutIs
<1> HIDE DEF a, b
<1>3. buf' = buf \o a /\ tcp' = b
  BY <1>1 DEF a, b
<1>4. /\ Returned \in Seq(Octet) /\ buf \in Seq(Octet)
      /\ Returned' = Returned /\ UNCHANGED <<link, writing, frames, got>> /\ reader' = "decode"
  BY FramedIs DEF LinkInv, ReadTypes, Read, Returned
<1>5. buf' \in Seq(Octet)
  BY <1>2, <1>3, <1>4
<1>6. ReadTypes'
  BY <1>2, <1>3, <1>4, <1>5 DEF LinkInv, ReadTypes
<1>7. /\ Cat(Cat(Cat(Returned, buf), a), b) = Cat(Cat(Returned, Cat(buf, a)), b)
      /\ Cat(Cat(Cat(Returned, buf), a), b) = Cat(Cat(Returned, buf), Cat(a, b))
  BY <1>2, <1>4, Regroup
<1>8. Arrived' = Arrived
  BY <1>2, <1>3, <1>4, <1>7, Zenon DEF Arrived, Cat
<1>9. Joined'
  BY <1>4, <1>8, JoinedKept, Zenon DEF LinkInv
<1> QED BY <1>6, <1>9 DEF LinkInv

LEMMA QuietKeeps ==
    ASSUME LinkInv, UNCHANGED <<writing, tcp, buf, frames, got>>,
           link' \in {"up", "closed", "broken"}, reader' \in {"decode", "read", "failed"},
           link' # "broken" <=> link # "broken"
    PROVE  LinkInv'
<1>1. ReadTypes'
  BY DEF LinkInv, ReadTypes
<1>2. Arrived' = Arrived
  BY DEF Arrived, Returned
<1>3. Joined'
  BY <1>2, JoinedKept, Zenon DEF LinkInv
<1> QED BY <1>1, <1>3 DEF LinkInv

LEMMA LinkStep ==
    ASSUME LinkInv, [Next]_vars
    PROVE  LinkInv'
<1>0. link \in {"up", "closed", "broken"} /\ reader \in {"decode", "read", "failed"}
  BY DEF LinkInv, ReadTypes
<1>1. CASE UNCHANGED vars
  BY <1>0, <1>1, QuietKeeps DEF vars
<1>2. CASE Send
  <2>1. PICK p \in Packets : Valid(p) /\ BeginsWrite(Encode(p))
    BY <1>2 DEF Send
  <2>2. p \in Seq(Octet)
    BY LinkAssumption DEF Octet
  <2> QED BY <2>1, <2>2, EncodeIs, WriteBegins
<1>3. CASE OtherProgramSends
  <2>1. PICK octets \in NonFrames : BeginsWrite(octets)
    BY <1>3 DEF OtherProgramSends
  <2>2. octets \in Seq(Octet)
    BY LinkAssumption DEF Octet
  <2> QED BY <2>1, <2>2, WriteBegins
<1>4. CASE Shutdown
  BY <1>0, <1>4, QuietKeeps DEF Shutdown
<1>5. CASE RecvNeedsMore \/ RecvInvalid \/ ReadEnd
  BY <1>0, <1>5, QuietKeeps DEF RecvNeedsMore, RecvInvalid, ReadEnd
<1> QED BY <1>1, <1>2, <1>3, <1>4, <1>5, WriteKeeps, BreakKeeps, RecvPacketKeeps, ReadKeeps
        DEF Next, Recv

(* Sender and receiver stay in step, wherever TCP cuts the stream. *)
THEOREM AlwaysInStep == Spec => []InStep
<1>1. LinkInv => InStep
  <2> SUFFICES ASSUME LinkInv PROVE InStep
    OBVIOUS
  <2>1. CASE link # "broken"
    BY <2>1, Zenon DEF LinkInv, Joined, InStep, Returned, Framed
  <2>2. CASE link = "broken"
    <3>1. PICK lost \in Seq(Octet) : Arrived \o lost = FlattenSeq(frames)
      BY <2>2, JoinedIs, Zenon DEF LinkInv
    <3>2. Arrived \in Seq(Octet)
      <4>1. Returned \in Seq(Octet) /\ buf \in Seq(Octet) /\ tcp \in Seq(Octet)
        BY FramedIs DEF LinkInv, ReadTypes, Returned
      <4> QED BY <4>1 DEF Arrived
    <3>3. IsPrefix(Arrived, FlattenSeq(frames))
      BY <3>1, <3>2, PrefixJoined
    <3> QED BY <2>2, <3>3, Zenon DEF InStep, Arrived, Returned, Framed
  <2> QED BY <2>1, <2>2
<1>2. LinkInv /\ [Next]_vars => LinkInv'
  BY LinkStep
<1>3. Spec => []LinkInv
  BY InitLink, <1>2, PTL DEF Spec
<1> QED BY <1>1, <1>3, PTL

-----------------------------------------------------------------------------
(* What recv waits for, and what recv_buf holds. *)

(* recv reads when it has no whole packet, and fails for what is not a     *)
(* frame or at the end of the stream.                                      *)
WaitInv == /\ reader = "read" => Decode(buf) = Incomplete
           /\ reader = "failed" =>
                 \/ Decode(buf) = Invalid
                 \/ Decode(buf) = Incomplete /\ tcp = <<>> /\ link # "up"
           /\ link = "closed" => writing = <<>>
           /\ Len(buf) < XOT_HEADER_LEN + MaxLen + Chunk

LEMMA IncompleteIsShort ==
    ASSUME NEW x \in Seq(Octet), Decode(x) = Incomplete
    PROVE  Len(x) < XOT_HEADER_LEN + MaxLen
<1>1. Len(x) \in Nat /\ MaxLen \in Nat /\ MinLen \in Nat
  BY LinkAssumption
<1>2. CASE ~Headed(x)
  BY <1>1, <1>2 DEF Headed, XOT_HEADER_LEN
<1>3. CASE Headed(x)
  <2>1. Good(x) /\ ~(Len(x) >= XOT_HEADER_LEN + LengthOf(x))
    BY <1>3, DecodeIs
  <2>2. LengthOf(x) <= MaxLen /\ LengthOf(x) \in Nat
    BY <1>1, <1>3, <2>1, HeaderReads DEF Good, Refuses
  <2> QED BY <1>1, <2>1, <2>2 DEF XOT_HEADER_LEN
<1> QED BY <1>2, <1>3

LEMMA DecodeResults == Incomplete # Invalid /\ Incomplete.result # "packet" /\ Invalid.result # "packet"
  BY DEF Incomplete, Invalid

LEMMA WaitStep ==
    ASSUME LinkInv, WaitInv, [Next]_vars
    PROVE  WaitInv'
<1> USE DEF WaitInv
<1>0. /\ Len(buf) \in Nat /\ buf \in Seq(Octet) /\ tcp \in Seq(Octet) /\ writing \in Seq(Octet)
      /\ reader \in {"decode", "read", "failed"}
      /\ MaxLen \in Nat /\ MinLen \in Nat /\ Chunk \in Nat \ {0}
  BY LinkAssumption DEF LinkInv, ReadTypes
<1>1. CASE UNCHANGED vars
  BY <1>1 DEF vars
<1>2. CASE Send \/ OtherProgramSends
  BY <1>2 DEF Send, OtherProgramSends, BeginsWrite
<1>3. CASE Write
  BY <1>3 DEF Write
<1>4. CASE Shutdown
  BY <1>4 DEF Shutdown
<1>5. CASE Break
  <2>1. tcp = <<>> => tcp' = <<>>
    <3>1. PICK n \in 0 .. Len(tcp) : tcp' = SubSeq(tcp, 1, n)
      BY <1>5 DEF Break
    <3>2. Len(tcp') = n /\ tcp' \in Seq(Octet)
      BY <1>0, <3>1, PrefixIs
    <3> QED BY <3>2
  <2> QED BY <1>5, <2>1 DEF Break
<1>6. CASE RecvPacket
  <2>1. buf' = AfterFrame(buf, LengthOf(buf)) /\ Headed(buf) /\ Len(buf) >= XOT_HEADER_LEN + LengthOf(buf)
    BY <1>0, <1>6, DecodeIs DEF RecvPacket
  <2> DEFINE n == XOT_HEADER_LEN + LengthOf(buf)
  <2>2. n \in 0 .. Len(buf) /\ n \in Nat
    BY <1>0, <2>1, HeaderReads DEF XOT_HEADER_LEN
  <2>3. buf' = SubSeq(buf, n + 1, Len(buf))
    BY <2>1 DEF AfterFrame
  <2> HIDE DEF n
  <2>4. Len(buf') = Len(buf) - n
    BY <1>0, <2>2, <2>3, SuffixIs
  <2>5. Len(buf') < XOT_HEADER_LEN + MaxLen + Chunk
    BY <1>0, <2>2, <2>4 DEF XOT_HEADER_LEN
  <2>6. reader' = "decode" /\ UNCHANGED <<link, writing>>
    BY <1>6 DEF RecvPacket
  <2> QED BY <2>5, <2>6
<1>7. CASE RecvNeedsMore
  BY <1>7 DEF RecvNeedsMore
<1>8. CASE RecvInvalid
  BY <1>8 DEF RecvInvalid
<1>9. CASE Read
  <2>1. PICK n \in 1 .. Len(tcp) : n <= Chunk /\ buf' = buf \o SubSeq(tcp, 1, n)
    BY <1>9 DEF Read
  <2> DEFINE a == SubSeq(tcp, 1, n)
  <2>2. a \in Seq(Octet) /\ Len(a) = n /\ n \in Nat
    BY <1>0, PrefixIs
  <2> HIDE DEF a
  <2>3. buf' = buf \o a
    BY <2>1 DEF a
  <2>4. Len(buf') = Len(buf) + Len(a)
    <3>1. Len(buf \o a) = Len(buf) + Len(a)
      <4>1. buf \in Seq(Octet) /\ a \in Seq(Octet)
        BY <1>0, <2>2
      <4> HIDE DEF WaitInv
      <4> QED BY <4>1
    <3> QED BY <2>3, <3>1, Zenon
  <2>5. Len(buf) < XOT_HEADER_LEN + MaxLen
    BY <1>0, <1>9, IncompleteIsShort DEF Read
  <2>6. Len(buf') < XOT_HEADER_LEN + MaxLen + Chunk
    BY <1>0, <2>1, <2>2, <2>4, <2>5 DEF XOT_HEADER_LEN
  <2>7. reader' = "decode" /\ UNCHANGED <<link, writing>>
    BY <1>9 DEF Read
  <2> QED BY <2>6, <2>7
<1>10. CASE ReadEnd
  BY <1>10 DEF ReadEnd
<1> QED BY <1>1, <1>2, <1>3, <1>4, <1>5, <1>6, <1>7, <1>8, <1>9, <1>10 DEF Next, Recv

LEMMA InitWait == Init => WaitInv
<1> SUFFICES ASSUME Init PROVE WaitInv
  OBVIOUS
<1>1. Len(buf) = 0 /\ MaxLen \in Nat /\ Chunk \in Nat \ {0}
  BY LinkAssumption DEF Init
<1> QED BY <1>1 DEF Init, WaitInv, XOT_HEADER_LEN

(* Types, and the bound of recv_buf. *)
THEOREM XotLinkTypes == Spec => []XotTypeOK
<1>1. LinkInv /\ WaitInv => XotTypeOK
  <2> SUFFICES ASSUME LinkInv, WaitInv PROVE XotTypeOK
    OBVIOUS
  <2>1. \A q \in Seq(Octet) : Range(q) \subseteq Octet
    BY DEF Range
  <2>2. \A octets \in {writing, tcp, buf} : octets \in Seq(Octet)
    BY DEF LinkInv, ReadTypes
  <2>3. \A octets \in {writing, tcp, buf} : Range(octets) \subseteq 0 .. Base - 1
    BY <2>1, <2>2, Zenon DEF Octet
  <2> QED BY <2>3 DEF LinkInv, ReadTypes, WaitInv, XotTypeOK
<1>2. Spec => [](LinkInv /\ WaitInv)
  BY InitLink, InitWait, LinkStep, WaitStep, PTL DEF Spec
<1> QED BY <1>1, <1>2, PTL

-----------------------------------------------------------------------------
(* Packet by packet.  What another program writes instead of a frame is    *)
(* assumed to be refused as soon as its header is there: an unfinished     *)
(* frame would take what follows for its rest.                             *)

Recognisable == \A octets \in NonFrames : Decode(octets) = Invalid

OrderInv ==
    /\ \A i \in 1 .. Len(frames) :
          frames[i] \in NonFrames \/ \E p \in Packets : Valid(p) /\ frames[i] = Encode(p)
    /\ Len(got) <= Len(frames)
    /\ \A i \in 1 .. Len(got) : frames[i] = Encode(got[i])

LEMMA Cancel ==
    ASSUME NEW S, NEW a \in Seq(S), NEW b \in Seq(S), NEW c \in Seq(S), Cat(a, b) = Cat(a, c)
    PROVE  b = c
  BY SameStart DEF Cat

(* What has not been returned is in recv_buf and after it. *)
LEMMA RestOfFrames ==
    ASSUME LinkInv, OrderInv
    PROVE  \E u \in Seq(Octet) :
              /\ Cat(Cat(buf, tcp), u) = FlattenSeq(SubSeq(frames, Len(got) + 1, Len(frames)))
              /\ link # "broken" => u = writing
<1> DEFINE n == Len(got)
           old == SubSeq(frames, 1, n)
           new == SubSeq(frames, n + 1, Len(frames))
<1>1. /\ n \in 0 .. Len(frames) /\ frames \in Seq(Seq(Octet)) /\ got \in Seq(Seq(Octet))
      /\ \A i \in 1 .. Len(got) : Valid(got[i])
      /\ buf \in Seq(Octet) /\ tcp \in Seq(Octet) /\ writing \in Seq(Octet)
  BY DEF LinkInv, ReadTypes, OrderInv
<1>2. old \in Seq(Seq(Octet)) /\ new \in Seq(Seq(Octet)) /\ old \o new = frames
  BY <1>1, CutIs
<1>3. old = Framed(got)
  <2>0. Framed(got) \in Seq(Seq(Octet))
    BY <1>1, FramedIs
  <2>1. Len(Framed(got)) = Len(got) /\ \A i \in 1 .. Len(got) : Framed(got)[i] = Encode(got[i])
    BY <1>1, <2>0 DEF Framed
  <2>2. Len(old) = n /\ \A i \in 1 .. n : old[i] = frames[i]
    BY <1>1, PrefixIs
  <2>3. \A i \in 1 .. n : frames[i] = Encode(got[i])
    BY DEF OrderInv
  <2>4. Len(old) = Len(Framed(got)) /\ \A i \in 1 .. Len(old) : old[i] = Framed(got)[i]
    <3> HIDE DEF old
    <3> QED BY <2>1, <2>2, <2>3
  <2> HIDE DEF n, old
  <2> QED BY <1>2, <2>0, <2>4, SeqEqual
<1> HIDE DEF old, new
<1>4. FlattenSeq(frames) = Cat(Returned, FlattenSeq(new))
  <2>1. FlattenSeq(old \o new) = FlattenSeq(old) \o FlattenSeq(new)
    BY <1>2, FlattenCat
  <2> QED BY <1>2, <1>3, <2>1, Zenon DEF Returned, Cat
<1>5. PICK u \in Seq(Octet) : /\ Cat(Cat(Cat(Returned, buf), tcp), u) = FlattenSeq(frames)
                              /\ link # "broken" => u = writing
  <2>1. CASE link = "broken"
    <3>1. PICK lost \in Seq(Octet) : Arrived \o lost = FlattenSeq(frames)
      BY <2>1, JoinedIs, Zenon DEF LinkInv
    <3> QED BY <2>1, <3>1, Zenon DEF Arrived, Cat
  <2>2. CASE link # "broken"
    <3>1. Arrived \o writing = FlattenSeq(frames)
      BY <2>2, JoinedIs, Zenon DEF LinkInv
    <3> QED BY <1>1, <2>2, <3>1, Zenon DEF Arrived, Cat
  <2> QED BY <2>1, <2>2
<1>6. Returned \in Seq(Octet) /\ FlattenSeq(new) \in Seq(Octet)
  BY <1>1, <1>2, FramedIs, FlattenType DEF Returned
<1>7. Cat(Cat(Cat(Returned, buf), tcp), u) = Cat(Returned, Cat(Cat(buf, tcp), u))
  BY <1>1, <1>6, CatLeft
<1>8. Cat(Cat(buf, tcp), u) \in Seq(Octet)
  BY <1>1, CatType
<1>9. Cat(Cat(buf, tcp), u) = FlattenSeq(new)
  BY <1>4, <1>5, <1>6, <1>7, <1>8, Cancel
<1> QED BY <1>5, <1>9 DEF new

(* What a packet begins with is the next frame. *)
LEMMA FirstFrame ==
    ASSUME NEW p \in Seq(Octet), Valid(p), NEW f \in Seq(Octet),
           Decode(f) = Invalid \/ \E q \in Seq(Octet) : Valid(q) /\ f = Encode(q),
           NEW a \in Seq(Octet), NEW b \in Seq(Octet), Encode(p) \o a = f \o b
    PROVE  f = Encode(p)
<1> DEFINE x == Encode(p) \o a
<1>1. Good(x) /\ LengthOf(x) = Len(p)
  BY FrameDecodes
<1>2. x = f \o b
  OBVIOUS
<1> HIDE DEF x
<1>3. CASE Decode(f) = Invalid
  <2>1. Headed(f) /\ ~Good(f)
    BY <1>3, DecodeIs
  <2>2. VersionOf(x) = VersionOf(f) /\ LengthOf(x) = LengthOf(f)
    BY <1>2, <2>1, HeaderStays DEF Headed
  <2> QED BY <1>1, <2>1, <2>2 DEF Good
<1>4. CASE \E q \in Seq(Octet) : Valid(q) /\ f = Encode(q)
  <2>1. PICK q \in Seq(Octet) : Valid(q) /\ f = Encode(q)
    BY <1>4
  <2>2. LengthOf(x) = Len(q)
    BY <1>2, <2>1, FrameDecodes
  <2>3. Encode(p) \in Seq(Octet) /\ Len(Encode(p)) = Len(f)
    <3>1. Encode(p) \in Seq(Octet) /\ Len(Encode(p)) = XOT_HEADER_LEN + Len(p)
      BY EncodeIs
    <3>2. Len(f) = XOT_HEADER_LEN + Len(q)
      BY <2>1, EncodeIs
    <3> HIDE DEF x
    <3> QED BY <1>1, <2>2, <3>1, <3>2
  <2> HIDE DEF x
  <2> QED BY <2>3, SameStart
<1> QED BY <1>3, <1>4

LEMMA FrameKinds ==
    ASSUME Recognisable, OrderInv, NEW i \in 1 .. Len(frames)
    PROVE  \/ Decode(frames[i]) = Invalid
           \/ \E q \in Seq(Octet) : Valid(q) /\ frames[i] = Encode(q)
  BY LinkAssumption DEF Recognisable, OrderInv, Octet

(* recv_buf and what follows begin with the frame after those returned.    *)
LEMMA NextFrame ==
    ASSUME LinkInv, OrderInv, Len(got) < Len(frames)
    PROVE  /\ frames[Len(got) + 1] \in Seq(Octet)
           /\ \E a \in Seq(Octet), u \in Seq(Octet) :
                 /\ Cat(Cat(buf, tcp), u) = Cat(frames[Len(got) + 1], a)
                 /\ link # "broken" => u = writing
<1> DEFINE new == SubSeq(frames, Len(got) + 1, Len(frames))
<1>1. frames \in Seq(Seq(Octet)) /\ Len(got) \in 0 .. Len(frames)
  BY DEF LinkInv, ReadTypes
<1>2. /\ new \in Seq(Seq(Octet)) /\ Len(new) = Len(frames) - Len(got)
      /\ \A i \in 1 .. Len(frames) - Len(got) : new[i] = frames[Len(got) + i]
  BY <1>1, SuffixIs
<1>3. PICK u \in Seq(Octet) : Cat(Cat(buf, tcp), u) = FlattenSeq(new) /\ (link # "broken" => u = writing)
  BY RestOfFrames
<1> HIDE DEF new
<1>4. 1 \in 1 .. Len(frames) - Len(got) /\ Len(new) # 0
  BY <1>1, <1>2
<1>5. new # <<>> /\ Head(new) = frames[Len(got) + 1] /\ Head(new) \in Seq(Octet)
      /\ Tail(new) \in Seq(Seq(Octet))
  BY <1>2, <1>4, TailIs
<1>6. FlattenSeq(Tail(new)) \in Seq(Octet)
  BY <1>5, FlattenType
<1>7. FlattenSeq(new) = Cat(frames[Len(got) + 1], FlattenSeq(Tail(new)))
  <2>1. FlattenSeq(new) = Head(new) \o FlattenSeq(Tail(new))
    BY <1>2, <1>5, FlattenHead
  <2> QED BY <1>5, <2>1, Zenon DEF Cat
<1> QED BY <1>3, <1>5, <1>6, <1>7

(* The packet recv returns is the next one sent. *)
LEMMA ReturnsNext ==
    ASSUME Recognisable, LinkInv, OrderInv, RecvPacket
    PROVE  /\ Len(got) < Len(frames)
           /\ frames[Len(got) + 1] = Encode(Decode(buf).packet)
           /\ Valid(Decode(buf).packet) /\ Decode(buf).packet \in Seq(Octet)
<1> DEFINE p == Decode(buf).packet
           r == Decode(buf).rest
<1>1. buf \in Seq(Octet) /\ tcp \in Seq(Octet) /\ Len(got) \in Nat /\ Len(frames) \in Nat
  BY DEF LinkInv, ReadTypes
<1>2. p \in Seq(Octet) /\ Valid(p) /\ r \in Seq(Octet) /\ buf = Cat(Encode(p), r)
  BY <1>1, DecodedFrame DEF RecvPacket, Cat
<1> HIDE DEF p, r
<1>3. Encode(p) \in Seq(Octet) /\ Len(Encode(p)) = XOT_HEADER_LEN + Len(p) /\ Len(p) \in Nat
  BY <1>2, EncodeIs
<1>4. \A u \in Seq(Octet) : /\ Cat(Cat(buf, tcp), u) = Cat(Encode(p), Cat(Cat(r, tcp), u))
                            /\ Cat(Cat(r, tcp), u) \in Seq(Octet)
  BY <1>1, <1>2, <1>3, CatLeft, CatType
<1>5. Len(got) < Len(frames)
  <2> SUFFICES ASSUME ~(Len(got) < Len(frames)) PROVE FALSE
    OBVIOUS
  <2>1. Len(got) = Len(frames)
    BY <1>1 DEF OrderInv
  <2>2. PICK u \in Seq(Octet) :
           Cat(Cat(buf, tcp), u) = FlattenSeq(SubSeq(frames, Len(got) + 1, Len(frames)))
    BY RestOfFrames
  <2>3. FlattenSeq(SubSeq(frames, Len(got) + 1, Len(frames))) = <<>>
    <3>1. SubSeq(frames, Len(got) + 1, Len(frames)) = <<>>
      <4> DEFINE n == Len(got)
                 s == SubSeq(frames, n + 1, Len(frames))
      <4>1. n \in 0 .. Len(frames) /\ frames \in Seq(Seq(Octet))
        BY <1>1, <2>1 DEF LinkInv, ReadTypes
      <4>2. s \in Seq(Seq(Octet)) /\ Len(s) = Len(frames) - n
        BY <4>1, SuffixIs
      <4> HIDE DEF s
      <4>3. Len(s) = 0
        BY <1>1, <2>1, <4>2
      <4>4. s = <<>>
        BY <4>2, <4>3
      <4> QED BY <4>4 DEF s
    <3> QED BY <3>1, FlattenNone
  <2> DEFINE y == Cat(Cat(r, tcp), u)
             e == Encode(p)
  <2>4. Cat(e, y) = <<>> /\ y \in Seq(Octet) /\ e \in Seq(Octet) /\ Len(e) >= 4
    BY <1>3, <1>4, <2>2, <2>3 DEF XOT_HEADER_LEN
  <2> HIDE DEF y, e
  <2>5. Len(Cat(e, y)) = Len(e) + Len(y) /\ Len(y) \in Nat /\ Len(e) \in Nat
    <3>1. y \in Seq(Octet) /\ e \in Seq(Octet)
      BY <2>4
    <3> QED BY ONLY <3>1 DEF Cat
  <2>6. Len(<<>>) = 0
    OBVIOUS
  <2> QED BY <2>4, <2>5, <2>6
<1>6. PICK a \in Seq(Octet), u \in Seq(Octet) : Cat(Cat(buf, tcp), u) = Cat(frames[Len(got) + 1], a)
  BY <1>5, NextFrame
<1>7. frames[Len(got) + 1] \in Seq(Octet) /\ Len(got) + 1 \in 1 .. Len(frames)
  BY <1>1, <1>5, NextFrame
<1> DEFINE f == frames[Len(got) + 1]
           y == Cat(Cat(r, tcp), u)
<1>8. Decode(f) = Invalid \/ \E q \in Seq(Octet) : Valid(q) /\ f = Encode(q)
  BY <1>7, FrameKinds
<1>9. Encode(p) \o y = f \o a /\ y \in Seq(Octet) /\ f \in Seq(Octet)
  BY <1>4, <1>6, <1>7, Zenon DEF Cat
<1> HIDE DEF f, y
<1>10. f = Encode(p)
  BY <1>2, <1>8, <1>9, FirstFrame
<1> QED BY <1>2, <1>5, <1>10 DEF f, p

LEMMA WriteOrdered ==
    ASSUME LinkInv, OrderInv, NEW octets, BeginsWrite(octets),
           octets \in NonFrames \/ \E p \in Packets : Valid(p) /\ octets = Encode(p)
    PROVE  OrderInv'
<1>1. frames \in Seq(Seq(Octet)) /\ octets \in Seq(Octet) /\ got' = got /\ Len(got) <= Len(frames)
      /\ Len(got) \in Nat
  <2>1. octets \in Seq(Octet)
    BY LinkAssumption, EncodeIs DEF Octet
  <2> QED BY <2>1 DEF LinkInv, ReadTypes, OrderInv, BeginsWrite
<1>2. /\ Len(frames') = Len(frames) + 1 /\ Len(frames) \in Nat
      /\ \A i \in 1 .. Len(frames) : frames'[i] = frames[i]
      /\ frames'[Len(frames) + 1] = octets
  BY <1>1, AppendIs DEF BeginsWrite
<1>3. ASSUME NEW i \in 1 .. Len(frames')
      PROVE  frames'[i] \in NonFrames \/ \E p \in Packets : Valid(p) /\ frames'[i] = Encode(p)
  <2>1. CASE i \in 1 .. Len(frames)
    BY <1>2, <2>1 DEF OrderInv
  <2>2. CASE i \notin 1 .. Len(frames)
    <3>1. i = Len(frames) + 1
      BY <1>2, <2>2
    <3> QED BY <1>2, <3>1
  <2> QED BY <2>1, <2>2
<1>4. \A i \in 1 .. Len(got) : frames'[i] = Encode(got[i])
  <2>1. \A i \in 1 .. Len(got) : i \in 1 .. Len(frames)
    BY <1>1, <1>2
  <2> QED BY <1>2, <2>1 DEF OrderInv
<1> QED BY <1>1, <1>2, <1>3, <1>4 DEF OrderInv

LEMMA OrderStep ==
    ASSUME Recognisable, LinkInv, OrderInv, [Next]_vars
    PROVE  OrderInv'
<1>1. CASE Send
  BY <1>1, WriteOrdered DEF Send
<1>2. CASE OtherProgramSends
  BY <1>2, WriteOrdered DEF OtherProgramSends
<1>3. CASE RecvPacket
  <2> DEFINE p == Decode(buf).packet
  <2>1. Len(got) < Len(frames) /\ frames[Len(got) + 1] = Encode(p) /\ p \in Seq(Octet)
    BY <1>3, ReturnsNext
  <2>2. got' = Append(got, p) /\ frames' = frames /\ got \in Seq(Seq(Octet)) /\ Len(frames) \in Nat
    BY <1>3 DEF RecvPacket, LinkInv, ReadTypes
  <2> HIDE DEF p
  <2>3. /\ Len(got') = Len(got) + 1 /\ Len(got) \in Nat
        /\ \A i \in 1 .. Len(got) : got'[i] = got[i]
        /\ got'[Len(got) + 1] = p
    BY <2>1, <2>2, AppendIs
  <2>4. ASSUME NEW i \in 1 .. Len(got') PROVE frames'[i] = Encode(got'[i])
    <3>1. CASE i \in 1 .. Len(got)
      BY <2>2, <2>3, <3>1 DEF OrderInv
    <3>2. CASE i \notin 1 .. Len(got)
      <4>1. i = Len(got) + 1
        BY <2>3, <3>2
      <4> QED BY <2>1, <2>2, <2>3, <4>1
    <3> QED BY <3>1, <3>2
  <2>5. Len(got') <= Len(frames')
    BY <2>1, <2>2, <2>3
  <2> QED BY <2>2, <2>4, <2>5 DEF OrderInv
<1>4. CASE UNCHANGED <<frames, got>>
  BY <1>4 DEF OrderInv
<1>5. CASE Write \/ Shutdown \/ Break \/ RecvNeedsMore \/ RecvInvalid \/ Read \/ ReadEnd \/ UNCHANGED vars
  BY <1>4, <1>5 DEF Write, Shutdown, Break, RecvNeedsMore, RecvInvalid, Read, ReadEnd, vars
<1> QED BY <1>1, <1>2, <1>3, <1>5 DEF Next, Recv

LEMMA InitOrder == Init => OrderInv
  BY DEF Init, OrderInv

-----------------------------------------------------------------------------
(* The packets sent. *)

Payload(x) == SubSeq(x, XOT_HEADER_LEN + 1, Len(x))

(* The first n of f are frames, what follows is not. *)
CutAt(f, n) == /\ n \in 0 .. Len(f)
               /\ \A i \in 1 .. n : IsFrame(f[i])
               /\ n < Len(f) => ~IsFrame(f[n + 1])

LEMMA CutExists ==
    ASSUME NEW f, Len(f) \in Nat
    PROVE  \E n \in 0 .. Len(f) : CutAt(f, n)
<1> DEFINE Ends == {n \in 0 .. Len(f) : n = Len(f) \/ ~IsFrame(f[n + 1])}
<1>1. Ends \in SUBSET Nat /\ Ends # {}
  <2>1. Len(f) \in Ends
    OBVIOUS
  <2> QED BY <2>1
<1>2. PICK n \in Ends : \A m \in Ends : n <= m
  BY <1>1, LeastNumber, Zenon
<1>3. ASSUME NEW i \in 1 .. n PROVE IsFrame(f[i])
  <2>1. i - 1 \in 0 .. Len(f) /\ ~(n <= i - 1) /\ i - 1 # Len(f) /\ (i - 1) + 1 = i
    BY <1>2
  <2>2. i - 1 \notin Ends
    BY <1>2, <2>1
  <2> QED BY <2>1, <2>2
<1> QED BY <1>2, <1>3 DEF CutAt

LEMMA CutUnique ==
    ASSUME NEW f, Len(f) \in Nat, NEW n, CutAt(f, n), NEW m, CutAt(f, m)
    PROVE  n = m
<1>1. n \in 0 .. Len(f) /\ m \in 0 .. Len(f)
  BY DEF CutAt
<1>2. ASSUME n < m PROVE FALSE
  BY <1>1, <1>2 DEF CutAt
<1>3. ASSUME m < n PROVE FALSE
  BY <1>1, <1>3 DEF CutAt
<1> QED BY <1>1, <1>2, <1>3

(* Sent, of any frames. *)
SentOf(f) ==
    LET good(n) == \A i \in 1 .. n : IsFrame(f[i])
        n == CHOOSE n \in 0 .. Len(f) : good(n) /\ (n < Len(f) => ~good(n + 1))
    IN  [i \in 1 .. n |-> Payload(f[i])]

LEMMA SentNow == Sent = SentOf(frames) /\ Sent' = SentOf(frames')
  BY DEF Sent, SentOf, Payload

LEMMA SentIs ==
    ASSUME NEW f, Len(f) \in Nat, NEW n, CutAt(f, n)
    PROVE  SentOf(f) = [i \in 1 .. n |-> Payload(f[i])]
<1> DEFINE good(k) == \A i \in 1 .. k : IsFrame(f[i])
           Cut(k) == k \in 0 .. Len(f) /\ good(k) /\ (k < Len(f) => ~good(k + 1))
<1>1. \A k : Cut(k) <=> CutAt(f, k)
  <2> SUFFICES ASSUME NEW k \in 0 .. Len(f), good(k)
               PROVE  good(k + 1) <=> IsFrame(f[k + 1])
    BY DEF CutAt
  <2>1. \A i \in 1 .. k + 1 : i \in 1 .. k \/ i = k + 1
    OBVIOUS
  <2>2. k + 1 \in 1 .. k + 1
    OBVIOUS
  <2> QED BY <2>1, <2>2
<1> DEFINE c == CHOOSE k \in 0 .. Len(f) : good(k) /\ (k < Len(f) => ~good(k + 1))
<1>2. Cut(c)
  <2>1. \E k \in 0 .. Len(f) : good(k) /\ (k < Len(f) => ~good(k + 1))
    BY <1>1 DEF CutAt
  <2> HIDE DEF good
  <2> QED BY <2>1, Zenon
<1>3. SentOf(f) = [i \in 1 .. c |-> Payload(f[i])]
  BY DEF SentOf
<1> HIDE DEF c
<1>4. c = n
  BY <1>1, <1>2, CutUnique
<1> QED BY <1>3, <1>4

LEMMA FrameIs ==
    ASSUME NEW p \in Seq(Octet), Valid(p)
    PROVE  IsFrame(Encode(p)) /\ Payload(Encode(p)) = p
  BY EncodeIs DEF IsFrame, Payload

LEMMA NonFrameIs ==
    ASSUME Recognisable, NEW octets \in NonFrames
    PROVE  ~IsFrame(octets)
<1> SUFFICES ASSUME IsFrame(octets) PROVE FALSE
  OBVIOUS
<1>1. octets \in Seq(Octet) /\ Decode(octets) = Invalid
  BY LinkAssumption DEF Octet, Recognisable
<1>2. Payload(octets) \in Seq(Octet) /\ Valid(Payload(octets)) /\ octets = Encode(Payload(octets))
  <2>1. Headed(octets)
    BY <1>1, DecodeIs
  <2>2. XOT_HEADER_LEN \in 0 .. Len(octets)
    BY <1>1, <2>1 DEF Headed, XOT_HEADER_LEN
  <2>3. Payload(octets) \in Seq(Octet)
    BY <1>1, <2>2, SuffixIs DEF Payload
  <2> QED BY <2>3 DEF IsFrame, Payload
<1>3. <<>> \in Seq(Octet)
  OBVIOUS
<1>4. Good(octets \o <<>>)
  BY <1>2, <1>3, FrameDecodes
<1>5. octets \o <<>> = octets
  BY <1>1, NoneJoined
<1>6. Good(octets) /\ ~Good(octets)
  BY <1>1, <1>4, <1>5, DecodeIs
<1> QED BY <1>6

LEMMA FunctionIsSeq ==
    ASSUME NEW S, NEW n \in Nat, NEW f \in [1 .. n -> S]
    PROVE  f \in Seq(S) /\ Len(f) = n
  OBVIOUS

(* The packets of frames, once one more is written. *)
LEMMA SentGrows ==
    ASSUME NEW f \in Seq(Seq(Octet)), NEW e \in Seq(Octet), NEW p, Payload(e) = p,
           NEW n, CutAt(f, n)
    PROVE  IF n = Len(f) /\ IsFrame(e) THEN SentOf(Append(f, e)) = Append(SentOf(f), p)
                                       ELSE SentOf(Append(f, e)) = SentOf(f)
<1> DEFINE g == Append(f, e)
<1>1. /\ Len(g) = Len(f) + 1 /\ Len(f) \in Nat /\ \A i \in 1 .. Len(f) : g[i] = f[i]
      /\ g[Len(f) + 1] = e
  BY AppendIs
<1> HIDE DEF g
<1>2. /\ n \in 0 .. Len(f) /\ n \in Nat /\ \A i \in 1 .. n : IsFrame(f[i]) /\ g[i] = f[i]
      /\ n < Len(f) => ~IsFrame(f[n + 1]) /\ g[n + 1] = f[n + 1]
      /\ n = Len(f) => g[n + 1] = e
  <2>1. n \in 0 .. Len(f) /\ (\A i \in 1 .. n : IsFrame(f[i])) /\ (n < Len(f) => ~IsFrame(f[n + 1]))
    BY DEF CutAt
  <2>2. /\ n \in Nat /\ \A i \in 1 .. n : i \in 1 .. Len(f)
        /\ n < Len(f) => n + 1 \in 1 .. Len(f)
    BY <1>1, <2>1
  <2> QED BY <1>1, <2>1, <2>2
<1>3. SentOf(f) = [i \in 1 .. n |-> Payload(f[i])]
  BY <1>1, SentIs
<1>4. CASE n = Len(f) /\ IsFrame(e)
  <2>1. \A i \in 1 .. n + 1 : i \in 1 .. n \/ i = n + 1
    BY <1>2
  <2>2. CutAt(g, n + 1)
    <3>1. n + 1 \in 0 .. Len(g) /\ ~(n + 1 < Len(g))
      BY <1>1, <1>2, <1>4
    <3>2. \A i \in 1 .. n + 1 : IsFrame(g[i])
      BY <1>2, <1>4, <2>1
    <3> QED BY <3>1, <3>2 DEF CutAt
  <2>3. SentOf(g) = [i \in 1 .. n + 1 |-> Payload(g[i])]
    BY <1>1, <2>2, SentIs
  <2> DEFINE s == [i \in 1 .. n |-> Payload(f[i])]
             t == [i \in 1 .. n + 1 |-> Payload(g[i])]
  <2>4. \A i \in 1 .. n + 1 : t[i] = IF i = n + 1 THEN p ELSE s[i]
    <3>1. \A i \in 1 .. n : i # n + 1 /\ i \in 1 .. n + 1
      BY <1>2
    <3>2. \A i \in 1 .. n : t[i] = s[i]
      BY <1>2, <3>1
    <3>3. n + 1 \in 1 .. n + 1 /\ t[n + 1] = p
      BY <1>1, <1>2, <1>4
    <3> HIDE DEF s, t
    <3> QED BY <2>1, <3>1, <3>2, <3>3
  <2> DEFINE S == {Payload(f[i]) : i \in 1 .. n} \cup {p}
  <2>5. s \in Seq(S) /\ Len(s) = n /\ p \in S /\ t \in Seq(S) /\ Len(t) = n + 1
    <3> DEFINE v(i) == Payload(f[i])
               w(i) == Payload(g[i])
    <3>1. \A i \in 1 .. n : v(i) \in S
      OBVIOUS
    <3>2. p \in S
      OBVIOUS
    <3>3. \A i \in 1 .. n + 1 : w(i) \in S
      <4>1. \A i \in 1 .. n : w(i) = v(i)
        BY <1>2
      <4>2. w(n + 1) = p
        BY <1>1, <1>2, <1>4
      <4> QED BY <2>1, <3>1, <3>2, <4>1, <4>2
    <3> HIDE DEF S, v, w
    <3>4. [i \in 1 .. n |-> v(i)] \in Seq(S) /\ Len([i \in 1 .. n |-> v(i)]) = n
      BY <1>2, <3>1
    <3>5. [i \in 1 .. n + 1 |-> w(i)] \in Seq(S) /\ Len([i \in 1 .. n + 1 |-> w(i)]) = n + 1
      <4>1. n + 1 \in Nat
        BY <1>2
      <4>2. [i \in 1 .. n + 1 |-> w(i)] \in [1 .. n + 1 -> S]
        BY <3>3, Zenon
      <4> QED BY <4>1, <4>2, FunctionIsSeq
    <3> QED BY <3>2, <3>4, <3>5 DEF v, w
  <2> HIDE DEF s, t, S
  <2>6. /\ Append(s, p) \in Seq(S) /\ Len(Append(s, p)) = n + 1
        /\ \A i \in 1 .. n : Append(s, p)[i] = s[i]
        /\ Append(s, p)[n + 1] = p
    BY <2>5, AppendIs
  <2>7. t = Append(s, p)
    <3>1. \A i \in 1 .. n + 1 : t[i] = Append(s, p)[i]
      <4>1. \A i \in 1 .. n : i # n + 1
        BY <1>2
      <4> QED BY <1>2, <2>1, <2>4, <2>6, <4>1
    <3> QED BY <2>5, <2>6, <3>1, SeqEqual
  <2>8. SentOf(Append(f, e)) = Append(SentOf(f), p)
    BY <1>3, <2>3, <2>7, Zenon DEF s, t, g
  <2> QED BY <1>4, <2>8
<1>5. CASE ~(n = Len(f) /\ IsFrame(e))
  <2>1. CutAt(g, n)
    BY <1>1, <1>2, <1>5 DEF CutAt
  <2>2. SentOf(g) = [i \in 1 .. n |-> Payload(g[i])]
    BY <1>1, <2>1, SentIs
  <2>3. SentOf(g) = SentOf(f)
    BY <1>2, <1>3, <2>2
  <2> QED BY <1>5, <2>3 DEF g
<1> QED BY <1>4, <1>5

(* When recv has failed after a shutdown, it has returned every packet     *)
(* sent: what is left in recv_buf begins with no frame.                    *)
LEMMA FailedHasAll ==
    ASSUME LinkInv, WaitInv, OrderInv, link = "closed", reader = "failed"
    PROVE  got = Sent
<1> DEFINE n == Len(got)
<1>1. /\ n \in 0 .. Len(frames) /\ n \in Nat /\ Len(frames) \in Nat
      /\ frames \in Seq(Seq(Octet)) /\ got \in Seq(Seq(Octet))
      /\ buf \in Seq(Octet) /\ tcp \in Seq(Octet) /\ writing = <<>>
  BY DEF LinkInv, ReadTypes, OrderInv, WaitInv
<1>2. \A i \in 1 .. n : IsFrame(frames[i]) /\ Payload(frames[i]) = got[i]
  BY FrameIs DEF LinkInv, ReadTypes, OrderInv
<1>3. ASSUME n < Len(frames), IsFrame(frames[n + 1]) PROVE FALSE
  <2> DEFINE f == frames[n + 1]
             q == Payload(f)
  <2>1. f \in Seq(Octet)
    BY <1>3, NextFrame
  <2>2. PICK a \in Seq(Octet), u \in Seq(Octet) : Cat(Cat(buf, tcp), u) = Cat(f, a) /\ u = <<>>
    BY <1>1, <1>3, NextFrame
  <2>3. Valid(q) /\ f = Encode(q) /\ q \in Seq(Octet)
    <3>1. Valid(q) /\ f = Encode(q)
      BY <1>3 DEF IsFrame, Payload
    <3>2. q \in Seq(Octet)
      <4>1. XOT_HEADER_LEN \in 0 .. Len(f)
        <5>1. Len(q) # 0
          BY <3>1, LinkAssumption DEF Valid
        <5> QED BY <2>1, <5>1 DEF Payload, XOT_HEADER_LEN
      <4> QED BY <2>1, <4>1, SuffixIs DEF Payload
    <3> QED BY <3>1, <3>2
  <2> HIDE DEF f, q
  <2>4. Good(Cat(f, a)) /\ Decode(Cat(f, a)).result = "packet"
    BY <2>2, <2>3, FrameDecodes DEF Cat
  <2>5. Cat(f, a) = Cat(buf, tcp)
    <3>1. Cat(buf, tcp) \in Seq(Octet)
      BY <1>1, CatType, <2>1
    <3>2. Cat(Cat(buf, tcp), <<>>) = Cat(buf, tcp)
      <4> DEFINE x == Cat(buf, tcp)
      <4> HIDE DEF x
      <4>1. x \o <<>> = x
        BY <3>1, NoneJoined DEF x
      <4> QED BY <4>1, Zenon DEF x, Cat
    <3> QED BY <2>2, <3>2, Zenon
  <2>6. CASE Decode(buf) = Invalid
    <3>1. Headed(buf) /\ ~Good(buf)
      BY <1>1, <2>6, DecodeIs
    <3>2. VersionOf(Cat(buf, tcp)) = VersionOf(buf) /\ LengthOf(Cat(buf, tcp)) = LengthOf(buf)
      BY <1>1, <3>1, HeaderStays DEF Headed, Cat
    <3> QED BY <2>4, <2>5, <3>1, <3>2 DEF Good
  <2>7. CASE Decode(buf) = Incomplete /\ tcp = <<>>
    <3>1. Cat(buf, tcp) = buf
      BY <1>1, <2>7, NoneJoined DEF Cat
    <3> QED BY <2>4, <2>5, <2>7, <3>1, DecodeResults
  <2> QED BY <2>6, <2>7 DEF WaitInv
<1>4. CutAt(frames, n)
  BY <1>1, <1>2, <1>3 DEF CutAt
<1>5. SentOf(frames) = [i \in 1 .. n |-> Payload(frames[i])]
  BY <1>1, <1>4, SentIs
<1>6. [i \in 1 .. n |-> Payload(frames[i])] = [i \in 1 .. n |-> got[i]]
  BY <1>2
<1>7. got = [i \in 1 .. n |-> got[i]]
  BY <1>1
<1> QED BY <1>5, <1>6, <1>7, SentNow, Zenon

LEMMA OrderAlways == ASSUME Recognisable PROVE Spec => [](LinkInv /\ WaitInv /\ OrderInv)
  BY InitLink, InitWait, InitOrder, LinkStep, WaitStep, OrderStep, PTL DEF Spec

(* A shutdown loses nothing of what was sent before it, if what is not a   *)
(* frame is refused at once.                                               *)
THEOREM ShutdownLosesNothingAlways ==
    ASSUME Recognisable
    PROVE  Spec => []ShutdownLosesNothing
<1>1. LinkInv /\ WaitInv /\ OrderInv => ShutdownLosesNothing
  BY FailedHasAll DEF ShutdownLosesNothing
<1> QED BY <1>1, OrderAlways, PTL

-----------------------------------------------------------------------------
(* The link implements the channel of whole packets. *)

LEMMA SendsOn ==
    ASSUME Recognisable, LinkInv, NEW octets, BeginsWrite(octets),
           octets \in NonFrames \/ \E p \in Packets : Valid(p) /\ octets = Encode(p)
    PROVE  [Channel!Next]_<<Sent, got>>
<1>1. frames \in Seq(Seq(Octet)) /\ Len(frames) \in Nat
  BY DEF LinkInv, ReadTypes
<1>2. frames' = Append(frames, octets) /\ got' = got
  BY DEF BeginsWrite
<1>3. PICK n : CutAt(frames, n)
  BY <1>1, CutExists
<1>4. CASE octets \in NonFrames
  <2>1. ~IsFrame(octets) /\ octets \in Seq(Octet)
    BY <1>4, NonFrameIs, LinkAssumption DEF Octet
  <2>2. SentOf(frames') = SentOf(frames)
    BY <1>1, <1>2, <1>3, <2>1, SentGrows
  <2> QED BY <1>2, <2>2, SentNow
<1>5. CASE \E p \in Packets : Valid(p) /\ octets = Encode(p)
  <2>1. PICK p \in Packets : Valid(p) /\ octets = Encode(p)
    BY <1>5
  <2>2. octets \in Seq(Octet) /\ IsFrame(octets) /\ Payload(octets) = p
    BY <2>1, FrameIs, EncodeIs, LinkAssumption DEF Octet
  <2>3. SentOf(frames') = Append(SentOf(frames), p) \/ SentOf(frames') = SentOf(frames)
    BY <1>1, <1>2, <1>3, <2>2, SentGrows
  <2>4. Sent' = Append(Sent, p) \/ Sent' = Sent
    BY <2>3, SentNow
  <2> QED BY <1>2, <2>1, <2>4 DEF Channel!Next, Channel!Send
<1> QED BY <1>4, <1>5

LEMMA Receives ==
    ASSUME Recognisable, LinkInv, OrderInv, RecvPacket
    PROVE  Channel!Receive
<1> DEFINE p == Decode(buf).packet
           m == Len(got) + 1
<1>1. Len(got) < Len(frames) /\ frames[m] = Encode(p) /\ Valid(p) /\ p \in Seq(Octet)
  BY ReturnsNext
<1>2. /\ frames \in Seq(Seq(Octet)) /\ Len(frames) \in Nat /\ Len(got) \in Nat
      /\ \A i \in 1 .. Len(got) : IsFrame(frames[i])
  <2>1. frames \in Seq(Seq(Octet)) /\ Len(frames) \in Nat /\ Len(got) \in Nat
    BY DEF LinkInv, ReadTypes
  <2>2. \A i \in 1 .. Len(got) : IsFrame(frames[i])
    BY FrameIs DEF LinkInv, ReadTypes, OrderInv
  <2> QED BY <2>1, <2>2
<1>3. frames' = frames /\ got' = Append(got, p)
  BY DEF RecvPacket
<1> HIDE DEF p
<1>4. PICK n : CutAt(frames, n)
  BY <1>2, CutExists
<1>5. IsFrame(frames[m]) /\ Payload(frames[m]) = p
  BY <1>1, FrameIs
<1>6. m \in 1 .. n /\ n \in Nat
  <2>1. n \in 0 .. Len(frames) /\ (n < Len(frames) => ~IsFrame(frames[n + 1]))
    BY <1>4 DEF CutAt
  <2>2. ASSUME n < m PROVE FALSE
    <3>1. n + 1 \in 1 .. Len(got) \/ n + 1 = m
      BY <1>2, <2>1, <2>2
    <3> QED BY <1>1, <1>2, <1>5, <2>1, <2>2, <3>1
  <2> QED BY <1>2, <2>1, <2>2
<1>7. Sent = [i \in 1 .. n |-> Payload(frames[i])]
  BY <1>2, <1>4, SentIs, SentNow
<1>8. Len(Sent) = n /\ Sent[m] = p
  BY <1>5, <1>6, <1>7
<1>9. Len(got) < Len(Sent)
  BY <1>2, <1>6, <1>8
<1>10. Sent' = Sent
  BY <1>3, SentNow
<1> QED BY <1>3, <1>8, <1>9, <1>10 DEF Channel!Receive

(* Each step of the link is one of the channel or changes neither the      *)
(* packets sent nor those returned.                                        *)
LEMMA ChannelStep ==
    ASSUME Recognisable, LinkInv, OrderInv, [Next]_vars
    PROVE  [Channel!Next]_<<Sent, got>>
<1>1. CASE Send
  BY <1>1, SendsOn DEF Send
<1>2. CASE OtherProgramSends
  BY <1>2, SendsOn DEF OtherProgramSends
<1>3. CASE RecvPacket
  BY <1>3, Receives DEF Channel!Next
<1>4. ASSUME UNCHANGED <<frames, got>> PROVE UNCHANGED <<Sent, got>>
  BY <1>4, SentNow
<1>5. CASE Write \/ Shutdown \/ Break \/ RecvNeedsMore \/ RecvInvalid \/ Read \/ ReadEnd \/ UNCHANGED vars
  BY <1>4, <1>5 DEF Write, Shutdown, Break, RecvNeedsMore, RecvInvalid, Read, ReadEnd, vars
<1> QED BY <1>1, <1>2, <1>3, <1>5 DEF Next, Recv

LEMMA ChannelInit == Init => Channel!Init
<1> SUFFICES ASSUME Init PROVE Sent = <<>> /\ got = <<>>
  BY DEF Channel!Init
<1>1. CutAt(<<>>, 0) /\ Len(<<>>) = 0
  BY DEF CutAt
<1>2. SentOf(<<>>) = [i \in 1 .. 0 |-> Payload(<<>>[i])]
  BY <1>1, SentIs
<1>3. [i \in 1 .. 0 |-> Payload(<<>>[i])] = <<>>
  OBVIOUS
<1> QED BY <1>2, <1>3, SentNow DEF Init

(* The link promises what PacketChannel says: recv returns the packets     *)
(* passed to send, whole, once each and in order.                          *)
THEOREM LinkImplementsChannel ==
    ASSUME Recognisable
    PROVE  Spec => ImplementsChannel
<1>1. Init => Channel!Init
  BY ChannelInit
<1>2. LinkInv /\ OrderInv /\ [Next]_vars => [Channel!Next]_<<Sent, got>>
  BY ChannelStep
<1>3. Spec => []LinkInv /\ []OrderInv
  BY OrderAlways, PTL
<1>4. Spec => Channel!Init /\ [][Channel!Next]_<<Sent, got>>
  BY <1>1, <1>2, <1>3, PTL DEF Spec
<1> QED BY <1>4 DEF ImplementsChannel, Channel!Spec
=============================================================================
