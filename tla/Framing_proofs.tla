--------------------------- MODULE Framing_proofs ---------------------------
(***************************************************************************)
(* Proofs about Framing, for every size of byte, prefix and packet and for *)
(* every way TCP may cut the stream.                                       *)
(***************************************************************************)
EXTENDS Framing, SequenceTheorems, WellFoundedInduction, TLAPS

-----------------------------------------------------------------------------
(* Induction, and division                                                 *)

\* A set of natural numbers that holds 0 and with every number the next one
\* holds them all.
LEMMA SetInduction ==
    ASSUME NEW S, 0 \in S, \A n \in Nat : n \in S => n + 1 \in S
    PROVE  \A n \in Nat : n \in S
<1> SUFFICES ASSUME Nat \ S # {}
             PROVE  FALSE
  OBVIOUS
<1>1. PICK x \in Nat \ S : \A y \in Nat \ S : <<y, x>> \notin OpToRel(<, Nat)
  BY NatLessThanWellFounded, WFMin
<1>2. x # 0
  OBVIOUS
<1>3. x - 1 \in Nat \ S
  BY <1>2
<1>4. <<x - 1, x>> \in OpToRel(<, Nat)
  BY <1>3 DEF OpToRel
<1> QED
  BY <1>1, <1>3, <1>4

\* What the quotient and the remainder are.
LEMMA Quotient ==
    ASSUME NEW n \in Nat, NEW q \in Nat \ {0},
           NEW c, c = n \div q, NEW r, r = n % q
    PROVE  c \in Nat /\ r \in Nat /\ r < q /\ n = q * c + r
<1>1. c \in Nat /\ r \in Nat /\ r < q
  OBVIOUS
<1> QED
  BY <1>1

LEMMA Remainder ==
    ASSUME NEW m \in Nat \ {0}, NEW c \in Nat, NEW r \in Nat, r < m
    PROVE  (m * c + r) % m = r
  OBVIOUS

LEMMA Below ==
    ASSUME NEW b \in Nat, NEW q \in Nat, NEW e \in Nat, NEW r \in Nat, e < b, r < q
    PROVE  r + e * q < b * q
  OBVIOUS

LEMMA Product ==
    ASSUME NEW b \in Nat \ {0}, NEW q \in Nat \ {0}
    PROVE  b * q \in Nat \ {0}
  OBVIOUS

\* A remainder with one digit more.
LEMMA Digit ==
    ASSUME NEW n \in Nat, NEW q \in Nat \ {0}, NEW b \in Nat \ {0}
    PROVE  n % (b * q) = (n % q) + ((n \div q) % b) * q
<1>1. PICK c, r : c = n \div q /\ r = n % q
  OBVIOUS
<1>2. c \in Nat /\ r \in Nat /\ r < q /\ n = q * c + r
  BY <1>1, Quotient
<1>3. PICK d, e : d = c \div b /\ e = c % b
  OBVIOUS
<1>4. c \in Nat
  BY <1>2
<1>5. d \in Nat /\ e \in Nat /\ e < b /\ c = b * d + e
  BY <1>3, <1>4, Quotient
<1>6. b \in Nat /\ q \in Nat
  OBVIOUS
<1>7. q * (b * d + e) + r = (b * q) * d + (r + e * q)
  <2>1. d \in Nat /\ e \in Nat /\ r \in Nat
    BY <1>2, <1>5
  <2> QED
    BY <1>6, <2>1
<1>8. r + e * q < b * q
  BY <1>2, <1>5, <1>6, Below, Zenon
<1>9. PICK m, s : m = b * q /\ s = r + e * q
  OBVIOUS
<1>10. m \in Nat \ {0}
  BY <1>9, Product
<1>11. s \in Nat
  BY <1>2, <1>5, <1>9
<1>12. n = m * d + s /\ s < m
  BY <1>2, <1>5, <1>7, <1>8, <1>9, Zenon
<1>13. (m * d + s) % m = s
  BY <1>5, <1>10, <1>11, <1>12, Remainder
<1>14. n % m = s
  BY <1>12, <1>13
<1> QED
  BY <1>1, <1>3, <1>9, <1>14

-----------------------------------------------------------------------------
(* The length prefix                                                       *)

IsPower(g, n) == g = [i \in 0 .. n |-> IF i = 0 THEN 1 ELSE Base * g[i - 1]]

\* The recursion of Power has a solution, and Power solves it.
LEMMA PowerDefined == IsPower(Power, HeaderSize)
<1> DEFINE S == {n \in Nat : \E g : IsPower(g, n)}
<1>1. 0 \in S
  <2> DEFINE g == [i \in 0 .. 0 |-> 1]
  <2>1. IsPower(g, 0)
    BY DEF IsPower
  <2> QED
    BY <2>1
<1>2. ASSUME NEW n \in Nat, n \in S
      PROVE  n + 1 \in S
  <2> PICK g : IsPower(g, n)
    BY <1>2
  <2> DEFINE h == [i \in 0 .. n + 1 |-> IF i = 0 THEN 1 ELSE Base * g[i - 1]]
  <2>1. \A i \in 0 .. n : h[i] = g[i]
    BY DEF IsPower
  <2>2. h = [i \in 0 .. n + 1 |-> IF i = 0 THEN 1 ELSE Base * h[i - 1]]
    <3>1. ASSUME NEW i \in 0 .. n + 1, i # 0
          PROVE  h[i - 1] = g[i - 1]
      <4>1. i - 1 \in 0 .. n
        BY <3>1
      <4> QED
        BY <2>1, <4>1
    <3> QED
      BY <3>1
  <2> HIDE DEF h
  <2>3. IsPower(h, n + 1)
    BY <2>2 DEF IsPower
  <2>4. n + 1 \in Nat
    OBVIOUS
  <2> QED
    BY <2>3, <2>4
<1>3. HeaderSize \in Nat
  BY FramingAssumption
<1> HIDE DEF S
<1>4. HeaderSize \in S
  BY <1>1, <1>2, <1>3, SetInduction
<1> QED
  BY <1>4 DEF S, IsPower, Power

\* Every power is a positive number, Base times the one before.
LEMMA PowerType ==
    /\ \A i \in 0 .. HeaderSize : Power[i] \in Nat \ {0}
    /\ Power[0] = 1
    /\ \A i \in 1 .. HeaderSize : Power[i] = Base * Power[i - 1]
<1>1. HeaderSize \in Nat \ {0} /\ Base \in Nat \ {0}
  BY FramingAssumption
<1>2. /\ Power[0] = 1
      /\ \A i \in 1 .. HeaderSize : Power[i] = Base * Power[i - 1]
  BY <1>1, PowerDefined DEF IsPower
<1> DEFINE S == {n \in Nat : n <= HeaderSize => Power[n] \in Nat \ {0}}
<1>3. 0 \in S
  BY <1>2
<1>4. ASSUME NEW n \in Nat, n \in S
      PROVE  n + 1 \in S
  <2> SUFFICES ASSUME n + 1 <= HeaderSize
               PROVE  Power[n + 1] \in Nat \ {0}
    OBVIOUS
  <2>1. n + 1 \in 1 .. HeaderSize /\ (n + 1) - 1 = n /\ n <= HeaderSize
    BY <1>1
  <2>2. Power[n + 1] = Base * Power[n]
    BY <1>2, <2>1
  <2>3. Power[n] \in Nat \ {0}
    BY <1>4, <2>1
  <2> QED
    BY <1>1, <2>2, <2>3
<1> HIDE DEF S
<1>5. \A n \in Nat : n \in S
  BY <1>3, <1>4, SetInduction
<1> QED
  BY <1>1, <1>2, <1>5 DEF S

\* Lengths are numbers.
LEMMA Maximum == MAX_PACKET_SIZE \in Nat /\ \A p \in Packets : Len(p) \in Nat
<1>1. Power[HeaderSize] \in Nat
  BY FramingAssumption, PowerType
<1> QED
  BY <1>1, FramingAssumption

\* A packet's frame: the prefix, which is of bytes, and the packet.
LEMMA FrameType ==
    ASSUME NEW p \in Packets
    PROVE  /\ frame_packet(p) \in Seq(Byte)
           /\ Len(frame_packet(p)) = HeaderSize + Len(p)
           /\ \A i \in 1 .. HeaderSize : frame_packet(p)[i] = LittleEndian(Len(p))[i]
           /\ \A i \in 1 .. Len(p) : frame_packet(p)[HeaderSize + i] = p[i]
<1>1. HeaderSize \in Nat /\ Base \in Nat \ {0} /\ p \in Seq(Byte)
  BY FramingAssumption
<1> PICK l : l = LittleEndian(Len(p))
  OBVIOUS
<1>2. ASSUME NEW i \in 1 .. HeaderSize
      PROVE  (Len(p) \div Power[i - 1]) % Base \in Byte
  <2>1. Len(p) \in Nat /\ Power[i - 1] \in Nat \ {0}
    BY <1>1, PowerType
  <2>2. Len(p) \div Power[i - 1] \in Nat
    BY <2>1, Quotient
  <2> PICK r : r = (Len(p) \div Power[i - 1]) % Base
    OBVIOUS
  <2>3. r \in Nat /\ r < Base
    BY <1>1, <2>2, Quotient
  <2> QED
    BY <1>1, <2>3 DEF Byte
<1>3. l \in [1 .. HeaderSize -> Byte]
  BY <1>2 DEF LittleEndian
<1>4. l \in Seq(Byte) /\ Len(l) = HeaderSize
  BY <1>1, <1>3
<1>5. frame_packet(p) = l \o p
  BY DEF frame_packet
<1> PICK f : f = frame_packet(p)
  OBVIOUS
<1>6. f \in Seq(Byte) /\ Len(f) = HeaderSize + Len(p)
  BY <1>1, <1>4, <1>5, ConcatProperties
<1>7. \A i \in 1 .. HeaderSize + Len(p) :
          f[i] = IF i <= HeaderSize THEN l[i] ELSE p[i - HeaderSize]
  BY <1>1, <1>4, <1>5, ConcatProperties
<1>8. \A i \in 1 .. HeaderSize : f[i] = l[i]
  BY <1>1, <1>7
<1>9. \A i \in 1 .. Len(p) : f[HeaderSize + i] = p[i]
  BY <1>1, <1>7
<1> QED
  BY <1>6, <1>8, <1>9

\* struct.unpack gives back what struct.pack was given.
LEMMA LengthOfPrefix ==
    ASSUME NEW n \in Nat, n < Power[HeaderSize], NEW data,
           \A i \in 1 .. HeaderSize : data[i] = LittleEndian(n)[i]
    PROVE  Length(data) = n
<1>1. HeaderSize \in Nat /\ Base \in Nat \ {0}
  BY FramingAssumption
<1> DEFINE g == [i \in 0 .. HeaderSize |-> n % Power[i]]
<1>2. g = [i \in 0 .. HeaderSize |-> IF i = 0 THEN 0 ELSE g[i - 1] + data[i] * Power[i - 1]]
  <2>1. ASSUME NEW i \in 1 .. HeaderSize
        PROVE  n % Power[i] = (n % Power[i - 1]) + data[i] * Power[i - 1]
    <3>1. Power[i] = Base * Power[i - 1] /\ Power[i - 1] \in Nat \ {0}
      BY <1>1, PowerType
    <3>2. data[i] = (n \div Power[i - 1]) % Base
      BY DEF LittleEndian
    <3> PICK q : q = Power[i - 1]
      OBVIOUS
    <3>3. n % (Base * q) = (n % q) + ((n \div q) % Base) * q
      BY <1>1, <3>1, Digit
    <3> QED
      BY <3>1, <3>2, <3>3, Zenon
  <2>2. n % Power[0] = 0
    BY PowerType
  <2>3. ASSUME NEW i \in 0 .. HeaderSize
        PROVE  g[i] = IF i = 0 THEN 0 ELSE g[i - 1] + data[i] * Power[i - 1]
    <3>1. CASE i = 0
      BY <2>2, <3>1
    <3>2. CASE i # 0
      <4>1. i \in 1 .. HeaderSize /\ i - 1 \in 0 .. HeaderSize
        BY <3>2, <1>1
      <4> QED
        BY <2>1, <3>2, <4>1
    <3> QED
      BY <3>1, <3>2
  <2> QED
    BY <2>3
<1> HIDE DEF g
<1>3. PICK h : /\ h = [i \in 0 .. HeaderSize |->
                          IF i = 0 THEN 0 ELSE h[i - 1] + data[i] * Power[i - 1]]
               /\ Length(data) = h[HeaderSize]
  BY <1>2 DEF Length
<1> DEFINE S == {i \in Nat : i <= HeaderSize => h[i] = g[i]}
<1>4. 0 \in S
  BY <1>1, <1>2, <1>3
<1>5. ASSUME NEW i \in Nat, i \in S
      PROVE  i + 1 \in S
  <2> SUFFICES ASSUME i + 1 <= HeaderSize
               PROVE  h[i + 1] = g[i + 1]
    OBVIOUS
  <2>1. i + 1 \in 0 .. HeaderSize /\ i + 1 # 0 /\ (i + 1) - 1 = i /\ i <= HeaderSize
    BY <1>1
  <2>2. h[i] = g[i]
    BY <1>5, <2>1
  <2> QED
    BY <1>2, <1>3, <2>1, <2>2
<1> HIDE DEF S
<1>6. HeaderSize \in S
  BY <1>1, <1>4, <1>5, SetInduction
<1>7. h[HeaderSize] = g[HeaderSize]
  BY <1>1, <1>6 DEF S
<1>8. g[HeaderSize] = n % Power[HeaderSize] /\ Power[HeaderSize] \in Nat \ {0}
  BY <1>1, PowerType DEF g
<1>9. n % Power[HeaderSize] = n
  BY <1>8
<1> QED
  BY <1>3, <1>7, <1>8, <1>9

-----------------------------------------------------------------------------
(* Bytes behind bytes                                                      *)

\* Where the bytes of a concatenation come from.
LEMMA BytesBehind ==
    ASSUME NEW a \in Seq(Byte), NEW b \in Seq(Byte)
    PROVE  /\ a \o b \in Seq(Byte)
           /\ Len(a \o b) = Len(a) + Len(b)
           /\ \A i \in 1 .. Len(a) : (a \o b)[i] = a[i]
           /\ \A i \in 1 .. Len(b) : (a \o b)[Len(a) + i] = b[i]
<1> PICK c : c = a \o b
  OBVIOUS
<1>1. Len(a) \in Nat /\ Len(b) \in Nat
  OBVIOUS
<1>2. /\ c \in Seq(Byte)
      /\ Len(c) = Len(a) + Len(b)
      /\ \A i \in 1 .. Len(a) + Len(b) : c[i] = IF i <= Len(a) THEN a[i] ELSE b[i - Len(a)]
  BY ConcatProperties
<1>3. \A i \in 1 .. Len(a) : c[i] = a[i]
  BY <1>1, <1>2
<1>4. ASSUME NEW i \in 1 .. Len(b)
      PROVE  c[Len(a) + i] = b[i]
  <2>1. PICK j \in Nat : j = Len(a) + i
    BY <1>1
  <2>2. j \in 1 .. Len(a) + Len(b) /\ ~(j <= Len(a)) /\ j - Len(a) = i
    BY <1>1, <2>1
  <2> QED
    BY <1>2, <2>1, <2>2
<1> QED
  BY <1>2, <1>3, <1>4

\* How three pieces of the stream are bracketed does not matter.
LEMMA Associate ==
    ASSUME NEW a \in Seq(Byte), NEW b \in Seq(Byte), NEW c \in Seq(Byte)
    PROVE  b \o c \in Seq(Byte) /\ (a \o b) \o c = a \o (b \o c)
<1>1. (a \o b) \o c = a \o (b \o c)
  BY ConcatAssociative, SMTT(60)
<1> QED
  BY <1>1

-----------------------------------------------------------------------------
(* The frames of a sequence of packets                                     *)

\* g[i] is the frames of the first i packets of s, for each i up to n.
UnrollsTo(g, s, n) ==
    /\ g[0] = <<>>
    /\ \A i \in 0 .. n : g[i] \in Seq(Byte)
    /\ \A i \in 1 .. n : g[i] = g[i - 1] \o frame_packet(s[i])

Unrolls(g, s) == UnrollsTo(g, s, Len(s))

\* The frames of the first packets exist for every number of them.
LEMMA UnrollsExists ==
    ASSUME NEW s \in Seq(Packets)
    PROVE  \E g : Unrolls(g, s)
<1> DEFINE S == {n \in Nat : n <= Len(s) => \E g : UnrollsTo(g, s, n)}
<1>1. 0 \in S
  <2>1. UnrollsTo([i \in 0 .. 0 |-> <<>>], s, 0)
    BY DEF UnrollsTo
  <2> QED
    BY <2>1
<1>2. ASSUME NEW n \in Nat, n \in S
      PROVE  n + 1 \in S
  <2> SUFFICES ASSUME n + 1 <= Len(s)
               PROVE  \E g : UnrollsTo(g, s, n + 1)
    OBVIOUS
  <2>1. Len(s) \in Nat /\ n <= Len(s) /\ n + 1 \in 1 .. Len(s)
    OBVIOUS
  <2>2. PICK g : UnrollsTo(g, s, n)
    BY <1>2, <2>1
  <2>3. PICK f : f = frame_packet(s[n + 1])
    OBVIOUS
  <2>4. f \in Seq(Byte) /\ g[n] \in Seq(Byte)
    BY <2>1, <2>2, <2>3, FrameType DEF UnrollsTo
  <2>5. g[n] \o f \in Seq(Byte)
    BY <2>4
  <2>6. PICK h : h = [i \in 0 .. n + 1 |-> IF i = n + 1 THEN g[n] \o f ELSE g[i]]
    OBVIOUS
  <2>7. h[n + 1] = g[n] \o f /\ \A i \in 0 .. n : h[i] = g[i]
    BY <2>6
  <2>8. h[0] = <<>> /\ \A i \in 0 .. n + 1 : h[i] \in Seq(Byte)
    <3>1. h[0] = <<>>
      BY <2>2, <2>7 DEF UnrollsTo
    <3>2. \A i \in 0 .. n + 1 : i \in 0 .. n \/ i = n + 1
      OBVIOUS
    <3> QED
      BY <2>2, <2>5, <2>7, <3>1, <3>2 DEF UnrollsTo
  <2>9. ASSUME NEW i \in 1 .. n + 1
        PROVE  h[i] = h[i - 1] \o frame_packet(s[i])
    <3>1. CASE i = n + 1
      <4>1. i - 1 = n /\ n \in 0 .. n
        BY <3>1
      <4> QED
        BY <2>3, <2>7, <3>1, <4>1
    <3>2. CASE i # n + 1
      <4>1. i \in 1 .. n /\ i \in 0 .. n /\ i - 1 \in 0 .. n
        BY <3>2
      <4> QED
        BY <2>2, <2>7, <4>1 DEF UnrollsTo
    <3> QED
      BY <3>1, <3>2
  <2> QED
    BY <2>8, <2>9 DEF UnrollsTo
<1> HIDE DEF S
<1>3. Len(s) \in Nat
  OBVIOUS
<1>4. Len(s) \in S
  BY <1>1, <1>2, <1>3, SetInduction
<1> QED
  BY <1>3, <1>4 DEF S, Unrolls

\* Framed is the last of them.
LEMMA FramedUnrolled ==
    ASSUME NEW s \in Seq(Packets), NEW g, Unrolls(g, s)
    PROVE  Framed(s) = g[Len(s)]
<1>1. PICK fs : fs = [i \in DOMAIN s |-> frame_packet(s[i])]
  OBVIOUS
<1>2. Len(s) \in Nat /\ DOMAIN s = 1 .. Len(s)
  OBVIOUS
<1>3. \A i \in 1 .. Len(s) : frame_packet(s[i]) \in Seq(Byte)
  BY FrameType
<1>4. Len(fs) = Len(s) /\ \A i \in 1 .. Len(s) : fs[i] = frame_packet(s[i])
  BY <1>1, <1>2
<1>5. Framed(s) = FlattenSeq(fs)
  BY <1>1 DEF Framed
<1>6. CASE Len(s) = 0
  <2>1. fs = <<>>
    BY <1>1, <1>2, <1>6
  <2>2. FlattenSeq(fs) = fs
    BY <1>4, <1>6 DEF FlattenSeq
  <2> QED
    BY <1>5, <1>6, <2>1, <2>2 DEF Unrolls, UnrollsTo
<1>7. CASE Len(s) # 0
  <2>1. PICK u : u = [i \in 1 .. Len(s) |-> g[i]]
    OBVIOUS
  <2>2. u = [i \in 1 .. Len(s) |-> IF i = 1 THEN fs[i] ELSE u[i - 1] \o fs[i]]
    <3>1. ASSUME NEW i \in 1 .. Len(s), i # 1
          PROVE  g[i] = u[i - 1] \o fs[i]
      <4>1. i - 1 \in 1 .. Len(s)
        BY <1>2, <3>1
      <4> QED
        BY <1>4, <2>1, <4>1 DEF Unrolls, UnrollsTo
    <3>2. g[1] = fs[1]
      <4>1. 1 \in 1 .. Len(s) /\ 1 - 1 = 0
        BY <1>2, <1>7
      <4>2. g[1] = <<>> \o fs[1]
        BY <1>4, <4>1 DEF Unrolls, UnrollsTo
      <4>3. fs[1] \in Seq(Byte)
        BY <1>3, <1>4, <4>1
      <4> QED
        BY <4>2, <4>3, ConcatEmptySeq
    <3> QED
      BY <2>1, <3>1, <3>2
  <2>3. PICK h : /\ h = [i \in 1 .. Len(fs) |-> IF i = 1 THEN fs[i] ELSE h[i - 1] \o fs[i]]
                 /\ FlattenSeq(fs) = h[Len(fs)]
    BY <1>4, <1>7, <2>2 DEF FlattenSeq
  <2> DEFINE S == {i \in Nat : i + 1 <= Len(s) => h[i + 1] = u[i + 1]}
  <2>4. 0 \in S
    <3>1. 1 \in 1 .. Len(s)
      BY <1>2, <1>7
    <3> QED
      BY <1>4, <2>2, <2>3, <3>1
  <2>5. ASSUME NEW i \in Nat, i \in S
        PROVE  i + 1 \in S
    <3> SUFFICES ASSUME (i + 1) + 1 <= Len(s)
                 PROVE  h[(i + 1) + 1] = u[(i + 1) + 1]
      OBVIOUS
    <3>1. /\ (i + 1) + 1 \in 1 .. Len(s) /\ (i + 1) + 1 # 1
          /\ ((i + 1) + 1) - 1 = i + 1 /\ i + 1 <= Len(s)
      BY <1>2
    <3>2. h[i + 1] = u[i + 1]
      BY <2>5, <3>1
    <3> PICK j : j = (i + 1) + 1
      OBVIOUS
    <3>3. u[j] = u[i + 1] \o fs[j]
      BY <2>2, <3>1
    <3>4. h[j] = h[i + 1] \o fs[j]
      BY <1>4, <2>3, <3>1
    <3> QED
      BY <3>2, <3>3, <3>4
  <2> HIDE DEF S
  <2>6. Len(s) - 1 \in Nat /\ (Len(s) - 1) + 1 = Len(s) /\ Len(s) \in 1 .. Len(s)
    BY <1>2, <1>7
  <2>7. Len(s) - 1 \in S
    BY <2>4, <2>5, <2>6, SetInduction
  <2>8. h[Len(s)] = u[Len(s)]
    BY <2>6, <2>7 DEF S
  <2> QED
    BY <1>4, <1>5, <2>1, <2>3, <2>6, <2>8
<1> QED
  BY <1>6, <1>7

\* No packets, no bytes.
LEMMA FramedEmpty == Framed(<<>>) = <<>>
<1>1. <<>> \in Seq(Packets) /\ Len(<<>>) = 0
  BY EmptySeq
<1>2. PICK g : Unrolls(g, <<>>)
  BY <1>1, UnrollsExists
<1>3. Framed(<<>>) = g[Len(<<>>)]
  BY <1>1, <1>2, FramedUnrolled
<1> QED
  BY <1>1, <1>2, <1>3 DEF Unrolls, UnrollsTo

\* One packet more is one frame more.
LEMMA FramedAppend ==
    ASSUME NEW s \in Seq(Packets), NEW p \in Packets
    PROVE  /\ Framed(s) \in Seq(Byte)
           /\ Framed(Append(s, p)) = Framed(s) \o frame_packet(p)
<1>1. PICK t : t = Append(s, p)
  OBVIOUS
<1>2. /\ t \in Seq(Packets) /\ Len(t) = Len(s) + 1 /\ Len(s) \in Nat
      /\ t[Len(s) + 1] = p
      /\ \A i \in 1 .. Len(s) : t[i] = s[i]
  BY <1>1
<1>3. PICK g : Unrolls(g, t)
  BY <1>2, UnrollsExists
<1>4. Unrolls(g, s)
  <2>1. \A i \in 0 .. Len(s) : i \in 0 .. Len(t)
    BY <1>2
  <2>2. \A i \in 1 .. Len(s) : i \in 1 .. Len(t)
    BY <1>2
  <2> QED
    BY <1>2, <1>3, <2>1, <2>2 DEF Unrolls, UnrollsTo
<1>5. Framed(s) = g[Len(s)] /\ Framed(t) = g[Len(t)]
  BY <1>2, <1>3, <1>4, FramedUnrolled
<1>6. Len(t) \in 1 .. Len(t) /\ Len(t) - 1 = Len(s) /\ Len(s) \in 0 .. Len(s)
  BY <1>2
<1>7. g[Len(t)] = g[Len(s)] \o frame_packet(p) /\ g[Len(s)] \in Seq(Byte)
  BY <1>2, <1>3, <1>4, <1>6 DEF Unrolls, UnrollsTo
<1> QED
  BY <1>1, <1>5, <1>7

\* The frames of s begin with those of its first packets.
LEMMA FramedBegins ==
    ASSUME NEW s \in Seq(Packets), NEW k \in 0 .. Len(s)
    PROVE  \E rest \in Seq(Byte) : Framed(s) = Framed(SubSeq(s, 1, k)) \o rest
<1>1. PICK t : t = SubSeq(s, 1, k)
  OBVIOUS
<1>2. /\ Len(s) \in Nat /\ k \in Nat /\ k <= Len(s)
      /\ t \in Seq(Packets) /\ Len(t) = k /\ \A i \in 1 .. k : t[i] = s[i]
  BY <1>1
<1>3. PICK g : Unrolls(g, s)
  BY UnrollsExists
<1>4. Unrolls(g, t)
  <2>1. \A i \in 0 .. k : i \in 0 .. Len(s)
    BY <1>2
  <2>2. \A i \in 1 .. k : i \in 1 .. Len(s)
    BY <1>2
  <2> QED
    BY <1>2, <1>3, <2>1, <2>2 DEF Unrolls, UnrollsTo
<1>5. Framed(t) = g[k] /\ Framed(s) = g[Len(s)]
  BY <1>2, <1>3, <1>4, FramedUnrolled
<1> DEFINE S == {n \in Nat : k + n <= Len(s) =>
                     \E rest \in Seq(Byte) : g[k + n] = g[k] \o rest}
<1>6. 0 \in S
  <2>1. g[k] \in Seq(Byte) /\ k + 0 = k
    BY <1>2, <1>3 DEF Unrolls, UnrollsTo
  <2>2. <<>> \in Seq(Byte) /\ g[k] \o <<>> = g[k]
    BY <2>1, ConcatEmptySeq, EmptySeq
  <2> QED
    BY <2>1, <2>2
<1>7. ASSUME NEW n \in Nat, n \in S
      PROVE  n + 1 \in S
  <2> SUFFICES ASSUME k + (n + 1) <= Len(s)
               PROVE  \E rest \in Seq(Byte) : g[k + (n + 1)] = g[k] \o rest
    OBVIOUS
  <2>1. /\ k + (n + 1) \in 1 .. Len(s) /\ (k + (n + 1)) - 1 = k + n
        /\ k + n <= Len(s) /\ k \in 0 .. Len(s)
    BY <1>2
  <2>2. PICK rest \in Seq(Byte) : g[k + n] = g[k] \o rest
    BY <1>7, <2>1
  <2>3. PICK f : f = frame_packet(s[k + (n + 1)])
    OBVIOUS
  <2>4. f \in Seq(Byte) /\ g[k] \in Seq(Byte)
    BY <1>3, <2>1, <2>3, FrameType DEF Unrolls, UnrollsTo
  <2>5. g[k + (n + 1)] = (g[k] \o rest) \o f
    BY <1>3, <2>1, <2>2, <2>3 DEF Unrolls, UnrollsTo
  <2>6. rest \o f \in Seq(Byte) /\ (g[k] \o rest) \o f = g[k] \o (rest \o f)
    BY <2>2, <2>4, Associate
  <2> QED
    BY <2>5, <2>6
<1> HIDE DEF S
<1>8. Len(s) - k \in Nat /\ k + (Len(s) - k) = Len(s)
  BY <1>2
<1>9. Len(s) - k \in S
  BY <1>6, <1>7, <1>8, SetInduction
<1>10. \E rest \in Seq(Byte) : g[Len(s)] = g[k] \o rest
  BY <1>8, <1>9 DEF S
<1> QED
  BY <1>1, <1>5, <1>10

\* What follows the frames of the first k packets begins with the frame of
\* the next.
LEMMA FramedNext ==
    ASSUME NEW s \in Seq(Packets), NEW k \in Nat, k < Len(s),
           NEW bytes \in Seq(Byte), Framed(s) = Framed(SubSeq(s, 1, k)) \o bytes
    PROVE  /\ s[k + 1] \in Packets
           /\ SubSeq(s, 1, k + 1) = Append(SubSeq(s, 1, k), s[k + 1])
           /\ \E rest \in Seq(Byte) :
                 /\ bytes = frame_packet(s[k + 1]) \o rest
                 /\ Framed(s) = Framed(SubSeq(s, 1, k + 1)) \o rest
<1>1. PICK t : t = SubSeq(s, 1, k)
  OBVIOUS
<1>2. PICK p : p = s[k + 1]
  OBVIOUS
<1>3. Len(s) \in Nat /\ k + 1 \in 0 .. Len(s) /\ k + 1 \in 1 .. Len(s) /\ k \in 0 .. Len(s)
  OBVIOUS
<1>4. t \in Seq(Packets) /\ p \in Packets
  BY <1>1, <1>2, <1>3
<1>5. SubSeq(s, 1, k + 1) = Append(t, p)
  BY <1>1, <1>2, <1>3
<1>6. PICK rest \in Seq(Byte) : Framed(s) = Framed(SubSeq(s, 1, k + 1)) \o rest
  BY <1>3, FramedBegins
<1>7. PICK f : f = frame_packet(p)
  OBVIOUS
<1>8. PICK b : b = Framed(t)
  OBVIOUS
<1>9. f \in Seq(Byte) /\ b \in Seq(Byte) /\ Framed(Append(t, p)) = b \o f
  BY <1>4, <1>7, <1>8, FrameType, FramedAppend
<1>10. rest \in Seq(Byte) /\ f \o rest \in Seq(Byte)
  BY <1>6, <1>9
<1>11. b \o bytes = (b \o f) \o rest
  BY <1>1, <1>5, <1>6, <1>8, <1>9
<1>12. (b \o f) \o rest = b \o (f \o rest)
  BY <1>9, <1>10, ConcatAssociative, SMTT(60)
<1>13. bytes = f \o rest
  BY <1>9, <1>10, <1>11, <1>12, ConcatSimplifications
<1> QED
  BY <1>1, <1>2, <1>4, <1>5, <1>6, <1>7, <1>13

-----------------------------------------------------------------------------
(* parse_framed_packet                                                     *)

\* A position behind the first l bytes of what follows the first n of d.
LEMMA Position ==
    ASSUME NEW n \in Int, NEW i \in Int, NEW d \in Int, NEW l \in Int, NEW m \in Int,
           l = d - n, 1 <= i, i <= l + m, i > l, NEW j, j = i - l
    PROVE  j \in 1 .. m /\ i = l + j /\ n + i = d + j
  OBVIOUS

\* What it makes of data when data and the bytes behind it begin with the
\* frame of p.
LEMMA Parses ==
    ASSUME NEW data \in Seq(Byte), NEW behind \in Seq(Byte), NEW rest \in Seq(Byte),
           NEW p \in Packets, data \o behind = frame_packet(p) \o rest,
           Len(data) >= HeaderSize
    PROVE  /\ TooLarge(data) <=> Len(p) > MAX_PACKET_SIZE
           /\ Complete(data) <=> /\ Len(p) <= MAX_PACKET_SIZE
                                 /\ Len(data) >= HeaderSize + Len(p)
           /\ Complete(data) =>
                 /\ Packet(data) = p
                 /\ Remaining(data) \in Seq(Byte)
                 /\ Remaining(data) \o behind = rest
<1>1. PICK f : f = frame_packet(p)
  OBVIOUS
<1>2. /\ HeaderSize \in Nat /\ MAX_PACKET_SIZE \in Nat
      /\ p \in Seq(Byte) /\ Len(p) \in Nat /\ Len(p) < Power[HeaderSize]
  BY FramingAssumption, PowerType
<1>3. /\ f \in Seq(Byte) /\ Len(f) = HeaderSize + Len(p)
      /\ \A i \in 1 .. HeaderSize : f[i] = LittleEndian(Len(p))[i]
      /\ \A i \in 1 .. Len(p) : f[HeaderSize + i] = p[i]
  BY <1>1, FrameType
<1>4. PICK all : all = data \o behind
  OBVIOUS
<1>5. /\ all \in Seq(Byte)
      /\ Len(all) = Len(data) + Len(behind)
      /\ \A i \in 1 .. Len(data) : all[i] = data[i]
      /\ \A i \in 1 .. Len(behind) : all[Len(data) + i] = behind[i]
  BY <1>4, BytesBehind
<1>6. /\ Len(all) = Len(f) + Len(rest)
      /\ \A i \in 1 .. Len(f) : all[i] = f[i]
      /\ \A i \in 1 .. Len(rest) : all[Len(f) + i] = rest[i]
  <2>1. all = f \o rest
    BY <1>1, <1>4
  <2> QED
    BY <1>3, <2>1, BytesBehind, SMTT(60)
<1>7. Len(data) \in Nat /\ Len(behind) \in Nat /\ Len(rest) \in Nat
  OBVIOUS
<1>8. Length(data) = Len(p)
  <2>1. \A i \in 1 .. HeaderSize : data[i] = LittleEndian(Len(p))[i]
    BY <1>2, <1>3, <1>5, <1>6, <1>7
  <2> QED
    BY <1>2, <2>1, LengthOfPrefix
<1>9. /\ TooLarge(data) <=> Len(p) > MAX_PACKET_SIZE
      /\ Complete(data) <=> /\ Len(p) <= MAX_PACKET_SIZE
                            /\ Len(data) >= HeaderSize + Len(p)
  BY <1>8 DEF TooLarge, Complete
<1>10. ASSUME Complete(data)
       PROVE  /\ Packet(data) = p
              /\ Remaining(data) \in Seq(Byte)
              /\ Remaining(data) \o behind = rest
  <2>1. PICK n \in Nat : n = HeaderSize + Len(p)
    BY <1>2
  <2>2. n <= Len(data) /\ n = Len(f)
    BY <1>3, <1>9, <1>10, <2>1
  <2>3. PICK q : q = SubSeq(data, HeaderSize + 1, n)
    OBVIOUS
  <2>4. q \in Seq(Byte) /\ Len(q) = Len(p) /\ \A i \in 1 .. Len(p) : q[i] = data[HeaderSize + i]
    BY <1>2, <1>7, <2>1, <2>2, <2>3
  <2>5. q = p
    <3>1. ASSUME NEW i \in 1 .. Len(p)
          PROVE  q[i] = p[i]
      <4>1. HeaderSize + i \in 1 .. Len(f) /\ HeaderSize + i \in 1 .. Len(data)
        BY <1>2, <1>7, <2>1, <2>2
      <4> QED
        BY <1>3, <1>5, <1>6, <2>4, <4>1
    <3> QED
      BY <1>2, <2>4, <3>1, SeqEqual
  <2>6. PICK r : r = SubSeq(data, n + 1, Len(data))
    OBVIOUS
  <2>7. r \in Seq(Byte) /\ Len(r) = Len(data) - n /\ \A i \in 1 .. Len(r) : r[i] = data[n + i]
    BY <1>7, <2>1, <2>2, <2>6, SMTT(60)
  <2>8. PICK x : x = r \o behind
    OBVIOUS
  <2>9. /\ x \in Seq(Byte) /\ Len(x) = Len(r) + Len(behind)
        /\ \A i \in 1 .. Len(r) : x[i] = r[i]
        /\ \A i \in 1 .. Len(behind) : x[Len(r) + i] = behind[i]
    <3>1. r \in Seq(Byte)
      BY <2>7
    <3>2. /\ r \o behind \in Seq(Byte)
          /\ Len(r \o behind) = Len(r) + Len(behind)
          /\ \A i \in 1 .. Len(r) : (r \o behind)[i] = r[i]
          /\ \A i \in 1 .. Len(behind) : (r \o behind)[Len(r) + i] = behind[i]
      BY <3>1, BytesBehind, ZenonT(60)
    <3> QED
      BY <2>8, <3>2, ZenonT(60)
  <2>10. x = rest
    <3>1. Len(x) = Len(rest)
      <4>1. /\ Len(data) + Len(behind) = n + Len(rest)
            /\ Len(r) = Len(data) - n /\ Len(x) = Len(r) + Len(behind)
        BY <1>5, <1>6, <2>2, <2>7, <2>9
      <4> QED
        BY <1>7, <4>1
    <3>2. ASSUME NEW i \in 1 .. Len(rest)
          PROVE  x[i] = rest[i]
      <4>1. rest[i] = all[n + i]
        BY <1>6, <2>2
      <4>2. CASE i <= Len(r)
        <5>1. i \in 1 .. Len(r) /\ n + i \in 1 .. Len(data)
          BY <1>7, <2>1, <2>7, <4>2
        <5> QED
          BY <1>5, <2>7, <2>9, <4>1, <5>1
      <4>3. CASE i > Len(r)
        <5>1. PICK j : j = i - Len(r)
          OBVIOUS
        <5>2. /\ j \in 1 .. Len(behind) /\ i = Len(r) + j
              /\ n + i = Len(data) + j
          <6>1. /\ n \in Int /\ i \in Int /\ Len(data) \in Int /\ Len(r) \in Int
                /\ Len(behind) \in Int
            BY <1>7, <2>7
          <6>2. Len(r) = Len(data) - n /\ Len(rest) = Len(r) + Len(behind)
            BY <2>7, <2>9, <3>1
          <6>3. 1 <= i /\ i <= Len(rest)
            BY <1>7
          <6>4. i <= Len(r) + Len(behind)
            BY <6>2, <6>3, Zenon
          <6> QED
            BY <4>3, <5>1, <6>1, <6>2, <6>3, <6>4, Position, SMTT(60)
        <5> QED
          BY <1>5, <2>9, <4>1, <5>2
      <4> QED
        BY <1>7, <2>7, <4>2, <4>3
    <3> QED
      BY <2>9, <3>1, <3>2, SeqEqual
  <2>11. Packet(data) = q /\ Remaining(data) = r
    BY <1>8, <2>1, <2>3, <2>6 DEF Packet, Remaining
  <2> QED
    BY <2>5, <2>7, <2>8, <2>10, <2>11
<1> QED
  BY <1>9, <1>10

-----------------------------------------------------------------------------
(* What is read, against what was sent                                     *)

\* When h is what was handed on of s, and data and the bytes behind it are
\* the rest: nothing is left when h is all of s.
LEMMA NothingMore ==
    ASSUME NEW s \in Seq(Packets), NEW data \in Seq(Byte), NEW behind \in Seq(Byte),
           Framed(s) = Framed(s) \o (data \o behind)
    PROVE  data = <<>> /\ behind = <<>>
<1>1. PICK x : x = data \o behind
  OBVIOUS
<1>2. PICK b : b = Framed(s)
  OBVIOUS
<1>3. x \in Seq(Byte)
  BY <1>1, BytesBehind
<1>4. b \in Seq(Byte)
  <2>1. CASE s = <<>>
    BY <1>2, <2>1, FramedEmpty, EmptySeq
  <2>2. CASE s # <<>>
    <3>1. s[1] \in Packets
      BY <2>2
    <3> QED
      BY <1>2, <3>1, FramedAppend
  <2> QED
    BY <2>1, <2>2
<1>5. x = <<>>
  BY <1>1, <1>2, <1>3, <1>4, ConcatEqualIffEmpty
<1>6. data \o behind = <<>>
  BY <1>1, <1>5
<1> QED
  BY <1>6, ConcatEqualIffEmpty

\* All of a sequence of packets.
LEMMA WholeSeq ==
    ASSUME NEW s \in Seq(Packets), NEW h, h = SubSeq(s, 1, Len(h)), Len(h) = Len(s)
    PROVE  h = s
  OBVIOUS

\* What parse_framed_packet finds first is the packet whose turn it is.
LEMMA NextFrame ==
    ASSUME NEW s \in Seq(Packets), NEW h \in Seq(Packets),
           Len(h) <= Len(s), h = SubSeq(s, 1, Len(h)),
           NEW data \in Seq(Byte), NEW behind \in Seq(Byte),
           Framed(s) = Framed(h) \o (data \o behind), Len(data) >= HeaderSize
    PROVE  /\ Len(h) < Len(s)
           /\ TooLarge(data) <=> s[Len(h) + 1] \notin Acceptable
           /\ Complete(data) =>
                 /\ Packet(data) = s[Len(h) + 1]
                 /\ Packet(data) \in Acceptable
                 /\ Remaining(data) \in Seq(Byte)
                 /\ Append(h, Packet(data)) = SubSeq(s, 1, Len(h) + 1)
                 /\ Framed(s) = Framed(Append(h, Packet(data))) \o (Remaining(data) \o behind)
<1>1. Len(h) \in Nat /\ Len(s) \in Nat /\ HeaderSize \in Nat \ {0}
  BY FramingAssumption
<1>2. Len(h) < Len(s)
  <2> SUFFICES ASSUME Len(h) = Len(s)
               PROVE  FALSE
    BY <1>1
  <2>1. h = s
    BY WholeSeq
  <2>2. data = <<>>
    BY <2>1, NothingMore
  <2> QED
    BY <1>1, <2>2
<1>3. PICK x : x = data \o behind
  OBVIOUS
<1>4. x \in Seq(Byte)
  BY <1>3, BytesBehind
<1>5. PICK k \in Nat : k = Len(h)
  BY <1>1
<1>6. PICK p : p = s[k + 1]
  OBVIOUS
<1>7. /\ p \in Packets
      /\ SubSeq(s, 1, k + 1) = Append(h, p)
      /\ \E rest \in Seq(Byte) :
            /\ x = frame_packet(p) \o rest
            /\ Framed(s) = Framed(SubSeq(s, 1, k + 1)) \o rest
  <2>1. k < Len(s) /\ h = SubSeq(s, 1, k)
    BY <1>2, <1>5
  <2>2. Framed(s) = Framed(SubSeq(s, 1, k)) \o x
    BY <1>3, <2>1
  <2>3. /\ s[k + 1] \in Packets
        /\ SubSeq(s, 1, k + 1) = Append(SubSeq(s, 1, k), s[k + 1])
        /\ \E rest \in Seq(Byte) :
              /\ x = frame_packet(s[k + 1]) \o rest
              /\ Framed(s) = Framed(SubSeq(s, 1, k + 1)) \o rest
    BY <1>4, <2>1, <2>2, FramedNext
  <2> QED
    BY <1>6, <2>1, <2>3
<1>8. PICK rest \in Seq(Byte) : /\ x = frame_packet(p) \o rest
                                /\ Framed(s) = Framed(SubSeq(s, 1, k + 1)) \o rest
  BY <1>7
<1>9. data \o behind = frame_packet(p) \o rest
  BY <1>3, <1>8
<1>10. /\ TooLarge(data) <=> Len(p) > MAX_PACKET_SIZE
       /\ Complete(data) <=> /\ Len(p) <= MAX_PACKET_SIZE
                             /\ Len(data) >= HeaderSize + Len(p)
       /\ Complete(data) =>
             /\ Packet(data) = p
             /\ Remaining(data) \in Seq(Byte)
             /\ Remaining(data) \o behind = rest
  <2>1. p \in Packets
    BY <1>7
  <2>2. /\ TooLarge(data) <=> Len(p) > MAX_PACKET_SIZE
        /\ Complete(data) <=> /\ Len(p) <= MAX_PACKET_SIZE
                              /\ Len(data) >= HeaderSize + Len(p)
    BY <2>1, <1>9, Parses
  <2>3. Complete(data) => Packet(data) = p
    BY <2>1, <1>9, Parses, ZenonT(60)
  <2>4. Complete(data) => Remaining(data) \in Seq(Byte)
    BY <2>1, <1>9, Parses
  <2>5. Complete(data) => Remaining(data) \o behind = rest
    BY <2>1, <1>9, Parses, ZenonT(60)
  <2> QED
    BY <2>2, <2>3, <2>4, <2>5
<1>11. p \in Acceptable <=> Len(p) <= MAX_PACKET_SIZE
  BY <1>7 DEF Acceptable
<1>12. Len(p) > MAX_PACKET_SIZE <=> ~(Len(p) <= MAX_PACKET_SIZE)
  <2>1. Len(p) \in Nat /\ MAX_PACKET_SIZE \in Int
    BY <1>7, Maximum
  <2> QED
    BY <2>1
<1>13. TooLarge(data) <=> s[Len(h) + 1] \notin Acceptable
  BY <1>5, <1>6, <1>10, <1>11, <1>12
<1>14. ASSUME Complete(data)
       PROVE  /\ Packet(data) = s[Len(h) + 1]
              /\ Packet(data) \in Acceptable
              /\ Remaining(data) \in Seq(Byte)
              /\ Append(h, Packet(data)) = SubSeq(s, 1, Len(h) + 1)
              /\ Framed(s) = Framed(Append(h, Packet(data))) \o (Remaining(data) \o behind)
  <2>1. Packet(data) = p /\ Remaining(data) \o behind = rest /\ p \in Acceptable
    BY <1>10, <1>11, <1>14
  <2> QED
    BY <1>5, <1>6, <1>7, <1>8, <1>10, <1>14, <2>1
<1> QED
  BY <1>2, <1>13, <1>14

\* Bytes that are neither a whole packet nor too large are only part of what
\* was sent: when nothing is behind them, everything was handed on.
LEMMA NothingPartial ==
    ASSUME NEW s \in Seq(Packets), NEW h \in Seq(Packets),
           Len(h) <= Len(s), h = SubSeq(s, 1, Len(h)),
           NEW data \in Seq(Byte), Framed(s) = Framed(h) \o data,
           ~TooLarge(data), ~Complete(data)
    PROVE  h = s /\ data = <<>>
<1>1. Len(h) \in Nat /\ Len(s) \in Nat /\ HeaderSize \in Nat
  BY FramingAssumption
<1>2. <<>> \in Seq(Byte) /\ data \o <<>> = data
  BY ConcatEmptySeq, EmptySeq
<1>3. Len(h) = Len(s)
  <2> SUFFICES ASSUME Len(h) < Len(s)
               PROVE  FALSE
    BY <1>1
  <2>1. PICK k \in Nat : k = Len(h)
    BY <1>1
  <2>2. PICK p : p = s[k + 1]
    OBVIOUS
  <2>3. p \in Packets /\ \E rest \in Seq(Byte) : data = frame_packet(p) \o rest
    <3>1. k < Len(s) /\ Framed(s) = Framed(SubSeq(s, 1, k)) \o data
      BY <2>1
    <3>2. /\ s[k + 1] \in Packets
          /\ \E rest \in Seq(Byte) : data = frame_packet(s[k + 1]) \o rest
      BY <3>1, FramedNext
    <3> QED
      BY <2>2, <3>2
  <2>4. PICK rest \in Seq(Byte) : data = frame_packet(p) \o rest
    BY <2>3
  <2>5. PICK f : f = frame_packet(p)
    OBVIOUS
  <2>6. f \in Seq(Byte) /\ Len(f) = HeaderSize + Len(p) /\ Len(p) \in Nat
    BY <2>3, <2>5, FrameType, FramingAssumption
  <2>7. Len(data) = Len(f) + Len(rest) /\ Len(rest) \in Nat
    BY <2>4, <2>5, <2>6, BytesBehind
  <2>8. Len(data) >= HeaderSize + Len(p) /\ Len(data) >= HeaderSize
    BY <1>1, <2>6, <2>7
  <2>9. /\ TooLarge(data) <=> Len(p) > MAX_PACKET_SIZE
        /\ Complete(data) <=> /\ Len(p) <= MAX_PACKET_SIZE
                              /\ Len(data) >= HeaderSize + Len(p)
    <3>1. data \o <<>> = frame_packet(p) \o rest
      BY <1>2, <2>4
    <3> QED
      BY <1>2, <2>3, <2>8, <3>1, Parses
  <2>10. Len(p) > MAX_PACKET_SIZE \/ Len(p) <= MAX_PACKET_SIZE
    BY <2>6, Maximum
  <2> QED
    BY <2>8, <2>9, <2>10
<1>4. h = s
  BY <1>3, WholeSeq
<1>5. Framed(s) = Framed(s) \o (data \o <<>>)
  BY <1>2, <1>4
<1> QED
  BY <1>2, <1>4, <1>5, NothingMore

\* What a read of n bytes leaves.
LEMMA Read ==
    ASSUME NEW b \in Seq(Byte), NEW w \in Seq(Byte), NEW n \in 1 .. Len(w)
    PROVE  /\ b \o SubSeq(w, 1, n) \in Seq(Byte)
           /\ SubSeq(w, n + 1, Len(w)) \in Seq(Byte)
           /\ (b \o SubSeq(w, 1, n)) \o SubSeq(w, n + 1, Len(w)) = b \o w
<1>1. Len(w) \in Nat /\ n \in Nat
  OBVIOUS
<1>2. PICK u : u = SubSeq(w, 1, n)
  OBVIOUS
<1>3. PICK v : v = SubSeq(w, n + 1, Len(w))
  OBVIOUS
<1>4. u \in Seq(Byte) /\ v \in Seq(Byte)
  BY <1>1, <1>2, <1>3
<1>5. SubSeq(w, 1, n) \o SubSeq(w, n + 1, Len(w)) = SubSeq(w, 1, Len(w))
  BY <1>1, ConcatAdjacentSubSeq
<1>6. SubSeq(w, 1, Len(w)) = w
  BY SubSeqFull
<1>7. (b \o u) \o v = b \o (u \o v)
  BY <1>4, Associate
<1>8. b \o u \in Seq(Byte)
  BY <1>4, BytesBehind
<1> QED
  BY <1>2, <1>3, <1>4, <1>5, <1>6, <1>7, <1>8

-----------------------------------------------------------------------------
(* The inductive invariant                                                 *)

\* What was handed on is what was sent first.
InTurn == Len(handed) <= Len(sent) /\ handed = SubSeq(sent, 1, Len(handed))

\* The second packet waits for an answer to the first.
FirstAlone == handed = <<>> => Len(sent) <= 1

\* A loop that reads has refused nothing, and the handshake is not over.
Reading ==
    /\ stage \in {"read", "handshake"} => ~TooLarge(buffer)
    /\ stage = "handshake" => Len(handed) < HandshakePackets

Inv == TypeOK /\ BytesConserved /\ NothingHeldBack /\ InTurn /\ FirstAlone /\ Reading

\* BytesConserved, with the bytes that are still to be parsed together.
LEMMA Conserved ==
    ASSUME NEW h \in Seq(Packets), NEW b \in Seq(Byte), NEW w \in Seq(Byte)
    PROVE  /\ Framed(h) \in Seq(Byte)
           /\ (Framed(h) \o b) \o w = Framed(h) \o (b \o w)
<1>1. ASSUME NEW t \in Seq(Packets)
      PROVE  Framed(t) \in Seq(Byte)
  <2>1. CASE t = <<>>
    BY <2>1, FramedEmpty, EmptySeq
  <2>2. CASE t # <<>>
    <3>1. t[1] \in Packets
      BY <2>2
    <3> QED
      BY <3>1, FramedAppend
  <2> QED
    BY <2>1, <2>2
<1>2. (Framed(h) \o b) \o w = Framed(h) \o (b \o w)
  <2>1. PICK a \in Seq(Byte) : a = Framed(h)
    BY <1>1
  <2>2. (a \o b) \o w = a \o (b \o w)
    BY Associate
  <2> QED
    BY <2>1, <2>2
<1> QED
  BY <1>1, <1>2

LEMMA AcceptableArePackets ==
    ASSUME NEW h \in Seq(Acceptable)
    PROVE  h \in Seq(Packets)
  BY DEF Acceptable

\* An empty buffer holds no packet.
LEMMA EmptyHoldsNothing == ~TooLarge(<<>>) /\ ~Complete(<<>>)
  BY FramingAssumption DEF TooLarge, Complete

LEMMA InitInv == Init => Inv
<1> SUFFICES ASSUME Init
             PROVE  Inv
  OBVIOUS
<1>1. sent = <<>> /\ handed = <<>> /\ wire = <<>> /\ buffer = <<>> /\ stage = "handshake"
  BY DEF Init
<1>2. <<>> \in Seq(Byte) /\ <<>> \in Seq(Packets) /\ <<>> \in Seq(Acceptable)
      /\ Len(<<>>) = 0
  BY EmptySeq
<1>3. TypeOK
  BY <1>1, <1>2 DEF Init, TypeOK, Stages
<1>4. BytesConserved
  <2>1. Framed(<<>>) \o <<>> \o <<>> = <<>>
    BY <1>2, FramedEmpty, ConcatEmptySeq
  <2> QED
    BY <1>1, <2>1, FramedEmpty DEF BytesConserved
<1>5. InTurn /\ FirstAlone
  <2>1. SubSeq(<<>>, 1, 0) = <<>>
    BY <1>2, SubSeqEmpty
  <2> QED
    BY <1>1, <1>2, <2>1 DEF InTurn, FirstAlone
<1>6. NothingHeldBack /\ Reading
  BY <1>1, <1>2, EmptyHoldsNothing DEF NothingHeldBack, Reading, HandshakePackets
<1> QED
  BY <1>3, <1>4, <1>5, <1>6 DEF Inv

\* A packet that is sent leaves those before it where they are.
LEMMA Begins ==
    ASSUME NEW s \in Seq(Packets), NEW p \in Packets, NEW k \in Nat, k <= Len(s)
    PROVE  SubSeq(Append(s, p), 1, k) = SubSeq(s, 1, k)
<1>1. PICK t : t = Append(s, p)
  OBVIOUS
<1>2. /\ t \in Seq(Packets) /\ Len(t) = Len(s) + 1 /\ Len(s) \in Nat
      /\ \A i \in 1 .. Len(s) : t[i] = s[i]
  BY <1>1
<1>3. SubSeq(t, 1, k) = [i \in 1 .. k |-> t[i]] /\ SubSeq(s, 1, k) = [i \in 1 .. k |-> s[i]]
  BY <1>2
<1>4. \A i \in 1 .. k : t[i] = s[i]
  BY <1>2
<1> QED
  BY <1>1, <1>3, <1>4

LEMMA SendInv ==
    ASSUME Inv, NEW p \in Packets, Send(p)
    PROVE  Inv'
<1> USE DEF Inv
<1>1. /\ sent \in Seq(Packets) /\ handed \in Seq(Packets) /\ handed \in Seq(Acceptable)
      /\ wire \in Seq(Byte) /\ buffer \in Seq(Byte)
  BY AcceptableArePackets DEF TypeOK
<1>2. /\ sent' = Append(sent, p) /\ wire' = wire \o frame_packet(p)
      /\ UNCHANGED <<side, closed, buffer, stage, handed>>
  BY DEF Send
<1>3. PICK f : f = frame_packet(p)
  OBVIOUS
<1>4. f \in Seq(Byte)
  BY <1>3, FrameType
<1>5. sent' \in Seq(Packets) /\ wire' \in Seq(Byte)
  BY <1>1, <1>2, <1>3, <1>4, BytesBehind
<1>6. TypeOK'
  BY <1>2, <1>5 DEF TypeOK
<1>7. BytesConserved'
  <2>1. PICK b : b = Framed(handed)
    OBVIOUS
  <2>2. b \in Seq(Byte)
    BY <1>1, <2>1, Conserved
  <2>3. Framed(sent) = b \o (buffer \o wire)
    BY <1>1, <2>1, Conserved DEF BytesConserved
  <2>4. Framed(sent') = (b \o (buffer \o wire)) \o f
    BY <1>1, <1>2, <1>3, <2>3, FramedAppend
  <2>5. (b \o (buffer \o wire)) \o f = b \o ((buffer \o wire) \o f)
    <3>1. PICK x : x = buffer \o wire
      OBVIOUS
    <3>2. x \in Seq(Byte)
      BY <1>1, <3>1, BytesBehind
    <3> QED
      BY <1>4, <2>2, <3>1, <3>2, Associate, SMTT(60)
  <2>6. (buffer \o wire) \o f = buffer \o (wire \o f)
    BY <1>1, <1>4, Associate
  <2>7. Framed(sent') = Framed(handed) \o (buffer \o wire')
    BY <1>2, <1>3, <2>1, <2>4, <2>5, <2>6
  <2>8. Framed(sent') = Framed(handed) \o buffer \o wire'
    BY <1>1, <1>5, <2>7, Conserved
  <2> QED
    BY <1>2, <2>8 DEF BytesConserved
<1>8. InTurn'
  <2>1. Len(sent) \in Nat /\ Len(handed) \in Nat /\ Len(sent') = Len(sent) + 1
    BY <1>1, <1>2
  <2>2. ASSUME NEW k \in Nat, k <= Len(sent)
        PROVE  SubSeq(sent', 1, k) = SubSeq(sent, 1, k)
    BY <1>1, <1>2, <2>2, Begins
  <2>3. Len(handed) <= Len(sent) /\ handed = SubSeq(sent, 1, Len(handed))
    BY DEF InTurn
  <2>4. handed = SubSeq(sent', 1, Len(handed))
    BY <2>1, <2>2, <2>3
  <2> QED
    BY <1>2, <2>1, <2>3, <2>4 DEF InTurn
<1>9. FirstAlone'
  BY <1>1, <1>2 DEF FirstAlone, Send, MayFollow
<1>10. NothingHeldBack' /\ Reading'
  BY <1>2 DEF NothingHeldBack, Reading, HandshakePackets
<1> QED
  BY <1>6, <1>7, <1>8, <1>9, <1>10

LEMMA CloseInv ==
    ASSUME Inv, Close
    PROVE  Inv'
  BY DEF Inv, Close, TypeOK, BytesConserved, NothingHeldBack, InTurn, FirstAlone, Reading,
         HandshakePackets

LEMMA StutterInv ==
    ASSUME Inv, UNCHANGED vars
    PROVE  Inv'
  BY DEF Inv, vars, TypeOK, BytesConserved, NothingHeldBack, InTurn, FirstAlone, Reading,
         HandshakePackets

\* What a loop finds in data, when w stays on the wire.
LEMMA Finds ==
    ASSUME Inv, NEW data \in Seq(Byte), NEW w \in Seq(Byte), data \o w = buffer \o wire
    PROVE  /\ TooLarge(data) => /\ Len(handed) < Len(sent)
                                /\ sent[Len(handed) + 1] \notin Acceptable
           /\ Complete(data) =>
                 /\ Len(handed) < Len(sent)
                 /\ Packet(data) = sent[Len(handed) + 1]
                 /\ Packet(data) \in Acceptable
                 /\ Remaining(data) \in Seq(Byte)
                 /\ Append(handed, Packet(data)) = SubSeq(sent, 1, Len(handed) + 1)
                 /\ Framed(sent) =
                        Framed(Append(handed, Packet(data))) \o (Remaining(data) \o w)
                 /\ Len(handed) + 1 = Len(sent) => Remaining(data) = <<>> /\ w = <<>>
<1>1. /\ sent \in Seq(Packets) /\ handed \in Seq(Packets) /\ handed \in Seq(Acceptable)
      /\ wire \in Seq(Byte) /\ buffer \in Seq(Byte)
  BY AcceptableArePackets DEF Inv, TypeOK
<1>2. Framed(sent) = Framed(handed) \o (data \o w)
  <2>1. (Framed(handed) \o buffer) \o wire = Framed(handed) \o (buffer \o wire)
    BY <1>1, Conserved
  <2> QED
    BY <2>1 DEF Inv, BytesConserved
<1>3. Len(handed) <= Len(sent) /\ handed = SubSeq(sent, 1, Len(handed))
  BY DEF Inv, InTurn
<1>4. ASSUME Len(data) >= HeaderSize
      PROVE  /\ Len(handed) < Len(sent)
             /\ TooLarge(data) <=> sent[Len(handed) + 1] \notin Acceptable
             /\ Complete(data) =>
                   /\ Packet(data) = sent[Len(handed) + 1]
                   /\ Packet(data) \in Acceptable
                   /\ Remaining(data) \in Seq(Byte)
                   /\ Append(handed, Packet(data)) = SubSeq(sent, 1, Len(handed) + 1)
                   /\ Framed(sent) =
                          Framed(Append(handed, Packet(data))) \o (Remaining(data) \o w)
  <2>1. /\ Len(handed) < Len(sent)
        /\ TooLarge(data) <=> sent[Len(handed) + 1] \notin Acceptable
    BY <1>1, <1>2, <1>3, <1>4, NextFrame
  <2>2. Complete(data) => /\ Packet(data) = sent[Len(handed) + 1]
                          /\ Packet(data) \in Acceptable
    BY <1>1, <1>2, <1>3, <1>4, NextFrame, Zenon
  <2>3. Complete(data) =>
            /\ Remaining(data) \in Seq(Byte)
            /\ Append(handed, Packet(data)) = SubSeq(sent, 1, Len(handed) + 1)
    BY <1>1, <1>2, <1>3, <1>4, NextFrame, Zenon
  <2>4. Complete(data) =>
            Framed(sent) = Framed(Append(handed, Packet(data))) \o (Remaining(data) \o w)
    BY <1>1, <1>2, <1>3, <1>4, NextFrame, ZenonT(60)
  <2> QED
    BY <2>1, <2>2, <2>3, <2>4
<1>5. TooLarge(data) \/ Complete(data) => Len(data) >= HeaderSize
  BY DEF TooLarge, Complete
<1>6. ASSUME Complete(data), Len(handed) + 1 = Len(sent)
      PROVE  Remaining(data) = <<>> /\ w = <<>>
  <2>1. PICK h : h = Append(handed, Packet(data))
    OBVIOUS
  <2>2. PICK r : r = Remaining(data)
    OBVIOUS
  <2>3. h = SubSeq(sent, 1, Len(handed) + 1) /\ r \in Seq(Byte)
        /\ Framed(sent) = Framed(h) \o (r \o w)
    BY <1>4, <1>5, <1>6, <2>1, <2>2
  <2>4. h = sent
    BY <1>1, <1>6, <2>3, SubSeqFull
  <2> QED
    BY <1>1, <2>2, <2>3, <2>4, NothingMore
<1> QED
  BY <1>4, <1>5, <1>6

\* A packet is handed on, and the rest is kept.
LEMMA Taken ==
    ASSUME Inv, NEW data \in Seq(Byte), data \o wire' = buffer \o wire, wire' \in Seq(Byte),
           Complete(data), sent' = sent,
           handed' = Append(handed, Packet(data)), buffer' = Remaining(data)
    PROVE  /\ handed' \in Seq(Acceptable) /\ buffer' \in Seq(Byte)
           /\ Len(handed') = Len(handed) + 1
           /\ BytesConserved' /\ InTurn' /\ FirstAlone'
<1>1. PICK w \in Seq(Byte) : w = wire'
  OBVIOUS
<1>2. handed \in Seq(Acceptable) /\ Len(handed) \in Nat /\ sent \in Seq(Packets) /\ Len(sent) \in Nat
  BY DEF Inv, TypeOK
<1>3. data \o w = buffer \o wire
  BY <1>1
<1>4. PICK h : h = Append(handed, Packet(data))
  OBVIOUS
<1>5. PICK r : r = Remaining(data)
  OBVIOUS
<1>6. /\ Len(handed) < Len(sent) /\ Packet(data) \in Acceptable /\ r \in Seq(Byte)
      /\ h = SubSeq(sent, 1, Len(handed) + 1)
      /\ Framed(sent) = Framed(h) \o (r \o w)
  BY <1>3, <1>4, <1>5, Finds
<1>7. h \in Seq(Acceptable) /\ Len(h) = Len(handed) + 1 /\ h # <<>>
  <2>1. PICK p \in Acceptable : p = Packet(data)
    BY <1>6
  <2>2. h = Append(handed, p)
    BY <1>4, <2>1
  <2>3. /\ Append(handed, p) \in Seq(Acceptable) /\ Append(handed, p) # <<>>
        /\ Len(Append(handed, p)) = Len(handed) + 1
    BY <1>2, AppendProperties, ZenonT(60)
  <2> QED
    BY <2>2, <2>3
<1>8. Framed(sent) = (Framed(h) \o r) \o w
  <2>1. (Framed(h) \o r) \o w = Framed(h) \o (r \o w)
    BY <1>1, <1>6, <1>7, AcceptableArePackets, Conserved
  <2> QED
    BY <1>6, <2>1
<1>9. handed' = h /\ buffer' = r /\ wire' = w /\ sent' = sent
  BY <1>1, <1>4, <1>5
<1>10. BytesConserved'
  BY <1>8, <1>9 DEF BytesConserved
<1>11. InTurn'
  BY <1>2, <1>6, <1>7, <1>9 DEF InTurn
<1>12. FirstAlone'
  BY <1>7, <1>9 DEF FirstAlone
<1> QED
  BY <1>6, <1>7, <1>9, <1>10, <1>11, <1>12

\* Bytes move from the wire to the buffer, and nothing else happens.
LEMMA Moved ==
    ASSUME Inv, buffer' \in Seq(Byte), wire' \in Seq(Byte),
           buffer' \o wire' = buffer \o wire, sent' = sent, handed' = handed
    PROVE  BytesConserved' /\ InTurn' /\ FirstAlone'
<1>1. PICK b \in Seq(Byte) : b = buffer'
  OBVIOUS
<1>2. PICK w \in Seq(Byte) : w = wire'
  OBVIOUS
<1>3. handed \in Seq(Packets) /\ buffer \in Seq(Byte) /\ wire \in Seq(Byte)
  BY AcceptableArePackets DEF Inv, TypeOK
<1>4. (Framed(handed) \o b) \o w = Framed(handed) \o (b \o w)
  BY <1>1, <1>2, <1>3, Conserved
<1>5. (Framed(handed) \o buffer) \o wire = Framed(handed) \o (buffer \o wire)
  BY <1>3, Conserved
<1>6. Framed(sent) = (Framed(handed) \o b) \o w
  BY <1>1, <1>2, <1>4, <1>5 DEF Inv, BytesConserved
<1>7. BytesConserved'
  BY <1>1, <1>2, <1>6 DEF BytesConserved
<1> QED
  BY <1>7 DEF Inv, InTurn, FirstAlone

\* What a read of n bytes does to the wire.
LEMMA Arrived ==
    ASSUME Inv, NEW n \in 1 .. Len(wire), NEW data, data = Arrives(n),
           wire' = SubSeq(wire, n + 1, Len(wire))
    PROVE  /\ data \in Seq(Byte) /\ wire' \in Seq(Byte)
           /\ data \o wire' = buffer \o wire
<1>1. buffer \in Seq(Byte) /\ wire \in Seq(Byte)
  BY DEF Inv, TypeOK
<1>2. /\ buffer \o SubSeq(wire, 1, n) \in Seq(Byte)
      /\ SubSeq(wire, n + 1, Len(wire)) \in Seq(Byte)
      /\ (buffer \o SubSeq(wire, 1, n)) \o SubSeq(wire, n + 1, Len(wire)) = buffer \o wire
  BY <1>1, Read
<1> QED
  BY <1>2 DEF Arrives

LEMMA HandshakeReadInv ==
    ASSUME Inv, NEW n \in 1 .. Len(wire), HandshakeRead(n)
    PROVE  Inv'
<1>1. PICK data : data = Arrives(n)
  OBVIOUS
<1>2. data \in Seq(Byte) /\ wire' \in Seq(Byte) /\ data \o wire' = buffer \o wire
  BY <1>1, Arrived DEF HandshakeRead
<1>3. /\ stage = "handshake" /\ Len(handed) < HandshakePackets
      /\ side' = side /\ sent' = sent /\ closed' = closed
      /\ \/ /\ TooLarge(data)
            /\ stage' = "refused" /\ buffer' = data /\ handed' = handed
         \/ /\ ~TooLarge(data) /\ ~Complete(data)
            /\ buffer' = data /\ stage' = stage /\ handed' = handed
         \/ /\ Complete(data)
            /\ handed' = Append(handed, Packet(data))
            /\ \/ /\ Len(handed') = HandshakePackets
                  /\ stage' = AfterHandshake /\ buffer' = HandedBuffer(Remaining(data))
               \/ /\ Len(handed') # HandshakePackets
                  /\ buffer' = Remaining(data) /\ stage' = stage
  BY <1>1 DEF HandshakeRead, Inv, Reading
<1>4. /\ side \in {"server", "client"} /\ closed \in BOOLEAN /\ sent \in Seq(Packets)
      /\ handed \in Seq(Acceptable) /\ Len(handed) \in Nat /\ Len(sent) \in Nat
  BY DEF Inv, TypeOK
<1>5. HandshakePackets' = HandshakePackets /\ HandshakePackets \in {1, 2}
  BY <1>3 DEF HandshakePackets
<1>6. CASE TooLarge(data) /\ stage' = "refused" /\ buffer' = data /\ handed' = handed
  <2>1. BytesConserved' /\ InTurn' /\ FirstAlone'
    BY <1>2, <1>3, <1>6, Moved
  <2>2. TypeOK' /\ NothingHeldBack' /\ Reading'
    BY <1>2, <1>3, <1>4, <1>6 DEF TypeOK, Stages, NothingHeldBack, Reading
  <2> QED
    BY <2>1, <2>2 DEF Inv
<1>7. CASE /\ ~TooLarge(data) /\ ~Complete(data)
           /\ buffer' = data /\ stage' = stage /\ handed' = handed
  <2>1. BytesConserved' /\ InTurn' /\ FirstAlone'
    BY <1>2, <1>3, <1>7, Moved
  <2>2. TypeOK'
    BY <1>2, <1>3, <1>4, <1>7 DEF TypeOK, Stages
  <2>3. NothingHeldBack' /\ Reading'
    BY <1>2, <1>3, <1>4, <1>5, <1>7 DEF NothingHeldBack, Reading
  <2> QED
    BY <2>1, <2>2, <2>3 DEF Inv
<1>8. CASE Complete(data) /\ handed' = Append(handed, Packet(data))
  <2>1. PICK w \in Seq(Byte) : w = wire'
    BY <1>2
  <2>2. /\ Len(handed) < Len(sent)
        /\ Len(handed) + 1 = Len(sent) => Remaining(data) = <<>>
        /\ Packet(data) \in Acceptable
    <3>1. data \o w = buffer \o wire
      BY <1>2, <2>1
    <3> QED
      BY <1>2, <1>8, <3>1, Finds
  <2>3. Len(handed') = Len(handed) + 1
    BY <1>4, <1>8, <2>2
  <2>4. handed = <<>> => Remaining(data) = <<>>
    <3> SUFFICES ASSUME handed = <<>>
                 PROVE  Len(handed) + 1 = Len(sent)
      BY <2>2
    <3>1. Len(handed) = 0
      OBVIOUS
    <3>2. Len(sent) <= 1
      BY DEF Inv, FirstAlone
    <3>3. Len(handed) < Len(sent)
      BY <2>2
    <3>4. \A i, j \in Nat : i < j /\ i = 0 /\ j <= 1 => i + 1 = j
      OBVIOUS
    <3> QED
      BY <1>4, <3>1, <3>2, <3>3, <3>4, Zenon
  <2>5. Len(handed) = 0 => handed = <<>>
    BY <1>4
  <2>6. CASE Len(handed') = HandshakePackets
    <3>1. stage' = AfterHandshake /\ buffer' = HandedBuffer(Remaining(data))
      BY <1>3, <1>7, <1>8, <2>6
    <3>2. side = "client" => Len(handed) = 0
      <4>1. side = "client" => HandshakePackets = 1
        BY DEF HandshakePackets
      <4>2. \A i \in Nat : i + 1 = 1 => i = 0
        OBVIOUS
      <4> QED
        BY <1>4, <2>3, <2>6, <4>1, <4>2, ZenonT(60)
    <3>3. buffer' = Remaining(data)
      BY <1>4, <2>4, <2>5, <3>1, <3>2 DEF HandedBuffer
    <3>4. /\ handed' \in Seq(Acceptable) /\ buffer' \in Seq(Byte)
          /\ BytesConserved' /\ InTurn' /\ FirstAlone'
      BY <1>2, <1>3, <1>8, <3>3, Taken
    <3>5. stage' \in {"drain", "read"} /\ (stage' = "read" => buffer' = <<>>)
      BY <2>4, <2>5, <3>1, <3>2, <3>3 DEF AfterHandshake, HandedBuffer
    <3>6. TypeOK'
      BY <1>2, <1>3, <1>4, <3>4, <3>5 DEF TypeOK, Stages
    <3>7. NothingHeldBack' /\ Reading'
      BY <3>5, EmptyHoldsNothing DEF NothingHeldBack, Reading
    <3> QED
      BY <3>4, <3>6, <3>7 DEF Inv
  <2>7. CASE Len(handed') # HandshakePackets
    <3>1. buffer' = Remaining(data) /\ stage' = stage
      BY <1>3, <1>7, <1>8, <2>7
    <3>2. /\ handed' \in Seq(Acceptable) /\ buffer' \in Seq(Byte)
          /\ BytesConserved' /\ InTurn' /\ FirstAlone'
      BY <1>2, <1>3, <1>8, <3>1, Taken
    <3>3. Len(handed') < HandshakePackets /\ Len(handed) = 0
      BY <1>3, <1>4, <1>5, <2>3, <2>7
    <3>4. buffer' = <<>>
      BY <2>4, <2>5, <3>1, <3>3
    <3>5. TypeOK'
      BY <1>2, <1>3, <1>4, <3>1, <3>2 DEF TypeOK, Stages
    <3>6. NothingHeldBack' /\ Reading'
      BY <1>3, <1>5, <3>1, <3>3, <3>4, EmptyHoldsNothing DEF NothingHeldBack, Reading
    <3> QED
      BY <3>2, <3>5, <3>6 DEF Inv
  <2> QED
    BY <2>6, <2>7
<1> QED
  BY <1>3, <1>6, <1>7, <1>8

LEMMA RelayReadInv ==
    ASSUME Inv, NEW n \in 1 .. Len(wire), RelayRead(n)
    PROVE  Inv'
<1>1. PICK data : data = Arrives(n)
  OBVIOUS
<1>2. data \in Seq(Byte) /\ wire' \in Seq(Byte) /\ data \o wire' = buffer \o wire
  BY <1>1, Arrived DEF RelayRead
<1>3. buffer' = data /\ stage' = "drain" /\ UNCHANGED <<side, sent, closed, handed>>
  BY <1>1 DEF RelayRead
<1>4. BytesConserved' /\ InTurn' /\ FirstAlone'
  BY <1>2, <1>3, Moved
<1>5. TypeOK'
  BY <1>2, <1>3 DEF Inv, TypeOK, Stages
<1>6. NothingHeldBack' /\ Reading'
  BY <1>3 DEF NothingHeldBack, Reading
<1> QED
  BY <1>4, <1>5, <1>6 DEF Inv

LEMMA DrainInv ==
    ASSUME Inv, Drain
    PROVE  Inv'
<1>1. /\ stage = "drain" /\ UNCHANGED <<side, sent, wire, closed>>
      /\ \/ /\ TooLarge(buffer)
            /\ stage' = "refused" /\ UNCHANGED <<buffer, handed>>
         \/ /\ ~TooLarge(buffer) /\ ~Complete(buffer)
            /\ stage' = "read" /\ UNCHANGED <<buffer, handed>>
         \/ /\ Complete(buffer)
            /\ handed' = Append(handed, Packet(buffer))
            /\ buffer' = Remaining(buffer)
            /\ stage' = "drain"
  BY DEF Drain, AfterPacket
<1>2. buffer \in Seq(Byte) /\ wire \in Seq(Byte) /\ wire' \in Seq(Byte)
  BY <1>1 DEF Inv, TypeOK
<1>3. CASE stage' \in {"refused", "read"} /\ UNCHANGED <<buffer, handed>>
           /\ (stage' = "read" => ~TooLarge(buffer) /\ ~Complete(buffer))
  BY <1>1, <1>3 DEF Inv, TypeOK, Stages, BytesConserved, InTurn, FirstAlone,
                    NothingHeldBack, Reading
<1>4. CASE /\ Complete(buffer) /\ handed' = Append(handed, Packet(buffer))
           /\ buffer' = Remaining(buffer) /\ stage' = "drain"
  <2>1. /\ handed' \in Seq(Acceptable) /\ buffer' \in Seq(Byte)
        /\ BytesConserved' /\ InTurn' /\ FirstAlone'
    BY <1>1, <1>2, <1>4, Taken
  <2>2. TypeOK'
    BY <1>1, <1>4, <2>1 DEF Inv, TypeOK, Stages
  <2>3. NothingHeldBack' /\ Reading'
    BY <1>4 DEF NothingHeldBack, Reading
  <2> QED
    BY <2>1, <2>2, <2>3 DEF Inv
<1> QED
  BY <1>1, <1>3, <1>4

\* When nothing is on the wire and a loop waits, everything was handed on.
LEMMA AllHanded ==
    ASSUME Inv, wire = <<>>, stage \in {"handshake", "read"}
    PROVE  handed = sent /\ buffer = <<>>
<1>1. /\ sent \in Seq(Packets) /\ handed \in Seq(Packets) /\ handed \in Seq(Acceptable)
      /\ wire \in Seq(Byte) /\ buffer \in Seq(Byte)
  BY AcceptableArePackets DEF Inv, TypeOK
<1>2. Framed(sent) = Framed(handed) \o buffer
  <2>1. (Framed(handed) \o buffer) \o wire = Framed(handed) \o (buffer \o wire)
    BY <1>1, Conserved
  <2>2. buffer \o wire = buffer
    BY <1>1, ConcatEmptySeq
  <2> QED
    BY <2>1, <2>2 DEF Inv, BytesConserved
<1>3. Len(handed) <= Len(sent) /\ handed = SubSeq(sent, 1, Len(handed))
  BY DEF Inv, InTurn
<1>4. ~TooLarge(buffer) /\ ~Complete(buffer)
  BY DEF Inv, Reading, NothingHeldBack
<1> QED
  BY <1>1, <1>2, <1>3, <1>4, NothingPartial

LEMMA ReadEofInv ==
    ASSUME Inv, ReadEof
    PROVE  Inv'
<1>1. buffer = <<>>
  BY AllHanded DEF ReadEof
<1> QED
  BY <1>1 DEF ReadEof, Inv, TypeOK, Stages, BytesConserved, InTurn, FirstAlone,
              NothingHeldBack, Reading

LEMMA Inductive == Inv /\ [Next]_vars => Inv'
<1> SUFFICES ASSUME Inv, [Next]_vars
             PROVE  Inv'
  OBVIOUS
<1>1. CASE UNCHANGED vars
  BY <1>1, StutterInv
<1>2. CASE Close
  BY <1>2, CloseInv
<1>3. ASSUME NEW n \in 1 .. Len(wire), HandshakeRead(n)
      PROVE  Inv'
  BY <1>3, HandshakeReadInv
<1>4. ASSUME NEW n \in 1 .. Len(wire), RelayRead(n)
      PROVE  Inv'
  BY <1>4, RelayReadInv
<1>5. CASE Drain
  BY <1>5, DrainInv
<1>6. CASE ReadEof
  BY <1>6, ReadEofInv
<1>7. ASSUME NEW p \in Packets, Send(p)
      PROVE  Inv'
  BY <1>7, SendInv
<1> QED
  BY <1>1, <1>2, <1>3, <1>4, <1>5, <1>6, <1>7 DEF Next, ReceiverRuns

LEMMA Invariance == Spec => []Inv
  BY InitInv, Inductive, PTL DEF Spec

-----------------------------------------------------------------------------
(* The results                                                             *)

\* Every variable keeps its type; in particular no loop ever hands on what is
\* not a packet of the sender, or one above MAX_PACKET_SIZE.
THEOREM TypeCorrect == Spec => []TypeOK
<1>1. Inv => TypeOK
  BY DEF Inv
<1> QED
  BY <1>1, Invariance, PTL

\* The framing loses, repeats and moves no byte, wherever TCP cuts the stream
\* and also where perform_handshake's buffer becomes tunnel_traffic's.
THEOREM BytesKept == Spec => []BytesConserved
<1>1. Inv => BytesConserved
  BY DEF Inv
<1> QED
  BY <1>1, Invariance, PTL

\* No read loop waits for bytes while its buffer holds a whole packet, and no
\* end-of-file leaves bytes behind.
THEOREM NothingWaits == Spec => []NothingHeldBack
<1>1. Inv => NothingHeldBack
  BY DEF Inv
<1> QED
  BY <1>1, Invariance, PTL

-----------------------------------------------------------------------------
(* The refinement, step by step                                            *)

LEMMA InitImplements == Init => Abstract!Init
  BY DEF Init, Abstract!Init

LEMMA StepImplements ==
    Inv /\ [Next]_vars => [Abstract!Next]_(Abstract!vars)
<1> SUFFICES ASSUME Inv, [Next]_vars
             PROVE  Abstract!Next \/ UNCHANGED Abstract!vars
  BY DEF Abstract!vars
<1>1. CASE UNCHANGED vars
  BY <1>1 DEF vars, Abstract!vars
<1>2. CASE Close
  BY <1>2 DEF Close, Abstract!vars
<1>3. ASSUME NEW n \in 1 .. Len(wire), HandshakeRead(n)
      PROVE  Abstract!Next \/ UNCHANGED Abstract!vars
  <2>1. PICK data : data = Arrives(n)
    OBVIOUS
  <2>2. PICK w : w = wire'
    OBVIOUS
  <2>3. data \in Seq(Byte) /\ w \in Seq(Byte) /\ data \o w = buffer \o wire
    BY <1>3, <2>1, <2>2, Arrived DEF HandshakeRead
  <2>4. stage = "handshake" /\ sent' = sent
    BY <1>3 DEF HandshakeRead
  <2>5. \/ /\ TooLarge(data) /\ stage' = "refused" /\ handed' = handed
        \/ /\ stage' = stage /\ handed' = handed
        \/ /\ Complete(data) /\ handed' = Append(handed, Packet(data))
           /\ stage' \in {"handshake", "drain", "read"}
    BY <1>3, <2>1 DEF HandshakeRead, AfterHandshake
  <2>6. CASE TooLarge(data) /\ stage' = "refused" /\ handed' = handed
    <3>1. Len(handed) < Len(sent) /\ sent[Len(handed) + 1] \notin Acceptable
      BY <2>3, <2>6, Finds
    <3>2. Abstract!Refuse
      BY <2>4, <2>6, <3>1 DEF Abstract!Refuse, Abstract!NextInTurn
    <3> QED
      BY <3>2 DEF Abstract!Next
  <2>7. CASE stage' = stage /\ handed' = handed
    BY <2>4, <2>7 DEF Abstract!vars
  <2>8. CASE /\ Complete(data) /\ handed' = Append(handed, Packet(data))
             /\ stage' \in {"handshake", "drain", "read"}
    <3>1. /\ Len(handed) < Len(sent) /\ Packet(data) = sent[Len(handed) + 1]
          /\ Packet(data) \in Acceptable
      BY <2>3, <2>8, Finds
    <3>2. Abstract!HandOver
      BY <2>4, <2>8, <3>1 DEF Abstract!HandOver, Abstract!NextInTurn
    <3> QED
      BY <3>2 DEF Abstract!Next
  <2> QED
    BY <2>5, <2>6, <2>7, <2>8
<1>4. ASSUME NEW n \in 1 .. Len(wire), RelayRead(n)
      PROVE  Abstract!Next \/ UNCHANGED Abstract!vars
  BY <1>4 DEF RelayRead, Abstract!vars
<1>5. CASE Drain
  <2>1. /\ buffer \in Seq(Byte) /\ wire \in Seq(Byte) /\ stage = "drain" /\ sent' = sent
    BY <1>5 DEF Drain, Inv, TypeOK
  <2>2. \/ /\ TooLarge(buffer) /\ stage' = "refused" /\ handed' = handed
        \/ /\ stage' = "read" /\ handed' = handed
        \/ /\ Complete(buffer) /\ handed' = Append(handed, Packet(buffer))
           /\ stage' = "drain"
    BY <1>5 DEF Drain, AfterPacket
  <2>3. CASE TooLarge(buffer) /\ stage' = "refused" /\ handed' = handed
    <3>1. Len(handed) < Len(sent) /\ sent[Len(handed) + 1] \notin Acceptable
      BY <2>1, <2>3, Finds
    <3>2. Abstract!Refuse
      BY <2>1, <2>3, <3>1 DEF Abstract!Refuse, Abstract!NextInTurn
    <3> QED
      BY <3>2 DEF Abstract!Next
  <2>4. CASE stage' = "read" /\ handed' = handed
    BY <2>1, <2>4 DEF Abstract!vars
  <2>5. CASE /\ Complete(buffer) /\ handed' = Append(handed, Packet(buffer))
             /\ stage' = "drain"
    <3>1. /\ Len(handed) < Len(sent) /\ Packet(buffer) = sent[Len(handed) + 1]
          /\ Packet(buffer) \in Acceptable
      BY <2>1, <2>5, Finds
    <3>2. Abstract!HandOver
      BY <2>1, <2>5, <3>1 DEF Abstract!HandOver, Abstract!NextInTurn
    <3> QED
      BY <3>2 DEF Abstract!Next
  <2> QED
    BY <2>2, <2>3, <2>4, <2>5
<1>6. CASE ReadEof
  <2>1. handed = sent
    BY <1>6, AllHanded DEF ReadEof
  <2>2. Abstract!End
    BY <1>6, <2>1 DEF ReadEof, Abstract!End
  <2> QED
    BY <2>2 DEF Abstract!Next
<1>7. ASSUME NEW p \in Packets, Send(p)
      PROVE  Abstract!Next \/ UNCHANGED Abstract!vars
  <2>1. Abstract!Send
    BY <1>7 DEF Send, Abstract!Send
  <2> QED
    BY <2>1 DEF Abstract!Next
<1> QED
  BY <1>1, <1>2, <1>3, <1>4, <1>5, <1>6, <1>7 DEF Next, ReceiverRuns

\* The read loops over the bytes implement the safety part of FrameStream:
\* whole packets, once, in the order they were sent, a refusal when the turn
\* of a packet above the maximum comes and only then, and an end-of-file only
\* when everything was handed on.
THEOREM ImplementsFrames ==
    Spec => Abstract!Init /\ [][Abstract!Next]_(Abstract!vars)
  BY InitImplements, StepImplements, Invariance, PTL DEF Spec
=============================================================================
