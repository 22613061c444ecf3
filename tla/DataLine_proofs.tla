---------------------------- MODULE DataLine_proofs ----------------------------
(***************************************************************************)
(* Proofs about a line of data. Decoding undoes encoding, for chunks of any *)
(* length and any bytes; and what goes into its hash is the padded message, *)
(* whatever the pieces it comes in.                                         *)
(***************************************************************************)
EXTENDS DataLine, SequenceLemmas

-----------------------------------------------------------------------------
(* Characters, and the bytes of a group *)

LEMMA IntChr ==
  ASSUME NEW d \in 0..63
  PROVE  b64_chr[d] \in 0..255 /\ b64_int(b64_chr[d]) = d /\ b64_chr[d] # Pad
<1>1. CASE d < 26
  <2>1. b64_chr[d] = 65 + d
    BY <1>1 DEF b64_chr
  <2>2. b64_chr[d] \in 65..90
    BY <1>1, <2>1
  <2> QED  BY <2>1, <2>2 DEF b64_int, Pad
<1>2. CASE d >= 26 /\ d < 52
  <2>1. b64_chr[d] = 97 + (d - 26)
    BY <1>2 DEF b64_chr
  <2>2. b64_chr[d] \in 97..122
    BY <1>2, <2>1
  <2> QED  BY <2>1, <2>2 DEF b64_int, Pad
<1>3. CASE d >= 52 /\ d < 62
  <2>1. b64_chr[d] = 48 + (d - 52)
    BY <1>3 DEF b64_chr
  <2>2. b64_chr[d] \in 48..57
    BY <1>3, <2>1
  <2> QED  BY <2>1, <2>2 DEF b64_int, Pad
<1>4. CASE d >= 62
  <2>1. b64_chr[d] = IF d = 62 THEN 43 ELSE 47
    BY <1>4 DEF b64_chr
  <2> QED  BY <1>4, <2>1 DEF b64_int, Pad
<1> QED  BY <1>1, <1>2, <1>3, <1>4

LEMMA PartsOf ==
  ASSUME NEW x \in 0..255
  PROVE  /\ x % 4 \in 0..3 /\ x \div 16 \in 0..15
         /\ x % 16 \in 0..15 /\ x \div 64 \in 0..3
  OBVIOUS

LEMMA FirstByte ==
  ASSUME NEW x \in 0..255, NEW h \in 0..15
  PROVE  LET a == x \div 4  b == ((x % 4) * 16) + h IN
         /\ a \in 0..63 /\ b \in 0..63
         /\ Byte(((a % 256) * 4) + ((b \div 16) % 4)) = x
<1>1. x \div 4 \in 0..63 /\ x % 4 \in 0..3 /\ x = (x \div 4) * 4 + (x % 4)
  OBVIOUS
<1>2. ASSUME NEW r \in 0..3 PROVE (r * 16) + h \in 0..63 /\ (((r * 16) + h) \div 16) % 4 = r
  OBVIOUS
<1>3. ((((x % 4) * 16) + h) \div 16) % 4 = x % 4 /\ ((x % 4) * 16) + h \in 0..63
  BY <1>1, <1>2
<1>4. (x \div 4) % 256 = x \div 4 /\ x % 256 = x
  BY <1>1
<1> QED  BY <1>1, <1>3, <1>4 DEF Byte
LEMMA SecondByte ==
  ASSUME NEW y \in 0..255, NEW r \in 0..3, NEW h \in 0..3
  PROVE  LET b == (r * 16) + (y \div 16)  c == ((y % 16) * 4) + h IN
         /\ b \in 0..63 /\ c \in 0..63
         /\ Byte(((b % 16) * 16) + ((c \div 4) % 16)) = y
<1>1. y \div 16 \in 0..15 /\ y % 16 \in 0..15 /\ y = (y \div 16) * 16 + (y % 16)
  OBVIOUS
<1>2. ASSUME NEW q \in 0..15 PROVE (r * 16) + q \in 0..63 /\ ((r * 16) + q) % 16 = q
  OBVIOUS
<1>3. ASSUME NEW q \in 0..15 PROVE (q * 4) + h \in 0..63 /\ (((q * 4) + h) \div 4) % 16 = q
  OBVIOUS
<1>4. /\ ((r * 16) + (y \div 16)) % 16 = y \div 16 /\ (r * 16) + (y \div 16) \in 0..63
      /\ ((((y % 16) * 4) + h) \div 4) % 16 = y % 16 /\ ((y % 16) * 4) + h \in 0..63
  BY <1>1, <1>2, <1>3
<1>5. y % 256 = y
  OBVIOUS
<1> QED  BY <1>1, <1>4, <1>5 DEF Byte
LEMMA ThirdByte ==
  ASSUME NEW z \in 0..255, NEW q \in 0..15
  PROVE  LET c == (q * 4) + (z \div 64)  d == z % 64 IN
         /\ c \in 0..63 /\ d \in 0..63
         /\ Byte(((c % 4) * 64) + d) = z
<1>1. z \div 64 \in 0..3 /\ z % 64 \in 0..63 /\ z = (z \div 64) * 64 + (z % 64)
  OBVIOUS
<1>2. ASSUME NEW h \in 0..3 PROVE (q * 4) + h \in 0..63 /\ ((q * 4) + h) % 4 = h
  OBVIOUS
<1>3. /\ ((q * 4) + (z \div 64)) % 4 = z \div 64 /\ (q * 4) + (z \div 64) \in 0..63
  BY <1>1, <1>2
<1>4. z % 256 = z
  OBVIOUS
<1> QED  BY <1>1, <1>3, <1>4 DEF Byte

-----------------------------------------------------------------------------
(* A group of the code *)

\* The h-th byte of c, and zero behind its end.
At(c, h) == IF h <= Len(c) THEN c[h] ELSE 0

\* The four characters for the bytes of c behind the 3h-th.
Signs(c, h) ==
  LET x == At(c, 3 * h + 1)  y == At(c, 3 * h + 2)  z == At(c, 3 * h + 3) IN
  <<b64_chr[x \div 4],
    b64_chr[((x % 4) * 16) + (y \div 16)],
    IF 3 * h + 2 <= Len(c) THEN b64_chr[((y % 16) * 4) + (z \div 64)] ELSE Pad,
    IF 3 * h + 3 <= Len(c) THEN b64_chr[z % 64] ELSE Pad>>

\* b is the part of c behind the 3h-th byte: three bytes, or all that are left.
Part(b, c, h) ==
  /\ b \in Seq(0..255) /\ Len(b) \in 1..3
  /\ 3 * h + Len(b) <= Len(c)
  /\ Len(b) = 3 \/ 3 * h + Len(b) = Len(c)
  /\ \A k \in 1..Len(b) : b[k] = c[3 * h + k]

LEMMA Quarters ==
  ASSUME NEW S, NEW a \in S, NEW b \in S, NEW c \in S, NEW d \in S
  PROVE  \A k \in 1..4 : <<a, b, c, d>>[k] \in S
OBVIOUS

LEMMA Triples ==
  ASSUME NEW S, NEW a \in S, NEW b \in S, NEW c \in S
  PROVE  \A k \in 1..3 : <<a, b, c>>[k] \in S
OBVIOUS

LEMMA BytesAt ==
  ASSUME NEW c \in Seq(0..255), NEW k \in Nat \ {0}
  PROVE  At(c, k) \in 0..255
<1>1. Len(c) \in Nat /\ (k <= Len(c) => k \in 1..Len(c))
  BY LenProperties
<1>2. k <= Len(c) => c[k] \in 0..255
  BY <1>1, ElementOfSeq
<1> QED  BY <1>2 DEF At

LEMMA GroupWritten ==
  ASSUME NEW c \in Seq(0..255), NEW h \in Nat, NEW b, Part(b, c, h)
  PROVE  /\ LastGroup(b) \in Seq(0..255) /\ Len(LastGroup(b)) = 4
         /\ \A m \in 1..4 : LastGroup(b)[m] = Signs(c, h)[m]
         /\ Len(b) = 3 => Digits(b, 3) = LastGroup(b)
<1>1. PICK n \in 1..3, m \in Nat :
        /\ n = Len(b) /\ m = Len(c)
        /\ 3 * h + n <= m /\ (n = 3 \/ 3 * h + n = m)
  <2>1. Len(c) \in Nat
    BY LenProperties
  <2> QED  BY <2>1 DEF Part
<1>12. n = 1 \/ n = 2 \/ n = 3
  OBVIOUS
<1>0. b # <<>>
  <2>1. n # 0
    BY <1>12
  <2>2. Len(<<>>) = 0
    BY EmptySeq
  <2> QED  BY <1>1, <2>1, <2>2
<1> DEFINE x == At(c, 3 * h + 1)
           y == At(c, 3 * h + 2)
           z == At(c, 3 * h + 3)
           t == <<b64_chr[x \div 4], b64_chr[((x % 4) * 16) + (y \div 16)],
                  b64_chr[((y % 16) * 4) + (z \div 64)], b64_chr[z % 64]>>
           v == [k \in 1..3 |-> IF k <= n THEN b[k] ELSE 0]
           pads == [k \in 1..(3 - n) |-> Pad]
<1>2. v[1] = x /\ v[2] = y /\ v[3] = z
  <2> SUFFICES ASSUME NEW k \in 1..3 PROVE v[k] = At(c, 3 * h + k)
    OBVIOUS
  <2>1. CASE k <= n
    <3>1. b[k] = c[3 * h + k]
      BY <1>1, <2>1 DEF Part
    <3>2. 3 * h + k <= m
      BY <1>1, <2>1
    <3> QED  BY <1>1, <2>1, <3>1, <3>2 DEF At
  <2>2. CASE k > n
    <3>1. ~(3 * h + k <= m) /\ ~(k <= n)
      BY <1>1, <2>2
    <3> QED  BY <1>1, <3>1 DEF At
  <2> QED  BY <1>1, <2>1, <2>2
<1>3. Digits(b, n) = SubSeq(t, 1, n + 1)
  <2>1. Digits(b, n) =
          SubSeq(<<b64_chr[v[1] \div 4], b64_chr[((v[1] % 4) * 16) + (v[2] \div 16)],
                   b64_chr[((v[2] % 16) * 4) + (v[3] \div 64)], b64_chr[v[3] % 64]>>,
                 1, n + 1)
    BY <1>1 DEF Digits
  <2> HIDE DEF v
  <2> QED  BY <2>1, <1>2
<1>4. x \in 0..255 /\ y \in 0..255 /\ z \in 0..255
  BY BytesAt
<1>5. \A k \in 1..4 : t[k] \in 0..255
  <2> HIDE DEF x, y, z
  <2>1. x % 4 \in 0..3 /\ y \div 16 \in 0..15 /\ y % 16 \in 0..15 /\ z \div 64 \in 0..3
    BY <1>4, PartsOf
  <2>2. x \div 4 \in 0..63 /\ ((x % 4) * 16) + (y \div 16) \in 0..63
    BY <1>4, <2>1, FirstByte
  <2>4. ((y % 16) * 4) + (z \div 64) \in 0..63 /\ z % 64 \in 0..63
    BY <1>4, <2>1, ThirdByte
  <2>3. /\ b64_chr[x \div 4] \in 0..255
        /\ b64_chr[((x % 4) * 16) + (y \div 16)] \in 0..255
        /\ b64_chr[((y % 16) * 4) + (z \div 64)] \in 0..255
        /\ b64_chr[z % 64] \in 0..255
    BY <2>2, <2>4, IntChr
  <2> QED  BY <2>3, Quarters
<1>6. /\ Digits(b, n) \in Seq(0..255) /\ Len(Digits(b, n)) = n + 1
      /\ \A k \in 1..(n + 1) : Digits(b, n)[k] = t[k]
  <2> HIDE DEF t
  <2>1. \A k \in 1..(n + 1) : t[k] \in 0..255
    <3>1. \A k \in 1..(n + 1) : k \in 1..4
      BY <1>12
    <3> QED  BY <3>1, <1>5
  <2>2. /\ SubSeq(t, 1, n + 1) \in Seq(0..255)
        /\ Len(SubSeq(t, 1, n + 1)) = IF 1 <= n + 1 THEN (n + 1) - 1 + 1 ELSE 0
        /\ \A k \in 1..((n + 1) - 1 + 1) : SubSeq(t, 1, n + 1)[k] = t[1 + k - 1]
    BY <1>1, <2>1, SubSeqProperties
  <2> QED  BY <1>1, <1>3, <2>2
<1>7. pads \in Seq(0..255) /\ Len(pads) = 3 - n /\ \A k \in 1..(3 - n) : pads[k] = Pad
  <2>1. 3 - n \in Nat /\ Pad \in 0..255
    BY <1>12 DEF Pad
  <2>2. pads \in Seq(0..255)
    BY <2>1, IsASeq
  <2> QED  BY <2>1, <2>2, LenProperties
<1>8. LastGroup(b) = Digits(b, n) \o pads
  BY <1>0, <1>1 DEF LastGroup
<1>9. /\ LastGroup(b) \in Seq(0..255) /\ Len(LastGroup(b)) = 4
      /\ \A k \in 1..4 : LastGroup(b)[k] = IF k <= n + 1 THEN t[k] ELSE Pad
  <2> HIDE DEF pads, t
  <2>1. /\ Digits(b, n) \o pads \in Seq(0..255)
        /\ Len(Digits(b, n) \o pads) = (n + 1) + (3 - n)
        /\ \A k \in 1..((n + 1) + (3 - n)) : (Digits(b, n) \o pads)[k] =
              IF k <= n + 1 THEN Digits(b, n)[k] ELSE pads[k - (n + 1)]
    BY <1>6, <1>7, ConcatProperties
  <2>2. /\ (n + 1) + (3 - n) = 4
        /\ \A k \in 1..4 : k <= n + 1 => k \in 1..(n + 1)
        /\ \A k \in 1..4 : ~(k <= n + 1) => k - (n + 1) \in 1..(3 - n)
    BY <1>12
  <2> QED  BY <1>6, <1>7, <1>8, <2>1, <2>2
<1>10. \A k \in 1..4 : Signs(c, h)[k] = IF k <= n + 1 THEN t[k] ELSE Pad
  <2>1. Signs(c, h) = <<t[1], t[2], IF 3 * h + 2 <= m THEN t[3] ELSE Pad,
                        IF 3 * h + 3 <= m THEN t[4] ELSE Pad>>
    BY <1>1 DEF Signs
  <2>2. (3 * h + 2 <= m <=> n >= 2) /\ (3 * h + 3 <= m <=> n >= 3)
    BY <1>1
  <2> HIDE DEF t
  <2> QED  BY <1>1, <2>1, <2>2
<1>11. Len(b) = 3 => Digits(b, 3) = LastGroup(b)
  <2> SUFFICES ASSUME n = 3 PROVE Digits(b, n) = LastGroup(b)
    BY <1>1
  <2> HIDE DEF t
  <2>1. Len(Digits(b, n)) = Len(LastGroup(b)) /\ Len(LastGroup(b)) = 4
    BY <1>6, <1>9
  <2>2. \A k \in 1..4 : Digits(b, n)[k] = LastGroup(b)[k]
    BY <1>6, <1>9
  <2>3. Digits(b, n) \in Seq(0..255) /\ LastGroup(b) \in Seq(0..255)
    BY <1>6, <1>9
  <2> QED  BY <2>1, <2>2, <2>3, SeqEqual
<1> QED  BY <1>9, <1>10, <1>11

\* The first g groups of t are the code of the first 3g bytes of c.
Spelled(t, c, g) == \A h \in 0..(g - 1) : \A m \in 1..4 : t[4 * h + m] = Signs(c, h)[m]

LEMMA GroupAdded ==
  ASSUME NEW c, NEW g \in Nat, NEW t \in Seq(0..255), Len(t) = 4 * g, Spelled(t, c, g),
         NEW d \in Seq(0..255), Len(d) = 4, \A m \in 1..4 : d[m] = Signs(c, g)[m]
  PROVE  /\ t \o d \in Seq(0..255) /\ Len(t \o d) = 4 * (g + 1)
         /\ Spelled(t \o d, c, g + 1)
<1> DEFINE u == t \o d
<1>1. /\ u \in Seq(0..255) /\ Len(u) = 4 * g + 4
      /\ \A k \in 1..(4 * g + 4) : u[k] = IF k <= 4 * g THEN t[k] ELSE d[k - 4 * g]
  <2>1. /\ u \in Seq(0..255) /\ Len(u) = Len(t) + Len(d)
        /\ \A k \in 1..(Len(t) + Len(d)) : u[k] = IF k <= Len(t) THEN t[k] ELSE d[k - Len(t)]
    BY ConcatProperties
  <2> HIDE DEF u
  <2> QED  BY <2>1
<1> HIDE DEF u
<1>2. Spelled(u, c, g + 1)
  <2> SUFFICES ASSUME NEW h \in 0..((g + 1) - 1), NEW m \in 1..4
               PROVE  u[4 * h + m] = Signs(c, h)[m]
    BY DEF Spelled
  <2>1. CASE h = g
    <3>1. 4 * h + m \in 1..(4 * g + 4) /\ ~(4 * h + m <= 4 * g) /\ (4 * h + m) - 4 * g = m
      BY <2>1
    <3> QED  BY <1>1, <2>1, <3>1
  <2>2. CASE h # g
    <3>1. h \in 0..(g - 1) /\ 4 * h + m \in 1..(4 * g + 4) /\ 4 * h + m <= 4 * g
      BY <2>2
    <3> QED  BY <1>1, <3>1 DEF Spelled
  <2> QED  BY <2>1, <2>2
<1> QED  BY <1>1, <1>2 DEF u

-----------------------------------------------------------------------------
(* What is read *)

LEMMA IntRange ==
  ASSUME NEW ch \in Nat
  PROVE  b64_int(ch) \in 0..64
BY DEF b64_int, Pad

LEMMA Modulus ==
  ASSUME NEW n \in Nat
  PROVE  Byte(n) \in 0..255
BY DEF Byte

LEMMA SumsOfParts ==
  ASSUME NEW a \in Nat, NEW b \in Nat, NEW c \in Nat, NEW d \in Nat
  PROVE  /\ ((a % 256) * 4) + ((b \div 16) % 4) \in Nat
         /\ ((b % 16) * 16) + ((c \div 4) % 16) \in Nat
         /\ ((c % 4) * 64) + d \in Nat
<1>1. a % 256 \in Nat /\ b % 16 \in Nat /\ c % 4 \in Nat
  OBVIOUS
<1>2. (b \div 16) % 4 \in Nat /\ (c \div 4) % 16 \in Nat
  OBVIOUS
<1> QED  BY <1>1, <1>2

Threes(d) == <<Byte(((d[1] % 256) * 4) + ((d[2] \div 16) % 4)),
               Byte(((d[2] % 16) * 16) + ((d[3] \div 4) % 16)),
               Byte(((d[3] % 4) * 64) + d[4])>>

LEMMA GroupRead ==
  ASSUME NEW d, \A k \in 1..4 : d[k] \in 0..64
  PROVE  LET n == IF d[3] = 64 THEN 1 ELSE IF d[4] = 64 THEN 2 ELSE 3 IN
         /\ Undigits(d) \in Seq(0..255) /\ Len(Undigits(d)) = n
         /\ \A k \in 1..n : Undigits(d)[k] = Threes(d)[k]
<1> DEFINE n == IF d[3] = 64 THEN 1 ELSE IF d[4] = 64 THEN 2 ELSE 3
           b == Threes(d)
<1>1. /\ Byte(((d[1] % 256) * 4) + ((d[2] \div 16) % 4)) \in 0..255
      /\ Byte(((d[2] % 16) * 16) + ((d[3] \div 4) % 16)) \in 0..255
      /\ Byte(((d[3] % 4) * 64) + d[4]) \in 0..255
  <2>1. PICK e1 \in Nat, e2 \in Nat, e3 \in Nat, e4 \in Nat :
          d[1] = e1 /\ d[2] = e2 /\ d[3] = e3 /\ d[4] = e4
    <3>1. d[1] \in Nat /\ d[2] \in Nat /\ d[3] \in Nat /\ d[4] \in Nat
      OBVIOUS
    <3> QED  BY <3>1, Zenon
  <2>2. /\ ((e1 % 256) * 4) + ((e2 \div 16) % 4) \in Nat
        /\ ((e2 % 16) * 16) + ((e3 \div 4) % 16) \in Nat
        /\ ((e3 % 4) * 64) + e4 \in Nat
    BY SumsOfParts
  <2>3. /\ Byte(((e1 % 256) * 4) + ((e2 \div 16) % 4)) \in 0..255
        /\ Byte(((e2 % 16) * 16) + ((e3 \div 4) % 16)) \in 0..255
        /\ Byte(((e3 % 4) * 64) + e4) \in 0..255
    BY <2>2, Modulus
  <2> QED  BY <2>1, <2>3
<1>2. \A k \in 1..3 : b[k] \in 0..255
  <2>1. PICK x \in 0..255, y \in 0..255, z \in 0..255 : b = <<x, y, z>>
    BY <1>1, Zenon DEF Threes
  <2>2. \A k \in 1..3 : <<x, y, z>>[k] \in 0..255
    BY Triples
  <2> HIDE DEF b
  <2> QED  BY <2>1, <2>2, Zenon
<1>3. n = 1 \/ n = 2 \/ n = 3
  OBVIOUS
<1>4. Undigits(d) = SubSeq(b, 1, n)
  BY DEF Undigits, Threes
<1> HIDE DEF b, n
<1>5. /\ SubSeq(b, 1, n) \in Seq(0..255)
      /\ Len(SubSeq(b, 1, n)) = IF 1 <= n THEN n - 1 + 1 ELSE 0
      /\ \A k \in 1..(n - 1 + 1) : SubSeq(b, 1, n)[k] = b[1 + k - 1]
  <2>1. \A k \in 1..n : b[k] \in 0..255
    BY <1>2, <1>3
  <2>2. n \in Int
    BY <1>3
  <2> QED  BY <2>1, <2>2, SubSeqProperties
<1>6. /\ Undigits(d) \in Seq(0..255) /\ Len(Undigits(d)) = n
      /\ \A k \in 1..n : Undigits(d)[k] = b[k]
  BY <1>3, <1>4, <1>5
<1> QED  BY <1>6 DEF n, b

\* A group of the code, read, gives the bytes it was written for.
LEMMA GroupReadBack ==
  ASSUME NEW c \in Seq(0..255), NEW h \in Nat, 3 * h < Len(c),
         NEW d, \A k \in 1..4 : d[k] = b64_int(Signs(c, h)[k])
  PROVE  /\ \A k \in 1..4 : d[k] \in 0..64
         /\ Undigits(d) \in Seq(0..255)
         /\ Len(Undigits(d)) = IF 3 * h + 3 <= Len(c) THEN 3 ELSE Len(c) - 3 * h
         /\ \A k \in 1..Len(Undigits(d)) : Undigits(d)[k] = c[3 * h + k]
<1> DEFINE x == At(c, 3 * h + 1)
           y == At(c, 3 * h + 2)
           z == At(c, 3 * h + 3)
           e1 == x \div 4
           e2 == ((x % 4) * 16) + (y \div 16)
           e3 == ((y % 16) * 4) + (z \div 64)
           e4 == z % 64
<1>1. PICK m \in Nat : m = Len(c)
  BY LenProperties
<1>2. x \in 0..255 /\ y \in 0..255 /\ z \in 0..255
  BY BytesAt
<1>3. Signs(c, h) = <<b64_chr[e1], b64_chr[e2],
                      IF 3 * h + 2 <= m THEN b64_chr[e3] ELSE Pad,
                      IF 3 * h + 3 <= m THEN b64_chr[e4] ELSE Pad>>
  BY <1>1 DEF Signs
<1>4. /\ x = c[3 * h + 1]
      /\ 3 * h + 2 <= m => y = c[3 * h + 2]
      /\ 3 * h + 3 <= m => z = c[3 * h + 3]
  <2>1. 3 * h + 1 <= m
    BY <1>1
  <2> QED  BY <1>1, <2>1 DEF At
<1> HIDE DEF x, y, z
<1>5. /\ x % 4 \in 0..3 /\ y \div 16 \in 0..15 /\ y % 16 \in 0..15 /\ z \div 64 \in 0..3
  BY <1>2, PartsOf
<1>6. /\ e1 \in 0..63 /\ e2 \in 0..63
      /\ Byte(((e1 % 256) * 4) + ((e2 \div 16) % 4)) = x
  BY <1>2, <1>5, FirstByte
<1>7. /\ e3 \in 0..63 /\ Byte(((e2 % 16) * 16) + ((e3 \div 4) % 16)) = y
  BY <1>2, <1>5, SecondByte
<1>8. /\ e4 \in 0..63 /\ Byte(((e3 % 4) * 64) + e4) = z
  BY <1>2, <1>5, ThirdByte
<1> HIDE DEF e1, e2, e3, e4
<1>9. /\ b64_int(b64_chr[e1]) = e1 /\ b64_int(b64_chr[e2]) = e2
      /\ b64_int(b64_chr[e3]) = e3 /\ b64_int(b64_chr[e4]) = e4
  BY <1>6, <1>7, <1>8, IntChr
<1>10. b64_int(Pad) = 64
  BY DEF b64_int, Pad
<1>11. /\ d[1] = e1 /\ d[2] = e2
       /\ d[3] = IF 3 * h + 2 <= m THEN e3 ELSE 64
       /\ d[4] = IF 3 * h + 3 <= m THEN e4 ELSE 64
  BY <1>3, <1>9, <1>10
<1>12. \A k \in 1..4 : d[k] \in 0..64
  <2>1. /\ d[1] \in 0..64 /\ d[2] \in 0..64
        /\ d[3] \in 0..64 /\ d[4] \in 0..64
    BY <1>6, <1>7, <1>8, <1>11
  <2>2. \A k \in 1..4 : k = 1 \/ k = 2 \/ k = 3 \/ k = 4
    OBVIOUS
  <2> QED  BY <2>1, <2>2
<1> DEFINE n == IF d[3] = 64 THEN 1 ELSE IF d[4] = 64 THEN 2 ELSE 3
<1>13. /\ Undigits(d) \in Seq(0..255) /\ Len(Undigits(d)) = n
       /\ \A k \in 1..n : Undigits(d)[k] = Threes(d)[k]
  BY <1>12, GroupRead
<1>14. /\ n = IF 3 * h + 3 <= m THEN 3 ELSE m - 3 * h
       /\ n = 1 \/ n = 2 \/ n = 3
  <2>1. (d[3] = 64 <=> ~(3 * h + 2 <= m)) /\ (d[4] = 64 <=> ~(3 * h + 3 <= m))
    <3>1. e3 # 64 /\ e4 # 64
      BY <1>7, <1>8
    <3> QED  BY <1>11, <3>1
  <2>2. n = IF ~(3 * h + 2 <= m) THEN 1 ELSE IF ~(3 * h + 3 <= m) THEN 2 ELSE 3
    BY <2>1, Zenon
  <2>3. 3 * h < m
    BY <1>1
  <2> HIDE DEF n
  <2> QED  BY <2>2, <2>3
<1>15. /\ Threes(d)[1] = x
       /\ 3 * h + 2 <= m => Threes(d)[2] = y
       /\ 3 * h + 3 <= m => Threes(d)[3] = z
  <2>1. /\ Threes(d)[1] = Byte(((d[1] % 256) * 4) + ((d[2] \div 16) % 4))
        /\ Threes(d)[2] = Byte(((d[2] % 16) * 16) + ((d[3] \div 4) % 16))
        /\ Threes(d)[3] = Byte(((d[3] % 4) * 64) + d[4])
    BY DEF Threes
  <2>2. Threes(d)[1] = x
    BY <1>6, <1>11, <2>1, Zenon
  <2>3. ASSUME 3 * h + 2 <= m PROVE Threes(d)[2] = y
    <3>1. d[2] = e2 /\ d[3] = e3
      BY <1>11, <2>3
    <3> QED  BY <1>7, <2>1, <3>1, Zenon
  <2>4. ASSUME 3 * h + 3 <= m PROVE Threes(d)[3] = z
    <3>1. d[3] = e3 /\ d[4] = e4
      BY <1>11, <2>4
    <3> QED  BY <1>8, <2>1, <3>1, Zenon
  <2> QED  BY <2>2, <2>3, <2>4
<1> HIDE DEF n
<1>16. \A k \in 1..n : Threes(d)[k] = c[3 * h + k]
  <2>1. /\ n >= 2 => 3 * h + 2 <= m
        /\ n >= 3 => 3 * h + 3 <= m
    BY <1>14
  <2>2. /\ Threes(d)[1] = c[3 * h + 1]
        /\ n >= 2 => Threes(d)[2] = c[3 * h + 2]
        /\ n >= 3 => Threes(d)[3] = c[3 * h + 3]
    BY <1>4, <1>15, <2>1
  <2>3. \A k \in 1..n : k = 1 \/ (k = 2 /\ n >= 2) \/ (k = 3 /\ n >= 3)
    BY <1>14
  <2> QED  BY <2>2, <2>3
<1> QED  BY <1>1, <1>12, <1>13, <1>14, <1>16

-----------------------------------------------------------------------------
(* The inductive invariant *)

\* g groups have been written, and s is the beginning of the next.
Encoding(g) ==
  /\ chunk \in Seq(0..255) /\ text \in Seq(0..255) /\ s \in Seq(0..255)
  /\ back = <<>>
  /\ Len(s) \in 0..2 /\ i = 3 * g + Len(s) /\ i <= Len(chunk)
  /\ \A k \in 1..Len(s) : s[k] = chunk[3 * g + k]
  /\ Len(text) = 4 * g /\ Spelled(text, chunk, g)

\* q groups have been read, and s is the beginning of the next.
Decoding(q) ==
  /\ text \in Seq(0..255) /\ back \in Seq(0..255) /\ s \in Seq(0..64)
  /\ Len(s) \in 0..3 /\ i = 4 * q + Len(s) /\ i <= Len(text)
  /\ \A k \in 1..Len(s) : s[k] = b64_int(text[4 * q + k])
  /\ Len(back) <= 3 * q

\* t is the code of c, and r what its first q groups stand for.
Recovers(c, t, g, q, r) ==
  /\ c \in Seq(0..255)
  /\ Len(t) = 4 * g /\ Spelled(t, c, g)
  /\ Len(c) <= 3 * g /\ 3 * g < Len(c) + 3
  /\ Len(r) = IF 3 * q <= Len(c) THEN 3 * q ELSE Len(c)
  /\ \A k \in 1..Len(r) : r[k] = c[k]

Undone(g, q) == size = Len(text) /\ Recovers(chunk, text, g, q, back)

CodeInv ==
  /\ pc \in {"encode", "decode", "done"}
  /\ pc = "encode" => \E g \in Nat : Encoding(g)
  /\ pc # "encode" =>
        \E q \in Nat : /\ Decoding(q)
                       /\ chunk # NoChunk => \E g \in Nat : Undone(g, q)
  /\ pc = "done" => i = Len(text)

LEMMA InitCode == Init => CodeInv
<1> SUFFICES ASSUME Init PROVE CodeInv
  OBVIOUS
<1>1. <<>> \in Seq(0..255) /\ <<>> \in Seq(0..64) /\ Len(<<>>) = 0
  BY EmptySeq
<1>2. CASE pc = "encode" /\ chunk \in Chunks /\ text = <<>>
  <2>1. chunk \in Seq(0..255) /\ Len(chunk) \in Nat
    BY <1>2, Base64Assumption, LenProperties
  <2>2. Encoding(0)
    BY <1>1, <1>2, <2>1 DEF Init, Encoding, Spelled
  <2> QED  BY <1>2, <2>2 DEF CodeInv
<1>3. CASE pc = "decode" /\ chunk = NoChunk /\ text \in Texts
  <2>1. text \in Seq(0..255) /\ Len(text) \in Nat
    BY <1>3, Base64Assumption, LenProperties
  <2>2. Decoding(0)
    BY <1>1, <1>3, <2>1 DEF Init, Decoding
  <2> QED  BY <1>3, <2>2 DEF CodeInv
<1> QED  BY <1>2, <1>3 DEF Init

LEMMA EncodeByteKeeps ==
  ASSUME CodeInv, EncodeByte
  PROVE  CodeInv'
<1>1. PICK g \in Nat : Encoding(g)
  BY DEF CodeInv, EncodeByte
<1>2. PICK n \in 0..2, m \in Nat : n = Len(s) /\ m = Len(chunk)
  BY <1>1, LenProperties DEF Encoding
<1> DEFINE b == Append(s, chunk[i + 1])
<1>3. i = 3 * g + n /\ i + 1 <= m /\ chunk[i + 1] \in 0..255
  <2>1. i = 3 * g + n /\ i < m
    BY <1>1, <1>2 DEF Encoding, EncodeByte
  <2>2. i + 1 \in 1..m
    BY <2>1
  <2> QED  BY <1>1, <1>2, <2>1, <2>2, ElementOfSeq DEF Encoding
<1>4. /\ b \in Seq(0..255) /\ Len(b) = n + 1 /\ b[n + 1] = chunk[i + 1]
      /\ \A k \in 1..n : b[k] = s[k]
  BY <1>1, <1>2, <1>3, AppendProperties DEF Encoding
<1>5. \A k \in 1..(n + 1) : b[k] = chunk[3 * g + k]
  <2> HIDE DEF b
  <2> SUFFICES ASSUME NEW k \in 1..(n + 1) PROVE b[k] = chunk[3 * g + k]
    OBVIOUS
  <2>1. CASE k = n + 1
    BY <1>3, <1>4, <2>1
  <2>2. CASE k # n + 1
    <3>1. k \in 1..n
      BY <2>2
    <3> QED  BY <1>1, <1>2, <1>4, <3>1 DEF Encoding
  <2> QED  BY <2>1, <2>2
<1>6. /\ i' = i + 1 /\ chunk' = chunk /\ back' = back /\ pc' = "encode"
      /\ IF Len(b) = 3 THEN text' = text \o Digits(b, 3) /\ s' = <<>>
                       ELSE s' = b /\ text' = text
  BY DEF EncodeByte
<1> HIDE DEF b
<1>7. CASE n + 1 = 3
  <2>1. Part(b, chunk, g)
    BY <1>2, <1>3, <1>4, <1>5, <1>7 DEF Part
  <2>2. chunk \in Seq(0..255)
    BY <1>1 DEF Encoding
  <2>3. /\ Digits(b, 3) \in Seq(0..255) /\ Len(Digits(b, 3)) = 4
        /\ \A k \in 1..4 : Digits(b, 3)[k] = Signs(chunk, g)[k]
    <3>1. /\ LastGroup(b) \in Seq(0..255) /\ Len(LastGroup(b)) = 4
          /\ \A k \in 1..4 : LastGroup(b)[k] = Signs(chunk, g)[k]
          /\ Len(b) = 3 => Digits(b, 3) = LastGroup(b)
      BY <2>1, <2>2, GroupWritten
    <3>2. Digits(b, 3) = LastGroup(b)
      BY <1>4, <1>7, <3>1
    <3> QED  BY <3>1, <3>2
  <2>4. /\ text \o Digits(b, 3) \in Seq(0..255)
        /\ Len(text \o Digits(b, 3)) = 4 * (g + 1)
        /\ Spelled(text \o Digits(b, 3), chunk, g + 1)
    <3>1. text \in Seq(0..255) /\ Len(text) = 4 * g /\ Spelled(text, chunk, g)
      BY <1>1 DEF Encoding
    <3> QED  BY <2>3, <3>1, GroupAdded
  <2>5. /\ text' = text \o Digits(b, 3) /\ s' = <<>>
        /\ i' = 3 * (g + 1) /\ i' <= m
    BY <1>3, <1>4, <1>6, <1>7
  <2>6. <<>> \in Seq(0..255) /\ Len(<<>>) = 0
    BY EmptySeq
  <2>7. Encoding(g + 1)'
    <3>1. /\ chunk' = chunk /\ text' = text \o Digits(b, 3) /\ s' = <<>>
          /\ back' = <<>> /\ Len(chunk') = m
      BY <1>1, <1>2, <1>6, <2>5 DEF Encoding
    <3>2. chunk' \in Seq(0..255) /\ text' \in Seq(0..255) /\ s' \in Seq(0..255)
      BY <2>2, <2>4, <2>6, <3>1
    <3>3. Len(text') = 4 * (g + 1) /\ Spelled(text, chunk, g + 1)'
      BY <2>4, <3>1 DEF Spelled
    <3>4. /\ Len(s') = 0 /\ i' = 3 * (g + 1) + Len(s') /\ i' <= Len(chunk')
          /\ \A k \in 1..Len(s') : s'[k] = chunk'[3 * (g + 1) + k]
      BY <2>5, <2>6, <3>1
    <3>5. Len(s') \in 0..2
      BY <3>4
    <3> QED  BY <3>1, <3>2, <3>3, <3>4, <3>5 DEF Encoding
  <2> QED  BY <1>6, <2>7 DEF CodeInv
<1>8. CASE n + 1 # 3
  <2>1. s' = b /\ text' = text /\ i' = 3 * g + (n + 1) /\ i' <= m /\ n + 1 \in 0..2
    BY <1>3, <1>4, <1>6, <1>8
  <2>2. Encoding(g)'
    BY <1>1, <1>2, <1>4, <1>5, <1>6, <2>1 DEF Encoding, Spelled
  <2> QED  BY <1>6, <2>2 DEF CodeInv
<1> QED  BY <1>7, <1>8

LEMMA EncodeTailKeeps ==
  ASSUME CodeInv, EncodeTail
  PROVE  CodeInv'
<1>1. PICK g \in Nat : Encoding(g)
  BY DEF CodeInv, EncodeTail
<1>2. PICK n \in 0..2, m \in Nat : n = Len(s) /\ m = Len(chunk)
  BY <1>1, LenProperties DEF Encoding
<1>3. 3 * g + n = m
  BY <1>1, <1>2 DEF Encoding, EncodeTail
<1>4. /\ pc' = "decode" /\ i' = 0 /\ s' = <<>> /\ chunk' = chunk /\ back' = <<>>
      /\ text' = text \o LastGroup(s) /\ size' = Len(text')
  BY <1>1 DEF Encoding, EncodeTail
<1>5. <<>> \in Seq(0..255) /\ <<>> \in Seq(0..64) /\ Len(<<>>) = 0
  BY EmptySeq
<1>6. /\ chunk \in Seq(0..255) /\ text \in Seq(0..255) /\ s \in Seq(0..255)
      /\ Len(text) = 4 * g /\ Spelled(text, chunk, g)
  BY <1>1 DEF Encoding
<1>7. PICK h \in Nat : /\ text' \in Seq(0..255) /\ Len(text') = 4 * h
                       /\ Spelled(text', chunk, h)
                       /\ m <= 3 * h /\ 3 * h < m + 3
  <2>1. CASE n = 0
    <3>1. s = <<>>
      BY <1>2, <1>6, <2>1, EmptySeq
    <3>2. text' = text
      <4>1. LastGroup(s) = <<>>
        BY <3>1 DEF LastGroup
      <4> QED  BY <1>4, <1>6, <4>1, ConcatEmptySeq
    <3> QED  BY <1>3, <1>6, <2>1, <3>2
  <2>2. CASE n # 0
    <3>1. Part(s, chunk, g)
      BY <1>1, <1>2, <1>3, <1>6, <2>2 DEF Part, Encoding
    <3>2. /\ LastGroup(s) \in Seq(0..255) /\ Len(LastGroup(s)) = 4
          /\ \A k \in 1..4 : LastGroup(s)[k] = Signs(chunk, g)[k]
      BY <1>6, <3>1, GroupWritten
    <3>3. /\ text' \in Seq(0..255) /\ Len(text') = 4 * (g + 1)
          /\ Spelled(text', chunk, g + 1)
      <4> DEFINE d == LastGroup(s)
      <4>1. d \in Seq(0..255) /\ Len(d) = 4 /\ \A k \in 1..4 : d[k] = Signs(chunk, g)[k]
        BY <3>2
      <4>2. text' = text \o d
        BY <1>4
      <4> HIDE DEF d
      <4>3. /\ text \o d \in Seq(0..255) /\ Len(text \o d) = 4 * (g + 1)
            /\ Spelled(text \o d, chunk, g + 1)
        BY <1>6, <4>1, GroupAdded
      <4> QED  BY <4>2, <4>3
    <3> QED  BY <1>3, <2>2, <3>3
  <2> QED  BY <2>1, <2>2
<1>8. Decoding(0)'
  BY <1>4, <1>5, <1>7 DEF Decoding
<1>9. Undone(h, 0)'
  <2>1. chunk' \in Seq(0..255) /\ Len(chunk') = m /\ Len(back') = 0
    BY <1>2, <1>4, <1>5, <1>6
  <2>2. Len(text') = 4 * h /\ Spelled(text', chunk', h)
    BY <1>4, <1>7
  <2>3. /\ Len(chunk') <= 3 * h /\ 3 * h < Len(chunk') + 3
        /\ Len(back') = IF 3 * 0 <= Len(chunk') THEN 3 * 0 ELSE Len(chunk')
        /\ \A k \in 1..Len(back') : back'[k] = chunk'[k]
    BY <1>7, <2>1
  <2> QED  BY <1>4, <2>1, <2>2, <2>3 DEF Undone, Recovers, Spelled
<1> QED  BY <1>4, <1>8, <1>9 DEF CodeInv

\* When the q-th group has been read, what there is of the chunk is longer by it.
LEMMA BytesAdded ==
  ASSUME NEW c, NEW t, NEW g \in Nat, NEW q \in Nat, NEW r \in Seq(0..255),
         Recovers(c, t, g, q, r), q < g,
         NEW d, \A k \in 1..4 : d[k] = b64_int(t[4 * q + k])
  PROVE  Recovers(c, t, g, q + 1, r \o Undigits(d))
<1> DEFINE e == Undigits(d)
<1>0. c \in Seq(0..255)
  BY DEF Recovers
<1>1. PICK m \in Nat : m = Len(c)
  BY <1>0, LenProperties
<1>2. /\ 3 * q < m /\ Len(r) = 3 * q
      /\ \A k \in 1..Len(r) : r[k] = c[k]
  BY <1>1 DEF Recovers
<1>3. \A k \in 1..4 : d[k] = b64_int(Signs(c, q)[k])
  <2>1. q \in 0..(g - 1)
    OBVIOUS
  <2> QED  BY <2>1 DEF Recovers, Spelled
<1>4. /\ e \in Seq(0..255)
      /\ Len(e) = IF 3 * q + 3 <= m THEN 3 ELSE m - 3 * q
      /\ \A k \in 1..Len(e) : e[k] = c[3 * q + k]
  <2>1. 3 * q < Len(c)
    BY <1>1, <1>2
  <2>2. /\ e \in Seq(0..255)
        /\ Len(e) = IF 3 * q + 3 <= Len(c) THEN 3 ELSE Len(c) - 3 * q
        /\ \A k \in 1..Len(e) : e[k] = c[3 * q + k]
    BY <1>0, <1>3, <2>1, GroupReadBack
  <2> HIDE DEF e
  <2> QED  BY <1>1, <2>2
<1> HIDE DEF e
<1>5. PICK n \in 1..3 : n = Len(e) /\ n = IF 3 * q + 3 <= m THEN 3 ELSE m - 3 * q
  BY <1>2, <1>4
<1>6. /\ Len(r \o e) = 3 * q + n
      /\ \A k \in 1..(3 * q + n) : (r \o e)[k] =
            IF k <= 3 * q THEN r[k] ELSE e[k - 3 * q]
  <2>1. /\ Len(r \o e) = Len(r) + Len(e)
        /\ \A k \in 1..(Len(r) + Len(e)) : (r \o e)[k] =
              IF k <= Len(r) THEN r[k] ELSE e[k - Len(r)]
    <3>1. e \in Seq(0..255)
      BY <1>4
    <3> QED  BY <3>1, ConcatProperties
  <2> QED  BY <1>2, <1>5, <2>1
<1>7. \A k \in 1..(3 * q + n) : (r \o e)[k] = c[k]
  <2> SUFFICES ASSUME NEW k \in 1..(3 * q + n) PROVE (r \o e)[k] = c[k]
    OBVIOUS
  <2>1. CASE k <= 3 * q
    BY <1>2, <1>6, <2>1
  <2>2. CASE ~(k <= 3 * q)
    <3>1. k - 3 * q \in 1..n /\ 3 * q + (k - 3 * q) = k
      BY <2>2
    <3>2. e[k - 3 * q] = c[3 * q + (k - 3 * q)]
      BY <1>4, <1>5, <3>1
    <3> QED  BY <1>6, <2>2, <3>1, <3>2
  <2> QED  BY <2>1, <2>2
<1>8. 3 * q + n = IF 3 * (q + 1) <= m THEN 3 * (q + 1) ELSE m
  BY <1>2, <1>5
<1> QED  BY <1>1, <1>6, <1>7, <1>8 DEF e, Recovers

LEMMA DecodeCharacterKeeps ==
  ASSUME CodeInv, DecodeCharacter
  PROVE  CodeInv'
<1>1. PICK q \in Nat : /\ Decoding(q)
                       /\ chunk # NoChunk => \E g \in Nat : Undone(g, q)
  BY DEF CodeInv, DecodeCharacter
<1>2. PICK n \in 0..3, m \in Nat : n = Len(s) /\ m = Len(text)
  BY <1>1, LenProperties DEF Decoding
<1> DEFINE d == Append(s, b64_int(text[i + 1]))
<1>3. /\ i = 4 * q + n /\ i + 1 <= m /\ b64_int(text[i + 1]) \in 0..64
  <2>1. i = 4 * q + n /\ i < m
    BY <1>1, <1>2 DEF Decoding, DecodeCharacter
  <2>2. i + 1 \in 1..m
    BY <2>1
  <2>3. text[i + 1] \in 0..255
    BY <1>1, <1>2, <2>2, ElementOfSeq DEF Decoding
  <2>4. text[i + 1] \in Nat
    BY <2>3
  <2>5. b64_int(text[i + 1]) \in 0..64
    BY <2>4, IntRange
  <2>6. i + 1 <= m
    BY <2>1
  <2> QED  BY <2>1, <2>5, <2>6
<1>4. /\ d \in Seq(0..64) /\ Len(d) = n + 1 /\ d[n + 1] = b64_int(text[i + 1])
      /\ \A k \in 1..n : d[k] = s[k]
  BY <1>1, <1>2, <1>3, AppendProperties DEF Decoding
<1>5. \A k \in 1..(n + 1) : d[k] = b64_int(text[4 * q + k])
  <2> HIDE DEF d
  <2> SUFFICES ASSUME NEW k \in 1..(n + 1) PROVE d[k] = b64_int(text[4 * q + k])
    OBVIOUS
  <2>1. CASE k = n + 1
    BY <1>3, <1>4, <2>1
  <2>2. CASE k # n + 1
    <3>1. k \in 1..n
      BY <2>2
    <3> QED  BY <1>1, <1>2, <1>4, <3>1 DEF Decoding
  <2> QED  BY <2>1, <2>2
<1>6. /\ i' = i + 1 /\ chunk' = chunk /\ text' = text /\ pc' = "decode" /\ size' = size
      /\ IF Len(d) = 4 THEN back' = back \o Undigits(d) /\ s' = <<>>
                       ELSE s' = d /\ back' = back
  BY DEF DecodeCharacter
<1> HIDE DEF d
<1>7. CASE n + 1 = 4
  <2>1. \A k \in 1..4 : d[k] = b64_int(text[4 * q + k])
    BY <1>5, <1>7
  <2>2. \A k \in 1..4 : d[k] \in 0..64
    BY <1>4, <1>7, ElementOfSeq
  <2>3. back' = back \o Undigits(d) /\ s' = <<>> /\ i' = 4 * (q + 1) /\ i' <= m
    BY <1>3, <1>4, <1>6, <1>7
  <2>4. Undigits(d) \in Seq(0..255) /\ Len(Undigits(d)) \in 1..3
    BY <2>2, GroupRead
  <2>5. back \in Seq(0..255) /\ Len(back) \in Nat /\ Len(back) <= 3 * q
    BY <1>1, LenProperties DEF Decoding
  <2>6. back' \in Seq(0..255) /\ Len(back') <= 3 * (q + 1)
    <3> DEFINE e == Undigits(d)
    <3>1. e \in Seq(0..255) /\ Len(e) \in 1..3 /\ back' = back \o e
      BY <2>3, <2>4
    <3> HIDE DEF e
    <3>2. back \o e \in Seq(0..255) /\ Len(back \o e) = Len(back) + Len(e)
      BY <2>5, <3>1, ConcatProperties
    <3>3. PICK a \in Nat, j \in 1..3 : a = Len(back) /\ j = Len(e)
      BY <2>5, <3>1
    <3>4. a + j <= 3 * (q + 1)
      <4>1. a <= 3 * q
        BY <2>5, <3>3
      <4> QED  BY <4>1
    <3> QED  BY <3>1, <3>2, <3>3, <3>4
  <2>7. <<>> \in Seq(0..64) /\ Len(<<>>) = 0
    BY EmptySeq
  <2>8. Decoding(q + 1)'
    <3>1. text' \in Seq(0..255) /\ Len(text') = m
      BY <1>1, <1>2, <1>6 DEF Decoding
    <3>2. /\ s' \in Seq(0..64) /\ Len(s') \in 0..3 /\ i' = 4 * (q + 1) + Len(s')
          /\ i' <= Len(text')
          /\ \A k \in 1..Len(s') : s'[k] = b64_int(text'[4 * (q + 1) + k])
      BY <2>3, <2>7, <3>1
    <3> QED  BY <2>6, <3>1, <3>2 DEF Decoding
  <2>9. ASSUME chunk # NoChunk PROVE \E g \in Nat : Undone(g, q + 1)'
    <3>1. PICK g \in Nat : Undone(g, q)
      BY <1>1, <2>9
    <3>2. q < g
      BY <1>2, <1>3, <1>7, <3>1 DEF Undone, Recovers
    <3>3. /\ back \in Seq(0..255) /\ Recovers(chunk, text, g, q, back)
      BY <2>5, <3>1 DEF Undone
    <3>4. Recovers(chunk, text, g, q + 1, back \o Undigits(d))
      BY <2>1, <3>2, <3>3, BytesAdded
    <3>5. Undone(g, q + 1)'
      <4>1. size' = Len(text')
        BY <1>6, <3>1 DEF Undone
      <4> QED  BY <1>6, <2>3, <3>4, <4>1 DEF Undone, Recovers, Spelled
    <3> QED  BY <3>5
  <2> QED  BY <1>6, <2>8, <2>9 DEF CodeInv
<1>8. CASE n + 1 # 4
  <2>1. s' = d /\ back' = back /\ i' = 4 * q + (n + 1) /\ i' <= m /\ n + 1 \in 0..3
    BY <1>3, <1>4, <1>6, <1>8
  <2>2. Decoding(q)'
    BY <1>1, <1>2, <1>4, <1>5, <1>6, <2>1 DEF Decoding
  <2>3. ASSUME chunk # NoChunk PROVE \E g \in Nat : Undone(g, q)'
    <3>1. PICK g \in Nat : Undone(g, q)
      BY <1>1, <2>3
    <3>2. Undone(g, q)'
      BY <1>6, <2>1, <3>1 DEF Undone, Recovers, Spelled
    <3> QED  BY <3>2
  <2> QED  BY <1>6, <2>2, <2>3 DEF CodeInv
<1> QED  BY <1>7, <1>8

\* The bytes and their code are in step, forth and back, for every chunk.
THEOREM CodeHolds == Spec => []CodeInv
<1>1. CodeInv /\ [Next]_vars => CodeInv'
  <2> SUFFICES ASSUME CodeInv, [Next]_vars PROVE CodeInv'
    OBVIOUS
  <2>1. CASE DecodeEnd
    BY <2>1 DEF DecodeEnd, CodeInv, Decoding, Undone, Recovers, Spelled
  <2>2. CASE UNCHANGED vars
    BY <2>2 DEF vars, CodeInv, Encoding, Decoding, Undone, Recovers, Spelled
  <2> QED
    BY <2>1, <2>2, EncodeByteKeeps, EncodeTailKeeps, DecodeCharacterKeeps DEF Next
<1> QED  BY <1>1, InitCode, PTL DEF Spec

\* Decoding gives back what has been encoded (base64.c:56-112), however many
\* bytes the last group has; and whatever is decoded, there is room for it.
THEOREM DecodingUndoes == Spec => []RoundTrip
<1>1. CodeInv => RoundTrip
  <2> SUFFICES ASSUME CodeInv PROVE RoundTrip
    OBVIOUS
  <2>1. CASE pc = "encode"
    BY <2>1, EmptySeq DEF CodeInv, Encoding, RoundTrip
  <2>2. CASE pc # "encode"
    <3>1. PICK q \in Nat : /\ Decoding(q)
                           /\ chunk # NoChunk => \E g \in Nat : Undone(g, q)
      BY <2>2 DEF CodeInv
    <3>2. PICK m \in Nat, n \in Nat, j \in 0..3 :
            m = Len(text) /\ n = Len(back) /\ j = Len(s)
      BY <3>1, LenProperties DEF Decoding
    <3>3. back \in Seq(0..255) /\ n <= 3 * q /\ 4 * q + j <= m
      BY <3>1, <3>2 DEF Decoding
    <3>4. n <= (3 * m) \div 4
      BY <3>3
    <3>5. ASSUME pc = "done", chunk # NoChunk PROVE back = chunk
      <4>1. PICK g \in Nat : Undone(g, q)
        BY <3>1, <3>5
      <4>2. chunk \in Seq(0..255) /\ Len(chunk) \in Nat
        BY <4>1, LenProperties DEF Undone, Recovers
      <4>3. 4 * q + j = 4 * g
        BY <3>1, <3>2, <3>5, <4>1 DEF Decoding, Undone, Recovers, CodeInv
      <4>4. q = g
        BY <4>3
      <4>5. Len(back) = Len(chunk) /\ \A k \in 1..Len(back) : back[k] = chunk[k]
        BY <4>1, <4>2, <4>4 DEF Undone, Recovers
      <4> QED  BY <3>3, <4>2, <4>5, SeqEqual
    <3> QED  BY <3>2, <3>3, <3>4, <3>5 DEF RoundTrip, b64d_size
  <2> QED  BY <2>1, <2>2
<1> QED  BY <1>1, CodeHolds, PTL

-----------------------------------------------------------------------------
(* The bits of the code *)

\* The sextets of a group have the bits of its bytes.
LEMMA SumBits ==
  ASSUME NEW r \in 0..3, NEW q \in 0..15
  PROVE LET e == (r * 16) + q IN
        /\ (e \div 32) % 2 = (r \div 2) % 2
        /\ (e \div 16) % 2 = r % 2
        /\ (e \div 8) % 2 = (q \div 8) % 2
        /\ (e \div 4) % 2 = (q \div 4) % 2
        /\ (e \div 2) % 2 = (q \div 2) % 2
        /\ (e \div 1) % 2 = q % 2
OBVIOUS

LEMMA SumBits3 ==
  ASSUME NEW r \in 0..15, NEW q \in 0..3
  PROVE LET e == (r * 4) + q IN
        /\ (e \div 32) % 2 = (r \div 8) % 2
        /\ (e \div 16) % 2 = (r \div 4) % 2
        /\ (e \div 8) % 2 = (r \div 2) % 2
        /\ (e \div 4) % 2 = r % 2
        /\ (e \div 2) % 2 = (q \div 2) % 2
        /\ (e \div 1) % 2 = q % 2
OBVIOUS

LEMMA LowBits ==
  ASSUME NEW x \in 0..255
  PROVE /\ ((x % 4) \div 2) % 2 = (x \div 2) % 2
        /\ (x % 4) % 2 = (x \div 1) % 2
        /\ ((x % 16) \div 8) % 2 = (x \div 8) % 2
        /\ ((x % 16) \div 4) % 2 = (x \div 4) % 2
        /\ ((x % 16) \div 2) % 2 = (x \div 2) % 2
        /\ (x % 16) % 2 = (x \div 1) % 2
OBVIOUS

LEMMA LowBits64 ==
  ASSUME NEW x \in 0..255
  PROVE /\ ((x % 64) \div 32) % 2 = (x \div 32) % 2
        /\ ((x % 64) \div 16) % 2 = (x \div 16) % 2
        /\ ((x % 64) \div 8) % 2 = (x \div 8) % 2
        /\ ((x % 64) \div 4) % 2 = (x \div 4) % 2
        /\ ((x % 64) \div 2) % 2 = (x \div 2) % 2
        /\ ((x % 64) \div 1) % 2 = (x \div 1) % 2
OBVIOUS

LEMMA HighBits ==
  ASSUME NEW x \in 0..255
  PROVE /\ ((x \div 16) \div 8) % 2 = (x \div 128) % 2
        /\ ((x \div 16) \div 4) % 2 = (x \div 64) % 2
        /\ ((x \div 16) \div 2) % 2 = (x \div 32) % 2
        /\ (x \div 16) % 2 = (x \div 16) % 2
        /\ ((x \div 64) \div 2) % 2 = (x \div 128) % 2
        /\ (x \div 64) % 2 = (x \div 64) % 2
OBVIOUS

LEMMA FirstBits ==
  ASSUME NEW x \in 0..255
  PROVE /\ ((x \div 4) \div 32) % 2 = (x \div 128) % 2
        /\ ((x \div 4) \div 16) % 2 = (x \div 64) % 2
        /\ ((x \div 4) \div 8) % 2 = (x \div 32) % 2
        /\ ((x \div 4) \div 4) % 2 = (x \div 16) % 2
        /\ ((x \div 4) \div 2) % 2 = (x \div 8) % 2
        /\ ((x \div 4) \div 1) % 2 = (x \div 4) % 2
OBVIOUS

LEMMA BitIs ==
  ASSUME NEW n
  PROVE /\ Bit(n, 1) = (n \div 128) % 2 /\ Bit(n, 2) = (n \div 64) % 2
        /\ Bit(n, 3) = (n \div 32) % 2 /\ Bit(n, 4) = (n \div 16) % 2
        /\ Bit(n, 5) = (n \div 8) % 2 /\ Bit(n, 6) = (n \div 4) % 2
        /\ Bit(n, 7) = (n \div 2) % 2 /\ Bit(n, 8) = (n \div 1) % 2
BY DEF Bit

LEMMA NoBits ==
  ASSUME NEW k \in 1..8
  PROVE  Bit(0, k) = 0
<1>1. /\ Bit(0, 1) = 0 /\ Bit(0, 2) = 0 /\ Bit(0, 3) = 0 /\ Bit(0, 4) = 0
      /\ Bit(0, 5) = 0 /\ Bit(0, 6) = 0 /\ Bit(0, 7) = 0 /\ Bit(0, 8) = 0
  BY BitIs
<1>2. k = 1 \/ k = 2 \/ k = 3 \/ k = 4 \/ k = 5 \/ k = 6 \/ k = 7 \/ k = 8
  OBVIOUS
<1> QED  BY <1>1, <1>2

\* The values of the four characters for three bytes.
Sextets(x, y, z) == <<x \div 4, ((x % 4) * 16) + (y \div 16),
                      ((y % 16) * 4) + (z \div 64), z % 64>>

LEMMA SameBits ==
  ASSUME NEW x \in 0..255, NEW y \in 0..255, NEW z \in 0..255, NEW u \in 0..23
  PROVE  Bit(Sextets(x, y, z)[(u \div 6) + 1], (u % 6) + 3) =
         Bit(<<x, y, z>>[(u \div 8) + 1], (u % 8) + 1)
<1>0. PICK e1, e2, e3, e4 :
        /\ e1 = x \div 4 /\ e2 = ((x % 4) * 16) + (y \div 16)
        /\ e3 = ((y % 16) * 4) + (z \div 64) /\ e4 = z % 64
        /\ Sextets(x, y, z) = <<e1, e2, e3, e4>>
  BY DEF Sextets
<1> SUFFICES Bit(<<e1, e2, e3, e4>>[(u \div 6) + 1], (u % 6) + 3) =
             Bit(<<x, y, z>>[(u \div 8) + 1], (u % 8) + 1)
  BY <1>0, Zenon
<1>1. x % 4 \in 0..3 /\ y \div 16 \in 0..15 /\ y % 16 \in 0..15 /\ z \div 64 \in 0..3
  BY PartsOf
<1>2. /\ Bit(e1, 3) = Bit(x, 1) /\ Bit(e1, 4) = Bit(x, 2) /\ Bit(e1, 5) = Bit(x, 3)
      /\ Bit(e1, 6) = Bit(x, 4) /\ Bit(e1, 7) = Bit(x, 5) /\ Bit(e1, 8) = Bit(x, 6)
  <2>1. /\ Bit(e1, 3) = (e1 \div 32) % 2 /\ Bit(e1, 4) = (e1 \div 16) % 2
        /\ Bit(e1, 5) = (e1 \div 8) % 2 /\ Bit(e1, 6) = (e1 \div 4) % 2
        /\ Bit(e1, 7) = (e1 \div 2) % 2 /\ Bit(e1, 8) = (e1 \div 1) % 2
    BY BitIs
  <2>2. /\ Bit(x, 1) = (x \div 128) % 2 /\ Bit(x, 2) = (x \div 64) % 2
        /\ Bit(x, 3) = (x \div 32) % 2 /\ Bit(x, 4) = (x \div 16) % 2
        /\ Bit(x, 5) = (x \div 8) % 2 /\ Bit(x, 6) = (x \div 4) % 2
    BY BitIs
  <2>3. /\ (e1 \div 32) % 2 = (x \div 128) % 2 /\ (e1 \div 16) % 2 = (x \div 64) % 2
        /\ (e1 \div 8) % 2 = (x \div 32) % 2 /\ (e1 \div 4) % 2 = (x \div 16) % 2
        /\ (e1 \div 2) % 2 = (x \div 8) % 2 /\ (e1 \div 1) % 2 = (x \div 4) % 2
    BY <1>0, FirstBits
  <2> QED  BY <2>1, <2>2, <2>3, Zenon
<1>3. /\ Bit(e2, 3) = Bit(x, 7) /\ Bit(e2, 4) = Bit(x, 8) /\ Bit(e2, 5) = Bit(y, 1)
      /\ Bit(e2, 6) = Bit(y, 2) /\ Bit(e2, 7) = Bit(y, 3) /\ Bit(e2, 8) = Bit(y, 4)
  <2>1. /\ (e2 \div 32) % 2 = ((x % 4) \div 2) % 2
        /\ (e2 \div 16) % 2 = (x % 4) % 2
        /\ (e2 \div 8) % 2 = ((y \div 16) \div 8) % 2
        /\ (e2 \div 4) % 2 = ((y \div 16) \div 4) % 2
        /\ (e2 \div 2) % 2 = ((y \div 16) \div 2) % 2
        /\ (e2 \div 1) % 2 = (y \div 16) % 2
    BY <1>0, <1>1, SumBits
  <2>2. /\ ((x % 4) \div 2) % 2 = (x \div 2) % 2 /\ (x % 4) % 2 = (x \div 1) % 2
    BY LowBits
  <2>3. /\ ((y \div 16) \div 8) % 2 = (y \div 128) % 2
        /\ ((y \div 16) \div 4) % 2 = (y \div 64) % 2
        /\ ((y \div 16) \div 2) % 2 = (y \div 32) % 2
    BY HighBits
  <2>4. /\ Bit(e2, 3) = (e2 \div 32) % 2 /\ Bit(e2, 4) = (e2 \div 16) % 2
        /\ Bit(e2, 5) = (e2 \div 8) % 2 /\ Bit(e2, 6) = (e2 \div 4) % 2
        /\ Bit(e2, 7) = (e2 \div 2) % 2 /\ Bit(e2, 8) = (e2 \div 1) % 2
    BY BitIs
  <2>5. /\ Bit(x, 7) = (x \div 2) % 2 /\ Bit(x, 8) = (x \div 1) % 2
    BY BitIs
  <2>6. /\ Bit(y, 1) = (y \div 128) % 2 /\ Bit(y, 2) = (y \div 64) % 2
        /\ Bit(y, 3) = (y \div 32) % 2 /\ Bit(y, 4) = (y \div 16) % 2
    BY BitIs
  <2> QED  BY <2>1, <2>2, <2>3, <2>4, <2>5, <2>6, Zenon
<1>4. /\ Bit(e3, 3) = Bit(y, 5) /\ Bit(e3, 4) = Bit(y, 6) /\ Bit(e3, 5) = Bit(y, 7)
      /\ Bit(e3, 6) = Bit(y, 8) /\ Bit(e3, 7) = Bit(z, 1) /\ Bit(e3, 8) = Bit(z, 2)
  <2>1. /\ (e3 \div 32) % 2 = ((y % 16) \div 8) % 2
        /\ (e3 \div 16) % 2 = ((y % 16) \div 4) % 2
        /\ (e3 \div 8) % 2 = ((y % 16) \div 2) % 2
        /\ (e3 \div 4) % 2 = (y % 16) % 2
        /\ (e3 \div 2) % 2 = ((z \div 64) \div 2) % 2
        /\ (e3 \div 1) % 2 = (z \div 64) % 2
    BY <1>0, <1>1, SumBits3
  <2>2. /\ ((y % 16) \div 8) % 2 = (y \div 8) % 2
        /\ ((y % 16) \div 4) % 2 = (y \div 4) % 2
        /\ ((y % 16) \div 2) % 2 = (y \div 2) % 2
        /\ (y % 16) % 2 = (y \div 1) % 2
    BY LowBits
  <2>3. ((z \div 64) \div 2) % 2 = (z \div 128) % 2
    BY HighBits
  <2>4. /\ Bit(e3, 3) = (e3 \div 32) % 2 /\ Bit(e3, 4) = (e3 \div 16) % 2
        /\ Bit(e3, 5) = (e3 \div 8) % 2 /\ Bit(e3, 6) = (e3 \div 4) % 2
        /\ Bit(e3, 7) = (e3 \div 2) % 2 /\ Bit(e3, 8) = (e3 \div 1) % 2
    BY BitIs
  <2>5. /\ Bit(y, 5) = (y \div 8) % 2 /\ Bit(y, 6) = (y \div 4) % 2
        /\ Bit(y, 7) = (y \div 2) % 2 /\ Bit(y, 8) = (y \div 1) % 2
    BY BitIs
  <2>6. /\ Bit(z, 1) = (z \div 128) % 2 /\ Bit(z, 2) = (z \div 64) % 2
    BY BitIs
  <2>7. /\ Bit(e3, 3) = Bit(y, 5) /\ Bit(e3, 4) = Bit(y, 6)
        /\ Bit(e3, 5) = Bit(y, 7) /\ Bit(e3, 6) = Bit(y, 8)
    BY <2>1, <2>2, <2>4, <2>5, Zenon
  <2>8. Bit(e3, 7) = Bit(z, 1) /\ Bit(e3, 8) = Bit(z, 2)
    BY <2>1, <2>3, <2>4, <2>6, Zenon
  <2> QED  BY <2>7, <2>8
<1>5. /\ Bit(e4, 3) = Bit(z, 3) /\ Bit(e4, 4) = Bit(z, 4) /\ Bit(e4, 5) = Bit(z, 5)
      /\ Bit(e4, 6) = Bit(z, 6) /\ Bit(e4, 7) = Bit(z, 7) /\ Bit(e4, 8) = Bit(z, 8)
  <2>1. /\ Bit(e4, 3) = (e4 \div 32) % 2 /\ Bit(e4, 4) = (e4 \div 16) % 2
        /\ Bit(e4, 5) = (e4 \div 8) % 2 /\ Bit(e4, 6) = (e4 \div 4) % 2
        /\ Bit(e4, 7) = (e4 \div 2) % 2 /\ Bit(e4, 8) = (e4 \div 1) % 2
    BY BitIs
  <2>2. /\ Bit(z, 3) = (z \div 32) % 2 /\ Bit(z, 4) = (z \div 16) % 2
        /\ Bit(z, 5) = (z \div 8) % 2 /\ Bit(z, 6) = (z \div 4) % 2
        /\ Bit(z, 7) = (z \div 2) % 2 /\ Bit(z, 8) = (z \div 1) % 2
    BY BitIs
  <2>3. /\ (e4 \div 32) % 2 = (z \div 32) % 2 /\ (e4 \div 16) % 2 = (z \div 16) % 2
        /\ (e4 \div 8) % 2 = (z \div 8) % 2 /\ (e4 \div 4) % 2 = (z \div 4) % 2
        /\ (e4 \div 2) % 2 = (z \div 2) % 2 /\ (e4 \div 1) % 2 = (z \div 1) % 2
    BY <1>0, LowBits64
  <2> QED  BY <2>1, <2>2, <2>3, Zenon
<1> HIDE DEF Bit
<1>6. CASE u < 6
  <2>1. (u \div 6) + 1 = 1 /\ (u \div 8) + 1 = 1 /\ u % 6 = u /\ u % 8 = u
    BY <1>6
  <2>2. u = 0 \/ u = 1 \/ u = 2 \/ u = 3 \/ u = 4 \/ u = 5
    BY <1>6
  <2> QED  BY <1>2, <2>1, <2>2
<1>7. CASE u = 6 \/ u = 7
  <2>1. (u \div 6) + 1 = 2 /\ (u \div 8) + 1 = 1 /\ u % 6 = u - 6 /\ u % 8 = u
    BY <1>7
  <2> QED  BY <1>3, <1>7, <2>1
<1>8. CASE u >= 8 /\ u < 12
  <2>1. (u \div 6) + 1 = 2 /\ (u \div 8) + 1 = 2 /\ u % 6 = u - 6 /\ u % 8 = u - 8
    BY <1>8
  <2>2. u = 8 \/ u = 9 \/ u = 10 \/ u = 11
    BY <1>8
  <2> QED  BY <1>3, <2>1, <2>2
<1>9. CASE u >= 12 /\ u < 16
  <2>1. (u \div 6) + 1 = 3 /\ (u \div 8) + 1 = 2 /\ u % 6 = u - 12 /\ u % 8 = u - 8
    BY <1>9
  <2>2. u = 12 \/ u = 13 \/ u = 14 \/ u = 15
    BY <1>9
  <2> QED  BY <1>4, <2>1, <2>2
<1>10. CASE u = 16 \/ u = 17
  <2>1. (u \div 6) + 1 = 3 /\ (u \div 8) + 1 = 3 /\ u % 6 = u - 12 /\ u % 8 = u - 16
    BY <1>10
  <2> QED  BY <1>4, <1>10, <2>1
<1>11. CASE u >= 18
  <2>1. (u \div 6) + 1 = 4 /\ (u \div 8) + 1 = 3 /\ u % 6 = u - 18 /\ u % 8 = u - 16
    BY <1>11
  <2>2. u = 18 \/ u = 19 \/ u = 20 \/ u = 21 \/ u = 22 \/ u = 23
    BY <1>11
  <2> QED  BY <1>5, <2>1, <2>2
<1> QED  BY <1>6, <1>7, <1>8, <1>9, <1>10, <1>11

LEMMA Positions ==
  ASSUME NEW j \in Nat \ {0}
  PROVE  \E h \in Nat, u \in 0..23 :
           /\ j = 24 * h + u + 1
           /\ (j - 1) \div 6 = 4 * h + (u \div 6) /\ (j - 1) % 6 = u % 6
           /\ (j - 1) \div 8 = 3 * h + (u \div 8) /\ (j - 1) % 8 = u % 8
<1>1. ASSUME NEW h \in Nat, NEW u \in 0..23, j = 24 * h + u + 1
      PROVE  /\ (j - 1) \div 6 = 4 * h + (u \div 6) /\ (j - 1) % 6 = u % 6
             /\ (j - 1) \div 8 = 3 * h + (u \div 8) /\ (j - 1) % 8 = u % 8
  BY <1>1
<1>2. /\ (j - 1) \div 24 \in Nat /\ (j - 1) % 24 \in 0..23
      /\ j - 1 = 24 * ((j - 1) \div 24) + ((j - 1) % 24)
  OBVIOUS
<1>3. \E h \in Nat, u \in 0..23 : j = 24 * h + u + 1
  <2>1. j = 24 * ((j - 1) \div 24) + ((j - 1) % 24) + 1
    BY <1>2
  <2> QED  BY <1>2, <2>1
<1> QED  BY <1>1, <1>3

\* As many groups as it takes.
LEMMA SizeOfCode ==
  ASSUME NEW g \in Nat, NEW n \in Nat, n <= 3 * g, 3 * g < n + 3
  PROVE  b64e_size(n) = 4 * g
<1> DEFINE T == {j \in 0..(n - 1) : j % 3 = 0}
           f == [k \in 1..g |-> 3 * (k - 1)]
<1>1. \A k \in 1..g : 3 * (k - 1) \in T
  OBVIOUS
<1>2. \A a, b \in 1..g : 3 * (a - 1) = 3 * (b - 1) => a = b
  OBVIOUS
<1>3. ASSUME NEW j \in T PROVE \E k \in 1..g : 3 * (k - 1) = j
  <2>1. (j \div 3) + 1 \in 1..g /\ 3 * (((j \div 3) + 1) - 1) = j
    OBVIOUS
  <2> QED  BY <2>1
<1>4. f \in Bijection(1..g, T)
  <2> HIDE DEF T
  <2> QED  BY <1>1, <1>2, <1>3 DEF Bijection, Injection, Surjection, IsInjective
<1> HIDE DEF T, f
<1>5. IsFiniteSet(1..g) /\ Cardinality(1..g) = g
  BY FS_Interval
<1>6. Cardinality(T) = g
  BY <1>4, <1>5, FS_Bijection DEF ExistsBijection
<1> QED  BY <1>6 DEF b64e_size, T

\* A character of a group is padding if there is no byte for it; another has its
\* six bits of the group's bytes.
LEMMA GroupBits ==
  ASSUME NEW c \in Seq(0..255), NEW h \in Nat, 3 * h < Len(c)
  PROVE  /\ \A m \in 1..4 : Signs(c, h)[m] # Pad <=> 3 * h + m <= Len(c) + 1
         /\ \A u \in 0..23 : 3 * h + (u \div 6) <= Len(c) =>
              Bit(b64_int(Signs(c, h)[(u \div 6) + 1]), (u % 6) + 3) =
              Bit(At(c, 3 * h + (u \div 8) + 1), (u % 8) + 1)
<1> DEFINE x == At(c, 3 * h + 1)
           y == At(c, 3 * h + 2)
           z == At(c, 3 * h + 3)
           e1 == x \div 4
           e2 == ((x % 4) * 16) + (y \div 16)
           e3 == ((y % 16) * 4) + (z \div 64)
           e4 == z % 64
<1>1. PICK n \in Nat : n = Len(c)
  BY LenProperties
<1>2. x \in 0..255 /\ y \in 0..255 /\ z \in 0..255
  BY BytesAt
<1>3. Signs(c, h) = <<b64_chr[e1], b64_chr[e2],
                      IF 3 * h + 2 <= n THEN b64_chr[e3] ELSE Pad,
                      IF 3 * h + 3 <= n THEN b64_chr[e4] ELSE Pad>>
  BY <1>1 DEF Signs
<1>4. \A u \in 0..23 : At(c, 3 * h + (u \div 8) + 1) = <<x, y, z>>[(u \div 8) + 1]
  <2> SUFFICES ASSUME NEW u \in 0..23
               PROVE  At(c, 3 * h + (u \div 8) + 1) = <<x, y, z>>[(u \div 8) + 1]
    OBVIOUS
  <2>1. u \div 8 = 0 \/ u \div 8 = 1 \/ u \div 8 = 2
    OBVIOUS
  <2>2. CASE u \div 8 = 0
    <3>1. 3 * h + (u \div 8) + 1 = 3 * h + 1 /\ (u \div 8) + 1 = 1
      BY <2>2
    <3> QED  BY <3>1
  <2>3. CASE u \div 8 = 1
    <3>1. 3 * h + (u \div 8) + 1 = 3 * h + 2 /\ (u \div 8) + 1 = 2
      BY <2>3
    <3> QED  BY <3>1
  <2>4. CASE u \div 8 = 2
    <3>1. 3 * h + (u \div 8) + 1 = 3 * h + 3 /\ (u \div 8) + 1 = 3
      BY <2>4
    <3> QED  BY <3>1
  <2> QED  BY <2>1, <2>2, <2>3, <2>4
<1> HIDE DEF x, y, z
<1>5. /\ x % 4 \in 0..3 /\ y \div 16 \in 0..15 /\ y % 16 \in 0..15 /\ z \div 64 \in 0..3
  BY <1>2, PartsOf
<1>6. e1 \in 0..63 /\ e2 \in 0..63 /\ e3 \in 0..63 /\ e4 \in 0..63
  <2>1. e1 \in 0..63 /\ e2 \in 0..63
    BY <1>2, <1>5, FirstByte
  <2>2. e3 \in 0..63 /\ e4 \in 0..63
    BY <1>2, <1>5, ThirdByte
  <2> QED  BY <2>1, <2>2
<1>7. \A u \in 0..23 : Bit(<<e1, e2, e3, e4>>[(u \div 6) + 1], (u % 6) + 3) =
                       Bit(<<x, y, z>>[(u \div 8) + 1], (u % 8) + 1)
  <2>1. Sextets(x, y, z) = <<e1, e2, e3, e4>>
    BY DEF Sextets
  <2>2. \A u \in 0..23 : Bit(Sextets(x, y, z)[(u \div 6) + 1], (u % 6) + 3) =
                         Bit(<<x, y, z>>[(u \div 8) + 1], (u % 8) + 1)
    BY <1>2, SameBits
  <2> HIDE DEF e1, e2, e3, e4
  <2> QED  BY <2>1, <2>2, Zenon
<1> HIDE DEF e1, e2, e3, e4
<1>8. /\ b64_int(b64_chr[e1]) = e1 /\ b64_int(b64_chr[e2]) = e2
      /\ b64_int(b64_chr[e3]) = e3 /\ b64_int(b64_chr[e4]) = e4
      /\ b64_chr[e1] # Pad /\ b64_chr[e2] # Pad
      /\ b64_chr[e3] # Pad /\ b64_chr[e4] # Pad
  BY <1>6, IntChr
<1>9. \A m \in 1..4 : Signs(c, h)[m] # Pad <=> 3 * h + m <= n + 1
  <2>1. \A m \in 1..4 : m = 1 \/ m = 2 \/ m = 3 \/ m = 4
    OBVIOUS
  <2>2. 3 * h + 1 <= n + 1 /\ 3 * h + 2 <= n + 1
    BY <1>1
  <2>3. (3 * h + 2 <= n <=> 3 * h + 3 <= n + 1) /\ (3 * h + 3 <= n <=> 3 * h + 4 <= n + 1)
    OBVIOUS
  <2>4. /\ Signs(c, h)[1] # Pad /\ Signs(c, h)[2] # Pad
        /\ Signs(c, h)[3] # Pad <=> 3 * h + 2 <= n
        /\ Signs(c, h)[4] # Pad <=> 3 * h + 3 <= n
    BY <1>3, <1>8
  <2> QED  BY <2>1, <2>2, <2>3, <2>4
<1>10. \A m \in 1..4 : 3 * h + m <= n + 1 =>
          b64_int(Signs(c, h)[m]) = <<e1, e2, e3, e4>>[m]
  <2>1. \A m \in 1..4 : m = 1 \/ m = 2 \/ m = 3 \/ m = 4
    OBVIOUS
  <2>3. (3 * h + 2 <= n <=> 3 * h + 3 <= n + 1) /\ (3 * h + 3 <= n <=> 3 * h + 4 <= n + 1)
    OBVIOUS
  <2>4. /\ b64_int(Signs(c, h)[1]) = e1 /\ b64_int(Signs(c, h)[2]) = e2
        /\ 3 * h + 2 <= n => b64_int(Signs(c, h)[3]) = e3
        /\ 3 * h + 3 <= n => b64_int(Signs(c, h)[4]) = e4
    BY <1>3, <1>8
  <2> QED  BY <2>1, <2>3, <2>4
<1>11. ASSUME NEW u \in 0..23, 3 * h + (u \div 6) <= n
       PROVE  Bit(b64_int(Signs(c, h)[(u \div 6) + 1]), (u % 6) + 3) =
              Bit(At(c, 3 * h + (u \div 8) + 1), (u % 8) + 1)
  <2>1. (u \div 6) + 1 \in 1..4
    OBVIOUS
  <2>2. 3 * h + ((u \div 6) + 1) <= n + 1
    BY <1>11
  <2>3. b64_int(Signs(c, h)[(u \div 6) + 1]) = <<e1, e2, e3, e4>>[(u \div 6) + 1]
    BY <1>10, <2>1, <2>2, Zenon
  <2> QED  BY <1>4, <1>7, <2>3, Zenon
<1> QED  BY <1>1, <1>9, <1>11

\* A text spells the bits of the bytes it is the code of.
LEMMA CodeSpells ==
  ASSUME NEW c, NEW t, NEW g \in Nat, NEW q, NEW r, Recovers(c, t, g, q, r)
  PROVE  LET n == 8 * Len(c)
             m == Cardinality({k \in DOMAIN t : t[k] # Pad})
         IN  /\ \A k \in DOMAIN t : t[k] # Pad <=> k <= m
             /\ 6 * m \in n..(n + 5)
             /\ \A j \in 1..(6 * m) :
                   DigitBit(t, j) = IF j <= n THEN ByteBit(c, j) ELSE 0
             /\ Len(t) = b64e_size(Len(c))
<1>1. c \in Seq(0..255)
  BY DEF Recovers
<1>2. PICK L \in Nat : /\ L = Len(c)
                       /\ L <= 3 * g /\ 3 * g < L + 3
  BY <1>1, LenProperties DEF Recovers
<1>3. DOMAIN t = 1..(4 * g) /\ Len(t) = 4 * g
  BY DEF Recovers
<1>4. ASSUME NEW h \in 0..(g - 1)
      PROVE  /\ h \in Nat /\ 3 * h < L
             /\ \A m \in 1..4 : t[4 * h + m] = Signs(c, h)[m]
  <2>1. 3 * h < L
    BY <1>2
  <2> QED  BY <2>1 DEF Recovers, Spelled
<1> DEFINE M == g + L
<1>5. M \in Nat /\ M <= 4 * g /\ 6 * M - 8 * L \in 0..5
  BY <1>2
<1>6. \A k \in 1..(4 * g) : t[k] # Pad <=> k <= M
  <2> SUFFICES ASSUME NEW k \in 1..(4 * g) PROVE t[k] # Pad <=> k <= M
    OBVIOUS
  <2>1. PICK h \in 0..(g - 1), m \in 1..4 : k = 4 * h + m
    <3>1. (k - 1) \div 4 \in 0..(g - 1) /\ ((k - 1) % 4) + 1 \in 1..4
          /\ k = 4 * ((k - 1) \div 4) + (((k - 1) % 4) + 1)
      OBVIOUS
    <3> QED  BY <3>1
  <2>2. t[k] = Signs(c, h)[m] /\ h \in Nat /\ 3 * h < Len(c)
    BY <1>2, <1>4, <2>1
  <2>3. Signs(c, h)[m] # Pad <=> 3 * h + m <= L + 1
    BY <1>1, <1>2, <2>2, GroupBits
  <2>4. 3 * h + m <= L + 1 <=> 4 * h + m <= g + L
    BY <1>2
  <2> QED  BY <2>1, <2>2, <2>3, <2>4
<1>7. Cardinality({k \in DOMAIN t : t[k] # Pad}) = M
  <2>1. {k \in DOMAIN t : t[k] # Pad} = 1..M
    BY <1>3, <1>5, <1>6
  <2>2. Cardinality(1..M) = M
    BY <1>5, FS_Interval
  <2> QED  BY <2>1, <2>2
<1> HIDE DEF M
<1>8. ASSUME NEW j \in 1..(6 * M)
      PROVE  DigitBit(t, j) = IF j <= 8 * L THEN ByteBit(c, j) ELSE 0
  <2>1. j \in Nat \ {0}
    BY <1>5
  <2>2. PICK h \in Nat, u \in 0..23 :
          /\ j = 24 * h + u + 1
          /\ (j - 1) \div 6 = 4 * h + (u \div 6) /\ (j - 1) % 6 = u % 6
          /\ (j - 1) \div 8 = 3 * h + (u \div 8) /\ (j - 1) % 8 = u % 8
    BY <2>1, Positions
  <2>3. h \in 0..(g - 1) /\ 3 * h + (u \div 6) <= L
    BY <1>2, <1>5, <2>2 DEF M
  <2>4. (u \div 6) + 1 \in 1..4 /\ (u % 8) + 1 \in 1..8
    OBVIOUS
  <2>5. t[4 * h + ((u \div 6) + 1)] = Signs(c, h)[(u \div 6) + 1]
    BY <1>4, <2>3, <2>4
  <2>6. ((j - 1) \div 6) + 1 = 4 * h + ((u \div 6) + 1)
    BY <2>2
  <2>7. DigitBit(t, j) = Bit(b64_int(Signs(c, h)[(u \div 6) + 1]), (u % 6) + 3)
    BY <2>2, <2>5, <2>6, Zenon DEF DigitBit
  <2>8. DigitBit(t, j) = Bit(At(c, 3 * h + (u \div 8) + 1), (u % 8) + 1)
    <3>1. 3 * h < Len(c) /\ 3 * h + (u \div 6) <= Len(c)
      BY <1>2, <1>4, <2>3
    <3> QED  BY <1>1, <2>7, <3>1, GroupBits
  <2>9. j <= 8 * L <=> 3 * h + (u \div 8) + 1 <= L
    BY <2>2
  <2>10. CASE j <= 8 * L
    <3>1. At(c, 3 * h + (u \div 8) + 1) = c[((j - 1) \div 8) + 1]
      BY <1>2, <2>2, <2>9, <2>10 DEF At
    <3> QED  BY <2>2, <2>8, <2>10, <3>1, Zenon DEF ByteBit
  <2>11. CASE ~(j <= 8 * L)
    <3>1. At(c, 3 * h + (u \div 8) + 1) = 0
      BY <1>2, <2>9, <2>11, Zenon DEF At
    <3> QED  BY <2>4, <2>8, <2>11, <3>1, NoBits
  <2> QED  BY <2>10, <2>11
<1>9. Len(t) = b64e_size(L)
  BY <1>2, <1>3, SizeOfCode
<1>10. 6 * M \in (8 * L)..(8 * L + 5)
  BY <1>5
<1> QED  BY <1>2, <1>3, <1>6, <1>7, <1>8, <1>9, <1>10

\* What b64_encode has written (base64.c:56-89) spells the bits of the chunk and
\* has the length it returns and b64e_size announces.
THEOREM EncodingSpells == Spec => []EncodesBits
<1>1. CodeInv => EncodesBits
  <2> SUFFICES ASSUME CodeInv, pc = "done", chunk # NoChunk PROVE EncodesBits
    BY DEF EncodesBits
  <2>1. PICK q \in Nat, g \in Nat : Undone(g, q)
    BY DEF CodeInv
  <2>2. size = Len(text) /\ Recovers(chunk, text, g, q, back)
    BY <2>1 DEF Undone
  <2> QED  BY <2>2, CodeSpells DEF EncodesBits
<1> QED  BY <1>1, CodeHolds, PTL

-----------------------------------------------------------------------------
(* Numbers of bytes: the positions of SHA-256's count of bits *)

LEMMA SpanExists ==
  \E f : f = [n \in 0..(2 * WordBytes) |-> IF n = 0 THEN 1 ELSE 256 * f[n - 1]]
<1> DEFINE Right(f, k) == \A n \in 0..k : f[n] = IF n = 0 THEN 1 ELSE 256 * f[n - 1]
           S == {k \in Nat : \E f : Right(f, k)}
<1>0. PICK w \in Nat : w = 2 * WordBytes
  BY Sha256Assumption
<1>1. 0 \in S
  <2> DEFINE g == [n \in 0..0 |-> 1]
  <2>1. Right(g, 0)
    OBVIOUS
  <2> QED  BY <2>1
<1>2. ASSUME NEW k \in Nat, k \in S PROVE k + 1 \in S
  <2>1. PICK f : Right(f, k)
    BY <1>2
  <2> DEFINE g == [n \in 0..(k + 1) |-> IF n <= k THEN f[n] ELSE 256 * f[k]]
  <2>2. ASSUME NEW n \in 0..(k + 1) PROVE g[n] = IF n = 0 THEN 1 ELSE 256 * g[n - 1]
    <3>1. CASE n <= k
      <4>1. g[n] = f[n] /\ (n # 0 => g[n - 1] = f[n - 1])
        BY <3>1
      <4> QED  BY <2>1, <3>1, <4>1
    <3>2. CASE n = k + 1
      <4>1. n # 0 /\ n - 1 = k
        BY <3>2
      <4>2. g[n] = 256 * f[k] /\ g[k] = f[k]
        BY <3>2
      <4> HIDE DEF g
      <4> QED  BY <4>1, <4>2
    <3> QED  BY <3>1, <3>2
  <2>3. Right(g, k + 1)
    BY <2>2
  <2> HIDE DEF g, Right
  <2> QED  BY <2>3
<1>3. w \in S
  <2> HIDE DEF S
  <2> QED  BY <1>1, <1>2, NatSetInduction
<1>4. PICK f : Right(f, w)
  BY <1>3
<1> DEFINE g == [n \in 0..w |-> f[n]]
<1>5. g = [n \in 0..w |-> IF n = 0 THEN 1 ELSE 256 * g[n - 1]]
  <2>1. \A n \in 0..w : n # 0 => g[n - 1] = f[n - 1]
    OBVIOUS
  <2>2. g = [n \in 0..w |-> IF n = 0 THEN 1 ELSE 256 * f[n - 1]]
    BY <1>4
  <2> HIDE DEF g
  <2> QED  BY <2>1, <2>2
<1> HIDE DEF g
<1>6. g = [n \in 0..(2 * WordBytes) |-> IF n = 0 THEN 1 ELSE 256 * g[n - 1]]
  BY <1>0, <1>5
<1> QED  BY <1>6

\* What a position counts for, and that none counts for nothing.
LEMMA SpanStep ==
  /\ 0 \in 0..(2 * WordBytes) /\ Span[0] = 1
  /\ \A n \in 1..(2 * WordBytes) : Span[n] = 256 * Span[n - 1]
<1>0. PICK w \in Nat : w = 2 * WordBytes
  BY Sha256Assumption
<1>1. Span = [n \in 0..(2 * WordBytes) |-> IF n = 0 THEN 1 ELSE 256 * Span[n - 1]]
  BY SpanExists, Zenon DEF Span
<1>2. PICK f : f = Span
  OBVIOUS
<1>3. f = [n \in 0..w |-> IF n = 0 THEN 1 ELSE 256 * f[n - 1]]
  BY <1>0, <1>1, <1>2, Zenon
<1>4. f[0] = 1 /\ \A n \in 1..w : f[n] = 256 * f[n - 1]
  BY <1>3
<1>5. 0 \in 0..w
  OBVIOUS
<1> QED  BY <1>0, <1>2, <1>4, <1>5

LEMMA SpanType ==
  \A n \in 0..(2 * WordBytes) : Span[n] \in Nat \ {0}
<1>0. PICK w \in Nat : w = 2 * WordBytes
  BY Sha256Assumption
<1> DEFINE S == {n \in Nat : n <= w => Span[n] \in Nat \ {0}}
<1>1. 0 \in S
  BY SpanStep
<1>2. ASSUME NEW n \in Nat, n \in S PROVE n + 1 \in S
  <2> SUFFICES ASSUME n + 1 <= w PROVE Span[n + 1] \in Nat \ {0}
    OBVIOUS
  <2>1. n + 1 \in 1..w /\ (n + 1) - 1 = n
    OBVIOUS
  <2>2. PICK x \in Nat \ {0} : x = Span[n]
    BY <1>2
  <2>3. Span[n + 1] = 256 * x
    BY <1>0, <2>1, <2>2, SpanStep
  <2> QED  BY <2>3
<1>3. \A n \in Nat : n \in S
  <2> HIDE DEF S
  <2> QED  BY <1>1, <1>2, NatSetInduction
<1> QED  BY <1>0, <1>3

LEMMA SpanSum ==
  ASSUME NEW a \in Nat, NEW b \in Nat, a + b <= 2 * WordBytes
  PROVE  Span[a + b] = Span[a] * Span[b]
<1>0. PICK w \in Nat : w = 2 * WordBytes
  BY Sha256Assumption
<1> DEFINE S == {n \in Nat : a + n <= w => Span[a + n] = Span[a] * Span[n]}
<1>1. 0 \in S
  <2>1. a \in 0..w /\ a + 0 = a
    BY <1>0
  <2>2. PICK x \in Nat : x = Span[a]
    BY <1>0, <2>1, SpanType
  <2>3. Span[0] = 1
    BY SpanStep
  <2> QED  BY <2>1, <2>2, <2>3
<1>2. ASSUME NEW n \in Nat, n \in S PROVE n + 1 \in S
  <2> SUFFICES ASSUME a + (n + 1) <= w PROVE Span[a + (n + 1)] = Span[a] * Span[n + 1]
    OBVIOUS
  <2>1. /\ a \in 0..w /\ n \in 0..w /\ a + n <= w
        /\ a + (n + 1) \in 1..w /\ (a + (n + 1)) - 1 = a + n
        /\ n + 1 \in 1..w /\ (n + 1) - 1 = n
    OBVIOUS
  <2>2. PICK x \in Nat : x = Span[a]
    BY <1>0, <2>1, SpanType
  <2>3. PICK y \in Nat : y = Span[n]
    BY <1>0, <2>1, SpanType
  <2>4. Span[a + n] = x * y
    BY <1>2, <2>1, <2>2, <2>3
  <2>5. Span[a + (n + 1)] = 256 * (x * y)
    BY <1>0, <2>1, <2>4, SpanStep
  <2>6. Span[n + 1] = 256 * y
    BY <1>0, <2>1, <2>3, SpanStep
  <2>7. 256 * (x * y) = x * (256 * y)
    OBVIOUS
  <2> QED  BY <2>2, <2>5, <2>6, <2>7
<1>3. b \in S
  <2> HIDE DEF S
  <2> QED  BY <1>1, <1>2, NatSetInduction
<1> QED  BY <1>0, <1>3

-----------------------------------------------------------------------------
(* Division by a number of bytes' values *)

LEMMA DivMod ==
  ASSUME NEW a \in Nat, NEW w \in Nat \ {0}
  PROVE  /\ a \div w \in Nat /\ a % w \in 0..(w - 1)
         /\ a = w * (a \div w) + (a % w)
OBVIOUS

LEMMA Larger ==
  ASSUME NEW w \in Nat, NEW p \in Nat, NEW q \in Nat, p < q
  PROVE  w * p + w <= w * q
<1>1. PICK d \in Nat : q = p + 1 + d
  <2>1. q - p - 1 \in Nat /\ q = p + 1 + (q - p - 1)
    OBVIOUS
  <2> QED  BY <2>1
<1>2. w * q = w * p + w + w * d
  BY <1>1
<1>3. w * d \in Nat /\ w * p \in Nat
  OBVIOUS
<1> QED  BY <1>2, <1>3

LEMMA DivUnique ==
  ASSUME NEW a \in Nat, NEW w \in Nat \ {0}, NEW q \in Nat, NEW r \in 0..(w - 1), a = w * q + r
  PROVE  a \div w = q /\ a % w = r
<1>1. PICK p \in Nat, o \in 0..(w - 1) : p = a \div w /\ o = a % w /\ a = w * p + o
  BY DivMod
<1>2. PICK x \in Nat, y \in Nat : x = w * p /\ y = w * q
  OBVIOUS
<1>3. x + o = y + r
  BY <1>1, <1>2
<1>4. ~(p < q)
  <2> SUFFICES ASSUME p < q PROVE FALSE
    OBVIOUS
  <2>1. x + w <= y
    BY <1>2, Larger
  <2> QED  BY <1>3, <2>1
<1>5. ~(q < p)
  <2> SUFFICES ASSUME q < p PROVE FALSE
    OBVIOUS
  <2>1. y + w <= x
    BY <1>2, Larger
  <2> QED  BY <1>3, <2>1
<1>6. p = q
  BY <1>4, <1>5
<1>7. r = o
  BY <1>2, <1>3, <1>6
<1> QED  BY <1>1, <1>6, <1>7

LEMMA Multiples ==
  ASSUME NEW a \in Nat, NEW w \in Nat \ {0}
  PROVE  a % w = 0 <=> \E q \in Nat : a = w * q
<1>1. ASSUME NEW q \in Nat, a = w * q PROVE a % w = 0
  <2>1. PICK r \in 0..(w - 1) : r = 0
    OBVIOUS
  <2>2. w * q \in Nat /\ a = w * q + r
    BY <1>1, <2>1
  <2>3. a % w = r
    BY <2>2, DivUnique
  <2> QED  BY <2>1, <2>3
<1>2. ASSUME a % w = 0 PROVE \E q \in Nat : a = w * q
  <2>1. PICK q \in Nat, r \in 0..(w - 1) : q = a \div w /\ r = a % w /\ a = w * q + r
    BY DivMod
  <2>2. w * q \in Nat
    OBVIOUS
  <2> QED  BY <1>2, <2>1, <2>2
<1> QED  BY <1>1, <1>2

LEMMA DivDiv ==
  ASSUME NEW x \in Nat, NEW a \in Nat \ {0}, NEW b \in Nat \ {0}
  PROVE  (x \div a) \div b = x \div (a * b)
<1>1. PICK q \in Nat, r \in 0..(a - 1) : q = x \div a /\ x = a * q + r
  BY DivMod
<1>2. PICK p \in Nat, o \in 0..(b - 1) : p = q \div b /\ q = b * p + o
  BY DivMod
<1>3. a * q = (a * b) * p + a * o
  <2>1. a * q = a * (b * p + o)
    BY <1>2
  <2>2. b * p \in Nat /\ a * (b * p) = (a * b) * p
    OBVIOUS
  <2>3. a * (b * p + o) = a * (b * p) + a * o
    BY <2>2
  <2> QED  BY <2>1, <2>2, <2>3
<1>4. PICK m \in Nat, t \in Nat, u \in Nat : m = a * b /\ t = a * o /\ u = a * q
  OBVIOUS
<1>5. t + a <= m
  <2>1. o < b /\ o \in Nat
    OBVIOUS
  <2> QED  BY <1>4, <2>1, Larger
<1>6. m \in Nat \ {0} /\ t + r \in 0..(m - 1)
  BY <1>5
<1>7. x = m * p + (t + r)
  <2>1. u = m * p + t
    BY <1>3, <1>4
  <2>2. x = u + r
    BY <1>1, <1>4
  <2>3. m * p \in Nat
    OBVIOUS
  <2> QED  BY <2>1, <2>2, <2>3
<1>8. x \div m = p
  BY <1>6, <1>7, DivUnique
<1> QED  BY <1>1, <1>2, <1>4, <1>8

Above(m, a, c) == m = a * (256 * c)
SameDigit(x, y, a) == (x \div a) % 256 = (y \div a) % 256

\* A digit of a number is that of the rest after its higher digits.
LEMMA DigitOfRest ==
  ASSUME NEW x \in Nat, NEW a \in Nat \ {0}, NEW c \in Nat \ {0}, NEW m, Above(m, a, c)
  PROVE  SameDigit(x % m, x, a)
<1>0. m = a * (256 * c)
  BY DEF Above
<1>1. m \in Nat \ {0}
  <2>1. PICK d \in Nat \ {0} : d = 256 * c
    OBVIOUS
  <2>2. m = a * d
    BY <1>0, <2>1
  <2>3. d >= 1 /\ a >= 1
    OBVIOUS
  <2>4. a * 0 + a <= a * d
    BY <2>1, <2>3, Larger
  <2> QED  BY <2>2, <2>4
<1>2. PICK p \in Nat, y \in Nat : y = x % m /\ x = m * p + y
  <2>1. PICK p \in Nat, y \in 0..(m - 1) : p = x \div m /\ y = x % m /\ x = m * p + y
    BY <1>1, DivMod
  <2> QED  BY <2>1
<1>3. PICK q \in Nat, r \in 0..(a - 1) : q = y \div a /\ y = a * q + r
  BY DivMod
<1>4. PICK t \in Nat : t = c * p
  OBVIOUS
<1>5. m * p = a * (256 * t)
  BY <1>0, <1>4
<1>6. x = a * (256 * t + q) + r
  <2>1. a * (256 * t + q) = a * (256 * t) + a * q
    OBVIOUS
  <2>2. x = m * p + (a * q + r)
    BY <1>2, <1>3
  <2>3. m * p \in Nat /\ a * q \in Nat
    BY <1>1
  <2> QED  BY <1>5, <2>1, <2>2, <2>3
<1>7. PICK v \in Nat : v = 256 * t + q
  OBVIOUS
<1>8. x \div a = v
  BY <1>6, <1>7, DivUnique
<1>9. v % 256 = q % 256
  BY <1>7
<1> QED  BY <1>2, <1>3, <1>8, <1>9 DEF SameDigit

\* The next number, in a word.
LEMMA NextInWord ==
  ASSUME NEW q \in Nat, NEW w \in Nat \ {0}
  PROVE  ((q % w) + 1) % w = (q + 1) % w
<1>1. PICK u \in Nat, v \in 0..(w - 1) : v = q % w /\ q = w * u + v
  BY DivMod
<1>2. CASE v + 1 < w
  <2>1. v + 1 \in 0..(w - 1) /\ q + 1 \in Nat /\ q + 1 = w * u + (v + 1)
    <3>1. w * u \in Nat
      OBVIOUS
    <3> QED  BY <1>1, <1>2, <3>1
  <2>2. (q + 1) % w = v + 1
    BY <2>1, DivUnique
  <2>3. v + 1 = w * 0 + (v + 1)
    OBVIOUS
  <2>4. (v + 1) % w = v + 1
    BY <2>1, <2>3, DivUnique
  <2> QED  BY <1>1, <2>2, <2>4
<1>3. CASE v + 1 = w
  <2>1. 0 \in 0..(w - 1) /\ q + 1 \in Nat
    OBVIOUS
  <2>2. (q + 1) % w = 0
    <3>1. PICK n \in Nat, d \in Nat : n = q + 1 /\ d = u + 1
      OBVIOUS
    <3>2. w * u \in Nat /\ w * d = w * u + w
      BY <3>1
    <3>3. n = w * d + 0
      BY <1>1, <1>3, <3>1, <3>2
    <3>4. n % w = 0
      BY <2>1, <3>3, DivUnique
    <3> QED  BY <3>1, <3>4
  <2>3. w = w * 1 + 0
    OBVIOUS
  <2>4. (v + 1) % w = 0
    BY <1>3, <2>1, <2>3, DivUnique
  <2> QED  BY <1>1, <2>2, <2>4
<1> QED  BY <1>2, <1>3

-----------------------------------------------------------------------------
(* The count of bits *)

\* The two words that hold n.
Count(n) == <<n % WORD, (n \div WORD) % WORD>>

\* The bytes of n, in as many places as two words have.
Length(n) == [k \in 1..(2 * WordBytes) |-> (n \div Span[2 * WordBytes - k]) % 256]

LEMMA WordIs == WORD \in Nat \ {0}
<1>1. WordBytes \in 0..(2 * WordBytes)
  BY Sha256Assumption
<1> QED  BY <1>1, SpanType DEF WORD

\* The carry goes into the second word exactly when the first has overflowed.
LEMMA Carried ==
  ASSUME NEW n \in Nat, NEW d \in Nat, NEW w \in Nat \ {0}, d < w
  PROVE  /\ ((n % w) + d) % w = (n + d) % w
         /\ (IF n % w > w - 1 - d THEN (((n \div w) % w) + 1) % w ELSE (n \div w) % w)
              = ((n + d) \div w) % w
<1>1. PICK q \in Nat, r \in 0..(w - 1) : q = n \div w /\ r = n % w /\ n = w * q + r
  BY DivMod
<1>2. PICK p \in Nat : p = w * q
  OBVIOUS
<1>3. PICK m \in Nat, c \in Nat : m = n + d /\ c = r + d
  OBVIOUS
<1>4. m = p + c
  BY <1>1, <1>2, <1>3
<1>5. CASE c < w
  <2>1. c \in 0..(w - 1)
    BY <1>5
  <2>2. m \div w = q /\ m % w = c
    BY <1>2, <1>4, <2>1, DivUnique
  <2>3. c = w * 0 + c
    OBVIOUS
  <2>4. c % w = c
    BY <2>1, <2>3, DivUnique
  <2>5. ~(r > w - 1 - d)
    BY <1>3, <1>5
  <2> QED  BY <1>1, <1>3, <2>2, <2>4, <2>5
<1>6. CASE ~(c < w)
  <2>1. PICK e \in 0..(w - 1) : c = w + e
    <3>1. c - w \in 0..(w - 1) /\ c = w + (c - w)
      BY <1>3, <1>6
    <3> QED  BY <3>1
  <2>2. PICK o \in Nat : o = q + 1
    OBVIOUS
  <2>3. w * o = p + w
    BY <1>2, <2>2
  <2>4. m = w * o + e
    BY <1>4, <2>1, <2>3
  <2>5. m \div w = o /\ m % w = e
    BY <2>4, DivUnique
  <2>6. c = w * 1 + e
    BY <2>1
  <2>7. c % w = e
    BY <2>6, DivUnique
  <2>8. r > w - 1 - d
    BY <1>3, <1>6
  <2>9. ((q % w) + 1) % w = o % w
    BY <2>2, NextInWord
  <2> QED  BY <1>1, <1>3, <2>5, <2>7, <2>8, <2>9
<1> QED  BY <1>5, <1>6

Ctx(b, n, h) == [buf |-> b, bits |-> Count(n), hash |-> h]

LEMMA AddBits ==
  ASSUME NEW b, NEW h, NEW n \in Nat, NEW d \in Nat, d < WORD
  PROVE  _addbits(Ctx(b, n, h), d) = Ctx(b, n + d, h)
<1>1. PICK w \in Nat \ {0} : w = WORD
  BY WordIs
<1>2. PICK x, y : x = n % w /\ y = (n \div w) % w
  OBVIOUS
<1>3. /\ (x + d) % w = (n + d) % w
      /\ (IF x > w - 1 - d THEN (y + 1) % w ELSE y) = ((n + d) \div w) % w
  <2>1. d < w
    BY <1>1
  <2> QED  BY <1>2, <2>1, Carried
<1>4. Ctx(b, n, h) = [buf |-> b, bits |-> <<x, y>>, hash |-> h]
  BY <1>1, <1>2 DEF Ctx, Count
<1>5. _addbits(Ctx(b, n, h), d)
        = [buf |-> b, bits |-> <<(x + d) % w, IF x > w - 1 - d THEN (y + 1) % w ELSE y>>, hash |-> h]
  BY <1>1, <1>4 DEF _addbits
<1>6. Ctx(b, n + d, h)
        = [buf |-> b, bits |-> <<(n + d) % w, ((n + d) \div w) % w>>, hash |-> h]
  BY <1>1 DEF Ctx, Count
<1> QED  BY <1>3, <1>5, <1>6

Octet == 0..255

LEMMA BytesAre ==
  ASSUME NEW z \in Nat
  PROVE  /\ Bytes(z) \in Seq(Octet) /\ Len(Bytes(z)) = WordBytes
         /\ \A k \in 1..WordBytes : Bytes(z)[k] = (z \div Span[WordBytes - k]) % 256
<1>1. PICK w \in Nat \ {0} : w = WordBytes
  BY Sha256Assumption
<1>2. Bytes(z) = [k \in 1..w |-> (z \div Span[w - k]) % 256]
  BY <1>1 DEF Bytes
<1>3. ASSUME NEW k \in 1..w PROVE (z \div Span[w - k]) % 256 \in Octet
  <2>1. w - k \in 0..(2 * WordBytes)
    BY <1>1
  <2>2. PICK a \in Nat \ {0} : a = Span[w - k]
    BY <2>1, SpanType
  <2>3. PICK u \in Nat : u = z \div a
    BY DivMod
  <2>4. u % 256 \in Octet
    BY DEF Octet
  <2> QED  BY <2>2, <2>3, <2>4
<1> DEFINE g == [k \in 1..w |-> (z \div Span[w - k]) % 256]
<1>4. g \in [1..w -> Octet]
  BY <1>3
<1>5. \A k \in 1..w : g[k] = (z \div Span[w - k]) % 256
  OBVIOUS
<1> HIDE DEF g
<1>6. g \in Seq(Octet) /\ Len(g) = w
  BY <1>4
<1> QED  BY <1>1, <1>2, <1>5, <1>6 DEF g

LEMMA CountBytes ==
  ASSUME NEW n \in Nat
  PROVE  Bytes(Count(n)[1]) \in Seq(Octet) /\ Bytes(Count(n)[2]) \in Seq(Octet)
<1>1. PICK v \in Nat \ {0} : v = WORD
  BY WordIs
<1>2. PICK q \in Nat, x \in 0..(v - 1) : q = n \div v /\ x = n % v
  BY DivMod
<1>3. PICK y \in 0..(v - 1) : y = q % v
  BY DivMod
<1>4. Count(n)[1] = x /\ Count(n)[2] = y /\ x \in Nat /\ y \in Nat
  BY <1>1, <1>2, <1>3 DEF Count
<1> QED  BY <1>4, BytesAre

\* The last bytes of a message are those of the count, the higher word first.
LEMMA CountSpelled ==
  ASSUME NEW n \in Nat
  PROVE  Bytes(Count(n)[2]) \o Bytes(Count(n)[1]) = Length(n)
<1>1. PICK w \in Nat \ {0} : w = WordBytes
  BY Sha256Assumption
<1>2. PICK v \in Nat \ {0} : v = WORD /\ v = Span[w]
  BY <1>1, WordIs DEF WORD
<1>3. PICK x \in Nat, y \in Nat, q \in Nat : x = n % v /\ q = n \div v /\ y = q % v
  <2>1. PICK q \in Nat, x \in 0..(v - 1) : q = n \div v /\ x = n % v
    BY DivMod
  <2>2. PICK y \in 0..(v - 1) : y = q % v
    BY DivMod
  <2>3. x \in Nat /\ y \in Nat
    OBVIOUS
  <2> QED  BY <2>1, <2>2, <2>3
<1>4. Count(n)[1] = x /\ Count(n)[2] = y
  BY <1>2, <1>3 DEF Count
<1>5. ASSUME NEW z \in Nat
      PROVE  /\ Bytes(z) \in Seq(0..255) /\ Len(Bytes(z)) = w
             /\ \A k \in 1..w : Bytes(z)[k] = (z \div Span[w - k]) % 256
  BY <1>1, BytesAre DEF Octet
<1>6. ASSUME NEW k \in 1..w
      PROVE  /\ (x \div Span[w - k]) % 256 = (n \div Span[w - k]) % 256
             /\ (y \div Span[w - k]) % 256 = (n \div Span[2 * w - k]) % 256
  <2>1. /\ w - k \in 0..(2 * WordBytes) /\ k - 1 \in 0..(2 * WordBytes)
        /\ k \in 1..(2 * WordBytes) /\ (w - k) + k = w /\ (w - k) + w = 2 * w - k
        /\ w - k \in Nat /\ w \in 0..(2 * WordBytes) /\ (w - k) + w <= 2 * WordBytes
    BY <1>1
  <2>2. PICK a \in Nat \ {0}, c \in Nat \ {0} : a = Span[w - k] /\ c = Span[k - 1]
    BY <2>1, SpanType
  <2>3. Span[k] = 256 * c
    BY <2>1, <2>2, SpanStep
  <2>4. v = a * (256 * c)
    <3>1. Span[w] = Span[w - k] * Span[k]
      <4>1. k \in Nat /\ w - k \in Nat /\ (w - k) + k <= 2 * WordBytes
        BY <1>1
      <4>2. Span[(w - k) + k] = Span[w - k] * Span[k]
        BY <4>1, SpanSum
      <4> QED  BY <2>1, <4>2
    <3> QED  BY <1>2, <2>2, <2>3, <3>1
  <2>5. Above(v, a, c)
    BY <2>4 DEF Above
  <2>6. /\ (x \div a) % 256 = (n \div a) % 256
        /\ (y \div a) % 256 = (q \div a) % 256
    <3>1. SameDigit(n % v, n, a) /\ SameDigit(q % v, q, a)
      BY <2>5, DigitOfRest
    <3> QED  BY <1>3, <3>1 DEF SameDigit
  <2>7. Span[2 * w - k] = v * a
    <3>1. Span[(w - k) + w] = Span[w - k] * Span[w]
      BY <2>1, SpanSum
    <3>2. a * v = v * a
      OBVIOUS
    <3> QED  BY <1>2, <2>1, <2>2, <3>1, <3>2
  <2>8. q \div a = n \div (v * a)
    BY <1>3, DivDiv
  <2> QED  BY <2>2, <2>6, <2>7, <2>8
<1>7. PICK hi \in Seq(0..255), lo \in Seq(0..255) : hi = Bytes(y) /\ lo = Bytes(x)
  BY <1>5
<1>8. /\ Len(hi) = w /\ Len(lo) = w
      /\ \A k \in 1..w : hi[k] = (n \div Span[2 * w - k]) % 256
      /\ \A k \in 1..w : lo[k] = (n \div Span[w - k]) % 256
  BY <1>5, <1>6, <1>7
<1>9. PICK t : t = hi \o lo
  OBVIOUS
<1>10. /\ t \in Seq(0..255) /\ Len(t) = 2 * w
       /\ \A k \in 1..(2 * w) : t[k] = IF k <= w THEN hi[k] ELSE lo[k - w]
  <2>1. /\ t \in Seq(0..255) /\ Len(t) = Len(hi) + Len(lo)
        /\ \A k \in 1..(Len(hi) + Len(lo)) :
              t[k] = IF k <= Len(hi) THEN hi[k] ELSE lo[k - Len(hi)]
    <3> DEFINE S == 0..255
    <3> HIDE DEF S
    <3>1. hi \in Seq(S) /\ lo \in Seq(S)
      BY DEF S
    <3>2. /\ t \in Seq(S) /\ Len(t) = Len(hi) + Len(lo)
          /\ \A k \in 1..(Len(hi) + Len(lo)) :
                t[k] = IF k <= Len(hi) THEN hi[k] ELSE lo[k - Len(hi)]
      BY <1>9, <3>1, ConcatProperties
    <3> QED  BY <3>2 DEF S
  <2>2. w + w = 2 * w
    OBVIOUS
  <2> QED  BY <1>8, <2>1, <2>2
<1>11. ASSUME NEW k \in 1..(2 * w) PROVE t[k] = (n \div Span[2 * w - k]) % 256
  <2>1. CASE k <= w
    <3>1. k \in 1..w
      BY <2>1
    <3> QED  BY <1>8, <1>10, <2>1, <3>1
  <2>2. CASE ~(k <= w)
    <3>1. k - w \in 1..w /\ w - (k - w) = 2 * w - k
      BY <2>2
    <3>2. t[k] = lo[k - w]
      BY <1>10, <2>2
    <3>3. lo[k - w] = (n \div Span[w - (k - w)]) % 256
      BY <1>8, <3>1
    <3> QED  BY <3>1, <3>2, <3>3
  <2> QED  BY <2>1, <2>2
<1>12. t = [k \in 1..(2 * w) |-> (n \div Span[2 * w - k]) % 256]
  <2>1. t = [k \in 1..(2 * w) |-> t[k]]
    BY <1>10
  <2> QED  BY <1>11, <2>1
<1> QED  BY <1>1, <1>4, <1>7, <1>9, <1>12 DEF Length

-----------------------------------------------------------------------------
(* Zeros, and beginnings of sequences *)

LEMMA ZerosAre ==
  ASSUME NEW n \in Nat
  PROVE  Zeros(n) \in Seq(Octet) /\ Len(Zeros(n)) = n /\ \A k \in 1..n : Zeros(n)[k] = 0
<1>1. PICK z \in Octet : z = 0
  BY DEF Octet
<1>2. Zeros(n) = [k \in 1..n |-> z]
  BY <1>1 DEF Zeros
<1> DEFINE f == [k \in 1..n |-> z]
<1>3. f \in Seq(Octet) /\ Len(f) = n
  OBVIOUS
<1>4. \A k \in 1..n : f[k] = z
  OBVIOUS
<1> HIDE DEF f
<1> QED  BY <1>1, <1>2, <1>3, <1>4 DEF f

ZerosAdd(a, b) == Zeros(a) \o Zeros(b) = Zeros(a + b)

LEMMA ZerosTogether ==
  ASSUME NEW a \in Nat, NEW b \in Nat
  PROVE  ZerosAdd(a, b)
<1>0. PICK c \in Nat : c = a + b
  OBVIOUS
<1>1. PICK x \in Seq(Octet), y \in Seq(Octet), z \in Seq(Octet) :
        x = Zeros(a) /\ y = Zeros(b) /\ z = Zeros(c)
  BY ZerosAre
<1>2. /\ Len(x) = a /\ Len(y) = b /\ Len(z) = c
      /\ \A k \in 1..a : x[k] = 0
      /\ \A k \in 1..b : y[k] = 0
      /\ \A k \in 1..c : z[k] = 0
  BY <1>1, ZerosAre
<1>3. PICK t : t = x \o y
  OBVIOUS
<1>4. /\ t \in Seq(Octet) /\ Len(t) = a + b
      /\ \A k \in 1..(a + b) : t[k] = IF k <= a THEN x[k] ELSE y[k - a]
  BY <1>2, <1>3, ConcatProperties
<1>5. ASSUME NEW k \in 1..(a + b) PROVE t[k] = z[k]
  <2>1. k <= a => k \in 1..a
    OBVIOUS
  <2>2. ~(k <= a) => k - a \in 1..b
    OBVIOUS
  <2> QED  BY <1>0, <1>2, <1>4, <2>1, <2>2
<1>6. t = z
  BY <1>0, <1>2, <1>4, <1>5, SeqEqual
<1> QED  BY <1>0, <1>1, <1>3, <1>6 DEF ZerosAdd

Grouped(sq, t, u) == (sq \o t) \o u = sq \o (t \o u)

LEMMA Grouping ==
  ASSUME NEW S, NEW sq \in Seq(S), NEW t \in Seq(S), NEW u \in Seq(S)
  PROVE  Grouped(sq, t, u)
BY ConcatAssociative DEF Grouped

LEMMA ConcatType ==
  ASSUME NEW S, NEW sq \in Seq(S), NEW t \in Seq(S)
  PROVE  sq \o t \in Seq(S) /\ Len(sq \o t) = Len(sq) + Len(t)
BY ConcatProperties

LEMMA Beginning ==
  ASSUME NEW S, NEW sq \in Seq(S), NEW t \in Seq(S), NEW n \in Nat, n = Len(sq)
  PROVE  SubSeq(sq \o t, 1, n) = sq
<1>1. PICK r : r = sq \o t
  OBVIOUS
<1>2. r \in Seq(S) /\ Len(r) = n + Len(t) /\ \A k \in 1..n : r[k] = sq[k]
  <2>1. \A k \in 1..(Len(sq) + Len(t)) : r[k] = IF k <= Len(sq) THEN sq[k] ELSE t[k - Len(sq)]
    BY <1>1, ConcatProperties
  <2>2. \A k \in 1..n : k \in 1..(Len(sq) + Len(t)) /\ k <= Len(sq)
    OBVIOUS
  <2> QED  BY <1>1, <2>1, <2>2, ConcatProperties
<1>3. PICK u : u = SubSeq(r, 1, n)
  OBVIOUS
<1>4. u \in Seq(S) /\ Len(u) = n /\ \A k \in 1..n : u[k] = r[k]
  BY <1>2, <1>3
<1>5. u = sq
  BY <1>2, <1>4, SeqEqual
<1> QED  BY <1>1, <1>3, <1>5

LEMMA BeginningType ==
  ASSUME NEW S, NEW sq \in Seq(S), NEW n \in Nat, n <= Len(sq)
  PROVE  SubSeq(sq, 1, n) \in Seq(S)
<1>1. Len(sq) \in Nat
  OBVIOUS
<1> QED  BY <1>1

LEMMA OneElement ==
  ASSUME NEW S, NEW sq \in Seq(S), NEW n \in 1..Len(sq)
  PROVE  SubSeq(sq, n, n) = <<sq[n]>>
<1>1. n \in Nat /\ sq[n] \in S
  BY ElementOfSeq, LenProperties
<1>2. PICK t : t = SubSeq(sq, n, n)
  OBVIOUS
<1>3. \A k \in n..n : sq[k] \in S
  BY <1>1
<1>4. /\ t \in Seq(S)
      /\ Len(t) = IF n <= n THEN n - n + 1 ELSE 0
      /\ \A k \in 1..(n - n + 1) : t[k] = sq[n + k - 1]
  BY <1>1, <1>2, <1>3, SubSeqProperties
<1>5. Len(t) = 1 /\ t[1] = sq[n]
  BY <1>1, <1>4
<1>6. PICK u \in Seq(S) : u = <<sq[n]>> /\ Len(u) = 1 /\ u[1] = sq[n]
  <2>1. PICK e \in S : e = sq[n]
    BY <1>1
  <2>2. <<e>> \in Seq(S) /\ Len(<<e>>) = 1 /\ <<e>>[1] = e
    OBVIOUS
  <2> QED  BY <2>1, <2>2
<1>7. t = u
  BY <1>4, <1>5, <1>6, SeqEqual
<1> QED  BY <1>2, <1>6, <1>7

-----------------------------------------------------------------------------
(* The message, cut into blocks *)

\* m has gone in: whole blocks of it have been hashed and counted, and less than
\* a block is left.
Cut(ctx, m, b, h) ==
  /\ b \in Seq(Octet) /\ h \in Seq(Seq(Octet))
  /\ ctx = Ctx(b, (8 * BLOCK) * Len(h), h)
  /\ Len(b) < BLOCK
  /\ \A k \in 1..Len(h) : Len(h[k]) = BLOCK
  /\ m = FlattenSeq(h) \o b
  /\ Len(m) = BLOCK * Len(h) + Len(b)

HasGoneIn(ctx, m) == \E b, h : Cut(ctx, m, b, h)

AllWhole(h) == \A k \in 1..Len(h) : Len(h[k]) = BLOCK

LEMMA OneMoreWhole ==
  ASSUME NEW h \in Seq(Seq(Octet)), AllWhole(h), NEW x \in Seq(Octet), Len(x) = BLOCK
  PROVE  AllWhole(Append(h, x))
<1>1. PICK g \in Seq(Seq(Octet)), n \in Nat :
        /\ g = Append(h, x) /\ n = Len(h) /\ Len(g) = n + 1
        /\ g[n + 1] = x /\ \A k \in 1..n : g[k] = h[k]
  <2>1. PICK n \in Nat : n = Len(h)
    BY LenProperties
  <2>2. PICK g : g = Append(h, x)
    OBVIOUS
  <2>3. /\ g \in Seq(Seq(Octet)) /\ Len(g) = n + 1
        /\ g[n + 1] = x /\ \A k \in 1..n : g[k] = h[k]
    BY <2>1, <2>2, AppendProperties
  <2> QED  BY <2>1, <2>2, <2>3
<1>2. ASSUME NEW k \in 1..(n + 1) PROVE Len(g[k]) = BLOCK
  <2>1. CASE k \in 1..n
    BY <1>1, <2>1 DEF AllWhole
  <2>2. CASE k = n + 1
    BY <1>1, <2>2
  <2> QED  BY <2>1, <2>2
<1> QED  BY <1>1, <1>2 DEF AllWhole

LEMMA BlockIs == BLOCK \in Nat /\ BLOCK * 8 < WORD /\ BLOCK > 2 * WordBytes /\ WordBytes \in Nat
BY Sha256Assumption

LEMMA FlattenNone == FlattenSeq(<<>>) = <<>>
<1>1. Len(<<>>) = 0
  OBVIOUS
<1> QED  BY <1>1, FlattenSeqIs

LEMMA NothingYet == HasGoneIn(sha256_init, <<>>)
<1>1. PICK B \in Nat : B = BLOCK /\ B > 0
  BY BlockIs
<1>2. PICK w \in Nat \ {0} : w = WORD
  BY WordIs
<1>3. PICK e : e = <<>> /\ e \in Seq(Octet) /\ e \in Seq(Seq(Octet)) /\ Len(e) = 0
  BY EmptySeq
<1>4. 0 \div w = 0 /\ 0 % w = 0
  <2>1. 0 = w * 0 + 0 /\ 0 \in 0..(w - 1)
    OBVIOUS
  <2> QED  BY <2>1, DivUnique
<1>5. Count(0) = <<0, 0>>
  BY <1>2, <1>4 DEF Count
<1>6. FlattenSeq(e) \o e = e
  <2>1. FlattenSeq(e) = e
    BY <1>3, FlattenNone
  <2> QED  BY <1>3, <2>1, ConcatEmptySeq
<1>7. (8 * BLOCK) * Len(e) = 0 /\ BLOCK * Len(e) + Len(e) = 0
  BY <1>1, <1>3
<1>8. sha256_init = Ctx(e, 0, e)
  BY <1>3, <1>5 DEF sha256_init, Ctx
<1>9. Cut(sha256_init, e, e, e)
  BY <1>1, <1>3, <1>6, <1>7, <1>8 DEF Cut
<1> QED  BY <1>3, <1>9 DEF HasGoneIn

LEMMA HashByteKeeps ==
  ASSUME NEW ctx, NEW m, HasGoneIn(ctx, m), NEW x \in Octet
  PROVE  HasGoneIn(HashByte(ctx, x), Append(m, x))
<1>1. PICK b, h : Cut(ctx, m, b, h)
  BY DEF HasGoneIn
<1>2. PICK B \in Nat \ {0} : B = BLOCK /\ B * 8 < WORD
  BY BlockIs
<1>3. b \in Seq(Octet) /\ h \in Seq(Seq(Octet)) /\ FlattenSeq(h) \in Seq(Octet)
  BY <1>1, FlattenSeqType DEF Cut
<1>4. PICK l \in Nat, n \in Nat : l = Len(b) /\ n = Len(h) /\ l < B
  BY <1>1, <1>2, <1>3, LenProperties DEF Cut
<1>5. PICK c \in Seq(Octet) : c = Append(b, x) /\ Len(c) = l + 1
  BY <1>3, <1>4, AppendProperties
<1>6. PICK F \in Seq(Octet) : F = FlattenSeq(h)
  BY <1>3
<1>7. /\ m = F \o b /\ m \in Seq(Octet)
      /\ Append(m, x) = F \o c
      /\ Len(Append(m, x)) = Len(m) + 1
  <2>1. m = F \o b
    BY <1>1, <1>6 DEF Cut
  <2>2. m \in Seq(Octet)
    BY <1>3, <2>1, ConcatProperties
  <2>3. Append(m, x) = F \o c
    <3>1. F \o Append(b, x) = Append(F \o b, x)
      BY <1>3, <1>6, ConcatAppend
    <3> QED  BY <1>5, <2>1, <3>1
  <2> QED  BY <2>1, <2>2, <2>3, AppendProperties
<1>8. Len(Append(m, x)) = B * n + (l + 1)
  <2>1. B * n \in Nat
    OBVIOUS
  <2>2. Len(m) = B * n + l
    BY <1>1, <1>2, <1>4 DEF Cut
  <2> QED  BY <1>7, <2>1, <2>2
<1>9. PICK N \in Nat : N = (8 * B) * n
  OBVIOUS
<1>10. ctx = Ctx(b, N, h)
  BY <1>1, <1>2, <1>4, <1>9 DEF Cut
<1>11. CASE l + 1 < B
  <2>1. HashByte(ctx, x) = Ctx(c, N, h)
    BY <1>2, <1>5, <1>10, <1>11 DEF HashByte, Ctx
  <2>2. \A k \in 1..Len(h) : Len(h[k]) = BLOCK
    BY <1>1 DEF Cut
  <2>3. Cut(HashByte(ctx, x), Append(m, x), c, h)
    BY <1>2, <1>3, <1>4, <1>5, <1>6, <1>7, <1>8, <1>9, <1>11, <2>1, <2>2 DEF Cut
  <2> QED  BY <2>3 DEF HasGoneIn
<1>12. CASE ~(l + 1 < B)
  <2>1. PICK g \in Seq(Seq(Octet)) : g = Append(h, c) /\ Len(g) = n + 1
    BY <1>3, <1>4, <1>5, AppendProperties
  <2>2. PICK e \in Seq(Octet) : e = <<>> /\ Len(e) = 0
    BY EmptySeq
  <2>3. _hash(ctx, c) = Ctx(b, N, g)
    <3>1. ctx.hash = h
      BY <1>10 DEF Ctx
    <3>2. _hash(ctx, c) = [ctx EXCEPT !.hash = g]
      BY <2>1, <3>1 DEF _hash
    <3> QED  BY <1>10, <3>2 DEF Ctx
  <2>4. PICK d \in Nat : d = B * 8
    OBVIOUS
  <2>5. _addbits(Ctx(b, N, g), d) = Ctx(b, N + d, g)
    BY <1>2, <2>4, AddBits
  <2>6. HashByte(ctx, x) = [_addbits(_hash(ctx, c), d) EXCEPT !.buf = <<>>]
    <3>1. ctx.buf = b
      BY <1>10 DEF Ctx
    <3>2. ~(Len(c) < BLOCK)
      BY <1>2, <1>5, <1>12
    <3> QED  BY <1>2, <1>5, <2>4, <3>1, <3>2 DEF HashByte
  <2>7. HashByte(ctx, x) = Ctx(e, N + d, g)
    <3>1. HashByte(ctx, x) = [Ctx(b, N + d, g) EXCEPT !.buf = e]
      BY <2>2, <2>3, <2>5, <2>6
    <3> QED  BY <3>1 DEF Ctx
  <2>8. N + d = (8 * B) * (n + 1)
    BY <1>9, <2>4
  <2>9. FlattenSeq(g) \o e = Append(m, x)
    <3>1. FlattenSeq(g) = F \o c
      BY <1>3, <1>5, <1>6, <2>1, FlattenSeqAppend
    <3>2. F \o c \in Seq(Octet)
      BY <1>5, <1>6, ConcatProperties
    <3>3. (F \o c) \o e = F \o c
      BY <2>2, <3>2, ConcatEmptySeq
    <3> QED  BY <1>7, <3>1, <3>3
  <2>10. ASSUME NEW k \in 1..(n + 1) PROVE Len(g[k]) = BLOCK
    <3>1. CASE k <= n
      <4>1. k \in 1..Len(h) /\ g[k] = h[k]
        BY <1>3, <1>4, <1>5, <2>1, <3>1, AppendProperties
      <4> QED  BY <1>1, <4>1 DEF Cut
    <3>2. CASE k = n + 1
      <4>1. g[k] = c
        BY <1>3, <1>4, <1>5, <2>1, <3>2, AppendProperties
      <4>2. l + 1 = B
        BY <1>4, <1>12
      <4> QED  BY <1>2, <1>5, <4>1, <4>2
    <3> QED  BY <3>1, <3>2
  <2>11. Len(Append(m, x)) = B * (n + 1) + 0
    <3>1. l + 1 = B /\ B * (n + 1) = B * n + B
      BY <1>4, <1>12
    <3>2. B * n \in Nat
      OBVIOUS
    <3> QED  BY <1>8, <3>1, <3>2
  <2>12. HashByte(ctx, x) = Ctx(e, (8 * BLOCK) * Len(g), g)
    BY <1>2, <2>1, <2>7, <2>8
  <2>13. Cut(HashByte(ctx, x), Append(m, x), e, g)
    BY <1>2, <2>1, <2>2, <2>9, <2>10, <2>11, <2>12 DEF Cut
  <2> QED  BY <2>13 DEF HasGoneIn
<1> QED  BY <1>11, <1>12

\* f[n] is where n bytes of d have led.
Hashing(ctx, d, f) ==
  f = [n \in 0..Len(d) |-> IF n = 0 THEN ctx ELSE HashByte(f[n - 1], d[n])]

LEMMA HashingExists ==
  ASSUME NEW ctx, NEW d, Len(d) \in Nat
  PROVE  \E f : Hashing(ctx, d, f)
<1> DEFINE Right(f, k) == \A n \in 0..k : f[n] = IF n = 0 THEN ctx ELSE HashByte(f[n - 1], d[n])
           S == {k \in Nat : \E f : Right(f, k)}
<1>0. PICK l \in Nat : l = Len(d)
  OBVIOUS
<1>1. 0 \in S
  <2> DEFINE g == [n \in 0..0 |-> ctx]
  <2>1. Right(g, 0)
    OBVIOUS
  <2> QED  BY <2>1
<1>2. ASSUME NEW k \in Nat, k \in S PROVE k + 1 \in S
  <2>1. PICK f : Right(f, k)
    BY <1>2
  <2> DEFINE y == HashByte(f[k], d[k + 1])
             g == [n \in 0..(k + 1) |-> IF n <= k THEN f[n] ELSE y]
  <2> HIDE DEF y
  <2>2. ASSUME NEW n \in 0..(k + 1)
        PROVE  g[n] = IF n = 0 THEN ctx ELSE HashByte(g[n - 1], d[n])
    <3>1. CASE n <= k
      <4>1. g[n] = f[n] /\ (n # 0 => g[n - 1] = f[n - 1])
        BY <3>1
      <4> QED  BY <2>1, <3>1, <4>1
    <3>2. CASE n = k + 1
      <4>1. n # 0 /\ n - 1 = k /\ g[n] = y /\ g[k] = f[k]
        BY <3>2
      <4> HIDE DEF g
      <4> QED  BY <3>2, <4>1 DEF y
    <3> QED  BY <3>1, <3>2
  <2>3. Right(g, k + 1)
    BY <2>2
  <2> HIDE DEF g, Right
  <2> QED  BY <2>3
<1>3. l \in S
  <2> HIDE DEF S
  <2> QED  BY <1>1, <1>2, NatSetInduction
<1>4. PICK f : Right(f, l)
  BY <1>3
<1> DEFINE g == [n \in 0..l |-> f[n]]
<1>5. g = [n \in 0..l |-> IF n = 0 THEN ctx ELSE HashByte(g[n - 1], d[n])]
  <2>1. \A n \in 0..l : n # 0 => g[n - 1] = f[n - 1]
    OBVIOUS
  <2>2. g = [n \in 0..l |-> IF n = 0 THEN ctx ELSE HashByte(f[n - 1], d[n])]
    BY <1>4
  <2> HIDE DEF g
  <2> QED  BY <2>1, <2>2
<1> HIDE DEF g
<1>6. g = [n \in 0..Len(d) |-> IF n = 0 THEN ctx ELSE HashByte(g[n - 1], d[n])]
  BY <1>0, <1>5
<1> QED  BY <1>6, Zenon DEF Hashing

\* However a message is cut into calls, all of it goes in, in order.
LEMMA AllGoesIn ==
  ASSUME NEW ctx, NEW m \in Seq(Octet), HasGoneIn(ctx, m), NEW d \in Seq(Octet)
  PROVE  HasGoneIn(sha256_hash(ctx, d), m \o d)
<1>1. PICK l \in Nat : l = Len(d)
  BY LenProperties
<1>2. PICK f : Hashing(ctx, d, f) /\ sha256_hash(ctx, d) = f[l]
  <2> DEFINE g == CHOOSE h : Hashing(ctx, d, h)
  <2>1. sha256_hash(ctx, d) = g[Len(d)]
    BY Zenon DEF sha256_hash, Hashing
  <2>2. Hashing(ctx, d, g)
    BY <1>1, HashingExists
  <2> HIDE DEF g
  <2> QED  BY <1>1, <2>1, <2>2
<1>3. f = [n \in 0..l |-> IF n = 0 THEN ctx ELSE HashByte(f[n - 1], d[n])]
  BY <1>1, <1>2, Zenon DEF Hashing
<1>4. f[0] = ctx /\ \A n \in 1..l : f[n] = HashByte(f[n - 1], d[n])
  <2>1. \A n \in 0..l : f[n] = IF n = 0 THEN ctx ELSE HashByte(f[n - 1], d[n])
    BY <1>3
  <2> QED  BY <2>1
<1> DEFINE S == {n \in Nat : n <= l => HasGoneIn(f[n], m \o SubSeq(d, 1, n))}
<1>5. 0 \in S
  <2>1. SubSeq(d, 1, 0) = <<>>
    BY SubSeqEmpty
  <2>2. m \o <<>> = m
    BY ConcatEmptySeq
  <2> QED  BY <1>4, <2>1, <2>2
<1>6. ASSUME NEW n \in Nat, n \in S PROVE n + 1 \in S
  <2> SUFFICES ASSUME n + 1 <= l PROVE HasGoneIn(f[n + 1], m \o SubSeq(d, 1, n + 1))
    OBVIOUS
  <2>1. PICK x \in Octet : x = d[n + 1]
    <3>1. n + 1 \in 1..Len(d)
      BY <1>1
    <3> QED  BY <3>1, ElementOfSeq
  <2>2. PICK sq \in Seq(Octet) : sq = SubSeq(d, 1, n)
    <3>1. n <= Len(d)
      BY <1>1
    <3> QED  BY <3>1, BeginningType
  <2>3. SubSeq(d, 1, n + 1) = Append(sq, x)
    <3>1. SubSeq(d, 1, n) \o SubSeq(d, n + 1, n + 1) = SubSeq(d, 1, n + 1)
      BY <1>1, BeginningGrows
    <3>2. SubSeq(d, n + 1, n + 1) = <<x>>
      <4>1. n + 1 \in 1..Len(d)
        BY <1>1
      <4> QED  BY <2>1, <4>1, OneElement
    <3>3. sq \o <<x>> = Append(sq, x)
      BY <2>1, <2>2
    <3> QED  BY <2>2, <3>1, <3>2, <3>3
  <2>4. m \o Append(sq, x) = Append(m \o sq, x)
    BY <2>1, <2>2, ConcatAppend
  <2>5. HasGoneIn(f[n], m \o sq)
    <3>1. n <= l
      OBVIOUS
    <3> QED  BY <1>6, <2>2, <3>1
  <2>6. HasGoneIn(HashByte(f[n], x), Append(m \o sq, x))
    BY <2>5, HashByteKeeps
  <2>7. f[n + 1] = HashByte(f[n], x)
    <3>1. n + 1 \in 1..l /\ (n + 1) - 1 = n
      OBVIOUS
    <3> QED  BY <1>4, <2>1, <3>1
  <2> QED  BY <2>3, <2>4, <2>6, <2>7
<1>7. l \in S
  <2> HIDE DEF S
  <2> QED  BY <1>5, <1>6, NatSetInduction
<1>8. SubSeq(d, 1, l) = d
  BY <1>1, WholeSequence
<1>9. HasGoneIn(f[l], m \o SubSeq(d, 1, l))
  BY <1>7
<1> HIDE DEF S
<1> QED  BY <1>2, <1>8, <1>9

-----------------------------------------------------------------------------
(* The last blocks *)

\* The zeros between the end of n bytes and the count.
Gap(n) == CHOOSE z \in 0..(BLOCK - 1) : (n + 1 + z + 2 * WordBytes) % BLOCK = 0

LEMMA GapIs ==
  ASSUME NEW n \in Nat, NEW g \in 0..(BLOCK - 1), NEW q \in Nat,
         n + 1 + g + 2 * WordBytes = BLOCK * q
  PROVE  Gap(n) = g
<1>1. PICK B \in Nat \ {0}, a \in Nat : B = BLOCK /\ a = n + 1 + 2 * WordBytes
  BY BlockIs
<1>2. /\ \A z \in 0..(B - 1) : n + 1 + z + 2 * WordBytes = a + z
      /\ g \in 0..(B - 1) /\ a + g = B * q
  BY <1>1, BlockIs
<1>3. (a + g) % B = 0
  <2>1. PICK sq \in Nat : sq = a + g
    BY <1>2
  <2> QED  BY <1>2, <2>1, Multiples
<1>4. ASSUME NEW z \in 0..(B - 1), (a + z) % B = 0 PROVE z = g
  <2>1. PICK sq \in Nat : sq = a + z
    OBVIOUS
  <2>2. PICK p \in Nat : sq = B * p
    BY <1>4, <2>1, Multiples
  <2>3. PICK x \in Nat, y \in Nat : x = B * p /\ y = B * q
    OBVIOUS
  <2>4. x = a + z /\ y = a + g
    BY <1>2, <2>1, <2>2, <2>3
  <2>5. ~(p < q)
    <3> SUFFICES ASSUME p < q PROVE FALSE
      OBVIOUS
    <3>1. x + B <= y
      BY <2>3, Larger
    <3> QED  BY <1>2, <2>4, <3>1
  <2>6. ~(q < p)
    <3> SUFFICES ASSUME q < p PROVE FALSE
      OBVIOUS
    <3>1. y + B <= x
      BY <2>3, Larger
    <3> QED  BY <1>2, <2>4, <3>1
  <2>7. x = y
    BY <2>3, <2>5, <2>6
  <2> QED  BY <1>2, <2>4, <2>7
<1> DEFINE P(z) == (n + 1 + z + 2 * WordBytes) % BLOCK = 0
<1>5. \A z \in 0..(BLOCK - 1) : P(z) <=> z = g
  <2>1. ASSUME NEW z \in 0..(B - 1) PROVE P(z) <=> (a + z) % B = 0
    BY <1>1, <1>2
  <2> HIDE DEF P
  <2> QED  BY <1>1, <1>2, <1>3, <1>4, <2>1
<1>6. Gap(n) = CHOOSE z \in 0..(BLOCK - 1) : P(z)
  BY DEF Gap
<1> HIDE DEF P
<1> QED  BY <1>5, <1>6

\* What is left and the byte after it, filled with zeros, begins like that.
StartsWith(p, y, g) == SubSeq(p \o Zeros(y), 1, Len(p) + g) = p \o Zeros(g)

LEMMA StartOfFilled ==
  ASSUME NEW p \in Seq(Octet), NEW y \in Nat, NEW g \in Nat, g <= y
  PROVE  StartsWith(p, y, g)
<1>0. PICK l \in Nat, n \in Nat : l = Len(p) /\ n = l + g
  BY LenProperties
<1>1. PICK d \in Nat : y = g + d
  <2>1. y - g \in Nat /\ y = g + (y - g)
    OBVIOUS
  <2> QED  BY <2>1
<1>2. Zeros(g) \o Zeros(d) = Zeros(y)
  <2>1. ZerosAdd(g, d)
    BY ZerosTogether
  <2> QED  BY <1>1, <2>1 DEF ZerosAdd
<1>3. /\ Zeros(g) \in Seq(Octet) /\ Zeros(d) \in Seq(Octet) /\ Len(Zeros(g)) = g
  BY ZerosAre
<1>4. PICK r \in Seq(Octet) : r = p \o Zeros(g) /\ Len(r) = n
  <2>1. p \o Zeros(g) \in Seq(Octet) /\ Len(p \o Zeros(g)) = n
    BY <1>0, <1>3, ConcatType
  <2> QED  BY <2>1
<1>5. p \o Zeros(y) = r \o Zeros(d)
  <2>1. Grouped(p, Zeros(g), Zeros(d))
    BY <1>3, Grouping
  <2> QED  BY <1>2, <1>4, <2>1 DEF Grouped
<1>6. SubSeq(r \o Zeros(d), 1, n) = r
  BY <1>3, <1>4, Beginning
<1> QED  BY <1>0, <1>4, <1>5, <1>6 DEF StartsWith

LEMMA LengthType ==
  ASSUME NEW n \in Nat
  PROVE  Length(n) \in Seq(Octet) /\ Len(Length(n)) = 2 * WordBytes
<1>1. PICK w \in Nat : w = 2 * WordBytes
  BY BlockIs
<1> DEFINE f == [k \in 1..w |-> (n \div Span[w - k]) % 256]
<1>2. Length(n) = f
  BY <1>1 DEF Length
<1>3. ASSUME NEW k \in 1..w PROVE (n \div Span[w - k]) % 256 \in Octet
  <2>1. w - k \in 0..(2 * WordBytes)
    BY <1>1
  <2>2. PICK a \in Nat \ {0} : a = Span[w - k]
    BY <2>1, SpanType
  <2>3. PICK u \in Nat : u = n \div a
    BY DivMod
  <2>4. u % 256 \in Octet
    BY DEF Octet
  <2> QED  BY <2>2, <2>3, <2>4
<1>4. f \in [1..w -> Octet]
  BY <1>3
<1> HIDE DEF f
<1>5. f \in Seq(Octet) /\ Len(f) = w
  BY <1>4
<1> QED  BY <1>1, <1>2, <1>5

StartOf(sq, block) == sq = SubSeq(block, 1, BLOCK - 2 * WordBytes)

\* The two words of the count after the beginning of a block.
LEMMA LastBlockIs ==
  ASSUME NEW b, NEW h, NEW n \in Nat, NEW start, NEW sq \in Seq(Octet),
         StartOf(sq, start)
  PROVE  LastBlock(Ctx(b, n, h), start) = sq \o Length(n)
<1>1. PICK hi, lo : hi = Bytes(Count(n)[2]) /\ lo = Bytes(Count(n)[1])
  OBVIOUS
<1>2. hi \o lo = Length(n)
  BY <1>1, CountSpelled
<1>3. LastBlock(Ctx(b, n, h), start) = (sq \o hi) \o lo
  <2>1. Ctx(b, n, h).bits = Count(n)
    BY DEF Ctx
  <2> QED  BY <1>1, <2>1 DEF LastBlock, StartOf
<1>4. hi \in Seq(Octet) /\ lo \in Seq(Octet)
  BY <1>1, CountBytes
<1>5. Grouped(sq, hi, lo)
  BY <1>4, Grouping
<1> QED  BY <1>2, <1>3, <1>5 DEF Grouped

LEMMA WholeBlocks ==
  ASSUME NEW h \in Seq(Seq(Octet)), AllWhole(h)
  PROVE  \A k \in DOMAIN h : Len(h[k]) = BLOCK
<1>1. DOMAIN h = 1..Len(h)
  BY LenProperties
<1> QED  BY <1>1 DEF AllWhole

\* Both ways to end make the padded message of what has gone in, in whole blocks.
LEMMA DoneHashes ==
  ASSUME NEW ctx, NEW m \in Seq(Octet), HasGoneIn(ctx, m)
  PROVE  /\ \A k \in DOMAIN sha256_done(ctx) : Len(sha256_done(ctx)[k]) = BLOCK
         /\ FlattenSeq(sha256_done(ctx)) = PaddedMessage(m)
<1>1. PICK b, h : Cut(ctx, m, b, h)
  BY DEF HasGoneIn
<1>2. PICK B \in Nat \ {0}, w \in Nat : /\ B = BLOCK /\ w = 2 * WordBytes
                                       /\ B * 8 < WORD /\ B > w
  BY BlockIs
<1>3. b \in Seq(Octet) /\ h \in Seq(Seq(Octet))
  BY <1>1 DEF Cut
<1>4. PICK l \in Nat, n \in Nat : l = Len(b) /\ n = Len(h) /\ l < B
  BY <1>1, <1>2, <1>3, LenProperties DEF Cut
<1>5. PICK F \in Seq(Octet) : F = FlattenSeq(h) /\ m = F \o b
  BY <1>1, <1>3, FlattenSeqType DEF Cut
<1>6. PICK t \in Nat : t = Len(m) /\ t = B * n + l
  BY <1>1, <1>2, <1>4, LenProperties DEF Cut
<1>7. PICK e \in Seq(Octet) : e = <<128>> /\ Len(e) = 1
  <2>1. PICK x \in Octet : x = 128
    BY DEF Octet
  <2>2. <<x>> \in Seq(Octet) /\ Len(<<x>>) = 1
    OBVIOUS
  <2> QED  BY <2>1, <2>2
<1>8. PICK p \in Seq(Octet) : p = b \o e /\ Len(p) = l + 1
  <2>1. b \o e \in Seq(Octet) /\ Len(b \o e) = l + 1
    BY <1>3, <1>4, <1>7, ConcatType
  <2> QED  BY <2>1
<1>9. PICK y \in Nat : y = B - l - 1
  <2>1. B - l - 1 \in Nat
    BY <1>4
  <2> QED  BY <2>1
<1>10. PICK filled \in Seq(Octet) :
         /\ filled = p \o Zeros(y) /\ Len(filled) = B
         /\ filled = ctx.buf \o <<128>> \o Zeros(BLOCK - Len(ctx.buf) - 1)
  <2>1. Zeros(y) \in Seq(Octet) /\ Len(Zeros(y)) = y
    BY ZerosAre
  <2>2. p \o Zeros(y) \in Seq(Octet) /\ Len(p \o Zeros(y)) = B
    <3>1. l + 1 + y = B
      BY <1>9
    <3>2. /\ p \o Zeros(y) \in Seq(Octet)
          /\ Len(p \o Zeros(y)) = Len(p) + Len(Zeros(y))
      BY <2>1, ConcatType
    <3> QED  BY <1>8, <2>1, <3>1, <3>2
  <2>3. ctx.buf = b
    BY <1>1 DEF Cut, Ctx
  <2> QED  BY <1>2, <1>4, <1>7, <1>8, <1>9, <2>2, <2>3
<1>11. PICK N \in Nat, d \in Nat : N = 8 * t /\ d = l * 8 /\ N = (8 * B) * n + d /\ d < WORD
  <2>1. 8 * t = (8 * B) * n + l * 8
    BY <1>6
  <2>2. l * 8 < B * 8
    BY <1>4
  <2>3. l * 8 < WORD
    BY <1>2, <2>2, WordIs
  <2> QED  BY <2>1, <2>3
<1>12. PICK M \in Nat : M = (8 * B) * n /\ M + d = N /\ ctx = Ctx(b, M, h)
  <2>1. PICK M \in Nat : M = (8 * B) * n
    OBVIOUS
  <2>2. ctx = Ctx(b, (8 * BLOCK) * Len(h), h)
    BY <1>1 DEF Cut
  <2> QED  BY <1>2, <1>4, <1>11, <2>1, <2>2
<1>13. ASSUME NEW H PROVE _addbits(Ctx(b, M, H), d) = Ctx(b, N, H)
  <2>0. d < WORD
    BY <1>11
  <2>1. _addbits(Ctx(b, M, H), d) = Ctx(b, M + d, H)
    BY <2>0, AddBits
  <2> QED  BY <1>12, <2>1
<1>14. PICK L \in Seq(Octet) : L = Length(N) /\ Len(L) = w
  BY <1>2, LengthType
<1>15. PaddedMessage(m) = ((m \o e) \o Zeros(Gap(t))) \o L
  BY <1>6, <1>7, <1>11, <1>14 DEF PaddedMessage, Gap, Length
<1>16. F \o p = m \o e
  <2>1. Grouped(F, b, e)
    BY <1>3, Grouping
  <2> QED  BY <1>5, <1>8, <2>1 DEF Grouped
<1>0. l < B /\ w < B
  BY <1>2, <1>4
<1>17. CASE l > B - w - 1
  <2>1. PICK z \in Nat : z = B - w
    <3>1. B - w \in Nat
      BY <1>2
    <3> QED  BY <3>1
  <2>2. PICK g \in 0..(B - 1) : g = y + z
    <3>1. y + z \in 0..(B - 1)
      <4>1. l > B - w - 1 /\ y = B - l - 1 /\ z = B - w
        BY <1>9, <1>17, <2>1
      <4> QED  BY <1>0, <4>1
    <3> QED  BY <3>1
  <2>3. Gap(t) = g
    <3>1. B * (n + 2) = B * n + B + B /\ B * n \in Nat
      OBVIOUS
    <3>2. t + 1 + g + w = B * (n + 2)
      BY <1>4, <1>6, <1>9, <2>1, <2>2, <3>1
    <3>3. n + 2 \in Nat
      OBVIOUS
    <3> QED  BY <1>2, <3>2, <3>3, GapIs
  <2>4. PICK H \in Seq(Seq(Octet)) : H = Append(h, filled)
    BY <1>3, <1>10, AppendProperties
  <2>5. SubSeq(Zeros(BLOCK), 1, BLOCK - 2 * WordBytes) = Zeros(z)
    <3>0. B = z + w
      BY <2>1
    <3>1. Zeros(z) \o Zeros(w) = Zeros(B)
      <4>1. ZerosAdd(z, w)
        BY ZerosTogether
      <4> QED  BY <3>0, <4>1 DEF ZerosAdd
    <3>2. Zeros(z) \in Seq(Octet) /\ Zeros(w) \in Seq(Octet) /\ z = Len(Zeros(z))
      BY ZerosAre
    <3>3. SubSeq(Zeros(z) \o Zeros(w), 1, z) = Zeros(z)
      BY <3>2, Beginning
    <3> QED  BY <1>2, <2>1, <3>1, <3>3
  <2>6. PICK Z \in Seq(Octet) : Z = Zeros(z) /\ Len(Z) = z
    BY <2>1, ZerosAre
  <2>7. sha256_done(ctx) = Append(H, Z \o L)
    <3>1. _hash(ctx, filled) = Ctx(b, M, H)
      <4>1. ctx.hash = h
        BY <1>12 DEF Ctx
      <4>2. _hash(ctx, filled) = [ctx EXCEPT !.hash = H]
        BY <2>4, <4>1 DEF _hash
      <4> QED  BY <1>12, <4>2 DEF Ctx
    <3>2. LastBlock(Ctx(b, N, H), Zeros(BLOCK)) = Z \o L
      <4>1. StartOf(Z, Zeros(BLOCK))
        BY <2>5, <2>6 DEF StartOf
      <4>2. LastBlock(Ctx(b, N, H), Zeros(BLOCK)) = Z \o Length(N)
        BY <4>1, LastBlockIs
      <4> QED  BY <1>14, <4>2
    <3>3. _hash(Ctx(b, N, H), Z \o L).hash = Append(H, Z \o L)
      BY DEF _hash, Ctx
    <3>4. sha256_done(ctx) = _hash(_addbits(_hash(ctx, filled), d), LastBlock(_addbits(_hash(ctx, filled), d), Zeros(BLOCK))).hash
      <4>1. Len(ctx.buf) = l
        BY <1>4, <1>12 DEF Ctx
      <4>2. l > BLOCK - 2 * WordBytes - 1
        BY <1>2, <1>17
      <4> QED  BY <1>10, <1>11, <4>1, <4>2 DEF sha256_done
    <3> QED  BY <1>13, <3>1, <3>2, <3>3, <3>4
  <2>8. FlattenSeq(Append(H, Z \o L)) = PaddedMessage(m)
    <3>1. FlattenSeq(H) = F \o filled
      BY <1>3, <1>5, <1>10, <2>4, FlattenSeqAppend
    <3>2. Z \o L \in Seq(Octet)
      BY <1>14, <2>6, ConcatType
    <3>3. FlattenSeq(Append(H, Z \o L)) = (F \o filled) \o (Z \o L)
      BY <2>4, <3>1, <3>2, FlattenSeqAppend
    <3>4. PICK Y \in Seq(Octet) : Y = Zeros(y)
      BY <1>9, ZerosAre
    <3>5. Y \o Z = Zeros(g)
      <4>1. ZerosAdd(y, z)
        BY ZerosTogether
      <4> QED  BY <2>2, <2>6, <3>4, <4>1 DEF ZerosAdd
    <3>6. PICK q \in Seq(Octet) : q = F \o p
      BY <1>5, <1>8, ConcatType
    <3>7. F \o filled = q \o Y
      <4>1. Grouped(F, p, Y)
        BY Grouping
      <4> QED  BY <1>10, <3>4, <3>6, <4>1 DEF Grouped
    <3>8. (q \o Y) \o (Z \o L) = ((q \o Y) \o Z) \o L
      <4>1. q \o Y \in Seq(Octet)
        BY <3>4, <3>6, ConcatType
      <4>2. Grouped(q \o Y, Z, L)
        BY <4>1, Grouping
      <4> QED  BY <4>2 DEF Grouped
    <3>9. (q \o Y) \o Z = q \o (Y \o Z)
      <4>1. Grouped(q, Y, Z)
        BY Grouping
      <4> QED  BY <4>1 DEF Grouped
    <3>10. PaddedMessage(m) = (q \o Zeros(g)) \o L
      BY <1>15, <1>16, <2>3, <3>6
    <3> QED  BY <3>3, <3>5, <3>7, <3>8, <3>9, <3>10
  <2>9. \A k \in DOMAIN Append(H, Z \o L) : Len(Append(H, Z \o L)[k]) = BLOCK
    <3>1. PICK x \in Seq(Octet) : x = Z \o L /\ Len(x) = B
      <4>1. Z \o L \in Seq(Octet) /\ Len(Z \o L) = z + w
        BY <1>14, <2>6, ConcatType
      <4>2. z + w = B
        BY <2>1
      <4> QED  BY <4>1, <4>2
    <3>2. AllWhole(h) /\ Len(filled) = BLOCK /\ Len(x) = BLOCK
      BY <1>1, <1>2, <1>10, <3>1 DEF AllWhole, Cut
    <3>3. AllWhole(H)
      BY <1>3, <1>10, <2>4, <3>2, OneMoreWhole
    <3>4. AllWhole(Append(H, x)) /\ Append(H, x) \in Seq(Seq(Octet))
      BY <2>4, <3>1, <3>2, <3>3, OneMoreWhole, AppendProperties
    <3> QED  BY <3>1, <3>4, WholeBlocks
  <2> QED  BY <2>7, <2>8, <2>9
<1>18. CASE ~(l > B - w - 1)
  <2>1. PICK g \in 0..(B - 1) : g = B - w - 1 - l
    <3>1. B - w - 1 - l \in 0..(B - 1)
      BY <1>2, <1>4, <1>18
    <3> QED  BY <3>1
  <2>2. Gap(t) = g
    <3>1. B * (n + 1) = B * n + B /\ B * n \in Nat
      OBVIOUS
    <3>2. t + 1 + g + w = B * (n + 1)
      BY <1>4, <1>6, <2>1, <3>1
    <3>3. n + 1 \in Nat
      OBVIOUS
    <3> QED  BY <1>2, <3>2, <3>3, GapIs
  <2>3. PICK Z \in Seq(Octet) : Z = Zeros(g) /\ Len(Z) = g
    <3>1. g \in Nat
      OBVIOUS
    <3> QED  BY <3>1, ZerosAre
  <2>4. PICK S \in Seq(Octet) : S = p \o Z /\ Len(S) = B - w
    <3>1. p \o Z \in Seq(Octet) /\ Len(p \o Z) = (l + 1) + g
      BY <1>8, <2>3, ConcatType
    <3>2. (l + 1) + g = B - w
      BY <2>1
    <3> QED  BY <3>1, <3>2
  <2>5. SubSeq(filled, 1, BLOCK - 2 * WordBytes) = S
    <3>1. B - w = (l + 1) + g /\ g <= y /\ g \in Nat /\ l + 1 \in Nat
      BY <1>9, <2>1
    <3>2. SubSeq(p \o Zeros(y), 1, B - w) = p \o Zeros(g)
      <4>1. StartsWith(p, y, g)
        BY <3>1, StartOfFilled
      <4> QED  BY <1>8, <3>1, <4>1 DEF StartsWith
    <3> QED  BY <1>2, <1>10, <2>3, <2>4, <3>2
  <2>6. sha256_done(ctx) = Append(h, S \o L)
    <3>1. LastBlock(Ctx(b, N, h), filled) = S \o L
      <4>1. StartOf(S, filled)
        BY <2>5 DEF StartOf
      <4>2. LastBlock(Ctx(b, N, h), filled) = S \o Length(N)
        BY <4>1, LastBlockIs
      <4> QED  BY <1>14, <4>2
    <3>2. _hash(Ctx(b, N, h), S \o L).hash = Append(h, S \o L)
      BY DEF _hash, Ctx
    <3>3. sha256_done(ctx) = _hash(_addbits(ctx, d), LastBlock(_addbits(ctx, d), filled)).hash
      <4>1. Len(ctx.buf) = l
        BY <1>4, <1>12 DEF Ctx
      <4>2. ~(l > BLOCK - 2 * WordBytes - 1)
        BY <1>2, <1>18
      <4> QED  BY <1>10, <1>11, <4>1, <4>2 DEF sha256_done
    <3> QED  BY <1>12, <1>13, <3>1, <3>2, <3>3
  <2>7. FlattenSeq(Append(h, S \o L)) = PaddedMessage(m)
    <3>1. S \o L \in Seq(Octet)
      BY <1>14, <2>4, ConcatType
    <3>2. FlattenSeq(Append(h, S \o L)) = F \o (S \o L)
      BY <1>3, <1>5, <3>1, FlattenSeqAppend
    <3>3. F \o (S \o L) = (F \o S) \o L
      <4>1. Grouped(F, S, L)
        BY Grouping
      <4> QED  BY <4>1 DEF Grouped
    <3>4. F \o S = (F \o p) \o Z
      <4>1. Grouped(F, p, Z)
        BY Grouping
      <4> QED  BY <2>4, <4>1 DEF Grouped
    <3>5. PaddedMessage(m) = ((F \o p) \o Z) \o L
      BY <1>15, <1>16, <2>2, <2>3
    <3> QED  BY <3>2, <3>3, <3>4, <3>5
  <2>8. \A k \in DOMAIN Append(h, S \o L) : Len(Append(h, S \o L)[k]) = BLOCK
    <3>1. PICK x \in Seq(Octet) : x = S \o L /\ Len(x) = B
      <4>1. S \o L \in Seq(Octet) /\ Len(S \o L) = (B - w) + w
        BY <1>14, <2>4, ConcatType
      <4>2. (B - w) + w = B
        OBVIOUS
      <4> QED  BY <4>1, <4>2
    <3>2. AllWhole(h) /\ Len(x) = BLOCK
      BY <1>1, <1>2, <3>1 DEF AllWhole, Cut
    <3>3. AllWhole(Append(h, x)) /\ Append(h, x) \in Seq(Seq(Octet))
      BY <1>3, <3>1, <3>2, OneMoreWhole, AppendProperties
    <3> QED  BY <3>1, <3>3, WholeBlocks
  <2> QED  BY <2>6, <2>7, <2>8
<1> QED  BY <1>17, <1>18

\* The hash of a line is taken over the padded message, in whole blocks
\* (sha256.c:201-253), for digests and chunks of any length.
THEOREM HashingPads == Spec => []HashesPaddedMessage
<1>1. RoundTrip => HashesPaddedMessage
  <2> SUFFICES ASSUME RoundTrip, NEW previous \in Previous
               PROVE  LET hash == LineHash(previous, back)
                      IN  /\ \A k \in DOMAIN hash : Len(hash[k]) = BLOCK
                          /\ FlattenSeq(hash) = PaddedMessage(previous \o back)
    BY DEF HashesPaddedMessage
  <2>1. previous \in Seq(Octet) /\ back \in Seq(Octet)
    BY PreviousAssumption DEF RoundTrip, Octet
  <2>2. PICK none \in Seq(Octet) : none = <<>>
    BY EmptySeq
  <2>3. none \o previous = previous
    BY <2>1, <2>2, ConcatEmptySeq
  <2>4. PICK first : first = sha256_hash(sha256_init, previous)
    OBVIOUS
  <2>5. HasGoneIn(first, previous)
    <3>1. HasGoneIn(sha256_init, none)
      BY <2>2, NothingYet
    <3>2. HasGoneIn(first, none \o previous)
      BY <2>1, <2>4, <3>1, AllGoesIn
    <3> QED  BY <2>3, <3>2
  <2>6. PICK all : all = sha256_hash(first, back)
    OBVIOUS
  <2>7. HasGoneIn(all, previous \o back)
    BY <2>1, <2>5, <2>6, AllGoesIn
  <2>8. previous \o back \in Seq(Octet)
    BY <2>1, ConcatType
  <2>9. LineHash(previous, back) = sha256_done(all)
    BY <2>4, <2>6 DEF LineHash
  <2>10. /\ \A k \in DOMAIN sha256_done(all) : Len(sha256_done(all)[k]) = BLOCK
         /\ FlattenSeq(sha256_done(all)) = PaddedMessage(previous \o back)
    BY <2>7, <2>8, DoneHashes
  <2> QED  BY <2>9, <2>10
<1> QED  BY <1>1, DecodingUndoes, PTL
=============================================================================
