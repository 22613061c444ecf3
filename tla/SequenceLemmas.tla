--------------------------- MODULE SequenceLemmas ---------------------------
(***************************************************************************)
(* Facts about sequences and numbers, for the proofs about the components: *)
(* prefixes, appended elements, and induction.                             *)
(***************************************************************************)
EXTENDS Integers, Sequences, SequencesExt, SequenceTheorems,
        FiniteSetTheorems, WellFoundedInduction, TLAPS

-----------------------------------------------------------------------------
(* Prefixes *)

\* The library defines prefixes by SubSeq; element by element is easier.
LEMMA PrefixPointwise ==
    ASSUME NEW S, NEW s \in Seq(S), NEW t \in Seq(S)
    PROVE  IsPrefix(s, t) <=> /\ Len(s) <= Len(t)
                              /\ \A i \in 1..Len(s) : s[i] = t[i]
BY DEF IsPrefix

LEMMA PrefixReflexive ==
    ASSUME NEW S, NEW s \in Seq(S)
    PROVE  IsPrefix(s, s)
BY PrefixPointwise

LEMMA EmptyIsPrefix ==
    ASSUME NEW S, NEW s \in Seq(S)
    PROVE  IsPrefix(<<>>, s)
<1>1. ASSUME NEW e \in Seq(S), Len(e) = 0
      PROVE  IsPrefix(e, s)
  BY <1>1 DEF IsPrefix
<1>2. <<>> \in Seq(S) /\ Len(<<>>) = 0
  OBVIOUS
<1> QED
  BY <1>1, <1>2

\* A prefix stays one when the sequence grows.
LEMMA PrefixOfLonger ==
    ASSUME NEW S, NEW s \in Seq(S), NEW t \in Seq(S), NEW x \in S,
           IsPrefix(s, t)
    PROVE  IsPrefix(s, Append(t, x))
<1> DEFINE u == Append(t, x)
<1>1. /\ u \in Seq(S)
      /\ Len(u) = Len(t) + 1
      /\ \A i \in 1..Len(t) : u[i] = t[i]
  BY AppendProperties
<1> HIDE DEF u
<1>2. /\ Len(s) <= Len(t)
      /\ \A i \in 1..Len(s) : s[i] = t[i]
  BY PrefixPointwise
<1>3. Len(s) \in Nat /\ Len(t) \in Nat
  OBVIOUS
<1>4. IsPrefix(s, u)
  BY <1>1, <1>2, <1>3, PrefixPointwise
<1> QED
  BY <1>4 DEF u

\* A prefix with one more element: the shorter one is a prefix too, and the
\* element is the one that follows it.
LEMMA AppendedPrefix ==
    ASSUME NEW S, NEW s \in Seq(S), NEW t \in Seq(S), NEW x \in S
    PROVE  IsPrefix(Append(s, x), t) <=> /\ IsPrefix(s, t)
                                         /\ Len(s) < Len(t)
                                         /\ t[Len(s) + 1] = x
<1>1. Append(s, x) \in Seq(S) /\ Len(Append(s, x)) = Len(s) + 1
  BY AppendProperties
<1>2. \A i \in 1..Len(s) : Append(s, x)[i] = s[i]
  BY AppendProperties
<1>3. Append(s, x)[Len(s) + 1] = x
  BY AppendProperties
<1>4. Len(s) \in Nat /\ Len(t) \in Nat
  OBVIOUS
<1>5. ASSUME IsPrefix(Append(s, x), t)
      PROVE  IsPrefix(s, t) /\ Len(s) < Len(t) /\ t[Len(s) + 1] = x
  <2>1. /\ Len(s) + 1 <= Len(t)
        /\ \A i \in 1..(Len(s) + 1) : Append(s, x)[i] = t[i]
    BY <1>1, <1>5, PrefixPointwise
  <2>2. \A i \in 1..Len(s) : s[i] = t[i]
    BY <2>1, <1>2, <1>4
  <2> QED
    BY <2>1, <2>2, <1>3, <1>4, PrefixPointwise
<1>6. ASSUME IsPrefix(s, t), Len(s) < Len(t), t[Len(s) + 1] = x
      PROVE  IsPrefix(Append(s, x), t)
  <2>1. \A i \in 1..Len(s) : s[i] = t[i]
    BY <1>6, PrefixPointwise
  <2>2. \A i \in 1..(Len(s) + 1) : Append(s, x)[i] = t[i]
    BY <2>1, <1>2, <1>3, <1>4, <1>6
  <2> DEFINE u == Append(s, x)
  <2>3. /\ u \in Seq(S)
        /\ Len(u) = Len(s) + 1
        /\ \A i \in 1..(Len(s) + 1) : u[i] = t[i]
    BY <2>2, <1>1
  <2> HIDE DEF u
  <2>4. IsPrefix(u, t)
    BY <2>3, <1>4, <1>6, PrefixPointwise
  <2> QED
    BY <2>4 DEF u
<1> QED
  BY <1>5, <1>6

LEMMA AppendIsInjective ==
    ASSUME NEW S, NEW s \in Seq(S), NEW t \in Seq(S), NEW x \in S, NEW y \in S,
           Append(s, x) = Append(t, y)
    PROVE  s = t /\ x = y
<1>1. Len(s) = Len(t)
  BY AppendProperties
<1>2. \A i \in 1..Len(s) : s[i] = t[i]
  BY <1>1, AppendProperties
<1>3. x = y
  BY <1>1, AppendProperties
<1> QED
  BY <1>1, <1>2, <1>3, SeqEqual

LEMMA AppendIsNotEmpty ==
    ASSUME NEW S, NEW s \in Seq(S), NEW x \in S
    PROVE  Append(s, x) # <<>>
BY AppendProperties

\* A prefix of the same length is the sequence itself.
LEMMA PrefixOfSameLength ==
    ASSUME NEW S, NEW s \in Seq(S), NEW t \in Seq(S),
           IsPrefix(s, t), Len(s) >= Len(t)
    PROVE  s = t
BY PrefixPointwise, SeqEqual

LEMMA ConcatAppend ==
    ASSUME NEW S, NEW s \in Seq(S), NEW t \in Seq(S), NEW x \in S
    PROVE  s \o Append(t, x) = Append(s \o t, x)
OBVIOUS

\* Removing an element leaves elements of the sequence only, in order: the
\* element at j was at j or at j + 1 before.
LEMMA RemoveAtProperties ==
    ASSUME NEW S, NEW s \in Seq(S), NEW i \in 1..Len(s)
    PROVE  /\ RemoveAt(s, i) \in Seq(S)
           /\ Len(RemoveAt(s, i)) = Len(s) - 1
           /\ \A j \in 1..(Len(s) - 1) :
                  RemoveAt(s, i)[j] = IF j < i THEN s[j] ELSE s[j + 1]
<1>1. /\ SubSeq(s, 1, i - 1) \in Seq(S)
      /\ Len(SubSeq(s, 1, i - 1)) = i - 1
      /\ \A j \in 1..(i - 1) : SubSeq(s, 1, i - 1)[j] = s[j]
  OBVIOUS
<1>2. /\ SubSeq(s, i + 1, Len(s)) \in Seq(S)
      /\ Len(SubSeq(s, i + 1, Len(s))) = Len(s) - i
      /\ \A j \in 1..(Len(s) - i) : SubSeq(s, i + 1, Len(s))[j] = s[i + j]
  OBVIOUS
<1> DEFINE a == SubSeq(s, 1, i - 1)
           b == SubSeq(s, i + 1, Len(s))
<1>3. RemoveAt(s, i) = a \o b
  BY DEF RemoveAt
<1> HIDE DEF a, b
<1>4. /\ a \in Seq(S) /\ Len(a) = i - 1 /\ \A j \in 1..(i - 1) : a[j] = s[j]
      /\ b \in Seq(S) /\ Len(b) = Len(s) - i
      /\ \A j \in 1..(Len(s) - i) : b[j] = s[i + j]
  BY <1>1, <1>2 DEF a, b
<1>5. /\ a \o b \in Seq(S)
      /\ Len(a \o b) = Len(a) + Len(b)
      /\ \A j \in 1..(Len(a) + Len(b)) :
            (a \o b)[j] = IF j <= Len(a) THEN a[j] ELSE b[j - Len(a)]
  BY <1>4, ConcatProperties
<1>6. ASSUME NEW j \in 1..(Len(s) - 1)
      PROVE  (a \o b)[j] = IF j < i THEN s[j] ELSE s[j + 1]
  <2>1. Len(s) \in Nat /\ i \in Nat /\ j \in Nat
    OBVIOUS
  <2>2. CASE j < i
    BY <1>4, <1>5, <2>1, <2>2
  <2>3. CASE ~(j < i)
    <3>1. j - (i - 1) \in 1..(Len(s) - i) /\ i + (j - (i - 1)) = j + 1
      BY <2>1, <2>3
    <3>2. (a \o b)[j] = b[j - (i - 1)]
      BY <1>4, <1>5, <2>1, <2>3
    <3> QED
      BY <1>4, <2>3, <3>1, <3>2
  <2> QED
    BY <2>2, <2>3
<1> QED
  BY <1>3, <1>4, <1>5, <1>6

-----------------------------------------------------------------------------
(* Induction *)

\* A set that holds 0 and, with each natural number, the next one, holds them
\* all: induction about a set, where an operator cannot be instantiated. Of
\* the intervals up to numbers outside the set none could be the smallest.
LEMMA NatSetInduction ==
  ASSUME NEW S, 0 \in S, \A n \in Nat : n \in S => n + 1 \in S
  PROVE  \A n \in Nat : n \in S
<1> SUFFICES ASSUME \E n \in Nat : n \notin S PROVE FALSE
  OBVIOUS
<1> DEFINE T == {0..n : n \in Nat \ S}
           R == StrictSubsetOrdering(Nat)
           F == FiniteSubsetsOf(Nat)
<1>1. IsWellFoundedOn(R, F)
  BY FS_StrictSubsetOrderingWellFounded
<1>2. T \subseteq F
  <2> SUFFICES ASSUME NEW n \in Nat PROVE 0..n \in F
    OBVIOUS
  <2>1. IsFiniteSet(0..n)
    BY FS_Interval
  <2> QED  BY <2>1 DEF FiniteSubsetsOf
<1>3. T # {}
  OBVIOUS
<1>4. \E x \in T : \A y \in T : ~(<<y, x>> \in R)
  <2> HIDE DEF T, R, F
  <2> QED  BY <1>1, <1>2, <1>3, WFMin
<1>5. PICK m \in Nat \ S : \A y \in T : ~(<<y, 0..m>> \in R)
  BY <1>4
<1>6. m - 1 \in Nat /\ m - 1 \notin S
  <2>1. m # 0
    OBVIOUS
  <2>2. m - 1 \in Nat /\ (m - 1) + 1 = m
    BY <2>1
  <2> QED  BY <2>2
<1>7. 0..(m - 1) \in T
  BY <1>6
<1>8. <<0..(m - 1), 0..m>> \in R
  <2>1. 0..(m - 1) \subseteq 0..m /\ 0..(m - 1) # 0..m
    <3>1. m \in 0..m /\ m \notin 0..(m - 1)
      BY <1>6
    <3> QED  BY <1>6, <3>1
  <2>2. 0..(m - 1) \in SUBSET Nat /\ 0..m \in SUBSET Nat
    OBVIOUS
  <2> QED  BY <2>1, <2>2 DEF StrictSubsetOrdering
<1> QED  BY <1>5, <1>7, <1>8

\* Natural numbers, if there are any, have a smallest one.
LEMMA SmallestExists ==
  ASSUME NEW N \in SUBSET Nat, N # {}
  PROVE  \E m \in N : \A n \in N : m <= n
<1> SUFFICES ASSUME \A m \in N : \E n \in N : ~(m <= n) PROVE FALSE
  OBVIOUS
<1> DEFINE S == {k \in Nat : \A n \in N : k <= n}
<1>1. 0 \in S
  OBVIOUS
<1>2. ASSUME NEW k \in Nat, k \in S PROVE k + 1 \in S
  <2>1. \A n \in N : k <= n
    BY <1>2
  <2>2. k \notin N
    BY <2>1
  <2>3. \A n \in N : k + 1 <= n
    BY <2>1, <2>2
  <2> QED  BY <2>3
<1>3. \A k \in Nat : k \in S
  <2> HIDE DEF S
  <2> QED  BY <1>1, <1>2, NatSetInduction
<1>4. PICK n \in N : TRUE
  OBVIOUS
<1>5. n + 1 \in S /\ ~(n + 1 <= n)
  BY <1>3
<1> QED  BY <1>5

-----------------------------------------------------------------------------
(* Parts of a sequence, and its last element *)

\* The beginning of a sequence, read on.
LEMMA BeginningGrows ==
  ASSUME NEW S, NEW s \in Seq(S), NEW m \in Nat, NEW n \in Nat, m + n <= Len(s)
  PROVE  SubSeq(s, 1, m) \o SubSeq(s, m + 1, m + n) = SubSeq(s, 1, m + n)
<1>1. Len(s) \in Nat
  OBVIOUS
<1>2. PICK a, b, c : /\ a = SubSeq(s, 1, m) /\ b = SubSeq(s, m + 1, m + n)
                     /\ c = SubSeq(s, 1, m + n)
  OBVIOUS
<1>3. a \in Seq(S) /\ Len(a) = m /\ \A i \in 1..m : a[i] = s[i]
  BY <1>1, <1>2
<1>4. b \in Seq(S) /\ Len(b) = n /\ \A i \in 1..n : b[i] = s[m + i]
  BY <1>1, <1>2
<1>5. c \in Seq(S) /\ Len(c) = m + n /\ \A i \in 1..(m + n) : c[i] = s[i]
  BY <1>1, <1>2
<1>6. /\ a \o b \in Seq(S) /\ Len(a \o b) = m + n
      /\ \A i \in 1..(m + n) : (a \o b)[i] = IF i <= m THEN a[i] ELSE b[i - m]
  BY <1>3, <1>4, ConcatProperties
<1>7. ASSUME NEW i \in 1..(m + n) PROVE (a \o b)[i] = c[i]
  <2>1. CASE i <= m
    <3>1. (a \o b)[i] = a[i]
      BY <1>6, <2>1
    <3>2. i \in 1..m
      BY <2>1
    <3> QED  BY <1>3, <1>5, <3>1, <3>2
  <2>2. CASE ~(i <= m)
    <3>1. i - m \in 1..n /\ m + (i - m) = i
      BY <2>2
    <3>2. b[i - m] = s[i]
      BY <1>4, <3>1
    <3>3. (a \o b)[i] = b[i - m]
      BY <1>6, <2>2
    <3>4. c[i] = s[i]
      BY <1>5
    <3> QED  BY <3>2, <3>3, <3>4
  <2> QED  BY <2>1, <2>2
<1>8. a \o b = c
  BY <1>5, <1>6, <1>7, SeqEqual
<1> QED
  BY <1>2, <1>8

LEMMA WholeSequence ==
  ASSUME NEW S, NEW s \in Seq(S)
  PROVE  SubSeq(s, 1, Len(s)) = s
<1>1. PICK t : t = SubSeq(s, 1, Len(s))
  OBVIOUS
<1>2. Len(s) \in Nat
  OBVIOUS
<1>3. t \in Seq(S) /\ Len(t) = Len(s) /\ \A i \in 1..Len(s) : t[i] = s[i]
  BY <1>1, <1>2
<1>4. t = s
  BY <1>3, SeqEqual
<1> QED
  BY <1>1, <1>4

\* What is appended is the last element, and can be replaced.
LEMMA LastReplaced ==
  ASSUME NEW S, NEW s \in Seq(S), NEW x \in S, NEW y \in S
  PROVE  /\ Len(Append(s, x)) = Len(s) + 1
         /\ Append(s, x)[Len(s) + 1] = x
         /\ [Append(s, x) EXCEPT ![Len(s) + 1] = y] = Append(s, y)
<1>1. Len(s) \in Nat
  OBVIOUS
<1>2. PICK n, a, b, c : /\ n = Len(s) + 1 /\ a = Append(s, x) /\ b = Append(s, y)
                        /\ c = [a EXCEPT ![n] = y]
  OBVIOUS
<1>3. n \in Nat /\ n \in 1..n
  BY <1>1, <1>2
<1>4. /\ a \in Seq(S) /\ Len(a) = n /\ a[n] = x
      /\ \A i \in 1..n : i # n => a[i] = s[i]
  BY <1>1, <1>2, AppendProperties
<1>5. /\ b \in Seq(S) /\ Len(b) = n /\ b[n] = y
      /\ \A i \in 1..n : i # n => b[i] = s[i]
  BY <1>1, <1>2, AppendProperties
<1>6. /\ DOMAIN c = 1..n /\ c = [i \in 1..n |-> c[i]]
      /\ \A i \in 1..n : c[i] = IF i = n THEN y ELSE a[i]
  <2>1. DOMAIN a = 1..n
    BY <1>4
  <2> QED  BY <1>2, <2>1
<1>7. \A i \in 1..n : c[i] = b[i]
  BY <1>3, <1>4, <1>5, <1>6
<1>8. b = [i \in 1..n |-> b[i]]
  BY <1>5
<1>9. c = b
  BY <1>6, <1>7, <1>8
<1> QED
  BY <1>2, <1>4, <1>9

-----------------------------------------------------------------------------
(* Sequences one after the other *)

\* f has what the first n sequences make, one after the other.
Flattens(ss, n, f) == f = [i \in 1..n |-> IF i = 1 THEN ss[i] ELSE f[i - 1] \o ss[i]]

\* There is a sequence that begins with each of the first parts.
LEMMA FlatteningExists ==
  ASSUME NEW ss, NEW n \in Nat
  PROVE  \E f : Flattens(ss, n, f)
<1> DEFINE Right(f, k) == \A i \in 1..k : f[i] = IF i = 1 THEN ss[i] ELSE f[i - 1] \o ss[i]
           S == {k \in Nat : \E f : Right(f, k)}
<1>1. 0 \in S
  <2>1. Right(<<>>, 0)
    OBVIOUS
  <2> QED  BY <2>1
<1>2. ASSUME NEW k \in Nat, k \in S PROVE k + 1 \in S
  <2>1. PICK f : Right(f, k)
    BY <1>2
  <2> DEFINE y == IF k + 1 = 1 THEN ss[k + 1] ELSE f[k] \o ss[k + 1]
             g == [i \in 1..(k + 1) |-> IF i <= k THEN f[i] ELSE y]
  <2> HIDE DEF y
  <2>2. ASSUME NEW i \in 1..(k + 1)
        PROVE  g[i] = IF i = 1 THEN ss[i] ELSE g[i - 1] \o ss[i]
    <3>1. CASE i <= k
      <4>1. g[i] = f[i] /\ (i # 1 => g[i - 1] = f[i - 1])
        BY <3>1
      <4> QED  BY <2>1, <3>1, <4>1
    <3>2. CASE i = k + 1
      <4>1. g[i] = y /\ (i # 1 => g[i - 1] = f[k])
        BY <3>2
      <4> QED  BY <3>2, <4>1 DEF y
    <3> QED  BY <3>1, <3>2
  <2>3. Right(g, k + 1)
    BY <2>2
  <2> HIDE DEF g, Right
  <2> QED  BY <2>3
<1>3. n \in S
  <2> HIDE DEF S
  <2> QED  BY <1>1, <1>2, NatSetInduction
<1>4. PICK f : Right(f, n)
  BY <1>3
<1> DEFINE g == [i \in 1..n |-> f[i]]
<1>5. g = [i \in 1..n |-> IF i = 1 THEN ss[i] ELSE g[i - 1] \o ss[i]]
  <2>1. \A i \in 1..n : i # 1 => g[i - 1] = f[i - 1]
    OBVIOUS
  <2>2. g = [i \in 1..n |-> IF i = 1 THEN ss[i] ELSE f[i - 1] \o ss[i]]
    BY <1>4
  <2> HIDE DEF g
  <2> QED  BY <2>1, <2>2
<1> QED  BY <1>5, Zenon DEF Flattens

LEMMA FlattenSeqIs ==
  ASSUME NEW ss, Len(ss) \in Nat
  PROVE  \E f : /\ Flattens(ss, Len(ss), f)
               /\ FlattenSeq(ss) = IF Len(ss) = 0 THEN ss ELSE f[Len(ss)]
<1> DEFINE f == CHOOSE g : Flattens(ss, Len(ss), g)
<1>1. FlattenSeq(ss) = IF Len(ss) = 0 THEN ss ELSE f[Len(ss)]
  BY Zenon DEF FlattenSeq, Flattens
<1>2. Flattens(ss, Len(ss), f)
  BY FlatteningExists
<1> HIDE DEF f
<1> QED  BY <1>1, <1>2

LEMMA FlattensStep ==
  ASSUME NEW ss, NEW n \in Nat, NEW f, Flattens(ss, n, f), NEW i \in 1..n
  PROVE  f[i] = IF i = 1 THEN ss[i] ELSE f[i - 1] \o ss[i]
<1>1. f = [k \in 1..n |-> IF k = 1 THEN ss[k] ELSE f[k - 1] \o ss[k]]
  BY Zenon DEF Flattens
<1> QED  BY <1>1

LEMMA FlattenedIn ==
  ASSUME NEW S, NEW ss \in Seq(Seq(S)), NEW n \in Nat, n <= Len(ss), NEW f, Flattens(ss, n, f)
  PROVE  \A i \in 1..n : f[i] \in Seq(S)
<1> DEFINE T == {k \in Nat : k <= n => \A i \in 1..k : f[i] \in Seq(S)}
<1>1. 0 \in T
  OBVIOUS
<1>2. ASSUME NEW k \in Nat, k \in T PROVE k + 1 \in T
  <2> SUFFICES ASSUME k + 1 <= n, NEW i \in 1..(k + 1) PROVE f[i] \in Seq(S)
    OBVIOUS
  <2>1. ss[i] \in Seq(S) /\ i \in 1..n
    <3>1. i \in 1..Len(ss)
      OBVIOUS
    <3> QED  BY <3>1, ElementOfSeq
  <2>2. i # 1 => f[i - 1] \in Seq(S)
    <3>1. i # 1 => i - 1 \in 1..k
      OBVIOUS
    <3> QED  BY <1>2, <3>1
  <2>3. f[i] = IF i = 1 THEN ss[i] ELSE f[i - 1] \o ss[i]
    BY <2>1, FlattensStep
  <2> QED  BY <2>1, <2>2, <2>3, ConcatProperties
<1>3. n \in T
  <2> HIDE DEF T
  <2> QED  BY <1>1, <1>2, NatSetInduction
<1> QED  BY <1>3

\* Sequences one after the other are one sequence.
LEMMA FlattenSeqType ==
  ASSUME NEW S, NEW ss \in Seq(Seq(S))
  PROVE  FlattenSeq(ss) \in Seq(S)
<1>1. PICK n \in Nat : n = Len(ss)
  OBVIOUS
<1>2. PICK f : Flattens(ss, n, f) /\ FlattenSeq(ss) = IF n = 0 THEN ss ELSE f[n]
  BY <1>1, FlattenSeqIs
<1>3. CASE n = 0
  <2>1. ss = <<>>
    BY <1>1, <1>3, EmptySeq
  <2> QED  BY <1>2, <1>3, <2>1
<1>4. CASE n # 0
  <2>1. f[n] \in Seq(S)
    BY <1>1, <1>2, <1>4, FlattenedIn
  <2> QED  BY <1>2, <1>4, <2>1
<1> QED  BY <1>3, <1>4

Alike(f, g, k) == \A i \in 1..k : f[i] = g[i]

\* Two flattenings of sequences that begin alike begin alike.
LEMMA FlatteningsAgree ==
  ASSUME NEW ss, NEW tt, NEW m \in Nat, NEW n \in Nat, NEW f, NEW g,
         Flattens(ss, m, f), Flattens(tt, n, g), NEW k \in Nat, k <= m, k <= n,
         Alike(ss, tt, k)
  PROVE  Alike(f, g, k)
<1> DEFINE T == {j \in Nat : j <= k => \A i \in 1..j : f[i] = g[i]}
<1>1. 0 \in T
  OBVIOUS
<1>2. ASSUME NEW j \in Nat, j \in T PROVE j + 1 \in T
  <2> SUFFICES ASSUME j + 1 <= k, NEW i \in 1..(j + 1) PROVE f[i] = g[i]
    OBVIOUS
  <2>1. i \in 1..m /\ i \in 1..n /\ i \in 1..k /\ (i # 1 => i - 1 \in 1..j)
    OBVIOUS
  <2>2. i # 1 => f[i - 1] = g[i - 1]
    BY <1>2, <2>1
  <2>3. f[i] = IF i = 1 THEN ss[i] ELSE f[i - 1] \o ss[i]
    BY <2>1, FlattensStep
  <2>4. g[i] = IF i = 1 THEN tt[i] ELSE g[i - 1] \o tt[i]
    BY <2>1, FlattensStep
  <2> QED  BY <2>1, <2>2, <2>3, <2>4 DEF Alike
<1>3. k \in T
  <2> HIDE DEF T
  <2> QED  BY <1>1, <1>2, NatSetInduction
<1> QED  BY <1>3 DEF Alike

LEMMA FlattenSeqAppend ==
  ASSUME NEW S, NEW ss \in Seq(Seq(S)), NEW x \in Seq(S)
  PROVE  FlattenSeq(Append(ss, x)) = FlattenSeq(ss) \o x
<1>1. PICK n \in Nat : n = Len(ss)
  OBVIOUS
<1>2. PICK tt : tt = Append(ss, x)
  OBVIOUS
<1>3. tt \in Seq(Seq(S)) /\ Len(tt) = n + 1 /\ tt[n + 1] = x /\ \A i \in 1..n : tt[i] = ss[i]
  BY <1>1, <1>2, AppendProperties
<1>4. PICK f : Flattens(ss, n, f) /\ FlattenSeq(ss) = IF n = 0 THEN ss ELSE f[n]
  BY <1>1, FlattenSeqIs
<1>5. PICK m \in Nat : m = n + 1
  OBVIOUS
<1>6. PICK g : Flattens(tt, m, g) /\ FlattenSeq(tt) = IF m = 0 THEN tt ELSE g[m]
  <2>1. Len(tt) = m
    BY <1>3, <1>5
  <2> QED  BY <2>1, FlattenSeqIs
<1>7. FlattenSeq(tt) = g[m] /\ g[m] = IF m = 1 THEN x ELSE g[m - 1] \o x
  <2>1. m \in 1..m /\ m # 0
    BY <1>5
  <2>2. g[m] = IF m = 1 THEN tt[m] ELSE g[m - 1] \o tt[m]
    BY <1>6, <2>1, FlattensStep
  <2>3. tt[m] = x
    BY <1>3, <1>5
  <2> QED  BY <1>6, <2>1, <2>2, <2>3
<1>8. CASE n = 0
  <2>1. g[m] = x
    BY <1>5, <1>7, <1>8
  <2>2. ss = <<>> /\ FlattenSeq(ss) = <<>>
    BY <1>1, <1>4, <1>8, EmptySeq
  <2>3. <<>> \o x = x
    OBVIOUS
  <2> QED  BY <1>2, <1>7, <2>1, <2>2, <2>3
<1>9. CASE n # 0
  <2>1. g[m] = g[n] \o x
    <3>1. m # 1 /\ m - 1 = n
      BY <1>5, <1>9
    <3> QED  BY <1>7, <3>1
  <2>2. \A i \in 1..n : g[i] = f[i]
    <3>1. n <= m /\ n <= n
      BY <1>5
    <3>2. Flattens(ss, n, f) /\ Flattens(tt, m, g) /\ \A i \in 1..n : tt[i] = ss[i]
      BY <1>3, <1>4, <1>6
    <3>3. Alike(tt, ss, n)
      BY <3>2 DEF Alike
    <3>4. Alike(g, f, n)
      BY <3>1, <3>2, <3>3, FlatteningsAgree
    <3> QED  BY <3>4 DEF Alike
  <2>3. g[n] = f[n]
    BY <1>9, <2>2
  <2> QED  BY <1>2, <1>4, <1>7, <1>9, <2>1, <2>3
<1> QED  BY <1>8, <1>9

\* Where the parts of a sequence of sequences are.
PartsAt(ss, P) ==
  /\ P \in [0..Len(ss) -> Nat] /\ P[0] = 0 /\ P[Len(ss)] = Len(FlattenSeq(ss))
  /\ \A k \in 0..Len(ss) : P[k] <= Len(FlattenSeq(ss))
  /\ \A k \in 1..Len(ss) :
        /\ P[k] = P[k - 1] + Len(ss[k])
        /\ \A j \in 1..Len(ss[k]) : FlattenSeq(ss)[P[k - 1] + j] = ss[k][j]

LEMMA PartsAreAt ==
  ASSUME NEW S, NEW ss \in Seq(Seq(S))
  PROVE  \E P : PartsAt(ss, P)
<1> DEFINE T == {n \in Nat : \A tt \in Seq(Seq(S)) : Len(tt) = n => \E P : PartsAt(tt, P)}
<1>1. 0 \in T
  <2> SUFFICES ASSUME NEW tt \in Seq(Seq(S)), Len(tt) = 0 PROVE \E P : PartsAt(tt, P)
    OBVIOUS
  <2>1. tt = <<>> /\ FlattenSeq(tt) = <<>>
    BY FlattenSeqIs
  <2>2. PartsAt(tt, [k \in {0} |-> 0])
    BY <2>1 DEF PartsAt
  <2> QED  BY <2>2
<1>2. ASSUME NEW n \in Nat, n \in T PROVE n + 1 \in T
  <2> SUFFICES ASSUME NEW tt \in Seq(Seq(S)), Len(tt) = n + 1 PROVE \E P : PartsAt(tt, P)
    OBVIOUS
  <2>1. PICK uu \in Seq(Seq(S)), x \in Seq(S) :
           tt = Append(uu, x) /\ Len(uu) = n /\ tt[n + 1] = x /\ \A k \in 1..n : tt[k] = uu[k]
    <3>1. PICK uu : uu = SubSeq(tt, 1, n)
      OBVIOUS
    <3>2. uu \in Seq(Seq(S)) /\ Len(uu) = n /\ \A k \in 1..n : uu[k] = tt[k]
      BY <3>1, SubSeqProperties
    <3>3. tt[n + 1] \in Seq(S)
      BY ElementOfSeq
    <3>4. tt = Append(uu, tt[n + 1])
      <4>1. PICK vv : vv = Append(uu, tt[n + 1])
        OBVIOUS
      <4>2. /\ vv \in Seq(Seq(S)) /\ Len(vv) = n + 1 /\ vv[n + 1] = tt[n + 1]
            /\ \A k \in 1..n : vv[k] = uu[k]
        BY <3>2, <3>3, <4>1, AppendProperties
      <4>3. \A k \in 1..(n + 1) : vv[k] = tt[k]
        <5>1. \A k \in 1..(n + 1) : k \in 1..n \/ k = n + 1
          OBVIOUS
        <5> QED  BY <3>2, <4>2, <5>1
      <4> QED  BY <4>1, <4>2, <4>3, SeqEqual
    <3> QED  BY <3>2, <3>3, <3>4
  <2>2. PICK P : PartsAt(uu, P)
    BY <1>2, <2>1
  <2>3. PICK a, b : a = FlattenSeq(uu) /\ b = FlattenSeq(tt)
    OBVIOUS
  <2>4. a \in Seq(S) /\ b = a \o x
    BY <2>1, <2>3, FlattenSeqType, FlattenSeqAppend
  <2>5. PICK q \in Nat, r \in Nat : q = Len(a) /\ r = Len(x)
    <3>1. Len(a) \in Nat /\ Len(x) \in Nat
      BY <2>4, LenProperties
    <3> QED  BY <3>1
  <2>6. /\ Len(b) = q + r
        /\ \A j \in 1..q : b[j] = a[j]
        /\ \A j \in 1..r : b[q + j] = x[j]
    <3>1. /\ Len(b) = q + r
          /\ \A j \in 1..(q + r) : b[j] = IF j <= q THEN a[j] ELSE x[j - q]
      BY <2>1, <2>4, <2>5, ConcatProperties
    <3>2. \A j \in 1..r : q + j \in 1..(q + r) /\ ~(q + j <= q) /\ (q + j) - q = j
      BY <2>5
    <3>3. \A j \in 1..q : j \in 1..(q + r) /\ j <= q
      BY <2>5
    <3> QED  BY <3>1, <3>2, <3>3
  <2> DEFINE Q == [k \in 0..(n + 1) |-> IF k <= n THEN P[k] ELSE q + r]
  <2>7. /\ P \in [0..n -> Nat] /\ P[0] = 0 /\ P[n] = q
        /\ \A k \in 1..n : /\ P[k] = P[k - 1] + Len(uu[k])
                          /\ \A j \in 1..Len(uu[k]) : a[P[k - 1] + j] = uu[k][j]
    BY <2>1, <2>2, <2>3, <2>5 DEF PartsAt
  <2>8. \A k \in 0..n : P[k] <= q
    BY <2>1, <2>2, <2>3, <2>5 DEF PartsAt
  <2>9. ASSUME NEW k \in 1..n PROVE Len(uu[k]) \in Nat /\ P[k - 1] + Len(uu[k]) <= q /\ P[k - 1] \in Nat
    <3>1. uu[k] \in Seq(S)
      BY <2>1, ElementOfSeq
    <3>2. P[k] <= q /\ P[k] = P[k - 1] + Len(uu[k])
      BY <2>7, <2>8
    <3>3. P[k - 1] \in Nat
      BY <2>7, k - 1 \in 0..n
    <3> QED  BY <3>1, <3>2, <3>3, LenProperties
  <2>10. /\ Q \in [0..(n + 1) -> Nat] /\ Q[0] = 0 /\ Q[n + 1] = q + r
         /\ \A k \in 0..n : Q[k] = P[k]
         /\ \A k \in 0..(n + 1) : Q[k] <= q + r
    BY <2>5, <2>7, <2>8
  <2>11. ASSUME NEW k \in 1..n
         PROVE  /\ Q[k] = Q[k - 1] + Len(tt[k])
                /\ \A j \in 1..Len(tt[k]) : b[Q[k - 1] + j] = tt[k][j]
    <3>1. tt[k] = uu[k] /\ Q[k] = P[k] /\ Q[k - 1] = P[k - 1]
      BY <2>1, <2>10
    <3> HIDE DEF Q
    <3>2. \A j \in 1..Len(uu[k]) : P[k - 1] + j \in 1..q
      <4>1. PICK l \in Nat, p \in Nat : l = Len(uu[k]) /\ p = P[k - 1] /\ p + l <= q
        BY <2>9
      <4>2. p + l <= q
        BY <4>1
      <4>3. \A j \in 1..l : p + j \in 1..q
        BY <4>2
      <4> QED  BY <4>1, <4>3, Zenon
    <3>3. \A j \in 1..Len(uu[k]) : b[P[k - 1] + j] = uu[k][j]
      BY <2>6, <2>7, <3>2
    <3> QED  BY <2>7, <3>1, <3>3
  <2>12. /\ Q[n + 1] = Q[n] + Len(tt[n + 1])
         /\ \A j \in 1..Len(tt[n + 1]) : b[Q[n] + j] = tt[n + 1][j]
    <3>1. Q[n + 1] = q + r /\ Q[n] = q
      <4>1. n \in 0..n
        OBVIOUS
      <4> QED  BY <2>7, <2>10, <4>1
    <3>2. tt[n + 1] = x
      BY <2>1
    <3> HIDE DEF Q
    <3> QED  BY <2>5, <2>6, <3>1, <3>2
  <2> HIDE DEF Q
  <2>13. ASSUME NEW k \in 1..(n + 1)
         PROVE  /\ Q[k] = Q[k - 1] + Len(tt[k])
                /\ \A j \in 1..Len(tt[k]) : b[Q[k - 1] + j] = tt[k][j]
    <3>1. CASE k \in 1..n
      BY <2>11, <3>1
    <3>2. CASE k = n + 1
      <4>1. k - 1 = n
        BY <3>2
      <4> QED  BY <2>12, <3>2, <4>1
    <3> QED  BY <3>1, <3>2
  <2>14. PartsAt(tt, Q)
    BY <2>3, <2>6, <2>10, <2>13 DEF PartsAt
  <2> QED  BY <2>14
<1>3. PICK n \in Nat : n = Len(ss)
  OBVIOUS
<1>4. n \in T
  <2> HIDE DEF T
  <2> QED  BY <1>1, <1>2, NatSetInduction
<1> QED  BY <1>3, <1>4
=============================================================================
