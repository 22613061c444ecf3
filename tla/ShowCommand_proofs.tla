------------------------- MODULE ShowCommand_proofs -------------------------
(***************************************************************************)
(* Proofs about ShowCommand, for any options, files and contents, chunks   *)
(* of any size and any number of failing reads; and before them about      *)
(* Adopt: the parser finds what a command line says, whatever options      *)
(* there are and however long the line is.                                 *)
(***************************************************************************)
EXTENDS ShowCommand, SequenceLemmas

-----------------------------------------------------------------------------
(* Meanings *)

\* from[k] is the meaning of the line from its k-th argument on.
Reads(line, from) ==
  from = [k \in 1..(Len(line) + 1) |-> Reading(line, from, k)]

\* What a line can mean.
IsMeaning(m) ==
  \/ m = Refused \/ m = Unspecified
  \/ /\ m = Meaning(m.switches, m.values, m.files)
     /\ m.values = [n \in Names("VALUE") |-> m.values[n]]

\* What has been set and what the rest of the line means, taken together.
Merge(sw, vs, rest) ==
  IF rest.type = "ok"
    THEN Meaning(sw \cup rest.switches,
                 [n \in Names("VALUE") |->
                    IF rest.values[n] = NULL THEN vs[n] ELSE rest.values[n]],
                 rest.files)
    ELSE rest

LEMMA MergeAdding ==
  ASSUME NEW sw, NEW more, NEW vs, NEW rest
  PROVE  Merge(sw, vs, Adding(more, rest)) = Merge(sw \cup more, vs, rest)
<1>1. CASE rest.type = "ok"
  <2>1. sw \cup (more \cup rest.switches) = (sw \cup more) \cup rest.switches
    OBVIOUS
  <2>2. /\ Adding(more, rest).type = "ok"
        /\ Adding(more, rest).switches = more \cup rest.switches
        /\ Adding(more, rest).values = rest.values
        /\ Adding(more, rest).files = rest.files
    BY <1>1 DEF Adding, Meaning
  <2> QED  BY <1>1, <2>1, <2>2 DEF Merge
<1>2. CASE rest.type # "ok"
  BY <1>2 DEF Adding, Merge
<1> QED  BY <1>1, <1>2

\* A value that comes later on the line replaces the one set.
LEMMA MergeSetting ==
  ASSUME NEW sw, NEW vs, NEW rest, IsMeaning(rest), NEW name \in Names("VALUE"),
         NEW v, v # NULL, vs = [n \in Names("VALUE") |-> vs[n]]
  PROVE  Merge(sw, vs, Setting(name, v, rest))
           = Merge(sw, [vs EXCEPT ![name] = v], rest)
<1> DEFINE ws == [vs EXCEPT ![name] = v]
           set1 == [rest.values EXCEPT ![name] = v]
<1>1. \A n \in Names("VALUE") : ws[n] = IF n = name THEN v ELSE vs[n]
  OBVIOUS
<1> HIDE DEF ws
<1>2. CASE rest.type = "ok" /\ rest.values[name] = NULL
  <2>1. rest.values = [n \in Names("VALUE") |-> rest.values[n]]
    BY <1>2 DEF IsMeaning, Refused, Unspecified
  <2>2. \A n \in Names("VALUE") : set1[n] = IF n = name THEN v ELSE rest.values[n]
    BY <2>1
  <2> HIDE DEF set1
  <2>3. /\ Setting(name, v, rest).type = "ok"
        /\ Setting(name, v, rest).switches = rest.switches
        /\ Setting(name, v, rest).values = set1
        /\ Setting(name, v, rest).files = rest.files
    BY <1>2 DEF Setting, Meaning, set1
  <2>4. [n \in Names("VALUE") |-> IF set1[n] = NULL THEN vs[n] ELSE set1[n]]
          = [n \in Names("VALUE") |->
               IF rest.values[n] = NULL THEN ws[n] ELSE rest.values[n]]
    BY <1>1, <1>2, <2>2
  <2> QED  BY <1>2, <2>3, <2>4 DEF Merge, ws
<1>3. CASE rest.type = "ok" /\ rest.values[name] # NULL
  <2>1. Setting(name, v, rest) = rest
    BY <1>3 DEF Setting
  <2>2. [n \in Names("VALUE") |-> IF rest.values[n] = NULL THEN vs[n] ELSE rest.values[n]]
          = [n \in Names("VALUE") |->
               IF rest.values[n] = NULL THEN ws[n] ELSE rest.values[n]]
    BY <1>1, <1>3
  <2> QED  BY <1>3, <2>1, <2>2 DEF Merge, ws
<1>4. CASE rest.type # "ok"
  BY <1>4 DEF Setting, Merge
<1> QED  BY <1>2, <1>3, <1>4

\* Nothing is set before the line begins, and nothing is left at its end.
LEMMA MergeNothing ==
  ASSUME NEW rest, IsMeaning(rest)
  PROVE  Merge({}, NoValues, rest) = rest
<1>1. CASE rest.type = "ok"
  <2>1. /\ rest = Meaning(rest.switches, rest.values, rest.files)
        /\ rest.values = [n \in Names("VALUE") |-> rest.values[n]]
    BY <1>1 DEF IsMeaning, Refused, Unspecified
  <2>2. [n \in Names("VALUE") |->
           IF rest.values[n] = NULL THEN NoValues[n] ELSE rest.values[n]] = rest.values
    BY <2>1 DEF NoValues
  <2>3. {} \cup rest.switches = rest.switches
    OBVIOUS
  <2> QED  BY <1>1, <2>1, <2>2, <2>3 DEF Merge
<1>2. CASE rest.type # "ok"
  BY <1>2 DEF Merge
<1> QED  BY <1>1, <1>2

LEMMA NothingMerged ==
  ASSUME NEW sw, NEW vs, vs = [n \in Names("VALUE") |-> vs[n]], NEW files
  PROVE  Merge(sw, vs, Meaning({}, NoValues, files)) = Meaning(sw, vs, files)
<1> DEFINE rest == Meaning({}, NoValues, files)
<1>1. rest.type = "ok" /\ rest.switches = {} /\ rest.values = NoValues /\ rest.files = files
  BY DEF Meaning
<1> HIDE DEF rest
<1>2. [n \in Names("VALUE") |->
         IF rest.values[n] = NULL THEN vs[n] ELSE rest.values[n]]
        = [n \in Names("VALUE") |-> vs[n]]
  BY <1>1 DEF NoValues
<1>3. sw \cup {} = sw
  OBVIOUS
<1> QED  BY <1>1, <1>2, <1>3 DEF Merge, rest

-----------------------------------------------------------------------------
(* What a line means *)

\* The meaning from an argument on rests on that from the two behind it.
LEMMA ReadingAhead ==
  ASSUME NEW line, NEW k \in 1..(Len(line) + 1), NEW f, NEW g, Len(line) \in Nat,
         \A j \in 1..(Len(line) + 1) : j > k => f[j] = g[j]
  PROVE  Reading(line, f, k) = Reading(line, g, k)
<1>1. CASE k > Len(line)
  BY <1>1 DEF Reading
<1>2. CASE k <= Len(line)
  <2>1. f[k + 1] = g[k + 1]
    <3>1. k + 1 \in 1..(Len(line) + 1) /\ k + 1 > k
      BY <1>2
    <3> QED  BY <3>1
  <2>2. k < Len(line) => f[k + 2] = g[k + 2]
    <3>1. k < Len(line) => k + 2 \in 1..(Len(line) + 1) /\ k + 2 > k
      OBVIOUS
    <3> QED  BY <3>1
  <2> QED  BY <2>1, <2>2 DEF Reading
<1> QED  BY <1>1, <1>2

\* There is a function as the recursive definition says, by induction on how
\* many arguments it is right for, from the end of the line.
LEMMA ReadsExists ==
  ASSUME NEW line, Len(line) \in Nat
  PROVE  \E f : Reads(line, f)
<1> DEFINE n == Len(line)
           D == 1..(n + 1)
           Right(f, m) == \A k \in D : k + m > n + 1 => f[k] = Reading(line, f, k)
           S == {m \in Nat : \E f : Right(f, m)}
<1>1. 0 \in S
  <2>1. Right(<<>>, 0)
    OBVIOUS
  <2> QED  BY <2>1
<1>2. ASSUME NEW m \in Nat, m \in S
      PROVE  m + 1 \in S
  <2>1. PICK f : Right(f, m)
    BY <1>2
  <2> DEFINE g == [k \in D |-> IF k + m > n + 1 THEN f[k] ELSE Reading(line, f, k)]
  <2>2. ASSUME NEW k \in D, k + (m + 1) > n + 1
        PROVE  g[k] = Reading(line, g, k)
    <3>1. g[k] = Reading(line, f, k)
      BY <2>1
    <3>2. \A j \in D : j > k => f[j] = g[j]
      <4>1. \A j \in D : j > k => j + m > n + 1
        BY <2>2
      <4> QED  BY <4>1
    <3>3. Reading(line, f, k) = Reading(line, g, k)
      <4> HIDE DEF g
      <4> QED  BY <3>2, ReadingAhead
    <3> QED  BY <3>1, <3>3
  <2>3. Right(g, m + 1)
    BY <2>2
  <2>4. m + 1 \in Nat
    OBVIOUS
  <2> HIDE DEF g, Right
  <2> QED  BY <2>3, <2>4
<1>3. n + 1 \in S
  <2> HIDE DEF S
  <2> QED  BY <1>1, <1>2, NatSetInduction
<1>4. PICK f : Right(f, n + 1)
  BY <1>3
<1> DEFINE g == [k \in D |-> f[k]]
<1>5. ASSUME NEW k \in D
      PROVE  g[k] = Reading(line, g, k)
  <2>1. g[k] = Reading(line, f, k)
    <3>1. k + (n + 1) > n + 1
      OBVIOUS
    <3> QED  BY <1>4, <3>1
  <2>2. \A j \in D : j > k => f[j] = g[j]
    OBVIOUS
  <2>3. Reading(line, f, k) = Reading(line, g, k)
    <3> HIDE DEF g
    <3> QED  BY <2>2, ReadingAhead
  <2> QED  BY <2>1, <2>3
<1>6. g = [k \in D |-> Reading(line, g, k)]
  <2>1. g = [k \in D |-> g[k]]
    OBVIOUS
  <2> HIDE DEF g
  <2> QED  BY <1>5, <2>1
<1> HIDE DEF g
<1> QED  BY <1>6 DEF Reads

\* Written is the meaning from the first argument on.
LEMMA WrittenIsRead ==
  ASSUME NEW line, Len(line) \in Nat
  PROVE  \E f : Reads(line, f) /\ Written(line) = f[1]
<1> DEFINE f == CHOOSE from : from = [k \in 1..(Len(line) + 1) |-> Reading(line, from, k)]
<1>1. \E from : from = [k \in 1..(Len(line) + 1) |-> Reading(line, from, k)]
  BY ReadsExists DEF Reads
<1>2. f = [k \in 1..(Len(line) + 1) |-> Reading(line, f, k)]
  BY <1>1, Zenon
<1>3. Written(line) = f[1]
  BY Zenon DEF Written
<1> HIDE DEF f
<1> QED  BY <1>2, <1>3 DEF Reads

\* A later part that means something makes the whole mean something.
LEMMA AddingMeans ==
  ASSUME NEW sw, NEW rest, IsMeaning(rest)
  PROVE  IsMeaning(Adding(sw, rest))
BY DEF IsMeaning, Adding, Meaning, Refused, Unspecified

LEMMA SettingMeans ==
  ASSUME NEW name \in Names("VALUE"), NEW v, NEW rest, IsMeaning(rest)
  PROVE  IsMeaning(Setting(name, v, rest))
<1>1. CASE rest.type = "ok" /\ rest.values[name] = NULL
  <2> DEFINE vs == [rest.values EXCEPT ![name] = v]
  <2>1. rest.values = [n \in Names("VALUE") |-> rest.values[n]]
    BY <1>1 DEF IsMeaning, Refused, Unspecified
  <2>2. vs = [n \in Names("VALUE") |-> vs[n]]
    BY <2>1
  <2> HIDE DEF vs
  <2> DEFINE m == Meaning(rest.switches, vs, rest.files)
  <2>3. m = Meaning(m.switches, m.values, m.files) /\ m.values = vs
    BY DEF Meaning
  <2>4. IsMeaning(m)
    BY <2>2, <2>3 DEF IsMeaning
  <2> QED  BY <1>1, <2>4 DEF Setting, vs
<1>2. CASE ~(rest.type = "ok" /\ rest.values[name] = NULL)
  BY <1>2 DEF Setting
<1> QED  BY <1>1, <1>2

LEMMA FilesMean ==
  ASSUME NEW files PROVE IsMeaning(Meaning({}, NoValues, files))
BY DEF IsMeaning, Meaning, NoValues

\* Every part of a line means something, by the same induction.
LEMMA EveryPartMeans ==
  ASSUME NEW line, Len(line) \in Nat, NEW f, Reads(line, f)
  PROVE  \A k \in 1..(Len(line) + 1) : IsMeaning(f[k])
<1> DEFINE n == Len(line)
           D == 1..(n + 1)
           S == {m \in Nat : \A k \in D : k + m > n + 1 => IsMeaning(f[k])}
<1>1. 0 \in S
  OBVIOUS
<1>2. ASSUME NEW m \in Nat, m \in S
      PROVE  m + 1 \in S
  <2>1. ASSUME NEW k \in D, k + (m + 1) > n + 1
        PROVE  IsMeaning(f[k])
    <3>1. f[k] = Reading(line, f, k)
      BY DEF Reads
    <3>2. ASSUME NEW j \in D, j > k
          PROVE  IsMeaning(f[j])
      BY <1>2, <2>1, <3>2
    <3>3. CASE k > n
      BY <3>1, <3>3, FilesMean DEF Reading
    <3>4. CASE k <= n
      <4> DEFINE a == line[k]
      <4>1. IsMeaning(f[k + 1])
        <5>1. k + 1 \in D /\ k + 1 > k
          BY <3>4
        <5> QED  BY <3>2, <5>1
      <4>2. k < n => IsMeaning(f[k + 2])
        <5>1. k < n => k + 2 \in D /\ k + 2 > k
          OBVIOUS
        <5> QED  BY <3>2, <5>1
      <4>3. IsMeaning(Refused) /\ IsMeaning(Unspecified)
        BY DEF IsMeaning
      <4>4. \/ \E files : f[k] = Meaning({}, NoValues, files)
            \/ f[k] \in {Refused, Unspecified}
            \/ \E sw : f[k] = Adding(sw, f[k + 1])
            \/ a.name \in Names("VALUE") /\ f[k] = Setting(a.name, a.value, f[k + 1])
            \/ /\ k < n /\ a.name \in Names("VALUE")
               /\ f[k] = Setting(a.name, line[k + 1], f[k + 2])
        BY <3>1, <3>4 DEF Reading
      <4> QED
        BY <4>1, <4>2, <4>3, <4>4, AddingMeans, SettingMeans, FilesMean
    <3> QED  BY <3>3, <3>4
  <2> QED  BY <2>1
<1>3. \A m \in Nat : m \in S
  <2> HIDE DEF S
  <2> QED  BY <1>1, <1>2, NatSetInduction
<1>4. n + 1 \in S
  <2>1. n + 1 \in Nat
    OBVIOUS
  <2> HIDE DEF S
  <2> QED  BY <1>3, <2>1
<1> QED  BY <1>4

-----------------------------------------------------------------------------
(* The arguments of a line, and the options they stand for *)

IsArgument(a) ==
  /\ a.type \in {"word", "long", "short"}
  /\ a.type = "long" => a = Long(a.name, a.value)
  /\ a.type = "short" => a = Short(a.letters) /\ a.letters \in Seq(ToSet(a.letters) \ {""})

LEMMA Arguments ==
  ASSUME NEW line \in CommandLines
  PROVE  /\ Len(line) \in Nat
         /\ \A h \in 1..Len(line) : IsArgument(line[h])
<1>1. line \in Seq(ToSet(line))
  BY LinesAssumption
<1>2. Len(line) \in Nat /\ DOMAIN line = 1..Len(line)
  BY <1>1
<1>3. \A h \in 1..Len(line) : line[h] \in ToSet(line)
  BY <1>1, <1>2 DEF ToSet
<1> QED
  BY <1>2, <1>3, LinesAssumption DEF IsArgument

\* Of the options that match, the first is taken.
LEMMA Chosen ==
  ASSUME Matches # {}
  PROVE  \E o \in DOMAIN Options : o \in Matches /\ option = Options[o]
<1>1. DOMAIN Options = 1..Len(Options) /\ Len(Options) \in Nat
  <2>1. Options \in Seq(ToSet(Options))
    BY OptionsAssumption, Zenon
  <2> DEFINE S == ToSet(Options)
  <2> HIDE DEF S
  <2>2. Options \in Seq(S)
    BY <2>1 DEF S
  <2> QED  BY <2>2
<1>2. Matches \subseteq DOMAIN Options
  BY DEF Matches, spec_for_long, spec_for_short
<1> HIDE DEF Matches
<1>3. Matches \subseteq Nat
  BY <1>1, <1>2
<1>4. \E m \in Matches : \A k \in Matches : m <= k
  BY <1>3, SmallestExists
<1>5. Min(Matches) \in Matches
  BY <1>4, Zenon DEF Min
<1> QED
  BY <1>2, <1>5 DEF option

LEMMA LongMatches ==
  ASSUME arg.type = "long"
  PROVE  \A o \in DOMAIN Options : o \in Matches <=> MatchesLong(Options[o], arg)
BY DEF Matches, spec_for_long

LEMMA ShortMatches ==
  ASSUME arg.type = "short"
  PROVE  \A o \in DOMAIN Options : o \in Matches <=> Options[o].alias = letter
BY DEF Matches, spec_for_short

-----------------------------------------------------------------------------
(* The invariant of the parser *)

\* The letters of a cluster from behind the j-th on, and what they say.
Behind(s, j) == {s[k] : k \in (j + 1)..Len(s)}
Letters(letters, rest) == IF Known(letters) THEN Adding(Named(letters), rest) ELSE Refused

\* What the rest of the line says, from where the parser stands.
Left(f) ==
  IF list # 0 THEN Meaning({}, NoValues, SubSeq(argv, list, list + in_args - 1))
  ELSE IF in_literal THEN Meaning({}, NoValues, SubSeq(argv, idx, Len(argv)))
  ELSE IF in_short # 0 THEN Letters(Behind(argv[idx].letters, in_short), f[idx + 1])
  ELSE f[idx]

\* What is set and what is left make up the whole line; if nothing is left,
\* what is set is the whole line.
Explained(f) ==
  /\ status = "parsing" => f[1] = Merge(switches, values, Left(f))
  /\ status = "done" => Parsed = f[1]
  /\ status \in {"UNKNOWN_OPTION", "MISSING_VALUE"} => f[1] = Refused

Standing ==
  /\ argv \in CommandLines
  /\ idx \in 1..(Len(argv) + 1)
  /\ in_short \in Nat /\ list \in Nat /\ in_args \in Nat /\ in_literal \in BOOLEAN
  /\ values = [n \in Names("VALUE") |-> values[n]]
  /\ in_short # 0 => /\ idx <= Len(argv) /\ argv[idx].type = "short"
                     /\ in_short < Len(argv[idx].letters)
                     /\ ~in_literal /\ list = 0
  /\ list # 0 => idx = Len(argv) + 1

\* Where a line is unspecified, the parser may go anywhere.
OptionsInv ==
  /\ argv \in CommandLines
  /\ \A f : Reads(argv, f) /\ f[1] # Unspecified => Standing /\ Explained(f)

-----------------------------------------------------------------------------
(* Long options *)

\* Before a long option, the rest of the line is read from it on.
LEMMA LongLeft ==
  ASSUME Standing, AtLong, NEW f, Reads(argv, f)
  PROVE  /\ Left(f) = Reading(argv, f, idx)
         /\ Len(argv) \in Nat /\ idx \in 1..Len(argv)
         /\ argv[idx] = Long(argv[idx].name, argv[idx].value)
<1>1. Len(argv) \in Nat /\ \A h \in 1..Len(argv) : IsArgument(argv[h])
  BY Arguments DEF Standing
<1>2. idx \in 1..Len(argv)
  BY <1>1 DEF Standing, AtLong
<1>3. IsArgument(argv[idx])
  BY <1>1, <1>2
<1>4. list = 0 /\ ~in_literal /\ in_short = 0
  BY <1>1 DEF Standing, AtLong
<1>5. f[idx] = Reading(argv, f, idx)
  BY DEF Reads, Standing
<1> QED
  BY <1>1, <1>2, <1>3, <1>4, <1>5 DEF Left, IsArgument, AtLong, arg

LEMMA LongParts ==
  ASSUME NEW name, NEW value
  PROVE  /\ Long(name, value).type = "long"
         /\ Long(name, value).name = name
         /\ Long(name, value).value = value
         /\ Long(name, value) # Short(<<>>)
BY DEF Long, Short

LEMMA SameLong ==
  ASSUME NEW n1, NEW v1, NEW n2, NEW v2
  PROVE  Long(n1, v1) = Long(n2, v2) <=> n1 = n2 /\ v1 = v2
<1>1. Long(n1, v1).name = n1 /\ Long(n1, v1).value = v1
  BY LongParts
<1>2. Long(n2, v2).name = n2 /\ Long(n2, v2).value = v2
  BY LongParts
<1> QED
  BY <1>1, <1>2

\* No name is both a switch's and another option's.
LEMMA OneName ==
  ASSUME NEW name \in Names("VALUE")
  PROVE  name \notin Names("SWITCH") /\ name # ""
<1>1. PICK o \in DOMAIN Options : Options[o].type = "VALUE" /\ Options[o].name = name
  BY DEF Names
<1>2. name # ""
  BY <1>1, OptionsAssumption
<1>3. \A p \in DOMAIN Options : Options[p].type = "SWITCH" => Options[p].name # name
  BY <1>1, OptionsAssumption
<1>4. name \notin Names("SWITCH")
  BY <1>3 DEF Names
<1> QED
  BY <1>2, <1>4

LEMMA NamedSwitch ==
  ASSUME NEW name \in Names("SWITCH")
  PROVE  name # ""
<1>1. PICK o \in DOMAIN Options : Options[o].type = "SWITCH" /\ Options[o].name = name
  BY DEF Names
<1> QED
  BY <1>1, OptionsAssumption

\* What a long option says: with a value, and in any case.
LEMMA AttachedReading ==
  ASSUME NEW line, NEW f, NEW k \in 1..Len(line), Len(line) \in Nat,
         NEW name \in Names("VALUE"), NEW value, line[k] = Long(name, value),
         value # NULL, value # Empty
  PROVE  Reading(line, f, k) = Setting(name, value, f[k + 1])
<1>1. /\ line[k].type = "long" /\ line[k].name = name /\ line[k].value = value
      /\ line[k] # Short(<<>>)
  BY LongParts
<1>2. name # "" /\ name \notin Names("SWITCH")
  BY OneName
<1>3. line[k] # Long("", NULL)
  <2>1. Long("", NULL).value = NULL
    BY LongParts
  <2> QED  BY <1>1, <2>1
<1>4. ~(k > Len(line))
  OBVIOUS
<1> QED
  BY <1>1, <1>2, <1>3, <1>4 DEF Reading

LEMMA LongReading ==
  ASSUME NEW line, NEW f, NEW k \in 1..Len(line), Len(line) \in Nat,
         NEW name, NEW value, line[k] = Long(name, value)
  PROVE  /\ name = "" /\ value = NULL =>
              Reading(line, f, k) = Meaning({}, NoValues, SubSeq(line, k + 1, Len(line)))
         /\ name \in Names("SWITCH") /\ value = NULL =>
              Reading(line, f, k) = Adding({name}, f[k + 1])
         /\ name \in Names("VALUE") /\ value = NULL /\ k < Len(line) =>
              Reading(line, f, k) = Setting(name, line[k + 1], f[k + 2])
         /\ ~ \/ name = "" /\ value = NULL
              \/ name \in Names("SWITCH") /\ value = NULL
              \/ name \in Names("VALUE") /\ value # NULL /\ value # Empty
              \/ name \in Names("VALUE") /\ value = NULL /\ k < Len(line)
            => Reading(line, f, k) = Refused
<1>1. /\ line[k].type = "long" /\ line[k].name = name /\ line[k].value = value
      /\ line[k] # Short(<<>>)
  BY LongParts
<1>2. line[k] = Long("", NULL) <=> name = "" /\ value = NULL
  <2>1. PICK none, nothing : none = "" /\ nothing = NULL
    OBVIOUS
  <2>2. Long(name, value) = Long(none, nothing) <=> name = none /\ value = nothing
    BY SameLong
  <2> QED  BY <2>1, <2>2
<1>3. ~(k > Len(line))
  OBVIOUS
<1>4. name = "" => name \notin Names("SWITCH") /\ name \notin Names("VALUE")
  BY OneName, NamedSwitch
<1>5. name \in Names("VALUE") => name \notin Names("SWITCH")
  BY OneName
<1>6. CASE name = "" /\ value = NULL
  BY <1>1, <1>2, <1>3, <1>4, <1>6 DEF Reading
<1>7. CASE name \in Names("SWITCH") /\ value = NULL
  BY <1>1, <1>2, <1>3, <1>4, <1>5, <1>7 DEF Reading
<1>8. CASE name \in Names("VALUE") /\ value = NULL /\ k < Len(line)
  BY <1>1, <1>2, <1>3, <1>4, <1>5, <1>8 DEF Reading
<1>9. CASE ~ \/ name = "" /\ value = NULL
             \/ name \in Names("SWITCH") /\ value = NULL
             \/ name \in Names("VALUE") /\ value # NULL /\ value # Empty
             \/ name \in Names("VALUE") /\ value = NULL /\ k < Len(line)
  BY <1>1, <1>2, <1>3, <1>9 DEF Reading
<1> QED
  BY <1>4, <1>5, <1>6, <1>7, <1>8, <1>9

\* Which option a long argument is.
LEMMA LongOption ==
  ASSUME AtLong, NEW name, NEW value, argv[idx] = Long(name, value)
  PROVE  /\ Matches = {} => /\ ~(name = "" /\ value = NULL)
                            /\ ~(name \in Names("SWITCH") /\ value = NULL)
                            /\ name \notin Names("VALUE")
         /\ Matches # {} /\ option.type = "LITERAL" => name = "" /\ value = NULL
         /\ Matches # {} /\ option.type = "SWITCH" =>
              name = option.name /\ name \in Names("SWITCH") /\ value = NULL
         /\ Matches # {} /\ option.type = "VALUE" =>
              name = option.name /\ name \in Names("VALUE")
<1>1. \A o \in DOMAIN Options : o \in Matches <=> MatchesLong(Options[o], arg)
  BY LongMatches DEF AtLong
<1>2. arg = Long(name, value) /\ arg.name = name /\ arg.value = value
  BY LongParts DEF arg
<1>3. \A o \in DOMAIN Options :
         MatchesLong(Options[o], arg) <=>
            \/ Options[o].type = "LITERAL" /\ name = "" /\ value = NULL
            \/ Options[o].type \in {"SWITCH", "VALUE"} /\ name = Options[o].name /\ value = NULL
            \/ Options[o].type = "VALUE" /\ name = Options[o].name /\ value # NULL
  <2> TAKE o \in DOMAIN Options
  <2>1. PICK none, nothing : none = "" /\ nothing = NULL
    OBVIOUS
  <2>2. Long(name, value) = Long(none, nothing) <=> name = none /\ value = nothing
    BY SameLong
  <2>3. Long(name, value) = Long(Options[o].name, NULL) <=>
           name = Options[o].name /\ value = NULL
    BY SameLong
  <2> QED  BY <1>2, <2>1, <2>2, <2>3 DEF MatchesLong
<1> HIDE DEF Matches
<1>4. ASSUME Matches = {}
      PROVE  /\ ~(name = "" /\ value = NULL)
             /\ ~(name \in Names("SWITCH") /\ value = NULL)
             /\ name \notin Names("VALUE")
  <2>1. \E o \in DOMAIN Options : Options[o].type = "LITERAL"
    BY OptionsAssumption, Zenon
  <2>2. \A o \in DOMAIN Options :
           /\ ~(Options[o].type = "LITERAL" /\ name = "" /\ value = NULL)
           /\ ~(Options[o].type = "SWITCH" /\ name = Options[o].name /\ value = NULL)
           /\ ~(Options[o].type = "VALUE" /\ name = Options[o].name)
    BY <1>1, <1>3, <1>4
  <2> QED  BY <2>1, <2>2 DEF Names
<1>5. ASSUME Matches # {}
      PROVE  /\ option.type = "LITERAL" => name = "" /\ value = NULL
             /\ option.type = "SWITCH" =>
                  name = option.name /\ name \in Names("SWITCH") /\ value = NULL
             /\ option.type = "VALUE" => name = option.name /\ name \in Names("VALUE")
  <2>1. PICK o \in DOMAIN Options : o \in Matches /\ option = Options[o]
    BY <1>5, Chosen
  <2>2. MatchesLong(Options[o], arg)
    BY <1>1, <2>1
  <2> QED  BY <1>3, <2>1, <2>2 DEF Names
<1> QED
  BY <1>4, <1>5

LEMMA LongRefused ==
  ASSUME Standing, AtLong, Matches = {}, NEW f, Reads(argv, f)
  PROVE  Left(f) = Refused
<1>1. /\ Left(f) = Reading(argv, f, idx)
      /\ Len(argv) \in Nat /\ idx \in 1..Len(argv)
  BY LongLeft
<1>2. PICK name, value : argv[idx] = Long(name, value)
  BY LongLeft
<1>3. /\ ~(name = "" /\ value = NULL)
      /\ ~(name \in Names("SWITCH") /\ value = NULL)
      /\ name \notin Names("VALUE")
  BY <1>2, LongOption
<1> QED
  BY <1>1, <1>2, <1>3, LongReading

LEMMA LiteralLeft ==
  ASSUME Standing, Literal, NEW f, Reads(argv, f)
  PROVE  Standing' /\ Merge(switches, values, Left(f))' = Merge(switches, values, Left(f))
<1>1. AtLong /\ Matches # {} /\ option.type = "LITERAL"
  BY DEF Literal
<1>2. /\ Left(f) = Reading(argv, f, idx)
      /\ Len(argv) \in Nat /\ idx \in 1..Len(argv)
  BY <1>1, LongLeft
<1>3. PICK name, value : argv[idx] = Long(name, value)
  BY <1>1, LongLeft
<1>4. Left(f) = Meaning({}, NoValues, SubSeq(argv, idx + 1, Len(argv)))
  <2>1. name = "" /\ value = NULL
    BY <1>1, <1>3, LongOption
  <2> QED  BY <1>2, <1>3, <2>1, LongReading
<1>5. /\ argv' = argv /\ idx' = idx + 1 /\ in_short' = in_short /\ in_literal' = TRUE
      /\ in_args' = in_args /\ list' = list /\ switches' = switches /\ values' = values
      /\ in_short = 0 /\ list = 0
  <2>1. list = 0
    BY <1>1, <1>2 DEF Standing, AtLong
  <2> QED  BY <1>1, <2>1 DEF Literal, AtLong, set
<1>6. Left(f)' = Meaning({}, NoValues, SubSeq(argv, idx + 1, Len(argv)))
  BY <1>5 DEF Left, Meaning, NoValues, Names
<1>7. Standing'
  BY <1>2, <1>5 DEF Standing
<1> QED
  BY <1>4, <1>5, <1>6, <1>7 DEF Merge, Meaning, Names

LEMMA LongSwitchLeft ==
  ASSUME Standing, LongSwitch, NEW f, Reads(argv, f)
  PROVE  Standing' /\ Merge(switches, values, Left(f))' = Merge(switches, values, Left(f))
<1>1. AtLong /\ Matches # {} /\ option.type = "SWITCH"
  BY DEF LongSwitch
<1>2. /\ Left(f) = Reading(argv, f, idx)
      /\ Len(argv) \in Nat /\ idx \in 1..Len(argv)
  BY <1>1, LongLeft
<1>3. PICK name, value : argv[idx] = Long(name, value)
  BY <1>1, LongLeft
<1>4. name = option.name /\ name \in Names("SWITCH") /\ value = NULL
  BY <1>1, <1>3, LongOption
<1>5. Left(f) = Adding({name}, f[idx + 1])
  <2>1. name \in Names("SWITCH") /\ value = NULL
    BY <1>4
  <2> QED  BY <1>2, <1>3, <2>1, LongReading
<1>6. /\ argv' = argv /\ idx' = idx + 1 /\ in_short' = in_short
      /\ in_literal' = in_literal /\ in_args' = in_args /\ list' = list
      /\ switches' = switches \cup {name} /\ values' = values
      /\ in_short = 0 /\ list = 0 /\ ~in_literal
  <2>1. list = 0
    BY <1>1, <1>2 DEF Standing, AtLong
  <2> QED  BY <1>1, <1>4, <2>1 DEF LongSwitch, AtLong
<1>7. Left(f)' = f[idx + 1]
  BY <1>6 DEF Left
<1>8. Standing'
  BY <1>2, <1>6 DEF Standing
<1> QED
  BY <1>5, <1>6, <1>7, <1>8, MergeAdding

\* A value the option has here, and where the line goes on behind it.
LEMMA LongValueLeft ==
  ASSUME Standing, AtLong, Value, NEW f, Reads(argv, f),
         NEW v \in ValuesHere, v[1] # NULL,
         values' = [values EXCEPT ![option.name] = v[1]],
         idx' = idx + v[2], in_short' = 0,
         UNCHANGED <<argv, in_literal, in_args, list, switches>>
  PROVE  Standing' /\ Merge(switches, values, Left(f))' = Merge(switches, values, Left(f))
<1>1. Matches # {} /\ option.type = "VALUE"
  BY DEF Value
<1>2. /\ Left(f) = Reading(argv, f, idx)
      /\ Len(argv) \in Nat /\ idx \in 1..Len(argv)
  BY LongLeft
<1>3. PICK name, value : argv[idx] = Long(name, value)
  BY LongLeft
<1>4. name = option.name /\ name \in Names("VALUE")
  BY <1>1, <1>3, LongOption
<1>5. \/ /\ value = NULL /\ idx < Len(argv) /\ v = <<argv[idx + 1], 2>>
      \/ /\ value # NULL /\ value # Empty /\ v = <<value, 1>>
  <2>1. arg.type = "long" /\ arg.value = value
    BY <1>3, LongParts DEF arg
  <2> QED  BY <2>1 DEF ValuesHere
<1>6. in_short = 0 /\ list = 0 /\ ~in_literal
  BY <1>2 DEF Standing, AtLong
<1> DEFINE h == idx + v[2]
<1>7. h \in 1..(Len(argv) + 1)
  <2>1. v[2] = 1 \/ (v[2] = 2 /\ idx < Len(argv))
    BY <1>5
  <2> QED  BY <1>2, <2>1
<1>8. Left(f) = Setting(name, v[1], f[h])
  <2>0. name \in Names("VALUE")
    BY <1>4
  <2>1. CASE value = NULL
    <3>1. idx < Len(argv) /\ v[1] = argv[idx + 1] /\ h = idx + 2
      BY <1>5, <2>1
    <3>2. Left(f) = Setting(name, argv[idx + 1], f[idx + 2])
      BY <1>2, <1>3, <2>0, <2>1, <3>1, LongReading
    <3> QED  BY <3>1, <3>2
  <2>2. CASE value # NULL
    <3>1. value # NULL /\ value # Empty /\ v[1] = value /\ h = idx + 1
      BY <1>5, <2>2
    <3>2. Left(f) = Setting(name, value, f[idx + 1])
      BY <1>2, <1>3, <2>0, <3>1, AttachedReading
    <3> QED  BY <3>1, <3>2
  <2> QED  BY <2>1, <2>2
<1>9. Left(f)' = f[h]
  BY <1>6 DEF Left
<1>10. PICK vs : vs = values
  OBVIOUS
<1>11. PICK ws : ws = [vs EXCEPT ![name] = v[1]] /\ values' = ws
  BY <1>4, <1>10
<1>12. vs = [n \in Names("VALUE") |-> vs[n]]
  BY <1>10 DEF Standing
<1>13. Standing'
  <2>1. ws = [n \in Names("VALUE") |-> ws[n]]
    BY <1>11, <1>12
  <2>2. idx' \in 1..(Len(argv') + 1) /\ argv' = argv
    BY <1>7
  <2> QED  BY <1>6, <1>11, <2>1, <2>2 DEF Standing
<1>14. Merge(switches, vs, Setting(name, v[1], f[h])) = Merge(switches, ws, f[h])
  <2>1. IsMeaning(f[h])
    BY <1>2, <1>7, EveryPartMeans
  <2> HIDE DEF h
  <2>2. name \in Names("VALUE") /\ v[1] # NULL
    BY <1>4
  <2>3. ws = [vs EXCEPT ![name] = v[1]]
    BY <1>11
  <2> QED  BY <1>12, <2>1, <2>2, <2>3, MergeSetting
<1> QED
  BY <1>8, <1>9, <1>10, <1>11, <1>13, <1>14

LEMMA LongMissing ==
  ASSUME Standing, AtLong, Matches # {}, option.type = "VALUE", NEW f, Reads(argv, f),
         NEW v \in ValuesHere, v[1] = NULL
  PROVE  Left(f) = Refused
<1>1. /\ Left(f) = Reading(argv, f, idx)
      /\ Len(argv) \in Nat /\ idx \in 1..Len(argv)
  BY LongLeft
<1>2. PICK name, value : argv[idx] = Long(name, value)
  BY LongLeft
<1>3. name \in Names("VALUE")
  BY <1>2, LongOption
<1>4. (value = NULL /\ ~(idx < Len(argv))) \/ value = Empty
  <2>1. idx < Len(argv) => argv[idx + 1] # NULL
    <3>1. idx < Len(argv) => IsArgument(argv[idx + 1])
      BY <1>1, Arguments DEF Standing
    <3>2. idx < Len(argv) => argv[idx + 1].type \in {"word", "long", "short"}
      BY <3>1 DEF IsArgument
    <3>3. NULL.type = "NULL"
      BY DEF NULL
    <3> QED  BY <3>2, <3>3
  <2>2. arg.type = "long" /\ arg.value = value
    BY <1>2, LongParts DEF arg
  <2>3. Empty # NULL
    BY DEF Empty, Word, NULL
  <2> QED  BY <2>1, <2>2, <2>3 DEF ValuesHere
<1>5. Empty # NULL
  BY DEF Empty, Word, NULL
<1>6. name \notin Names("SWITCH") /\ name # ""
  BY <1>3, OneName
<1> QED
  BY <1>1, <1>2, <1>4, <1>5, <1>6, LongReading

-----------------------------------------------------------------------------
(* Clusters of letters *)

LEMMA ShortParts ==
  ASSUME NEW letters
  PROVE  Short(letters).type = "short" /\ Short(letters).letters = letters
BY DEF Short

\* What a cluster says that has a letter.
LEMMA ShortReading ==
  ASSUME NEW line, NEW f, NEW k \in 1..Len(line), Len(line) \in Nat,
         NEW a, line[k] = a, a = Short(a.letters), a.letters # <<>>
  PROVE  Reading(line, f, k) = Letters(ToSet(a.letters), f[k + 1])
<1>1. a.type = "short" /\ a # Short(<<>>)
  BY ShortParts
<1>2. a # Long("", NULL)
  <2>1. Long("", NULL).type = "long"
    BY LongParts
  <2> QED  BY <1>1, <2>1
<1>3. ~(k > Len(line))
  OBVIOUS
<1> QED
  BY <1>1, <1>2, <1>3 DEF Reading, Letters

\* A lone dash is read in no way.
LEMMA DashReading ==
  ASSUME NEW line, NEW f, NEW k \in 1..Len(line), Len(line) \in Nat,
         line[k] = Short(<<>>)
  PROVE  Reading(line, f, k) = Unspecified
<1>1. line[k].type = "short"
  BY ShortParts
<1>2. line[k] # Long("", NULL)
  <2>1. Long("", NULL).type = "long"
    BY LongParts
  <2> QED  BY <1>1, <2>1
<1>3. line[k].letters = <<>>
  BY ShortParts
<1>4. ~(k > Len(line))
  OBVIOUS
<1> QED
  BY <1>1, <1>2, <1>3, <1>4 DEF Reading

\* A line with a lone dash where the parser stands says nothing for certain.
LEMMA UnspecifiedLeft ==
  ASSUME NEW sw, NEW vs
  PROVE  Merge(sw, vs, Unspecified) = Unspecified /\ Merge(sw, vs, Refused) = Refused
BY DEF Merge, Unspecified, Refused

\* In a cluster, the rest of the line is read from the next letter on.
LEMMA ShortLeft ==
  ASSUME Standing, AtShort, NEW f, Reads(argv, f)
  PROVE  /\ Len(argv) \in Nat /\ idx \in 1..Len(argv) /\ list = 0 /\ ~in_literal
         /\ in_short \in Nat /\ arg.type = "short"
         /\ \/ Left(f) = Unspecified
            \/ /\ arg.letters \in Seq(ToSet(arg.letters) \ {""})
               /\ in_short < Len(arg.letters)
               /\ Left(f) = Letters(Behind(arg.letters, in_short), f[idx + 1])
<1>1. Len(argv) \in Nat /\ \A h \in 1..Len(argv) : IsArgument(argv[h])
  BY Arguments DEF Standing
<1>2. idx \in 1..Len(argv) /\ arg.type = "short" /\ ~in_literal /\ in_short \in Nat
  BY <1>1 DEF Standing, AtShort
<1>3. IsArgument(arg)
  BY <1>1, <1>2 DEF arg
<1>4. list = 0
  BY <1>1, <1>2 DEF Standing
<1>5. arg = Short(arg.letters) /\ arg.letters \in Seq(ToSet(arg.letters) \ {""})
  BY <1>2, <1>3 DEF IsArgument
<1>6. f[idx] = Reading(argv, f, idx)
  BY DEF Reads, Standing
<1>7. CASE arg.letters = <<>>
  <2>1. in_short = 0
    BY <1>2, <1>7 DEF Standing, arg
  <2>2. argv[idx] = Short(<<>>)
    BY <1>5, <1>7 DEF arg
  <2>3. Reading(argv, f, idx) = Unspecified
    BY <1>1, <1>2, <2>2, DashReading
  <2> QED  BY <1>1, <1>2, <1>4, <1>6, <2>1, <2>3 DEF Left
<1>8. CASE arg.letters # <<>> /\ in_short = 0
  <2>1. Reading(argv, f, idx) = Letters(ToSet(arg.letters), f[idx + 1])
    BY <1>1, <1>2, <1>5, <1>8, ShortReading DEF arg
  <2>2. ToSet(arg.letters) = Behind(arg.letters, 0) /\ 0 < Len(arg.letters)
    <3>1. PICK s, T : s = arg.letters /\ T = ToSet(arg.letters) \ {""}
      OBVIOUS
    <3>2. s \in Seq(T)
      BY <1>5, <3>1
    <3>3. s # <<>>
      BY <1>8, <3>1
    <3>4. DOMAIN s = 1..Len(s) /\ Len(s) \in Nat
      BY <3>2
    <3>5. 0 < Len(s)
      BY <3>2, <3>3, <3>4, EmptySeq
    <3>6. {s[k] : k \in DOMAIN s} = {s[k] : k \in (0 + 1)..Len(s)}
      BY <3>4
    <3> QED  BY <3>1, <3>5, <3>6 DEF ToSet, Behind
  <2>3. Left(f) = f[idx]
    BY <1>2, <1>4, <1>8 DEF Left
  <2> QED  BY <1>1, <1>2, <1>4, <1>5, <1>6, <1>8, <2>1, <2>2, <2>3
<1>9. CASE in_short # 0
  <2>1. Left(f) = Letters(Behind(arg.letters, in_short), f[idx + 1])
    BY <1>2, <1>4, <1>9 DEF Left, arg
  <2>2. in_short < Len(arg.letters)
    BY <1>9 DEF Standing, arg
  <2> QED  BY <1>1, <1>2, <1>4, <1>5, <2>1, <2>2
<1> QED
  BY <1>7, <1>8, <1>9

\* A letter, and those behind it.
LEMMA NextLetter ==
  ASSUME NEW T, NEW s \in Seq(T), NEW j \in Nat, j < Len(s)
  PROVE  /\ Behind(s, j) = {s[j + 1]} \cup Behind(s, j + 1)
         /\ s[j + 1] \in T /\ s # <<>>
         /\ j + 1 = Len(s) => Behind(s, j + 1) = {}
<1>1. Len(s) \in Nat
  OBVIOUS
<1> DEFINE n == Len(s)
<1> HIDE DEF n
<1>2. (j + 1)..n = {j + 1} \cup ((j + 1) + 1)..n
  BY <1>1 DEF n
<1>3. j + 1 \in 1..n
  BY <1>1 DEF n
<1>4. s[j + 1] \in T
  BY <1>3 DEF n
<1>5. s # <<>>
  BY <1>1
<1>6. j + 1 = n => ((j + 1) + 1)..n = {}
  BY <1>1 DEF n
<1>7. {s[k] : k \in (j + 1)..n} = {s[j + 1]} \cup {s[k] : k \in ((j + 1) + 1)..n}
  BY <1>2
<1>8. j + 1 = n => {s[k] : k \in ((j + 1) + 1)..n} = {}
  BY <1>6
<1> QED
  BY <1>4, <1>5, <1>7, <1>8 DEF n, Behind

\* What letters say that an option is written with, and what others say.
LEMMA KnownLetter ==
  ASSUME NEW o \in DOMAIN Options, Options[o].alias # "", NEW more, NEW rest
  PROVE  Letters({Options[o].alias} \cup more, rest)
           = IF Known(more) THEN Adding({Options[o].name} \cup Named(more), rest) ELSE Refused
<1> DEFINE c == Options[o].alias
<1>1. \A p \in DOMAIN Options : Options[p].alias = c <=> p = o
  BY OptionsAssumption
<1>2. Known({c} \cup more) <=> Known(more)
  BY DEF Known
<1>3. {p \in DOMAIN Options : Options[p].alias \in {c} \cup more}
        = {o} \cup {p \in DOMAIN Options : Options[p].alias \in more}
  BY <1>1
<1>4. Named({c} \cup more) = {Options[o].name} \cup Named(more)
  BY <1>3 DEF Named
<1> QED
  BY <1>2, <1>4 DEF Letters

LEMMA UnknownLetter ==
  ASSUME NEW c, \A o \in DOMAIN Options : Options[o].alias # c, NEW more, NEW rest
  PROVE  Letters({c} \cup more, rest) = Refused
BY DEF Letters, Known

\* The option that is taken for a letter.
LEMMA ShortOption ==
  ASSUME arg.type = "short", Matches # {}, letter # ""
  PROVE  \E o \in DOMAIN Options : /\ option = Options[o] /\ Options[o].alias = letter
                                   /\ Options[o].type # "VALUE"
<1>1. PICK o \in DOMAIN Options : o \in Matches /\ option = Options[o]
  BY Chosen
<1>2. Options[o].alias = letter
  BY <1>1, ShortMatches
<1>3. Options[o].type = "VALUE" => Options[o].alias = ""
  BY OptionsAssumption
<1> QED
  BY <1>1, <1>2, <1>3

\* The letter the parser stands at.
LEMMA AtLetter ==
  ASSUME Standing, AtShort, NEW f, Reads(argv, f), Left(f) # Unspecified
  PROVE  /\ letter # "" /\ in_short < Len(arg.letters) /\ Len(arg.letters) \in Nat
         /\ Left(f) = Letters({letter} \cup Behind(arg.letters, in_short + 1), f[idx + 1])
         /\ in_short + 1 = Len(arg.letters) => Behind(arg.letters, in_short + 1) = {}
<1>1. /\ arg.letters \in Seq(ToSet(arg.letters) \ {""})
      /\ in_short \in Nat /\ in_short < Len(arg.letters)
      /\ Left(f) = Letters(Behind(arg.letters, in_short), f[idx + 1])
  BY ShortLeft
<1>2. PICK s, T : s = arg.letters /\ T = ToSet(arg.letters) \ {""}
  OBVIOUS
<1>3. s \in Seq(T) /\ "" \notin T /\ in_short < Len(s)
  BY <1>1, <1>2
<1>4. /\ Behind(s, in_short) = {s[in_short + 1]} \cup Behind(s, in_short + 1)
      /\ s[in_short + 1] \in T /\ s # <<>>
      /\ in_short + 1 = Len(s) => Behind(s, in_short + 1) = {}
  BY <1>1, <1>3, NextLetter
<1>5. letter = s[in_short + 1]
  BY <1>2, <1>4 DEF letter
<1>6. Len(s) \in Nat
  <2>1. s \in Seq(T)
    BY <1>3
  <2> QED  BY <2>1, LenProperties
<1> QED
  BY <1>1, <1>2, <1>3, <1>4, <1>5, <1>6

LEMMA ShortRefused ==
  ASSUME Standing, AtShort, Matches = {}, NEW f, Reads(argv, f), Left(f) # Unspecified
  PROVE  Left(f) = Refused
<1>1. PICK c : c = letter
  OBVIOUS
<1>2. \A o \in DOMAIN Options : Options[o].alias # c
  BY <1>1, ShortMatches DEF AtShort
<1>3. PICK more, rest : Left(f) = Letters({c} \cup more, rest)
  BY <1>1, AtLetter
<1> QED
  BY <1>2, <1>3, UnknownLetter

\* A letter has no value.
LEMMA ShortNoValue ==
  ASSUME Standing, AtShort, Matches # {}, NEW f, Reads(argv, f), Left(f) # Unspecified
  PROVE  option.type # "VALUE"
<1>1. letter # "" /\ arg.type = "short"
  BY AtLetter DEF AtShort
<1> QED
  BY <1>1, ShortOption

LEMMA ShortSwitchLeft ==
  ASSUME Standing, ShortSwitch, NEW f, Reads(argv, f), Left(f) # Unspecified
  PROVE  Standing' /\ Merge(switches, values, Left(f))' = Merge(switches, values, Left(f))
<1>1. AtShort /\ Matches # {} /\ option.type = "SWITCH"
  BY DEF ShortSwitch
<1>2. /\ letter # "" /\ in_short < Len(arg.letters) /\ Len(arg.letters) \in Nat
      /\ Left(f) = Letters({letter} \cup Behind(arg.letters, in_short + 1), f[idx + 1])
      /\ in_short + 1 = Len(arg.letters) => Behind(arg.letters, in_short + 1) = {}
  BY <1>1, AtLetter
<1>3. PICK o \in DOMAIN Options : option = Options[o] /\ Options[o].alias = letter
  BY <1>1, <1>2, ShortOption DEF AtShort
<1>4. PICK more, rest, name : /\ more = Behind(arg.letters, in_short + 1)
                              /\ rest = f[idx + 1] /\ name = Options[o].name
  OBVIOUS
<1>5. Left(f) = IF Known(more) THEN Adding({name} \cup Named(more), rest) ELSE Refused
  <2>1. Left(f) = Letters({Options[o].alias} \cup more, rest)
    BY <1>2, <1>3, <1>4
  <2>2. Options[o].alias # ""
    BY <1>2, <1>3
  <2>3. Letters({Options[o].alias} \cup more, rest)
          = IF Known(more) THEN Adding({Options[o].name} \cup Named(more), rest) ELSE Refused
    BY <2>2, KnownLetter
  <2> QED  BY <1>4, <2>1, <2>3
<1>6. /\ Len(argv) \in Nat /\ idx \in 1..Len(argv) /\ list = 0 /\ ~in_literal
      /\ in_short \in Nat /\ arg.type = "short"
  BY <1>1, ShortLeft
<1>7. /\ argv' = argv /\ in_literal' = in_literal /\ in_args' = in_args
      /\ list' = list /\ values' = values
  BY DEF ShortSwitch
<1>8. PICK sw, vs : sw = switches /\ vs = values /\ switches' = sw \cup {name} /\ values' = vs
  BY <1>3, <1>4, <1>7 DEF ShortSwitch
<1>9. CASE in_short + 1 < Len(arg.letters)
  <2>1. in_short' = in_short + 1 /\ idx' = idx
    BY <1>9 DEF ShortSwitch
  <2>2. Left(f)' = Letters(more, rest)
    BY <1>4, <1>6, <1>7, <2>1 DEF Left, arg
  <2>3. Standing'
    BY <1>6, <1>7, <1>9, <2>1 DEF Standing, arg
  <2>4. Merge(sw, vs, Adding({name} \cup Named(more), rest))
          = Merge(sw \cup {name}, vs, Adding(Named(more), rest))
    <3>1. sw \cup ({name} \cup Named(more)) = (sw \cup {name}) \cup Named(more)
      OBVIOUS
    <3>2. Merge(sw, vs, Adding({name} \cup Named(more), rest))
            = Merge(sw \cup ({name} \cup Named(more)), vs, rest)
      BY MergeAdding
    <3>3. Merge(sw \cup {name}, vs, Adding(Named(more), rest))
            = Merge((sw \cup {name}) \cup Named(more), vs, rest)
      BY MergeAdding
    <3> QED  BY <3>1, <3>2, <3>3
  <2>5. Merge(sw, vs, Refused) = Merge(sw \cup {name}, vs, Refused)
    BY UnspecifiedLeft
  <2> QED
    BY <1>5, <1>8, <2>2, <2>3, <2>4, <2>5 DEF Letters
<1>10. CASE ~(in_short + 1 < Len(arg.letters))
  <2>1. in_short' = 0 /\ idx' = idx + 1
    BY <1>10 DEF ShortSwitch
  <2>2. more = {}
    <3>1. \A j, n \in Nat : j < n /\ ~(j + 1 < n) => j + 1 = n
      OBVIOUS
    <3>2. in_short + 1 = Len(arg.letters)
      BY <1>2, <1>6, <1>10, <3>1
    <3> QED  BY <1>2, <1>4, <3>2
  <2>3. Left(f)' = rest
    BY <1>4, <1>6, <1>7, <2>1 DEF Left
  <2>4. Standing'
    BY <1>6, <1>7, <2>1 DEF Standing
  <2>5. Left(f) = Adding({name}, rest)
    <3>1. Known({}) /\ {name} \cup Named({}) = {name}
      BY DEF Known, Named
    <3> QED  BY <1>5, <2>2, <3>1
  <2>6. Merge(sw, vs, Adding({name}, rest)) = Merge(sw \cup {name}, vs, rest)
    BY MergeAdding
  <2> QED
    BY <1>8, <2>3, <2>4, <2>5, <2>6
<1> QED
  BY <1>9, <1>10

-----------------------------------------------------------------------------
(* The list of arguments, and the end of the line *)

LEMMA ListLeft ==
  ASSUME Standing, parse_arg, NEW f, Reads(argv, f)
  PROVE  Standing' /\ Left(f)' = Left(f)
<1>1. Len(argv) \in Nat /\ \A h \in 1..Len(argv) : IsArgument(argv[h])
  BY Arguments DEF Standing
<1>2. idx \in 1..Len(argv) /\ list = 0 /\ (in_short # 0 => arg.type = "short" /\ ~in_literal)
  BY <1>1 DEF Standing, parse_arg, arg
<1>3. /\ argv' = argv /\ list' = idx /\ in_args' = Len(argv) - idx + 1
      /\ idx' = Len(argv) + 1 /\ in_short' = in_short /\ in_literal' = in_literal
      /\ values' = values
  BY DEF parse_arg, set
<1>4. in_short = 0
  BY <1>2 DEF parse_arg
<1>5. Left(f) = Meaning({}, NoValues, SubSeq(argv, idx, Len(argv)))
  <2>1. CASE in_literal
    BY <1>2, <2>1 DEF Left
  <2>2. CASE ~in_literal
    <3>1. argv[idx].type = "word"
      BY <2>2 DEF parse_arg, arg
    <3>2. Left(f) = Reading(argv, f, idx)
      BY <1>2, <1>4, <2>2 DEF Left, Reads, Standing
    <3>3. argv[idx] # Long("", NULL) /\ argv[idx] # Short(<<>>)
      <4>1. Long("", NULL).type = "long"
        BY LongParts
      <4>2. Short(<<>>).type = "short"
        BY ShortParts
      <4> QED  BY <3>1, <4>1, <4>2
    <3>4. ~(idx > Len(argv))
      BY <1>1, <1>2
    <3> QED  BY <3>1, <3>2, <3>3, <3>4 DEF Reading
  <2> QED  BY <2>1, <2>2
<1>6. Left(f)' = Meaning({}, NoValues, SubSeq(argv, idx, Len(argv)))
  <2>1. list' # 0
    BY <1>2, <1>3
  <2>2. list' + in_args' - 1 = Len(argv)
    BY <1>1, <1>2, <1>3
  <2> QED  BY <1>3, <2>1, <2>2 DEF Left, Meaning, NoValues, Names
<1>7. Standing'
  <2>1. in_args' \in Nat /\ idx' \in 1..(Len(argv') + 1) /\ list' \in Nat
    BY <1>1, <1>2, <1>3
  <2> QED  BY <1>3, <1>4, <2>1 DEF Standing
<1> QED
  BY <1>5, <1>6, <1>7

\* At the end of the line, what is set is what the line says.
LEMMA NothingLeft ==
  ASSUME Standing, Finish, NEW f, Reads(argv, f)
  PROVE  Merge(switches, values, Left(f)) = Parsed
<1>1. Len(argv) \in Nat
  BY Arguments DEF Standing
<1>2. idx = Len(argv) + 1
  BY <1>1 DEF Standing, Finish
<1>3. in_short = 0
  BY <1>1, <1>2 DEF Standing
<1> DEFINE files == IF list = 0 THEN <<>> ELSE SubSeq(argv, list, list + in_args - 1)
<1>4. Left(f) = Meaning({}, NoValues, files)
  <2>1. CASE list # 0
    BY <2>1 DEF Left
  <2>2. CASE list = 0 /\ in_literal
    <3>1. SubSeq(argv, idx, Len(argv)) = <<>>
      <4>1. idx \in Int /\ Len(argv) \in Int /\ Len(argv) < idx
        BY <1>1, <1>2
      <4> QED  BY <4>1, SubSeqEmpty
    <3> QED  BY <2>2, <3>1 DEF Left
  <2>3. CASE list = 0 /\ ~in_literal
    <3>1. Left(f) = Reading(argv, f, idx)
      BY <1>3, <2>3 DEF Left, Reads, Standing
    <3>2. idx > Len(argv)
      BY <1>1, <1>2
    <3> QED  BY <2>3, <3>1, <3>2 DEF Reading
  <2> QED  BY <2>1, <2>2, <2>3
<1> HIDE DEF files
<1>5. values = [n \in Names("VALUE") |-> values[n]]
  BY DEF Standing
<1>6. Merge(switches, values, Meaning({}, NoValues, files)) = Meaning(switches, values, files)
  BY <1>5, NothingMerged
<1> QED
  BY <1>4, <1>6 DEF Parsed, files

-----------------------------------------------------------------------------
(* The invariant holds *)

LEMMA OptionsStart ==
  ASSUME OptionsInit
  PROVE  OptionsInv
<1>1. Len(argv) \in Nat
  BY Arguments DEF OptionsInit
<1>2. Standing
  <2>1. values = [n \in Names("VALUE") |-> values[n]]
    BY DEF OptionsInit
  <2>2. idx \in 1..(Len(argv) + 1)
    BY <1>1 DEF OptionsInit
  <2> QED  BY <2>1, <2>2 DEF OptionsInit, Standing
<1>3. ASSUME NEW f, Reads(argv, f)
      PROVE  Explained(f)
  <2>1. 1 \in 1..(Len(argv) + 1)
    BY <1>1
  <2>2. IsMeaning(f[1])
    BY <1>1, <1>3, <2>1, EveryPartMeans
  <2>3. Merge({}, NoValues, f[1]) = f[1]
    BY <2>2, MergeNothing
  <2>4. Left(f) = f[1] /\ switches = {} /\ values = NoValues /\ status = "parsing"
    BY DEF OptionsInit, Left, NoValues
  <2> QED  BY <2>3, <2>4 DEF Explained
<1>4. argv \in CommandLines
  BY DEF OptionsInit
<1> QED
  BY <1>2, <1>3, <1>4 DEF OptionsInv

\* A step that finds an option, or the list, leaves what the line says alone.
LEMMA Found ==
  ASSUME NEW f, Explained(f), status = "parsing", argv' = argv,
         status' \in {"parsing", "undefined"},
         Merge(switches, values, Left(f))' = Merge(switches, values, Left(f))
  PROVE  Explained(f)'
BY DEF Explained

\* A step that refuses the line does so where the line says nothing.
LEMMA RefusedRight ==
  ASSUME NEW f, Explained(f), status = "parsing", Left(f) = Refused, argv' = argv,
         status' \in {"UNKNOWN_OPTION", "MISSING_VALUE"}
  PROVE  Explained(f)'
<1>1. Merge(switches, values, Refused) = Refused
  BY UnspecifiedLeft
<1> QED
  BY <1>1 DEF Explained

\* Nothing is specified when nothing is from where the parser stands.
LEMMA SpecifiedLeft ==
  ASSUME NEW f, Explained(f), status = "parsing", f[1] # Unspecified
  PROVE  Left(f) # Unspecified
<1>1. Merge(switches, values, Unspecified) = Unspecified
  BY UnspecifiedLeft
<1> QED
  BY <1>1 DEF Explained

LEMMA RecordStatus ==
  ASSUME Record PROVE status' \in {"parsing", "undefined"}
BY DEF Record

LEMMA RefuseStanding ==
  ASSUME Standing, UNCHANGED <<argv, parser, set>>
  PROVE  Standing'
BY DEF Standing, parser, set, Names

LEMMA OptionStep ==
  ASSUME Standing, adopt_parse, NEW f, Reads(argv, f), f[1] # Unspecified, Explained(f)
  PROVE  Standing' /\ argv' = argv /\ Explained(f)'
<1>1. CASE UnknownOption
  <2>1. /\ Matches = {} /\ status = "parsing" /\ status' = "UNKNOWN_OPTION"
        /\ UNCHANGED <<argv, parser, set>>
    BY <1>1 DEF UnknownOption, Refuse, AtLong, AtShort
  <2>2. Left(f) # Unspecified
    BY <2>1, SpecifiedLeft
  <2>3. Left(f) = Refused
    BY <1>1, <2>1, <2>2, LongRefused, ShortRefused DEF UnknownOption
  <2> QED  BY <2>1, <2>3, RefusedRight, RefuseStanding
<1>2. CASE Literal
  <2>1. status = "parsing" /\ argv' = argv /\ status' \in {"parsing", "undefined"}
    BY <1>2, RecordStatus DEF Literal, AtLong
  <2>2. Standing' /\ Merge(switches, values, Left(f))' = Merge(switches, values, Left(f))
    BY <1>2, LiteralLeft
  <2> QED  BY <2>1, <2>2, Found
<1>3. CASE LongSwitch
  <2>1. status = "parsing" /\ argv' = argv /\ status' \in {"parsing", "undefined"}
    BY <1>3, RecordStatus DEF LongSwitch, AtLong
  <2>2. Standing' /\ Merge(switches, values, Left(f))' = Merge(switches, values, Left(f))
    BY <1>3, LongSwitchLeft
  <2> QED  BY <2>1, <2>2, Found
<1>4. CASE ShortSwitch
  <2>1. status = "parsing" /\ argv' = argv /\ status' \in {"parsing", "undefined"}
    BY <1>4, RecordStatus DEF ShortSwitch, AtShort
  <2>2. Left(f) # Unspecified
    BY <2>1, SpecifiedLeft
  <2>3. Standing' /\ Merge(switches, values, Left(f))' = Merge(switches, values, Left(f))
    BY <1>4, <2>2, ShortSwitchLeft
  <2> QED  BY <2>1, <2>3, Found
<1>5. CASE Value
  <2>1. status = "parsing" /\ Matches # {} /\ option.type = "VALUE"
    BY <1>5 DEF Value, AtLong, AtShort
  <2>2. Left(f) # Unspecified
    BY <2>1, SpecifiedLeft
  <2>3. AtLong
    BY <1>5, <2>1, <2>2, ShortNoValue DEF Value
  <2>4. PICK v \in ValuesHere :
           \/ v[1] = NULL /\ Refuse("MISSING_VALUE")
           \/ /\ v[1] # NULL
              /\ values' = [values EXCEPT ![option.name] = v[1]]
              /\ idx' = idx + v[2]
              /\ in_short' = 0
              /\ Record
              /\ UNCHANGED <<argv, in_literal, in_args, list, switches>>
    BY <1>5 DEF Value
  <2>5. CASE v[1] = NULL
    <3>1. status' = "MISSING_VALUE" /\ UNCHANGED <<argv, parser, set>>
      BY <2>4, <2>5 DEF Refuse
    <3>2. Left(f) = Refused
      BY <2>1, <2>3, <2>5, LongMissing
    <3> QED  BY <2>1, <3>1, <3>2, RefusedRight, RefuseStanding
  <2>6. CASE v[1] # NULL
    <3>1. argv' = argv /\ status' \in {"parsing", "undefined"}
      BY <2>4, <2>6, RecordStatus
    <3>2. /\ values' = [values EXCEPT ![option.name] = v[1]]
          /\ idx' = idx + v[2] /\ in_short' = 0
          /\ UNCHANGED <<argv, in_literal, in_args, list, switches>>
      BY <2>4, <2>6
    <3>3. Standing' /\ Merge(switches, values, Left(f))' = Merge(switches, values, Left(f))
      BY <1>5, <2>3, <2>6, <3>2, LongValueLeft
    <3> QED  BY <2>1, <3>1, <3>3, Found
  <2> QED  BY <2>5, <2>6
<1>6. CASE parse_arg
  <2>1. /\ status = "parsing" /\ argv' = argv /\ status' \in {"parsing", "undefined"}
        /\ switches' = switches /\ values' = values
    BY <1>6, RecordStatus DEF parse_arg, set
  <2>2. Standing' /\ Left(f)' = Left(f)
    BY <1>6, ListLeft
  <2>3. Merge(switches, values, Left(f))' = Merge(switches, values, Left(f))
    BY <2>1, <2>2 DEF Merge, Meaning, Names
  <2> QED  BY <2>1, <2>2, <2>3, Found
<1>7. CASE Finish
  <2>1. /\ status = "parsing" /\ status' \in {"done", "undefined"}
        /\ UNCHANGED <<argv, parser, set>>
    BY <1>7 DEF Finish
  <2>2. Merge(switches, values, Left(f)) = Parsed
    BY <1>7, NothingLeft
  <2>3. Parsed' = Parsed
    BY <2>1 DEF Parsed, Meaning, parser, set
  <2>4. f[1] = Parsed
    BY <2>1, <2>2 DEF Explained
  <2>5. Explained(f)'
    BY <2>1, <2>3, <2>4 DEF Explained
  <2> QED  BY <2>1, <2>5, RefuseStanding
<1> QED
  BY <1>1, <1>2, <1>3, <1>4, <1>5, <1>6, <1>7 DEF adopt_parse

LEMMA OptionsStep ==
  ASSUME OptionsInv, [adopt_parse]_avars
  PROVE  OptionsInv'
<1>1. CASE adopt_parse
  <2>1. argv' = argv
    BY <1>1 DEF adopt_parse, UnknownOption, Literal, LongSwitch, ShortSwitch, Value,
             parse_arg, Finish, Refuse
  <2>2. ASSUME NEW f, Reads(argv, f), f[1] # Unspecified
        PROVE  Standing' /\ Explained(f)'
    <3>1. Standing /\ Explained(f)
      BY <2>2 DEF OptionsInv
    <3> QED  BY <1>1, <2>2, <3>1, OptionStep
  <2>3. \A f : Reads(argv, f)' <=> Reads(argv, f)
    BY <2>1 DEF Reads
  <2> QED  BY <2>1, <2>2, <2>3 DEF OptionsInv, Unspecified
<1>2. CASE UNCHANGED avars
  BY <1>2 DEF avars, parser, set, OptionsInv, Standing, Explained, Left, Parsed, Reads
<1> QED
  BY <1>1, <1>2

\* The invariant says what the property does.
LEMMA OptionsRead ==
  ASSUME OptionsInv
  PROVE  OptionsAsWritten
<1>1. Len(argv) \in Nat
  BY Arguments DEF OptionsInv
<1>2. PICK f : Reads(argv, f) /\ Written(argv) = f[1]
  BY <1>1, WrittenIsRead
<1>3. f[1] # Unspecified => Explained(f)
  BY <1>2 DEF OptionsInv
<1> QED
  BY <1>2, <1>3 DEF OptionsAsWritten, Explained

-----------------------------------------------------------------------------
(* The stream *)

\* What a line l may follow, and what digest it has to carry there.
Fits(before, l) ==
    /\ before.type \in Before[l.type]
    /\ l.type = "D" =>
          l.hash = Digest(IF before.type = "D" THEN before.hash ELSE <<>>, l.data)
    /\ l.type = "E" /\ before.type = "D" => l.hash = Digest(before.hash, <<>>)

\* A stream the terminal can check, whatever its lines are made of.
Sound(s) ==
    /\ \E S : s \in Seq(S)
    /\ s # <<>> => "nothing" \in Before[s[1].type]
    /\ \A k \in 2..Len(s) : Fits(s[k - 1], s[k])

End == stdout[Len(stdout)]

\* While a file is read, the last line is the header until there is a "D:" line,
\* and from then on the "D:" line whose digest is in previous_hash. Elsewhere the
\* last transfer is closed, unless a read has failed.
StreamInv ==
    /\ Sound(stdout) /\ errors \in Nat
    /\ pc \in {"options", "loop", "start", "read", "exiting", "exited"}
    /\ pc = "read" =>
          /\ stdout # <<>>
          /\ ~is_prev => End.type = "header"
          /\ is_prev  => End.type = "D" /\ End.hash = prev
    /\ pc \in {"options", "loop", "start"} => stdout = <<>> \/ End = NUL
    /\ pc \in {"exiting", "exited"} => stdout = <<>> \/ End = NUL \/ errors > 0

\* A line more keeps the stream sound if it fits the last one.
LEMMA LineAdded ==
  ASSUME NEW s, Sound(s), NEW l,
         IF s = <<>> THEN l.type = "header" ELSE Fits(s[Len(s)], l)
  PROVE  LET t == Append(s, l) IN
         Sound(t) /\ Len(t) \in Nat /\ t # <<>> /\ t[Len(t)] = l
<1>1. PICK S : s \in Seq(S)
  BY DEF Sound
<1> DEFINE T == S \cup {l}
           t == Append(s, l)
<1>2. l \in T /\ s \in Seq(T)
  BY <1>1
<1> HIDE DEF T
<1>3. /\ t \in Seq(T) /\ Len(s) \in Nat /\ Len(t) = Len(s) + 1 /\ t[Len(t)] = l
      /\ \A k \in 1..Len(s) : t[k] = s[k]
      /\ s = <<>> <=> Len(s) = 0
  BY <1>2, AppendProperties
<1> HIDE DEF t
<1>4. t # <<>> /\ "nothing" \in Before[t[1].type]
  <2>1. CASE s = <<>>
    BY <1>3, <2>1 DEF Before
  <2>2. CASE s # <<>>
    <3>1. 1 \in 1..Len(s)
      BY <1>3, <2>2
    <3> QED
      BY <1>3, <2>2, <3>1 DEF Sound
  <2> QED
    BY <2>1, <2>2
<1>5. ASSUME NEW k \in 2..Len(t) PROVE Fits(t[k - 1], t[k])
  <2>1. CASE k \in 2..Len(s)
    <3>1. k - 1 \in 1..Len(s) /\ k \in 1..Len(s)
      BY <1>3, <2>1
    <3>2. Fits(s[k - 1], s[k])
      BY <2>1 DEF Sound
    <3> QED
      BY <1>3, <3>1, <3>2
  <2>2. CASE k = Len(s) + 1
    <3>1. s # <<>> /\ k - 1 = Len(s) /\ Len(s) \in 1..Len(s)
      BY <1>3, <2>2
    <3> QED
      BY <1>3, <2>2, <3>1
  <2> QED
    BY <1>3, <2>1, <2>2
<1> QED
  BY <1>3, <1>4, <1>5 DEF Sound, t

LEMMA StreamInit == Init => StreamInv
<1> SUFFICES ASSUME Init PROVE StreamInv
  OBVIOUS
<1>1. stdout = <<>> /\ Len(stdout) = 0 /\ pc = "options" /\ errors = 0
  BY DEF Init
<1>2. \E S : stdout \in Seq(S)
  BY <1>1
<1> QED
  BY <1>1, <1>2 DEF StreamInv, Sound

\* Steps that write nothing.
LEMMA StreamStays ==
  ASSUME StreamInv, stdout' = stdout, errors' = errors,
         pc \in {"options", "loop", "start"} \/ pc = "exiting",
         pc' \in {"options", "loop", "start", "exiting", "exited"},
         pc = "exiting" => pc' = "exited"
  PROVE  (StreamInv)'
BY DEF StreamInv, End, NUL, Sound, Fits, Before, Digest

LEMMA StreamStep == StreamInv /\ [Next]_vars => StreamInv'
<1> SUFFICES ASSUME StreamInv, [Next]_vars PROVE StreamInv'
  OBVIOUS
<1>1. Sound(stdout) /\ errors \in Nat
  BY DEF StreamInv
<1>2. CASE UNCHANGED vars
  BY <1>2 DEF vars, StreamInv, Sound, Fits, Before, End, NUL, Digest, fileVars
<1>3. CASE ParseOptions
  <2>1. stdout' = stdout /\ errors' = errors /\ pc = "options" /\ pc' = "options"
    BY <1>3 DEF ParseOptions
  <2> QED
    BY <2>1, StreamStays
<1>4. CASE AnswerOptions \/ NotExtraterm
  <2>1. stdout' = stdout /\ errors' = errors /\ pc = "options" /\ pc' = "exiting"
    BY <1>4 DEF AnswerOptions, NotExtraterm, OptionsFollowed, Fail, Exit
  <2> QED
    BY <2>1, StreamStays
<1>5. CASE Start
  <2>1. stdout' = stdout /\ errors' = errors /\ pc = "options" /\ pc' = "loop"
    BY <1>5 DEF Start, OptionsFollowed
  <2> QED
    BY <2>1, StreamStays
<1>6. CASE NextFile
  <2>1. stdout' = stdout /\ errors' = errors /\ pc = "loop" /\ pc' \in {"start", "exiting"}
    BY <1>6 DEF NextFile, Fail, Exit
  <2> QED
    BY <2>1, StreamStays
<1>7. CASE StartTransfer
  <2> DEFINE h == Header(Parsed, current, SizeOf(current))
  <2>1. /\ stdout' = Append(stdout, h) /\ pc = "start" /\ pc' = "read"
        /\ is_prev' = FALSE /\ errors' = errors
    BY <1>7 DEF StartTransfer
  <2>2. h.type = "header"
    BY DEF Header
  <2> HIDE DEF h
  <2>3. IF stdout = <<>> THEN h.type = "header" ELSE Fits(End, h)
    BY <2>1, <2>2 DEF StreamInv, Fits, Before, NUL
  <2>4. Sound(stdout') /\ stdout' # <<>> /\ stdout'[Len(stdout')] = h
    BY <1>1, <2>1, <2>3, LineAdded DEF End
  <2> QED
    BY <1>1, <2>1, <2>2, <2>4 DEF StreamInv, End, Sound, Fits, Before, Digest
<1>8. ASSUME pc = "read"
      PROVE  /\ stdout # <<>>
             /\ ~is_prev => End.type = "header"
             /\ is_prev  => End.type = "D" /\ End.hash = prev
  BY <1>8 DEF StreamInv
<1>9. CASE SendChunk
  <2>1. PICK n \in 1..MaxChunkBytes :
          /\ Read(n)
          /\ LET data == SubSeq(content[current], pos + 1, pos + n)
             IN  /\ prev' = Digest(IF is_prev THEN prev ELSE <<>>, data)
                 /\ stdout' = Append(stdout, DLine(data, prev'))
          /\ is_prev' = TRUE /\ pc' = pc
    BY <1>9 DEF SendChunk
  <2> DEFINE data == SubSeq(content[current], pos + 1, pos + n)
             l == DLine(data, prev')
  <2>2. /\ pc = "read" /\ pc' = "read" /\ is_prev' = TRUE
        /\ stdout' = Append(stdout, l)
        /\ prev' = Digest(IF is_prev THEN prev ELSE <<>>, data)
    BY <2>1 DEF Read
  <2>3. errors' \in Nat
    BY <1>1, <2>1 DEF Read
  <2>4. l.type = "D" /\ l.hash = prev' /\ l.data = data
    BY DEF DLine
  <2> HIDE DEF l, data
  <2>5. Fits(End, l)
    BY <1>8, <2>2, <2>4 DEF Fits, Before
  <2>6. Sound(stdout') /\ stdout' # <<>> /\ stdout'[Len(stdout')] = l
    BY <1>1, <1>8, <2>2, <2>5, LineAdded DEF End
  <2> QED
    BY <2>2, <2>3, <2>4, <2>6 DEF StreamInv, End, Sound, Fits, Before, Digest
<1>10. CASE ReadError
  <2>1. pc = "read" /\ pc' = "exiting" /\ stdout' = stdout
    BY <1>10 DEF ReadError, Read, Fail, Exit
  <2>2. errors' = errors + 1
    <3>1. 0 < MaxChunkBytes
      BY ShowAssumption
    <3>2. feof' = (feof \/ 0 < MaxChunkBytes) \/ errors' = errors + 1
      BY <1>10 DEF ReadError, Read
    <3>3. ~feof'
      BY <1>10 DEF ReadError
    <3> QED
      BY <3>1, <3>2, <3>3
  <2>3. errors' > 0 /\ errors' \in Nat
    BY <1>1, <2>2
  <2> QED
    BY <1>1, <2>1, <2>3 DEF StreamInv, Sound, Fits, Before, Digest
<1>11. CASE EndTransfer
  <2> DEFINE e == ELine(prev')
             s == Append(stdout, e)
  <2>1. /\ pc = "read" /\ pc' = "loop" /\ stdout' = stdout \o <<e, NUL>>
        /\ prev' = Digest(prev, <<>>)
    BY <1>11 DEF EndTransfer, Read
  <2>2. errors' \in Nat
    BY <1>1, <1>11 DEF EndTransfer, Read
  <2>3. e.type = "E" /\ e.hash = Digest(prev, <<>>)
    BY <2>1 DEF ELine
  <2>4. stdout' = Append(s, NUL)
    <3> HIDE DEF e
    <3>1. PICK S : stdout \in Seq(S)
      BY <1>1 DEF Sound
    <3>2. stdout \in Seq(S \cup {e, NUL})
      BY <3>1
    <3> QED
      BY <2>1, <3>2
  <2> HIDE DEF e
  <2>5. Fits(End, e)
    BY <1>8, <2>1, <2>3 DEF Fits, Before
  <2>6. Sound(s) /\ s # <<>> /\ s[Len(s)] = e
    BY <1>1, <1>8, <2>1, <2>5, LineAdded DEF End
  <2>7. Fits(e, NUL)
    BY <2>3 DEF Fits, Before, NUL
  <2> HIDE DEF s
  <2>8. Sound(stdout') /\ stdout' # <<>> /\ stdout'[Len(stdout')] = NUL
    BY <2>4, <2>6, <2>7, LineAdded
  <2> QED
    BY <2>1, <2>2, <2>8 DEF StreamInv, End, Sound, Fits, Before, Digest, NUL
<1>12. CASE RunExitHooks
  <2>1. stdout' = stdout /\ errors' = errors /\ pc = "exiting" /\ pc' = "exited"
    BY <1>12 DEF RunExitHooks
  <2> QED
    BY <2>1, StreamStays
<1> QED
  BY <1>2, <1>3, <1>4, <1>5, <1>6, <1>7, <1>9, <1>10, <1>11, <1>12 DEF Next

LEMMA StreamHolds == Spec => []StreamInv
<1> QED
  BY StreamInit, StreamStep, PTL DEF Spec

\* The terminal can check every line as it comes, across the files of a command
\* line and reads that fail (show.c:58-71, 78-83).
THEOREM ChainCorrect == Spec => []ChainVerifies
<1>1. StreamInv => ChainVerifies
  BY DEF StreamInv, Sound, Fits, ChainVerifies
<1> QED
  BY <1>1, StreamHolds, PTL

\* No transfer begins inside another, and only a failed read leaves one open
\* (show.c:51-54).
THEOREM TransfersCorrect == Spec => []TransfersClosed
<1>1. StreamInv => TransfersClosed
  <2> SUFFICES ASSUME StreamInv PROVE TransfersClosed
    OBVIOUS
  <2>1. PICK S : stdout \in Seq(S)
    BY DEF StreamInv, Sound
  <2>2. ASSUME NEW k \in DOMAIN stdout
        PROVE  (IF k = 1 THEN "nothing" ELSE stdout[k - 1].type)
                  \in Before[stdout[k].type]
    <3>1. k \in 1..Len(stdout) /\ Len(stdout) \in Nat /\ stdout # <<>>
      BY <2>1
    <3>2. CASE k = 1
      BY <3>1, <3>2 DEF StreamInv, Sound
    <3>3. CASE k # 1
      BY <3>1, <3>3 DEF StreamInv, Sound, Fits
    <3> QED
      BY <3>2, <3>3
  <2>3. pc = "exited" => stdout = <<>> \/ Last(stdout) = NUL \/ errors > 0
    BY DEF StreamInv, End, Last
  <2> QED
    BY <2>2, <2>3 DEF TransfersClosed
<1> QED
  BY <1>1, StreamHolds, PTL

-----------------------------------------------------------------------------
(* The options *)

\* Whatever options there are, and however they are written, the parser finds
\* what the command line says, or refuses it (adopt.c:300-574).
THEOREM OptionsCorrect == Spec => []OptionsAsWritten
<1>1. Init => OptionsInv
  BY OptionsStart DEF Init
<1>2. OptionsInv /\ [Next]_vars => OptionsInv'
  <2>1. [Next]_vars => [adopt_parse]_avars
    BY DEF Next, vars, ParseOptions, AnswerOptions, NotExtraterm, Start, NextFile,
           StartTransfer, SendChunk, ReadError, EndTransfer, RunExitHooks
  <2> QED  BY <2>1, OptionsStep
<1>3. OptionsInv => OptionsAsWritten
  BY OptionsRead
<1> QED
  BY <1>1, <1>2, <1>3, PTL DEF Spec

-----------------------------------------------------------------------------
(* What the terminal receives *)

\* f[k] is what the terminal has after k lines of the stream.
Takes(stream, f) ==
  f = [k \in 0..Len(stream) |-> IF k = 0 THEN <<>> ELSE Take(f[k - 1], stream[k])]

\* However Received is computed, x is what it gives.
Got(stream, x) == \A f : Takes(stream, f) => f[Len(stream)] = x

\* There is such a function, by induction on how many lines it is right for.
LEMMA TakesExists ==
  ASSUME NEW s, Len(s) \in Nat
  PROVE  \E f : Takes(s, f)
<1> DEFINE D == 0..Len(s)
           After(f, k) == IF k = 0 THEN <<>> ELSE Take(f[k - 1], s[k])
           Right(f, m) == \A k \in D : k < m => f[k] = After(f, k)
           S == {m \in Nat : \E f : Right(f, m)}
<1>1. 0 \in S
  <2>1. Right(<<>>, 0)
    OBVIOUS
  <2> QED  BY <2>1
<1>2. ASSUME NEW m \in Nat, m \in S
      PROVE  m + 1 \in S
  <2>1. PICK f : Right(f, m)
    BY <1>2
  <2> DEFINE g == [k \in D |-> IF k < m THEN f[k] ELSE After(f, k)]
  <2>2. ASSUME NEW k \in D, k < m + 1
        PROVE  g[k] = After(g, k)
    <3>1. g[k] = After(f, k)
      BY <2>1
    <3>2. k # 0 => k - 1 \in D /\ k - 1 < m
      BY <2>2
    <3>3. k # 0 => g[k - 1] = f[k - 1]
      BY <3>2
    <3> HIDE DEF g
    <3> QED  BY <3>1, <3>3
  <2>3. Right(g, m + 1)
    BY <2>2
  <2>4. m + 1 \in Nat
    OBVIOUS
  <2> HIDE DEF g, Right
  <2> QED  BY <2>3, <2>4
<1>3. Len(s) + 1 \in S
  <2>1. Len(s) + 1 \in Nat
    OBVIOUS
  <2> HIDE DEF S
  <2> QED  BY <1>1, <1>2, <2>1, NatSetInduction
<1>4. PICK f : Right(f, Len(s) + 1)
  BY <1>3
<1> DEFINE g == [k \in D |-> f[k]]
<1>5. ASSUME NEW k \in D
      PROVE  g[k] = After(g, k)
  <2>1. k < Len(s) + 1
    OBVIOUS
  <2>2. g[k] = After(f, k)
    BY <1>4, <2>1
  <2>3. k # 0 => k - 1 \in D
    OBVIOUS
  <2>4. k # 0 => g[k - 1] = f[k - 1]
    BY <2>3
  <2> HIDE DEF g
  <2> QED  BY <2>2, <2>4
<1>6. g = [k \in D |-> After(g, k)]
  <2>1. g = [k \in D |-> g[k]]
    OBVIOUS
  <2> HIDE DEF g, After
  <2> QED  BY <1>5, <2>1
<1> HIDE DEF g
<1> QED  BY <1>6 DEF Takes

LEMMA GotReceived ==
  ASSUME NEW s, Len(s) \in Nat, NEW x, Got(s, x)
  PROVE  Received(s) = x
<1> DEFINE f == CHOOSE got :
                   got = [k \in 0..Len(s) |-> IF k = 0 THEN <<>> ELSE Take(got[k - 1], s[k])]
<1>1. \E got : got = [k \in 0..Len(s) |-> IF k = 0 THEN <<>> ELSE Take(got[k - 1], s[k])]
  BY TakesExists DEF Takes
<1>2. f = [k \in 0..Len(s) |-> IF k = 0 THEN <<>> ELSE Take(f[k - 1], s[k])]
  BY <1>1, Zenon
<1>3. Received(s) = f[Len(s)]
  BY Zenon DEF Received
<1> HIDE DEF f
<1> QED  BY <1>2, <1>3 DEF Takes, Got

LEMMA GotNothing == Got(<<>>, <<>>)
<1> SUFFICES ASSUME NEW f, Takes(<<>>, f) PROVE f[0] = <<>>
  BY DEF Got
<1> QED  BY DEF Takes

\* A line more.
LEMMA GotMore ==
  ASSUME NEW S, NEW s \in Seq(S), NEW x, Got(s, x), NEW l \in S
  PROVE  Got(Append(s, l), Take(x, l))
<1>1. PICK t, n : t = Append(s, l) /\ n = Len(s)
  OBVIOUS
<1>2. /\ n \in Nat /\ t \in Seq(S) /\ Len(t) = n + 1 /\ t[n + 1] = l
      /\ \A k \in 1..n : t[k] = s[k]
  BY <1>1, AppendProperties
<1>3. ASSUME NEW f, Takes(t, f)
      PROVE  f[n + 1] = Take(x, l)
  <2> DEFINE g == [k \in 0..n |-> f[k]]
  <2>1. \A k \in 0..(n + 1) : f[k] = IF k = 0 THEN <<>> ELSE Take(f[k - 1], t[k])
    BY <1>2, <1>3 DEF Takes
  <2>2. ASSUME NEW k \in 0..n
        PROVE  g[k] = IF k = 0 THEN <<>> ELSE Take(g[k - 1], s[k])
    <3>1. k \in 0..(n + 1)
      BY <1>2
    <3>2. k # 0 => k - 1 \in 0..n /\ k \in 1..n
      BY <1>2
    <3>3. k # 0 => g[k - 1] = f[k - 1] /\ t[k] = s[k]
      BY <1>2, <3>2
    <3>4. g[k] = f[k]
      OBVIOUS
    <3> HIDE DEF g
    <3> QED  BY <2>1, <3>1, <3>3, <3>4
  <2>3. g = [k \in 0..n |-> g[k]] /\ g[n] = f[n]
    BY <1>2
  <2> HIDE DEF g
  <2>4. Takes(s, g)
    BY <1>1, <2>2, <2>3 DEF Takes
  <2>5. f[n] = x
    BY <1>1, <2>3, <2>4 DEF Got
  <2>6. f[n + 1] = Take(f[n], t[n + 1])
    <3>1. n + 1 \in 0..(n + 1) /\ n + 1 # 0 /\ (n + 1) - 1 = n
      BY <1>2
    <3> QED  BY <2>1, <3>1
  <2> QED  BY <1>2, <2>5, <2>6
<1> QED
  BY <1>1, <1>2, <1>3 DEF Got

\* A transfer the terminal has received in part.
Part(header, data, closed) == [header |-> header, data |-> data, closed |-> closed]
Open(header, data) == Part(header, data, FALSE)
Shut(header, data) == Part(header, data, TRUE)

Joined(data, more) == data \o more

LEMMA TakeHeader ==
  ASSUME NEW got, NEW l, l.type = "header"
  PROVE  Take(got, l) = Append(got, Open(l, <<>>))
BY DEF Take, Part, Open, Shut

LEMMA TakeEnd ==
  ASSUME NEW got, NEW l, l.type = "E"
  PROVE  Take(got, l) = got
BY DEF Take

LEMMA PartChanges ==
  ASSUME NEW h, NEW data, NEW closed, NEW x
  PROVE  /\ [Part(h, data, closed) EXCEPT !.data = x] = Part(h, x, closed)
         /\ Part(h, data, closed).data = data
BY DEF Part

LEMMA PartCloses ==
  ASSUME NEW h, NEW data, NEW closed, NEW x
  PROVE  [Part(h, data, closed) EXCEPT !.closed = x] = Part(h, data, x)
BY DEF Part

LEMMA TakeData ==
  ASSUME NEW S, NEW got \in Seq(S), NEW h, NEW data, NEW l, l.type = "D"
  PROVE  Take(Append(got, Open(h, data)), l)
           = Append(got, Open(h, Joined(data, l.data)))
<1>1. PICK x, y, n, g : /\ x = Open(h, data) /\ y = Open(h, Joined(data, l.data))
                        /\ n = Len(got) + 1 /\ g = Append(got, x)
  OBVIOUS
<1>2. PICK T : T = S \cup {x, y}
  OBVIOUS
<1>3. got \in Seq(T) /\ x \in T /\ y \in T
  BY <1>2
<1>4. Len(g) = n /\ g[n] = x /\ [g EXCEPT ![n] = y] = Append(got, y)
  <2>1. /\ Len(Append(got, x)) = Len(got) + 1
        /\ Append(got, x)[Len(got) + 1] = x
        /\ [Append(got, x) EXCEPT ![Len(got) + 1] = y] = Append(got, y)
    BY <1>3, LastReplaced
  <2> QED  BY <1>1, <2>1
<1>5. y = [x EXCEPT !.data = x.data \o l.data]
  <2>1. PICK open, more : open = FALSE /\ more = Joined(data, l.data) /\ more = data \o l.data
    BY DEF Joined
  <2>2. /\ [Part(h, data, open) EXCEPT !.data = more] = Part(h, more, open)
        /\ Part(h, data, open).data = data
    BY PartChanges
  <2> QED  BY <1>1, <2>1, <2>2 DEF Open
<1>6. Take(g, l) = [g EXCEPT ![Len(g)].data = @ \o l.data]
  BY DEF Take
<1>7. Take(g, l) = [g EXCEPT ![n] = y]
  BY <1>4, <1>5, <1>6
<1> QED
  BY <1>1, <1>4, <1>7

LEMMA TakeNul ==
  ASSUME NEW S, NEW got \in Seq(S), NEW h, NEW data
  PROVE  Take(Append(got, Open(h, data)), NUL) = Append(got, Shut(h, data))
<1>1. PICK x, y, n, g : /\ x = Open(h, data) /\ y = Shut(h, data)
                        /\ n = Len(got) + 1 /\ g = Append(got, x)
  OBVIOUS
<1>2. PICK T : T = S \cup {x, y}
  OBVIOUS
<1>3. got \in Seq(T) /\ x \in T /\ y \in T
  BY <1>2
<1>4. Len(g) = n /\ g[n] = x /\ [g EXCEPT ![n] = y] = Append(got, y)
  <2>1. /\ Len(Append(got, x)) = Len(got) + 1
        /\ Append(got, x)[Len(got) + 1] = x
        /\ [Append(got, x) EXCEPT ![Len(got) + 1] = y] = Append(got, y)
    BY <1>3, LastReplaced
  <2> QED  BY <1>1, <2>1
<1>5. y = [x EXCEPT !.closed = TRUE]
  <2>1. PICK open, shut : open = FALSE /\ shut = TRUE
    OBVIOUS
  <2>2. [Part(h, data, open) EXCEPT !.closed = shut] = Part(h, data, shut)
    BY PartCloses
  <2> QED  BY <1>1, <2>1, <2>2 DEF Open, Shut
<1>6. Take(g, NUL) = [g EXCEPT ![Len(g)].closed = TRUE]
  BY DEF Take, NUL
<1>7. Take(g, NUL) = [g EXCEPT ![n] = y]
  BY <1>4, <1>5, <1>6
<1> QED
  BY <1>1, <1>4, <1>7

-----------------------------------------------------------------------------
(* How far the files have been sent *)

\* The first n files, whole.
Done(n) == [h \in 1..n |-> Whole(Parsed, ToShow[h])]
Begun(n) == Append(Done(i - 1),
                   Open(Header(Parsed, current, SizeOf(current)),
                        SubSeq(content[current], 1, n)))
Bytes == Len(content[current])

\* Up to the file main is at, files have been sent whole, and of that one what
\* has been read. The end of a file is seen only when all of it has been read.
Sending ==
  /\ pc \in {"options", "loop", "start", "read", "exiting", "exited"}
  /\ i \in Nat \ {0} /\ pos \in Nat
  /\ pc = "options" => stdout = <<>> /\ i = 1
  /\ pc \in {"options", "loop", "start", "read"} => rc = 0
  /\ pc \in {"loop", "start", "read"} =>
        /\ status = "done" /\ i <= Len(ToShow) + 1
        /\ \A p \in DOMAIN content : content[p] \in Contents
  /\ pc \in {"loop", "start"} => Got(stdout, Done(i - 1))
  /\ pc \in {"start", "read"} => i <= Len(ToShow) /\ current \in DOMAIN content
  /\ pc = "read" =>
        /\ pos <= Bytes /\ (feof => pos = Bytes)
        /\ Got(stdout, Begun(pos))
  /\ pc \in {"exiting", "exited"} /\ rc = 0 =>
        /\ status = "done"
        /\ \/ Parsed.switches \cap {"help", "version"} # {}
           \/ Got(stdout, Done(Len(ToShow)))

\* A specified line is all that is claimed anything of.
Specified == \E f : Reads(argv, f) /\ f[1] # Unspecified
SentInv == Specified => Sending

\* What is shown is a sequence.
LEMMA FilesNamed ==
  ASSUME OptionsInv, Specified
  PROVE  Len(ToShow) \in Nat /\ DOMAIN ToShow = 1..Len(ToShow)
<1>1. Standing
  BY DEF OptionsInv, Specified
<1>2. PICK s : s = Parsed.files
  OBVIOUS
<1>3. Len(s) \in Nat /\ DOMAIN s = 1..Len(s)
  <2>1. argv \in Seq(ToSet(argv)) /\ list \in Nat /\ in_args \in Nat
    BY <1>1, LinesAssumption DEF Standing
  <2>2. s = IF list = 0 THEN <<>> ELSE SubSeq(argv, list, list + in_args - 1)
    BY <1>2 DEF Parsed, Meaning
  <2> QED  BY <2>1, <2>2
<1>4. ToShow = IF s = <<>> THEN <<Stdin>> ELSE s
  BY <1>2 DEF ToShow, ShownFor
<1>5. Len(ToShow) \in Nat /\ DOMAIN ToShow = 1..Len(ToShow)
  <2>1. Len(<<Stdin>>) = 1 /\ DOMAIN <<Stdin>> = 1..1
    OBVIOUS
  <2> QED  BY <1>3, <1>4, <2>1
<1> QED
  BY <1>5

LEMMA DoneNext ==
  ASSUME NEW n \in Nat
  PROVE  Done(n + 1) = Append(Done(n), Whole(Parsed, ToShow[n + 1]))
<1>1. PICK a, b, S : /\ a = Done(n) /\ b = Done(n + 1)
                     /\ S = {Whole(Parsed, ToShow[h]) : h \in Nat}
  OBVIOUS
<1>2. a \in Seq(S) /\ Len(a) = n /\ \A h \in 1..n : a[h] = Whole(Parsed, ToShow[h])
  BY <1>1 DEF Done
<1>3. /\ b \in Seq(S) /\ Len(b) = n + 1
      /\ \A h \in 1..(n + 1) : b[h] = Whole(Parsed, ToShow[h])
  BY <1>1 DEF Done
<1>4. PICK x : x = Whole(Parsed, ToShow[n + 1])
  OBVIOUS
<1>5. x \in S
  BY <1>1, <1>4
<1>6. /\ Append(a, x) \in Seq(S) /\ Len(Append(a, x)) = n + 1 /\ Append(a, x)[n + 1] = x
      /\ \A h \in 1..n : Append(a, x)[h] = a[h]
  BY <1>2, <1>5, AppendProperties
<1>7. ASSUME NEW h \in 1..(n + 1) PROVE Append(a, x)[h] = b[h]
  <2>1. CASE h = n + 1
    BY <1>3, <1>4, <1>6, <2>1
  <2>2. CASE h # n + 1
    <3>1. h \in 1..n
      BY <2>2
    <3> QED  BY <1>2, <1>3, <1>6, <3>1
  <2> QED  BY <2>1, <2>2
<1>8. Append(a, x) = b
  BY <1>3, <1>6, <1>7, SeqEqual
<1> QED
  BY <1>1, <1>4, <1>8

LEMMA DoneSequence ==
  ASSUME NEW n \in Nat
  PROVE  \E S : Done(n) \in Seq(S)
<1> DEFINE S == {Whole(Parsed, ToShow[h]) : h \in 1..n}
<1>1. Done(n) \in Seq(S)
  BY DEF Done
<1> QED
  BY <1>1

-----------------------------------------------------------------------------
(* One step *)

LEMMA SmallerOfTwo ==
  ASSUME NEW m \in Nat, NEW n \in Nat
  PROVE  Min({m, n}) \in {m, n} /\ Min({m, n}) <= m /\ Min({m, n}) <= n
<1>1. \E x \in {m, n} : \A y \in {m, n} : x <= y
  BY SmallestExists
<1>2. Min({m, n}) \in {m, n} /\ \A y \in {m, n} : Min({m, n}) <= y
  BY <1>1, Zenon DEF Min
<1> QED
  BY <1>2

\* What is read was not read before, and the end is not seen too early.
LEMMA ReadOn ==
  ASSUME pc = "read", pos \in Nat, Bytes \in Nat, pos <= Bytes, feof => pos = Bytes,
         NEW n \in Nat, Read(n)
  PROVE  pos + n <= Bytes /\ (feof' => pos + n = Bytes)
<1>1. PICK full : full = Min({MaxChunkBytes, Bytes - pos})
  OBVIOUS
<1>2. PICK max, left : max = MaxChunkBytes /\ left = Bytes - pos
  OBVIOUS
<1>3. max \in Nat /\ left \in Nat
  BY <1>2, ShowAssumption
<1>4. full \in {max, left} /\ full <= max /\ full <= left
  BY <1>1, <1>2, <1>3, SmallerOfTwo
<1>5. \/ n = full /\ feof' = (feof \/ n < max)
      \/ ~feof /\ n \in 0..full /\ feof' = feof
  BY <1>1, <1>2 DEF Read, Bytes
<1>6. n <= left
  BY <1>3, <1>4, <1>5
<1>7. feof' => n = left
  <2>1. CASE feof /\ n = full
    BY <1>2, <1>3, <1>4, <2>1
  <2>2. n = full /\ n < max => n = left
    BY <1>3, <1>4
  <2>3. CASE n = full /\ feof' = (feof \/ n < max)
    BY <2>1, <2>2, <2>3
  <2> QED  BY <1>5, <2>3
<1> QED
  BY <1>2, <1>6, <1>7

LEMMA SameFiles ==
  ASSUME avars' = avars, content' = content
  PROVE  /\ status' = status /\ Parsed' = Parsed /\ ToShow' = ToShow
         /\ \A n : Done(n)' = Done(n)
<1>1. status' = status /\ Parsed' = Parsed
  BY DEF avars, parser, set, Parsed, Meaning
<1>2. ToShow' = ToShow
  BY <1>1 DEF ToShow, ShownFor, Stdin, NULL
<1>3. \A o, p : Whole(o, p)' = Whole(o, p)
  BY DEF Whole, SizeOf, Header, UnknownSize, TextPlain, Word, Stdin, NULL
<1> QED
  BY <1>1, <1>2, <1>3 DEF Done, Whole, SizeOf, Header, UnknownSize

\* Steps that send nothing.
LEMMA SendingQuiet ==
  ASSUME OptionsInv, Specified, Sending,
         \/ AnswerOptions \/ NotExtraterm \/ Start \/ NextFile \/ ReadError \/ RunExitHooks
  PROVE  Sending'
<1>1. Len(ToShow) \in Nat /\ i \in Nat \ {0}
  BY FilesNamed DEF Sending
<1>2. CASE AnswerOptions
  <2>1. avars' = avars /\ content' = content
    BY <1>2 DEF AnswerOptions
  <2>2. /\ status' = status /\ Parsed' = Parsed
    BY <2>1, SameFiles
  <2>3. /\ pc' = "exiting" /\ i' = i /\ pos' = pos
        /\ rc' = 0 => status = "done" /\ Parsed.switches \cap {"help", "version"} # {}
    BY <1>2 DEF AnswerOptions, Fail, Exit, fileVars, Parsed, Meaning
  <2> QED  BY <2>2, <2>3 DEF Sending
<1>3. CASE NotExtraterm
  BY <1>3 DEF NotExtraterm, Fail, Exit, fileVars, Sending
<1>4. CASE Start
  <2>1. /\ pc = "options" /\ pc' = "loop" /\ status = "done" /\ avars' = avars
        /\ i' = i /\ pos' = pos /\ rc' = rc /\ stdout' = stdout
        /\ \A p \in DOMAIN content' : content'[p] \in Contents
    BY <1>4 DEF Start, OptionsFollowed, fileVars
  <2>2. status' = status /\ ToShow' = ToShow
    BY <2>1 DEF avars, parser, set, ToShow, ShownFor, Parsed, Meaning, Stdin, NULL
  <2>3. i = 1 /\ stdout = <<>> /\ rc = 0
    BY <2>1 DEF Sending
  <2>4. Got(stdout, Done(i - 1))'
    <3>1. Done(i - 1)' = <<>>
      <4>1. i' - 1 = 0
        BY <2>1, <2>3
      <4> QED  BY <4>1 DEF Done
    <3>2. stdout' = <<>>
      BY <2>1, <2>3
    <3>3. Got(stdout', Done(i - 1)')
      BY <3>1, <3>2, GotNothing
    <3> QED  BY <3>3 DEF Got, Takes, Take
  <2> QED  BY <1>1, <2>1, <2>2, <2>3, <2>4 DEF Sending
<1>5. CASE NextFile
  <2>1. /\ pc = "loop" /\ avars' = avars /\ content' = content /\ stdout' = stdout
        /\ i' = i /\ pos' = pos
    BY <1>5 DEF NextFile, fileVars
  <2>2. status' = status /\ Parsed' = Parsed /\ ToShow' = ToShow /\ \A n : Done(n)' = Done(n)
    BY <2>1, SameFiles
  <2>3. /\ status = "done" /\ i <= Len(ToShow) + 1 /\ rc = 0
        /\ \A p \in DOMAIN content : content[p] \in Contents
        /\ Got(stdout, Done(i - 1))
    BY <2>1 DEF Sending
  <2>4. \/ i > Len(ToShow) /\ pc' = "exiting"
        \/ pc' = "exiting" /\ rc' = 1
        \/ i <= Len(ToShow) /\ current \in DOMAIN content /\ pc' = "start" /\ rc' = rc
    BY <1>5 DEF NextFile, Exit, Fail
  <2>5. Done(i - 1)' = Done(i - 1) /\ current' = current
    BY <2>1, <2>2 DEF current, Done, Whole, SizeOf, Header, Stdin, NULL
  <2>6. i > Len(ToShow) => i - 1 = Len(ToShow)
    BY <1>1, <2>3
  <2>7. CASE i > Len(ToShow) /\ pc' = "exiting"
    <3>1. Done(Len(ToShow))' = Done(i - 1)
      BY <2>2, <2>5, <2>6, <2>7
    <3>2. Got(stdout, Done(Len(ToShow)))'
      <4>1. Got(stdout', Done(Len(ToShow))')
        BY <2>1, <2>3, <3>1
      <4> QED  BY <4>1 DEF Got, Takes, Take
    <3>3. i' \in Nat \ {0} /\ pos' \in Nat /\ status' = "done"
      BY <1>1, <2>1, <2>2, <2>3 DEF Sending
    <3> QED  BY <2>7, <3>2, <3>3 DEF Sending
  <2>8. CASE pc' = "exiting" /\ rc' = 1
    BY <2>1, <2>8 DEF Sending
  <2>9. CASE i <= Len(ToShow) /\ current \in DOMAIN content /\ pc' = "start" /\ rc' = rc
    <3>1. Got(stdout, Done(i - 1))'
      <4>1. Got(stdout', Done(i - 1)')
        BY <2>1, <2>3, <2>5
      <4> QED  BY <4>1 DEF Got, Takes, Take
    <3>2. i' \in Nat \ {0} /\ pos' \in Nat /\ status' = "done"
      BY <1>1, <2>1, <2>2, <2>3 DEF Sending
    <3>3. i' <= Len(ToShow') + 1 /\ i' <= Len(ToShow') /\ current' \in DOMAIN content'
      BY <2>1, <2>2, <2>3, <2>5, <2>9
    <3> QED  BY <2>1, <2>3, <2>9, <3>1, <3>2, <3>3 DEF Sending
  <2> QED  BY <2>4, <2>7, <2>8, <2>9
<1>6. CASE ReadError
  BY <1>6 DEF ReadError, Fail, Exit, fileVars, Sending
<1>7. CASE RunExitHooks
  <2>1. /\ avars' = avars /\ content' = content /\ pc = "exiting" /\ pc' = "exited"
        /\ stdout' = stdout /\ rc' = rc /\ i' = i /\ pos' = pos
    BY <1>7 DEF RunExitHooks, fileVars
  <2>2. status' = status /\ Parsed' = Parsed /\ ToShow' = ToShow /\ \A n : Done(n)' = Done(n)
    BY <2>1, SameFiles
  <2>3. Done(Len(ToShow))' = Done(Len(ToShow))
    BY <2>2
  <2>4. rc = 0 => /\ status = "done"
                  /\ \/ Parsed.switches \cap {"help", "version"} # {}
                     \/ Got(stdout, Done(Len(ToShow)))
    BY <2>1 DEF Sending
  <2>5. Got(stdout, Done(Len(ToShow))) => Got(stdout, Done(Len(ToShow)))'
    <3>1. Got(stdout, Done(Len(ToShow))) => Got(stdout', Done(Len(ToShow))')
      BY <2>1, <2>3
    <3> QED  BY <3>1 DEF Got, Takes, Take
  <2>6. i' \in Nat \ {0} /\ pos' \in Nat
    BY <2>1 DEF Sending
  <2> QED  BY <2>1, <2>2, <2>4, <2>5, <2>6 DEF Sending
<1> QED
  BY <1>2, <1>3, <1>4, <1>5, <1>6, <1>7

\* What is in a file is a sequence.
LEMMA FileBytes ==
  ASSUME Sending, pc \in {"start", "read"}
  PROVE  \E S : content[current] \in Seq(S) /\ Bytes \in Nat
<1>1. content[current] \in Contents
  BY DEF Sending
<1>2. content[current] \in Seq(ToSet(content[current]))
  BY <1>1, ShowAssumption
<1>3. \A c, S : c \in Seq(S) => Len(c) \in Nat
  OBVIOUS
<1> QED
  BY <1>2, <1>3 DEF Bytes

LEMMA SendingHeader ==
  ASSUME StreamInv, OptionsInv, Specified, Sending, StartTransfer
  PROVE  Sending'
<1> DEFINE h == Header(Parsed, current, SizeOf(current))
<1>1. /\ pc = "start" /\ pc' = "read" /\ avars' = avars /\ content' = content
      /\ i' = i /\ rc' = rc /\ pos' = 0 /\ feof' = FALSE /\ stdout' = Append(stdout, h)
  BY DEF StartTransfer
<1>2. status' = status /\ Parsed' = Parsed /\ ToShow' = ToShow /\ \A n : Done(n)' = Done(n)
  BY <1>1, SameFiles
<1>3. /\ status = "done" /\ rc = 0 /\ i \in Nat \ {0} /\ i <= Len(ToShow)
      /\ Got(stdout, Done(i - 1)) /\ current \in DOMAIN content
      /\ i <= Len(ToShow) + 1 /\ \A p \in DOMAIN content : content[p] \in Contents
  BY <1>1 DEF Sending
<1>4. PICK S : stdout \in Seq(S)
  BY DEF StreamInv, Sound
<1>5. PICK T : content[current] \in Seq(T) /\ Bytes \in Nat
  BY <1>1, FileBytes
<1>6. current' = current /\ Bytes' = Bytes /\ Done(i - 1)' = Done(i - 1)
      /\ Header(Parsed, current, SizeOf(current))' = h
  BY <1>1, <1>2 DEF current, Bytes, Done, Whole, SizeOf, Header, Stdin, NULL, UnknownSize,
                    TextPlain, Word
<1>7. h.type = "header"
  BY DEF Header
<1> HIDE DEF h
<1>8. Got(stdout', Append(Done(i - 1), Open(h, <<>>)))
  <2>1. stdout \in Seq(S \cup {h}) /\ h \in S \cup {h}
    BY <1>4
  <2>2. PICK x : x = Done(i - 1)
    OBVIOUS
  <2>3. Got(Append(stdout, h), Take(x, h))
    BY <1>3, <2>1, <2>2, GotMore
  <2>4. Take(x, h) = Append(x, Open(h, <<>>))
    BY <1>7, TakeHeader
  <2> QED  BY <1>1, <2>2, <2>3, <2>4
<1>9. Begun(pos)' = Append(Done(i - 1), Open(h, <<>>))
  <2>1. SubSeq(content[current], 1, 0) = <<>>
    BY SubSeqEmpty
  <2>2. Begun(pos)' = Append(Done(i - 1)', Open(h, SubSeq(content[current]', 1, 0)))
    BY <1>1, <1>6 DEF Begun, Part, Open, Shut
  <2>3. content[current]' = content[current]
    BY <1>1, <1>6
  <2> QED  BY <1>6, <2>1, <2>2, <2>3
<1>10. Got(stdout, Begun(pos))'
  <2>1. Got(stdout', Begun(pos)')
    BY <1>8, <1>9
  <2> QED  BY <2>1 DEF Got, Takes, Take
<1>11. pos' <= Bytes' /\ (feof' => pos' = Bytes') /\ pos' \in Nat
  BY <1>1, <1>5, <1>6
<1> QED
  BY <1>1, <1>2, <1>3, <1>6, <1>10, <1>11 DEF Sending

LEMMA SendingData ==
  ASSUME StreamInv, OptionsInv, Specified, Sending, SendChunk
  PROVE  Sending'
<1>1. PICK n \in 1..MaxChunkBytes :
        /\ Read(n)
        /\ LET data == SubSeq(content[current], pos + 1, pos + n)
           IN  /\ prev' = Digest(IF is_prev THEN prev ELSE <<>>, data)
               /\ stdout' = Append(stdout, DLine(data, prev'))
        /\ pos' = pos + n
        /\ UNCHANGED <<avars, content, pc, i, rc>>
  BY DEF SendChunk
<1> DEFINE h == Header(Parsed, current, SizeOf(current))
           c == content[current]
           data == SubSeq(c, pos + 1, pos + n)
           l == DLine(data, prev')
<1>2. /\ pc = "read" /\ pc' = "read" /\ avars' = avars /\ content' = content
      /\ i' = i /\ rc' = rc /\ pos' = pos + n /\ stdout' = Append(stdout, l)
  BY <1>1 DEF Read
<1>3. status' = status /\ Parsed' = Parsed /\ ToShow' = ToShow /\ \A k : Done(k)' = Done(k)
  BY <1>2, SameFiles
<1>4. /\ status = "done" /\ rc = 0 /\ i \in Nat \ {0} /\ i <= Len(ToShow)
      /\ Got(stdout, Begun(pos)) /\ current \in DOMAIN content /\ pos \in Nat
      /\ pos <= Bytes /\ (feof => pos = Bytes)
      /\ i <= Len(ToShow) + 1 /\ \A p \in DOMAIN content : content[p] \in Contents
  BY <1>2 DEF Sending
<1>5. PICK S : stdout \in Seq(S)
  BY DEF StreamInv, Sound
<1>6. PICK T : c \in Seq(T) /\ Bytes \in Nat
  BY <1>2, FileBytes
<1>7. current' = current /\ Bytes' = Bytes /\ Done(i - 1)' = Done(i - 1) /\ c' = c
      /\ Header(Parsed, current, SizeOf(current))' = h
  BY <1>2, <1>3 DEF current, Bytes, Done, Whole, SizeOf, Header, Stdin, NULL, UnknownSize,
                    TextPlain, Word
<1>8. n \in Nat
  BY ShowAssumption
<1>9. pos + n <= Bytes /\ (feof' => pos + n = Bytes)
  BY <1>1, <1>2, <1>4, <1>6, <1>8, ReadOn
<1>10. l.type = "D" /\ l.data = data
  BY DEF DLine
<1>11. PICK done, a, b : /\ done = Done(i - 1) /\ a = SubSeq(c, 1, pos)
                         /\ b = SubSeq(c, 1, pos + n)
  OBVIOUS
<1>12. a \o data = b
  <2> HIDE DEF c
  <2> QED  BY <1>4, <1>6, <1>8, <1>9, <1>11, BeginningGrows DEF Bytes, c
<1>13. PICK D : done \in Seq(D)
  <2>1. i - 1 \in Nat
    BY <1>4
  <2> QED  BY <1>11, <2>1, DoneSequence
<1>14. Begun(pos) = Append(done, Open(h, a))
  BY <1>11 DEF Begun
<1>15. Begun(pos)' = Append(done, Open(h, b))
  BY <1>2, <1>7, <1>11 DEF Begun, Part, Open, Shut
<1> HIDE DEF h, c, data, l
<1>16. Take(Append(done, Open(h, a)), l) = Append(done, Open(h, b))
  <2>1. Take(Append(done, Open(h, a)), l)
          = Append(done, Open(h, Joined(a, l.data)))
    <3>1. l.type = "D"
      BY <1>10
    <3> QED  BY <1>13, <3>1, TakeData
  <2>2. Joined(a, l.data) = b
    BY <1>10, <1>12 DEF Joined
  <2> QED  BY <2>1, <2>2
<1>17. Got(stdout', Append(done, Open(h, b)))
  <2>1. stdout \in Seq(S \cup {l}) /\ l \in S \cup {l}
    BY <1>5
  <2>2. PICK x : x = Append(done, Open(h, a))
    OBVIOUS
  <2>3. Got(Append(stdout, l), Take(x, l))
    BY <1>4, <1>14, <2>1, <2>2, GotMore
  <2> QED  BY <1>2, <1>16, <2>2, <2>3
<1>18. Got(stdout, Begun(pos))'
  <2>1. Got(stdout', Begun(pos)')
    BY <1>15, <1>17
  <2> QED  BY <2>1 DEF Got, Takes, Take
<1>19. pos' <= Bytes' /\ (feof' => pos' = Bytes') /\ pos' \in Nat
  BY <1>2, <1>4, <1>7, <1>8, <1>9
<1> QED
  BY <1>2, <1>3, <1>4, <1>7, <1>18, <1>19 DEF Sending

LEMMA SendingEnd ==
  ASSUME StreamInv, OptionsInv, Specified, Sending, EndTransfer
  PROVE  Sending'
<1> DEFINE h == Header(Parsed, current, SizeOf(current))
           c == content[current]
           l == ELine(prev')
<1>1. /\ pc = "read" /\ pc' = "loop" /\ avars' = avars /\ content' = content /\ rc' = rc
      /\ i' = i + 1 /\ pos' = pos /\ Read(0) /\ feof' /\ stdout' = stdout \o <<l, NUL>>
  BY DEF EndTransfer, Read
<1>2. status' = status /\ Parsed' = Parsed /\ ToShow' = ToShow /\ \A k : Done(k)' = Done(k)
  BY <1>1, SameFiles
<1>3. /\ status = "done" /\ rc = 0 /\ i \in Nat \ {0} /\ i <= Len(ToShow)
      /\ Got(stdout, Begun(pos)) /\ current \in DOMAIN content /\ pos \in Nat
      /\ pos <= Bytes /\ (feof => pos = Bytes)
      /\ \A p \in DOMAIN content : content[p] \in Contents
  BY <1>1 DEF Sending
<1>4. PICK S : stdout \in Seq(S)
  BY DEF StreamInv, Sound
<1>5. PICK T : c \in Seq(T) /\ Bytes \in Nat
  BY <1>1, FileBytes
<1>6. pos = Bytes
  <2>1. pos + 0 = Bytes
    BY <1>1, <1>3, <1>5, ReadOn
  <2> QED  BY <1>3, <2>1
<1>7. SubSeq(c, 1, pos) = c
  <2> HIDE DEF c
  <2>1. Len(c) = pos
    BY <1>6 DEF Bytes, c
  <2> QED  BY <1>5, <2>1, WholeSequence
<1>8. l.type = "E"
  BY DEF ELine
<1>9. PICK done, D : done = Done(i - 1) /\ done \in Seq(D)
  <2>1. i - 1 \in Nat
    BY <1>3
  <2> QED  BY <2>1, DoneSequence
<1>10. Begun(pos) = Append(done, Open(h, c))
  BY <1>7, <1>9 DEF Begun
<1>11. Done(i) = Append(done, Shut(h, c))
  <2>1. i - 1 \in Nat /\ (i - 1) + 1 = i
    BY <1>3
  <2>2. Done((i - 1) + 1) = Append(Done(i - 1), Whole(Parsed, ToShow[(i - 1) + 1]))
    BY <2>1, DoneNext
  <2>3. Whole(Parsed, ToShow[i]) = Shut(h, c)
    BY DEF Whole, Part, Open, Shut, current
  <2> QED  BY <1>9, <2>1, <2>2, <2>3
<1> HIDE DEF h, c, l
<1>12. Got(stdout', Done(i))
  <2>1. PICK x, y, M : /\ x = Append(done, Open(h, c))
                       /\ y = Append(done, Shut(h, c))
                       /\ M = S \cup {l, NUL}
    OBVIOUS
  <2>2. stdout \in Seq(M) /\ l \in M /\ NUL \in M
    BY <1>4, <2>1
  <2>3. Take(x, l) = x
    BY <1>8, TakeEnd
  <2>4. Take(x, NUL) = y
    BY <1>9, <2>1, TakeNul
  <2>5. Got(Append(stdout, l), Take(x, l))
    BY <1>3, <1>10, <2>1, <2>2, GotMore
  <2>6. PICK s : s = Append(stdout, l)
    OBVIOUS
  <2>7. s \in Seq(M) /\ Got(s, x)
    BY <2>2, <2>3, <2>5, <2>6
  <2>8. Got(Append(s, NUL), Take(x, NUL))
    BY <2>2, <2>7, GotMore
  <2>9. stdout' = Append(s, NUL)
    BY <1>1, <2>2, <2>6
  <2> QED  BY <1>11, <2>1, <2>4, <2>8, <2>9
<1>13. i' - 1 = i /\ i' \in Nat \ {0} /\ i' <= Len(ToShow') + 1
  <2>1. Len(ToShow) \in Nat
    BY FilesNamed
  <2> QED  BY <1>1, <1>2, <1>3, <2>1
<1>14. Got(stdout, Done(i - 1))'
  <2>1. Done(i - 1)' = Done(i)
    <3>1. PICK n : n = i
      OBVIOUS
    <3>2. Done(n)' = Done(n)
      BY <1>2
    <3>3. Done(i - 1)' = Done(n)'
      BY <1>13, <3>1 DEF Done
    <3> QED  BY <3>1, <3>2, <3>3
  <2>2. Got(stdout', Done(i - 1)')
    BY <1>12, <2>1
  <2> QED  BY <2>2 DEF Got, Takes, Take
<1> QED
  BY <1>1, <1>2, <1>3, <1>13, <1>14 DEF Sending

LEMMA SendingStep ==
  ASSUME StreamInv, OptionsInv, SentInv, [Next]_vars
  PROVE  SentInv'
<1> SUFFICES ASSUME Specified' PROVE Sending'
  BY DEF SentInv
<1>1. argv' = argv
  BY DEF Next, vars, avars, ParseOptions, AnswerOptions, NotExtraterm, Start, NextFile,
         StartTransfer, SendChunk, ReadError, EndTransfer, RunExitHooks, adopt_parse,
         UnknownOption, Literal, LongSwitch, ShortSwitch, Value, parse_arg, Finish, Refuse
<1>2. Specified
  <2>1. \A f : Reads(argv, f)' <=> Reads(argv, f)
    BY <1>1 DEF Reads
  <2> QED  BY <2>1 DEF Specified, Unspecified
<1>3. Sending
  BY <1>2 DEF SentInv
<1>4. CASE ParseOptions
  BY <1>3, <1>4 DEF ParseOptions, Sending, fileVars
<1>5. CASE UNCHANGED vars
  <2>1. /\ avars' = avars /\ content' = content /\ pc' = pc /\ i' = i /\ rc' = rc
        /\ pos' = pos /\ feof' = feof /\ stdout' = stdout
    BY <1>5 DEF vars
  <2>2. status' = status /\ Parsed' = Parsed /\ ToShow' = ToShow /\ \A n : Done(n)' = Done(n)
    BY <2>1, SameFiles
  <2>3. Begun(pos)' = Begun(pos) /\ current' = current /\ Bytes' = Bytes
    BY <2>1, <2>2 DEF Begun, current, Bytes, Done, Whole, Part, Open, Shut, SizeOf, Header, Stdin, NULL,
                      UnknownSize, TextPlain, Word
  <2>4. Done(i - 1)' = Done(i - 1) /\ Done(Len(ToShow))' = Done(Len(ToShow))
    BY <2>1, <2>2 DEF Done, Whole, SizeOf, Header, Stdin, NULL, UnknownSize, TextPlain, Word
  <2>5. /\ Got(stdout, Done(i - 1)) => Got(stdout', Done(i - 1)')
        /\ Got(stdout, Done(Len(ToShow))) => Got(stdout', Done(Len(ToShow))')
        /\ Got(stdout, Begun(pos)) => Got(stdout', Begun(pos)')
    BY <2>1, <2>3, <2>4
  <2>6. /\ Got(stdout, Done(i - 1)) => Got(stdout, Done(i - 1))'
        /\ Got(stdout, Done(Len(ToShow))) => Got(stdout, Done(Len(ToShow)))'
        /\ Got(stdout, Begun(pos)) => Got(stdout, Begun(pos))'
    BY <2>5 DEF Got, Takes, Take
  <2> QED
    BY <1>3, <2>1, <2>2, <2>3, <2>6 DEF Sending
<1> QED
  BY <1>2, <1>3, <1>4, <1>5, SendingQuiet, SendingHeader, SendingData, SendingEnd DEF Next

\* Exit code 0 says that every file the command line names has been received
\* whole, and nothing else, however often a read failed (show.c:49-56, 162-176).
THEOREM SuccessCorrect == Spec => []SuccessMeansSent
<1>1. Init => OptionsInv /\ SentInv
  <2>1. Init => OptionsInv
    BY OptionsStart DEF Init
  <2>2. Init => Sending
    BY DEF Init, Sending
  <2> QED  BY <2>1, <2>2 DEF SentInv
<1>2. StreamInv /\ OptionsInv /\ SentInv /\ [Next]_vars => OptionsInv' /\ SentInv'
  <2>1. [Next]_vars => [adopt_parse]_avars
    BY DEF Next, vars, ParseOptions, AnswerOptions, NotExtraterm, Start, NextFile,
           StartTransfer, SendChunk, ReadError, EndTransfer, RunExitHooks
  <2> QED  BY <2>1, OptionsStep, SendingStep
<1>3. StreamInv /\ OptionsInv /\ SentInv => SuccessMeansSent
  <2> SUFFICES ASSUME StreamInv, OptionsInv, SentInv, pc = "exited", rc = 0,
                      Written(argv) # Unspecified,
                      Written(argv).switches \cap {"help", "version"} = {}
               PROVE  LET files == ShownFor(Written(argv).files) IN
                      Received(stdout)
                        = [h \in DOMAIN files |-> Whole(Written(argv), files[h])]
    BY DEF SuccessMeansSent
  <2>1. Specified
    <3>1. Len(argv) \in Nat
      BY Arguments DEF OptionsInv
    <3> QED  BY <3>1, WrittenIsRead DEF Specified
  <2>2. /\ status = "done"
        /\ \/ Parsed.switches \cap {"help", "version"} # {}
           \/ Got(stdout, Done(Len(ToShow)))
    BY <2>1 DEF SentInv, Sending
  <2>3. Parsed = Written(argv)
    BY <2>2, OptionsRead DEF OptionsAsWritten
  <2>4. Got(stdout, Done(Len(ToShow)))
    BY <2>2, <2>3
  <2>5. Len(stdout) \in Nat
    BY DEF StreamInv, Sound
  <2>6. Received(stdout) = Done(Len(ToShow))
    BY <2>4, <2>5, GotReceived
  <2>7. DOMAIN ToShow = 1..Len(ToShow) /\ ToShow = ShownFor(Written(argv).files)
    BY <2>1, <2>3, FilesNamed DEF ToShow
  <2> QED  BY <2>3, <2>6, <2>7 DEF Done
<1> QED
  BY <1>1, <1>2, <1>3, StreamHolds, PTL DEF Spec
=============================================================================
