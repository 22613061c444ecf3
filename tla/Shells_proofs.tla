--------------------------- MODULE Shells_proofs ---------------------------
(***************************************************************************)
(* Proofs about Shells. In both scripts a step changes the innermost shell *)
(* only, or opens or closes it, and each shell stands in a lasting         *)
(* relation to the ones it was started from.                               *)
(***************************************************************************)
EXTENDS Shells, SequenceTheorems, FiniteSetTheorems, TLAPS

-----------------------------------------------------------------------------
(* Shells inside each other *)

\* Sequences of one and two elements.
LEMMA OneOrTwo ==
  ASSUME NEW S, NEW x \in S, NEW y \in S
  PROVE  /\ <<x>> \in Seq(S) /\ Len(<<x>>) = 1 /\ <<x>>[1] = x
         /\ <<x, y>> \in Seq(S) /\ Len(<<x, y>>) = 2 /\ <<x, y>>[2] = y
         /\ Append(<<>>, x) = <<x>> /\ Append(<<x>>, y) = <<x, y>>
<1>1. <<x>> \in Seq(S) /\ Len(<<x>>) = 1 /\ <<x>>[1] = x
  OBVIOUS
<1>2. <<x, y>> \in Seq(S) /\ Len(<<x, y>>) = 2 /\ <<x, y>>[1] = x /\ <<x, y>>[2] = y
  OBVIOUS
<1>3. Append(<<>>, x) = <<x>>
  OBVIOUS
<1>4. Append(<<x>>, y) = <<x, y>>
  <2>1. PICK one \in Seq(S) : one = <<x>>
    BY <1>1
  <2>2. PICK r : r = Append(one, y)
    OBVIOUS
  <2>3. /\ r \in Seq(S) /\ Len(r) = Len(one) + 1
        /\ \A i \in 1..Len(one) : r[i] = one[i]
        /\ r[Len(one) + 1] = y
    BY <2>2, AppendProperties
  <2>4. Len(r) = 2 /\ r[1] = x /\ r[2] = y
    BY <1>1, <2>1, <2>3
  <2>5. PICK two \in Seq(S) : two = <<x, y>>
    BY <1>2
  <2>6. Len(two) = 2 /\ two[1] = x /\ two[2] = y
    BY <1>2, <2>5
  <2>7. r = two
    BY <2>3, <2>4, <2>6, SeqEqual
  <2> QED  BY <2>1, <2>2, <2>5, <2>7
<1> QED  BY <1>1, <1>2, <1>3, <1>4

LEMMA WithoutLast ==
  ASSUME NEW S, NEW q \in Seq(S), q # <<>>
  PROVE  /\ Len(q) \in Nat \ {0} /\ Last(q) = q[Len(q)] /\ Last(q) \in S
         /\ Front(q) \in Seq(S) /\ Len(Front(q)) = Len(q) - 1
         /\ \A i \in 1..(Len(q) - 1) : Front(q)[i] = q[i] /\ q[i] \in S
<1>1. Len(q) \in Nat \ {0}
  BY EmptySeq, LenProperties
<1>2. \A i \in 1..Len(q) : q[i] \in S
  BY ElementOfSeq
<1>3. \A i \in 1..(Len(q) - 1) : q[i] \in S
  BY <1>1, <1>2
<1>4. PICK n \in Int : n = Len(q) - 1
  BY <1>1
<1>5. \A i \in 1..n : q[i] \in S
  BY <1>3, <1>4
<1>6. /\ SubSeq(q, 1, n) \in Seq(S)
      /\ Len(SubSeq(q, 1, n)) = IF 1 <= n THEN n - 1 + 1 ELSE 0
      /\ \A i \in 1..(n - 1 + 1) : SubSeq(q, 1, n)[i] = q[1 + i - 1]
  BY <1>5, SubSeqProperties
<1>7. \A i \in 1..n : SubSeq(q, 1, n)[i] = q[i]
  BY <1>4, <1>6
<1>8. Front(q) = SubSeq(q, 1, n)
  BY <1>4 DEF Front
<1> QED  BY <1>1, <1>2, <1>3, <1>4, <1>6, <1>7, <1>8 DEF Last

\* The innermost shell takes a step.
LEMMA Replaced ==
  ASSUME NEW S, NEW q \in Seq(S), q # <<>>, NEW s \in S
  PROVE  /\ Append(Front(q), s) \in Seq(S)
         /\ Len(Append(Front(q), s)) = Len(q)
         /\ Append(Front(q), s)[Len(q)] = s
         /\ \A i \in 1..(Len(q) - 1) : Append(Front(q), s)[i] = q[i]
<1> DEFINE f == Front(q)
<1>1. /\ Len(q) \in Nat \ {0} /\ f \in Seq(S) /\ Len(f) = Len(q) - 1
      /\ \A i \in 1..(Len(q) - 1) : f[i] = q[i]
  BY WithoutLast
<1> HIDE DEF f
<1>2. Append(Front(q), s) = Append(f, s)
  BY DEF f
<1> QED  BY <1>1, <1>2, AppendProperties

\* It is told to wait and starts another.
LEMMA Pushed ==
  ASSUME NEW S, NEW q \in Seq(S), q # <<>>, NEW s \in S, NEW t \in S
  PROVE  LET r == Front(q) \o <<s, t>>
         IN  /\ r \in Seq(S) /\ Len(r) = Len(q) + 1
             /\ r[Len(q)] = s /\ r[Len(q) + 1] = t
             /\ \A i \in 1..(Len(q) - 1) : r[i] = q[i]
<1> DEFINE f == Front(q)
           two == <<s, t>>
           r == Front(q) \o <<s, t>>
<1>1. /\ Len(q) \in Nat \ {0} /\ f \in Seq(S) /\ Len(f) = Len(q) - 1
      /\ \A i \in 1..(Len(q) - 1) : f[i] = q[i]
  BY WithoutLast
<1>2. two \in Seq(S) /\ Len(two) = 2 /\ two[1] = s /\ two[2] = t
  OBVIOUS
<1>3. r = f \o two
  OBVIOUS
<1> HIDE DEF f, two, r
<1>4. /\ f \o two \in Seq(S) /\ Len(f \o two) = Len(f) + Len(two)
      /\ \A i \in 1..Len(f) + Len(two) :
           (f \o two)[i] = IF i <= Len(f) THEN f[i] ELSE two[i - Len(f)]
  BY <1>1, <1>2, ConcatProperties
<1>5. PICK n \in Nat : n = Len(f) /\ Len(q) = n + 1
  BY <1>1
<1>6. (f \o two)[n + 1] = two[1] /\ (f \o two)[n + 2] = two[2]
  <2>1. n + 1 \in 1..Len(f) + Len(two) /\ n + 2 \in 1..Len(f) + Len(two)
    BY <1>2, <1>5
  <2>2. /\ ~(n + 1 <= Len(f)) /\ ~(n + 2 <= Len(f))
        /\ n + 1 - Len(f) = 1 /\ n + 2 - Len(f) = 2
    BY <1>5
  <2> QED  BY <2>1, <2>2, <1>4
<1>7. \A i \in 1..n : (f \o two)[i] = f[i]
  BY <1>2, <1>4, <1>5
<1>8. Len(q) + 1 = n + 2 /\ Len(q) - 1 = n /\ Len(f) + Len(two) = n + 2
  BY <1>2, <1>5
<1>9. /\ r \in Seq(S) /\ Len(r) = n + 2 /\ r[n + 1] = s /\ r[n + 2] = t
      /\ \A i \in 1..n : r[i] = f[i]
  BY <1>2, <1>3, <1>4, <1>6, <1>7, <1>8
<1>10. \A i \in 1..n : f[i] = q[i]
  BY <1>1, <1>8
<1> QED  BY <1>5, <1>8, <1>9, <1>10 DEF r

-----------------------------------------------------------------------------
(* bash: the inductive invariant *)

Word == {"mine", "postexec"}

Shell ==
  [pc : {"source", "prompt", "ready", "waiting"}, rc : RcFiles,
   screen : BOOLEAN, cookie : BOOLEAN, path : Nat, prev : Seq(Word),
   exported : BOOLEAN, prompt : Seq(Word), enabled : BOOLEAN, sourced : Nat,
   status : Nat, starts : Nat, ends : Seq(Nat), mine : Nat]

\* What PROMPT_COMMAND can be where the i-th shell sources the script.
Found(i, rc) ==
  {RcPrompt(rc, <<>>)} \cup IF i = 1 THEN {} ELSE {RcPrompt(rc, <<"postexec">>)}

\* Only a shell that the script has set up has been; in one that still has
\* the cookie, the script's PROMPT_COMMAND is all there is.
Setting(i, s) ==
  /\ s.enabled = (s.sourced # 0)
  /\ s.enabled => /\ s.cookie /\ ~s.screen /\ s.rc # "preexec" /\ s.exported
                  /\ s.prompt = <<"postexec">>
                  /\ s.prev \in Found(i, s.rc)
                                  \cup IF s.sourced = 1 THEN {} ELSE {<<"postexec">>}
  /\ s.cookie /\ s.exported /\ s.pc # "source" => s.prompt = <<"postexec">>
  /\ s.cookie /\ s.pc = "source" /\ ~s.enabled =>
       /\ s.prompt = RcPrompt(s.rc, IF s.exported THEN <<"postexec">> ELSE <<>>)
       /\ i = 1 => ~s.exported

\* How far the shell has got with the prompt since the last line was entered.
Progress(s) ==
  /\ ~s.enabled \/ s.pc \in {"source", "waiting"} => s.ends = <<>>
  /\ s.pc # "ready" => s.mine = 0
  /\ s.enabled /\ s.pc = "prompt" =>
       \/ s.ends = <<>>
       \/ Len(s.prev) > 1 /\ s.prev[1] = "postexec"
  /\ s.enabled /\ s.pc = "ready" =>
       /\ s.ends = <<s.status>>
       /\ s.prev = <<"mine">> => s.mine = 1

Sane(i, s) == s \in Shell /\ Setting(i, s) /\ Progress(s)

\* Shells wait for the ones started in them; none of these has a cookie if
\* the script has dropped it in screen.
Nested ==
  \A i, j \in DOMAIN shells :
    /\ i < j => shells[i].pc = "waiting"
    /\ /\ i < j \/ (i = j /\ shells[i].pc # "source")
       /\ shells[i].screen /\ shells[i].rc # "preexec"
       => ~shells[j].cookie

ShellInv ==
  /\ shells \in Seq(Shell)
  /\ \A i \in DOMAIN shells : Sane(i, shells[i])
  /\ Nested

-----------------------------------------------------------------------------
(* bash: each step keeps it *)

\* What is known of the innermost shell.
LEMMA Innermost ==
  ASSUME ShellInv, shells # <<>>
  PROVE  /\ Len(shells) \in Nat \ {0} /\ DOMAIN shells = 1..Len(shells)
         /\ top = shells[Len(shells)] /\ Sane(Len(shells), top)
         /\ top.screen /\ top.rc # "preexec" /\ top.pc # "source" => ~top.cookie
<1>1. /\ Len(shells) \in Nat \ {0} /\ top = shells[Len(shells)]
  BY WithoutLast DEF ShellInv, top
<1>2. DOMAIN shells = 1..Len(shells)
  BY LenProperties DEF ShellInv
<1>3. Len(shells) \in DOMAIN shells
  BY <1>1, <1>2
<1> QED  BY <1>1, <1>2, <1>3 DEF ShellInv, Nested

\* A step of the innermost shell.
LEMMA StepKeeps ==
  ASSUME ShellInv, shells # <<>>, NEW s, Step(s), Sane(Len(shells), s),
         s.screen = top.screen, s.rc = top.rc, s.cookie => top.cookie,
         s.screen /\ s.rc # "preexec" /\ s.pc # "source" => ~s.cookie
  PROVE  ShellInv'
<1>1. PICK n \in Nat \ {0} : n = Len(shells)
  BY Innermost
<1>2. DOMAIN shells = 1..n /\ top = shells[n]
  BY <1>1, Innermost
<1>3. /\ shells' \in Seq(Shell) /\ Len(shells') = n /\ shells'[n] = s
      /\ \A i \in 1..(n - 1) : shells'[i] = shells[i]
  <2>1. /\ shells \in Seq(Shell) /\ s \in Shell
        /\ shells' = Append(Front(shells), s)
    BY DEF ShellInv, Step, Sane
  <2>2. /\ Append(Front(shells), s) \in Seq(Shell)
        /\ Len(Append(Front(shells), s)) = Len(shells)
        /\ Append(Front(shells), s)[Len(shells)] = s
        /\ \A i \in 1..(Len(shells) - 1) : Append(Front(shells), s)[i] = shells[i]
    BY <2>1, Replaced
  <2> QED  BY <2>1, <2>2, <1>1
<1>4. DOMAIN shells' = 1..n
  BY <1>3, LenProperties
<1>5. ASSUME NEW i \in 1..n  PROVE  Sane(i, shells'[i])
  <2>1. CASE i = n
    BY <2>1, <1>1, <1>3
  <2>2. CASE i # n
    <3>1. i \in 1..(n - 1) /\ i \in DOMAIN shells
      BY <2>2, <1>2
    <3> QED  BY <3>1, <1>3 DEF ShellInv
  <2> QED  BY <2>1, <2>2
<1>6. ASSUME NEW i \in 1..n, NEW j \in 1..n
      PROVE  /\ i < j => shells'[i].pc = "waiting"
             /\ /\ i < j \/ (i = j /\ shells'[i].pc # "source")
                /\ shells'[i].screen /\ shells'[i].rc # "preexec"
                => ~shells'[j].cookie
  <2>1. /\ i # n => shells'[i] = shells[i]
        /\ j # n => shells'[j] = shells[j]
    BY <1>3
  <2>2. /\ i < j => shells[i].pc = "waiting"
        /\ /\ i < j \/ (i = j /\ shells[i].pc # "source")
           /\ shells[i].screen /\ shells[i].rc # "preexec"
           => ~shells[j].cookie
    BY <1>2 DEF ShellInv, Nested
  <2>3. CASE i = n
    BY <2>3, <1>3
  <2>4. CASE i # n /\ j # n
    BY <2>4, <2>1, <2>2
  <2>5. CASE i # n /\ j = n
    BY <2>5, <2>1, <2>2, <1>2, <1>3
  <2> QED  BY <2>3, <2>4, <2>5
<1> QED  BY <1>3, <1>4, <1>5, <1>6 DEF ShellInv, Nested

\* The script leaves early.
LEMMA EarlyOutKeeps == ASSUME ShellInv, shells # <<>>, EarlyOut PROVE ShellInv'
<1>1. PICK n \in Nat \ {0} : n = Len(shells)
  BY Innermost
<1>2. top \in Shell /\ Setting(n, top) /\ Progress(top)
  BY <1>1, Innermost DEF Sane
<1>3. PICK c \in BOOLEAN : c = (top.cookie /\ (top.rc = "preexec" \/ ~top.screen))
  BY <1>2
<1>4. PICK s : s = [top EXCEPT !.pc = "prompt", !.status = 0, !.cookie = c]
  OBVIOUS
<1>5. Step(s)
  BY <1>3, <1>4 DEF EarlyOut
<1>6. s \in Shell
  BY <1>2, <1>4, ShellAssumption DEF Shell
<1>7. /\ s.pc = "prompt" /\ s.status = 0 /\ s.cookie = c
      /\ s.rc = top.rc /\ s.screen = top.screen /\ s.prev = top.prev
      /\ s.exported = top.exported /\ s.prompt = top.prompt
      /\ s.enabled = top.enabled /\ s.sourced = top.sourced
      /\ s.ends = top.ends /\ s.mine = top.mine
  BY <1>2, <1>4 DEF Shell
<1>8. /\ top.pc = "source"
      /\ top.rc = "preexec" \/ ~top.cookie \/ top.screen
  BY DEF EarlyOut
<1>9. Setting(n, s)
  BY <1>2, <1>3, <1>7, <1>8 DEF Setting, RcPrompt
<1>10. Progress(s)
  BY <1>2, <1>7, <1>8 DEF Progress
<1> QED  BY <1>1, <1>3, <1>5, <1>6, <1>7, <1>8, <1>9, <1>10, StepKeeps DEF Sane

\* The script sets the shell up.
LEMMA SetUpKeeps == ASSUME ShellInv, shells # <<>>, SetUp PROVE ShellInv'
<1>1. PICK n \in Nat \ {0} : n = Len(shells)
  BY Innermost
<1>2. top \in Shell /\ Setting(n, top) /\ Progress(top)
  BY <1>1, Innermost DEF Sane
<1>3. /\ top.pc = "source" /\ top.rc # "preexec" /\ top.cookie /\ ~top.screen
  BY DEF SetUp
<1>4. PICK path \in Nat, sourced \in Nat, starts \in Nat, prev \in Seq(Word),
           mine \in Seq(Word) :
        /\ path = top.path + 1 /\ sourced = top.sourced + 1
        /\ starts = top.starts + 1 /\ prev = top.prompt /\ mine = <<"postexec">>
  <2>1. <<"postexec">> \in Seq(Word)
    BY DEF Word
  <2>2. /\ top.path + 1 \in Nat /\ top.sourced + 1 \in Nat
        /\ top.starts + 1 \in Nat /\ top.prompt \in Seq(Word)
    BY <1>2 DEF Shell
  <2> QED  BY <2>1, <2>2
<1>5. PICK s : s = [top EXCEPT !.pc = "prompt", !.status = 0,
                        !.path = path,
                        !.prev = prev,
                        !.prompt = mine, !.exported = TRUE,
                        !.enabled = TRUE, !.sourced = sourced, !.starts = starts]
  OBVIOUS
<1>6. Step(s)
  BY <1>4, <1>5 DEF SetUp
<1>7. s \in Shell
  BY <1>2, <1>5 DEF Shell
<1>8. /\ s.pc = "prompt" /\ s.cookie = top.cookie
      /\ s.rc = top.rc /\ s.screen = top.screen /\ s.prev = top.prompt
      /\ s.exported = TRUE /\ s.prompt = <<"postexec">>
      /\ s.enabled = TRUE /\ s.sourced = top.sourced + 1
      /\ s.ends = top.ends /\ s.mine = top.mine
  BY <1>2, <1>4, <1>5 DEF Shell
<1>9. /\ top.sourced \in Nat /\ top.enabled \in BOOLEAN
      /\ top.enabled <=> top.sourced # 0
  BY <1>2 DEF Shell, Setting
<1>10. s.prev \in Found(n, s.rc) \cup IF s.sourced = 1 THEN {} ELSE {<<"postexec">>}
  <2>1. CASE top.enabled
    <3>1. top.prompt = <<"postexec">>
      BY <2>1, <1>2 DEF Setting
    <3>2. s.sourced # 1
      BY <2>1, <1>8, <1>9
    <3> QED  BY <3>1, <3>2, <1>8
  <2>2. CASE ~top.enabled
    <3>1. /\ top.prompt = RcPrompt(top.rc, IF top.exported THEN <<"postexec">> ELSE <<>>)
          /\ n = 1 => ~top.exported
      BY <2>2, <1>2, <1>3 DEF Setting
    <3>2. top.prompt \in Found(n, top.rc)
      BY <3>1 DEF Found
    <3> QED  BY <3>2, <1>8
  <2> QED  BY <2>1, <2>2
<1>11. Setting(n, s)
  <2>1. s.sourced # 0
    BY <1>8, <1>9
  <2> QED  BY <2>1, <1>3, <1>8, <1>10 DEF Setting
<1>12. Progress(s)
  BY <1>2, <1>3, <1>8 DEF Progress
<1> QED  BY <1>1, <1>3, <1>6, <1>7, <1>8, <1>11, <1>12, StepKeeps DEF Sane

\* A prompt without the script.
LEMMA PlainPromptKeeps == ASSUME ShellInv, shells # <<>>, PlainPrompt PROVE ShellInv'
<1>1. PICK n \in Nat \ {0} : n = Len(shells)
  BY Innermost
<1>2. top \in Shell /\ Setting(n, top) /\ Progress(top)
  BY <1>1, Innermost DEF Sane
<1>3. top.pc = "prompt" /\ ~top.enabled
  BY DEF PlainPrompt
<1> DEFINE mines == {k \in DOMAIN top.prompt : top.prompt[k] = "mine"}
<1>4. Cardinality(mines) \in Nat
  <2>1. top.prompt \in Seq(Word)
    BY <1>2 DEF Shell
  <2>2. Len(top.prompt) \in Nat /\ mines \subseteq 1..Len(top.prompt)
    BY <2>1, LenProperties
  <2>3. IsFiniteSet(1..Len(top.prompt))
    BY <2>2, FS_Interval
  <2> QED  BY <2>2, <2>3, FS_Subset, FS_CardinalityType
<1>5. PICK mine \in Nat : mine = Cardinality(mines)
  BY <1>4
<1> HIDE DEF mines
<1>6. PICK s : s = [top EXCEPT !.pc = "ready", !.mine = mine]
  OBVIOUS
<1>7. Step(s)
  BY <1>5, <1>6 DEF PlainPrompt, mines
<1>8. s \in Shell
  BY <1>2, <1>6 DEF Shell
<1>9. /\ s.pc = "ready" /\ s.cookie = top.cookie
      /\ s.rc = top.rc /\ s.screen = top.screen /\ s.prev = top.prev
      /\ s.exported = top.exported /\ s.prompt = top.prompt
      /\ s.enabled = top.enabled /\ s.sourced = top.sourced
      /\ s.ends = top.ends
  BY <1>2, <1>6 DEF Shell
<1>10. Setting(n, s)
  BY <1>2, <1>3, <1>9 DEF Setting
<1>11. Progress(s)
  BY <1>2, <1>3, <1>9 DEF Progress
<1>12. s.screen /\ s.rc # "preexec" /\ s.pc # "source" => ~s.cookie
  BY <1>3, <1>9, Innermost
<1> QED  BY <1>1, <1>7, <1>8, <1>9, <1>10, <1>11, <1>12, StepKeeps DEF Sane

\* extraterm_postexec writes one marker: none has been written yet.
LEMMA PostexecKeeps ==
  ASSUME ShellInv, shells # <<>>, extraterm_postexec PROVE ShellInv'
<1>1. PICK n \in Nat \ {0} : n = Len(shells)
  BY Innermost
<1>2. top \in Shell /\ Setting(n, top) /\ Progress(top)
  BY <1>1, Innermost DEF Sane
<1>3. top.pc = "prompt" /\ top.enabled /\ ~CallsItself
  BY DEF extraterm_postexec
<1>4. top.ends = <<>> /\ top.mine = 0
  BY <1>2, <1>3 DEF Progress, CallsItself
<1>5. PICK ends \in Seq(Nat) : ends = EndMarker /\ ends = <<top.status>>
  <2>1. PICK status \in Nat : status = top.status
    BY <1>2 DEF Shell
  <2>2. EndMarker = Append(<<>>, status)
    BY <2>1, <1>4 DEF EndMarker, Argument
  <2>3. Append(<<>>, status) = <<status>> /\ <<status>> \in Seq(Nat)
    OBVIOUS
  <2> QED  BY <2>1, <2>2, <2>3
<1>6. PICK mine \in Nat :
        /\ mine = IF top.prev = <<"mine">> THEN top.mine + 1 ELSE top.mine
        /\ top.prev = <<"mine">> => mine = 1
  <2>1. CASE top.prev = <<"mine">>
    BY <2>1, <1>4
  <2>2. CASE top.prev # <<"mine">>
    BY <2>2, <1>4
  <2> QED  BY <2>1, <2>2
<1>7. PICK s : s = [top EXCEPT !.pc = "ready", !.ends = ends, !.mine = mine]
  OBVIOUS
<1>8. Step(s)
  BY <1>5, <1>6, <1>7 DEF extraterm_postexec
<1>9. s \in Shell
  BY <1>2, <1>7 DEF Shell
<1>10. /\ s.pc = "ready" /\ s.cookie = top.cookie
       /\ s.rc = top.rc /\ s.screen = top.screen /\ s.prev = top.prev
       /\ s.exported = top.exported /\ s.prompt = top.prompt
       /\ s.enabled = top.enabled /\ s.sourced = top.sourced
       /\ s.status = top.status /\ s.ends = ends /\ s.mine = mine
  BY <1>2, <1>7 DEF Shell
<1>11. Setting(n, s)
  BY <1>2, <1>3, <1>10 DEF Setting
<1>12. Progress(s)
  BY <1>3, <1>5, <1>6, <1>10 DEF Progress
<1>13. s.screen /\ s.rc # "preexec" /\ s.pc # "source" => ~s.cookie
  BY <1>3, <1>10, Innermost
<1> QED  BY <1>1, <1>8, <1>9, <1>10, <1>11, <1>12, <1>13, StepKeeps DEF Sane

\* A call of extraterm_postexec inside itself writes another.
LEMMA CallKeeps ==
  ASSUME ShellInv, shells # <<>>, top.pc = "prompt", top.enabled, CallsItself,
         Step([top EXCEPT !.ends = EndMarker])
  PROVE  ShellInv'
<1>1. PICK n \in Nat \ {0} : n = Len(shells)
  BY Innermost
<1>2. top \in Shell /\ Setting(n, top) /\ Progress(top)
  BY <1>1, Innermost DEF Sane
<1>3. PICK ends \in Seq(Nat) : ends = EndMarker
  <2>1. Argument \in Nat /\ top.ends \in Seq(Nat)
    BY <1>2 DEF Argument, Shell
  <2> QED  BY <2>1, AppendProperties DEF EndMarker
<1>4. PICK s : s = [top EXCEPT !.ends = ends]
  OBVIOUS
<1>5. Step(s)
  BY <1>3, <1>4
<1>6. s \in Shell
  BY <1>2, <1>4 DEF Shell
<1>7. /\ s.pc = top.pc /\ s.cookie = top.cookie
      /\ s.rc = top.rc /\ s.screen = top.screen /\ s.prev = top.prev
      /\ s.exported = top.exported /\ s.prompt = top.prompt
      /\ s.enabled = top.enabled /\ s.sourced = top.sourced
      /\ s.mine = top.mine
  BY <1>2, <1>4 DEF Shell
<1>8. Setting(n, s)
  BY <1>2, <1>7 DEF Setting
<1>9. Progress(s)
  BY <1>2, <1>7 DEF Progress, CallsItself
<1>10. s.screen /\ s.rc # "preexec" /\ s.pc # "source" => ~s.cookie
  BY <1>7, Innermost
<1> QED  BY <1>1, <1>5, <1>6, <1>7, <1>8, <1>9, <1>10, StepKeeps DEF Sane

\* What a shell is like once a line has been entered in it.
Between(t, s) ==
  /\ s \in Shell /\ s.ends = <<>> /\ s.mine = 0
  /\ s.cookie = t.cookie /\ s.rc = t.rc /\ s.screen = t.screen
  /\ s.prev = t.prev /\ s.exported = t.exported /\ s.prompt = t.prompt
  /\ s.enabled = t.enabled /\ s.sourced = t.sourced

LEMMA EnteredIs ==
  ASSUME NEW t \in Shell, NEW n \in Nat
  PROVE  Between(t, Entered(t, n))
<1>1. PICK starts \in Nat : starts = IF t.enabled THEN n ELSE 0
  OBVIOUS
<1>2. PICK ends \in Seq(Nat) : ends = <<>>
  BY EmptySeq
<1>3. PICK s : s = [t EXCEPT !.starts = starts, !.ends = ends, !.mine = 0]
  OBVIOUS
<1>4. s = Entered(t, n)
  BY <1>1, <1>2, <1>3 DEF Entered
<1>5. s \in Shell
  BY <1>3 DEF Shell
<1>6. Between(t, s)
  BY <1>2, <1>3, <1>5 DEF Shell, Between
<1> QED  BY <1>4, <1>6

LEMMA EnteredThen ==
  ASSUME NEW t, NEW e, Between(t, e), NEW pc \in {"source", "prompt", "waiting"}
  PROVE  Between(t, [e EXCEPT !.pc = pc]) /\ [e EXCEPT !.pc = pc].pc = pc
<1>1. PICK s : s = [e EXCEPT !.pc = pc]
  OBVIOUS
<1>2. s \in Shell
  BY <1>1 DEF Between, Shell
<1>3. Between(t, s) /\ s.pc = pc
  BY <1>1, <1>2 DEF Between, Shell
<1> QED  BY <1>1, <1>3

LEMMA EnteredEnds ==
  ASSUME NEW t, NEW e, Between(t, e), NEW status \in Nat,
         NEW s, s = [e EXCEPT !.pc = "prompt", !.status = status]
  PROVE  Between(t, s) /\ s.pc = "prompt"
<1>1. s \in Shell
  BY DEF Between, Shell
<1> QED  BY <1>1 DEF Between, Shell

\* A line that leaves the shell at its prompt or has it source the script.
LEMMA LineKeeps ==
  ASSUME ShellInv, shells # <<>>, top.pc = "ready", NEW s, Step(s), Between(top, s),
         s.pc = "prompt" \/ (s.pc = "source" /\ top.enabled)
  PROVE  ShellInv'
<1>1. PICK n \in Nat \ {0} : n = Len(shells)
  BY Innermost
<1>2. Setting(n, top)
  BY <1>1, Innermost DEF Sane
<1>3. Setting(n, s)
  BY <1>2 DEF Setting, Between
<1>4. Progress(s)
  BY DEF Progress, Between
<1>5. s.screen /\ s.rc # "preexec" /\ s.pc # "source" => ~s.cookie
  BY Innermost DEF Between
<1> QED  BY <1>1, <1>3, <1>4, <1>5, StepKeeps DEF Sane, Between

LEMMA RunLineKeeps == ASSUME ShellInv, shells # <<>>, RunLine PROVE ShellInv'
<1>1. PICK n \in 0..2, status \in Status :
        /\ top.pc = "ready"
        /\ Step([Entered(top, n) EXCEPT !.pc = "prompt", !.status = status])
  BY DEF RunLine
<1>2. top \in Shell /\ n \in Nat /\ status \in Nat
  BY Innermost, ShellAssumption DEF Sane
<1>3. Between(top, Entered(top, n))
  BY <1>2, EnteredIs
<1>4. PICK s : s = [Entered(top, n) EXCEPT !.pc = "prompt", !.status = status]
  OBVIOUS
<1>5. Between(top, s) /\ s.pc = "prompt"
  BY <1>2, <1>3, <1>4, EnteredEnds
<1> QED  BY <1>1, <1>4, <1>5, LineKeeps

LEMMA SourceAgainKeeps ==
  ASSUME ShellInv, shells # <<>>, SourceAgain PROVE ShellInv'
<1>1. top.pc = "ready" /\ top.sourced = 1 /\ top \in Shell /\ Setting(Len(shells), top)
  BY Innermost DEF SourceAgain, Sane
<1>2. top.enabled
  BY <1>1 DEF Setting, Shell
<1>3. Between(top, Entered(top, 1))
  BY <1>1, EnteredIs
<1>4. PICK s : s = [Entered(top, 1) EXCEPT !.pc = "source"]
  OBVIOUS
<1>5. Step(s)
  BY <1>4 DEF SourceAgain
<1>6. 0 \in Nat /\ "source" \in {"source", "prompt", "waiting"}
  OBVIOUS
<1>7. Between(top, s) /\ s.pc = "source"
  BY <1>3, <1>4, <1>6, EnteredThen
<1> QED  BY <1>1, <1>2, <1>5, <1>7, LineKeeps

\* A shell is started. It has of the one it is started from what that exports,
\* and the script has set that one's PROMPT_COMMAND if it is exported at all.
LEMMA FreshIs ==
  ASSUME ShellInv, shells # <<>>, top.pc = "ready",
         NEW rc \in RcFiles, NEW screen \in BOOLEAN
  PROVE  LET s == Fresh(rc, screen, top)
         IN  /\ Sane(Len(shells) + 1, s) /\ s.pc = "source" /\ s.cookie = top.cookie
<1>1. PICK n \in Nat \ {0} : n = Len(shells)
  BY Innermost
<1>2. top \in Shell /\ Setting(n, top)
  BY <1>1, Innermost DEF Sane
<1>3. PICK inherited \in Seq(Word) :
        inherited = IF top.exported THEN top.prompt ELSE <<>>
  BY <1>2, EmptySeq DEF Shell
<1>4. PICK prompt \in Seq(Word) : prompt = RcPrompt(rc, inherited)
  <2>1. <<"mine">> \in Seq(Word)
    BY DEF Word
  <2>2. <<"mine">> \o inherited \in Seq(Word) /\ inherited \o <<"mine">> \in Seq(Word)
    BY <2>1, ConcatProperties
  <2> QED  BY <2>1, <2>2 DEF RcPrompt
<1>5. PICK ends \in Seq(Nat) : ends = <<>>
  BY EmptySeq
<1>6. PICK s : s =
        [pc |-> "source", rc |-> rc, screen |-> screen,
         cookie |-> top.cookie, path |-> top.path, prev |-> top.prev,
         exported |-> top.exported, prompt |-> prompt,
         enabled |-> FALSE, sourced |-> 0, status |-> 0,
         starts |-> 0, ends |-> ends, mine |-> 0]
  OBVIOUS
<1>7. s = Fresh(rc, screen, top)
  BY <1>3, <1>4, <1>5, <1>6 DEF Fresh
<1>8. s \in Shell
  BY <1>2, <1>6 DEF Shell
<1>9. s.cookie /\ s.exported => s.prompt = RcPrompt(rc, <<"postexec">>)
  BY <1>2, <1>3, <1>4, <1>6 DEF Setting
<1>10. ~s.exported => s.prompt = RcPrompt(rc, <<>>)
  BY <1>3, <1>4, <1>6
<1>11. Setting(n + 1, s)
  <2>1. /\ s.rc = rc /\ s.pc = "source" /\ s.enabled = FALSE /\ s.sourced = 0
        /\ s.exported \in BOOLEAN /\ n + 1 # 1
    BY <1>6, <1>8 DEF Shell
  <2>2. s.cookie => s.prompt = RcPrompt(rc, IF s.exported THEN <<"postexec">> ELSE <<>>)
    BY <2>1, <1>9, <1>10
  <2> QED  BY <2>1, <2>2 DEF Setting
<1>12. Progress(s)
  BY <1>5, <1>6 DEF Progress
<1>13. Sane(n + 1, s) /\ s.pc = "source" /\ s.cookie = top.cookie
  BY <1>6, <1>8, <1>11, <1>12 DEF Sane
<1> QED  BY <1>1, <1>7, <1>13

LEMMA StartShellKeeps ==
  ASSUME ShellInv, shells # <<>>, StartShell PROVE ShellInv'
<1>1. PICK rc \in RcFiles, screen \in BOOLEAN :
        /\ top.pc = "ready"
        /\ shells' = Front(shells)
                       \o <<[Entered(top, 1) EXCEPT !.pc = "waiting"],
                            Fresh(rc, screen, top)>>
  BY DEF StartShell
<1>2. PICK n \in Nat \ {0} : n = Len(shells)
  BY Innermost
<1>3. top \in Shell /\ Setting(n, top) /\ top = shells[n] /\ DOMAIN shells = 1..n
  BY <1>2, Innermost DEF Sane
<1>4. PICK s : s = [Entered(top, 1) EXCEPT !.pc = "waiting"]
  OBVIOUS
<1>5. PICK t : t = Fresh(rc, screen, top)
  OBVIOUS
<1>6. Between(top, s) /\ s.pc = "waiting"
  <2>1. Between(top, Entered(top, 1)) /\ "waiting" \in {"source", "prompt", "waiting"}
    BY <1>3, EnteredIs
  <2> QED  BY <2>1, <1>4, EnteredThen
<1>7. Sane(n, s)
  <2>1. Setting(n, s)
    BY <1>1, <1>3, <1>6 DEF Setting, Between
  <2>2. Progress(s)
    BY <1>6 DEF Progress, Between
  <2> QED  BY <2>1, <2>2, <1>6 DEF Sane, Between
<1>8. Sane(n + 1, t) /\ t.pc = "source" /\ t.cookie = top.cookie
  BY <1>1, <1>2, <1>5, FreshIs
<1>9. /\ shells' \in Seq(Shell) /\ Len(shells') = n + 1
      /\ shells'[n] = s /\ shells'[n + 1] = t
      /\ \A i \in 1..(n - 1) : shells'[i] = shells[i]
  <2>1. shells \in Seq(Shell) /\ s \in Shell /\ t \in Shell
    BY <1>7, <1>8 DEF ShellInv, Sane
  <2>2. shells' = Front(shells) \o <<s, t>>
    BY <1>1, <1>4, <1>5
  <2> QED  BY <2>1, <2>2, <1>2, Pushed
<1>10. DOMAIN shells' = 1..(n + 1)
  BY <1>9, LenProperties
<1>11. ASSUME NEW i \in 1..(n + 1)  PROVE  Sane(i, shells'[i])
  <2>1. CASE i = n \/ i = n + 1
    BY <2>1, <1>7, <1>8, <1>9
  <2>2. CASE i \in 1..(n - 1)
    <3>1. i \in DOMAIN shells
      BY <2>2, <1>3
    <3> QED  BY <2>2, <3>1, <1>9 DEF ShellInv
  <2> QED  BY <2>1, <2>2
<1>12. ASSUME NEW i \in 1..(n + 1), NEW j \in 1..(n + 1)
       PROVE  /\ i < j => shells'[i].pc = "waiting"
              /\ /\ i < j \/ (i = j /\ shells'[i].pc # "source")
                 /\ shells'[i].screen /\ shells'[i].rc # "preexec"
                 => ~shells'[j].cookie
  <2>1. \A k \in 1..n : /\ shells'[k].screen = shells[k].screen
                        /\ shells'[k].rc = shells[k].rc
                        /\ shells'[k].cookie = shells[k].cookie
                        /\ shells[k].pc # "source"
                        /\ shells'[k].pc = "waiting"
    <3>1. ASSUME NEW k \in 1..(n - 1)  PROVE  shells[k].pc = "waiting"
      <4>1. k \in DOMAIN shells /\ n \in DOMAIN shells /\ k < n
        BY <1>3
      <4> QED  BY <4>1 DEF ShellInv, Nested
    <3> QED  BY <3>1, <1>1, <1>3, <1>6, <1>9 DEF Between
  <2>2. CASE i \in 1..n /\ j \in 1..n
    BY <2>1, <2>2, <1>3 DEF ShellInv, Nested
  <2>3. CASE i \in 1..n /\ j = n + 1
    <3>1. i \in DOMAIN shells /\ n \in DOMAIN shells /\ (i < n \/ i = n)
      BY <2>3, <1>3
    <3>2. shells'[j].cookie = shells[n].cookie
      BY <2>3, <1>3, <1>8, <1>9
    <3>3. shells[i].screen /\ shells[i].rc # "preexec" => ~shells[n].cookie
      BY <2>3, <2>1, <3>1 DEF ShellInv, Nested
    <3> QED  BY <2>3, <2>1, <3>2, <3>3
  <2>4. CASE i = n + 1
    BY <2>4, <1>8, <1>9
  <2> QED  BY <2>2, <2>3, <2>4
<1> QED  BY <1>9, <1>10, <1>11, <1>12 DEF ShellInv, Nested

\* A shell ends; the one it was started from goes on to its prompt.
LEMMA LeaveKeeps ==
  ASSUME ShellInv, shells # <<>>, NEW status \in Nat, Leave(status)
  PROVE  ShellInv'
<1>1. PICK n \in Nat \ {0} : n = Len(shells)
  BY Innermost
<1>2. DOMAIN shells = 1..n
  BY <1>1, Innermost
<1>3. CASE n = 1
  <2>1. shells' = <<>>
    BY <1>1, <1>3 DEF Leave
  <2>2. shells' \in Seq(Shell) /\ DOMAIN shells' = {}
    BY <2>1, EmptySeq
  <2> QED  BY <2>2 DEF ShellInv, Nested
<1>4. CASE n # 1
  <2>1. PICK m \in Nat \ {0} : m = n - 1
    BY <1>4
  <2>2. /\ m \in DOMAIN shells /\ n \in DOMAIN shells /\ m < n
        /\ shells \in Seq(Shell)
    BY <1>2, <2>1 DEF ShellInv
  <2>3. PICK w : w = shells[m]
    OBVIOUS
  <2>4. w \in Shell /\ Setting(m, w) /\ Progress(w) /\ w.pc = "waiting"
    BY <2>2, <2>3 DEF ShellInv, Sane, Nested
  <2>5. PICK s : s = [w EXCEPT !.pc = "prompt", !.status = status]
    OBVIOUS
  <2>6. /\ s \in Shell /\ s.pc = "prompt"
        /\ s.cookie = w.cookie /\ s.rc = w.rc /\ s.screen = w.screen
        /\ s.prev = w.prev /\ s.exported = w.exported /\ s.prompt = w.prompt
        /\ s.enabled = w.enabled /\ s.sourced = w.sourced
        /\ s.ends = w.ends /\ s.mine = w.mine
    BY <2>4, <2>5 DEF Shell
  <2>7. Sane(m, s)
    <3>1. Setting(m, s)
      BY <2>4, <2>6 DEF Setting
    <3>2. Progress(s)
      BY <2>4, <2>6 DEF Progress
    <3> QED  BY <3>1, <3>2, <2>6 DEF Sane
  <2>8. /\ shells' \in Seq(Shell) /\ Len(shells') = m /\ shells'[m] = s
        /\ \A i \in 1..(m - 1) : shells'[i] = shells[i]
    <3>1. Front(shells)[Len(shells) - 1] = w
      <4>1. /\ Len(shells) - 1 = m /\ m \in 1..(Len(shells) - 1)
        BY <1>1, <2>1
      <4> QED  BY <4>1, <2>2, <2>3, WithoutLast
    <3>2. Len(shells) - 1 = m /\ Len(shells) = m + 1 /\ Len(shells) # 1
      BY <1>1, <2>1
    <3>3. shells' = [Front(shells) EXCEPT ![m] = s]
      BY <3>1, <3>2, <2>5 DEF Leave
    <3>4. PICK f \in Seq(Shell) :
            /\ f = Front(shells) /\ Len(f) = m /\ m \in 1..Len(f)
            /\ \A i \in 1..m : f[i] = shells[i]
      <4>1. shells \in Seq(Shell) /\ shells # <<>>
        BY <2>2
      <4> QED  BY <4>1, <3>2, WithoutLast
    <3>5. /\ [f EXCEPT ![m] = s] \in Seq(Shell) /\ Len([f EXCEPT ![m] = s]) = Len(f)
          /\ \A i \in 1..Len(f) : [f EXCEPT ![m] = s][i] = IF i = m THEN s ELSE f[i]
      BY <2>6, <3>4, ExceptSeq
    <3>6. /\ shells' \in Seq(Shell) /\ Len(shells') = m
          /\ \A i \in 1..m : shells'[i] = IF i = m THEN s ELSE f[i]
      BY <3>3, <3>4, <3>5
    <3> QED  BY <3>4, <3>6
  <2>9. DOMAIN shells' = 1..m
    BY <2>8, LenProperties
  <2>10. ASSUME NEW i \in 1..m  PROVE  Sane(i, shells'[i])
    <3>1. CASE i = m
      BY <3>1, <2>7, <2>8
    <3>2. CASE i # m
      <4>1. i \in DOMAIN shells /\ shells'[i] = shells[i]
        BY <3>2, <1>2, <2>1, <2>8
      <4> QED  BY <4>1 DEF ShellInv
    <3> QED  BY <3>1, <3>2
  <2>11. ASSUME NEW i \in 1..m, NEW j \in 1..m
         PROVE  /\ i < j => shells'[i].pc = "waiting"
                /\ /\ i < j \/ (i = j /\ shells'[i].pc # "source")
                   /\ shells'[i].screen /\ shells'[i].rc # "preexec"
                   => ~shells'[j].cookie
    <3>1. \A k \in 1..m : /\ k \in DOMAIN shells
                          /\ shells'[k].screen = shells[k].screen
                          /\ shells'[k].rc = shells[k].rc
                          /\ shells'[k].cookie = shells[k].cookie
                          /\ shells[k].pc = "waiting"
                          /\ k < m => shells'[k] = shells[k]
      <4>1. \A k \in 1..m : k \in DOMAIN shells /\ k < n
        BY <1>2, <2>1
      <4>2. \A k \in 1..m : shells[k].pc = "waiting"
        BY <4>1, <2>2 DEF ShellInv, Nested
      <4> QED  BY <4>1, <4>2, <2>3, <2>6, <2>8
    <3>2. /\ i \in DOMAIN shells /\ j \in DOMAIN shells
          /\ i < j => i < m
      BY <3>1
    <3>3. /\ i < j \/ (i = j /\ shells[i].pc # "source")
          /\ shells[i].screen /\ shells[i].rc # "preexec"
          => ~shells[j].cookie
      BY <3>2 DEF ShellInv, Nested
    <3> QED  BY <3>1, <3>2, <3>3
  <2> QED  BY <2>8, <2>9, <2>10, <2>11 DEF ShellInv, Nested
<1> QED  BY <1>3, <1>4

LEMMA RecurseKeeps == ASSUME ShellInv, shells # <<>>, Recurse PROVE ShellInv'
<1>1. CASE Step([top EXCEPT !.ends = EndMarker])
  BY <1>1, CallKeeps DEF Recurse
<1>2. CASE Leave(139)
  BY <1>2, LeaveKeeps
<1> QED  BY <1>1, <1>2 DEF Recurse

LEMMA ExitShellKeeps == ASSUME ShellInv, shells # <<>>, ExitShell PROVE ShellInv'
  BY LeaveKeeps, ShellAssumption DEF ExitShell

-----------------------------------------------------------------------------
(* bash: the theorems *)

LEMMA ShellInitially == ShellsInit => ShellInv
<1> SUFFICES ASSUME ShellsInit  PROVE ShellInv
  OBVIOUS
<1>1. CASE Init
  <2>1. PICK rc \in RcFiles : shells = <<Fresh(rc, FALSE, Terminal)>>
    BY <1>1 DEF Init
  <2>2. PICK prompt \in Seq(Word) : prompt = RcPrompt(rc, <<>>)
    <3>1. <<"mine">> \in Seq(Word) /\ <<>> \in Seq(Word)
      BY EmptySeq DEF Word
    <3>2. <<"mine">> \o <<>> \in Seq(Word) /\ <<>> \o <<"mine">> \in Seq(Word)
      BY <3>1, ConcatProperties
    <3> QED  BY <3>1, <3>2 DEF RcPrompt
  <2>3. PICK none \in Seq(Word), ends \in Seq(Nat) : none = <<>> /\ ends = <<>>
    BY EmptySeq
  <2>4. PICK s : s =
          [pc |-> "source", rc |-> rc, screen |-> FALSE,
           cookie |-> TRUE, path |-> 0, prev |-> none,
           exported |-> FALSE, prompt |-> prompt,
           enabled |-> FALSE, sourced |-> 0, status |-> 0,
           starts |-> 0, ends |-> ends, mine |-> 0]
    OBVIOUS
  <2>5. s = Fresh(rc, FALSE, Terminal)
    BY <2>2, <2>3, <2>4 DEF Fresh, Terminal
  <2>6. s \in Shell
    BY <2>4 DEF Shell
  <2>7. Setting(1, s)
    BY <2>2, <2>4 DEF Setting
  <2>8. Progress(s)
    BY <2>3, <2>4 DEF Progress
  <2>9. /\ shells \in Seq(Shell) /\ DOMAIN shells = {1} /\ shells[1] = s
    <3>1. <<s>> \in Seq(Shell) /\ DOMAIN <<s>> = {1} /\ <<s>>[1] = s
      BY <2>6
    <3> QED  BY <3>1, <2>1, <2>5
  <2>10. \A i \in DOMAIN shells : Sane(i, shells[i])
    BY <2>6, <2>7, <2>8, <2>9 DEF Sane
  <2>11. s.pc = "source"
    BY <2>4
  <2>12. Nested
    BY <2>9, <2>11 DEF Nested
  <2> QED  BY <2>9, <2>10, <2>12 DEF ShellInv
<1>2. CASE shells = <<>>
  <2>1. shells \in Seq(Shell) /\ DOMAIN shells = {}
    BY <1>2, EmptySeq
  <2> QED  BY <2>1 DEF ShellInv, Nested
<1> QED  BY <1>1, <1>2 DEF ShellsInit

LEMMA ShellStep == ShellInv /\ [ShellsNext]_<<shells, zsh>> => ShellInv'
<1> SUFFICES ASSUME ShellInv, [ShellsNext]_<<shells, zsh>>  PROVE ShellInv'
  OBVIOUS
<1>1. CASE UNCHANGED shells
  BY <1>1 DEF ShellInv, Nested
<1>2. CASE Next
  <2>1. shells # <<>>
    BY <1>2 DEF Next
  <2>2. CASE EarlyOut  BY <2>1, <2>2, EarlyOutKeeps
  <2>3. CASE SetUp  BY <2>1, <2>3, SetUpKeeps
  <2>4. CASE PlainPrompt  BY <2>1, <2>4, PlainPromptKeeps
  <2>5. CASE extraterm_postexec  BY <2>1, <2>5, PostexecKeeps
  <2>6. CASE Recurse  BY <2>1, <2>6, RecurseKeeps
  <2>7. CASE RunLine  BY <2>1, <2>7, RunLineKeeps
  <2>8. CASE SourceAgain  BY <2>1, <2>8, SourceAgainKeeps
  <2>9. CASE StartShell  BY <2>1, <2>9, StartShellKeeps
  <2>10. CASE ExitShell  BY <2>1, <2>10, ExitShellKeeps
  <2> QED  BY <1>2, <2>2, <2>3, <2>4, <2>5, <2>6, <2>7, <2>8, <2>9, <2>10 DEF Next
<1> QED  BY <1>1, <1>2 DEF ShellsNext

\* The relation between nested bash shells that the properties rest on.
THEOREM ShellInvariant == ShellsSpec => []ShellInv
<1>1. ShellsInit => ShellInv  BY ShellInitially
<1>2. ShellInv /\ [ShellsNext]_<<shells, zsh>> => ShellInv'  BY ShellStep
<1> QED  BY <1>1, <1>2, PTL DEF ShellsSpec

\* Each line's status is reported, and once, but in a shell started from
\* another whose .bashrc adds to the end of the PROMPT_COMMAND it inherits.
THEOREM StatusCorrect == ShellsSpec => []StatusReported
<1>1. ShellInv => StatusReported
  <2> SUFFICES ASSUME ShellInv, NEW i \in DOMAIN shells
               PROVE  /\ Ready(i) => shells[i].ends = <<shells[i].status>>
                      /\ Len(shells[i].ends) > 1 => i > 1 /\ shells[i].rc = "after"
    BY DEF StatusReported
  <2>1. PICK s : s = shells[i]
    OBVIOUS
  <2>2. s \in Shell /\ Setting(i, s) /\ Progress(s) /\ i \in Nat \ {0}
    BY <2>1, LenProperties DEF ShellInv, Sane
  <2>3. Ready(i) => s.ends = <<s.status>>
    BY <2>1, <2>2 DEF Ready, Progress
  <2>4. ASSUME Len(s.ends) > 1  PROVE  i > 1 /\ s.rc = "after"
    <3>1. Len(<<>>) = 0 /\ Len(<<s.status>>) = 1
      OBVIOUS
    <3>2. s.ends # <<>> /\ s.ends # <<s.status>>
      <4>1. Len(s.ends) # 0 /\ Len(s.ends) # 1
        <5>1. s.ends \in Seq(Nat)
          BY <2>2 DEF Shell
        <5>2. PICK k \in Nat : k = Len(s.ends)
          BY <5>1, LenProperties
        <5>3. k > 1
          BY <5>2, <2>4, Zenon
        <5>4. k # 0 /\ k # 1
          BY <5>3
        <5> QED  BY <5>2, <5>4, Zenon
      <4> QED  BY <4>1, <3>1, Zenon
    <3>3. s.enabled /\ s.pc = "prompt" /\ Len(s.prev) > 1 /\ s.prev[1] = "postexec"
      BY <2>2, <3>2 DEF Progress, Shell
    <3>4. s.prev \in Found(i, s.rc) \cup {<<"postexec">>}
      BY <2>2, <3>3 DEF Setting
    <3>5. s.prev \in {RcPrompt(s.rc, <<>>)}
                       \cup IF i = 1 THEN {} ELSE {RcPrompt(s.rc, <<"postexec">>)}
      <4>1. Len(<<"postexec">>) = 1
        OBVIOUS
      <4>2. s.prev # <<"postexec">>
        <5>1. s.prev \in Seq(Word)
          BY <2>2 DEF Shell
        <5>2. PICK k \in Nat : k = Len(s.prev)
          BY <5>1, LenProperties
        <5>3. k > 1
          BY <5>2, <3>3, Zenon
        <5>4. k # 1
          BY <5>3
        <5> QED  BY <5>2, <5>4, <4>1, Zenon
      <4> QED  BY <4>2, <3>4 DEF Found
    <3>6. s.prev # RcPrompt(s.rc, <<>>)
      BY <3>3 DEF RcPrompt
    <3>7. i # 1 /\ s.prev = RcPrompt(s.rc, <<"postexec">>)
      BY <3>5, <3>6
    <3>8. s.rc = "after"
      BY <3>3, <3>7 DEF RcPrompt
    <3> QED  BY <2>2, <3>7, <3>8
  <2> QED  BY <2>1, <2>3, <2>4
<1> QED  BY <1>1, ShellInvariant, PTL

\* No shell inside screen writes markers, nor does one started from it.
THEOREM ScreenQuiet == ShellsSpec => []QuietInScreen
<1>1. ShellInv => QuietInScreen
  <2> SUFFICES ASSUME ShellInv, NEW i \in DOMAIN shells, NEW j \in DOMAIN shells,
                      i <= j, shells[i].screen, shells[i].rc # "preexec"
               PROVE  ~shells[j].enabled
    BY DEF QuietInScreen
  <2>1. Setting(i, shells[i]) /\ Setting(j, shells[j])
    BY DEF ShellInv, Sane
  <2>2. CASE i = j
    BY <2>1, <2>2 DEF Setting
  <2>3. CASE i # j
    <3>1. i < j
      BY <2>3, LenProperties DEF ShellInv
    <3> QED  BY <3>1, <2>1 DEF ShellInv, Nested, Setting
  <2> QED  BY <2>2, <2>3
<1> QED  BY <1>1, ShellInvariant, PTL

\* A prompt command that was all of PROMPT_COMMAND is run once for each prompt.
THEOREM PromptCommandRuns == ShellsSpec => []PromptCommandKept
<1>1. ShellInv => PromptCommandKept
  <2> SUFFICES ASSUME ShellInv, NEW i \in DOMAIN shells,
                      Ready(i), shells[i].sourced = 1,
                      \/ shells[i].rc = "set"
                      \/ i = 1 /\ shells[i].rc \in {"before", "after"}
               PROVE  shells[i].mine = 1
    BY DEF PromptCommandKept
  <2>1. PICK s : s = shells[i]
    OBVIOUS
  <2>2. s \in Shell /\ Setting(i, s) /\ Progress(s)
    BY <2>1 DEF ShellInv, Sane
  <2>3. s.enabled /\ s.pc = "ready"
    BY <2>1 DEF Ready
  <2>4. s.prev \in Found(i, s.rc)
    BY <2>1, <2>2, <2>3 DEF Setting
  <2>5. s.prev = <<"mine">>
    <3>1. CASE s.rc = "set"
      BY <3>1, <2>4 DEF Found, RcPrompt
    <3>2. CASE i = 1 /\ s.rc \in {"before", "after"}
      BY <3>2, <2>4 DEF Found, RcPrompt
    <3> QED  BY <3>1, <3>2, <2>1
  <2> QED  BY <2>1, <2>2, <2>3, <2>5 DEF Progress
<1> QED  BY <1>1, ShellInvariant, PTL

-----------------------------------------------------------------------------
(* zsh: the inductive invariant *)

Marker == [cookie : Cookies \cup {""}, whole : BOOLEAN]

Zsh ==
  [pc : {"source", "prompt", "ready", "waiting"}, rc : ZshRc,
   screen : BOOLEAN, cookie : Cookies \cup {""}, prompt : Seq(Marker),
   hooks : Seq({"mine", "extraterm"}), ran : Nat,
   enabled : BOOLEAN, sourced : Nat]

\* The hooks of a shell that the script has set up.
HooksOf(rc) ==
  CASE rc = "theme" -> <<"mine", "extraterm">>
    [] rc = "late"  -> <<"extraterm", "mine">>
    [] OTHER        -> <<"extraterm">>

ZshSetting(s) ==
  /\ s.enabled <=> s.sourced # 0
  /\ s.enabled => s.cookie # "" /\ ~s.screen /\ s.hooks = HooksOf(s.rc)
  /\ ~s.enabled /\ s.pc = "source" =>
       s.hooks = IF s.rc = "theme" THEN <<"mine">> ELSE <<>>
  /\ ~s.enabled => \A k \in DOMAIN s.hooks : s.hooks[k] = "mine"
  /\ s.pc # "prompt" => s.ran = 0
  /\ s.ran <= Len(s.hooks)

\* No two markers in a prompt have a cookie in common.
Distinct(prompt) ==
  \A j, k \in DOMAIN prompt : prompt[j].cookie = prompt[k].cookie => j = k

\* What a hook has seen to once it has been run.
Hooked(s, h) ==
  IF h = "mine" THEN s.prompt = <<>>
  ELSE \E k \in DOMAIN s.prompt : s.prompt[k].cookie = s.cookie

ZshProgress(s) ==
  /\ Distinct(s.prompt)
  /\ s.enabled /\ s.pc = "prompt" /\ s.ran # 0 => Hooked(s, s.hooks[s.ran])
  /\ s.enabled /\ s.pc = "ready" => Hooked(s, s.hooks[Len(s.hooks)])

ZshSane(s) == s \in Zsh /\ ZshSetting(s) /\ ZshProgress(s)

\* The i-th shell made the markers in its prompt that are whole, and shells it
\* is inside made the others.
Origin(q, i, s) ==
  \A k \in DOMAIN s.prompt :
    IF s.prompt[k].whole THEN s.enabled /\ s.cookie = s.prompt[k].cookie
    ELSE \E j \in 1..(i - 1) : q[j].enabled /\ q[j].cookie = s.prompt[k].cookie

ZshInv ==
  /\ zsh \in Seq(Zsh)
  /\ \A i \in DOMAIN zsh : /\ ZshSane(zsh[i]) /\ Origin(zsh, i, zsh[i])
                           /\ i < Len(zsh) => zsh[i].pc = "waiting"

-----------------------------------------------------------------------------
(* zsh: what the hooks do *)

\* The integration leaves one marker of the cookie, adding none but its own.
LEMMA Installs ==
  ASSUME NEW prompt \in Seq(Marker), Distinct(prompt), NEW c \in Cookies
  PROVE  LET r == extraterm_install_prompt_integration(c, prompt)
         IN  /\ r \in Seq(Marker) /\ Distinct(r)
             /\ \E k \in DOMAIN r : r[k].cookie = c
             /\ \A k \in DOMAIN r : \/ r[k].whole /\ r[k].cookie = c
                                    \/ \E j \in DOMAIN prompt : r[k] = prompt[j]
<1> DEFINE r == extraterm_install_prompt_integration(c, prompt)
<1>1. CASE \E m \in ToSet(prompt) : m.cookie = c
  <2>1. r = prompt
    BY <1>1 DEF extraterm_install_prompt_integration
  <2>2. \E k \in DOMAIN prompt : prompt[k].cookie = c
    BY <1>1 DEF ToSet
  <2> QED  BY <2>1, <2>2
<1>2. CASE ~\E m \in ToSet(prompt) : m.cookie = c
  <2>1. PICK m : m = [cookie |-> c, whole |-> TRUE]
    OBVIOUS
  <2>2. m \in Marker /\ m.cookie = c /\ m.whole
    BY <2>1 DEF Marker
  <2>3. PICK one \in Seq(Marker) : one = <<m>> /\ Len(one) = 1 /\ one[1] = m
    BY <2>2, OneOrTwo
  <2>4. r = one \o prompt
    BY <1>2, <2>1, <2>3 DEF extraterm_install_prompt_integration
  <2>5. PICK n \in Nat : n = Len(prompt) /\ DOMAIN prompt = 1..n
    BY LenProperties
  <2>6. /\ one \o prompt \in Seq(Marker) /\ Len(one \o prompt) = Len(one) + Len(prompt)
        /\ \A k \in 1..Len(one) + Len(prompt) :
             (one \o prompt)[k] = IF k <= Len(one) THEN one[k] ELSE prompt[k - Len(one)]
    BY <2>3, ConcatProperties
  <2>7. /\ r \in Seq(Marker) /\ Len(r) = 1 + n
        /\ \A k \in 1..1 + n : r[k] = IF k <= 1 THEN one[k] ELSE prompt[k - 1]
    BY <2>3, <2>4, <2>5, <2>6
  <2> HIDE DEF r
  <2>8. DOMAIN r = 1..(1 + n)
    BY <2>7, LenProperties
  <2>9. r[1] = m /\ \A k \in 2..(1 + n) : r[k] = prompt[k - 1] /\ k - 1 \in 1..n
    BY <2>3, <2>7
  <2>10. \A j \in 1..n : prompt[j].cookie # c
    BY <1>2, <2>5 DEF ToSet
  <2>11. Distinct(r)
    <3> SUFFICES ASSUME NEW j \in 1..(1 + n), NEW k \in 1..(1 + n),
                        r[j].cookie = r[k].cookie
                 PROVE  j = k
      BY <2>8 DEF Distinct
    <3>1. CASE j = 1 /\ k = 1
      BY <3>1
    <3>2. CASE j = 1 /\ k \in 2..(1 + n)
      BY <3>2, <2>2, <2>9, <2>10
    <3>3. CASE j \in 2..(1 + n) /\ k = 1
      BY <3>3, <2>2, <2>9, <2>10
    <3>4. CASE j \in 2..(1 + n) /\ k \in 2..(1 + n)
      <4>1. PICK a \in DOMAIN prompt, b \in DOMAIN prompt : a = j - 1 /\ b = k - 1
        BY <3>4, <2>5
      <4>2. r[j] = prompt[a] /\ r[k] = prompt[b]
        BY <3>4, <4>1, <2>9
      <4>3. prompt[a].cookie = prompt[b].cookie
        BY <4>2
      <4>4. a = b
        BY <4>3, Zenon DEF Distinct
      <4> QED  BY <3>4, <4>1, <4>4
    <3> QED  BY <3>1, <3>2, <3>3, <3>4
  <2>12. \A k \in DOMAIN r : \/ r[k].whole /\ r[k].cookie = c
                             \/ \E j \in DOMAIN prompt : r[k] = prompt[j]
    <3> SUFFICES ASSUME NEW k \in 1..(1 + n)
                 PROVE  \/ r[k].whole /\ r[k].cookie = c
                        \/ \E j \in DOMAIN prompt : r[k] = prompt[j]
      BY <2>8
    <3>1. CASE k = 1
      BY <3>1, <2>2, <2>9
    <3>2. CASE k \in 2..(1 + n)
      BY <3>2, <2>5, <2>9
    <3> QED  BY <3>1, <3>2
  <2>13. \E k \in DOMAIN r : r[k].cookie = c
    BY <2>2, <2>8, <2>9
  <2> QED  BY <2>7, <2>11, <2>12, <2>13 DEF r
<1> QED  BY <1>1, <1>2

\* The script's hook is added to those of .zshrc, and stays in its place.
LEMMA HooksAdded ==
  ASSUME NEW rc
  PROVE  /\ HooksOf(rc) \in Seq({"mine", "extraterm"})
         /\ Len(HooksOf(rc)) \in {1, 2}
         /\ HooksOf(rc)[Len(HooksOf(rc))] = IF rc = "late" THEN "mine" ELSE "extraterm"
         /\ AddHook(HooksOf(rc), "extraterm") = HooksOf(rc)
         /\ rc = "late" => AddHook(HooksOf(rc), "mine") = HooksOf(rc)
         /\ LET start == IF rc = "theme" THEN <<"mine">> ELSE <<>>
                ours == AddHook(start, "extraterm")
            IN  HooksOf(rc) = IF rc = "late" THEN AddHook(ours, "mine") ELSE ours
<1> DEFINE H == {"mine", "extraterm"}
<1>1. "mine" \in H /\ "extraterm" \in H
  OBVIOUS
<1> HIDE DEF H
<1>2. CASE rc = "theme"
  <2>1. HooksOf(rc) = <<"mine", "extraterm">>
    BY <1>2 DEF HooksOf
  <2>2. Contains(<<"mine", "extraterm">>, "extraterm") /\ ~Contains(<<"mine">>, "extraterm")
    BY DEF Contains
  <2>3. /\ <<"mine", "extraterm">> \in Seq(H) /\ Len(<<"mine", "extraterm">>) = 2
        /\ <<"mine", "extraterm">>[2] = "extraterm"
        /\ Append(<<"mine">>, "extraterm") = <<"mine", "extraterm">>
    BY <1>1, OneOrTwo
  <2>4. AddHook(HooksOf(rc), "extraterm") = HooksOf(rc)
    BY <2>1, <2>2 DEF AddHook
  <2>5. AddHook(<<"mine">>, "extraterm") = HooksOf(rc)
    BY <2>1, <2>2, <2>3 DEF AddHook
  <2> QED  BY <1>2, <2>1, <2>3, <2>4, <2>5 DEF H
<1>3. CASE rc = "late"
  <2>1. HooksOf(rc) = <<"extraterm", "mine">>
    BY <1>3 DEF HooksOf
  <2>2. /\ Contains(<<"extraterm", "mine">>, "extraterm")
        /\ Contains(<<"extraterm", "mine">>, "mine")
        /\ ~Contains(<<>>, "extraterm") /\ ~Contains(<<"extraterm">>, "mine")
    BY DEF Contains
  <2>3. /\ <<"extraterm", "mine">> \in Seq(H) /\ Len(<<"extraterm", "mine">>) = 2
        /\ <<"extraterm", "mine">>[2] = "mine"
        /\ Append(<<>>, "extraterm") = <<"extraterm">>
        /\ Append(<<"extraterm">>, "mine") = <<"extraterm", "mine">>
    BY <1>1, OneOrTwo
  <2>4. /\ AddHook(HooksOf(rc), "extraterm") = HooksOf(rc)
        /\ AddHook(HooksOf(rc), "mine") = HooksOf(rc)
    BY <2>1, <2>2 DEF AddHook
  <2>5. AddHook(<<>>, "extraterm") = <<"extraterm">>
    BY <2>2, <2>3 DEF AddHook
  <2>6. AddHook(<<"extraterm">>, "mine") = HooksOf(rc)
    BY <2>1, <2>2, <2>3 DEF AddHook
  <2> QED  BY <1>3, <2>1, <2>3, <2>4, <2>5, <2>6 DEF H
<1>4. CASE rc # "theme" /\ rc # "late"
  <2>1. HooksOf(rc) = <<"extraterm">>
    BY <1>4 DEF HooksOf
  <2>2. Contains(<<"extraterm">>, "extraterm") /\ ~Contains(<<>>, "extraterm")
    BY DEF Contains
  <2>3. /\ <<"extraterm">> \in Seq(H) /\ Len(<<"extraterm">>) = 1
        /\ <<"extraterm">>[1] = "extraterm"
        /\ Append(<<>>, "extraterm") = <<"extraterm">>
    BY <1>1, OneOrTwo
  <2>4. AddHook(HooksOf(rc), "extraterm") = HooksOf(rc)
    BY <2>1, <2>2 DEF AddHook
  <2>5. AddHook(<<>>, "extraterm") = HooksOf(rc)
    BY <2>1, <2>2, <2>3 DEF AddHook
  <2> QED  BY <1>4, <2>1, <2>3, <2>4, <2>5 DEF H
<1> QED  BY <1>2, <1>3, <1>4

LEMMA AddHookType ==
  ASSUME NEW hooks \in Seq({"mine", "extraterm"}), NEW h \in {"mine", "extraterm"}
  PROVE  AddHook(hooks, h) \in Seq({"mine", "extraterm"})
  BY AppendProperties DEF AddHook

-----------------------------------------------------------------------------
(* zsh: each step keeps it *)

LEMMA ZshInnermost ==
  ASSUME ZshInv, zsh # <<>>
  PROVE  /\ Len(zsh) \in Nat \ {0} /\ DOMAIN zsh = 1..Len(zsh)
         /\ inner = zsh[Len(zsh)] /\ ZshSane(inner) /\ Origin(zsh, Len(zsh), inner)
<1>1. /\ Len(zsh) \in Nat \ {0} /\ inner = zsh[Len(zsh)]
  BY WithoutLast DEF ZshInv, inner
<1>2. DOMAIN zsh = 1..Len(zsh)
  BY LenProperties DEF ZshInv
<1>3. Len(zsh) \in DOMAIN zsh
  BY <1>1, <1>2
<1> QED  BY <1>1, <1>2, <1>3 DEF ZshInv

\* Where a marker comes from depends on the outer shells alone.
LEMMA OriginStays ==
  ASSUME NEW q, NEW r, NEW i \in Nat, NEW s,
         \A j \in 1..(i - 1) : r[j].enabled = q[j].enabled /\ r[j].cookie = q[j].cookie,
         Origin(q, i, s)
  PROVE  Origin(r, i, s)
  BY DEF Origin

\* A step of the innermost shell.
LEMMA BecomeKeeps ==
  ASSUME ZshInv, zsh # <<>>, NEW s, Become(s), ZshSane(s), Origin(zsh, Len(zsh), s)
  PROVE  ZshInv'
<1>1. PICK n \in Nat \ {0} : n = Len(zsh)
  BY ZshInnermost
<1>2. DOMAIN zsh = 1..n
  BY <1>1, ZshInnermost
<1>3. /\ zsh' \in Seq(Zsh) /\ Len(zsh') = n /\ zsh'[n] = s
      /\ \A i \in 1..(n - 1) : zsh'[i] = zsh[i]
  <2>1. /\ zsh \in Seq(Zsh) /\ s \in Zsh
        /\ zsh' = Append(Front(zsh), s)
    BY DEF ZshInv, Become, ZshSane
  <2>2. /\ Append(Front(zsh), s) \in Seq(Zsh)
        /\ Len(Append(Front(zsh), s)) = Len(zsh)
        /\ Append(Front(zsh), s)[Len(zsh)] = s
        /\ \A i \in 1..(Len(zsh) - 1) : Append(Front(zsh), s)[i] = zsh[i]
    BY <2>1, Replaced
  <2> QED  BY <2>1, <2>2, <1>1
<1>4. DOMAIN zsh' = 1..n
  BY <1>3, LenProperties
<1>5. ASSUME NEW i \in 1..n
      PROVE  /\ ZshSane(zsh'[i]) /\ Origin(zsh', i, zsh'[i])
             /\ i < n => zsh'[i].pc = "waiting"
  <2>1. \A j \in 1..(i - 1) :
          zsh'[j].enabled = zsh[j].enabled /\ zsh'[j].cookie = zsh[j].cookie
    BY <1>3
  <2>2. CASE i = n
    <3>1. Origin(zsh, i, s)
      BY <2>2, <1>1
    <3>2. Origin(zsh', i, s)
      BY <2>1, <3>1 DEF Origin
    <3> QED  BY <3>2, <2>2, <1>3
  <2>3. CASE i # n
    <3>1. i \in DOMAIN zsh /\ zsh'[i] = zsh[i] /\ i < n
      BY <2>3, <1>2, <1>3
    <3>2. ZshSane(zsh[i]) /\ Origin(zsh, i, zsh[i]) /\ zsh[i].pc = "waiting"
      BY <3>1, <1>1 DEF ZshInv
    <3>3. Origin(zsh', i, zsh[i])
      BY <2>1, <3>2, OriginStays
    <3> QED  BY <3>1, <3>2, <3>3
  <2> QED  BY <2>2, <2>3
<1> QED  BY <1>3, <1>4, <1>5 DEF ZshInv

\* Without a marker nothing is to be said of it.
LEMMA NoMarkers ==
  ASSUME NEW s, s.prompt = <<>>
  PROVE  s.prompt \in Seq(Marker) /\ Distinct(s.prompt) /\ \A q, i : Origin(q, i, s)
  BY EmptySeq DEF Distinct, Origin

LEMMA ZshEarlyOutKeeps == ASSUME ZshInv, zsh # <<>>, ZshEarlyOut PROVE ZshInv'
<1>1. PICK n \in Nat \ {0} : n = Len(zsh)
  BY ZshInnermost
<1>2. inner \in Zsh /\ ZshSetting(inner) /\ ZshProgress(inner) /\ Origin(zsh, n, inner)
  BY <1>1, ZshInnermost DEF ZshSane
<1>3. inner.pc = "source" /\ ~inner.enabled /\ inner.ran = 0
  BY <1>2 DEF ZshEarlyOut, ZshSetting
<1>4. PICK prompt \in Seq(Marker) :
        /\ prompt = IF inner.rc = "after" /\ inner.sourced < 2 THEN <<>> ELSE inner.prompt
        /\ prompt = <<>> \/ prompt = inner.prompt
  BY <1>2, EmptySeq DEF Zsh
<1>5. PICK hooks \in Seq({"mine", "extraterm"}) :
        hooks = IF inner.rc = "late" THEN AddHook(inner.hooks, "mine") ELSE inner.hooks
  BY <1>2, AddHookType DEF Zsh
<1>6. PICK e : e = [inner EXCEPT !.cookie = ""]
  OBVIOUS
<1>7. /\ e \in Zsh /\ e.rc = inner.rc /\ e.sourced = inner.sourced
      /\ e.prompt = inner.prompt /\ e.hooks = inner.hooks
      /\ e.ran = inner.ran /\ e.enabled = inner.enabled
  BY <1>2, <1>6 DEF Zsh
<1>8. PICK s : s = [e EXCEPT !.pc = "prompt", !.prompt = prompt, !.hooks = hooks]
  OBVIOUS
<1>9. s = RestOfRc(e)
  BY <1>4, <1>5, <1>7, <1>8 DEF RestOfRc, Zsh
<1>10. Become(s)
  BY <1>6, <1>9 DEF ZshEarlyOut
<1>11. /\ s \in Zsh /\ s.pc = "prompt" /\ s.prompt = prompt /\ s.hooks = hooks
       /\ s.ran = 0 /\ ~s.enabled /\ s.sourced = inner.sourced
  BY <1>3, <1>7, <1>8 DEF Zsh
<1>12. ZshSetting(s)
  <2>1. PICK k \in Nat : k = Len(hooks)
    BY LenProperties
  <2>2. s.ran <= Len(s.hooks)
    BY <2>1, <1>11
  <2>3. \A j \in DOMAIN hooks : hooks[j] = "mine"
    <3>1. inner.hooks \in Seq({"mine"})
      <4>1. /\ <<"mine">> \in Seq({"mine"}) /\ <<>> \in Seq({"mine"})
        BY EmptySeq
      <4> QED  BY <4>1, <1>2, <1>3 DEF ZshSetting
    <3>2. hooks \in Seq({"mine"})
      BY <3>1, <1>5, AppendProperties DEF AddHook
    <3> QED  BY <3>2, ElementOfSeq, LenProperties
  <2> QED  BY <2>2, <2>3, <1>2, <1>3, <1>11 DEF ZshSetting
<1>13. ZshProgress(s) /\ Origin(zsh, n, s)
  <2>1. CASE prompt = <<>>
    BY <2>1, <1>11, NoMarkers DEF ZshProgress
  <2>2. CASE prompt = inner.prompt
    BY <2>2, <1>2, <1>3, <1>11 DEF ZshProgress, Origin
  <2> QED  BY <2>1, <2>2, <1>4
<1> QED  BY <1>1, <1>10, <1>11, <1>12, <1>13, BecomeKeeps DEF ZshSane

LEMMA ZshSetUpKeeps == ASSUME ZshInv, zsh # <<>>, ZshSetUp PROVE ZshInv'
<1>1. PICK n \in Nat \ {0} : n = Len(zsh)
  BY ZshInnermost
<1>2. inner \in Zsh /\ ZshSetting(inner) /\ ZshProgress(inner) /\ Origin(zsh, n, inner)
  BY <1>1, ZshInnermost DEF ZshSane
<1>3. /\ inner.pc = "source" /\ inner.cookie # "" /\ ~inner.screen
      /\ inner.cookie \in Cookies /\ inner.ran = 0 /\ inner.sourced \in Nat
  BY <1>2 DEF ZshSetUp, ZshSetting, Zsh
<1>4. PICK marked \in Seq(Marker) :
        /\ marked = extraterm_install_prompt_integration(inner.cookie, inner.prompt)
        /\ Distinct(marked)
        /\ \A k \in DOMAIN marked :
             \/ marked[k].whole /\ marked[k].cookie = inner.cookie
             \/ \E j \in DOMAIN inner.prompt : marked[k] = inner.prompt[j]
  <2>1. inner.prompt \in Seq(Marker) /\ Distinct(inner.prompt)
    BY <1>2 DEF Zsh, ZshProgress
  <2>2. PICK prompt \in Seq(Marker), c \in Cookies :
          prompt = inner.prompt /\ c = inner.cookie
    BY <2>1, <1>3
  <2>3. LET r == extraterm_install_prompt_integration(c, prompt)
        IN  /\ r \in Seq(Marker) /\ Distinct(r)
            /\ \E k \in DOMAIN r : r[k].cookie = c
            /\ \A k \in DOMAIN r : \/ r[k].whole /\ r[k].cookie = c
                                   \/ \E j \in DOMAIN prompt : r[k] = prompt[j]
    BY <2>1, <2>2, Installs
  <2> QED  BY <2>2, <2>3
<1>5. PICK ours \in Seq({"mine", "extraterm"}) : ours = AddHook(inner.hooks, "extraterm")
  BY <1>2, AddHookType DEF Zsh
<1>6. PICK sourced \in Nat : sourced = inner.sourced + 1 /\ sourced # 0
  <2>1. \A k \in Nat : k + 1 \in Nat /\ k + 1 # 0
    OBVIOUS
  <2> QED  BY <2>1, <1>3, Zenon
<1>7. PICK e : e = [inner EXCEPT !.prompt = marked, !.hooks = ours,
                                 !.enabled = TRUE, !.sourced = sourced]
  OBVIOUS
<1>8. /\ e \in Zsh /\ e.rc = inner.rc /\ e.sourced = sourced /\ e.cookie = inner.cookie
      /\ e.prompt = marked /\ e.hooks = ours /\ e.ran = 0 /\ e.enabled
      /\ e.screen = inner.screen
  BY <1>2, <1>3, <1>7 DEF Zsh
<1>9. PICK prompt \in Seq(Marker) :
        /\ prompt = IF e.rc = "after" /\ e.sourced < 2 THEN <<>> ELSE e.prompt
        /\ prompt = <<>> \/ prompt = marked
  BY <1>8, EmptySeq DEF Zsh
<1>10. PICK hooks \in Seq({"mine", "extraterm"}) :
         hooks = IF e.rc = "late" THEN AddHook(e.hooks, "mine") ELSE e.hooks
  BY <1>8, AddHookType DEF Zsh
<1>11. PICK s : s = [e EXCEPT !.pc = "prompt", !.prompt = prompt, !.hooks = hooks]
  OBVIOUS
<1>12. s = RestOfRc(e)
  BY <1>9, <1>10, <1>8, <1>11 DEF RestOfRc, Zsh
<1>13. Become(s)
  BY <1>4, <1>5, <1>6, <1>7, <1>12 DEF ZshSetUp
<1>14. /\ s \in Zsh /\ s.pc = "prompt" /\ s.prompt = prompt /\ s.hooks = hooks
       /\ s.ran = 0 /\ s.enabled /\ s.sourced = sourced /\ s.cookie = inner.cookie
       /\ s.rc = inner.rc /\ s.screen = inner.screen
  BY <1>8, <1>11 DEF Zsh
<1>15. hooks = HooksOf(inner.rc)
  <2>1. CASE inner.enabled
    <3>1. inner.hooks = HooksOf(inner.rc)
      BY <2>1, <1>2 DEF ZshSetting
    <3> QED  BY <3>1, <1>5, <1>8, <1>10, HooksAdded
  <2>2. CASE ~inner.enabled
    <3>1. inner.hooks = IF inner.rc = "theme" THEN <<"mine">> ELSE <<>>
      BY <2>2, <1>2, <1>3 DEF ZshSetting
    <3> QED  BY <3>1, <1>5, <1>8, <1>10, HooksAdded
  <2> QED  BY <2>1, <2>2
<1>16. ZshSetting(s)
  <2>1. PICK k \in Nat : k = Len(hooks)
    BY LenProperties
  <2>2. s.ran <= Len(s.hooks) /\ s.sourced # 0
    BY <2>1, <1>6, <1>14
  <2> QED  BY <2>2, <1>3, <1>14, <1>15 DEF ZshSetting
<1>17. ZshProgress(s) /\ Origin(zsh, n, s)
  <2>1. CASE prompt = <<>>
    BY <2>1, <1>14, NoMarkers DEF ZshProgress
  <2>2. CASE prompt = marked
    <3>1. ZshProgress(s)
      BY <2>2, <1>4, <1>14 DEF ZshProgress
    <3>2. ASSUME NEW k \in DOMAIN marked
          PROVE  IF marked[k].whole THEN marked[k].cookie = inner.cookie
                 ELSE \E j \in 1..(n - 1) :
                        zsh[j].enabled /\ zsh[j].cookie = marked[k].cookie
      BY <3>2, <1>2, <1>4 DEF Origin
    <3>3. Origin(zsh, n, s)
      BY <2>2, <3>2, <1>14 DEF Origin
    <3> QED  BY <3>1, <3>3
  <2> QED  BY <2>1, <2>2, <1>9
<1> QED  BY <1>1, <1>13, <1>14, <1>16, <1>17, BecomeKeeps DEF ZshSane

LEMMA RunHookKeeps == ASSUME ZshInv, zsh # <<>>, RunHook PROVE ZshInv'
<1>1. PICK n \in Nat \ {0} : n = Len(zsh)
  BY ZshInnermost
<1>2. inner \in Zsh /\ ZshSetting(inner) /\ ZshProgress(inner) /\ Origin(zsh, n, inner)
  BY <1>1, ZshInnermost DEF ZshSane
<1>3. inner.pc = "prompt" /\ inner.ran < Len(inner.hooks)
  BY DEF RunHook
<1>4. PICK ran \in Nat : ran = inner.ran + 1 /\ ran <= Len(inner.hooks) /\ ran # 0
  <2>1. inner.ran \in Nat /\ inner.hooks \in Seq({"mine", "extraterm"})
    BY <1>2 DEF Zsh
  <2>2. PICK k \in Nat : k = Len(inner.hooks)
    BY <2>1, LenProperties
  <2> QED  BY <2>1, <2>2, <1>3
<1>5. PICK h \in {"mine", "extraterm"} : h = inner.hooks[ran]
  <2>1. inner.hooks \in Seq({"mine", "extraterm"})
    BY <1>2 DEF Zsh
  <2>2. ran \in 1..Len(inner.hooks)
    BY <1>4, <2>1, LenProperties
  <2> QED  BY <2>1, <2>2, ElementOfSeq
<1>6. inner.enabled \/ h = "mine"
  <2>1. ran \in DOMAIN inner.hooks
    <3>1. inner.hooks \in Seq({"mine", "extraterm"})
      BY <1>2 DEF Zsh
    <3> QED  BY <3>1, <1>4, LenProperties
  <2> QED  BY <2>1, <1>2, <1>5 DEF ZshSetting
<1>7. PICK prompt \in Seq(Marker) :
        /\ prompt = IF h = "mine" THEN <<>>
                    ELSE extraterm_install_prompt_integration(inner.cookie, inner.prompt)
        /\ Distinct(prompt)
        /\ h # "mine" => \E k \in DOMAIN prompt : prompt[k].cookie = inner.cookie
        /\ \A k \in DOMAIN prompt :
             \/ inner.enabled /\ prompt[k].whole /\ prompt[k].cookie = inner.cookie
             \/ \E j \in DOMAIN inner.prompt : prompt[k] = inner.prompt[j]
  <2>1. CASE h = "mine"
    <3>1. <<>> \in Seq(Marker) /\ DOMAIN <<>> = {}
      BY EmptySeq
    <3> QED  BY <3>1, <2>1 DEF Distinct
  <2>2. CASE h # "mine"
    <3>1. inner.enabled /\ inner.cookie \in Cookies
      BY <2>2, <1>2, <1>6 DEF ZshSetting, Zsh
    <3>2. inner.prompt \in Seq(Marker) /\ Distinct(inner.prompt)
      BY <1>2 DEF Zsh, ZshProgress
    <3>3. PICK old \in Seq(Marker), c \in Cookies :
            old = inner.prompt /\ c = inner.cookie
      BY <3>1, <3>2
    <3>4. LET r == extraterm_install_prompt_integration(c, old)
          IN  /\ r \in Seq(Marker) /\ Distinct(r)
              /\ \E k \in DOMAIN r : r[k].cookie = c
              /\ \A k \in DOMAIN r : \/ r[k].whole /\ r[k].cookie = c
                                     \/ \E j \in DOMAIN old : r[k] = old[j]
      BY <3>2, <3>3, Installs
    <3> QED  BY <2>2, <3>1, <3>3, <3>4
  <2> QED  BY <2>1, <2>2
<1>8. PICK s : s = [inner EXCEPT !.ran = ran, !.prompt = prompt]
  OBVIOUS
<1>9. Become(s)
  BY <1>4, <1>5, <1>7, <1>8 DEF RunHook
<1>10. /\ s \in Zsh /\ s.pc = "prompt" /\ s.prompt = prompt /\ s.hooks = inner.hooks
       /\ s.ran = ran /\ s.enabled = inner.enabled /\ s.sourced = inner.sourced
       /\ s.cookie = inner.cookie /\ s.rc = inner.rc /\ s.screen = inner.screen
  BY <1>2, <1>3, <1>8 DEF Zsh
<1>11. ZshSetting(s)
  BY <1>2, <1>4, <1>10 DEF ZshSetting
<1>12. ZshProgress(s)
  BY <1>4, <1>5, <1>7, <1>10 DEF ZshProgress, Hooked
<1>13. Origin(zsh, n, s)
  <2> SUFFICES ASSUME NEW k \in DOMAIN prompt
               PROVE  IF prompt[k].whole
                      THEN inner.enabled /\ inner.cookie = prompt[k].cookie
                      ELSE \E j \in 1..(n - 1) :
                             zsh[j].enabled /\ zsh[j].cookie = prompt[k].cookie
    BY <1>10 DEF Origin
  <2> QED  BY <1>2, <1>7 DEF Origin
<1> QED  BY <1>1, <1>9, <1>10, <1>11, <1>12, <1>13, BecomeKeeps DEF ZshSane

LEMMA WritePromptKeeps == ASSUME ZshInv, zsh # <<>>, WritePrompt PROVE ZshInv'
<1>1. PICK n \in Nat \ {0} : n = Len(zsh)
  BY ZshInnermost
<1>2. inner \in Zsh /\ ZshSetting(inner) /\ ZshProgress(inner) /\ Origin(zsh, n, inner)
  BY <1>1, ZshInnermost DEF ZshSane
<1>3. inner.pc = "prompt" /\ inner.ran = Len(inner.hooks)
  BY DEF WritePrompt
<1>4. PICK s : s = [inner EXCEPT !.pc = "ready", !.ran = 0]
  OBVIOUS
<1>5. Become(s)
  BY <1>4 DEF WritePrompt
<1>6. /\ s \in Zsh /\ s.pc = "ready" /\ s.prompt = inner.prompt
      /\ s.hooks = inner.hooks /\ s.ran = 0
      /\ s.enabled = inner.enabled /\ s.sourced = inner.sourced
      /\ s.cookie = inner.cookie /\ s.rc = inner.rc /\ s.screen = inner.screen
  BY <1>2, <1>4 DEF Zsh
<1>7. ZshSetting(s)
  <2>1. inner.hooks \in Seq({"mine", "extraterm"})
    BY <1>2 DEF Zsh
  <2>2. PICK k \in Nat : k = Len(inner.hooks)
    BY <2>1, LenProperties
  <2>3. s.ran <= Len(s.hooks)
    BY <2>2, <1>6
  <2> QED  BY <2>3, <1>2, <1>3, <1>6 DEF ZshSetting
<1>8. ZshProgress(s)
  <2>1. inner.enabled => inner.ran # 0
    <3>1. inner.enabled => inner.hooks = HooksOf(inner.rc)
      BY <1>2 DEF ZshSetting
    <3>2. Len(HooksOf(inner.rc)) # 0
      <4>1. Len(HooksOf(inner.rc)) \in {1, 2}
        BY HooksAdded
      <4> QED  BY <4>1
    <3> QED  BY <3>1, <3>2, <1>3
  <2>2. inner.enabled => Hooked(inner, inner.hooks[Len(inner.hooks)])
    BY <2>1, <1>2, <1>3 DEF ZshProgress
  <2> QED  BY <2>2, <1>2, <1>6 DEF ZshProgress, Hooked
<1>9. Origin(zsh, n, s)
  BY <1>2, <1>6 DEF Origin
<1> QED  BY <1>1, <1>5, <1>6, <1>7, <1>8, <1>9, BecomeKeeps DEF ZshSane

LEMMA ZshLineKeeps == ASSUME ZshInv, zsh # <<>>, ZshLine PROVE ZshInv'
<1>1. PICK n \in Nat \ {0} : n = Len(zsh)
  BY ZshInnermost
<1>2. inner \in Zsh /\ ZshSetting(inner) /\ ZshProgress(inner) /\ Origin(zsh, n, inner)
  BY <1>1, ZshInnermost DEF ZshSane
<1>3. PICK sets \in BOOLEAN :
        /\ inner.pc = "ready"
        /\ Become([inner EXCEPT !.pc = "prompt",
                                !.prompt = IF sets THEN <<>> ELSE inner.prompt])
  BY DEF ZshLine
<1>4. PICK prompt \in Seq(Marker) :
        /\ prompt = IF sets THEN <<>> ELSE inner.prompt
        /\ prompt = <<>> \/ prompt = inner.prompt
  BY <1>2, EmptySeq DEF Zsh
<1>5. PICK s : s = [inner EXCEPT !.pc = "prompt", !.prompt = prompt]
  OBVIOUS
<1>6. Become(s)
  BY <1>3, <1>4, <1>5
<1>7. /\ s \in Zsh /\ s.pc = "prompt" /\ s.prompt = prompt
      /\ s.hooks = inner.hooks /\ s.ran = inner.ran
      /\ s.enabled = inner.enabled /\ s.sourced = inner.sourced
      /\ s.cookie = inner.cookie /\ s.rc = inner.rc /\ s.screen = inner.screen
  BY <1>2, <1>5 DEF Zsh
<1>8. ZshSetting(s) /\ s.ran = 0
  BY <1>2, <1>3, <1>7 DEF ZshSetting
<1>9. ZshProgress(s) /\ Origin(zsh, n, s)
  <2>1. CASE prompt = <<>>
    BY <2>1, <1>7, <1>8, NoMarkers DEF ZshProgress
  <2>2. CASE prompt = inner.prompt
    BY <2>2, <1>2, <1>7, <1>8 DEF ZshProgress, Origin
  <2> QED  BY <2>1, <2>2, <1>4
<1> QED  BY <1>1, <1>6, <1>7, <1>8, <1>9, BecomeKeeps DEF ZshSane

LEMMA ZshSourceAgainKeeps ==
  ASSUME ZshInv, zsh # <<>>, ZshSourceAgain PROVE ZshInv'
<1>1. PICK n \in Nat \ {0} : n = Len(zsh)
  BY ZshInnermost
<1>2. inner \in Zsh /\ ZshSetting(inner) /\ ZshProgress(inner) /\ Origin(zsh, n, inner)
  BY <1>1, ZshInnermost DEF ZshSane
<1>3. inner.pc = "ready" /\ inner.sourced = 1 /\ inner.enabled /\ inner.ran = 0
  <2>1. inner.pc = "ready" /\ inner.sourced = 1
    BY DEF ZshSourceAgain
  <2>2. inner.sourced # 0 /\ inner.pc # "prompt"
    BY <2>1
  <2> QED  BY <2>1, <2>2, <1>2 DEF ZshSetting
<1>4. PICK s : s = [inner EXCEPT !.pc = "source"]
  OBVIOUS
<1>5. Become(s)
  BY <1>4 DEF ZshSourceAgain
<1>6. /\ s \in Zsh /\ s.pc = "source" /\ s.prompt = inner.prompt
      /\ s.hooks = inner.hooks /\ s.ran = inner.ran
      /\ s.enabled = inner.enabled /\ s.sourced = inner.sourced
      /\ s.cookie = inner.cookie /\ s.rc = inner.rc /\ s.screen = inner.screen
  BY <1>2, <1>4 DEF Zsh
<1>7. ZshSetting(s)
  BY <1>2, <1>3, <1>6 DEF ZshSetting
<1>8. ZshProgress(s) /\ Origin(zsh, n, s)
  BY <1>2, <1>6 DEF ZshProgress, Origin
<1> QED  BY <1>1, <1>5, <1>6, <1>7, <1>8, BecomeKeeps DEF ZshSane

\* A shell is started. The marker it inherits is not whole.
LEMMA FreshZshIs ==
  ASSUME NEW n \in Nat \ {0}, NEW from \in Zsh, Origin(zsh, n, from), zsh[n] = from,
         NEW rc \in ZshRc, NEW screen \in BOOLEAN,
         NEW cookie \in Cookies \cup {from.cookie}
  PROVE  LET s == FreshZsh(rc, screen, cookie, Inherited(from.prompt))
         IN  ZshSane(s) /\ Origin(zsh, n + 1, s)
<1>1. PICK prompt \in Seq(Marker) :
        /\ prompt = IF rc = "before" THEN <<>> ELSE Inherited(from.prompt)
        /\ \/ prompt = <<>>
           \/ /\ 1 \in DOMAIN from.prompt /\ DOMAIN prompt = {1}
              /\ prompt[1].cookie = from.prompt[1].cookie /\ ~prompt[1].whole
  <2>1. CASE rc = "before" \/ from.prompt = <<>>
    BY <2>1, EmptySeq DEF Inherited
  <2>2. CASE ~(rc = "before" \/ from.prompt = <<>>)
    <3>1. from.prompt \in Seq(Marker) /\ from.prompt # <<>>
      BY <2>2 DEF Zsh
    <3>2. 1 \in DOMAIN from.prompt /\ from.prompt[1] \in Marker
      BY <3>1
    <3>3. PICK m : m = [cookie |-> from.prompt[1].cookie, whole |-> FALSE]
      OBVIOUS
    <3>4. m \in Marker /\ m.cookie = from.prompt[1].cookie /\ ~m.whole
      BY <3>2, <3>3 DEF Marker
    <3>5. <<m>> \in Seq(Marker) /\ Len(<<m>>) = 1 /\ <<m>>[1] = m
      BY <3>4, OneOrTwo
    <3>6. DOMAIN <<m>> = {1}
      OBVIOUS
    <3>7. Inherited(from.prompt) = <<m>>
      BY <3>1, <3>3 DEF Inherited
    <3> QED  BY <2>2, <3>2, <3>4, <3>5, <3>6, <3>7
  <2> QED  BY <2>1, <2>2
<1>2. PICK hooks \in Seq({"mine", "extraterm"}) :
        /\ hooks = IF rc = "theme" THEN <<"mine">> ELSE <<>>
        /\ \A k \in DOMAIN hooks : hooks[k] = "mine"
  <2>1. <<"mine">> \in Seq({"mine", "extraterm"}) /\ <<>> \in Seq({"mine", "extraterm"})
    BY EmptySeq
  <2>2. /\ \A k \in DOMAIN <<"mine">> : <<"mine">>[k] = "mine"
        /\ \A k \in DOMAIN <<>> : <<>>[k] = "mine"
    OBVIOUS
  <2> QED  BY <2>1, <2>2
<1>3. PICK s : s =
        [pc |-> "source", rc |-> rc, screen |-> screen, cookie |-> cookie,
         prompt |-> prompt, hooks |-> hooks, ran |-> 0,
         enabled |-> FALSE, sourced |-> 0]
  OBVIOUS
<1>4. s = FreshZsh(rc, screen, cookie, Inherited(from.prompt))
  BY <1>1, <1>2, <1>3 DEF FreshZsh
<1>5. /\ s \in Zsh /\ s.pc = "source" /\ s.rc = rc /\ s.prompt = prompt
      /\ s.hooks = hooks /\ s.ran = 0 /\ ~s.enabled /\ s.sourced = 0
  BY <1>3 DEF Zsh
<1>6. ZshSetting(s)
  <2>1. PICK k \in Nat : k = Len(hooks)
    BY LenProperties
  <2>2. s.ran <= Len(s.hooks)
    BY <2>1, <1>5
  <2> QED  BY <2>2, <1>2, <1>5 DEF ZshSetting
<1>7. ZshProgress(s)
  BY <1>1, <1>5, NoMarkers DEF ZshProgress, Distinct
<1>8. Origin(zsh, n + 1, s)
  <2>1. CASE prompt = <<>>
    BY <2>1, <1>5, NoMarkers
  <2>2. CASE prompt # <<>>
    <3>1. /\ 1 \in DOMAIN from.prompt /\ DOMAIN prompt = {1}
          /\ prompt[1].cookie = from.prompt[1].cookie /\ ~prompt[1].whole
      BY <2>2, <1>1
    <3>2. IF from.prompt[1].whole THEN from.enabled /\ from.cookie = from.prompt[1].cookie
          ELSE \E j \in 1..(n - 1) : zsh[j].enabled /\ zsh[j].cookie = from.prompt[1].cookie
      BY <3>1 DEF Origin
    <3>3. \E j \in 1..(n + 1 - 1) :
            zsh[j].enabled /\ zsh[j].cookie = from.prompt[1].cookie
      BY <3>2
    <3> QED  BY <3>1, <3>3, <1>5 DEF Origin
  <2> QED  BY <2>1, <2>2
<1> QED  BY <1>4, <1>5, <1>6, <1>7, <1>8 DEF ZshSane

LEMMA StartZshKeeps == ASSUME ZshInv, zsh # <<>>, StartZsh PROVE ZshInv'
<1>1. PICK n \in Nat \ {0} : n = Len(zsh)
  BY ZshInnermost
<1>2. /\ inner \in Zsh /\ ZshSetting(inner) /\ ZshProgress(inner)
      /\ Origin(zsh, n, inner) /\ inner = zsh[n] /\ DOMAIN zsh = 1..n
  BY <1>1, ZshInnermost DEF ZshSane
<1>3. PICK rc \in ZshRc, screen \in BOOLEAN, cookie \in Cookies \cup {inner.cookie} :
        /\ inner.pc = "ready"
        /\ zsh' = Append(Front(zsh), [inner EXCEPT !.pc = "waiting"])
                    \o <<FreshZsh(rc, screen, cookie, Inherited(inner.prompt))>>
  BY DEF StartZsh
<1>4. PICK s : s = [inner EXCEPT !.pc = "waiting"]
  OBVIOUS
<1>5. PICK t : t = FreshZsh(rc, screen, cookie, Inherited(inner.prompt))
  OBVIOUS
<1>6. /\ s \in Zsh /\ s.pc = "waiting" /\ s.prompt = inner.prompt
      /\ s.hooks = inner.hooks /\ s.ran = inner.ran
      /\ s.enabled = inner.enabled /\ s.sourced = inner.sourced
      /\ s.cookie = inner.cookie /\ s.rc = inner.rc /\ s.screen = inner.screen
  BY <1>2, <1>4 DEF Zsh
<1>7. ZshSane(s) /\ Origin(zsh, n, s)
  <2>1. ZshSetting(s)
    BY <1>2, <1>3, <1>6 DEF ZshSetting
  <2>2. ZshProgress(s) /\ Origin(zsh, n, s)
    BY <1>2, <1>6 DEF ZshProgress, Origin
  <2> QED  BY <2>1, <2>2, <1>6 DEF ZshSane
<1>8. ZshSane(t) /\ Origin(zsh, n + 1, t)
  <2>1. PICK from \in Zsh : from = inner
    BY <1>2
  <2>2. LET fresh == FreshZsh(rc, screen, cookie, Inherited(from.prompt))
        IN  ZshSane(fresh) /\ Origin(zsh, n + 1, fresh)
    BY <2>1, <1>2, FreshZshIs
  <2> QED  BY <2>1, <2>2, <1>5
<1>9. /\ zsh' \in Seq(Zsh) /\ Len(zsh') = n + 1 /\ zsh'[n] = s /\ zsh'[n + 1] = t
      /\ \A i \in 1..(n - 1) : zsh'[i] = zsh[i]
  <2>1. zsh \in Seq(Zsh) /\ s \in Zsh /\ t \in Zsh
    BY <1>7, <1>8 DEF ZshInv, ZshSane
  <2>2. PICK q \in Seq(Zsh) : q = Append(Front(zsh), s)
    BY <2>1, Replaced
  <2>3. /\ Len(q) = n /\ q[n] = s /\ \A i \in 1..(n - 1) : q[i] = zsh[i]
    BY <2>1, <2>2, <1>1, Replaced
  <2>4. zsh' = q \o <<t>>
    BY <2>2, <1>3, <1>4, <1>5
  <2>5. q \o <<t>> = Append(q, t)
    BY <2>1, AppendIsConcat
  <2>6. PICK r : r = Append(q, t)
    OBVIOUS
  <2>7. /\ r \in Seq(Zsh) /\ Len(r) = Len(q) + 1 /\ r[Len(q) + 1] = t
        /\ \A i \in 1..Len(q) : r[i] = q[i]
    BY <2>1, <2>6, AppendProperties
  <2>8. zsh' = r
    BY <2>4, <2>5, <2>6
  <2> QED  BY <2>3, <2>7, <2>8
<1>10. DOMAIN zsh' = 1..(n + 1)
  BY <1>9, LenProperties
<1>11. ASSUME NEW i \in 1..(n + 1)
       PROVE  /\ ZshSane(zsh'[i]) /\ Origin(zsh', i, zsh'[i])
              /\ i < n + 1 => zsh'[i].pc = "waiting"
  <2>1. \A j \in 1..n :
          zsh'[j].enabled = zsh[j].enabled /\ zsh'[j].cookie = zsh[j].cookie
    BY <1>2, <1>6, <1>9
  <2>2. \A j \in 1..(i - 1) : j \in 1..n
    OBVIOUS
  <2>3. CASE i = n
    <3>1. Origin(zsh', n, s)
      BY <2>1, <2>2, <2>3, <1>7 DEF Origin
    <3> QED  BY <3>1, <2>3, <1>6, <1>7, <1>9
  <2>4. CASE i = n + 1
    <3>1. Origin(zsh', n + 1, t)
      BY <2>1, <2>2, <2>4, <1>8 DEF Origin
    <3> QED  BY <3>1, <2>4, <1>8, <1>9
  <2>5. CASE i \in 1..(n - 1)
    <3>1. i \in DOMAIN zsh /\ zsh'[i] = zsh[i] /\ i < n
      BY <2>5, <1>2, <1>9
    <3>2. ZshSane(zsh[i]) /\ Origin(zsh, i, zsh[i]) /\ zsh[i].pc = "waiting"
      BY <3>1, <1>1 DEF ZshInv
    <3>3. Origin(zsh', i, zsh[i])
      BY <2>1, <2>2, <3>2 DEF Origin
    <3> QED  BY <3>1, <3>2, <3>3
  <2> QED  BY <2>3, <2>4, <2>5
<1> QED  BY <1>9, <1>10, <1>11 DEF ZshInv

LEMMA ExitZshKeeps == ASSUME ZshInv, zsh # <<>>, ExitZsh PROVE ZshInv'
<1>1. PICK n \in Nat \ {0} : n = Len(zsh)
  BY ZshInnermost
<1>2. DOMAIN zsh = 1..n
  BY <1>1, ZshInnermost
<1>3. CASE n = 1
  <2>1. zsh' = <<>>
    BY <1>1, <1>3 DEF ExitZsh
  <2>2. zsh' \in Seq(Zsh) /\ DOMAIN zsh' = {}
    BY <2>1, EmptySeq
  <2> QED  BY <2>2 DEF ZshInv
<1>4. CASE n # 1
  <2>1. PICK m \in Nat \ {0} : m = n - 1
    BY <1>4
  <2>2. m \in DOMAIN zsh /\ m < n /\ zsh \in Seq(Zsh)
    BY <1>2, <2>1 DEF ZshInv
  <2>3. PICK w : w = zsh[m]
    OBVIOUS
  <2>4. /\ w \in Zsh /\ ZshSetting(w) /\ ZshProgress(w) /\ w.pc = "waiting"
        /\ Origin(zsh, m, w)
    BY <1>1, <2>2, <2>3 DEF ZshInv, ZshSane
  <2>5. PICK s : s = [w EXCEPT !.pc = "prompt"]
    OBVIOUS
  <2>6. /\ s \in Zsh /\ s.pc = "prompt" /\ s.prompt = w.prompt
        /\ s.hooks = w.hooks /\ s.ran = w.ran
        /\ s.enabled = w.enabled /\ s.sourced = w.sourced
        /\ s.cookie = w.cookie /\ s.rc = w.rc /\ s.screen = w.screen
    BY <2>4, <2>5 DEF Zsh
  <2>7. ZshSane(s) /\ Origin(zsh, m, s)
    <3>1. ZshSetting(s) /\ s.ran = 0
      BY <2>4, <2>6 DEF ZshSetting
    <3>2. ZshProgress(s) /\ Origin(zsh, m, s)
      BY <3>1, <2>4, <2>6 DEF ZshProgress, Origin
    <3> QED  BY <3>1, <3>2, <2>6 DEF ZshSane
  <2>8. /\ zsh' \in Seq(Zsh) /\ Len(zsh') = m /\ zsh'[m] = s
        /\ \A i \in 1..(m - 1) : zsh'[i] = zsh[i]
    <3>1. Front(zsh)[Len(zsh) - 1] = w
      <4>1. Len(zsh) - 1 = m /\ m \in 1..(Len(zsh) - 1)
        BY <1>1, <2>1
      <4> QED  BY <4>1, <2>2, <2>3, WithoutLast
    <3>2. Len(zsh) - 1 = m /\ Len(zsh) = m + 1 /\ Len(zsh) # 1
      BY <1>1, <2>1
    <3>3. zsh' = [Front(zsh) EXCEPT ![m] = s]
      BY <3>1, <3>2, <2>5 DEF ExitZsh
    <3>4. PICK f \in Seq(Zsh) :
            /\ f = Front(zsh) /\ Len(f) = m /\ m \in 1..Len(f)
            /\ \A i \in 1..m : f[i] = zsh[i]
      <4>1. zsh \in Seq(Zsh) /\ zsh # <<>>
        BY <2>2
      <4> QED  BY <4>1, <3>2, WithoutLast
    <3>5. /\ [f EXCEPT ![m] = s] \in Seq(Zsh) /\ Len([f EXCEPT ![m] = s]) = Len(f)
          /\ \A i \in 1..Len(f) : [f EXCEPT ![m] = s][i] = IF i = m THEN s ELSE f[i]
      BY <2>6, <3>4, ExceptSeq
    <3>6. /\ zsh' \in Seq(Zsh) /\ Len(zsh') = m
          /\ \A i \in 1..m : zsh'[i] = IF i = m THEN s ELSE f[i]
      BY <3>3, <3>4, <3>5
    <3> QED  BY <3>4, <3>6
  <2>9. DOMAIN zsh' = 1..m
    BY <2>8, LenProperties
  <2>10. ASSUME NEW i \in 1..m
         PROVE  /\ ZshSane(zsh'[i]) /\ Origin(zsh', i, zsh'[i])
                /\ i < m => zsh'[i].pc = "waiting"
    <3>1. \A j \in 1..(i - 1) : zsh'[j] = zsh[j]
      BY <2>8
    <3>2. CASE i = m
      <4>1. Origin(zsh', m, s)
        BY <3>1, <3>2, <2>7 DEF Origin
      <4> QED  BY <4>1, <3>2, <2>7, <2>8
    <3>3. CASE i # m
      <4>1. i \in DOMAIN zsh /\ zsh'[i] = zsh[i] /\ i < n
        BY <3>3, <1>2, <2>1, <2>8
      <4>2. ZshSane(zsh[i]) /\ Origin(zsh, i, zsh[i]) /\ zsh[i].pc = "waiting"
        BY <4>1, <1>1 DEF ZshInv
      <4>3. Origin(zsh', i, zsh[i])
        BY <3>1, <4>2 DEF Origin
      <4> QED  BY <4>1, <4>2, <4>3
    <3> QED  BY <3>2, <3>3
  <2> QED  BY <2>8, <2>9, <2>10 DEF ZshInv
<1> QED  BY <1>3, <1>4

-----------------------------------------------------------------------------
(* zsh: the theorem *)

LEMMA ZshInitially == ShellsInit => ZshInv
<1> SUFFICES ASSUME ShellsInit  PROVE ZshInv
  OBVIOUS
<1>1. CASE zsh = <<>>
  <2>1. zsh \in Seq(Zsh) /\ DOMAIN zsh = {}
    BY <1>1, EmptySeq
  <2> QED  BY <2>1 DEF ZshInv
<1>2. CASE ZshInit
  <2>1. PICK rc \in ZshRc, cookie \in Cookies :
          zsh = <<FreshZsh(rc, FALSE, cookie, <<>>)>>
    BY <1>2 DEF ZshInit
  <2>2. PICK none \in Seq(Marker) : none = <<>>
    BY EmptySeq
  <2>3. PICK hooks \in Seq({"mine", "extraterm"}) :
          /\ hooks = IF rc = "theme" THEN <<"mine">> ELSE <<>>
          /\ \A k \in DOMAIN hooks : hooks[k] = "mine"
    <3>1. <<"mine">> \in Seq({"mine", "extraterm"}) /\ <<>> \in Seq({"mine", "extraterm"})
      BY EmptySeq
    <3>2. /\ \A k \in DOMAIN <<"mine">> : <<"mine">>[k] = "mine"
          /\ \A k \in DOMAIN <<>> : <<>>[k] = "mine"
      OBVIOUS
    <3> QED  BY <3>1, <3>2
  <2>4. PICK s : s =
          [pc |-> "source", rc |-> rc, screen |-> FALSE, cookie |-> cookie,
           prompt |-> none, hooks |-> hooks, ran |-> 0,
           enabled |-> FALSE, sourced |-> 0]
    OBVIOUS
  <2>5. s = FreshZsh(rc, FALSE, cookie, <<>>)
    BY <2>2, <2>3, <2>4 DEF FreshZsh
  <2>6. /\ s \in Zsh /\ s.pc = "source" /\ s.rc = rc /\ s.prompt = <<>>
        /\ s.hooks = hooks /\ s.ran = 0 /\ ~s.enabled /\ s.sourced = 0
    BY <2>2, <2>4 DEF Zsh
  <2>7. ZshSetting(s)
    <3>1. PICK k \in Nat : k = Len(hooks)
      BY LenProperties
    <3>2. s.ran <= Len(s.hooks)
      BY <3>1, <2>6
    <3> QED  BY <3>2, <2>3, <2>6 DEF ZshSetting
  <2>8. ZshProgress(s) /\ \A q, i : Origin(q, i, s)
    BY <2>6, NoMarkers DEF ZshProgress
  <2>9. zsh \in Seq(Zsh) /\ DOMAIN zsh = {1} /\ zsh[1] = s /\ Len(zsh) = 1
    <3>1. <<s>> \in Seq(Zsh) /\ DOMAIN <<s>> = {1} /\ <<s>>[1] = s /\ Len(<<s>>) = 1
      BY <2>6
    <3> QED  BY <3>1, <2>1, <2>5
  <2>10. ZshSane(s) /\ Origin(zsh, 1, s)
    BY <2>6, <2>7, <2>8 DEF ZshSane
  <2> QED  BY <2>9, <2>10 DEF ZshInv
<1> QED  BY <1>1, <1>2 DEF ShellsInit

LEMMA ZshStep == ZshInv /\ [ShellsNext]_<<shells, zsh>> => ZshInv'
<1> SUFFICES ASSUME ZshInv, [ShellsNext]_<<shells, zsh>>  PROVE ZshInv'
  OBVIOUS
<1>1. CASE UNCHANGED zsh
  BY <1>1 DEF ZshInv
<1>2. CASE ZshNext
  <2>1. zsh # <<>>
    BY <1>2 DEF ZshNext
  <2>2. CASE ZshEarlyOut  BY <2>1, <2>2, ZshEarlyOutKeeps
  <2>3. CASE ZshSetUp  BY <2>1, <2>3, ZshSetUpKeeps
  <2>4. CASE RunHook  BY <2>1, <2>4, RunHookKeeps
  <2>5. CASE WritePrompt  BY <2>1, <2>5, WritePromptKeeps
  <2>6. CASE ZshLine  BY <2>1, <2>6, ZshLineKeeps
  <2>7. CASE ZshSourceAgain  BY <2>1, <2>7, ZshSourceAgainKeeps
  <2>8. CASE StartZsh  BY <2>1, <2>8, StartZshKeeps
  <2>9. CASE ExitZsh  BY <2>1, <2>9, ExitZshKeeps
  <2> QED  BY <1>2, <2>2, <2>3, <2>4, <2>5, <2>6, <2>7, <2>8, <2>9 DEF ZshNext
<1> QED  BY <1>1, <1>2 DEF ShellsNext

\* Each prompt of zsh has one marker of the shell's own terminal, whole unless
\* an outer shell made it, and none where a later hook replaces the prompt.
THEOREM PromptCorrect == ShellsSpec => []PromptMarked
<1>1. ZshInv => PromptMarked
  <2> SUFFICES ASSUME ZshInv, NEW i \in DOMAIN zsh, zsh[i].pc = "ready", zsh[i].enabled
               PROVE  LET own == {k \in DOMAIN zsh[i].prompt :
                                    zsh[i].prompt[k].cookie = zsh[i].cookie}
                      IN  IF zsh[i].rc = "late" THEN own = {}
                          ELSE \E k \in own :
                                 /\ own = {k}
                                 /\ \/ zsh[i].prompt[k].whole
                                    \/ \E j \in 1..(i - 1) :
                                         zsh[j].enabled /\ zsh[j].cookie = zsh[i].cookie
    BY DEF PromptMarked
  <2> DEFINE own == {k \in DOMAIN zsh[i].prompt :
                       zsh[i].prompt[k].cookie = zsh[i].cookie}
  <2>1. ZshSetting(zsh[i]) /\ ZshProgress(zsh[i]) /\ Origin(zsh, i, zsh[i])
    BY DEF ZshInv, ZshSane
  <2>2. Hooked(zsh[i], IF zsh[i].rc = "late" THEN "mine" ELSE "extraterm")
    <3>1. zsh[i].hooks = HooksOf(zsh[i].rc)
      BY <2>1 DEF ZshSetting
    <3>2. zsh[i].hooks[Len(zsh[i].hooks)]
            = IF zsh[i].rc = "late" THEN "mine" ELSE "extraterm"
      BY <3>1, HooksAdded
    <3> QED  BY <3>2, <2>1 DEF ZshProgress
  <2>3. CASE zsh[i].rc = "late"
    <3>1. zsh[i].prompt = <<>>
      BY <2>2, <2>3 DEF Hooked
    <3> QED  BY <3>1, <2>3
  <2>4. CASE zsh[i].rc # "late"
    <3>1. PICK k \in own : TRUE
      BY <2>2, <2>4 DEF Hooked
    <3>2. own = {k}
      BY <3>1, <2>1 DEF ZshProgress, Distinct
    <3>3. \/ zsh[i].prompt[k].whole
          \/ \E j \in 1..(i - 1) : zsh[j].enabled /\ zsh[j].cookie = zsh[i].cookie
      BY <3>1, <2>1 DEF Origin
    <3> QED  BY <3>2, <3>3, <2>4
  <2> QED  BY <2>3, <2>4
<1>2. ShellsSpec => []ZshInv
  BY ZshInitially, ZshStep, PTL DEF ShellsSpec
<1> QED  BY <1>1, <1>2, PTL
=============================================================================
