------------------------- MODULE FrameUpload_proofs -------------------------
(***************************************************************************)
(* Theorems about FrameUpload, for every set of payloads, every kind of    *)
(* corruption and any number of payloads and disturbances.                 *)
(***************************************************************************)
EXTENDS FrameUpload, SequenceLemmas

-----------------------------------------------------------------------------
(* Type correctness *)

LEMMA LineType ==
    ASSUME NEW k \in Kinds, NEW d \in Payload, NEW h \in Hash
    PROVE  Line(k, d, h) \in Lines
BY DEF Line, Lines

\* A garbled line is a line, and no new hash comes from garbling one.
LEMMA GarbledType ==
    ASSUME NEW l \in Lines, NEW g \in Garbled(l)
    PROVE  /\ g \in Lines
           /\ g.hash = l.hash \/ g.hash = BadHash
           /\ g.kind = l.kind \/ g.kind \in GarbledKinds
<1>1. ASSUME NEW p \in Payload, g = [l EXCEPT !.data = p]
      PROVE  g \in Lines /\ g.hash = l.hash /\ g.kind = l.kind
  BY <1>1 DEF Lines
<1>2. ASSUME g = [l EXCEPT !.hash = BadHash]
      PROVE  g \in Lines /\ g.hash = BadHash /\ g.kind = l.kind
  <2>1. BadHash \in Hash
    BY DEF BadHash, Hash
  <2> QED
    BY <1>2, <2>1 DEF Lines
<1>3. ASSUME NEW k \in GarbledKinds, g = [l EXCEPT !.kind = k]
      PROVE  g \in Lines /\ g.hash = l.hash /\ g.kind = k
  BY <1>3, UploadAssumption DEF Lines
<1>4. ASSUME g = [l EXCEPT !.short = TRUE]
      PROVE  g \in Lines /\ g.hash = l.hash /\ g.kind = l.kind
  BY <1>4 DEF Lines
<1> QED
  BY <1>1, <1>2, <1>3, <1>4 DEF Garbled

LEMMA TypedLineType ==
    ASSUME NEW short \in BOOLEAN
    PROVE  TypedLine(short) \in Lines
BY UploadAssumption DEF TypedLine, Lines, Kinds, Hash, BadHash

\* The initial states are well typed, the rubbish in line[] included.
LEMMA InitTypeOK == Init => TypeOK
<1> SUFFICES ASSUME Init PROVE TypeOK
  OBVIOUS
<1>1. PICK k \in {"E", "other"}, s \in BOOLEAN :
         line = [kind |-> k, short |-> s, data |-> Empty, hash |-> BadHash]
  BY DEF Init, UninitialisedLines
<1>2. line \in Lines
  BY <1>1, UploadAssumption DEF Lines, Kinds, Hash, BadHash
<1>3. <<>> \in Seq(Payload) /\ <<>> \in Seq(Lines)
  OBVIOUS
<1> QED
  BY <1>2, <1>3 DEF Init, TypeOK, Hash

\* What reading a line does to line and wire.
LEMMA ReceiveType ==
    ASSUME TypeOK, Receive
    PROVE  /\ line' \in Lines
           /\ wire' \in Seq(Lines)
           /\ UNCHANGED <<tstate, sent, eof, faults>>
<1>1. CASE wire # <<>> /\ line' = Head(wire) /\ wire' = Tail(wire)
  BY <1>1, HeadTailProperties DEF TypeOK, Receive
<1>2. CASE UNCHANGED <<line, wire>>
  BY <1>2 DEF TypeOK, Receive
<1> QED
  BY <1>1, <1>2 DEF Receive, ReadLine

LEMMA TerminalTypeOK == TypeOK /\ Terminal => TypeOK'
<1> SUFFICES ASSUME TypeOK, Terminal PROVE TypeOK'
  OBVIOUS
<1>1. /\ Empty \in Payload
      /\ \A p \in Payload : Digest(sent, p) \in Hash /\ Digest(<<>>, p) \in Hash
  BY UploadAssumption DEF TypeOK, Digest, Hash
<1>2. ASSUME NEW p \in Payload, SendMetadata(p) PROVE TypeOK'
  <2>1. Line("M", p, Digest(<<>>, p)) \in Lines
    BY <1>1, LineType DEF Kinds
  <2> QED
    BY <1>2, <2>1 DEF TypeOK, SendMetadata, Write, receiverVars
<1>3. ASSUME NEW p \in Payload, SendData(p) PROVE TypeOK'
  <2>1. Line("D", p, Digest(sent, p)) \in Lines
    BY <1>1, LineType DEF Kinds
  <2> QED
    BY <1>3, <2>1 DEF TypeOK, SendData, Write, receiverVars
<1>4. CASE FinishUpload
  <2>1. Line("E", Empty, Digest(sent, Empty)) \in Lines
    BY <1>1, LineType DEF Kinds
  <2> QED
    BY <1>4, <2>1 DEF TypeOK, FinishUpload, Write, receiverVars
<1>5. CASE AbortUpload
  <2>1. Line("A", Empty, Digest(sent, Empty)) \in Lines
    BY <1>1, LineType DEF Kinds
  <2> QED
    BY <1>5, <2>1 DEF TypeOK, AbortUpload, Write, receiverVars
<1> QED
  BY <1>2, <1>3, <1>4, <1>5 DEF Terminal

LEMMA TtyLineTypeOK == TypeOK /\ TtyLine => TypeOK'
<1> SUFFICES ASSUME TypeOK, TtyLine PROVE TypeOK'
  OBVIOUS
<1>1. CASE LoseLine
  <2>1. PICK i \in 1..Len(wire) : wire' = RemoveAt(wire, i)
    BY <1>1 DEF LoseLine
  <2>2. wire' \in Seq(Lines)
    BY <2>1, RemoveAtProperties DEF TypeOK
  <2> QED
    BY <1>1, <2>2 DEF TypeOK, LoseLine, Disturb, terminalVars, receiverVars
<1>2. CASE GarbleLine
  <2>1. PICK i \in 1..Len(wire) : \E l \in Garbled(wire[i]) :
                wire' = [wire EXCEPT ![i] = l]
    BY <1>2 DEF GarbleLine
  <2>2. PICK l \in Garbled(wire[i]) : wire' = [wire EXCEPT ![i] = l]
    BY <2>1
  <2>3. wire[i] \in Lines
    BY DEF TypeOK
  <2>4. l \in Lines
    BY <2>3, GarbledType
  <2>5. wire' \in Seq(Lines)
    BY <2>2, <2>4 DEF TypeOK
  <2> QED
    BY <1>2, <2>5 DEF TypeOK, GarbleLine, Disturb, terminalVars, receiverVars
<1>3. CASE TypeAhead
  BY <1>3, TypedLineType
     DEF TypeOK, TypeAhead, Write, Disturb, terminalVars, receiverVars
<1>4. CASE HangUp
  BY <1>4 DEF TypeOK, HangUp, Disturb, terminalVars, receiverVars
<1> QED
  BY <1>1, <1>2, <1>3, <1>4 DEF TtyLine

LEMMA ReceiverTypeOK == TypeOK /\ Receiver => TypeOK'
<1> SUFFICES ASSUME TypeOK, Receiver PROVE TypeOK'
  OBVIOUS
<1>1. CASE RequestFrame
  BY <1>1 DEF TypeOK, RequestFrame, lineVars
<1>2. ASSUME Receive
      PROVE  /\ line' \in Lines
             /\ line'.data \in Payload
             /\ wire' \in Seq(Lines)
             /\ UNCHANGED <<tstate, sent, eof, faults>>
             /\ Digest(<<>>, line'.data) \in Hash
             /\ Digest(prev, line'.data) \in Hash
  <2>1. line' \in Lines /\ line'.data \in Payload
    BY <1>2, ReceiveType DEF Lines
  <2> QED
    BY <1>2, <2>1, ReceiveType DEF TypeOK, Digest, Hash
<1>3. CASE RejectMetadata
  BY <1>2, <1>3 DEF TypeOK, RejectMetadata
<1>4. CASE AcceptMetadata
  BY <1>2, <1>4 DEF TypeOK, AcceptMetadata
<1>5. CASE RejectShortLine
  BY <1>2, <1>5 DEF TypeOK, RejectShortLine
<1>6. CASE RejectHash
  BY <1>2, <1>6 DEF TypeOK, RejectHash, HashBodyLine
<1>7. CASE EndOfFrame
  BY <1>2, <1>7 DEF TypeOK, EndOfFrame, HashBodyLine
<1>8. CASE UploadAborted
  BY <1>2, <1>8 DEF TypeOK, UploadAborted, HashBodyLine
<1>9. CASE WriteData
  BY <1>2, <1>9 DEF TypeOK, WriteData, HashBodyLine
<1>10. CASE SkipUnknownLine
  BY <1>2, <1>10 DEF TypeOK, SkipUnknownLine
<1> QED
  BY <1>1, <1>3, <1>4, <1>5, <1>6, <1>7, <1>8, <1>9, <1>10 DEF Receiver

\* Every reachable state is well typed.
THEOREM TypeCorrect == Spec => []TypeOK
<1>1. Init => TypeOK
  BY InitTypeOK
<1>2. TypeOK /\ [Next]_vars => TypeOK'
  <2> SUFFICES ASSUME TypeOK, [Next]_vars PROVE TypeOK'
    OBVIOUS
  <2>1. CASE Next
    BY <2>1, TerminalTypeOK, TtyLineTypeOK, ReceiverTypeOK DEF Next
  <2>2. CASE UNCHANGED vars
    BY <2>2 DEF vars, TypeOK
  <2> QED
    BY <2>1, <2>2
<1> QED
  BY <1>1, <1>2, PTL DEF Spec

-----------------------------------------------------------------------------
(* The inductive invariant of the hash chain *)

Finished == {"ended", "aborted"}

\* A hash field with a value in it is the digest of something the terminal has
\* sent: a prefix of the frame, or the whole of it and an end marker.
Genuine(l, s, t) == \/ l.hash = BadHash
                    \/ IsPrefix(l.hash, s)
                    \/ l.hash = Digest(s, Empty) /\ t \in Finished

LinesGenuine == /\ Genuine(line, sent, tstate)
                /\ \A i \in 1..Len(wire) : Genuine(wire[i], sent, tstate)

\* A frame begins with its metadata and has no empty payload after it.
SentWellFormed ==
    /\ sent = <<>> <=> tstate \in {"idle", "requested"}
    /\ pc = "idle" => tstate = "idle"
    /\ \A i \in 2..Len(sent) : sent[i] # Empty

\* In the body loop previous_hash is the digest of exactly what the caller has
\* been given, but for an end marker that has been turned into a "#D:" line.
ChainInv ==
    /\ pc \in {"idle", "meta"} => metadata = <<>> /\ fhandle = <<>>
    /\ pc = "body" =>
          /\ Len(metadata) = 1
          /\ \/ prev = output
             \/ /\ prev = Digest(sent, Empty)
                /\ output = sent
                /\ tstate \in Finished

UploadInv == /\ TypeOK
             /\ LinesGenuine
             /\ SentWellFormed
             /\ ChainInv
             /\ OutputIsPrefix

LEMMA OutputType ==
    ASSUME TypeOK
    PROVE  output \in Seq(Payload)
BY DEF TypeOK, output

LEMMA InitUploadInv == Init => UploadInv
<1> SUFFICES ASSUME Init PROVE UploadInv
  OBVIOUS
<1>1. TypeOK
  BY InitTypeOK
<1>2. line.hash = BadHash
  BY DEF Init, UninitialisedLines
<1>3. output = <<>> /\ sent = <<>> /\ wire = <<>>
  BY DEF Init, output
<1>4. LinesGenuine
  BY <1>2, <1>3 DEF LinesGenuine, Genuine
<1>5. OutputIsPrefix
  BY <1>3, PrefixReflexive, <1>1 DEF OutputIsPrefix, TypeOK
<1> QED
  BY <1>1, <1>3, <1>4, <1>5 DEF Init, UploadInv, SentWellFormed, ChainInv

\* Write puts the line on the wire, or nothing once the tty has hung up.
LEMMA WriteLine ==
    ASSUME TypeOK, NEW k \in Kinds, NEW p \in Payload,
           Write(Line(k, p, Digest(sent, p)))
    PROVE  \/ wire' = wire
           \/ \E l \in Lines : /\ wire' = Append(wire, l)
                               /\ l.kind = k
                               /\ l.hash = Digest(sent, p)
<1>1. Digest(sent, p) \in Hash
  BY DEF TypeOK, Digest, Hash
<1>2. Line(k, p, Digest(sent, p)) \in Lines
  BY <1>1, LineType
<1> QED
  BY <1>2 DEF Write, Line

LEMMA TerminalLinesGenuine ==
    ASSUME TypeOK, LinesGenuine, line' = line,
           \A l \in Lines : Genuine(l, sent, tstate)
                               => Genuine(l, sent', tstate'),
           \/ wire' = wire
           \/ \E l \in Lines : /\ wire' = Append(wire, l)
                               /\ Genuine(l, sent', tstate')
    PROVE  LinesGenuine'
<1>1. Genuine(line', sent', tstate')
  BY DEF TypeOK, LinesGenuine
<1>2. \A i \in 1..Len(wire) : Genuine(wire[i], sent', tstate')
  BY DEF TypeOK, LinesGenuine
<1>3. CASE wire' = wire
  BY <1>1, <1>2, <1>3 DEF LinesGenuine
<1>4. ASSUME NEW l \in Lines, wire' = Append(wire, l),
             Genuine(l, sent', tstate')
      PROVE  LinesGenuine'
  <2>1. /\ Len(wire') = Len(wire) + 1 /\ Len(wire) \in Nat
        /\ wire'[Len(wire) + 1] = l
        /\ \A i \in 1..Len(wire) : wire'[i] = wire[i]
    BY <1>4, AppendProperties DEF TypeOK
  <2>2. \A i \in 1..Len(wire') : Genuine(wire'[i], sent', tstate')
    BY <2>1, <1>2, <1>4
  <2> QED
    BY <1>1, <2>2 DEF LinesGenuine
<1> QED
  BY <1>3, <1>4

LEMMA TerminalUploadInv == UploadInv /\ Terminal => UploadInv'
<1> SUFFICES ASSUME UploadInv, Terminal PROVE UploadInv'
  OBVIOUS
<1>1. TypeOK' /\ TypeOK
  BY TerminalTypeOK DEF UploadInv
<1>2. output \in Seq(Payload) /\ sent \in Seq(Payload) /\ Empty \in Payload
  BY <1>1, OutputType, UploadAssumption DEF TypeOK
<1>3. ASSUME NEW p \in Payload, NEW k \in Kinds,
             sent' = Append(sent, p), tstate' = "sending",
             sent = <<>> \/ p # Empty, tstate \in {"requested", "sending"},
             Write(Line(k, p, Digest(sent, p))), UNCHANGED receiverVars
      PROVE  UploadInv'
  <2>1. /\ output' = output /\ line' = line /\ pc' = pc
        /\ prev' = prev /\ metadata' = metadata /\ fhandle' = fhandle
    BY <1>3 DEF receiverVars, output
  <2>2. ASSUME NEW l \in Lines, Genuine(l, sent, tstate)
        PROVE  Genuine(l, sent', tstate')
    <3>1. l.hash \in Seq(Payload)
      BY DEF Lines, Hash
    <3> QED
      BY <1>2, <1>3, <2>2, <3>1, PrefixOfLonger DEF Genuine, Finished
  <2>3. sent' \in Seq(Payload) /\ IsPrefix(sent', sent')
    BY <1>1, PrefixReflexive DEF TypeOK
  <2>4. LinesGenuine'
    <3>1. ASSUME NEW l \in Lines, l.hash = Digest(sent, p)
          PROVE  Genuine(l, sent', tstate')
      BY <1>3, <2>3, <3>1 DEF Genuine, Digest
    <3>2. \/ wire' = wire
          \/ \E l \in Lines : /\ wire' = Append(wire, l)
                              /\ Genuine(l, sent', tstate')
      BY <1>1, <1>3, <3>1, WriteLine
    <3> QED
      BY <1>1, <2>1, <2>2, <3>2, TerminalLinesGenuine DEF UploadInv
  <2>5. SentWellFormed'
    <3>1. /\ Len(sent') = Len(sent) + 1 /\ Len(sent) \in Nat /\ sent' # <<>>
          /\ sent'[Len(sent) + 1] = p
          /\ \A i \in 1..Len(sent) : sent'[i] = sent[i]
      BY <1>2, <1>3, AppendProperties
    <3>2. sent = <<>> => Len(sent) = 0
      OBVIOUS
    <3>3. \A i \in 2..Len(sent') : sent'[i] # Empty
      BY <1>3, <3>1, <3>2 DEF UploadInv, SentWellFormed
    <3> QED
      BY <1>3, <2>1, <3>1, <3>3 DEF UploadInv, SentWellFormed
  <2>6. ChainInv'
    BY <1>3, <2>1 DEF UploadInv, ChainInv, Finished
  <2>7. OutputIsPrefix'
    BY <1>2, <1>3, <2>1, PrefixOfLonger DEF UploadInv, OutputIsPrefix
  <2> QED
    BY <1>1, <2>4, <2>5, <2>6, <2>7 DEF UploadInv
<1>4. ASSUME NEW k \in Kinds, sent' = sent,
             tstate = "sending", tstate' \in Finished,
             Write(Line(k, Empty, Digest(sent, Empty))), UNCHANGED receiverVars
      PROVE  UploadInv'
  <2>1. /\ output' = output /\ line' = line /\ pc' = pc
        /\ prev' = prev /\ metadata' = metadata /\ fhandle' = fhandle
    BY <1>4 DEF receiverVars, output
  <2>2. LinesGenuine'
    BY <1>1, <1>2, <1>4, <2>1, WriteLine, TerminalLinesGenuine
       DEF UploadInv, Genuine, Finished
  <2>3. SentWellFormed'
    BY <1>4, <2>1 DEF UploadInv, SentWellFormed, Finished
  <2>4. ChainInv' /\ OutputIsPrefix'
    BY <1>4, <2>1 DEF UploadInv, ChainInv, OutputIsPrefix, Finished
  <2> QED
    BY <1>1, <2>2, <2>3, <2>4 DEF UploadInv
<1>5. ASSUME NEW p \in Payload, SendMetadata(p) PROVE UploadInv'
  <2>1. sent = <<>>
    BY <1>5 DEF UploadInv, SentWellFormed, SendMetadata
  <2>2. Digest(<<>>, p) = Digest(sent, p) /\ <<p>> = Append(sent, p)
    BY <2>1 DEF Digest
  <2> QED
    BY <1>3, <1>5, <2>1, <2>2 DEF SendMetadata, Kinds
<1>6. ASSUME NEW p \in Payload, SendData(p) PROVE UploadInv'
  BY <1>3, <1>6 DEF SendData, Kinds
<1>7. CASE FinishUpload
  BY <1>4, <1>7 DEF FinishUpload, Kinds, Finished
<1>8. CASE AbortUpload
  BY <1>4, <1>8 DEF AbortUpload, Kinds, Finished
<1> QED
  BY <1>5, <1>6, <1>7, <1>8 DEF Terminal

\* What the tty line may do to the lines on it: each is one that was there, or
\* one with the same hash or none.
LEMMA DisturbedWire ==
    ASSUME TypeOK, TtyLine
    PROVE  /\ UNCHANGED <<terminalVars, receiverVars>>
           /\ \A i \in 1..Len(wire') :
                 \/ wire'[i].hash = BadHash
                 \/ \E j \in 1..Len(wire) :
                       /\ wire'[i].hash = wire[j].hash
                       /\ \/ wire'[i].kind = wire[j].kind
                          \/ wire'[i].kind \in GarbledKinds
<1>1. CASE LoseLine
  <2>1. PICK k \in 1..Len(wire) : wire' = RemoveAt(wire, k)
    BY <1>1 DEF LoseLine
  <2>2. wire \in Seq(Lines) /\ Len(wire) \in Nat
    BY DEF TypeOK
  <2>3. Len(RemoveAt(wire, k)) = Len(wire) - 1
    BY <2>2, RemoveAtProperties
  <2>4. \A j \in 1..(Len(wire) - 1) :
           RemoveAt(wire, k)[j] = IF j < k THEN wire[j] ELSE wire[j + 1]
    BY <2>2, RemoveAtProperties
  <2>5. ASSUME NEW i \in 1..Len(wire')
        PROVE  \E j \in 1..Len(wire) : wire'[i] = wire[j]
    <3>1. i \in 1..Len(wire) /\ i + 1 \in 1..Len(wire)
      BY <2>1, <2>2, <2>3
    <3>2. wire'[i] = wire[i] \/ wire'[i] = wire[i + 1]
      BY <2>1, <2>2, <2>3, <2>4
    <3> QED
      BY <3>1, <3>2
  <2> QED
    BY <1>1, <2>5 DEF LoseLine, Disturb
<1>2. CASE GarbleLine
  <2>1. PICK k \in 1..Len(wire) : \E l \in Garbled(wire[k]) :
                wire' = [wire EXCEPT ![k] = l]
    BY <1>2 DEF GarbleLine
  <2>2. PICK l \in Garbled(wire[k]) : wire' = [wire EXCEPT ![k] = l]
    BY <2>1
  <2>3. /\ l.hash = wire[k].hash \/ l.hash = BadHash
        /\ l.kind = wire[k].kind \/ l.kind \in GarbledKinds
    BY GarbledType DEF TypeOK
  <2>4. /\ Len(wire') = Len(wire)
        /\ \A i \in 1..Len(wire) : wire'[i] = IF i = k THEN l ELSE wire[i]
    BY <2>2 DEF TypeOK
  <2> QED
    BY <1>2, <2>3, <2>4 DEF GarbleLine, Disturb
<1>3. CASE TypeAhead
  <2>1. PICK short \in BOOLEAN : Write(TypedLine(short))
    BY <1>3 DEF TypeAhead
  <2>2. TypedLine(short) \in Lines /\ TypedLine(short).hash = BadHash
    BY TypedLineType DEF TypedLine
  <2>3. CASE wire' = Append(wire, TypedLine(short))
    <3>1. /\ Len(wire') = Len(wire) + 1 /\ Len(wire) \in Nat
          /\ wire'[Len(wire) + 1] = TypedLine(short)
          /\ \A i \in 1..Len(wire) : wire'[i] = wire[i]
      BY <2>2, <2>3, AppendProperties DEF TypeOK
    <3> QED
      BY <1>3, <2>2, <3>1 DEF TypeAhead, Disturb
  <2>4. CASE wire' = wire
    BY <1>3, <2>4 DEF TypeAhead, Disturb
  <2> QED
    BY <2>1, <2>3, <2>4 DEF Write
<1>4. CASE HangUp
  BY <1>4 DEF HangUp, Disturb
<1> QED
  BY <1>1, <1>2, <1>3, <1>4 DEF TtyLine

LEMMA TtyLineUploadInv == UploadInv /\ TtyLine => UploadInv'
<1> SUFFICES ASSUME UploadInv, TtyLine PROVE UploadInv'
  OBVIOUS
<1>1. TypeOK' /\ TypeOK
  BY TtyLineTypeOK DEF UploadInv
<1>2. /\ UNCHANGED <<tstate, sent, pc, line, prev, metadata, fhandle>>
      /\ output' = output
  BY <1>1, DisturbedWire DEF terminalVars, receiverVars, output
<1>3. \A i \in 1..Len(wire') : Genuine(wire'[i], sent, tstate)
  BY <1>1, DisturbedWire DEF UploadInv, LinesGenuine, Genuine
<1>4. LinesGenuine'
  BY <1>2, <1>3 DEF UploadInv, LinesGenuine
<1> QED
  BY <1>1, <1>2, <1>4
     DEF UploadInv, SentWellFormed, ChainInv, OutputIsPrefix

\* Reading a line takes it from the wire, or finds the old one in the buffer.
LEMMA ReceivedLine ==
    ASSUME TypeOK, LinesGenuine, Receive
    PROVE  /\ LinesGenuine'
           /\ Genuine(line', sent, tstate)
           /\ \/ line' = line /\ wire = <<>> /\ wire' = <<>>
              \/ /\ wire # <<>>
                 /\ line' = wire[1]
                 /\ Len(wire') = Len(wire) - 1
                 /\ \A i \in 1..Len(wire') : wire'[i] = wire[i + 1]
<1>1. UNCHANGED <<sent, tstate>>
  BY DEF Receive
<1>2. CASE wire # <<>> /\ line' = Head(wire) /\ wire' = Tail(wire)
  <2>1. /\ line' = wire[1] /\ Len(wire) \in Nat /\ Len(wire) # 0
        /\ Len(wire') = Len(wire) - 1
        /\ \A i \in 1..Len(wire') : wire'[i] = wire[i + 1]
    BY <1>2, HeadTailProperties DEF TypeOK
  <2>2. \A i \in 1..Len(wire') : i + 1 \in 1..Len(wire)
    BY <2>1
  <2> QED
    BY <1>1, <1>2, <2>1, <2>2 DEF LinesGenuine
<1>3. CASE wire = <<>> /\ UNCHANGED <<line, wire>>
  BY <1>1, <1>3 DEF LinesGenuine
<1> QED
  BY <1>2, <1>3 DEF Receive, ReadLine

\* A body line whose hash is right is the next payload of the frame, or an end
\* marker after the whole of it.
LEMMA MatchedLine ==
    ASSUME UploadInv, HashBodyLine, HashMatches(line', prev)
    PROVE  /\ prev = output
           /\ \/ /\ IsPrefix(Append(output, line'.data), sent)
                 /\ line'.data # Empty
              \/ /\ output = sent
                 /\ line'.data = Empty
                 /\ line'.hash = Digest(sent, Empty)
                 /\ tstate \in Finished
<1> DEFINE d == line'.data
<1>1. /\ prev \in Seq(Payload) /\ sent \in Seq(Payload)
      /\ output \in Seq(Payload) /\ Empty \in Payload
      /\ pc = "body" /\ TypeOK
  BY UploadAssumption, OutputType DEF UploadInv, TypeOK, HashBodyLine, Hash
<1>2. d \in Payload /\ Genuine(line', sent, tstate)
  BY ReceiveType, ReceivedLine DEF UploadInv, HashBodyLine, Lines
<1>3. line'.hash = Append(prev, d)
  BY DEF HashMatches, Digest
<1>4. line'.hash # BadHash
  BY <1>1, <1>2, <1>3, AppendIsNotEmpty DEF BadHash
<1>5. \/ prev = output
      \/ prev = Append(sent, Empty) /\ output = sent /\ tstate \in Finished
  BY <1>1 DEF UploadInv, ChainInv, Digest
<1>6. Len(output) >= 1 /\ Len(sent) \in Nat /\ Len(output) \in Nat
  <2>1. Len(metadata) = 1
    BY <1>1 DEF UploadInv, ChainInv
  <2>2. metadata \in Seq(Payload) /\ fhandle \in Seq(Payload)
    BY <1>1 DEF TypeOK
  <2>3. Len(metadata \o fhandle) = Len(metadata) + Len(fhandle)
    BY <2>2, ConcatProperties
  <2> QED
    BY <1>1, <2>1, <2>2, <2>3 DEF output
<1>7. Len(Append(sent, Empty)) = Len(sent) + 1
  BY <1>1, AppendProperties
<1>8. CASE IsPrefix(line'.hash, sent)
  <2>1. Len(prev) < Len(sent) /\ sent[Len(prev) + 1] = d
    BY <1>1, <1>2, <1>3, <1>8, AppendedPrefix
  <2>2. prev = output
    BY <1>5, <1>6, <1>7, <2>1
  <2>3. d # Empty
    BY <1>6, <2>1, <2>2 DEF UploadInv, SentWellFormed
  <2> QED
    BY <1>3, <1>8, <2>2, <2>3
<1>9. CASE line'.hash = Digest(sent, Empty) /\ tstate \in Finished
  <2>0. Append(prev, d) = Append(sent, Empty)
    BY <1>3, <1>9 DEF Digest
  <2> HIDE DEF d
  <2>1. prev = sent /\ d = Empty
    BY <1>1, <1>2, <2>0, AppendIsInjective
  <2>2. prev = output
    BY <1>5, <1>6, <1>7, <2>1
  <2> QED
    BY <1>9, <2>1, <2>2 DEF d
<1> QED
  BY <1>2, <1>4, <1>8, <1>9 DEF Genuine

LEMMA ReceiverUploadInv == UploadInv /\ Receiver => UploadInv'
<1> SUFFICES ASSUME UploadInv, Receiver PROVE UploadInv'
  OBVIOUS
<1>1. TypeOK' /\ TypeOK
  BY ReceiverTypeOK DEF UploadInv
<1>2. /\ prev \in Seq(Payload) /\ sent \in Seq(Payload)
      /\ output \in Seq(Payload) /\ Empty \in Payload
  BY <1>1, UploadAssumption, OutputType DEF TypeOK, Hash
<1>3. CASE RequestFrame
  <2>1. UNCHANGED <<sent, wire, line, prev, metadata, fhandle>> /\ output' = output
    BY <1>3 DEF RequestFrame, lineVars, output
  <2>2. LinesGenuine'
    <3>1. sent = <<>> /\ tstate = "idle"
      BY <1>3 DEF UploadInv, SentWellFormed, RequestFrame
    <3> QED
      BY <2>1, <3>1 DEF UploadInv, LinesGenuine, Genuine, Finished
  <2> QED
    BY <1>1, <1>3, <2>1, <2>2
       DEF UploadInv, SentWellFormed, ChainInv, OutputIsPrefix, RequestFrame
<1>4. ASSUME Receive, pc' \in {"body", "true", "false"}
      PROVE  /\ LinesGenuine' /\ SentWellFormed'
             /\ UNCHANGED <<sent, tstate>>
  BY <1>4, ReceivedLine DEF UploadInv, SentWellFormed, Receive
<1>5. ASSUME Receive, pc' \in {"true", "false"},
             UNCHANGED <<metadata, fhandle>>
      PROVE  UploadInv'
  <2>1. output' = output
    BY <1>5 DEF output
  <2> QED
    BY <1>1, <1>4, <1>5, <2>1 DEF UploadInv, ChainInv, OutputIsPrefix
<1>6. CASE RejectMetadata
  BY <1>5, <1>6 DEF RejectMetadata
<1>7. CASE AcceptMetadata
  <2> DEFINE d == line'.data
  <2>1. /\ d \in Payload /\ Genuine(line', sent, tstate)
        /\ line'.hash = Append(<<>>, d)
        /\ <<>> \in Seq(Payload)
    BY <1>7, <1>1, ReceiveType, ReceivedLine
       DEF UploadInv, AcceptMetadata, Lines, MetadataRejected, HashMatches, Digest
  <2>2. Append(<<>>, d) # <<>>
    BY <2>1, AppendIsNotEmpty
  <2>3. Append(<<>>, d) # Digest(sent, Empty) \/ tstate \notin Finished
    BY <1>2, <2>1, AppendIsInjective
       DEF UploadInv, SentWellFormed, Digest, Finished
  <2>4. IsPrefix(Append(<<>>, d), sent)
    BY <2>1, <2>2, <2>3 DEF Genuine, BadHash
  <2>5. /\ metadata' = <<d>> /\ fhandle' = <<>> /\ prev' = Append(<<>>, d)
        /\ pc' = "body"
    BY <1>7 DEF AcceptMetadata, UploadInv, ChainInv, Digest
  <2>6. output' = Append(<<>>, d) /\ Append(<<>>, d) = <<d>>
    BY <2>1, <2>5 DEF output
  <2>7. Receive
    BY <1>7 DEF AcceptMetadata
  <2>8. OutputIsPrefix'
    BY <1>4, <2>4, <2>5, <2>6, <2>7 DEF OutputIsPrefix
  <2>9. ChainInv'
    BY <2>5, <2>6 DEF ChainInv
  <2> QED
    BY <1>1, <1>4, <2>5, <2>7, <2>8, <2>9 DEF UploadInv
<1>8. CASE RejectShortLine
  BY <1>5, <1>8 DEF RejectShortLine
<1>9. CASE RejectHash
  BY <1>5, <1>9 DEF RejectHash, HashBodyLine
<1>10. CASE EndOfFrame
  BY <1>5, <1>10 DEF EndOfFrame, HashBodyLine
<1>11. CASE UploadAborted
  BY <1>5, <1>11 DEF UploadAborted, HashBodyLine
<1>12. CASE WriteData
  <2> DEFINE d == line'.data
  <2>1. /\ HashBodyLine /\ HashMatches(line', prev) /\ Receive
        /\ pc = "body" /\ pc' = "body" /\ metadata' = metadata
        /\ prev' = Append(prev, d)
        /\ fhandle' = IF d = Empty THEN fhandle ELSE Append(fhandle, d)
    BY <1>12 DEF WriteData, HashBodyLine, Digest
  <2>2. d \in Payload
    BY <1>1, <2>1, ReceiveType DEF Lines
  <2>3. /\ LinesGenuine' /\ SentWellFormed'
        /\ sent' = sent /\ tstate' = tstate
    BY <1>4, <2>1
  <2>4. CASE d # Empty
    <3>1. output' = Append(output, d)
      BY <1>1, <2>1, <2>2, <2>4, ConcatAppend DEF output, TypeOK
    <3>2. prev = output /\ IsPrefix(Append(output, d), sent)
      BY <2>1, <2>4, MatchedLine
    <3> QED
      BY <1>1, <2>1, <2>3, <3>1, <3>2
         DEF UploadInv, ChainInv, OutputIsPrefix
  <2>5. CASE d = Empty
    <3>1. output' = output
      BY <2>1, <2>5 DEF output
    <3>2. prev = output /\ output = sent /\ tstate \in Finished
      BY <2>1, <2>5, MatchedLine
    <3> QED
      BY <1>1, <2>1, <2>3, <2>5, <3>1, <3>2
         DEF UploadInv, ChainInv, OutputIsPrefix, Digest
  <2> QED
    BY <2>4, <2>5
<1>13. CASE SkipUnknownLine
  <2>1. output' = output
    BY <1>13 DEF SkipUnknownLine, output
  <2> QED
    BY <1>1, <1>4, <1>13, <2>1
       DEF UploadInv, ChainInv, OutputIsPrefix, SkipUnknownLine
<1> QED
  BY <1>3, <1>6, <1>7, <1>8, <1>9, <1>10, <1>11, <1>12, <1>13 DEF Receiver

\* The invariant holds in every reachable state.
THEOREM UploadInvariant == Spec => []UploadInv
<1>1. Init => UploadInv
  BY InitUploadInv
<1>2. UploadInv /\ [Next]_vars => UploadInv'
  <2> SUFFICES ASSUME UploadInv, [Next]_vars PROVE UploadInv'
    OBVIOUS
  <2>1. CASE Next
    BY <2>1, TerminalUploadInv, TtyLineUploadInv, ReceiverUploadInv DEF Next
  <2>2. CASE UNCHANGED vars
    BY <2>2 DEF vars, UploadInv, TypeOK, LinesGenuine, SentWellFormed,
                ChainInv, OutputIsPrefix, output
  <2> QED
    BY <2>1, <2>2
<1> QED
  BY <1>1, <1>2, PTL DEF Spec

\* request_frame hands its caller nothing but a prefix of the frame, whatever
\* the line does to it: lost, changed, inserted or repeated lines included.
THEOREM OutputCorrect == Spec => []OutputIsPrefix
<1>1. UploadInv => OutputIsPrefix
  BY DEF UploadInv
<1> QED
  BY <1>1, UploadInvariant, PTL

-----------------------------------------------------------------------------
(* Success *)

\* A line that can end the upload with success comes from a finished frame.
EndGenuine(l, s, t) == l.kind = "E" /\ l.hash # BadHash
                          => l.hash = Digest(s, Empty) /\ t = "ended"

EndLinesGenuine == /\ EndGenuine(line, sent, tstate)
                   /\ \A i \in 1..Len(wire) : EndGenuine(wire[i], sent, tstate)

\* Lines keep their order: the digests on the wire get longer and longer.
WireOrdered == \A i, j \in 1..Len(wire) :
                  i < j /\ wire[i].hash # BadHash /\ wire[j].hash # BadHash
                     => Len(wire[i].hash) < Len(wire[j].hash)

SuccessInv == /\ UploadInv
              /\ EndLinesGenuine
              /\ WireOrdered
              /\ SuccessMeansWhole
              /\ SuccessLeavesNothingBehind

\* No digest is longer than that of a whole frame and its end marker.
LEMMA GenuineLength ==
    ASSUME TypeOK, NEW l \in Lines, Genuine(l, sent, tstate)
    PROVE  /\ Len(l.hash) \in Nat
           /\ Len(l.hash) <= Len(sent) + 1
           /\ tstate \notin Finished => Len(l.hash) <= Len(sent)
<1>1. l.hash \in Seq(Payload) /\ sent \in Seq(Payload) /\ Empty \in Payload
  BY UploadAssumption DEF Lines, Hash, TypeOK
<1>2. Len(Digest(sent, Empty)) = Len(sent) + 1
  BY <1>1 DEF Digest
<1>3. IsPrefix(l.hash, sent) => Len(l.hash) <= Len(sent)
  BY <1>1, PrefixPointwise
<1>4. l.hash = BadHash => Len(l.hash) = 0
  BY DEF BadHash
<1> QED
  BY <1>1, <1>2, <1>3, <1>4 DEF Genuine

\* The terminal's lines: an end line only from a frame that has ended, and a
\* longer digest than any before.
LEMMA TerminalWire ==
    ASSUME UploadInv, Terminal
    PROVE  /\ tstate \notin Finished
           /\ UNCHANGED receiverVars
           /\ \/ wire' = wire
              \/ \E l \in Lines :
                    /\ wire' = Append(wire, l)
                    /\ Len(l.hash) = Len(sent) + 1
                    /\ EndGenuine(l, sent', tstate')
<1>1. TypeOK /\ sent \in Seq(Payload) /\ Empty \in Payload
  BY UploadAssumption DEF UploadInv, TypeOK
<1>2. \A p \in Payload : Len(Digest(sent, p)) = Len(sent) + 1
  BY <1>1 DEF Digest
<1>3. ASSUME NEW p \in Payload, SendMetadata(p)
      PROVE  Write(Line("M", p, Digest(sent, p)))
  <2>1. sent = <<>>
    BY <1>3 DEF UploadInv, SentWellFormed, SendMetadata
  <2> QED
    BY <1>3, <2>1 DEF SendMetadata
<1> DEFINE Sent(k, p) == \/ wire' = wire
                         \/ \E l \in Lines : /\ wire' = Append(wire, l)
                                             /\ l.kind = k
                                             /\ l.hash = Digest(sent, p)
<1>4. ASSUME NEW p \in Payload, SendMetadata(p)
      PROVE  Sent("M", p) /\ tstate \notin Finished /\ UNCHANGED receiverVars
  BY <1>1, <1>3, <1>4, WriteLine DEF SendMetadata, Kinds, Finished
<1>5. ASSUME NEW p \in Payload, SendData(p)
      PROVE  Sent("D", p) /\ tstate \notin Finished /\ UNCHANGED receiverVars
  BY <1>1, <1>5, WriteLine DEF SendData, Kinds, Finished
<1>6. ASSUME FinishUpload
      PROVE  /\ Sent("E", Empty) /\ tstate \notin Finished
             /\ UNCHANGED receiverVars
             /\ sent' = sent /\ tstate' = "ended"
  BY <1>1, <1>6, WriteLine DEF FinishUpload, Kinds, Finished
<1>7. ASSUME AbortUpload
      PROVE  Sent("A", Empty) /\ tstate \notin Finished /\ UNCHANGED receiverVars
  BY <1>1, <1>7, WriteLine DEF AbortUpload, Kinds, Finished
<1> QED
  BY <1>1, <1>2, <1>4, <1>5, <1>6, <1>7 DEF Terminal, EndGenuine

LEMMA TerminalSuccessInv == SuccessInv /\ Terminal => SuccessInv'
<1> SUFFICES ASSUME SuccessInv, Terminal PROVE SuccessInv'
  OBVIOUS
<1>1. UploadInv /\ UploadInv' /\ TypeOK /\ TypeOK'
  BY TerminalUploadInv DEF SuccessInv, UploadInv
<1>2. tstate \notin Finished /\ UNCHANGED receiverVars
  BY <1>1, TerminalWire
<1>3. SuccessMeansWhole' /\ SuccessLeavesNothingBehind'
  BY <1>2 DEF SuccessInv, SuccessMeansWhole, SuccessLeavesNothingBehind,
              Finished, receiverVars
<1>4. ASSUME NEW l, EndGenuine(l, sent, tstate)
      PROVE  EndGenuine(l, sent', tstate')
  BY <1>2, <1>4 DEF EndGenuine, Finished
<1>5. EndGenuine(line', sent', tstate')
  BY <1>2, <1>4 DEF SuccessInv, EndLinesGenuine, receiverVars
<1>6. CASE wire' = wire
  BY <1>1, <1>3, <1>4, <1>5, <1>6
     DEF SuccessInv, EndLinesGenuine, WireOrdered
<1>7. ASSUME NEW l \in Lines,
             wire' = Append(wire, l), Len(l.hash) = Len(sent) + 1,
             EndGenuine(l, sent', tstate')
      PROVE  SuccessInv'
  <2>1. /\ Len(wire') = Len(wire) + 1 /\ Len(wire) \in Nat
        /\ wire'[Len(wire) + 1] = l
        /\ \A i \in 1..Len(wire) : wire'[i] = wire[i] /\ wire[i] \in Lines
    BY <1>1, <1>7, AppendProperties DEF TypeOK
  <2>2. EndLinesGenuine'
    BY <1>4, <1>5, <1>7, <2>1 DEF SuccessInv, EndLinesGenuine
  <2>3. \A i \in 1..Len(wire) : /\ Len(wire[i].hash) \in Nat
                                /\ Len(wire[i].hash) <= Len(sent)
    BY <1>1, <1>2, <2>1, GenuineLength DEF UploadInv, LinesGenuine
  <2>4. Len(sent) \in Nat
    BY <1>1 DEF TypeOK
  <2>5. WireOrdered'
    <3> SUFFICES ASSUME NEW i \in 1..Len(wire'), NEW j \in 1..Len(wire'), i < j,
                        wire'[i].hash # BadHash, wire'[j].hash # BadHash
                 PROVE  Len(wire'[i].hash) < Len(wire'[j].hash)
      BY DEF WireOrdered
    <3>1. CASE j = Len(wire) + 1
      BY <1>7, <2>1, <2>3, <2>4, <3>1
    <3>2. CASE j # Len(wire) + 1
      <4>1. i \in 1..Len(wire) /\ j \in 1..Len(wire)
        BY <2>1, <3>2
      <4> QED
        BY <2>1, <4>1 DEF SuccessInv, WireOrdered
    <3> QED
      BY <3>1, <3>2
  <2> QED
    BY <1>1, <1>3, <2>2, <2>5 DEF SuccessInv
<1> QED
  BY <1>1, <1>6, <1>7, TerminalWire

\* The tty line may lose lines but does not reorder them.
LEMMA DisturbedOrder ==
    ASSUME TypeOK, TtyLine, WireOrdered
    PROVE  WireOrdered'
<1>1. CASE LoseLine
  <2>1. PICK k \in 1..Len(wire) : wire' = RemoveAt(wire, k)
    BY <1>1 DEF LoseLine
  <2>2. wire \in Seq(Lines) /\ Len(wire) \in Nat
    BY DEF TypeOK
  <2>3. Len(RemoveAt(wire, k)) = Len(wire) - 1
    BY <2>2, RemoveAtProperties
  <2>4. \A j \in 1..(Len(wire) - 1) :
           RemoveAt(wire, k)[j] = IF j < k THEN wire[j] ELSE wire[j + 1]
    BY <2>2, RemoveAtProperties
  <2>5. ASSUME NEW i \in 1..Len(wire'), NEW j \in 1..Len(wire'), i < j
        PROVE  \E a, b \in 1..Len(wire) :
                  a < b /\ wire'[i] = wire[a] /\ wire'[j] = wire[b]
    <3>1. /\ i \in 1..Len(wire) /\ i + 1 \in 1..Len(wire)
          /\ j \in 1..Len(wire) /\ j + 1 \in 1..Len(wire)
          /\ k \in Nat
      BY <2>1, <2>2, <2>3
    <3>2. /\ wire'[i] = IF i < k THEN wire[i] ELSE wire[i + 1]
          /\ wire'[j] = IF j < k THEN wire[j] ELSE wire[j + 1]
      BY <2>1, <2>2, <2>3, <2>4
    <3>3. CASE i < k /\ j < k
      BY <2>5, <3>1, <3>2, <3>3
    <3>4. CASE i < k /\ ~(j < k)
      <4>1. i < j + 1
        BY <2>5, <3>1
      <4> QED
        BY <4>1, <3>1, <3>2, <3>4
    <3>5. CASE ~(i < k)
      <4>1. ~(j < k) /\ i + 1 < j + 1
        BY <2>5, <3>1, <3>5
      <4> QED
        BY <4>1, <3>1, <3>2, <3>5
    <3> QED
      BY <3>3, <3>4, <3>5
  <2>6. ASSUME NEW i \in 1..Len(wire'), NEW j \in 1..Len(wire'), i < j,
               wire'[i].hash # BadHash, wire'[j].hash # BadHash
        PROVE  Len(wire'[i].hash) < Len(wire'[j].hash)
    <3>1. PICK a, b \in 1..Len(wire) :
             a < b /\ wire'[i] = wire[a] /\ wire'[j] = wire[b]
      BY <2>5, <2>6
    <3> QED
      BY <2>6, <3>1 DEF WireOrdered
  <2> QED
    BY <2>6 DEF WireOrdered
<1>2. CASE GarbleLine
  <2>1. PICK k \in 1..Len(wire) : \E l \in Garbled(wire[k]) :
                wire' = [wire EXCEPT ![k] = l]
    BY <1>2 DEF GarbleLine
  <2>2. PICK l \in Garbled(wire[k]) : wire' = [wire EXCEPT ![k] = l]
    BY <2>1
  <2>3. l.hash = wire[k].hash \/ l.hash = BadHash
    BY GarbledType DEF TypeOK
  <2>4. /\ Len(wire') = Len(wire)
        /\ \A i \in 1..Len(wire) : \/ wire'[i].hash = wire[i].hash
                                   \/ wire'[i].hash = BadHash
    BY <2>2, <2>3 DEF TypeOK
  <2>5. ASSUME NEW i \in 1..Len(wire'), NEW j \in 1..Len(wire'), i < j,
               wire'[i].hash # BadHash, wire'[j].hash # BadHash
        PROVE  Len(wire'[i].hash) < Len(wire'[j].hash)
    <3>1. /\ i \in 1..Len(wire) /\ j \in 1..Len(wire)
          /\ wire'[i].hash = wire[i].hash /\ wire'[j].hash = wire[j].hash
      BY <2>4, <2>5
    <3> QED
      BY <2>5, <3>1 DEF WireOrdered
  <2> QED
    BY <2>5 DEF WireOrdered
<1>3. CASE TypeAhead
  <2>1. PICK short \in BOOLEAN : Write(TypedLine(short))
    BY <1>3 DEF TypeAhead
  <2>2. TypedLine(short) \in Lines /\ TypedLine(short).hash = BadHash
    BY TypedLineType DEF TypedLine
  <2>3. CASE wire' = Append(wire, TypedLine(short))
    <3>1. /\ Len(wire') = Len(wire) + 1 /\ Len(wire) \in Nat
          /\ wire'[Len(wire) + 1] = TypedLine(short)
          /\ \A i \in 1..Len(wire) : wire'[i] = wire[i]
      BY <2>2, <2>3, AppendProperties DEF TypeOK
    <3>2. \A i \in 1..Len(wire') :
             wire'[i].hash # BadHash => i \in 1..Len(wire)
      BY <2>2, <3>1
    <3> SUFFICES ASSUME NEW i \in 1..Len(wire'), NEW j \in 1..Len(wire'), i < j,
                        wire'[i].hash # BadHash, wire'[j].hash # BadHash
                 PROVE  Len(wire'[i].hash) < Len(wire'[j].hash)
      BY DEF WireOrdered
    <3>3. i \in 1..Len(wire) /\ j \in 1..Len(wire)
      BY <3>2
    <3> QED
      BY <3>1, <3>3 DEF WireOrdered
  <2> QED
    BY <2>1, <2>3 DEF Write, WireOrdered
<1>4. CASE HangUp
  BY <1>4 DEF HangUp, WireOrdered
<1> QED
  BY <1>1, <1>2, <1>3, <1>4 DEF TtyLine

LEMMA TtyLineSuccessInv ==
    ASSUME "E" \notin GarbledKinds
    PROVE  SuccessInv /\ TtyLine => SuccessInv'
<1> SUFFICES ASSUME SuccessInv, TtyLine PROVE SuccessInv'
  OBVIOUS
<1>1. UploadInv' /\ TypeOK
  BY TtyLineUploadInv DEF SuccessInv, UploadInv
<1>2. UNCHANGED <<tstate, sent, pc, line, prev, metadata, fhandle>>
  BY <1>1, DisturbedWire DEF terminalVars, receiverVars
<1>3. EndLinesGenuine'
  <2>1. \A i \in 1..Len(wire') : EndGenuine(wire'[i], sent, tstate)
    BY <1>1, DisturbedWire DEF SuccessInv, EndLinesGenuine, EndGenuine
  <2> QED
    BY <1>2, <2>1 DEF SuccessInv, EndLinesGenuine
<1>4. WireOrdered'
  BY <1>1, DisturbedOrder DEF SuccessInv
<1>5. SuccessMeansWhole'
  BY <1>2 DEF SuccessInv, SuccessMeansWhole, output
<1>6. SuccessLeavesNothingBehind'
  <2>1. DOMAIN wire = 1..Len(wire) /\ DOMAIN wire' = 1..Len(wire')
    BY <1>1 DEF UploadInv, TypeOK
  <2> QED
    BY <1>1, <1>2, <2>1, DisturbedWire
       DEF SuccessInv, SuccessLeavesNothingBehind
<1> QED
  BY <1>1, <1>3, <1>4, <1>5, <1>6 DEF SuccessInv

LEMMA ReceiverSuccessInv == SuccessInv /\ Receiver => SuccessInv'
<1> SUFFICES ASSUME SuccessInv, Receiver PROVE SuccessInv'
  OBVIOUS
<1>1. UploadInv /\ UploadInv' /\ TypeOK /\ TypeOK'
  BY ReceiverUploadInv DEF SuccessInv, UploadInv
<1>2. CASE RequestFrame
  <2>1. /\ UNCHANGED <<sent, wire, line>> /\ tstate = "idle"
        /\ pc' = "meta"
    BY <1>1, <1>2 DEF RequestFrame, lineVars, UploadInv, SentWellFormed
  <2>2. EndLinesGenuine'
    BY <2>1 DEF SuccessInv, EndLinesGenuine, EndGenuine
  <2> QED
    BY <1>1, <2>1, <2>2
       DEF SuccessInv, WireOrdered, SuccessMeansWhole,
           SuccessLeavesNothingBehind
<1>3. ASSUME Receive
      PROVE  /\ EndLinesGenuine' /\ WireOrdered'
             /\ EndGenuine(line', sent, tstate)
  <2>1. UNCHANGED <<sent, tstate>> /\ Len(wire) \in Nat
    BY <1>1, <1>3 DEF Receive, TypeOK
  <2>2. CASE line' = line /\ wire = <<>> /\ wire' = <<>>
    BY <2>1, <2>2 DEF SuccessInv, EndLinesGenuine, WireOrdered
  <2>3. CASE /\ wire # <<>>
             /\ line' = wire[1]
             /\ Len(wire') = Len(wire) - 1
             /\ \A i \in 1..Len(wire') : wire'[i] = wire[i + 1]
    <3>1. /\ 1 \in 1..Len(wire)
          /\ \A i \in 1..Len(wire') : i + 1 \in 1..Len(wire)
      BY <1>1, <2>1, <2>3 DEF TypeOK
    <3>2. EndLinesGenuine' /\ EndGenuine(line', sent, tstate)
      BY <2>1, <2>3, <3>1 DEF SuccessInv, EndLinesGenuine
    <3>3. WireOrdered'
      <4> SUFFICES ASSUME NEW i \in 1..Len(wire'), NEW j \in 1..Len(wire'),
                          i < j,
                          wire'[i].hash # BadHash, wire'[j].hash # BadHash
                   PROVE  Len(wire'[i].hash) < Len(wire'[j].hash)
        BY DEF WireOrdered
      <4>1. i + 1 < j + 1
        OBVIOUS
      <4> QED
        BY <2>3, <3>1, <4>1 DEF SuccessInv, WireOrdered
    <3> QED
      BY <3>2, <3>3
  <2> QED
    BY <1>1, <1>3, <2>2, <2>3, ReceivedLine DEF UploadInv
<1>4. ASSUME Receive, pc' # "true"
      PROVE  SuccessInv'
  BY <1>1, <1>3, <1>4
     DEF SuccessInv, SuccessMeansWhole, SuccessLeavesNothingBehind
<1>5. CASE EndOfFrame
  <2>1. /\ HashBodyLine /\ HashMatches(line', prev) /\ Receive
        /\ line'.kind = "E" /\ UNCHANGED <<metadata, fhandle>>
        /\ line'.hash = Append(prev, line'.data)
    BY <1>5 DEF EndOfFrame, HashBodyLine, HashMatches, Digest
  <2>2. /\ line' \in Lines /\ line'.data \in Payload
        /\ sent' = sent /\ tstate' = tstate
        /\ sent \in Seq(Payload) /\ prev \in Seq(Payload) /\ Empty \in Payload
    BY <1>1, <2>1, ReceiveType, UploadAssumption DEF TypeOK, Lines, Hash
  <2>3. line'.hash # BadHash
    BY <2>1, <2>2, AppendIsNotEmpty DEF BadHash
  <2>4. line'.hash = Digest(sent, Empty) /\ tstate = "ended"
    BY <1>3, <2>1, <2>3 DEF EndGenuine
  <2>5. Append(prev, line'.data) = Append(sent, Empty)
    BY <2>1, <2>4 DEF Digest
  <2>6. prev = sent
    <3> DEFINE d == line'.data
    <3>1. d \in Payload /\ Append(prev, d) = Append(sent, Empty)
      BY <2>2, <2>5
    <3> HIDE DEF d
    <3> QED
      BY <2>2, <3>1, AppendIsInjective
  <2>7. output' = sent'
    <3>1. prev = output
      BY <1>1, <2>1, MatchedLine
    <3> QED
      BY <2>1, <2>2, <2>6, <3>1 DEF output
  <2>8. SuccessMeansWhole'
    BY <2>2, <2>4, <2>7 DEF SuccessMeansWhole
  <2>9. ASSUME NEW i \in 1..Len(wire')
        PROVE  wire'[i].hash = BadHash
    <3>1. \/ wire' = <<>>
          \/ /\ line' = wire[1] /\ wire # <<>>
             /\ Len(wire') = Len(wire) - 1
             /\ wire'[i] = wire[i + 1]
      BY <1>1, <2>1, ReceivedLine DEF UploadInv
    <3>2. CASE wire' = <<>>
      BY <2>9, <3>2
    <3>3. CASE /\ line' = wire[1] /\ wire # <<>>
               /\ Len(wire') = Len(wire) - 1
               /\ wire'[i] = wire[i + 1]
      <4>1. /\ 1 \in 1..Len(wire) /\ i + 1 \in 1..Len(wire) /\ 1 < i + 1
            /\ wire[i + 1] \in Lines /\ Genuine(wire[i + 1], sent, tstate)
        BY <1>1, <3>3 DEF TypeOK, UploadInv, LinesGenuine
      <4>2. /\ Len(wire[i + 1].hash) \in Nat
            /\ Len(wire[i + 1].hash) <= Len(sent) + 1
        BY <1>1, <4>1, GenuineLength
      <4>3. wire[1].hash # BadHash /\ Len(wire[1].hash) = Len(sent) + 1
        BY <2>2, <2>3, <2>4, <3>3 DEF Digest
      <4>4. Len(sent) \in Nat
        BY <2>2
      <4> QED
        BY <3>3, <4>1, <4>2, <4>3, <4>4 DEF SuccessInv, WireOrdered
    <3> QED
      BY <3>1, <3>2, <3>3
  <2>10. SuccessLeavesNothingBehind'
    <3>1. DOMAIN wire' = 1..Len(wire')
      BY <1>1 DEF TypeOK
    <3> QED
      BY <2>9, <3>1 DEF SuccessLeavesNothingBehind
  <2> QED
    BY <1>1, <1>3, <2>1, <2>8, <2>10 DEF SuccessInv
<1>6. CASE RejectMetadata \/ AcceptMetadata
  BY <1>4, <1>6 DEF RejectMetadata, AcceptMetadata
<1>7. CASE RejectShortLine \/ SkipUnknownLine
  BY <1>4, <1>7 DEF RejectShortLine, SkipUnknownLine
<1>8. CASE RejectHash \/ UploadAborted \/ WriteData
  BY <1>4, <1>8 DEF RejectHash, UploadAborted, WriteData, HashBodyLine
<1> QED
  BY <1>2, <1>5, <1>6, <1>7, <1>8 DEF Receiver

\* As long as no other line is turned into an "#E:" line, the invariant behind
\* a successful upload holds in every reachable state.
THEOREM SuccessInvariant ==
    ASSUME "E" \notin GarbledKinds
    PROVE  Spec => []SuccessInv
<1>1. Init => SuccessInv
  <2> SUFFICES ASSUME Init PROVE SuccessInv
    OBVIOUS
  <2>1. UploadInv
    BY InitUploadInv
  <2>2. line.hash = BadHash
    BY DEF Init, UninitialisedLines
  <2> QED
    BY <2>1, <2>2 DEF Init, SuccessInv, EndLinesGenuine, EndGenuine,
       WireOrdered, SuccessMeansWhole, SuccessLeavesNothingBehind
<1>2. SuccessInv /\ [Next]_vars => SuccessInv'
  <2> SUFFICES ASSUME SuccessInv, [Next]_vars PROVE SuccessInv'
    OBVIOUS
  <2>1. CASE Next
    BY <2>1, TerminalSuccessInv, TtyLineSuccessInv, ReceiverSuccessInv DEF Next
  <2>2. CASE UNCHANGED vars
    <3>1. UploadInv'
      BY <2>2 DEF vars, SuccessInv, UploadInv, TypeOK, LinesGenuine,
                  SentWellFormed, ChainInv, OutputIsPrefix, output
    <3> QED
      BY <2>2, <3>1 DEF vars, SuccessInv, EndLinesGenuine, WireOrdered,
         SuccessMeansWhole, SuccessLeavesNothingBehind, output
  <2> QED
    BY <2>1, <2>2
<1> QED
  BY <1>1, <1>2, PTL DEF Spec

\* request_frame returns true only for a frame that the terminal has finished
\* and that has arrived whole.
THEOREM SuccessCorrect ==
    ASSUME "E" \notin GarbledKinds
    PROVE  Spec => []SuccessMeansWhole
<1>1. SuccessInv => SuccessMeansWhole
  BY DEF SuccessInv
<1> QED
  BY <1>1, SuccessInvariant, PTL

\* Nothing of a successfully uploaded frame is left for the next reader of the
\* tty.
THEOREM NothingLeftCorrect ==
    ASSUME "E" \notin GarbledKinds
    PROVE  Spec => []SuccessLeavesNothingBehind
<1>1. SuccessInv => SuccessLeavesNothingBehind
  BY DEF SuccessInv
<1> QED
  BY <1>1, SuccessInvariant, PTL

-----------------------------------------------------------------------------
(* Failure *)

\* The k-th line of an upload, when nothing has happened to it.
Due(l, k, s, t) ==
    /\ ~l.short
    /\ k <= Len(s) => /\ l.kind = (IF k = 1 THEN "M" ELSE "D")
                      /\ l.data = s[k]
                      /\ IsPrefix(l.hash, s) /\ Len(l.hash) = k
    /\ k > Len(s)  => /\ l.kind = (IF t = "ended" THEN "E" ELSE "A")
                      /\ l.data = Empty
                      /\ l.hash = Digest(s, Empty)

\* Lines of the upload that have been written.
Written == Len(sent) + (IF tstate \in Finished THEN 1 ELSE 0)

\* While nothing has disturbed the tty, what has been written and not yet given to
\* the caller is on it, in order, and previous_hash is the digest it chains to.
Undisturbed ==
    /\ ~eof
    /\ pc \in {"idle", "meta", "body"} =>
          /\ Len(output) + Len(wire) = Written
          /\ \A i \in 1..Len(wire) : Due(wire[i], Len(output) + i, sent, tstate)
    /\ pc = "body" => prev = output
    /\ pc = "false" => tstate = "aborted"

CauseInv == UploadInv /\ (faults = 0 => Undisturbed)

\* The next line due carries the digest of everything up to it.
LEMMA DueHash ==
    ASSUME TypeOK, OutputIsPrefix, NEW l \in Lines,
           Due(l, Len(output) + 1, sent, tstate), Len(output) < Len(sent)
    PROVE  l.hash = Digest(output, l.data)
<1>1. /\ output \in Seq(Payload) /\ sent \in Seq(Payload) /\ l.hash \in Seq(Payload)
      /\ l.data \in Payload
      /\ Len(output) \in Nat /\ Len(sent) \in Nat
  BY OutputType DEF TypeOK, Lines, Hash
<1>2. /\ l.data = sent[Len(output) + 1]
      /\ IsPrefix(l.hash, sent) /\ Len(l.hash) = Len(output) + 1
  BY <1>1 DEF Due
<1>3. IsPrefix(Append(output, l.data), sent)
  BY <1>1, <1>2, AppendedPrefix DEF OutputIsPrefix
<1> DEFINE d == Append(output, l.data)
<1>4. d \in Seq(Payload) /\ Len(d) = Len(output) + 1 /\ IsPrefix(d, sent)
  BY <1>1, <1>3
<1> HIDE DEF d
<1>5. Len(l.hash) = Len(d) /\ \A i \in 1..Len(d) : l.hash[i] = d[i]
  BY <1>1, <1>2, <1>4, PrefixPointwise
<1>6. l.hash = d
  BY <1>1, <1>4, <1>5, SeqEqual
<1> QED
  BY <1>6 DEF d, Digest

\* The lines on the wire stay due when the terminal goes on, as do those behind a
\* line that is read.
LEMMA DueStays ==
    ASSUME TypeOK, NEW l \in Lines, NEW k \in 1..Len(sent), NEW p \in Payload, NEW t,
           Due(l, k, sent, tstate)
    PROVE  Due(l, k, sent, t) /\ Due(l, k, Append(sent, p), t)
<1>1. sent \in Seq(Payload) /\ l.hash \in Seq(Payload) /\ Len(sent) \in Nat
  BY DEF TypeOK, Lines, Hash
<1>2. k <= Len(sent) /\ ~(k > Len(sent))
  BY <1>1
<1>3. Due(l, k, sent, t)
  BY <1>2 DEF Due
<1> DEFINE s == Append(sent, p)
<1>4. Len(s) = Len(sent) + 1 /\ s[k] = sent[k]
  BY <1>1, AppendProperties
<1>5. IsPrefix(l.hash, sent)
  BY <1>2 DEF Due
<1>6. IsPrefix(l.hash, s)
  BY <1>1, <1>5, PrefixOfLonger
<1> HIDE DEF s
<1>7. k <= Len(s) /\ ~(k > Len(s))
  BY <1>1, <1>2, <1>4
<1>8. Due(l, k, s, t)
  BY <1>2, <1>4, <1>6, <1>7 DEF Due
<1> QED
  BY <1>3, <1>8 DEF s

\* The terminal writes its next line.
LEMMA TerminalWrites ==
    ASSUME UploadInv, Undisturbed, Terminal
    PROVE  /\ tstate \notin Finished /\ UNCHANGED receiverVars /\ UNCHANGED eof
           /\ \E p \in Payload : sent' = sent \/ sent' = Append(sent, p)
           /\ \E l \in Lines : wire' = Append(wire, l) /\ Due(l, Written', sent', tstate')
           /\ Written' = Written + 1
<1>1. /\ sent \in Seq(Payload) /\ Len(sent) \in Nat /\ Empty \in Payload
      /\ TypeOK /\ ~eof
  BY UploadAssumption DEF UploadInv, TypeOK, Undisturbed
<1>2. UNCHANGED receiverVars /\ tstate \notin Finished /\ UNCHANGED eof
  BY DEF Terminal, SendMetadata, SendData, FinishUpload, AbortUpload, Finished,
         receiverVars
<1>3. ASSUME NEW p \in Payload, NEW k \in Kinds, tstate' = "sending",
             sent' = Append(sent, p), Write(Line(k, p, Digest(sent, p))),
             k = IF sent = <<>> THEN "M" ELSE "D"
      PROVE  /\ \E l \in Lines : wire' = Append(wire, l) /\ Due(l, Written', sent', tstate')
             /\ Written' = Written + 1
  <2> DEFINE l == Line(k, p, Digest(sent, p))
  <2>1. Digest(sent, p) \in Hash
    BY <1>1 DEF Digest, Hash
  <2>2. l \in Lines /\ wire' = Append(wire, l)
    BY <1>1, <1>3, <2>1, LineType DEF Write
  <2>3. Len(sent') = Len(sent) + 1 /\ sent'[Len(sent) + 1] = p /\ sent' \in Seq(Payload)
    BY <1>1, <1>3, AppendProperties
  <2>4. Written = Len(sent) /\ Written' = Len(sent')
    BY <1>1, <1>2, <1>3, <2>3 DEF Written, Finished
  <2>5. sent = <<>> <=> Len(sent) + 1 = 1
    BY <1>1
  <2>6. IsPrefix(Digest(sent, p), sent') /\ Len(Digest(sent, p)) = Len(sent')
    BY <1>3, <2>3, PrefixReflexive DEF Digest
  <2>7. Len(sent') <= Len(sent') /\ ~(Len(sent') > Len(sent'))
    BY <1>1, <2>3
  <2>8. Due(l, Len(sent'), sent', tstate')
    BY <1>3, <2>3, <2>5, <2>6, <2>7 DEF Due, Line
  <2> QED
    BY <1>1, <2>2, <2>3, <2>4, <2>8
<1>4. ASSUME NEW k \in Kinds, sent' = sent, tstate' \in Finished,
             Write(Line(k, Empty, Digest(sent, Empty))),
             k = IF tstate' = "ended" THEN "E" ELSE "A"
      PROVE  /\ \E l \in Lines : wire' = Append(wire, l) /\ Due(l, Written', sent', tstate')
             /\ Written' = Written + 1
  <2> DEFINE l == Line(k, Empty, Digest(sent, Empty))
  <2>1. Digest(sent, Empty) \in Hash
    BY <1>1 DEF Digest, Hash
  <2>2. l \in Lines /\ wire' = Append(wire, l)
    BY <1>1, <1>4, <2>1, LineType DEF Write
  <2>3. Written = Len(sent) /\ Written' = Len(sent) + 1
    BY <1>1, <1>2, <1>4 DEF Written
  <2>4. Len(sent) + 1 > Len(sent) /\ ~(Len(sent) + 1 <= Len(sent))
    BY <1>1
  <2>5. Due(l, Len(sent) + 1, sent', tstate')
    BY <1>4, <2>4 DEF Due, Line
  <2> QED
    BY <2>2, <2>3, <2>5
<1>5. ASSUME NEW p \in Payload, SendMetadata(p)
      PROVE  sent = <<>> /\ sent' = Append(sent, p) /\ Digest(<<>>, p) = Digest(sent, p)
  BY <1>5 DEF SendMetadata, UploadInv, SentWellFormed, Digest
<1>6. ASSUME NEW p \in Payload, SendMetadata(p) \/ SendData(p)
      PROVE  /\ \E q \in Payload : sent' = sent \/ sent' = Append(sent, q)
             /\ \E l \in Lines : wire' = Append(wire, l) /\ Due(l, Written', sent', tstate')
             /\ Written' = Written + 1
  <2>1. CASE SendMetadata(p)
    BY <1>3, <1>5, <2>1 DEF SendMetadata, Kinds
  <2>2. CASE SendData(p)
    <3>1. sent # <<>>
      BY <2>2 DEF SendData, UploadInv, SentWellFormed
    <3> QED
      BY <1>3, <2>2, <3>1 DEF SendData, Kinds
  <2> QED
    BY <1>6, <2>1, <2>2
<1>7. CASE FinishUpload
  BY <1>1, <1>2, <1>4, <1>7 DEF FinishUpload, Finished, Kinds
<1>8. CASE AbortUpload
  BY <1>1, <1>2, <1>4, <1>8 DEF AbortUpload, Finished, Kinds
<1> QED
  BY <1>2, <1>6, <1>7, <1>8 DEF Terminal

LEMMA TerminalUndisturbed ==
    ASSUME UploadInv, UploadInv', Undisturbed, Terminal
    PROVE  Undisturbed'
<1>1. /\ tstate \notin Finished /\ UNCHANGED receiverVars /\ UNCHANGED eof
      /\ Written' = Written + 1
  BY TerminalWrites
<1>2. PICK l \in Lines : wire' = Append(wire, l) /\ Due(l, Written', sent', tstate')
  BY TerminalWrites
<1>3. PICK p \in Payload : sent' = sent \/ sent' = Append(sent, p)
  BY TerminalWrites
<1>4. /\ output' = output /\ pc' = pc /\ prev' = prev
      /\ TypeOK /\ wire \in Seq(Lines) /\ sent \in Seq(Payload)
      /\ Len(output) \in Nat /\ Len(sent) \in Nat /\ Len(wire) \in Nat
  BY <1>1, OutputType DEF receiverVars, output, UploadInv, TypeOK
<1>5. /\ Len(wire') = Len(wire) + 1 /\ wire'[Len(wire) + 1] = l
      /\ \A i \in 1..Len(wire) : wire'[i] = wire[i]
  BY <1>2, <1>4, AppendProperties
<1>6. CASE pc \in {"idle", "meta", "body"}
  <2>1. Len(output) + Len(wire) = Len(sent) /\ Written = Len(sent)
    BY <1>1, <1>4, <1>6 DEF Undisturbed, Written
  <2>2. ASSUME NEW i \in 1..Len(wire')
        PROVE  Due(wire'[i], Len(output) + i, sent', tstate')
    <3>1. CASE i = Len(wire) + 1
      <4>1. Len(output) + i = Written'
        BY <1>1, <1>4, <2>1, <3>1
      <4> QED
        BY <1>2, <1>5, <3>1, <4>1
    <3>2. CASE i # Len(wire) + 1
      <4>1. i \in 1..Len(wire) /\ Len(output) + i \in 1..Len(sent)
        BY <1>4, <1>5, <2>1, <3>2
      <4>2. wire[i] \in Lines /\ wire'[i] = wire[i]
        BY <1>4, <1>5, <4>1
      <4>3. Due(wire[i], Len(output) + i, sent, tstate)
        BY <1>6, <4>1 DEF Undisturbed
      <4>4. /\ Due(wire[i], Len(output) + i, sent, tstate')
            /\ Due(wire[i], Len(output) + i, Append(sent, p), tstate')
        BY <1>4, <4>1, <4>2, <4>3, DueStays
      <4> QED
        BY <1>3, <4>2, <4>4
    <3> QED
      BY <3>1, <3>2
  <2>3. Len(output) + Len(wire') = Written'
    BY <1>1, <1>4, <1>5, <2>1
  <2> QED
    BY <1>1, <1>4, <1>6, <2>2, <2>3 DEF Undisturbed
<1>7. CASE pc \notin {"idle", "meta", "body"}
  <2>1. pc # "false"
    BY <1>1 DEF Undisturbed, Finished
  <2> QED
    BY <1>1, <1>4, <1>7, <2>1 DEF Undisturbed
<1> QED
  BY <1>6, <1>7

\* The line that request_frame reads is the next one due.
LEMMA NextLineDue ==
    ASSUME UploadInv, Undisturbed, Receive, pc \in {"meta", "body"}
    PROVE  /\ line' \in Lines
           /\ Due(line', Len(output) + 1, sent, tstate)
           /\ Len(output) + 1 + Len(wire') = Written
           /\ \A i \in 1..Len(wire') :
                 Due(wire'[i], Len(output) + 1 + i, sent, tstate)
           /\ pc = "meta" => output = <<>> /\ Len(output) = 0
           /\ pc = "body" => Len(output) >= 1 /\ prev = output
           /\ Len(output) < Len(sent) =>
                 line'.hash = Digest(output, line'.data)
           /\ Len(output) = Len(sent) => tstate \in Finished
<1>1. /\ TypeOK /\ Len(wire) \in Nat /\ Len(output) \in Nat /\ Len(sent) \in Nat
      /\ line' \in Lines /\ metadata \in Seq(Payload) /\ fhandle \in Seq(Payload)
  BY OutputType, ReceiveType DEF UploadInv, TypeOK
<1>2. /\ wire # <<>> /\ line' = wire[1]
      /\ Len(wire') = Len(wire) - 1
      /\ \A i \in 1..Len(wire') : wire'[i] = wire[i + 1]
  <2>1. wire # <<>>
    BY DEF Undisturbed, Receive, ReadLine
  <2> QED
    BY <1>1, <2>1, ReceivedLine DEF UploadInv
<1>3. 1 \in 1..Len(wire)
  BY <1>1, <1>2 DEF TypeOK
<1>4. Due(line', Len(output) + 1, sent, tstate) /\ Len(output) + Len(wire) = Written
  BY <1>2, <1>3 DEF Undisturbed
<1>5. ASSUME NEW i \in 1..Len(wire')
      PROVE  Due(wire'[i], Len(output) + 1 + i, sent, tstate)
  <2>1. i + 1 \in 1..Len(wire) /\ Len(output) + (i + 1) = Len(output) + 1 + i
    BY <1>1, <1>2
  <2> QED
    BY <1>2, <2>1 DEF Undisturbed
<1>6. pc = "meta" => output = <<>> /\ Len(output) = 0
  BY DEF UploadInv, ChainInv, output
<1>7. pc = "body" => Len(output) >= 1 /\ prev = output
  <2> SUFFICES ASSUME pc = "body" PROVE Len(output) >= 1 /\ prev = output
    OBVIOUS
  <2>1. Len(metadata) = 1 /\ Len(fhandle) \in Nat
    BY <1>1 DEF UploadInv, ChainInv
  <2>2. Len(output) = Len(metadata) + Len(fhandle)
    BY <1>1 DEF output
  <2> QED
    BY <2>1, <2>2 DEF Undisturbed
<1>8. Len(output) = Len(sent) => tstate \in Finished
  BY <1>1, <1>2, <1>3, <1>4 DEF Written
<1>9. Len(output) < Len(sent) => line'.hash = Digest(output, line'.data)
  BY <1>1, <1>4, DueHash DEF UploadInv
<1> QED
  BY <1>1, <1>2, <1>4, <1>5, <1>6, <1>7, <1>8, <1>9

\* A frame that is going well goes on with its next payload.
LEMMA ReceiverGoesOn ==
    ASSUME UploadInv, Undisturbed, Receive, pc \in {"meta", "body"}, pc' = "body",
           Len(output) < Len(sent), NEW d \in Payload,
           output' = Append(output, d), prev' = Append(output, d)
    PROVE  Undisturbed'
<1>1. /\ output \in Seq(Payload) /\ Len(output) \in Nat /\ Len(wire') \in Nat
      /\ UNCHANGED <<tstate, sent, eof>>
  BY OutputType, ReceiveType DEF UploadInv, TypeOK
<1>2. Len(output') = Len(output) + 1
  BY <1>1, AppendProperties
<1>3. Written' = Written
  BY <1>1 DEF Written
<1> QED
  BY <1>1, <1>2, <1>3, NextLineDue DEF Undisturbed

LEMMA ReceiverUndisturbed ==
    ASSUME UploadInv, Undisturbed, Receiver
    PROVE  Undisturbed'
<1>1. /\ TypeOK /\ Len(output) \in Nat /\ Len(sent) \in Nat
      /\ sent \in Seq(Payload) /\ output \in Seq(Payload)
      /\ Len(output) <= Len(sent)
  BY OutputType, PrefixPointwise DEF UploadInv, TypeOK, OutputIsPrefix
<1>2. CASE RequestFrame
  <2>1. tstate = "idle" /\ sent = <<>>
    BY <1>2 DEF RequestFrame, UploadInv, SentWellFormed
  <2>2. /\ UNCHANGED <<sent, wire, eof, output>> /\ pc' = "meta"
        /\ tstate' = "requested"
    BY <1>2 DEF RequestFrame, lineVars, output
  <2>3. Written = 0 /\ Written' = 0
    BY <2>1, <2>2 DEF Written, Finished
  <2>4. pc = "idle"
    BY <1>2 DEF RequestFrame
  <2>5. Len(wire) \in Nat /\ Len(output) + Len(wire) = 0
    BY <1>1, <2>3, <2>4 DEF Undisturbed, TypeOK
  <2>6. \A i \in 1..Len(wire) : FALSE
    BY <1>1, <2>5
  <2> QED
    BY <2>2, <2>3, <2>5, <2>6 DEF Undisturbed
<1>3. ASSUME Receive, pc = "meta"
      PROVE  /\ ~MetadataRejected(line') /\ Len(output) < Len(sent)
             /\ output = <<>> /\ line'.data \in Payload
  <2>1. /\ Due(line', 1, sent, tstate) /\ output = <<>> /\ Len(output) = 0
        /\ line' \in Lines
    BY <1>3, NextLineDue
  <2>2. Len(sent) # 0
    <3>1. sent = <<>> => Len(output) = Len(sent) /\ tstate \in {"idle", "requested"}
      BY <2>1 DEF UploadInv, SentWellFormed
    <3>2. sent # <<>>
      BY <1>3, <3>1, NextLineDue DEF Finished
    <3> QED
      BY <1>1, <3>2
  <2>3. 1 <= Len(sent) /\ Len(output) < Len(sent)
    BY <1>1, <2>1, <2>2
  <2>4. line'.kind = "M" /\ ~line'.short /\ HashMatches(line', <<>>)
    BY <1>3, <2>1, <2>3, NextLineDue DEF Due, HashMatches
  <2> QED
    BY <2>1, <2>3, <2>4 DEF MetadataRejected, Lines
<1>4. CASE RejectMetadata
  BY <1>3, <1>4 DEF RejectMetadata
<1>5. CASE AcceptMetadata
  <2> DEFINE d == line'.data
  <2>1. /\ Receive /\ pc = "meta" /\ pc' = "body" /\ prev' = Digest(<<>>, d)
        /\ metadata' = <<d>> /\ fhandle' = fhandle
    BY <1>5 DEF AcceptMetadata
  <2>2. Len(output) < Len(sent) /\ output = <<>> /\ d \in Payload
    BY <1>3, <2>1
  <2>3. fhandle = <<>>
    BY <2>1 DEF UploadInv, ChainInv
  <2>4. output' = Append(output, d) /\ prev' = Append(output, d)
    BY <2>1, <2>2, <2>3 DEF output, Digest
  <2> HIDE DEF d
  <2> QED
    BY <2>1, <2>2, <2>4, ReceiverGoesOn
<1>6. ASSUME Receive, pc = "body"
      PROVE  /\ ~line'.short /\ HashMatches(line', prev) /\ Hashed(line')
             /\ line'.kind = "D" => /\ Len(output) < Len(sent)
                                    /\ line'.data \in Payload /\ line'.data # Empty
             /\ line'.kind = "A" => tstate = "aborted"
  <2> DEFINE k == Len(output) + 1
  <2>1. /\ Due(line', k, sent, tstate) /\ line' \in Lines
        /\ Len(output) >= 1 /\ prev = output
    BY <1>6, NextLineDue
  <2>2. CASE k <= Len(sent)
    <3>1. k \in 2..Len(sent) /\ Len(output) < Len(sent)
      BY <1>1, <2>1, <2>2
    <3>2. sent[k] # Empty
      BY <3>1 DEF UploadInv, SentWellFormed
    <3>3. /\ ~line'.short /\ line'.kind = "D" /\ line'.data = sent[k]
      BY <1>1, <2>1, <2>2, <3>1 DEF Due
    <3>4. HashMatches(line', prev)
      BY <1>6, <2>1, <3>1, NextLineDue DEF HashMatches
    <3> QED
      BY <2>1, <3>1, <3>2, <3>3, <3>4 DEF Lines, Hashed
  <2>3. CASE k > Len(sent)
    <3>1. Len(output) = Len(sent)
      BY <1>1, <2>3
    <3>2. output = sent
      BY <1>1, <3>1, PrefixOfSameLength DEF UploadInv, OutputIsPrefix
    <3>3. /\ ~line'.short /\ line'.kind = (IF tstate = "ended" THEN "E" ELSE "A")
          /\ line'.data = Empty /\ line'.hash = Digest(sent, Empty)
      BY <2>1, <2>3 DEF Due
    <3>4. tstate \in Finished
      BY <1>6, <3>1, NextLineDue
    <3> QED
      BY <2>1, <3>2, <3>3, <3>4 DEF HashMatches, Hashed, Finished
  <2> QED
    BY <1>1, <2>2, <2>3
<1>7. CASE RejectShortLine
  BY <1>6, <1>7 DEF RejectShortLine
<1>8. CASE RejectHash
  BY <1>6, <1>8 DEF RejectHash, HashBodyLine
<1>9. CASE EndOfFrame
  BY <1>9 DEF EndOfFrame, HashBodyLine, Receive, Undisturbed
<1>10. CASE UploadAborted
  BY <1>6, <1>10 DEF UploadAborted, HashBodyLine, Receive, Undisturbed
<1>11. CASE WriteData
  <2> DEFINE d == line'.data
  <2>1. /\ Receive /\ pc = "body" /\ pc' = "body" /\ prev' = Digest(prev, d)
        /\ metadata' = metadata
        /\ fhandle' = IF d = Empty THEN fhandle ELSE Append(fhandle, d)
        /\ line'.kind = "D"
    BY <1>11 DEF WriteData, HashBodyLine
  <2>2. Len(output) < Len(sent) /\ d \in Payload /\ d # Empty /\ prev = output
    BY <1>6, <2>1 DEF Undisturbed
  <2>3. metadata \in Seq(Payload) /\ fhandle \in Seq(Payload)
    BY <1>1 DEF TypeOK
  <2> HIDE DEF d
  <2>4. output' = Append(output, d)
    BY <2>1, <2>2, <2>3, ConcatAppend DEF output
  <2>5. prev' = Append(output, d)
    BY <2>1, <2>2 DEF Digest
  <2> QED
    BY <2>1, <2>2, <2>4, <2>5, ReceiverGoesOn
<1>12. CASE SkipUnknownLine
  BY <1>6, <1>12 DEF SkipUnknownLine
<1> QED
  BY <1>2, <1>4, <1>5, <1>7, <1>8, <1>9, <1>10, <1>11, <1>12 DEF Receiver

LEMMA CauseInvariant == Spec => []CauseInv
<1>1. Init => CauseInv
  <2> SUFFICES ASSUME Init PROVE Undisturbed
    BY InitUploadInv DEF CauseInv
  <2>1. output = <<>> /\ wire = <<>> /\ sent = <<>> /\ tstate = "idle"
    BY DEF Init, output
  <2>2. Written = 0
    BY <2>1 DEF Written, Finished
  <2> QED
    BY <2>1, <2>2 DEF Init, Undisturbed
<1>2. CauseInv /\ [Next]_vars => CauseInv'
  <2> SUFFICES ASSUME CauseInv, [Next]_vars PROVE CauseInv'
    OBVIOUS
  <2>1. UploadInv /\ TypeOK /\ (faults = 0 => Undisturbed)
    BY DEF CauseInv, UploadInv
  <2>2. CASE UNCHANGED vars
    <3>1. UploadInv'
      BY <2>1, <2>2 DEF vars, UploadInv, TypeOK, LinesGenuine, SentWellFormed,
                        ChainInv, OutputIsPrefix, output
    <3> QED
      BY <2>1, <2>2, <3>1 DEF vars, CauseInv, Undisturbed, Written, output
  <2>3. CASE TtyLine
    <3>1. faults' # 0
      BY <2>1, <2>3
         DEF TypeOK, TtyLine, LoseLine, GarbleLine, TypeAhead, HangUp, Disturb
    <3> QED
      BY <2>1, <2>3, <3>1, TtyLineUploadInv DEF CauseInv
  <2>4. CASE Terminal
    <3>1. faults' = faults
      BY <2>4 DEF Terminal, SendMetadata, SendData, FinishUpload, AbortUpload
    <3>2. UploadInv'
      BY <2>1, <2>4, TerminalUploadInv
    <3> QED
      BY <2>1, <2>4, <3>1, <3>2, TerminalUndisturbed DEF CauseInv
  <2>5. CASE Receiver
    <3>1. faults' = faults
      BY <2>5 DEF Receiver, RequestFrame, lineVars, RejectMetadata, AcceptMetadata,
         RejectShortLine, RejectHash, EndOfFrame, UploadAborted, WriteData,
         SkipUnknownLine, HashBodyLine, Receive
    <3> QED
      BY <2>1, <2>5, <3>1, ReceiverUploadInv, ReceiverUndisturbed DEF CauseInv
  <2> QED
    BY <2>2, <2>3, <2>4, <2>5 DEF Next
<1> QED
  BY <1>1, <1>2, PTL DEF Spec

\* request_frame refuses a frame (from.c:97-136) only if the terminal aborted it or
\* something happened to the tty: on their own, the two never disagree about what
\* comes next or what it chains to.
THEOREM FailureExplained == Spec => []FailureHasCause
<1>1. CauseInv => FailureHasCause
  BY DEF CauseInv, UploadInv, TypeOK, Undisturbed, FailureHasCause
<1> QED
  BY <1>1, CauseInvariant, PTL

-----------------------------------------------------------------------------
(* The contract of request_frame *)

LEMMA TerminalDelivers ==
    ASSUME SuccessInv, Terminal
    PROVE  [Delivery!Next]_(Delivery!vars)
<1>1. UNCHANGED <<output, pc>>
  BY TerminalWire DEF SuccessInv, receiverVars, output
<1>2. ASSUME NEW p \in Payload, SendMetadata(p) \/ SendData(p)
      PROVE  Delivery!Extend
  <2>1. sent' = Append(sent, p) /\ tstate # "ended" /\ tstate' # "ended"
    <3>1. CASE SendMetadata(p)
      BY <3>1 DEF SuccessInv, UploadInv, SentWellFormed, SendMetadata
    <3>2. CASE SendData(p)
      BY <3>2 DEF SendData
    <3> QED
      BY <1>2, <3>1, <3>2
  <2> QED
    BY <1>1, <2>1 DEF Delivery!Extend
<1>3. CASE FinishUpload
  <2>1. Delivery!Close
    BY <1>1, <1>3 DEF FinishUpload, Delivery!Close
  <2> QED
    BY <2>1 DEF Delivery!Next
<1>4. CASE AbortUpload
  <2>1. sent' = sent /\ tstate # "ended" /\ tstate' # "ended"
    BY <1>4 DEF AbortUpload
  <2>2. (tstate = "ended") = (tstate' = "ended")
    BY <2>1
  <2> QED
    BY <1>1, <2>1, <2>2 DEF Delivery!vars
<1> QED
  BY <1>2, <1>3, <1>4 DEF Terminal, Delivery!Next

LEMMA ReceiverDelivers ==
    ASSUME SuccessInv, SuccessInv', Receiver
    PROVE  [Delivery!Next]_(Delivery!vars)
<1>1. /\ UploadInv /\ TypeOK
      /\ sent \in Seq(Payload) /\ output \in Seq(Payload)
  BY OutputType DEF SuccessInv, UploadInv, TypeOK
<1>2. CASE RequestFrame
  BY <1>2 DEF RequestFrame, lineVars, output, Delivery!vars, SuccessInv,
              UploadInv, SentWellFormed
<1>3. ASSUME Receive, pc \in {"meta", "body"}, pc' = "false",
             UNCHANGED <<metadata, fhandle>>
      PROVE  Delivery!Fail
  BY <1>3 DEF Receive, output, Delivery!Fail
<1>4. CASE RejectMetadata
  BY <1>3, <1>4 DEF RejectMetadata, Delivery!Next
<1>5. ASSUME NEW d \in Payload, Receive, pc \in {"meta", "body"}, pc' = "body",
             output' = Append(output, d), IsPrefix(output', sent)
      PROVE  Delivery!Deliver
  <2>1. Len(output) < Len(sent) /\ sent[Len(output) + 1] = d
    BY <1>1, <1>5, AppendedPrefix
  <2> QED
    BY <1>5, <2>1 DEF Receive, Delivery!Deliver
<1>6. CASE AcceptMetadata
  <2> DEFINE d == line'.data
  <2>1. Receive /\ d \in Payload
    BY <1>1, <1>6, ReceiveType DEF AcceptMetadata, Lines
  <2>2. output = <<>> /\ output' = <<d>> /\ pc = "meta" /\ pc' = "body"
    BY <1>1, <1>6, <2>1 DEF AcceptMetadata, UploadInv, ChainInv, output
  <2>3. output' = Append(output, d)
    BY <2>1, <2>2
  <2>4. IsPrefix(output', sent)
    BY <2>1 DEF Receive, SuccessInv, UploadInv, OutputIsPrefix
  <2> HIDE DEF d
  <2> QED
    BY <1>5, <2>1, <2>2, <2>3, <2>4 DEF Delivery!Next
<1>7. CASE RejectShortLine
  BY <1>3, <1>7 DEF RejectShortLine, Delivery!Next
<1>8. CASE RejectHash \/ UploadAborted
  BY <1>3, <1>8 DEF RejectHash, UploadAborted, HashBodyLine, Delivery!Next
<1>9. CASE EndOfFrame
  <2>1. /\ pc = "body" /\ pc' = "true" /\ UNCHANGED <<sent, tstate, output>>
    BY <1>9 DEF EndOfFrame, HashBodyLine, Receive, output
  <2>2. output = sent /\ tstate = "ended"
    BY <2>1 DEF SuccessInv, SuccessMeansWhole
  <2> QED
    BY <2>1, <2>2 DEF Delivery!Succeed, Delivery!Next
<1>10. CASE WriteData
  <2> DEFINE d == line'.data
  <2>1. /\ Receive /\ d \in Payload /\ pc = "body" /\ pc' = "body"
        /\ metadata' = metadata
        /\ fhandle' = IF d = Empty THEN fhandle ELSE Append(fhandle, d)
    BY <1>1, <1>10, ReceiveType DEF WriteData, HashBodyLine, Lines
  <2>2. CASE d = Empty
    BY <2>1, <2>2 DEF Receive, output, Delivery!vars
  <2>3. CASE d # Empty
    <3>1. output' = Append(output, d)
      BY <1>1, <2>1, <2>3, ConcatAppend DEF output, TypeOK
    <3>2. IsPrefix(output', sent)
      BY <2>1 DEF Receive, SuccessInv, UploadInv, OutputIsPrefix
    <3>3. Receive /\ d \in Payload /\ pc = "body" /\ pc' = "body"
      BY <2>1
    <3> HIDE DEF d
    <3>4. Delivery!Deliver
      BY <1>5, <3>1, <3>2, <3>3
    <3> QED
      BY <3>4 DEF Delivery!Next
  <2> QED
    BY <2>2, <2>3
<1>11. CASE SkipUnknownLine
  BY <1>11 DEF SkipUnknownLine, Receive, output, Delivery!vars
<1> QED
  BY <1>2, <1>4, <1>6, <1>7, <1>8, <1>9, <1>10, <1>11 DEF Receiver

\* The upload of a frame, seen by the caller of request_frame, is a delivery:
\* every step is a step of FrameDelivery or changes nothing it shows.
THEOREM UploadImplementsDelivery ==
    ASSUME "E" \notin GarbledKinds
    PROVE  Spec => DeliverySpec
<1>1. Init => Delivery!Init
  <2> SUFFICES ASSUME Init PROVE Delivery!Init
    OBVIOUS
  <2>1. output = <<>>
    BY DEF Init, output
  <2> QED
    BY <2>1 DEF Init, Delivery!Init
<1>2. SuccessInv /\ SuccessInv' /\ [Next]_vars => [Delivery!Next]_(Delivery!vars)
  <2> SUFFICES ASSUME SuccessInv, SuccessInv', [Next]_vars
               PROVE  [Delivery!Next]_(Delivery!vars)
    OBVIOUS
  <2>1. CASE Terminal
    BY <2>1, TerminalDelivers
  <2>2. CASE TtyLine
    BY <2>2, DisturbedWire
       DEF SuccessInv, UploadInv, terminalVars, receiverVars, output,
           Delivery!vars
  <2>3. CASE Receiver
    BY <2>3, ReceiverDelivers
  <2>4. CASE UNCHANGED vars
    BY <2>4 DEF vars, output, Delivery!vars
  <2> QED
    BY <2>1, <2>2, <2>3, <2>4 DEF Next
<1> QED
  BY <1>1, <1>2, SuccessInvariant, PTL DEF Spec, DeliverySpec, Delivery!Spec
=============================================================================
