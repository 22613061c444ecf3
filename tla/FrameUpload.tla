---------------------------- MODULE FrameUpload ----------------------------
(***************************************************************************)
(* The upload of one frame from the terminal to the "from" command:        *)
(* request_frame() (from.c:44-158) reading "#M:", "#D:", "#E:" and "#A:"   *)
(* lines from its tty, the terminal that writes them (modelled from what   *)
(* request_frame accepts) and what may happen to lines in between.         *)
(*                                                                         *)
(* Data is abstracted: a payload is a model value and SHA-256 is a digest  *)
(* without collisions, represented by the sequence of payloads it covers.  *)
(***************************************************************************)
EXTENDS Naturals, Sequences, SequencesExt

CONSTANTS
    Payload,        \* decoded contents of a line
    Empty,          \* the contents of zero length, carried by "#E:" and "#A:"
    GarbledKinds,   \* the prefixes a corrupted line may end up with
    MaxPayloads,    \* bound: payloads of a frame, its metadata included
    MaxFaults       \* bound: disturbances of the tty line

Kinds == {"M", "D", "E", "A", "other"}

ASSUME UploadAssumption ==
    /\ Empty \in Payload
    /\ GarbledKinds \subseteq Kinds
    /\ MaxPayloads \in Nat \ {0}
    /\ MaxFaults \in Nat

VARIABLES
    tstate,     \* the terminal: what it is doing for this request
    sent,       \* metadata and payloads the terminal has sent so far
    wire,       \* lines written to the tty and not yet read
    eof,        \* the tty has been hung up
    faults,     \* number of disturbances so far
    pc,         \* where request_frame is, or what it has returned
    line,       \* char line[LINE_LENGTH]
    prev,       \* unsigned char previous_hash[SHA256_SIZE_BYTES]
    metadata,   \* *metadata: <<>> before the JSON is parsed
    fhandle     \* what has been written to fhandle

terminalVars == <<tstate, sent>>
lineVars == <<wire, eof, faults>>
receiverVars == <<pc, line, prev, metadata, fhandle>>
vars == <<tstate, sent, wire, eof, faults, pc, line, prev, metadata, fhandle>>

-----------------------------------------------------------------------------
(* Lines and their hashes *)

Hash == Seq(Payload)
\* Faulty: previous_hash is left out of the digest.
Digest_unchained(previous, data) == <<data>>

\* The digest of data chained to the previous digest (<<>>: not chained).
Digest(previous, data) == Append(previous, data)

\* A hash field that no digest ever matches: every digest covers something.
BadHash == <<>>

\* short: strlen(line) < COMMAND_PREFIX_LENGTH + 1 + HASH_LENGTH
Lines == [kind : Kinds, short : BOOLEAN, data : Payload, hash : Hash]

Line(kind, data, hash) ==
    [kind |-> kind, short |-> FALSE, data |-> data, hash |-> hash]

\* What a user types ahead, short or long.
TypedLine(short) ==
    [kind |-> "other", short |-> short, data |-> Empty, hash |-> BadHash]

\* line[] is not initialised: the stack holds rubbish, or the last line of the
\* frame uploaded before this one, which ended in "#E:".
UninitialisedLines ==
    {[kind |-> k, short |-> s, data |-> Empty, hash |-> BadHash] :
        k \in {"E", "other"}, s \in BOOLEAN}

\* The lines the body loop takes the hash of.
Hashed(l) == l.kind \in {"D", "E", "A"}

\* strcmp(line_hash, hash_hex) == 0
HashMatches(l, previous) == l.hash = Digest(previous, l.data)

-----------------------------------------------------------------------------
(* State *)

\* Everything the caller has been given.
output == metadata \o fhandle

TypeOK ==
    /\ tstate \in {"idle", "requested", "sending", "ended", "aborted"}
    /\ sent \in Seq(Payload)
    /\ wire \in Seq(Lines)
    /\ eof \in BOOLEAN
    /\ faults \in Nat
    /\ pc \in {"idle", "meta", "body", "true", "false"}
    /\ line \in Lines
    /\ prev \in Hash
    /\ metadata \in Seq(Payload)
    /\ fhandle \in Seq(Payload)

Init ==
    /\ tstate = "idle" /\ sent = <<>>
    /\ wire = <<>> /\ eof = FALSE /\ faults = 0
    /\ pc = "idle"
    /\ line \in UninitialisedLines
    /\ prev = <<>>
    /\ metadata = <<>> /\ fhandle = <<>>

-----------------------------------------------------------------------------
(* The terminal: not part of the repository, known by what it may send *)

\* After a hang-up, or once stdio has seen end of file, nothing gets through.
Write(l) == wire' = IF eof THEN wire ELSE Append(wire, l)

SendMetadata(m) ==
    /\ tstate = "requested"
    /\ tstate' = "sending"
    /\ sent' = <<m>>
    /\ Write(Line("M", m, Digest(<<>>, m)))
    /\ UNCHANGED <<eof, faults, receiverVars>>

SendData(p) ==
    /\ tstate = "sending"
    /\ p # Empty
    /\ Len(sent) < MaxPayloads
    /\ sent' = Append(sent, p)
    /\ Write(Line("D", p, Digest(sent, p)))
    /\ UNCHANGED <<tstate, eof, faults, receiverVars>>

FinishUpload ==
    /\ tstate = "sending"
    /\ tstate' = "ended"
    /\ Write(Line("E", Empty, Digest(sent, Empty)))
    /\ UNCHANGED <<sent, eof, faults, receiverVars>>

AbortUpload ==
    /\ tstate = "sending"
    /\ tstate' = "aborted"
    /\ Write(Line("A", Empty, Digest(sent, Empty)))
    /\ UNCHANGED <<sent, eof, faults, receiverVars>>

Terminal == \/ \E p \in Payload : SendMetadata(p) \/ SendData(p)
            \/ FinishUpload
            \/ AbortUpload

-----------------------------------------------------------------------------
(* The tty line between them *)

Disturb == /\ faults < MaxFaults
           /\ faults' = faults + 1
           /\ UNCHANGED <<terminalVars, receiverVars>>

LoseLine == /\ Disturb
            /\ \E i \in 1..Len(wire) : wire' = RemoveAt(wire, i)
            /\ UNCHANGED eof

\* Characters change: in the contents, in the hash or in the prefix; or the
\* end of the line is cut off.
Garbled(l) == {[l EXCEPT !.data = p] : p \in Payload}
                \cup {[l EXCEPT !.hash = BadHash]}
                \cup {[l EXCEPT !.kind = k] : k \in GarbledKinds}
                \cup {[l EXCEPT !.short = TRUE]}

GarbleLine == /\ Disturb
              /\ \E i \in 1..Len(wire) : \E l \in Garbled(wire[i]) :
                    wire' = [wire EXCEPT ![i] = l]
              /\ UNCHANGED eof

\* Keys pressed meanwhile arrive on the same tty.
TypeAhead == /\ Disturb
             /\ \E short \in BOOLEAN : Write(TypedLine(short))
             /\ UNCHANGED eof

HangUp == /\ Disturb
          /\ ~eof
          /\ eof' = TRUE
          /\ UNCHANGED wire

TtyLine == LoseLine \/ GarbleLine \/ TypeAhead \/ HangUp

-----------------------------------------------------------------------------
(* request_frame *)
\* Faulty: end of file is waited out.
ReadLine_blocking == /\ wire # <<>>
                     /\ line' = Head(wire)
                     /\ wire' = Tail(wire)

\* read_stdin_line: fgets blocks while there is no line; at end of file it
\* leaves the buffer as it is and request_frame ignores the result.
ReadLine == \/ /\ wire # <<>>
               /\ line' = Head(wire)
               /\ wire' = Tail(wire)
            \/ /\ wire = <<>>
               /\ eof
               /\ UNCHANGED <<line, wire>>

Receive == /\ ReadLine
           /\ UNCHANGED <<tstate, sent, eof, faults>>

RequestFrame ==
    /\ pc = "idle"
    /\ pc' = "meta"
    /\ tstate' = "requested"
    /\ UNCHANGED <<sent, lineVars, line, prev, metadata, fhandle>>

\* The metadata line is not one, is too short, or its hash differs.
MetadataRejected(l) ==
    l.kind # "M" \/ l.short \/ ~HashMatches(l, <<>>)

RejectMetadata ==
    /\ pc = "meta"
    /\ Receive
    /\ MetadataRejected(line')
    /\ pc' = "false"
    /\ UNCHANGED <<metadata, fhandle>>
    \* previous_hash is computed before it is compared
    /\ prev' = IF line'.kind = "M" /\ ~line'.short
                 THEN Digest(<<>>, line'.data) ELSE prev

AcceptMetadata ==
    /\ pc = "meta"
    /\ Receive
    /\ ~MetadataRejected(line')
    /\ prev' = Digest(<<>>, line'.data)
    /\ metadata' = <<line'.data>>
    /\ pc' = "body"
    /\ UNCHANGED fhandle

\* One turn of the body loop. A line that is too short ends the upload.
RejectShortLine ==
    /\ pc = "body"
    /\ Receive
    /\ line'.short
    /\ pc' = "false"
    /\ UNCHANGED <<prev, metadata, fhandle>>
\* Faulty: previous_hash stays that of the metadata.
HashBodyLine_frozen ==
    /\ pc = "body"
    /\ Receive
    /\ ~line'.short
    /\ Hashed(line')
    /\ UNCHANGED <<prev, metadata>>

\* previous_hash moves on with every hashed line, before the comparison.
HashBodyLine ==
    /\ pc = "body"
    /\ Receive
    /\ ~line'.short
    /\ Hashed(line')
    /\ prev' = Digest(prev, line'.data)
    /\ UNCHANGED metadata

RejectHash ==
    /\ HashBodyLine
    /\ ~HashMatches(line', prev)
    /\ pc' = "false"
    /\ UNCHANGED fhandle
\* Faulty: the hash of an "#E:" line is not compared.
EndOfFrame_unchecked ==
    /\ HashBodyLine
    /\ line'.kind = "E"
    /\ pc' = "true"
    /\ UNCHANGED fhandle

\* Faulty: the loop is left after any good line.
EndOfFrame_anyLine ==
    /\ HashBodyLine
    /\ HashMatches(line', prev)
    /\ line'.kind # "A"
    /\ pc' = "true"
    /\ UNCHANGED fhandle

EndOfFrame ==
    /\ HashBodyLine
    /\ HashMatches(line', prev)
    /\ line'.kind = "E"
    /\ pc' = "true"
    /\ UNCHANGED fhandle
\* Faulty: the loop goes on after "#A:".
UploadAborted_ignored ==
    /\ HashBodyLine
    /\ HashMatches(line', prev)
    /\ line'.kind = "A"
    /\ UNCHANGED <<pc, fhandle>>

UploadAborted ==
    /\ HashBodyLine
    /\ HashMatches(line', prev)
    /\ line'.kind = "A"
    /\ pc' = "false"
    /\ UNCHANGED fhandle
\* Faulty: data is written without a look at its hash.
WriteData_unchecked ==
    /\ HashBodyLine
    /\ line'.kind = "D"
    /\ fhandle' = IF line'.data = Empty THEN fhandle
                                        ELSE Append(fhandle, line'.data)
    /\ UNCHANGED pc

\* fwrite of no characters writes nothing.
WriteData ==
    /\ HashBodyLine
    /\ HashMatches(line', prev)
    /\ line'.kind = "D"
    /\ fhandle' = IF line'.data = Empty THEN fhandle
                                        ELSE Append(fhandle, line'.data)
    /\ UNCHANGED pc

\* The else branch reports an unexpected line and goes round the loop again.
SkipUnknownLine ==
    /\ pc = "body"
    /\ Receive
    /\ ~line'.short
    /\ ~Hashed(line')
    /\ UNCHANGED <<pc, prev, metadata, fhandle>>

Receiver == \/ RequestFrame
            \/ RejectMetadata \/ AcceptMetadata
            \/ RejectShortLine \/ RejectHash
            \/ EndOfFrame \/ UploadAborted \/ WriteData \/ SkipUnknownLine

-----------------------------------------------------------------------------
(* Specification *)

Next == Terminal \/ TtyLine \/ Receiver

Spec == Init /\ [][Next]_vars

\* The process runs until it blocks in fgets or returns; the terminal
\* eventually completes or aborts what it has begun. Nothing makes a
\* disturbance happen.
Fairness == /\ WF_vars(Receiver)
            /\ WF_vars(\E m \in Payload : SendMetadata(m))
            /\ WF_vars(FinishUpload \/ AbortUpload)

FairSpec == Spec /\ Fairness

-----------------------------------------------------------------------------
(* Properties *)

\* What the caller has been given is always a prefix of what the terminal has
\* sent, in order and unaltered, whatever happened to the line: a body line is
\* written (from.c:150) only after its hash, chained to all earlier lines, has
\* been found right (from.c:120-136).
OutputIsPrefix == IsPrefix(output, sent)

\* request_frame returns true (from.c:157) only for a frame the terminal has
\* completed and of which nothing is missing. The prefix of a line is not
\* hashed, so this needs a line not to turn into an "#E:" line.
SuccessMeansWhole == pc = "true" => /\ tstate = "ended"
                                    /\ output = sent

\* After a success no line of this upload is left in the tty, where the next
\* request_frame, or the shell, would read it.
SuccessLeavesNothingBehind ==
    pc = "true" => \A i \in DOMAIN wire : wire[i].hash = BadHash

\* An upload is refused only for a reason: the terminal aborted it, or the
\* line was disturbed. Neither end disagrees with the other about the chain.
FailureHasCause == pc = "false" => tstate = "aborted" \/ faults > 0

\* An upload nothing disturbs ends as the terminal ended it.
UndisturbedUploadReturns ==
    [](faults = 0) => /\ tstate = "ended" ~> pc = "true"
                      /\ tstate = "aborted" ~> pc = "false"

\* After end of file the buffer still holds the last line. If that is a hashed
\* line it is refused the second time, because the chain has moved on, and
\* request_frame returns. (After any other line the loop never ends.)
StaleLineRefused ==
    (eof /\ wire = <<>> /\ pc = "body" /\ Hashed(line))
        ~> pc \in {"true", "false"}

\* request_frame implements the contract its callers rely on.
Delivery == INSTANCE FrameDelivery
              WITH source <- sent,
                   closed <- tstate = "ended",
                   delivered <- output,
                   outcome <- IF pc \in {"true", "false"} THEN pc
                                                          ELSE "pending"

DeliverySpec == Delivery!Spec
=============================================================================
