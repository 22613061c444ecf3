---------------------------- MODULE ShowCommand ----------------------------
(***************************************************************************)
(* The "show" command (show.c:34-177): the options (Adopt), main's loop    *)
(* over the files and send_mimetype_data, which turns a file into one      *)
(* transfer on stdout: a header, "D:" lines chained by their hashes, an    *)
(* "E:" line and a NUL.                                                    *)
(*                                                                         *)
(* A file is a sequence of bytes, a chunk a part of it, and a SHA-256      *)
(* digest the sequence of the chunks it covers.                            *)
(***************************************************************************)
EXTENDS Naturals, Sequences, FiniteSetsExt, SequencesExt, Adopt, TtyUtils

CONSTANTS
    File,           \* arguments that are paths of files that can be opened
    Contents,       \* what a file may hold: sequences of bytes
    MaxChunkBytes,  \* MAX_CHUNK_BYTES (3072), a multiple of 3
    MaxErrors,      \* bound: failing reads
    Garbage         \* what an uninitialised previous_hash holds

ASSUME ShowAssumption ==
    /\ MaxChunkBytes \in Nat \ {0} /\ MaxChunkBytes % 3 = 0
    /\ MaxErrors \in Nat
    /\ \A c \in Contents : c \in Seq(ToSet(c))

VARIABLES
    content,        \* what is in the files shown
    pc, i, rc,      \* main: control, loop counter, exit code
    pos,            \* bytes of the current file read so far
    feof,           \* its end-of-file indicator
    prev,           \* previous_hash
    is_prev,        \* is_previous_hash
    stdout,         \* what has been written
    errors,         \* number of reads that failed
    tty

fileVars == <<pos, feof, prev, is_prev>>
vars == <<avars, content, pc, i, rc, pos, feof, prev, is_prev, stdout, errors, tty>>

\* sha256 of the previous digest, if there is one, and some bytes.
Digest(previous, data) == Append(previous, data)

TextPlain == Word("text/plain")
\* The metadata of a transfer, from the options o and what is known of a file.
Header(o, path, size) ==
    [type     |-> "header",
     filename |-> IF o.values["filename"] # NULL THEN o.values["filename"] ELSE path,
     mimeType |-> IF "text" \in o.switches THEN TextPlain ELSE o.values["mimetype"],
     charset  |-> o.values["charset"],
     download |-> "download" \in o.switches,
     filesize |-> size]

DLine(data, hash) == [type |-> "D", data |-> data, hash |-> hash]
ELine(hash) == [type |-> "E", hash |-> hash]
NUL == [type |-> "NUL"]

\* filesize -1: the size is left out of the header.
UnknownSize == "none"

\* Without arguments stdin is shown, under no name.
Stdin == NULL
ShownFor(files) == IF files = <<>> THEN <<Stdin>> ELSE files
SizeOf(path) == IF path = Stdin THEN UnknownSize ELSE Len(content[path])

ToShow == ShownFor(Parsed.files)
current == ToShow[i]

Init ==
    /\ OptionsInit
    /\ content = <<>>
    /\ pc = "options" /\ i = 1 /\ rc = 0
    /\ pos = 0 /\ feof = FALSE
    /\ prev = <<Garbage>> /\ is_prev = FALSE
    /\ stdout = <<>>
    /\ errors = 0
    /\ tty = FreshTty(TRUE)

-----------------------------------------------------------------------------
(* main and show_file *)

Exit(code) == pc' = "exiting" /\ rc' = code
Fail == Exit(1)

ParseOptions ==
    /\ pc = "options"
    /\ adopt_parse
    /\ UNCHANGED <<content, pc, i, rc, fileVars, stdout, errors, tty>>

AnswerOptions ==
    /\ pc = "options"
    /\ \/ status \in {"UNKNOWN_OPTION", "MISSING_VALUE"} /\ Fail
       \/ status = "done" /\ switches \cap {"help", "version"} # {} /\ Exit(0)
    /\ UNCHANGED <<avars, content, i, fileVars, stdout, errors, tty>>

OptionsFollowed ==
    pc = "options" /\ status = "done" /\ switches \cap {"help", "version"} = {}

\* is_extraterm
NotExtraterm ==
    /\ OptionsFollowed
    /\ Fail
    /\ UNCHANGED <<avars, content, i, fileVars, stdout, errors, tty>>

\* What the files hold is chosen when it is known which they are.
Start ==
    /\ OptionsFollowed
    /\ content' \in [ToSet(ToShow) \cap (File \cup {Stdin}) -> Contents]
    /\ pc' = "loop"
    /\ UNCHANGED <<avars, i, rc, fileVars, stdout, errors, tty>>

NextFile ==
    /\ pc = "loop"
    /\ \/ i > Len(ToShow) /\ Exit(0)
       \/ i <= Len(ToShow) /\ current \notin DOMAIN content /\ Fail
       \/ i <= Len(ToShow) /\ current \in DOMAIN content /\ pc' = "start" /\ UNCHANGED rc
    /\ UNCHANGED <<avars, content, i, fileVars, stdout, errors, tty>>

RunExitHooks ==
    /\ pc = "exiting"
    /\ pc' = "exited"
    /\ tty' = run_exit_hooks(tty)
    /\ UNCHANGED <<avars, content, i, rc, fileVars, stdout, errors>>

-----------------------------------------------------------------------------
(* send_mimetype_data *)

\* Faulty: is_previous_hash keeps its value from the file before.
StartTransfer_chained ==
    /\ pc = "start"
    /\ tty' = turn_off_echo(tty)
    /\ stdout' = Append(stdout, Header(Parsed, current, SizeOf(current)))
    /\ pos' = 0 /\ feof' = FALSE
    /\ pc' = "read"
    /\ UNCHANGED <<avars, content, i, rc, prev, is_prev, errors>>

\* previous_hash is a fresh array: it holds anything, also what a call before
\* this one left on the stack.
StartTransfer ==
    /\ pc = "start"
    /\ tty' = turn_off_echo(tty)
    /\ stdout' = Append(stdout, Header(Parsed, current, SizeOf(current)))
    /\ pos' = 0 /\ feof' = FALSE
    /\ prev' \in {prev, <<Garbage>>}
    /\ is_prev' = FALSE
    /\ pc' = "read"
    /\ UNCHANGED <<avars, content, i, rc, errors>>

\* One fread: it stops short of MAX_CHUNK_BYTES at the end of the file, or
\* because of an error, of which it tells nothing if it has read something.
Read(n) ==
    /\ pc = "read"
    /\ LET full == Min({MaxChunkBytes, Len(content[current]) - pos}) IN
       \/ /\ n = full
          /\ feof' = (feof \/ n < MaxChunkBytes)
          /\ UNCHANGED errors
       \/ /\ ~feof
          /\ n \in 0..full /\ n < MaxChunkBytes
          /\ errors < MaxErrors /\ errors' = errors + 1
          /\ UNCHANGED feof

SendChunk ==
    \E n \in 1..MaxChunkBytes :
        /\ Read(n)
        /\ LET data == SubSeq(content[current], pos + 1, pos + n)
           IN  /\ prev' = Digest(IF is_prev THEN prev ELSE <<>>, data)
               /\ stdout' = Append(stdout, DLine(data, prev'))
        /\ pos' = pos + n
        /\ is_prev' = TRUE
        /\ UNCHANGED <<avars, content, pc, i, rc, tty>>

\* Faulty: an error is taken for the end of the file.
ReadError_end ==
    /\ Read(0)
    /\ ~feof'
    /\ stdout' = stdout \o <<ELine(Digest(prev, <<>>)), NUL>>
    /\ pc' = "loop"
    /\ i' = i + 1
    /\ UNCHANGED <<avars, content, rc, pos, prev, is_prev, tty>>

\* Faulty: main goes on with the next file.
ReadError_next ==
    /\ Read(0)
    /\ ~feof'
    /\ pc' = "loop"
    /\ i' = i + 1
    /\ UNCHANGED <<avars, content, rc, pos, prev, is_prev, stdout, tty>>

\* No bytes and no end of file: return at once, with the transfer still open.
ReadError ==
    /\ Read(0)
    /\ ~feof'
    /\ Fail
    /\ UNCHANGED <<avars, content, i, pos, prev, is_prev, stdout, tty>>

\* The hash of the "E:" line is computed from previous_hash, set or not.
EndTransfer ==
    /\ Read(0)
    /\ feof'
    /\ prev' = Digest(prev, <<>>)
    /\ stdout' = stdout \o <<ELine(prev'), NUL>>
    /\ pc' = "loop"
    /\ i' = i + 1
    /\ UNCHANGED <<avars, content, rc, pos, is_prev, tty>>

-----------------------------------------------------------------------------
(* Specification *)

Next == \/ ParseOptions \/ AnswerOptions \/ NotExtraterm \/ Start
        \/ NextFile \/ StartTransfer \/ SendChunk \/ ReadError \/ EndTransfer
        \/ RunExitHooks

Spec == Init /\ [][Next]_vars

-----------------------------------------------------------------------------
(* What the terminal makes of the stream *)

\* The transfers the terminal knows of, with a line more.
Take(got, l) ==
    CASE l.type = "header" -> Append(got, [header |-> l, data |-> <<>>, closed |-> FALSE])
      [] l.type = "D"      -> [got EXCEPT ![Len(got)].data = @ \o l.data]
      [] l.type = "E"      -> got
      [] l.type = "NUL"    -> [got EXCEPT ![Len(got)].closed = TRUE]

Received(stream) ==
    LET got[k \in 0..Len(stream)] ==
            IF k = 0 THEN <<>> ELSE Take(got[k - 1], stream[k])
    IN  got[Len(stream)]

\* A file as it ought to be received under the options o.
Whole(o, path) ==
    [header |-> Header(o, path, SizeOf(path)), data |-> content[path], closed |-> TRUE]

\* What a line of the stream may follow.
Before == [header |-> {"nothing", "NUL"}, D |-> {"header", "D"}, E |-> {"header", "D"},
           NUL |-> {"E"}]

-----------------------------------------------------------------------------
(* Properties *)

\* The terminal can check every line as it comes: a "D:" line carries the
\* digest of its data chained to the line before, starting afresh with each
\* transfer, and the "E:" line that of the whole (show.c:58-71, 78-83). Of an
\* empty file the "E:" line says nothing: there is no line to chain it to.
ChainVerifies ==
    \A k \in 2..Len(stdout) :
        LET l == stdout[k]  before == stdout[k - 1] IN
        /\ l.type = "D" =>
              l.hash = Digest(IF before.type = "D" THEN before.hash ELSE <<>>, l.data)
        /\ l.type = "E" /\ before.type = "D" =>
              l.hash = Digest(before.hash, <<>>)

\* Exit code 0: every file the command line names has been sent, in order and
\* under the options it gives, whole and closed, even where a read failed
\* halfway and was tried again (show.c:49-56, 162-176); and nothing else has.
SuccessMeansSent ==
    LET w     == Written(argv)
        files == ShownFor(w.files)
    IN  /\ pc = "exited" /\ rc = 0
        /\ w # Unspecified /\ w.switches \cap {"help", "version"} = {}
        => Received(stdout) = [h \in DOMAIN files |-> Whole(w, files[h])]

\* No transfer begins inside another one, and there are no lines but in one.
\* Only a failed read (show.c:51-54) leaves the terminal in a transfer that the
\* process never closes; a file that cannot be opened does not.
TransfersClosed ==
    /\ \A k \in DOMAIN stdout :
          (IF k = 1 THEN "nothing" ELSE stdout[k - 1].type) \in Before[stdout[k].type]
    /\ pc = "exited" => stdout = <<>> \/ Last(stdout) = NUL \/ errors > 0
=============================================================================
