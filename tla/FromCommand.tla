---------------------------- MODULE FromCommand ----------------------------
(***************************************************************************)
(* The "from" command (from.c:160-304): main's loop over the frames and    *)
(* write_frame_to_disk, run by several processes at once, each on a tty of *)
(* its own and all in one directory. Every system call on the directory is *)
(* a step. request_frame is taken by its contract (FrameDelivery): true    *)
(* with the whole frame written, or false with any part of it.             *)
(***************************************************************************)
EXTENDS Integers, Sequences, TtyUtils

CONSTANTS
    Process,        \* running "from" commands
    Frame,          \* frames the terminal can upload
    Basename,       \* file names that frame metadata may ask for
    NoName,         \* metadata without "filename" and "mimeType"
    NameOf,         \* the name each frame's metadata asks for
    Commands,       \* command lines: [save : BOOLEAN, frames : Seq(Frame)]
    Present,        \* names of files that exist beforehand
    Unwritable,     \* base names that rename() cannot replace or create
    Oversize,       \* frames that a disk, or what stdout leads to, may be too full for
    Garbage,        \* what an int that is not initialised may hold
    MaxCounter,     \* last counter find_suitable_filename tries (999)
    NoFile          \* no file, no file name

ASSUME FromAssumption ==
    /\ NameOf \in [Frame -> Basename \cup {NoName}]
    /\ NoName \notin Basename
    /\ Commands \subseteq [save : BOOLEAN, frames : Seq(Frame)]
    /\ Present \subseteq Basename \X Nat
    /\ Unwritable \subseteq Basename
    /\ Oversize \subseteq Frame
    /\ Garbage \subseteq Int
    /\ MaxCounter \in Nat

\* "name" is <<name, 0>>, "name(3).ext" is <<name, 3>>.
FinalName == Basename \X (0..MaxCounter)
TempName(p) == <<"extraterm_from_", p>>
Name == FinalName \cup {TempName(p) : p \in Process}

\* A file that was there before, or the one a process writes its i-th frame to.
OldFile == <<"old", 0>>
NewFile(p, i) == <<p, i>>

\* mkstemp makes up a name that no frame asks for.
ASSUME NamesAssumption ==
    /\ "extraterm_from_" \notin Basename
    /\ NoFile \notin Name \cup {OldFile} \cup (Process \X Nat)

VARIABLES
    command,    \* the command line of each process
    proc,       \* each process: control, locals and exit code
    tty,        \* each process: its tty (TtyUtils)
    stdout,     \* each process: the frames written to stdout, whole or cut off
    dir,        \* the directory: a file, or NoFile, for every name
    whole       \* files that hold a whole frame on disk

vars == <<command, proc, tty, stdout, dir, whole>>

\* wrote: frames reported by "Wrote %s"; file: char *filename; got: what
\* request_frame returned; n: next counter of find_suitable_filename.
Fresh == [pc |-> "loop", i |-> 1, got |-> FALSE, file |-> NoFile, n |-> 0,
          wrote |-> <<>>, rc |-> 0]

Init ==
    /\ command \in [Process -> Commands]
    /\ proc = [p \in Process |-> Fresh]
    /\ tty = [p \in Process |-> FreshTty(TRUE)]     \* main insists on a tty
    /\ stdout = [p \in Process |-> <<>>]
    /\ dir = [f \in Name |-> IF f \in Present THEN OldFile ELSE NoFile]
    /\ whole = {OldFile}

-----------------------------------------------------------------------------
(* main *)

At(p, label) == proc[p].pc = label
Goto(p, label) == proc' = [proc EXCEPT ![p].pc = label]
Exit(p, code) == proc' = [proc EXCEPT ![p].pc = "exiting", ![p].rc = code]

frames(p) == command[p].frames
frame_name(p) == frames(p)[proc[p].i]

NextFrame(p) ==
    /\ At(p, "loop")
    /\ IF proc[p].i > Len(frames(p)) THEN Exit(p, 0)
       ELSE IF command[p].save       THEN Goto(p, "mkstemp")
                                     ELSE Goto(p, "output")
    /\ UNCHANGED <<command, tty, stdout, dir, whole>>

\* request_frame in output_frame: turn_off_echo comes first.
RequestOutput(p) ==
    /\ At(p, "output")
    /\ tty' = [tty EXCEPT ![p] = turn_off_echo(@)]
    /\ Goto(p, "outputting")
    /\ UNCHANGED <<command, stdout, dir, whole>>

\* Whether the frame that is written is all there: the results of fwrite
\* (from.c:150) and fclose (216) are not looked at.
Written(p, got) == IF frame_name(p) \in Oversize THEN {got, FALSE} ELSE {got}

\* Faulty: the result of output_frame is not looked at.
OutputFrame_unchecked(p) ==
    /\ At(p, "outputting")
    /\ \E got \in BOOLEAN : \E all \in Written(p, got) :
        stdout' = [stdout EXCEPT ![p] =
                        Append(@, [frame |-> frame_name(p), whole |-> all])]
    /\ proc' = [proc EXCEPT ![p].pc = "loop", ![p].i  = @ + 1]
    /\ UNCHANGED <<command, tty, dir, whole>>

\* Faulty: a failed upload ends the command with exit code 0.
OutputFrame_noCode(p) ==
    /\ At(p, "outputting")
    /\ \E got \in BOOLEAN : \E all \in Written(p, got) :
        /\ stdout' = [stdout EXCEPT ![p] =
                        Append(@, [frame |-> frame_name(p), whole |-> all])]
        /\ proc' = [proc EXCEPT ![p].pc = IF got THEN "loop" ELSE "exiting",
                                ![p].i  = IF got THEN @ + 1 ELSE @]
    /\ UNCHANGED <<command, tty, dir, whole>>

OutputFrame(p) ==
    /\ At(p, "outputting")
    /\ \E got \in BOOLEAN : \E all \in Written(p, got) :
        /\ stdout' = [stdout EXCEPT ![p] =
                        Append(@, [frame |-> frame_name(p), whole |-> all])]
        /\ proc' = [proc EXCEPT ![p].pc = IF got THEN "loop" ELSE "exiting",
                                ![p].i  = IF got THEN @ + 1 ELSE @,
                                ![p].rc = IF got THEN 0 ELSE 1]
    /\ UNCHANGED <<command, tty, dir, whole>>

\* int rc is not initialised and a saved frame does not set it: whatever it
\* holds is compared with 0, and returned if it is not.
ReportSaved(p) ==
    /\ At(p, "report")
    /\ IF proc[p].file # NoFile
         THEN \E rc \in Garbage :
                proc' = [proc EXCEPT ![p].wrote = Append(@, frame_name(p)),
                                     ![p].pc = IF rc = 0 THEN "loop"
                                                         ELSE "exiting",
                                     ![p].i  = IF rc = 0 THEN @ + 1 ELSE @,
                                     ![p].rc = rc]
         ELSE Exit(p, 1)
    /\ UNCHANGED <<command, tty, stdout, dir, whole>>

\* What is left of the code returned from main: its low 8 bits.
exit_status(p) == proc[p].rc % 256

RunExitHooks(p) ==
    /\ At(p, "exiting")
    /\ tty' = [tty EXCEPT ![p] = run_exit_hooks(@)]
    /\ Goto(p, "exited")
    /\ UNCHANGED <<command, stdout, dir, whole>>

\* A signal ends the process where it is, without exit hooks.
Kill(p) ==
    /\ ~At(p, "exited") /\ ~At(p, "killed")
    /\ Goto(p, "killed")
    /\ UNCHANGED <<command, tty, stdout, dir, whole>>

-----------------------------------------------------------------------------
(* write_frame_to_disk *)

file(p) == NewFile(p, proc[p].i)
Base(p) == NameOf[frame_name(p)]

\* mkstemp, then fdopen; each may fail, with filename still NULL.
MakeTemp(p) ==
    /\ At(p, "mkstemp")
    /\ \E made, opened \in BOOLEAN :
        /\ opened => made
        /\ dir' = IF made THEN [dir EXCEPT ![TempName(p)] = file(p)] ELSE dir
        /\ proc' = [proc EXCEPT ![p].pc = IF opened THEN "request" ELSE "cleanup",
                                ![p].file = NoFile,
                                ![p].got = FALSE]
    /\ UNCHANGED <<command, tty, stdout, whole>>
RequestSave(p) ==
    /\ At(p, "request")
    /\ tty' = [tty EXCEPT ![p] = turn_off_echo(@)]
    /\ Goto(p, "saving")
    /\ UNCHANGED <<command, stdout, dir, whole>>

\* Faulty: the result of request_frame is not looked at.
ReceiveFrame_unchecked(p) ==
    /\ At(p, "saving")
    /\ \E got \in BOOLEAN :
        proc' = [proc EXCEPT ![p].got = got,
                             ![p].pc = IF Base(p) # NoName
                                         THEN "access" ELSE "cleanup"]
    /\ UNCHANGED <<command, tty, stdout, dir, whole>>

\* request_frame returns, and the name is taken from the metadata.
ReceiveFrame(p) ==
    /\ At(p, "saving")
    /\ \E got \in BOOLEAN :
        proc' = [proc EXCEPT ![p].got = got,
                             ![p].pc = IF got /\ Base(p) # NoName
                                         THEN "access" ELSE "cleanup"]
    /\ UNCHANGED <<command, tty, stdout, dir, whole>>

\* access(filename, F_OK) == 0: rename right over it; otherwise ask
\* find_suitable_filename for a name.
CheckName(p) ==
    /\ At(p, "access")
    /\ proc' = [proc EXCEPT
                  ![p].pc   = IF dir[<<Base(p), 0>>] # NoFile THEN "rename"
                                                              ELSE "find",
                  ![p].file = <<Base(p), 0>>,
                  ![p].n    = 0]
    /\ UNCHANGED <<command, tty, stdout, dir, whole>>

\* Faulty: the counter is not advanced.
find_suitable_filename_stuck(p) ==
    /\ At(p, "find")
    /\ dir[<<Base(p), 0>>] = NoFile
    /\ proc' = [proc EXCEPT ![p].pc = "rename",
                            ![p].file = <<Base(p), 0>>]
    /\ UNCHANGED <<command, tty, stdout, dir, whole>>

\* One access() of find_suitable_filename: the name itself, then (1), (2), ...
\* NULL when the counters are used up.
find_suitable_filename(p) ==
    /\ At(p, "find")
    /\ LET n == proc[p].n IN
       IF n > MaxCounter
         THEN proc' = [proc EXCEPT ![p].pc = "cleanup", ![p].file = NoFile]
       ELSE IF dir[<<Base(p), n>>] = NoFile
         THEN proc' = [proc EXCEPT ![p].pc = "rename",
                                   ![p].file = <<Base(p), n>>]
         ELSE proc' = [proc EXCEPT ![p].n = n + 1]
    /\ UNCHANGED <<command, tty, stdout, dir, whole>>

\* rename() replaces what is there in one step; its result is not looked at.
Rename(p) ==
    /\ At(p, "rename")
    /\ dir' = IF Base(p) \in Unwritable THEN dir
              ELSE [dir EXCEPT ![proc[p].file] = file(p),
                               ![TempName(p)] = NoFile]
    /\ Goto(p, "cleanup")
    /\ UNCHANGED <<command, tty, stdout, whole>>

\* Faulty: the file is not closed.
CleanUp_open(p) ==
    /\ At(p, "cleanup")
    /\ Goto(p, "unlink")
    /\ UNCHANGED <<command, tty, stdout, dir, whole>>

\* Faulty: after a failed upload the function returns at once.
CleanUp_early(p) ==
    /\ At(p, "cleanup")
    /\ \E all \in Written(p, proc[p].got) :
        whole' = IF all THEN whole \cup {file(p)} ELSE whole
    /\ Goto(p, IF proc[p].got THEN "unlink" ELSE "report")
    /\ UNCHANGED <<command, tty, stdout, dir>>

\* fclose flushes the last of the data, then the temp file is unlinked.
CleanUp(p) ==
    /\ At(p, "cleanup")
    /\ \E all \in Written(p, proc[p].got) :
        whole' = IF all THEN whole \cup {file(p)} ELSE whole
    /\ Goto(p, "unlink")
    /\ UNCHANGED <<command, tty, stdout, dir>>

\* Faulty: the final name is unlinked.
Unlink_final(p) ==
    /\ At(p, "unlink")
    /\ dir' = IF proc[p].file = NoFile THEN dir
              ELSE [dir EXCEPT ![proc[p].file] = NoFile]
    /\ Goto(p, "report")
    /\ UNCHANGED <<command, tty, stdout, whole>>

Unlink(p) ==
    /\ At(p, "unlink")
    /\ dir' = [dir EXCEPT ![TempName(p)] = NoFile]
    /\ Goto(p, "report")
    /\ UNCHANGED <<command, tty, stdout, whole>>

-----------------------------------------------------------------------------
(* Specification *)

\* request_frame returning is here too: see UndisturbedUploadReturns.
Run(p) == \/ NextFrame(p) \/ RequestOutput(p) \/ OutputFrame(p)
          \/ MakeTemp(p) \/ RequestSave(p) \/ ReceiveFrame(p)
          \/ CheckName(p) \/ find_suitable_filename(p) \/ Rename(p)
          \/ CleanUp(p) \/ Unlink(p) \/ ReportSaved(p) \/ RunExitHooks(p)

Next == \E p \in Process : Run(p) \/ Kill(p)

Spec == Init /\ [][Next]_vars

FairSpec == Spec /\ \A p \in Process : WF_vars(Run(p))

-----------------------------------------------------------------------------
(* Properties *)

\* A process that exits, however its frames fared, leaves no temporary file
\* behind (from.c:221); and if it has asked for at most one frame it leaves echo
\* as it found it (tty_utils.c:29).
ExitCleansUp ==
    \A p \in Process : At(p, "exited") =>
        /\ dir[TempName(p)] = NoFile
        /\ proc[p].i = 1 \/ Len(frames(p)) = 1 => tty[p].echo

\* What stands under a final name was there before or is a frame received
\* whole; and it is all on disk unless its writer has yet to close it, was
\* killed before it could (rename, from.c:206, comes before fclose, 216), or
\* the disk was too full for it.
PublishedIsWhole ==
    \A f \in FinalName : \A p \in Process :
        \A i \in 1..Len(frames(p)) :
            dir[f] = NewFile(p, i) =>
                \/ NewFile(p, i) \in whole
                \/ proc[p].i = i /\ proc[p].got /\ proc[p].pc \in {"cleanup", "killed"}
                \/ frames(p)[i] \in Oversize

\* Exit status 0 means that every frame asked for was uploaded whole, and with
\* --save that no frame it came to has failed: a file name was reported for each
\* frame, in order, up to the last, or up to the i-th, behind which an rc never
\* set (from.c:280) has ended the command by holding a multiple of 256. Whether
\* there was room for a frame the exit status does not tell.
SuccessMeansAll ==
    \A p \in Process : At(p, "exited") /\ exit_status(p) = 0 =>
        IF command[p].save
          THEN \/ proc[p].wrote = frames(p)
               \/ /\ proc[p].rc # 0
                  /\ proc[p].wrote = SubSeq(frames(p), 1, proc[p].i)
          ELSE /\ Len(stdout[p]) = Len(frames(p))
               /\ \A i \in 1..Len(frames(p)) :
                    /\ stdout[p][i].frame = frames(p)[i]
                    /\ stdout[p][i].whole \/ frames(p)[i] \in Oversize

\* Output comes in the order of the command line, and after a frame that was
\* cut off there is no other (from.c:298), unless it is full stdout that cut it.
OutputInOrder ==
    \A p \in Process : \A i \in 1..Len(stdout[p]) :
        /\ stdout[p][i].frame = frames(p)[i]
        /\ \/ stdout[p][i].whole \/ i = Len(stdout[p])
           \/ frames(p)[i] \in Oversize

\* Echo is restored at exit (tty_utils.c:29), however many frames there were.
EchoRestored == \A p \in Process : At(p, "exited") => tty[p].echo

\* A file name never goes missing: saving replaces a file in one step or makes
\* a new one, and cleaning up removes nothing but the temporary file.
FilesStay == [][\A f \in FinalName : dir[f] # NoFile => dir'[f] # NoFile]_vars

\* Saving finds a name that is free (utils_test.c:68-73); files there before
\* stay what they were.
ExistingFileKept ==
    [][\A f \in FinalName : dir[f] = OldFile => dir'[f] = OldFile]_vars

\* "Wrote f" (from.c:286) is said of a frame that is whole on disk, under the
\* name f unless a process that saves under the same name has replaced it
\* since. Where rename() fails or the disk is too full it is said all the same.
WroteMeansSaved ==
    \A p \in Process : At(p, "report") /\ proc[p].file # NoFile =>
        /\ file(p) \in whole \/ frame_name(p) \in Oversize
        /\ \/ dir[proc[p].file] = file(p)
           \/ \E q \in Process \ {p} : \E j \in 1..Len(frames(q)) :
                 /\ NameOf[frames(q)[j]] = Base(p)
                 /\ dir[proc[p].file] = NewFile(q, j)
           \/ Base(p) \in Unwritable

\* Unless the upload hangs or the process is killed, every command ends.
EveryCommandEnds ==
    \A p \in Process : <>(At(p, "exited") \/ At(p, "killed"))

=============================================================================
