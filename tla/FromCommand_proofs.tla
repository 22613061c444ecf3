------------------------- MODULE FromCommand_proofs -------------------------
(***************************************************************************)
(* Theorems about FromCommand, for any number of processes, command lines, *)
(* frames and file names.                                                  *)
(***************************************************************************)
EXTENDS FromCommand, SequenceTheorems, TLAPS

-----------------------------------------------------------------------------
(* Type correctness, and what a process knows where it is *)

Saving == {"mkstemp", "request", "saving", "access", "find", "rename",
           "cleanup", "unlink", "report"}
Outputting == {"output", "outputting"}
Ended == {"exiting", "exited", "killed"}
Labels == {"loop"} \cup Saving \cup Outputting \cup Ended

\* What main may return.
Code == {0, 1} \cup Garbage

ProcType == [pc : Labels, i : Nat \ {0}, got : BOOLEAN,
             file : FinalName \cup {NoFile}, n : Nat, wrote : Seq(Frame),
             rc : Code]
Output == [frame : Frame, whole : BOOLEAN]
File == {OldFile} \cup (Process \X Nat)

TypeInv ==
    /\ command \in [Process -> Commands]
    /\ proc \in [Process -> ProcType]
    /\ tty \in [Process -> Tty]
    /\ stdout \in [Process -> Seq(Output)]
    /\ dir \in [Name -> File \cup {NoFile}]
    /\ whole \subseteq File

\* There is a frame wherever one is being fetched, and --save decides how.
Position(p) ==
    /\ proc[p].i <= Len(frames(p)) + 1
    /\ proc[p].pc \in Saving \cup Outputting => proc[p].i <= Len(frames(p))
    /\ proc[p].pc \in Saving => command[p].save
    /\ proc[p].pc \in Outputting => ~command[p].save

\* A process that has a file name has the whole frame, and the name is the one
\* that the frame asks for, numbered or not.
Naming(p) ==
    /\ proc[p].pc \in {"access", "find", "rename"} =>
          proc[p].got /\ Base(p) \in Basename
    /\ proc[p].pc \in {"request", "saving", "access"} => proc[p].file = NoFile
    /\ proc[p].pc = "rename" => proc[p].file # NoFile
    /\ proc[p].pc \in Saving \ {"mkstemp"} /\ proc[p].file # NoFile =>
          /\ proc[p].got /\ Base(p) \in Basename
          /\ \E n \in 0..MaxCounter : proc[p].file = <<Base(p), n>>

ControlInv == TypeInv /\ \A p \in Process : Position(p) /\ Naming(p)

LEMMA FrameType ==
  ASSUME TypeInv, NEW p \in Process
  PROVE  /\ command[p].save \in BOOLEAN
         /\ frames(p) \in Seq(Frame)
         /\ Len(frames(p)) \in Nat
         /\ \A k \in 1..Len(frames(p)) :
               /\ frames(p)[k] \in Frame
               /\ NameOf[frames(p)[k]] \in Basename \cup {NoName}
<1>1. command[p] \in [save : BOOLEAN, frames : Seq(Frame)]
  BY FromAssumption DEF TypeInv
<1>2. frames(p) \in Seq(Frame) /\ command[p].save \in BOOLEAN
  BY <1>1 DEF frames
<1>3. \A k \in 1..Len(frames(p)) : frames(p)[k] \in Frame
  BY <1>2
<1> QED
  BY <1>2, <1>3, FromAssumption

\* Temporary names are of no use as final names, nor to another process.
LEMMA NamesApart ==
  ASSUME NEW p \in Process
  PROVE  /\ TempName(p) \in Name
         /\ TempName(p) \notin FinalName
         /\ FinalName \subseteq Name
         /\ \A q \in Process : TempName(q) = TempName(p) => q = p
BY NamesAssumption DEF TempName, FinalName, Name

LEMMA NoFileApart ==
  /\ NoFile \notin FinalName
  /\ NoFile \notin File
  /\ \A p \in Process, i \in Nat :
        NewFile(p, i) \in File /\ (i > 0 => NewFile(p, i) # OldFile)
  /\ \A p, q \in Process : \A i, j \in Nat :
        NewFile(p, i) = NewFile(q, j) => p = q /\ i = j
BY NamesAssumption DEF NewFile, OldFile, File, FinalName, Name

LEMMA InitControl == Init => ControlInv
<1> SUFFICES ASSUME Init PROVE ControlInv
  OBVIOUS
<1>1. Fresh \in ProcType
  BY DEF Fresh, ProcType, Code, Labels, Saving, Outputting, Ended
<1>2. FreshTty(TRUE) \in Tty
  BY DEF FreshTty, Tty
<1>3. TypeInv
  <2>1. proc \in [Process -> ProcType] /\ tty \in [Process -> Tty]
    BY <1>1, <1>2 DEF Init
  <2>2. <<>> \in Seq(Output)
    OBVIOUS
  <2>3. stdout \in [Process -> Seq(Output)]
    BY <2>2 DEF Init
  <2>4. dir \in [Name -> File \cup {NoFile}] /\ whole \subseteq File
    BY DEF Init, File
  <2> QED
    BY <2>1, <2>3, <2>4 DEF Init, TypeInv
<1>4. ASSUME NEW p \in Process PROVE Position(p) /\ Naming(p)
  <2>1. proc[p] = Fresh
    BY DEF Init
  <2>2. Len(frames(p)) \in Nat
    BY <1>3, FrameType
  <2> QED
    BY <2>1, <2>2 DEF Position, Naming, Fresh, Saving, Outputting
<1> QED
  BY <1>3, <1>4 DEF ControlInv

-----------------------------------------------------------------------------
(* One step of one process *)

\* A process leaves the locals, the tty and the stdout of every other one alone.
LEMMA StepIsLocal ==
  ASSUME TypeInv, NEW p \in Process, Run(p) \/ Kill(p)
  PROVE  /\ UNCHANGED command
         /\ whole \subseteq whole'
         /\ \A q \in Process \ {p} :
               proc'[q] = proc[q] /\ tty'[q] = tty[q] /\ stdout'[q] = stdout[q]
<1>1. /\ proc \in [Process -> ProcType]
      /\ tty \in [Process -> Tty]
      /\ stdout \in [Process -> Seq(Output)]
  BY DEF TypeInv
<1>2. CASE Kill(p)
  BY <1>1, <1>2 DEF Kill, Goto
<1>3. CASE NextFrame(p)
  BY <1>1, <1>3 DEF NextFrame, Goto, Exit
<1>4. CASE RequestOutput(p)
  BY <1>1, <1>4 DEF RequestOutput, Goto
<1>5. CASE OutputFrame(p)
  BY <1>1, <1>5 DEF OutputFrame
<1>6. CASE MakeTemp(p)
  BY <1>1, <1>6 DEF MakeTemp
<1>7. CASE RequestSave(p)
  BY <1>1, <1>7 DEF RequestSave, Goto
<1>8. CASE ReceiveFrame(p)
  BY <1>1, <1>8 DEF ReceiveFrame
<1>9. CASE CheckName(p)
  BY <1>1, <1>9 DEF CheckName
<1>10. CASE find_suitable_filename(p)
  BY <1>1, <1>10 DEF find_suitable_filename
<1>11. CASE Rename(p)
  BY <1>1, <1>11 DEF Rename, Goto
<1>12. CASE CleanUp(p)
  BY <1>1, <1>12 DEF CleanUp, Goto
<1>13. CASE Unlink(p)
  BY <1>1, <1>13 DEF Unlink, Goto
<1>14. CASE ReportSaved(p)
  BY <1>1, <1>14 DEF ReportSaved, Exit
<1>15. CASE RunExitHooks(p)
  BY <1>1, <1>15 DEF RunExitHooks, Goto
<1> QED
  BY <1>2, <1>3, <1>4, <1>5, <1>6, <1>7, <1>8, <1>9, <1>10, <1>11, <1>12, <1>13,
     <1>14, <1>15 DEF Run

\* What stays for q when p takes a step, as far as control goes.
LEMMA OthersKeepControl ==
  ASSUME ControlInv, NEW p \in Process, NEW q \in Process \ {p}, Run(p) \/ Kill(p)
  PROVE  (Position(q) /\ Naming(q))'
<1>1. command' = command /\ proc'[q] = proc[q]
  BY StepIsLocal DEF ControlInv
<1>2. Position(q) /\ Naming(q)
  BY DEF ControlInv
<1> QED
  BY <1>1, <1>2 DEF Position, Naming, frames, Base, frame_name

\* The fields of a process's record may be replaced one by one.
LEMMA ProcCounts ==
  ASSUME NEW r \in ProcType, NEW pc \in Labels, NEW i \in Nat \ {0}, NEW rc \in Code
  PROVE  [r EXCEPT !.pc = pc, !.i = i, !.rc = rc] \in ProcType
BY DEF ProcType

LEMMA ProcOpens ==
  ASSUME NEW r \in ProcType, NEW pc \in Labels,
         NEW f \in FinalName \cup {NoFile}, NEW got \in BOOLEAN
  PROVE  [r EXCEPT !.pc = pc, !.file = f, !.got = got] \in ProcType
BY DEF ProcType

LEMMA ProcGets ==
  ASSUME NEW r \in ProcType, NEW got \in BOOLEAN, NEW pc \in Labels
  PROVE  [r EXCEPT !.got = got, !.pc = pc] \in ProcType
BY DEF ProcType

LEMMA ProcNames ==
  ASSUME NEW r \in ProcType, NEW pc \in Labels, NEW f \in FinalName \cup {NoFile}
  PROVE  [r EXCEPT !.pc = pc, !.file = f] \in ProcType
BY DEF ProcType

LEMMA ProcTries ==
  ASSUME NEW r \in ProcType, NEW n \in Nat
  PROVE  [r EXCEPT !.n = n] \in ProcType
BY DEF ProcType

LEMMA ProcWrites ==
  ASSUME NEW r \in ProcType, NEW w \in Seq(Frame), NEW pc \in Labels,
         NEW i \in Nat \ {0}, NEW rc \in Code
  PROVE  [r EXCEPT !.wrote = w, !.pc = pc, !.i = i, !.rc = rc] \in ProcType
BY DEF ProcType

LEMMA TtyUpdate ==
  ASSUME NEW t \in Tty, NEW old \in BOOLEAN, NEW echo \in BOOLEAN, NEW hooks \in Nat
  PROVE  /\ [t EXCEPT !.old = old, !.echo = echo, !.hooks = hooks] \in Tty
         /\ [t EXCEPT !.echo = echo, !.hooks = hooks] \in Tty
BY DEF Tty

LEMMA StepTypes ==
  ASSUME ControlInv, NEW p \in Process, Run(p) \/ Kill(p)
  PROVE  TypeInv'
<1> USE DEF At
<1>1. /\ command \in [Process -> Commands]
      /\ proc \in [Process -> ProcType]
      /\ tty \in [Process -> Tty]
      /\ stdout \in [Process -> Seq(Output)]
      /\ dir \in [Name -> File \cup {NoFile}]
      /\ whole \subseteq File
  BY DEF ControlInv, TypeInv
<1>2. /\ proc[p] \in ProcType /\ proc[p].pc \in Labels /\ proc[p].i \in Nat \ {0} /\ proc[p].n \in Nat
      /\ proc[p].file \in FinalName \cup {NoFile} /\ proc[p].wrote \in Seq(Frame)
      /\ proc[p].got \in BOOLEAN
      /\ tty[p] \in Tty /\ stdout[p] \in Seq(Output)
  BY <1>1 DEF ProcType
<1>3. Position(p) /\ Naming(p)
  BY DEF ControlInv
<1>4. proc[p].pc \in Saving \cup Outputting => frame_name(p) \in Frame
  BY <1>2, <1>3, FrameType DEF Position, ControlInv, frame_name
<1>5. file(p) \in File
  BY <1>2 DEF file, NewFile, File
<1>6. \A label \in Labels : [proc[p] EXCEPT !.pc = label] \in ProcType
  BY <1>1 DEF ProcType
<1>7. \A label \in Labels, code \in {0, 1} :
         [proc[p] EXCEPT !.pc = label, !.rc = code] \in ProcType
  BY <1>1 DEF ProcType, Code
<1> DEFINE Same == UNCHANGED <<command, tty, stdout, dir, whole>>
<1>8. ASSUME NEW r \in ProcType, proc' = [proc EXCEPT ![p] = r]
      PROVE  proc' \in [Process -> ProcType]
  BY <1>1, <1>8
<1>9. \A label \in Labels : Goto(p, label) => proc' \in [Process -> ProcType]
  BY <1>1, <1>6 DEF Goto
<1>10. \A code \in {0, 1} : Exit(p, code) => proc' \in [Process -> ProcType]
  <2>1. "exiting" \in Labels
    BY DEF Labels, Ended
  <2> QED
    BY <1>1, <1>7, <2>1 DEF Exit
<1>11. turn_off_echo(tty[p]) \in Tty /\ run_exit_hooks(tty[p]) \in Tty
  <2>1. tty[p].echo \in BOOLEAN /\ tty[p].old \in BOOLEAN /\ tty[p].hooks \in Nat
    BY <1>2 DEF Tty
  <2>2. [tty[p] EXCEPT !.old = tty[p].echo, !.echo = FALSE, !.hooks = @ + 1] \in Tty
    <3>1. PICK old \in BOOLEAN, hooks \in Nat :
            old = tty[p].echo /\ hooks = tty[p].hooks + 1
      BY <2>1
    <3> QED
      BY <1>2, <3>1, TtyUpdate
  <2>3. [tty[p] EXCEPT !.echo = tty[p].old, !.hooks = 0] \in Tty
    BY <1>2, <2>1, TtyUpdate
  <2> QED
    BY <1>2, <2>2, <2>3 DEF turn_off_echo, run_exit_hooks
<1> DEFINE Typed == proc' \in [Process -> ProcType]
<1>12. {"loop", "mkstemp", "output", "outputting", "request", "saving", "access",
        "find", "rename", "cleanup", "unlink", "report", "exiting", "exited",
        "killed"} \subseteq Labels
  BY DEF Labels, Saving, Outputting, Ended
<1>20. CASE Kill(p)
  BY <1>1, <1>20, <1>9, <1>12 DEF Kill, TypeInv
<1>21. CASE NextFrame(p)
  BY <1>1, <1>21, <1>9, <1>12, <1>10 DEF NextFrame, TypeInv
<1>22. CASE RequestOutput(p)
  BY <1>1, <1>22, <1>9, <1>12, <1>11 DEF RequestOutput, TypeInv
<1>23. CASE OutputFrame(p)
  <2>1. PICK got \in BOOLEAN : \E all \in Written(p, got) :
          /\ stdout' = [stdout EXCEPT ![p] =
                          Append(@, [frame |-> frame_name(p), whole |-> all])]
          /\ proc' = [proc EXCEPT ![p].pc = IF got THEN "loop" ELSE "exiting",
                                  ![p].i  = IF got THEN @ + 1 ELSE @,
                                  ![p].rc = IF got THEN 0 ELSE 1]
    BY <1>23 DEF OutputFrame
  <2> PICK all \in Written(p, got) :
          /\ stdout' = [stdout EXCEPT ![p] =
                          Append(@, [frame |-> frame_name(p), whole |-> all])]
          /\ proc' = [proc EXCEPT ![p].pc = IF got THEN "loop" ELSE "exiting",
                                  ![p].i  = IF got THEN @ + 1 ELSE @,
                                  ![p].rc = IF got THEN 0 ELSE 1]
    BY <2>1
  <2>2. [frame |-> frame_name(p), whole |-> all] \in Output
    <3>1. all \in BOOLEAN
      BY <2>1 DEF Written
    <3> QED
      BY <3>1, <1>4, <1>23 DEF Output, OutputFrame, Outputting
  <2>3. stdout' \in [Process -> Seq(Output)]
    BY <1>1, <1>2, <2>1, <2>2
  <2>4. [proc[p] EXCEPT !.pc = IF got THEN "loop" ELSE "exiting",
                        !.i  = IF got THEN @ + 1 ELSE @,
                        !.rc = IF got THEN 0 ELSE 1] \in ProcType
    <3>1. PICK label \in Labels : label = IF got THEN "loop" ELSE "exiting"
      BY <1>12
    <3>2. PICK i \in Nat \ {0} : i = IF got THEN proc[p].i + 1 ELSE proc[p].i
      BY <1>2
    <3>3. PICK code \in Code : code = IF got THEN 0 ELSE 1
      BY DEF Code
    <3>4. [proc[p] EXCEPT !.pc = label, !.i = i, !.rc = code] \in ProcType
      BY <1>2, ProcCounts
    <3> QED
      BY <3>1, <3>2, <3>3, <3>4, Zenon
  <2>5. proc' \in [Process -> ProcType]
    BY <1>1, <2>1, <2>4
  <2> QED
    BY <1>1, <1>23, <2>3, <2>5 DEF OutputFrame, TypeInv
<1>24. CASE MakeTemp(p)
  <2>1. PICK made \in BOOLEAN, opened \in BOOLEAN :
          /\ dir' = IF made THEN [dir EXCEPT ![TempName(p)] = file(p)] ELSE dir
          /\ proc' = [proc EXCEPT
                        ![p].pc = IF opened THEN "request" ELSE "cleanup",
                        ![p].file = NoFile,
                        ![p].got = FALSE]
    BY <1>24 DEF MakeTemp
  <2>2. dir' \in [Name -> File \cup {NoFile}]
    BY <1>1, <1>5, <2>1
  <2>3. [proc[p] EXCEPT !.pc = IF opened THEN "request" ELSE "cleanup",
                        !.file = NoFile, !.got = FALSE] \in ProcType
    <3>1. PICK label \in Labels : label = IF opened THEN "request" ELSE "cleanup"
      BY <1>12
    <3>2. PICK got \in BOOLEAN, f \in FinalName \cup {NoFile} : got = FALSE /\ f = NoFile
      OBVIOUS
    <3>3. [proc[p] EXCEPT !.pc = label, !.file = f, !.got = got] \in ProcType
      BY <1>2, ProcOpens
    <3> QED
      BY <3>1, <3>2, <3>3, Zenon
  <2>4. proc' \in [Process -> ProcType]
    BY <1>1, <2>1, <2>3
  <2> QED
    BY <1>1, <1>24, <2>2, <2>4 DEF MakeTemp, TypeInv
<1>25. CASE RequestSave(p)
  BY <1>1, <1>25, <1>9, <1>12, <1>11 DEF RequestSave, TypeInv
<1>26. CASE ReceiveFrame(p)
  <2>1. ASSUME NEW got \in BOOLEAN
        PROVE  [proc[p] EXCEPT !.got = got,
                               !.pc = IF got /\ Base(p) # NoName
                                        THEN "access" ELSE "cleanup"] \in ProcType
    <3>1. PICK label \in Labels :
            label = IF got /\ Base(p) # NoName THEN "access" ELSE "cleanup"
      BY <1>12
    <3>2. [proc[p] EXCEPT !.got = got, !.pc = label] \in ProcType
      BY <1>2, ProcGets
    <3> QED
      BY <3>1, <3>2, Zenon
  <2> QED
    BY <1>1, <1>26, <2>1 DEF ReceiveFrame, TypeInv
<1>27. CASE CheckName(p)
  <2>1. <<Base(p), 0>> \in FinalName
    BY <1>3, <1>27, FromAssumption DEF CheckName, Naming, FinalName
  <2>2. ASSUME NEW label \in {"rename", "find"}
        PROVE  [proc[p] EXCEPT !.pc = label, !.file = <<Base(p), 0>>, !.n = 0]
                 \in ProcType
    <3>1. label \in Labels
      BY <1>12
    <3>2. \A f \in FinalName \cup {NoFile} :
             [proc[p] EXCEPT !.pc = label, !.file = f, !.n = 0] \in ProcType
      BY <1>2, <3>1 DEF ProcType
    <3> QED
      BY <2>1, <3>2
  <2> QED
    BY <1>1, <1>27, <2>2 DEF CheckName, TypeInv
<1>28. CASE find_suitable_filename(p)
  <2>1. proc[p].n <= MaxCounter => <<Base(p), proc[p].n>> \in FinalName
    BY <1>2, <1>3, <1>28, FromAssumption DEF find_suitable_filename, Naming, FinalName
  <2>2. [proc[p] EXCEPT !.pc = "cleanup", !.file = NoFile] \in ProcType
    BY <1>2, <1>12, ProcNames
  <2>3. proc[p].n <= MaxCounter =>
          /\ [proc[p] EXCEPT !.pc = "rename", !.file = <<Base(p), proc[p].n>>]
               \in ProcType
          /\ [proc[p] EXCEPT !.n = proc[p].n + 1] \in ProcType
    <3>1. PICK n \in Nat : n = proc[p].n + 1
      BY <1>2
    <3>2. [proc[p] EXCEPT !.n = proc[p].n + 1] \in ProcType
      <4>1. [proc[p] EXCEPT !.n = n] \in ProcType
        BY <1>2, ProcTries
      <4> QED
        BY <3>1, <4>1, Zenon
    <3>3. ASSUME proc[p].n <= MaxCounter
          PROVE  [proc[p] EXCEPT !.pc = "rename", !.file = <<Base(p), proc[p].n>>]
                   \in ProcType
      <4>1. PICK f \in FinalName \cup {NoFile} : f = <<Base(p), proc[p].n>>
        BY <2>1, <3>3
      <4>2. [proc[p] EXCEPT !.pc = "rename", !.file = f] \in ProcType
        BY <1>2, <1>12, ProcNames
      <4> QED
        BY <4>1, <4>2, Zenon
    <3> QED
      BY <3>2, <3>3
  <2>4. proc[p].n > MaxCounter \/ proc[p].n <= MaxCounter
    BY <1>2, FromAssumption
  <2> QED
    BY <1>1, <1>28, <2>2, <2>3, <2>4, FromAssumption DEF find_suitable_filename, TypeInv
<1>29. CASE Rename(p)
  <2>1. proc' \in [Process -> ProcType]
    BY <1>9, <1>12, <1>29 DEF Rename
  <2>2. dir' \in [Name -> File \cup {NoFile}]
    BY <1>1, <1>5, <1>29 DEF Rename
  <2> QED
    BY <1>1, <1>29, <2>1, <2>2 DEF Rename, TypeInv
<1>30. CASE CleanUp(p)
  BY <1>1, <1>5, <1>9, <1>12, <1>30 DEF CleanUp, TypeInv
<1>31. CASE Unlink(p)
  BY <1>1, <1>9, <1>12, <1>31 DEF Unlink, TypeInv
<1>32. CASE ReportSaved(p)
  <2>1. CASE proc[p].file = NoFile
    BY <1>1, <1>10, <1>32, <2>1 DEF ReportSaved, TypeInv
  <2>2. CASE proc[p].file # NoFile
    <3>1. PICK rc \in Garbage :
            proc' = [proc EXCEPT ![p].wrote = Append(@, frame_name(p)),
                                 ![p].pc = IF rc = 0 THEN "loop" ELSE "exiting",
                                 ![p].i  = IF rc = 0 THEN @ + 1 ELSE @,
                                 ![p].rc = rc]
      BY <1>32, <2>2 DEF ReportSaved
    <3>2. Append(proc[p].wrote, frame_name(p)) \in Seq(Frame)
      <4>1. proc[p].pc = "report"
        BY <1>32 DEF ReportSaved
      <4> QED
        BY <1>2, <1>4, <4>1 DEF Saving
    <3>3. [proc[p] EXCEPT !.wrote = Append(@, frame_name(p)),
                          !.pc = IF rc = 0 THEN "loop" ELSE "exiting",
                          !.i  = IF rc = 0 THEN @ + 1 ELSE @,
                          !.rc = rc] \in ProcType
      <4>1. PICK label \in Labels : label = IF rc = 0 THEN "loop" ELSE "exiting"
        BY <1>12
      <4>2. PICK i \in Nat \ {0} : i = IF rc = 0 THEN proc[p].i + 1 ELSE proc[p].i
        BY <1>2
      <4>3. PICK wrote \in Seq(Frame) : wrote = Append(proc[p].wrote, frame_name(p))
        BY <3>2
      <4>4. [proc[p] EXCEPT !.wrote = wrote, !.pc = label, !.i = i, !.rc = rc] \in ProcType
        BY <1>2, ProcWrites DEF Code
      <4> QED
        BY <4>1, <4>2, <4>3, <4>4, Zenon
    <3>4. proc' \in [Process -> ProcType]
      BY <1>1, <3>1, <3>3
    <3> QED
      BY <1>1, <1>32, <3>4 DEF ReportSaved, TypeInv
  <2> QED
    BY <2>1, <2>2
<1>33. CASE RunExitHooks(p)
  BY <1>1, <1>9, <1>12, <1>11, <1>33 DEF RunExitHooks, TypeInv
<1> QED
  BY <1>20, <1>21, <1>22, <1>23, <1>24, <1>25, <1>26, <1>27, <1>28, <1>29, <1>30,
     <1>31, <1>32, <1>33 DEF Run

\* What p's own step makes of its record, action by action.
LEMMA StepControl ==
  ASSUME ControlInv, NEW p \in Process, Run(p) \/ Kill(p)
  PROVE  (Position(p) /\ Naming(p))'
<1>1. /\ proc \in [Process -> ProcType]
      /\ proc[p] \in ProcType
      /\ proc[p].i \in Nat \ {0} /\ proc[p].n \in Nat /\ proc[p].got \in BOOLEAN
      /\ proc[p].file \in FinalName \cup {NoFile}
  BY DEF ControlInv, TypeInv, ProcType
<1>2. Position(p) /\ Naming(p)
  BY DEF ControlInv
<1>3. frames(p)' = frames(p) /\ (command[p].save)' = command[p].save
  BY StepIsLocal DEF frames, ControlInv
<1>4. Len(frames(p)) \in Nat
  BY FrameType DEF ControlInv
<1>5. proc[p].pc \in Saving \cup Outputting => Base(p) \in Basename \cup {NoName}
  BY <1>1, <1>2, <1>4, FrameType DEF ControlInv, Position, Base, frame_name
<1>6. proc'[p].i = proc[p].i => Base(p)' = Base(p)
  BY <1>3 DEF Base, frame_name
<1> USE DEF At, Goto, Exit, Saving, Outputting
<1>20. CASE Kill(p)
  BY <1>1, <1>2, <1>3, <1>20 DEF Kill, Position, Naming
<1>21. CASE NextFrame(p)
  <2>1. CASE proc[p].i > Len(frames(p))
    <3>1. proc' = [proc EXCEPT ![p].pc = "exiting", ![p].rc = 0]
      BY <1>21, <2>1 DEF NextFrame
    <3> QED
      BY <1>1, <1>2, <1>3, <3>1 DEF Position, Naming
  <2>2. CASE proc[p].i <= Len(frames(p)) /\ command[p].save
    <3>1. proc' = [proc EXCEPT ![p].pc = "mkstemp"]
      BY <1>1, <1>4, <1>21, <2>2 DEF NextFrame
    <3> QED
      BY <1>1, <1>2, <1>3, <2>2, <3>1 DEF Position, Naming
  <2>3. CASE proc[p].i <= Len(frames(p)) /\ ~command[p].save
    <3>1. proc' = [proc EXCEPT ![p].pc = "output"]
      BY <1>1, <1>4, <1>21, <2>3 DEF NextFrame
    <3> QED
      BY <1>1, <1>2, <1>3, <2>3, <3>1 DEF Position, Naming
  <2> QED
    BY <1>1, <1>4, <2>1, <2>2, <2>3
<1>22. CASE RequestOutput(p)
  BY <1>1, <1>2, <1>3, <1>22 DEF RequestOutput, Position, Naming
<1>23. CASE OutputFrame(p)
  BY <1>1, <1>2, <1>3, <1>4, <1>23 DEF OutputFrame, Position, Naming
<1>24. CASE MakeTemp(p)
  BY <1>1, <1>2, <1>3, <1>24 DEF MakeTemp, Position, Naming
<1>25. CASE RequestSave(p)
  BY <1>1, <1>2, <1>3, <1>25 DEF RequestSave, Position, Naming
<1>26. CASE ReceiveFrame(p)
  BY <1>1, <1>2, <1>3, <1>5, <1>6, <1>26 DEF ReceiveFrame, Position, Naming
<1>27. CASE CheckName(p)
  BY <1>1, <1>2, <1>3, <1>6, <1>27, FromAssumption, NoFileApart
     DEF CheckName, Position, Naming, FinalName
<1>28. CASE find_suitable_filename(p)
  <2>1. proc[p].got /\ Base(p) \in Basename
    BY <1>2, <1>28 DEF Naming, find_suitable_filename
  <2>2. CASE proc[p].n > MaxCounter
    <3>1. proc' = [proc EXCEPT ![p].pc = "cleanup", ![p].file = NoFile]
      BY <1>28, <2>2 DEF find_suitable_filename
    <3> QED
      BY <1>1, <1>2, <1>3, <1>28, <3>1 DEF find_suitable_filename, Position, Naming
  <2>3. CASE proc[p].n <= MaxCounter /\ dir[<<Base(p), proc[p].n>>] = NoFile
    <3>1. proc' = [proc EXCEPT ![p].pc = "rename", ![p].file = <<Base(p), proc[p].n>>]
      BY <1>1, <1>28, <2>3, FromAssumption DEF find_suitable_filename
    <3>2. proc[p].n \in 0..MaxCounter /\ <<Base(p), proc[p].n>> # NoFile
      BY <1>1, <2>1, <2>3, FromAssumption, NoFileApart DEF FinalName
    <3>3. Base(p)' = Base(p)
      BY <1>1, <1>6, <3>1
    <3> QED
      BY <1>1, <1>2, <1>3, <1>28, <2>1, <3>1, <3>2, <3>3
         DEF find_suitable_filename, Position, Naming
  <2>4. CASE proc[p].n <= MaxCounter /\ dir[<<Base(p), proc[p].n>>] # NoFile
    <3>1. proc' = [proc EXCEPT ![p].n = proc[p].n + 1]
      BY <1>1, <1>28, <2>4, FromAssumption DEF find_suitable_filename
    <3> QED
      BY <1>1, <1>2, <1>3, <1>6, <1>28, <3>1 DEF find_suitable_filename, Position, Naming
  <2> QED
    BY <1>1, <2>2, <2>3, <2>4, FromAssumption
<1>29. CASE Rename(p)
  BY <1>1, <1>2, <1>3, <1>6, <1>29 DEF Rename, Position, Naming
<1>30. CASE CleanUp(p)
  BY <1>1, <1>2, <1>3, <1>6, <1>30 DEF CleanUp, Position, Naming
<1>31. CASE Unlink(p)
  BY <1>1, <1>2, <1>3, <1>6, <1>31 DEF Unlink, Position, Naming
<1>32. CASE ReportSaved(p)
  <2>1. proc[p].i <= Len(frames(p))
    BY <1>2, <1>32 DEF ReportSaved, Position
  <2>2. CASE proc[p].file = NoFile
    <3>1. proc' = [proc EXCEPT ![p].pc = "exiting", ![p].rc = 1]
      BY <1>32, <2>2 DEF ReportSaved
    <3> QED
      BY <1>1, <1>2, <1>3, <3>1 DEF Position, Naming
  <2>3. CASE proc[p].file # NoFile
    <3>1. PICK rc \in Garbage :
            proc' = [proc EXCEPT ![p].wrote = Append(@, frame_name(p)),
                                 ![p].pc = IF rc = 0 THEN "loop" ELSE "exiting",
                                 ![p].i  = IF rc = 0 THEN @ + 1 ELSE @,
                                 ![p].rc = rc]
      BY <1>32, <2>3 DEF ReportSaved
    <3>2. /\ proc'[p].pc \in {"loop", "exiting"}
          /\ proc'[p].i \in {proc[p].i, proc[p].i + 1}
      BY <1>1, <3>1
    <3> QED
      BY <1>1, <1>3, <1>4, <2>1, <3>2 DEF Position, Naming
  <2> QED
    BY <2>2, <2>3
<1>33. CASE RunExitHooks(p)
  BY <1>1, <1>2, <1>3, <1>33 DEF RunExitHooks, Position, Naming
<1> QED
  BY <1>20, <1>21, <1>22, <1>23, <1>24, <1>25, <1>26, <1>27, <1>28, <1>29, <1>30,
     <1>31, <1>32, <1>33 DEF Run

LEMMA NextControl == ControlInv /\ [Next]_vars => ControlInv'
<1> SUFFICES ASSUME ControlInv, [Next]_vars PROVE ControlInv'
  OBVIOUS
<1>1. CASE UNCHANGED vars
  BY <1>1 DEF vars, ControlInv, TypeInv, Position, Naming, frames, Base, frame_name
<1>2. ASSUME NEW p \in Process, Run(p) \/ Kill(p) PROVE ControlInv'
  BY <1>2, StepTypes, StepControl, OthersKeepControl DEF ControlInv
<1> QED
  BY <1>1, <1>2 DEF Next

\* The type invariant, and what a process knows where it is: from.c fetches a
\* frame only while there is one, and gives a file its name only when the whole
\* upload came and asked for that name.
THEOREM ControlHolds == Spec => []ControlInv
<1>1. Init => ControlInv
  BY InitControl
<1>2. ControlInv /\ [Next]_vars => ControlInv'
  BY NextControl
<1> QED
  BY <1>1, <1>2, PTL DEF Spec

-----------------------------------------------------------------------------
(* What else is inductive, given ControlInv *)

\* The settings that the exit hooks will leave behind have echo on.
Calm(t) == IF t.hooks = 0 THEN t.echo ELSE t.old

\* While the first frame, or the only one, is fetched, the saved settings are
\* those the process started with.
EchoInv(p) ==
    /\ tty[p].isatty
    /\ proc[p].i = 1 /\ proc[p].pc \in {"loop", "mkstemp", "output", "request"} =>
          tty[p].echo /\ tty[p].hooks = 0
    /\ proc[p].i = 1 \/ Len(frames(p)) = 1 =>
          /\ Calm(tty[p])
          /\ proc[p].pc = "exited" => tty[p].echo

\* Between mkstemp and unlink alone there is a temporary file.
TempInv(p) ==
    dir[TempName(p)] # NoFile =>
        proc[p].pc \in {"request", "saving", "access", "find", "rename", "cleanup",
                        "unlink", "killed"}

\* stdout holds the frames before the i-th, and perhaps the i-th: only that one
\* may be cut off by a failed upload.
OutputInv(p) ==
    /\ command[p].save => stdout[p] = <<>>
    /\ ~command[p].save => Len(stdout[p]) \in {proc[p].i - 1, proc[p].i}
    /\ ~command[p].save /\ proc[p].pc \in {"loop"} \cup Outputting =>
          Len(stdout[p]) = proc[p].i - 1
    /\ Len(stdout[p]) <= Len(frames(p))
    /\ \A k \in 1..Len(stdout[p]) :
          /\ stdout[p][k].frame = frames(p)[k]
          /\ stdout[p][k].whole \/ k = proc[p].i \/ frames(p)[k] \in Oversize

\* The names reported are those of the frames before the i-th, in order.
WroteInv(p) ==
    command[p].save =>
        /\ proc[p].pc \in {"loop"} \cup Saving => Len(proc[p].wrote) = proc[p].i - 1
        /\ Len(proc[p].wrote) <= Len(frames(p))
        /\ \A k \in 1..Len(proc[p].wrote) : proc[p].wrote[k] = frames(p)[k]

\* main returns 0 only after the last frame, and another code than 0 and 1 only
\* behind a frame that it has reported.
ResultInv(p) ==
    proc[p].pc \in {"exiting", "exited"} =>
        /\ proc[p].rc = 0 =>
              /\ proc[p].i = Len(frames(p)) + 1
              /\ command[p].save => Len(proc[p].wrote) = Len(frames(p))
              /\ ~command[p].save => Len(stdout[p]) = Len(frames(p))
        /\ proc[p].rc \notin {0, 1} =>
              command[p].save /\ Len(proc[p].wrote) = proc[p].i

\* Once rename has been called, the file is under its name, or a process that
\* saves under the same name has replaced it.
SavedInv(p) ==
    /\ proc[p].pc \in {"cleanup", "unlink", "report"} /\ proc[p].file # NoFile =>
          \/ dir[proc[p].file] = file(p)
          \/ \E q \in Process \ {p} : \E j \in 1..Len(frames(q)) :
                /\ NameOf[frames(q)[j]] = Base(p)
                /\ dir[proc[p].file] = NewFile(q, j)
          \/ Base(p) \in Unwritable
    /\ proc[p].pc \in {"unlink", "report"} /\ proc[p].file # NoFile =>
          file(p) \in whole \/ frame_name(p) \in Oversize

-----------------------------------------------------------------------------
(* The directory *)

\* A step touches its own temporary name and, when it is rename, the final name.
LEMMA DirectoryStep ==
  ASSUME ControlInv, NEW p \in Process, Run(p) \/ Kill(p)
  PROVE  /\ \A f \in FinalName :
               \/ dir'[f] = dir[f]
               \/ Rename(p) /\ f = proc[p].file /\ dir'[f] = file(p)
         /\ \A q \in Process \ {p} : dir'[TempName(q)] = dir[TempName(q)]
         /\ dir'[TempName(p)] # NoFile =>
               dir[TempName(p)] # NoFile \/ MakeTemp(p)
<1>1. dir \in [Name -> File \cup {NoFile}]
  BY DEF ControlInv, TypeInv
<1>2. CASE dir' = dir
  BY <1>2
<1>3. CASE MakeTemp(p)
  BY <1>1, <1>3, NamesApart DEF MakeTemp
<1>4. CASE Rename(p)
  <2>1. proc[p].file \in FinalName
    BY <1>4 DEF ControlInv, TypeInv, ProcType, Naming, Rename, At
  <2> QED
    BY <1>1, <1>4, <2>1, NamesApart DEF Rename
<1>5. CASE Unlink(p)
  BY <1>1, <1>5, NamesApart DEF Unlink
<1> QED
  BY <1>2, <1>3, <1>4, <1>5
     DEF Run, Kill, NextFrame, RequestOutput, OutputFrame, RequestSave, ReceiveFrame,
         CheckName, find_suitable_filename, CleanUp, ReportSaved, RunExitHooks

\* A file name never goes missing: rename (from.c:206) replaces a file in one
\* step or makes a new one, and unlink (221) has the temporary name only.
THEOREM NamesStay == Spec => FilesStay
<1> DEFINE Stay == \A f \in FinalName : dir[f] # NoFile => dir'[f] # NoFile
<1>1. ControlInv /\ [Next]_vars => [Stay]_vars
  <2> SUFFICES ASSUME ControlInv, NEW p \in Process, Run(p) \/ Kill(p) PROVE Stay
    BY DEF Next
  <2>1. file(p) # NoFile
    <3>1. proc[p].i \in Nat
      BY DEF ControlInv, TypeInv, ProcType
    <3> QED
      BY <3>1, NoFileApart DEF file
  <2> QED
    BY <2>1, DirectoryStep
<1> QED
  BY <1>1, ControlHolds, PTL DEF Spec, FilesStay

-----------------------------------------------------------------------------
(* Control, field by field *)

SameFrame(p) == proc'[p].i = proc[p].i /\ proc'[p].wrote = proc[p].wrote
SameFile(p) == SameFrame(p) /\ proc'[p].file = proc[p].file

\* Where a step of p goes from where, and what becomes of the other locals.
LEMMA Moves ==
  ASSUME ControlInv, NEW p \in Process
  PROVE  /\ Kill(p) =>
              SameFile(p) /\ proc[p].pc # "exited" /\ proc'[p].pc = "killed"
         /\ NextFrame(p) =>
              /\ SameFile(p) /\ proc[p].pc = "loop"
              /\ \/ /\ proc[p].i > Len(frames(p))
                    /\ proc'[p].pc = "exiting" /\ proc'[p].rc = 0
                 \/ /\ proc[p].i <= Len(frames(p))
                    /\ proc'[p].pc \in {"mkstemp", "output"}
                    /\ proc'[p].pc = "mkstemp" <=> command[p].save
         /\ RequestOutput(p) =>
              SameFile(p) /\ proc[p].pc = "output" /\ proc'[p].pc = "outputting"
         /\ MakeTemp(p) =>
              /\ SameFrame(p) /\ proc[p].pc = "mkstemp"
              /\ proc'[p].pc \in {"request", "cleanup"} /\ proc'[p].file = NoFile
         /\ RequestSave(p) =>
              SameFile(p) /\ proc[p].pc = "request" /\ proc'[p].pc = "saving"
         /\ ReceiveFrame(p) =>
              /\ SameFile(p) /\ proc[p].pc = "saving"
              /\ proc'[p].pc \in {"access", "cleanup"}
         /\ CheckName(p) =>
              /\ SameFrame(p) /\ proc[p].pc = "access"
              /\ proc'[p].pc \in {"rename", "find"}
         /\ find_suitable_filename(p) =>
              /\ SameFrame(p) /\ proc[p].pc = "find"
              /\ \/ proc'[p].pc \in {"rename", "find"}
                 \/ proc'[p].pc = "cleanup" /\ proc'[p].file = NoFile
         /\ Rename(p) =>
              SameFile(p) /\ proc[p].pc = "rename" /\ proc'[p].pc = "cleanup"
         /\ CleanUp(p) =>
              SameFile(p) /\ proc[p].pc = "cleanup" /\ proc'[p].pc = "unlink"
         /\ Unlink(p) =>
              SameFile(p) /\ proc[p].pc = "unlink" /\ proc'[p].pc = "report"
         /\ RunExitHooks(p) =>
              /\ SameFile(p) /\ proc[p].pc = "exiting" /\ proc'[p].pc = "exited"
              /\ proc'[p].rc = proc[p].rc
<1> USE DEF SameFrame, SameFile, At, Goto, Exit
<1>1. proc \in [Process -> ProcType] /\ proc[p] \in ProcType
  BY DEF ControlInv, TypeInv
<1>2. proc[p].i \in Nat /\ proc[p].n \in Nat /\ Len(frames(p)) \in Nat
  BY <1>1, FrameType DEF ProcType, ControlInv
<1>3. ASSUME NEW label, Goto(p, label)
      PROVE  SameFile(p) /\ proc'[p].pc = label /\ proc'[p].rc = proc[p].rc
  BY <1>1, <1>3 DEF ProcType
<1>4. ASSUME NextFrame(p)
      PROVE  /\ SameFile(p) /\ proc[p].pc = "loop"
             /\ \/ /\ proc[p].i > Len(frames(p))
                   /\ proc'[p].pc = "exiting" /\ proc'[p].rc = 0
                \/ /\ proc[p].i <= Len(frames(p))
                   /\ proc'[p].pc \in {"mkstemp", "output"}
                   /\ proc'[p].pc = "mkstemp" <=> command[p].save
  <2>1. CASE proc[p].i > Len(frames(p))
    <3>1. proc' = [proc EXCEPT ![p].pc = "exiting", ![p].rc = 0]
      BY <1>4, <2>1 DEF NextFrame
    <3> QED
      BY <1>1, <1>4, <2>1, <3>1 DEF NextFrame, ProcType
  <2>2. CASE proc[p].i <= Len(frames(p)) /\ command[p].save
    <3>1. proc' = [proc EXCEPT ![p].pc = "mkstemp"]
      BY <1>2, <1>4, <2>2 DEF NextFrame
    <3> QED
      BY <1>1, <1>4, <2>2, <3>1 DEF NextFrame, ProcType
  <2>3. CASE proc[p].i <= Len(frames(p)) /\ ~command[p].save
    <3>1. proc' = [proc EXCEPT ![p].pc = "output"]
      BY <1>2, <1>4, <2>3 DEF NextFrame
    <3> QED
      BY <1>1, <1>4, <2>3, <3>1 DEF NextFrame, ProcType
  <2> QED
    BY <1>2, <2>1, <2>2, <2>3
<1>5. ASSUME find_suitable_filename(p)
      PROVE  /\ SameFrame(p) /\ proc[p].pc = "find"
             /\ \/ proc'[p].pc \in {"rename", "find"}
                \/ proc'[p].pc = "cleanup" /\ proc'[p].file = NoFile
  <2>1. \/ proc' = [proc EXCEPT ![p].pc = "cleanup", ![p].file = NoFile]
        \/ proc' = [proc EXCEPT ![p].pc = "rename",
                                ![p].file = <<Base(p), proc[p].n>>]
        \/ proc' = [proc EXCEPT ![p].n = proc[p].n + 1]
    BY <1>5 DEF find_suitable_filename
  <2> QED
    BY <1>1, <1>5, <2>1 DEF find_suitable_filename, ProcType
<1>6. MakeTemp(p) =>
        /\ SameFrame(p) /\ proc[p].pc = "mkstemp"
        /\ proc'[p].pc \in {"request", "cleanup"} /\ proc'[p].file = NoFile
  BY <1>1 DEF MakeTemp, ProcType
<1>7. ReceiveFrame(p) =>
        SameFile(p) /\ proc[p].pc = "saving" /\ proc'[p].pc \in {"access", "cleanup"}
  BY <1>1 DEF ReceiveFrame, ProcType
<1>8. CheckName(p) =>
        SameFrame(p) /\ proc[p].pc = "access" /\ proc'[p].pc \in {"rename", "find"}
  BY <1>1 DEF CheckName, ProcType
<1> QED
  BY <1>3, <1>4, <1>5, <1>6, <1>7, <1>8
     DEF Kill, RequestOutput, RequestSave, Rename, CleanUp, Unlink, RunExitHooks

\* The steps that end with a frame done, or the command.
LEMMA OutputMoves ==
  ASSUME ControlInv, NEW p \in Process, OutputFrame(p)
  PROVE  /\ proc[p].pc = "outputting" /\ proc'[p].wrote = proc[p].wrote
         /\ \E got \in BOOLEAN : \E all \in Written(p, got) :
              /\ stdout'[p] = Append(stdout[p],
                                     [frame |-> frame_name(p), whole |-> all])
              /\ got => proc'[p].pc = "loop" /\ proc'[p].i = proc[p].i + 1
              /\ ~got => /\ proc'[p].pc = "exiting" /\ proc'[p].i = proc[p].i
                         /\ proc'[p].rc = 1
<1>1. /\ proc \in [Process -> ProcType] /\ proc[p] \in ProcType
      /\ stdout \in [Process -> Seq(Output)]
  BY DEF ControlInv, TypeInv
<1>2. PICK got \in BOOLEAN : \E all \in Written(p, got) :
        /\ stdout' = [stdout EXCEPT ![p] =
                        Append(@, [frame |-> frame_name(p), whole |-> all])]
        /\ proc' = [proc EXCEPT ![p].pc = IF got THEN "loop" ELSE "exiting",
                                ![p].i  = IF got THEN @ + 1 ELSE @,
                                ![p].rc = IF got THEN 0 ELSE 1]
  BY DEF OutputFrame
<1>3. PICK all \in Written(p, got) :
        stdout' = [stdout EXCEPT ![p] =
                        Append(@, [frame |-> frame_name(p), whole |-> all])]
  BY <1>2
<1>4. /\ proc'[p].wrote = proc[p].wrote
      /\ got => proc'[p].pc = "loop" /\ proc'[p].i = proc[p].i + 1
      /\ ~got => /\ proc'[p].pc = "exiting" /\ proc'[p].i = proc[p].i
                 /\ proc'[p].rc = 1
  BY <1>1, <1>2 DEF ProcType
<1> QED
  BY <1>1, <1>3, <1>4 DEF OutputFrame, At

LEMMA ReportMoves ==
  ASSUME ControlInv, NEW p \in Process, ReportSaved(p)
  PROVE  /\ proc[p].pc = "report"
         /\ \/ /\ proc[p].file = NoFile /\ SameFile(p)
               /\ proc'[p].pc = "exiting" /\ proc'[p].rc = 1
            \/ /\ proc'[p].wrote = Append(proc[p].wrote, frame_name(p))
               /\ \/ proc'[p].pc = "loop" /\ proc'[p].i = proc[p].i + 1
                  \/ /\ proc'[p].pc = "exiting" /\ proc'[p].i = proc[p].i
                     /\ proc'[p].rc # 0
<1>1. proc \in [Process -> ProcType] /\ proc[p] \in ProcType
  BY DEF ControlInv, TypeInv
<1>2. CASE proc[p].file = NoFile
  <2>1. proc' = [proc EXCEPT ![p].pc = "exiting", ![p].rc = 1]
    BY <1>2 DEF ReportSaved, Exit
  <2> QED
    BY <1>1, <1>2, <2>1 DEF ReportSaved, At, ProcType, SameFile, SameFrame
<1>3. CASE proc[p].file # NoFile
  <2>1. PICK rc \in Garbage :
          proc' = [proc EXCEPT ![p].wrote = Append(@, frame_name(p)),
                               ![p].pc = IF rc = 0 THEN "loop" ELSE "exiting",
                               ![p].i  = IF rc = 0 THEN @ + 1 ELSE @,
                               ![p].rc = rc]
    BY <1>3 DEF ReportSaved
  <2>2. CASE rc = 0
    BY <1>1, <2>1, <2>2 DEF ReportSaved, At, ProcType
  <2>3. CASE rc # 0
    BY <1>1, <2>1, <2>3 DEF ReportSaved, At, ProcType
  <2> QED
    BY <2>2, <2>3
<1> QED
  BY <1>2, <1>3

-----------------------------------------------------------------------------
(* Echo and temporary files *)

LEMMA EchoInit == ASSUME Init, NEW p \in Process PROVE EchoInv(p) /\ TempInv(p)
<1>1. tty[p] = FreshTty(TRUE) /\ proc[p] = Fresh
  BY DEF Init
<1>2. dir[TempName(p)] = NoFile
  <2>1. TempName(p) \notin Present
    BY FromAssumption, NamesAssumption DEF TempName
  <2> QED
    BY <2>1, NamesApart DEF Init
<1> QED
  BY <1>1, <1>2 DEF EchoInv, TempInv, FreshTty, Fresh, Calm

LEMMA EchoStep ==
  ASSUME ControlInv, NEW p \in Process, Run(p) \/ Kill(p), EchoInv(p)
  PROVE  EchoInv(p)'
<1>1. /\ tty \in [Process -> Tty] /\ tty[p] \in Tty
      /\ proc[p].i \in Nat \ {0} /\ Len(frames(p)) \in Nat
  BY FrameType DEF ControlInv, TypeInv, ProcType
<1>2. Len(frames(p)') = Len(frames(p))
  BY StepIsLocal DEF ControlInv, frames
<1>3. Position(p)
  BY DEF ControlInv
<1> USE DEF SameFile, SameFrame
<1>4. ASSUME tty'[p] = turn_off_echo(tty[p]), SameFile(p),
             proc[p].pc \in {"output", "request"},
             proc'[p].pc \in {"outputting", "saving"}
      PROVE  EchoInv(p)'
  <2>1. tty[p].isatty
    BY DEF EchoInv
  <2>2. /\ tty'[p].old = tty[p].echo /\ tty'[p].hooks = tty[p].hooks + 1
        /\ tty'[p].isatty
    BY <1>1, <1>4, <2>1 DEF turn_off_echo, Tty
  <2>3. tty[p].hooks + 1 # 0
    BY <1>1 DEF Tty
  <2>4. proc[p].i = 1 \/ Len(frames(p)) = 1 => proc[p].i = 1
    <3>1. proc[p].pc \in Saving \cup Outputting
      BY <1>4 DEF Saving, Outputting
    <3>2. proc[p].i <= Len(frames(p))
      BY <1>3, <3>1 DEF Position
    <3>3. \A i \in Nat \ {0} : i <= 1 => i = 1
      OBVIOUS
    <3> QED
      BY <1>1, <3>2, <3>3
  <2>5. proc[p].i = 1 => tty[p].echo
    BY <1>4 DEF EchoInv
  <2> QED
    BY <1>2, <1>4, <2>2, <2>3, <2>4, <2>5 DEF EchoInv, Calm
<1>5. CASE RequestOutput(p)
  <2>1. tty'[p] = turn_off_echo(tty[p])
    BY <1>1, <1>5 DEF RequestOutput
  <2> QED
    BY <1>4, <1>5, <2>1, Moves
<1>6. CASE RequestSave(p)
  <2>1. tty'[p] = turn_off_echo(tty[p])
    BY <1>1, <1>6 DEF RequestSave
  <2> QED
    BY <1>4, <1>6, <2>1, Moves
<1>7. CASE RunExitHooks(p)
  <2>1. tty'[p] = run_exit_hooks(tty[p])
    BY <1>1, <1>7 DEF RunExitHooks
  <2>2. /\ SameFile(p) /\ proc'[p].pc = "exited"
    BY <1>7, Moves
  <2>3. CASE tty[p].hooks = 0
    <3>1. tty'[p] = tty[p]
      BY <1>1, <2>1, <2>3 DEF run_exit_hooks
    <3> QED
      BY <1>2, <2>2, <2>3, <3>1 DEF EchoInv, Calm
  <2>4. CASE tty[p].hooks # 0
    <3>1. /\ tty'[p].echo = tty[p].old /\ tty'[p].hooks = 0
          /\ tty'[p].isatty = tty[p].isatty
      BY <1>1, <2>1, <2>4 DEF run_exit_hooks, Tty
    <3> QED
      BY <1>2, <2>2, <2>4, <3>1 DEF EchoInv, Calm
  <2> QED
    BY <2>3, <2>4
<1>8. ASSUME tty' = tty, proc'[p].pc # "exited",
             \/ /\ proc'[p].i = proc[p].i
                /\ proc'[p].pc \in {"loop", "mkstemp", "output", "request"} =>
                     proc[p].pc \in {"loop", "mkstemp", "output", "request"}
             \/ proc'[p].i = proc[p].i + 1
      PROVE  EchoInv(p)'
  <2>1. proc[p].i + 1 # 1
    BY <1>1
  <2> QED
    BY <1>2, <1>8, <2>1 DEF EchoInv
<1>9. CASE Kill(p) \/ NextFrame(p) \/ MakeTemp(p)
  <2>1. tty' = tty
    BY <1>9 DEF Kill, NextFrame, MakeTemp
  <2> QED
    BY <1>8, <1>9, <2>1, Moves
<1>10. CASE ReceiveFrame(p) \/ CheckName(p) \/ find_suitable_filename(p)
  <2>1. tty' = tty
    BY <1>10 DEF ReceiveFrame, CheckName, find_suitable_filename
  <2> QED
    BY <1>8, <1>10, <2>1, Moves
<1>11. CASE Rename(p) \/ CleanUp(p) \/ Unlink(p)
  <2>1. tty' = tty
    BY <1>11 DEF Rename, CleanUp, Unlink
  <2> QED
    BY <1>8, <1>11, <2>1, Moves
<1>12. CASE OutputFrame(p)
  <2>1. tty' = tty
    BY <1>12 DEF OutputFrame
  <2> QED
    BY <1>8, <1>12, <2>1, OutputMoves
<1>13. CASE ReportSaved(p)
  <2>1. tty' = tty
    BY <1>13 DEF ReportSaved
  <2> QED
    BY <1>8, <1>13, <2>1, ReportMoves
<1> QED
  BY <1>5, <1>6, <1>7, <1>9, <1>10, <1>11, <1>12, <1>13 DEF Run

LEMMA TempStep ==
  ASSUME ControlInv, NEW p \in Process, Run(p) \/ Kill(p), TempInv(p)
  PROVE  TempInv(p)'
<1> USE DEF TempInv
<1>1. dir'[TempName(p)] # NoFile => dir[TempName(p)] # NoFile \/ MakeTemp(p)
  BY DirectoryStep
<1>2. TempName(p)' = TempName(p)
  BY DEF TempName
<1>3. CASE Unlink(p)
  <2>1. dir'[TempName(p)] = NoFile
    BY <1>3, NamesApart DEF Unlink, ControlInv, TypeInv
  <2> QED
    BY <1>2, <2>1
<1>4. CASE OutputFrame(p)
  BY <1>1, <1>2, <1>4, OutputMoves DEF OutputFrame
<1>5. CASE ReportSaved(p)
  BY <1>1, <1>2, <1>5, ReportMoves DEF ReportSaved
<1>6. CASE Kill(p) \/ NextFrame(p) \/ RequestOutput(p) \/ RunExitHooks(p)
  <2>1. dir' = dir
    BY <1>6 DEF Kill, NextFrame, RequestOutput, RunExitHooks
  <2> QED
    BY <1>2, <1>6, <2>1, Moves
<1>7. CASE MakeTemp(p)
  BY <1>7, Moves
<1>8. CASE RequestSave(p) \/ ReceiveFrame(p) \/ CheckName(p)
  BY <1>8, Moves
<1>9. CASE find_suitable_filename(p) \/ Rename(p) \/ CleanUp(p)
  BY <1>9, Moves
<1> QED
  BY <1>3, <1>4, <1>5, <1>6, <1>7, <1>8, <1>9 DEF Run

LEMMA OthersKeepEcho ==
  ASSUME ControlInv, NEW p \in Process, NEW q \in Process \ {p}, Run(p) \/ Kill(p)
  PROVE  EchoInv(q) /\ TempInv(q) => (EchoInv(q) /\ TempInv(q))'
<1>1. /\ command' = command /\ proc'[q] = proc[q] /\ tty'[q] = tty[q]
      /\ dir'[TempName(q)] = dir[TempName(q)]
  BY StepIsLocal, DirectoryStep DEF ControlInv
<1> QED
  BY <1>1 DEF EchoInv, TempInv, frames, TempName

\* A process that exits leaves no temporary file (from.c:221), and echo as it was
\* if it has asked for at most one frame (tty_utils.c:29).
THEOREM NothingLeftBehind == Spec => []ExitCleansUp
<1> DEFINE Inv == ControlInv /\ \A p \in Process : EchoInv(p) /\ TempInv(p)
<1>1. Init => Inv
  BY InitControl, EchoInit
<1>2. Inv /\ [Next]_vars => Inv'
  <2> SUFFICES ASSUME Inv, [Next]_vars PROVE Inv'
    OBVIOUS
  <2>1. CASE UNCHANGED vars
    BY <2>1, NextControl DEF vars, EchoInv, TempInv, frames, TempName
  <2>2. ASSUME NEW p \in Process, Run(p) \/ Kill(p) PROVE Inv'
    <3>1. ControlInv'
      BY NextControl
    <3>2. (EchoInv(p) /\ TempInv(p))'
      BY <2>2, EchoStep, TempStep
    <3>3. \A q \in Process \ {p} : (EchoInv(q) /\ TempInv(q))'
      BY <2>2, OthersKeepEcho
    <3> QED
      BY <3>1, <3>2, <3>3
  <2> QED
    BY <2>1, <2>2 DEF Next
<1>3. Inv => ExitCleansUp
  BY DEF EchoInv, TempInv, ExitCleansUp, At
<1> QED
  BY <1>1, <1>2, <1>3, PTL DEF Spec

-----------------------------------------------------------------------------
(* What comes out, and what is reported *)

Delivered(p) == OutputInv(p) /\ WroteInv(p) /\ ResultInv(p)

LEMMA DeliveredInit == ASSUME Init, NEW p \in Process PROVE Delivered(p)
<1>1. stdout[p] = <<>> /\ proc[p] = Fresh
  BY DEF Init
<1>2. Len(frames(p)) \in Nat
  BY InitControl, FrameType DEF ControlInv
<1> QED
  BY <1>1, <1>2 DEF Delivered, OutputInv, WroteInv, ResultInv, Fresh, Outputting, Saving

\* A step that neither outputs a frame nor reports one.
LEMMA DeliveredStays ==
  ASSUME ControlInv, NEW p \in Process, Run(p) \/ Kill(p), Delivered(p),
         stdout'[p] = stdout[p], SameFrame(p),
         /\ proc'[p].pc \in {"loop"} \cup Outputting =>
              proc[p].pc \in {"loop"} \cup Outputting
         /\ proc'[p].pc \in {"loop"} \cup Saving =>
              proc[p].pc \in {"loop"} \cup Saving
         /\ proc'[p].pc \in {"exiting", "exited"} =>
              \/ proc[p].pc \in {"exiting", "exited"} /\ proc'[p].rc = proc[p].rc
              \/ proc[p].pc = "loop" /\ proc[p].i > Len(frames(p)) /\ proc'[p].rc = 0
  PROVE  Delivered(p)'
<1>1. (command[p].save)' = command[p].save /\ frames(p)' = frames(p)
  BY StepIsLocal DEF ControlInv, frames
<1>2. /\ proc[p].i \in Nat /\ Len(frames(p)) \in Nat
      /\ Len(stdout[p]) \in Nat /\ Len(proc[p].wrote) \in Nat
      /\ proc[p].i <= Len(frames(p)) + 1
  BY FrameType DEF ControlInv, TypeInv, ProcType, Position
<1>3. OutputInv(p)'
  BY <1>1 DEF Delivered, OutputInv, SameFrame
<1>4. WroteInv(p)'
  BY <1>1 DEF Delivered, WroteInv, SameFrame
<1>5. ResultInv(p)'
  <2>1. CASE proc[p].pc \in {"exiting", "exited"} /\ proc'[p].rc = proc[p].rc
    BY <1>1, <2>1 DEF Delivered, ResultInv, SameFrame
  <2>2. CASE proc[p].pc = "loop" /\ proc[p].i > Len(frames(p)) /\ proc'[p].rc = 0
    <3>1. proc[p].i = Len(frames(p)) + 1
      BY <1>2, <2>2
    <3>2. /\ command[p].save => Len(proc[p].wrote) = proc[p].i - 1
          /\ ~command[p].save => Len(stdout[p]) = proc[p].i - 1
      BY <2>2 DEF Delivered, OutputInv, WroteInv
    <3>3. proc[p].i - 1 = Len(frames(p))
      BY <1>2, <3>1
    <3> QED
      BY <1>1, <2>2, <3>1, <3>2, <3>3 DEF ResultInv, SameFrame
  <2>3. CASE proc'[p].pc \notin {"exiting", "exited"}
    BY <2>3 DEF ResultInv
  <2> QED
    BY <2>1, <2>2, <2>3
<1> QED
  BY <1>3, <1>4, <1>5 DEF Delivered

LEMMA DeliveredOutput ==
  ASSUME ControlInv, NEW p \in Process, OutputFrame(p), Delivered(p)
  PROVE  Delivered(p)'
<1>1. (command[p].save)' = command[p].save /\ frames(p)' = frames(p)
  BY StepIsLocal DEF ControlInv, frames, Run
<1>2. /\ proc[p].i \in Nat \ {0} /\ Len(frames(p)) \in Nat
      /\ stdout[p] \in Seq(Output)
  BY FrameType DEF ControlInv, TypeInv, ProcType
<1>3. /\ proc[p].pc = "outputting" /\ proc'[p].wrote = proc[p].wrote
  BY OutputMoves
<1>4. ~command[p].save /\ proc[p].i <= Len(frames(p)) /\ Len(stdout[p]) = proc[p].i - 1
  BY <1>3 DEF ControlInv, Position, Outputting, Delivered, OutputInv
<1>5. PICK got \in BOOLEAN : \E all \in Written(p, got) :
        /\ stdout'[p] = Append(stdout[p], [frame |-> frame_name(p), whole |-> all])
        /\ got => proc'[p].pc = "loop" /\ proc'[p].i = proc[p].i + 1
        /\ ~got => /\ proc'[p].pc = "exiting" /\ proc'[p].i = proc[p].i
                   /\ proc'[p].rc = 1
  BY OutputMoves
<1>6. PICK all \in Written(p, got) :
        stdout'[p] = Append(stdout[p], [frame |-> frame_name(p), whole |-> all])
  BY <1>5
<1>7. got => all \/ frames(p)[proc[p].i] \in Oversize
  BY <1>6 DEF Written, frame_name
<1>8. Len(stdout'[p]) = proc[p].i
  BY <1>2, <1>4, <1>6
<1>9. ASSUME NEW k \in 1..Len(stdout'[p])
      PROVE  /\ stdout'[p][k].frame = frames(p)[k]
             /\ \/ stdout'[p][k].whole \/ k = proc'[p].i
                \/ frames(p)[k] \in Oversize
  <2>1. CASE k = proc[p].i
    <3>1. stdout'[p][k] = [frame |-> frame_name(p), whole |-> all]
      BY <1>2, <1>4, <1>6, <2>1
    <3> QED
      BY <1>5, <1>7, <2>1, <3>1 DEF frame_name
  <2>2. CASE k # proc[p].i
    <3>1. k \in 1..Len(stdout[p]) /\ stdout'[p][k] = stdout[p][k]
      BY <1>2, <1>4, <1>6, <1>8, <2>2
    <3> QED
      BY <2>2, <3>1 DEF Delivered, OutputInv
  <2> QED
    BY <2>1, <2>2
<1>10. OutputInv(p)'
  <2>1. proc'[p].pc \in {"loop"} \cup Outputting => proc'[p].i = proc[p].i + 1
    BY <1>5 DEF Outputting
  <2>2. proc'[p].i \in {proc[p].i, proc[p].i + 1}
    BY <1>5
  <2> QED
    BY <1>1, <1>2, <1>4, <1>8, <1>9, <2>1, <2>2 DEF OutputInv
<1>11. WroteInv(p)'
  BY <1>1, <1>4 DEF WroteInv
<1>12. ResultInv(p)'
  BY <1>5 DEF ResultInv
<1> QED
  BY <1>10, <1>11, <1>12 DEF Delivered

LEMMA DeliveredReport ==
  ASSUME ControlInv, NEW p \in Process, ReportSaved(p), Delivered(p)
  PROVE  Delivered(p)'
<1>1. (command[p].save)' = command[p].save /\ frames(p)' = frames(p)
  BY StepIsLocal DEF ControlInv, frames, Run
<1>2. /\ proc[p].i \in Nat \ {0} /\ Len(frames(p)) \in Nat
      /\ proc[p].wrote \in Seq(Frame)
  BY FrameType DEF ControlInv, TypeInv, ProcType
<1>3. proc[p].pc = "report" /\ stdout'[p] = stdout[p]
  BY ReportMoves DEF ReportSaved
<1>4. /\ command[p].save /\ proc[p].i <= Len(frames(p))
      /\ Len(proc[p].wrote) = proc[p].i - 1
  BY <1>3 DEF ControlInv, Position, Saving, Delivered, WroteInv
<1>5. CASE SameFile(p) /\ proc'[p].pc = "exiting" /\ proc'[p].rc = 1
  BY <1>1, <1>3, <1>4, <1>5
     DEF SameFile, SameFrame, Delivered, OutputInv, WroteInv, ResultInv, Saving, Outputting
<1>6. CASE /\ proc'[p].wrote = Append(proc[p].wrote, frame_name(p))
           /\ \/ proc'[p].pc = "loop" /\ proc'[p].i = proc[p].i + 1
              \/ /\ proc'[p].pc = "exiting" /\ proc'[p].i = proc[p].i
                 /\ proc'[p].rc # 0
  <2>1. OutputInv(p)'
    BY <1>1, <1>3, <1>4 DEF Delivered, OutputInv
  <2>2. Len(proc'[p].wrote) = proc[p].i
    BY <1>2, <1>4, <1>6
  <2>3. ASSUME NEW k \in 1..Len(proc'[p].wrote)
        PROVE  proc'[p].wrote[k] = frames(p)[k]
    <3>1. CASE k = proc[p].i
      BY <1>2, <1>4, <1>6, <3>1 DEF frame_name
    <3>2. CASE k # proc[p].i
      <4>1. k \in 1..Len(proc[p].wrote) /\ proc'[p].wrote[k] = proc[p].wrote[k]
        BY <1>2, <1>4, <1>6, <2>2, <3>2
      <4> QED
        BY <1>4, <4>1 DEF Delivered, WroteInv
    <3> QED
      BY <3>1, <3>2
  <2>4. WroteInv(p)'
    <3>1. proc'[p].pc \in {"loop"} \cup Saving => proc'[p].i = proc[p].i + 1
      BY <1>6 DEF Saving
    <3> QED
      BY <1>1, <1>2, <1>4, <2>2, <2>3, <3>1 DEF WroteInv
  <2>5. ResultInv(p)'
    BY <1>1, <1>4, <1>6, <2>2 DEF ResultInv
  <2> QED
    BY <2>1, <2>4, <2>5 DEF Delivered
<1> QED
  BY <1>5, <1>6, ReportMoves

LEMMA DeliveredStep ==
  ASSUME ControlInv, NEW p \in Process, Run(p) \/ Kill(p), Delivered(p)
  PROVE  Delivered(p)'
<1> USE DEF SameFile
<1>1. CASE Kill(p)
  BY <1>1, Moves, DeliveredStays DEF Kill, Saving, Outputting
<1>2. CASE NextFrame(p)
  BY <1>2, Moves, DeliveredStays DEF NextFrame, Saving, Outputting
<1>3. CASE RequestOutput(p)
  BY <1>3, Moves, DeliveredStays DEF RequestOutput, Saving, Outputting
<1>4. CASE OutputFrame(p)
  BY <1>4, DeliveredOutput
<1>5. CASE MakeTemp(p)
  BY <1>5, Moves, DeliveredStays DEF MakeTemp, Saving, Outputting
<1>6. CASE RequestSave(p)
  BY <1>6, Moves, DeliveredStays DEF RequestSave, Saving, Outputting
<1>7. CASE ReceiveFrame(p)
  BY <1>7, Moves, DeliveredStays DEF ReceiveFrame, Saving, Outputting
<1>8. CASE CheckName(p)
  BY <1>8, Moves, DeliveredStays DEF CheckName, Saving, Outputting
<1>9. CASE find_suitable_filename(p)
  BY <1>9, Moves, DeliveredStays DEF find_suitable_filename, Saving, Outputting
<1>10. CASE Rename(p)
  BY <1>10, Moves, DeliveredStays DEF Rename, Saving, Outputting
<1>11. CASE CleanUp(p)
  BY <1>11, Moves, DeliveredStays DEF CleanUp, Saving, Outputting
<1>12. CASE Unlink(p)
  BY <1>12, Moves, DeliveredStays DEF Unlink, Saving, Outputting
<1>13. CASE ReportSaved(p)
  BY <1>13, DeliveredReport
<1>14. CASE RunExitHooks(p)
  BY <1>14, Moves, DeliveredStays DEF RunExitHooks, Saving, Outputting
<1> QED
  BY <1>1, <1>2, <1>3, <1>4, <1>5, <1>6, <1>7, <1>8, <1>9, <1>10, <1>11, <1>12,
     <1>13, <1>14 DEF Run

LEMMA OthersKeepDelivered ==
  ASSUME ControlInv, NEW p \in Process, NEW q \in Process \ {p}, Run(p) \/ Kill(p),
         Delivered(q)
  PROVE  Delivered(q)'
<1>1. command' = command /\ proc'[q] = proc[q] /\ stdout'[q] = stdout[q]
  BY StepIsLocal DEF ControlInv
<1> QED
  BY <1>1 DEF Delivered, OutputInv, WroteInv, ResultInv, frames

DeliveredInv == ControlInv /\ \A p \in Process : Delivered(p)

LEMMA DeliveredHolds == Spec => []DeliveredInv
<1>1. Init => DeliveredInv
  BY InitControl, DeliveredInit DEF DeliveredInv
<1>2. DeliveredInv /\ [Next]_vars => DeliveredInv'
  <2> SUFFICES ASSUME DeliveredInv, [Next]_vars PROVE DeliveredInv'
    OBVIOUS
  <2>1. CASE UNCHANGED vars
    BY <2>1, NextControl
       DEF DeliveredInv, vars, Delivered, OutputInv, WroteInv, ResultInv, frames
  <2>2. ASSUME NEW p \in Process, Run(p) \/ Kill(p) PROVE DeliveredInv'
    BY <2>2, NextControl, DeliveredStep, OthersKeepDelivered DEF DeliveredInv
  <2> QED
    BY <2>1, <2>2 DEF Next
<1> QED
  BY <1>1, <1>2, PTL DEF Spec

\* Output comes in the order of the command line, and nothing comes after a frame
\* that a failed upload cut off (from.c:298).
THEOREM OutputOrdered == Spec => []OutputInOrder
<1>1. DeliveredInv => OutputInOrder
  <2> SUFFICES ASSUME DeliveredInv, NEW p \in Process, NEW i \in 1..Len(stdout[p])
               PROVE  /\ stdout[p][i].frame = frames(p)[i]
                      /\ \/ stdout[p][i].whole \/ i = Len(stdout[p])
                         \/ frames(p)[i] \in Oversize
    BY DEF OutputInOrder
  <2>1. OutputInv(p)
    BY DEF DeliveredInv, Delivered
  <2>2. Len(stdout[p]) \in Nat /\ proc[p].i \in Nat
    BY DEF DeliveredInv, ControlInv, TypeInv, ProcType
  <2>3. i = proc[p].i => i = Len(stdout[p])
    <3>1. ~command[p].save
      BY <2>1 DEF OutputInv
    <3> QED
      BY <2>1, <2>2, <3>1 DEF OutputInv
  <2> QED
    BY <2>1, <2>3 DEF OutputInv
<1> QED
  BY <1>1, DeliveredHolds, PTL

\* Exit status 0 means that every frame asked for was uploaded whole and, with
\* --save, that a name was reported for each that main came to: all of them, or
\* those up to where an rc that was never set (from.c:280) ended the command.
THEOREM SuccessIsComplete == Spec => []SuccessMeansAll
<1>1. DeliveredInv => SuccessMeansAll
  <2> SUFFICES ASSUME DeliveredInv, NEW p \in Process, At(p, "exited"),
                      exit_status(p) = 0
               PROVE  IF command[p].save
                        THEN \/ proc[p].wrote = frames(p)
                             \/ /\ proc[p].rc # 0
                                /\ proc[p].wrote = SubSeq(frames(p), 1, proc[p].i)
                        ELSE /\ Len(stdout[p]) = Len(frames(p))
                             /\ \A i \in 1..Len(frames(p)) :
                                  /\ stdout[p][i].frame = frames(p)[i]
                                  /\ stdout[p][i].whole \/ frames(p)[i] \in Oversize
    BY DEF SuccessMeansAll
  <2>1. Delivered(p)
    BY DEF DeliveredInv
  <2>2. /\ proc[p].wrote \in Seq(Frame) /\ frames(p) \in Seq(Frame)
        /\ Len(frames(p)) \in Nat /\ proc[p].i \in Nat
    BY FrameType DEF DeliveredInv, ControlInv, TypeInv, ProcType
  <2>3. ASSUME command[p].save
        PROVE  /\ Len(proc[p].wrote) <= Len(frames(p))
               /\ \A k \in 1..Len(proc[p].wrote) : proc[p].wrote[k] = frames(p)[k]
    BY <2>1, <2>3 DEF Delivered, WroteInv
  <2>4. proc[p].rc # 1
    BY DEF exit_status
  <2>5. CASE proc[p].rc = 0
    <3>1. /\ proc[p].i = Len(frames(p)) + 1
          /\ command[p].save => Len(proc[p].wrote) = Len(frames(p))
          /\ ~command[p].save => Len(stdout[p]) = Len(frames(p))
      BY <2>1, <2>5 DEF Delivered, ResultInv, At
    <3>2. CASE command[p].save
      BY <2>2, <2>3, <3>1, <3>2, SeqEqual
    <3>3. CASE ~command[p].save
      <4>1. \A k \in 1..Len(frames(p)) : k # proc[p].i
        BY <2>2, <3>1
      <4> QED
        BY <2>1, <3>1, <3>3, <4>1 DEF Delivered, OutputInv
    <3> QED
      BY <3>2, <3>3
  <2>6. CASE proc[p].rc # 0
    <3>1. command[p].save /\ Len(proc[p].wrote) = proc[p].i
      BY <2>1, <2>4, <2>6 DEF Delivered, ResultInv, At
    <3>2. /\ SubSeq(frames(p), 1, proc[p].i) \in Seq(Frame)
          /\ Len(SubSeq(frames(p), 1, proc[p].i)) = proc[p].i
          /\ \A k \in 1..proc[p].i : SubSeq(frames(p), 1, proc[p].i)[k] = frames(p)[k]
      BY <2>2, <2>3, <3>1
    <3>3. proc[p].wrote = SubSeq(frames(p), 1, proc[p].i)
      BY <2>2, <2>3, <3>1, <3>2, SeqEqual
    <3> QED
      BY <2>6, <3>1, <3>3
  <2> QED
    BY <2>5, <2>6
<1> QED
  BY <1>1, DeliveredHolds, PTL

-----------------------------------------------------------------------------
(* What is published *)

\* The frame that p is saving is on disk once the file is closed.
LEMMA ClosedIsWhole ==
  ASSUME ControlInv, NEW p \in Process, CleanUp(p), proc[p].got
  PROVE  file(p) \in whole' \/ frame_name(p) \in Oversize
BY DEF CleanUp, Written

\* What p's own step makes of a file it has written: only rename publishes one,
\* and from then to the end of CleanUp it is known to have come whole.
LEMMA PublishedOwn ==
  ASSUME ControlInv, NEW p \in Process, Run(p) \/ Kill(p), NEW i \in Nat,
         \/ NewFile(p, i) \in whole
         \/ proc[p].i = i /\ proc[p].got /\ proc[p].pc \in {"cleanup", "killed"}
         \/ frames(p)[i] \in Oversize
  PROVE  (\/ NewFile(p, i) \in whole
          \/ proc[p].i = i /\ proc[p].got /\ proc[p].pc \in {"cleanup", "killed"}
          \/ frames(p)[i] \in Oversize)'
<1>1. whole \subseteq whole' /\ frames(p)' = frames(p)
  BY StepIsLocal DEF ControlInv, frames
<1>2. CASE NewFile(p, i) \in whole \/ frames(p)[i] \in Oversize
  BY <1>1, <1>2 DEF NewFile
<1>3. CASE proc[p].i = i /\ proc[p].got /\ proc[p].pc \in {"cleanup", "killed"}
  <2>1. CASE CleanUp(p)
    BY <1>1, <1>3, <2>1, ClosedIsWhole DEF file, frame_name, NewFile
  <2>2. CASE Kill(p)
    <3>1. proc[p].pc = "cleanup"
      BY <1>3, <2>2 DEF Kill, At
    <3>2. proc'[p].i = i /\ proc'[p].got /\ proc'[p].pc = "killed"
      BY <1>3, <2>2 DEF Kill, Goto, ControlInv, TypeInv, ProcType
    <3> QED
      BY <3>2
  <2>3. CASE ~CleanUp(p) /\ ~Kill(p)
    BY <1>3, <2>3
       DEF Run, At, NextFrame, RequestOutput, OutputFrame, MakeTemp, RequestSave,
           ReceiveFrame, CheckName, find_suitable_filename, Rename, CleanUp, Unlink,
           ReportSaved, RunExitHooks
  <2> QED
    BY <2>1, <2>2, <2>3
<1> QED
  BY <1>2, <1>3

LEMMA PublishedStep ==
  ASSUME ControlInv, PublishedIsWhole, NEW p \in Process, Run(p) \/ Kill(p)
  PROVE  PublishedIsWhole'
<1> SUFFICES ASSUME NEW f \in FinalName, NEW q \in Process,
                    NEW i \in 1..Len(frames(q)'), dir'[f] = NewFile(q, i)
             PROVE  (\/ NewFile(q, i) \in whole
                     \/ proc[q].i = i /\ proc[q].got /\ proc[q].pc \in {"cleanup", "killed"}
                     \/ frames(q)[i] \in Oversize)'
  BY DEF PublishedIsWhole, NewFile
<1>1. /\ frames(q)' = frames(q) /\ whole \subseteq whole'
      /\ q # p => proc'[q] = proc[q]
  BY StepIsLocal DEF ControlInv, frames
<1>2. i \in Nat /\ i \in 1..Len(frames(q))
  BY <1>1, FrameType DEF ControlInv
<1>3. proc[p].i \in Nat /\ proc \in [Process -> ProcType]
  BY DEF ControlInv, TypeInv, ProcType
<1>4. CASE dir'[f] = dir[f]
  <2>1. \/ NewFile(q, i) \in whole
        \/ proc[q].i = i /\ proc[q].got /\ proc[q].pc \in {"cleanup", "killed"}
        \/ frames(q)[i] \in Oversize
    BY <1>2, <1>4 DEF PublishedIsWhole
  <2>2. CASE q = p
    BY <1>2, <2>1, <2>2, PublishedOwn
  <2>3. CASE q # p
    BY <1>1, <2>1, <2>3 DEF NewFile
  <2> QED
    BY <2>2, <2>3
<1>5. CASE Rename(p) /\ f = proc[p].file /\ dir'[f] = file(p)
  <2>1. NewFile(q, i) = NewFile(p, proc[p].i)
    BY <1>5 DEF file
  <2>2. q = p /\ i = proc[p].i
    BY <1>2, <1>3, <2>1, NoFileApart
  <2>3. proc[p].got
    BY <1>5 DEF Rename, At, ControlInv, Naming
  <2>4. proc'[p].i = proc[p].i /\ proc'[p].got = proc[p].got /\ proc'[p].pc = "cleanup"
    BY <1>3, <1>5 DEF Rename, Goto, ProcType
  <2> QED
    BY <2>2, <2>3, <2>4
<1> QED
  BY <1>4, <1>5, DirectoryStep

\* What stands under a final name was there before or is a frame received whole,
\* and all on disk but for rename (from.c:206) before fclose (216), or a full disk.
THEOREM OnlyWholePublished == Spec => []PublishedIsWhole
<1> DEFINE Inv == ControlInv /\ PublishedIsWhole
<1>1. Init => Inv
  <2> SUFFICES ASSUME Init PROVE PublishedIsWhole
    BY InitControl
  <2>1. ASSUME NEW f \in FinalName, NEW p \in Process, NEW i \in 1..Len(frames(p))
        PROVE  dir[f] # NewFile(p, i)
    <3>1. i \in Nat /\ i > 0
      BY InitControl, FrameType DEF ControlInv
    <3>2. dir[f] \in {OldFile, NoFile}
      BY NamesApart DEF Init, Name
    <3> QED
      BY <3>1, <3>2, NoFileApart
  <2> QED
    BY <2>1 DEF PublishedIsWhole
<1>2. Inv /\ [Next]_vars => Inv'
  <2> SUFFICES ASSUME Inv, [Next]_vars PROVE Inv'
    OBVIOUS
  <2>1. CASE UNCHANGED vars
    BY <2>1, NextControl DEF vars, PublishedIsWhole, frames, NewFile
  <2>2. ASSUME NEW p \in Process, Run(p) \/ Kill(p) PROVE Inv'
    BY <2>2, NextControl, PublishedStep
  <2> QED
    BY <2>1, <2>2 DEF Next
<1> QED
  BY <1>1, <1>2, PTL DEF Spec

-----------------------------------------------------------------------------
(* What "Wrote f" says *)

LEMMA SavedInit == ASSUME Init, NEW p \in Process PROVE SavedInv(p)
<1>1. proc[p] = Fresh
  BY DEF Init
<1> QED
  BY <1>1 DEF SavedInv, Fresh

\* What p is looking for under its name is there, or replaced, or could not be put
\* there.
Kept(p) ==
    \/ dir[proc[p].file] = file(p)
    \/ \E q \in Process \ {p} : \E j \in 1..Len(frames(q)) :
          /\ NameOf[frames(q)[j]] = Base(p)
          /\ dir[proc[p].file] = NewFile(q, j)
    \/ Base(p) \in Unwritable

\* A step of p that leaves p's file name and the file under it alone.
LEMMA KeptStays ==
  ASSUME ControlInv, NEW p \in Process, Run(p) \/ Kill(p), SameFile(p), Kept(p),
         proc[p].file \in FinalName, ~Rename(p)
  PROVE  Kept(p)'
<1>1. command' = command /\ dir'[proc[p].file] = dir[proc[p].file]
  BY StepIsLocal, DirectoryStep DEF ControlInv
<1> QED
  BY <1>1 DEF Kept, SameFile, SameFrame, file, NewFile, Base, frame_name, frames

LEMMA SavedStep ==
  ASSUME ControlInv, NEW p \in Process, Run(p) \/ Kill(p), SavedInv(p)
  PROVE  SavedInv(p)'
<1>1. /\ proc[p].file \in FinalName \cup {NoFile}
      /\ command' = command /\ whole \subseteq whole'
  BY StepIsLocal DEF ControlInv, TypeInv, ProcType
<1> USE DEF SameFile, SameFrame
<1>2. CASE Rename(p)
  <2>1. SameFile(p) /\ proc[p].pc = "rename" /\ proc'[p].pc = "cleanup"
    BY <1>2, Moves
  <2>2. proc[p].file # NoFile
    BY <2>1 DEF ControlInv, Naming
  <2>3. Base(p) \in Unwritable \/ dir'[proc[p].file] = file(p)
    BY <1>1, <1>2, <2>2, NamesApart DEF Rename, ControlInv, TypeInv
  <2> QED
    BY <1>1, <2>1, <2>3 DEF SavedInv, file, NewFile, Base, frame_name, frames
<1>3. CASE CleanUp(p)
  <2>1. SameFile(p) /\ proc[p].pc = "cleanup" /\ proc'[p].pc = "unlink"
    BY <1>3, Moves
  <2>2. ASSUME proc[p].file # NoFile
        PROVE  Kept(p)' /\ (file(p) \in whole \/ frame_name(p) \in Oversize)'
    <3>1. ~Rename(p)
      BY <2>1 DEF Rename, At
    <3>2. Kept(p)
      BY <2>1, <2>2 DEF SavedInv, Kept
    <3>3. proc[p].got
      BY <2>1, <2>2 DEF ControlInv, Naming, Saving
    <3>4. file(p)' = file(p) /\ frame_name(p)' = frame_name(p)
      BY <1>1, <2>1 DEF file, NewFile, frame_name, frames
    <3> QED
      BY <1>1, <1>3, <2>1, <2>2, <3>1, <3>2, <3>3, <3>4, KeptStays, ClosedIsWhole
  <2> QED
    BY <2>1, <2>2 DEF SavedInv, Kept
<1>4. CASE Unlink(p)
  <2>1. SameFile(p) /\ proc[p].pc = "unlink" /\ proc'[p].pc = "report"
    BY <1>4, Moves
  <2>2. ASSUME proc[p].file # NoFile
        PROVE  Kept(p)' /\ (file(p) \in whole \/ frame_name(p) \in Oversize)'
    <3>1. ~Rename(p)
      BY <2>1 DEF Rename, At
    <3>2. Kept(p) /\ (file(p) \in whole \/ frame_name(p) \in Oversize)
      BY <2>1, <2>2 DEF SavedInv, Kept
    <3>3. file(p)' = file(p) /\ frame_name(p)' = frame_name(p)
      BY <1>1, <2>1 DEF file, NewFile, frame_name, frames
    <3> QED
      BY <1>1, <2>1, <2>2, <3>1, <3>2, <3>3, KeptStays
  <2> QED
    BY <2>1, <2>2 DEF SavedInv, Kept
<1>5. ASSUME \/ proc'[p].pc \notin {"cleanup", "unlink", "report"}
             \/ proc'[p].pc = "cleanup" /\ proc'[p].file = NoFile
      PROVE  SavedInv(p)'
  BY <1>5 DEF SavedInv
<1>6. CASE Kill(p) \/ NextFrame(p) \/ RequestOutput(p) \/ MakeTemp(p)
  BY <1>5, <1>6, Moves
<1>7. CASE ReceiveFrame(p)
  <2>1. /\ proc[p].pc = "saving" /\ SameFile(p)
        /\ proc'[p].pc \in {"access", "cleanup"}
    BY <1>7, Moves
  <2>2. proc[p].file = NoFile
    BY <2>1 DEF ControlInv, Naming
  <2> QED
    BY <1>5, <2>1, <2>2
<1>8. CASE RequestSave(p) \/ CheckName(p) \/ find_suitable_filename(p) \/ RunExitHooks(p)
  BY <1>5, <1>8, Moves
<1>9. CASE OutputFrame(p) \/ ReportSaved(p)
  BY <1>5, <1>9, OutputMoves, ReportMoves
<1> QED
  BY <1>2, <1>3, <1>4, <1>6, <1>7, <1>8, <1>9 DEF Run

\* When another process renames over p's file, it saves under the same name.
LEMMA OthersKeepSaved ==
  ASSUME ControlInv, NEW p \in Process, NEW q \in Process \ {p}, Run(p) \/ Kill(p),
         SavedInv(q)
  PROVE  SavedInv(q)'
<1>1. command' = command /\ proc'[q] = proc[q] /\ whole \subseteq whole'
  BY StepIsLocal DEF ControlInv
<1>2. /\ file(q)' = file(q) /\ frame_name(q)' = frame_name(q) /\ Base(q)' = Base(q)
      /\ \A r \in Process : frames(r)' = frames(r)
      /\ \A r, j : NewFile(r, j)' = NewFile(r, j)
  BY <1>1 DEF file, NewFile, frame_name, frames, Base
<1>3. ASSUME proc[q].pc \in {"unlink", "report"}, proc[q].file # NoFile
      PROVE  (file(q) \in whole \/ frame_name(q) \in Oversize)'
  BY <1>1, <1>2, <1>3 DEF SavedInv
<1>4. ASSUME proc[q].pc \in {"cleanup", "unlink", "report"}, proc[q].file # NoFile
      PROVE  Kept(q)'
  <2>1. Kept(q)
    BY <1>4 DEF SavedInv, Kept
  <2>2. proc[q].file \in FinalName
    BY <1>4 DEF ControlInv, TypeInv, ProcType
  <2>3. CASE dir'[proc[q].file] = dir[proc[q].file]
    BY <1>1, <1>2, <2>1, <2>3 DEF Kept
  <2>4. CASE Rename(p) /\ proc[q].file = proc[p].file /\ dir'[proc[q].file] = file(p)
    <3>1. Base(p) = Base(q)
      <4>1. PICK n \in 0..MaxCounter : proc[q].file = <<Base(q), n>>
        BY <1>4 DEF ControlInv, Naming, Saving
      <4>2. PICK m \in 0..MaxCounter : proc[p].file = <<Base(p), m>>
        BY <1>4, <2>4 DEF ControlInv, Naming, Saving, Rename, At
      <4>3. <<Base(q), n>> = <<Base(p), m>>
        BY <2>4, <4>1, <4>2
      <4> QED
        BY <4>3
    <3>2. proc[p].i \in 1..Len(frames(p))
      <4>1. proc[p].i \in Nat \ {0} /\ Len(frames(p)) \in Nat
        BY FrameType DEF ControlInv, TypeInv, ProcType
      <4>2. proc[p].i <= Len(frames(p))
        BY <2>4 DEF Rename, At, ControlInv, Position, Saving
      <4> QED
        BY <4>1, <4>2
    <3>3. NameOf[frames(p)[proc[p].i]] = Base(p)
      BY DEF Base, frame_name
    <3>4. dir'[proc[q].file] = NewFile(p, proc[p].i)
      BY <2>4 DEF file
    <3>5. p \in Process \ {q}
      OBVIOUS
    <3> QED
      BY <1>1, <1>2, <3>1, <3>2, <3>3, <3>4, <3>5 DEF Kept
  <2> QED
    BY <2>2, <2>3, <2>4, DirectoryStep
<1> QED
  BY <1>1, <1>3, <1>4 DEF SavedInv, Kept

\* "Wrote f" (from.c:286) is said of a frame that is whole on disk, under the name
\* f unless a process that saves under the same name has replaced it since, rename
\* failed or the disk was full.
THEOREM WroteIsSaved == Spec => []WroteMeansSaved
<1> DEFINE Inv == ControlInv /\ \A p \in Process : SavedInv(p)
<1>1. Init => Inv
  BY InitControl, SavedInit
<1>2. Inv /\ [Next]_vars => Inv'
  <2> SUFFICES ASSUME Inv, [Next]_vars PROVE Inv'
    OBVIOUS
  <2>1. CASE UNCHANGED vars
    BY <2>1, NextControl
       DEF vars, SavedInv, frames, file, NewFile, Base, frame_name
  <2>2. ASSUME NEW p \in Process, Run(p) \/ Kill(p) PROVE Inv'
    BY <2>2, NextControl, SavedStep, OthersKeepSaved
  <2> QED
    BY <2>1, <2>2 DEF Next
<1>3. Inv => WroteMeansSaved
  BY DEF SavedInv, WroteMeansSaved, At
<1> QED
  BY <1>1, <1>2, <1>3, PTL DEF Spec
=============================================================================
