----------------------------- MODULE ShellSetup -----------------------------
(***************************************************************************)
(* setup_extraterm_bash.sh: the markers that bash puts around each command *)
(* line for the terminal, in a first shell and in shells started from it,  *)
(* which inherit what the script exports but not the functions it defines. *)
(*                                                                         *)
(* PROMPT_COMMAND is the sequence of its commands: "postexec" stands for   *)
(* extraterm_postexec \$?, "mine" for one of the user's.                   *)
(***************************************************************************)
EXTENDS Naturals, SequencesExt

CONSTANTS
    RcFiles,    \* what .bashrc does before it sources the script
    Status,     \* exit statuses
    MaxDepth,   \* bound: shells inside each other
    MaxCalls    \* calls of a function inside itself that bash survives

ASSUME ShellAssumption ==
    /\ RcFiles \subseteq {"none", "set", "before", "after", "preexec"}
    /\ Status \subseteq Nat /\ 0 \in Status
    /\ MaxDepth \in Nat \ {0}
    /\ MaxCalls \in Nat \ {0, 1}

VARIABLE shells     \* each shell was started from the one before it

top == Last(shells)
Step(s) == shells' = Append(Front(shells), s)

\* .bashrc sets PROMPT_COMMAND, adds to it at either end, or defines a preexec.
RcPrompt(rc, prompt) ==
    CASE rc = "set"    -> <<"mine">>
      [] rc = "before" -> <<"mine">> \o prompt
      [] rc = "after"  -> prompt \o <<"mine">>
      [] OTHER         -> prompt

\* screen: TERM says so. enabled: the functions and the trap are there; sourced: how many times;
\* path: how often the script has put itself into PATH; starts, ends, mine:
\* markers written and user's commands run, since the last line was entered.
Fresh(rc, screen, env) ==
    [pc |-> "source", rc |-> rc, screen |-> screen,
     cookie |-> env.cookie, path |-> env.path, prev |-> env.prev,
     exported |-> env.exported,
     prompt |-> RcPrompt(rc, IF env.exported THEN env.prompt ELSE <<>>),
     enabled |-> FALSE, sourced |-> 0, status |-> 0,
     starts |-> 0, ends |-> <<>>, mine |-> 0]

Terminal == [cookie |-> TRUE, path |-> 0, prev |-> <<>>, exported |-> FALSE,
             prompt |-> <<>>]

Init == \E rc \in RcFiles : shells = <<Fresh(rc, FALSE, Terminal)>>

-----------------------------------------------------------------------------
(* Sourcing the script *)

\* Faulty: in screen the cookie is kept.
EarlyOut_cookie ==
    /\ top.pc = "source"
    /\ top.rc = "preexec" \/ ~top.cookie \/ top.screen
    /\ Step([top EXCEPT !.pc = "prompt", !.status = 0])

\* A preexec of the user's, no cookie, or screen, where the cookie is dropped.
\* Input that is no terminal (26-30) has the effect of screen.
EarlyOut ==
    /\ top.pc = "source"
    /\ top.rc = "preexec" \/ ~top.cookie \/ top.screen
    /\ Step([top EXCEPT !.pc = "prompt", !.status = 0,
                        !.cookie = @ /\ (top.rc = "preexec" \/ ~top.screen)])

\* Faulty: PROMPT_COMMAND is saved after it has been set.
SetUp_late ==
    /\ top.pc = "source"
    /\ top.rc # "preexec" /\ top.cookie /\ ~top.screen
    /\ Step([top EXCEPT !.pc = "prompt", !.status = 0,
                        !.path = @ + 1,
                        !.prev = <<"postexec">>,
                        !.prompt = <<"postexec">>, !.exported = TRUE,
                        !.enabled = TRUE, !.sourced = @ + 1, !.starts = @ + 1])

\* The trap is in force for the rest of the script: at least one more marker.
SetUp ==
    /\ top.pc = "source"
    /\ top.rc # "preexec" /\ top.cookie /\ ~top.screen
    /\ Step([top EXCEPT !.pc = "prompt", !.status = 0,
                        !.path = @ + 1,
                        !.prev = top.prompt,
                        !.prompt = <<"postexec">>, !.exported = TRUE,
                        !.enabled = TRUE, !.sourced = @ + 1, !.starts = @ + 1])

-----------------------------------------------------------------------------
(* The prompt *)

\* extraterm_postexec is not defined: bash runs only the user's commands.
PlainPrompt ==
    /\ top.pc = "prompt" /\ ~top.enabled
    /\ Step([top EXCEPT !.pc = "ready",
                        !.mine = Cardinality({k \in DOMAIN top.prompt :
                                                top.prompt[k] = "mine"})])

\* The argument of a call: $? from PROMPT_COMMAND, no number from prev.
Argument == IF top.ends = <<>> THEN top.status ELSE 999

EndMarker == Append(top.ends, Argument)

\* $EXTRATERM_PREVIOUS_PROMPT_COMMAND is split into words and not parsed: the
\* first word is the command and the rest its arguments, with "; " among them.
CallsItself == Len(top.prev) > 1 /\ top.prev[1] = "postexec"

\* Faulty: the status is that of the command in front of the marker.
extraterm_postexec_zero ==
    /\ top.pc = "prompt" /\ top.enabled /\ ~CallsItself
    /\ Step([top EXCEPT !.pc = "ready", !.ends = Append(@, 0),
                        !.mine = IF top.prev = <<"mine">> THEN @ + 1 ELSE @])

extraterm_postexec ==
    /\ top.pc = "prompt" /\ top.enabled /\ ~CallsItself
    /\ Step([top EXCEPT !.pc = "ready", !.ends = EndMarker,
                        !.mine = IF top.prev = <<"mine">> THEN @ + 1 ELSE @])

\* A shell is gone; the one it was started from goes on to its prompt.
Leave(status) ==
    shells' = IF Len(shells) = 1 THEN <<>>
              ELSE [Front(shells) EXCEPT ![Len(shells) - 1] =
                        [@ EXCEPT !.pc = "prompt", !.status = status]]

\* extraterm_postexec calls itself until bash crashes.
Recurse ==
    /\ top.pc = "prompt" /\ top.enabled /\ CallsItself
    /\ IF Len(top.ends) < MaxCalls THEN Step([top EXCEPT !.ends = EndMarker])
                                   ELSE Leave(139)

-----------------------------------------------------------------------------
(* Command lines *)

\* A line of so many simple commands, before each of which the trap is run.
Entered(s, commands) ==
    [s EXCEPT !.starts = IF s.enabled THEN commands ELSE 0,
              !.ends = <<>>, !.mine = 0]

RunLine == \E n \in 0..2, status \in Status :
    /\ top.pc = "ready"
    /\ n = 0 => status = top.status
    /\ Step([Entered(top, n) EXCEPT !.pc = "prompt", !.status = status])

SourceAgain ==
    /\ top.pc = "ready" /\ top.sourced = 1
    /\ Step([Entered(top, 1) EXCEPT !.pc = "source"])

StartShell == \E rc \in RcFiles, screen \in BOOLEAN :
    /\ top.pc = "ready" /\ Len(shells) < MaxDepth
    /\ shells' = Front(shells)
                   \o <<[Entered(top, 1) EXCEPT !.pc = "waiting"],
                        Fresh(rc, screen, top)>>

ExitShell == \E status \in Status : top.pc = "ready" /\ Leave(status)

-----------------------------------------------------------------------------
(* Specification *)

Next ==
    /\ shells # <<>>
    /\ \/ EarlyOut \/ SetUp
       \/ PlainPrompt \/ extraterm_postexec \/ Recurse
       \/ RunLine \/ SourceAgain \/ StartShell \/ ExitShell

Spec == Init /\ [][Next]_shells

-----------------------------------------------------------------------------
(* Properties *)

Ready(i) == shells[i].pc = "ready" /\ shells[i].enabled

\* Once a line has run the terminal has been told its exit status, that of a
\* shell started by the line included, and told it once: extraterm_postexec
\* (setup_extraterm_bash.sh:44-56) calls itself only in a shell that inherits
\* PROMPT_COMMAND and whose .bashrc adds to the end of it.
StatusReported ==
    \A i \in DOMAIN shells :
        /\ Ready(i) => shells[i].ends = <<shells[i].status>>
        /\ Len(shells[i].ends) > 1 => i > 1 /\ shells[i].rc = "after"

\* Inside screen no shell writes markers: the cookie is dropped (lines 21-24)
\* and none that is started there has it, even where it has another TERM. (In
\* a shell with a preexec of the user's the script gets no further than that.)
QuietInScreen ==
    \A i, j \in DOMAIN shells :
        i <= j /\ shells[i].screen /\ shells[i].rc # "preexec"
            => ~shells[j].enabled

\* The user's prompt command is run once for each prompt (lines 48-53), if it
\* was all of PROMPT_COMMAND and the script has been sourced only once.
PromptCommandKept ==
    \A i \in DOMAIN shells :
        /\ Ready(i) /\ shells[i].sourced = 1
        /\ shells[i].rc = "set" \/ (i = 1 /\ shells[i].rc \in {"before", "after"})
        => shells[i].mine = 1

\* The script leaves early "in case this has been sourced and enabled already"
\* (line 8): nothing is set up twice.
SourcedOnce ==
    [][\A i \in DOMAIN shells \cap DOMAIN shells' :
          shells[i].enabled /\ shells'[i].enabled =>
              /\ shells'[i].prev = shells[i].prev
              /\ shells'[i].path = shells[i].path]_shells
=============================================================================
