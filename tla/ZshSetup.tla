------------------------------ MODULE ZshSetup ------------------------------
(***************************************************************************)
(* setup_extraterm_zsh.zsh: the marker zsh writes in front of each prompt, *)
(* with the status of the last command. It is part of PS1, which the       *)
(* user's .zshrc, his precmd hooks and his command lines may replace, and  *)
(* which is exported, so that a shell started from this one begins with it.*)
(*                                                                         *)
(* A prompt is the sequence of the markers in it; the rest of it is left   *)
(* out. The marker ends with a NUL, and a value exported by zsh ends       *)
(* before a NUL: what a shell inherits of a marker is not whole.           *)
(***************************************************************************)
EXTENDS Naturals, SequencesExt

CONSTANTS
    ZshRc,       \* what .zshrc does beside sourcing the script
    Cookies,     \* LC_EXTRATERM_COOKIE of a terminal
    MaxShells    \* bound: shells inside each other

ASSUME ZshAssumption ==
    /\ ZshRc \subseteq {"none", "before", "after", "theme", "late"}
    /\ Cookies # {} /\ "" \notin Cookies
    /\ MaxShells \in Nat \ {0}

VARIABLE zsh     \* each shell was started from the one before it

inner == Last(zsh)
Become(s) == zsh' = Append(Front(zsh), s)

\* .zshrc sets PS1 before or after it sources the script, or adds a precmd
\* hook that does so for each prompt, before ("theme") or after ("late") it.
\* cookie is "" where the variable is not set; ran counts the hooks that have
\* been run for the prompt to come.
FreshZsh(rc, screen, cookie, prompt) ==
    [pc |-> "source", rc |-> rc, screen |-> screen, cookie |-> cookie,
     prompt |-> IF rc = "before" THEN <<>> ELSE prompt,
     hooks |-> IF rc = "theme" THEN <<"mine">> ELSE <<>>, ran |-> 0,
     enabled |-> FALSE, sourced |-> 0]

ZshInit == \E rc \in ZshRc, cookie \in Cookies :
    zsh = <<FreshZsh(rc, FALSE, cookie, <<>>)>>

-----------------------------------------------------------------------------
\* Faulty: the prefix is added without a look at what is there.
extraterm_install_prompt_integration_again(cookie, prompt) ==
    <<[cookie |-> cookie, whole |-> TRUE]>> \o prompt

\* PS1 =~ cookie: it matches a marker that is not whole, too.
extraterm_install_prompt_integration(cookie, prompt) ==
    IF \E m \in ToSet(prompt) : m.cookie = cookie
    THEN prompt
    ELSE <<[cookie |-> cookie, whole |-> TRUE]>> \o prompt

\* add-zsh-hook adds no hook a second time.
AddHook(hooks, h) == IF Contains(hooks, h) THEN hooks ELSE Append(hooks, h)

\* What .zshrc does after the script; nothing where a command line sourced it.
RestOfRc(s) ==
    [s EXCEPT !.pc = "prompt",
              !.prompt = IF s.rc = "after" /\ s.sourced < 2 THEN <<>> ELSE @,
              !.hooks = IF s.rc = "late" THEN AddHook(@, "mine") ELSE @]

\* No cookie, or screen, where it is dropped.
ZshEarlyOut ==
    /\ inner.pc = "source"
    /\ inner.cookie = "" \/ inner.screen
    /\ Become(RestOfRc([inner EXCEPT !.cookie = ""]))

ZshSetUp ==
    /\ inner.pc = "source"
    /\ inner.cookie # "" /\ ~inner.screen
    /\ Become(RestOfRc([inner EXCEPT
                  !.prompt = extraterm_install_prompt_integration(inner.cookie, @),
                  !.hooks = AddHook(@, "extraterm"),
                  !.enabled = TRUE, !.sourced = @ + 1]))

\* zsh runs the precmd hooks in their order and writes the prompt.
RunHook ==
    /\ inner.pc = "prompt" /\ inner.ran < Len(inner.hooks)
    /\ Become([inner EXCEPT
          !.ran = @ + 1,
          !.prompt = IF inner.hooks[inner.ran + 1] = "mine" THEN <<>>
                     ELSE extraterm_install_prompt_integration(inner.cookie, @)])

WritePrompt ==
    /\ inner.pc = "prompt" /\ inner.ran = Len(inner.hooks)
    /\ Become([inner EXCEPT !.pc = "ready", !.ran = 0])

-----------------------------------------------------------------------------
\* A command line, which may set PS1.
ZshLine == \E sets \in BOOLEAN :
    /\ inner.pc = "ready"
    /\ Become([inner EXCEPT !.pc = "prompt", !.prompt = IF sets THEN <<>> ELSE @])

\* .zshrc sources the script; so may a command line, once.
ZshSourceAgain ==
    /\ inner.pc = "ready" /\ inner.sourced = 1
    /\ Become([inner EXCEPT !.pc = "source"])

\* What a shell inherits of PS1, which the script exports: nothing after the
\* first NUL, which ends the first marker.
Inherited(prompt) ==
    IF prompt = <<>> THEN <<>>
    ELSE <<[cookie |-> prompt[1].cookie, whole |-> FALSE]>>

\* A shell here, in screen, or in another terminal opened from here.
StartZsh == \E rc \in ZshRc, screen \in BOOLEAN, cookie \in Cookies \cup {inner.cookie} :
    /\ inner.pc = "ready" /\ Len(zsh) < MaxShells
    /\ screen => cookie = inner.cookie
    /\ zsh' = Append(Front(zsh), [inner EXCEPT !.pc = "waiting"])
                \o <<FreshZsh(rc, screen, cookie, Inherited(inner.prompt))>>

ExitZsh ==
    /\ inner.pc = "ready"
    /\ zsh' = IF Len(zsh) = 1 THEN <<>>
              ELSE [Front(zsh) EXCEPT ![Len(zsh) - 1].pc = "prompt"]

ZshNext ==
    /\ zsh # <<>>
    /\ \/ ZshEarlyOut \/ ZshSetUp \/ RunHook \/ WritePrompt
       \/ ZshLine \/ ZshSourceAgain \/ StartZsh \/ ExitZsh

-----------------------------------------------------------------------------
\* In a shell the script has set up, the terminal is told the status with
\* each prompt, once (setup_extraterm_zsh.zsh:37-46), whatever has become of
\* PS1 since the last one, and with its own cookie, whichever the shell
\* inherits; but not with a prompt that a hook added after the script
\* replaces. The marker is whole unless an outer shell of the terminal made it.
PromptMarked ==
    \A i \in DOMAIN zsh :
        zsh[i].pc = "ready" /\ zsh[i].enabled =>
            LET own == {k \in DOMAIN zsh[i].prompt :
                           zsh[i].prompt[k].cookie = zsh[i].cookie}
            IN  IF zsh[i].rc = "late" THEN own = {}
                ELSE \E k \in own :
                        /\ own = {k}
                        /\ \/ zsh[i].prompt[k].whole
                           \/ \E j \in 1..(i - 1) :
                                 zsh[j].enabled /\ zsh[j].cookie = zsh[i].cookie
=============================================================================
