------------------------------ MODULE TtyUtils ------------------------------
(***************************************************************************)
(* tty_utils.c: echo on the tty of one process. Of the termios settings    *)
(* only ECHO is kept. "old" is the global old_tty_settings, which starts   *)
(* zeroed and is written by every call of turn_off_echo; "hooks" counts    *)
(* the atexit registrations.                                               *)
(***************************************************************************)
EXTENDS Naturals

Tty == [isatty : BOOLEAN, echo : BOOLEAN, old : BOOLEAN, hooks : Nat]

\* A process that starts on a tty with echo on, or with a pipe as stdin.
FreshTty(isatty) == [isatty |-> isatty, echo |-> TRUE, old |-> FALSE, hooks |-> 0]

turn_off_echo(t) ==
    IF t.isatty
      THEN [t EXCEPT !.old = t.echo, !.echo = FALSE, !.hooks = @ + 1]
      ELSE t

\* exit(): restore_tty once per registration, all with the same settings.
run_exit_hooks(t) ==
    IF t.hooks > 0 THEN [t EXCEPT !.echo = t.old, !.hooks = 0] ELSE t
=============================================================================
