------------------------------- MODULE Shells -------------------------------
(***************************************************************************)
(* The two setup scripts side by side: the login shell of a terminal is    *)
(* bash or zsh.                                                            *)
(***************************************************************************)
EXTENDS ShellSetup, ZshSetup

ShellsInit == \/ Init /\ zsh = <<>>
              \/ ZshInit /\ shells = <<>>

ShellsNext == \/ Next /\ UNCHANGED zsh
              \/ ZshNext /\ UNCHANGED shells

ShellsSpec == ShellsInit /\ [][ShellsNext]_<<shells, zsh>>
=============================================================================
