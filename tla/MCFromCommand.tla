--------------------------- MODULE MCFromCommand ---------------------------
\* Instances of FromCommand for TLC.
EXTENDS FromCommand, TLC

CONSTANTS a, b, f1, f2, f3, f4, f5, name, other, kept, none

\* f1 and f2 ask for names that are free, f3 for none, f4 for one that is not;
\* f5 is too big, and asks for a name that f2 asks for.
MCNameOf == f1 :> name @@ f2 :> other @@ f3 :> none @@ f4 :> kept @@ f5 :> other

\* name(1) is there and name is not: who loses the race for name finds none.
MCPresent == {<<name, 1>>, <<kept, 0>>}

MCCommands == {[save |-> TRUE,  frames |-> <<f1, f2>>],
               [save |-> TRUE,  frames |-> <<f2, f3>>],
               [save |-> TRUE,  frames |-> <<f4, f1>>],
               [save |-> TRUE,  frames |-> <<f5>>],
               [save |-> FALSE, frames |-> <<f1, f3>>],
               [save |-> FALSE, frames |-> <<f2>>],
               [save |-> FALSE, frames |-> <<f5, f3>>],
               [save |-> FALSE, frames |-> <<>>]}
=============================================================================
