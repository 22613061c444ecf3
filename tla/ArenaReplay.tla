---------------------------- MODULE ArenaReplay -----------------------------
(***************************************************************************)
(* An arena that is used again after each reset, with the history needed   *)
(* to say what the reset is for: the work that was done before it can be   *)
(* done again without more memory.                                         *)
(***************************************************************************)
EXTENDS Arena, SequencesExt

CONSTANT MaxAllocations     \* bound: blocks between one reset and the next

VARIABLES
    work,       \* the sizes allocated since the last reset
    before,     \* the sizes allocated between the last reset and the one before
    held        \* the number of regions the last reset left

history == <<work, before, held>>

ReplayInit == Init /\ work = <<>> /\ before = <<>> /\ held = 0

Work(bytes) ==
    /\ Len(work) < MaxAllocations
    /\ work' = Append(work, bytes)
    /\ UNCHANGED <<before, held>>

ReplayReset ==
    /\ Reset
    /\ work' = <<>> /\ before' = work /\ held' = Len(regions)

ReplayFree ==
    /\ Free
    /\ work' = <<>> /\ before' = <<>> /\ held' = 0

ReplayNext ==
    \/ \E h \in Handle, n \in Sizes : \/ (Alloc(h, n) \/ Grow(h, n)) /\ Work(n)
                                      \/ Shrink(h, n) /\ UNCHANGED history
    \/ \E h \in Handle, v \in Value : Fill(h, v) /\ UNCHANGED history
    \/ ReplayReset
    \/ ReplayFree

ReplaySpec == ReplayInit /\ [][ReplayNext]_<<vars, history>>

\* After a reset (arena.h:196-203) the same allocations as before it take no
\* new region: all regions are empty again and tried in the same order.
ReplayNeedsNoMemory == IsPrefix(work, before) => Len(regions) = held
=============================================================================
