--------------------------- MODULE MCArenaReplay ----------------------------
\* Instances of ArenaReplay for TLC.
EXTENDS ArenaReplay, TLC

Symmetric == Permutations(Handle)
=============================================================================
