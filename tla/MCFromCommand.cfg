SPECIFICATION FairSpec
CONSTANTS
    a = a
    b = b
    f1 = f1
    f2 = f2
    f3 = f3
    f4 = f4
    f5 = f5
    name = name
    other = other
    kept = kept
    none = none
    Process = {a, b}
    Frame = {f1, f2, f3, f4, f5}
    Basename = {name, other, kept}
    NoName = none
    NameOf <- MCNameOf
    Commands <- MCCommands
    Present <- MCPresent
    Unwritable = {kept}
    Oversize = {f5}
    Garbage = {0, 1, 256}
    MaxCounter = 1
    NoFile = NoFile
INVARIANTS
    ExitCleansUp
    PublishedIsWhole
    SuccessMeansAll
    OutputInOrder
    WroteMeansSaved
PROPERTIES
    FilesStay
    EveryCommandEnds
CHECK_DEADLOCK FALSE
