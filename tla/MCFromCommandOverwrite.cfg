SPECIFICATION Spec
CONSTANTS
    a = a
    b = b
    f1 = f1
    f2 = f2
    f3 = f3
    f4 = f4
    f5 = f5
    name = name
    other = other
    kept = kept
    none = none
    Process = {a}
    Frame = {f1, f2, f3, f4, f5}
    Basename = {name, other, kept}
    NoName = none
    NameOf <- MCNameOf
    Commands <- MCCommands
    Present <- MCPresent
    Unwritable = {}
    Oversize = {f5}
    Garbage = {0, 1, 256}
    MaxCounter = 1
    NoFile = NoFile
PROPERTIES
    ExistingFileKept
CHECK_DEADLOCK FALSE
