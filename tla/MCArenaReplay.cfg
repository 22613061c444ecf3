SPECIFICATION ReplaySpec
CONSTANTS
    Handle = {a, b}
    Value = {u, v}
    Junk = u
    Sizes = {1, 5}
    WordBytes = 2
    REGION_DEFAULT_CAPACITY = 2
    MaxRegions = 3
    MaxAllocations = 3
SYMMETRY Symmetric
INVARIANTS
    TypeOK
    BlocksInBounds
    BlocksDisjoint
    ReplayNeedsNoMemory
PROPERTIES
    StoreSpec
