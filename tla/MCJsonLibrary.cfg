SPECIFICATION LibrarySpec
CONSTANTS
    n1 = n1
    n2 = n2
    n3 = n3
    n4 = n4
    v1 = v1
    v2 = v2
    doc1 = doc1
    doc2 = doc2
    Name = {n1, n2, n3, n4}
    Value = {v1, v2}
    HashOf <- MCHashOf
    STARTING_CAPACITY = 2
    MaxCapacity = 8
    TextName = {n1, n2}
    MAX_NESTING = 2
    MaxTokens = 9
    Variable = {doc1, doc2}
    zero = zero
    little = little
    one = one
    bad = bad
    Number <- MCNumber
    EPSILON = 2
    Data = {zero, little, one, bad}
    Invalid = {bad}
    Path <- MCPath
    MaxItems = 2
    MaxBlocks = 6
    Bytes = {0, 10, 31, 34, 65, 92, 128, 143, 144, 160, 193, 194, 224, 237, 240, 244}
    Escape <- MCEscape
    MaxBytes = 4
    MaxPieces = 2
VIEW View
SYMMETRY Alikes
INVARIANTS
    TreeSpellsText
    BlocksFreedOnce
    BlocksOwned
    EqualSaysTheSame
    Utf8Exact
    StringsRead
    EscapesDecode
PROPERTIES
    MapSpec
    FailureChangesNothing
    EffectSeen
CHECK_DEADLOCK FALSE
