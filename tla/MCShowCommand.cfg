SPECIFICATION Spec
CONSTANTS
    garbage = garbage
    Options <- ShowOptions
    CommandLines <- MCCommandLines
    File <- MCFile
    Contents <- MCContents
    MaxChunkBytes = 3
    MaxErrors = 2
    Garbage = garbage
INVARIANTS
    OptionsAsWritten
    ChainVerifies
    SuccessMeansSent
    TransfersClosed
CHECK_DEADLOCK FALSE
