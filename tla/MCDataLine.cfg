SPECIFICATION Spec
CONSTANTS
    Chunks <- MCChunks
    Texts <- MCTexts
    MAX_CHUNK_BYTES = 40
    BLOCK = 6
    WordBytes = 1
    Previous <- MCPrevious
INVARIANTS
    RoundTrip
    
    HashesPaddedMessage
CHECK_DEADLOCK FALSE
