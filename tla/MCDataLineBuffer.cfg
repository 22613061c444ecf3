SPECIFICATION Spec
CONSTANTS
    Chunks <- ShowChunks
    Texts = {}
    MAX_CHUNK_BYTES = 30
    BLOCK = 6
    WordBytes = 1
    Previous = {}
INVARIANT BufferHoldsCode
CHECK_DEADLOCK FALSE
