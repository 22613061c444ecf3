SPECIFICATION FairSpec
CONSTANTS
    none = none
    p1 = p1
    p2 = p2
    Payload <- MCPayload
    Empty = none
    GarbledKinds <- Kinds
    MaxPayloads = 3
    MaxFaults = 2
INVARIANTS
    OutputIsPrefix
PROPERTIES
    UndisturbedUploadReturns
    StaleLineRefused
CHECK_DEADLOCK FALSE
