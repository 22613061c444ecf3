SPECIFICATION Spec
CONSTANTS
    none = none
    p1 = p1
    p2 = p2
    Payload <- MCPayload
    Empty = none
    GarbledKinds <- KindsButEnd
    MaxPayloads = 3
    MaxFaults = 2
INVARIANTS
    SuccessMeansWhole
    SuccessLeavesNothingBehind
    FailureHasCause
PROPERTIES
    DeliverySpec
CHECK_DEADLOCK FALSE
