SPECIFICATION Spec
CONSTANTS
    RcFiles = {"none", "set", "before", "after", "preexec"}
    Status = {0, 1}
    MaxDepth = 3
    MaxCalls = 2
PROPERTY SourcedOnce
CHECK_DEADLOCK FALSE
