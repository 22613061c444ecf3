SPECIFICATION ShellsSpec
CONSTANTS
    RcFiles = {"none", "set", "before", "after", "preexec"}
    Status = {0, 1}
    MaxDepth = 3
    MaxCalls = 2
    ZshRc = {"none", "before", "after", "theme", "late"}
    Cookies = {"cookie", "other"}
    MaxShells = 3
INVARIANTS
    StatusReported
    QuietInScreen
    PromptCommandKept
    PromptMarked
CHECK_DEADLOCK FALSE
