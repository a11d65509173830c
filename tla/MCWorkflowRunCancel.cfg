SPECIFICATION Spec
CONSTANTS
    Driver = {d1}
    NoDriver = NoDriver
    Tasks = 1
    NeedsApproval = {}
    Waits = FALSE
    MaxTokens = 0
    MaxCrashes = 0
INVARIANT
    CancelCompensates
CHECK_DEADLOCK FALSE
