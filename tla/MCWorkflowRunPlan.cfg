SPECIFICATION Spec
CONSTANTS
    Driver = {d1}
    NoDriver = NoDriver
    Tasks = 2
    NeedsApproval = {}
    Waits = FALSE
    MaxTokens = 0
    MaxCrashes = 0
INVARIANT
    CompensatedIsComplete
CHECK_DEADLOCK FALSE
