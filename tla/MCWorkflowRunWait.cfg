SPECIFICATION Spec
CONSTANTS
    Driver = {d1}
    NoDriver = NoDriver
    Tasks = 0
    NeedsApproval = {0}
    Waits = TRUE
    MaxTokens = 2
    MaxCrashes = 0
INVARIANT
    WaitIsResumable
CHECK_DEADLOCK FALSE
