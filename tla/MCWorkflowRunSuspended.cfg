SPECIFICATION Spec
CONSTANTS
    Driver = {d1, d2}
    NoDriver = NoDriver
    Tasks = 1
    NeedsApproval = {1}
    Waits = FALSE
    MaxTokens = 0
    MaxCrashes = 0
INVARIANT
    SuspendedCompensationResumable
CHECK_DEADLOCK FALSE
