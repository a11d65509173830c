SPECIFICATION FairSpec
CONSTANTS
    Driver = {d1, d2}
    NoDriver = NoDriver
    Tasks = 2
    NeedsApproval = {2}
    Waits = FALSE
    MaxTokens = 0
    MaxCrashes = 1
PROPERTY
    AbandonedIsReclaimed
CHECK_DEADLOCK FALSE
