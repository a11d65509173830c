SPECIFICATION Spec
CONSTANTS
    Driver = {d1, d2}
    NoDriver = NoDriver
    Tasks = 2
    NeedsApproval = {0, 2}
    Waits = TRUE
    MaxTokens = 2
    MaxCrashes = 1
SYMMETRY DriverSymmetry
INVARIANTS
    TypeOK
    SingleExecution
    StrictOrder
    OutcomeIsTrue
PROPERTIES
    LeaseHolds
    CancelConverges
CHECK_DEADLOCK FALSE
