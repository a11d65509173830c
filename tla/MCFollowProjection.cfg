SPECIFICATION Spec
CONSTANTS
    Tasks <- TwoTasksPerEvent
    Workers = {w1, w2}
    NoWorker = none
    MaxRetries = 2
    Followers = {f1, f2}
    Tweets = 2
    PageSize = 1
    Capacity = 1
    High = 2
    Low = 1
    MaxChanges = 2
    MaxFaults = 1
SYMMETRY Interchangeable
INVARIANTS TypeOK TimelineExact MarksExact
PROPERTIES KeepsLedger
CHECK_DEADLOCK FALSE
