SPECIFICATION Spec
CONSTANTS
    Callers = {c1, c2}
    Keys = {k1}
    Digests = {d1, d2}
    Values = {v1, v2}
    Large = {v2}
    NeedsApproval = TRUE
    NeedsKey = TRUE
    MaxAttempts = 2
    Threshold = 1
    MaxCalls = 1
SYMMETRY Interchangeable
INVARIANTS
    TypeOK
    AnswersAgree
    OneHandlerPerLease
    ConsumedIsDone
    RunsOnlyApproved
CHECK_DEADLOCK FALSE
