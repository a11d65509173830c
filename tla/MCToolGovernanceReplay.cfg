SPECIFICATION Spec
CONSTANTS
    Callers = {c1, c2}
    Keys = {k1}
    Digests = {d1}
    Values = {v2}
    Large = {v2}
    NeedsApproval = TRUE
    NeedsKey = TRUE
    MaxAttempts = 2
    Threshold = 1
    MaxCalls = 1
INVARIANT
    CommittedIsReplayable
CHECK_DEADLOCK FALSE
