CONSTANTS
    Requests = {r1}
    NoRequest = none
    Stores = 2
    External = {1}
    Workers = {w1, w2}
    Writes = {p1, p2}
    Pinned = {p1}
    Old = old
SPECIFICATION Spec
SYMMETRY Interchangeable
VIEW Seen
CHECK_DEADLOCK FALSE
INVARIANTS TypeOK ErasedStaysErased
PROPERTIES HoldRespected ProgressKept
