SPECIFICATION Spec
CONSTANTS
    a = a
    b = b
    c = c
    r = r
    w = w
    j = j
    left = left
    right = right
    NoBranch = NoBranch
    Branch = {left, right}
    Node <- RootsNode
    Edge <- RootsEdge
    Source <- RootsSource
    Target <- RootsTarget
    SourceHandle <- RootsHandle
    NodeType <- RootsType
    NodeOrder <- RootsOrder
    MaxAttempts <- RootsAttempts
    MaxParallelNodes = 2
    MaxSteps = 0
    MaxResumes = 2
INVARIANT
    NeverStalls
CHECK_DEADLOCK FALSE
