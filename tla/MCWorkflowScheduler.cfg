SPECIFICATION FairSpec
CONSTANTS
    a = a
    b = b
    c = c
    r = r
    w = w
    j = j
    left = left
    right = right
    NoBranch = NoBranch
    Branch = {left, right}
    Node <- DiamondNode
    Edge <- DiamondEdge
    Source <- DiamondSource
    Target <- DiamondTarget
    SourceHandle <- DiamondHandle
    NodeType <- DiamondType
    NodeOrder <- DiamondOrder
    MaxAttempts <- DiamondAttempts
    MaxParallelNodes = 2
    MaxSteps = 8
    MaxResumes = 2
INVARIANTS
    TypeOK
    InputsVisible
    SkipsDeadPathsOnly
    EventsReplayable
    NeverStalls
PROPERTIES
    DeclarationOrder
    SettledIsFinal
    EventuallyReturns
CHECK_DEADLOCK FALSE
