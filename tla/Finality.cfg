SPECIFICATION Spec
CONSTANTS
    SearchRange = 1
    MaxIterations = 2
    ReorgDepth = 1
    Slack = 1
    Depth = 2
    MaxBlocks = 6
    MaxBatches = 2
INVARIANTS
    TypeOK
    YesIsFinal
    NoIsRight
CHECK_DEADLOCK FALSE
