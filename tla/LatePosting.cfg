\* Two pages of two blocks each, and a batch that is posted after both.
SPECIFICATION Spec
CONSTANTS
    SearchRange = 1
    MaxIterations = 2
    ReorgDepth = 1
    Slack = 1
    Depth = 2
    MaxBlocks = 7
    MaxBatches = 1
INVARIANTS
    AnyDelayHandled
CHECK_DEADLOCK FALSE
