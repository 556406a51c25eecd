\* Five blocks, three attempts a request, as in the code.
SPECIFICATION FairSpec
CONSTANTS
    Targets = {0, 1, 2, 3}
    Attempts = 3
    MaxBlocks = 5
    MaxTime = 3
INVARIANTS
    Bracketed
PROPERTIES
    SearchIsLookup
    EachSearchEnds
\* Blocks are bounded and a panic ends the model, where the route starts again.
CHECK_DEADLOCK FALSE
