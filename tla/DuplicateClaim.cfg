\* No fault, no rival: the block of a Claimed is scanned twice.
SPECIFICATION Spec
CONSTANTS
    Epochs = {e1}
    NoClaim = NoClaim
    NoTask = NoTask
    NoBlock = NoBlock
    MaxClock = 4
    MaxSent = 1
    MaxRestarts = 0
    StartDelay = 1
    ChallengePeriod = 1
    Finality = 1
    Lookback = 5
    Chunk = 2
    Window = 2
    Slack = 0
    RelayDelay = 1
    RetryDelay = 1
    ClaimRoots = {"wrong"}
    Rivals = {}
    Faults = {}
INVARIANTS
    NoDuplicateClaim
\* Blocks and restarts are bounded: the model stops where the system would not.
CHECK_DEADLOCK FALSE
