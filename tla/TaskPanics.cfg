\* One receipt is lost, and SendSnapshot outlives the claim it reads.
SPECIFICATION Spec
CONSTANTS
    Epochs = {e1}
    NoClaim = NoClaim
    NoTask = NoTask
    NoBlock = NoBlock
    MaxClock = 4
    MaxSent = 2
    MaxRestarts = 0
    StartDelay = 1
    ChallengePeriod = 1
    Finality = 1
    Lookback = 5
    Chunk = 2
    Window = 2
    Slack = 0
    RelayDelay = 0
    RetryDelay = 1
    ClaimRoots = {"wrong"}
    Rivals = {"challenge"}
    Faults = {"lost"}
INVARIANTS
    TasksDoNotPanic
\* Blocks and restarts are bounded: the model stops where the system would not.
CHECK_DEADLOCK FALSE
