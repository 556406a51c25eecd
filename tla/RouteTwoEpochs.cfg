\* Two epochs share the files, the queue and the dispatcher; others send, relay
\* and withdraw too.
SPECIFICATION Spec
CONSTANTS
    Epochs = {e1, e2}
    NoClaim = NoClaim
    NoTask = NoTask
    NoBlock = NoBlock
    MaxClock = 3
    MaxSent = 2
    MaxRestarts = 0
    StartDelay = 1
    ChallengePeriod = 1
    Finality = 1
    Lookback = 5
    Chunk = 2
    Window = 2
    Slack = 0
    RelayDelay = 0
    RetryDelay = 1
    ClaimRoots = {"correct", "wrong"}
    Rivals = {"send", "relay", "withdraw"}
    Faults = {}
SYMMETRY EpochSymmetry
INVARIANTS
    JudgedRight
    NothingMissed
    SentIsResolvable
\* Blocks and restarts are bounded: the model stops where the system would not.
CHECK_DEADLOCK FALSE
