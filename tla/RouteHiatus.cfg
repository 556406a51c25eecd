\* Stopped for longer than the lookback, so that both cursors are set anew;
\* any request fails, the wallet is empty, roots and finality are late.
SPECIFICATION Spec
CONSTANTS
    Epochs = {e1}
    NoClaim = NoClaim
    NoTask = NoTask
    NoBlock = NoBlock
    MaxClock = 4
    MaxSent = 1
    MaxRestarts = 1
    StartDelay = 0
    ChallengePeriod = 0
    Finality = 1
    Lookback = 2
    Chunk = 2
    Window = 2
    Slack = 0
    RelayDelay = 0
    RetryDelay = 1
    ClaimRoots = {"correct", "wrong"}
    Rivals = {"verify"}
    Faults = {"crash", "rpc", "funds", "unconfirmed", "notFinal"}
INVARIANTS
    JudgedRight
    WinnerIsKnown
    NothingMissed
    ActsInSync
PROPERTIES
    ForgetsOnlySettled
\* Blocks and restarts are bounded: the model stops where the system would not.
CHECK_DEADLOCK FALSE
