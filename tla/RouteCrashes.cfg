\* The process is killed at any await and between two writes, and started again.
SPECIFICATION Spec
CONSTANTS
    Epochs = {e1}
    NoClaim = NoClaim
    NoTask = NoTask
    NoBlock = NoBlock
    MaxClock = 4
    MaxSent = 2
    MaxRestarts = 1
    StartDelay = 0
    ChallengePeriod = 0
    Finality = 1
    Lookback = 5
    Chunk = 2
    Window = 2
    Slack = 0
    RelayDelay = 0
    RetryDelay = 1
    ClaimRoots = {"wrong"}
    Rivals = {"challenge"}
    Faults = {"crash", "lost", "notFinal"}
INVARIANTS
    NothingMissed
    ActsInSync
    SentIsResolvable
    MessagesFollowed
PROPERTIES
    ForgetsOnlySettled
    FileIsReplica
\* Blocks and restarts are bounded: the model stops where the system would not.
CHECK_DEADLOCK FALSE
