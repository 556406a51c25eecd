\* Any claim; the others challenge, start, verify, relay and withdraw too.
SPECIFICATION Spec
CONSTANTS
    Epochs = {e1}
    NoClaim = NoClaim
    NoTask = NoTask
    NoBlock = NoBlock
    MaxClock = 4
    MaxSent = 1
    MaxRestarts = 0
    StartDelay = 1
    ChallengePeriod = 1
    Finality = 1
    Lookback = 5
    Chunk = 2
    Window = 2
    Slack = 0
    RelayDelay = 0
    RetryDelay = 1
    ClaimRoots = {"correct", "wrong"}
    Rivals = {"challenge", "start", "verify", "relay", "withdraw"}
    Faults = {}
INVARIANTS
    TypeOK
    StoredIsHistory
    JudgedRight
    WinnerIsKnown
    NothingMissed
    SentIsResolvable
    MessagesFollowed
PROPERTIES
    ForgetsOnlySettled
    FileIsReplica
\* Blocks and restarts are bounded: the model stops where the system would not.
CHECK_DEADLOCK FALSE
