\* A prompt validator; others verify and withdraw before it does.
SPECIFICATION PromptSpec
CONSTANTS
    Epochs = {e1}
    NoClaim = NoClaim
    NoTask = NoTask
    NoBlock = NoBlock
    MaxClock = 8
    MaxSent = 2
    MaxRestarts = 0
    StartDelay = 1
    ChallengePeriod = 1
    Finality = 1
    Lookback = 8
    Chunk = 2
    Window = 2
    Slack = 1
    RelayDelay = 1
    RetryDelay = 1
    ClaimRoots = {"correct", "wrong"}
    Rivals = {"verify", "withdraw"}
    Faults = {}
PROPERTIES
    WrongClaimChallenged
    CorrectClaimPaid
    WrongClaimSettled
\* Blocks and restarts are bounded: the model stops where the system would not.
CHECK_DEADLOCK FALSE
