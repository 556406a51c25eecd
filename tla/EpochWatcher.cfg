\* Two epochs to claim; others save and claim; one thing goes wrong.
SPECIFICATION Spec
CONSTANTS
    Period = 3
    BeforeBuffer = 1
    AfterBuffer = 1
    ClaimRetry = 1
    Finality = 1
    Lookback = 10
    Recent = 6
    MakeClaims = TRUE
    Rivals = {"save", "claim", "resolve"}
    Faults = {"crash", "fatal", "timeout", "lost", "late", "unposted"}
    MaxClock = 7
    MaxCount = 2
    MaxSaves = 2
    MaxClaims = 1
    MaxHindered = 1
INVARIANTS
    TypeOK
    EachEpochSaved
    SkipsOnlySaved
    ClaimsTrue
    EachEpochClaimed
PROPERTIES
    NoWastedDeposit
    RivalsHarmless
\* Time is bounded: the model stops where the system would not.
CHECK_DEADLOCK FALSE
