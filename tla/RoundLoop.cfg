SPECIFICATION Spec
CONSTANTS
    Threshold = 2
    Realert = 12
    Interval = 12
    ClaimDelay = 4
    Ladder = 1
    Slack = 3
    Floor = 3
    Attempts = 4
    RetryDelay = 1
    PostTime = 1
    FetchTime = 1
    ReceiptTime = 2
    ClaimTime = 5
    RollDelay = 1
    OtherAlarms = 0
    LaggingNonce = FALSE
    MaxFaults = 2
    MaxTime = 64
INVARIANTS
    NoRoundIsMissed
    SendsAreForTheOpenRound
    BetHasTheNextNonce
    OperatorIsTold
CHECK_DEADLOCK FALSE
