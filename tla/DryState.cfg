SPECIFICATION Spec
CONSTANTS
    LastEpoch = 2
    Interval = 3
    Buffer = 1
    Stake = 2
    Gas = 1
    Payout = 4
    Inits = {6, 7}
    MaxCrashes = 2
    MaxFresh = 1
    MaxReads = 1
    MaxTime = 11
INVARIANTS
    BankrollAddsUp
    SettlementsAreAnnounced
    PassIsComplete
CHECK_DEADLOCK FALSE
