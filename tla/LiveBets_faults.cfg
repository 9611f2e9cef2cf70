SPECIFICATION Spec
CONSTANTS
    LastEpoch = 5
    LastBetEpoch = 3
    Interval = 3
    Buffer = 1
    MaxTime = 12
    Padding = 1
    MaxPerTx = 2
    MaxFaults = 1
    FaultKinds = {"crash", "append", "reconcile", "scan", "partial", "timeout", "postpone", "pause"}
INVARIANTS
    LedgerMatchesChain
    NothingLostBehindCursor
    SettlementAnnouncedOnce
    InPlayStakeIsCounted
    PassIsComplete
PROPERTY
    KeepsBook
CHECK_DEADLOCK FALSE
