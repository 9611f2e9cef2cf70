SPECIFICATION Spec
CONSTANTS
    WeekLen = 2
    LastDay = 10
    WeakLimit = 3
    BlindLimit = 3
    FlagDays = 3
    FaultKinds = {"kill", "operator"}
    KillAt = {"enable"}
    MaxFaults = 2
PROPERTY
    ReleaseHasADecision
CHECK_DEADLOCK FALSE
