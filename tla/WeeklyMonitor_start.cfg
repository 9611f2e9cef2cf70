SPECIFICATION Spec
CONSTANTS
    WeekLen = 2
    LastDay = 10
    WeakLimit = 3
    BlindLimit = 3
    FlagDays = 3
    FaultKinds = {"refuses"}
    KillAt = {}
    MaxFaults = 1
PROPERTY
    StartHasADecision
CHECK_DEADLOCK FALSE
