SPECIFICATION Spec
CONSTANTS
    WeekLen = 2
    LastDay = 9
    WeakLimit = 3
    BlindLimit = 3
    FlagDays = 3
    FaultKinds = {"silent", "misread", "refuses", "manual", "operator", "down", "kill", "unusable", "torn", "dies"}
    KillAt = {"evidence", "marker", "decide", "act", "save"}
    MaxFaults = 2
INVARIANTS
    WeakStreakIsExact
    WeakWeeksStop
    BlindWeeksStop
    BlindSundayIsRetried
CHECK_DEADLOCK FALSE
