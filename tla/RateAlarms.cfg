SPECIFICATION Spec
CONSTANTS
    Symbols = {"btc", "eth", "sol"}
    Bars = 3
    Rounds = 5
    MinSamples = 3
    PublishEnter = 400
    PublishExit = 200
    GenuineEnter = 200
    GenuineExit = 100
    StaticEnter = 400
    StaticExit = 200
    HeaderEnter = 200
    HeaderExit = 100
    BurstThreshold = 2
    PublishRealert = 3
    GenuineRealert = 2
    EndpointRealert = 4
    LastEpoch = 6
    MaxOdd = 2
INVARIANTS
    WindowsAreWhole
    WindowsCountRounds
    LossIsNeverSilent
    BurstsAreSeen
PROPERTIES
    AlarmsFollowTheRate
CHECK_DEADLOCK FALSE
