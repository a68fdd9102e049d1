SPECIFICATION MCSpec
CONSTANTS
    MaxRequests = 4
    MaxAnswers = 2
    MaxExecs = 2
    MaxTroubles = 2
    MaxLaunches = 2
    N = 2
    File = {a, b}
    New = {b}
    MaxForeign = 1
    MaxGateWrites = 1
CHECK_DEADLOCK FALSE
INVARIANTS
    RaceIsSerial
PROPERTIES
    ReplayIsTrue
    CrashedToolAccounted
