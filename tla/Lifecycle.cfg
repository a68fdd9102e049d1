SPECIFICATION MCLiveSpec
CONSTANTS
    Gated = TRUE
    Contained = FALSE
    MaxCrashes = 2
CHECK_DEADLOCK FALSE
INVARIANTS
    ResultIsFinal
    SettledIsTrue
    NoPrematureRelease
PROPERTIES
    EveryCallEnds
