SPECIFICATION LiveSpec
CONSTANTS
    Proc = {p1, p2}
    NoProc = NoProc
    MaxEpoch = 4
CHECK_DEADLOCK FALSE
INVARIANTS
    OneCurrentOwner
    FreshOwnerKnowsAll
PROPERTIES
    LoneAcquirerSucceeds
