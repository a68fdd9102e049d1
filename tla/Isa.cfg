CONSTANTS
    a1 = a1
    a2 = a2
    b = b
    o1 = o1
    o2 = o2
    None = None
    Sub = {a1, a2, b}
    Id = {"x", "y", "z"}
    OpId = {o1, o2}
    Root = {"r1", "r2"}
    Program <- MCProgram
    RetryOf <- MCRetryOf
    MaxConcurrency = 2
    MaxFaults = 2
SPECIFICATION Spec
CHECK_DEADLOCK FALSE
INVARIANTS
    EffectsAreTrue
    LocksAreSound
    AdmissionIsFresh
PROPERTIES
    SubmissionsEnd
