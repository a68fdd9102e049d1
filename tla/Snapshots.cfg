SPECIFICATION Spec
CONSTANTS
    rules = rules src = src env = env lib = lib a = a b = b
    job = job daemon = daemon v0 = v0 v1 = v1 absent = absent
    Absent = absent Nobody = nobody
    Path <- MCPath Root <- MCRoot RootOf <- MCRootOf Tracked <- MCTracked
    Head <- MCHead First <- MCFirst Contents <- MCContents
    Op = {job, daemon} OpRoot <- MCOpRoot Confined = {job}
    MaxEdits = 2 MaxRollbacks = 1 MaxFaults = 1
CHECK_DEADLOCK FALSE
INVARIANTS
    NothingKeptIsLost
    ClaimsAreTrue
    NoWorkInHalfRestored
