SPECIFICATION LiveSpec
CONSTANTS
    MaxRestarts = 1
    Caller = {c1, c2}
    Probe = Probe
CHECK_DEADLOCK FALSE
INVARIANTS
    InstancesIsolated
PROPERTIES
    StopIsFinal
