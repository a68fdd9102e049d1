SPECIFICATION Spec
CONSTANTS
    Tx = {t1, t2}
    Path = {a, b}
    Present = {a}
    Dir = Dir
    NoTx = NoTx
    t1 = t1  t2 = t2
    MaxWork <- OneBusy
    MaxOutside = 1
    MaxFaults = 1
CHECK_DEADLOCK FALSE
INVARIANTS
    CopyIsIsolated
PROPERTIES
    ReadsStillHold
    CommitIsAtomic
