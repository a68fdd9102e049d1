SPECIFICATION LiveSpec
CONSTANTS
    o1 = o1  u1 = u1  u2 = u2
    Op = {o1, o2}
    Resource = {r1}
    Run = {u1, u2}
    RunOf <- TwoRuns
    MaxConcurrentOps = 1
    NoOp = NoOp
PROPERTIES
    WaitIsAnswered
