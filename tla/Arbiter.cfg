SPECIFICATION Spec
CONSTANTS
    o1 = o1  u1 = u1  u2 = u2
    Op = {o1, o2, o3, o4}
    Resource = {r1, r2}
    Run = {u1}
    RunOf <- OneRun
    MaxConcurrentOps = 2
    NoOp = NoOp
SYMMETRY ArbiterSymmetry
INVARIANTS
    IsolationHeld
    LeaseNamesHolder
PROPERTIES
    AdmissionIsFair
