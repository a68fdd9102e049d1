--------------------------- MODULE MCResourceArbiter ---------------------------
(* Small instances: interchangeable operations of one run, or two runs.      *)
EXTENDS ResourceArbiter, TLC
CONSTANTS o1, u1, u2
OneRun == [o \in Op |-> u1]
TwoRuns == [o \in Op |-> IF o = o1 THEN u1 ELSE u2]
ArbiterSymmetry == Permutations(Op) \cup Permutations(Resource)
=============================================================================
