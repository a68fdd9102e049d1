------------------------- MODULE MCOperationLifecycle -------------------------
(***************************************************************************)
(* An operation under two drivers: the one of the cfg (gated spawn,        *)
(* descendants by process group), and the opposite one (no gate, in a      *)
(* cgroup).  A behaviour has one of them.                                  *)
(***************************************************************************)
EXTENDS OperationLifecycle

VARIABLE driver

Opposite == INSTANCE OperationLifecycle WITH Gated <- ~Gated, Contained <- ~Contained

Both(A, B) == UNCHANGED driver /\ ((driver = "given" /\ A) \/ (driver = "opposite" /\ B))

MCInit == Init /\ driver \in {"given", "opposite"}

MCNext ==
    \/ driver = "given" /\ Next /\ UNCHANGED driver
    \/ driver = "opposite" /\ Opposite!Next /\ UNCHANGED driver

MCLiveSpec ==
    /\ MCInit /\ [][MCNext]_<<vars, driver>>
    /\ WF_vars(Both(RegisterIntent \/ RegisterFails \/ CancelBeforeSpawn,
                    Opposite!RegisterIntent \/ Opposite!RegisterFails \/ Opposite!CancelBeforeSpawn))
    /\ WF_vars(Both(SpawnChild \/ SpawnFails, Opposite!SpawnChild \/ Opposite!SpawnFails))
    /\ WF_vars(Both(Activate \/ ActivateRefused, Opposite!Activate \/ Opposite!ActivateRefused))
    /\ WF_vars(Both(AbortDone, Opposite!AbortDone))
    /\ WF_vars(Both(PipeDone, Opposite!PipeDone))
    /\ WF_vars(Both(Supervise, Opposite!Supervise))
    /\ WF_vars(Both(Recover, Opposite!Recover))
    /\ WF_vars(Both(RecoverRun, Opposite!RecoverRun))
=============================================================================
