----------------------- MODULE MCWorkspaceTransactions -----------------------
(* One transaction that reads, writes and is inspected, and one that gets in  *)
(* its way with a single step.                                                *)
EXTENDS WorkspaceTransactions
CONSTANTS t1, t2
OneBusy == t1 :> 2 @@ t2 :> 1
=============================================================================
