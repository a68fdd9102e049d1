------------------------- MODULE MCServiceSupervisor -------------------------
(* One restart; the callers and the restart limit come from the cfg.         *)
EXTENDS ServiceSupervisor
=============================================================================
