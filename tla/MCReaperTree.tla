---------------------------- MODULE MCReaperTree ----------------------------
(* The instance of ReaperTree for TLC: see ReaperTree.cfg.                  *)
EXTENDS ReaperTree
=============================================================================
