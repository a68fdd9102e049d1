-------------------------- MODULE MCDomainOwnership --------------------------
(* The instance of DomainOwnership for TLC: see Ownership.cfg.              *)
EXTENDS DomainOwnership
=============================================================================
