------------------------------ MODULE MCGateway ------------------------------
(***************************************************************************)
(* The two halves of the gateway in one run.  They share nothing: a        *)
(* behaviour is a session through the proxy (no race) or a race of agents  *)
(* (no session).                                                           *)
(***************************************************************************)
EXTENDS Gateway, Race

NoRace ==
    /\ mode = "shadow" /\ gated = FALSE /\ tracked = FALSE
    /\ ws = Base /\ origin = Base /\ pc = "no race" /\ next = 1 /\ cand = [c \in 1..N |-> NoCand]
    /\ verdict = <<>> /\ foreign = {} /\ spent = [edits |-> 0, gate |-> 0]

MCInit == GatewayInit /\ (NoRace \/ RaceInit)

MCNext ==
    \/ pc = "no race" /\ GatewayNext /\ UNCHANGED raceVars
    \/ pc # "no race" /\ RaceNext /\ UNCHANGED gatewayVars

MCSpec == MCInit /\ [][MCNext]_<<gatewayVars, raceVars>>
=============================================================================
