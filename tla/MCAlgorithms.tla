---------------------------- MODULE MCAlgorithms ----------------------------
(***************************************************************************)
(* One run for two specifications without a common part: a behaviour is one*)
(* of Algorithms (computes one output, the drainer idle) or one of         *)
(* OutputDrain (no input).                                                 *)
(***************************************************************************)
EXTENDS Algorithms, OutputDrain

MCInit ==
    \/ Init /\ Idle
    \/ input = [kind |-> "drain"] /\ output = <<"no input">> /\ Idle

MCNext ==
    \/ Next /\ UNCHANGED drainVars
    \/ input.kind = "drain" /\ DrainNext /\ UNCHANGED vars

MCSpec == MCInit /\ [][MCNext]_<<vars, drainVars>>
=============================================================================
