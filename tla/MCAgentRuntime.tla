-------------------------- MODULE MCAgentRuntime --------------------------
\* A task of a lead and its helper.
EXTENDS AgentRuntime

CONSTANTS lead, helper

MCParent == [a \in Agent |-> IF a = helper THEN lead ELSE NoAgent]
MCMaxSteps == [a \in Agent |-> IF a = lead THEN 2 ELSE 1]

=============================================================================
