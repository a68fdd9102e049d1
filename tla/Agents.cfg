SPECIFICATION Spec
CONSTANTS
    lead = lead helper = helper
    Agent = {lead, helper} NoAgent = none
    Parent <- MCParent MaxSteps <- MCMaxSteps
    RunSteps = 2 MaxAgents = 2 MaxCommands = 1 MaxConcurrent = 2 MaxCalls = 3 MaxCrashes = 1
CHECK_DEADLOCK FALSE
INVARIANTS
    TaskEndsTogether
    BudgetsHold
PROPERTIES
    InterruptionIsFenced
    StopsEnd
