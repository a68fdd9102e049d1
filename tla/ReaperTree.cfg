SPECIFICATION TreeSpec
CONSTANTS
    MaxPid = 3
    Root = 2
    MaxForks = 1
    MaxStrangers = 1
    KillRounds = 3
    MaxCommands = 1
    MaxFaults = 1
INVARIANTS
    AnswersAreTrue
    OnlyOurTree
PROPERTIES
    TreeEnds
