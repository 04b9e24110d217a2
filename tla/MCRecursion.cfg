SPECIFICATION FairSpec
CONSTANTS
    MaxDepth = 3
    InlineBudget = 1
    NumNodes = 2
    MaxRuns = 2
    MaxEvents = 14
INVARIANTS
    TypeOK
    NeverEndsSilently
PROPERTIES
    CompletedStands
    Drains
CHECK_DEADLOCK FALSE
