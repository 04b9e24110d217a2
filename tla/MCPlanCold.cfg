SPECIFICATION FairSpec
CONSTANTS
    w1 = w1
    w2 = w2
    Workers = {w1}
    NumActions = 2
    MaxAttempts = 2
    InlineBudget = 1
    MaxPlans = 1
    MaxCrashes = 0
    Redelivery = FALSE
    Entries = {"event"}
    Hydrates = FALSE
    WarmStore = FALSE
PROPERTIES
    NodeSettles
CHECK_DEADLOCK FALSE
