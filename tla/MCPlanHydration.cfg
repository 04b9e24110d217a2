SPECIFICATION Spec
CONSTANTS
    w1 = w1
    w2 = w2
    Workers = {w1}
    NumActions = 3
    MaxAttempts = 2
    InlineBudget = 1
    MaxPlans = 2
    MaxCrashes = 1
    Redelivery = TRUE
    Entries = {"event"}
    Hydrates = TRUE
    WarmStore = TRUE
INVARIANTS
    ExecutesInOrder
    RepeatsOnlyAfterCrash
    ExecutedIsTrue
CHECK_DEADLOCK FALSE
