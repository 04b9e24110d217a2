SPECIFICATION Spec
CONSTANTS
    w1 = w1
    w2 = w2
    Workers = {w1, w2}
    NumActions = 2
    MaxAttempts = 1
    InlineBudget = 1
    MaxPlans = 2
    MaxCrashes = 0
    Redelivery = TRUE
    Entries = {"event"}
    Hydrates = FALSE
    WarmStore = TRUE
INVARIANTS
    ExecutesInOrder
    RunCompletionEarned
CHECK_DEADLOCK FALSE
SYMMETRY WorkerSymmetry
