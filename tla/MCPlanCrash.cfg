SPECIFICATION Spec
CONSTANTS
    w1 = w1
    w2 = w2
    Workers = {w1}
    NumActions = 2
    MaxAttempts = 2
    InlineBudget = 1
    MaxPlans = 2
    MaxCrashes = 1
    Redelivery = TRUE
    Entries = {"event", "pointer"}
    Hydrates = FALSE
    WarmStore = TRUE
INVARIANTS
    TypeOK
    NeverRepeatsSuccess
    RunCompletionEarned
    SettlementEarned
    SettlesConsistently
    PointerServed
PROPERTIES
    VerdictStable
CHECK_DEADLOCK FALSE
