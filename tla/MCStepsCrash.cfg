SPECIFICATION Spec
CONSTANTS
    a = a
    b = b
    c = c
    s = s
    w1 = w1
    w2 = w2
    Nodes = {a, b}
    Synthesizers = {s}
    Workflows <- MCWorkflows
    Workers = {w1}
    MaxCrashes = 2
    Redelivery = TRUE
INVARIANTS
    TypeOK
    SingleDispatch
    DependencyOrder
    PlannedAfterDependencies
    VerdictBacked
PROPERTIES
    ImplementsUntilCrash
