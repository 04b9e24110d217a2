SPECIFICATION Spec
CONSTANTS
    a = a
    b = b
    c = c
    s = s
    w1 = w1
    w2 = w2
    Nodes = {a, b, c}
    Synthesizers = {s}
    Workflows <- MCWorkflows
    Workers = {w1, w2}
    MaxCrashes = 0
    Redelivery = FALSE
INVARIANTS
    SingleDispatch
    CompletedIsEarned
    ReportsComeFirst
CHECK_DEADLOCK FALSE
