SPECIFICATION FairSpec
CONSTANTS
    a = a
    b = b
    c = c
    s = s
    w1 = w1
    w2 = w2
    Nodes = {a, b}
    Synthesizers = {s}
    Workflows <- MCWorkflows
    Workers = {w1}
    MaxCrashes = 1
    Redelivery = FALSE
PROPERTIES
    GraphIsFollowedUp
CHECK_DEADLOCK FALSE
