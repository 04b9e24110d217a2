SPECIFICATION FairSpec
CONSTANTS
    a = a
    b = b
    c = c
    s = s
    Nodes = {a, b, c}
    Synthesizers = {s}
    Workflows <- MCWorkflows
INVARIANTS
    TypeOK
    DependencyOrder
    SynthesizerSeesEveryResult
    RunVerdictSound
    RunNeverStranded
PROPERTIES
    RunVerdictStable
    DispatchedOnce
    RunSettles
