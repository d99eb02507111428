SPECIFICATION FairSpec
CONSTANTS
    n1 = n1
    n2 = n2
    w1 = w1
    w2 = w2
    Workers = {w1, w2}
    Nodes = {n1, n2}
    Backlog = 1
    Variants <- AllVariants
    MaxServers = 2
    MaxStage = 1
    Nobody = Nobody
INVARIANTS
    TypeOK
    ContextsComplete
    PhasesApart
    HandlerEnds
PROPERTY
    EverybodyEnds
CHECK_DEADLOCK FALSE
