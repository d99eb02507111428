SPECIFICATION FairSpec
CONSTANTS
    n1 = n1
    n2 = n2
    w1 = w1
    w2 = w2
    Workers = {w1, w2}
    Nodes = {n1, n2}
    Backlog = 1
    Variants <- Rcopt
    MaxServers = 1
    MaxStage = 2
    Nobody = Nobody
PROPERTY
    ExchangesEnd
CHECK_DEADLOCK FALSE
