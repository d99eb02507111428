SPECIFICATION FairSpec
CONSTANTS
    n1 = n1
    n2 = n2
    w1 = w1
    w2 = w2
    w3 = w3
    w4 = w4
    Nodes = {n1, n2}
    Workers = {w1, w2, w3, w4}
    NodeOf <- TwoByTwo
    Variants = {TRUE, FALSE}
    MaxStage = 2
INVARIANTS
    TypeOK
    StartTogether
    MeasuredFromStart
    LocalsOutliveJobs
PROPERTY
    EndsUnlessOvertaken
