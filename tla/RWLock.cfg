SPECIFICATION FairSpec
CONSTANTS
    Workers = {w1, w2}
    Lines = {l1, l2}
    Excl = 4
    WordSize = 64
    Variants <- AllVariants
    MaxUpdates = 2
    NoOwner = NoOwner
INVARIANTS
    TypeOK
    Exclusion
    LockWordExact
    SharedSnapshot
    AggregatedUpdates
PROPERTIES
    Implements
    ThreadsLeave
