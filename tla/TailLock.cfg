SPECIFICATION FairSpec
CONSTANTS
    Workers = {w1, w2}
    Lines = {l1, l2}
    HalfWord = 4
    Variants <- AllVariants
    NoOwner = NoOwner
    MaxUpdates = 2
INVARIANTS
    TypeOK
    LockWordExact
    SharedSnapshot
PROPERTIES
    Implements
    ThreadsLeave
