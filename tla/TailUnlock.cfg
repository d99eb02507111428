SPECIFICATION Spec
CONSTANTS
    Workers = {w1, w2}
    Lines = {l1, l2}
    HalfWord = 4
    Variants <- AllVariants
    NoOwner = NoOwner
    MaxUpdates = 1
INVARIANTS
    WriteUnlocks
