CONSTANTS
    g = g
    a1 = a1
    a2 = a2
    b1 = b1
    b2 = b2
    c2 = c2
    NoBlock = NoBlock
    Block <- MCBlock
    Height <- MCHeight
    Parent <- MCParent
    MaxBatches = 1

SPECIFICATION Spec
VIEW View
INVARIANTS
    TypeOK
    SanityChecked
    UniqueConstraint
    MainHasNoGaps
    ForkBranchIsPath
    NoBlockLost
PROPERTIES
    ImplementsTreeStore
