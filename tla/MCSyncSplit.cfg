CONSTANTS
    g = g
    a1 = a1
    a2 = a2
    a3 = a3
    a4 = a4
    a5 = a5
    b1 = b1
    b2 = b2
    b3 = b3
    NoBlock = NoBlock
    Block <- SplitBlock
    Height <- SplitHeight
    Parent <- SplitParent
    BlockRange = 4
    MaxReorgDepth = 5
    MaxFaults = 0

SPECIFICATION Spec
VIEW View
INVARIANTS
    NeverAborts
PROPERTIES
    CatchesUp
