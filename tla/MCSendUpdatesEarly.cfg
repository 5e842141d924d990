CONSTANTS
    g = g
    a1 = a1
    a2 = a2
    a3 = a3
    a4 = a4
    b2 = b2
    NoBlock = NoBlock
    Block <- MCBlock
    Height <- MCHeight
    Parent <- MCParent
    BlockRange = 2
    MaxReorgDepth = 1
    MaxFaults = 0
    Targets <- MCTargets
    EarlyRequests = TRUE

SPECIFICATION SystemSpec
VIEW View
INVARIANTS
    RequestsAnswered
