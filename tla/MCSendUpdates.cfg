CONSTANTS
    g = g
    a1 = a1
    a2 = a2
    a3 = a3
    a4 = a4
    b2 = b2
    NoBlock = NoBlock
    Block <- MCBlock
    Height <- MCHeight
    Parent <- MCParent
    BlockRange = 2
    MaxReorgDepth = 2
    MaxFaults = 1
    Targets <- MCTargets
    EarlyRequests = FALSE

SPECIFICATION SystemSpec
VIEW View
INVARIANTS
    MessagesFit
    GspNeverStuck
    OneMainChain
    RpcChecksHold
PROPERTIES
    GspCatchesUp
