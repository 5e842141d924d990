CONSTANTS
    g = g
    a1 = a1
    a2 = a2
    a3 = a3
    a4 = a4
    b2 = b2
    b3 = b3
    NoBlock = NoBlock
    NoCall = NoCall
    NoAnswer = NoAnswer
    Block <- MCBlock
    Height <- MCHeight
    Parent <- MCParent
    Moves <- MCMoves
    Calls <- MCCalls
    MaxReorgDepth = 2
    FastLogsDepth = 2
    MaxFaults = 1

SPECIFICATION ConnectorsSpec
INVARIANTS
    NeverAborts
PROPERTIES
    ImplementsBaseChain
    CoreRangeIsAtomic
    CallsReturn
