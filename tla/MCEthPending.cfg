CONSTANTS
    x1 = x1
    x2 = x2
    x3 = x3
    alice = alice
    bob = bob
    c1 = c1
    c2 = c2
    NoTx = NoTx
    Tx <- MCTx
    WithMoves <- MCWithMoves
    Sender <- MCSender
    Nonce <- MCNonce
    Before <- MCBefore
    Caller <- MCCaller
    MaxMessages = 2
    MaxEvents = 4

SPECIFICATION Spec
INVARIANTS
    PendingTracked
    PendingKept
    ContentComplete
PROPERTIES
    GoneRemoved
