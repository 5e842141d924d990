CONSTANTS
    g = g
    a1 = a1
    b1 = b1
    x = x
    y = y
    NoBlock = NoBlock
    Block <- MCBlock
    Height <- MCHeight
    Parent <- MCParent
    Tx = {x, y}
    TxIn <- MCTxIn
    Notifiers <- MCNotifiers
    NoAddress = ""
    MaxQueue = 2

SPECIFICATION Spec
INVARIANTS
    NoConfirmedMoveSent
    QueueKeptOnlyByThrow
PROPERTIES
    QueueDrained
