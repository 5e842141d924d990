CONSTANTS
    g = g
    a1 = a1
    a2 = a2
    a3 = a3
    a4 = a4
    a5 = a5
    b3 = b3
    b4 = b4
    p = p
    q = q
    NoBlock = NoBlock
    Block <- MCBlock
    Height <- MCHeight
    Parent <- MCParent
    Process = {p, q}
    MinDepth = 2
    ReorgDepth = 2
    MaxCount = 2
    MaxFetches = 2

SPECIFICATION Spec
SYMMETRY MCSymmetry
INVARIANTS
    StoredIsFinal
    Transparent
