CONSTANTS
    g = g
    h = h
    p = p
    q = q
    r = r
    a = a
    x = x
    y = y
    player = player
    Game = {g, h}
    Gsp = {p, q, r}
    GameOf <- MCGameOf
    Block = {a}
    MovesOf <- MCMovesOf
    SeqNumbers = 2
    MaxDepth = 3
    MaxMessages = 3

SPECIFICATION Spec
INVARIANTS
    TrackedWhileRunning
    SequenceUnbroken
    PendingMatchesBlock
