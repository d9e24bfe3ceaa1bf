SPECIFICATION Spec
CONSTANTS
    a1 = a1  a2 = a2  a3 = a3
    x = x  y = y
    k1 = k1  k2 = k2
    Attempts = {a1, a2}
    Ids = {x, y}
    Id <- TwoIds
    Tokens = {k1, k2}
    Preferred <- Colliding
    AutoActivation = TRUE
    None = None
INVARIANTS
    AtMostOneSend
CHECK_DEADLOCK FALSE
