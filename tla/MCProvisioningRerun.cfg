SPECIFICATION FairSpec
CONSTANTS
    w1 = w1
    w2 = w2
    w3 = w3
    w4 = w4
    k1 = k1
    k2 = k2
    k3 = k3
    h1 = h1
    None = None
    Worker = {w1, w2, w3, w4}
    HandRequest = {w3, w4}
    Token = {k1, k2, k3}
    HandToken = {k3}
    Name = {h1}
    Inventory = {h1}
    MaxUses = 1
    MaxGeneration = 2
    MaxUpsets = 1
INVARIANT RerunsFinishTheWork
CHECK_DEADLOCK FALSE
