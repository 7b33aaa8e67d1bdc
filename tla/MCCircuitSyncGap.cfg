SPECIFICATION SyncSpec
CONSTANTS
    p1 = p1
    p2 = p2
    h1 = h1
    h2 = h2
    Process = {p1, p2}
    Handler = {h1, h2}
    MaxEvents = 2
    Incidents = {"left"}
SYMMETRY Symmetry
INVARIANTS
    EverybodyAgrees
CHECK_DEADLOCK FALSE
