SPECIFICATION SyncSpec
CONSTANTS
    p1 = p1
    p2 = p2
    h1 = h1
    h2 = h2
    Process = {p1, p2}
    Handler = {h1, h2}
    MaxEvents = 3
    Incidents = {"left", "late"}
SYMMETRY Symmetry
INVARIANTS
    ProcessesAgree
CHECK_DEADLOCK FALSE
