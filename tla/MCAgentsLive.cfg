SPECIFICATION FairSpec
CONSTANTS
    None = None
    a1 = a1
    a2 = a2
    w1 = w1
    w2 = w2
    Agent = {a1}
    Worker = {w1, w2}
    Cap = 1
    FenceAfter = 1
    MaxGeneration = 2
    MaxHandlers = 1
    MaxFaults = 1
    Faults = {"store", "delete", "spawn", "exit"}
PROPERTIES Converges CutOffStops
CHECK_DEADLOCK FALSE
