SPECIFICATION FairSpec
CONSTANTS
    i1 = i1
    i2 = i2
    t1 = t1
    t2 = t2
    s1 = s1
    s2 = s2
    Instance = {i1}
    Task = {t1}
    Slot = {s1}
    None = None
    MaxEpoch = 2
    MaxBusy = 1
    Faults = {"connection", "lag", "restart", "offline", "store", "crash", "timeout", "operator"}
PROPERTIES
    NamedDispatchEnds
CHECK_DEADLOCK FALSE
