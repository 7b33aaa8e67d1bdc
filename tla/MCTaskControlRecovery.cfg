SPECIFICATION Spec
CONSTANTS
    i1 = i1
    i2 = i2
    t1 = t1
    t2 = t2
    s1 = s1
    s2 = s2
    Instance = {i1}
    Task = {t1, t2}
    Slot = {s1, s2}
    None = None
    MaxEpoch = 1
    MaxBusy = 3
    Faults = {}
INVARIANTS
    RecoverySparesTheLiving
CHECK_DEADLOCK FALSE
