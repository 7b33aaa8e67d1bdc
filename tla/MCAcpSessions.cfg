SPECIFICATION AcpFairSpec
CONSTANTS
    t1 = t1
    t2 = t2
    Task = {t1, t2}
    Capacity = 2
    MaxEpoch = 2
    MaxChunks = 1
INVARIANTS DoneIsReported CompletedIsWhole NobodyRunsUntold
PROPERTIES PermitsComeBack
CHECK_DEADLOCK FALSE
