SPECIFICATION Spec
CONSTANTS
    None = None
    a1 = a1
    a2 = a2
    w1 = w1
    w2 = w2
    Agent = {a1}
    Worker = {w1, w2}
    Cap = 1
    FenceAfter = 1
    MaxGeneration = 2
    MaxHandlers = 2
    MaxFaults = 1
    Faults = {"crash", "watchdog", "shutdown", "timeout", "exit", "spawn", "store", "delete",
              "record", "kill"}
SYMMETRY Symmetry
INVARIANTS AckedStopIsStopped DeliveredMeansHeard SupervisedAndRecorded
CHECK_DEADLOCK FALSE
