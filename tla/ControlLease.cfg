SPECIFICATION FairSpec
CONSTANTS
    Instance = {i1, i2}
    NoOne = NoOne
    Ttl = 2
    MaxEpoch = 3
INVARIANTS
    FenceNamesTheHolder
    GracefulStopGivesBack
PROPERTIES
    ImplementsAuthority
    SurvivorTakesOver
CHECK_DEADLOCK FALSE
