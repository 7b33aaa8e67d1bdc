SPECIFICATION FairSpec
CONSTANTS
    d1 = d1
    d2 = d2
    d3 = d3
    Dispatch = {d1, d2}
    Window = 1
    MinSamples = 2
    RatePart = 1
    RateWhole = 2
    OpenFor = 1
    MaxProbes = 1
    MaxSamples = 2
PROPERTIES
    OpenIsProbedAgain
CHECK_DEADLOCK FALSE
