SPECIFICATION FairSpec
CONSTANTS
    d1 = d1
    d2 = d2
    d3 = d3
    Dispatch = {d1, d2, d3}
    Window = 1
    MinSamples = 2
    RatePart = 1
    RateWhole = 2
    OpenFor = 2
    MaxProbes = 2
    MaxSamples = 3
INVARIANTS
    ProbesBounded
PROPERTIES
    TripNeedsNewResults
    HalfOpenNeverWedges
CHECK_DEADLOCK FALSE
