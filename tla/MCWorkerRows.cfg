SPECIFICATION FairSpec
CONSTANTS
    Grace = 1
    MaxStamp = 2
    MaxBeats = 1
    Healths = {TRUE, FALSE}
    Loads = {TRUE, FALSE}
INVARIANTS RestartIsNoticed
PROPERTIES IncarnationNeverBack DeadIsNoticed AliveIsSeen
