SPECIFICATION Spec
CONSTANTS
    Grace = 2
    MaxStamp = 1
    MaxBeats = 1
    Healths = {TRUE}
    Loads = {FALSE}
PROPERTIES ExpiredMeansSilent
