SPECIFICATION FairSpec
CONSTANTS
    Sources = {s1, s2}
    NoSource = NoSource
    Jobs = {j1, j2}
    RealtimeEnabled = TRUE
    MaxFaults = 1
PROPERTY EveryJobFinishes
