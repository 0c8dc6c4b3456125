SPECIFICATION FairSpec
CONSTANTS
    Sources = {s1, s2}
    NoSource = NoSource
    Jobs = {j1, j2, j3}
    RealtimeEnabled = TRUE
    MaxFaults = 1
INVARIANTS OneActiveJob RunnerOwnsActiveJob
PROPERTIES FinalIsFinal JobFinishes
