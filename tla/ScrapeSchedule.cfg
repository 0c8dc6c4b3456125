SPECIFICATION FairSpec
CONSTANTS
    Sources = {s1}
    NoSource = NoSource
    Tasks = {t1, t2}
    Dispatchers = {d1, d2}
    Frequencies = {1, 2}
    Backoff = 2
    MaxRetries = 1
    BatchSize = 1
    MaxOutlived = 1
    MaxFaults = 1
INVARIANTS OneTaskPerDueCycle
PROPERTIES NoSilentDrop DueIsDispatched TaskTerminates
