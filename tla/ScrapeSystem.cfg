SPECIFICATION Spec
CONSTANTS
    Sources = {s1}
    None = None
    Tasks = {t1}
    Jobs = {j1}
    Dispatchers = {d1}
    Frequencies = {1}
    Backoff = 1
    MaxRetries = 1
    BatchSize = 1
    MaxOutlived = 0
    RealtimeEnabled = TRUE
    Hashes = {h1, h2}
    MaxRevisions = 3
    MaxFaults = 1
SYMMETRY Interchangeable
VIEW View
INVARIANTS RetriesFindOneChange
