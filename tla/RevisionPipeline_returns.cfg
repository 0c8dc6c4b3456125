SPECIFICATION Spec
CONSTANTS
    Sources = {s1}
    None = None
    Runs = {r1}
    Hashes = {h1, h2}
    MaxRevisions = 3
    MaxFaults = 1
INVARIANT CommittedScrapeReturns
