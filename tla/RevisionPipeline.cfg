SPECIFICATION Spec
CONSTANTS
    Sources = {s1}
    None = None
    Runs = {r1, r2}
    Hashes = {h1, h2}
    MaxRevisions = 3
    MaxFaults = 1
SYMMETRY Interchangeable
INVARIANTS DiffsAreReal ChainUnlessOverlap AnnouncedOnce NoDiffForgotten
PROPERTIES ImplementsFeed
