SPECIFICATION Spec
SYMMETRY Symmetry
CONSTANTS
    Workers = {w1, w2}
    Subs = {s1, s2}
    Customers = {c1, c2}
    Prices = {p1, p2}
    Cards = {k1, k2}
    None = None
    MaxTime = 2
    MaxEvents = 2
    MaxRows = 2
    MaxFaults = 1
INVARIANTS UsageWithinPeriods AnsweredWasApplied FollowsStripe CardsKept
