SPECIFICATION Spec
SYMMETRY Symmetry
CONSTANTS
    Workers = {w1, w2}
    Passwords = {p1, p2}
    None = None
    MaxIssued = 3
    MaxFaults = 1
INVARIANT RefreshedTokenIsStored
