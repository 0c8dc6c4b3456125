SPECIFICATION IdentitySpec
SYMMETRY Symmetry
CONSTANTS
    Workers = {w1, w2}
    Passwords = {p1, p2}
    None = None
    MaxIssued = 3
    MaxFaults = 1
    Attackers = {w1, w2}
    MaxAttempts = 2
    IpAttempts = 3
    LoginFaults = 2
    Browsers = {w1, w2}
    States = {p1, p2}
    RowIds = {n1, n2, n3}
    NoId = NoId
    SignInFaults = 1
INVARIANTS OneTimeUse NothingSpentInVain LogoutEndsSessions GuessesBounded OneAppleAccount
