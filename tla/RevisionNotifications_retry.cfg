SPECIFICATION Spec
CONSTANTS
    Users = {u1, u2}
    MaxRetries = 2
    RealtimeEnabled = TRUE
    MaxFaults = 0
INVARIANT FailedEmailIsRetried
