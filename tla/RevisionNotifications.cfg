SPECIFICATION FairSpec
CONSTANTS
    Users = {u1, u2}
    MaxRetries = 1
    RealtimeEnabled = TRUE
    MaxFaults = 1
INVARIANTS OneEmailPerAttempt NoMemberForgotten EventsAfterCommit
PROPERTIES TaskEnds
