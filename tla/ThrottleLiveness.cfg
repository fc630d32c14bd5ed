\* Two attempts, any number of faults; no symmetry, for liveness.
CONSTANTS
    Attempts = {a1, a2}
    Processes = {p1}
    Users = {u1}
    Ips = {i1}
    AnyUser = AnyUser
    NoAttempt = NoAttempt
    LoginLimit = 1
    IpLimit = 0
    Window = 1
    Retry = 1
    MaxClock = 1
SPECIFICATION FaultyFairSpec
PROPERTIES
    LoginAnswered
CHECK_DEADLOCK FALSE
