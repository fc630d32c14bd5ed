\* Two attempts, two processes, any number of faults.
CONSTANTS
    Attempts = {a1, a2}
    Processes = {p1, p2}
    Users = {u1, u2}
    Ips = {i1}
    AnyUser = AnyUser
    NoAttempt = NoAttempt
    LoginLimit = 1
    IpLimit = 1
    Window = 2
    Retry = 1
    MaxClock = 2
SPECIFICATION FaultySpec
SYMMETRY Symmetry
INVARIANTS
    TypeOK
    FailuresBounded
    FailureRecorded
    CalmLeavesNoResidue
PROPERTIES
    RetryAfterExact
    KnownFailuresCount
CHECK_DEADLOCK FALSE
