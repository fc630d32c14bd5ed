SPECIFICATION MCSpec
CONSTANTS
    limited = limited
    down = down
    denied = denied
    large = large
    Items = {i1, i2}
    Singles = {s1}
    Once = {s1}
    Adaptive = {i1}
    FailJob = FALSE
    Kinds = {limited, down, denied, large}
    Rules <- MCRules
    MaxConcurrency = 2
    MinConcurrency = 1
    IncreaseAfter = 1
    Initial = 3
    Gain = 1
    Cost = 2
    Threshold = 2
    ProbeAttempts = 2
    Cooldown = 1
    MaxDelay = 1
    Base = 1
    FinalDelay = 1
    FinalAttempts = 2
INVARIANTS
    TypeOK
    SlotsMatchCalls
    ProbeIsAlone
    RetryBudgetKept
    
PROPERTIES
    CallsEnd
CHECK_DEADLOCK FALSE
