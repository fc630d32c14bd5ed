\* Two heavy jobs and a light one, two slots of which one is heavy, two faults.
CONSTANTS
    h1 = h1
    h2 = h2
    l1 = l1
    Jobs = {h1, h2, l1}
    Heavy = {h1, h2}
    Rank <- ByAge
    Slots = 2
    HeavySlots = 1
    MaxAttempts = 2
    Cap = 2
    StreakBound = 3
    MaxFaults = 2
SPECIFICATION MCFairSpec
INVARIANTS
    TypeOK
    SlotsMatchTasks
    ParsingBounded
PROPERTIES
    JobsServed
CHECK_DEADLOCK FALSE
