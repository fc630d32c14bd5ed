\* Two dispatchers, one call, one fault.
CONSTANTS
    c1 = c1
    c2 = c2
    d1 = d1
    d2 = d2
    Api = Api
    Dispatchers = {d1, d2}
    Calls = {c1}
    Renames = FALSE
    MaxFaults = 1
SPECIFICATION MCFairSpec
INVARIANTS
    NoOverlap
PROPERTIES
    GenerationsGrow
    
    Settles
CHECK_DEADLOCK FALSE
