\* One dispatcher, one call, an API that writes the row for its own reasons.
CONSTANTS
    c1 = c1
    c2 = c2
    d1 = d1
    d2 = d2
    Api = Api
    Dispatchers = {d1}
    Calls = {c1}
    Renames = TRUE
    MaxFaults = 0
SPECIFICATION MCSpec
INVARIANTS
    SentOnce
CHECK_DEADLOCK FALSE
