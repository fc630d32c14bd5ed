\* The in_process mode, one call, no fault.
CONSTANTS
    c1 = c1
    c2 = c2
    d1 = d1
    d2 = d2
    Api = Api
    Dispatchers = {}
    Calls = {c1}
    Renames = FALSE
    MaxFaults = 0
SPECIFICATION MCSpec
INVARIANTS
    RunningIsExecuted
CHECK_DEADLOCK FALSE
