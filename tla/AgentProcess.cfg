\* The in_process mode, two calls, two crashes.
CONSTANTS
    c1 = c1
    c2 = c2
    d1 = d1
    d2 = d2
    Api = Api
    Dispatchers = {}
    Calls = {c1, c2}
    Renames = TRUE
    MaxFaults = 2
SPECIFICATION MCSpec
SYMMETRY Symmetry
INVARIANTS
    TypeOK
    TruthfulSteps
PROPERTIES
    OutcomeStands
    Implements
CHECK_DEADLOCK FALSE
