\* One EXTRACT job, two workers, three attempts, three faults.
CONSTANTS
    w1 = w1
    w2 = w2
    j1 = j1
    j2 = j2
    j3 = j3
    r1 = r1
    r2 = r2
    d1 = d1
    None = None
    Workers = {w1, w2}
    Jobs = {j1}
    Recipes = {r1}
    Documents = {d1}
    RecipeOf <- OneRecipe
    DocumentOf <- OneDocument
    PhaseOf <- ExtractThenChunk
    MaxAttempts = 3
    MaxFaults = 3
SPECIFICATION MCSpec
SYMMETRY Symmetry
INVARIANTS
    VersionHistory
    TypeOK
    AttemptBudget
    LeaseNamesExecution
PROPERTIES
    Implements
CHECK_DEADLOCK FALSE
