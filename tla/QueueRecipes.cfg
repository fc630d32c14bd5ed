\* Two jobs of one recipe and a job of another recipe of the document, one worker,
\* one fault.
CONSTANTS
    w1 = w1
    w2 = w2
    j1 = j1
    j2 = j2
    j3 = j3
    r1 = r1
    r2 = r2
    d1 = d1
    None = None
    Workers = {w1}
    Jobs = {j1, j2, j3}
    Recipes = {r1, r2}
    Documents = {d1}
    RecipeOf <- ThreeJobs
    DocumentOf <- OneDocument
    PhaseOf <- PreprocessThenChunk
    MaxAttempts = 1
    MaxFaults = 1
SPECIFICATION MCSpec
INVARIANTS
    OneOpenJobPerRecipe
    OneRunningPerDocument
CHECK_DEADLOCK FALSE
