--------------------------- MODULE MCIngestionQueue ---------------------------
(* Small instances of the ingestion queue.                                    *)
EXTENDS IngestionStatements, TLC

CONSTANTS w1, w2, j1, j2, r1, r2, d1

\* All jobs belong to one recipe.
OneRecipe == [j \in Jobs |-> r1]
OneDocument == [r \in Recipes |-> d1]
ExtractThenChunk == [j \in Jobs |-> IF j = j1 THEN "EXTRACT" ELSE "CHUNK"]

\* The second job can be created by the first one's success; others index.
PreprocessThenChunk ==
    [j \in Jobs |-> CASE j = j1 -> "PREPROCESS" [] j = j2 -> "CHUNK" [] OTHER -> "INDEX"]

Symmetry == Permutations(Workers)
===============================================================================
