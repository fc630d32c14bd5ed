-------------------------- MODULE IngestionStatements -------------------------
(* A statement of the code's comments that its behaviours do not keep; a run   *)
(* shows how.                                                                 *)
EXTENDS IngestionRefinement

\* documents.py:2951: the attempt is part of the candidate's id so that a later
\* try does not replace the active chunk set; but a shutdown takes the attempt
\* back, also after the switch.
ServedVersionNotRebuilt ==
    [][\A w \in Workers, j \in Jobs:
         BuildIndex(w, j) => recipes[RecipeOf[j]].active # Candidate(w, j)]_vars
===============================================================================
