-------------------------- MODULE IngestionRefinement -------------------------
(* The ingestion queue implements the job life cycle: forget the leases and   *)
(* everything but the job rows.                                               *)
EXTENDS IngestionQueue

Lifecycle == INSTANCE JobLifecycle WITH
    status <- [j \in Jobs |-> jobs[j].status],
    attempts <- [j \in Jobs |-> jobs[j].attempt]

\* The queue implements the life cycle: whatever workers, leases, recovery,
\* shutdown and startup failures do, the job rows only take the life cycle's
\* steps, so a settled job never moves again and no job exceeds its attempts.
Implements == Lifecycle!Spec
===============================================================================
