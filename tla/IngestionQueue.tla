---------------------------- MODULE IngestionQueue ----------------------------
(* The persistent ingestion queue of the RAG backend: the job rows            *)
(* (rag_ingestion_jobs), the recipe rows they work on (rag_document_recipes), *)
(* the version log, the worker processes that claim jobs under a lease, and   *)
(* the child processes that execute them one database call at a time.         *)
(*                                                                            *)
(* One step is one database transaction.  An execution (w, j) is the child    *)
(* process worker w started for job j, or the worker's own clean-up after     *)
(* that child ended; a worker never has two executions of one job because it  *)
(* skips the jobs it has in flight.                                           *)
EXTENDS Integers, Sequences, FiniteSets

CONSTANTS
    Workers,        \* worker processes; an id is never reused (new_worker_id)
    Jobs,           \* job ids that may be created
    Recipes,        \* document recipes
    Documents,
    RecipeOf,       \* the recipe a job id is created for
    DocumentOf,     \* the document a recipe belongs to
    PhaseOf,        \* the phase a job id is created for
    MaxAttempts,    \* ingestion_job_max_attempts
    None            \* SQL NULL

Phases == {"PREPROCESS", "EXTRACT", "CHUNK", "INDEX"}

ASSUME QueueAssumption ==
    /\ RecipeOf \in [Jobs -> Recipes]
    /\ DocumentOf \in [Recipes -> Documents]
    /\ PhaseOf \in [Jobs -> Phases]
    /\ MaxAttempts \in Nat \ {0}
    /\ None \notin Workers
    /\ None \notin Jobs \X Nat

VARIABLES
    jobs,       \* the job rows
    recipes,    \* the recipe rows: status and active chunk set
    versions,   \* per recipe, the version log written by each switch
    runs,       \* the executions
    workers     \* the state of each worker process

vars == <<jobs, recipes, versions, runs, workers>>

-------------------------------------------------------------------------------
(* Data *)

JobStatuses == {"NEW", "QUEUED", "RUNNING", "SUCCEEDED", "FAILED", "SKIPPED",
                "CANCELLED"}
OpenStatuses == {"QUEUED", "RUNNING"}

\* Statuses of a recipe that is being worked on.
ActiveStatuses == {"PREPROCESSING", "INGESTING", "CHUNKING", "INDEXING"}
RecipeStatuses == ActiveStatuses
    \cup {"UPLOADED", "PREPROCESSED", "REVIEW", "CHUNKED", "INDEXED", "ERROR"}

\* The status a job writes when it starts its phase.
RunningStatus == [PREPROCESS |-> "PREPROCESSING", EXTRACT |-> "INGESTING",
                  CHUNK |-> "CHUNKING", INDEX |-> "INDEXING"]

\* The status before the phase, to which a stopped job returns its recipe.
StatusBefore == [PREPROCESS |-> "UPLOADED", EXTRACT |-> "PREPROCESSED",
                 CHUNK |-> "REVIEW", INDEX |-> "CHUNKED"]

\* The active status the pipeline has written when it goes on to the index.
LateStatus == [PREPROCESS |-> "INGESTING", EXTRACT |-> "INGESTING",
               CHUNK |-> "INDEXING", INDEX |-> "INDEXING"]

\* The stable statuses at which the pipeline may stop, by the settings' gates.
GateStatuses == [PREPROCESS |-> {"PREPROCESSED", "REVIEW"}, EXTRACT |-> {"REVIEW"},
                 CHUNK |-> {"CHUNKED"}, INDEX |-> {}]

\* A chunk set is named by the job and the attempt that build it.
ChunkSets == Jobs \X Nat

\* expired: no heartbeat for longer than the lease TTL, by the database clock.
JobRow == [status: JobStatuses, attempt: Nat, lease: Workers \cup {None},
           expired: BOOLEAN]
NewJob == [status |-> "NEW", attempt |-> 0, lease |-> None, expired |-> FALSE]

RecipeRow == [status: RecipeStatuses, active: ChunkSets \cup {None}]

\* A version log row: the chunk set switched to, and the one that was active
\* when its builder started.
Version == [set: ChunkSets, base: ChunkSets \cup {None}]

\* Program points inside the job's try block: an error here is handled.
TryPoints == {"check", "base", "mark", "checkBuild", "build", "gate",
              "checkSwitch", "fence", "switch"}
\* ... and, at "finish", the lost answer to a commit of the try block (the
\* switch, a gate's status) that took effect.  An error of the finishing write
\* itself is not handled: it ends the child (ChildDies).
ErrorPoints == TryPoints \cup {"finish"}
RequeuePoints == {"requeueLease", "requeueRead", "requeueWrite", "requeueCas"}
CleanupPoints == {"failCas", "failMark", "skipCas", "restore", "restoreRead",
                  "restoreWrite"}
ParentPoints == {"parent", "startup"}
Points == {"idle", "claim", "finish", "advance"} \cup TryPoints
          \cup RequeuePoints \cup CleanupPoints \cup ParentPoints

\* expected: attempt count seen at dispatch; attempt: the one the claim wrote;
\* base: the active chunk set last read; built: the candidate has its chunks;
\* next: the next phase is to be queued; inParent: run by the worker process.
Run == [pc: Points, expected: Nat, attempt: Nat, base: ChunkSets \cup {None},
        built: BOOLEAN, next: BOOLEAN, inParent: BOOLEAN]
IdleRun == [pc |-> "idle", expected |-> 0, attempt |-> 0, base |-> None,
            built |-> FALSE, next |-> FALSE, inParent |-> FALSE]

-------------------------------------------------------------------------------
(* Conditions and effects shared by the operations *)

pc(w, j) == runs[w][j].pc
Candidate(w, j) == <<j, runs[w][j].attempt>>
SameDocument(i, j) == DocumentOf[RecipeOf[i]] = DocumentOf[RecipeOf[j]]

\* No other job of the document is RUNNING.
DocumentFree(j) ==
    \A i \in Jobs \ {j}: SameDocument(i, j) => jobs[i].status # "RUNNING"

\* The row lock a switch holds from its fence check to its commit.
RecipeUnlocked(r) ==
    \A w \in Workers, j \in Jobs: pc(w, j) = "switch" => RecipeOf[j] # r

RecipeIdle(r) == \A j \in Jobs: RecipeOf[j] = r => jobs[j].status \notin OpenStatuses

\* Mutant of OwnsRunning: the transition forgets the expected status.
OwnsAnyStatus(w, j) == jobs[j].lease = w

\* The WHERE clause of a transition that names the lease owner.
OwnsRunning(w, j) == jobs[j].status = "RUNNING" /\ jobs[j].lease = w

\* _holds_ingestion_lease
HoldsLease(w, j) == jobs[j].status \in {"RUNNING", "CANCELLED"} /\ jobs[j].lease = w

\* The state of the row after a transition: status only, the lease stays.
Transition(j, status) ==
    jobs' = [jobs EXCEPT ![j] = [@ EXCEPT !.status = status, !.expired = FALSE]]

WriteRecipe(j, status) ==
    /\ RecipeUnlocked(RecipeOf[j])
    /\ recipes' = [recipes EXCEPT ![RecipeOf[j]].status = status]

\* Mutant of RestoredStatus: the job's status is written to the recipe.
RestoredJobStatus(w, j) ==
    IF runs[w][j].base # None THEN "INDEXED" ELSE "QUEUED"

\* The status after a cancellation: searchable when a version is served.
RestoredStatus(w, j) ==
    IF runs[w][j].base # None THEN "INDEXED" ELSE StatusBefore[PhaseOf[j]]

\* The status a requeued job's recipe returns to; only active statuses change.
RequeuedStatus(j) ==
    IF PhaseOf[j] = "PREPROCESS" /\ recipes[RecipeOf[j]].active # None
    THEN "INDEXED" ELSE StatusBefore[PhaseOf[j]]

\* The next program point; outside the try block its locals are gone.
GoTo(w, j, point) ==
    runs' = [runs EXCEPT ![w][j] =
               IF point \in TryPoints \cup {"requeueWrite", "restoreWrite"}
               THEN [@ EXCEPT !.pc = point]
               ELSE [@ EXCEPT !.pc = point, !.base = None, !.built = FALSE]]
End(w, j) == runs' = [runs EXCEPT ![w][j] = IdleRun]

-------------------------------------------------------------------------------
(* The API: create, retry, cancel *)

\* Mutant of Creatable: only RUNNING jobs of the recipe stand in the way.
CreatableBesideQueued(j) ==
    /\ jobs[j].status = "NEW"
    /\ RecipeUnlocked(RecipeOf[j])
    /\ \A i \in Jobs: RecipeOf[i] = RecipeOf[j] => jobs[i].status # "RUNNING"

\* _create_ingestion_job_with_oracle, under the recipe's row lock.
Creatable(j) ==
    /\ jobs[j].status = "NEW"
    /\ RecipeUnlocked(RecipeOf[j])
    /\ RecipeIdle(RecipeOf[j])

Queue(j) == jobs' = [jobs EXCEPT ![j].status = "QUEUED"]

Create(j) ==
    /\ Creatable(j)
    /\ Queue(j)
    /\ UNCHANGED <<recipes, versions, runs, workers>>

\* cancel_ingestion_job: the job row only.
Cancel(j) ==
    /\ jobs[j].status \in OpenStatuses
    /\ Transition(j, "CANCELLED")
    /\ UNCHANGED <<recipes, versions, runs, workers>>

-------------------------------------------------------------------------------
(* Dispatch and claim *)

\* _dispatch_available: start a child for a claimable job not in flight here.
Dispatch(w, j) ==
    /\ workers[w] = "running"
    /\ pc(w, j) = "idle"
    /\ jobs[j].status = "QUEUED"
    /\ DocumentFree(j)
    /\ runs' = [runs EXCEPT ![w][j] =
                  [IdleRun EXCEPT !.pc = "claim", !.expected = jobs[j].attempt]]
    /\ UNCHANGED <<jobs, recipes, versions, workers>>

\* Mutant of Claimable: the claim trusts the check made at dispatch.
ClaimableAsDispatched(j) == jobs[j].status = "QUEUED"

Claimable(j) == jobs[j].status = "QUEUED" /\ DocumentFree(j)

\* Mutant of Claim: the execution takes its attempt from the dispatch.
ClaimAsDispatched(w, j) ==
    /\ pc(w, j) = "claim"
    /\ Claimable(j)
    /\ jobs' = [jobs EXCEPT ![j] = [status |-> "RUNNING", attempt |-> @.attempt + 1,
                                    lease |-> w, expired |-> FALSE]]
    /\ runs' = [runs EXCEPT ![w][j] =
                  [@ EXCEPT !.pc = "check", !.attempt = runs[w][j].expected + 1]]
    /\ UNCHANGED <<recipes, versions, workers>>

\* _claim_ingestion_job_with_oracle, under the document's row lock.
Claim(w, j) ==
    /\ pc(w, j) = "claim"
    /\ Claimable(j)
    /\ jobs' = [jobs EXCEPT ![j] = [status |-> "RUNNING", attempt |-> @.attempt + 1,
                                    lease |-> w, expired |-> FALSE]]
    /\ runs' = [runs EXCEPT ![w][j] =
                  [@ EXCEPT !.pc = "check", !.attempt = jobs[j].attempt + 1]]
    /\ UNCHANGED <<recipes, versions, workers>>

\* The row was not claimable: the child ends normally.
ClaimNothing(w, j) ==
    /\ pc(w, j) = "claim"
    /\ ~Claimable(j)
    /\ End(w, j)
    /\ UNCHANGED <<jobs, recipes, versions, workers>>

-------------------------------------------------------------------------------
(* The execution: _run_pinned_ingestion_job, _materialize_experiment_candidate *)

\* The check and the mark before the phase, which the code makes twice in a
\* row, are made once here.
AfterCheck == [check |-> "base", checkBuild |-> "build", checkSwitch |-> "fence"]

\* _raise_if_job_cancelled: stop when cancelled or when the lease is lost.
Check(w, j) ==
    /\ pc(w, j) \in DOMAIN AfterCheck
    /\ GoTo(w, j, IF OwnsRunning(w, j) THEN AfterCheck[pc(w, j)] ELSE "restore")
    /\ UNCHANGED <<jobs, recipes, versions, workers>>

\* The baseline of the switch, read before the candidate is built.
ReadBase(w, j) ==
    /\ pc(w, j) = "base"
    /\ runs' = [runs EXCEPT ![w][j] =
                  [@ EXCEPT !.base = recipes[RecipeOf[j]].active, !.pc = "mark"]]
    /\ UNCHANGED <<jobs, recipes, versions, workers>>

\* update_document_recipe_status to the phase's running status.
Mark(w, j) ==
    /\ pc(w, j) = "mark"
    /\ WriteRecipe(j, RunningStatus[PhaseOf[j]])
    /\ GoTo(w, j, "checkBuild")
    /\ UNCHANGED <<jobs, versions, workers>>

\* The pipeline stops at a gate: a stable recipe status, no chunks to index.
BuildToGate(w, j) ==
    /\ pc(w, j) = "build"
    /\ \E status \in GateStatuses[PhaseOf[j]]: WriteRecipe(j, status)
    /\ GoTo(w, j, IF PhaseOf[j] = "CHUNK" THEN "finish" ELSE "gate")
    /\ UNCHANGED <<jobs, versions, workers>>

\* The pipeline goes through to the index: the candidate's chunks are
\* deleted, inserted again and embedded.
BuildIndex(w, j) ==
    /\ pc(w, j) = "build"
    /\ WriteRecipe(j, LateStatus[PhaseOf[j]])
    /\ runs' = [runs EXCEPT ![w][j] =
         [@ EXCEPT !.pc = IF PhaseOf[j] \in {"PREPROCESS", "EXTRACT"} THEN "gate"
                          ELSE "checkSwitch",
                   !.built = TRUE]]
    /\ UNCHANGED <<jobs, versions, workers>>

\* After an ingest the recipe status is read again: a stable one ends the job
\* (REVIEW may queue the next phase), any other goes on to the switch.
ReadGate(w, j) ==
    /\ pc(w, j) = "gate"
    /\ \E auto \in BOOLEAN:
         runs' = [runs EXCEPT ![w][j] =
           [@ EXCEPT !.pc = IF recipes[RecipeOf[j]].status \in {"PREPROCESSED", "REVIEW"}
                            THEN "finish" ELSE "checkSwitch",
                     !.next = auto /\ recipes[RecipeOf[j]].status = "REVIEW"]]
    /\ UNCHANGED <<jobs, recipes, versions, workers>>

\* activate_recipe_chunk_set: lock the recipe row, then read the job row
\* (without locking it) and compare status, attempt and lease.
FenceHolds(w, j) == OwnsRunning(w, j) /\ jobs[j].attempt = runs[w][j].attempt

Fence(w, j) ==
    /\ pc(w, j) = "fence"
    /\ RecipeUnlocked(RecipeOf[j])
    /\ GoTo(w, j, IF FenceHolds(w, j) THEN "switch" ELSE "restore")
    /\ UNCHANGED <<jobs, recipes, versions, workers>>

\* Mutant of BaseCurrent: any version may be replaced but the candidate itself.
BaseNotCandidate(w, j) == recipes[RecipeOf[j]].active # Candidate(w, j)

BaseCurrent(w, j) == recipes[RecipeOf[j]].active = runs[w][j].base

\* The commit of the switch, by the holder of the recipe's row lock.  A switch
\* to the set that is already active is not logged.
Switch(w, j) ==
    /\ pc(w, j) = "switch"
    /\ BaseCurrent(w, j)
    /\ recipes' = [recipes EXCEPT
         ![RecipeOf[j]] = [status |-> "INDEXED", active |-> Candidate(w, j)]]
    /\ versions' = IF recipes[RecipeOf[j]].active = Candidate(w, j) THEN versions
                   ELSE [versions EXCEPT ![RecipeOf[j]] =
                          Append(@, [set |-> Candidate(w, j), base |-> runs[w][j].base])]
    /\ GoTo(w, j, "finish")
    /\ UNCHANGED <<jobs, workers>>

\* The active set is not the baseline any more: the result is superseded.
Supersede(w, j) ==
    /\ pc(w, j) = "switch"
    /\ ~BaseCurrent(w, j)
    /\ GoTo(w, j, "skipCas")
    /\ UNCHANGED <<jobs, recipes, versions, workers>>

-------------------------------------------------------------------------------
(* The end of an execution *)

\* Write the final status if the job is RUNNING under our lease; otherwise
\* clean up as after a cancellation.
FinishAs(w, j, point, status, nextPoint) ==
    /\ pc(w, j) = point
    /\ IF OwnsRunning(w, j)
       THEN Transition(j, status) /\ IF nextPoint = "idle" THEN End(w, j)
                                     ELSE GoTo(w, j, nextPoint)
       ELSE jobs' = jobs /\ GoTo(w, j, "restore")
    /\ UNCHANGED <<recipes, versions, workers>>

Succeed(w, j) ==
    FinishAs(w, j, "finish", "SUCCEEDED", IF runs[w][j].next THEN "advance" ELSE "idle")

Fail(w, j) == FinishAs(w, j, "failCas", "FAILED", "failMark")

Skip(w, j) == FinishAs(w, j, "skipCas", "SKIPPED", "restoreRead")

\* _mark_recipe_job_failed, a transaction of its own after FAILED.
MarkFailed(w, j) ==
    /\ pc(w, j) = "failMark"
    /\ WriteRecipe(j, "ERROR")
    /\ End(w, j)
    /\ UNCHANGED <<jobs, versions, workers>>

\* Queue the next phase after REVIEW; a refusal is only logged.
Advance(w, j) ==
    /\ pc(w, j) = "advance"
    /\ \/ \E k \in Jobs:
            /\ PhaseOf[k] = "CHUNK"
            /\ RecipeOf[k] = RecipeOf[j]
            /\ Creatable(k)
            /\ Queue(k)
       \/ jobs' = jobs
    /\ End(w, j)
    /\ UNCHANGED <<recipes, versions, workers>>

-------------------------------------------------------------------------------
(* Errors of the job, and the requeue after a transient database error *)

Raise(w, j) ==
    /\ pc(w, j) \in ErrorPoints
    /\ GoTo(w, j, "failCas")
    /\ UNCHANGED <<jobs, recipes, versions, workers>>

\* Mutant of RaiseTransient: one retry too many.
RaiseTransientAtLimit(w, j) ==
    /\ pc(w, j) \in ErrorPoints
    /\ runs[w][j].attempt <= MaxAttempts
    /\ GoTo(w, j, "requeueLease")
    /\ UNCHANGED <<jobs, recipes, versions, workers>>

RaiseTransient(w, j) ==
    /\ pc(w, j) \in ErrorPoints
    /\ runs[w][j].attempt < MaxAttempts
    /\ GoTo(w, j, "requeueLease")
    /\ UNCHANGED <<jobs, recipes, versions, workers>>

\* _discard_if_ingestion_lease_lost: the result of a lost lease is dropped.
RequeueCheck(w, j) ==
    /\ pc(w, j) = "requeueLease"
    /\ IF HoldsLease(w, j) THEN GoTo(w, j, "requeueRead") ELSE End(w, j)
    /\ UNCHANGED <<jobs, recipes, versions, workers>>

\* _restore_recipe_status_after_cancel: read the active set, then write.
ReadActive(w, j) ==
    /\ pc(w, j) \in {"requeueRead", "restoreRead"}
    /\ runs' = [runs EXCEPT ![w][j] =
         [@ EXCEPT !.base = recipes[RecipeOf[j]].active,
                   !.pc = IF pc(w, j) = "requeueRead" THEN "requeueWrite"
                          ELSE "restoreWrite"]]
    /\ UNCHANGED <<jobs, recipes, versions, workers>>

RequeueWrite(w, j) ==
    /\ pc(w, j) = "requeueWrite"
    /\ WriteRecipe(j, RestoredStatus(w, j))
    /\ GoTo(w, j, "requeueCas")
    /\ UNCHANGED <<jobs, versions, workers>>

RequeueJob(w, j) == FinishAs(w, j, "requeueCas", "QUEUED", "idle")

\* The job is QUEUED again, but the answer to the commit is lost.
RequeueAnswerLost(w, j) == FinishAs(w, j, "requeueCas", "QUEUED", "failCas")

\* An error while requeueing: the job fails after all.
RequeueFails(w, j) ==
    /\ pc(w, j) \in RequeuePoints
    /\ GoTo(w, j, "failCas")
    /\ UNCHANGED <<jobs, recipes, versions, workers>>

-------------------------------------------------------------------------------
(* _restore_statuses_after_cancel *)

\* Only the recipe of a cancelled job is restored, by the holder of its lease,
\* and only while no other job of the document is RUNNING.  The code reads the
\* lease, the status and the other jobs one after the other; a cancelled row
\* never changes, so the last read decides.
Restore(w, j) ==
    /\ pc(w, j) = "restore"
    /\ IF HoldsLease(w, j) /\ jobs[j].status = "CANCELLED" /\ DocumentFree(j)
       THEN GoTo(w, j, "restoreRead") ELSE End(w, j)
    /\ UNCHANGED <<jobs, recipes, versions, workers>>

RestoreWrite(w, j) ==
    /\ pc(w, j) = "restoreWrite"
    /\ WriteRecipe(j, RestoredStatus(w, j))
    /\ End(w, j)
    /\ UNCHANGED <<jobs, versions, workers>>

-------------------------------------------------------------------------------
(* The end of a child, as its worker sees it *)

\* The child is killed, crashes or exits with an error at any point.  A running
\* worker looks into it; a stopping one leaves the job to its shutdown.
ChildDies(w, j) ==
    /\ pc(w, j) # "idle"
    /\ ~runs[w][j].inParent
    /\ IF workers[w] = "running"
       THEN runs' = [runs EXCEPT ![w][j] = [@ EXCEPT !.pc = "parent", !.inParent = TRUE]]
       ELSE End(w, j)
    /\ UNCHANGED <<jobs, recipes, versions, workers>>

\* _mark_running_job_failed reads the job row.
ParentReads(w, j) ==
    /\ pc(w, j) = "parent"
    /\ CASE jobs[j].status = "QUEUED"    -> GoTo(w, j, "startup")
         [] jobs[j].status = "CANCELLED" -> GoTo(w, j, "restore")
         [] jobs[j].status = "RUNNING"   -> GoTo(w, j, "failCas")
         [] OTHER                        -> End(w, j)
    /\ UNCHANGED <<jobs, recipes, versions, workers>>

\* The WHERE clause of record_ingestion_startup_failure.
StartupCountable(w, j) ==
    /\ jobs[j].status = "QUEUED"
    /\ jobs[j].lease = None
    /\ jobs[j].attempt = runs[w][j].expected
    /\ DocumentFree(j)

LastStart(w, j) == runs[w][j].expected + 1 >= MaxAttempts

\* Count a failure before the claim; at the limit fail job and recipe together.
RecordStartupFailure(w, j) ==
    /\ pc(w, j) = "startup"
    /\ StartupCountable(w, j)
    /\ jobs' = [jobs EXCEPT ![j] =
         [@ EXCEPT !.attempt = runs[w][j].expected + 1,
                   !.status = IF LastStart(w, j) THEN "FAILED" ELSE "QUEUED"]]
    /\ IF LastStart(w, j) THEN WriteRecipe(j, "ERROR") ELSE recipes' = recipes
    /\ End(w, j)
    /\ UNCHANGED <<versions, workers>>

IgnoreStartupFailure(w, j) ==
    /\ pc(w, j) = "startup"
    /\ ~StartupCountable(w, j)
    /\ End(w, j)
    /\ UNCHANGED <<jobs, recipes, versions, workers>>

\* The worker's own clean-up fails: it is only logged.
ParentGivesUp(w, j) ==
    /\ runs[w][j].inParent
    /\ End(w, j)
    /\ UNCHANGED <<jobs, recipes, versions, workers>>

-------------------------------------------------------------------------------
(* Leases and recovery *)

InFlight(w) == \E j \in Jobs: pc(w, j) # "idle"

\* The heartbeat loop extends every RUNNING row under this worker's lease, as
\* long as the worker has anything in flight.
Beating(w) ==
    /\ w \in Workers
    /\ workers[w] \in {"running", "stopping"}
    /\ InFlight(w)

Heartbeat(w) ==
    /\ Beating(w)
    /\ \E j \in Jobs: OwnsRunning(w, j) /\ jobs[j].expired
    /\ jobs' = [j \in Jobs |-> IF OwnsRunning(w, j) THEN [jobs[j] EXCEPT !.expired = FALSE]
                               ELSE jobs[j]]
    /\ UNCHANGED <<recipes, versions, runs, workers>>

\* The TTL passes without a heartbeat, because there is none ...
Expire(j) ==
    /\ jobs[j].status = "RUNNING"
    /\ ~jobs[j].expired
    /\ jobs' = [jobs EXCEPT ![j].expired = TRUE]
    /\ UNCHANGED <<recipes, versions, runs, workers>>

LeaseRunsOut(j) == ~Beating(jobs[j].lease) /\ Expire(j)

\* ... or because it is late.
HeartbeatLate(j) == Beating(jobs[j].lease) /\ Expire(j)

\* Mutant of Stale: only jobs with an attempt left are recovered.
StaleWithAttempt(w) ==
    {j \in Jobs: /\ jobs[j].status = "RUNNING"
                 /\ jobs[j].expired
                 /\ jobs[j].lease # w
                 /\ jobs[j].attempt < MaxAttempts}

\* The stale jobs a recovering worker sees; its own lease is excluded.
Stale(w) == {j \in Jobs: jobs[j].status = "RUNNING" /\ jobs[j].expired /\ jobs[j].lease # w}

Requeued(row, attempt) == [status |-> "QUEUED", attempt |-> attempt, lease |-> None,
                           expired |-> FALSE]

\* The recipe rows after a set of jobs went back to QUEUED in the same
\* transaction.
RestoredRecipes(back) ==
    [r \in Recipes |->
       IF recipes[r].status \in ActiveStatuses /\ \E j \in back: RecipeOf[j] = r
       THEN [recipes[r] EXCEPT !.status =
               RequeuedStatus(CHOOSE j \in back: RecipeOf[j] = r)]
       ELSE recipes[r]]

\* Mutant of Orphaned: a working status is missing from the list.
OrphanedLate(r, status, lost) ==
    /\ status \in ActiveStatuses \ {"INGESTING"}
    /\ \A j \in Jobs \ lost: RecipeOf[j] = r => jobs[j].status \notin OpenStatuses

\* A recipe in a working status without an open job, those just failed aside.
Orphaned(r, status, lost) ==
    /\ status \in ActiveStatuses
    /\ \A j \in Jobs \ lost: RecipeOf[j] = r => jobs[j].status \notin OpenStatuses

\* _recover_stale_ingestion_jobs_with_oracle, one transaction: stale jobs fail
\* or go back to QUEUED, their recipes follow, orphaned recipes become ERROR.
Recover(w) ==
    LET lost == {j \in Stale(w): jobs[j].attempt >= MaxAttempts}
        back == Stale(w) \ lost
        restored == RestoredRecipes(back)
        after == [r \in Recipes |->
                    IF Orphaned(r, restored[r].status, lost)
                    THEN [restored[r] EXCEPT !.status = "ERROR"] ELSE restored[r]]
    IN
    /\ workers[w] = "running"
    /\ jobs' = [j \in Jobs |->
         IF j \in lost THEN [jobs[j] EXCEPT !.status = "FAILED", !.expired = FALSE]
         ELSE IF j \in back THEN Requeued(jobs[j], jobs[j].attempt)
         ELSE jobs[j]]
    /\ \A r \in Recipes: after[r] # recipes[r] => RecipeUnlocked(r)
    /\ recipes' = after
    /\ <<jobs, recipes>>' # <<jobs, recipes>>
    /\ UNCHANGED <<versions, runs, workers>>

-------------------------------------------------------------------------------
(* The worker process *)

\* The process is lost: its clean-up with it; its children may live on.
Crash(w) ==
    /\ workers[w] # "gone"
    /\ workers' = [workers EXCEPT ![w] = "gone"]
    /\ runs' = [runs EXCEPT ![w] =
                  [j \in Jobs |-> IF runs[w][j].inParent THEN IdleRun ELSE runs[w][j]]]
    /\ UNCHANGED <<jobs, recipes, versions>>

\* SIGTERM: no new jobs; what is in flight has the grace period to end.  With
\* nothing in flight the worker is gone, and requeues nothing.
Stop(w) ==
    /\ workers[w] = "running"
    /\ workers' = [workers EXCEPT ![w] = IF InFlight(w) THEN "stopping" ELSE "gone"]
    /\ UNCHANGED <<jobs, recipes, versions, runs>>

\* _shutdown after the grace period: kill what is left, then requeue the jobs
\* under the own lease in one transaction, undoing the claim's attempt.
Shutdown(w) ==
    LET back == {j \in Jobs: OwnsRunning(w, j)}
        after == RestoredRecipes(back)
    IN
    /\ workers[w] = "stopping"
    /\ workers' = [workers EXCEPT ![w] = "gone"]
    /\ runs' = [runs EXCEPT ![w] = [j \in Jobs |-> IdleRun]]
    /\ jobs' = [j \in Jobs |->
         IF j \in back THEN Requeued(jobs[j], IF jobs[j].attempt > 0
                                              THEN jobs[j].attempt - 1 ELSE 0)
         ELSE jobs[j]]
    /\ \A r \in Recipes: after[r] # recipes[r] =>
         \A v \in Workers \ {w}, j \in Jobs: pc(v, j) = "switch" => RecipeOf[j] # r
    /\ recipes' = after
    /\ UNCHANGED versions

\* The same, but the requeue fails: the leases run out instead.
ShutdownWithoutRequeue(w) ==
    /\ workers[w] = "stopping"
    /\ workers' = [workers EXCEPT ![w] = "gone"]
    /\ runs' = [runs EXCEPT ![w] = [j \in Jobs |-> IdleRun]]
    /\ UNCHANGED <<jobs, recipes, versions>>

-------------------------------------------------------------------------------
(* The specification *)

Init ==
    /\ jobs = [j \in Jobs |-> NewJob]
    /\ recipes = [r \in Recipes |-> [status |-> "UPLOADED", active |-> None]]
    /\ versions = [r \in Recipes |-> <<>>]
    /\ runs = [w \in Workers |-> [j \in Jobs |-> IdleRun]]
    /\ workers = [w \in Workers |-> "running"]

\* What an execution does when nothing goes wrong underneath it.
Execute(w, j) ==
    \/ Claim(w, j) \/ ClaimNothing(w, j)
    \/ Check(w, j) \/ Mark(w, j) \/ ReadBase(w, j)
    \/ BuildToGate(w, j) \/ BuildIndex(w, j) \/ ReadGate(w, j)
    \/ Fence(w, j) \/ Switch(w, j) \/ Supersede(w, j)
    \/ Succeed(w, j) \/ Fail(w, j) \/ Skip(w, j) \/ MarkFailed(w, j)
    \/ Advance(w, j)
    \/ RequeueCheck(w, j) \/ ReadActive(w, j) \/ RequeueWrite(w, j) \/ RequeueJob(w, j)
    \/ Restore(w, j) \/ RestoreWrite(w, j)
    \/ ParentReads(w, j) \/ RecordStartupFailure(w, j) \/ IgnoreStartupFailure(w, j)

\* Errors and deaths.
Disturb(w, j) ==
    \/ Raise(w, j) \/ RaiseTransient(w, j)
    \/ RequeueFails(w, j) \/ RequeueAnswerLost(w, j)
    \/ ChildDies(w, j) \/ ParentGivesUp(w, j)

WorkerEnds(w) == Shutdown(w) \/ ShutdownWithoutRequeue(w)

\* The steps of the API and of the workers.
Work ==
    \/ \E j \in Jobs: Create(j) \/ Cancel(j) \/ LeaseRunsOut(j)
    \/ \E w \in Workers: Heartbeat(w) \/ Recover(w) \/ WorkerEnds(w)
    \/ \E w \in Workers, j \in Jobs: Dispatch(w, j) \/ Execute(w, j)

\* What goes wrong underneath them.
Fault ==
    \/ \E j \in Jobs: HeartbeatLate(j)
    \/ \E w \in Workers: Crash(w) \/ Stop(w)
    \/ \E w \in Workers, j \in Jobs: Disturb(w, j)

Next == Work \/ Fault

Spec == Init /\ [][Next]_vars

\* Executions go on (every call has a deadline), workers keep polling,
\* heartbeating and recovering, leases run out, a stopping worker ends.
Fairness ==
    /\ \A w \in Workers, j \in Jobs:
         WF_vars(Dispatch(w, j)) /\ WF_vars(Execute(w, j))
    /\ \A w \in Workers:
         WF_vars(Heartbeat(w)) /\ WF_vars(Recover(w)) /\ WF_vars(WorkerEnds(w))
    /\ \A j \in Jobs: WF_vars(LeaseRunsOut(j))

FairSpec == Spec /\ Fairness

-------------------------------------------------------------------------------
(* Properties *)

\* Every variable has its type (one row shape per table, one record per
\* execution); the basis of the other proofs.
TypeOK ==
    /\ jobs \in [Jobs -> JobRow]
    /\ recipes \in [Recipes -> RecipeRow]
    /\ versions \in [Recipes -> Seq(Version)]
    /\ runs \in [Workers -> [Jobs -> Run]]
    /\ workers \in [Workers -> {"running", "stopping", "gone"}]

\* The claim's row lock and NOT EXISTS guard keep two jobs of one document from
\* RUNNING together, whatever recovery, requeueing and retries do in between.
OneRunningPerDocument ==
    \A i, j \in Jobs:
        /\ SameDocument(i, j)
        /\ jobs[i].status = "RUNNING"
        /\ jobs[j].status = "RUNNING"
        => i = j

\* A recipe has at most one queued or running job: creation checks it, and no
\* requeue, recovery or shutdown brings a closed job back.
OneOpenJobPerRecipe ==
    \A i, j \in Jobs:
        /\ RecipeOf[i] = RecipeOf[j]
        /\ jobs[i].status \in OpenStatuses
        /\ jobs[j].status \in OpenStatuses
        => i = j

\* The claim does not look at max_attempts: every path back to QUEUED has to
\* leave an attempt, or the job would run more often than the limit allows.
AttemptBudget ==
    \A j \in Jobs:
        /\ jobs[j].status = "QUEUED" => jobs[j].attempt < MaxAttempts
        /\ jobs[j].attempt <= MaxAttempts

\* The job row is written under status and lease owner alone.  That is enough
\* because a RUNNING row under w's lease carries the attempt of w's execution:
\* an execution that lost its lease never meets its own worker's newer claim.
LeaseNamesExecution ==
    \A w \in Workers, j \in Jobs:
        OwnsRunning(w, j) /\ pc(w, j) # "idle" => jobs[j].attempt = runs[w][j].attempt

\* The version log of a recipe is an unbroken history: every version was built
\* on the version it replaced, and the last one is the one being served.
VersionHistory ==
    \A r \in Recipes:
        /\ \A n \in 1..Len(versions[r]):
             versions[r][n].base = IF n = 1 THEN None ELSE versions[r][n - 1].set
        /\ recipes[r].active = IF versions[r] = <<>> THEN None
                               ELSE versions[r][Len(versions[r])].set

NobodyRuns == \A w \in Workers: workers[w] # "running"

\* A RUNNING job without an execution, whose lease holder is the only worker
\* that still runs: recovery leaves out the own lease.
Stranded(j) ==
    /\ jobs[j].status = "RUNNING"
    /\ jobs[j].lease \in Workers
    /\ pc(jobs[j].lease, j) = "idle"
    /\ \A w \in Workers \ {jobs[j].lease}: workers[w] # "running"

\* Every queued or running job comes to an end after finitely many faults,
\* unless no worker is left running or its own worker alone strands it.
JobsSettle ==
    \A j \in Jobs:
        jobs[j].status \in OpenStatuses
            ~> jobs[j].status \notin OpenStatuses \/ Stranded(j) \/ NobodyRuns

\* No recipe stays in a working status: whichever write was last, its job, the
\* job's clean-up or the recovery of orphaned recipes takes it out of there.
RecipesSettle ==
    \A r \in Recipes:
        recipes[r].status \in ActiveStatuses
            ~> \/ recipes[r].status \notin ActiveStatuses
               \/ NobodyRuns
               \/ \E j \in Jobs: Stranded(j)
===============================================================================
