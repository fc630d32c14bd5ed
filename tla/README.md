# A verification project for the Production Ready suite

The repository is a monorepo of Japanese-language enterprise applications: `src/rag`
(documents, ingestion, retrieval), `src/agent` (agent runs with approvals), `src/nl2sql`
(questions to SQL), the shared `src/platform` packages, an evaluation suite, deployment code
and frontends. What is hard in it is not the data work but the protocols between processes that
share one Oracle database: job queues with leases, version switches, cancellation, recovery and
shutdown. This project specifies those protocols in TLA+, checks them on small instances with TLC
and proves the central safety properties for every instance with TLAPS.

Paths below `rag:` stand for `src/rag/backend/app/`, `agent:` for
`src/agent/backend/app/features/agent/`, and `auth:` for
`src/platform/packages/system_settings_backend/src/pr_system_settings/auth/`. The components in bold
are modelled.

## 1. Inventory

| component | state it keeps | operations and interactions | what is hard | what makes it correct |
|---|---|---|---|---|
| **RAG ingestion queue** (`rag: rag/ingestion_worker.py`, `api/routes/documents.py`, `clients/oracle.py`) | job rows (status, attempt, lease, heartbeat), recipe rows (status, active chunk set), the version log; per worker the in-flight set | API: enqueue, retry, cancel. Worker process: dispatch, heartbeat, recover, shut down. Child process: claim, build, switch, finish, clean up. All meet in the rows only | every database call is a transaction of its own, so two workers, their children and the API interleave between any two; children and workers die; leases expire under a running child; answers of commits are lost; the same worker may claim the same job twice | one RUNNING job per document, one open job per recipe, bounded attempts, no result of a lost lease, an unbroken version history, nothing stuck |
| **RAG worker slots** (`rag: rag/ingestion_worker.py`, `ingestion_slots.py`) | in one worker: slots, heavy slots, the list last read, delays of jobs, the pause, the streak of failed starts; a pipe from each child | fetch and launch, slot release by the pipe, end of a task, failed starts, supervision of the child (stall, total time) | a list that is old when it is worked off; a slot given back early, late or by two sides; a delay or a pause that outlives its reason | a slot belongs to an execution; no more children parse than there are heavy slots; no job is starved |
| RAG versions and deletion (`rag: rag/chunk_set_retention.py`, `extraction_revisions.py`, `document_cleanup.py`) | retired versions, clean-up records | restore, retire, sweep, delete | sweeping what is being restored | no served version is deleted |
| RAG evaluation jobs, chat answer runs (`rag: rag/evaluation_jobs.py`, `chat_answer_runs.py`) | job and message rows with leases | claim, heartbeat, cancel | as in the queue | as in the queue |
| RAG pipeline, retrieval, answering | none shared | data transformations, model calls | numeric edges, prompts | out of scope |
| **Login throttle** (`auth: login_throttle.py`, called by `auth: service.py`) | reservation rows in a shared table; per process a memory of rows, the time until which the table counts as unavailable, one call lock | begin (reserve, count, admit or release), record failure (purge), record success (clear), cancel (release) | parallel logins in several processes, calls that hang, fail, or commit after their caller gave up, two stores with different reach | no more failures let through than the limit, no failure forgotten, every login answered |
| Sessions, users, API keys (`pr_system_settings/auth/`) | rows | one transaction each | little | access checks |
| **Agent runs** (`agent: runtime.py`, `run_claim.py`, `runtime_dispatcher.py`, `builtin_runtime.py`, `external_writes.py`) | the row of a run with its lease, steps, approvals and question, and a copy of the row in the memory of every process; the segment being executed | claim, begin, execute a segment, send an external write, suspend for approval, decide, answer, cancel, resume, complete, recover | the memory is ahead of the storage; leases expire; approvals, cancellations and the end come in any order; a crash between the record of a write and the write | one execution at a time; an approved write is sent at most once; an outcome stands; what may have happened outside stays on record |
| Agent automations, storage, tools | rows | schedules, model calls | missed and repeated schedules | at most one run per due time |
| NL2SQL jobs (`ontology_worker.py`, `profile_sync.py`, `synthetic_service.py`, `quality_evaluation_service.py`) | job rows with leases | as the queue | as the queue | as the queue |
| NL2SQL questions, catalog | none shared | prompts, SQL analysis | - | out of scope |
| **Bounded calls** (`src/platform/packages/backend_core/src/pr_backend_core/bounded_calls.py`) | per executor: slots in use and the limit, a pause for all, the breaker and its probe, the budget of retries; per call its retries | acquire, answer, retry, defer, abort, cancel; a map of items with a final round | old answers while the breaker is half open; slots of calls that are cancelled; who wakes the waiting; retries that feed an outage | slots are calls in flight, one probe at a time, paid retries, an outcome for each item, every call ends |
| Backend core: Oracle pool, chat progress (`oracle_pool.py`, `chat_progress.py`) | pools, streams | borrow, report | - | connections are given back |
| Settings, frontends, suite evaluation, skills, Terraform | files, presentation | - | - | out of scope |

`PROJECT.json` lists the same components with their status, and every hazard found at the line
where it bites.

## 2. The modules

| module | role |
|---|---|
| `JobLifecycle` | what the queue promises: a job is queued, tried, settled once; with its invariant and its proof |
| `IngestionQueue` | the queue in detail: rows, executions, workers, faults; the properties; the mutated operators beside the ones they mutate |
| `IngestionRefinement` | the refinement mapping from the queue to the life cycle |
| `IngestionStatements` | a statement of the code's comments that the code does not keep |
| `MCIngestionQueue`, `MCIngestionFaults` | small instances; the second bounds the number of faults |
| `IngestionQueueProofs` | the inductive invariant and the theorems |
| `LoginThrottle` | the limit on failed logins: attempts, calls to the shared table, process memories; its properties; the mutated operators beside the ones they mutate |
| `MCLoginThrottle` | small instances: the clock's bound, with and without faults, symmetry |
| `LoginThrottleProofs` | the inductive invariant, the theorems, and the arithmetic of the wait a refused client is told |
| `LoginResidueProofs` | the invariant of a throttle in which no call has failed: no rows are left behind |
| `WorkerSlots` | the inside of one worker: slots, the children's pipes, delays after failed starts |
| `MCWorkerSlots` | a small instance, with a bound on failures and interventions |
| `WorkerSlotsProofs` | the inductive invariant and the theorems |
| `BoundedCalls` | the calls of one executor to an AI service; its properties; the mutated operators beside the ones they mutate |
| `MCBoundedCalls` | a small instance, with the rules of four kinds of failures |
| `BoundedCallsProofs` | the inductive invariant and the theorems |
| `RunLedger` | what an agent run promises about approved writes; with its invariant and its proof |
| `AgentRun` | an agent run in detail: storage, memories, executions, the user's operations, faults; the properties; the mutated operators beside the ones they mutate |
| `MCAgentRun` | small instances, with a bound on the number of faults |
| `AgentStatements` | two statements of the code's comments that the code does not keep |
| `AgentRunProofs` | the inductive invariants of the two modes and the theorems |

The ingestion queue, the login throttle and the agent runs share nothing but the database, an executor of bounded calls lives and ends with one
job or request, and they are not composed. `WorkerSlots` looks at the rows of `IngestionQueue` from inside one worker: the queue's
`Dispatch` is its `Fetch` and `Launch`, and what the queue's other actions do to a row is a step of
its environment (`Taken`, `Given`). Composing them in one module would multiply two state spaces that meet
in three columns of a row; each is checked with the other as an environment that may do all it does and more.

### How `IngestionQueue` corresponds to the code

*State.* `jobs` is `rag_ingestion_jobs` with the columns the protocol reads: status, attempt count,
lease owner, and `expired` for a heartbeat older than the lease's time to live by the database
clock. `recipes` is the status of a `rag_document_recipes` row with the recipe's active chunk set.
`versions` is the version log a switch appends to. `runs[w][j]` is what worker `w` executes for job
`j`: the child process, or, after the child ended badly, the worker's own clean-up (`inParent`).
A worker never has two executions of one job because it skips the jobs it has in flight
(`ingestion_worker.py:766`). Worker ids are never used again (`new_worker_id`).

*Grain.* One action is one database transaction, or one read between two of them. Within a
transaction the code's row locks make it atomic, with one exception that the model keeps apart: the
switch (`activate_recipe_chunk_set`) holds the recipe row's lock while it reads the job row
*without* a lock, so `Fence` and `Switch` are two steps and every writer of the recipe row waits
between them (`RecipeUnlocked`). Locks are modelled only there.

*Operations.*

| code | actions |
|---|---|
| `_create_ingestion_job_with_oracle`, `_enqueue_ingestion_job_for_recipe`, `retry_ingestion_job` | `Create` (a retry creates a new job) |
| `cancel_ingestion_job` | `Cancel` |
| `_dispatch_available` | `Dispatch` |
| `_claim_ingestion_job_with_oracle` | `Claim`, `ClaimNothing` |
| `_run_pinned_ingestion_job`, `_materialize_experiment_candidate` | `Check`, `ReadBase`, `Mark`, `BuildToGate`, `BuildIndex`, `ReadGate`, `Fence`, `Switch`, `Supersede`, `Succeed`, `Advance` |
| its `except` clauses | `Raise`, `RaiseTransient`, then `Fail`, `MarkFailed`, `Skip` |
| `_requeue_ingestion_job_after_transient_error` | `RequeueCheck`, `ReadActive`, `RequeueWrite`, `RequeueJob`, `RequeueAnswerLost`, `RequeueFails` |
| `_restore_statuses_after_cancel` | `Restore`, `ReadActive`, `RestoreWrite` |
| the child's death; `_mark_running_job_failed`, `record_ingestion_startup_failure` | `ChildDies`, `ParentReads`, `RecordStartupFailure`, `IgnoreStartupFailure`, `ParentGivesUp` |
| `_heartbeat_loop`; the lease's time to live | `Heartbeat`, `LeaseRunsOut`, `HeartbeatLate` |
| `_recover_stale_ingestion_jobs_with_oracle` | `Recover` |
| `_shutdown`, `requeue_leased_ingestion_jobs`; loss of the process | `Stop`, `Shutdown`, `ShutdownWithoutRequeue`, `Crash` |

*What is abstracted.* Parsing, chunking and embedding become one step that writes the recipe status
the pipeline ends with and, on the way to the index, fills the candidate (`built`). Chunk sets are
named by job and attempt, as their hash is. A REVIEW gate depends on settings and content, so it is
a choice. The check of the lease and the mark of the recipe that the code makes twice in a row
(`documents.py:5528-5532` and `2954-2962`) are made once. The three reads of
`_restore_statuses_after_cancel` are one step because a CANCELLED row never changes. An INDEX job
may index a chunk set that an earlier CHUNK job left pending; the model always gives it its own.
Loading the pinned language pack before the `try` block can fail like any other step of it. A lost
answer to a commit is an error raised after the effect (`ErrorPoints`, `RequeueAnswerLost`).

*What is not modelled in the queue.* Recipe revisions and the stale-revision refusal,
document-level jobs (they are refused by the execution), document deletion, the limit on how
many rows one recovery takes, progress rows and attempt receipts, the section map refreshed after
success, the chunks a superseded candidate leaves for the next switch. Slots and cooling times are in `WorkerSlots`.

### The abstract specification

`JobLifecycle` has two variables, the status and the attempt count of each job, and seven actions:
`Submit`, `Start`, `Settle`, `Withdraw`, `FailToStart`, `GiveUp` (lost tries go back to the queue
or fail) and `TakeBack` (a shutdown's tries do not count). It knows no workers, leases or
executions. The queue implements it (`Implements == Lifecycle!Spec`): a settled job never moves
again, no job starts beside another of its document, no job is tried too often.

### How `LoginThrottle` corresponds to the code

*State.* An attempt is one run of `AuthService.login`: `client` is its login id, address and process,
`pc` the point it has reached, `store` and `retryAfter` the fields of `LoginAttempt`, `seen` the rows
its reservation read. `shared` is `PLATFORM_LOGIN_ATTEMPTS`, `memory[p]` a process's
`MemoryLoginAttemptStore`, `downUntil[p]` its `_shared_unavailable_until`, `op[p]` the operation that
holds its `_shared_operation_lock`. `reserved`, `commits`, `order` and `forgiven` are history
variables: no guard and no other variable's next value reads them.

*Grain.* A call to the shared table is four steps of two actors: the caller starts it and waits
(`CallStarts`), the thread executes its statement, commits, and answers (`StoreExecutes`,
`StoreCommits`, `StoreAnswers`). In between the caller may give up (`CallTimesOut`) and go on in
memory while the thread goes on with its statement. A reservation reads the others' rows after its
commit, in `StoreAnswers`. What a process does under the lock of its memory, or of its state, is one step; `Decide`
joins the read of the memory with the comparison, which is on the rows just read.

| code | actions |
|---|---|
| `begin` | `Begin`, then `CallStarts`, the call's steps, `MarkAvailable` and `Decide`, or `FallBack` and `Unreserve` |
| `_call_shared` | `CallStarts`, `CallRefused` (the lock is not free in time, no thread starts), `CallTimesOut`, `CallFails` |
| `reserve`, `release`, `clear`, `purge_expired` of the Oracle store | `StoreExecutes`, `StoreCommits`, `StoreAnswers` with `Affected` |
| `record_failure`, `record_success`, `cancel`, as `login` calls them | `VerifyFails`, `VerifySucceeds`, `VerifyErrors` |
| `_mark_shared_unavailable`, `_mark_shared_available`, `_available_shared_store` | `Raise`, `MarkAvailable`, `Available` |
| `_wait` | `Others`, `Full`, `LimitingAge`, `Wait` |
| the end of a process | `Crash` |

*What is abstracted.* A key hash is the pair it is made from; the key of an address alone has
`AnyUser` in place of the login id. Time is whole ticks, so rounding up and the floor of one second
have nothing to do. The database's clock and the hosts' are one clock. A purge takes all expired
rows, and the bounds on rows per statement (`PURGE_BATCH_ROWS`, `MAX_ROWS_PER_CHECK`) and the pruning
of a large memory (`_PRUNE_THRESHOLD`) are left out: expired rows are read by nobody. A process without
the shared secret behaves as one whose calls always fail. How the password is verified is a choice
of three outcomes. An attempt that a crash interrupts while it waits for a verification counts as one
that may have failed (`lost`).

### How `WorkerSlots` corresponds to the code

*State.* `inflight` and `heavy` are `_inflight` and `_inflight_heavy`; `cool`, `pause` and `streak` are
`_startup_retry_at`, `_startup_resume_at` and `_startup_failure_streak`, the two times as what is left of
them, in poll intervals. `fetched` and `expected` are the list that the dispatch awaits and the attempt counts
in it. `task` is how far `_run_job` is, `pipe` the pipe of `_HeavySlotReleasePipe`. `row`, `attempts`
and `leased` are the columns of the job row that the worker and its child read.

| code | actions |
|---|---|
| `_dispatch_available` | `Fetch` (up to the await of the list), `Launch` (the loop over it) |
| `run_ingestion_job_subprocess`, `_wait_job_subprocess` | `Spawn`, `SpawnFails`, `ChildDies`, `Observe` |
| the child: claim, `release_heavy_ingestion_slot`, its end | `Claim`, `ClaimNothing`, `Parsed`, `Exit` |
| the callback of the pipe | `Release` |
| `_run_job` | `Succeed`, or `Record`, `RecordFails` with `Delay`; both end in `TaskEnds`, its `finally` |
| `_mark_running_job_failed`, `record_ingestion_startup_failure` | `Record` |
| `_delay_startup_failure`, `_cooling_job_ids` | `Delay`, `Tick` |
| other workers, recovery, cancellation | `Taken`, `Given` |

*What is abstracted.* A child that stalls or takes too long is stopped and then is like one that died. The
jobs are of distinct documents, so a claim finds no other job of its document running. Wake-ups
only shorten the wait for the next poll. Stopping the worker, and the executions it ends, are in `IngestionQueue`.

### How `BoundedCalls` corresponds to the code

*State.* `inFlight`, `limit`, `since`, `breaker`, `probes`, `probing`, `failing`, `budget` and `aborted` are the
fields of `BoundedCaller`; `pause` and `guard` are `_pause_until` and `_decrease_guard_until` as what is left of them, in ticks.
`pc` is where a call is: before `_acquire` (`ready`), in its `condition.wait()` (`waiting`), in its attempt (`flight`, `probe`), awaiting new
credentials. `sleep`, `used` and `finals` are the locals of a call; `results`, `round` and `stopping` belong to `map` and its
`TaskGroup`.

*Grain.* All runs on one event loop, so a step is what a call does between two awaits. `_release` does not suspend
(nobody holds the condition's lock across an await), so giving a slot back, waking the waiting and handling the answer are one step.

| code | actions |
|---|---|
| `_acquire` | `Refuse` (aborted), `Doze` (the pause), `Enter`, `Queue` |
| `call`, an answer | `Succeed`; `LastProbe`, `Retry`, `TryAgain`, `AbortJob`, `FailItem` for a failure of some kind; `NestedFails` |
| its refresh of credentials | `Refreshed`, `RefreshFails` |
| `CancelledError` in any of its awaits | `Cancel` |
| `map`, `_gather` | `RoundEnds` with `FinalRound`; `Raises` in an item, `Stop` from outside |
| the clock, the deadline | `Tick` |

*What is abstracted.* The service answers or fails in any way at any time. A delay is any number of ticks up to the longest. The budget counts in
units of which a retry costs `Cost` and a success gives `Gain`, as the ratio of the policy is a fraction.
The factor of the cut is the default half. Counts that are only compared with a threshold stop there.

*What is not modelled.* Single calls made as `final`,
events and status, the classification of errors, the thread bridge `SyncBoundedCaller`.

### How `AgentRun` corresponds to the code

*State.* `store` is the run's row, with the messages, events and outputs left out; `mem[p]` the copy in
the repository of process `p`, `dirty[p]` whether it has staged a write. A row has the run's status,
`lease` (the claim of a queued run) and `exec` (the last execution begun), each a token and a
generation, the saved state (`saved`, `asked`), and for each call the step and the approval. `work[p]` is
the segment that `p` executes, `call[p]` how far each of its calls is. `tasks` and `due` belong to the
in-process mode: the tasks created and not started, and those to be created when the decision has been written.
`sent`, `answer` and `lost` are history variables.

*Grain.* The repository changes its memory under its lock and writes the row afterwards, in the background
when the change was made on the event loop. So a change is one step and `Write` another, which may be late and may fail.
`Claim` and a dispatcher's `Begin` are one transaction on the storage. Before a call and before a
model call the code looks for the end of the run: in the memory, or, when the row can be read, in the storage first
(`EndedInMemory`, `EndedInStore`).

| code | actions |
|---|---|
| `_claim_control_plane_run_locked`, `dispatch_once` | `Claim` |
| `begin_builtin_run`, `begin_builtin_resume` of the Oracle repository | `Begin`, `BeginFails` |
| the lease's time to live | `Expire`, `ExpireHeld` |
| the tasks of `_schedule_builtin_run` and `_may_begin_locked` | `Start` |
| `invoke` and `_invoke_abortable` of an approved tool | `Check`, `Skip`, `StartCall`, `RecordFails`, `Send`, `Abort`, `Finish`, `GiveUp` |
| `request_builtin_approvals`, `complete_builtin_run`, `fail_builtin_run`, the check before a model call | `Ask`, `Complete`, `Fail`, `Stop` |
| `decide_approval`, `decide_confirmation`, `cancel_run`, `resume_run`, `rename_thread` | `Decide`, `Answer`, `Cancel`, `ResumeRequest`, `Rename` |
| `_flush_after_release`, `_background_writer`, `_write_staged` | `Write`, `WriteFails` |
| `_apply_storage_changes_locked` | `Sync` |
| the end of a process, `_fail_interrupted_runs` | `Crash` |

*What is abstracted.* The row is read and written as a whole. A token is a number never used again, as
its random text is. The model's choices (which calls it asks for, whether it asks the user a question, when it is done)
are free. `Rename` stands for any change of the row that leaves the run as it is. A result is done, failed or unknown.

*What is not modelled.* Tools without approval; an operation with an unknown outcome that the model
repeats under a new call id (the code asks the user again); a begin whose transaction commits and whose
answer is lost; the threads, artifacts and events of a run; automations.

### The ledger of an agent run

`RunLedger` has three variables, the decisions, whether the run is closed, and how often each call was
sent, and two actions: `Advance` (decisions are made and stand, nothing is approved after the end, the end is
final) and `Send` (of an approved call, once). It knows no processes, no memory and no leases.
`AgentRun` implements it (`Implements == Ledger!Spec`) with the *stored* row as the record: what the
user has approved counts when it is written.

## 3. What TLC checks

All runs set `CHECK_DEADLOCK FALSE`: the system may stop, when all jobs are closed or no worker is
left, when all logins are answered and the clock is at its bound, when a run has ended or waits for its user. `MaxAttempts` is `ingestion_job_max_attempts` (3 by default).

| run | instance | shows |
|---|---|---|
| `queue_one_job` | 1 EXTRACT job, 2 workers, 3 attempts, 3 faults | `TypeOK`, `AttemptBudget`, `LeaseNamesExecution`, `VersionHistory`, `Implements` |
| `queue_recipes` | 2 jobs of one recipe and 1 of another recipe of the document, 1 worker, 1 attempt, 1 fault | `OneOpenJobPerRecipe`, `OneRunningPerDocument` |
| `queue_liveness` | 1 EXTRACT job, 2 workers, 2 attempts, 2 faults, fair | `JobsSettle`, `RecipesSettle` |
| `served_version` | 1 EXTRACT job, 2 workers, 2 attempts | a counterexample, see section 5 |
| `throttle_faults` | 2 attempts, 2 login ids, 2 processes, limits 1 and 1, window 2, any number of faults | `TypeOK`, `FailuresBounded`, `FailureRecorded`, `CalmLeavesNoResidue`, `RetryAfterExact`, `KnownFailuresCount` |
| `throttle_liveness` | 2 attempts, 1 process, any number of faults, fair | `LoginAnswered` |
| `agent_process` | in-process mode, 2 calls, 2 faults, `Rename` | `TypeOK`, `TruthfulSteps`, `OutcomeStands`, `Implements` |
| `agent_dispatch` | 2 dispatchers, 1 call, 1 fault, fair | `NoOverlap`, `GenerationsGrow`, `Implements`, `Settles` |
| `agent_superseded` | in-process mode, 1 call, no fault | a counterexample, see section 5 |
| `agent_requeue` | 1 dispatcher, 1 call, no fault, `Rename` | a counterexample, see section 5 |
| `worker_slots` | 2 heavy jobs and a light one, 2 slots of which 1 heavy, 2 faults, fair | `TypeOK`, `SlotsMatchTasks`, `ParsingBounded`, `JobsServed` |
| `bounded_calls` | a map of 2 items, 1 single call made once, 2 slots, 4 kinds of failures, fair | `TypeOK`, `SlotsMatchCalls`, `ProbeIsAlone`, `RetryBudgetKept`, `EveryItemHasOutcome`, `CallsEnd` |

*Why the bounds are enough.* The conflicts of the queue are between executions of one job (two
workers and two attempts: the holder of the lease and the one that lost it; with three attempts an
execution can be overtaken twice, which the version log needs), between jobs of one recipe (two
jobs, of which the second is created by hand or by the first one's success), and between jobs of
two recipes of one document (two jobs). Safety is proved for every number of them in section 4;
the runs check that the invariants are the right ones and that the situations happen: between them
the passing runs take every action. `MaxFaults` bounds how often children, workers, leases and
database calls fail, at any points: two faults allow one to be hit while cleaning up after another, and three
cost a job all its attempts.

For the throttle: an admission depends on the rows of one key, and two attempts are enough for any
race between two reservations. The limits of one are exact; room beside a row is a matter of the theorems, which
have no such bounds. `MaxClock` lets the window pass while rows of different ages lie in it. A fault is a failed, refused or
abandoned call or a crash; one makes a process count in its memory, which it leaves again by the clock. `troubled` remembers
whether one has happened: until then no row of a refused, cancelled or successful attempt stays (`CalmLeavesNoResidue`);
afterwards one may, and the code says so (`_release_quietly`: such a row counts as one failure for a window).

For the agent run: two calls allow one to be sent while the other waits, is refused or is asked for
later; for the overlap of two executions, and for anything a lease does, one call and two dispatchers are enough.
A fault is a crash, a begin whose transaction fails, or a lease that expires while its holder is about to
begin. With none bounded a run could be claimed for ever, so `MaxFaults` bounds them: in
`agent_process` the second crash can hit the restart after the first. Cancellations, decisions, failed writes of
decisions, given up calls and `Rename` are not bounded.

For the slots: two heavy jobs compete for one heavy slot, a light one may pass them, and two
slots can both be taken. `MaxFaults` = `MaxAttempts` = 2 failed starts bring about a pause. `Cap` is
the longest delay in poll intervals, and with 2 a delay can double once; `StreakBound` stops the counting of failed
starts where the pause has long been at `Cap`.

For the bounded calls: two items compete with a single call, and two slots can be in use when the breaker opens or the
limit is cut to one. The budget pays for one retry, successes for more; two failures in a row open the breaker and two
failed probes stop the job. The four kinds of failures are the ways the default rules (`DEFAULT_KIND_RULES`) treat one: a
rate limit, an outage, refused credentials, an input that is too large, which for a call that cannot make it smaller is an error of
the item. `FailJob` is the default FALSE; the theorems cover both values.

*Symmetry.* Workers are interchangeable in `queue_one_job` and `served_version`, calls in
`agent_process`, and attempts, processes and login ids in the throttle's safety runs. The other runs, all those with liveness among
them, use no symmetry.

*Fairness* (`FairSpec`). Weak fairness of each worker's `Dispatch`, `Heartbeat`, `Recover` and
shutdown, and of each execution's next step. The code justifies it: the worker polls for ever
(`_run_queue`), its heartbeat is a loop of its own, recovery runs at start-up and at intervals
whenever nothing was dispatched, every database call and the child as a whole have a deadline, and a
shutdown ends after its grace period. `LeaseRunsOut` is fair: time passes. Faults are not fair,
and neither are `Create` and `Cancel` assumed to happen. Dispatch is fair per job because the
dispatch order is by queue time and jobs in flight are left out of it; that one job does not starve another
for want of a slot is `JobsServed` of `WorkerSlots`.

For the throttle: weak fairness of an attempt's own steps and of its deadlines (`acquire` and `result`
have a time limit). Nothing is assumed of the database: a call may never answer, and `LoginAnswered`
holds all the same. `Begin` is not fair, nobody has to log in.

For the agent run: dispatchers poll for ever (`run_forever`), so `Claim` and `Begin` are weakly fair, as
is the start of a task the event loop has created. An execution goes on (`Execute`): model calls and tools have deadlines. A
write that failed is tried again by the background writer (`_background_writer`), and a lease nobody holds runs
out with the clock (`Expire`). No fairness for `Operate`, `Sync` and the faults: the user owes nothing.

For the slots: the worker's loop (`Dispatch`), the clock (`Tick`), and per job the child's next step
and the worker's tasks and pipe callbacks. A child that hangs is stopped by the worker's watch over stall
and total time, which ends as `ChildDies`. What others do to a row is a fault here, without fairness.

For the bounded calls: a call that can go on does, an attempt has a time limit (its own or the SDK's), the clock runs, a
cancelled task gets its cancellation. Nobody has to make or cancel a call. `MCFairness` says the same by what the states show,
because `ENABLED` of a call's steps costs TLC more than the rest of the run; its comments say why it follows from `Fairness`.

*What liveness means here.* A job may stay RUNNING for ever in one situation, which
`JobsSettle` names (`Stranded`): its lease belongs to the only worker left running, which no
longer executes it (section 5, the recovery of stale jobs).

*Mutants.* Each property has one operator of the model and a plausible bug in it (next to it in
the module, marked as its mutant); TLC finds the property violated when it is put in.

## 4. What is proved

`IngestionQueueProofs` proves for every set of workers, jobs, recipes and documents and every
positive attempt limit, from `QueueAssumption` alone (the constants have their types; `None` is
neither a worker nor a chunk set):

| theorem | statement |
|---|---|
| `QueueInvariant` | `Spec => []IInv` |
| `TypeCorrect`, `AttemptsBounded`, `LeaseIsExecution` | the invariants `TypeOK`, `AttemptBudget`, `LeaseNamesExecution` |
| `DocumentExclusion`, `RecipeExclusion` | `OneRunningPerDocument`, `OneOpenJobPerRecipe` |
| `HistoryUnbroken` | `VersionHistory` |
| `QueueImplements` | `Implements`: the queue refines the life cycle |
| `JobLifecycle!LifecycleInvariant` | the life cycle keeps its own invariant |

*The argument.* `IInv == TypeOK /\ RunInv /\ Lifecycle!Inv`. The exclusion and budget properties
are properties of the life cycle, so they are proved there once, on two variables, and hold of the
queue because each of its steps is a step of the life cycle or leaves the job rows' status and
attempt alone. That step simulation needs two facts the rows do not show: that an execution which
has passed its claim and still finds the row RUNNING under its worker's lease is the execution
that claimed it (`LeaseNamesExecution`, so that a transition that compares only status and lease
owner requeues or fails the right try), and that an execution which reached the requeue has an
attempt left. These two are `RunInv`, and
they are inductive beside `TypeOK`: an execution begins while its row is QUEUED; the row becomes
RUNNING under a worker only by a claim, which writes the same attempt to both; after that the row's
attempt changes only when the row is QUEUED, or by a shutdown, which ends all executions of the
lease's worker. `VersionHistory` is inductive beside `TypeOK` because `Switch` compares
the baseline under the recipe's lock.

`LoginThrottleProofs` proves for every finite set of attempts and any processes, login ids,
addresses, limits and window, from `ThrottleAssumption` alone (the limits are natural numbers, the
window and the retry time positive, the attempts finitely many, `AnyUser` is no login id and
`NoAttempt` no attempt):

| theorem | statement |
|---|---|
| `ThrottleInvariant` | `Spec => []IInv` |
| `ThrottleTyped` | `TypeOK` |
| `FailuresAreBounded` | `FailuresBounded` |
| `FailuresStayRecorded` | `FailureRecorded` |
| `KnownFailuresAreCounted` | `KnownFailuresCount` (of every step) |
| `RetryAfterIsExact` | `RetryAfterExact` (of every step) |
| `LoginResidueProofs!FaultyIsThrottle` | `FaultySpec => Spec`: the runs' specification, which remembers faults, is a restriction of the one above |
| `LoginResidueProofs!CalmHasNoResidue` | `CalmLeavesNoResidue` |

*The argument* follows the file's own comment (login_throttle.py:34-38), and makes it exact. Order the
reservations by their commits. `FailuresBounded` is not inductive: it does not say why the next
attempt will see the rows of those let through before. `IInv` adds, beside types, finiteness and what a
running call may still do (`OpInv`): the row of every attempt that counts is in the table (`RowInv`) or
in its process's memory (`MemoryInv`); an attempt about to decide has read the row of everyone
committed before it (`SeenInv`), because it reads after its own commit; so an attempt that is let
through had fewer than the limit before it (`RankInv`). Who counts before an attempt only shrinks
afterwards (`BeforeShrinks`). Numbering the failures of a key by how many of them came before then
maps them one to one into `0 .. limit - 1`, and there are at most as many as the limit. That an
abandoned reservation may commit at any later time is no exception: its attempt no longer stands
among those that count, and its row can only make others wait.

`RetryAfterExact` compares two ways to say when a refused client may try again. The code takes, for each key that is full, the
row that has to leave the window for the rest to be below the limit, and from it the time; the property says that
the client is told the least wait after which every key has room. The proof shows that the rows younger than a time are finitely many,
that they only get fewer as time passes, and that the row the code picks is the one at which their number reaches the limit.

`CalmLeavesNoResidue` has an invariant of its own (`CalmInv`), for as long as `troubled` is false. The table has not been marked
as unavailable, so nobody counts in memory; every running call has its caller waiting for it, so none commits
after its attempt went on; what such a call inserts are rows of its attempt, and what it deletes are all of
them. An attempt that has ended without a failure has therefore no row in the table.

`WorkerSlotsProofs` proves for any finite set of jobs and any numbers of slots, from `SlotsAssumption`
alone (each constant has its type, `HeavySlots` is at most `Slots`):

| theorem | statement |
|---|---|
| `SlotsDoMatch` | `SlotsMatchTasks` |
| `ParsingIsBounded` | `ParsingBounded` |
| `TypesAreKept` | `TypeOK`: delays and the pause stay within `Cap`, the streak within its bound |

*The argument.* `ParsingBounded` is about children, and the code bounds the set `_inflight_heavy`; the
link is that a heavy job holds its heavy slot until it has parsed and that the pipe has nothing to say
before that, nor after the worker has seen the end of the child (`OneSlotInv`). Without the last part a
late callback could give back the slot of the job's *next* execution. The bound on the heavy set itself
holds because `Launch` counts again what is free when it works the list off; `Fetch` may have read
the list when more was free. `TypeOK` rests on a power of two being a natural number, which is proved once, and on the number of
the worker's jobs in a set being at most that of the set.

`AgentRunProofs` proves for any dispatchers and calls, from `AgentAssumption` alone (the API is no
dispatcher, `Renames` is a truth value), that `TypeOK` (`TypeCorrect`) and `OutcomeStands` (`OutcomesStand`) hold. The other theorems have a
hypothesis `NoForeignWrites == InProcess \/ ~Renames`: the API executes the run itself, or it writes decisions, answers,
resumptions and cancellations only.

| theorem | statement |
|---|---|
| `InvariantHolds` | `Spec => []IInv` for the in-process mode (`InProcess`) |
| `DispatchInvariant` | `Spec => []DInv` for the dispatchers (`~InProcess /\ ~Renames`) |
| `InvariantOfMode` | `Spec => []BothInv`, the one of the two that belongs to the mode |
| `StepsAreTruthful` | `TruthfulSteps` |
| `ExecutionsDoNotOverlap` | `NoOverlap` |
| `GenerationsDoGrow` | `GenerationsGrow` (of every step) |
| `KeepsTheLedger` | `Implements`: the run refines its ledger |
| `WritesAreSentOnce` | no call is sent more than once, and none without an approval in the storage |
| `RunLedger!LedgerSafe` | whatever keeps the ledger has that property |

*The argument, in one process.* The storage is always *behind* the memory (`Behind`): it has no decision, no
end and no generation that the memory does not have, so writing it late changes nothing that was
final, and a restart, which puts the memory back to the storage, loses only what nothing was built on. `RowInv` says
so, and that a run which is queued or running waits for no decision. `CallInv` follows each call: one that
is to be made was never sent, and the saved state no longer asks for it; one that is recorded or was sent is
approved and begun in the storage as in the memory (`Gone`), with no result but the one that came back.

*The argument, with dispatchers.* Several processes have copies of the row and any of them may be old, so no copy is ahead of
all others for good. `DInv` says which one may still be written, and what writing it can do:

- `ActiveInv`: at most one dispatcher is active, that is, executes the run or has not written its end. While the storage says that the
  run is running, the active dispatcher's copy has the same decisions and the same execution; if it is cancelled there
  the copy still agrees with every decision made. A claim needs a queued row, and only the user, for whom the run then waits, makes it one again.
- `ApiInv`: the API's copy *leads* while the run waits for the user, because nobody else can change it then; it *trails* while the
  run is executed, and all it can write is a cancellation; or the run is over in both.
- `StoreInv` and `CallsInv`: a call that is to be made is pending and not sent, in the storage and in every copy that may still be
  written (`Older`); one that was sent is approved and begun in the storage (`Stands`), and no open run asks for it again.
  A copy that is written late therefore cannot bring a call back.

The hypothesis is needed. With `Renames` the API may write an old copy for a reason that has nothing to do with the run's state, and
then `NoOverlap`, `TruthfulSteps`, `GenerationsGrow` and `Implements` all fail in TLC with dispatchers; the
run `agent_requeue` shows one of the ways (section 5).

Both invariants give what a step does to the stored row and to the calls (`StepOfMode`): the row goes on (`Succeeds`) and nothing is
sent, or the row stays and an approved call is sent for the first time. That is a step of the ledger. `SentOnceApproved` is proved
on the ledger, and `WritesAreSentOnce` follows from the two theorems.

`BoundedCallsProofs` proves for any finite set of calls, any rules and any numbers, from `CallsAssumption` alone (each
constant has its type, the least limit is positive and at most the greatest, kinds that refresh credentials do not throttle):

| theorem | statement |
|---|---|
| `CallsInvariant` | `Spec => []IInv` |
| `SlotsAreCalls`, `ProbesAreAlone` | `SlotsMatchCalls`, `ProbeIsAlone` |
| `RetriesArePaidFor` | `RetryBudgetKept` |
| `ItemsHaveOutcomes` | `EveryItemHasOutcome` |
| `TypesAreKept` | `TypeOK`: the limit stays between its bounds and the counts within their thresholds |

*The argument.* The invariant has a part for each. Slots (`SlotInv`): a probe is let in when the count is zero, and the
count is the number of calls in flight, so nobody else is; then nobody enters until it is given back, because the
breaker is half open and only a call in flight changes that. Budget (`BudgetInv`): it is the initial one with all gains and
less all costs, and never negative. Map (`MapInv`): while nobody stops the map, an item that ended has an answer or is left for
the final round, and only in the first round the latter; the map returns when none is left.

*Only model-checked.* `JobsSettle`, `RecipesSettle`, `LoginAnswered`, `JobsServed`, `Settles` and `CallsEnd`: liveness under fairness and
`ENABLED` are outside the prover's reach. Every invariant and every action property that a passing run checks is stated by
a theorem, those of the agent run with dispatchers under the hypothesis above. TLC checks them as well.

## 5. Where the code and its statements differ

| run | statement | what happens |
|---|---|---|
| `served_version` | the attempt is part of the chunk set's id so that a requeue after the switch does not replace the active set (`documents.py:2951`) | a shutdown between the switch and SUCCEEDED takes the attempt back; the next try has the same id and rebuilds the served set |
| `agent_superseded` | an execution stops when the run has ended or another execution has replaced it (`runtime.py:2873`) | a resumed segment looks into the storage before its own begin has been written, finds the previous segment's token there and stops; the run stays RUNNING until the next restart |
| `agent_requeue` | the executions of a run do not overlap in one storage (`run_claim.py:18`), and an approved call that comes back is not sent again (`external_writes.py`, rule 4) | a change made on the API's stale copy puts the queued row back over the completed one; the run is resumed again and sends the call a second time |

Seen in the models, without a run of their own:

- *Counting failed starts.* Failures before the claim are counted, and at the limit the job fails
  (`oracle.py:5872`). A requeue after a transient error leaves `lease_owner` in the QUEUED row, and
  the count demands that it is NULL: such a job may fail to start for ever.
- *A lost lease.* After another worker claimed the job, the old execution does not change the recipe
  (`src/rag/docs/deployment.md:2032`). The lease is checked and the recipe written in two transactions.
- *A candidate without chunks.* Only an indexed output becomes active (`oracle.py:3284`). The gate's status is
  read back from the shared row; changed by another execution, it sends a candidate without chunks to
  be marked INDEXED and switched to.
- *Stale jobs of a single worker.* When FAILED cannot be written, the recovery of stale jobs picks the job
  up (`documents.py:5687`). A worker's recovery leaves out its own lease; a single worker never
  recovers the job, which is the case `Stranded` of `JobsSettle`.
- *Repeating a write of a cancelled run.* Running writes of a run that has ended, by a cancellation among other things, count as
  having an unknown outcome (`external_writes.py:208`), and repeating one asks the user again. A cancellation sets running steps to
  CANCELLED, so the repetition is not asked about.
- *Cancellation against completion with dispatchers.* Only an open run in a process's memory takes over a
  stored cancellation: a completion written late replaces it, and a cancellation made on the API's stale copy replaces a
  stored completion. `OutcomeStands` is therefore stated for the in-process mode.
- *Refused credentials.* The message of an abort says that the credentials were read again and refused again (`_ABORT_HINTS` in
  `bounded_calls.py`). A call that may not be repeated (in the final round, after the deadline, with the budget used up, not
  idempotent) aborts the job without reading them again.
- *Time limits of threads.* `SyncBoundedCaller` runs a call in a thread (`bounded_calls.py:1396`). When an attempt reaches its
  time limit the slot is given back and the call repeated while the thread goes on, so more calls may be out than the limit allows.
- *A success of a login.* A reader of `login_throttle.py:14` ("a success erases the count of its login id and
  address") should know how far it reaches: `record_success` clears its own process's memory and the
  table. A failure that another process counted in its memory while it could not reach the table
  stays there, and that process adds it to the table's rows for the rest of the window.

## 6. Plan

1. *Done:* the ingestion queue, its life cycle, the proofs of its safety.
2. *Done:* the login throttle, the proof that allowed failures stay below the limit.
3. *Done:* the agent run, its ledger, the proofs for both modes.
4. *Done:* the slots of a worker, the proof that they match its executions.
5. *Done:* the bounded calls of the backend core, the proofs of their safety.
6. Agent automations: one run per due time, beside the claims of `AgentRun`.
7. Versions: `chunk_set_retention`, restore and document deletion beside the switch; the
   version history extended by restores; recipe revisions.
8. The queues of NL2SQL and of RAG's evaluation and chat answers, as further instances of the life
   cycle; the thread bridge of the bounded calls.

The set of runs is kept to a dozen, one per distinct question: when a module is added, runs that
ask of one instance are joined, and a counterexample whose case is described and settled goes.

## 7. Not modelled, and why

What a model checker adds little to: parsing, chunking, retrieval, answering, the translation of questions to
SQL, prompts and frontends transform data or call models and share no state that two actors write.
What would repeat a protocol that is here: the evaluation, chat answer and NL2SQL jobs claim rows under leases as
the ingestion queue does. What is left for want of a run's worth of work, in the order of the plan: version retention and deletion,
automations, sessions and settings.
