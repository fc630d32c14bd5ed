----------------------------- MODULE WorkerSlots ------------------------------
(* The inside of one ingestion worker: the slots of its jobs, the fewer slots *)
(* of the heavy phases, which a child process gives back by a pipe as soon as *)
(* it has parsed, and the delays after starts that fail.                      *)
(*                                                                            *)
(* The job rows are those of IngestionQueue, seen from one worker: what the   *)
(* others do to a row is a step of the environment.  Time is counted in poll  *)
(* intervals, and as what is left of a delay.  Stopping the worker is in      *)
(* IngestionQueue.                                                            *)
EXTENDS Integers, FiniteSets

CONSTANTS
    Jobs,
    Heavy,          \* the jobs of the phases PREPROCESS and EXTRACT
    Rank,           \* the order in which the storage lists queued jobs
    Slots,          \* how many jobs the worker executes at once
    HeavySlots,     \* how many of them may be in their heavy part
    MaxAttempts,
    Cap,            \* the longest delay
    StreakBound     \* failed starts in a row are counted up to here

ASSUME SlotsAssumption ==
    /\ IsFiniteSet(Jobs) /\ Heavy \subseteq Jobs
    /\ Rank \in [Jobs -> Nat]
    /\ Slots \in Nat \ {0} /\ HeavySlots \in 1..Slots
    /\ MaxAttempts \in Nat \ {0}
    /\ Cap \in Nat \ {0}
    /\ StreakBound \in Nat /\ StreakBound >= MaxAttempts

VARIABLES
    row,        \* the status of each job; RUNNING under this worker's lease
    attempts,   \* its attempt count
    leased,     \* whether the row names a lease owner
    fetched,    \* the jobs of a list that has been read and not worked off
    expected,   \* the attempt count in that list
    inflight,   \* the jobs that hold a slot
    heavy,      \* the jobs that hold a heavy slot
    task,       \* how far the execution of each job is
    pipe,       \* the pipe from its child
    cool,       \* what is left of its delay after a failed start
    pause,      \* what is left of the pause of the dispatch
    streak      \* failed starts in a row

rows == <<row, attempts, leased>>
listed == <<fetched, expected>>
slots == <<inflight, heavy>>
delays == <<cool, pause, streak>>
vars == <<row, attempts, leased, fetched, expected, inflight, heavy, task, pipe,
          cool, pause, streak>>

Init ==
    /\ row = [j \in Jobs |-> "QUEUED"]
    /\ attempts = [j \in Jobs |-> 0]
    /\ leased = [j \in Jobs |-> FALSE]
    /\ fetched = {}
    /\ expected = [j \in Jobs |-> 0]
    /\ inflight = {}
    /\ heavy = {}
    /\ task = [j \in Jobs |-> "none"]
    /\ pipe = [j \in Jobs |-> "closed"]
    /\ cool = [j \in Jobs |-> 0]
    /\ pause = 0
    /\ streak = 0

-------------------------------------------------------------------------------
(* Dispatch *)

Free == Slots - Cardinality(inflight)
HeavyFree == HeavySlots - Cardinality(heavy)

\* The jobs the list may have: none the worker executes or delays, and no heavy
\* one when their slots are taken.
Eligible ==
    {j \in Jobs: /\ row[j] = "QUEUED"
                 /\ j \notin inflight /\ cool[j] = 0
                 /\ j \in Heavy => HeavyFree > 0}

\* The list is read in the order of the ranks, as long as there are free slots.
Fetch ==
    /\ pause = 0 /\ fetched = {} /\ Free > 0
    /\ \E F \in SUBSET Eligible:
         /\ F # {} /\ Cardinality(F) <= Free
         /\ \A j \in Eligible \ F:
              Cardinality(F) = Free /\ \A k \in F: Rank[k] < Rank[j]
         /\ fetched' = F
         /\ expected' = [j \in Jobs |-> IF j \in F THEN attempts[j] ELSE expected[j]]
    /\ UNCHANGED <<rows, slots, task, pipe, delays>>

\* Mutant of Startable: a list read with a heavy slot free is started as it is.
StartableAsListed(L) == L = fetched

\* The jobs L of the list are started: those that are left out are heavy ones
\* beyond the heavy slots.
Startable(L) ==
    /\ \A j \in L: j \notin inflight /\ cool[j] = 0
    /\ Cardinality(L) <= Free /\ Cardinality(L \cap Heavy) <= HeavyFree
    /\ \A j \in fetched \ L:
         \/ j \in inflight \/ cool[j] > 0
         \/ /\ j \in Heavy /\ Cardinality(L \cap Heavy) = HeavyFree
            /\ \A k \in L \cap Heavy: Rank[k] < Rank[j]

Launch ==
    /\ fetched # {}
    /\ \E L \in SUBSET fetched:
         /\ Startable(L)
         /\ inflight' = inflight \cup L
         /\ heavy' = heavy \cup (L \cap Heavy)
         /\ task' = [j \in Jobs |-> IF j \in L THEN "starting" ELSE task[j]]
    /\ fetched' = {}
    /\ UNCHANGED <<rows, expected, pipe, delays>>

-------------------------------------------------------------------------------
(* The child of job j *)

Goes(j, from, to) == task[j] = from /\ task' = [task EXCEPT ![j] = to]

\* The child starts; that of a heavy job with a pipe.
Spawn(j) ==
    /\ Goes(j, "starting", "child")
    /\ pipe' = [pipe EXCEPT ![j] = IF j \in Heavy THEN "open" ELSE "closed"]
    /\ UNCHANGED <<rows, listed, slots, delays>>

\* The child claims its job, or finds that it cannot and ends.
Claim(j) ==
    /\ row[j] = "QUEUED"
    /\ Goes(j, "child", IF j \in Heavy THEN "parsing" ELSE "working")
    /\ row' = [row EXCEPT ![j] = "RUNNING"]
    /\ attempts' = [attempts EXCEPT ![j] = @ + 1]
    /\ leased' = [leased EXCEPT ![j] = TRUE]
    /\ UNCHANGED <<listed, slots, pipe, delays>>

ClaimNothing(j) ==
    /\ row[j] # "QUEUED"
    /\ Goes(j, "child", "exited")
    /\ UNCHANGED <<rows, listed, slots, pipe, delays>>

\* The child has parsed and says so; a failure to write is ignored.
Parsed(j) ==
    /\ Goes(j, "parsing", "working")
    /\ pipe' \in {pipe, [pipe EXCEPT ![j] = "written"]}
    /\ UNCHANGED <<rows, listed, slots, delays>>

\* A row goes back to the queue while it has attempts left.
BackTo(j, status) ==
    /\ status \in {"QUEUED", "CLOSED"}
    /\ status = "QUEUED" => attempts[j] < MaxAttempts
    /\ row' = [row EXCEPT ![j] = status]

\* The child ends: the job is closed or, after a transient error, queued again
\* with the lease owner left in its row.
Exit(j) ==
    /\ \E from \in {"parsing", "working"}: Goes(j, from, "exited")
    /\ IF row[j] = "RUNNING" THEN \E status \in {"QUEUED", "CLOSED"}: BackTo(j, status)
       ELSE UNCHANGED row
    /\ UNCHANGED <<attempts, leased, listed, slots, pipe, delays>>

-------------------------------------------------------------------------------
(* The worker and the child *)

\* The callback of the pipe gives the heavy slot back.
Release(j) ==
    /\ pipe[j] = "written"
    /\ pipe' = [pipe EXCEPT ![j] = "closed"]
    /\ heavy' = heavy \ {j}
    /\ UNCHANGED <<rows, listed, inflight, task, delays>>

\* Mutant of TaskEnds: only the pipe gives the heavy slot back.
TaskEndsHeavy(j, from) ==
    /\ Goes(j, from, "none")
    /\ inflight' = inflight \ {j}
    /\ heavy' = heavy

\* The task of job j ends with both of its slots.
TaskEnds(j, from) ==
    /\ Goes(j, from, "none")
    /\ inflight' = inflight \ {j}
    /\ heavy' = heavy \ {j}

\* A child that ended well ends all delays but those of other jobs.
Succeed(j) ==
    /\ TaskEnds(j, "exited")
    /\ pipe' = [pipe EXCEPT ![j] = "closed"]
    /\ cool' = [cool EXCEPT ![j] = 0]
    /\ pause' = 0
    /\ streak' = 0
    /\ UNCHANGED <<rows, listed>>

\* The worker sees that the child is dead.
Observe(j) ==
    /\ Goes(j, "died", "failed")
    /\ pipe' = [pipe EXCEPT ![j] = "closed"]
    /\ UNCHANGED <<rows, listed, slots, delays>>

\* 2^n poll intervals, at most Cap.
Backoff(n) == IF 2^n < Cap THEN 2^n ELSE Cap

\* Job j waits after a failed start, and after MaxAttempts of them in a row the
\* dispatch does.
Delay(j) ==
    /\ streak' = IF streak < StreakBound THEN streak + 1 ELSE streak
    /\ cool' = [cool EXCEPT ![j] = Backoff(expected[j])]
    /\ pause' = IF streak' >= MaxAttempts THEN Backoff(streak' - MaxAttempts) ELSE pause

\* Mutant of Record: a failed start returns before its slots are given back.
RecordReturnsEarly(j) ==
    /\ Goes(j, "failed", "none")
    /\ IF row[j] = "QUEUED" THEN Delay(j) /\ UNCHANGED slots
       ELSE /\ inflight' = inflight \ {j}
            /\ heavy' = heavy \ {j}
            /\ UNCHANGED delays
    /\ UNCHANGED <<rows, listed, pipe>>

\* The failure is recorded.  A job that was never claimed has failed to start:
\* that is counted if the row has no lease owner and the attempt is the one that
\* was listed, and delays the job in any case.
Record(j) ==
    /\ TaskEnds(j, "failed")
    /\ CASE row[j] = "QUEUED" ->
              /\ IF ~leased[j] /\ attempts[j] = expected[j]
                 THEN /\ attempts' = [attempts EXCEPT ![j] = @ + 1]
                      /\ row' = [row EXCEPT ![j] = IF attempts'[j] < MaxAttempts
                                                   THEN "QUEUED" ELSE "CLOSED"]
                 ELSE UNCHANGED <<row, attempts>>
              /\ Delay(j)
         [] row[j] = "RUNNING" ->
              /\ row' = [row EXCEPT ![j] = "CLOSED"]
              /\ UNCHANGED <<attempts, delays>>
         [] OTHER -> UNCHANGED <<row, attempts, delays>>
    /\ UNCHANGED <<leased, listed, pipe>>

\* Mutant of Less: a delay that has passed goes on.
LessAndLess(n) == n - 1

\* Time passes while something is delayed.
Less(n) == IF n > 0 THEN n - 1 ELSE 0

Tick ==
    /\ pause > 0 \/ \E j \in Jobs: cool[j] > 0
    /\ pause' = Less(pause)
    /\ cool' = [j \in Jobs |-> Less(cool[j])]
    /\ UNCHANGED <<rows, listed, slots, task, pipe, streak>>

-------------------------------------------------------------------------------
(* Faults, and what others do to the rows *)

SpawnFails(j) ==
    /\ Goes(j, "starting", "failed")
    /\ UNCHANGED <<rows, listed, slots, pipe, delays>>

\* The child dies, or is stopped because it stalls or takes too long.
ChildDies(j) ==
    /\ \E from \in {"child", "parsing", "working"}: Goes(j, from, "died")
    /\ UNCHANGED <<rows, listed, slots, pipe, delays>>

\* The failure cannot be recorded.
RecordFails(j) ==
    /\ TaskEnds(j, "failed")
    /\ Delay(j)
    /\ UNCHANGED <<rows, listed, pipe>>

\* Another worker takes the job, ...
Taken(j) ==
    /\ row[j] = "QUEUED"
    /\ row' = [row EXCEPT ![j] = "ELSEWHERE"]
    /\ attempts' = [attempts EXCEPT ![j] = @ + 1]
    /\ leased' = [leased EXCEPT ![j] = TRUE]
    /\ UNCHANGED <<listed, slots, task, pipe, delays>>

\* ... and gives it back or closes it; a job is cancelled; the lease of this
\* worker is lost.
Given(j) ==
    /\ \E status \in {"QUEUED", "CLOSED"}:
         BackTo(j, status) /\ (row[j] = "QUEUED" => status = "CLOSED")
    /\ row[j] # "CLOSED"
    /\ leased' \in {leased, [leased EXCEPT ![j] = FALSE]}
    /\ UNCHANGED <<attempts, listed, slots, task, pipe, delays>>

-------------------------------------------------------------------------------

Dispatch == Fetch \/ Launch

Child(j) == Spawn(j) \/ Claim(j) \/ ClaimNothing(j) \/ Parsed(j) \/ Exit(j)
Supervise(j) == Release(j) \/ Succeed(j) \/ Observe(j) \/ Record(j)
Fault(j) == SpawnFails(j) \/ ChildDies(j) \/ RecordFails(j) \/ Taken(j) \/ Given(j)

Work == Dispatch \/ Tick \/ \E j \in Jobs: Child(j) \/ Supervise(j)
Next == Work \/ \E j \in Jobs: Fault(j)
Spec == Init /\ [][Next]_vars

\* The loop of the worker, its tasks, their children and the clock go on.
Fairness ==
    /\ WF_vars(Dispatch) /\ WF_vars(Tick)
    /\ \A j \in Jobs: WF_vars(Child(j)) /\ WF_vars(Supervise(j))

-------------------------------------------------------------------------------
(* Properties *)

Tasks == {"none", "starting", "child", "parsing", "working", "exited", "died", "failed"}

TypeOK ==
    /\ row \in [Jobs -> {"QUEUED", "RUNNING", "ELSEWHERE", "CLOSED"}]
    /\ attempts \in [Jobs -> Nat]
    /\ leased \in [Jobs -> BOOLEAN]
    /\ fetched \subseteq Jobs
    /\ expected \in [Jobs -> Nat]
    /\ inflight \subseteq Jobs
    /\ heavy \subseteq Jobs
    /\ task \in [Jobs -> Tasks]
    /\ pipe \in [Jobs -> {"closed", "open", "written"}]
    /\ cool \in [Jobs -> 0..Cap]
    /\ pause \in 0..Cap
    /\ streak \in 0..StreakBound

\* Every slot belongs to an execution that is going on, and every execution has
\* one: none leaks and none is given back twice.  (_run_job, finally)
SlotsMatchTasks ==
    /\ inflight = {j \in Jobs: task[j] # "none"}
    /\ Cardinality(inflight) <= Slots
    /\ heavy \subseteq inflight

\* No more children parse at once than there are heavy slots, although slots are
\* given back while the children go on.  (_release_heavy_slot, #2702)
ParsingBounded == Cardinality({j \in Jobs: task[j] = "parsing"}) <= HeavySlots

\* Every queued job is taken up: no delay, pause or slot lasts for ever.
\* (_delay_startup_failure, _dispatch_available)
JobsServed == \A j \in Jobs: row[j] = "QUEUED" ~> row[j] # "QUEUED"
===============================================================================
