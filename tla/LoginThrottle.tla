----------------------------- MODULE LoginThrottle -----------------------------
(* The limit on failed logins (pr_system_settings/auth/login_throttle.py).    *)
(* A login attempt reserves a row per limited key before it is verified, and  *)
(* is admitted when fewer other rows than the limit lie in the window.  The   *)
(* rows are in a table all processes share; when a call to it fails or takes  *)
(* too long, a process counts in its own memory for a while.                  *)
(*                                                                            *)
(* A call runs in a thread that goes on when its caller has given up, one at  *)
(* a time in a process: it executes its statement, commits, and answers.      *)
EXTENDS Integers, FiniteSets

CONSTANTS
    Attempts,       \* login attempts (attempt_id, a fresh uuid)
    Processes,
    Users,          \* login ids, stripped and casefolded
    Ips,
    AnyUser,        \* stands for the login id in the key of an ip
    LoginLimit,     \* app_auth_login_attempt_limit; 0: no limit
    IpLimit,        \* app_auth_login_ip_attempt_limit; 0: no limit
    Window,         \* app_auth_login_attempt_window_minutes, in ticks
    Retry,          \* shared_retry_seconds, in ticks
    NoAttempt

ASSUME ThrottleAssumption ==
    /\ LoginLimit \in Nat
    /\ IpLimit \in Nat
    /\ Window \in Nat \ {0}
    /\ Retry \in Nat \ {0}
    /\ IsFiniteSet(Attempts)
    /\ AnyUser \notin Users
    /\ NoAttempt \notin Attempts

VARIABLES
    client,     \* who makes the attempt, and at which process
    pc,         \* where the attempt stands
    store,      \* attempt.store: where the attempt that was admitted is counted
    seen,       \* the shared rows a reservation read
    retryAfter, \* attempt.retry_after_seconds, 0 for none
    op,         \* per process, the call to the shared table that is running
    shared,     \* PLATFORM_LOGIN_ATTEMPTS
    memory,     \* per process, the rows of MemoryLoginAttemptStore
    downUntil,  \* per process, _shared_unavailable_until, 0 for None
    clock,
    \* history, read by no step
    reserved,   \* when the attempt's rows were written to the shared table or,
                \* after that failed, to memory
    commits,    \* the number of reservations committed to the shared table
    order,      \* the rank of the attempt's commit among them, from 1
    forgiven    \* the rows a later success, or a crash, has erased

attemptVars == <<client, pc, store, seen, retryAfter, reserved, commits, order>>
history == <<reserved, commits, order, forgiven>>
vars == <<client, pc, store, seen, retryAfter, op, shared, memory, downUntil,
          clock, reserved, commits, order, forgiven>>

-------------------------------------------------------------------------------
(* Data *)

Clients == [user: Users, ip: Ips, process: Processes]
Key == [user: Users \cup {AnyUser}, ip: Ips]
Row == [attempt: Attempts, key: Key, at: Nat]
SeenRow == [attempt: Attempts, key: Key, age: Int, where: {"shared", "memory"}]
Record == [attempt: Attempts, key: Key, where: {"shared", "memory"}]

\* The points at which an attempt waits for a call, and the call.
KindOf == [reserving |-> "reserve", releasing |-> "release",
           cancelling |-> "release", purging |-> "purge", clearing |-> "clear"]
Calling == DOMAIN KindOf
\* Where it goes on when the call answers, and when it raises.
AfterCall == [reserving |-> "answered", releasing |-> "rejected",
              cancelling |-> "cancelled", purging |-> "failed",
              clearing |-> "succeeded"]
AfterError == [AfterCall EXCEPT !.reserving = "falling"]

Ended == {"rejected", "failed", "succeeded", "cancelled", "lost"}
Points == Calling \cup Ended
    \cup {"idle", "falling", "answered", "deciding", "unreserving", "verifying"}

NoOp == [kind |-> "none", attempt |-> NoAttempt, stage |-> "none", rows |-> {}]

LoginKey(a) == [user |-> client[a].user, ip |-> client[a].ip]
IpKey(a) == [user |-> AnyUser, ip |-> client[a].ip]
Limit(k) == IF k.user = AnyUser THEN IpLimit ELSE LoginLimit
Keys(a) == {k \in {LoginKey(a), IpKey(a)}: Limit(k) > 0}
Process(a) == client[a].process

InWindow(at) == at + Window > clock
NewRows(a) == {[attempt |-> a, key |-> k, at |-> clock]: k \in Keys(a)}

\* The rows of a's keys in the window, as a reader sees them now.
RecentRows(rows, a, where) ==
    {[attempt |-> r.attempt, key |-> r.key, age |-> clock - r.at, where |-> where]:
        r \in {r \in rows: r.key \in Keys(a) /\ InWindow(r.at)}}

\* What is left of a process's memory when a's keys have been read or written.
Swept(rows, a) == {r \in rows: r.key \in Keys(a) => InWindow(r.at)}

\* Mutant of Others: an attempt told from the others by its age, not its id.
OthersByAge(rows, a, k) == {r \in rows: r.key = k /\ r.age > 0}

Others(rows, a, k) == {r \in rows: r.key = k /\ r.attempt # a}
Full(rows, a) == {k \in Keys(a): Cardinality(Others(rows, a, k)) >= Limit(k)}

\* Mutant of LimitingAge: the oldest row in the window.
OldestAge(rows, a, k) ==
    LET ages == {r.age: r \in Others(rows, a, k)}
    IN  CHOOSE x \in ages: \A y \in ages: y <= x

\* The age of the youngest row such that it and the younger ones fill the limit.
LimitingAge(rows, a, k) ==
    LET ages == {r.age: r \in Others(rows, a, k)}
    IN  CHOOSE x \in ages:
          /\ Cardinality({r \in Others(rows, a, k): r.age < x}) < Limit(k)
          /\ Cardinality({r \in Others(rows, a, k): r.age <= x}) >= Limit(k)

\* The wait after which every key has room again.
Wait(rows, a) ==
    LET waits == {Window - LimitingAge(rows, a, k): k \in Full(rows, a)}
    IN  CHOOSE w \in waits: \A v \in waits: v <= w

-------------------------------------------------------------------------------
(* Calls to the shared table *)

\* The caller of p's running call still waits for it.
Awaited(p) ==
    /\ op[p] # NoOp
    /\ pc[op[p].attempt] \in Calling
    /\ KindOf[pc[op[p].attempt]] = op[p].kind

Running(a) == Awaited(Process(a)) /\ op[Process(a)].attempt = a

GoTo(a, point) == pc' = [pc EXCEPT ![a] = point]

\* Mutant of Raise: the retry time is counted backwards.
RaiseBackwards(a) ==
    /\ GoTo(a, AfterError[pc[a]])
    /\ downUntil' = [downUntil EXCEPT ![Process(a)] = clock - Retry]

\* The caller takes the exception: the table counts as unavailable.
Raise(a) ==
    /\ GoTo(a, AfterError[pc[a]])
    /\ downUntil' = [downUntil EXCEPT ![Process(a)] = clock + Retry]

CallStarts(a) ==
    /\ pc[a] \in Calling
    /\ op[Process(a)] = NoOp
    /\ op' = [op EXCEPT ![Process(a)] = [kind |-> KindOf[pc[a]], attempt |-> a,
                                         stage |-> "started", rows |-> {}]]
    /\ UNCHANGED <<attemptVars, shared, memory, downUntil, clock, forgiven>>

\* The lock of the running call is not given back in time, or no thread starts.
CallRefused(a) ==
    /\ pc[a] \in Calling
    /\ ~Running(a)
    /\ Raise(a)
    /\ UNCHANGED <<client, store, seen, retryAfter, op, shared, memory, clock,
                   history>>

\* Mutant of CallTimesOut: the answer is awaited without a time limit.
CallNeverTimesOut(a) == FALSE /\ CallRefused(a)

\* The caller gives up; the thread goes on.
CallTimesOut(a) ==
    /\ Running(a)
    /\ Raise(a)
    /\ UNCHANGED <<client, store, seen, retryAfter, op, shared, memory, clock,
                   history>>

\* The call raises; what it had not committed is rolled back.
CallFails(p) ==
    /\ op[p] # NoOp
    /\ op' = [op EXCEPT ![p] = NoOp]
    /\ IF Awaited(p) THEN Raise(op[p].attempt) ELSE UNCHANGED <<pc, downUntil>>
    /\ UNCHANGED <<client, store, seen, retryAfter, shared, memory, clock, history>>

\* Mutant of Affected: a release deletes the rows of its keys, not of its attempt.
ReleaseByKey(kind, a) ==
    CASE kind = "reserve" -> NewRows(a)
      [] kind = "release" -> {r \in shared: r.key \in Keys(a)}
      [] kind = "clear" -> {r \in shared: \/ r.key = LoginKey(a)
                                          \/ r.attempt = a /\ r.key \in Keys(a)}
      [] kind = "purge" -> {r \in shared: ~InWindow(r.at)}

\* Mutant of Affected: a success deletes the rows of its login id alone.
ClearLoginOnly(kind, a) ==
    CASE kind = "reserve" -> NewRows(a)
      [] kind = "release" -> {r \in shared: r.attempt = a /\ r.key \in Keys(a)}
      [] kind = "clear" -> {r \in shared: r.key = LoginKey(a)}
      [] kind = "purge" -> {r \in shared: ~InWindow(r.at)}

\* The rows the statement of a call inserts or deletes.
Affected(kind, a) ==
    CASE kind = "reserve" -> NewRows(a)
      [] kind = "release" -> {r \in shared: r.attempt = a /\ r.key \in Keys(a)}
      [] kind = "clear" -> {r \in shared: \/ r.key = LoginKey(a)
                                          \/ r.attempt = a /\ r.key \in Keys(a)}
      [] kind = "purge" -> {r \in shared: ~InWindow(r.at)}

StoreExecutes(p) ==
    /\ op[p].stage = "started"
    /\ op' = [op EXCEPT ![p].stage = "executed",
                        ![p].rows = Affected(op[p].kind, op[p].attempt)]
    /\ reserved' = IF op[p].kind = "reserve" /\ Awaited(p)
                   THEN [reserved EXCEPT ![op[p].attempt] = clock] ELSE reserved
    /\ UNCHANGED <<client, pc, store, seen, retryAfter, shared, memory, downUntil,
                   clock, commits, order, forgiven>>

StoreCommits(p) ==
    LET a == op[p].attempt IN
    /\ op[p].stage = "executed"
    /\ op' = [op EXCEPT ![p].stage = "committed"]
    /\ \/ /\ op[p].kind = "reserve"
          /\ shared' = shared \cup op[p].rows
          /\ commits' = commits + 1
          /\ order' = [order EXCEPT ![a] = commits']
          /\ forgiven' = forgiven
       \/ /\ op[p].kind # "reserve"
          /\ shared' = shared \ op[p].rows
          /\ UNCHANGED <<commits, order>>
          /\ forgiven' = IF op[p].kind # "clear" THEN forgiven ELSE forgiven \cup
               {[attempt |-> r.attempt, key |-> r.key, where |-> "shared"]:
                   r \in {r \in op[p].rows: r.key = LoginKey(a)}}
    /\ UNCHANGED <<client, pc, store, seen, retryAfter, memory, downUntil, clock,
                   reserved>>

\* A reservation reads the rows after its commit; every call then answers.
StoreAnswers(p) ==
    LET a == op[p].attempt IN
    /\ op[p].stage = "committed"
    /\ op' = [op EXCEPT ![p] = NoOp]
    /\ IF Awaited(p)
       THEN /\ GoTo(a, AfterCall[pc[a]])
            /\ seen' = IF op[p].kind = "reserve"
                       THEN [seen EXCEPT ![a] = RecentRows(shared, a, "shared")]
                       ELSE seen
       ELSE UNCHANGED <<pc, seen>>
    /\ UNCHANGED <<client, store, retryAfter, shared, memory, downUntil, clock,
                   history>>

-------------------------------------------------------------------------------
(* A login attempt *)

Available(p) == downUntil[p] = 0 \/ clock >= downUntil[p]

Begin(a) ==
    /\ pc[a] = "idle"
    /\ GoTo(a, IF Keys(a) = {} THEN "verifying"
               ELSE IF Available(Process(a)) THEN "reserving" ELSE "falling")
    /\ UNCHANGED <<client, store, seen, retryAfter, op, shared, memory, downUntil,
                   clock, history>>

\* The table answered: it counts as available again.
MarkAvailable(a) ==
    /\ pc[a] = "answered"
    /\ GoTo(a, "deciding")
    /\ downUntil' = [downUntil EXCEPT ![Process(a)] = 0]
    /\ UNCHANGED <<client, store, seen, retryAfter, op, shared, memory, clock,
                   history>>

\* Mutant of SharedAndMemory: the rows counted in memory are forgotten.
SharedAlone(a) == seen[a]

\* What an attempt whose reservation was answered is judged by.
SharedAndMemory(a) == seen[a] \cup RecentRows(memory[Process(a)], a, "memory")

Decide(a) ==
    LET p == Process(a)
        rows == SharedAndMemory(a)
    IN
    /\ pc[a] = "deciding"
    /\ memory' = [memory EXCEPT ![p] = Swept(memory[p], a)]
    /\ seen' = [seen EXCEPT ![a] = {}]
    /\ \/ /\ Full(rows, a) = {}
          /\ GoTo(a, "verifying")
          /\ store' = [store EXCEPT ![a] = "shared"]
          /\ retryAfter' = retryAfter
       \/ /\ Full(rows, a) # {}
          /\ GoTo(a, "releasing")
          /\ retryAfter' = [retryAfter EXCEPT ![a] = Wait(rows, a)]
          /\ store' = store
    /\ UNCHANGED <<client, op, shared, downUntil, clock, history>>

\* Without the shared table: reserve and count in memory, under its lock.
FallBack(a) ==
    LET p == Process(a)
        rows == RecentRows(memory[p], a, "memory")
    IN
    /\ pc[a] = "falling"
    /\ memory' = [memory EXCEPT ![p] = Swept(memory[p], a) \cup NewRows(a)]
    /\ \/ /\ Full(rows, a) = {}
          /\ GoTo(a, "verifying")
          /\ store' = [store EXCEPT ![a] = "memory"]
          /\ reserved' = [reserved EXCEPT ![a] = clock]
          /\ retryAfter' = retryAfter
       \/ /\ Full(rows, a) # {}
          /\ GoTo(a, "unreserving")
          /\ retryAfter' = [retryAfter EXCEPT ![a] = Wait(rows, a)]
          /\ UNCHANGED <<store, reserved>>
    /\ UNCHANGED <<client, seen, op, shared, downUntil, clock, commits, order,
                   forgiven>>

\* The process's memory without a's own rows.
Unreserved(a) ==
    [memory EXCEPT ![Process(a)] =
        {r \in @: ~(r.attempt = a /\ r.key \in Keys(a))}]

Unreserve(a) ==
    /\ pc[a] = "unreserving"
    /\ GoTo(a, "rejected")
    /\ memory' = Unreserved(a)
    /\ UNCHANGED <<client, store, seen, retryAfter, op, shared, downUntil, clock,
                   history>>

\* LoginFailed: the rows stay, as the record of the failure.
VerifyFails(a) ==
    /\ pc[a] = "verifying"
    /\ GoTo(a, IF store[a] = "shared" THEN "purging" ELSE "failed")
    /\ UNCHANGED <<client, store, seen, retryAfter, op, shared, memory, downUntil,
                   clock, history>>

VerifySucceeds(a) ==
    LET p == Process(a)
        cleared == {r \in memory[p]: r.key = LoginKey(a)}
    IN
    /\ pc[a] = "verifying"
    /\ GoTo(a, IF store[a] = "shared" THEN "clearing" ELSE "succeeded")
    /\ memory' = [Unreserved(a) EXCEPT ![p] = @ \ cleared]
    /\ forgiven' = forgiven \cup
         {[attempt |-> r.attempt, key |-> r.key, where |-> "memory"]: r \in cleared}
    /\ UNCHANGED <<client, store, seen, retryAfter, op, shared, downUntil, clock,
                   reserved, commits, order>>

\* Neither: the user store raised, or the request was given up.
VerifyErrors(a) ==
    /\ pc[a] = "verifying"
    /\ GoTo(a, IF store[a] = "shared" THEN "cancelling" ELSE "cancelled")
    /\ memory' = IF store[a] = "memory" THEN Unreserved(a) ELSE memory
    /\ UNCHANGED <<client, store, seen, retryAfter, op, shared, downUntil, clock,
                   history>>

-------------------------------------------------------------------------------
(* Processes and time *)

AfterCrash(point) ==
    CASE point \in {"purging", "cancelling", "clearing"} -> AfterCall[point]
      [] point \in Ended \cup {"idle"} -> point
      [] OTHER -> "lost"

\* The process ends: its memory is gone, its running call rolled back.
Crash(p) ==
    /\ pc' = [a \in Attempts |-> IF Process(a) = p THEN AfterCrash(pc[a]) ELSE pc[a]]
    /\ op' = [op EXCEPT ![p] = NoOp]
    /\ memory' = [memory EXCEPT ![p] = {}]
    /\ downUntil' = [downUntil EXCEPT ![p] = 0]
    /\ forgiven' = forgiven \cup
         {[attempt |-> r.attempt, key |-> r.key, where |-> "memory"]: r \in memory[p]}
    /\ seen' = [a \in Attempts |-> IF Process(a) = p THEN {} ELSE seen[a]]
    /\ UNCHANGED <<client, store, retryAfter, shared, clock, reserved, commits, order>>

Tick ==
    /\ clock' = clock + 1
    /\ UNCHANGED <<attemptVars, op, shared, memory, downUntil, forgiven>>

-------------------------------------------------------------------------------
(* Specification *)

Init ==
    /\ client \in [Attempts -> Clients]
    /\ pc = [a \in Attempts |-> "idle"]
    /\ store = [a \in Attempts |-> "none"]
    /\ seen = [a \in Attempts |-> {}]
    /\ retryAfter = [a \in Attempts |-> 0]
    /\ op = [p \in Processes |-> NoOp]
    /\ shared = {}
    /\ memory = [p \in Processes |-> {}]
    /\ downUntil = [p \in Processes |-> 0]
    /\ clock = 0
    /\ reserved = [a \in Attempts |-> 0]
    /\ commits = 0
    /\ order = [a \in Attempts |-> 0]
    /\ forgiven = {}

Verify(a) == VerifyFails(a) \/ VerifySucceeds(a) \/ VerifyErrors(a)

\* The attempt's own next step.
Step(a) ==
    \/ CallStarts(a)
    \/ MarkAvailable(a)
    \/ Decide(a)
    \/ FallBack(a)
    \/ Unreserve(a)
    \/ Verify(a)

StoreStep(p) == StoreExecutes(p) \/ StoreCommits(p) \/ StoreAnswers(p)

Work ==
    \/ \E a \in Attempts: Begin(a) \/ Step(a)
    \/ \E p \in Processes: StoreStep(p)

Fault ==
    \/ \E a \in Attempts: CallRefused(a) \/ CallTimesOut(a)
    \/ \E p \in Processes: CallFails(p) \/ Crash(p)

Next == Work \/ Fault \/ Tick

Spec == Init /\ [][Next]_vars

\* Only what the caller of a call can rely on: its own steps and its deadlines.
Fairness ==
    \A a \in Attempts: WF_vars(Step(a) \/ CallRefused(a) \/ CallTimesOut(a))

FairSpec == Spec /\ Fairness

-------------------------------------------------------------------------------
(* Properties *)

TypeOK ==
    /\ client \in [Attempts -> Clients]
    /\ pc \in [Attempts -> Points]
    /\ store \in [Attempts -> {"none", "shared", "memory"}]
    /\ seen \in [Attempts -> SUBSET SeenRow]
    /\ DOMAIN retryAfter = Attempts
    /\ op \in [Processes -> {NoOp} \cup
                  [kind: {"reserve", "release", "purge", "clear"},
                   attempt: Attempts,
                   stage: {"started", "executed", "committed"},
                   rows: SUBSET Row]]
    /\ shared \in SUBSET Row
    /\ memory \in [Processes -> SUBSET Row]
    /\ downUntil \in [Processes -> Nat]
    /\ clock \in Nat
    /\ reserved \in [Attempts -> Nat]
    /\ commits \in Nat
    /\ order \in [Attempts -> Nat]
    /\ forgiven \in SUBSET Record

\* Attempts that were let through and neither succeeded nor were called off: they
\* failed, or may still fail.
Admitted(a) == pc[a] \in {"verifying", "purging", "failed", "lost"}

\* a is a failure that key k must remember.
Remembered(a, k) ==
    /\ k \in Keys(a)
    /\ InWindow(reserved[a])
    /\ [attempt |-> a, key |-> k, where |-> store[a]] \notin forgiven

SharedFailures(k) ==
    {a \in Attempts: store[a] = "shared" /\ Admitted(a) /\ Remembered(a, k)}

MemoryFailures(p, k) ==
    {a \in Attempts: /\ store[a] = "memory" /\ Process(a) = p
                     /\ Admitted(a) /\ Remembered(a, k)}

\* Of the attempts counted in the shared table, no more than the limit are let
\* through in a window, whatever the processes do at the same time.
\* (begin and reserve, login_throttle.py:34-38)
FailuresBounded ==
    \A k \in {k \in Key: Limit(k) > 0}: Cardinality(SharedFailures(k)) <= Limit(k)

\* A failure stays recorded, where it was counted, until it leaves the window
\* or a success of its login id erases it: no release, purge, late call or error
\* of another attempt takes it away.  (record_failure, release, purge_expired)
FailureRecorded ==
    \A a \in Attempts: \A k \in Keys(a):
        store[a] # "none" /\ Admitted(a) /\ Remembered(a, k) =>
          [attempt |-> a, key |-> k, at |-> reserved[a]] \in
              IF store[a] = "shared" THEN shared ELSE memory[Process(a)]

\* An attempt is let through only when its key has room beside all failures its
\* process can know: those it counted in memory while the table was out of reach
\* and, when the table answers, those committed to it before.
\* (begin, login_throttle.py:422-436)
KnownFailuresCount ==
    [][\A a \in Attempts: pc[a] # "verifying" /\ pc'[a] = "verifying" =>
         \A k \in Keys(a):
           Cardinality(MemoryFailures(Process(a), k)
               \cup {b \in SharedFailures(k): store'[a] = "shared"
                                                /\ order[b] < order[a]}) < Limit(k)]_vars

\* A refused client is told the time at which the rows it was refused for leave
\* room, and no later one.  (_wait, login_throttle.py:488-499)
RetryAfterExact ==
    [][\A a \in Attempts: retryAfter'[a] # retryAfter[a] =>
         LET Left(k, t) == {r \in Others(SharedAndMemory(a), a, k): r.age + t < Window}
             Room(t) == \A k \in Keys(a): Cardinality(Left(k, t)) < Limit(k)
         IN  Room(retryAfter'[a]) /\ ~Room(retryAfter'[a] - 1)]_vars

\* Attempts that were refused, called off or successful leave no row behind.  It
\* holds as long as no call fails.  (release, clear, login_throttle.py:250-269)
NoResidue ==
    \A a \in Attempts: pc[a] \in {"rejected", "cancelled", "succeeded"} =>
        \A r \in shared \cup UNION {memory[p]: p \in Processes}: r.attempt # a

\* A login is answered even if no call to the shared table ever returns.
\* (_call_shared, login_throttle.py:503-524)
LoginAnswered ==
    \A a \in Attempts: pc[a] # "idle" ~> pc[a] \in Ended

===============================================================================
