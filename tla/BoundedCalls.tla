----------------------------- MODULE BoundedCalls -----------------------------
(* One BoundedCaller: the calls to an AI service that share a limit on how    *)
(* many are in flight, a pause, a budget of retries and a circuit breaker.    *)
(* Some calls are the items of one map, others are made singly beside it.     *)
(*                                                                            *)
(* All of it runs on one event loop, so a step is what a call does between    *)
(* two awaits.  The service is free: it answers, fails in any way, or is      *)
(* stopped by the time limit of an attempt.  Time is counted in ticks, as     *)
(* what is left of a delay.                                                   *)
(*                                                                            *)
(* Not covered: events, threads that go on after the call that waited for     *)
(* them is over.                                                              *)
EXTENDS Integers, FiniteSets

CONSTANTS
    Items,          \* the calls of the map
    Singles,        \* calls made singly
    Once,           \* the single calls that must not be repeated
    Adaptive,       \* the calls that can make their input smaller
    FailJob,        \* an item that fails makes the map fail
    Kinds,          \* kinds of failures,
    Rules,          \* and how each is treated
    MaxConcurrency, MinConcurrency,
    IncreaseAfter,  \* successes until the limit grows again
    Initial, Gain, Cost,    \* the budget: at first, for a success, of a retry
    Threshold,      \* failures in a row that open the breaker
    ProbeAttempts,  \* probes that fail in a row until the job stops
    Cooldown,       \* how long the breaker stays open at first
    MaxDelay, Base, \* the longest delay of a retry, the shortest guard
    FinalDelay, FinalAttempts

Calls == Items \cup Singles
RuleTypes == [retries: Nat, job: BOOLEAN, throttle: BOOLEAN, breaker: BOOLEAN,
              final: BOOLEAN, refresh: BOOLEAN, adaptive: BOOLEAN]

ASSUME CallsAssumption ==
    /\ IsFiniteSet(Calls) /\ Items \cap Singles = {} /\ Once \subseteq Singles
    /\ Adaptive \subseteq Calls /\ FailJob \in BOOLEAN
    /\ Rules \in [Kinds -> RuleTypes]
    /\ \A k \in Kinds: Rules[k].refresh => ~Rules[k].throttle
    /\ MaxConcurrency \in Nat /\ MinConcurrency \in 1..MaxConcurrency
    /\ IncreaseAfter \in Nat /\ Initial \in Nat /\ Gain \in Nat /\ Cost \in Nat
    /\ Threshold \in Nat /\ ProbeAttempts \in Nat \ {0}
    /\ Cooldown \in Nat /\ MaxDelay \in Nat /\ Base \in Nat
    /\ FinalDelay \in Nat /\ FinalAttempts \in Nat

VARIABLES
    pc,         \* where each call is
    sleep,      \* what is left of its delay
    used,       \* how often it was repeated for each kind of failure
    finals,     \* how often it was made in the final round
    results,    \* of the map: what each item came to
    inFlight,   \* the slots taken
    limit,      \* the slots there are
    since,      \* successes since the limit last changed
    guard,      \* what is left of the time in which the limit is not cut again
    breaker,
    pause,      \* what is left of the pause for all calls
    probes,     \* failed probes in a row
    probing,    \* a probe is in flight
    failing,    \* failures of each kind that opens the breaker since a success
    budget, retries, successes,
    late,       \* the deadline of the caller has passed
    aborted,    \* the job is stopped
    round,      \* of the map
    stopping    \* the map is cancelled or one of its calls has raised

slots == <<inFlight, probing>>
flow == <<limit, since, guard>>
gate == <<breaker, pause, probes>>
quota == <<budget, retries, successes>>
batch == <<round, stopping>>
vars == <<pc, sleep, used, finals, results, inFlight, limit, since, guard, breaker, pause,
          probes, probing, failing, budget, retries, successes, late, aborted, round, stopping>>

Init ==
    /\ pc = [c \in Calls |-> IF c \in Items THEN "ready" ELSE "idle"]
    /\ sleep = [c \in Calls |-> 0]
    /\ used = [c \in Calls |-> [k \in Kinds |-> 0]]
    /\ finals = [c \in Calls |-> 0]
    /\ results = [c \in Items |-> "none"]
    /\ inFlight = 0
    /\ limit = MaxConcurrency
    /\ since = 0
    /\ guard = 0
    /\ breaker = "closed"
    /\ pause = 0
    /\ probes = 0
    /\ probing = FALSE
    /\ failing = [k \in Kinds |-> 0]
    /\ budget = Initial
    /\ retries = 0
    /\ successes = 0
    /\ late = FALSE
    /\ aborted = FALSE
    /\ round = "first"
    /\ stopping = FALSE

-------------------------------------------------------------------------------
(* Getting a slot *)

Call(c) ==
    /\ pc[c] = "idle"
    /\ pc' = [pc EXCEPT ![c] = "ready"]
    /\ UNCHANGED <<sleep, used, finals, results, slots, flow, gate, failing, quota, late,
                   aborted, batch>>

\* The call is over, and its local variables with it.
Forget(c) ==
    /\ sleep' = [sleep EXCEPT ![c] = 0]
    /\ used' = [used EXCEPT ![c] = [k \in Kinds |-> 0]]
    /\ finals' = [finals EXCEPT ![c] = 0]

EndsAs(c, result) ==
    /\ Forget(c)
    /\ results' = IF c \in Items THEN [results EXCEPT ![c] = result] ELSE results
    /\ UNCHANGED batch

\* An item that raises something else than its own failure stops the map.
Raises(c) ==
    /\ Forget(c)
    /\ stopping' = (stopping \/ c \in Items)
    /\ UNCHANGED <<results, round>>

AtTop(c) == pc[c] = "ready" /\ sleep[c] = 0
MayEnter(c) == AtTop(c) /\ ~aborted /\ pause = 0

Refuse(c) ==
    /\ AtTop(c) /\ aborted
    /\ pc' = [pc EXCEPT ![c] = "ended"]
    /\ Raises(c)
    /\ UNCHANGED <<slots, flow, gate, failing, quota, late, aborted>>

Doze(c) ==
    /\ AtTop(c) /\ ~aborted /\ pause > 0
    /\ sleep' = [sleep EXCEPT ![c] = pause]
    /\ UNCHANGED <<pc, used, finals, results, slots, flow, gate, failing, quota, late,
                   aborted, batch>>

\* Mutant of ProbeFree: the calls from before the breaker opened may be in flight.
ProbeFreeBesideOthers == breaker = "half_open" => ~probing

ProbeFree == inFlight = 0 /\ (breaker = "half_open" => ~probing)

\* The pause is over: an open breaker is half open, and lets one call through.
HalfOpen == breaker # "closed"

Enter(c) ==
    /\ MayEnter(c)
    /\ IF HalfOpen THEN ProbeFree ELSE inFlight < limit
    /\ pc' = [pc EXCEPT ![c] = IF HalfOpen THEN "probe" ELSE "flight"]
    /\ probing' = (probing \/ HalfOpen)
    /\ breaker' = IF HalfOpen THEN "half_open" ELSE "closed"
    /\ inFlight' = inFlight + 1
    /\ UNCHANGED <<sleep, used, finals, results, flow, pause, probes, failing, quota, late,
                   aborted, batch>>

\* The call waits until a slot is given back.
Queue(c) ==
    /\ MayEnter(c)
    /\ IF HalfOpen THEN ~ProbeFree ELSE inFlight >= limit
    /\ pc' = [pc EXCEPT ![c] = "waiting"]
    /\ probing' = (probing /\ breaker # "open")
    /\ breaker' = IF HalfOpen THEN "half_open" ELSE "closed"
    /\ UNCHANGED <<sleep, used, finals, results, inFlight, flow, pause, probes, failing, quota,
                   late, aborted, batch>>

InFlight(c) == pc[c] \in {"flight", "probe"}

\* Mutant of Release: the probe is not given back.
ReleaseProbeKept(c, next) ==
    /\ InFlight(c)
    /\ inFlight' = inFlight - 1
    /\ probing' = probing
    /\ pc' = [d \in Calls |-> IF d = c THEN next
                              ELSE IF pc[d] = "waiting" THEN "ready" ELSE pc[d]]

\* The attempt of c is over: its slot is given back and all that wait for one
\* look again.
Release(c, next) ==
    /\ InFlight(c)
    /\ inFlight' = inFlight - 1
    /\ probing' = (probing /\ pc[c] # "probe")
    /\ pc' = [d \in Calls |-> IF d = c THEN next
                              ELSE IF pc[d] = "waiting" THEN "ready" ELSE pc[d]]

-------------------------------------------------------------------------------
(* The answer *)

Succeed(c) ==
    LET closes == pc[c] = "probe" \/ breaker # "closed"
        enough == limit < MaxConcurrency /\ since + 1 >= IncreaseAfter
    IN  /\ Release(c, "ended")
        /\ EndsAs(c, "value")
        /\ budget' = budget + Gain
        /\ successes' = successes + 1
        /\ failing' = [k \in Kinds |-> 0]
        /\ breaker' = "closed"
        /\ probes' = IF closes THEN 0 ELSE probes
        /\ limit' = IF enough THEN limit + 1 ELSE limit
        /\ since' = IF enough THEN 0 ELSE IF since < IncreaseAfter THEN since + 1 ELSE since
        /\ UNCHANGED <<guard, pause, retries, late, aborted>>

Transient(k) == Rules[k].breaker \/ Rules[k].throttle
Longer(a, b) == IF a > b THEN a ELSE b
Shorter(a, b) == IF a < b THEN a ELSE b

\* Mutant of Shrunk: without the least limit.
ShrunkToNothing(n) == Shorter(n - 1, (n + 1) \div 2)

Shrunk(n) == Longer(MinConcurrency, Shorter(n - 1, (n + 1) \div 2))

\* A limited call cuts the limit, once in the time the service asked for.
Slow(k, delay) ==
    IF Rules[k].throttle /\ guard = 0
    THEN /\ limit' = Shrunk(limit)
         /\ guard' = Longer(delay, Base)
         /\ since' = 0
    ELSE UNCHANGED flow

Failing(k) == IF failing[k] < Threshold THEN failing[k] + 1 ELSE failing[k]
Count(k) == failing' = IF Rules[k].breaker THEN [failing EXCEPT ![k] = Failing(k)] ELSE failing

Gate == [breaker |-> breaker, pause |-> pause, probes |-> probes]
Opened(g) ==
    IF g.breaker = "open" THEN g
    ELSE [breaker |-> "open", probes |-> g.probes,
          pause |-> Longer(g.pause, Cooldown * 2 ^ g.probes)]

\* A probe that fails for a reason of its own proves that the service is back.
AfterFailure(c, k) ==
    IF pc[c] = "probe"
    THEN IF Transient(k)
         THEN Opened([Gate EXCEPT !.breaker = "closed", !.probes = probes + 1])
         ELSE [Gate EXCEPT !.breaker = "closed", !.probes = 0]
    ELSE IF Rules[k].breaker /\ Failing(k) >= Threshold THEN Opened(Gate) ELSE Gate

InFinal(c) == c \in Items /\ round = "final"

\* Some failures are repeated only with a smaller input.
Repeatable(c, k) ==
    /\ c \notin Once /\ ~InFinal(c) /\ ~late
    /\ used[c][k] < Rules[k].retries
    /\ Rules[k].adaptive => c \in Adaptive

\* Mutant of Affordable: any rest of the budget pays for a retry.
AffordableWithAny == budget > 0

Affordable == budget >= Cost
GateAfter(c, k) ==
    IF Repeatable(c, k) /\ ~Affordable /\ Transient(k) THEN Opened(AfterFailure(c, k))
                                                       ELSE AfterFailure(c, k)
GateIs(g) == breaker' = g.breaker /\ pause' = g.pause /\ probes' = g.probes

NoRecovery(c, k) == pc[c] = "probe" /\ Transient(k) /\ probes + 1 >= ProbeAttempts

\* What every failure does.
Failure(c, k, delay, next) ==
    /\ Release(c, next)
    /\ Slow(k, delay)
    /\ Count(k)
    /\ UNCHANGED <<successes, late>>

\* The service did not recover: no call of the job is made any more.
LastProbe(c, k, delay) ==
    /\ NoRecovery(c, k)
    /\ Failure(c, k, delay, "ended")
    /\ probes' = probes + 1
    /\ aborted' = TRUE
    /\ Raises(c)
    /\ UNCHANGED <<breaker, pause, budget, retries>>

\* Limited calls make all calls pause; after the others this one sleeps.
Retry(c, k, delay) ==
    LET g == AfterFailure(c, k)
    IN  /\ ~NoRecovery(c, k) /\ Repeatable(c, k) /\ Affordable
        /\ Failure(c, k, delay, IF Rules[k].refresh THEN "refreshing" ELSE "ready")
        /\ used' = [used EXCEPT ![c][k] = @ + 1]
        /\ retries' = retries + 1
        /\ budget' = budget - Cost
        /\ IF Rules[k].throttle
           THEN GateIs([g EXCEPT !.pause = Longer(@, delay)]) /\ UNCHANGED sleep
           ELSE GateIs(g) /\ sleep' = [sleep EXCEPT ![c] = IF Rules[k].refresh THEN 0 ELSE delay]
        /\ UNCHANGED <<finals, results, aborted, batch>>

GivesUp(c, k) == ~NoRecovery(c, k) /\ ~(Repeatable(c, k) /\ Affordable)
MoreFinals(c, k) == InFinal(c) /\ finals[c] + 1 < FinalAttempts /\ ~Rules[k].job

\* The next attempt of the final round, after twice the delay.
TryAgain(c, k, delay) ==
    /\ GivesUp(c, k) /\ MoreFinals(c, k)
    /\ Failure(c, k, delay, "ready")
    /\ GateIs(GateAfter(c, k))
    /\ finals' = [finals EXCEPT ![c] = @ + 1]
    /\ sleep' = [sleep EXCEPT ![c] = FinalDelay * 2 ^ finals'[c]]
    /\ UNCHANGED <<used, results, budget, retries, aborted, batch>>

AbortJob(c, k, delay) ==
    /\ GivesUp(c, k) /\ Rules[k].job
    /\ Failure(c, k, delay, "ended")
    /\ GateIs(GateAfter(c, k))
    /\ aborted' = TRUE
    /\ Raises(c)
    /\ UNCHANGED <<budget, retries>>

\* Mutant of Deferrable: an item that failed in the final round as well waits for another.
DeferrableAgain(c, k) == c \in Items /\ Rules[k].final

Deferrable(c, k) == c \in Items /\ Rules[k].final /\ round = "first"

FailItem(c, k, delay) ==
    /\ GivesUp(c, k) /\ ~MoreFinals(c, k) /\ ~Rules[k].job
    /\ Failure(c, k, delay, "ended")
    /\ GateIs(GateAfter(c, k))
    /\ EndsAs(c, IF Deferrable(c, k) THEN "deferred" ELSE "failed")
    /\ UNCHANGED <<budget, retries, aborted>>

Fail(c) ==
    \E k \in Kinds, delay \in 0..MaxDelay:
        \/ LastProbe(c, k, delay) \/ Retry(c, k, delay) \/ TryAgain(c, k, delay)
        \/ AbortJob(c, k, delay) \/ FailItem(c, k, delay)

\* The delay follows the new credentials; kinds that need them do not throttle.
Refreshed(c) ==
    /\ pc[c] = "refreshing"
    /\ pc' = [pc EXCEPT ![c] = "ready"]
    /\ sleep' \in {[sleep EXCEPT ![c] = delay]: delay \in 0..MaxDelay}
    /\ UNCHANGED <<used, finals, results, slots, flow, gate, failing, quota, late,
                   aborted, batch>>

RefreshFails(c) ==
    /\ pc[c] = "refreshing"
    /\ pc' = [pc EXCEPT ![c] = "ended"]
    /\ Raises(c)
    /\ UNCHANGED <<slots, flow, gate, failing, quota, late, aborted>>

\* The call itself makes bounded calls, and one of them fails for good.
NestedFails(c) ==
    /\ Release(c, "ended")
    /\ \/ Raises(c)
       \/ EndsAs(c, "failed")
       \/ c \in Items /\ round = "first" /\ EndsAs(c, "deferred")
    /\ UNCHANGED <<flow, gate, failing, quota, late, aborted>>

-------------------------------------------------------------------------------
(* The map, cancellation and time *)

\* Mutant of GiveBack: a cancelled call keeps its slot.
GiveBackNothing(c) == pc' = [pc EXCEPT ![c] = "ended"] /\ UNCHANGED slots

GiveBack(c) ==
    IF InFlight(c) THEN Release(c, "ended")
                   ELSE pc' = [pc EXCEPT ![c] = "ended"] /\ UNCHANGED slots

Cancel(c) ==
    /\ pc[c] \notin {"idle", "ended"}
    /\ c \in Items => stopping
    /\ GiveBack(c)
    /\ Forget(c)
    /\ UNCHANGED <<results, flow, gate, failing, quota, late, aborted, batch>>

\* Whoever runs the map is cancelled.
Stop ==
    /\ round \in {"first", "final"} /\ ~stopping
    /\ stopping' = TRUE
    /\ UNCHANGED <<pc, sleep, used, finals, results, slots, flow, gate, failing, quota, late,
                   aborted, round>>

Deferred == {c \in Items: results[c] = "deferred"}
FailsJob == FailJob /\ \E c \in Items: results[c] = "failed"

\* The items left for later are called again, each after the final delay.
FinalRound ==
    /\ round' = "final"
    /\ pc' = [c \in Calls |-> IF c \in Deferred THEN "ready" ELSE pc[c]]
    /\ sleep' = [c \in Calls |-> IF c \in Deferred THEN FinalDelay ELSE sleep[c]]
    /\ results' = [c \in Items |-> IF c \in Deferred THEN "none" ELSE results[c]]

RoundEnds ==
    /\ round \in {"first", "final"}
    /\ \A c \in Items: pc[c] = "ended"
    /\ IF round = "first" /\ ~stopping /\ Deferred # {}
       THEN FinalRound
       ELSE /\ round' = IF stopping \/ FailsJob THEN "raised" ELSE "returned"
            /\ UNCHANGED <<pc, sleep, results>>
    /\ UNCHANGED <<used, finals, slots, flow, gate, failing, quota, late, aborted,
                   stopping>>

Less(n) == IF n > 0 THEN n - 1 ELSE 0

\* The deadline of the caller, if it has one, passes at some tick.
Tick ==
    /\ pause > 0 \/ guard > 0 \/ ~late \/ \E c \in Calls: sleep[c] > 0
    /\ sleep' = [c \in Calls |-> Less(sleep[c])]
    /\ pause' = Less(pause)
    /\ guard' = Less(guard)
    /\ late' \in {late, TRUE}
    /\ UNCHANGED <<pc, used, finals, results, slots, limit, since, breaker, probes, failing,
                   quota, aborted, batch>>

Acquire(c) == Refuse(c) \/ Doze(c) \/ Enter(c) \/ Queue(c)
Answer(c) == Succeed(c) \/ Fail(c) \/ NestedFails(c)
Refresh(c) == Refreshed(c) \/ RefreshFails(c)

Next ==
    \/ \E c \in Calls: Call(c) \/ Acquire(c) \/ Answer(c) \/ Refresh(c) \/ Cancel(c)
    \/ Stop \/ RoundEnds \/ Tick

\* Calls are made, cancelled and the map is stopped when somebody wants it.  The
\* time limit of an attempt ends every wait for the service.
Fairness ==
    /\ \A c \in Calls: WF_vars(Acquire(c) \/ Answer(c) \/ Refresh(c))
    /\ \A c \in Items: WF_vars(Cancel(c))
    /\ WF_vars(RoundEnds) /\ WF_vars(Tick)

Spec == Init /\ [][Next]_vars
FairSpec == Spec /\ Fairness

-------------------------------------------------------------------------------
(* Properties *)

\* What each variable holds, and that the limit stays between its bounds,
\* however often it is cut and grows (_decrease, _on_success).
TypeOK ==
    /\ pc \in [Calls -> {"idle", "ready", "waiting", "flight", "probe", "refreshing", "ended"}]
    /\ sleep \in [Calls -> Nat] /\ finals \in [Calls -> Nat]
    /\ used \in [Calls -> [Kinds -> Nat]]
    /\ results \in [Items -> {"none", "value", "failed", "deferred"}]
    /\ inFlight \in Nat
    /\ limit \in MinConcurrency..MaxConcurrency
    /\ since \in 0..IncreaseAfter
    /\ breaker \in {"closed", "open", "half_open"}
    /\ failing \in [Kinds -> 0..Threshold]
    /\ {guard, pause, probes, successes, retries} \subseteq Nat /\ budget \in Int
    /\ {probing, late, aborted, stopping} \subseteq BOOLEAN
    /\ round \in {"first", "final", "returned", "raised"}

\* The slots counted are those of the calls in flight, through every failure,
\* retry and cancellation, and never more than the most allowed, although the
\* limit may be cut below what is in flight (_acquire, _release in call).
SlotsMatchCalls ==
    /\ inFlight = Cardinality({c \in Calls: InFlight(c)})
    /\ inFlight <= MaxConcurrency

\* While the half-open breaker tries one call, no other is in flight, also none
\* from before it opened (_acquire).
ProbeIsAlone ==
    \A c \in Calls: pc[c] = "probe" =>
        probing /\ breaker = "half_open" /\ \A d \in Calls \ {c}: ~InFlight(d)

\* All calls together repeat no more than the budget and the successes pay for
\* (the module's promise on the budget; _on_success, call).
RetryBudgetKept == Cost * retries <= Initial + Gain * successes

\* A map that returns has a value or an error for each item: none is left for a
\* round that does not come, and an empty place would count as a success
\* (map, CallOutcome.ok).
EveryItemHasOutcome ==
    round = "returned" => \A c \in Items: results[c] \in {"value", "failed"}

\* Every call ends and the map comes back: whoever waits for a slot is woken,
\* the breaker lets a probe through again, and retries run out.
CallsEnd ==
    /\ \A c \in Singles: (pc[c] # "idle") ~> (pc[c] = "ended")
    /\ <>(round \in {"returned", "raised"})
===============================================================================
