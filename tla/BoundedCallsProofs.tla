-------------------------- MODULE BoundedCallsProofs --------------------------
(* Proofs about the calls of one executor, for any calls, rules and numbers.  *)
(* The slots, the budget and the map do not depend on the delays and the      *)
(* pause; those are typed in the last section.                                *)
EXTENDS BoundedCalls, FiniteSetTheorems, TLAPS

Places == {"idle", "ready", "waiting", "flight", "probe", "refreshing", "ended"}

SlotInv ==
    /\ pc \in [Calls -> Places]
    /\ inFlight \in Nat
    /\ limit \in Int /\ limit <= MaxConcurrency
    /\ SlotsMatchCalls
    /\ ProbeIsAlone

\* The budget is what the retries have left of it.
BudgetInv ==
    /\ budget \in Nat /\ retries \in Nat /\ successes \in Nat
    /\ budget = Initial + Gain * successes - Cost * retries

Answers == {"value", "failed"}

\* An item that ended has a place in the results, unless the map is stopping;
\* only the first round leaves items for later.
ItemInv(c) ==
    /\ pc[c] = "ended" /\ ~stopping =>
        results[c] \in IF round = "first" THEN Answers \cup {"deferred"} ELSE Answers
    /\ round \in {"returned", "raised"} => pc[c] = "ended"

MapInv ==
    /\ results \in [Items -> Answers \cup {"none", "deferred"}]
    /\ round = "returned" => ~stopping
    /\ round \in {"first", "final", "returned", "raised"}
    /\ \A c \in Items: ItemInv(c)

IInv == SlotInv /\ BudgetInv /\ MapInv

-------------------------------------------------------------------------------
(* Slots *)

Taking == {c \in Calls: InFlight(c)}

LEMMA TakingFinite ==
    ASSUME SlotInv
    PROVE  IsFiniteSet(Taking) /\ Cardinality(Taking) = inFlight
<1>1. IsFiniteSet(Calls) /\ Taking \subseteq Calls
  BY CallsAssumption DEF CallsAssumption, Taking
<1> QED
  BY <1>1, FS_Subset DEF SlotInv, SlotsMatchCalls, Taking

\* A slot that is taken counts one more, and a probe takes the only one.
LEMMA EnterKeepsSlots ==
    ASSUME SlotInv, NEW c \in Calls, Enter(c)
    PROVE  SlotInv'
<1>1. /\ pc[c] = "ready"
      /\ inFlight' = inFlight + 1
      /\ limit' = limit
      /\ pc' = [pc EXCEPT ![c] = IF HalfOpen THEN "probe" ELSE "flight"]
      /\ probing' = (probing \/ HalfOpen)
      /\ breaker' = IF HalfOpen THEN "half_open" ELSE "closed"
      /\ IF HalfOpen THEN inFlight = 0 ELSE inFlight < limit
  BY DEF Enter, MayEnter, AtTop, ProbeFree, flow
<1>2. /\ pc \in [Calls -> Places] /\ inFlight \in Nat
      /\ limit \in Int /\ limit <= MaxConcurrency /\ MaxConcurrency \in Nat
      /\ MinConcurrency \in 1..MaxConcurrency
  BY CallsAssumption DEF SlotInv, CallsAssumption
<1>3. pc' \in [Calls -> Places] /\ Taking' = Taking \cup {c} /\ c \notin Taking
  BY <1>1, <1>2 DEF Places, Taking, InFlight
<1>4. inFlight' = Cardinality(Taking') /\ inFlight' <= MaxConcurrency
  <2>1. Cardinality(Taking') = Cardinality(Taking) + 1
    BY <1>3, TakingFinite, FS_AddElement
  <2>2. inFlight' <= MaxConcurrency
    BY <1>1, <1>2
  <2> QED
    BY <2>1, <2>2, <1>1, TakingFinite
<1>5. ProbeIsAlone'
  <2>1. CASE HalfOpen
    <3>1. Taking = {}
      BY <2>1, <1>1, TakingFinite, FS_EmptySet
    <3>2. \A d \in Calls: InFlight(d)' => d = c
      BY <3>1, <1>3 DEF Taking
    <3> QED
      BY <3>2, <2>1, <1>1 DEF ProbeIsAlone, InFlight
  <2>2. CASE ~HalfOpen
    <3>1. \A d \in Calls: pc[d] # "probe"
      BY <2>2 DEF SlotInv, ProbeIsAlone, HalfOpen
    <3> QED
      BY <3>1, <2>2, <1>1, <1>2 DEF ProbeIsAlone
  <2> QED
    BY <2>1, <2>2
<1> QED
  BY <1>1, <1>2, <1>3, <1>4, <1>5 DEF SlotInv, SlotsMatchCalls, Taking

\* A slot that is given back counts one less.  The call that gives it back was
\* the only one, if any was a probe.
LEMMA ReleaseKeepsSlots ==
    ASSUME SlotInv, NEW c \in Calls, NEW next \in {"ready", "refreshing", "ended"},
           Release(c, next), limit' \in Int, limit' <= MaxConcurrency
    PROVE  SlotInv'
<1>1. /\ InFlight(c)
      /\ inFlight' = inFlight - 1
      /\ pc' = [d \in Calls |-> IF d = c THEN next
                                ELSE IF pc[d] = "waiting" THEN "ready" ELSE pc[d]]
  BY DEF Release
<1>2. pc \in [Calls -> Places] /\ inFlight \in Nat /\ inFlight <= MaxConcurrency
  BY DEF SlotInv, SlotsMatchCalls
<1>3. pc' \in [Calls -> Places] /\ Taking' = Taking \ {c} /\ c \in Taking
  BY <1>1, <1>2 DEF Places, Taking, InFlight
<1>4. inFlight' \in Nat /\ inFlight' = Cardinality(Taking')
  <2>1. IsFiniteSet(Taking') /\ Cardinality(Taking') = Cardinality(Taking) - 1
    BY <1>3, TakingFinite, FS_RemoveElement
  <2> QED
    BY <2>1, <1>1, TakingFinite, FS_CardinalityType
<1>5. \A d \in Calls: pc'[d] # "probe"
  BY <1>1 DEF SlotInv, ProbeIsAlone
<1>6. inFlight' <= MaxConcurrency
  BY <1>1, <1>2, CallsAssumption DEF CallsAssumption
<1> QED
  BY <1>3, <1>4, <1>5, <1>6 DEF SlotInv, SlotsMatchCalls, ProbeIsAlone, Taking

\* A step that neither takes nor gives back a slot.
LEMMA OtherStepsKeepSlots ==
    ASSUME SlotInv, pc' \in [Calls -> Places], inFlight' = inFlight, limit' = limit,
           \A c \in Calls: InFlight(c)' = InFlight(c) /\ (pc'[c] = "probe" <=> pc[c] = "probe"),
           (\E c \in Calls: pc[c] = "probe") => probing' /\ breaker' = "half_open"
    PROVE  SlotInv'
<1>1. Taking' = Taking
  BY DEF Taking
<1>2. ProbeIsAlone'
  BY DEF SlotInv, ProbeIsAlone
<1> QED
  BY <1>1, <1>2 DEF SlotInv, SlotsMatchCalls, Taking

LEMMA SlowKeepsLimit ==
    ASSUME limit \in Int, limit <= MaxConcurrency, NEW k, NEW delay, Slow(k, delay)
    PROVE  limit' \in Int /\ limit' <= MaxConcurrency
<1>1. MinConcurrency \in Int /\ MinConcurrency <= MaxConcurrency /\ MaxConcurrency \in Int
  BY CallsAssumption DEF CallsAssumption
<1>2. (limit + 1) \div 2 \in Int
  OBVIOUS
<1>3. Shrunk(limit) \in Int /\ Shrunk(limit) <= MaxConcurrency
  BY <1>1, <1>2 DEF Shrunk, Longer, Shorter
<1> QED
  BY <1>3 DEF Slow, flow

\* What the failures of a call have in common.
LEMMA FailureShape ==
    ASSUME NEW c \in Calls, Fail(c)
    PROVE  \E next \in {"ready", "refreshing", "ended"}, k \in Kinds, delay \in 0..MaxDelay:
                Failure(c, k, delay, next)
<1>1. PICK k \in Kinds, delay \in 0..MaxDelay:
        \/ LastProbe(c, k, delay) \/ Retry(c, k, delay) \/ TryAgain(c, k, delay)
        \/ AbortJob(c, k, delay) \/ FailItem(c, k, delay)
  BY DEF Fail
<1>2. CASE LastProbe(c, k, delay) \/ AbortJob(c, k, delay) \/ FailItem(c, k, delay)
  BY <1>2 DEF LastProbe, AbortJob, FailItem
<1>3. CASE TryAgain(c, k, delay)
  BY <1>3 DEF TryAgain
<1>4. CASE Retry(c, k, delay)
  <2>1. Failure(c, k, delay, "refreshing") \/ Failure(c, k, delay, "ready")
    BY <1>4 DEF Retry
  <2> QED
    BY <2>1
<1> QED
  BY <1>1, <1>2, <1>3, <1>4

LEMMA AnswerKeepsSlots ==
    ASSUME SlotInv, NEW c \in Calls, Answer(c)
    PROVE  SlotInv'
<1>1. limit \in Int /\ limit <= MaxConcurrency /\ MaxConcurrency \in Int
  BY CallsAssumption DEF SlotInv, CallsAssumption
<1>2. CASE Succeed(c)
  <2>1. Release(c, "ended")
    BY <1>2 DEF Succeed
  <2>2. limit' = limit \/ (limit < MaxConcurrency /\ limit' = limit + 1)
    BY <1>2 DEF Succeed
  <2> QED
    BY <2>1, <2>2, <1>1, ReleaseKeepsSlots
<1>3. CASE Fail(c)
  <2>1. PICK next \in {"ready", "refreshing", "ended"}, k \in Kinds, delay \in 0..MaxDelay:
            Failure(c, k, delay, next)
    BY <1>3, FailureShape
  <2>2. Release(c, next) /\ Slow(k, delay)
    BY <2>1 DEF Failure
  <2> QED
    BY <2>2, <1>1, SlowKeepsLimit, ReleaseKeepsSlots
<1>4. CASE NestedFails(c)
  <2>1. Release(c, "ended") /\ limit' = limit
    BY <1>4 DEF NestedFails, flow
  <2> QED
    BY <2>1, <1>1, ReleaseKeepsSlots
<1> QED
  BY <1>2, <1>3, <1>4 DEF Answer

LEMMA SlotsKept ==
    ASSUME SlotInv, [Next]_vars
    PROVE  SlotInv'
<1>1. pc \in [Calls -> Places] /\ limit \in Int /\ limit <= MaxConcurrency
  BY DEF SlotInv
<1>2. (\E c \in Calls: pc[c] = "probe") => probing /\ breaker = "half_open"
  BY DEF SlotInv, ProbeIsAlone
<1> USE DEF Places, InFlight, flow, gate, slots
<1>3. ASSUME NEW c \in Calls, Call(c) \/ Refuse(c) \/ Doze(c) \/ Queue(c)
      PROVE  SlotInv'
  <2>1. /\ pc' \in [Calls -> Places] /\ inFlight' = inFlight /\ limit' = limit
        /\ \A d \in Calls: InFlight(d)' = InFlight(d) /\ (pc'[d] = "probe" <=> pc[d] = "probe")
    BY <1>1, <1>3 DEF Call, Refuse, Doze, Queue, MayEnter, AtTop
  <2>2. (\E d \in Calls: pc[d] = "probe") => probing' /\ breaker' = "half_open"
    BY <1>2, <1>3 DEF Call, Refuse, Doze, Queue, HalfOpen
  <2> QED
    BY <2>1, <2>2, OtherStepsKeepSlots
<1>4. ASSUME NEW c \in Calls, Refresh(c)
      PROVE  SlotInv'
  <2>1. /\ pc' \in [Calls -> Places] /\ inFlight' = inFlight /\ limit' = limit
        /\ \A d \in Calls: InFlight(d)' = InFlight(d) /\ (pc'[d] = "probe" <=> pc[d] = "probe")
        /\ probing' = probing /\ breaker' = breaker
    BY <1>1, <1>4 DEF Refresh, Refreshed, RefreshFails
  <2> QED
    BY <2>1, <1>2, OtherStepsKeepSlots
<1>5. ASSUME NEW c \in Calls, Cancel(c)
      PROVE  SlotInv'
  <2>1. limit' = limit /\ breaker' = breaker
    BY <1>5 DEF Cancel
  <2>2. CASE InFlight(c)
    <3>1. Release(c, "ended")
      BY <1>5, <2>2 DEF Cancel, GiveBack
    <3> QED
      BY <3>1, <2>1, <1>1, ReleaseKeepsSlots
  <2>3. CASE ~InFlight(c)
    <3>1. pc' = [pc EXCEPT ![c] = "ended"] /\ inFlight' = inFlight /\ probing' = probing
      BY <1>5, <2>3 DEF Cancel, GiveBack
    <3> QED
      BY <3>1, <2>1, <2>3, <1>1, <1>2, OtherStepsKeepSlots
  <2> QED
    BY <2>2, <2>3
<1>6. ASSUME Stop \/ RoundEnds \/ Tick \/ UNCHANGED vars
      PROVE  SlotInv'
  <2>1. inFlight' = inFlight /\ limit' = limit /\ probing' = probing /\ breaker' = breaker
    BY <1>6 DEF Stop, RoundEnds, Tick, vars
  <2>2. \/ pc' = pc
        \/ /\ pc' = [c \in Calls |-> IF c \in Deferred THEN "ready" ELSE pc[c]]
           /\ \A c \in Deferred: pc[c] = "ended"
    BY <1>6 DEF Stop, RoundEnds, FinalRound, Deferred, Tick, vars
  <2>3. /\ pc' \in [Calls -> Places]
        /\ \A d \in Calls: InFlight(d)' = InFlight(d) /\ (pc'[d] = "probe" <=> pc[d] = "probe")
    BY <2>2, <1>1
  <2> QED
    BY <2>1, <2>3, <1>2, OtherStepsKeepSlots
<1> QED
  BY <1>3, <1>4, <1>5, <1>6, EnterKeepsSlots, AnswerKeepsSlots DEF Next, Acquire

-------------------------------------------------------------------------------
(* The budget *)

LEMMA BudgetKept ==
    ASSUME BudgetInv, [Next]_vars
    PROVE  BudgetInv'
<1> USE DEF quota
<1>1. Gain \in Nat /\ Cost \in Nat /\ Initial \in Nat
  BY CallsAssumption DEF CallsAssumption
<1>2. ASSUME NEW c \in Calls, Succeed(c)
      PROVE  BudgetInv'
  <2>1. budget' = budget + Gain /\ successes' = successes + 1 /\ retries' = retries
    BY <1>2 DEF Succeed
  <2>2. Gain * (successes + 1) = Gain * successes + Gain
    BY <1>1 DEF BudgetInv
  <2> QED
    BY <2>1, <2>2, <1>1 DEF BudgetInv
<1>3. ASSUME NEW c \in Calls, Fail(c)
      PROVE  BudgetInv'
  <2>1. PICK k \in Kinds, delay \in 0..MaxDelay:
            \/ LastProbe(c, k, delay) \/ Retry(c, k, delay) \/ TryAgain(c, k, delay)
            \/ AbortJob(c, k, delay) \/ FailItem(c, k, delay)
    BY <1>3 DEF Fail
  <2>2. CASE Retry(c, k, delay)
    <3>1. /\ budget >= Cost /\ budget' = budget - Cost
          /\ retries' = retries + 1 /\ successes' = successes
      BY <2>2 DEF Retry, Affordable, Failure
    <3>2. Cost * (retries + 1) = Cost * retries + Cost
      BY <1>1 DEF BudgetInv
    <3> QED
      BY <3>1, <3>2, <1>1 DEF BudgetInv
  <2>3. CASE ~Retry(c, k, delay)
    BY <2>1, <2>3 DEF LastProbe, TryAgain, AbortJob, FailItem, Failure, BudgetInv
  <2> QED
    BY <2>2, <2>3
<1>4. ASSUME UNCHANGED quota
      PROVE  BudgetInv'
  BY <1>4 DEF BudgetInv
<1>5. ASSUME NEW c \in Calls,
             Call(c) \/ Acquire(c) \/ NestedFails(c) \/ Refresh(c) \/ Cancel(c)
      PROVE  UNCHANGED quota
  BY <1>5 DEF Call, Acquire, Refuse, Doze, Enter, Queue, NestedFails, Refresh, Refreshed,
     RefreshFails, Cancel
<1>6. Stop \/ RoundEnds \/ Tick \/ UNCHANGED vars => UNCHANGED quota
  BY DEF Stop, RoundEnds, Tick, vars
<1> QED
  BY <1>2, <1>3, <1>4, <1>5, <1>6 DEF Next, Answer

-------------------------------------------------------------------------------
(* The results of the map *)

LEMMA GoingOnKeepsResults ==
    ASSUME MapInv, UNCHANGED <<results, batch>>,
           \A c \in Items: pc'[c] = "ended" <=> pc[c] = "ended"
    PROVE  MapInv'
  BY DEF MapInv, ItemInv, batch

\* An item that ends has an answer, is left for the final round, or stops the map.
LEMMA EndKeepsResults ==
    ASSUME MapInv, NEW c \in Calls, pc[c] # "ended",
           \A d \in Items \ {c}: pc'[d] = "ended" <=> pc[d] = "ended",
           \/ Raises(c)
           \/ \E r \in Answers: EndsAs(c, r)
           \/ c \in Items /\ round = "first" /\ EndsAs(c, "deferred")
           \/ (c \in Items => stopping) /\ UNCHANGED <<results, batch>>
    PROVE  MapInv'
<1>1. round' = round /\ (c \in Items => round \in {"first", "final"})
  BY DEF MapInv, ItemInv, Raises, EndsAs, batch
<1>2. CASE Raises(c)
  BY <1>1, <1>2 DEF MapInv, ItemInv, Raises
<1>3. CASE (c \in Items => stopping) /\ UNCHANGED <<results, batch>>
  BY <1>1, <1>3 DEF MapInv, ItemInv, batch
<1>4. ASSUME NEW r \in Answers \cup {"deferred"}, EndsAs(c, r),
             r = "deferred" => round = "first"
      PROVE  MapInv'
  <2>1. /\ stopping' = stopping
        /\ results' = IF c \in Items THEN [results EXCEPT ![c] = r] ELSE results
    BY <1>4 DEF EndsAs, batch
  <2>2. results' \in [Items -> Answers \cup {"none", "deferred"}]
    BY <2>1 DEF MapInv
  <2>3. \A d \in Items: ItemInv(d)'
    BY <2>1, <1>1, <1>4 DEF MapInv, ItemInv
  <2> QED
    BY <2>1, <2>2, <2>3, <1>1 DEF MapInv
<1> QED
  BY <1>2, <1>3, <1>4 DEF Answers

LEMMA AnswerKeepsResults ==
    ASSUME SlotInv, MapInv, NEW c \in Calls, Answer(c)
    PROVE  MapInv'
<1>1. pc \in [Calls -> Places] /\ Items \subseteq Calls
  BY DEF SlotInv, Calls
<1>2. ASSUME NEW next \in {"ready", "refreshing", "ended"}, Release(c, next)
      PROVE  /\ pc[c] # "ended" /\ pc'[c] = next
             /\ \A d \in Items \ {c}: pc'[d] = "ended" <=> pc[d] = "ended"
  BY <1>1, <1>2 DEF Release, InFlight
<1>3. CASE Succeed(c)
  <2>1. Release(c, "ended") /\ EndsAs(c, "value")
    BY <1>3 DEF Succeed
  <2> QED
    BY <2>1, <1>2, EndKeepsResults DEF Answers
<1>4. CASE NestedFails(c)
  <2>1. /\ Release(c, "ended")
        /\ \/ Raises(c)
           \/ EndsAs(c, "failed")
           \/ c \in Items /\ round = "first" /\ EndsAs(c, "deferred")
    BY <1>4 DEF NestedFails
  <2> QED
    BY <2>1, <1>2, EndKeepsResults DEF Answers
<1>5. CASE Fail(c)
  <2>1. PICK k \in Kinds, delay \in 0..MaxDelay:
            \/ LastProbe(c, k, delay) \/ Retry(c, k, delay) \/ TryAgain(c, k, delay)
            \/ AbortJob(c, k, delay) \/ FailItem(c, k, delay)
    BY <1>5 DEF Fail
  <2>2. CASE LastProbe(c, k, delay) \/ AbortJob(c, k, delay)
    <3>1. Release(c, "ended") /\ Raises(c)
      BY <2>2 DEF LastProbe, AbortJob, Failure
    <3> QED
      BY <3>1, <1>2, EndKeepsResults
  <2>3. CASE FailItem(c, k, delay)
    <3>1. /\ Release(c, "ended")
          /\ \/ EndsAs(c, "failed")
             \/ c \in Items /\ round = "first" /\ EndsAs(c, "deferred")
      BY <2>3 DEF FailItem, Failure, Deferrable
    <3> QED
      BY <3>1, <1>2, EndKeepsResults DEF Answers
  <2>4. CASE Retry(c, k, delay) \/ TryAgain(c, k, delay)
    <3>1. UNCHANGED <<results, batch>>
      BY <2>4 DEF Retry, TryAgain
    <3>2. Release(c, "ready") \/ Release(c, "refreshing")
      BY <2>4 DEF Retry, TryAgain, Failure
    <3>3. pc[c] # "ended" /\ pc'[c] # "ended"
      BY <3>2, <1>2
    <3>4. \A d \in Items: pc'[d] = "ended" <=> pc[d] = "ended"
      BY <3>2, <3>3, <1>2
    <3> QED
      BY <3>1, <3>4, GoingOnKeepsResults
  <2> QED
    BY <2>1, <2>2, <2>3, <2>4
<1> QED
  BY <1>3, <1>4, <1>5 DEF Answer

\* The map ends only when no item is left for the final round.
LEMMA RoundEndsKeepsResults ==
    ASSUME SlotInv, MapInv, RoundEnds
    PROVE  MapInv'
<1>1. /\ pc \in [Calls -> Places] /\ Items \subseteq Calls
      /\ \A c \in Items: pc[c] = "ended" /\ ItemInv(c)
      /\ round \in {"first", "final"} /\ stopping' = stopping
  BY DEF SlotInv, Calls, MapInv, RoundEnds
<1>2. CASE round = "first" /\ ~stopping /\ Deferred # {}
  <2>1. /\ round' = "final"
        /\ pc' = [c \in Calls |-> IF c \in Deferred THEN "ready" ELSE pc[c]]
        /\ results' = [c \in Items |-> IF c \in Deferred THEN "none" ELSE results[c]]
    BY <1>2 DEF RoundEnds, FinalRound
  <2>2. results' \in [Items -> Answers \cup {"none", "deferred"}]
    BY <2>1 DEF MapInv
  <2>3. ASSUME NEW c \in Items
        PROVE  ItemInv(c)'
    <3>1. c \notin Deferred => results[c] \in Answers
      BY <1>1, <1>2 DEF ItemInv, Deferred
    <3>2. pc'[c] = "ended" => c \notin Deferred
      BY <2>1, <1>1
    <3> QED
      BY <3>1, <3>2, <2>1 DEF ItemInv
  <2> QED
    BY <2>1, <2>2, <2>3 DEF MapInv
<1>3. CASE ~(round = "first" /\ ~stopping /\ Deferred # {})
  <2>1. /\ round' = IF stopping \/ FailsJob THEN "raised" ELSE "returned"
        /\ pc' = pc /\ results' = results
    BY <1>3 DEF RoundEnds
  <2>2. ASSUME NEW c \in Items
        PROVE  ItemInv(c)'
    <3>1. ~stopping => results[c] \in Answers
      BY <1>1, <1>3 DEF ItemInv, Deferred
    <3> QED
      BY <3>1, <2>1, <1>1 DEF ItemInv
  <2> QED
    BY <2>1, <2>2, <1>1 DEF MapInv
<1> QED
  BY <1>2, <1>3

LEMMA ResultsKept ==
    ASSUME SlotInv, MapInv, [Next]_vars
    PROVE  MapInv'
<1>1. pc \in [Calls -> Places] /\ Items \subseteq Calls
  BY DEF SlotInv, Calls
<1>2. ASSUME NEW c \in Calls, Refuse(c) \/ RefreshFails(c)
      PROVE  MapInv'
  <2>1. pc[c] # "ended" /\ pc' = [pc EXCEPT ![c] = "ended"] /\ Raises(c)
    BY <1>2 DEF Refuse, RefreshFails, AtTop
  <2> QED
    BY <2>1, <1>1, EndKeepsResults
<1>3. ASSUME NEW c \in Calls, Call(c) \/ Doze(c) \/ Enter(c) \/ Queue(c) \/ Refreshed(c)
      PROVE  MapInv'
  <2>1. UNCHANGED <<results, batch>>
    BY <1>3 DEF Call, Doze, Enter, Queue, Refreshed
  <2>2. \A d \in Items: pc'[d] = "ended" <=> pc[d] = "ended"
    BY <1>3, <1>1 DEF Call, Doze, Enter, Queue, Refreshed, MayEnter, AtTop
  <2> QED
    BY <2>1, <2>2, GoingOnKeepsResults
<1>4. ASSUME NEW c \in Calls, Cancel(c)
      PROVE  MapInv'
  <2>1. pc[c] # "ended" /\ (c \in Items => stopping) /\ UNCHANGED <<results, batch>>
    BY <1>4 DEF Cancel
  <2>2. \A d \in Items \ {c}: pc'[d] = "ended" <=> pc[d] = "ended"
    BY <1>4, <1>1 DEF Cancel, GiveBack, Release
  <2> QED
    BY <2>1, <2>2, EndKeepsResults
<1>5. CASE Stop
  BY <1>5 DEF Stop, MapInv, ItemInv
<1>6. CASE Tick \/ UNCHANGED vars
  BY <1>6, GoingOnKeepsResults DEF Tick, vars, batch
<1> QED
  BY <1>2, <1>3, <1>4, <1>5, <1>6, AnswerKeepsResults, RoundEndsKeepsResults
  DEF Next, Acquire, Refresh

-------------------------------------------------------------------------------

LEMMA InitIInv == Init => IInv
<1> SUFFICES ASSUME Init PROVE IInv
  OBVIOUS
<1> USE CallsAssumption DEF CallsAssumption, Init
<1>1. \A c \in Calls: ~InFlight(c)
  BY DEF InFlight
<1>2. {c \in Calls: InFlight(c)} = {}
  BY <1>1
<1>3. SlotsMatchCalls
  <2>1. Cardinality({c \in Calls: InFlight(c)}) = 0
    BY <1>2, FS_EmptySet
  <2>2. inFlight = 0 /\ inFlight <= MaxConcurrency
    OBVIOUS
  <2> QED
    BY <2>1, <2>2 DEF SlotsMatchCalls
<1>4. SlotInv
  BY <1>1, <1>3 DEF SlotInv, ProbeIsAlone, InFlight, Places
<1>5. BudgetInv
  BY DEF BudgetInv
<1>6. MapInv
  BY DEF MapInv, ItemInv, Calls
<1> QED
  BY <1>4, <1>5, <1>6 DEF IInv

\* The invariant of the executor (bounded_calls.py).
THEOREM CallsInvariant == Spec => []IInv
<1>1. IInv /\ [Next]_vars => IInv'
  BY SlotsKept, BudgetKept, ResultsKept DEF IInv
<1> QED
  BY InitIInv, <1>1, PTL DEF Spec

\* The counted slots are the calls in flight, and within the most allowed
\* (_acquire, _release).
THEOREM SlotsAreCalls == Spec => []SlotsMatchCalls
<1>1. IInv => SlotsMatchCalls
  BY DEF IInv, SlotInv
<1> QED
  BY CallsInvariant, <1>1, PTL

\* The half-open breaker tries one call, with no other in flight (_acquire).
THEOREM ProbesAreAlone == Spec => []ProbeIsAlone
<1>1. IInv => ProbeIsAlone
  BY DEF IInv, SlotInv
<1> QED
  BY CallsInvariant, <1>1, PTL

\* Retries cost no more than the budget and the successes gave (call, _on_success).
THEOREM RetriesArePaidFor == Spec => []RetryBudgetKept
<1>1. IInv => RetryBudgetKept
  <2>1. Initial \in Nat /\ Gain \in Nat /\ Cost \in Nat
    BY CallsAssumption DEF CallsAssumption
  <2>2. ASSUME BudgetInv
        PROVE  /\ Gain * successes \in Int /\ Cost * retries \in Int
               /\ Initial + Gain * successes - Cost * retries >= 0
    BY <2>1, <2>2 DEF BudgetInv
  <2> QED
    BY <2>1, <2>2 DEF IInv, RetryBudgetKept
<1> QED
  BY CallsInvariant, <1>1, PTL

\* A map that returns has a value or an error for each of its items (map).
THEOREM ItemsHaveOutcomes == Spec => []EveryItemHasOutcome
<1>1. IInv => EveryItemHasOutcome
  BY DEF IInv, MapInv, ItemInv, EveryItemHasOutcome, Answers
<1> QED
  BY CallsInvariant, <1>1, PTL

-------------------------------------------------------------------------------
(* Types: the delays, the breaker and the limit *)

\* A power of two is the number of subsets of 1..n.
LEMMA PowerOfTwo ==
    ASSUME NEW n \in Nat
    PROVE  2 ^ n \in Nat
<1>1. IsFiniteSet(1..n) /\ Cardinality(1..n) = IF 1 > n THEN 0 ELSE n - 1 + 1
  BY FS_Interval
<1>2. Cardinality(1..n) = n
  BY <1>1
<1>3. IsFiniteSet(SUBSET (1..n)) /\ Cardinality(SUBSET (1..n)) = 2 ^ n
  BY <1>1, <1>2, FS_SUBSET
<1> QED
  BY <1>3, FS_CardinalityType

\* What a call keeps while it is made, ...
LocalTypes ==
    /\ sleep \in [Calls -> Nat]
    /\ finals \in [Calls -> Nat]
    /\ used \in [Calls -> [Kinds -> Nat]]

\* ... what all of them share to go slower, ...
FlowTypes ==
    /\ limit \in MinConcurrency..MaxConcurrency
    /\ since \in 0..IncreaseAfter
    /\ guard \in Nat

\* ... and to stop.
Gates == [breaker: {"closed", "open", "half_open"}, pause: Nat, probes: Nat]
GateTypes == Gate \in Gates /\ failing \in [Kinds -> 0..Threshold]

FlagTypes == {probing, late, aborted, stopping} \subseteq BOOLEAN

\* A breaker that opens has a pause, and a number of failed probes.
LEMMA OpenedType ==
    ASSUME NEW g \in Gates
    PROVE  Opened(g) \in Gates
<1>1. g.probes \in Nat /\ g.pause \in Nat /\ Cooldown \in Nat
  BY CallsAssumption DEF CallsAssumption, Gates
<1>2. 2 ^ g.probes \in Nat
  BY <1>1, PowerOfTwo
<1>3. \A m \in Nat, n \in Nat: m * n \in Nat
  OBVIOUS
<1>4. Cooldown * 2 ^ g.probes \in Nat
  BY <1>1, <1>2, <1>3
<1>5. Longer(g.pause, Cooldown * 2 ^ g.probes) \in Nat
  BY <1>1, <1>4 DEF Longer
<1> QED
  BY <1>1, <1>5 DEF Opened, Gates

LEMMA GateAfterType ==
    ASSUME GateTypes, NEW c, NEW k
    PROVE  AfterFailure(c, k) \in Gates /\ GateAfter(c, k) \in Gates
<1>1. Gate \in Gates /\ probes \in Nat
  BY DEF GateTypes, Gate, Gates
<1>2. ASSUME NEW n \in Nat
      PROVE  [Gate EXCEPT !.breaker = "closed", !.probes = n] \in Gates
  BY <1>1 DEF Gates
<1>3. AfterFailure(c, k) \in Gates
  <2> DEFINE again == [Gate EXCEPT !.breaker = "closed", !.probes = probes + 1]
             back == [Gate EXCEPT !.breaker = "closed", !.probes = 0]
  <2>1. again \in Gates /\ back \in Gates
    <3>1. probes + 1 \in Nat /\ 0 \in Nat
      BY <1>1
    <3> QED
      BY <3>1, <1>2, Zenon
  <2>2. Opened(again) \in Gates /\ Opened(Gate) \in Gates
    <3> HIDE DEF again
    <3> QED
      BY <1>1, <2>1, OpenedType
  <2>3. AfterFailure(c, k) \in {Opened(again), back, Opened(Gate), Gate}
    BY DEF AfterFailure
  <2> QED
    BY <1>1, <2>1, <2>2, <2>3
<1> QED
  BY <1>3, OpenedType DEF GateAfter

LEMMA GateIsType ==
    ASSUME NEW g \in Gates, GateIs(g), failing' \in [Kinds -> 0..Threshold]
    PROVE  GateTypes'
  BY DEF GateIs, Gates, GateTypes, Gate

\* What every failure does to the limit and to the counts.
LEMMA FailureTypes ==
    ASSUME FlowTypes, GateTypes, NEW c \in Calls, NEW k \in Kinds, NEW delay \in 0..MaxDelay,
           NEW next, Failure(c, k, delay, next)
    PROVE  FlowTypes' /\ failing' \in [Kinds -> 0..Threshold]
<1>1. /\ MaxConcurrency \in Nat /\ MinConcurrency \in 1..MaxConcurrency
      /\ Base \in Nat /\ MaxDelay \in Nat /\ IncreaseAfter \in Nat /\ Threshold \in Nat
  BY CallsAssumption DEF CallsAssumption
<1>2. FlowTypes'
  <2>1. Slow(k, delay)
    BY DEF Failure
  <2>2. CASE Rules[k].throttle /\ guard = 0
    <3>1. /\ limit' = Shrunk(limit) /\ guard' = Longer(delay, Base) /\ since' = 0
      BY <2>1, <2>2 DEF Slow
    <3>2. \A n \in MinConcurrency..MaxConcurrency: Shrunk(n) \in MinConcurrency..MaxConcurrency
      BY <1>1 DEF Shrunk, Longer, Shorter
    <3>3. Longer(delay, Base) \in Nat
      BY <1>1 DEF Longer
    <3> QED
      BY <1>1, <3>1, <3>2, <3>3 DEF FlowTypes
  <2>3. CASE ~(Rules[k].throttle /\ guard = 0)
    BY <2>1, <2>3 DEF Slow, flow, FlowTypes
  <2> QED
    BY <2>2, <2>3
<1>3. failing' \in [Kinds -> 0..Threshold]
  <2>1. Failing(k) \in 0..Threshold
    BY <1>1 DEF Failing, GateTypes
  <2> QED
    BY <2>1 DEF Failure, Count, GateTypes
<1> QED
  BY <1>2, <1>3

LEMMA FailKeepsTypes ==
    ASSUME LocalTypes, FlowTypes, GateTypes, NEW c \in Calls, Fail(c)
    PROVE  LocalTypes' /\ FlowTypes' /\ GateTypes'
<1>1. PICK k \in Kinds, delay \in 0..MaxDelay:
        \/ LastProbe(c, k, delay) \/ Retry(c, k, delay) \/ TryAgain(c, k, delay)
        \/ AbortJob(c, k, delay) \/ FailItem(c, k, delay)
  BY DEF Fail
<1>2. PICK next: Failure(c, k, delay, next)
  BY <1>1 DEF LastProbe, Retry, TryAgain, AbortJob, FailItem
<1>3. FlowTypes' /\ failing' \in [Kinds -> 0..Threshold]
  BY <1>2, FailureTypes
<1>4. Gate \in Gates /\ pause \in Nat /\ probes \in Nat /\ delay \in Nat /\ FinalDelay \in Nat
  BY CallsAssumption DEF CallsAssumption, GateTypes, Gate, Gates
<1>5. Forget(c) => LocalTypes'
  BY DEF Forget, LocalTypes
<1>6. CASE LastProbe(c, k, delay)
  <2>1. Forget(c)
    BY <1>6 DEF LastProbe, Raises
  <2>2. GateTypes'
    BY <1>3, <1>4, <1>6 DEF LastProbe, GateTypes, Gate, Gates
  <2> QED
    BY <2>1, <2>2, <1>3, <1>5
<1>7. CASE Retry(c, k, delay)
  <2> DEFINE g == AfterFailure(c, k)
             h == [g EXCEPT !.pause = Longer(@, delay)]
  <2>1. g \in Gates
    BY GateAfterType
  <2>2. h \in Gates
    BY <2>1, <1>4 DEF Gates, Longer
  <2>3. GateIs(h) \/ GateIs(g)
    BY <1>7 DEF Retry
  <2>4. GateTypes'
    <3> HIDE DEF g, h
    <3> QED
      BY <2>1, <2>2, <2>3, <1>3, GateIsType
  <2>5. /\ used' = [used EXCEPT ![c][k] = @ + 1] /\ finals' = finals
        /\ \/ sleep' = sleep
           \/ sleep' = [sleep EXCEPT ![c] = IF Rules[k].refresh THEN 0 ELSE delay]
    BY <1>7 DEF Retry
  <2>6. LocalTypes'
    BY <2>5, <1>4 DEF LocalTypes
  <2> QED
    BY <2>4, <2>6, <1>3
<1>8. CASE TryAgain(c, k, delay)
  <2>1. GateIs(GateAfter(c, k)) /\ used' = used
        /\ finals' = [finals EXCEPT ![c] = @ + 1]
        /\ sleep' = [sleep EXCEPT ![c] = FinalDelay * 2 ^ finals'[c]]
    BY <1>8 DEF TryAgain
  <2>2. finals' \in [Calls -> Nat]
    BY <2>1 DEF LocalTypes
  <2>3. 2 ^ finals'[c] \in Nat
    BY <2>2, PowerOfTwo
  <2>4. \A m \in Nat, n \in Nat: m * n \in Nat
    OBVIOUS
  <2>5. FinalDelay * 2 ^ finals'[c] \in Nat
    BY <2>3, <2>4, <1>4
  <2>6. sleep' \in [Calls -> Nat]
    BY <2>1, <2>5 DEF LocalTypes
  <2> QED
    BY <2>1, <2>2, <2>6, <1>3, GateAfterType, GateIsType DEF LocalTypes
<1>9. CASE AbortJob(c, k, delay) \/ FailItem(c, k, delay)
  <2>1. Forget(c) /\ GateIs(GateAfter(c, k))
    BY <1>9 DEF AbortJob, FailItem, Raises, EndsAs
  <2> QED
    BY <2>1, <1>3, <1>5, GateAfterType, GateIsType
<1> QED
  BY <1>1, <1>6, <1>7, <1>8, <1>9

\* A success counts towards the next slot, and leaves the rest as it was.
LEMMA SucceedKeepsTypes ==
    ASSUME LocalTypes, FlowTypes, GateTypes, NEW c \in Calls, Succeed(c)
    PROVE  LocalTypes' /\ FlowTypes' /\ GateTypes'
<1>1. /\ MaxConcurrency \in Nat /\ MinConcurrency \in 1..MaxConcurrency
      /\ IncreaseAfter \in Nat /\ Threshold \in Nat
  BY CallsAssumption DEF CallsAssumption
<1>2. LocalTypes'
  BY DEF Succeed, EndsAs, Forget, LocalTypes
<1>3. FlowTypes'
  <2>1. guard' = guard
    BY DEF Succeed
  <2>2. limit' = limit \/ (limit < MaxConcurrency /\ limit' = limit + 1)
    BY DEF Succeed
  <2>3. since' = 0 \/ (since < IncreaseAfter /\ since' = since + 1) \/ since' = since
    BY DEF Succeed
  <2> QED
    BY <1>1, <2>1, <2>2, <2>3 DEF FlowTypes
<1>4. GateTypes'
  <2>1. /\ breaker' = "closed" /\ pause' = pause /\ (probes' = 0 \/ probes' = probes)
        /\ failing' = [k \in Kinds |-> 0]
    BY DEF Succeed
  <2> QED
    BY <1>1, <2>1 DEF GateTypes, Gate, Gates
<1> QED
  BY <1>2, <1>3, <1>4

\* The other steps.
LEMMA TypesKept ==
    ASSUME LocalTypes, FlowTypes, GateTypes, [Next]_vars
    PROVE  LocalTypes' /\ FlowTypes' /\ GateTypes'
<1> USE DEF flow, gate
<1>0. pause \in Nat /\ probes \in Nat /\ FinalDelay \in Nat /\ MaxDelay \in Nat
  BY CallsAssumption DEF CallsAssumption, GateTypes, Gate, Gates
<1>1. /\ UNCHANGED <<sleep, used, finals>> => LocalTypes'
      /\ \A c \in Calls: Forget(c) => LocalTypes'
  <2>1. UNCHANGED <<sleep, used, finals>> => LocalTypes'
    BY DEF LocalTypes
  <2>2. ASSUME NEW c \in Calls, Forget(c)
        PROVE  LocalTypes'
    BY <2>2 DEF Forget, LocalTypes
  <2> QED
    BY <2>1, <2>2
<1>2. UNCHANGED flow => FlowTypes'
  BY DEF FlowTypes
<1>3. UNCHANGED <<pause, probes, failing>> /\ breaker' \in {breaker, "closed", "half_open"}
        => GateTypes'
  BY DEF GateTypes, Gate, Gates
<1>4. ASSUME NEW c \in Calls, Call(c) \/ Enter(c) \/ Queue(c)
      PROVE  LocalTypes' /\ FlowTypes' /\ GateTypes'
  <2>1. /\ UNCHANGED <<sleep, used, finals, flow, pause, probes, failing>>
        /\ breaker' \in {breaker, "closed", "half_open"}
    BY <1>4 DEF Call, Enter, Queue
  <2> QED
    BY <2>1, <1>1, <1>2, <1>3
<1>5. ASSUME NEW c \in Calls, Refuse(c) \/ RefreshFails(c) \/ NestedFails(c) \/ Cancel(c)
      PROVE  LocalTypes' /\ FlowTypes' /\ GateTypes'
  <2>1. Forget(c) /\ UNCHANGED <<flow, gate, failing>>
    BY <1>5 DEF Refuse, RefreshFails, NestedFails, Cancel, Raises, EndsAs
  <2> QED
    BY <2>1, <1>1, <1>2, <1>3
<1>6. ASSUME NEW c \in Calls, Doze(c) \/ Refreshed(c)
      PROVE  LocalTypes' /\ FlowTypes' /\ GateTypes'
  <2>1. UNCHANGED <<used, finals, flow, gate, failing>>
    BY <1>6 DEF Doze, Refreshed
  <2>2. PICK delay \in Nat: sleep' = [sleep EXCEPT ![c] = delay]
    BY <1>0, <1>6 DEF Doze, Refreshed
  <2>3. LocalTypes'
    BY <2>1, <2>2 DEF LocalTypes
  <2> QED
    BY <2>1, <2>3, <1>2, <1>3
<1>7. CASE RoundEnds
  <2>1. UNCHANGED <<used, finals, flow, gate, failing>>
    BY <1>7 DEF RoundEnds
  <2>2. \/ sleep' = sleep
        \/ sleep' = [c \in Calls |-> IF c \in Deferred THEN FinalDelay ELSE sleep[c]]
    BY <1>7 DEF RoundEnds, FinalRound
  <2>3. LocalTypes'
    BY <2>1, <2>2, <1>0 DEF LocalTypes
  <2> QED
    BY <2>1, <2>3, <1>2, <1>3
<1>8. CASE Tick
  <2>1. \A n \in Nat: Less(n) \in Nat
    BY DEF Less
  <2>2. /\ sleep' = [c \in Calls |-> Less(sleep[c])]
        /\ pause' = Less(pause) /\ guard' = Less(guard)
        /\ UNCHANGED <<used, finals, limit, since, breaker, probes, failing>>
    BY <1>8 DEF Tick
  <2>3. LocalTypes' /\ FlowTypes'
    BY <2>1, <2>2 DEF LocalTypes, FlowTypes
  <2>4. GateTypes'
    BY <2>1, <2>2 DEF GateTypes, Gate, Gates
  <2> QED
    BY <2>3, <2>4
<1>9. Stop \/ UNCHANGED vars => UNCHANGED <<sleep, used, finals, flow, gate, failing>>
  BY DEF Stop, vars
<1> QED
  BY <1>1, <1>2, <1>3, <1>4, <1>5, <1>6, <1>7, <1>8, <1>9, FailKeepsTypes, SucceedKeepsTypes
  DEF Next, Acquire, Answer, Refresh

LEMMA FlagsKept ==
    ASSUME FlagTypes, [Next]_vars
    PROVE  FlagTypes'
<1> USE DEF FlagTypes, slots, batch
<1>1. ASSUME NEW c \in Calls
      PROVE  /\ Raises(c) => stopping' \in BOOLEAN
             /\ \A r: EndsAs(c, r) => stopping' = stopping
             /\ \A next: Release(c, next) => probing' \in BOOLEAN
  BY DEF Raises, EndsAs, Release
<1>2. ASSUME NEW c \in Calls, Call(c) \/ Acquire(c) \/ Refresh(c)
      PROVE  FlagTypes'
  BY <1>1, <1>2 DEF Call, Acquire, Refuse, Doze, Enter, Queue, Refresh, Refreshed, RefreshFails
<1>3. ASSUME NEW c \in Calls, Succeed(c) \/ NestedFails(c) \/ Cancel(c)
      PROVE  FlagTypes'
  BY <1>1, <1>3 DEF Succeed, NestedFails, Cancel, GiveBack
<1>4. ASSUME NEW c \in Calls, Fail(c)
      PROVE  FlagTypes'
  BY <1>1, <1>4 DEF Fail, LastProbe, Retry, TryAgain, AbortJob, FailItem, Failure
<1>5. CASE Stop \/ RoundEnds \/ Tick \/ UNCHANGED vars
  BY <1>5 DEF Stop, RoundEnds, Tick, vars
<1> QED
  BY <1>2, <1>3, <1>4, <1>5 DEF Next, Answer

\* Every variable keeps its type; the limit stays between its bounds, however
\* often it is cut and grows (_decrease, _on_success).
THEOREM TypesAreKept == Spec => []TypeOK
<1> DEFINE Types == LocalTypes /\ FlowTypes /\ GateTypes /\ FlagTypes
<1>1. Init => Types
  <2> SUFFICES ASSUME Init PROVE Types
    OBVIOUS
  <2> USE CallsAssumption DEF CallsAssumption, Init
  <2>1. LocalTypes
    BY DEF LocalTypes
  <2>2. FlowTypes
    BY DEF FlowTypes
  <2>3. FlagTypes
    BY DEF FlagTypes
  <2>4. GateTypes
    BY DEF GateTypes, Gate, Gates
  <2> QED
    BY <2>1, <2>2, <2>3, <2>4
<1>2. Types /\ [Next]_vars => Types'
  BY TypesKept, FlagsKept
<1>3. IInv /\ Types => TypeOK
  BY DEF IInv, SlotInv, Places, BudgetInv, MapInv, Answers, LocalTypes, FlowTypes, GateTypes,
     Gate, Gates, FlagTypes, TypeOK
<1> QED
  <2> HIDE DEF Types
  <2> QED
    BY CallsInvariant, <1>1, <1>2, <1>3, PTL DEF Spec
===============================================================================
