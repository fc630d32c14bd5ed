-------------------------- MODULE WorkerSlotsProofs ---------------------------
(* Proofs about the slots of an ingestion worker, for any jobs, slots and     *)
(* delays.  The slots do not depend on the delays and the rows; those are     *)
(* typed in the last section.                                                 *)
EXTENDS WorkerSlots, FiniteSetTheorems, TLAPS

\* The part of TypeOK the slots depend on.
SlotTypes ==
    /\ fetched \subseteq Jobs
    /\ inflight \subseteq Jobs
    /\ task \in [Jobs -> Tasks]
    /\ pipe \in [Jobs -> {"closed", "open", "written"}]

\* A heavy job keeps its heavy slot until it has parsed, only heavy jobs parse,
\* and the pipe has something to say only after that and while its child or
\* what is left of it is waited for.
OneSlotInv(j) ==
    /\ task[j] \in {"starting", "child", "parsing"} /\ j \in Heavy => j \in heavy
    /\ task[j] = "parsing" => j \in Heavy
    /\ pipe[j] = "written" => task[j] \in {"working", "exited", "died"}

IInv ==
    /\ SlotTypes
    /\ SlotsMatchTasks
    /\ Cardinality(heavy) <= HeavySlots
    /\ \A j \in Jobs: OneSlotInv(j)

-------------------------------------------------------------------------------

LEMMA InitIInv == Init => IInv
  BY SlotsAssumption, FS_EmptySet DEF SlotsAssumption, Init, IInv, SlotTypes, Tasks,
     SlotsMatchTasks, OneSlotInv

\* The slots of either kind are finitely many, so their numbers add up.
LEMMA SlotSetsFinite ==
    ASSUME IInv
    PROVE  /\ IsFiniteSet(inflight) /\ Cardinality(inflight) \in Nat
           /\ IsFiniteSet(heavy) /\ Cardinality(heavy) \in Nat
<1>1. inflight \subseteq Jobs /\ heavy \subseteq Jobs
  BY DEF IInv, SlotTypes, SlotsMatchTasks
<1> QED
  BY <1>1, SlotsAssumption, FS_Subset, FS_CardinalityType DEF SlotsAssumption

\* Jobs that are added take as many slots as they are.
LEMMA SlotsTaken ==
    ASSUME NEW S \in SUBSET Jobs, NEW L \in SUBSET Jobs, NEW n \in Nat,
           Cardinality(L) <= n - Cardinality(S)
    PROVE  Cardinality(S \cup L) <= n
<1>1. IsFiniteSet(S) /\ IsFiniteSet(L)
  BY SlotsAssumption, FS_Subset DEF SlotsAssumption
<1>2. IsFiniteSet(S \cap L)
  BY <1>1, FS_Subset
<1>3. /\ Cardinality(S) \in Nat /\ Cardinality(L) \in Nat /\ Cardinality(S \cap L) \in Nat
      /\ Cardinality(S \cup L) = Cardinality(S) + Cardinality(L) - Cardinality(S \cap L)
  BY <1>1, <1>2, FS_CardinalityType, FS_Union
<1> QED
  BY <1>3

\* The list keeps its type and leaves the slots alone.
LEMMA FetchKeeps ==
    ASSUME IInv, Fetch
    PROVE  IInv'
<1>1. fetched' \subseteq Jobs
  BY DEF Fetch, Eligible
<1>2. UNCHANGED <<inflight, heavy, task, pipe>>
  BY DEF Fetch, slots
<1> QED
  BY <1>1, <1>2 DEF IInv, SlotTypes, SlotsMatchTasks, OneSlotInv

\* Jobs that start take free slots, and all of them were without one.
LEMMA LaunchKeeps ==
    ASSUME IInv, Launch
    PROVE  IInv'
<1>1. PICK L \in SUBSET fetched:
        /\ Startable(L)
        /\ inflight' = inflight \cup L
        /\ heavy' = heavy \cup (L \cap Heavy)
        /\ task' = [j \in Jobs |-> IF j \in L THEN "starting" ELSE task[j]]
  BY DEF Launch
<1>2. fetched' = {} /\ pipe' = pipe
  BY DEF Launch
<1>3. /\ L \subseteq Jobs /\ inflight \subseteq Jobs /\ heavy \subseteq inflight
      /\ \A j \in L: j \notin inflight
      /\ Cardinality(L) <= Slots - Cardinality(inflight)
      /\ Cardinality(L \cap Heavy) <= HeavySlots - Cardinality(heavy)
      /\ \A j \in Jobs: j \in inflight <=> task[j] # "none"
  BY <1>1 DEF IInv, SlotTypes, SlotsMatchTasks, Startable, Free, HeavyFree
<1>4. SlotTypes'
  BY <1>1, <1>2, <1>3 DEF IInv, SlotTypes, Tasks
<1>5. Cardinality(inflight') <= Slots
  BY <1>1, <1>3, SlotsTaken, SlotsAssumption DEF SlotsAssumption
<1>6. Cardinality(heavy') <= HeavySlots
  <2>1. heavy \in SUBSET Jobs /\ L \cap Heavy \in SUBSET Jobs /\ HeavySlots \in Nat
    BY <1>3, SlotsAssumption DEF SlotsAssumption
  <2> QED
    BY <2>1, <1>1, <1>3, SlotsTaken
<1>7. inflight' = {j \in Jobs: task'[j] # "none"} /\ heavy' \subseteq inflight'
  BY <1>1, <1>3
<1>8. ASSUME NEW j \in Jobs
      PROVE  OneSlotInv(j)'
  <2>1. task'[j] = IF j \in L THEN "starting" ELSE task[j]
    BY <1>1
  <2>2. OneSlotInv(j) /\ (j \in L => task[j] = "none")
    BY <1>3 DEF IInv
  <2> QED
    BY <2>1, <2>2, <1>1, <1>2 DEF OneSlotInv
<1> QED
  BY <1>4, <1>5, <1>6, <1>7, <1>8 DEF IInv, SlotsMatchTasks

\* An execution goes on within its slots.
LEMMA GoingOnKeeps ==
    ASSUME IInv, NEW j \in Jobs, NEW from, NEW to \in Tasks \ {"none"},
           from # "none", Goes(j, from, to),
           UNCHANGED <<fetched, inflight, heavy>>,
           pipe' \in [Jobs -> {"closed", "open", "written"}],
           \A k \in Jobs \ {j}: pipe'[k] = pipe[k],
           OneSlotInv(j)'
    PROVE  IInv'
<1>1. /\ task[j] = from /\ task' \in [Jobs -> Tasks] /\ task'[j] = to
      /\ \A k \in Jobs \ {j}: task'[k] = task[k]
  BY DEF Goes, IInv, SlotTypes
<1>2. SlotTypes'
  BY <1>1 DEF IInv, SlotTypes
<1>3. SlotsMatchTasks'
  <2>1. {k \in Jobs: task'[k] # "none"} = {k \in Jobs: task[k] # "none"}
    BY <1>1
  <2> QED
    BY <2>1 DEF IInv, SlotsMatchTasks
<1>4. ASSUME NEW k \in Jobs
      PROVE  OneSlotInv(k)'
  <2>1. CASE k = j
    BY <2>1
  <2>2. CASE k # j
    <3>1. OneSlotInv(k) /\ task'[k] = task[k] /\ pipe'[k] = pipe[k] /\ heavy' = heavy
      BY <2>2, <1>1 DEF IInv
    <3> QED
      BY <3>1 DEF OneSlotInv
  <2> QED
    BY <2>1, <2>2
<1> QED
  BY <1>2, <1>3, <1>4 DEF IInv

\* The steps of the child and of its supervision that leave the slots alone.
LEMMA StepsKeep ==
    ASSUME IInv, NEW j \in Jobs,
           \/ Spawn(j) \/ Claim(j) \/ ClaimNothing(j) \/ Parsed(j) \/ Exit(j)
           \/ Observe(j) \/ SpawnFails(j) \/ ChildDies(j)
    PROVE  IInv'
<1>0. OneSlotInv(j) /\ pipe \in [Jobs -> {"closed", "open", "written"}] /\ task \in [Jobs -> Tasks]
  BY DEF IInv, SlotTypes
<1>1. CASE Spawn(j)
  <2>1. Goes(j, "starting", "child") /\ UNCHANGED <<fetched, inflight, heavy>>
    BY <1>1 DEF Spawn, listed, slots
  <2>2. /\ pipe' \in [Jobs -> {"closed", "open", "written"}] /\ pipe'[j] # "written"
        /\ \A k \in Jobs \ {j}: pipe'[k] = pipe[k]
    BY <1>0, <1>1 DEF Spawn
  <2>3. OneSlotInv(j)'
    BY <1>0, <2>1, <2>2 DEF OneSlotInv, Goes
  <2> QED
    BY <2>1, <2>2, <2>3, GoingOnKeeps DEF Tasks
<1>2. CASE Claim(j)
  <2>1. /\ Goes(j, "child", IF j \in Heavy THEN "parsing" ELSE "working")
        /\ UNCHANGED <<fetched, inflight, heavy, pipe>>
    BY <1>2 DEF Claim, listed, slots
  <2>2. OneSlotInv(j)'
    BY <1>0, <2>1 DEF OneSlotInv, Goes
  <2> QED
    BY <1>0, <2>1, <2>2, GoingOnKeeps DEF Tasks
<1>3. CASE ClaimNothing(j)
  <2>1. Goes(j, "child", "exited") /\ UNCHANGED <<fetched, inflight, heavy, pipe>>
    BY <1>3 DEF ClaimNothing, listed, slots
  <2>2. OneSlotInv(j)'
    BY <1>0, <2>1 DEF OneSlotInv, Goes
  <2> QED
    BY <1>0, <2>1, <2>2, GoingOnKeeps DEF Tasks
<1>4. CASE Parsed(j)
  <2>1. /\ Goes(j, "parsing", "working") /\ UNCHANGED <<fetched, inflight, heavy>>
        /\ pipe' \in {pipe, [pipe EXCEPT ![j] = "written"]}
    BY <1>4 DEF Parsed, listed, slots
  <2>2. /\ pipe' \in [Jobs -> {"closed", "open", "written"}]
        /\ \A k \in Jobs \ {j}: pipe'[k] = pipe[k]
    BY <1>0, <2>1
  <2>3. OneSlotInv(j)'
    BY <1>0, <2>1 DEF OneSlotInv, Goes
  <2> QED
    BY <2>1, <2>2, <2>3, GoingOnKeeps DEF Tasks
<1>5. CASE Exit(j)
  <2>1. PICK from \in {"parsing", "working"}: Goes(j, from, "exited")
    BY <1>5 DEF Exit
  <2>2. UNCHANGED <<fetched, inflight, heavy, pipe>>
    BY <1>5 DEF Exit, listed, slots
  <2>3. OneSlotInv(j)'
    BY <1>0, <2>1, <2>2 DEF OneSlotInv, Goes
  <2> QED
    BY <1>0, <2>1, <2>2, <2>3, GoingOnKeeps DEF Tasks
<1>6. CASE Observe(j)
  <2>1. /\ Goes(j, "died", "failed") /\ UNCHANGED <<fetched, inflight, heavy>>
        /\ pipe' = [pipe EXCEPT ![j] = "closed"]
    BY <1>6 DEF Observe, listed, slots
  <2>2. /\ pipe' \in [Jobs -> {"closed", "open", "written"}] /\ pipe'[j] # "written"
        /\ \A k \in Jobs \ {j}: pipe'[k] = pipe[k]
    BY <1>0, <2>1
  <2>3. OneSlotInv(j)'
    BY <1>0, <2>1, <2>2 DEF OneSlotInv, Goes
  <2> QED
    BY <2>1, <2>2, <2>3, GoingOnKeeps DEF Tasks
<1>7. CASE SpawnFails(j)
  <2>1. Goes(j, "starting", "failed") /\ UNCHANGED <<fetched, inflight, heavy, pipe>>
    BY <1>7 DEF SpawnFails, listed, slots
  <2>2. OneSlotInv(j)'
    BY <1>0, <2>1 DEF OneSlotInv, Goes
  <2> QED
    BY <1>0, <2>1, <2>2, GoingOnKeeps DEF Tasks
<1>8. CASE ChildDies(j)
  <2>1. PICK from \in {"child", "parsing", "working"}: Goes(j, from, "died")
    BY <1>8 DEF ChildDies
  <2>2. UNCHANGED <<fetched, inflight, heavy, pipe>>
    BY <1>8 DEF ChildDies, listed, slots
  <2>3. OneSlotInv(j)'
    BY <1>0, <2>1, <2>2 DEF OneSlotInv, Goes
  <2> QED
    BY <1>0, <2>1, <2>2, <2>3, GoingOnKeeps DEF Tasks
<1> QED
  BY <1>1, <1>2, <1>3, <1>4, <1>5, <1>6, <1>7, <1>8

\* The pipe gives the heavy slot back when the job no longer parses.
LEMMA ReleaseKeeps ==
    ASSUME IInv, NEW j \in Jobs, Release(j)
    PROVE  IInv'
<1>1. /\ pipe[j] = "written" /\ pipe' = [pipe EXCEPT ![j] = "closed"]
      /\ heavy' = heavy \ {j} /\ UNCHANGED <<fetched, inflight, task>>
  BY DEF Release, listed
<1>2. SlotTypes' /\ SlotsMatchTasks'
  BY <1>1 DEF IInv, SlotTypes, SlotsMatchTasks
<1>3. Cardinality(heavy') <= HeavySlots
  BY <1>1, SlotSetsFinite, FS_Subset, FS_CardinalityType, SlotsAssumption
     DEF IInv, SlotsAssumption
<1>4. ASSUME NEW k \in Jobs
      PROVE  OneSlotInv(k)'
  <2>1. OneSlotInv(k) /\ OneSlotInv(j)
    BY DEF IInv
  <2>2. pipe'[k] = IF k = j THEN "closed" ELSE pipe[k]
    BY <1>1 DEF IInv, SlotTypes
  <2> QED
    BY <1>1, <2>1, <2>2 DEF OneSlotInv
<1> QED
  BY <1>2, <1>3, <1>4 DEF IInv

\* A task that ends gives back exactly its own slots.
LEMMA EndKeeps ==
    ASSUME IInv, NEW j \in Jobs, NEW from, TaskEnds(j, from), fetched' = fetched,
           pipe' \in [Jobs -> {"closed", "open", "written"}], pipe'[j] # "written",
           \A k \in Jobs \ {j}: pipe'[k] = pipe[k]
    PROVE  IInv'
<1>1. /\ task' = [task EXCEPT ![j] = "none"]
      /\ inflight' = inflight \ {j} /\ heavy' = heavy \ {j}
  BY DEF TaskEnds, Goes
<1>2. /\ task' \in [Jobs -> Tasks]
      /\ \A k \in Jobs: task'[k] = IF k = j THEN "none" ELSE task[k]
  BY <1>1 DEF IInv, SlotTypes, Tasks
<1>3. SlotTypes'
  BY <1>1, <1>2 DEF IInv, SlotTypes
<1>4. Cardinality(inflight') <= Slots /\ Cardinality(heavy') <= HeavySlots
  <2>1. /\ Cardinality(inflight') \in Nat /\ Cardinality(inflight') <= Cardinality(inflight)
        /\ Cardinality(heavy') \in Nat /\ Cardinality(heavy') <= Cardinality(heavy)
    BY <1>1, SlotSetsFinite, FS_Subset, FS_CardinalityType
  <2> QED
    BY <2>1, SlotSetsFinite, SlotsAssumption DEF IInv, SlotsMatchTasks, SlotsAssumption
<1>5. SlotsMatchTasks'
  BY <1>1, <1>2, <1>4 DEF IInv, SlotsMatchTasks
<1>6. ASSUME NEW k \in Jobs
      PROVE  OneSlotInv(k)'
  <2>1. OneSlotInv(k)
    BY DEF IInv
  <2> QED
    BY <1>1, <1>2, <2>1 DEF OneSlotInv
<1> QED
  BY <1>3, <1>4, <1>5, <1>6 DEF IInv

LEMMA EndingsKeep ==
    ASSUME IInv, NEW j \in Jobs, Succeed(j) \/ Record(j) \/ RecordFails(j)
    PROVE  IInv'
<1>0. OneSlotInv(j) /\ pipe \in [Jobs -> {"closed", "open", "written"}]
  BY DEF IInv, SlotTypes
<1>1. CASE Succeed(j)
  <2>1. TaskEnds(j, "exited") /\ pipe' = [pipe EXCEPT ![j] = "closed"] /\ fetched' = fetched
    BY <1>1 DEF Succeed, listed
  <2> QED
    BY <1>0, <2>1, EndKeeps
<1>2. CASE Record(j) \/ RecordFails(j)
  <2>1. TaskEnds(j, "failed") /\ pipe' = pipe /\ fetched' = fetched
    BY <1>2 DEF Record, RecordFails, listed
  <2>2. pipe[j] # "written"
    BY <1>0, <2>1 DEF OneSlotInv, TaskEnds, Goes
  <2> QED
    BY <1>0, <2>1, <2>2, EndKeeps
<1> QED
  BY <1>1, <1>2

\* Time and the steps of others do not touch the slots.
LEMMA OthersKeep ==
    ASSUME IInv, Tick \/ (\E j \in Jobs: Taken(j) \/ Given(j)) \/ UNCHANGED vars
    PROVE  IInv'
<1>1. UNCHANGED <<fetched, inflight, heavy, task, pipe>>
  BY DEF Tick, Taken, Given, vars, listed, slots
<1> QED
  BY <1>1 DEF IInv, SlotTypes, SlotsMatchTasks, OneSlotInv

\* The invariant is inductive.
LEMMA NextIInv == IInv /\ [Next]_vars => IInv'
<1> SUFFICES ASSUME IInv, [Next]_vars
             PROVE  IInv'
  OBVIOUS
<1>1. CASE Fetch \/ Launch
  BY <1>1, FetchKeeps, LaunchKeeps
<1>2. CASE Tick \/ UNCHANGED vars
  BY <1>2, OthersKeep
<1>3. ASSUME NEW j \in Jobs, Child(j)
      PROVE  IInv'
  BY <1>3, StepsKeep DEF Child
<1>4. ASSUME NEW j \in Jobs, Supervise(j)
      PROVE  IInv'
  BY <1>4, StepsKeep, ReleaseKeeps, EndingsKeep DEF Supervise
<1>5. ASSUME NEW j \in Jobs, Fault(j)
      PROVE  IInv'
  BY <1>5, StepsKeep, EndingsKeep, OthersKeep DEF Fault
<1> QED
  BY <1>1, <1>2, <1>3, <1>4, <1>5 DEF Next, Work, Dispatch

-------------------------------------------------------------------------------

\* Every slot belongs to an execution and every execution has its slot, however
\* starts fail, children die and pipes are late.  (_run_job, finally)
THEOREM SlotsDoMatch == Spec => []SlotsMatchTasks
<1>1. IInv => SlotsMatchTasks
  BY DEF IInv
<1> QED
  BY InitIInv, NextIInv, <1>1, PTL DEF Spec

\* No more children parse at once than there are heavy slots, although these
\* are given back early.  (_release_heavy_slot)
THEOREM ParsingIsBounded == Spec => []ParsingBounded
<1>1. IInv => ParsingBounded
  <2> SUFFICES ASSUME IInv
               PROVE  ParsingBounded
    OBVIOUS
  <2> DEFINE P == {j \in Jobs: task[j] = "parsing"}
  <2>1. P \subseteq heavy
    BY DEF IInv, OneSlotInv
  <2>2. Cardinality(P) \in Nat /\ Cardinality(P) <= Cardinality(heavy)
    BY <2>1, SlotSetsFinite, FS_Subset, FS_CardinalityType
  <2> QED
    BY <2>2, SlotSetsFinite, SlotsAssumption DEF IInv, ParsingBounded, SlotsAssumption
<1> QED
  BY InitIInv, NextIInv, <1>1, PTL DEF Spec

-------------------------------------------------------------------------------
(* Types: the rows, the delays and the streak *)

\* A power of two is the number of subsets of 1..n.
LEMMA PowerOfTwo ==
    ASSUME NEW n \in Nat
    PROVE  2 ^ n \in Nat
<1>1. IsFiniteSet(1..n) /\ Cardinality(1..n) = IF 1 > n THEN 0 ELSE n - 1 + 1
  BY FS_Interval
<1>2. Cardinality(1..n) = n
  BY <1>1
<1>3. IsFiniteSet(SUBSET (1..n)) /\ Cardinality(SUBSET (1..n)) = 2 ^ n
  BY <1>1, <1>2, FS_SUBSET
<1> QED
  BY <1>3, FS_CardinalityType

\* No delay is longer than Cap, whatever the attempt.
LEMMA BackoffBounded ==
    ASSUME NEW n \in Nat
    PROVE  Backoff(n) \in 0..Cap
<1>1. 2 ^ n \in Nat /\ Cap \in Nat
  BY PowerOfTwo, SlotsAssumption DEF SlotsAssumption
<1> QED
  BY <1>1 DEF Backoff

\* The types of the rows and of the delays; those of the slots are in SlotTypes.
RowTypes ==
    /\ row \in [Jobs -> {"QUEUED", "RUNNING", "ELSEWHERE", "CLOSED"}]
    /\ attempts \in [Jobs -> Nat]
    /\ leased \in [Jobs -> BOOLEAN]

DelayTypes ==
    /\ expected \in [Jobs -> Nat]
    /\ cool \in [Jobs -> 0..Cap]
    /\ pause \in 0..Cap
    /\ streak \in 0..StreakBound

LEMMA DelayKeepsTypes ==
    ASSUME DelayTypes, NEW j \in Jobs, Delay(j), expected' = expected
    PROVE  DelayTypes'
<1>1. StreakBound \in Nat /\ MaxAttempts \in Nat
  BY SlotsAssumption DEF SlotsAssumption
<1>2. streak' \in 0..StreakBound
  BY <1>1 DEF DelayTypes, Delay
<1>3. cool' \in [Jobs -> 0..Cap]
  <2>1. Backoff(expected[j]) \in 0..Cap
    BY BackoffBounded DEF DelayTypes
  <2> QED
    BY <2>1 DEF DelayTypes, Delay
<1>4. pause' \in 0..Cap
  <2>1. CASE streak' >= MaxAttempts
    <3>1. \A n \in 0..StreakBound: n >= MaxAttempts => n - MaxAttempts \in Nat
      BY <1>1
    <3>2. streak' - MaxAttempts \in Nat
      BY <3>1, <2>1, <1>2
    <3>3. Backoff(streak' - MaxAttempts) \in 0..Cap
      BY <3>2, BackoffBounded
    <3> QED
      BY <3>3, <2>1 DEF Delay
  <2>2. CASE ~(streak' >= MaxAttempts)
    BY <2>2 DEF Delay, DelayTypes
  <2> QED
    BY <2>1, <2>2
<1> QED
  BY <1>2, <1>3, <1>4 DEF DelayTypes

\* What the steps of a job do to its row.
LEMMA StepsKeepRows ==
    ASSUME RowTypes, [Next]_vars
    PROVE  RowTypes'
<1> USE DEF rows
<1>1. ASSUME NEW j \in Jobs, Claim(j) \/ Taken(j)
      PROVE  RowTypes'
  <2>1. /\ attempts' = [attempts EXCEPT ![j] = @ + 1]
        /\ leased' = [leased EXCEPT ![j] = TRUE]
    BY <1>1 DEF Claim, Taken
  <2>2. PICK status \in {"RUNNING", "ELSEWHERE"}: row' = [row EXCEPT ![j] = status]
    BY <1>1 DEF Claim, Taken
  <2> QED
    BY <2>1, <2>2 DEF RowTypes
<1>2. ASSUME NEW j \in Jobs, Exit(j) \/ Given(j)
      PROVE  RowTypes'
  BY <1>2 DEF Exit, Given, BackTo, RowTypes
<1>3. ASSUME NEW j \in Jobs, Record(j)
      PROVE  RowTypes'
  <2>1. leased' = leased
    BY <1>3 DEF Record
  <2>2. \/ UNCHANGED <<row, attempts>>
        \/ row' = [row EXCEPT ![j] = "CLOSED"] /\ attempts' = attempts
        \/ /\ attempts' = [attempts EXCEPT ![j] = @ + 1]
           /\ row' = [row EXCEPT ![j] = IF attempts'[j] < MaxAttempts
                                        THEN "QUEUED" ELSE "CLOSED"]
    BY <1>3 DEF Record
  <2> QED
    BY <2>1, <2>2 DEF RowTypes
<1>4. UNCHANGED rows => RowTypes'
  BY DEF RowTypes
<1>5. ASSUME NEW j \in Jobs,
             \/ Spawn(j) \/ ClaimNothing(j) \/ Parsed(j) \/ Supervise(j)
             \/ SpawnFails(j) \/ ChildDies(j) \/ RecordFails(j)
      PROVE  UNCHANGED rows \/ Record(j)
  BY <1>5 DEF Spawn, ClaimNothing, Parsed, Supervise, Release, Succeed, Observe,
     SpawnFails, ChildDies, RecordFails
<1>6. Fetch \/ Launch \/ Tick \/ UNCHANGED vars => UNCHANGED rows
  BY DEF Fetch, Launch, Tick, vars
<1> QED
  BY <1>1, <1>2, <1>3, <1>4, <1>5, <1>6 DEF Next, Work, Dispatch, Child, Fault

\* The list only remembers counts that rows have had.
LEMMA StepsKeepDelays ==
    ASSUME RowTypes, DelayTypes, [Next]_vars
    PROVE  DelayTypes'
<1> USE DEF listed, delays
<1>1. CASE Fetch
  BY <1>1 DEF Fetch, RowTypes, DelayTypes
<1>2. CASE Tick
  <2>1. Cap \in Nat
    BY SlotsAssumption DEF SlotsAssumption
  <2>2. \A n \in 0..Cap: Less(n) \in 0..Cap
    BY <2>1 DEF Less
  <2>3. UNCHANGED <<expected, streak>>
    BY <1>2 DEF Tick
  <2> QED
    BY <1>2, <2>2, <2>3 DEF Tick, DelayTypes
<1>3. ASSUME NEW j \in Jobs, Succeed(j)
      PROVE  DelayTypes'
  <2>1. /\ cool' = [cool EXCEPT ![j] = 0] /\ pause' = 0 /\ streak' = 0
        /\ expected' = expected
    BY <1>3 DEF Succeed
  <2>2. 0 \in 0..Cap /\ 0 \in 0..StreakBound
    BY SlotsAssumption DEF SlotsAssumption
  <2> QED
    BY <2>1, <2>2 DEF DelayTypes
<1>4. ASSUME NEW j \in Jobs, Record(j) \/ RecordFails(j)
      PROVE  DelayTypes'
  <2>1. expected' = expected /\ (Delay(j) \/ UNCHANGED delays)
    BY <1>4 DEF Record, RecordFails
  <2>2. UNCHANGED delays /\ expected' = expected => DelayTypes'
    BY DEF DelayTypes
  <2> QED
    BY <2>1, <2>2, DelayKeepsTypes
<1>5. UNCHANGED <<expected, delays>> => DelayTypes'
  BY DEF DelayTypes
<1>6. ASSUME NEW j \in Jobs,
             \/ Child(j) \/ Release(j) \/ Observe(j)
             \/ SpawnFails(j) \/ ChildDies(j) \/ Taken(j) \/ Given(j)
      PROVE  UNCHANGED <<expected, delays>>
  BY <1>6 DEF Child, Spawn, Claim, ClaimNothing, Parsed, Exit, Release, Observe,
     SpawnFails, ChildDies, Taken, Given
<1>7. Launch \/ UNCHANGED vars => UNCHANGED <<expected, delays>>
  BY DEF Launch, vars
<1> QED
  BY <1>1, <1>2, <1>3, <1>4, <1>5, <1>6, <1>7 DEF Next, Work, Dispatch, Supervise, Fault

\* Every variable keeps its type; no delay or pause is ever longer than Cap,
\* however many starts fail in a row.  (_delay_startup_failure)
THEOREM TypesAreKept == Spec => []TypeOK
<1>1. Init => RowTypes /\ DelayTypes
  BY SlotsAssumption DEF SlotsAssumption, Init, RowTypes, DelayTypes
<1>2. RowTypes /\ DelayTypes /\ [Next]_vars => (RowTypes /\ DelayTypes)'
  BY StepsKeepRows, StepsKeepDelays
<1>3. IInv /\ RowTypes /\ DelayTypes => TypeOK
  BY DEF IInv, SlotTypes, SlotsMatchTasks, RowTypes, DelayTypes, TypeOK
<1> QED
  BY InitIInv, NextIInv, <1>1, <1>2, <1>3, PTL DEF Spec
===============================================================================
