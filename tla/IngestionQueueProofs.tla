------------------------- MODULE IngestionQueueProofs -------------------------
(* Proofs about the ingestion queue, for any workers, jobs, recipes and       *)
(* documents.  First the types, table by table; then the lease invariant; then *)
(* that every step of the queue is a step of the life cycle, which gives the  *)
(* properties of the job table; last the version log.                         *)
EXTENDS IngestionRefinement, TLAPS

-------------------------------------------------------------------------------
(* Types *)

\* The empty tables of a new queue have their types.
LEMMA InitTypeOK == Init => TypeOK
  BY QueueAssumption DEF QueueAssumption, Init, TypeOK, JobRow, NewJob, JobStatuses, RecipeRow,
     RecipeStatuses, ActiveStatuses, Run, IdleRun, Points, TryPoints, RequeuePoints,
     CleanupPoints, ParentPoints

\* What a step may be, by its parameters.
LEMMA ActionCases ==
    ASSUME Next
    PROVE  \/ \E j \in Jobs: Create(j) \/ Cancel(j) \/ LeaseRunsOut(j) \/ HeartbeatLate(j)
           \/ \E w \in Workers: \/ Heartbeat(w) \/ Recover(w) \/ Crash(w) \/ Stop(w)
                               \/ Shutdown(w) \/ ShutdownWithoutRequeue(w)
           \/ \E w \in Workers, j \in Jobs:
                Dispatch(w, j) \/ Execute(w, j) \/ Disturb(w, j)
  BY DEF Next, Work, Fault, WorkerEnds

\* The execution steps that write the job table, and those that do not.
JobWrite(w, j) ==
    \/ Claim(w, j) \/ Succeed(w, j) \/ Fail(w, j) \/ Skip(w, j) \/ RequeueJob(w, j)
    \/ RequeueAnswerLost(w, j)
    \/ Advance(w, j) \/ RecordStartupFailure(w, j)

\* No other step of an execution writes the job table.
LEMMA OthersKeepJobs ==
    ASSUME NEW w \in Workers, NEW j \in Jobs,
           Dispatch(w, j) \/ Execute(w, j) \/ Disturb(w, j), ~JobWrite(w, j)
    PROVE  jobs' = jobs
  BY DEF JobWrite, Dispatch, Disturb, Raise, RaiseTransient, RequeueFails, ChildDies,
     ParentGivesUp, Execute, ClaimNothing, Check, Mark, ReadBase, BuildToGate, BuildIndex,
     ReadGate, Fence, Switch, Supersede, MarkFailed, RequeueCheck, ReadActive, RequeueWrite,
     Restore, RestoreWrite, ParentReads, IgnoreStartupFailure

\* transition_ingestion_job keeps the type of the job table.
LEMMA TransitionType ==
    ASSUME TypeOK, NEW j \in Jobs, NEW s \in JobStatuses, Transition(j, s)
    PROVE  jobs' \in [Jobs -> JobRow]
  BY DEF TypeOK, Transition, JobRow

\* Creating a row keeps the type of the job table.
LEMMA QueueType ==
    ASSUME TypeOK, NEW j \in Jobs, Queue(j)
    PROVE  jobs' \in [Jobs -> JobRow]
  BY DEF TypeOK, Queue, JobRow, JobStatuses

\* Every step keeps the type of the job table.
LEMMA JobsType ==
    ASSUME TypeOK, Next
    PROVE  jobs' \in [Jobs -> JobRow]
<1>0. /\ \A j \in Jobs: jobs[j] \in JobRow
      /\ {"QUEUED", "SUCCEEDED", "FAILED", "SKIPPED", "CANCELLED"} \subseteq JobStatuses
  BY DEF TypeOK, JobStatuses
<1>1. ASSUME NEW j \in Jobs, Create(j) PROVE jobs' \in [Jobs -> JobRow]
  BY <1>1, QueueType DEF Create
<1>2. ASSUME NEW j \in Jobs, Cancel(j) PROVE jobs' \in [Jobs -> JobRow]
  BY <1>0, <1>2, TransitionType DEF Cancel
<1>3. ASSUME NEW j \in Jobs, LeaseRunsOut(j) \/ HeartbeatLate(j)
      PROVE  jobs' \in [Jobs -> JobRow]
  BY <1>3 DEF TypeOK, LeaseRunsOut, HeartbeatLate, Expire, JobRow, JobStatuses
<1>4. ASSUME NEW w \in Workers, Heartbeat(w) PROVE jobs' \in [Jobs -> JobRow]
  <2> DEFINE row(j) == IF OwnsRunning(w, j) THEN [jobs[j] EXCEPT !.expired = FALSE] ELSE jobs[j]
  <2>1. jobs' = [j \in Jobs |-> row(j)]
    BY <1>4 DEF Heartbeat
  <2>2. \A j \in Jobs: row(j) \in JobRow
    BY <1>0 DEF JobRow
  <2> HIDE DEF row
  <2> QED BY <2>1, <2>2
<1>5. ASSUME NEW w \in Workers, Recover(w) PROVE jobs' \in [Jobs -> JobRow]
  BY <1>5 DEF TypeOK, Recover, Requeued, JobRow, JobStatuses
<1>6. ASSUME NEW w \in Workers, Shutdown(w) PROVE jobs' \in [Jobs -> JobRow]
  BY <1>6 DEF TypeOK, Shutdown, Requeued, JobRow, JobStatuses
<1>7. ASSUME NEW w \in Workers, Crash(w) \/ Stop(w) \/ ShutdownWithoutRequeue(w)
      PROVE  jobs' \in [Jobs -> JobRow]
  BY <1>7 DEF TypeOK, Crash, Stop, ShutdownWithoutRequeue
<1>8. ASSUME NEW w \in Workers, NEW j \in Jobs,
             Dispatch(w, j) \/ Execute(w, j) \/ Disturb(w, j)
      PROVE  jobs' \in [Jobs -> JobRow]
  <2>1. CASE Claim(w, j)
    BY <2>1 DEF TypeOK, Claim, JobRow, JobStatuses
  <2>2. CASE Succeed(w, j) \/ Fail(w, j) \/ Skip(w, j) \/ RequeueJob(w, j)
                           \/ RequeueAnswerLost(w, j)
    <3>1. jobs' = jobs \/ \E s \in JobStatuses: Transition(j, s)
      BY <1>0, <2>2 DEF Succeed, Fail, Skip, RequeueJob, RequeueAnswerLost, FinishAs
    <3> QED BY <3>1, TransitionType DEF TypeOK
  <2>3. CASE Advance(w, j)
    <3>1. jobs' = jobs \/ \E k \in Jobs: Queue(k)
      BY <2>3 DEF Advance
    <3> QED BY <3>1, QueueType DEF TypeOK
  <2>4. CASE RecordStartupFailure(w, j)
    <3> DEFINE n == runs[w][j].expected + 1
               s == IF LastStart(w, j) THEN "FAILED" ELSE "QUEUED"
               row == [jobs[j] EXCEPT !.attempt = n, !.status = s]
    <3>1. n \in Nat /\ s \in JobStatuses
      BY <1>0 DEF TypeOK, Run
    <3>2. jobs' = [jobs EXCEPT ![j] = row]
      BY <2>4 DEF RecordStartupFailure
    <3> HIDE DEF n, s
    <3>3. row \in JobRow
      BY <1>0, <3>1 DEF JobRow
    <3> HIDE DEF row
    <3> QED BY <3>2, <3>3 DEF TypeOK
  <2>5. CASE ~JobWrite(w, j)
    BY <1>8, <2>5, OthersKeepJobs DEF TypeOK
  <2> QED BY <2>1, <2>2, <2>3, <2>4, <2>5 DEF JobWrite
<1> QED BY <1>1, <1>2, <1>3, <1>4, <1>5, <1>6, <1>7, <1>8, ActionCases

\* The job's recipe, and the statuses a job writes to it.
LEMMA JobFacts ==
    ASSUME NEW j \in Jobs
    PROVE  /\ RecipeOf[j] \in Recipes
           /\ RunningStatus[PhaseOf[j]] \in RecipeStatuses
           /\ StatusBefore[PhaseOf[j]] \in RecipeStatuses
           /\ LateStatus[PhaseOf[j]] \in RecipeStatuses
           /\ GateStatuses[PhaseOf[j]] \subseteq RecipeStatuses
  BY QueueAssumption DEF QueueAssumption, Phases, RunningStatus, StatusBefore, LateStatus,
     GateStatuses, RecipeStatuses, ActiveStatuses

\* A status write keeps the type and what is served.
LEMMA WriteRecipeType ==
    ASSUME TypeOK, NEW j \in Jobs, NEW s \in RecipeStatuses, WriteRecipe(j, s)
    PROVE  /\ recipes' \in [Recipes -> RecipeRow]
           /\ \A r \in Recipes: recipes'[r].active = recipes[r].active
  BY JobFacts DEF TypeOK, WriteRecipe, RecipeRow

\* Returning the recipes of requeued jobs to the status before their phase
\* keeps their type and what they serve.
LEMMA RestoredRecipesType ==
    ASSUME TypeOK, NEW back \in SUBSET Jobs
    PROVE  /\ RestoredRecipes(back) \in [Recipes -> RecipeRow]
           /\ \A r \in Recipes: RestoredRecipes(back)[r].active = recipes[r].active
<1> DEFINE row(r) ==
      IF recipes[r].status \in ActiveStatuses /\ \E j \in back: RecipeOf[j] = r
      THEN [recipes[r] EXCEPT !.status = RequeuedStatus(CHOOSE j \in back: RecipeOf[j] = r)]
      ELSE recipes[r]
<1>1. ASSUME NEW r \in Recipes PROVE row(r) \in RecipeRow /\ row(r).active = recipes[r].active
  <2>1. recipes[r] \in RecipeRow
    BY DEF TypeOK
  <2>2. CASE \E j \in back: RecipeOf[j] = r
    <3> DEFINE j == CHOOSE j \in back: RecipeOf[j] = r
    <3>1. j \in Jobs
      BY <2>2
    <3> HIDE DEF j
    <3>2. RequeuedStatus(j) \in RecipeStatuses
      BY <3>1, JobFacts DEF RequeuedStatus, RecipeStatuses
    <3>3. [recipes[r] EXCEPT !.status = RequeuedStatus(j)] \in RecipeRow
      BY <2>1, <3>2 DEF RecipeRow
    <3>4. [recipes[r] EXCEPT !.status = RequeuedStatus(j)].active = recipes[r].active
      BY <2>1 DEF RecipeRow
    <3> QED BY <2>1, <3>3, <3>4 DEF j
  <2>3. CASE ~\E j \in back: RecipeOf[j] = r
    BY <2>1, <2>3
  <2> QED BY <2>2, <2>3
<1>2. RestoredRecipes(back) = [r \in Recipes |-> row(r)]
  BY DEF RestoredRecipes
<1> HIDE DEF row
<1> QED BY <1>1, <1>2

\* The execution steps that write a recipe status.
StatusWrite(w, j) ==
    \/ Mark(w, j) \/ BuildToGate(w, j) \/ BuildIndex(w, j) \/ MarkFailed(w, j)
    \/ RequeueWrite(w, j) \/ RestoreWrite(w, j) \/ RecordStartupFailure(w, j)

\* Every step keeps the type of the recipe table, and no step but the switch
\* changes what a recipe serves or the version log.
LEMMA RecipesType ==
    ASSUME TypeOK, Next
    PROVE  \/ /\ recipes' \in [Recipes -> RecipeRow]
              /\ \A r \in Recipes: recipes'[r].active = recipes[r].active
              /\ versions' = versions
           \/ \E w \in Workers, j \in Jobs: Switch(w, j)
<1> DEFINE Kept == /\ recipes' \in [Recipes -> RecipeRow]
                   /\ \A r \in Recipes: recipes'[r].active = recipes[r].active
<1>0. recipes' = recipes => Kept
  BY DEF TypeOK
<1>1. ASSUME NEW j \in Jobs, Create(j) \/ Cancel(j) \/ LeaseRunsOut(j) \/ HeartbeatLate(j)
      PROVE  Kept /\ versions' = versions
  BY <1>0, <1>1 DEF Create, Cancel, LeaseRunsOut, HeartbeatLate, Expire
<1>2. ASSUME NEW w \in Workers,
             Heartbeat(w) \/ Crash(w) \/ Stop(w) \/ ShutdownWithoutRequeue(w)
      PROVE  Kept /\ versions' = versions
  BY <1>0, <1>2 DEF Heartbeat, Crash, Stop, ShutdownWithoutRequeue
<1>3. ASSUME NEW w \in Workers, Recover(w) PROVE Kept /\ versions' = versions
  <2> DEFINE lost == {j \in Stale(w): jobs[j].attempt >= MaxAttempts}
             back == Stale(w) \ lost
             restored == RestoredRecipes(back)
             row(r) == IF Orphaned(r, restored[r].status, lost)
                       THEN [restored[r] EXCEPT !.status = "ERROR"] ELSE restored[r]
  <2>1. recipes' = [r \in Recipes |-> row(r)] /\ versions' = versions
    BY <1>3 DEF Recover
  <2>2. back \in SUBSET Jobs
    BY DEF Stale
  <2>3. \A r \in Recipes: restored[r] \in RecipeRow /\ restored[r].active = recipes[r].active
    BY <2>2, RestoredRecipesType
  <2> HIDE DEF lost, restored
  <2>4. "ERROR" \in RecipeStatuses
    BY DEF RecipeStatuses
  <2>5. \A r \in Recipes: row(r) \in RecipeRow /\ row(r).active = recipes[r].active
    BY <2>3, <2>4 DEF RecipeRow
  <2> HIDE DEF row
  <2> QED BY <2>1, <2>5
<1>4. ASSUME NEW w \in Workers, Shutdown(w) PROVE Kept /\ versions' = versions
  <2>1. {j \in Jobs: OwnsRunning(w, j)} \in SUBSET Jobs
    OBVIOUS
  <2> QED BY <1>4, <2>1, RestoredRecipesType DEF Shutdown
<1>5. ASSUME NEW w \in Workers, NEW j \in Jobs,
             Dispatch(w, j) \/ Execute(w, j) \/ Disturb(w, j), ~Switch(w, j)
      PROVE  Kept /\ versions' = versions
  <2>1. versions' = versions
    BY <1>5 DEF Dispatch, Disturb, Raise, RaiseTransient, RequeueFails, ChildDies,
       ParentGivesUp, Execute, Claim, ClaimNothing, Check, Mark, ReadBase, BuildToGate,
       BuildIndex, ReadGate, Fence, Supersede, Succeed, Fail, Skip, RequeueJob,
       RequeueAnswerLost, FinishAs, MarkFailed, Advance, RequeueCheck, ReadActive, RequeueWrite, Restore, RestoreWrite,
       ParentReads, RecordStartupFailure, IgnoreStartupFailure
  <2>2. \/ recipes' = recipes
        \/ \E s \in RecipeStatuses: WriteRecipe(j, s)
    <3>1. CASE Mark(w, j) \/ BuildToGate(w, j) \/ BuildIndex(w, j)
      BY <3>1, JobFacts DEF Mark, BuildToGate, BuildIndex
    <3>2. CASE MarkFailed(w, j) \/ RecordStartupFailure(w, j)
      BY <3>2 DEF MarkFailed, RecordStartupFailure, RecipeStatuses
    <3>3. CASE RequeueWrite(w, j) \/ RestoreWrite(w, j)
      BY <3>3, JobFacts DEF RequeueWrite, RestoreWrite, RestoredStatus, RecipeStatuses
    <3>4. CASE ~StatusWrite(w, j)
      BY <1>5, <3>4 DEF StatusWrite, Dispatch, Disturb, Raise, RaiseTransient, RequeueFails,
         ChildDies, ParentGivesUp, Execute, Claim, ClaimNothing, Check, ReadBase, ReadGate,
         Fence, Supersede, Succeed, Fail, Skip, RequeueJob,
         RequeueAnswerLost, FinishAs, Advance, RequeueCheck, ReadActive,
         Restore, ParentReads, IgnoreStartupFailure
    <3> QED BY <3>1, <3>2, <3>3, <3>4 DEF StatusWrite
  <2> QED BY <1>0, <2>1, <2>2, WriteRecipeType
<1> QED BY <1>1, <1>2, <1>3, <1>4, <1>5, ActionCases

\* The groups of program points, apart from each other where proofs need it.
LEMMA PointTypes ==
    /\ {"idle", "claim", "check", "base", "mark", "checkBuild", "build", "gate",
        "checkSwitch", "fence", "switch", "finish", "advance", "failCas", "failMark",
        "skipCas", "restore", "restoreRead", "restoreWrite", "parent", "startup"}
         \subseteq Points \ RequeuePoints
    /\ {"requeueLease", "requeueRead", "requeueWrite", "requeueCas"} \subseteq RequeuePoints
    /\ RequeuePoints \subseteq Points
  BY DEF Points, TryPoints, RequeuePoints, CleanupPoints, ParentPoints

\* An execution's record after a step of its own: it ended, began, claimed its
\* job, or moved on with the attempt it has, to the requeue only with one left.
Moved(w, j, x) ==
    /\ x \in Run
    /\ runs' = [runs EXCEPT ![w][j] = x]
    /\ \/ x = IdleRun
       \/ Dispatch(w, j) /\ x.attempt = 0 /\ x.pc = "claim"
       \/ Claim(w, j) /\ x.attempt = jobs[j].attempt + 1 /\ x.pc = "check"
       \/ /\ pc(w, j) # "idle"
          /\ x.attempt = runs[w][j].attempt
          /\ \/ x.pc \notin RequeuePoints
             \/ pc(w, j) \in RequeuePoints
             \/ x.attempt < MaxAttempts

\* Going to another program point is a move of the execution's record.
LEMMA GoToMoves ==
    ASSUME TypeOK, NEW w \in Workers, NEW j \in Jobs, NEW p \in Points, GoTo(w, j, p),
           pc(w, j) # "idle",
           \/ p \notin RequeuePoints
           \/ pc(w, j) \in RequeuePoints
           \/ runs[w][j].attempt < MaxAttempts
    PROVE  \E x \in Run: Moved(w, j, x)
<1>1. runs[w][j] \in Run
  BY DEF TypeOK
<1>2. CASE p \in TryPoints \cup {"requeueWrite", "restoreWrite"}
  <2> DEFINE x == [runs[w][j] EXCEPT !.pc = p]
  <2>1. x \in Run /\ x.attempt = runs[w][j].attempt /\ x.pc = p
    BY <1>1 DEF Run
  <2>2. runs' = [runs EXCEPT ![w][j] = x]
    BY <1>2 DEF GoTo
  <2> HIDE DEF x
  <2> QED BY <2>1, <2>2 DEF Moved
<1>3. CASE p \notin TryPoints \cup {"requeueWrite", "restoreWrite"}
  <2> DEFINE x == [runs[w][j] EXCEPT !.pc = p, !.base = None, !.built = FALSE]
  <2>1. x \in Run /\ x.attempt = runs[w][j].attempt /\ x.pc = p
    BY <1>1 DEF Run
  <2>2. runs' = [runs EXCEPT ![w][j] = x]
    BY <1>3 DEF GoTo
  <2> HIDE DEF x
  <2> QED BY <2>1, <2>2 DEF Moved
<1> QED BY <1>2, <1>3

\* So is ending.
LEMMA EndMoves ==
    ASSUME NEW w \in Workers, NEW j \in Jobs, End(w, j)
    PROVE  \E x \in Run: Moved(w, j, x)
<1>1. IdleRun \in Run
  BY PointTypes DEF IdleRun, Run
<1> QED BY <1>1 DEF End, Moved

\* Every step of an execution moves its record so.
LEMMA ExecutionMoves ==
    ASSUME TypeOK, NEW w \in Workers, NEW j \in Jobs,
           Dispatch(w, j) \/ Execute(w, j) \/ Disturb(w, j)
    PROVE  \E x \in Run: Moved(w, j, x)
<1> DEFINE Goes == \E p \in Points \ RequeuePoints: GoTo(w, j, p)
<1>0. /\ runs[w][j] \in Run
      /\ pc(w, j) # "idle" /\ Goes => \E x \in Run: Moved(w, j, x)
      /\ End(w, j) => \E x \in Run: Moved(w, j, x)
  BY GoToMoves, EndMoves DEF TypeOK
<1>1. CASE Dispatch(w, j)
  <2> DEFINE x == [IdleRun EXCEPT !.pc = "claim", !.expected = jobs[j].attempt]
  <2>1. x \in Run /\ x.attempt = 0 /\ x.pc = "claim"
    BY PointTypes DEF TypeOK, JobRow, IdleRun, Run
  <2>2. runs' = [runs EXCEPT ![w][j] = x]
    BY <1>1 DEF Dispatch
  <2> HIDE DEF x
  <2> QED BY <1>1, <2>1, <2>2 DEF Moved
<1>2. CASE Claim(w, j)
  <2> DEFINE x == [runs[w][j] EXCEPT !.pc = "check", !.attempt = jobs[j].attempt + 1]
  <2>1. jobs[j].attempt + 1 \in Nat /\ "check" \in Points
    BY PointTypes DEF TypeOK, JobRow
  <2>2. x \in Run /\ x.attempt = jobs[j].attempt + 1 /\ x.pc = "check"
    BY <1>0, <2>1 DEF Run
  <2>3. runs' = [runs EXCEPT ![w][j] = x]
    BY <1>2 DEF Claim
  <2> HIDE DEF x
  <2> QED BY <1>2, <2>2, <2>3 DEF Moved
<1>3. CASE ReadBase(w, j)
  <2> DEFINE x == [runs[w][j] EXCEPT !.base = recipes[RecipeOf[j]].active, !.pc = "mark"]
  <2>1. recipes[RecipeOf[j]].active \in ChunkSets \cup {None}
    BY JobFacts DEF TypeOK, RecipeRow
  <2>2. x \in Run /\ x.attempt = runs[w][j].attempt /\ x.pc = "mark"
    BY <1>0, <2>1, PointTypes DEF Run
  <2>3. runs' = [runs EXCEPT ![w][j] = x]
    BY <1>3 DEF ReadBase
  <2>4. pc(w, j) # "idle"
    BY <1>3 DEF ReadBase
  <2> HIDE DEF x
  <2> QED BY <2>2, <2>3, <2>4, PointTypes DEF Moved
<1>4. CASE BuildIndex(w, j)
  <2> DEFINE p == IF PhaseOf[j] \in {"PREPROCESS", "EXTRACT"} THEN "gate" ELSE "checkSwitch"
             x == [runs[w][j] EXCEPT !.pc = p, !.built = TRUE]
  <2>1. p \in Points \ RequeuePoints
    BY PointTypes
  <2>2. runs' = [runs EXCEPT ![w][j] = x] /\ pc(w, j) # "idle"
    BY <1>4 DEF BuildIndex
  <2> HIDE DEF p
  <2>3. x \in Run /\ x.attempt = runs[w][j].attempt /\ x.pc = p
    BY <1>0, <2>1 DEF Run
  <2> HIDE DEF x
  <2> QED BY <2>1, <2>2, <2>3 DEF Moved
<1>5. CASE ReadGate(w, j)
  <2>1. PICK auto \in BOOLEAN:
          runs' = [runs EXCEPT ![w][j] =
            [@ EXCEPT !.pc = IF recipes[RecipeOf[j]].status \in {"PREPROCESSED", "REVIEW"}
                             THEN "finish" ELSE "checkSwitch",
                      !.next = auto /\ recipes[RecipeOf[j]].status = "REVIEW"]]
    BY <1>5 DEF ReadGate
  <2> DEFINE p == IF recipes[RecipeOf[j]].status \in {"PREPROCESSED", "REVIEW"}
                  THEN "finish" ELSE "checkSwitch"
             n == auto /\ recipes[RecipeOf[j]].status = "REVIEW"
             x == [runs[w][j] EXCEPT !.pc = p, !.next = n]
  <2>2. p \in Points \ RequeuePoints /\ n \in BOOLEAN
    BY PointTypes
  <2>3. runs' = [runs EXCEPT ![w][j] = x]
    BY <2>1
  <2>4. pc(w, j) # "idle"
    BY <1>5 DEF ReadGate
  <2> HIDE DEF p, n
  <2>5. x \in Run /\ x.attempt = runs[w][j].attempt /\ x.pc = p
    BY <1>0, <2>2 DEF Run
  <2> HIDE DEF x
  <2> QED BY <2>2, <2>3, <2>4, <2>5 DEF Moved
<1>6. CASE ReadActive(w, j)
  <2> DEFINE p == IF pc(w, j) = "requeueRead" THEN "requeueWrite" ELSE "restoreWrite"
             x == [runs[w][j] EXCEPT !.base = recipes[RecipeOf[j]].active, !.pc = p]
  <2>1. /\ p \in Points
        /\ p \notin RequeuePoints \/ pc(w, j) \in RequeuePoints
        /\ recipes[RecipeOf[j]].active \in ChunkSets \cup {None}
    BY PointTypes, JobFacts DEF TypeOK, RecipeRow
  <2>2. runs' = [runs EXCEPT ![w][j] = x] /\ pc(w, j) # "idle"
    BY <1>6 DEF ReadActive
  <2> HIDE DEF p
  <2>3. x \in Run /\ x.attempt = runs[w][j].attempt /\ x.pc = p
    BY <1>0, <2>1 DEF Run
  <2> HIDE DEF x
  <2> QED BY <2>1, <2>2, <2>3 DEF Moved
<1>7. CASE ChildDies(w, j)
  <2>1. CASE End(w, j)
    BY <1>0, <2>1
  <2>2. CASE ~End(w, j)
    <3> DEFINE x == [runs[w][j] EXCEPT !.pc = "parent", !.inParent = TRUE]
    <3>1. x \in Run /\ x.attempt = runs[w][j].attempt /\ x.pc = "parent"
      BY <1>0, PointTypes DEF Run
    <3>2. runs' = [runs EXCEPT ![w][j] = x] /\ pc(w, j) # "idle"
      BY <1>7, <2>2 DEF ChildDies
    <3> HIDE DEF x
    <3> QED BY <3>1, <3>2, PointTypes DEF Moved
  <2> QED BY <2>1, <2>2
<1>8. CASE RaiseTransient(w, j)
  <2>1. /\ GoTo(w, j, "requeueLease") /\ runs[w][j].attempt < MaxAttempts
        /\ pc(w, j) # "idle"
    BY <1>8 DEF RaiseTransient, ErrorPoints, TryPoints
  <2> QED BY <2>1, GoToMoves, PointTypes
<1>9. CASE RequeueCheck(w, j)
  BY <1>0, <1>9, GoToMoves, PointTypes DEF RequeueCheck
<1>10. CASE RequeueWrite(w, j)
  BY <1>10, GoToMoves, PointTypes DEF RequeueWrite
<1>11. CASE Check(w, j) \/ Mark(w, j) \/ BuildToGate(w, j) \/ Fence(w, j) \/ Switch(w, j)
  BY <1>0, <1>11, PointTypes DEF Check, AfterCheck, Mark, BuildToGate, Fence, Switch
<1>12. CASE Succeed(w, j) \/ Fail(w, j) \/ Skip(w, j) \/ RequeueJob(w, j)
                          \/ RequeueAnswerLost(w, j)
  BY <1>0, <1>12, PointTypes DEF Succeed, Fail, Skip, RequeueJob, RequeueAnswerLost, FinishAs
<1>13. CASE Supersede(w, j) \/ Restore(w, j) \/ ParentReads(w, j)
  BY <1>0, <1>13, PointTypes DEF Supersede, Restore, ParentReads
<1>14. CASE Raise(w, j) \/ RequeueFails(w, j)
  BY <1>0, <1>14, PointTypes DEF Raise, RequeueFails, ErrorPoints, TryPoints,
     RequeuePoints
<1>15. CASE \/ ClaimNothing(w, j) \/ MarkFailed(w, j) \/ Advance(w, j)
            \/ RestoreWrite(w, j) \/ RecordStartupFailure(w, j)
            \/ IgnoreStartupFailure(w, j) \/ ParentGivesUp(w, j)
  BY <1>0, <1>15 DEF ClaimNothing, MarkFailed, Advance, RestoreWrite, RecordStartupFailure,
     IgnoreStartupFailure, ParentGivesUp
<1> QED BY <1>1, <1>2, <1>3, <1>4, <1>5, <1>6, <1>7, <1>8, <1>9, <1>10, <1>11, <1>12, <1>13,
           <1>14, <1>15 DEF Execute, Disturb

-------------------------------------------------------------------------------
(* The lease invariant *)

\* The inductive part: the row under a worker's lease carries the attempt of
\* the worker's execution, and only one with attempts left is being requeued.
RunInv ==
    /\ LeaseNamesExecution
    /\ \A w \in Workers, j \in Jobs:
         pc(w, j) \in RequeuePoints => runs[w][j].attempt < MaxAttempts

\* What one step does to one execution.
LEMMA RunsStep ==
    ASSUME TypeOK, Next
    PROVE  /\ runs' \in [Workers -> [Jobs -> Run]]
           /\ \A w \in Workers, j \in Jobs:
                \/ runs'[w][j].pc = "idle"
                \/ runs'[w][j] = runs[w][j]
                \/ Dispatch(w, j) /\ runs'[w][j].pc = "claim"
                \/ Claim(w, j) /\ runs'[w][j].pc = "check"
                \/ /\ pc(w, j) # "idle"
                   /\ runs'[w][j].attempt = runs[w][j].attempt
                   /\ \/ runs'[w][j].pc \notin RequeuePoints
                      \/ pc(w, j) \in RequeuePoints
                      \/ runs'[w][j].attempt < MaxAttempts
<1> DEFINE Stays == \A w \in Workers, j \in Jobs: runs'[w][j] \in {runs[w][j], IdleRun}
<1>0. IdleRun \in Run /\ IdleRun.pc = "idle"
  BY PointTypes DEF IdleRun, Run
<1>1. ASSUME NEW j \in Jobs, Create(j) \/ Cancel(j) \/ LeaseRunsOut(j) \/ HeartbeatLate(j)
      PROVE  runs' = runs
  BY <1>1 DEF Create, Cancel, LeaseRunsOut, HeartbeatLate, Expire
<1>2. ASSUME NEW w \in Workers, Heartbeat(w) \/ Recover(w) \/ Stop(w)
      PROVE  runs' = runs
  BY <1>2 DEF Heartbeat, Recover, Stop
<1>3. ASSUME NEW w \in Workers, Crash(w) \/ Shutdown(w) \/ ShutdownWithoutRequeue(w)
      PROVE  runs' \in [Workers -> [Jobs -> Run]] /\ Stays
  <2>1. \E all \in [Jobs -> Run]:
           /\ runs' = [runs EXCEPT ![w] = all]
           /\ \A j \in Jobs: all[j] \in {runs[w][j], IdleRun}
    <3>1. CASE Crash(w)
      <4> DEFINE all == [j \in Jobs |-> IF runs[w][j].inParent THEN IdleRun ELSE runs[w][j]]
      <4>1. all \in [Jobs -> Run] /\ \A j \in Jobs: all[j] \in {runs[w][j], IdleRun}
        BY <1>0 DEF TypeOK
      <4>2. runs' = [runs EXCEPT ![w] = all]
        BY <3>1 DEF Crash
      <4> HIDE DEF all
      <4> QED BY <4>1, <4>2
    <3>2. CASE Shutdown(w) \/ ShutdownWithoutRequeue(w)
      <4> DEFINE all == [j \in Jobs |-> IdleRun]
      <4>1. all \in [Jobs -> Run] /\ \A j \in Jobs: all[j] \in {runs[w][j], IdleRun}
        BY <1>0
      <4>2. runs' = [runs EXCEPT ![w] = all]
        BY <3>2 DEF Shutdown, ShutdownWithoutRequeue
      <4> HIDE DEF all
      <4> QED BY <4>1, <4>2
    <3> QED BY <1>3, <3>1, <3>2
  <2> QED BY <2>1 DEF TypeOK
<1>4. ASSUME NEW w \in Workers, NEW j \in Jobs,
             Dispatch(w, j) \/ Execute(w, j) \/ Disturb(w, j)
      PROVE  \E x \in Run: Moved(w, j, x)
  BY <1>4, ExecutionMoves
<1>5. ASSUME NEW w \in Workers, NEW j \in Jobs, NEW x \in Run, Moved(w, j, x)
      PROVE  /\ runs' \in [Workers -> [Jobs -> Run]]
             /\ runs'[w][j] = x
             /\ \A v \in Workers, k \in Jobs: <<v, k>> # <<w, j>> => runs'[v][k] = runs[v][k]
  BY <1>5 DEF Moved, TypeOK
<1>6. runs' = runs => runs' \in [Workers -> [Jobs -> Run]] /\ Stays
  BY DEF TypeOK
<1>7. CASE runs' \in [Workers -> [Jobs -> Run]] /\ Stays
  BY <1>0, <1>7
<1>8. CASE \E w \in Workers, j \in Jobs, x \in Run: Moved(w, j, x)
  <2> PICK w \in Workers, j \in Jobs, x \in Run: Moved(w, j, x)
    BY <1>8
  <2>1. /\ runs' \in [Workers -> [Jobs -> Run]]
        /\ runs'[w][j] = x
        /\ \A v \in Workers, k \in Jobs: <<v, k>> # <<w, j>> => runs'[v][k] = runs[v][k]
    BY <1>5
  <2> QED BY <1>0, <2>1 DEF Moved
<1> HIDE DEF Stays
<1> QED BY <1>1, <1>2, <1>3, <1>4, <1>6, <1>7, <1>8, ActionCases

\* A row that is RUNNING after a step was so before, under the same lease and
\* attempt, or has just been claimed.
LEMMA RunningRows ==
    ASSUME TypeOK, Next, NEW k \in Jobs, jobs'[k].status = "RUNNING"
    PROVE  \/ /\ jobs[k].status = "RUNNING"
              /\ jobs'[k].lease = jobs[k].lease
              /\ jobs'[k].attempt = jobs[k].attempt
           \/ \E w \in Workers: Claim(w, k)
<1> DEFINE Same == /\ jobs[k].status = "RUNNING"
                   /\ jobs'[k].lease = jobs[k].lease
                   /\ jobs'[k].attempt = jobs[k].attempt
<1>0. jobs[k] \in JobRow /\ (jobs' = jobs => Same)
  BY DEF TypeOK
<1>1. ASSUME NEW j \in Jobs, Create(j) \/ Cancel(j) PROVE Same
  <2>1. CASE Create(j)
    BY <1>0, <2>1 DEF Create, Queue, TypeOK, JobRow
  <2>2. CASE Cancel(j)
    BY <1>0, <2>2 DEF Cancel, Transition, TypeOK, JobRow
  <2> QED BY <1>1, <2>1, <2>2
<1>2. ASSUME NEW j \in Jobs, LeaseRunsOut(j) \/ HeartbeatLate(j) PROVE Same
  <2>1. jobs' = [jobs EXCEPT ![j].expired = TRUE]
    BY <1>2 DEF LeaseRunsOut, HeartbeatLate, Expire
  <2> QED BY <1>0, <2>1 DEF TypeOK, JobRow
<1>3. ASSUME NEW w \in Workers, Heartbeat(w) PROVE Same
  BY <1>0, <1>3 DEF Heartbeat, TypeOK, JobRow
<1>4. ASSUME NEW w \in Workers, Recover(w) PROVE Same
  BY <1>0, <1>4 DEF Recover, Requeued, TypeOK, JobRow
<1>5. ASSUME NEW w \in Workers, Shutdown(w) PROVE Same
  BY <1>0, <1>5 DEF Shutdown, Requeued, TypeOK, JobRow
<1>6. ASSUME NEW w \in Workers, Crash(w) \/ Stop(w) \/ ShutdownWithoutRequeue(w) PROVE Same
  BY <1>0, <1>6 DEF Crash, Stop, ShutdownWithoutRequeue
<1>7. ASSUME NEW w \in Workers, NEW j \in Jobs,
             Dispatch(w, j) \/ Execute(w, j) \/ Disturb(w, j)
      PROVE  Same \/ Claim(w, k)
  <2>1. CASE Claim(w, j)
    BY <1>0, <2>1 DEF Claim, TypeOK
  <2>2. CASE Succeed(w, j) \/ Fail(w, j) \/ Skip(w, j) \/ RequeueJob(w, j)
                           \/ RequeueAnswerLost(w, j)
    <3>1. jobs' = jobs \/ \E s \in JobStatuses \ {"RUNNING"}: Transition(j, s)
      BY <2>2 DEF Succeed, Fail, Skip, RequeueJob, RequeueAnswerLost, FinishAs, JobStatuses
    <3>2. ASSUME NEW s \in JobStatuses \ {"RUNNING"}, Transition(j, s) PROVE Same
      BY <1>0, <3>2 DEF Transition, TypeOK, JobRow
    <3> QED BY <1>0, <3>1, <3>2
  <2>3. CASE Advance(w, j)
    <3>1. jobs' = jobs \/ \E i \in Jobs: Queue(i)
      BY <2>3 DEF Advance
    <3>2. ASSUME NEW i \in Jobs, Queue(i) PROVE Same
      BY <1>0, <3>2 DEF Queue, TypeOK, JobRow
    <3> QED BY <1>0, <3>1, <3>2
  <2>4. CASE RecordStartupFailure(w, j)
    <3> DEFINE s == IF LastStart(w, j) THEN "FAILED" ELSE "QUEUED"
    <3>1. jobs' = [jobs EXCEPT ![j] = [@ EXCEPT !.attempt = runs[w][j].expected + 1,
                                                !.status = s]]
      BY <2>4 DEF RecordStartupFailure
    <3>2. s # "RUNNING"
      OBVIOUS
    <3> HIDE DEF s
    <3> QED BY <1>0, <3>1, <3>2 DEF TypeOK, JobRow
  <2>5. CASE ~JobWrite(w, j)
    BY <1>0, <1>7, <2>5, OthersKeepJobs
  <2> QED BY <2>1, <2>2, <2>3, <2>4, <2>5 DEF JobWrite
<1> HIDE DEF Same
<1>8. Same \/ \E w \in Workers: Claim(w, k)
  BY <1>1, <1>2, <1>3, <1>4, <1>5, <1>6, <1>7, ActionCases
<1> QED BY <1>8 DEF Same

\* A step keeps the lease invariant.  The claim sets row and execution to one
\* attempt; no other step makes a row RUNNING or changes either number.
LEMMA RunInvStep ==
    ASSUME TypeOK, RunInv, Next
    PROVE  RunInv'
<1>1. ASSUME NEW w \in Workers, NEW j \in Jobs, OwnsRunning(w, j)', pc(w, j)' # "idle"
      PROVE  jobs'[j].attempt = runs'[w][j].attempt
  <2>1. CASE \E v \in Workers: Claim(v, j)
    <3> PICK v \in Workers: Claim(v, j)
      BY <2>1
    <3>1. jobs'[j].lease = v /\ jobs'[j].attempt = jobs[j].attempt + 1
      BY DEF Claim, TypeOK
    <3>2. v = w
      BY <1>1, <3>1 DEF OwnsRunning
    <3>3. runs'[w][j].attempt = jobs[j].attempt + 1
      BY <3>2 DEF Claim, TypeOK, Run
    <3> QED BY <3>1, <3>3
  <2>2. CASE ~\E v \in Workers: Claim(v, j)
    <3>1. /\ jobs[j].status = "RUNNING"
          /\ jobs'[j].lease = jobs[j].lease
          /\ jobs'[j].attempt = jobs[j].attempt
      BY <1>1, <2>2, RunningRows DEF OwnsRunning
    <3>2. OwnsRunning(w, j)
      BY <1>1, <3>1 DEF OwnsRunning
    <3>3. ~Dispatch(w, j)
      BY <3>1 DEF Dispatch
    <3>4. pc(w, j) # "idle" /\ runs'[w][j].attempt = runs[w][j].attempt
      BY <1>1, <2>2, <3>3, RunsStep DEF pc
    <3> QED BY <3>1, <3>2, <3>4 DEF RunInv, LeaseNamesExecution
  <2> QED BY <2>1, <2>2
<1>2. ASSUME NEW w \in Workers, NEW j \in Jobs, pc(w, j)' \in RequeuePoints
      PROVE  runs'[w][j].attempt < MaxAttempts
  <2>1. "idle" \notin RequeuePoints /\ "claim" \notin RequeuePoints /\ "check" \notin RequeuePoints
    BY PointTypes
  <2> QED BY <1>2, <2>1, RunsStep DEF pc, RunInv
<1> QED BY <1>1, <1>2 DEF RunInv, LeaseNamesExecution, OwnsRunning, pc

-------------------------------------------------------------------------------
(* The version log, and the types as a whole *)

\* The two outcomes of a switch: the candidate was active already, or it is
\* logged as built on the version it replaces.
LEMMA SwitchCases ==
    ASSUME TypeOK, NEW w \in Workers, NEW j \in Jobs, Switch(w, j)
    PROVE  LET r == RecipeOf[j]
               new == [set |-> Candidate(w, j), base |-> recipes[r].active]
           IN  /\ r \in Recipes
               /\ new \in Version
               /\ recipes' = [recipes EXCEPT
                                ![r] = [status |-> "INDEXED", active |-> Candidate(w, j)]]
               /\ \/ versions' = versions /\ recipes[r].active = Candidate(w, j)
                  \/ versions' = [versions EXCEPT ![r] = Append(@, new)]
<1> DEFINE r == RecipeOf[j]
<1>1. r \in Recipes
  BY JobFacts
<1>2. Candidate(w, j) \in ChunkSets
  BY DEF Candidate, ChunkSets, TypeOK, Run
<1>3. recipes[r].active \in ChunkSets \cup {None}
  BY <1>1 DEF TypeOK, RecipeRow
<1>4. runs[w][j].base = recipes[r].active
  BY DEF Switch, BaseCurrent
<1> QED BY <1>1, <1>2, <1>3, <1>4 DEF Switch, Version

\* A step keeps the types.
LEMMA TypeStep ==
    ASSUME TypeOK, Next
    PROVE  TypeOK'
<1>1. recipes' \in [Recipes -> RecipeRow] /\ versions' \in [Recipes -> Seq(Version)]
  <2>1. CASE \E w \in Workers, j \in Jobs: Switch(w, j)
    <3> PICK w \in Workers, j \in Jobs: Switch(w, j)
      BY <2>1
    <3> DEFINE r == RecipeOf[j]
               new == [set |-> Candidate(w, j), base |-> recipes[r].active]
    <3>1. Candidate(w, j) \in ChunkSets
      BY DEF Candidate, ChunkSets, TypeOK, Run
    <3>2. [status |-> "INDEXED", active |-> Candidate(w, j)] \in RecipeRow
      BY <3>1 DEF RecipeRow, RecipeStatuses
    <3>3. /\ r \in Recipes
          /\ new \in Version
          /\ recipes' = [recipes EXCEPT
                           ![r] = [status |-> "INDEXED", active |-> Candidate(w, j)]]
          /\ versions' = versions \/ versions' = [versions EXCEPT ![r] = Append(@, new)]
      BY SwitchCases
    <3> HIDE DEF r, new
    <3>4. Append(versions[r], new) \in Seq(Version)
      BY <3>3 DEF TypeOK
    <3> QED BY <3>2, <3>3, <3>4 DEF TypeOK
  <2>2. CASE ~\E w \in Workers, j \in Jobs: Switch(w, j)
    BY <2>2, RecipesType DEF TypeOK
  <2> QED BY <2>1, <2>2
<1>2. workers' \in [Workers -> {"running", "stopping", "gone"}]
  <2>1. ASSUME NEW w \in Workers, Crash(w) \/ Stop(w) \/ Shutdown(w) \/ ShutdownWithoutRequeue(w)
        PROVE  workers' \in [Workers -> {"running", "stopping", "gone"}]
    BY <2>1 DEF TypeOK, Crash, Stop, Shutdown, ShutdownWithoutRequeue
  <2>2. ASSUME NEW w \in Workers, Heartbeat(w) \/ Recover(w) PROVE workers' = workers
    BY <2>2 DEF Heartbeat, Recover
  <2>3. ASSUME NEW j \in Jobs, Create(j) \/ Cancel(j) \/ LeaseRunsOut(j) \/ HeartbeatLate(j)
        PROVE  workers' = workers
    BY <2>3 DEF Create, Cancel, LeaseRunsOut, HeartbeatLate, Expire
  <2>4. ASSUME NEW w \in Workers, NEW j \in Jobs,
               Dispatch(w, j) \/ Execute(w, j) \/ Disturb(w, j)
        PROVE  workers' = workers
    BY <2>4 DEF Dispatch, Disturb, Raise, RaiseTransient, RequeueFails, ChildDies,
       ParentGivesUp, Execute, Claim, ClaimNothing, Check, Mark, ReadBase, BuildToGate,
       BuildIndex, ReadGate, Fence, Switch, Supersede, Succeed, Fail, Skip, RequeueJob,
       RequeueAnswerLost, FinishAs, MarkFailed, Advance, RequeueCheck, ReadActive,
       RequeueWrite, Restore, RestoreWrite, ParentReads, RecordStartupFailure, IgnoreStartupFailure
  <2> QED BY <2>1, <2>2, <2>3, <2>4, ActionCases DEF TypeOK
<1> QED BY <1>1, <1>2, JobsType, RunsStep DEF TypeOK

\* A step keeps the version log an unbroken history of what is served.
LEMMA VersionStep ==
    ASSUME TypeOK, VersionHistory, Next
    PROVE  VersionHistory'
<1>1. CASE /\ \A r \in Recipes: recipes'[r].active = recipes[r].active
           /\ versions' = versions
  BY <1>1 DEF VersionHistory
<1>2. ASSUME NEW w \in Workers, NEW j \in Jobs, Switch(w, j)
      PROVE  VersionHistory'
  <2> DEFINE r == RecipeOf[j]
             new == [set |-> Candidate(w, j), base |-> recipes[r].active]
  <2>1. /\ r \in Recipes
        /\ new \in Version
        /\ recipes' = [recipes EXCEPT
                         ![r] = [status |-> "INDEXED", active |-> Candidate(w, j)]]
        /\ \/ versions' = versions /\ recipes[r].active = Candidate(w, j)
           \/ versions' = [versions EXCEPT ![r] = Append(@, new)]
    BY <1>2, SwitchCases
  <2>2. recipes'[r].active = Candidate(w, j)
    BY <2>1 DEF TypeOK
  <2>3. \A q \in Recipes \ {r}: recipes'[q] = recipes[q] /\ versions'[q] = versions[q]
    BY <2>1 DEF TypeOK
  <2>4. new.set = Candidate(w, j) /\ new.base = recipes[r].active
    OBVIOUS
  <2> DEFINE log == versions[r]
  <2>5. log \in Seq(Version)
    BY <2>1 DEF TypeOK
  <2>6. /\ \A n \in 1..Len(log): log[n].base = IF n = 1 THEN None ELSE log[n - 1].set
        /\ recipes[r].active = IF log = <<>> THEN None ELSE log[Len(log)].set
    BY <2>1 DEF VersionHistory
  <2>7. CASE versions' = versions /\ recipes[r].active = Candidate(w, j)
    <3>1. \A q \in Recipes: recipes'[q].active = recipes[q].active
      BY <2>2, <2>3, <2>7
    <3> QED BY <2>7, <3>1 DEF VersionHistory
  <2>8. CASE versions' = [versions EXCEPT ![r] = Append(@, new)]
    <3>1. versions'[r] = Append(log, new)
      BY <2>1, <2>8 DEF TypeOK
    <3> HIDE DEF new, log, r
    <3>2. /\ Len(Append(log, new)) = Len(log) + 1
          /\ Append(log, new)[Len(log) + 1] = new
          /\ \A n \in 1..Len(log): Append(log, new)[n] = log[n]
          /\ Append(log, new) # <<>>
          /\ Len(log) \in Nat
          /\ log = <<>> <=> Len(log) = 0
      BY <2>5
    <3>3. \A n \in 1..Len(log) + 1:
            Append(log, new)[n].base = IF n = 1 THEN None ELSE Append(log, new)[n - 1].set
      <4>1. CASE Len(log) = 0
        BY <2>4, <2>6, <3>2, <4>1
      <4>2. CASE Len(log) > 0
        <5>1. ASSUME NEW n \in 1..Len(log)
              PROVE  Append(log, new)[n].base =
                       IF n = 1 THEN None ELSE Append(log, new)[n - 1].set
          BY <2>6, <3>2
        <5>2. Append(log, new)[Len(log) + 1].base = Append(log, new)[Len(log)].set
          BY <2>4, <2>6, <3>2, <4>2
        <5> QED BY <3>2, <4>2, <5>1, <5>2
      <4> QED BY <3>2, <4>1, <4>2
    <3>4. /\ \A n \in 1..Len(versions'[r]):
               versions'[r][n].base = IF n = 1 THEN None ELSE versions'[r][n - 1].set
          /\ recipes'[r].active = IF versions'[r] = <<>> THEN None
                                  ELSE versions'[r][Len(versions'[r])].set
      BY <2>2, <2>4, <3>1, <3>2, <3>3
    <3>5. ASSUME NEW q \in Recipes \ {r}
          PROVE  /\ \A n \in 1..Len(versions'[q]):
                      versions'[q][n].base = IF n = 1 THEN None ELSE versions'[q][n - 1].set
                 /\ recipes'[q].active = IF versions'[q] = <<>> THEN None
                                         ELSE versions'[q][Len(versions'[q])].set
      BY <2>3 DEF VersionHistory
    <3> QED BY <3>4, <3>5 DEF VersionHistory
  <2> QED BY <2>1, <2>7, <2>8
<1> QED BY <1>1, <1>2, RecipesType

-------------------------------------------------------------------------------
(* The queue implements the life cycle *)

\* The queue's inductive invariant: the types, the lease invariant, and the
\* life cycle's invariant of the job rows.
IInv == TypeOK /\ RunInv /\ Lifecycle!Inv

\* A new queue is a new life cycle.
LEMMA InitRefines == Init => Lifecycle!Init
  BY DEF Init, NewJob, Lifecycle!Init

\* What one row's update is to the life cycle.
LEMMA RowUpdate ==
    ASSUME TypeOK, NEW j \in Jobs, NEW row, jobs' = [jobs EXCEPT ![j] = row]
    PROVE  /\ jobs'[j] = row
           /\ \A k \in Jobs \ {j}: jobs'[k] = jobs[k]
  BY DEF TypeOK

\* Creating a job row is submitting the job.
LEMMA QueueRefines ==
    ASSUME TypeOK, NEW j \in Jobs, Creatable(j), Queue(j)
    PROVE  Lifecycle!Submit(j)
<1> DEFINE row == [jobs[j] EXCEPT !.status = "QUEUED"]
<1>1. jobs' = [jobs EXCEPT ![j] = row]
  BY DEF Queue
<1>2. row.status = "QUEUED" /\ row.attempt = jobs[j].attempt
  BY DEF TypeOK, JobRow
<1>3. jobs[j].status = "NEW" /\ ~Lifecycle!OtherOpen(j)
  BY DEF Creatable, RecipeIdle, OpenStatuses, Lifecycle!OtherOpen, Lifecycle!Open
<1> HIDE DEF row
<1>4. \A k \in Jobs: /\ jobs'[k].status = IF k = j THEN "QUEUED" ELSE jobs[k].status
                    /\ jobs'[k].attempt = jobs[k].attempt
  <2>1. jobs'[j] = row /\ \A k \in Jobs \ {j}: jobs'[k] = jobs[k]
    BY <1>1, RowUpdate
  <2> QED BY <1>2, <2>1
<1> QED BY <1>3, <1>4 DEF Lifecycle!Submit

\* A transition of the status alone.
LEMMA TransitionUpdate ==
    ASSUME TypeOK, NEW j \in Jobs, NEW s, Transition(j, s)
    PROVE  \A k \in Jobs: /\ jobs'[k].status = IF k = j THEN s ELSE jobs[k].status
                         /\ jobs'[k].attempt = jobs[k].attempt
<1> DEFINE row == [jobs[j] EXCEPT !.status = s, !.expired = FALSE]
<1>1. jobs' = [jobs EXCEPT ![j] = row]
  BY DEF Transition
<1>2. row.status = s /\ row.attempt = jobs[j].attempt
  BY DEF TypeOK, JobRow
<1> HIDE DEF row
<1>3. jobs'[j] = row /\ \A k \in Jobs \ {j}: jobs'[k] = jobs[k]
  BY <1>1, RowUpdate
<1> QED BY <1>2, <1>3

\* Every step of the queue is a step of the life cycle, or none.
LEMMA StepRefines ==
    ASSUME IInv, Next
    PROVE  [Lifecycle!Next]_(Lifecycle!lvars)
<1> USE DEF IInv
<1> DEFINE Same == UNCHANGED Lifecycle!lvars
<1>0. /\ jobs' = jobs => Same
      /\ \A j \in Jobs: jobs[j] \in JobRow
      /\ MaxAttempts \in Nat \ {0}
  BY QueueAssumption DEF QueueAssumption, Lifecycle!lvars, TypeOK
<1>1. ASSUME NEW j \in Jobs, Create(j) PROVE Lifecycle!Submit(j)
  BY <1>1, QueueRefines DEF Create
<1>2. ASSUME NEW j \in Jobs, Cancel(j) PROVE Lifecycle!Withdraw(j)
  <2>1. Transition(j, "CANCELLED") /\ jobs[j].status \in OpenStatuses
    BY <1>2 DEF Cancel
  <2> QED BY <2>1, TransitionUpdate DEF OpenStatuses, Lifecycle!Withdraw, Lifecycle!Open
<1>3. ASSUME NEW j \in Jobs, LeaseRunsOut(j) \/ HeartbeatLate(j) PROVE Same
  <2> DEFINE row == [jobs[j] EXCEPT !.expired = TRUE]
  <2>1. jobs' = [jobs EXCEPT ![j] = row]
    BY <1>3 DEF LeaseRunsOut, HeartbeatLate, Expire
  <2>2. row.status = jobs[j].status /\ row.attempt = jobs[j].attempt
    BY <1>0 DEF JobRow
  <2> HIDE DEF row
  <2> QED BY <2>1, <2>2, RowUpdate DEF Lifecycle!lvars
<1>4. ASSUME NEW w \in Workers, Heartbeat(w) PROVE Same
  <2>1. \A j \in Jobs: jobs'[j].status = jobs[j].status /\ jobs'[j].attempt = jobs[j].attempt
    BY <1>0, <1>4 DEF Heartbeat, JobRow
  <2> QED BY <2>1 DEF Lifecycle!lvars
<1>5. ASSUME NEW w \in Workers, Recover(w)
      PROVE  \E lost \in SUBSET Jobs: Lifecycle!GiveUp(lost)
  <2>1. Stale(w) \in SUBSET Jobs /\ \A j \in Stale(w): jobs[j].status = "RUNNING"
    BY DEF Stale
  <2>2. ASSUME NEW j \in Jobs
        PROVE  /\ jobs'[j].attempt = jobs[j].attempt
               /\ jobs'[j].status = IF j \notin Stale(w) THEN jobs[j].status
                                    ELSE IF jobs[j].attempt < MaxAttempts
                                         THEN "QUEUED" ELSE "FAILED"
    <3> DEFINE lost == {k \in Stale(w): jobs[k].attempt >= MaxAttempts}
               failed == [jobs[j] EXCEPT !.status = "FAILED", !.expired = FALSE]
               queued == Requeued(jobs[j], jobs[j].attempt)
    <3>1. jobs'[j] = IF j \in lost THEN failed
                     ELSE IF j \in Stale(w) THEN queued ELSE jobs[j]
      BY <1>5 DEF Recover
    <3>2. /\ failed.status = "FAILED" /\ failed.attempt = jobs[j].attempt
          /\ queued.status = "QUEUED" /\ queued.attempt = jobs[j].attempt
      BY <1>0 DEF Requeued, JobRow
    <3>3. j \in lost <=> j \in Stale(w) /\ ~(jobs[j].attempt < MaxAttempts)
      BY <1>0 DEF JobRow
    <3> HIDE DEF lost, failed, queued
    <3> QED BY <3>1, <3>2, <3>3
  <2> QED BY <2>1, <2>2 DEF Lifecycle!GiveUp
<1>6. ASSUME NEW w \in Workers, Shutdown(w)
      PROVE  \E back \in SUBSET Jobs: Lifecycle!TakeBack(back)
  <2> DEFINE back == {j \in Jobs: OwnsRunning(w, j)}
  <2>1. \A j \in back: jobs[j].status = "RUNNING"
    BY DEF OwnsRunning
  <2>2. \A j \in back: jobs[j].attempt > 0
    BY <2>1 DEF Lifecycle!Inv, Lifecycle!Budget
  <2>3. ASSUME NEW j \in Jobs
        PROVE  /\ jobs'[j].attempt = IF j \in back THEN jobs[j].attempt - 1
                                     ELSE jobs[j].attempt
               /\ jobs'[j].status = IF j \in back THEN "QUEUED" ELSE jobs[j].status
    BY <1>6, <2>2 DEF Shutdown, Requeued
  <2> QED BY <2>1, <2>3 DEF Lifecycle!TakeBack
<1>7. ASSUME NEW w \in Workers, Crash(w) \/ Stop(w) \/ ShutdownWithoutRequeue(w) PROVE Same
  BY <1>0, <1>7 DEF Crash, Stop, ShutdownWithoutRequeue
<1>8. ASSUME NEW w \in Workers, NEW j \in Jobs, Claim(w, j) PROVE Lifecycle!Start(j)
  <2> DEFINE row == [status |-> "RUNNING", attempt |-> jobs[j].attempt + 1,
                     lease |-> w, expired |-> FALSE]
  <2>1. jobs' = [jobs EXCEPT ![j] = row] /\ Claimable(j)
    BY <1>8 DEF Claim
  <2>2. row.status = "RUNNING" /\ row.attempt = jobs[j].attempt + 1
    OBVIOUS
  <2>3. jobs[j].status = "QUEUED" /\ jobs[j].attempt < MaxAttempts
    BY <2>1 DEF Claimable, Lifecycle!Inv, Lifecycle!Budget
  <2>4. ~Lifecycle!OtherRunning(j)
    BY <2>1 DEF Claimable, DocumentFree, SameDocument, Lifecycle!OtherRunning
  <2> HIDE DEF row
  <2>5. \A k \in Jobs:
          /\ jobs'[k].status = IF k = j THEN "RUNNING" ELSE jobs[k].status
          /\ jobs'[k].attempt = IF k = j THEN jobs[j].attempt + 1 ELSE jobs[k].attempt
    <3>1. jobs'[j] = row /\ \A k \in Jobs \ {j}: jobs'[k] = jobs[k]
      BY <2>1, RowUpdate
    <3> QED BY <2>2, <3>1
  <2> QED BY <2>3, <2>4, <2>5 DEF Lifecycle!Start
<1>9. ASSUME NEW w \in Workers, NEW j \in Jobs, Succeed(w, j) \/ Fail(w, j) \/ Skip(w, j)
      PROVE  Same \/ Lifecycle!Settle(j)
  <2>1. \/ jobs' = jobs
        \/ /\ jobs[j].status = "RUNNING"
           /\ \E s \in {"SUCCEEDED", "FAILED", "SKIPPED"}: Transition(j, s)
    BY <1>9 DEF Succeed, Fail, Skip, FinishAs, OwnsRunning
  <2> QED BY <1>0, <2>1, TransitionUpdate DEF Lifecycle!Settle
<1>10. ASSUME NEW w \in Workers, NEW j \in Jobs, RequeueJob(w, j) \/ RequeueAnswerLost(w, j)
       PROVE  Same \/ Lifecycle!GiveUp({j})
  <2>1. CASE jobs' = jobs
    BY <1>0, <2>1
  <2>2. CASE jobs' # jobs
    <3>1. OwnsRunning(w, j) /\ Transition(j, "QUEUED") /\ pc(w, j) = "requeueCas"
      BY <1>10, <2>2 DEF RequeueJob, RequeueAnswerLost, FinishAs
    <3>2. jobs[j].attempt < MaxAttempts
      BY <3>1, PointTypes DEF RunInv, LeaseNamesExecution
    <3>3. jobs[j].status = "RUNNING"
      BY <3>1 DEF OwnsRunning
    <3>4. \A k \in Jobs: /\ jobs'[k].status = IF k = j THEN "QUEUED" ELSE jobs[k].status
                        /\ jobs'[k].attempt = jobs[k].attempt
      BY <3>1, TransitionUpdate
    <3> QED BY <3>2, <3>3, <3>4 DEF Lifecycle!GiveUp
  <2> QED BY <2>1, <2>2
<1>11. ASSUME NEW w \in Workers, NEW j \in Jobs, Advance(w, j)
       PROVE  Same \/ \E k \in Jobs: Lifecycle!Submit(k)
  BY <1>0, <1>11, QueueRefines DEF Advance
<1>12. ASSUME NEW w \in Workers, NEW j \in Jobs, RecordStartupFailure(w, j)
       PROVE  Lifecycle!FailToStart(j)
  <2> DEFINE n == runs[w][j].expected + 1
             s == IF LastStart(w, j) THEN "FAILED" ELSE "QUEUED"
             row == [jobs[j] EXCEPT !.attempt = n, !.status = s]
  <2>1. jobs' = [jobs EXCEPT ![j] = row] /\ StartupCountable(w, j)
    BY <1>12 DEF RecordStartupFailure
  <2>2. /\ jobs[j].status = "QUEUED" /\ jobs[j].attempt < MaxAttempts
        /\ n = jobs[j].attempt + 1 /\ jobs[j].attempt \in Nat
    BY <1>0, <2>1 DEF StartupCountable, Lifecycle!Inv, Lifecycle!Budget, JobRow
  <2>3. s = IF jobs[j].attempt + 1 = MaxAttempts THEN "FAILED" ELSE "QUEUED"
    BY <1>0, <2>2 DEF LastStart
  <2> HIDE DEF n, s
  <2>4. row.status = s /\ row.attempt = n
    BY <1>0 DEF JobRow
  <2> HIDE DEF row
  <2>5. \A k \in Jobs:
          /\ jobs'[k].status = IF k = j THEN s ELSE jobs[k].status
          /\ jobs'[k].attempt = IF k = j THEN jobs[j].attempt + 1 ELSE jobs[k].attempt
    <3>1. jobs'[j] = row /\ \A k \in Jobs \ {j}: jobs'[k] = jobs[k]
      BY <2>1, RowUpdate
    <3> QED BY <2>2, <2>4, <3>1
  <2> QED BY <2>2, <2>3, <2>5 DEF Lifecycle!FailToStart
<1>13. ASSUME NEW w \in Workers, NEW j \in Jobs,
              Dispatch(w, j) \/ Execute(w, j) \/ Disturb(w, j), ~JobWrite(w, j)
       PROVE  Same
  BY <1>0, <1>13, OthersKeepJobs
<1> HIDE DEF Same
<1>14. Lifecycle!Next \/ Same
  <2>1. ASSUME NEW j \in Jobs, Create(j) \/ Cancel(j) \/ LeaseRunsOut(j) \/ HeartbeatLate(j)
        PROVE  Lifecycle!Next \/ Same
    BY <1>1, <1>2, <1>3, <2>1 DEF Lifecycle!Next
  <2>2. ASSUME NEW w \in Workers, \/ Heartbeat(w) \/ Recover(w) \/ Crash(w) \/ Stop(w)
                                  \/ Shutdown(w) \/ ShutdownWithoutRequeue(w)
        PROVE  Lifecycle!Next \/ Same
    <3>1. CASE Recover(w)
      BY <1>5, <3>1 DEF Lifecycle!Next
    <3>2. CASE Shutdown(w)
      BY <1>6, <3>2 DEF Lifecycle!Next
    <3> QED BY <1>4, <1>7, <2>2, <3>1, <3>2
  <2>3. ASSUME NEW w \in Workers, NEW j \in Jobs,
               Dispatch(w, j) \/ Execute(w, j) \/ Disturb(w, j)
        PROVE  Lifecycle!Next \/ Same
    <3>1. CASE JobWrite(w, j)
      <4>1. {j} \in SUBSET Jobs
        OBVIOUS
      <4> QED BY <1>8, <1>9, <1>10, <1>11, <1>12, <3>1, <4>1 DEF JobWrite, Lifecycle!Next
    <3>2. CASE ~JobWrite(w, j)
      BY <1>13, <2>3, <3>2
    <3> QED BY <3>1, <3>2
  <2> QED BY <2>1, <2>2, <2>3, ActionCases
<1> QED BY <1>14 DEF Same

\* The inductive invariant holds at first ...
LEMMA InitIInv == Init => IInv
<1> SUFFICES ASSUME Init PROVE IInv
  OBVIOUS
<1>1. MaxAttempts \in Nat \ {0}
  BY QueueAssumption DEF QueueAssumption
<1>2. Lifecycle!Inv
  BY <1>1, InitRefines, Lifecycle!InitInv
<1>3. RunInv
  BY PointTypes DEF Init, RunInv, LeaseNamesExecution, pc, IdleRun
<1> QED BY <1>2, <1>3, InitTypeOK DEF IInv

\* ... and every step keeps it.
LEMMA IInvStep == IInv /\ [Next]_vars => IInv'
<1> SUFFICES ASSUME IInv, [Next]_vars PROVE IInv'
  OBVIOUS
<1>1. MaxAttempts \in Nat \ {0}
  BY QueueAssumption DEF QueueAssumption
<1>2. CASE Next
  <2>1. TypeOK' /\ RunInv'
    BY <1>2, TypeStep, RunInvStep DEF IInv
  <2>2. Lifecycle!Inv'
    BY <1>1, <1>2, StepRefines, Lifecycle!InvStep DEF IInv
  <2> QED BY <2>1, <2>2 DEF IInv
<1>3. CASE UNCHANGED vars
  <2>1. TypeOK' /\ RunInv'
    BY <1>3 DEF IInv, vars, TypeOK, RunInv, LeaseNamesExecution, OwnsRunning, pc
  <2>2. UNCHANGED Lifecycle!lvars
    BY <1>3 DEF vars, Lifecycle!lvars
  <2>3. Lifecycle!Inv'
    BY <1>1, <2>2, Lifecycle!InvStep DEF IInv
  <2> QED BY <2>1, <2>3 DEF IInv
<1> QED BY <1>2, <1>3

\* The inductive invariant holds in every behaviour.
THEOREM QueueInvariant == Spec => []IInv
<1> QED BY InitIInv, IInvStep, PTL DEF Spec

\* Every variable keeps its type: each table its columns, each execution its
\* locals, whatever API, workers and faults do.
THEOREM TypeCorrect == Spec => []TypeOK
<1>1. IInv => TypeOK
  BY DEF IInv
<1> QED BY <1>1, QueueInvariant, PTL

\* A row RUNNING under a worker's lease is at the attempt of that worker's
\* execution, so status and lease owner suffice to guard its writes.
THEOREM LeaseIsExecution == Spec => []LeaseNamesExecution
<1>1. IInv => LeaseNamesExecution
  BY DEF IInv, RunInv
<1> QED BY <1>1, QueueInvariant, PTL

\* The job rows only take the steps of the life cycle: no claim, transition,
\* recovery, shutdown or startup failure moves a settled job or overdraws its
\* attempts.
THEOREM QueueImplements == Spec => Implements
<1>1. IInv /\ [Next]_vars => [Lifecycle!Next]_(Lifecycle!lvars)
  <2> SUFFICES ASSUME IInv, [Next]_vars PROVE [Lifecycle!Next]_(Lifecycle!lvars)
    OBVIOUS
  <2>1. CASE Next
    BY <2>1, StepRefines
  <2>2. CASE UNCHANGED vars
    BY <2>2 DEF vars, Lifecycle!lvars
  <2> QED BY <2>1, <2>2
<1> QED BY <1>1, InitRefines, QueueInvariant, PTL DEF Spec, Implements, Lifecycle!Spec

\* The claim's guard suffices, since no other path leads to RUNNING: two jobs
\* of one document are never RUNNING together.
THEOREM DocumentExclusion == Spec => []OneRunningPerDocument
<1>1. IInv => OneRunningPerDocument
  BY DEF IInv, Lifecycle!Inv, Lifecycle!OneRunning, OneRunningPerDocument, SameDocument
<1> QED BY <1>1, QueueInvariant, PTL

\* Creation's guard suffices, since requeue, recovery and shutdown bring back
\* open jobs only: a recipe never has two queued or running jobs.
THEOREM RecipeExclusion == Spec => []OneOpenJobPerRecipe
<1>1. IInv => OneOpenJobPerRecipe
  BY DEF IInv, Lifecycle!Inv, Lifecycle!OneOpen, Lifecycle!Open, OneOpenJobPerRecipe,
     OpenStatuses
<1> QED BY <1>1, QueueInvariant, PTL

\* The claim does not compare attempts with the limit and need not: no path to
\* QUEUED leaves a job without an attempt.
THEOREM AttemptsBounded == Spec => []AttemptBudget
<1>1. IInv => AttemptBudget
  BY DEF IInv, Lifecycle!Inv, Lifecycle!Budget, AttemptBudget
<1> QED BY <1>1, QueueInvariant, PTL

\* The switch's base comparison under the recipe's row lock suffices: the
\* version log is an unbroken history that ends in what is served.
THEOREM HistoryUnbroken == Spec => []VersionHistory
<1>1. Init => VersionHistory
  BY DEF Init, VersionHistory
<1>2. IInv /\ VersionHistory /\ [Next]_vars => VersionHistory'
  <2> SUFFICES ASSUME IInv, VersionHistory, [Next]_vars PROVE VersionHistory'
    OBVIOUS
  <2>1. CASE Next
    BY <2>1, VersionStep DEF IInv
  <2>2. CASE UNCHANGED vars
    BY <2>2 DEF vars, VersionHistory
  <2> QED BY <2>1, <2>2
<1> QED BY <1>1, <1>2, QueueInvariant, PTL DEF Spec
===============================================================================
