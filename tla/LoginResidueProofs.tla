-------------------------- MODULE LoginResidueProofs --------------------------
(* As long as no call to the shared table fails, an attempt that was refused, *)
(* called off or successful leaves no row behind: not even in a call that is  *)
(* still on its way.                                                          *)
EXTENDS MCLoginThrottle, LoginThrottleProofs

\* Without faults the table is always there, and nothing is counted in memory.
QuietInv ==
    /\ \A p \in Processes: downUntil[p] = 0 /\ memory[p] = {}
    /\ \A a \in Attempts: /\ pc[a] \notin {"falling", "unreserving", "lost"}
                          /\ store[a] # "memory"
                          /\ pc[a] = "verifying" /\ store[a] = "none" => Keys(a) = {}

\* The running call of p is awaited, and what it inserts or deletes are the rows
\* of its attempt: all of them, if it is to delete them.
CallOk(p) ==
    LET a == op[p].attempt IN
    /\ Awaited(p) /\ Process(a) = p
    /\ op[p].kind = "reserve" /\ op[p].stage = "executed" =>
         \A r \in op[p].rows: r.attempt = a /\ r.key \in Keys(a)
    /\ op[p].kind \in {"release", "clear"} =>
         /\ op[p].stage = "executed" => \A r \in shared: r.attempt = a => r \in op[p].rows
         /\ op[p].stage = "committed" => \A r \in shared: r.attempt # a

\* A row is of a key of its attempt, which still counts.
RowsInv ==
    \A r \in shared: /\ r.key \in Keys(r.attempt)
                     /\ pc[r.attempt] \notin {"idle", "rejected", "cancelled", "succeeded"}

CalmInv == QuietInv /\ RowsInv /\ \A p \in Processes: op[p] # NoOp => CallOk(p)

-------------------------------------------------------------------------------

LEMMA InitIsCalm == Init => CalmInv
  BY DEF Init, CalmInv, QuietInv, RowsInv

\* An attempt that waits for no call goes on to a point at which its rows count,
\* or it has no rows.
LEMMA MoveStaysCalm ==
    ASSUME TypeOK, CalmInv, NEW a \in Attempts, pc[a] \notin Calling,
           NEW point, point \notin {"idle", "falling", "unreserving", "lost"}, GoTo(a, point),
           point \in {"rejected", "cancelled", "succeeded"} => Keys(a) = {},
           NEW place \in {"none", "shared"}, store' = [store EXCEPT ![a] = place],
           point = "verifying" /\ place = "none" => Keys(a) = {},
           \A p \in Processes: memory'[p] = {} /\ downUntil'[p] = 0,
           UNCHANGED <<client, op, shared>>
    PROVE  CalmInv'
<1>1. /\ \A b \in Attempts: pc'[b] = IF b = a THEN point ELSE pc[b]
      /\ \A b \in Attempts: store'[b] = IF b = a THEN place ELSE store[b]
      /\ \A b: Keys(b)' = Keys(b) /\ Process(b)' = Process(b)
  BY DEF GoTo, TypeOK, Keys, LoginKey, IpKey, Process
<1>2. QuietInv'
  BY <1>1 DEF CalmInv, QuietInv
<1>3. RowsInv'
  <2> SUFFICES ASSUME NEW r \in shared
               PROVE  /\ r.key \in Keys(r.attempt)
                      /\ pc'[r.attempt] \notin {"idle", "rejected", "cancelled", "succeeded"}
    BY <1>1 DEF RowsInv
  <2>1. r.attempt \in Attempts
    BY DEF TypeOK, Row
  <2> QED
    BY <2>1, <1>1 DEF CalmInv, RowsInv
<1>4. ASSUME NEW p \in Processes, op[p] # NoOp
      PROVE  CallOk(p)'
  <2>1. CallOk(p) /\ op[p].attempt \in Attempts /\ op[p].attempt # a
    BY <1>4, CallersTyped DEF CalmInv, CallOk, Awaited
  <2> QED
    BY <2>1, <1>1 DEF CallOk, Awaited
<1> QED
  BY <1>2, <1>3, <1>4 DEF CalmInv

LEMMA AttemptsStayCalm ==
    ASSUME TypeOK, CalmInv, NEW a \in Attempts,
           Begin(a) \/ MarkAvailable(a) \/ Decide(a) \/ Verify(a)
    PROVE  CalmInv'
<1>1. /\ Process(a) \in Processes
      /\ \A p \in Processes: memory[p] = {} /\ downUntil[p] = 0
      /\ store[a] \in {"none", "shared"} /\ store = [store EXCEPT ![a] = store[a]]
      /\ memory \in [Processes -> SUBSET Row] /\ downUntil \in [Processes -> Nat]
  BY KeyTypes DEF TypeOK, CalmInv, QuietInv
<1>2. CASE Begin(a)
  <2>1. PICK point \in {"verifying", "reserving"}:
            GoTo(a, point) /\ (point = "verifying" => Keys(a) = {})
    BY <1>1, <1>2 DEF Begin, Available
  <2>2. pc[a] = "idle" /\ UNCHANGED <<client, op, shared, store, memory, downUntil>>
    BY <1>2 DEF Begin
  <2>3. pc[a] \notin Calling
    BY <2>2, CallTables
  <2> QED
    BY <1>1, <2>1, <2>2, <2>3, MoveStaysCalm
<1>3. CASE MarkAvailable(a)
  <2>1. /\ pc[a] = "answered" /\ GoTo(a, "deciding")
        /\ downUntil' = [downUntil EXCEPT ![Process(a)] = 0]
        /\ UNCHANGED <<client, op, shared, store, memory>>
    BY <1>3 DEF MarkAvailable
  <2>2. pc[a] \notin Calling /\ \A p \in Processes: downUntil'[p] = 0
    BY <1>1, <2>1, CallTables
  <2> QED
    BY <1>1, <2>1, <2>2, MoveStaysCalm
<1>4. CASE Decide(a)
  <2>1. /\ pc[a] = "deciding" /\ UNCHANGED <<client, op, shared, downUntil>>
        /\ memory' = [memory EXCEPT ![Process(a)] = Swept(memory[Process(a)], a)]
    BY <1>4 DEF Decide
  <2>2. pc[a] \notin Calling /\ \A p \in Processes: memory'[p] = {}
    BY <1>1, <2>1, CallTables DEF Swept
  <2>3. \/ GoTo(a, "verifying") /\ store' = [store EXCEPT ![a] = "shared"]
        \/ GoTo(a, "releasing") /\ store' = store
    BY <1>4 DEF Decide
  <2>4. CASE GoTo(a, "verifying") /\ store' = [store EXCEPT ![a] = "shared"]
    BY <1>1, <2>1, <2>2, <2>4, MoveStaysCalm
  <2>5. CASE GoTo(a, "releasing") /\ store' = store
    BY <1>1, <2>1, <2>2, <2>5, MoveStaysCalm
  <2> QED
    BY <2>3, <2>4, <2>5
<1>5. CASE Verify(a)
  <2>1. /\ pc[a] = "verifying" /\ UNCHANGED <<client, op, shared, downUntil, store>>
        /\ store[a] # "shared" => store[a] = "none" /\ Keys(a) = {}
    BY <1>1, <1>5 DEF Verify, VerifyFails, VerifySucceeds, VerifyErrors, CalmInv, QuietInv
  <2>2. pc[a] \notin Calling
    BY <2>1, CallTables
  <2>3. PICK point \in {"purging", "failed", "clearing", "succeeded", "cancelling", "cancelled"}:
            /\ GoTo(a, point)
            /\ point \in {"succeeded", "cancelled"} => store[a] # "shared"
    BY <1>5 DEF Verify, VerifyFails, VerifySucceeds, VerifyErrors
  <2>4. \A p \in Processes: Unreserved(a)[p] = {}
    BY <1>1 DEF Unreserved
  <2>5. \A p \in Processes: memory'[p] = {}
    <3>1. CASE VerifySucceeds(a)
      <4>1. memory' = [Unreserved(a) EXCEPT ![Process(a)] =
                          @ \ {r \in memory[Process(a)]: r.key = LoginKey(a)}]
        BY <3>1 DEF VerifySucceeds
      <4>2. DOMAIN Unreserved(a) = Processes
        BY <1>1 DEF Unreserved
      <4> QED
        BY <4>1, <4>2, <2>4
    <3>2. CASE VerifyFails(a) \/ VerifyErrors(a)
      BY <3>2, <2>4, <1>1 DEF VerifyFails, VerifyErrors
    <3> QED
      BY <1>5, <3>1, <3>2 DEF Verify
  <2> QED
    BY <1>1, <2>1, <2>2, <2>3, <2>5, MoveStaysCalm
<1> QED
  BY <1>2, <1>3, <1>4, <1>5

\* A call is made by the attempt that waits for it.
LEMMA CallStartsCalm ==
    ASSUME TypeOK, CalmInv, NEW a \in Attempts, CallStarts(a)
    PROVE  CalmInv'
<1>1. /\ Process(a) \in Processes /\ pc[a] \in Calling
      /\ \A p \in Processes: op'[p] = IF p = Process(a)
             THEN [kind |-> KindOf[pc[a]], attempt |-> a, stage |-> "started", rows |-> {}]
             ELSE op[p]
      /\ UNCHANGED <<client, pc, store, shared, memory, downUntil>>
  BY KeyTypes DEF CallStarts, TypeOK, attemptVars
<1>2. QuietInv' /\ RowsInv'
  BY <1>1 DEF CalmInv, QuietInv, RowsInv, Keys, LoginKey, IpKey
<1>3. ASSUME NEW p \in Processes, op'[p] # NoOp
      PROVE  CallOk(p)'
  <2>1. CASE p = Process(a)
    <3>1. op'[p].kind = KindOf[pc[a]] /\ op'[p].attempt = a /\ op'[p].stage = "started"
      BY <1>1, <2>1
    <3> QED
      BY <1>1, <1>3, <2>1, <3>1 DEF CallOk, Awaited, Process
  <2>2. CASE p # Process(a)
    <3>1. op'[p] = op[p] /\ CallOk(p)
      BY <1>1, <1>3, <2>2 DEF CalmInv
    <3> QED
      BY <1>1, <3>1 DEF CallOk, Awaited, Process, Keys, LoginKey, IpKey
  <2> QED
    BY <2>1, <2>2
<1> QED
  BY <1>2, <1>3 DEF CalmInv

\* The statement of a release or a success reaches all rows of its attempt, as
\* they are of its keys.
LEMMA ExecutesCalm ==
    ASSUME TypeOK, CalmInv, NEW p \in Processes, StoreExecutes(p)
    PROVE  CalmInv'
<1> DEFINE a == op[p].attempt
<1>1. /\ op[p] # NoOp /\ a \in Attempts
      /\ op[p] \in [kind: {"reserve", "release", "purge", "clear"}, attempt: Attempts,
                    stage: {"started", "executed", "committed"}, rows: SUBSET Row]
  BY OpTypes DEF StoreExecutes
<1>2. /\ UNCHANGED <<client, pc, store, shared, memory, downUntil>>
      /\ \A q \in Processes \ {p}: op'[q] = op[q]
      /\ op'[p].kind = op[p].kind /\ op'[p].attempt = a /\ op'[p].stage = "executed"
      /\ op'[p].rows = Affected(op[p].kind, a)
  BY <1>1 DEF StoreExecutes, TypeOK
<1>3. QuietInv' /\ RowsInv'
  BY <1>2 DEF CalmInv, QuietInv, RowsInv, Keys, LoginKey, IpKey
<1>4. ASSUME NEW q \in Processes, op'[q] # NoOp
      PROVE  CallOk(q)'
  <2>1. CASE q # p
    <3>1. op'[q] = op[q] /\ CallOk(q)
      BY <1>2, <1>4, <2>1 DEF CalmInv
    <3> QED
      BY <1>2, <3>1 DEF CallOk, Awaited, Process, Keys, LoginKey, IpKey
  <2>2. CASE q = p
    <3>1. Awaited(p)' /\ Process(a)' = p
      BY <1>1, <1>2, <1>4, <2>2 DEF CalmInv, CallOk, Awaited, Process
    <3>2. op[p].kind = "reserve" =>
            \A r \in Affected(op[p].kind, a): r.attempt = a /\ r.key \in Keys(a)
      BY DEF Affected, NewRows
    <3>3. op[p].kind \in {"release", "clear"} =>
            \A r \in shared: r.attempt = a => r \in Affected(op[p].kind, a)
      BY DEF Affected, CalmInv, RowsInv
    <3> QED
      BY <1>2, <2>2, <3>1, <3>2, <3>3 DEF CallOk, Keys, LoginKey, IpKey
  <2> QED
    BY <2>1, <2>2
<1> QED
  BY <1>3, <1>4 DEF CalmInv

\* A reservation commits rows of an attempt that still waits for it; what a
\* release or a success commits leaves none.
LEMMA CommitsCalm ==
    ASSUME TypeOK, CalmInv, NEW p \in Processes, StoreCommits(p)
    PROVE  CalmInv'
<1> DEFINE a == op[p].attempt
<1>1. /\ op[p] # NoOp /\ a \in Attempts /\ CallOk(p)
      /\ op[p] \in [kind: {"reserve", "release", "purge", "clear"}, attempt: Attempts,
                    stage: {"started", "executed", "committed"}, rows: SUBSET Row]
  BY OpTypes DEF StoreCommits, CalmInv
<1>2. /\ op[p].stage = "executed"
      /\ UNCHANGED <<client, pc, store, memory, downUntil>>
      /\ \A q \in Processes \ {p}: op'[q] = op[q]
      /\ op'[p].kind = op[p].kind /\ op'[p].attempt = a /\ op'[p].stage = "committed"
      /\ IF op[p].kind = "reserve" THEN shared' = shared \cup op[p].rows
                                   ELSE shared' = shared \ op[p].rows
  BY <1>1 DEF StoreCommits, TypeOK
<1>3. \A b: Keys(b)' = Keys(b) /\ Process(b)' = Process(b)
  BY <1>2 DEF Keys, LoginKey, IpKey, Process
<1>4. op[p].kind = "reserve" =>
        /\ pc[a] = "reserving"
        /\ \A r \in op[p].rows: r.attempt = a /\ r.key \in Keys(a)
  BY <1>1, <1>2, CallTables DEF CallOk, Awaited
<1>5. QuietInv'
  BY <1>2, <1>3 DEF CalmInv, QuietInv
<1>6. ASSUME NEW r \in shared'
      PROVE  r \in shared \/ (op[p].kind = "reserve" /\ r \in op[p].rows)
  <2>1. CASE op[p].kind = "reserve"
    BY <1>2, <1>6, <2>1
  <2>2. CASE op[p].kind # "reserve"
    BY <1>2, <1>6, <2>2
  <2> QED
    BY <2>1, <2>2
<1>7. RowsInv'
  BY <1>2, <1>3, <1>4, <1>6 DEF CalmInv, RowsInv
<1>8. ASSUME NEW q \in Processes, op'[q] # NoOp
      PROVE  CallOk(q)'
  <2>1. CASE q # p
    <3>1. op'[q] = op[q] /\ CallOk(q) /\ Process(a) = p /\ Process(op[q].attempt) = q
      BY <1>1, <1>2, <1>8, <2>1 DEF CalmInv, CallOk
    <3>2. \A r \in shared': r.attempt = op[q].attempt => r \in shared
      BY <1>4, <1>6, <2>1, <3>1
    <3> QED
      BY <1>2, <1>3, <3>1, <3>2 DEF CallOk, Awaited
  <2>2. CASE q = p
    <3>1. Awaited(p)' /\ Process(a)' = p
      BY <1>1, <1>2, <1>3, <1>8, <2>2 DEF CallOk, Awaited
    <3>2. op[p].kind \in {"release", "clear"} => \A r \in shared': r.attempt # a
      BY <1>1, <1>2 DEF CallOk
    <3> QED
      BY <1>2, <1>3, <2>2, <3>1, <3>2 DEF CallOk
  <2> QED
    BY <2>1, <2>2
<1> QED
  BY <1>5, <1>7, <1>8 DEF CalmInv

\* An attempt whose release or success is answered has no rows any more.
LEMMA AnswersCalm ==
    ASSUME TypeOK, CalmInv, NEW p \in Processes, StoreAnswers(p)
    PROVE  CalmInv'
<1> DEFINE a == op[p].attempt
<1>1. op[p] # NoOp /\ a \in Attempts /\ CallOk(p)
  BY OpTypes DEF StoreAnswers, CalmInv
<1>2. /\ op[p].stage = "committed" /\ Awaited(p)
      /\ UNCHANGED <<client, store, shared, memory, downUntil>>
      /\ \A q \in Processes: op'[q] = IF q = p THEN NoOp ELSE op[q]
      /\ \A b \in Attempts: pc'[b] = IF b = a THEN AfterCall[pc[a]] ELSE pc[b]
  BY <1>1 DEF StoreAnswers, CallOk, GoTo, TypeOK
<1>3. \A b: Keys(b)' = Keys(b) /\ Process(b)' = Process(b)
  BY <1>2 DEF Keys, LoginKey, IpKey, Process
<1>4. /\ AfterCall[pc[a]] \in {"answered", "rejected", "cancelled", "failed", "succeeded"}
      /\ AfterCall[pc[a]] \in {"rejected", "cancelled", "succeeded"} =>
           op[p].kind \in {"release", "clear"}
  BY <1>2, CallTables DEF Awaited
<1>5. QuietInv'
  BY <1>2, <1>3, <1>4 DEF CalmInv, QuietInv
<1>6. RowsInv'
  <2> SUFFICES ASSUME NEW r \in shared
               PROVE  /\ r.key \in Keys(r.attempt)
                      /\ pc'[r.attempt] \notin {"idle", "rejected", "cancelled", "succeeded"}
    BY <1>2, <1>3 DEF RowsInv
  <2>1. r.attempt \in Attempts
    BY DEF TypeOK, Row
  <2>2. op[p].kind \in {"release", "clear"} => r.attempt # a
    BY <1>1, <1>2 DEF CallOk
  <2> QED
    BY <2>1, <2>2, <1>2, <1>4 DEF CalmInv, RowsInv
<1>7. ASSUME NEW q \in Processes, op'[q] # NoOp
      PROVE  CallOk(q)'
  <2>1. /\ q # p /\ op'[q] = op[q] /\ op[q] # NoOp /\ CallOk(q)
        /\ Process(a) = p /\ Process(op[q].attempt) = q
    BY <1>1, <1>2, <1>7 DEF CalmInv, CallOk
  <2>2. op[q].attempt \in Attempts /\ op[q].attempt # a
    BY <2>1, CallersTyped
  <2>3. pc'[op[q].attempt] = pc[op[q].attempt]
    BY <1>2, <2>2
  <2> QED
    BY <1>2, <1>3, <2>1, <2>3 DEF CallOk, Awaited
<1> QED
  BY <1>5, <1>6, <1>7 DEF CalmInv

\* Without a fault, every step stays calm.
LEMMA CalmStepKeeps ==
    ASSUME TypeOK, CalmInv, Work \/ Tick \/ UNCHANGED vars
    PROVE  CalmInv'
<1>1. CASE Tick \/ UNCHANGED vars
  <2>1. UNCHANGED <<client, pc, store, op, shared, memory, downUntil>>
    BY <1>1 DEF Tick, vars, attemptVars
  <2> QED
    BY <2>1 DEF CalmInv, QuietInv, RowsInv, CallOk, Awaited, Process, Keys, LoginKey, IpKey
<1>2. ASSUME NEW a \in Attempts, FallBack(a) \/ Unreserve(a)
      PROVE  FALSE
  BY <1>2 DEF FallBack, Unreserve, CalmInv, QuietInv
<1>3. ASSUME NEW a \in Attempts, Begin(a) \/ Step(a)
      PROVE  CalmInv'
  BY <1>2, <1>3, AttemptsStayCalm, CallStartsCalm DEF Step
<1>4. ASSUME NEW p \in Processes, StoreStep(p)
      PROVE  CalmInv'
  BY <1>4, ExecutesCalm, CommitsCalm, AnswersCalm DEF StoreStep
<1> QED
  BY <1>1, <1>3, <1>4 DEF Work

-------------------------------------------------------------------------------

\* The specification that remembers faults is the one without the memory, up to
\* the last tick; so all that is proved of the throttle is true of it.
THEOREM FaultyIsThrottle == FaultySpec => Spec
<1>1. MCInit => Init
  BY DEF MCInit
<1>2. [MCNext]_<<vars, troubled>> => [Next]_vars
  BY DEF MCNext, Next
<1> QED
  BY <1>1, <1>2, PTL DEF FaultySpec, Spec

\* Attempts that were refused, called off or successful leave no row behind as
\* long as no call fails and no process ends.  (release, clear, record_failure)
THEOREM CalmHasNoResidue == FaultySpec => []CalmLeavesNoResidue
<1> DEFINE Inv == ~troubled => CalmInv
<1>1. MCInit => Inv
  BY InitIsCalm DEF MCInit
<1>2. TypeOK /\ Inv /\ [MCNext]_<<vars, troubled>> => Inv'
  BY CalmStepKeeps DEF MCNext
<1>3. TypeOK /\ Inv => CalmLeavesNoResidue
  BY DEF CalmInv, QuietInv, RowsInv, CalmLeavesNoResidue, NoResidue
<1>4. FaultySpec => []TypeOK
  BY FaultyIsThrottle, ThrottleTyped, PTL
<1> QED
  <2> HIDE DEF Inv
  <2> QED
    BY <1>1, <1>2, <1>3, <1>4, PTL DEF FaultySpec
===============================================================================
