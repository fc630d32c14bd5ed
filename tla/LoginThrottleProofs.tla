-------------------------- MODULE LoginThrottleProofs --------------------------
(* The login throttle lets no more than the limit through, for every set of   *)
(* attempts, processes, login ids and addresses, every limit and window.      *)
(*                                                                            *)
(* A reservation commits its rows before it reads the others'.  So among the  *)
(* attempts that are let through, each one has read the rows of all that      *)
(* committed before it (SeenInv), and there were fewer of them than the limit *)
(* (RankInv).  Numbering each attempt by how many came before it then numbers *)
(* all of them below the limit, and no two alike.                             *)
(*                                                                            *)
(* The last section is about one step: the wait that a refused client is told *)
(* is the least one after which its keys are below their limits.              *)
EXTENDS LoginThrottle, FiniteSetTheorems, WellFoundedInduction, TLAPS

\* b's reservation is committed and is still to be counted by others.
Standing(b) ==
    /\ order[b] > 0
    /\ pc[b] \in {"reserving", "answered", "deciding"} \/ (store[b] = "shared" /\ Admitted(b))

\* The row of b for key k is in the window and was not erased by a success.
Alive(b, k) ==
    /\ k \in Keys(b)
    /\ InWindow(reserved[b])
    /\ [attempt |-> b, key |-> k, where |-> "shared"] \notin forgiven

RowOf(b, k) == [attempt |-> b, key |-> k, at |-> reserved[b]]

\* The attempts whose rows a reads when it counts key k.
Before(a, k) == {b \in Attempts: Standing(b) /\ Alive(b, k) /\ order[b] < order[a]}

FiniteInv ==
    /\ IsFiniteSet(shared)
    /\ \A p \in Processes: IsFiniteSet(memory[p]) /\ IsFiniteSet(op[p].rows)
    /\ \A a \in Attempts: IsFiniteSet(seen[a])

\* What p's running call may still do.
OpOk(p) ==
    LET a == op[p].attempt IN
    /\ Process(a) = p
    /\ op[p].kind = "reserve" =>
         /\ pc[a] # "idle"
         /\ op[p].stage # "committed" => order[a] = 0
         /\ op[p].stage = "executed" /\ pc[a] = "reserving" =>
              \A k \in Keys(a): RowOf(a, k) \in op[p].rows
         /\ op[p].stage = "committed" /\ pc[a] = "reserving" => order[a] > 0
    /\ op[p].kind = "release" =>
         /\ pc[a] \in {"releasing", "cancelling", "rejected", "cancelled"}
         /\ op[p].stage = "executed" => \A r \in op[p].rows: r.attempt = a
    /\ op[p].kind = "clear" =>
         /\ pc[a] \in {"clearing", "succeeded"}
         /\ op[p].stage = "executed" =>
              \A r \in op[p].rows: r.attempt = a \/ r.key = LoginKey(a)
    /\ op[p].kind = "purge" /\ op[p].stage = "executed" =>
         \A r \in op[p].rows: ~InWindow(r.at)

OpInv == \A p \in Processes: op[p] # NoOp => OpOk(p)

\* Where a stands agrees with where it is counted and with its commit.
StoreOk(a) ==
    /\ pc[a] \in {"idle", "reserving", "falling", "answered", "deciding", "releasing",
                  "unreserving", "rejected"} => store[a] = "none"
    /\ pc[a] = "idle" => order[a] = 0
    /\ pc[a] = "reserving" /\ order[a] > 0 =>
         /\ op[Process(a)].attempt = a
         /\ op[Process(a)].kind = "reserve"
         /\ op[Process(a)].stage = "committed"
    /\ pc[a] \in {"answered", "deciding"} \/ store[a] = "shared" => order[a] > 0

StoreInv == \A a \in Attempts: StoreOk(a)

OrderInv == \A a, b \in Attempts:
    /\ order[a] <= commits
    /\ order[a] = order[b] /\ order[a] > 0 => a = b

RowInv == \A b \in Attempts: \A k \in Keys(b):
    Standing(b) /\ Alive(b, k) => RowOf(b, k) \in shared

MemoryInv == \A b \in Attempts: \A k \in Keys(b):
    store[b] = "memory" /\ Admitted(b) /\ Remembered(b, k) =>
      RowOf(b, k) \in memory[Process(b)]

SeenInv == \A a \in Attempts: pc[a] \in {"answered", "deciding"} =>
    \A k \in Keys(a): \A b \in Before(a, k):
        \E r \in seen[a]: r.attempt = b /\ r.key = k

RankInv == \A a \in Attempts: store[a] = "shared" /\ Admitted(a) =>
    \A k \in Keys(a): Cardinality(Before(a, k)) < Limit(k)

Shape == TypeOK /\ FiniteInv /\ OpInv /\ StoreInv /\ OrderInv
IInv == Shape /\ RowInv /\ MemoryInv /\ SeenInv /\ RankInv

-------------------------------------------------------------------------------
(* Tables and types *)

\* The calls an attempt waits for, and where it goes on afterwards.
LEMMA CallTables ==
    /\ Calling = {"reserving", "releasing", "cancelling", "purging", "clearing"}
    /\ KindOf["reserving"] = "reserve"
    /\ KindOf["releasing"] = "release" /\ KindOf["cancelling"] = "release"
    /\ KindOf["purging"] = "purge" /\ KindOf["clearing"] = "clear"
    /\ AfterCall["reserving"] = "answered"
    /\ AfterCall["releasing"] = "rejected" /\ AfterCall["cancelling"] = "cancelled"
    /\ AfterCall["purging"] = "failed" /\ AfterCall["clearing"] = "succeeded"
    /\ AfterError["reserving"] = "falling"
    /\ AfterError["releasing"] = "rejected" /\ AfterError["cancelling"] = "cancelled"
    /\ AfterError["purging"] = "failed" /\ AfterError["clearing"] = "succeeded"
  BY DEF Calling, KindOf, AfterCall, AfterError

LEMMA KeyTypes ==
  ASSUME TypeOK, NEW a \in Attempts
  PROVE  /\ Process(a) \in Processes
         /\ LoginKey(a) \in Key /\ IpKey(a) \in Key
         /\ Keys(a) \subseteq Key /\ IsFiniteSet(Keys(a))
         /\ \A k \in Keys(a): Limit(k) \in Nat
         /\ NewRows(a) \subseteq Row
<1>1. client[a] \in Clients
  BY DEF TypeOK
<1>2. /\ Process(a) \in Processes
      /\ LoginKey(a) \in Key /\ IpKey(a) \in Key
  BY <1>1 DEF Clients, Process, LoginKey, IpKey, Key
<1>3. Keys(a) \subseteq Key
  BY <1>2 DEF Keys
<1>4. IsFiniteSet(Keys(a))
  <2>1. IsFiniteSet({LoginKey(a)})
    BY FS_Singleton
  <2>2. IsFiniteSet({LoginKey(a)} \cup {IpKey(a)})
    BY <2>1, FS_AddElement
  <2>3. QED
    BY <2>2, FS_Subset DEF Keys
<1>5. \A k \in Keys(a): Limit(k) \in Nat
  BY ThrottleAssumption DEF Limit
<1>6. NewRows(a) \subseteq Row
  BY <1>3 DEF NewRows, Row, TypeOK
<1>7. QED
  BY <1>2, <1>3, <1>4, <1>5, <1>6

\* A running call is not NoOp, and is typed.
LEMMA OpTypes ==
  ASSUME TypeOK, NEW p \in Processes,
         op[p] # NoOp \/ op[p].stage \in {"started", "executed", "committed"}
            \/ op[p].attempt \in Attempts
  PROVE  /\ op[p] # NoOp
         /\ op[p] \in [kind: {"reserve", "release", "purge", "clear"},
                       attempt: Attempts,
                       stage: {"started", "executed", "committed"},
                       rows: SUBSET Row]
BY ThrottleAssumption DEF TypeOK, NoOp

LEMMA AffectedTypes ==
  ASSUME TypeOK, NEW a \in Attempts,
         NEW kind \in {"reserve", "release", "purge", "clear"}
  PROVE  Affected(kind, a) \subseteq Row
BY KeyTypes DEF Affected, TypeOK

LEMMA RecentTypes ==
  ASSUME TypeOK, NEW a \in Attempts, NEW rows \in SUBSET Row,
         NEW where \in {"shared", "memory"}
  PROVE  RecentRows(rows, a, where) \in SUBSET SeenRow
BY DEF RecentRows, SeenRow, Row, TypeOK

LEMMA InitIsTyped == Init => TypeOK
BY DEF Init, TypeOK, Clients, Points, NoOp

LEMMA TypesKept ==
  ASSUME TypeOK, [Next]_vars
  PROVE  TypeOK'
<1> USE ThrottleAssumption
<1>1. ASSUME NEW a \in Attempts, Begin(a) \/ MarkAvailable(a)
      PROVE  TypeOK'
  BY <1>1, CallTables DEF TypeOK, Begin, MarkAvailable, GoTo, Points, history
<1>2. ASSUME NEW a \in Attempts, CallStarts(a)
      PROVE  TypeOK'
  BY <1>2, CallTables, KeyTypes DEF TypeOK, CallStarts, attemptVars, NoOp
<1>3. ASSUME NEW a \in Attempts, Decide(a)
      PROVE  TypeOK'
  <2>1. Process(a) \in Processes
    BY KeyTypes
  <2>2. pc' \in [Attempts -> Points]
    BY <1>3, CallTables DEF Decide, GoTo, TypeOK, Points
  <2>3. store' \in [Attempts -> {"none", "shared", "memory"}]
        /\ DOMAIN retryAfter' = Attempts
    BY <1>3 DEF Decide, TypeOK
  <2>4. memory' \in [Processes -> SUBSET Row]
    BY <1>3, <2>1 DEF Decide, TypeOK, Swept
  <2>5. QED
    BY <1>3, <2>2, <2>3, <2>4 DEF Decide, TypeOK, history
<1>4. ASSUME NEW a \in Attempts, FallBack(a)
      PROVE  TypeOK'
  <2>1. Process(a) \in Processes /\ NewRows(a) \subseteq Row
    BY KeyTypes
  <2>2. pc' \in [Attempts -> Points]
    BY <1>4 DEF FallBack, GoTo, TypeOK, Points
  <2>3. /\ store' \in [Attempts -> {"none", "shared", "memory"}]
        /\ DOMAIN retryAfter' = Attempts
        /\ reserved' \in [Attempts -> Nat]
    BY <1>4 DEF FallBack, TypeOK
  <2>4. memory' \in [Processes -> SUBSET Row]
    BY <1>4, <2>1 DEF FallBack, TypeOK, Swept
  <2>5. QED
    BY <1>4, <2>2, <2>3, <2>4 DEF FallBack, TypeOK
<1>5. ASSUME NEW a \in Attempts, Unreserve(a)
      PROVE  TypeOK'
  BY <1>5, KeyTypes DEF TypeOK, Unreserve, Unreserved, GoTo, Points, Ended, history
<1>6. ASSUME NEW a \in Attempts, VerifyFails(a)
      PROVE  TypeOK'
  BY <1>6, CallTables DEF TypeOK, VerifyFails, GoTo, Points, Ended, history
<1>7. ASSUME NEW a \in Attempts, VerifySucceeds(a)
      PROVE  TypeOK'
  <2>1. memory' \in [Processes -> SUBSET Row]
    BY <1>7, KeyTypes DEF TypeOK, VerifySucceeds, Unreserved
  <2>2. forgiven' \in SUBSET Record
    BY <1>7, KeyTypes DEF TypeOK, VerifySucceeds, Record, Row
  <2>3. pc' \in [Attempts -> Points]
    BY <1>7, CallTables DEF TypeOK, VerifySucceeds, GoTo, Points, Ended
  <2>4. QED
    BY <1>7, <2>1, <2>2, <2>3 DEF TypeOK, VerifySucceeds
<1>8. ASSUME NEW a \in Attempts, VerifyErrors(a)
      PROVE  TypeOK'
  BY <1>8, KeyTypes, CallTables
     DEF TypeOK, VerifyErrors, Unreserved, GoTo, Points, Ended, history
<1>9. ASSUME NEW a \in Attempts, CallRefused(a) \/ CallTimesOut(a)
      PROVE  TypeOK'
  <2>1. pc[a] \in Calling /\ Raise(a)
    BY <1>9, KeyTypes, OpTypes
       DEF CallRefused, CallTimesOut, Running, Awaited
  <2>2. pc' \in [Attempts -> Points]
    BY <2>1, CallTables DEF TypeOK, Raise, GoTo, Points, Ended
  <2>3. downUntil' \in [Processes -> Nat]
    BY <2>1, KeyTypes DEF TypeOK, Raise
  <2>4. QED
    BY <1>9, <2>2, <2>3 DEF TypeOK, CallRefused, CallTimesOut, history
<1>10. ASSUME NEW p \in Processes, CallFails(p)
      PROVE  TypeOK'
  <2>1. op[p].attempt \in Attempts
    BY <1>10, OpTypes DEF CallFails
  <2>2. CASE Awaited(p)
    <3>1. pc[op[p].attempt] \in Calling /\ Raise(op[p].attempt)
      BY <1>10, <2>2 DEF CallFails, Awaited
    <3>2. pc' \in [Attempts -> Points]
      BY <2>1, <3>1, CallTables DEF TypeOK, Raise, GoTo, Points, Ended
    <3>3. downUntil' \in [Processes -> Nat]
      BY <2>1, <3>1, KeyTypes DEF TypeOK, Raise
    <3>4. QED
      BY <1>10, <3>2, <3>3 DEF TypeOK, CallFails, history
  <2>3. CASE ~Awaited(p)
    BY <1>10, <2>3 DEF TypeOK, CallFails, history
  <2>4. QED
    BY <2>2, <2>3
<1>11. ASSUME NEW p \in Processes, StoreExecutes(p)
      PROVE  TypeOK'
  <2>1. /\ op[p].attempt \in Attempts
        /\ op[p] \in [kind: {"reserve", "release", "purge", "clear"},
                      attempt: Attempts,
                      stage: {"started", "executed", "committed"},
                      rows: SUBSET Row]
    BY <1>11, OpTypes DEF StoreExecutes
  <2>2. Affected(op[p].kind, op[p].attempt) \subseteq Row
    BY <2>1, AffectedTypes
  <2>3. op' \in [Processes -> {NoOp} \cup
                    [kind: {"reserve", "release", "purge", "clear"},
                     attempt: Attempts,
                     stage: {"started", "executed", "committed"},
                     rows: SUBSET Row]]
    BY <1>11, <2>1, <2>2 DEF TypeOK, StoreExecutes
  <2>4. reserved' \in [Attempts -> Nat]
    BY <1>11, <2>1 DEF TypeOK, StoreExecutes
  <2>5. QED
    BY <1>11, <2>3, <2>4 DEF TypeOK, StoreExecutes
<1>12. ASSUME NEW p \in Processes, StoreCommits(p)
      PROVE  TypeOK'
  <2>1. /\ op[p].attempt \in Attempts
        /\ op[p] \in [kind: {"reserve", "release", "purge", "clear"},
                      attempt: Attempts,
                      stage: {"started", "executed", "committed"},
                      rows: SUBSET Row]
    BY <1>12, OpTypes DEF StoreCommits
  <2>2. op' \in [Processes -> {NoOp} \cup
                    [kind: {"reserve", "release", "purge", "clear"},
                     attempt: Attempts,
                     stage: {"started", "executed", "committed"},
                     rows: SUBSET Row]]
    BY <1>12, <2>1 DEF TypeOK, StoreCommits
  <2>3. shared' \in SUBSET Row /\ commits' \in Nat /\ order' \in [Attempts -> Nat]
    BY <1>12, <2>1 DEF TypeOK, StoreCommits
  <2>4. forgiven' \in SUBSET Record
    BY <1>12, <2>1 DEF TypeOK, StoreCommits, Record, Row
  <2>5. QED
    BY <1>12, <2>2, <2>3, <2>4 DEF TypeOK, StoreCommits
<1>13. ASSUME NEW p \in Processes, StoreAnswers(p)
      PROVE  TypeOK'
  <2>1. op[p].attempt \in Attempts
    BY <1>13, OpTypes DEF StoreAnswers
  <2>2. op' \in [Processes -> {NoOp} \cup
                    [kind: {"reserve", "release", "purge", "clear"},
                     attempt: Attempts,
                     stage: {"started", "executed", "committed"},
                     rows: SUBSET Row]]
    BY <1>13 DEF TypeOK, StoreAnswers
  <2>3. pc' \in [Attempts -> Points]
    BY <1>13, <2>1, CallTables
       DEF TypeOK, StoreAnswers, Awaited, GoTo, Points, Ended
  <2>4. seen' \in [Attempts -> SUBSET SeenRow]
    <3>1. RecentRows(shared, op[p].attempt, "shared") \in SUBSET SeenRow
      BY <2>1, RecentTypes DEF TypeOK
    <3>2. QED
      BY <1>13, <2>1, <3>1 DEF TypeOK, StoreAnswers
  <2>5. QED
    BY <1>13, <2>2, <2>3, <2>4 DEF TypeOK, StoreAnswers, history
<1>14. ASSUME NEW p \in Processes, Crash(p)
      PROVE  TypeOK'
  <2>1. pc' \in [Attempts -> Points]
    BY <1>14, CallTables DEF TypeOK, Crash, AfterCrash, Points, Ended
  <2>2. forgiven' \in SUBSET Record
    BY <1>14 DEF TypeOK, Crash, Record, Row
  <2>3. QED
    BY <1>14, <2>1, <2>2 DEF TypeOK, Crash
<1>15. CASE Tick
  BY <1>15 DEF TypeOK, Tick, attemptVars
<1>16. CASE UNCHANGED vars
  BY <1>16 DEF TypeOK, vars
<1>17. QED
  BY <1>1, <1>2, <1>3, <1>4, <1>5, <1>6, <1>7, <1>8, <1>9, <1>10, <1>11, <1>12,
     <1>13, <1>14, <1>15, <1>16
     DEF Next, Work, Fault, Step, Verify, StoreStep

-------------------------------------------------------------------------------
(* Finiteness *)

LEMMA NewRowsFinite ==
  ASSUME TypeOK, NEW a \in Attempts
  PROVE  IsFiniteSet(NewRows(a))
<1> DEFINE f == [k \in Keys(a) |-> [attempt |-> a, key |-> k, at |-> clock]]
<1>1. f \in Surjection(Keys(a), NewRows(a))
  BY DEF Surjection, NewRows
<1>2. QED
  BY <1>1, KeyTypes, FS_Surjection

LEMMA RecentFinite ==
  ASSUME NEW a \in Attempts, NEW rows, IsFiniteSet(rows), NEW where
  PROVE  IsFiniteSet(RecentRows(rows, a, where))
<1> DEFINE recent == {r \in rows: r.key \in Keys(a) /\ InWindow(r.at)}
           f == [r \in recent |->
                   [attempt |-> r.attempt, key |-> r.key, age |-> clock - r.at,
                    where |-> where]]
<1>1. IsFiniteSet(recent)
  BY FS_Subset
<1>2. f \in Surjection(recent, RecentRows(rows, a, where))
  BY DEF Surjection, RecentRows
<1>3. QED
  BY <1>1, <1>2, FS_Surjection

LEMMA AffectedFinite ==
  ASSUME TypeOK, FiniteInv, NEW a \in Attempts,
         NEW kind \in {"reserve", "release", "purge", "clear"}
  PROVE  IsFiniteSet(Affected(kind, a))
<1>1. CASE kind = "reserve"
  BY <1>1, NewRowsFinite DEF Affected
<1>2. CASE kind # "reserve"
  <2>1. Affected(kind, a) \subseteq shared
    BY <1>2 DEF Affected
  <2>2. QED
    BY <2>1, FS_Subset DEF FiniteInv
<1>3. QED
  BY <1>1, <1>2

LEMMA FiniteKept ==
  ASSUME TypeOK, FiniteInv, [Next]_vars
  PROVE  FiniteInv'
<1>1. ASSUME NEW a \in Attempts, Begin(a) \/ MarkAvailable(a) \/ VerifyFails(a)
      PROVE  FiniteInv'
  BY <1>1 DEF FiniteInv, Begin, MarkAvailable, VerifyFails
<1>2. ASSUME NEW a \in Attempts, CallStarts(a)
      PROVE  FiniteInv'
  <2>1. \A p \in Processes: op'[p].rows = op[p].rows \/ op'[p].rows = {}
    BY <1>2 DEF CallStarts, TypeOK
  <2>2. QED
    BY <1>2, <2>1, FS_EmptySet DEF FiniteInv, CallStarts, attemptVars
<1>3. ASSUME NEW a \in Attempts, CallRefused(a) \/ CallTimesOut(a)
      PROVE  FiniteInv'
  BY <1>3 DEF FiniteInv, CallRefused, CallTimesOut
<1>4. ASSUME NEW a \in Attempts, Decide(a)
      PROVE  FiniteInv'
  <2>1. \A p \in Processes: memory'[p] \subseteq memory[p]
    BY <1>4 DEF Decide, TypeOK, Swept
  <2>2. \A b \in Attempts: seen'[b] = seen[b] \/ seen'[b] = {}
    BY <1>4 DEF Decide, TypeOK
  <2>3. QED
    BY <1>4, <2>1, <2>2, FS_Subset, FS_EmptySet DEF FiniteInv, Decide
<1>5. ASSUME NEW a \in Attempts, FallBack(a)
      PROVE  FiniteInv'
  <2>1. \A p \in Processes: memory'[p] \subseteq memory[p] \cup NewRows(a)
    BY <1>5 DEF FallBack, TypeOK, Swept
  <2>2. \A p \in Processes: IsFiniteSet(memory[p] \cup NewRows(a))
    BY NewRowsFinite, FS_Union DEF FiniteInv
  <2>3. QED
    BY <1>5, <2>1, <2>2, FS_Subset DEF FiniteInv, FallBack
<1>6. ASSUME NEW a \in Attempts, Unreserve(a) \/ VerifySucceeds(a) \/ VerifyErrors(a)
      PROVE  FiniteInv'
  <2>1. \A p \in Processes: memory'[p] \subseteq memory[p]
    BY <1>6 DEF Unreserve, VerifySucceeds, VerifyErrors, Unreserved, TypeOK
  <2>2. QED
    BY <1>6, <2>1, FS_Subset DEF FiniteInv, Unreserve, VerifySucceeds, VerifyErrors
<1>7. ASSUME NEW p \in Processes, CallFails(p)
      PROVE  FiniteInv'
  <2>1. \A q \in Processes: op'[q].rows = op[q].rows \/ op'[q].rows = {}
    BY <1>7 DEF CallFails, TypeOK, NoOp
  <2>2. QED
    BY <1>7, <2>1, FS_EmptySet DEF FiniteInv, CallFails
<1>8. ASSUME NEW p \in Processes, StoreExecutes(p)
      PROVE  FiniteInv'
  <2>1. /\ op[p] \in [kind: {"reserve", "release", "purge", "clear"},
                      attempt: Attempts,
                      stage: {"started", "executed", "committed"},
                      rows: SUBSET Row]
    BY <1>8, OpTypes DEF StoreExecutes
  <2>2. IsFiniteSet(Affected(op[p].kind, op[p].attempt))
    BY <2>1, AffectedFinite
  <2>3. \A q \in Processes: \/ op'[q].rows = op[q].rows
                            \/ op'[q].rows = Affected(op[p].kind, op[p].attempt)
    BY <1>8, <2>1 DEF StoreExecutes, TypeOK
  <2>4. QED
    BY <1>8, <2>2, <2>3 DEF FiniteInv, StoreExecutes
<1>9. ASSUME NEW p \in Processes, StoreCommits(p)
      PROVE  FiniteInv'
  <2>1. op[p] \in [kind: {"reserve", "release", "purge", "clear"},
                      attempt: Attempts,
                      stage: {"started", "executed", "committed"},
                      rows: SUBSET Row]
    BY <1>9, OpTypes DEF StoreCommits
  <2>2. \A q \in Processes: op'[q].rows = op[q].rows
    BY <1>9, <2>1 DEF StoreCommits, TypeOK
  <2>3. IsFiniteSet(shared \cup op[p].rows) /\ IsFiniteSet(shared \ op[p].rows)
    BY FS_Union, FS_Subset DEF FiniteInv
  <2>4. QED
    BY <1>9, <2>2, <2>3 DEF FiniteInv, StoreCommits
<1>10. ASSUME NEW p \in Processes, StoreAnswers(p)
       PROVE  FiniteInv'
  <2>1. op[p].attempt \in Attempts
    BY <1>10, OpTypes DEF StoreAnswers
  <2>2. \A q \in Processes: op'[q].rows = op[q].rows \/ op'[q].rows = {}
    BY <1>10 DEF StoreAnswers, TypeOK, NoOp
  <2>3. IsFiniteSet(RecentRows(shared, op[p].attempt, "shared"))
    BY <2>1, RecentFinite DEF FiniteInv
  <2>4. \A b \in Attempts: \/ seen'[b] = seen[b]
                           \/ seen'[b] = RecentRows(shared, op[p].attempt, "shared")
    BY <1>10, <2>1 DEF StoreAnswers, TypeOK
  <2>5. QED
    BY <1>10, <2>2, <2>3, <2>4, FS_EmptySet DEF FiniteInv, StoreAnswers
<1>11. ASSUME NEW p \in Processes, Crash(p)
       PROVE  FiniteInv'
  <2>1. \A q \in Processes: /\ op'[q].rows = op[q].rows \/ op'[q].rows = {}
                            /\ memory'[q] = memory[q] \/ memory'[q] = {}
    BY <1>11 DEF Crash, TypeOK, NoOp
  <2>2. \A b \in Attempts: seen'[b] = seen[b] \/ seen'[b] = {}
    BY <1>11 DEF Crash
  <2>3. QED
    BY <1>11, <2>1, <2>2, FS_EmptySet DEF FiniteInv, Crash
<1>12. CASE Tick \/ UNCHANGED vars
  BY <1>12 DEF FiniteInv, Tick, vars, attemptVars
<1>13. QED
  BY <1>1, <1>2, <1>3, <1>4, <1>5, <1>6, <1>7, <1>8, <1>9, <1>10, <1>11, <1>12
     DEF Next, Work, Fault, Step, Verify, StoreStep

-------------------------------------------------------------------------------
(* Calls, points and the order of commits *)

Control == OpInv /\ StoreInv /\ OrderInv

\* The attempts of the running calls, for the steps below.
LEMMA CallersTyped ==
  ASSUME TypeOK, NEW p \in Processes, op[p] # NoOp
  PROVE  op[p].attempt \in Attempts
BY OpTypes

\* A call whose attempt a step leaves alone.
LEMMA OpOkFramed ==
  ASSUME NEW q, OpOk(q), op'[q] = op[q], UNCHANGED <<client, clock>>,
         LET b == op[q].attempt
         IN  pc'[b] = pc[b] /\ order'[b] = order[b] /\ reserved'[b] = reserved[b]
  PROVE  OpOk(q)'
BY DEF OpOk, RowOf, Keys, LoginKey, IpKey, Process, InWindow

LEMMA BeginKeepsControl ==
  ASSUME Shape, NEW a \in Attempts, Begin(a)
  PROVE  Control'
<1>1. \A p \in Processes: op[p] # NoOp => OpOk(p)'
  BY CallTables, CallersTyped
     DEF Shape, TypeOK, OpInv, Begin, GoTo, OpOk, RowOf, Keys, LoginKey, IpKey,
         Process, InWindow, history
<1>2. StoreInv'
  BY DEF Shape, TypeOK, StoreInv, StoreOk, Begin, GoTo, Process, history
<1>3. QED
  BY <1>1, <1>2 DEF Shape, OpInv, OrderInv, Control, Begin, history

LEMMA CallStartsKeepsControl ==
  ASSUME Shape, NEW a \in Attempts, CallStarts(a)
  PROVE  Control'
<1>1. Process(a) \in Processes
  BY KeyTypes DEF Shape
<1>2. \A p \in Processes: op'[p] # NoOp => OpOk(p)'
  <2>1. SUFFICES ASSUME NEW p \in Processes, op'[p] # NoOp
                 PROVE  OpOk(p)'
    OBVIOUS
  <2>2. CASE p = Process(a)
    <3>1. op'[p] = [kind |-> KindOf[pc[a]], attempt |-> a, stage |-> "started",
                    rows |-> {}]
      BY <1>1, <2>2 DEF Shape, TypeOK, CallStarts
    <3>2. pc[a] = "reserving" => order[a] = 0
      BY <1>1, ThrottleAssumption
         DEF Shape, TypeOK, StoreInv, StoreOk, CallStarts, NoOp
    <3>3. pc[a] \in Calling
      BY DEF CallStarts
    <3>4. QED
      BY <2>2, <3>1, <3>2, <3>3, CallTables
         DEF OpOk, CallStarts, Process, attemptVars
  <2>3. CASE p # Process(a)
    <3>1. op'[p] = op[p]
      BY <2>3 DEF Shape, TypeOK, CallStarts
    <3>2. QED
      BY <2>1, <3>1, OpOkFramed DEF Shape, OpInv, CallStarts, attemptVars
  <2>4. QED
    BY <2>2, <2>3
<1>3. StoreInv'
  BY <1>1, ThrottleAssumption
     DEF Shape, TypeOK, StoreInv, StoreOk, CallStarts, Process, NoOp, attemptVars
<1>4. QED
  BY <1>2, <1>3 DEF Shape, OpInv, OrderInv, Control, CallStarts, attemptVars

\* The caller of a call that raises; op may lose that call.
LEMMA RaiseKeepsControl ==
  ASSUME Shape, NEW a \in Attempts, pc[a] \in Calling, Raise(a),
         UNCHANGED <<client, store, clock, history>>,
         \A p \in Processes: \/ op'[p] = op[p]
                             \/ op'[p] = NoOp /\ p = Process(a) /\ op[p].attempt = a
  PROVE  Control'
<1>1. \A p \in Processes: op'[p] # NoOp => OpOk(p)'
  BY CallTables, CallersTyped
     DEF Shape, TypeOK, OpInv, Raise, GoTo, OpOk, RowOf, Keys, LoginKey, IpKey,
         Process, InWindow, history
<1>2. StoreInv'
  <2>1. SUFFICES ASSUME NEW b \in Attempts
                 PROVE  StoreOk(b)'
    BY DEF StoreInv
  <2>2. Process(b) \in Processes
    BY KeyTypes DEF Shape
  <2>3. QED
    BY <2>2, CallTables
       DEF Shape, TypeOK, StoreInv, StoreOk, Raise, GoTo, Process, history
<1>3. QED
  BY <1>1, <1>2 DEF Shape, OpInv, OrderInv, Control, history

LEMMA CallFailsKeepsControl ==
  ASSUME Shape, NEW p \in Processes, CallFails(p)
  PROVE  Control'
<1>1. op[p].attempt \in Attempts
  BY CallersTyped DEF Shape, CallFails
<1>2. CASE Awaited(p)
  <2>1. Process(op[p].attempt) = p
    BY DEF Shape, OpInv, OpOk, CallFails
  <2>2. QED
    BY <1>1, <1>2, <2>1, RaiseKeepsControl DEF Shape, TypeOK, CallFails, Awaited
<1>3. CASE ~Awaited(p)
  <2>1. \A q \in Processes: op'[q] # NoOp => OpOk(q)'
    BY <1>3, CallersTyped
       DEF Shape, TypeOK, OpInv, CallFails, OpOk, RowOf, Keys, LoginKey, IpKey,
           Process, InWindow, history
  <2>2. StoreInv'
    <3>1. SUFFICES ASSUME NEW b \in Attempts
                   PROVE  StoreOk(b)'
      BY DEF StoreInv
    <3>2. Process(b) \in Processes
      BY KeyTypes DEF Shape
    <3>3. ~(/\ op[p].attempt = b /\ pc[b] = "reserving"
            /\ op[p].kind = "reserve")
      BY <1>3, CallTables DEF CallFails, Awaited
    <3>4. QED
      BY <1>3, <3>2, <3>3
         DEF Shape, TypeOK, StoreInv, StoreOk, CallFails, Process, history
  <2>3. QED
    BY <1>3, <2>1, <2>2 DEF Shape, OpInv, OrderInv, Control, CallFails, history
<1>4. QED
  BY <1>2, <1>3

\* An attempt decides, falls back or is verified: no call starts or ends.
LEMMA MoveKeepsControl ==
  ASSUME Shape, NEW a \in Attempts,
         pc[a] \in {"falling", "answered", "deciding", "unreserving", "verifying"},
         NEW point \in {"deciding", "releasing", "unreserving", "rejected", "verifying", "purging",
                        "failed", "clearing", "succeeded", "cancelling", "cancelled"},
         GoTo(a, point),
         NEW place, store' = [store EXCEPT ![a] = place],
         point \in {"deciding", "releasing", "unreserving", "rejected"} => place = "none",
         place = "shared" \/ point = "deciding" => order[a] > 0,
         NEW time, reserved' = [reserved EXCEPT ![a] = time],
         UNCHANGED <<client, op, clock, commits, order>>
  PROVE  Control'
<1>1. \A p \in Processes: op'[p] # NoOp => OpOk(p)'
  <2>1. SUFFICES ASSUME NEW p \in Processes, op[p] # NoOp
                 PROVE  OpOk(p)'
    OBVIOUS
  <2>2. CASE op[p].attempt = a
    BY <2>1, <2>2
       DEF Shape, TypeOK, OpInv, OpOk, GoTo, Process, InWindow
  <2>3. CASE op[p].attempt # a
    BY <2>1, <2>3, CallersTyped
       DEF Shape, TypeOK, OpInv, OpOk, GoTo, RowOf, Keys, LoginKey, IpKey, Process,
           InWindow
  <2>4. QED
    BY <2>2, <2>3
<1>2. StoreInv'
  BY DEF Shape, TypeOK, StoreInv, StoreOk, GoTo, Process
<1>3. QED
  BY <1>1, <1>2 DEF Shape, OpInv, OrderInv, Control

LEMMA AttemptsKeepControl ==
  ASSUME Shape, NEW a \in Attempts,
         MarkAvailable(a) \/ Decide(a) \/ FallBack(a) \/ Unreserve(a) \/ Verify(a)
  PROVE  Control'
<1> USE DEF Shape, TypeOK
<1>0. /\ store = [store EXCEPT ![a] = store[a]]
      /\ reserved = [reserved EXCEPT ![a] = reserved[a]]
      /\ StoreOk(a)
  BY DEF StoreInv
<1>1. CASE Decide(a)
  <2>1. /\ pc[a] = "deciding" /\ store[a] = "none" /\ order[a] > 0
        /\ reserved' = [reserved EXCEPT ![a] = reserved[a]]
        /\ UNCHANGED <<client, op, clock, commits, order>>
    BY <1>0, <1>1 DEF Decide, StoreOk, history
  <2>2. CASE store' = [store EXCEPT ![a] = "shared"] /\ GoTo(a, "verifying")
    BY <2>1, <2>2, MoveKeepsControl
  <2>3. CASE store' = store /\ GoTo(a, "releasing")
    <3>1. store' = [store EXCEPT ![a] = "none"]
      BY <1>0, <2>1, <2>3
    <3>2. QED
      BY <2>1, <2>3, <3>1, MoveKeepsControl
  <2>4. QED
    BY <1>1, <2>2, <2>3 DEF Decide
<1>2. CASE FallBack(a)
  <2>1. CASE /\ store' = [store EXCEPT ![a] = "memory"] /\ GoTo(a, "verifying")
             /\ reserved' = [reserved EXCEPT ![a] = clock]
    BY <1>0, <1>2, <2>1, MoveKeepsControl DEF FallBack
  <2>2. CASE store' = store /\ reserved' = reserved /\ GoTo(a, "unreserving")
    BY <1>0, <1>2, <2>2, MoveKeepsControl DEF FallBack, StoreOk
  <2>3. QED
    BY <1>2, <2>1, <2>2 DEF FallBack
<1>3. CASE Unreserve(a)
  BY <1>0, <1>3, MoveKeepsControl DEF Unreserve, StoreOk, history
<1>4. CASE VerifyFails(a)
  BY <1>0, <1>4, MoveKeepsControl DEF VerifyFails, StoreOk, history
<1>5. CASE VerifySucceeds(a)
  BY <1>0, <1>5, MoveKeepsControl DEF VerifySucceeds, StoreOk
<1>6. CASE VerifyErrors(a)
  BY <1>0, <1>6, MoveKeepsControl DEF VerifyErrors, StoreOk, history
<1>7. CASE MarkAvailable(a)
  BY <1>0, <1>7, MoveKeepsControl DEF MarkAvailable, StoreOk, history
<1>8. QED
  BY <1>1, <1>2, <1>3, <1>4, <1>5, <1>6, <1>7 DEF Verify

LEMMA ExecutesKeepsControl ==
  ASSUME Shape, NEW p \in Processes, StoreExecutes(p)
  PROVE  Control'
<1> DEFINE a == op[p].attempt
<1>1. /\ op[p] # NoOp
      /\ op[p] \in [kind: {"reserve", "release", "purge", "clear"},
                    attempt: Attempts,
                    stage: {"started", "executed", "committed"},
                    rows: SUBSET Row]
      /\ OpOk(p)
  BY OpTypes DEF Shape, OpInv, StoreExecutes
<1>2. /\ op'[p].kind = op[p].kind /\ op'[p].attempt = a
      /\ op'[p].stage = "executed"
      /\ op'[p].rows = Affected(op[p].kind, a)
      /\ \A q \in Processes: q # p => op'[q] = op[q]
  BY <1>1 DEF Shape, TypeOK, StoreExecutes
<1>3. \A b \in Attempts: b # a => reserved'[b] = reserved[b]
  BY <1>1 DEF Shape, TypeOK, StoreExecutes
<1>4. OpOk(p)'
  <2>1. CASE op[p].kind = "reserve" /\ pc[a] = "reserving"
    <3>1. Awaited(p)
      BY <1>1, <2>1, CallTables DEF Awaited
    <3>2. reserved'[a] = clock
      BY <1>1, <2>1, <3>1 DEF Shape, TypeOK, StoreExecutes
    <3>3. \A k \in Keys(a): RowOf(a, k)' \in Affected("reserve", a)
      BY <1>2, <3>2 DEF Affected, NewRows, RowOf, StoreExecutes
    <3>4. Keys(a)' = Keys(a)
      BY <1>2 DEF Keys, LoginKey, IpKey, StoreExecutes
    <3>5. QED
      BY <1>1, <1>2, <2>1, <3>3, <3>4
         DEF OpOk, Process, StoreExecutes
  <2>2. CASE ~(op[p].kind = "reserve" /\ pc[a] = "reserving")
    <3>1. op[p].kind = "release" => \A r \in op'[p].rows: r.attempt = a
      BY <1>2 DEF Affected
    <3>2. op[p].kind = "clear" =>
            \A r \in op'[p].rows: r.attempt = a \/ r.key = LoginKey(a)
      BY <1>2 DEF Affected
    <3>3. op[p].kind = "purge" => \A r \in op'[p].rows: ~InWindow(r.at)
      BY <1>2 DEF Affected
    <3>4. QED
      BY <1>1, <1>2, <2>2, <3>1, <3>2, <3>3
         DEF OpOk, Process, LoginKey, InWindow, StoreExecutes
  <2>3. QED
    BY <2>1, <2>2
<1>5. ASSUME NEW q \in Processes, q # p, op'[q] # NoOp
      PROVE  OpOk(q)'
  <2>1. op'[q] = op[q] /\ OpOk(q) /\ op[q].attempt \in Attempts
    BY <1>2, <1>5, CallersTyped DEF Shape, OpInv
  <2>2. op[q].attempt # a
    BY <1>1, <1>5, <2>1 DEF OpOk
  <2>3. reserved'[op[q].attempt] = reserved[op[q].attempt]
    BY <1>3, <2>1, <2>2
  <2>4. QED
    BY <2>1, <2>3, OpOkFramed DEF StoreExecutes
<1>6. StoreInv'
  <2>1. SUFFICES ASSUME NEW b \in Attempts
                 PROVE  StoreOk(b)'
    BY DEF StoreInv
  <2>2. Process(b) \in Processes
    BY KeyTypes DEF Shape
  <2>3. op[p].stage = "started"
    BY DEF StoreExecutes
  <2>4. Process(b) = p => ~(pc[b] = "reserving" /\ order[b] > 0)
    BY <2>3 DEF Shape, StoreInv, StoreOk
  <2>5. StoreOk(b)
    BY DEF Shape, StoreInv
  <2>6. CASE Process(b) = p
    BY <2>4, <2>5, <2>6 DEF StoreOk, Process, StoreExecutes
  <2>7. CASE Process(b) # p
    BY <1>2, <2>2, <2>5, <2>7 DEF StoreOk, Process, StoreExecutes
  <2>8. QED
    BY <2>6, <2>7
<1>7. QED
  BY <1>4, <1>5, <1>6 DEF Shape, OpInv, OrderInv, Control, StoreExecutes

LEMMA CommitsKeepsControl ==
  ASSUME Shape, NEW p \in Processes, StoreCommits(p)
  PROVE  Control'
<1> DEFINE a == op[p].attempt
<1>1. /\ op[p] # NoOp
      /\ op[p] \in [kind: {"reserve", "release", "purge", "clear"},
                    attempt: Attempts,
                    stage: {"started", "executed", "committed"},
                    rows: SUBSET Row]
      /\ OpOk(p)
  BY OpTypes DEF Shape, OpInv, StoreCommits
<1>2. /\ op'[p].kind = op[p].kind /\ op'[p].attempt = a
      /\ op'[p].stage = "committed"
      /\ \A q \in Processes: q # p => op'[q] = op[q]
  BY <1>1 DEF Shape, TypeOK, StoreCommits
<1>3. /\ op[p].kind = "reserve" => order'[a] = commits + 1 /\ commits' = commits + 1
      /\ op[p].kind # "reserve" => order' = order /\ commits' = commits
      /\ \A b \in Attempts: b # a => order'[b] = order[b]
  BY <1>1 DEF Shape, TypeOK, StoreCommits
<1>4. OpOk(p)'
  BY <1>1, <1>2, <1>3
     DEF Shape, TypeOK, OpOk, Process, LoginKey, StoreCommits
<1>5. ASSUME NEW q \in Processes, q # p, op'[q] # NoOp
      PROVE  OpOk(q)'
  <2>1. op'[q] = op[q] /\ OpOk(q) /\ op[q].attempt \in Attempts
    BY <1>2, <1>5, CallersTyped DEF Shape, OpInv
  <2>2. op[q].attempt # a
    BY <1>1, <1>5, <2>1 DEF OpOk
  <2>3. order'[op[q].attempt] = order[op[q].attempt]
    BY <1>3, <2>1, <2>2
  <2>4. QED
    BY <2>1, <2>3, OpOkFramed DEF StoreCommits
<1>6. StoreInv'
  <2>1. SUFFICES ASSUME NEW b \in Attempts
                 PROVE  StoreOk(b)'
    BY DEF StoreInv
  <2>2. Process(b) \in Processes /\ StoreOk(b)
    BY KeyTypes DEF Shape, StoreInv
  <2>3. CASE b = a /\ op[p].kind = "reserve"
    BY <1>1, <1>2, <1>3, <2>2, <2>3
       DEF Shape, TypeOK, StoreOk, OpOk, Process, StoreCommits
  <2>4. CASE ~(b = a /\ op[p].kind = "reserve")
    <3>1. order'[b] = order[b]
      BY <1>3, <2>4
    <3>2. QED
      BY <1>2, <2>2, <3>1 DEF StoreOk, Process, StoreCommits
  <2>5. QED
    BY <2>3, <2>4
<1>7. OrderInv'
  <2>1. CASE op[p].kind = "reserve"
    BY <1>1, <1>3, <2>1 DEF Shape, TypeOK, OrderInv
  <2>2. CASE op[p].kind # "reserve"
    BY <1>3, <2>2 DEF Shape, OrderInv
  <2>3. QED
    BY <2>1, <2>2
<1>8. QED
  BY <1>4, <1>5, <1>6, <1>7 DEF OpInv, Control

LEMMA AnswersKeepsControl ==
  ASSUME Shape, NEW p \in Processes, StoreAnswers(p)
  PROVE  Control'
<1> DEFINE a == op[p].attempt
<1>1. op[p] # NoOp /\ a \in Attempts /\ OpOk(p)
  BY OpTypes DEF Shape, OpInv, StoreAnswers
<1>2. op'[p] = NoOp /\ \A q \in Processes: q # p => op'[q] = op[q]
  BY DEF Shape, TypeOK, StoreAnswers
<1>3. \A b \in Attempts: b # a => pc'[b] = pc[b]
  BY <1>1 DEF Shape, TypeOK, StoreAnswers, GoTo
<1>4. /\ Awaited(p) => pc[a] \in Calling /\ pc'[a] = AfterCall[pc[a]]
      /\ ~Awaited(p) => pc'[a] = pc[a]
  BY <1>1 DEF Shape, TypeOK, StoreAnswers, GoTo, Awaited
<1>5. ASSUME NEW q \in Processes, op'[q] # NoOp
      PROVE  OpOk(q)'
  <2>1. q # p /\ op'[q] = op[q] /\ OpOk(q) /\ op[q].attempt \in Attempts
    BY <1>2, <1>5, CallersTyped DEF Shape, OpInv
  <2>2. op[q].attempt # a
    BY <1>1, <2>1 DEF OpOk
  <2>3. pc'[op[q].attempt] = pc[op[q].attempt]
    BY <1>3, <2>1, <2>2
  <2>4. QED
    BY <2>1, <2>3, OpOkFramed DEF StoreAnswers, history
<1>6. StoreInv'
  <2>1. SUFFICES ASSUME NEW b \in Attempts
                 PROVE  StoreOk(b)'
    BY DEF StoreInv
  <2>2. Process(b) \in Processes /\ StoreOk(b)
    BY KeyTypes DEF Shape, StoreInv
  <2>3. CASE b = a /\ Awaited(p)
    <3>1. op[p].kind = KindOf[pc[a]] /\ op[p].stage = "committed"
      BY <2>3 DEF Awaited, StoreAnswers
    <3>2. QED
      BY <1>1, <1>4, <2>2, <2>3, <3>1, CallTables
         DEF StoreOk, OpOk, StoreAnswers, history
  <2>4. CASE b = a /\ ~Awaited(p)
    <3>1. ~(pc[a] = "reserving" /\ op[p].kind = "reserve")
      BY <1>1, <2>4, CallTables DEF Awaited
    <3>2. QED
      BY <1>1, <1>2, <1>4, <2>2, <2>4, <3>1
         DEF StoreOk, OpOk, Process, StoreAnswers, history
  <2>5. CASE b # a
    BY <1>2, <1>3, <2>2, <2>5 DEF StoreOk, Process, StoreAnswers, history
  <2>6. QED
    BY <2>3, <2>4, <2>5
<1>7. QED
  BY <1>5, <1>6 DEF Shape, OpInv, OrderInv, Control, StoreAnswers, history

LEMMA CrashKeepsControl ==
  ASSUME Shape, NEW p \in Processes, Crash(p)
  PROVE  Control'
<1>1. op'[p] = NoOp /\ \A q \in Processes: q # p => op'[q] = op[q]
  BY DEF Shape, TypeOK, Crash
<1>2. \A b \in Attempts: /\ Process(b) # p => pc'[b] = pc[b]
                         /\ Process(b) = p => pc'[b] = AfterCrash(pc[b])
  BY DEF Crash
<1>3. ASSUME NEW q \in Processes, op'[q] # NoOp
      PROVE  OpOk(q)'
  <2>1. q # p /\ op'[q] = op[q] /\ OpOk(q) /\ op[q].attempt \in Attempts
    BY <1>1, <1>3, CallersTyped DEF Shape, OpInv
  <2>2. pc'[op[q].attempt] = pc[op[q].attempt]
    BY <1>2, <2>1 DEF OpOk
  <2>3. QED
    BY <2>1, <2>2, OpOkFramed DEF Crash
<1>4. StoreInv'
  <2>1. SUFFICES ASSUME NEW b \in Attempts
                 PROVE  StoreOk(b)'
    BY DEF StoreInv
  <2>2. Process(b) \in Processes /\ StoreOk(b) /\ pc[b] \in Points
    BY KeyTypes DEF Shape, StoreInv, TypeOK
  <2>3. CASE Process(b) = p
    BY <1>2, <2>2, <2>3, CallTables DEF StoreOk, AfterCrash, Ended, Points, Crash
  <2>4. CASE Process(b) # p
    BY <1>1, <1>2, <2>2, <2>4 DEF StoreOk, Process, Crash
  <2>5. QED
    BY <2>3, <2>4
<1>5. QED
  BY <1>3, <1>4 DEF Shape, OpInv, OrderInv, Control, Crash

LEMMA TickKeepsControl ==
  ASSUME Shape, Tick \/ UNCHANGED vars
  PROVE  Control'
<1>1. ASSUME NEW q \in Processes, op'[q] # NoOp
      PROVE  OpOk(q)'
  <2>1. op'[q] = op[q] /\ OpOk(q)
        /\ op[q] \in [kind: {"reserve", "release", "purge", "clear"},
                      attempt: Attempts,
                      stage: {"started", "executed", "committed"},
                      rows: SUBSET Row]
    BY <1>1, OpTypes DEF Shape, OpInv, Tick, vars, attemptVars
  <2>2. \A r \in op[q].rows: ~InWindow(r.at) => ~InWindow(r.at)'
    BY <2>1, ThrottleAssumption DEF Shape, TypeOK, Tick, vars, Row, InWindow
  <2>3. QED
    BY <2>1, <2>2
       DEF OpOk, RowOf, Keys, LoginKey, IpKey, Process, Tick, vars, attemptVars
<1>2. StoreInv' /\ OrderInv'
  BY DEF Shape, StoreInv, StoreOk, OrderInv, Process, Tick, vars, attemptVars
<1>3. QED
  BY <1>1, <1>2 DEF OpInv, Control

LEMMA ShapeKept ==
  ASSUME Shape, [Next]_vars
  PROVE  Shape'
<1>1. ASSUME NEW a \in Attempts, CallRefused(a) \/ CallTimesOut(a)
      PROVE  Control'
  <2>1. pc[a] \in Calling /\ Raise(a)
    BY <1>1, KeyTypes, OpTypes
       DEF Shape, CallRefused, CallTimesOut, Running, Awaited
  <2>2. QED
    BY <1>1, <2>1, RaiseKeepsControl DEF CallRefused, CallTimesOut
<1>2. Control'
  BY <1>1, BeginKeepsControl, CallStartsKeepsControl, AttemptsKeepControl,
     CallFailsKeepsControl, ExecutesKeepsControl, CommitsKeepsControl,
     AnswersKeepsControl, CrashKeepsControl, TickKeepsControl
     DEF Next, Work, Fault, Step, StoreStep
<1>3. QED
  BY <1>2, TypesKept, FiniteKept DEF Shape, Control

-------------------------------------------------------------------------------
(* What stands was standing before, and what is counted was counted before *)

LEMMA WorldMovesOn ==
  ASSUME Shape, [Next]_vars
  PROVE  /\ client' = client /\ clock' \in Nat /\ clock' >= clock
         /\ forgiven \subseteq forgiven'
<1>1. clock \in Nat
  BY DEF Shape, TypeOK
<1>2. ASSUME NEW a \in Attempts,
             Begin(a) \/ Step(a) \/ CallRefused(a) \/ CallTimesOut(a)
      PROVE  client' = client /\ clock' = clock /\ forgiven \subseteq forgiven'
  BY <1>2 DEF Begin, Step, CallStarts, CallRefused, CallTimesOut, MarkAvailable, Decide, FallBack,
              Unreserve, Verify, VerifyFails, VerifySucceeds, VerifyErrors, attemptVars,
              history
<1>3. ASSUME NEW p \in Processes, StoreStep(p) \/ CallFails(p) \/ Crash(p)
      PROVE  client' = client /\ clock' = clock /\ forgiven \subseteq forgiven'
  BY <1>3 DEF StoreStep, StoreExecutes, StoreCommits, StoreAnswers, CallFails, Crash,
              history
<1>4. CASE Tick \/ UNCHANGED vars
  BY <1>1, <1>4 DEF Tick, vars, attemptVars
<1>5. CASE Work \/ Fault
  <2>1. client' = client /\ clock' = clock /\ forgiven \subseteq forgiven'
    BY <1>2, <1>3, <1>5 DEF Work, Fault
  <2>2. QED
    BY <1>1, <2>1
<1>6. QED
  BY <1>4, <1>5 DEF Next

\* An attempt with a committed reservation that stands after a step stood before.
Shrinks(b) ==
    order[b] > 0 /\ Standing(b)' =>
      Standing(b) /\ order'[b] = order[b] /\ reserved'[b] = reserved[b]

LEMMA StandingShrinks ==
  ASSUME Shape, [Next]_vars, NEW b \in Attempts
  PROVE  Shrinks(b)
<1> USE DEF Shape, TypeOK
<1> SUFFICES ASSUME order[b] > 0, Standing(b)'
             PROVE  Standing(b) /\ order'[b] = order[b] /\ reserved'[b] = reserved[b]
  BY DEF Shrinks
<1>0. StoreOk(b) /\ pc[b] \in Points
  BY DEF StoreInv
<1>1. ASSUME NEW a \in Attempts, Begin(a) \/ MarkAvailable(a)
      PROVE  Shrinks(b)
  BY <1>0, <1>1, CallTables
     DEF Shrinks, Begin, MarkAvailable, GoTo, Standing, StoreOk, Admitted, history
<1>2. ASSUME NEW a \in Attempts, CallStarts(a) \/ Unreserve(a)
      PROVE  Shrinks(b)
  BY <1>0, <1>2
     DEF Shrinks, CallStarts, Unreserve, GoTo, Standing, Admitted, attemptVars, history
<1>3. ASSUME NEW a \in Attempts, Decide(a)
      PROVE  Shrinks(b)
  BY <1>0, <1>3 DEF Shrinks, Decide, GoTo, Standing, Admitted, history
<1>4. ASSUME NEW a \in Attempts, FallBack(a)
      PROVE  Shrinks(b)
  <2>1. CASE a = b
    BY <1>0, <1>4, <2>1 DEF FallBack, GoTo, Standing, Admitted, StoreOk
  <2>2. CASE a # b
    BY <1>4, <2>2 DEF Shrinks, FallBack, GoTo, Standing, Admitted
  <2>3. QED
    BY <2>1, <2>2
<1>5. ASSUME NEW a \in Attempts, Verify(a)
      PROVE  Shrinks(b)
  BY <1>0, <1>5
     DEF Shrinks, Verify, VerifyFails, VerifySucceeds, VerifyErrors, GoTo, Standing,
         Admitted, history
<1>6. ASSUME NEW a \in Attempts, pc[a] \in Calling, Raise(a),
             UNCHANGED <<store, reserved, order>>
      PROVE  Shrinks(b)
  BY <1>0, <1>6, CallTables DEF Shrinks, Raise, GoTo, Standing, StoreOk, Admitted
<1>7. ASSUME NEW a \in Attempts, CallRefused(a) \/ CallTimesOut(a)
      PROVE  Shrinks(b)
  <2>1. pc[a] \in Calling /\ Raise(a)
    BY <1>7, KeyTypes, OpTypes DEF CallRefused, CallTimesOut, Running, Awaited
  <2>2. QED
    BY <1>6, <1>7, <2>1 DEF CallRefused, CallTimesOut, history
<1>8. ASSUME NEW p \in Processes, CallFails(p)
      PROVE  Shrinks(b)
  <2>1. op[p].attempt \in Attempts
    BY <1>8, CallersTyped DEF CallFails
  <2>2. CASE Awaited(p)
    BY <1>6, <1>8, <2>1, <2>2 DEF CallFails, Awaited, history
  <2>3. CASE ~Awaited(p)
    BY <1>8, <2>3 DEF Shrinks, CallFails, Standing, Admitted, history
  <2>4. QED
    BY <2>2, <2>3
<1>9. ASSUME NEW p \in Processes, StoreExecutes(p)
      PROVE  Shrinks(b)
  <2>1. op[p] # NoOp /\ op[p].attempt \in Attempts /\ OpOk(p)
    BY <1>9, OpTypes DEF OpInv, StoreExecutes
  <2>2. op[p].kind = "reserve" => order[op[p].attempt] = 0
    BY <1>9, <2>1 DEF OpOk, StoreExecutes
  <2>3. reserved'[b] = reserved[b]
    BY <1>9, <2>1, <2>2 DEF StoreExecutes
  <2>4. QED
    BY <1>9, <2>3 DEF Shrinks, StoreExecutes, Standing, Admitted
<1>10. ASSUME NEW p \in Processes, StoreCommits(p)
       PROVE  Shrinks(b)
  <2>1. op[p] # NoOp /\ op[p].attempt \in Attempts /\ OpOk(p)
    BY <1>10, OpTypes DEF OpInv, StoreCommits
  <2>2. op[p].kind = "reserve" => order[op[p].attempt] = 0
    BY <1>10, <2>1 DEF OpOk, StoreCommits
  <2>3. order'[b] = order[b]
    BY <1>10, <2>1, <2>2 DEF StoreCommits
  <2>4. QED
    BY <1>10, <2>3 DEF Shrinks, StoreCommits, Standing, Admitted
<1>11. ASSUME NEW p \in Processes, StoreAnswers(p)
       PROVE  Shrinks(b)
  <2>1. op[p].attempt \in Attempts
    BY <1>11, OpTypes DEF StoreAnswers
  <2>2. CASE Awaited(p)
    BY <1>0, <1>11, <2>1, <2>2, CallTables
       DEF Shrinks, StoreAnswers, Awaited, GoTo, Standing, StoreOk, Admitted, history
  <2>3. CASE ~Awaited(p)
    BY <1>11, <2>3 DEF Shrinks, StoreAnswers, Standing, Admitted, history
  <2>4. QED
    BY <2>2, <2>3
<1>12. ASSUME NEW p \in Processes, Crash(p)
       PROVE  Shrinks(b)
  <2>1. pc'[b] = pc[b] \/ pc'[b] = AfterCrash(pc[b])
    BY <1>12 DEF Crash
  <2>2. QED
    BY <1>0, <1>12, <2>1, CallTables
       DEF Shrinks, Crash, AfterCrash, Points, Ended, Standing, StoreOk, Admitted
<1>13. CASE Tick \/ UNCHANGED vars
  BY <1>13 DEF Shrinks, Tick, vars, attemptVars, Standing, Admitted
<1>14. QED
  BY <1>1, <1>2, <1>3, <1>4, <1>5, <1>7, <1>8, <1>9, <1>10, <1>11, <1>12, <1>13
     DEF Shrinks, Next, Work, Fault, Step, StoreStep

\* A reservation that commits in a step comes after all that committed before.
LEMMA CommitsAreLast ==
  ASSUME Shape, [Next]_vars, NEW b \in Attempts, order[b] = 0, order'[b] > 0
  PROVE  /\ order'[b] = commits + 1
         /\ \E p \in Processes: /\ StoreCommits(p) /\ op[p].kind = "reserve"
                                /\ op[p].attempt = b
<1>1. \E p \in Processes: StoreCommits(p)
  <2>1. order' # order
    BY DEF Shape, TypeOK
  <2>2. ASSUME NEW a \in Attempts,
               Begin(a) \/ Step(a) \/ CallRefused(a) \/ CallTimesOut(a)
        PROVE  order' = order
    BY <2>2 DEF Begin, Step, CallStarts, CallRefused, CallTimesOut, MarkAvailable, Decide, FallBack,
                Unreserve, Verify, VerifyFails, VerifySucceeds, VerifyErrors,
                attemptVars, history
  <2>3. ASSUME NEW p \in Processes,
               StoreExecutes(p) \/ StoreAnswers(p) \/ CallFails(p) \/ Crash(p)
        PROVE  order' = order
    BY <2>3 DEF StoreExecutes, StoreAnswers, CallFails, Crash, history
  <2>4. CASE Tick \/ UNCHANGED vars
    BY <2>1, <2>4 DEF Tick, vars, attemptVars
  <2>5. QED
    BY <2>1, <2>2, <2>3, <2>4 DEF Next, Work, Fault, StoreStep
<1>2. PICK p \in Processes: StoreCommits(p)
  BY <1>1
<1>3. op[p].attempt \in Attempts
  BY <1>2, OpTypes DEF Shape, StoreCommits
<1>4. op[p].kind = "reserve" /\ op[p].attempt = b
  BY <1>2, <1>3 DEF Shape, TypeOK, StoreCommits
<1>5. QED
  BY <1>2, <1>3, <1>4 DEF Shape, TypeOK, StoreCommits

LEMMA AliveShrinks ==
  ASSUME Shape, [Next]_vars, NEW b \in Attempts, NEW k,
         reserved'[b] = reserved[b], Alive(b, k)'
  PROVE  Alive(b, k)
BY WorldMovesOn, ThrottleAssumption
   DEF Alive, Keys, LoginKey, IpKey, InWindow, Shape, TypeOK

\* Whoever comes before a after a step came before a already.
LEMMA BeforeShrinks ==
  ASSUME Shape, [Next]_vars, NEW a \in Attempts, NEW k, order[a] > 0, Standing(a)'
  PROVE  /\ Before(a, k)' \subseteq Before(a, k)
         /\ Keys(a)' = Keys(a)
<1>1. SUFFICES ASSUME NEW b \in Attempts, Standing(b)', Alive(b, k)',
                      order'[b] < order'[a]
               PROVE  Standing(b) /\ Alive(b, k) /\ order[b] < order[a]
  BY WorldMovesOn DEF Before, Keys, LoginKey, IpKey
<1>2. order'[a] = order[a] /\ order[a] <= commits
  BY StandingShrinks DEF Shrinks, Shape, OrderInv
<1>3. order[b] \in Nat /\ order'[b] > 0 /\ commits \in Nat /\ order[a] \in Nat
  BY <1>1 DEF Standing, Shape, TypeOK
<1>4. order[b] > 0
  BY <1>1, <1>2, <1>3, CommitsAreLast
<1>5. QED
  BY <1>1, <1>2, <1>4, StandingShrinks, AliveShrinks DEF Shrinks

-------------------------------------------------------------------------------
(* Rows stay where they are counted *)

\* A step takes from the shared table only rows that no longer count.
LEMMA SharedLosesNoRow ==
  ASSUME Shape, [Next]_vars, NEW b \in Attempts, NEW k,
         Standing(b)', Standing(b), Alive(b, k)', Alive(b, k), RowOf(b, k) \in shared
  PROVE  RowOf(b, k) \in shared'
<1>1. ASSUME NEW p \in Processes, StoreCommits(p)
      PROVE  RowOf(b, k) \in shared'
  <2>1. /\ op[p] # NoOp /\ op[p].attempt \in Attempts /\ OpOk(p)
        /\ op[p].kind \in {"reserve", "release", "purge", "clear"}
    BY <1>1, OpTypes DEF Shape, OpInv, StoreCommits
  <2>2. op[p].stage = "executed"
    BY <1>1 DEF StoreCommits
  <2>3. pc[b] \in {"reserving", "answered", "deciding", "verifying", "purging", "failed",
                 "lost"}
    BY DEF Standing, Admitted
  <2>4. CASE op[p].kind = "reserve"
    BY <1>1, <2>4 DEF StoreCommits
  <2>5. CASE op[p].kind = "release"
    BY <1>1, <2>1, <2>2, <2>3, <2>5 DEF OpOk, StoreCommits, RowOf
  <2>6. CASE op[p].kind = "clear"
    <3>1. CASE RowOf(b, k) \in op[p].rows
      <4>1. b # op[p].attempt
        BY <2>1, <2>3, <2>6 DEF OpOk
      <4>2. k = LoginKey(op[p].attempt)
        BY <2>1, <2>2, <2>6, <3>1, <4>1 DEF OpOk, RowOf
      <4>3. [attempt |-> b, key |-> k, where |-> "shared"] \in forgiven'
        BY <1>1, <2>6, <3>1, <4>2 DEF StoreCommits, RowOf
      <4>4. QED
        BY <4>3 DEF Alive
    <3>2. CASE RowOf(b, k) \notin op[p].rows
      BY <1>1, <2>6, <3>2 DEF StoreCommits
    <3>3. QED
      BY <3>1, <3>2
  <2>7. CASE op[p].kind = "purge"
    BY <1>1, <2>1, <2>2, <2>7 DEF OpOk, StoreCommits, RowOf, Alive
  <2>8. QED
    BY <2>1, <2>4, <2>5, <2>6, <2>7
<1>2. ASSUME NEW a \in Attempts, Begin(a) \/ Step(a) \/ CallRefused(a) \/ CallTimesOut(a)
      PROVE  shared' = shared
  BY <1>2 DEF Begin, Step, CallStarts, CallRefused, CallTimesOut, MarkAvailable, Decide, FallBack,
              Unreserve, Verify, VerifyFails, VerifySucceeds, VerifyErrors, attemptVars
<1>3. ASSUME NEW p \in Processes,
             StoreExecutes(p) \/ StoreAnswers(p) \/ CallFails(p) \/ Crash(p)
      PROVE  shared' = shared
  BY <1>3 DEF StoreExecutes, StoreAnswers, CallFails, Crash
<1>4. CASE Tick \/ UNCHANGED vars
  BY <1>4 DEF Tick, vars
<1>5. QED
  BY <1>1, <1>2, <1>3, <1>4 DEF Next, Work, Fault, StoreStep

LEMMA RowsKept ==
  ASSUME Shape, RowInv, [Next]_vars
  PROVE  RowInv'
<1>1. SUFFICES ASSUME NEW b \in Attempts, NEW k \in Keys(b)', Standing(b)', Alive(b, k)'
               PROVE  RowOf(b, k)' \in shared'
  BY DEF RowInv
<1>2. k \in Keys(b)
  BY WorldMovesOn DEF Keys, LoginKey, IpKey
<1>3. CASE order[b] > 0
  <2>1. Standing(b) /\ reserved'[b] = reserved[b]
    BY <1>1, <1>3, StandingShrinks DEF Shrinks
  <2>2. Alive(b, k)
    BY <1>1, <2>1, AliveShrinks
  <2>3. RowOf(b, k) \in shared
    BY <1>2, <2>1, <2>2 DEF RowInv
  <2>4. RowOf(b, k) \in shared'
    BY <1>1, <2>1, <2>2, <2>3, SharedLosesNoRow
  <2>5. QED
    BY <2>1, <2>4 DEF RowOf
<1>4. CASE ~(order[b] > 0)
  <2>1. order[b] = 0 /\ order'[b] > 0
    BY <1>1, <1>4 DEF Shape, TypeOK, Standing
  <2>2. PICK p \in Processes: /\ StoreCommits(p) /\ op[p].kind = "reserve"
                              /\ op[p].attempt = b
    BY <2>1, CommitsAreLast
  <2>3. OpOk(p) /\ StoreOk(b)
    BY <2>2, OpTypes DEF Shape, OpInv, StoreInv, StoreCommits
  <2>4. pc'[b] = pc[b] /\ store'[b] = store[b] /\ reserved'[b] = reserved[b]
    BY <2>2 DEF StoreCommits
  <2>5. pc[b] = "reserving"
    BY <1>1, <2>1, <2>3, <2>4 DEF Standing, StoreOk
  <2>6. RowOf(b, k) \in op[p].rows
    BY <1>2, <2>2, <2>3, <2>5 DEF OpOk, StoreCommits
  <2>7. RowOf(b, k) \in shared'
    BY <2>2, <2>6 DEF StoreCommits
  <2>8. QED
    BY <2>4, <2>7 DEF RowOf
<1>5. QED
  BY <1>3, <1>4

-------------------------------------------------------------------------------
(* Who came before *)

\* Attempts with a row each among the others' rows are no more than those rows.
LEMMA RowsCountAttempts ==
  ASSUME NEW a, NEW k, NEW rows, IsFiniteSet(rows), NEW S,
         \A b \in S: \E r \in Others(rows, a, k): r.attempt = b
  PROVE  /\ IsFiniteSet(S)
         /\ Cardinality(S) <= Cardinality(Others(rows, a, k))
<1> DEFINE f == [b \in S |-> CHOOSE r \in Others(rows, a, k): r.attempt = b]
<1>1. IsFiniteSet(Others(rows, a, k))
  BY FS_Subset DEF Others
<1>2. \A b \in S: f[b] \in Others(rows, a, k) /\ f[b].attempt = b
  OBVIOUS
<1>3. f \in Injection(S, Others(rows, a, k))
  <2>1. f \in [S -> Others(rows, a, k)]
    BY <1>2
  <2>2. \A b, c \in S: f[b] = f[c] => b = c
    BY <1>2
  <2>3. QED
    BY <2>1, <2>2 DEF Injection, IsInjective
<1>4. QED
  BY <1>1, <1>3, FS_Injection

\* Only the answer to its reservation lets an attempt decide.
LEMMA DecidingIsAnswered ==
  ASSUME Shape, [Next]_vars, NEW a \in Attempts,
         pc[a] \notin {"answered", "deciding"}, pc'[a] \in {"answered", "deciding"}
  PROVE  \E p \in Processes: /\ StoreAnswers(p) /\ Awaited(p)
                             /\ op[p].kind = "reserve" /\ op[p].attempt = a
<1> USE DEF Shape, TypeOK
<1>1. ASSUME NEW b \in Attempts, Begin(b)
      PROVE  FALSE
  BY <1>1 DEF Begin, GoTo
<1>2. ASSUME NEW b \in Attempts, Step(b)
      PROVE  FALSE
  BY <1>2 DEF Step, CallStarts, MarkAvailable, Decide, FallBack, Unreserve, Verify, VerifyFails,
              VerifySucceeds, VerifyErrors, GoTo, attemptVars
<1>3. ASSUME NEW b \in Attempts, pc[b] \in Calling, Raise(b)
      PROVE  FALSE
  BY <1>3, CallTables DEF Raise, GoTo
<1>4. ASSUME NEW b \in Attempts, CallRefused(b) \/ CallTimesOut(b)
      PROVE  FALSE
  <2>1. pc[b] \in Calling /\ Raise(b)
    BY <1>4, KeyTypes, OpTypes DEF CallRefused, CallTimesOut, Running, Awaited
  <2>2. QED
    BY <1>3, <2>1
<1>5. ASSUME NEW p \in Processes, CallFails(p)
      PROVE  FALSE
  BY <1>3, <1>5, CallersTyped DEF CallFails, Awaited
<1>6. ASSUME NEW p \in Processes, StoreExecutes(p) \/ StoreCommits(p)
      PROVE  FALSE
  BY <1>6 DEF StoreExecutes, StoreCommits
<1>7. ASSUME NEW p \in Processes, Crash(p)
      PROVE  FALSE
  BY <1>7, CallTables DEF Crash, AfterCrash, Points, Ended
<1>8. ASSUME NEW p \in Processes, StoreAnswers(p)
      PROVE  Awaited(p) /\ op[p].kind = "reserve" /\ op[p].attempt = a
  <2>1. op[p].attempt \in Attempts
    BY <1>8, OpTypes DEF StoreAnswers
  <2>2. QED
    BY <1>8, <2>1, CallTables DEF StoreAnswers, Awaited, GoTo
<1>9. CASE Tick \/ UNCHANGED vars
  BY <1>9 DEF Tick, vars, attemptVars
<1>10. QED
  BY <1>1, <1>2, <1>4, <1>5, <1>6, <1>7, <1>8, <1>9 DEF Next, Work, Fault, StoreStep

\* What a deciding attempt has read stays as it was read.
LEMMA DecidingKeepsSeen ==
  ASSUME Shape, [Next]_vars, NEW a \in Attempts,
         pc[a] \in {"answered", "deciding"}, pc'[a] \in {"answered", "deciding"}
  PROVE  seen'[a] = seen[a]
<1> USE DEF Shape, TypeOK
<1>1. ASSUME NEW b \in Attempts, Begin(b) \/ CallRefused(b) \/ CallTimesOut(b)
      PROVE  seen'[a] = seen[a]
  BY <1>1 DEF Begin, CallRefused, CallTimesOut
<1>2. ASSUME NEW b \in Attempts, Step(b)
      PROVE  seen'[a] = seen[a]
  BY <1>2 DEF Step, CallStarts, MarkAvailable, Decide, FallBack, Unreserve, Verify, VerifyFails,
              VerifySucceeds, VerifyErrors, GoTo, attemptVars
<1>3. ASSUME NEW p \in Processes, StoreExecutes(p) \/ StoreCommits(p) \/ CallFails(p)
      PROVE  seen'[a] = seen[a]
  BY <1>3 DEF StoreExecutes, StoreCommits, CallFails
<1>4. ASSUME NEW p \in Processes, StoreAnswers(p)
      PROVE  seen'[a] = seen[a]
  <2>1. op[p].attempt \in Attempts
    BY <1>4, OpTypes DEF StoreAnswers
  <2>2. Awaited(p) => op[p].attempt # a
    BY <2>1, CallTables DEF Awaited
  <2>3. QED
    BY <1>4, <2>1, <2>2 DEF StoreAnswers
<1>5. ASSUME NEW p \in Processes, Crash(p)
      PROVE  seen'[a] = seen[a]
  BY <1>5, CallTables DEF Crash, AfterCrash, Ended
<1>6. CASE Tick \/ UNCHANGED vars
  BY <1>6 DEF Tick, vars, attemptVars
<1>7. QED
  BY <1>1, <1>2, <1>3, <1>4, <1>5, <1>6 DEF Next, Work, Fault, StoreStep

LEMMA SeenKept ==
  ASSUME Shape, RowInv, SeenInv, [Next]_vars
  PROVE  SeenInv'
<1>1. SUFFICES ASSUME NEW a \in Attempts, pc'[a] \in {"answered", "deciding"},
                      NEW k \in Keys(a)', NEW b \in Before(a, k)'
               PROVE  \E r \in seen'[a]: r.attempt = b /\ r.key = k
  BY DEF SeenInv
<1>2. Shape'
  BY ShapeKept
<1>3. Standing(a)'
  BY <1>1, <1>2 DEF Shape, StoreInv, StoreOk, Standing
<1>4. CASE pc[a] \in {"answered", "deciding"}
  <2>1. order[a] > 0
    BY <1>4 DEF Shape, StoreInv, StoreOk
  <2>2. b \in Before(a, k) /\ k \in Keys(a)
    BY <1>1, <1>3, <2>1, BeforeShrinks
  <2>3. seen'[a] = seen[a]
    BY <1>1, <1>4, DecidingKeepsSeen
  <2>4. QED
    BY <1>4, <2>2, <2>3 DEF SeenInv
<1>5. CASE pc[a] \notin {"answered", "deciding"}
  <2>1. PICK p \in Processes: /\ StoreAnswers(p) /\ Awaited(p)
                              /\ op[p].kind = "reserve" /\ op[p].attempt = a
    BY <1>1, <1>5, DecidingIsAnswered
  <2>2. seen'[a] = RecentRows(shared, a, "shared")
    BY <2>1 DEF Shape, TypeOK, StoreAnswers
  <2>3. order[a] > 0 /\ k \in Keys(a) /\ b \in Before(a, k) /\ b \in Attempts
    <3>1. order[a] > 0
      BY <1>3, <2>1 DEF Standing, StoreAnswers, history
    <3>2. QED
      BY <1>1, <1>3, <3>1, BeforeShrinks DEF Before
  <2>4. RowOf(b, k) \in shared /\ InWindow(reserved[b])
    BY <2>3 DEF RowInv, Before, Alive
  <2>5. [attempt |-> b, key |-> k, age |-> clock - reserved[b], where |-> "shared"]
           \in RecentRows(shared, a, "shared")
    BY <2>3, <2>4 DEF RecentRows, RowOf
  <2>6. QED
    BY <2>2, <2>5
<1>6. QED
  BY <1>4, <1>5

-------------------------------------------------------------------------------
(* What is counted in memory *)

\* A failure counted in memory was counted there before the step, or falls back.
LEMMA MemoryStands ==
  ASSUME Shape, [Next]_vars, NEW b \in Attempts, store'[b] = "memory", Admitted(b)'
  PROVE  \/ store[b] = "memory" /\ Admitted(b) /\ reserved'[b] = reserved[b]
         \/ FallBack(b) /\ reserved'[b] = clock
<1> USE DEF Shape, TypeOK
<1>0. StoreOk(b) /\ pc[b] \in Points
  BY DEF StoreInv
<1> DEFINE Stood == store[b] = "memory" /\ Admitted(b) /\ reserved'[b] = reserved[b]
<1>1. ASSUME NEW a \in Attempts,
             \/ Begin(a) \/ CallStarts(a) \/ MarkAvailable(a) \/ Decide(a)
             \/ Unreserve(a) \/ Verify(a)
      PROVE  Stood
  BY <1>0, <1>1
     DEF StoreOk, Begin, CallStarts, MarkAvailable, Decide, Unreserve, Verify, VerifyFails,
         VerifySucceeds, VerifyErrors, GoTo, Admitted, attemptVars, history
<1>2. ASSUME NEW a \in Attempts, FallBack(a), a # b
      PROVE  Stood
  BY <1>2 DEF FallBack, GoTo, Admitted
<1>3. ASSUME FallBack(b)
      PROVE  reserved'[b] = clock
  BY <1>0, <1>3 DEF FallBack, GoTo, Admitted, StoreOk
<1>4. ASSUME NEW a \in Attempts, pc[a] \in Calling, Raise(a),
             UNCHANGED <<store, reserved>>
      PROVE  Stood
  BY <1>0, <1>4, CallTables DEF Raise, GoTo, StoreOk, Admitted
<1>5. ASSUME NEW a \in Attempts, CallRefused(a) \/ CallTimesOut(a)
      PROVE  Stood
  <2>1. pc[a] \in Calling /\ Raise(a)
    BY <1>5, KeyTypes, OpTypes DEF CallRefused, CallTimesOut, Running, Awaited
  <2>2. QED
    BY <1>4, <1>5, <2>1 DEF CallRefused, CallTimesOut, history
<1>6. ASSUME NEW p \in Processes, CallFails(p)
      PROVE  Stood
  <2>1. op[p].attempt \in Attempts
    BY <1>6, CallersTyped DEF CallFails
  <2>2. CASE Awaited(p)
    BY <1>4, <1>6, <2>1, <2>2 DEF CallFails, Awaited, history
  <2>3. CASE ~Awaited(p)
    BY <1>6, <2>3 DEF CallFails, Admitted, history
  <2>4. QED
    BY <2>2, <2>3
<1>7. ASSUME NEW p \in Processes, StoreExecutes(p)
      PROVE  Stood
  <2>1. op[p].attempt \in Attempts
    BY <1>7, OpTypes DEF StoreExecutes
  <2>2. store[b] = "memory" /\ Admitted(b)
    BY <1>7 DEF StoreExecutes, Admitted
  <2>3. op[p].kind = "reserve" /\ Awaited(p) => op[p].attempt # b
    BY <2>1, <2>2, CallTables DEF Awaited, Admitted
  <2>4. QED
    BY <1>7, <2>1, <2>2, <2>3 DEF StoreExecutes
<1>8. ASSUME NEW p \in Processes, StoreCommits(p)
      PROVE  Stood
  BY <1>8 DEF StoreCommits, Admitted
<1>9. ASSUME NEW p \in Processes, StoreAnswers(p)
      PROVE  Stood
  <2>1. op[p].attempt \in Attempts
    BY <1>9, OpTypes DEF StoreAnswers
  <2>2. QED
    BY <1>0, <1>9, <2>1, CallTables
       DEF StoreAnswers, Awaited, GoTo, StoreOk, Admitted, history
<1>10. ASSUME NEW p \in Processes, Crash(p)
       PROVE  Stood
  <2>1. pc'[b] = pc[b] \/ pc'[b] = AfterCrash(pc[b])
    BY <1>10 DEF Crash
  <2>2. QED
    BY <1>0, <1>10, <2>1, CallTables
       DEF Crash, AfterCrash, Points, Ended, StoreOk, Admitted
<1>11. CASE Tick \/ UNCHANGED vars
  BY <1>11 DEF Tick, vars, attemptVars, Admitted
<1>12. QED
  BY <1>1, <1>2, <1>3, <1>5, <1>6, <1>7, <1>8, <1>9, <1>10, <1>11
     DEF Next, Work, Fault, Step, StoreStep

\* A step takes from a process's memory only rows that no longer count.
LEMMA MemoryLosesNoRow ==
  ASSUME Shape, [Next]_vars, NEW b \in Attempts, NEW k \in Keys(b), Admitted(b)',
         store'[b] = "memory", Remembered(b, k)', reserved'[b] = reserved[b],
         RowOf(b, k) \in memory[Process(b)]
  PROVE  RowOf(b, k) \in memory'[Process(b)]
<1> USE DEF Shape, TypeOK
<1>1. Process(b) \in Processes
  BY KeyTypes
<1>2. InWindow(reserved[b])
  BY WorldMovesOn, ThrottleAssumption DEF Remembered, InWindow
<1>3. [attempt |-> b, key |-> k, where |-> "memory"] \notin forgiven'
  BY DEF Remembered
<1>4. ASSUME NEW a \in Attempts, Decide(a) \/ FallBack(a)
      PROVE  RowOf(b, k) \in memory'[Process(b)]
  <2>1. RowOf(b, k) \in Swept(memory[Process(b)], a)
    BY <1>2 DEF Swept, RowOf
  <2>2. QED
    BY <1>1, <1>4, <2>1 DEF Decide, FallBack
<1>5. ASSUME NEW a \in Attempts, Unreserve(a) \/ VerifyErrors(a)
      PROVE  RowOf(b, k) \in memory'[Process(b)]
  <2>1. a # b
    BY <1>5 DEF Unreserve, VerifyErrors, GoTo, Admitted
  <2>2. QED
    BY <1>1, <1>5, <2>1 DEF Unreserve, VerifyErrors, Unreserved, RowOf
<1>6. ASSUME NEW a \in Attempts, VerifySucceeds(a)
      PROVE  RowOf(b, k) \in memory'[Process(b)]
  <2>1. a # b
    BY <1>6 DEF VerifySucceeds, GoTo, Admitted
  <2>2. CASE Process(a) = Process(b) /\ k = LoginKey(a)
    <3>1. [attempt |-> b, key |-> k, where |-> "memory"] \in forgiven'
      BY <1>6, <2>2 DEF VerifySucceeds, RowOf
    <3>2. QED
      BY <1>3, <3>1
  <2>3. CASE ~(Process(a) = Process(b) /\ k = LoginKey(a))
    <3>1. RowOf(b, k) \in Unreserved(a)[Process(b)]
      BY <1>1, <2>1 DEF Unreserved, RowOf
    <3>2. RowOf(b, k).key = k
      BY DEF RowOf
    <3>3. DOMAIN Unreserved(a) = Processes
      BY DEF Unreserved
    <3>4. QED
      BY <1>1, <1>6, <2>3, <3>1, <3>2, <3>3 DEF VerifySucceeds
  <2>4. QED
    BY <2>2, <2>3
<1>7. ASSUME NEW a \in Attempts,
             \/ Begin(a) \/ CallStarts(a) \/ MarkAvailable(a) \/ VerifyFails(a)
             \/ CallRefused(a) \/ CallTimesOut(a)
      PROVE  memory' = memory
  BY <1>7 DEF Begin, CallStarts, MarkAvailable, VerifyFails, CallRefused, CallTimesOut
<1>8. ASSUME NEW p \in Processes, StoreStep(p) \/ CallFails(p)
      PROVE  memory' = memory
  BY <1>8 DEF StoreStep, StoreExecutes, StoreCommits, StoreAnswers, CallFails
<1>9. ASSUME NEW p \in Processes, Crash(p)
      PROVE  RowOf(b, k) \in memory'[Process(b)]
  <2>1. CASE p = Process(b)
    <3>1. [attempt |-> b, key |-> k, where |-> "memory"] \in forgiven'
      BY <1>9, <2>1 DEF Crash, RowOf
    <3>2. QED
      BY <1>3, <3>1
  <2>2. CASE p # Process(b)
    BY <1>1, <1>9, <2>2 DEF Crash
  <2>3. QED
    BY <2>1, <2>2
<1>10. CASE Tick \/ UNCHANGED vars
  BY <1>10 DEF Tick, vars
<1>11. QED
  BY <1>4, <1>5, <1>6, <1>7, <1>8, <1>9, <1>10 DEF Next, Work, Fault, Step, Verify

LEMMA MemoryKept ==
  ASSUME Shape, MemoryInv, [Next]_vars
  PROVE  MemoryInv'
<1>1. SUFFICES ASSUME NEW b \in Attempts, NEW k \in Keys(b)', store'[b] = "memory",
                      Admitted(b)', Remembered(b, k)'
               PROVE  RowOf(b, k)' \in memory'[Process(b)']
  BY DEF MemoryInv
<1>2. k \in Keys(b) /\ Process(b)' = Process(b)
  BY WorldMovesOn DEF Keys, LoginKey, IpKey, Process
<1>3. CASE store[b] = "memory" /\ Admitted(b) /\ reserved'[b] = reserved[b]
  <2>1. Remembered(b, k)
    BY <1>1, <1>2, <1>3, WorldMovesOn, ThrottleAssumption
       DEF Remembered, InWindow, Shape, TypeOK
  <2>2. RowOf(b, k) \in memory[Process(b)]
    BY <1>2, <1>3, <2>1 DEF MemoryInv
  <2>3. RowOf(b, k) \in memory'[Process(b)]
    BY <1>1, <1>2, <1>3, <2>2, MemoryLosesNoRow
  <2>4. QED
    BY <1>2, <1>3, <2>3 DEF RowOf
<1>4. CASE FallBack(b) /\ reserved'[b] = clock
  <2>1. RowOf(b, k)' \in NewRows(b)
    BY <1>2, <1>4 DEF RowOf, NewRows
  <2>2. Process(b) \in Processes
    BY KeyTypes DEF Shape
  <2>3. QED
    BY <1>2, <1>4, <2>1, <2>2 DEF FallBack, Shape, TypeOK
<1>5. QED
  BY <1>1, <1>3, <1>4, MemoryStands

-------------------------------------------------------------------------------
(* Fewer than the limit came before *)

\* What an attempt that is let through was judged by.
LEMMA AdmittedHadRoom ==
  ASSUME Shape, [Next]_vars, NEW a \in Attempts, store'[a] = "shared", Admitted(a)',
         ~(store[a] = "shared" /\ Admitted(a))
  PROVE  /\ Decide(a) /\ Full(SharedAndMemory(a), a) = {}
         /\ order[a] > 0 /\ order' = order
<1> USE DEF Shape, TypeOK
<1>0. StoreOk(a) /\ pc[a] \in Points
  BY DEF StoreInv
<1>1. ASSUME NEW b \in Attempts,
             \/ Begin(b) \/ CallStarts(b) \/ MarkAvailable(b) \/ FallBack(b)
             \/ Unreserve(b) \/ Verify(b)
      PROVE  FALSE
  BY <1>0, <1>1
     DEF StoreOk, Begin, CallStarts, MarkAvailable, FallBack, Unreserve, Verify, VerifyFails,
         VerifySucceeds, VerifyErrors, GoTo, Admitted, attemptVars, history
<1>2. ASSUME NEW b \in Attempts, Decide(b)
      PROVE  /\ a = b /\ Full(SharedAndMemory(a), a) = {}
             /\ order[a] > 0 /\ order' = order
  <2>1. a = b
    BY <1>2 DEF Decide, GoTo, Admitted
  <2>2. QED
    BY <1>0, <1>2, <2>1 DEF Decide, GoTo, Admitted, StoreOk, history
<1>3. ASSUME NEW b \in Attempts, pc[b] \in Calling, Raise(b), UNCHANGED store
      PROVE  FALSE
  BY <1>0, <1>3, CallTables DEF Raise, GoTo, StoreOk, Admitted
<1>4. ASSUME NEW b \in Attempts, CallRefused(b) \/ CallTimesOut(b)
      PROVE  FALSE
  <2>1. pc[b] \in Calling /\ Raise(b)
    BY <1>4, KeyTypes, OpTypes DEF CallRefused, CallTimesOut, Running, Awaited
  <2>2. QED
    BY <1>3, <1>4, <2>1 DEF CallRefused, CallTimesOut
<1>5. ASSUME NEW p \in Processes, CallFails(p)
      PROVE  FALSE
  <2>1. op[p].attempt \in Attempts
    BY <1>5, CallersTyped DEF CallFails
  <2>2. CASE Awaited(p)
    BY <1>3, <1>5, <2>1, <2>2 DEF CallFails, Awaited
  <2>3. CASE ~Awaited(p)
    BY <1>5, <2>3 DEF CallFails, Admitted
  <2>4. QED
    BY <2>2, <2>3
<1>6. ASSUME NEW p \in Processes, StoreExecutes(p) \/ StoreCommits(p)
      PROVE  FALSE
  BY <1>6 DEF StoreExecutes, StoreCommits, Admitted
<1>7. ASSUME NEW p \in Processes, StoreAnswers(p)
      PROVE  FALSE
  <2>1. op[p].attempt \in Attempts
    BY <1>7, OpTypes DEF StoreAnswers
  <2>2. QED
    BY <1>0, <1>7, <2>1, CallTables
       DEF StoreAnswers, Awaited, GoTo, StoreOk, Admitted
<1>8. ASSUME NEW p \in Processes, Crash(p)
      PROVE  FALSE
  <2>1. pc'[a] = pc[a] \/ pc'[a] = AfterCrash(pc[a])
    BY <1>8 DEF Crash
  <2>2. QED
    BY <1>0, <1>8, <2>1, CallTables
       DEF Crash, AfterCrash, Points, Ended, StoreOk, Admitted
<1>9. CASE Tick \/ UNCHANGED vars
  BY <1>9 DEF Tick, vars, attemptVars, Admitted
<1>10. QED
  BY <1>1, <1>2, <1>4, <1>5, <1>6, <1>7, <1>8, <1>9
     DEF Next, Work, Fault, Step, StoreStep

\* The shared failures before a deciding attempt, and those its process counted in
\* memory, each have a row of their own among those it is judged by.
LEMMA JudgedByAll ==
  ASSUME Shape, MemoryInv, SeenInv, NEW a \in Attempts, pc[a] = "deciding",
         Full(SharedAndMemory(a), a) = {}, NEW k \in Keys(a)
  PROVE  /\ IsFiniteSet(MemoryFailures(Process(a), k) \cup Before(a, k))
         /\ Cardinality(MemoryFailures(Process(a), k) \cup Before(a, k)) < Limit(k)
<1> DEFINE S == MemoryFailures(Process(a), k) \cup Before(a, k)
           rows == SharedAndMemory(a)
<1>1. Process(a) \in Processes /\ Limit(k) \in Nat
  BY KeyTypes DEF Shape
<1>2. IsFiniteSet(rows)
  BY <1>1, RecentFinite, FS_Union DEF Shape, FiniteInv, SharedAndMemory
<1>3. \A b \in S: \E r \in Others(rows, a, k): r.attempt = b
  <2>1. SUFFICES ASSUME NEW b \in S
                 PROVE  \E r \in Others(rows, a, k): r.attempt = b
    OBVIOUS
  <2>2. CASE b \in Before(a, k)
    <3>1. b # a
      BY <2>2 DEF Before, Shape, TypeOK
    <3>2. PICK r \in seen[a]: r.attempt = b /\ r.key = k
      BY <2>2 DEF SeenInv
    <3>3. r \in Others(rows, a, k)
      BY <3>1, <3>2 DEF Others, SharedAndMemory
    <3>4. QED
      BY <3>2, <3>3
  <2>3. CASE b \in MemoryFailures(Process(a), k)
    <3>1. /\ b \in Attempts /\ Process(b) = Process(a) /\ store[b] = "memory"
          /\ Admitted(b) /\ Remembered(b, k) /\ k \in Keys(b)
      BY <2>3 DEF MemoryFailures, Remembered
    <3>2. b # a
      BY <3>1 DEF Admitted
    <3>3. RowOf(b, k) \in memory[Process(a)] /\ InWindow(reserved[b])
      BY <3>1 DEF MemoryInv, Remembered
    <3>4. [attempt |-> b, key |-> k, age |-> clock - reserved[b], where |-> "memory"]
             \in RecentRows(memory[Process(a)], a, "memory")
      BY <3>3 DEF RecentRows, RowOf
    <3>5. QED
      BY <3>2, <3>4 DEF Others, SharedAndMemory
  <2>4. QED
    BY <2>1, <2>2, <2>3
<1>4. IsFiniteSet(S) /\ Cardinality(S) <= Cardinality(Others(rows, a, k))
  BY <1>2, <1>3, RowsCountAttempts
<1>5. IsFiniteSet(Others(rows, a, k))
  BY <1>2, FS_Subset DEF Others
<1>6. ~(Cardinality(Others(rows, a, k)) >= Limit(k))
  BY DEF Full
<1>7. Cardinality(S) \in Nat /\ Cardinality(Others(rows, a, k)) \in Nat
  BY <1>4, <1>5, FS_CardinalityType
<1>8. QED
  BY <1>1, <1>4, <1>6, <1>7

LEMMA BeforeFinite ==
  ASSUME NEW a, NEW k
  PROVE  IsFiniteSet(Before(a, k))
BY FS_Subset, ThrottleAssumption DEF Before

LEMMA RankKept ==
  ASSUME Shape, MemoryInv, SeenInv, RankInv, [Next]_vars
  PROVE  RankInv'
<1>1. SUFFICES ASSUME NEW a \in Attempts, store'[a] = "shared", Admitted(a)',
                      NEW k \in Keys(a)'
               PROVE  Cardinality(Before(a, k)') < Limit(k)
  BY DEF RankInv, Limit
<1>2. order[a] > 0
  BY <1>1, AdmittedHadRoom DEF Shape, StoreInv, StoreOk
<1>3. Standing(a)'
  <2>1. order'[a] > 0
    BY <1>1, ShapeKept DEF Shape, StoreInv, StoreOk
  <2>2. QED
    BY <1>1, <2>1 DEF Standing
<1>4. Before(a, k)' \subseteq Before(a, k) /\ k \in Keys(a)
  BY <1>1, <1>2, <1>3, BeforeShrinks
<1>5. Limit(k) \in Nat
  BY <1>4, KeyTypes DEF Shape
<1>6. Cardinality(Before(a, k)) < Limit(k)
  <2>1. CASE store[a] = "shared" /\ Admitted(a)
    BY <1>4, <2>1 DEF RankInv
  <2>2. CASE ~(store[a] = "shared" /\ Admitted(a))
    <3>1. Decide(a) /\ Full(SharedAndMemory(a), a) = {}
      BY <1>1, <2>2, AdmittedHadRoom
    <3>2. /\ IsFiniteSet(MemoryFailures(Process(a), k) \cup Before(a, k))
          /\ Cardinality(MemoryFailures(Process(a), k) \cup Before(a, k)) < Limit(k)
      BY <1>4, <3>1, JudgedByAll DEF Decide
    <3>3. /\ Cardinality(Before(a, k)) <=
                Cardinality(MemoryFailures(Process(a), k) \cup Before(a, k))
          /\ Cardinality(Before(a, k)) \in Nat
          /\ Cardinality(MemoryFailures(Process(a), k) \cup Before(a, k)) \in Nat
      BY <3>2, FS_Subset, FS_CardinalityType, BeforeFinite
    <3>4. QED
      BY <1>5, <3>2, <3>3
  <2>3. QED
    BY <2>1, <2>2
<1>7. /\ Cardinality(Before(a, k)') <= Cardinality(Before(a, k))
      /\ Cardinality(Before(a, k)') \in Nat /\ Cardinality(Before(a, k)) \in Nat
  BY <1>4, BeforeFinite, FS_Subset, FS_CardinalityType
<1>8. QED
  BY <1>5, <1>6, <1>7

\* An attempt that has limited keys is let through by its process's decision alone.
LEMMA LetThrough ==
  ASSUME Shape, [Next]_vars, NEW a \in Attempts, pc[a] # "verifying",
         pc'[a] = "verifying", Keys(a) # {}
  PROVE  Decide(a) \/ FallBack(a)
<1> USE DEF Shape, TypeOK
<1>1. ASSUME NEW b \in Attempts,
             Begin(b) \/ CallStarts(b) \/ MarkAvailable(b) \/ Unreserve(b) \/ Verify(b)
      PROVE  FALSE
  BY <1>1 DEF Begin, CallStarts, MarkAvailable, Unreserve, Verify, VerifyFails, VerifySucceeds,
              VerifyErrors, GoTo, attemptVars
<1>2. ASSUME NEW b \in Attempts, Decide(b) \/ FallBack(b)
      PROVE  b = a
  BY <1>2 DEF Decide, FallBack, GoTo
<1>3. ASSUME NEW b \in Attempts, pc[b] \in Calling, Raise(b)
      PROVE  FALSE
  BY <1>3, CallTables DEF Raise, GoTo
<1>4. ASSUME NEW b \in Attempts, CallRefused(b) \/ CallTimesOut(b)
      PROVE  FALSE
  <2>1. pc[b] \in Calling /\ Raise(b)
    BY <1>4, KeyTypes, OpTypes DEF CallRefused, CallTimesOut, Running, Awaited
  <2>2. QED
    BY <1>3, <2>1
<1>5. ASSUME NEW p \in Processes, CallFails(p)
      PROVE  FALSE
  BY <1>3, <1>5, CallersTyped DEF CallFails, Awaited
<1>6. ASSUME NEW p \in Processes, StoreStep(p)
      PROVE  FALSE
  <2>1. op[p] # NoOp /\ op[p].attempt \in Attempts
    BY <1>6, OpTypes DEF StoreStep, StoreExecutes, StoreCommits, StoreAnswers
  <2>2. QED
    BY <1>6, <2>1, CallTables
       DEF StoreStep, StoreExecutes, StoreCommits, StoreAnswers, Awaited, GoTo
<1>7. ASSUME NEW p \in Processes, Crash(p)
      PROVE  FALSE
  BY <1>7, CallTables DEF Crash, AfterCrash, Points, Ended
<1>8. CASE Tick \/ UNCHANGED vars
  BY <1>8 DEF Tick, vars, attemptVars
<1>9. QED
  BY <1>1, <1>2, <1>4, <1>5, <1>6, <1>7, <1>8 DEF Next, Work, Fault, Step

-------------------------------------------------------------------------------
(* Theorems *)

LEMMA InitEstablishes == Init => IInv
<1> SUFFICES ASSUME Init
             PROVE  IInv
  OBVIOUS
<1>1. TypeOK
  BY InitIsTyped
<1>2. FiniteInv
  BY FS_EmptySet DEF Init, FiniteInv, NoOp
<1>3. OpInv /\ StoreInv /\ OrderInv
  BY DEF Init, OpInv, StoreInv, StoreOk, OrderInv
<1>4. RowInv /\ MemoryInv /\ SeenInv /\ RankInv
  BY DEF Init, RowInv, MemoryInv, SeenInv, RankInv, Standing
<1>5. QED
  BY <1>1, <1>2, <1>3, <1>4 DEF IInv, Shape

LEMMA StepKeeps ==
  ASSUME IInv, [Next]_vars
  PROVE  IInv'
BY ShapeKept, RowsKept, MemoryKept, SeenKept, RankKept DEF IInv

\* The inductive invariant: where every attempt, call and row stands, that what
\* counts is recorded and read, and that fewer than the limit came before.
\* (reserve, begin, login_throttle.py:231-281, 397-444)
THEOREM ThrottleInvariant == Spec => []IInv
<1>1. QED
  BY InitEstablishes, StepKeeps, PTL DEF Spec

\* Every step keeps the types of the state. (login_throttle.py:93-172, 231-281)
THEOREM ThrottleTyped == Spec => []TypeOK
<1>1. IInv => TypeOK
  BY DEF IInv, Shape
<1>2. QED
  BY <1>1, ThrottleInvariant, PTL

\* A failure is recorded where it was counted as long as it counts.
\* (record_failure, release, clear, purge_expired, login_throttle.py:250-281)
THEOREM FailuresStayRecorded == Spec => []FailureRecorded
<1>1. ASSUME IInv
      PROVE  FailureRecorded
  <2>1. SUFFICES ASSUME NEW a \in Attempts, NEW k \in Keys(a), store[a] # "none",
                        Admitted(a), Remembered(a, k)
                 PROVE  RowOf(a, k) \in IF store[a] = "shared" THEN shared
                                        ELSE memory[Process(a)]
    BY DEF FailureRecorded, RowOf
  <2>2. CASE store[a] = "shared"
    <3>1. Standing(a)
      BY <1>1, <2>1, <2>2 DEF IInv, Shape, StoreInv, StoreOk, Standing
    <3>2. Alive(a, k)
      BY <2>1, <2>2 DEF Remembered, Alive
    <3>3. QED
      BY <1>1, <2>2, <3>1, <3>2 DEF IInv, RowInv
  <2>3. CASE store[a] = "memory"
    BY <1>1, <2>1, <2>3 DEF IInv, MemoryInv
  <2>4. QED
    BY <1>1, <2>1, <2>2, <2>3 DEF IInv, Shape, TypeOK
<1>2. QED
  BY <1>1, ThrottleInvariant, PTL

\* The failures of a key that were committed before a, one of them.
EarlierFailures(a, k) == {b \in SharedFailures(k): order[b] < order[a]}

LEMMA EarlierStoodBefore ==
  ASSUME IInv, NEW k, NEW a \in SharedFailures(k)
  PROVE  /\ a \in Attempts /\ k \in Keys(a) /\ order[a] \in Nat
         /\ EarlierFailures(a, k) \subseteq Before(a, k)
         /\ IsFiniteSet(EarlierFailures(a, k))
         /\ Cardinality(EarlierFailures(a, k)) \in Nat
         /\ Cardinality(EarlierFailures(a, k)) < Limit(k)
         /\ Limit(k) \in Nat
<1> USE DEF IInv
<1>1. a \in Attempts /\ k \in Keys(a) /\ store[a] = "shared" /\ Admitted(a)
  BY DEF SharedFailures, Remembered
<1>2. order[a] \in Nat /\ Limit(k) \in Nat
  BY <1>1, KeyTypes DEF Shape, TypeOK
<1>3. EarlierFailures(a, k) \subseteq Before(a, k)
  BY DEF EarlierFailures, SharedFailures, Before, Standing, Alive, Remembered, Shape,
         StoreInv, StoreOk
<1>4. Cardinality(Before(a, k)) < Limit(k)
  BY <1>1 DEF RankInv
<1>5. IsFiniteSet(Before(a, k)) /\ Cardinality(Before(a, k)) \in Nat
  BY BeforeFinite, FS_CardinalityType
<1>6. /\ IsFiniteSet(EarlierFailures(a, k))
      /\ Cardinality(EarlierFailures(a, k)) <= Cardinality(Before(a, k))
  BY <1>3, <1>5, FS_Subset
<1>7. Cardinality(EarlierFailures(a, k)) \in Nat
  BY <1>6, FS_CardinalityType
<1>8. QED
  BY <1>1, <1>2, <1>3, <1>4, <1>5, <1>6, <1>7

\* Of two failures of a key the later one has more before it.
LEMMA LaterHasMore ==
  ASSUME IInv, NEW k, NEW a \in SharedFailures(k), NEW b \in SharedFailures(k),
         order[a] < order[b]
  PROVE  Cardinality(EarlierFailures(a, k)) < Cardinality(EarlierFailures(b, k))
<1> DEFINE earlier == EarlierFailures(a, k)
<1>1. /\ order[a] \in Nat /\ order[b] \in Nat
      /\ IsFiniteSet(earlier) /\ IsFiniteSet(EarlierFailures(b, k))
      /\ Cardinality(earlier) \in Nat /\ Cardinality(EarlierFailures(b, k)) \in Nat
  BY EarlierStoodBefore
<1>2. a \notin earlier
  BY <1>1 DEF EarlierFailures
<1>3. Cardinality(earlier \cup {a}) = Cardinality(earlier) + 1
  BY <1>1, <1>2, FS_AddElement
<1>4. earlier \cup {a} \subseteq EarlierFailures(b, k)
  <2>1. \A c \in earlier: c \in SharedFailures(k) /\ order[c] < order[a]
    BY DEF EarlierFailures
  <2>2. \A c \in SharedFailures(k): order[c] \in Nat
    BY DEF SharedFailures, IInv, Shape, TypeOK
  <2>3. QED
    BY <1>1, <2>1, <2>2 DEF EarlierFailures
<1>5. Cardinality(earlier \cup {a}) <= Cardinality(EarlierFailures(b, k))
  BY <1>1, <1>4, FS_Subset
<1>6. QED
  BY <1>1, <1>3, <1>5

\* No more attempts than the limit are let through in a window, however the
\* processes interleave and whatever calls fail, hang or answer late.
\* (begin and reserve, login_throttle.py:34-38, 231-248, 411-434)
THEOREM FailuresAreBounded == Spec => []FailuresBounded
<1>1. ASSUME IInv
      PROVE  FailuresBounded
  <2>1. SUFFICES ASSUME NEW k \in Key, Limit(k) > 0
                 PROVE  Cardinality(SharedFailures(k)) <= Limit(k)
    BY DEF FailuresBounded
  <2> DEFINE S == SharedFailures(k)
             rank == [a \in S |-> Cardinality(EarlierFailures(a, k))]
             ranks == 0 .. (Limit(k) - 1)
  <2>2. Limit(k) \in Nat
    BY ThrottleAssumption DEF Limit
  <2>3. IsFiniteSet(ranks) /\ Cardinality(ranks) = Limit(k)
    BY <2>1, <2>2, FS_Interval
  <2>4. rank \in [S -> ranks]
    BY <1>1, <2>2, EarlierStoodBefore
  <2>5. \A a, b \in S: rank[a] = rank[b] => a = b
    <3>1. SUFFICES ASSUME NEW a \in S, NEW b \in S, a # b
                   PROVE  rank[a] # rank[b]
      OBVIOUS
    <3>2. order[a] \in Nat /\ order[b] \in Nat /\ order[a] # order[b]
      BY <1>1, <3>1
         DEF SharedFailures, IInv, Shape, TypeOK, OrderInv, StoreInv, StoreOk
    <3>3. CASE order[a] < order[b]
      BY <1>1, <3>3, LaterHasMore, EarlierStoodBefore
    <3>4. CASE order[b] < order[a]
      BY <1>1, <3>4, LaterHasMore, EarlierStoodBefore
    <3>5. QED
      BY <3>2, <3>3, <3>4
  <2>6. rank \in Injection(S, ranks)
    BY <2>4, <2>5 DEF Injection, IsInjective
  <2>7. QED
    BY <2>3, <2>6, FS_Injection
<1>2. QED
  BY <1>1, ThrottleInvariant, PTL

\* The step that lets an attempt through has counted every failure its process can
\* know. (begin, login_throttle.py:422-436)
THEOREM KnownFailuresAreCounted == Spec => KnownFailuresCount
<1> DEFINE Known(a, k) == MemoryFailures(Process(a), k)
               \cup {b \in SharedFailures(k): store'[a] = "shared"
                                                /\ order[b] < order[a]}
<1>1. ASSUME IInv, [Next]_vars, NEW a \in Attempts, pc[a] # "verifying",
             pc'[a] = "verifying", NEW k \in Keys(a)
      PROVE  Cardinality(Known(a, k)) < Limit(k)
  <2>1. Limit(k) \in Nat /\ Process(a) \in Processes
    BY <1>1, KeyTypes DEF IInv, Shape
  <2>2. CASE Decide(a)
    <3>1. pc[a] = "deciding" /\ Full(SharedAndMemory(a), a) = {}
      BY <1>1, <2>2 DEF Decide, GoTo, IInv, Shape, TypeOK
    <3>2. Known(a, k) \subseteq MemoryFailures(Process(a), k) \cup Before(a, k)
      BY <1>1 DEF SharedFailures, Before, Standing, Alive, Remembered, IInv, Shape,
                  StoreInv, StoreOk
    <3>3. /\ IsFiniteSet(MemoryFailures(Process(a), k) \cup Before(a, k))
          /\ Cardinality(MemoryFailures(Process(a), k) \cup Before(a, k)) < Limit(k)
      BY <1>1, <3>1, JudgedByAll DEF IInv
    <3>4. /\ IsFiniteSet(Known(a, k))
          /\ Cardinality(Known(a, k)) <=
                Cardinality(MemoryFailures(Process(a), k) \cup Before(a, k))
      BY <3>2, <3>3, FS_Subset
    <3>5. /\ Cardinality(Known(a, k)) \in Nat
          /\ Cardinality(MemoryFailures(Process(a), k) \cup Before(a, k)) \in Nat
      BY <3>3, <3>4, FS_CardinalityType
    <3>6. QED
      BY <2>1, <3>3, <3>4, <3>5
  <2>3. CASE FallBack(a)
    <3> DEFINE rows == RecentRows(memory[Process(a)], a, "memory")
    <3>1. /\ pc[a] = "falling" /\ store'[a] = "memory"
          /\ Full(rows, a) = {}
      BY <1>1, <2>3 DEF FallBack, GoTo, IInv, Shape, TypeOK
    <3>2. IsFiniteSet(rows)
      BY <1>1, <2>1, RecentFinite DEF IInv, Shape, FiniteInv
    <3>3. \A b \in Known(a, k): \E r \in Others(rows, a, k): r.attempt = b
      <4>1. SUFFICES ASSUME NEW b \in Known(a, k)
                     PROVE  \E r \in Others(rows, a, k): r.attempt = b
        OBVIOUS
      <4>2. /\ b \in Attempts /\ Process(b) = Process(a) /\ store[b] = "memory"
            /\ Admitted(b) /\ Remembered(b, k) /\ k \in Keys(b) /\ b # a
        BY <3>1, <4>1 DEF MemoryFailures, Remembered, Admitted
      <4>3. RowOf(b, k) \in memory[Process(a)] /\ InWindow(reserved[b])
        BY <1>1, <4>2 DEF IInv, MemoryInv, Remembered
      <4>4. [attempt |-> b, key |-> k, age |-> clock - reserved[b],
             where |-> "memory"] \in rows
        BY <1>1, <4>3 DEF RecentRows, RowOf
      <4>5. QED
        BY <4>2, <4>4 DEF Others
    <3>4. /\ IsFiniteSet(Known(a, k))
          /\ Cardinality(Known(a, k)) <= Cardinality(Others(rows, a, k))
      BY <3>2, <3>3, RowsCountAttempts
    <3>5. IsFiniteSet(Others(rows, a, k))
      BY <3>2, FS_Subset DEF Others
    <3>6. ~(Cardinality(Others(rows, a, k)) >= Limit(k))
      BY <1>1, <3>1 DEF Full
    <3>7. Cardinality(Known(a, k)) \in Nat /\ Cardinality(Others(rows, a, k)) \in Nat
      BY <3>4, <3>5, FS_CardinalityType
    <3>8. QED
      BY <2>1, <3>4, <3>6, <3>7
  <2>4. Decide(a) \/ FallBack(a)
    BY <1>1, LetThrough DEF IInv
  <2>5. QED
    BY <2>2, <2>3, <2>4
<1>2. IInv /\ [Next]_vars =>
        [\A a \in Attempts: pc[a] # "verifying" /\ pc'[a] = "verifying" =>
           \A k \in Keys(a):
             Cardinality(MemoryFailures(Process(a), k)
                 \cup {b \in SharedFailures(k): store'[a] = "shared"
                                                  /\ order[b] < order[a]}) < Limit(k)]_vars
  BY <1>1
<1>3. QED
  BY <1>2, ThrottleInvariant, PTL DEF Spec, KnownFailuresCount

-------------------------------------------------------------------------------
(* How long a refused client is told to wait *)

\* Every set of naturals that is not empty has a least one.
LEMMA LeastNatural ==
  ASSUME NEW T, T \subseteq Nat, T # {}
  PROVE  \E x \in T: \A y \in T: x <= y
<1> DEFINE below == {ss \in Nat \X Nat: ss[1] < ss[2]}
<1>1. IsWellFoundedOn(below, Nat)
  BY NatLessThanWellFounded DEF OpToRel
<1>2. PICK x \in T: \A y \in T: ~(<<y, x>> \in below)
  <2> HIDE DEF below
  <2> QED
    BY <1>1, WFMin
<1>3. \A y \in T: <<y, x>> \in Nat \X Nat
  OBVIOUS
<1>4. \A y \in T: ~(y < x)
  BY <1>2, <1>3
<1>5. QED
  BY <1>4

\* Ages are counted from 0, and end with the window.
Aged(rows) == IsFiniteSet(rows) /\ \A r \in rows: r.age \in 0..(Window - 1)

\* The rows that count against a for key k and are younger than n.
Younger(rows, a, k, n) == {r \in Others(rows, a, k): r.age < n}

LEMMA YoungerRows ==
  ASSUME NEW rows, Aged(rows), NEW a, NEW k, NEW n \in Int
  PROVE  /\ IsFiniteSet(Younger(rows, a, k, n)) /\ Cardinality(Younger(rows, a, k, n)) \in Nat
         /\ \A m \in Int: m <= n =>
              Cardinality(Younger(rows, a, k, m)) <= Cardinality(Younger(rows, a, k, n))
         /\ {r \in Others(rows, a, k): r.age <= n} = Younger(rows, a, k, n + 1)
         /\ {r \in Others(rows, a, k): r.age + n < Window} = Younger(rows, a, k, Window - n)
<1>1. /\ Window \in Nat \ {0}
      /\ IsFiniteSet(Others(rows, a, k))
      /\ \A r \in Others(rows, a, k): r.age \in Int /\ 0 <= r.age /\ r.age < Window
  BY ThrottleAssumption, FS_Subset DEF Aged, Others
<1>2. IsFiniteSet(Younger(rows, a, k, n)) /\ Cardinality(Younger(rows, a, k, n)) \in Nat
  BY <1>1, FS_Subset, FS_CardinalityType DEF Younger
<1>3. ASSUME NEW m \in Int, m <= n
      PROVE  Cardinality(Younger(rows, a, k, m)) <= Cardinality(Younger(rows, a, k, n))
  <2>1. Younger(rows, a, k, m) \subseteq Younger(rows, a, k, n)
    BY <1>1, <1>3 DEF Younger
  <2> QED
    BY <1>2, <2>1, FS_Subset
<1>4. {r \in Others(rows, a, k): r.age <= n} = Younger(rows, a, k, n + 1)
  BY <1>1 DEF Younger
<1>5. {r \in Others(rows, a, k): r.age + n < Window} = Younger(rows, a, k, Window - n)
  BY <1>1 DEF Younger
<1>6. QED
  BY <1>2, <1>3, <1>4, <1>5

LEMMA YoungestAndAll ==
  ASSUME NEW rows, Aged(rows), NEW a, NEW k
  PROVE  /\ Younger(rows, a, k, 0) = {}
         /\ Younger(rows, a, k, Window) = Others(rows, a, k)
<1>1. /\ Window \in Nat \ {0}
      /\ \A r \in Others(rows, a, k): r.age \in Int /\ 0 <= r.age /\ r.age < Window
  BY ThrottleAssumption DEF Aged, Others
<1>2. QED
  BY <1>1 DEF Younger

\* The rows of others in age order fill the limit at one of their ages.
LEMMA LimitingAgeExists ==
  ASSUME NEW rows, Aged(rows), NEW a \in Attempts, TypeOK, NEW k \in Full(rows, a)
  PROVE  LET x == LimitingAge(rows, a, k)
         IN  /\ x \in Int /\ 0 <= x /\ x < Window
             /\ Cardinality(Younger(rows, a, k, x)) < Limit(k)
             /\ Cardinality(Younger(rows, a, k, x + 1)) >= Limit(k)
<1> DEFINE others == Others(rows, a, k)
           Count(n) == Cardinality(Younger(rows, a, k, n))
           filled == {n \in Nat: Count(n) >= Limit(k)}
           Limits(x) == /\ Cardinality({r \in Others(rows, a, k): r.age < x}) < Limit(k)
                        /\ Cardinality({r \in Others(rows, a, k): r.age <= x}) >= Limit(k)
<1>1. /\ k \in Keys(a) /\ Cardinality(others) >= Limit(k)
      /\ Limit(k) \in Nat /\ Limit(k) > 0 /\ Window \in Nat \ {0}
  BY KeyTypes, ThrottleAssumption DEF Full, Keys
<1>2. \A n \in Int: Count(n) \in Nat /\ Younger(rows, a, k, n + 1) = {r \in others: r.age <= n}
  BY YoungerRows
<1>3. Younger(rows, a, k, 0) = {} /\ Younger(rows, a, k, Window) = others
  BY YoungestAndAll
<1>4. Count(0) = 0 /\ Count(Window) >= Limit(k)
  BY <1>1, <1>3, FS_EmptySet
<1>5. PICK n \in filled: \A m \in filled: n <= m
  <2>1. filled \subseteq Nat /\ filled # {}
    BY <1>1, <1>4
  <2> HIDE DEF filled
  <2> QED
    BY <2>1, LeastNatural
<1>6. n \in Nat /\ Count(n) >= Limit(k) /\ \A m \in Nat: Count(m) >= Limit(k) => n <= m
  BY <1>5
<1> HIDE DEF filled, Count
<1>7. n \in Nat /\ n # 0 /\ n - 1 \in Nat
  BY <1>1, <1>4, <1>6
<1>8. Count(n - 1) < Limit(k)
  BY <1>1, <1>2, <1>6, <1>7
<1>9. PICK r \in others: r.age = n - 1
  <2>1. Younger(rows, a, k, n - 1) # Younger(rows, a, k, n)
    BY <1>1, <1>2, <1>6, <1>7, <1>8 DEF Count
  <2>2. \A r \in others: r.age \in Int
    BY <1>1 DEF Aged, Others
  <2>3. \A r \in others: r.age < n - 1 => r.age < n
    BY <1>7, <2>2
  <2>4. PICK r \in others: r.age < n /\ ~(r.age < n - 1)
    BY <2>1, <2>3 DEF Younger
  <2> QED
    BY <1>7, <2>2, <2>4
<1>10. Limits(n - 1)
  <2>1. Younger(rows, a, k, n) = {q \in others: q.age <= n - 1}
    <3>1. (n - 1) + 1 = n /\ n - 1 \in Int
      BY <1>7
    <3> QED
      BY <1>2, <3>1
  <2> QED
    BY <1>6, <1>8, <2>1 DEF Count, Younger
<1> DEFINE ages == {q.age: q \in others}
           x == LimitingAge(rows, a, k)
<1>11. x \in ages /\ Limits(x)
  <2>1. x = CHOOSE y \in ages: Limits(y)
    BY DEF LimitingAge
  <2>2. n - 1 \in ages
    BY <1>9
  <2> HIDE DEF ages, Limits, x
  <2> QED
    BY <1>10, <2>1, <2>2
<1>12. x \in Int /\ 0 <= x /\ x < Window
  BY <1>1, <1>11 DEF Aged, Others
<1>13. QED
  BY <1>2, <1>11, <1>12 DEF Younger

\* The wait ends when the last key has room, and not before.
LEMMA WaitIsExact ==
  ASSUME NEW rows, Aged(rows), NEW a \in Attempts, TypeOK, Full(rows, a) # {}
  PROVE  LET Left(k, t) == {r \in Others(rows, a, k): r.age + t < Window}
             Room(t) == \A k \in Keys(a): Cardinality(Left(k, t)) < Limit(k)
         IN  Room(Wait(rows, a)) /\ ~Room(Wait(rows, a) - 1)
<1> DEFINE Count(k, n) == Cardinality(Younger(rows, a, k, n))
           Age(k) == LimitingAge(rows, a, k)
           ages == {Age(k): k \in Full(rows, a)}
           waits == {Window - Age(k): k \in Full(rows, a)}
           w == Wait(rows, a)
<1>1. /\ Window \in Nat \ {0} /\ Full(rows, a) \subseteq Keys(a)
      /\ \A k \in Keys(a): Limit(k) \in Nat
  BY KeyTypes, ThrottleAssumption DEF Full
<1>2. \A k \in Full(rows, a):
        /\ Age(k) \in Int /\ 0 <= Age(k) /\ Age(k) < Window
        /\ Count(k, Age(k)) < Limit(k) /\ Count(k, Age(k) + 1) >= Limit(k)
  BY LimitingAgeExists
<1>3. w = CHOOSE u \in waits: \A v \in waits: v <= u
  BY DEF Wait
<1>4. \A k \in Keys(a), n \in Int:
        /\ Count(k, n) \in Nat
        /\ \A m \in Int: m <= n => Count(k, m) <= Count(k, n)
        /\ {r \in Others(rows, a, k): r.age + n < Window} = Younger(rows, a, k, Window - n)
  BY YoungerRows
<1>5. \A k \in Keys(a) \ Full(rows, a): Count(k, Window) < Limit(k)
  <2> SUFFICES ASSUME NEW k \in Keys(a), k \notin Full(rows, a)
               PROVE  Count(k, Window) < Limit(k)
    OBVIOUS
  <2>1. Window \in Int
    BY <1>1
  <2>2. Younger(rows, a, k, Window) = Others(rows, a, k)
    BY YoungestAndAll
  <2>3. ~(Cardinality(Others(rows, a, k)) >= Limit(k))
    BY DEF Full
  <2> QED
    BY <1>1, <1>4, <2>1, <2>2, <2>3
<1> HIDE DEF Age, Count, w
<1>6. PICK last \in Full(rows, a): \A k \in Full(rows, a): Age(last) <= Age(k)
  <2>1. ages \subseteq Nat /\ ages # {}
    BY <1>2
  <2>2. PICK x \in ages: \A y \in ages: x <= y
    <3> HIDE DEF ages
    <3> QED
      BY <2>1, LeastNatural
  <2> QED
    BY <2>2
<1>7. Window - Age(last) \in waits /\ \A v \in waits: v <= Window - Age(last)
  <2>1. \A k \in Full(rows, a): Window - Age(k) <= Window - Age(last)
    BY <1>1, <1>2, <1>6
  <2> QED
    BY <2>1, <1>6
<1>8. w \in waits /\ \A v \in waits: v <= w
  <2> HIDE DEF waits
  <2> QED
    BY <1>3, <1>7
<1>9. PICK full \in Full(rows, a): w = Window - Age(full)
  BY <1>8
<1>10. w \in Int /\ \A k \in Full(rows, a): Window - w <= Age(k)
  <2>1. w \in Int
    BY <1>1, <1>2, <1>9
  <2>2. \A k \in Full(rows, a): Window - Age(k) <= w
    BY <1>8
  <2> QED
    BY <1>1, <1>2, <2>1, <2>2
<1>11. ASSUME NEW k \in Keys(a)
       PROVE  Cardinality({r \in Others(rows, a, k): r.age + w < Window}) < Limit(k)
  <2>1. Count(k, Window - w) < Limit(k)
    <3>1. CASE k \in Full(rows, a)
      <4>1. /\ Window - w \in Int /\ Age(k) \in Int /\ Window - w <= Age(k)
            /\ Count(k, Age(k)) < Limit(k) /\ Limit(k) \in Nat
        BY <1>1, <1>2, <1>10, <3>1
      <4>2. Count(k, Window - w) <= Count(k, Age(k))
        BY <1>4, <4>1
      <4> QED
        BY <1>4, <4>1, <4>2
    <3>2. CASE k \notin Full(rows, a)
      <4>1. /\ Window - w \in Int /\ Window \in Int /\ Window - w <= Window
            /\ Count(k, Window) < Limit(k) /\ Limit(k) \in Nat
        BY <1>1, <1>2, <1>5, <1>9, <3>2
      <4>2. Count(k, Window - w) <= Count(k, Window)
        BY <1>4, <4>1
      <4> QED
        BY <1>4, <4>1, <4>2
    <3> QED
      BY <3>1, <3>2
  <2> QED
    BY <1>4, <1>10, <2>1 DEF Count
<1>12. ~(Cardinality({r \in Others(rows, a, full): r.age + (w - 1) < Window}) < Limit(full))
  <2>1. full \in Keys(a) /\ w - 1 \in Int /\ Window - (w - 1) = Age(full) + 1
    BY <1>1, <1>2, <1>9
  <2>2. Cardinality({r \in Others(rows, a, full): r.age + (w - 1) < Window})
          = Count(full, Age(full) + 1)
    BY <1>4, <2>1 DEF Count
  <2>3. Count(full, Age(full) + 1) >= Limit(full) /\ Age(full) + 1 \in Int
    BY <1>2
  <2> QED
    BY <1>1, <1>4, <2>1, <2>2, <2>3
<1>13. QED
  BY <1>1, <1>11, <1>12 DEF w

\* No row is from the future, ...
TimeInv ==
    /\ \A r \in shared: r.at <= clock
    /\ \A p \in Processes: /\ \A r \in memory[p]: r.at <= clock
                           /\ \A r \in op[p].rows: r.at <= clock

\* ... so those that were read are in the window; they are forgotten when the
\* attempt has been judged by them.
ReadInv == \A a \in Attempts:
    /\ pc[a] \notin {"answered", "deciding"} => seen[a] = {}
    /\ \A r \in seen[a]: r.age \in 0..(Window - 1)

LEMMA RecentAges ==
  ASSUME TypeOK, NEW a, NEW rows \in SUBSET Row, NEW where,
         \A r \in rows: r.at <= clock
  PROVE  \A r \in RecentRows(rows, a, where): r.age \in 0..(Window - 1)
<1>1. Window \in Nat /\ clock \in Nat /\ \A r \in rows: r.at \in Nat
  BY ThrottleAssumption DEF TypeOK, Row
<1>2. QED
  BY <1>1 DEF RecentRows, InWindow

LEMMA TimesKept ==
  ASSUME TypeOK, TimeInv, [Next]_vars
  PROVE  TimeInv'
<1>1. clock \in Nat /\ shared \subseteq Row /\ \A p \in Processes: memory[p] \subseteq Row
  BY DEF TypeOK
<1>2. ASSUME NEW a \in Attempts,
             \/ Begin(a) \/ MarkAvailable(a) \/ VerifyFails(a) \/ CallRefused(a)
             \/ CallTimesOut(a)
      PROVE  TimeInv'
  BY <1>2 DEF TimeInv, Begin, MarkAvailable, VerifyFails, CallRefused, CallTimesOut
<1>3. ASSUME NEW a \in Attempts, CallStarts(a)
      PROVE  TimeInv'
  <2>1. \A p \in Processes: op'[p].rows = op[p].rows \/ op'[p].rows = {}
    BY <1>3 DEF CallStarts, TypeOK
  <2>2. QED
    BY <1>3, <2>1 DEF TimeInv, CallStarts, attemptVars
<1>4. ASSUME NEW a \in Attempts,
             Decide(a) \/ Unreserve(a) \/ VerifySucceeds(a) \/ VerifyErrors(a)
      PROVE  TimeInv'
  <2>1. \A p \in Processes: memory'[p] \subseteq memory[p]
    BY <1>4 DEF Decide, Swept, Unreserve, VerifySucceeds, VerifyErrors, Unreserved, TypeOK
  <2>2. UNCHANGED <<op, shared, clock>>
    BY <1>4 DEF Decide, Unreserve, VerifySucceeds, VerifyErrors
  <2>3. QED
    BY <2>1, <2>2 DEF TimeInv
<1>5. ASSUME NEW a \in Attempts, FallBack(a)
      PROVE  TimeInv'
  <2>1. \A p \in Processes: memory'[p] \subseteq memory[p] \cup NewRows(a)
    BY <1>5 DEF FallBack, TypeOK, Swept
  <2>2. \A r \in NewRows(a): r.at <= clock
    BY <1>1 DEF NewRows
  <2>3. QED
    BY <1>5, <2>1, <2>2 DEF TimeInv, FallBack
<1>6. ASSUME NEW p \in Processes, CallFails(p)
      PROVE  TimeInv'
  <2>1. \A q \in Processes: op'[q].rows = op[q].rows \/ op'[q].rows = {}
    BY <1>6 DEF CallFails, TypeOK, NoOp
  <2>2. QED
    BY <1>6, <2>1 DEF TimeInv, CallFails
<1>7. ASSUME NEW p \in Processes, StoreExecutes(p)
      PROVE  TimeInv'
  <2>1. /\ op[p] \in [kind: {"reserve", "release", "purge", "clear"},
                      attempt: Attempts,
                      stage: {"started", "executed", "committed"},
                      rows: SUBSET Row]
    BY <1>7, OpTypes DEF StoreExecutes
  <2>2. Affected(op[p].kind, op[p].attempt) \subseteq shared \cup NewRows(op[p].attempt)
    BY <2>1 DEF Affected
  <2>3. \A r \in Affected(op[p].kind, op[p].attempt): r.at <= clock
    BY <1>1, <2>2 DEF NewRows, TimeInv
  <2>4. \A q \in Processes: \/ op'[q].rows = op[q].rows
                            \/ op'[q].rows = Affected(op[p].kind, op[p].attempt)
    BY <1>7, <2>1 DEF StoreExecutes, TypeOK
  <2>5. QED
    BY <1>7, <2>3, <2>4 DEF TimeInv, StoreExecutes
<1>8. ASSUME NEW p \in Processes, StoreCommits(p)
      PROVE  TimeInv'
  <2>1. op[p] \in [kind: {"reserve", "release", "purge", "clear"},
                      attempt: Attempts,
                      stage: {"started", "executed", "committed"},
                      rows: SUBSET Row]
    BY <1>8, OpTypes DEF StoreCommits
  <2>2. \A q \in Processes: op'[q].rows = op[q].rows
    BY <1>8, <2>1 DEF StoreCommits, TypeOK
  <2>3. shared' \subseteq shared \cup op[p].rows /\ UNCHANGED <<memory, clock>>
    BY <1>8 DEF StoreCommits
  <2>4. QED
    BY <2>2, <2>3 DEF TimeInv
<1>9. ASSUME NEW p \in Processes, StoreAnswers(p) \/ Crash(p)
      PROVE  TimeInv'
  <2>1. \A q \in Processes: /\ op'[q].rows = op[q].rows \/ op'[q].rows = {}
                            /\ memory'[q] \subseteq memory[q]
    BY <1>9 DEF StoreAnswers, Crash, TypeOK, NoOp
  <2>2. UNCHANGED <<shared, clock>>
    BY <1>9 DEF StoreAnswers, Crash
  <2>3. QED
    BY <2>1, <2>2 DEF TimeInv
<1>10. CASE Tick
  <2>1. clock' = clock + 1 /\ UNCHANGED <<op, shared, memory>>
    BY <1>10 DEF Tick
  <2>2. \A p \in Processes: op[p].rows \subseteq Row
    BY DEF TypeOK, NoOp
  <2>3. \A r \in Row: r.at <= clock => r.at <= clock + 1
    BY <1>1 DEF Row
  <2>4. QED
    BY <1>1, <2>1, <2>2, <2>3 DEF TimeInv
<1>11. CASE UNCHANGED vars
  BY <1>11 DEF TimeInv, vars
<1>12. QED
  BY <1>2, <1>3, <1>4, <1>5, <1>6, <1>7, <1>8, <1>9, <1>10, <1>11
     DEF Next, Work, Fault, Step, Verify, StoreStep

LEMMA ReadKept ==
  ASSUME TypeOK, TimeInv, ReadInv, [Next]_vars
  PROVE  ReadInv'
<1> DEFINE Reading == {"answered", "deciding"}
<1>1. ASSUME NEW a \in Attempts, UNCHANGED seen, NEW point, GoTo(a, point),
             pc[a] \in Reading => point \in Reading
      PROVE  ReadInv'
  BY <1>1 DEF ReadInv, GoTo, TypeOK
<1>2. ASSUME NEW a \in Attempts, Begin(a) \/ MarkAvailable(a)
      PROVE  ReadInv'
  BY <1>1, <1>2 DEF Begin, MarkAvailable
<1>3. ASSUME NEW a \in Attempts, FallBack(a) \/ Unreserve(a) \/ Verify(a)
      PROVE  ReadInv'
  BY <1>1, <1>3 DEF FallBack, Unreserve, Verify, VerifyFails, VerifySucceeds, VerifyErrors
<1>4. ASSUME NEW a \in Attempts, Decide(a)
      PROVE  ReadInv'
  <2>1. seen' = [seen EXCEPT ![a] = {}] /\ (GoTo(a, "verifying") \/ GoTo(a, "releasing"))
    BY <1>4 DEF Decide
  <2>2. QED
    BY <2>1 DEF ReadInv, GoTo, TypeOK
<1>5. ASSUME NEW a \in Attempts, pc[a] \in Calling, Raise(a), UNCHANGED seen
      PROVE  ReadInv'
  BY <1>1, <1>5, CallTables DEF Raise
<1>6. ASSUME NEW a \in Attempts, CallRefused(a) \/ CallTimesOut(a)
      PROVE  ReadInv'
  <2>1. pc[a] \in Calling /\ Raise(a)
    BY <1>6, KeyTypes, OpTypes DEF CallRefused, CallTimesOut, Running, Awaited
  <2>2. QED
    BY <1>5, <1>6, <2>1 DEF CallRefused, CallTimesOut
<1>7. ASSUME NEW p \in Processes, CallFails(p)
      PROVE  ReadInv'
  <2>1. op[p].attempt \in Attempts
    BY <1>7, CallersTyped DEF CallFails
  <2>2. CASE Awaited(p)
    BY <1>5, <1>7, <2>1, <2>2 DEF CallFails, Awaited
  <2>3. CASE ~Awaited(p)
    BY <1>7, <2>3 DEF CallFails, ReadInv
  <2>4. QED
    BY <2>2, <2>3
<1>8. ASSUME NEW p \in Processes, StoreAnswers(p)
      PROVE  ReadInv'
  <2> DEFINE a == op[p].attempt
             read == RecentRows(shared, a, "shared")
  <2>1. a \in Attempts
    BY <1>8, OpTypes DEF StoreAnswers
  <2>2. CASE Awaited(p)
    <3>1. /\ pc[a] \in Calling /\ GoTo(a, AfterCall[pc[a]])
          /\ op[p].kind = "reserve" => AfterCall[pc[a]] = "answered"
      BY <1>8, <2>2, CallTables DEF StoreAnswers, Awaited
    <3>2. \A r \in read: r.age \in 0..(Window - 1)
      BY RecentAges DEF TypeOK, TimeInv
    <3>3. seen' = IF op[p].kind = "reserve" THEN [seen EXCEPT ![a] = read] ELSE seen
      BY <1>8, <2>2 DEF StoreAnswers
    <3>4. pc[a] \notin Reading
      BY <3>1, CallTables
    <3>5. QED
      BY <2>1, <3>1, <3>2, <3>3, <3>4 DEF ReadInv, GoTo, TypeOK
  <2>3. CASE ~Awaited(p)
    BY <1>8, <2>3 DEF StoreAnswers, ReadInv
  <2>4. QED
    BY <2>2, <2>3
<1>9. ASSUME NEW p \in Processes, Crash(p)
      PROVE  ReadInv'
  BY <1>9 DEF Crash, ReadInv
<1>10. ASSUME \/ \E a \in Attempts: CallStarts(a)
              \/ \E p \in Processes: StoreExecutes(p) \/ StoreCommits(p)
              \/ Tick \/ UNCHANGED vars
       PROVE  ReadInv'
  BY <1>10 DEF ReadInv, CallStarts, StoreExecutes, StoreCommits, Tick, vars, attemptVars
<1>11. QED
  BY <1>2, <1>3, <1>4, <1>6, <1>7, <1>8, <1>9, <1>10 DEF Next, Work, Fault, Step, StoreStep

\* The rows an attempt is judged by, whether it read them or counts in memory.
LEMMA JudgedByRecent ==
  ASSUME Shape, TimeInv, ReadInv, NEW a \in Attempts
  PROVE  /\ Aged(SharedAndMemory(a))
         /\ pc[a] = "falling" =>
              SharedAndMemory(a) = RecentRows(memory[Process(a)], a, "memory")
<1> DEFINE counted == RecentRows(memory[Process(a)], a, "memory")
<1>1. Process(a) \in Processes
  BY KeyTypes DEF Shape
<1>2. IsFiniteSet(counted) /\ IsFiniteSet(seen[a])
  BY <1>1, RecentFinite DEF Shape, FiniteInv
<1>3. \A r \in counted: r.age \in 0..(Window - 1)
  BY <1>1, RecentAges DEF Shape, TypeOK, TimeInv
<1>4. \A r \in seen[a]: r.age \in 0..(Window - 1)
  BY DEF ReadInv
<1>5. Aged(SharedAndMemory(a))
  <2> HIDE DEF counted
  <2>1. IsFiniteSet(seen[a] \cup counted)
    BY <1>2, FS_Union
  <2> QED
    BY <2>1, <1>3, <1>4 DEF Aged, SharedAndMemory, counted
<1>6. pc[a] = "falling" => seen[a] = {}
  BY DEF ReadInv
<1>7. QED
  BY <1>5, <1>6 DEF SharedAndMemory

\* A refused client is told the time at which the rows it was refused for leave
\* room, and no later one: the counts in its process's memory are in it, whether
\* the table answered or not.  (_wait, login_throttle.py:488-499)
THEOREM RetryAfterIsExact == Spec => RetryAfterExact
<1> DEFINE Staying(a, k, t) == {r \in Others(SharedAndMemory(a), a, k): r.age + t < Window}
           Fits(a, t) == \A k \in Keys(a): Cardinality(Staying(a, k, t)) < Limit(k)
           Inv == IInv /\ TimeInv /\ ReadInv
<1>1. ASSUME Inv, [Next]_vars, NEW a \in Attempts, retryAfter'[a] # retryAfter[a]
      PROVE  Fits(a, retryAfter'[a]) /\ ~Fits(a, retryAfter'[a] - 1)
  <2>1. /\ retryAfter'[a] = Wait(SharedAndMemory(a), a)
        /\ Full(SharedAndMemory(a), a) # {}
    <3>1. ASSUME NEW b \in Attempts, Decide(b) \/ FallBack(b)
          PROVE  /\ b = a
                 /\ Decide(a) => /\ retryAfter'[a] = Wait(SharedAndMemory(a), a)
                                 /\ Full(SharedAndMemory(a), a) # {}
                 /\ FallBack(a) =>
                      LET rows == RecentRows(memory[Process(a)], a, "memory")
                      IN  retryAfter'[a] = Wait(rows, a) /\ Full(rows, a) # {}
      BY <1>1, <3>1 DEF Decide, FallBack, IInv, Shape, TypeOK
    <3>2. ASSUME NEW b \in Attempts, FallBack(b)
          PROVE  pc[b] = "falling"
      BY <3>2 DEF FallBack
    <3>3. ASSUME \A b \in Attempts: ~Decide(b) /\ ~FallBack(b)
          PROVE  retryAfter' = retryAfter
      BY <1>1, <3>3 DEF Next, Work, Fault, Step, Verify, StoreStep, Begin, CallStarts,
         MarkAvailable, Unreserve, VerifyFails, VerifySucceeds, VerifyErrors, StoreExecutes,
         StoreCommits, StoreAnswers, CallRefused, CallTimesOut, CallFails, Crash, Tick, vars,
         attemptVars
    <3>4. PICK b \in Attempts: Decide(b) \/ FallBack(b)
      BY <1>1, <3>3
    <3>5. pc[a] = "falling" =>
            SharedAndMemory(a) = RecentRows(memory[Process(a)], a, "memory")
      BY <1>1, JudgedByRecent DEF IInv
    <3>6. QED
      BY <3>1, <3>2, <3>4, <3>5
  <2>2. Aged(SharedAndMemory(a)) /\ TypeOK
    BY <1>1, JudgedByRecent DEF IInv, Shape
  <2>3. Fits(a, Wait(SharedAndMemory(a), a)) /\ ~Fits(a, Wait(SharedAndMemory(a), a) - 1)
    BY <2>1, <2>2, WaitIsExact
  <2>4. QED
    BY <2>1, <2>3
<1>2. Init => TimeInv /\ ReadInv
  BY DEF Init, TimeInv, ReadInv, NoOp
<1>3. IInv /\ TimeInv /\ ReadInv /\ [Next]_vars => TimeInv' /\ ReadInv'
  BY TimesKept, ReadKept DEF IInv, Shape
<1>4. Spec => []Inv
  BY ThrottleInvariant, <1>2, <1>3, PTL DEF Spec
<1>5. Inv /\ [Next]_vars =>
        [\A a \in Attempts: retryAfter'[a] # retryAfter[a] =>
           LET Left(k, t) == {r \in Others(SharedAndMemory(a), a, k): r.age + t < Window}
               Room(t) == \A k \in Keys(a): Cardinality(Left(k, t)) < Limit(k)
           IN  Room(retryAfter'[a]) /\ ~Room(retryAfter'[a] - 1)]_vars
  BY <1>1
<1>6. QED
  BY <1>4, <1>5, PTL DEF Spec, RetryAfterExact
===============================================================================
