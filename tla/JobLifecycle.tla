----------------------------- MODULE JobLifecycle -----------------------------
(* What the ingestion queue promises to the API, without workers, leases or   *)
(* executions: a job is queued, started and settled once; it may come back to *)
(* the queue a limited number of times; the documents and recipes of the      *)
(* RUNNING and of the open jobs are distinct.                                 *)
EXTENDS Integers, TLAPS

CONSTANTS
    Jobs,
    Recipes,
    Documents,
    RecipeOf,       \* the recipe of a job
    DocumentOf,     \* the document of a recipe
    MaxAttempts

VARIABLES
    status,         \* the status of each job
    attempts        \* how often each job has been tried

lvars == <<status, attempts>>

Open == {"QUEUED", "RUNNING"}
Settled == {"SUCCEEDED", "FAILED", "SKIPPED", "CANCELLED"}

OtherOpen(j) == \E i \in Jobs: RecipeOf[i] = RecipeOf[j] /\ status[i] \in Open
OtherRunning(j) ==
    \E i \in Jobs: DocumentOf[RecipeOf[i]] = DocumentOf[RecipeOf[j]] /\ status[i] = "RUNNING"

Init ==
    /\ status = [j \in Jobs |-> "NEW"]
    /\ attempts = [j \in Jobs |-> 0]

\* The user queues a job; a recipe has one open job at a time.
Submit(j) ==
    /\ status[j] = "NEW"
    /\ ~OtherOpen(j)
    /\ status' = [status EXCEPT ![j] = "QUEUED"]
    /\ UNCHANGED attempts

\* A try begins; a document has one RUNNING job at a time.
Start(j) ==
    /\ status[j] = "QUEUED"
    /\ attempts[j] < MaxAttempts
    /\ ~OtherRunning(j)
    /\ status' = [status EXCEPT ![j] = "RUNNING"]
    /\ attempts' = [attempts EXCEPT ![j] = @ + 1]

\* The try ends with a result.
Settle(j) ==
    /\ status[j] = "RUNNING"
    /\ \E result \in {"SUCCEEDED", "FAILED", "SKIPPED"}:
         status' = [status EXCEPT ![j] = result]
    /\ UNCHANGED attempts

\* The user withdraws the job.
Withdraw(j) ==
    /\ status[j] \in Open
    /\ status' = [status EXCEPT ![j] = "CANCELLED"]
    /\ UNCHANGED attempts

\* A try fails before it begins; the last one fails the job.
FailToStart(j) ==
    /\ status[j] = "QUEUED"
    /\ attempts[j] < MaxAttempts
    /\ attempts' = [attempts EXCEPT ![j] = @ + 1]
    /\ status' = IF attempts[j] + 1 = MaxAttempts
                 THEN [status EXCEPT ![j] = "FAILED"] ELSE status

\* Tries are lost: a set of RUNNING jobs is queued again or, with no try left,
\* fails.
GiveUp(lost) ==
    /\ \A j \in lost: status[j] = "RUNNING"
    /\ status' = [j \in Jobs |->
         IF j \notin lost THEN status[j]
         ELSE IF attempts[j] < MaxAttempts THEN "QUEUED" ELSE "FAILED"]
    /\ UNCHANGED attempts

\* Tries are taken back: they do not count.
TakeBack(back) ==
    /\ \A j \in back: status[j] = "RUNNING"
    /\ status' = [j \in Jobs |-> IF j \in back THEN "QUEUED" ELSE status[j]]
    /\ attempts' = [j \in Jobs |-> IF j \in back THEN attempts[j] - 1 ELSE attempts[j]]

Next ==
    \/ \E j \in Jobs: Submit(j) \/ Start(j) \/ Settle(j) \/ Withdraw(j) \/ FailToStart(j)
    \/ \E some \in SUBSET Jobs: GiveUp(some) \/ TakeBack(some)

Spec == Init /\ [][Next]_lvars

-------------------------------------------------------------------------------
(* Properties *)

TypeOK ==
    /\ status \in [Jobs -> {"NEW"} \cup Open \cup Settled]
    /\ attempts \in [Jobs -> Nat]

\* The jobs of one document run one after the other.
OneRunning ==
    \A i, j \in Jobs:
        /\ DocumentOf[RecipeOf[i]] = DocumentOf[RecipeOf[j]]
        /\ status[i] = "RUNNING"
        /\ status[j] = "RUNNING"
        => i = j

\* A recipe has one open job at a time.
OneOpen ==
    \A i, j \in Jobs:
        /\ RecipeOf[i] = RecipeOf[j]
        /\ status[i] \in Open
        /\ status[j] \in Open
        => i = j

\* A job that may still start has a try left; a RUNNING one has used one.
Budget ==
    \A j \in Jobs:
        /\ attempts[j] <= MaxAttempts
        /\ status[j] \in {"NEW", "QUEUED"} => attempts[j] < MaxAttempts
        /\ status[j] = "RUNNING" => attempts[j] > 0

Inv == TypeOK /\ OneRunning /\ OneOpen /\ Budget

-------------------------------------------------------------------------------
(* The life cycle keeps its invariant, step by step. *)

\* At first every job is new and untried.
LEMMA InitInv ==
    ASSUME MaxAttempts \in Nat \ {0}
    PROVE  Init => Inv
  BY DEF Init, Inv, TypeOK, OneRunning, OneOpen, Budget,
     Open, Settled

\* No step gives a document a second RUNNING job, a recipe a second open job,
\* or a job more tries than it has.
LEMMA InvStep ==
    ASSUME MaxAttempts \in Nat \ {0}
    PROVE  Inv /\ [Next]_lvars => Inv'
<1> SUFFICES ASSUME Inv, [Next]_lvars PROVE Inv'
  OBVIOUS
<1> USE DEF Inv, TypeOK, OneRunning, OneOpen, Budget,
        Open, Settled
<1>1. ASSUME NEW j \in Jobs, Submit(j) PROVE Inv'
  BY <1>1 DEF Submit, OtherOpen
<1>2. ASSUME NEW j \in Jobs, Start(j) PROVE Inv'
  BY <1>2 DEF Start, OtherRunning
<1>3. ASSUME NEW j \in Jobs, Settle(j) PROVE Inv'
  BY <1>3 DEF Settle
<1>4. ASSUME NEW j \in Jobs, Withdraw(j) PROVE Inv'
  BY <1>4 DEF Withdraw
<1>5. ASSUME NEW j \in Jobs, FailToStart(j) PROVE Inv'
  BY <1>5 DEF FailToStart
<1>6. ASSUME NEW lost \in SUBSET Jobs, GiveUp(lost) PROVE Inv'
  BY <1>6 DEF GiveUp
<1>7. ASSUME NEW back \in SUBSET Jobs, TakeBack(back) PROVE Inv'
  BY <1>7 DEF TakeBack
<1>8. CASE UNCHANGED lvars
  BY <1>8 DEF lvars
<1> QED BY <1>1, <1>2, <1>3, <1>4, <1>5, <1>6, <1>7, <1>8 DEF Next

\* Whatever workers do, as long as they keep to the life cycle: one RUNNING job
\* per document, one open job per recipe, no try beyond the limit.
THEOREM LifecycleInvariant ==
    ASSUME MaxAttempts \in Nat \ {0}
    PROVE  Spec => []Inv
<1> QED BY InitInv, InvStep, PTL DEF Spec
===============================================================================
