------------------------------- MODULE AgentRun -------------------------------
(* One run of the Agent control plane: its row in the storage, the copies of  *)
(* the row in the memory of each process, the execution of the run with the   *)
(* external writes that need the user's approval, and the operations of the   *)
(* API on it.                                                                 *)
(*                                                                            *)
(* In the in_process mode (Dispatchers = {}) the API process executes the run *)
(* in a task of its own; otherwise dispatcher processes claim the queued run  *)
(* under a lease.  A process changes its memory first and writes the row      *)
(* afterwards (Write); claims and the begins of dispatchers read and write    *)
(* the storage in one transaction.                                            *)
(*                                                                            *)
(* Covered: claims, leases and generations, begin and resume, the external    *)
(* writes of a segment, approvals, questions, cancellation, failed writes,    *)
(* crashes.  Not covered: tools that need no approval, the resending of an    *)
(* operation with an unknown outcome under a new call id, the model.          *)
EXTENDS Integers, FiniteSets

CONSTANTS
    Api,            \* the API process
    Dispatchers,    \* the dispatcher processes; {} in the in_process mode
    Calls,          \* ids of the calls of external writes that need an approval
    Renames         \* the API also writes the row for a reason of its own

InProcess == Dispatchers = {}
Procs == {Api} \cup Dispatchers
Executors == IF InProcess THEN {Api} ELSE Dispatchers

ASSUME AgentAssumption ==
    /\ Api \notin Dispatchers
    /\ Renames \in BOOLEAN

VARIABLES
    store,      \* the row in the storage
    mem,        \* the row in the memory of each process
    dirty,      \* whether a process has changes it has not written yet
    expired,    \* the tokens of the leases whose time is over
    issued,     \* the number of tokens handed out
    held,       \* the claim a dispatcher holds and has not begun
    work,       \* the segment an executor executes
    call,       \* how far each call of the segment is
    tasks,      \* in_process: the tasks created and not started
    due,        \* in_process: the tasks to create once the decision is written
    sent,       \* history: how often each call was sent
    answer,     \* history: the result that came back for each call
    lost        \* history: an executor has died in a segment or before the write of its end

rows == <<store, mem, dirty>>
leases == <<expired, issued>>
scheduled == <<tasks, due>>
history == <<sent, answer, lost>>
vars == <<store, mem, dirty, expired, issued, held, work, call, tasks, due,
          sent, answer, lost>>

-------------------------------------------------------------------------------
(* Data *)

Results == {"done", "failed", "unknown"}
Kinds == {"execute", "resume"}
Phases == {"none", "checked", "started", "recorded", "sent"}
Owners == [token: Nat, gen: Nat]
NoOwner == [token |-> 0, gen |-> 0]

Runs == [status: {"queued", "running", "waiting_approval", "waiting_confirmation",
                  "completed", "failed", "cancelled"},
         lease: Owners,                 \* the claim of a queued run
         exec: Owners,                  \* the last execution begun
         saved: BOOLEAN,                \* a state to resume from is saved
         asked: SUBSET Calls,           \* the calls that state stopped at
         step: [Calls -> {"none", "waiting", "pending", "running", "cancelled"}
                         \cup Results],
         approval: [Calls -> {"none", "pending", "approved", "rejected", "cancelled"}],
         question: {"none", "pending", "answered", "cancelled"}]

NewRun == [status |-> "queued", lease |-> NoOwner, exec |-> NoOwner,
           saved |-> FALSE, asked |-> {}, step |-> [c \in Calls |-> "none"], approval |-> [c \in Calls |-> "none"],
           question |-> "none"]

Claims == [token: Nat, gen: Nat, resume: BOOLEAN]
NoClaim == [token |-> 0, gen |-> 0, resume |-> FALSE]
Segments == [token: Nat, todo: SUBSET Calls, refused: BOOLEAN]
NoSegment == [token |-> 0, todo |-> {}, refused |-> FALSE]

Closed(r) == r.status \in {"completed", "failed", "cancelled"}
Undecided(r) == {c \in Calls: r.approval[c] = "pending"}

\* Mutant of LeaseActive: a lease does not run out.
HasLease(r) == r.lease.token # 0

LeaseActive(r) == r.lease.token # 0 /\ r.lease.token \notin expired
Generation(r) == IF r.lease.gen > r.exec.gen THEN r.lease.gen ELSE r.exec.gen

\* A cancellation also ends every open step, approval and question.
Cancelled(r) ==
    [r EXCEPT !.status = "cancelled",
              !.step = [c \in Calls |->
                          IF @[c] \in {"waiting", "pending", "running"}
                          THEN "cancelled" ELSE @[c]],
              !.approval = [c \in Calls |-> IF @[c] = "pending" THEN "cancelled" ELSE @[c]],
              !.question = IF @ = "pending" THEN "cancelled" ELSE @]

\* The saved state is dropped.
Dropped(r) == [r EXCEPT !.saved = FALSE, !.asked = {}]
Failed(r) == [Dropped(r) EXCEPT !.status = "failed"]

\* Mutant of Interrupted: the status of a step becomes that of the run.
InterruptedAsStep(r) == [Failed(r) EXCEPT !.status = "unknown"]

\* Mutant of Interrupted: a write that may have been sent is failed.
InterruptedAsFailed(r) ==
    [Failed(r) EXCEPT !.lease = NoOwner,
              !.step = [c \in Calls |-> IF @[c] \in {"running", "pending"}
                                        THEN "failed" ELSE @[c]]]

\* The run after a restart of the process that executed it: a write that may
\* have been sent is unknown, not failed.
Interrupted(r) ==
    [Failed(r) EXCEPT !.lease = NoOwner,
              !.step = [c \in Calls |-> CASE @[c] = "running" -> "unknown"
                                          [] @[c] = "pending" -> "failed"
                                          [] OTHER -> @[c]]]

\* Mutant of Adopt: the memory is written over a stored cancellation.
AdoptNothing(r, stored) == r

\* A cancellation found in the storage wins over an open run in the memory.
Adopt(r, stored) ==
    IF stored.status = "cancelled" /\ ~Closed(r) THEN Cancelled(r) ELSE r

Init ==
    /\ store = NewRun
    /\ mem = [p \in Procs |-> NewRun]
    /\ dirty = [p \in Procs |-> FALSE]
    /\ expired = {}
    /\ issued = 0
    /\ held = [d \in Dispatchers |-> NoClaim]
    /\ work = [p \in Executors |-> NoSegment]
    /\ call = [p \in Executors |-> [c \in Calls |-> "none"]]
    /\ tasks = IF InProcess THEN {"execute"} ELSE {}
    /\ due = {}
    /\ sent = [c \in Calls |-> 0]
    /\ answer = [c \in Calls |-> "none"]
    /\ lost = FALSE

\* Process p changes its memory; the change waits to be written.
Change(p, r) ==
    /\ mem' = [mem EXCEPT ![p] = r]
    /\ dirty' = [dirty EXCEPT ![p] = TRUE]
    /\ UNCHANGED store

-------------------------------------------------------------------------------
(* Claims and begins *)

Resumable(r) == r.status = "queued" /\ r.saved

\* The row of run r when execution owner begins.
Running(r, owner) == [r EXCEPT !.status = "running", !.lease = NoOwner, !.exec = owner]

\* What a begin of run r leads to: the new row and the segment to execute.  The
\* agent may be gone; there may be no state to resume from, or an open decision.
Executed(r, owner) ==
    {[row |-> Failed(r), segment |-> NoSegment],
     [row |-> Running(r, owner),
      segment |-> [token |-> owner.token, todo |-> {}, refused |-> FALSE]]}

Resumed(r, owner) ==
    IF Undecided(r) # {} \/ r.question = "pending" THEN {[row |-> r, segment |-> NoSegment]}
    ELSE {[row |-> Failed(r), segment |-> NoSegment]}
         \cup IF ~r.saved THEN {}
              ELSE {[row |-> Running(Dropped(r), owner),
                     segment |-> [token |-> owner.token,
                                  todo |-> {c \in r.asked: r.approval[c] = "approved"},
                                  refused |-> \E c \in Calls: r.approval[c] = "rejected"]]}

\* Mutant of Claim: the generation goes on from the last lease alone.
ClaimFromLease(d) ==
    LET lease == [token |-> issued + 1, gen |-> store.lease.gen + 1]
        r == [store EXCEPT !.lease = lease]
    IN /\ held[d] = NoClaim /\ work[d] = NoSegment /\ ~dirty[d]
       /\ store.status = "queued" /\ ~LeaseActive(store)
       /\ issued' = issued + 1
       /\ store' = r
       /\ mem' = [mem EXCEPT ![d] = r]
       /\ held' = [held EXCEPT ![d] = [token |-> lease.token, gen |-> lease.gen,
                                       resume |-> Resumable(store)]]
       /\ UNCHANGED <<dirty, expired, work, call, scheduled, history>>

\* Dispatcher d takes the queued run under a new lease.
Claim(d) ==
    LET lease == [token |-> issued + 1, gen |-> Generation(store) + 1]
        r == [store EXCEPT !.lease = lease]
    IN /\ held[d] = NoClaim /\ work[d] = NoSegment /\ ~dirty[d]
       /\ store.status = "queued" /\ ~LeaseActive(store)
       /\ issued' = issued + 1
       /\ store' = r
       /\ mem' = [mem EXCEPT ![d] = r]
       /\ held' = [held EXCEPT ![d] = [token |-> lease.token, gen |-> lease.gen,
                                       resume |-> Resumable(store)]]
       /\ UNCHANGED <<dirty, expired, work, call, scheduled, history>>

\* Mutant of MayBegin: the begin trusts the claim.
MayBeginOpen(r, claim) == ~Closed(r)

MayBegin(r, claim) ==
    /\ r.status = "queued"
    /\ r.lease = [token |-> claim.token, gen |-> claim.gen]
    /\ LeaseActive(r)

\* Dispatcher d begins what it claimed, if the claim still holds in the storage.
Begin(d) ==
    LET owner == [token |-> held[d].token, gen |-> held[d].gen]
        outcomes == IF ~MayBegin(store, held[d]) THEN {[row |-> store, segment |-> NoSegment]}
                    ELSE IF held[d].resume THEN Resumed(store, owner)
                         ELSE Executed(store, owner)
    IN /\ held[d].token # 0 /\ ~dirty[d]
       /\ \E new \in outcomes:
            /\ store' = new.row
            /\ mem' = [mem EXCEPT ![d] = new.row]
            /\ work' = [work EXCEPT ![d] = new.segment]
       /\ held' = [held EXCEPT ![d] = NoClaim]
       /\ UNCHANGED <<dirty, leases, call, scheduled, history>>

\* The transaction of the begin fails: the storage keeps its value.
BeginFails(d) ==
    /\ held[d].token # 0
    /\ held' = [held EXCEPT ![d] = NoClaim]
    /\ mem' = [mem EXCEPT ![d] = store]
    /\ UNCHANGED <<store, dirty, leases, work, call, scheduled, history>>

\* The time of the stored lease is over: nobody began the run in it ...
Expired ==
    /\ LeaseActive(store)
    /\ expired' = expired \cup {store.lease.token}
    /\ UNCHANGED <<rows, issued, held, work, call, scheduled, history>>

Holders == {d \in Dispatchers: held[d].token = store.lease.token}

\* ... because the dispatcher that claimed it is gone,
Expire == Expired /\ Holders = {}

\* ... or although it is about to.
ExpireHeld == Expired /\ Holders # {}

\* In the in_process mode a task begins the run in the memory, or finds that it
\* may not.
Start(kind) ==
    LET r == mem[Api]
        owner == [token |-> issued + 1, gen |-> Generation(r) + 1]
        MayStart == r.status = "queued" /\ ~LeaseActive(r)
        outcomes == IF kind = "resume" THEN Resumed(r, owner) ELSE Executed(r, owner)
    IN /\ kind \in tasks
       /\ tasks' = tasks \ {kind}
       /\ \/ ~MayStart /\ UNCHANGED <<rows, work, issued>>
          \/ /\ MayStart
             /\ \E new \in outcomes:
                  /\ IF new.row = r THEN UNCHANGED rows ELSE Change(Api, new.row)
                  /\ work' = [work EXCEPT ![Api] = new.segment]
                  /\ issued' = IF new.segment = NoSegment THEN issued ELSE issued + 1
       /\ UNCHANGED <<expired, held, call, due, history>>

-------------------------------------------------------------------------------
(* The calls of a segment *)

Executing(p) == work[p].token # 0
Idle(p) == \A c \in Calls: call[p][c] = "none"
Superseded(p, r) == r.exec.token # work[p].token

\* Nothing new may start, as far as the memory of p knows.
EndedInMemory(p) == Closed(mem[p]) \/ Superseded(p, mem[p])

\* builtin_run_ended reads the row in the storage first, if that can be read.
\* It takes over a cancellation, and a stored execution that is not the one of
\* p ends the one of p.
EndedInStore(p) ==
    \/ EndedInMemory(p)
    \/ store.status = "cancelled"
    \/ store.exec.token \notin {0, work[p].token}

TakeOver(p) ==
    IF store.status = "cancelled" /\ ~Closed(mem[p]) THEN Change(p, Cancelled(mem[p]))
    ELSE UNCHANGED rows

At(p, c, phase) == call' = [call EXCEPT ![p][c] = phase]
Dequeue(p, c) == work' = [work EXCEPT ![p].todo = @ \ {c}]
StepIs(p, c, s) == Change(p, [mem[p] EXCEPT !.step[c] = s])

\* The first check of a call, with or without the row in the storage.
Check(p, c) ==
    /\ Executing(p) /\ c \in work[p].todo /\ call[p][c] = "none"
    /\ \/ /\ TakeOver(p)
          /\ IF EndedInStore(p) THEN Dequeue(p, c) /\ UNCHANGED call
             ELSE At(p, c, "checked") /\ UNCHANGED work
       \/ /\ UNCHANGED rows
          /\ IF EndedInMemory(p) THEN Dequeue(p, c) /\ UNCHANGED call
             ELSE At(p, c, "checked") /\ UNCHANGED work
    /\ UNCHANGED <<leases, held, scheduled, history>>

AlreadySent(r, c) == r.step[c] \in {"running", "done", "unknown"}

\* A call that is not made: a limit of the run, unreadable arguments, arguments
\* that are not the approved ones.  For some of these a failed step is recorded.
Skip(p, c) ==
    /\ Executing(p) /\ c \in work[p].todo /\ call[p][c] = "checked"
    /\ Dequeue(p, c) /\ At(p, c, "none")
    /\ \/ UNCHANGED rows
       \/ ~AlreadySent(mem[p], c) /\ ~EndedInMemory(p) /\ StepIs(p, c, "failed")
    /\ UNCHANGED <<leases, held, scheduled, history>>

MayCall(p, c) ==
    mem[p].approval[c] = "approved" /\ ~AlreadySent(mem[p], c) /\ ~EndedInMemory(p)

\* The step of the call begins, under the same lock as a cancellation.
StartCall(p, c) ==
    /\ Executing(p) /\ c \in work[p].todo /\ call[p][c] = "checked"
    /\ Dequeue(p, c)
    /\ IF MayCall(p, c) THEN At(p, c, "started") /\ StepIs(p, c, "running")
       ELSE At(p, c, "none") /\ UNCHANGED rows
    /\ UNCHANGED <<leases, held, scheduled, history>>

\* The step could not be written: the call is not sent.
RecordFails(p, c) ==
    /\ call[p][c] = "started" /\ dirty[p]
    /\ At(p, c, "none") /\ StepIs(p, c, "failed")
    /\ UNCHANGED <<leases, held, work, scheduled, history>>

\* The recorded call goes out to the external service.
Send(p, c) ==
    /\ call[p][c] = "recorded"
    /\ At(p, c, "sent")
    /\ sent' = [sent EXCEPT ![c] = @ + 1]
    /\ UNCHANGED <<rows, leases, held, work, scheduled, answer, lost>>

\* The run ended before the call went out.
Abort(p, c) ==
    /\ call[p][c] = "recorded" /\ EndedInStore(p)
    /\ At(p, c, "none")
    /\ Change(p, [Adopt(mem[p], store) EXCEPT !.step[c] = "cancelled"])
    /\ UNCHANGED <<leases, held, work, scheduled, history>>

\* The result is recorded as it is, also after the end of the run.
Finish(p, c) ==
    /\ call[p][c] = "sent"
    /\ At(p, c, "none")
    /\ \E result \in Results:
         /\ StepIs(p, c, result)
         /\ answer' = [answer EXCEPT ![c] = result]
    /\ UNCHANGED <<leases, held, work, scheduled, sent, lost>>

\* The time limit of the call: the step stays as it is, a result is not taken.
GiveUp(p, c) ==
    /\ call[p][c] \in {"started", "recorded", "sent"}
    /\ At(p, c, "none")
    /\ UNCHANGED <<rows, leases, held, work, scheduled, history>>

-------------------------------------------------------------------------------
(* The end of a segment *)

\* Segment p is over; the run is changed unless it has ended, was begun again,
\* or is not running any more.
EndSegment(p, r) ==
    /\ work' = [work EXCEPT ![p] = NoSegment]
    /\ IF EndedInMemory(p) \/ mem[p].status # "running" THEN UNCHANGED rows
       ELSE Change(p, r)
    /\ UNCHANGED <<leases, held, call, scheduled, history>>

CallsMade(p) == Executing(p) /\ work[p].todo = {} /\ Idle(p)

\* The model asks for the calls S, or asks the user a question.
Ask(p, S, question) ==
    /\ CallsMade(p) /\ ~work[p].refused
    /\ \A c \in S: mem[p].step[c] = "none" /\ mem[p].approval[c] = "none"
    /\ S # {} \/ question
    /\ question => mem[p].question = "none"
    /\ EndSegment(p,
         [mem[p] EXCEPT
            !.status = IF S # {} THEN "waiting_approval" ELSE "waiting_confirmation",
            !.saved = TRUE,
            !.asked = S,
            !.step = [c \in Calls |-> IF c \in S THEN "waiting" ELSE @[c]],
            !.approval = [c \in Calls |-> IF c \in S THEN "pending" ELSE @[c]],
            !.question = IF question THEN "pending" ELSE @])

Complete(p) ==
    /\ CallsMade(p)
    /\ EndSegment(p, [mem[p] EXCEPT !.status = "completed"])

Fail(p) ==
    /\ Executing(p) /\ Idle(p)
    /\ EndSegment(p, Failed(mem[p]))

\* Before a call of the model the run is found to have ended: the execution
\* stops and leaves the run as it is.
Stop(p) ==
    /\ CallsMade(p)
    /\ \/ EndedInStore(p) /\ TakeOver(p)
       \/ EndedInMemory(p) /\ UNCHANGED rows
    /\ work' = [work EXCEPT ![p] = NoSegment]
    /\ UNCHANGED <<leases, held, call, scheduled, history>>

-------------------------------------------------------------------------------
(* Operations of the API *)

\* A decision or an answer that leaves nothing open queues the run; in the
\* in_process mode it is resumed once the decision is written.
Decided(r) ==
    /\ Change(Api, r)
    /\ due' = IF InProcess /\ Resumable(r) THEN due \cup {"resume"} ELSE due
    /\ UNCHANGED <<leases, held, work, call, tasks, history>>

\* Mutant of Decide: a rejected call can still be approved.
DecideAgain(c, approved) ==
    LET r == mem[Api]
        after == IF Undecided(r) \notin {{c}, {}} THEN r.status
                 ELSE IF r.question = "pending" THEN "waiting_confirmation" ELSE "queued"
    IN /\ r.approval[c] \in {"pending", "rejected"}
       /\ Decided(IF Closed(r) THEN [r EXCEPT !.approval[c] = "cancelled"]
                  ELSE [r EXCEPT !.approval[c] = IF approved THEN "approved" ELSE "rejected",
                                 !.step[c] = IF approved THEN "pending" ELSE "cancelled",
                                 !.status = after])

Decide(c, approved) ==
    LET r == mem[Api]
        after == IF Undecided(r) # {c} THEN r.status
                 ELSE IF r.question = "pending" THEN "waiting_confirmation" ELSE "queued"
    IN /\ r.approval[c] = "pending"
       /\ Decided(IF Closed(r) THEN [r EXCEPT !.approval[c] = "cancelled"]
                  ELSE [r EXCEPT !.approval[c] = IF approved THEN "approved" ELSE "rejected",
                                 !.step[c] = IF approved THEN "pending" ELSE "cancelled",
                                 !.status = after])

Answer ==
    LET r == mem[Api]
        waits == r.status = "waiting_confirmation" /\ Undecided(r) = {}
    IN /\ r.question = "pending"
       /\ Decided([r EXCEPT !.question = "answered",
                            !.status = IF waits THEN "queued" ELSE @])

\* Mutant of Cancel: a run that has ended can be cancelled.
CancelAnytime ==
    /\ Change(Api, Cancelled(mem[Api]))
    /\ UNCHANGED <<leases, held, work, call, scheduled, history>>

\* Cancel is also the end of a run whose question the user withdraws.
Cancel ==
    /\ ~Closed(mem[Api])
    /\ Change(Api, Cancelled(mem[Api]))
    /\ UNCHANGED <<leases, held, work, call, scheduled, history>>

\* The user asks for the resumption of a queued run.
ResumeRequest ==
    /\ InProcess /\ Resumable(mem[Api])
    /\ tasks' = tasks \cup {"resume"}
    /\ UNCHANGED <<rows, leases, held, work, call, due, history>>

\* Another change of the row, such as the name of its thread.
Rename ==
    /\ Renames
    /\ Change(Api, mem[Api])
    /\ UNCHANGED <<leases, held, work, call, scheduled, history>>

-------------------------------------------------------------------------------
(* Storage and processes *)

\* Process p writes its row over the stored one; only a stored cancellation of
\* an open run is kept.  What waited for the write goes on.
Write(p) ==
    LET r == Adopt(mem[p], store)
    IN /\ dirty[p]
       /\ store' = r
       /\ mem' = [mem EXCEPT ![p] = r]
       /\ dirty' = [dirty EXCEPT ![p] = FALSE]
       /\ call' = [q \in Executors |-> [c \in Calls |->
                     IF q = p /\ call[q][c] = "started" THEN "recorded" ELSE call[q][c]]]
       /\ IF p = Api THEN tasks' = tasks \cup due /\ due' = {} ELSE UNCHANGED scheduled
       /\ UNCHANGED <<leases, held, work, history>>

\* The write of a decision fails: it stays in the memory, nothing is scheduled.
WriteFails ==
    /\ dirty[Api] /\ due # {}
    /\ due' = {}
    /\ UNCHANGED <<rows, leases, held, work, call, tasks, history>>

\* A process without changes of its own takes over the stored row.
Sync(p) ==
    /\ ~dirty[p] /\ mem[p] # store
    /\ mem' = [mem EXCEPT ![p] = store]
    /\ UNCHANGED <<store, dirty, leases, held, work, call, scheduled, history>>

\* Process p dies and starts again from the storage.  In the in_process mode it
\* then fails the run it had been executing.
Crash(p) ==
    /\ IF InProcess /\ store.status \in {"queued", "running"}
       THEN Change(p, Interrupted(store))
       ELSE /\ mem' = [mem EXCEPT ![p] = store]
            /\ dirty' = [dirty EXCEPT ![p] = FALSE]
            /\ UNCHANGED store
    /\ IF p \in Executors
       THEN /\ work' = [work EXCEPT ![p] = NoSegment]
            /\ call' = [call EXCEPT ![p] = [c \in Calls |-> "none"]]
            /\ lost' = (lost \/ Executing(p) \/ dirty[p])
       ELSE UNCHANGED <<work, call, lost>>
    /\ held' = [d \in Dispatchers |-> IF d = p THEN NoClaim ELSE held[d]]
    /\ IF p = Api THEN tasks' = {} /\ due' = {} ELSE UNCHANGED scheduled
    /\ UNCHANGED <<leases, sent, answer>>

-------------------------------------------------------------------------------

Execute(p) ==
    \/ \E c \in Calls: \/ Check(p, c) \/ Skip(p, c) \/ StartCall(p, c)
                       \/ RecordFails(p, c) \/ Send(p, c) \/ Abort(p, c)
                       \/ Finish(p, c) \/ GiveUp(p, c)
    \/ \E S \in SUBSET Calls, question \in BOOLEAN: Ask(p, S, question)
    \/ Complete(p) \/ Fail(p) \/ Stop(p)

Operate ==
    \/ \E c \in Calls, approved \in BOOLEAN: Decide(c, approved)
    \/ Answer \/ Cancel \/ ResumeRequest \/ Rename

Dispatch ==
    \/ \E d \in Dispatchers: Claim(d) \/ Begin(d)
    \/ \E kind \in Kinds: Start(kind)
    \/ Expire

Persist ==
    \/ \E p \in Procs: Write(p) \/ Sync(p)
    \/ WriteFails

Work == Dispatch \/ Operate \/ Persist \/ \E p \in Executors: Execute(p)

Fault ==
    \/ \E p \in Procs: Crash(p)
    \/ \E d \in Dispatchers: BeginFails(d)
    \/ ExpireHeld

Next == Work \/ Fault
Spec == Init /\ [][Next]_vars

\* Dispatchers poll, an execution goes on step by step, a lease runs out, a
\* failed write is tried again.  The user owes nothing.
Fairness ==
    /\ WF_vars(Expire)
    /\ \A d \in Dispatchers: WF_vars(Claim(d)) /\ WF_vars(Begin(d))
    /\ \A kind \in Kinds: WF_vars(Start(kind))
    /\ \A p \in Executors: WF_vars(Execute(p))
    /\ \A p \in Procs: WF_vars(Write(p))

-------------------------------------------------------------------------------
(* Properties *)

TypeOK ==
    /\ store \in Runs
    /\ mem \in [Procs -> Runs]
    /\ dirty \in [Procs -> BOOLEAN]
    /\ expired \subseteq Nat
    /\ issued \in Nat
    /\ held \in [Dispatchers -> Claims]
    /\ work \in [Executors -> Segments]
    /\ call \in [Executors -> [Calls -> Phases]]
    /\ tasks \subseteq Kinds
    /\ due \subseteq Kinds
    /\ sent \in [Calls -> Nat]
    /\ answer \in [Calls -> {"none"} \cup Results]
    /\ lost \in BOOLEAN

\* A write that was sent is never on record as refused or not begun, and a result
\* is on record only as it came back: what may have happened outside stays
\* visible after a crash, a cancellation or a failed write.
TruthfulSteps ==
    \A c \in Calls: sent[c] > 0 =>
        store.step[c] \in {"running", "unknown", "cancelled"} \cup (Results \cap {answer[c]})

\* The run is executed by one process at a time, and no claim or task can begin
\* it while it is executed (run_claim, _may_begin_locked).
NoOverlap ==
    /\ \A p, q \in Executors: Executing(p) /\ Executing(q) => p = q
    /\ \A d \in Dispatchers:
         MayBegin(store, held[d]) => \A p \in Executors: ~Executing(p)
    /\ InProcess /\ mem[Api].status = "queued" => ~Executing(Api)

\* The generation of an open run never goes back.
GenerationsGrow ==
    [][~Closed(store') => Generation(store') >= Generation(store)]_vars

\* In the in_process mode the outcome of a run stands: a cancellation that comes
\* after the end changes nothing (#911).
OutcomeStands ==
    [][InProcess /\ Closed(store) => store'.status = store.status]_vars

\* The record of the calls as the ledger of the run sees it.
Ledger == INSTANCE RunLedger WITH
    decision <- store.approval, closed <- Closed(store), sends <- sent
Implements == Ledger!Spec

\* A run that is queued or running gets on to a result or to the user, unless
\* the process that executed it has died (there is no taking over of a running
\* run).
Settles ==
    store.status \in {"queued", "running"} ~>
        (store.status \notin {"queued", "running"} \/ lost)
===============================================================================
