---------------------------- MODULE AgentRunProofs ----------------------------
EXTENDS AgentRun, TLAPS

-------------------------------------------------------------------------------
(* Types *)

\* What the operators on rows return.
LEMMA RowTypes ==
  ASSUME NEW r \in Runs
  PROVE  /\ Cancelled(r) \in Runs /\ Dropped(r) \in Runs /\ Failed(r) \in Runs
         /\ Interrupted(r) \in Runs
         /\ \A o \in Owners: Running(r, o) \in Runs
         /\ \A stored \in Runs: Adopt(r, stored) \in Runs
         /\ Generation(r) \in Nat
<1>1. Cancelled(r) \in Runs
  BY DEF Cancelled, Runs, Results
<1>2. Dropped(r) \in Runs /\ Failed(r) \in Runs
  BY DEF Dropped, Failed, Runs
<1>3. Interrupted(r) \in Runs
  BY <1>2 DEF Interrupted, Runs, Results, Owners, NoOwner
<1>4. \A o \in Owners: Running(r, o) \in Runs
  BY DEF Running, Runs, Owners, NoOwner
<1>5. Generation(r) \in Nat
  BY DEF Generation, Runs, Owners
<1>6. QED
  BY <1>1, <1>2, <1>3, <1>4, <1>5 DEF Adopt

\* The parts of an outcome of a begin.
LEMMA PairFields ==
  ASSUME NEW a, NEW b, NEW new, new = [row |-> a, segment |-> b]
  PROVE  new.row = a /\ new.segment = b
  OBVIOUS

\* What a begin leads to.
LEMMA BeginTypes ==
  ASSUME NEW r \in Runs, NEW o \in Owners,
         NEW new \in Executed(r, o) \cup Resumed(r, o)
  PROVE  new.row \in Runs /\ new.segment \in Segments
<1> DEFINE begun == [token |-> o.token, todo |-> {}, refused |-> FALSE]
           resumed == [token |-> o.token,
                       todo |-> {c \in r.asked: r.approval[c] = "approved"},
                       refused |-> \E c \in Calls: r.approval[c] = "rejected"]
<1>1. NoSegment \in Segments
  BY DEF NoSegment, Segments
<1>2. begun \in Segments /\ resumed \in Segments
  BY DEF Segments, Owners, Runs
<1>3. /\ Failed(r) \in Runs /\ Running(r, o) \in Runs
      /\ Dropped(r) \in Runs /\ Running(Dropped(r), o) \in Runs
  BY RowTypes
<1>4. \/ new = [row |-> Failed(r), segment |-> NoSegment]
      \/ new = [row |-> r, segment |-> NoSegment]
      \/ new = [row |-> Running(r, o), segment |-> begun]
      \/ new = [row |-> Running(Dropped(r), o), segment |-> resumed]
  BY DEF Executed, Resumed
<1> HIDE DEF begun, resumed
<1>5. QED
  BY <1>1, <1>2, <1>3, <1>4, PairFields

\* The sets of processes.
LEMMA Processes == Api \in Procs /\ Dispatchers \subseteq Procs /\ Executors \subseteq Procs
  BY DEF Procs, Executors

\* A change of a process keeps the types of the rows.
RowsOK ==
    /\ store \in Runs
    /\ mem \in [Procs -> Runs]
    /\ dirty \in [Procs -> BOOLEAN]

LEMMA ChangeType ==
  ASSUME RowsOK, NEW p \in Procs, NEW r \in Runs, Change(p, r)
  PROVE  RowsOK'
  BY DEF RowsOK, Change

LEMMA KeepType == ASSUME RowsOK, UNCHANGED rows PROVE RowsOK'
  BY DEF RowsOK, rows

\* The initial run has its types.
LEMMA InitType == Init => TypeOK
<1> HAVE Init
<1>1. NewRun \in Runs
  BY DEF NewRun, Runs, Owners, NoOwner
<1>2. NoClaim \in Claims /\ NoSegment \in Segments
  BY DEF NoClaim, Claims, NoSegment, Segments
<1>3. QED
  BY <1>1, <1>2 DEF Init, TypeOK, Phases, Kinds

\* What a step may be, by its parameters.
CallStep(p, c) ==
    \/ Check(p, c) \/ Skip(p, c) \/ StartCall(p, c) \/ RecordFails(p, c)
    \/ Send(p, c) \/ Abort(p, c) \/ Finish(p, c) \/ GiveUp(p, c)

SegmentEnds(p) ==
    \/ \E S \in SUBSET Calls, question \in BOOLEAN: Ask(p, S, question)
    \/ Complete(p) \/ Fail(p) \/ Stop(p)

LEMMA ActionCases ==
  ASSUME Next
  PROVE  \/ \E p \in Executors, c \in Calls: CallStep(p, c)
         \/ \E p \in Executors: SegmentEnds(p)
         \/ Operate
         \/ \E d \in Dispatchers: Claim(d) \/ Begin(d) \/ BeginFails(d)
         \/ \E kind \in Kinds: Start(kind)
         \/ Expire \/ ExpireHeld \/ WriteFails
         \/ \E p \in Procs: Write(p) \/ Sync(p) \/ Crash(p)
  BY DEF Next, Work, Fault, Execute, Dispatch, Persist, CallStep, SegmentEnds

\* A call changes the row by its step, or takes over a cancellation.
LEMMA CallRows ==
  ASSUME TypeOK, NEW p \in Executors, NEW c \in Calls, CallStep(p, c)
  PROVE  RowsOK'
<1> USE Processes
<1>1. RowsOK /\ p \in Procs /\ mem[p] \in Runs /\ store \in Runs
  BY DEF TypeOK, RowsOK
<1>2. ASSUME NEW s \in {"running", "failed"} \cup Results, StepIs(p, c, s) PROVE RowsOK'
  <2>1. [mem[p] EXCEPT !.step[c] = s] \in Runs
    BY <1>1 DEF Runs, Results
  <2>2. QED
    BY <1>1, <1>2, <2>1, ChangeType DEF StepIs
<1>3. ASSUME TakeOver(p) PROVE RowsOK'
  BY <1>1, <1>3, RowTypes, ChangeType, KeepType DEF TakeOver
<1>4. ASSUME Abort(p, c) PROVE RowsOK'
  <2>1. Adopt(mem[p], store) \in Runs
    BY <1>1, RowTypes
  <2>2. [Adopt(mem[p], store) EXCEPT !.step[c] = "cancelled"] \in Runs
    BY <2>1 DEF Runs
  <2>3. QED
    BY <1>1, <1>4, <2>2, ChangeType DEF Abort
<1>5. CASE Check(p, c)
  BY <1>1, <1>3, <1>5, KeepType DEF Check
<1>6. CASE Skip(p, c) \/ StartCall(p, c) \/ RecordFails(p, c)
  BY <1>1, <1>2, <1>6, KeepType DEF Skip, StartCall, RecordFails
<1>7. CASE Finish(p, c)
  BY <1>2, <1>7 DEF Finish
<1>8. CASE Send(p, c) \/ GiveUp(p, c)
  BY <1>1, <1>8, KeepType DEF Send, GiveUp
<1>9. QED
  BY <1>4, <1>5, <1>6, <1>7, <1>8 DEF CallStep

\* The end of a segment.
LEMMA SegmentRows ==
  ASSUME TypeOK, NEW p \in Executors, SegmentEnds(p)
  PROVE  RowsOK'
<1> USE Processes
<1>1. RowsOK /\ p \in Procs /\ mem[p] \in Runs /\ store \in Runs
  BY DEF TypeOK, RowsOK
<1>2. ASSUME NEW r \in Runs, EndSegment(p, r) PROVE RowsOK'
  BY <1>1, <1>2, ChangeType, KeepType DEF EndSegment
<1>3. ASSUME NEW S \in SUBSET Calls, NEW question \in BOOLEAN, Ask(p, S, question)
      PROVE  RowsOK'
  <2> DEFINE r == [mem[p] EXCEPT
            !.status = IF S # {} THEN "waiting_approval" ELSE "waiting_confirmation",
            !.saved = TRUE,
            !.asked = S,
            !.step = [c \in Calls |-> IF c \in S THEN "waiting" ELSE @[c]],
            !.approval = [c \in Calls |-> IF c \in S THEN "pending" ELSE @[c]],
            !.question = IF question THEN "pending" ELSE @]
  <2>1. r \in Runs
    BY <1>1 DEF Runs, Results
  <2>2. EndSegment(p, r)
    BY <1>3 DEF Ask
  <2>3. QED
    BY <1>2, <2>1, <2>2
<1>4. CASE Complete(p)
  <2>1. [mem[p] EXCEPT !.status = "completed"] \in Runs
    BY <1>1 DEF Runs
  <2>2. QED
    BY <1>2, <1>4, <2>1 DEF Complete
<1>5. CASE Fail(p)
  BY <1>1, <1>2, <1>5, RowTypes DEF Fail
<1>6. CASE Stop(p)
  BY <1>1, <1>6, RowTypes, ChangeType, KeepType DEF Stop, TakeOver
<1>7. QED
  BY <1>3, <1>4, <1>5, <1>6 DEF SegmentEnds

\* An operation of the API.
LEMMA OperateRows ==
  ASSUME TypeOK, Operate
  PROVE  RowsOK'
<1> USE Processes
<1>1. RowsOK /\ mem[Api] \in Runs
  BY DEF TypeOK, RowsOK
<1>2. ASSUME NEW r \in Runs, Decided(r) PROVE RowsOK'
  BY <1>1, <1>2, ChangeType DEF Decided
<1>3. ASSUME NEW c \in Calls, NEW approved \in BOOLEAN, Decide(c, approved)
      PROVE  RowsOK'
  <2> DEFINE r == mem[Api]
             after == IF Undecided(r) # {c} THEN r.status
                      ELSE IF r.question = "pending" THEN "waiting_confirmation"
                           ELSE "queued"
             closed == [r EXCEPT !.approval[c] = "cancelled"]
             decided == [r EXCEPT !.approval[c] = IF approved THEN "approved" ELSE "rejected",
                                  !.step[c] = IF approved THEN "pending" ELSE "cancelled",
                                  !.status = after]
  <2>1. closed \in Runs
    BY <1>1 DEF Runs
  <2>2. decided \in Runs
    BY <1>1 DEF Runs
  <2>3. Decided(closed) \/ Decided(decided)
    BY <1>3 DEF Decide
  <2> HIDE DEF closed, decided
  <2>4. QED
    BY <1>2, <2>1, <2>2, <2>3
<1>4. CASE Answer
  <2> DEFINE r == [mem[Api] EXCEPT !.question = "answered",
                      !.status = IF mem[Api].status = "waiting_confirmation"
                                      /\ Undecided(mem[Api]) = {}
                                 THEN "queued" ELSE @]
  <2>1. r \in Runs
    BY <1>1 DEF Runs
  <2>2. Decided(r)
    BY <1>4 DEF Answer
  <2>3. QED
    BY <1>2, <2>1, <2>2
<1>5. CASE Cancel
  BY <1>1, <1>5, RowTypes, ChangeType DEF Cancel
<1>6. CASE ResumeRequest
  BY <1>1, <1>6, KeepType DEF ResumeRequest
<1>7. CASE Rename
  BY <1>1, <1>7, ChangeType DEF Rename
<1>8. QED
  BY <1>3, <1>4, <1>5, <1>6, <1>7 DEF Operate

\* The claims, the begins and what the storage and the processes do.
LEMMA DispatchRows ==
  ASSUME TypeOK, NEW d \in Dispatchers, Claim(d) \/ Begin(d) \/ BeginFails(d)
  PROVE  RowsOK' /\ held' \in [Dispatchers -> Claims] /\ work' \in [Executors -> Segments]
<1> USE Processes
<1>1. RowsOK /\ store \in Runs /\ held \in [Dispatchers -> Claims] /\ issued \in Nat
      /\ work \in [Executors -> Segments]
  BY DEF TypeOK, RowsOK
<1>2. NoClaim \in Claims /\ NoSegment \in Segments
  BY DEF NoClaim, Claims, NoSegment, Segments
<1>3. CASE Claim(d)
  <2> DEFINE lease == [token |-> issued + 1, gen |-> Generation(store) + 1]
             claim == [token |-> lease.token, gen |-> lease.gen, resume |-> Resumable(store)]
  <2>1. lease \in Owners /\ claim \in Claims
    BY <1>1, RowTypes DEF Owners, Claims, Resumable
  <2>2. [store EXCEPT !.lease = lease] \in Runs
    BY <1>1, <2>1 DEF Runs
  <2>3. QED
    BY <1>1, <1>3, <2>1, <2>2 DEF Claim, RowsOK
<1>4. CASE Begin(d)
  <2> DEFINE owner == [token |-> held[d].token, gen |-> held[d].gen]
  <2>1. owner \in Owners
    BY <1>1 DEF Owners, Claims
  <2>2. PICK new \in {[row |-> store, segment |-> NoSegment]}
                     \cup Executed(store, owner) \cup Resumed(store, owner):
          /\ store' = new.row
          /\ mem' = [mem EXCEPT ![d] = new.row]
          /\ work' = [work EXCEPT ![d] = new.segment]
    BY <1>4 DEF Begin
  <2>3. new.row \in Runs /\ new.segment \in Segments
    BY <1>1, <1>2, <2>1, BeginTypes, PairFields
  <2>4. dirty' = dirty /\ held' = [held EXCEPT ![d] = NoClaim]
    BY <1>4 DEF Begin
  <2>5. QED
    BY <1>1, <1>2, <2>2, <2>3, <2>4 DEF RowsOK
<1>5. CASE BeginFails(d)
  BY <1>1, <1>2, <1>5 DEF BeginFails, RowsOK
<1>6. QED
  BY <1>3, <1>4, <1>5

LEMMA StartRows ==
  ASSUME TypeOK, NEW kind \in Kinds, Start(kind)
  PROVE  RowsOK' /\ work' \in [Executors -> Segments] /\ issued' \in Nat
<1> USE Processes
<1> DEFINE r == mem[Api]
           owner == [token |-> issued + 1, gen |-> Generation(r) + 1]
<1>1. RowsOK /\ r \in Runs /\ issued \in Nat /\ work \in [Executors -> Segments]
  BY DEF TypeOK, RowsOK
<1>2. owner \in Owners
  BY <1>1, RowTypes DEF Owners
<1>3. NoSegment \in Segments
  BY DEF NoSegment, Segments
<1>4. CASE UNCHANGED <<rows, work, issued>>
  BY <1>1, <1>4, KeepType
<1>5. CASE \E new \in Executed(r, owner) \cup Resumed(r, owner):
             /\ IF new.row = r THEN UNCHANGED rows ELSE Change(Api, new.row)
             /\ work' = [work EXCEPT ![Api] = new.segment]
             /\ issued' = IF new.segment = NoSegment THEN issued ELSE issued + 1
  <2>1. PICK new \in Executed(r, owner) \cup Resumed(r, owner):
             /\ IF new.row = r THEN UNCHANGED rows ELSE Change(Api, new.row)
             /\ work' = [work EXCEPT ![Api] = new.segment]
             /\ issued' = IF new.segment = NoSegment THEN issued ELSE issued + 1
    BY <1>5
  <2>2. new.row \in Runs /\ new.segment \in Segments
    BY <1>1, <1>2, BeginTypes
  <2>3. RowsOK'
    BY <1>1, <2>1, <2>2, ChangeType, KeepType
  <2>4. work' \in [Executors -> Segments]
    <3>1. work' = [work EXCEPT ![Api] = new.segment]
      BY <2>1
    <3>2. QED
      BY <1>1, <2>2, <3>1
  <2>5. issued' \in Nat
    <3>1. issued' = issued \/ issued' = issued + 1
      BY <2>1
    <3>2. QED
      BY <1>1, <3>1
  <2>6. QED
    BY <2>3, <2>4, <2>5
<1>6. QED
  BY <1>4, <1>5 DEF Start

\* Writing, reading and restarting.
LEMMA PersistRows ==
  ASSUME TypeOK, NEW p \in Procs, Write(p) \/ Sync(p) \/ Crash(p)
  PROVE  RowsOK'
<1>1. RowsOK /\ mem[p] \in Runs /\ store \in Runs
  BY DEF TypeOK, RowsOK
<1>2. CASE Write(p)
  BY <1>1, <1>2, RowTypes DEF Write, RowsOK
<1>3. CASE Sync(p)
  BY <1>1, <1>3 DEF Sync, RowsOK
<1>4. CASE Crash(p)
  <2>1. Interrupted(store) \in Runs
    BY <1>1, RowTypes
  <2>2. \/ Change(p, Interrupted(store))
        \/ /\ mem' = [mem EXCEPT ![p] = store]
           /\ dirty' = [dirty EXCEPT ![p] = FALSE]
           /\ store' = store
    BY <1>4 DEF Crash
  <2>3. QED
    BY <1>1, <2>1, <2>2, ChangeType DEF RowsOK
<1>5. QED
  BY <1>2, <1>3, <1>4

\* Every step keeps the types of the rows.
LEMMA RowsType ==
  ASSUME TypeOK, Next
  PROVE  RowsOK'
<1>1. RowsOK
  BY DEF TypeOK, RowsOK
<1>2. ASSUME NEW p \in Executors, NEW c \in Calls, CallStep(p, c) PROVE RowsOK'
  BY <1>2, CallRows
<1>3. ASSUME NEW p \in Executors, SegmentEnds(p) PROVE RowsOK'
  BY <1>3, SegmentRows
<1>4. CASE Operate
  BY <1>4, OperateRows
<1>5. ASSUME NEW d \in Dispatchers, Claim(d) \/ Begin(d) \/ BeginFails(d) PROVE RowsOK'
  BY <1>5, DispatchRows
<1>6. ASSUME NEW kind \in Kinds, Start(kind) PROVE RowsOK'
  BY <1>6, StartRows
<1>7. CASE Expire \/ ExpireHeld \/ WriteFails
  BY <1>1, <1>7, KeepType DEF Expire, ExpireHeld, Expired, WriteFails
<1>8. ASSUME NEW p \in Procs, Write(p) \/ Sync(p) \/ Crash(p) PROVE RowsOK'
  BY <1>8, PersistRows
<1>9. QED
  BY <1>2, <1>3, <1>4, <1>5, <1>6, <1>7, <1>8, ActionCases

\* The types of the other variables.
OthersOK ==
    /\ expired \subseteq Nat
    /\ issued \in Nat
    /\ held \in [Dispatchers -> Claims]
    /\ work \in [Executors -> Segments]
    /\ call \in [Executors -> [Calls -> Phases]]
    /\ tasks \subseteq Kinds
    /\ due \subseteq Kinds
    /\ sent \in [Calls -> Nat]
    /\ answer \in [Calls -> {"none"} \cup Results]
    /\ lost \in BOOLEAN

LEMMA CallTypes ==
  ASSUME TypeOK, NEW p \in Executors, NEW c \in Calls, CallStep(p, c)
  PROVE  OthersOK'
<1>1. OthersOK
  BY DEF TypeOK, OthersOK
<1>2. UNCHANGED <<leases, held, scheduled>> /\ (lost' = lost)
  BY DEF CallStep, Check, Skip, StartCall, RecordFails, Send, Abort, Finish, GiveUp, history
<1>3. work' \in [Executors -> Segments]
  <2>1. [work EXCEPT ![p].todo = @ \ {c}] \in [Executors -> Segments]
    BY <1>1 DEF OthersOK, Segments
  <2>2. work' = work \/ work' = [work EXCEPT ![p].todo = @ \ {c}]
    BY DEF CallStep, Check, Skip, StartCall, RecordFails, Send, Abort, Finish, GiveUp, Dequeue
  <2>3. QED
    BY <1>1, <2>1, <2>2 DEF OthersOK
<1>4. call' \in [Executors -> [Calls -> Phases]]
  <2>1. \A phase \in Phases: [call EXCEPT ![p][c] = phase] \in [Executors -> [Calls -> Phases]]
    BY <1>1 DEF OthersOK
  <2>2. call' = call \/ \E phase \in Phases: call' = [call EXCEPT ![p][c] = phase]
    BY DEF CallStep, Check, Skip, StartCall, RecordFails, Send, Abort, Finish, GiveUp, At, Phases
  <2>3. QED
    BY <1>1, <2>1, <2>2 DEF OthersOK
<1>5. sent' \in [Calls -> Nat] /\ answer' \in [Calls -> {"none"} \cup Results]
  BY <1>1 DEF OthersOK, CallStep, Check, Skip, StartCall, RecordFails, Send, Abort, Finish,
     GiveUp, history
<1>6. QED
  BY <1>1, <1>2, <1>3, <1>4, <1>5 DEF OthersOK, leases, scheduled

LEMMA OthersType ==
  ASSUME TypeOK, Next
  PROVE  OthersOK'
<1>1. OthersOK /\ store \in Runs
  BY DEF TypeOK, OthersOK
<1>2. NoClaim \in Claims /\ NoSegment \in Segments
  BY DEF NoClaim, Claims, NoSegment, Segments
<1>3. ASSUME NEW p \in Executors, SegmentEnds(p) PROVE OthersOK'
  BY <1>1, <1>2, <1>3 DEF OthersOK, SegmentEnds, Ask, Complete, Fail, Stop, EndSegment,
     leases, scheduled, history
<1>4. CASE Operate
  BY <1>1, <1>4 DEF OthersOK, Operate, Decide, Decided, Answer, Cancel, ResumeRequest, Rename,
     Kinds, leases, scheduled, history
<1>5. ASSUME NEW d \in Dispatchers, Claim(d) \/ Begin(d) \/ BeginFails(d) PROVE OthersOK'
  <2>1. held' \in [Dispatchers -> Claims] /\ work' \in [Executors -> Segments]
    BY <1>5, DispatchRows
  <2>2. issued' \in Nat /\ UNCHANGED <<expired, call, scheduled, history>>
    BY <1>1, <1>5 DEF OthersOK, Claim, Begin, BeginFails, leases
  <2>3. QED
    BY <1>1, <2>1, <2>2 DEF OthersOK, scheduled, history
<1>6. ASSUME NEW kind \in Kinds, Start(kind) PROVE OthersOK'
  <2>1. work' \in [Executors -> Segments] /\ issued' \in Nat
    BY <1>6, StartRows
  <2>2. tasks' \subseteq Kinds /\ UNCHANGED <<expired, held, call, due, history>>
    BY <1>1, <1>6 DEF OthersOK, Start
  <2>3. QED
    BY <1>1, <2>1, <2>2 DEF OthersOK, history
<1>7. CASE Expire \/ ExpireHeld
  <2>1. store.lease.token \in Nat
    BY <1>1 DEF Runs, Owners
  <2>2. QED
    BY <1>1, <1>7, <2>1 DEF OthersOK, Expire, ExpireHeld, Expired, scheduled, history
<1>8. CASE WriteFails
  BY <1>1, <1>8 DEF OthersOK, WriteFails, leases, history
<1>9. ASSUME NEW p \in Procs, Write(p) \/ Sync(p) \/ Crash(p) PROVE OthersOK'
  <2>1. CASE Write(p)
    <3>1. call' \in [Executors -> [Calls -> Phases]]
      BY <1>1, <2>1 DEF OthersOK, Write, Phases
    <3>2. QED
      BY <1>1, <2>1, <3>1 DEF OthersOK, Write, leases, scheduled, history
  <2>2. CASE Sync(p)
    BY <1>1, <2>2 DEF OthersOK, Sync, leases, scheduled, history
  <2>3. CASE Crash(p)
    <3>1. lost' \in BOOLEAN
      BY <1>1, <2>3 DEF OthersOK, Crash
    <3>2. call' \in [Executors -> [Calls -> Phases]] /\ work' \in [Executors -> Segments]
      BY <1>1, <1>2, <2>3 DEF OthersOK, Crash, Phases
    <3>3. held' \in [Dispatchers -> Claims] /\ tasks' \subseteq Kinds /\ due' \subseteq Kinds
      BY <1>1, <1>2, <2>3 DEF OthersOK, Crash, scheduled
    <3>4. QED
      BY <1>1, <2>3, <3>1, <3>2, <3>3 DEF OthersOK, Crash, leases
  <2>4. QED
    BY <1>9, <2>1, <2>2, <2>3
<1>10. QED
  BY <1>3, <1>4, <1>5, <1>6, <1>7, <1>8, <1>9, CallTypes, ActionCases

\* Type correctness, for any dispatchers and calls.
THEOREM TypeCorrect == Spec => []TypeOK
<1>1. ASSUME TypeOK, [Next]_vars PROVE TypeOK'
  <2>1. CASE Next
    BY <1>1, <2>1, RowsType, OthersType DEF TypeOK, RowsOK, OthersOK
  <2>2. CASE UNCHANGED vars
    BY <1>1, <2>2 DEF TypeOK, vars
  <2>3. QED
    BY <1>1, <2>1, <2>2
<1>2. QED
  BY <1>1, InitType, PTL DEF Spec

-------------------------------------------------------------------------------
(* The in_process mode.  The API writes what it has in its memory, so the     *)
(* storage is behind it and never ahead.                                      *)

\* A decision on a call that is not changed any more.
Final(d) == d \in {"approved", "rejected", "cancelled"}

\* What the row in the storage and the newer one in the memory have in common.
Behind(stored, r) ==
    /\ Closed(stored) => r.status = stored.status
    /\ stored.lease = NoOwner /\ r.lease = NoOwner
    /\ r.exec.gen >= stored.exec.gen
    /\ \A c \in Calls:
         /\ Final(stored.approval[c]) => r.approval[c] = stored.approval[c]
         /\ Closed(stored) /\ r.approval[c] = "approved" => stored.approval[c] = "approved"

\* A run that is queued or running waits for no decision.
Settled(r) ==
    r.status \in {"queued", "running"} => Undecided(r) = {} /\ r.question # "pending"

RowInv ==
    /\ Behind(store, mem[Api])
    /\ Settled(store) /\ Settled(mem[Api])
    /\ dirty[Api] \/ store = mem[Api]
    /\ Executing(Api) => mem[Api].status = "running" \/ Closed(mem[Api])

\* The call c of run r is approved and begun and is not to be made again; its
\* step has the result that came back, if there is one.
Gone(r, c, result) ==
    /\ r.approval[c] = "approved"
    /\ r.step[c] \in {"running", "unknown", "cancelled"} \cup (Results \cap {result})
    /\ c \notin r.asked

\* A call is to be made, or begun, or recorded and perhaps sent: in this order,
\* and the rows follow.
OneCallInv(c) ==
    /\ call[Api][c] \in {"started", "recorded", "sent"} => c \notin work[Api].todo
    /\ c \in work[Api].todo => sent[c] = 0 /\ c \notin mem[Api].asked
    /\ call[Api][c] \in {"started", "recorded"} => sent[c] = 0
    /\ call[Api][c] = "sent" => sent[c] > 0 /\ answer[c] = "none"
    /\ sent[c] = 0 => answer[c] = "none"
    /\ call[Api][c] = "started" => Gone(mem[Api], c, answer[c])
    /\ call[Api][c] = "recorded" \/ sent[c] > 0 =>
         Gone(store, c, answer[c]) /\ Gone(mem[Api], c, answer[c])

CallInv == \A c \in Calls: OneCallInv(c)

IInv == TypeOK /\ RowInv /\ CallInv


\* What a change of the row r to new may do: every change of the memory is one.
Moves(r, new) ==
    /\ Behind(r, new)
    /\ Settled(new)
    /\ \A c \in Calls, result \in {"none"} \cup Results:
         Gone(r, c, result) => Gone(new, c, result)

\* The storage stays behind the memory.
LEMMA BehindMoves ==
  ASSUME NEW s \in Runs, NEW r \in Runs, NEW new \in Runs, Behind(s, r), Behind(r, new)
  PROVE  Behind(s, new)
  BY DEF Behind, Closed, Final, Runs, Owners

\* Cancelling, failing and interrupting an open run.
LEMMA EndMoves ==
  ASSUME NEW r \in Runs, r.lease = NoOwner, ~Closed(r)
  PROVE  Moves(r, Cancelled(r)) /\ Moves(r, Failed(r)) /\ Moves(r, Interrupted(r))
<1>1. r.exec.gen \in Nat
  BY DEF Runs, Owners
<1>2. Cancelled(r) \in Runs /\ Failed(r) \in Runs /\ Interrupted(r) \in Runs
  BY RowTypes
<1>3. Moves(r, Cancelled(r))
  <2> DEFINE new == Cancelled(r)
  <2>1. /\ new.status = "cancelled" /\ new.lease = r.lease /\ new.exec = r.exec
        /\ new.asked = r.asked
        /\ \A c \in Calls:
             /\ new.approval[c] = IF r.approval[c] = "pending" THEN "cancelled"
                                  ELSE r.approval[c]
             /\ new.step[c] = IF r.step[c] \in {"waiting", "pending", "running"}
                              THEN "cancelled" ELSE r.step[c]
    BY DEF Cancelled, Runs
  <2> HIDE DEF new
  <2>2. Behind(r, new)
    BY <1>1, <2>1 DEF Behind, Closed, Final
  <2>3. Settled(new)
    BY <2>1 DEF Settled
  <2>4. ASSUME NEW c \in Calls, NEW result \in {"none"} \cup Results, Gone(r, c, result)
        PROVE  Gone(new, c, result)
    BY <2>1, <2>4 DEF Gone
  <2>5. QED
    BY <2>2, <2>3, <2>4 DEF Moves, new
<1>4. Moves(r, Failed(r))
  <2> DEFINE new == Failed(r)
  <2>1. /\ new.status = "failed" /\ new.lease = r.lease /\ new.exec = r.exec
        /\ new.asked = {} /\ new.approval = r.approval /\ new.step = r.step
    BY DEF Failed, Dropped, Runs
  <2> HIDE DEF new
  <2>2. Behind(r, new)
    BY <1>1, <2>1 DEF Behind, Closed, Final
  <2>3. Settled(new)
    BY <2>1 DEF Settled
  <2>4. ASSUME NEW c \in Calls, NEW result \in {"none"} \cup Results, Gone(r, c, result)
        PROVE  Gone(new, c, result)
    BY <2>1, <2>4 DEF Gone
  <2>5. QED
    BY <2>2, <2>3, <2>4 DEF Moves, new
<1>5. Moves(r, Interrupted(r))
  <2> DEFINE new == Interrupted(r)
  <2>1. /\ new.status = "failed" /\ new.lease = NoOwner /\ new.exec = r.exec
        /\ new.asked = {} /\ new.approval = r.approval
    BY DEF Interrupted, Failed, Dropped, Runs
  <2>2. \A c \in Calls:
          new.step[c] = CASE r.step[c] = "running" -> "unknown"
                          [] r.step[c] = "pending" -> "failed"
                          [] OTHER -> r.step[c]
    BY DEF Interrupted, Failed, Dropped, Runs
  <2> HIDE DEF new
  <2>3. Behind(r, new)
    BY <1>1, <2>1 DEF Behind, Closed, Final
  <2>4. Settled(new)
    BY <2>1 DEF Settled
  <2>5. ASSUME NEW c \in Calls, NEW result \in {"none"} \cup Results, Gone(r, c, result)
        PROVE  Gone(new, c, result)
    <3>1. r.step[c] # "pending"
      BY <2>5 DEF Gone, Results
    <3>2. new.step[c] = "unknown" \/ new.step[c] = r.step[c]
      BY <2>2, <3>1
    <3>3. QED
      BY <2>1, <2>5, <3>2 DEF Gone
  <2>6. QED
    BY <2>3, <2>4, <2>5 DEF Moves, new
<1>6. QED
  BY <1>3, <1>4, <1>5


\* Beginning a queued run, or the resumption of one.
LEMMA BeginMoves ==
  ASSUME NEW r \in Runs, r.lease = NoOwner, r.status = "queued", Settled(r),
         NEW o \in Owners, o.gen >= r.exec.gen,
         NEW new \in Executed(r, o) \cup Resumed(r, o)
  PROVE  /\ Moves(r, new.row)
         /\ \/ new.segment = NoSegment
            \/ new.row.status = "running" /\ new.segment.todo = {}
            \/ /\ new.row.status = "running" /\ new.row.asked = {}
               /\ new.segment.todo \subseteq r.asked
<1> DEFINE begun == [token |-> o.token, todo |-> {}, refused |-> FALSE]
           resumed == [token |-> o.token,
                       todo |-> {c \in r.asked: r.approval[c] = "approved"},
                       refused |-> \E c \in Calls: r.approval[c] = "rejected"]
<1>1. ~Closed(r) /\ Undecided(r) = {} /\ r.question # "pending"
  BY DEF Closed, Settled
<1>2. \/ new = [row |-> Failed(r), segment |-> NoSegment]
      \/ new = [row |-> Running(r, o), segment |-> begun]
      \/ new = [row |-> Running(Dropped(r), o), segment |-> resumed]
  BY <1>1 DEF Executed, Resumed
<1>3. ASSUME NEW x \in Runs, x.status = r.status, x.approval = r.approval, x.step = r.step,
             x.exec = r.exec, x.question = r.question, x.asked \subseteq r.asked
      PROVE  Moves(r, Running(x, o)) /\ Running(x, o).status = "running"
             /\ Running(x, o).asked = x.asked
  <2> DEFINE y == Running(x, o)
  <2>1. /\ y.status = "running" /\ y.lease = NoOwner /\ y.exec = o /\ y.asked = x.asked
        /\ y.approval = r.approval /\ y.step = r.step /\ y.question = r.question
    BY <1>3 DEF Running, Runs
  <2> HIDE DEF y
  <2>2. Behind(r, y)
    BY <1>1, <2>1 DEF Behind
  <2>3. Settled(y)
    BY <1>1, <2>1 DEF Settled, Undecided
  <2>4. \A c \in Calls, result \in {"none"} \cup Results:
          Gone(r, c, result) => Gone(y, c, result)
    BY <1>3, <2>1 DEF Gone
  <2>5. QED
    BY <2>1, <2>2, <2>3, <2>4 DEF Moves, y
<1>4. Moves(r, Running(r, o)) /\ Running(r, o).status = "running"
  BY <1>3
<1>5. Moves(r, Running(Dropped(r), o)) /\ Running(Dropped(r), o).status = "running"
      /\ Running(Dropped(r), o).asked = {}
  <2>1. Dropped(r) \in Runs
    BY RowTypes
  <2>2. /\ Dropped(r).status = r.status /\ Dropped(r).approval = r.approval
        /\ Dropped(r).step = r.step /\ Dropped(r).exec = r.exec
        /\ Dropped(r).question = r.question /\ Dropped(r).asked = {}
    BY DEF Dropped, Runs
  <2>3. QED
    BY <1>3, <2>1, <2>2
<1>6. begun.todo = {} /\ resumed.todo \subseteq r.asked
  BY DEF Runs
<1> HIDE DEF begun, resumed
<1>7. QED
  BY <1>1, <1>2, <1>4, <1>5, <1>6, EndMoves, PairFields

\* Asking the user, at the end of a segment.
LEMMA AskMoves ==
  ASSUME NEW r \in Runs, r.lease = NoOwner, r.status = "running", Settled(r),
         NEW S \in SUBSET Calls, NEW question \in BOOLEAN,
         \A c \in S: r.step[c] = "none" /\ r.approval[c] = "none",
         NEW new, new = [r EXCEPT
            !.status = IF S # {} THEN "waiting_approval" ELSE "waiting_confirmation",
            !.saved = TRUE,
            !.asked = S,
            !.step = [c \in Calls |-> IF c \in S THEN "waiting" ELSE @[c]],
            !.approval = [c \in Calls |-> IF c \in S THEN "pending" ELSE @[c]],
            !.question = IF question THEN "pending" ELSE @]
  PROVE  Moves(r, new)
<1>1. r.exec.gen \in Nat
  BY DEF Runs, Owners
<1>2. /\ new.status \in {"waiting_approval", "waiting_confirmation"}
      /\ new.lease = r.lease /\ new.exec = r.exec /\ new.asked = S
      /\ \A c \in Calls:
           /\ new.approval[c] = IF c \in S THEN "pending" ELSE r.approval[c]
           /\ new.step[c] = IF c \in S THEN "waiting" ELSE r.step[c]
  BY DEF Runs
<1>3. Behind(r, new)
  BY <1>1, <1>2 DEF Behind, Closed, Final
<1>4. Settled(new)
  BY <1>2 DEF Settled
<1>5. ASSUME NEW c \in Calls, NEW result \in {"none"} \cup Results, Gone(r, c, result)
      PROVE  Gone(new, c, result)
  <2>1. c \notin S
    BY <1>5 DEF Gone
  <2>2. QED
    BY <1>2, <1>5, <2>1 DEF Gone
<1>6. QED
  BY <1>3, <1>4, <1>5 DEF Moves

\* The end of the run, the answer to a question.
LEMMA StatusMoves ==
  ASSUME NEW r \in Runs, r.lease = NoOwner, Settled(r)
  PROVE  /\ r.status = "running" => Moves(r, [r EXCEPT !.status = "completed"])
         /\ \A s \in {r.status, "queued"}:
              s = r.status \/ (r.status = "waiting_confirmation" /\ Undecided(r) = {})
                => Moves(r, [r EXCEPT !.question = "answered", !.status = s])
<1>1. r.exec.gen \in Nat
  BY DEF Runs, Owners
<1>2. ASSUME r.status = "running" PROVE Moves(r, [r EXCEPT !.status = "completed"])
  BY <1>1, <1>2 DEF Moves, Behind, Closed, Settled, Gone, Runs
<1>3. ASSUME NEW s \in {r.status, "queued"},
             s = r.status \/ (r.status = "waiting_confirmation" /\ Undecided(r) = {})
      PROVE  Moves(r, [r EXCEPT !.question = "answered", !.status = s])
  BY <1>1, <1>3 DEF Moves, Behind, Closed, Settled, Undecided, Gone, Runs
<1>4. QED
  BY <1>2, <1>3


\* A decision on a pending call.
LEMMA DecideMoves ==
  ASSUME NEW r \in Runs, r.lease = NoOwner, Settled(r),
         NEW c \in Calls, r.approval[c] = "pending", NEW approved \in BOOLEAN,
         NEW s \in {r.status, "waiting_confirmation", "queued"},
         s = "queued" => Undecided(r) = {c} /\ r.question # "pending"
  PROVE  /\ Closed(r) => Moves(r, [r EXCEPT !.approval[c] = "cancelled"])
         /\ ~Closed(r) =>
              Moves(r, [r EXCEPT !.approval[c] = IF approved THEN "approved" ELSE "rejected",
                                 !.step[c] = IF approved THEN "pending" ELSE "cancelled",
                                 !.status = s])
<1>1. r.exec.gen \in Nat
  BY DEF Runs, Owners
<1>2. ASSUME Closed(r) PROVE Moves(r, [r EXCEPT !.approval[c] = "cancelled"])
  <2> DEFINE new == [r EXCEPT !.approval[c] = "cancelled"]
  <2>1. /\ new.status = r.status /\ new.lease = r.lease /\ new.exec = r.exec
        /\ new.asked = r.asked /\ new.step = r.step
        /\ \A x \in Calls: new.approval[x] = IF x = c THEN "cancelled" ELSE r.approval[x]
    BY DEF Runs
  <2> HIDE DEF new
  <2>2. QED
    BY <1>1, <1>2, <2>1 DEF Moves, Behind, Closed, Settled, Final, Gone, new
<1>3. ASSUME ~Closed(r)
      PROVE  Moves(r, [r EXCEPT !.approval[c] = IF approved THEN "approved" ELSE "rejected",
                                !.step[c] = IF approved THEN "pending" ELSE "cancelled",
                                !.status = s])
  <2> DEFINE new == [r EXCEPT !.approval[c] = IF approved THEN "approved" ELSE "rejected",
                              !.step[c] = IF approved THEN "pending" ELSE "cancelled",
                              !.status = s]
  <2>1. /\ new.status = s /\ new.lease = r.lease /\ new.exec = r.exec
        /\ new.asked = r.asked /\ new.question = r.question
        /\ new.approval[c] \in {"approved", "rejected"}
        /\ \A x \in Calls \ {c}: new.approval[x] = r.approval[x] /\ new.step[x] = r.step[x]
    BY DEF Runs
  <2> HIDE DEF new
  <2>2. Behind(r, new)
    BY <1>1, <1>3, <2>1 DEF Behind, Final
  <2>3. Settled(new)
    <3>1. c \in Undecided(r)
      BY DEF Undecided
    <3>2. s # "queued" => s \notin {"queued", "running"}
      BY <3>1 DEF Settled
    <3>3. s = "queued" => Undecided(new) = {} /\ new.question # "pending"
      BY <2>1 DEF Undecided
    <3>4. QED
      BY <2>1, <3>2, <3>3 DEF Settled
  <2>4. ASSUME NEW x \in Calls, NEW result \in {"none"} \cup Results, Gone(r, x, result)
        PROVE  Gone(new, x, result)
    <3>1. x # c
      BY <2>4 DEF Gone
    <3>2. QED
      BY <2>1, <2>4, <3>1 DEF Gone
  <2>5. QED
    BY <2>2, <2>3, <2>4 DEF Moves, new
<1>4. QED
  BY <1>2, <1>3

\* A move of the memory keeps the invariant, if the calls stay where they are
\* and the calls to be made are new ones.
LEMMA MoveInv ==
  ASSUME IInv, InProcess, NEW r \in Runs, Change(Api, r), Moves(mem[Api], r),
         Executing(Api)' => r.status = "running" \/ Closed(r),
         UNCHANGED <<call, sent, answer>>,
         \/ work'[Api].todo \subseteq work[Api].todo /\ r.asked \subseteq mem[Api].asked
         \/ work'[Api].todo = {}
         \/ work'[Api].todo \subseteq mem[Api].asked /\ r.asked = {}
  PROVE  RowInv' /\ CallInv'
<1>1. /\ store \in Runs /\ mem[Api] \in Runs /\ mem'[Api] = r /\ store' = store
      /\ dirty'[Api] = TRUE
      /\ answer \in [Calls -> {"none"} \cup Results]
  BY Processes DEF IInv, TypeOK, Change
<1>2. RowInv'
  <2>1. Behind(store, r)
    BY <1>1, BehindMoves DEF IInv, RowInv, Moves
  <2>2. QED
    BY <1>1, <2>1 DEF IInv, RowInv, Moves
<1>3. CallInv'
  <2> SUFFICES ASSUME NEW c \in Calls
      PROVE  /\ call[Api][c] \in {"started", "recorded", "sent"} => c \notin work'[Api].todo
             /\ c \in work'[Api].todo => sent[c] = 0 /\ c \notin r.asked
             /\ call[Api][c] = "started" => Gone(r, c, answer[c])
             /\ call[Api][c] = "recorded" \/ sent[c] > 0 => Gone(r, c, answer[c])
    BY <1>1 DEF IInv, CallInv, OneCallInv
  <2>1. Gone(mem[Api], c, answer[c]) => Gone(r, c, answer[c])
    BY <1>1 DEF Moves
  <2>2. sent[c] \in Nat
    BY DEF IInv, TypeOK
  <2>3. ASSUME c \in mem[Api].asked
        PROVE  sent[c] = 0 /\ call[Api][c] \notin {"started", "recorded", "sent"}
    BY <2>2, <2>3 DEF IInv, CallInv, OneCallInv, Gone
  <2>4. QED
    BY <2>1, <2>3 DEF IInv, CallInv, OneCallInv
<1>4. QED
  BY <1>2, <1>3


\* The storage has no news for the API.
LEMMA NoNews ==
  ASSUME IInv
  PROVE  /\ Adopt(mem[Api], store) = mem[Api]
         /\ TakeOver(Api) => UNCHANGED rows
  BY DEF IInv, RowInv, Behind, Closed, Adopt, TakeOver

\* A step of call c leaves the other calls alone.
LEMMA OtherCalls ==
  ASSUME IInv, InProcess, NEW c \in Calls, NEW s \in {"running", "cancelled", "failed"} \cup Results,
         UNCHANGED rows \/ StepIs(Api, c, s),
         work' = work \/ Dequeue(Api, c),
         call' = call \/ \E phase \in Phases: At(Api, c, phase),
         \A x \in Calls \ {c}: sent'[x] = sent[x] /\ answer'[x] = answer[x]
  PROVE  /\ RowInv'
         /\ \A x \in Calls \ {c}: OneCallInv(x)'
         /\ c \notin work[Api].todo => c \notin work'[Api].todo
         /\ c \in work'[Api].todo => c \in work[Api].todo
         /\ Dequeue(Api, c) => c \notin work'[Api].todo
         /\ store' = store /\ mem'[Api].asked = mem[Api].asked
         /\ mem'[Api].approval = mem[Api].approval
<1> USE Processes
<1>1. /\ Api \in Executors /\ store \in Runs /\ mem \in [Procs -> Runs]
      /\ mem[Api] \in Runs /\ work \in [Executors -> Segments]
      /\ call \in [Executors -> [Calls -> Phases]]
  BY DEF IInv, TypeOK, InProcess, Executors
<1>2. /\ store' = store
      /\ mem'[Api] = mem[Api] \/ mem'[Api] = [mem[Api] EXCEPT !.step[c] = s]
      /\ dirty'[Api] = TRUE \/ (dirty'[Api] = dirty[Api] /\ mem'[Api] = mem[Api])
  <2>1. CASE UNCHANGED rows
    BY <2>1 DEF rows
  <2>2. CASE StepIs(Api, c, s)
    <3>1. dirty \in [Procs -> BOOLEAN]
      BY DEF IInv, TypeOK
    <3>2. /\ mem' = [mem EXCEPT ![Api] = [mem[Api] EXCEPT !.step[c] = s]]
          /\ dirty' = [dirty EXCEPT ![Api] = TRUE]
          /\ store' = store
      BY <2>2 DEF StepIs, Change
    <3>3. mem'[Api] = [mem[Api] EXCEPT !.step[c] = s]
      BY <1>1, <3>2
    <3>4. dirty'[Api] = TRUE
      BY <3>1, <3>2
    <3>5. QED
      BY <3>2, <3>3, <3>4
  <2>3. QED
    BY <2>1, <2>2
<1>3. /\ mem'[Api].status = mem[Api].status /\ mem'[Api].lease = mem[Api].lease
      /\ mem'[Api].exec = mem[Api].exec /\ mem'[Api].asked = mem[Api].asked
      /\ mem'[Api].approval = mem[Api].approval
      /\ mem'[Api].question = mem[Api].question
      /\ \A x \in Calls \ {c}: mem'[Api].step[x] = mem[Api].step[x]
  BY <1>1, <1>2 DEF Runs
<1>4. /\ work'[Api].token = work[Api].token
      /\ \A x \in Calls \ {c}: x \in work'[Api].todo <=> x \in work[Api].todo
      /\ c \in work'[Api].todo => c \in work[Api].todo
      /\ Dequeue(Api, c) => c \notin work'[Api].todo
  BY <1>1 DEF Dequeue, Segments
<1>5. \A x \in Calls \ {c}: call'[Api][x] = call[Api][x]
  BY <1>1 DEF At
<1>6. RowInv'
  BY <1>2, <1>3, <1>4 DEF IInv, RowInv, Behind, Closed, Settled, Undecided, Executing
<1>7. ASSUME NEW x \in Calls \ {c} PROVE OneCallInv(x)'
  <2>1. OneCallInv(x)
    BY DEF IInv, CallInv
  <2>2. \A result: Gone(mem[Api], x, result) => Gone(mem'[Api], x, result)
    BY <1>3 DEF Gone
  <2>3. QED
    BY <1>2, <1>3, <1>4, <1>5, <2>1, <2>2 DEF OneCallInv
<1>8. QED
  BY <1>2, <1>3, <1>4, <1>6, <1>7


\* The eight steps of a call.
LEMMA CallStepInv ==
  ASSUME IInv, InProcess, NEW c \in Calls, CallStep(Api, c)
  PROVE  RowInv' /\ CallInv'
<1> USE Processes
<1>1. /\ Api \in Executors /\ store \in Runs /\ mem \in [Procs -> Runs]
      /\ mem[Api] \in Runs
      /\ call \in [Executors -> [Calls -> Phases]]
      /\ sent \in [Calls -> Nat] /\ answer \in [Calls -> {"none"} \cup Results]
  BY DEF IInv, TypeOK, InProcess, Executors
<1>2. OneCallInv(c)
  BY DEF IInv, CallInv
<1>3. \A phase \in Phases: At(Api, c, phase) => call'[Api][c] = phase
  BY <1>1 DEF At
<1>4. {"none", "checked", "started", "recorded", "sent"} = Phases
  BY DEF Phases
<1>5. ASSUME NEW s, StepIs(Api, c, s) PROVE mem'[Api].step[c] = s
  <2>1. mem'[Api] = [mem[Api] EXCEPT !.step[c] = s]
    BY <1>1, <1>5 DEF StepIs, Change
  <2>2. QED
    BY <1>1, <2>1 DEF Runs
<1>6. CASE Check(Api, c)
  <2>1. UNCHANGED rows /\ UNCHANGED <<sent, answer>> /\ c \in work[Api].todo
    BY <1>6, NoNews DEF Check, history
  <2>2. \/ Dequeue(Api, c) /\ call' = call
        \/ work' = work /\ At(Api, c, "checked")
    BY <1>6 DEF Check
  <2>3. RowInv' /\ \A x \in Calls \ {c}: OneCallInv(x)'
    BY <1>4, <2>1, <2>2, OtherCalls
  <2>4. OneCallInv(c)'
    BY <1>2, <1>3, <1>4, <2>1, <2>2, OtherCalls DEF OneCallInv, rows
  <2>5. QED
    BY <2>3, <2>4 DEF CallInv
<1>7. CASE Skip(Api, c)
  <2>1. /\ c \in work[Api].todo /\ Dequeue(Api, c) /\ At(Api, c, "none")
        /\ UNCHANGED rows \/ StepIs(Api, c, "failed")
        /\ UNCHANGED <<sent, answer>>
    BY <1>7 DEF Skip, history
  <2>2. /\ RowInv' /\ \A x \in Calls \ {c}: OneCallInv(x)'
        /\ c \notin work'[Api].todo
    BY <1>4, <2>1, OtherCalls
  <2>3. OneCallInv(c)'
    BY <1>2, <1>3, <1>4, <2>1, <2>2 DEF OneCallInv
  <2>4. QED
    BY <2>2, <2>3 DEF CallInv
<1>8. CASE StartCall(Api, c)
  <2>1. /\ c \in work[Api].todo /\ Dequeue(Api, c)
        /\ UNCHANGED <<sent, answer>>
        /\ \/ At(Api, c, "none") /\ UNCHANGED rows
           \/ /\ mem[Api].approval[c] = "approved"
              /\ At(Api, c, "started") /\ StepIs(Api, c, "running")
    BY <1>8 DEF StartCall, MayCall, history
  <2>2. /\ RowInv' /\ \A x \in Calls \ {c}: OneCallInv(x)'
        /\ c \notin work'[Api].todo
        /\ mem'[Api].asked = mem[Api].asked /\ mem'[Api].approval = mem[Api].approval
    BY <1>4, <2>1, OtherCalls
  <2>3. CASE At(Api, c, "none")
    BY <1>2, <1>3, <1>4, <2>1, <2>2, <2>3 DEF OneCallInv, CallInv
  <2>4. CASE /\ mem[Api].approval[c] = "approved"
             /\ At(Api, c, "started") /\ StepIs(Api, c, "running")
    <3>1. Gone(mem'[Api], c, answer'[c])
      BY <1>2, <1>5, <2>1, <2>2, <2>4 DEF OneCallInv, Gone
    <3>2. call'[Api][c] = "started"
      BY <1>3, <1>4, <2>4
    <3>3. QED
      BY <1>2, <2>1, <2>2, <3>1, <3>2 DEF OneCallInv, CallInv
  <2>5. QED
    BY <2>1, <2>3, <2>4
<1>9. CASE RecordFails(Api, c)
  <2>1. /\ call[Api][c] = "started" /\ At(Api, c, "none") /\ StepIs(Api, c, "failed")
        /\ UNCHANGED <<work, sent, answer>>
    BY <1>9 DEF RecordFails, history
  <2>2. RowInv' /\ \A x \in Calls \ {c}: OneCallInv(x)'
    BY <1>4, <2>1, OtherCalls
  <2>3. OneCallInv(c)'
    BY <1>2, <1>3, <1>4, <2>1 DEF OneCallInv
  <2>4. QED
    BY <2>2, <2>3 DEF CallInv
<1>10. CASE Send(Api, c)
  <2>1. /\ call[Api][c] = "recorded" /\ At(Api, c, "sent")
        /\ UNCHANGED rows /\ UNCHANGED <<work, answer>>
        /\ sent' = [sent EXCEPT ![c] = @ + 1]
    BY <1>10 DEF Send
  <2>2. RowInv' /\ \A x \in Calls \ {c}: OneCallInv(x)'
    BY <1>1, <1>4, <2>1, OtherCalls
  <2>3. sent'[c] = 1 /\ sent[c] = 0
    BY <1>1, <1>2, <2>1 DEF OneCallInv
  <2>4. OneCallInv(c)'
    BY <1>2, <1>3, <1>4, <2>1, <2>3 DEF OneCallInv, rows
  <2>5. QED
    BY <2>2, <2>4 DEF CallInv
<1>11. CASE Abort(Api, c)
  <2>1. /\ call[Api][c] = "recorded" /\ At(Api, c, "none") /\ StepIs(Api, c, "cancelled")
        /\ UNCHANGED <<work, sent, answer>>
    BY <1>11, NoNews DEF Abort, StepIs, history
  <2>2. /\ RowInv' /\ \A x \in Calls \ {c}: OneCallInv(x)'
        /\ store' = store /\ mem'[Api].asked = mem[Api].asked
        /\ mem'[Api].approval = mem[Api].approval
    BY <1>4, <2>1, OtherCalls
  <2>3. OneCallInv(c)'
    BY <1>2, <1>3, <1>4, <2>1, <1>5, <2>2 DEF OneCallInv
  <2>4. QED
    BY <2>2, <2>3 DEF CallInv
<1>12. CASE Finish(Api, c)
  <2>1. PICK result \in Results:
          /\ call[Api][c] = "sent" /\ At(Api, c, "none") /\ StepIs(Api, c, result)
          /\ answer' = [answer EXCEPT ![c] = result]
          /\ UNCHANGED <<work, sent>>
    BY <1>12 DEF Finish
  <2>2. /\ RowInv' /\ \A x \in Calls \ {c}: OneCallInv(x)'
        /\ store' = store /\ mem'[Api].asked = mem[Api].asked
        /\ mem'[Api].approval = mem[Api].approval
    BY <1>1, <1>4, <2>1, OtherCalls
  <2>3. answer'[c] = result /\ answer[c] = "none" /\ sent'[c] > 0
    BY <1>1, <1>2, <2>1 DEF OneCallInv
  <2>4. Gone(store, c, answer[c]) /\ Gone(mem[Api], c, answer[c])
    BY <1>2, <2>1 DEF OneCallInv
  <2>5. Gone(store', c, answer'[c])
    BY <2>2, <2>3, <2>4 DEF Gone, Results
  <2>6. Gone(mem'[Api], c, answer'[c])
    BY <1>5, <2>1, <2>2, <2>3, <2>4 DEF Gone
  <2>7. OneCallInv(c)'
    BY <1>2, <1>3, <1>4, <2>1, <2>3, <2>5, <2>6 DEF OneCallInv
  <2>8. QED
    BY <2>2, <2>7 DEF CallInv
<1>13. CASE GiveUp(Api, c)
  <2>1. /\ call[Api][c] \in {"started", "recorded", "sent"} /\ At(Api, c, "none")
        /\ UNCHANGED rows /\ UNCHANGED <<work, sent, answer>>
    BY <1>13 DEF GiveUp, history
  <2>2. RowInv' /\ \A x \in Calls \ {c}: OneCallInv(x)'
    BY <1>4, <2>1, OtherCalls
  <2>3. OneCallInv(c)'
    BY <1>2, <1>3, <1>4, <2>1 DEF OneCallInv, rows
  <2>4. QED
    BY <2>2, <2>3 DEF CallInv
<1>14. QED
  BY <1>6, <1>7, <1>8, <1>9, <1>10, <1>11, <1>12, <1>13 DEF CallStep


\* Changes of the calls alone do not occur outside the calls' own steps.
LEMMA StayInv ==
  ASSUME IInv, InProcess, UNCHANGED <<rows, call, sent, answer>>,
         work' = work \/ work' = [work EXCEPT ![Api] = NoSegment]
  PROVE  RowInv' /\ CallInv'
<1>1. work' = work \/ (work'[Api].token = 0 /\ work'[Api].todo = {})
  BY DEF IInv, TypeOK, InProcess, Executors, NoSegment
<1>2. RowInv'
  BY <1>1 DEF IInv, RowInv, Executing, rows
<1>3. ASSUME NEW c \in Calls PROVE OneCallInv(c)'
  BY <1>1 DEF IInv, CallInv, OneCallInv, rows
<1>4. QED
  BY <1>2, <1>3 DEF CallInv

\* The end of a segment.
LEMMA SegmentInv ==
  ASSUME IInv, InProcess, SegmentEnds(Api)
  PROVE  RowInv' /\ CallInv'
<1> USE Processes
<1>1. /\ mem[Api] \in Runs /\ mem[Api].lease = NoOwner /\ Settled(mem[Api])
      /\ Api \in Executors /\ work \in [Executors -> Segments]
  BY DEF IInv, TypeOK, RowInv, Behind, InProcess, Executors
<1>2. ASSUME NEW r \in Runs, EndSegment(Api, r),
             mem[Api].status = "running" => Moves(mem[Api], r)
      PROVE  RowInv' /\ CallInv'
  <2>1. /\ work' = [work EXCEPT ![Api] = NoSegment]
        /\ UNCHANGED <<call, sent, answer>>
        /\ UNCHANGED rows \/ (mem[Api].status = "running" /\ Change(Api, r))
    BY <1>2 DEF EndSegment, history
  <2>2. work'[Api].token = 0 /\ work'[Api].todo = {}
    BY <1>1, <2>1 DEF NoSegment
  <2>3. CASE UNCHANGED rows
    BY <2>1, <2>3, StayInv
  <2>4. CASE mem[Api].status = "running" /\ Change(Api, r)
    BY <1>2, <2>1, <2>2, <2>4, MoveInv DEF Executing
  <2>5. QED
    BY <2>1, <2>3, <2>4
<1>3. ASSUME NEW S \in SUBSET Calls, NEW question \in BOOLEAN, Ask(Api, S, question)
      PROVE  RowInv' /\ CallInv'
  <2> DEFINE r == [mem[Api] EXCEPT
            !.status = IF S # {} THEN "waiting_approval" ELSE "waiting_confirmation",
            !.saved = TRUE,
            !.asked = S,
            !.step = [c \in Calls |-> IF c \in S THEN "waiting" ELSE @[c]],
            !.approval = [c \in Calls |-> IF c \in S THEN "pending" ELSE @[c]],
            !.question = IF question THEN "pending" ELSE @]
  <2>1. r \in Runs
    BY <1>1 DEF Runs, Results
  <2>2. /\ EndSegment(Api, r)
        /\ \A c \in S: mem[Api].step[c] = "none" /\ mem[Api].approval[c] = "none"
    BY <1>3 DEF Ask
  <2>3. mem[Api].status = "running" => Moves(mem[Api], r)
    BY <1>1, <2>2, AskMoves
  <2> HIDE DEF r
  <2>4. QED
    BY <1>2, <2>1, <2>2, <2>3
<1>4. CASE Complete(Api)
  <2>1. [mem[Api] EXCEPT !.status = "completed"] \in Runs
    BY <1>1 DEF Runs
  <2>2. QED
    BY <1>1, <1>2, <1>4, <2>1, StatusMoves DEF Complete
<1>5. CASE Fail(Api)
  BY <1>1, <1>2, <1>5, RowTypes, EndMoves DEF Fail, Closed
<1>6. CASE Stop(Api)
  <2>1. /\ UNCHANGED rows
        /\ work' = [work EXCEPT ![Api] = NoSegment]
        /\ UNCHANGED <<call, sent, answer>>
    BY <1>6, NoNews DEF Stop, history
  <2>2. QED
    BY <2>1, StayInv
<1>7. QED
  BY <1>3, <1>4, <1>5, <1>6 DEF SegmentEnds


\* The operations of the API.
LEMMA OperateInv ==
  ASSUME IInv, InProcess, Operate
  PROVE  RowInv' /\ CallInv'
<1> USE Processes
<1>1. /\ mem[Api] \in Runs /\ mem[Api].lease = NoOwner /\ Settled(mem[Api])
      /\ mem[Api].exec.gen \in Nat
      /\ Executing(Api) => mem[Api].status = "running" \/ Closed(mem[Api])
  BY DEF IInv, TypeOK, RowInv, Behind, Runs, Owners
<1>2. ASSUME NEW r \in Runs, Change(Api, r), Moves(mem[Api], r), r.asked = mem[Api].asked,
             Executing(Api) => r.status = "running" \/ Closed(r),
             UNCHANGED <<work, call, sent, answer>>
      PROVE  RowInv' /\ CallInv'
  BY <1>2, MoveInv DEF Executing
<1>3. ASSUME NEW c \in Calls, NEW approved \in BOOLEAN, Decide(c, approved)
      PROVE  RowInv' /\ CallInv'
  <2> DEFINE r == mem[Api]
             after == IF Undecided(r) # {c} THEN r.status
                      ELSE IF r.question = "pending" THEN "waiting_confirmation"
                           ELSE "queued"
             closed == [r EXCEPT !.approval[c] = "cancelled"]
             decided == [r EXCEPT !.approval[c] = IF approved THEN "approved" ELSE "rejected",
                                  !.step[c] = IF approved THEN "pending" ELSE "cancelled",
                                  !.status = after]
  <2>1. r.approval[c] = "pending" /\ UNCHANGED <<work, call, sent, answer>>
    BY <1>3 DEF Decide, Decided, history
  <2>2. \/ Closed(r) /\ Change(Api, closed)
        \/ ~Closed(r) /\ Change(Api, decided)
    BY <1>3 DEF Decide, Decided
  <2>3. /\ closed \in Runs /\ decided \in Runs
        /\ closed.asked = r.asked /\ decided.asked = r.asked
        /\ closed.status = r.status /\ decided.status = after
    BY <1>1 DEF Runs
  <2>4. ~Closed(r) => ~Executing(Api)
    <3>1. c \in Undecided(r)
      BY <2>1 DEF Undecided
    <3>2. QED
      BY <1>1, <3>1 DEF Settled
  <2>5. /\ Closed(r) => Moves(r, closed)
        /\ ~Closed(r) => Moves(r, decided)
    <3>1. /\ after \in {r.status, "waiting_confirmation", "queued"}
          /\ after = "queued" => (Undecided(r) = {c} /\ r.question # "pending")
                                 \/ r.status = "queued"
      OBVIOUS
    <3>2. r.status # "queued"
      <4>1. c \in Undecided(r)
        BY <2>1 DEF Undecided
      <4>2. QED
        BY <1>1, <4>1 DEF Settled
    <3> HIDE DEF after
    <3>3. QED
      BY <1>1, <2>1, <3>1, <3>2, DecideMoves
  <2>6. Closed(closed) <=> Closed(r)
    BY <2>3 DEF Closed
  <2> HIDE DEF closed, decided, after
  <2>7. QED
    BY <1>1, <1>2, <2>1, <2>2, <2>3, <2>4, <2>5, <2>6 DEF Closed
<1>4. CASE Answer
  <2> DEFINE waits == mem[Api].status = "waiting_confirmation" /\ Undecided(mem[Api]) = {}
             s == IF waits THEN "queued" ELSE mem[Api].status
             r == [mem[Api] EXCEPT !.question = "answered", !.status = s]
  <2>1. Change(Api, r) /\ UNCHANGED <<work, call, sent, answer>>
    BY <1>4 DEF Answer, Decided, history
  <2>2. r \in Runs /\ r.asked = mem[Api].asked /\ r.status = s
    BY <1>1 DEF Runs
  <2>3. Moves(mem[Api], r)
    BY <1>1, StatusMoves
  <2>4. waits => ~Executing(Api)
    BY <1>1 DEF Closed
  <2>5. Executing(Api) => s = mem[Api].status
    BY <2>4
  <2> HIDE DEF r, s, waits
  <2>6. QED
    BY <1>1, <1>2, <2>1, <2>2, <2>3, <2>5 DEF Closed
<1>5. CASE Cancel
  <2>1. /\ Cancelled(mem[Api]) \in Runs /\ Closed(Cancelled(mem[Api]))
        /\ Cancelled(mem[Api]).asked = mem[Api].asked
    BY <1>1, RowTypes DEF Cancelled, Closed, Runs
  <2>2. ~Closed(mem[Api]) /\ Change(Api, Cancelled(mem[Api]))
        /\ UNCHANGED <<work, call, sent, answer>>
    BY <1>5 DEF Cancel, history
  <2>3. QED
    BY <1>1, <1>2, <2>1, <2>2, EndMoves
<1>6. CASE ResumeRequest
  BY <1>6, StayInv DEF ResumeRequest, history
<1>7. CASE Rename
  <2>1. Moves(mem[Api], mem[Api])
    BY <1>1 DEF Moves, Behind
  <2>2. QED
    BY <1>1, <1>2, <1>7, <2>1 DEF Rename, history
<1>8. QED
  BY <1>3, <1>4, <1>5, <1>6, <1>7 DEF Operate

\* A task begins the run.
LEMMA StartInv ==
  ASSUME IInv, InProcess, NEW kind \in Kinds, Start(kind)
  PROVE  RowInv' /\ CallInv'
<1> USE Processes
<1> DEFINE r == mem[Api]
           owner == [token |-> issued + 1, gen |-> Generation(r) + 1]
<1>1. /\ r \in Runs /\ r.lease = NoOwner /\ Settled(r) /\ issued \in Nat
      /\ Api \in Executors /\ work \in [Executors -> Segments]
  BY DEF IInv, TypeOK, RowInv, Behind, InProcess, Executors
<1>2. owner \in Owners /\ owner.gen >= r.exec.gen
  BY <1>1, RowTypes DEF Owners, Generation, Runs
<1>3. CASE UNCHANGED <<rows, work, issued>> /\ UNCHANGED <<call, sent, answer>>
  BY <1>3, StayInv
<1>4. CASE /\ r.status = "queued" /\ UNCHANGED <<call, sent, answer>>
           /\ \E new \in Executed(r, owner) \cup Resumed(r, owner):
                /\ IF new.row = r THEN UNCHANGED rows ELSE Change(Api, new.row)
                /\ work' = [work EXCEPT ![Api] = new.segment]
  <2>1. PICK new \in Executed(r, owner) \cup Resumed(r, owner):
             /\ IF new.row = r THEN UNCHANGED rows ELSE Change(Api, new.row)
             /\ work' = [work EXCEPT ![Api] = new.segment]
    BY <1>4
  <2>2. new.row \in Runs /\ new.segment \in Segments
    BY <1>1, <1>2, BeginTypes
  <2>3. /\ Moves(r, new.row)
        /\ \/ new.segment = NoSegment
           \/ new.row.status = "running" /\ new.segment.todo = {}
           \/ /\ new.row.status = "running" /\ new.row.asked = {}
              /\ new.segment.todo \subseteq r.asked
    BY <1>1, <1>2, <1>4, BeginMoves
  <2>4. work'[Api] = new.segment
    BY <1>1, <2>1
  <2>5. CASE new.row = r
    <3>1. new.segment = NoSegment
      BY <1>4, <2>3, <2>5
    <3>2. QED
      BY <1>4, <2>1, <2>5, <3>1, StayInv
  <2>6. CASE Change(Api, new.row)
    <3>1. Executing(Api)' => new.row.status = "running"
      BY <2>3, <2>4 DEF Executing, NoSegment
    <3>2. \/ work'[Api].todo = {}
          \/ work'[Api].todo \subseteq r.asked /\ new.row.asked = {}
      BY <2>3, <2>4 DEF NoSegment
    <3>3. QED
      BY <1>4, <2>2, <2>3, <2>6, <3>1, <3>2, MoveInv
  <2>7. QED
    BY <2>1, <2>5, <2>6
<1>5. QED
  BY <1>3, <1>4 DEF Start, history


\* Writing makes the storage what the memory is; a restart goes back to it.
LEMMA PersistInv ==
  ASSUME IInv, InProcess, Write(Api) \/ Sync(Api) \/ Crash(Api)
  PROVE  RowInv' /\ CallInv'
<1> USE Processes
<1>1. /\ store \in Runs /\ mem \in [Procs -> Runs] /\ mem[Api] \in Runs
      /\ dirty \in [Procs -> BOOLEAN]
      /\ Api \in Executors /\ Procs = {Api} /\ Executors = {Api}
      /\ work \in [Executors -> Segments] /\ call \in [Executors -> [Calls -> Phases]]
      /\ Behind(store, mem[Api]) /\ Settled(store) /\ Settled(mem[Api])
      /\ store.exec.gen \in Nat /\ mem[Api].exec.gen \in Nat
  BY DEF IInv, TypeOK, RowInv, InProcess, Procs, Executors, Runs, Owners
<1>2. CASE Write(Api)
  <2>1. /\ store' = mem[Api] /\ mem'[Api] = mem[Api] /\ work' = work
        /\ UNCHANGED <<sent, answer>>
        /\ \A c \in Calls: call'[Api][c] = IF call[Api][c] = "started" THEN "recorded"
                                           ELSE call[Api][c]
    BY <1>1, <1>2, NoNews DEF Write, history
  <2>2. RowInv'
    BY <1>1, <2>1 DEF IInv, RowInv, Behind, Executing
  <2>3. ASSUME NEW c \in Calls PROVE OneCallInv(c)'
    <3>1. OneCallInv(c)
      BY DEF IInv, CallInv
    <3>2. QED
      BY <2>1, <3>1 DEF OneCallInv
  <2>4. QED
    BY <2>2, <2>3 DEF CallInv
<1>3. CASE Sync(Api)
  <2>1. UNCHANGED <<rows, call, work, sent, answer>>
    BY <1>3 DEF Sync, IInv, RowInv
  <2>2. QED
    BY <2>1, StayInv
<1>4. CASE Crash(Api)
  <2>1. /\ work'[Api] = NoSegment /\ \A c \in Calls: call'[Api][c] = "none"
        /\ UNCHANGED <<sent, answer>>
    BY <1>1, <1>4 DEF Crash
  <2>2. /\ store' = store
        /\ \/ mem'[Api] = store
           \/ /\ mem'[Api] = Interrupted(store) /\ dirty'[Api] = TRUE
              /\ store.status \in {"queued", "running"}
    <3>1. \/ Change(Api, Interrupted(store)) /\ store.status \in {"queued", "running"}
          \/ /\ mem' = [mem EXCEPT ![Api] = store]
             /\ store' = store
      BY <1>4 DEF Crash
    <3>2. QED
      BY <1>1, <3>1 DEF Change
  <2>3. /\ Moves(store, mem'[Api])
        /\ mem'[Api] = store \/ dirty'[Api]
    <3>1. Moves(store, store)
      BY <1>1 DEF Moves, Behind
    <3>2. store.status \in {"queued", "running"} => Moves(store, Interrupted(store))
      BY <1>1, EndMoves DEF Behind, Closed
    <3>3. QED
      BY <2>2, <3>1, <3>2
  <2>4. RowInv'
    BY <1>1, <2>1, <2>2, <2>3 DEF RowInv, Moves, Executing, NoSegment
  <2>5. ASSUME NEW c \in Calls PROVE OneCallInv(c)'
    <3>1. OneCallInv(c) /\ answer[c] \in {"none"} \cup Results
      BY DEF IInv, CallInv, TypeOK
    <3>2. Gone(store, c, answer[c]) => Gone(mem'[Api], c, answer[c])
      BY <2>3, <3>1 DEF Moves
    <3>3. QED
      BY <2>1, <2>2, <3>1, <3>2 DEF OneCallInv, NoSegment
  <2>6. QED
    BY <2>4, <2>5 DEF CallInv
<1>5. QED
  BY <1>2, <1>3, <1>4

\* The invariant of the in_process mode is inductive.
LEMMA Inductive ==
  ASSUME IInv, InProcess, [Next]_vars
  PROVE  IInv'
<1>1. TypeOK'
  <2>1. CASE Next
    BY <2>1, RowsType, OthersType DEF IInv, TypeOK, RowsOK, OthersOK
  <2>2. CASE UNCHANGED vars
    BY <2>2 DEF IInv, TypeOK, vars
  <2>3. QED
    BY <2>1, <2>2
<1>2. Procs = {Api} /\ Executors = {Api}
  BY DEF InProcess, Procs, Executors
<1>3. ASSUME NEW c \in Calls, CallStep(Api, c) PROVE RowInv' /\ CallInv'
  BY <1>3, CallStepInv
<1>4. ASSUME Expire \/ ExpireHeld PROVE FALSE
  BY <1>4 DEF Expire, ExpireHeld, Expired, LeaseActive, IInv, RowInv, Behind, NoOwner
<1>5. ASSUME WriteFails PROVE RowInv' /\ CallInv'
  BY <1>5, StayInv DEF WriteFails, history
<1>6. ASSUME UNCHANGED vars PROVE RowInv' /\ CallInv'
  BY <1>6, StayInv DEF vars, rows
<1>7. RowInv' /\ CallInv'
  BY <1>2, <1>3, <1>4, <1>5, <1>6, SegmentInv, OperateInv, StartInv, PersistInv, ActionCases
     DEF InProcess
<1>8. QED
  BY <1>1, <1>7 DEF IInv

\* The run as it is created.
LEMMA InitInv ==
  ASSUME Init, InProcess
  PROVE  IInv
<1> USE Processes
<1>1. TypeOK /\ Api \in Executors
  BY InitType DEF InProcess, Executors
<1>2. store = NewRun /\ mem[Api] = NewRun /\ work[Api] = NoSegment
      /\ \A c \in Calls: call[Api][c] = "none" /\ sent[c] = 0 /\ answer[c] = "none"
  BY <1>1 DEF Init
<1>3. RowInv
  <2>1. NewRun.exec.gen = 0 /\ NewRun.lease = NoOwner /\ NewRun.status = "queued"
        /\ NewRun.question = "none" /\ \A c \in Calls: NewRun.approval[c] = "none"
    BY DEF NewRun, NoOwner
  <2>2. QED
    BY <1>2, <2>1 DEF RowInv, Behind, Settled, Undecided, Closed, Final, Executing, NoSegment
<1>4. CallInv
  BY <1>2 DEF CallInv, OneCallInv, NoSegment
<1>5. QED
  BY <1>1, <1>3, <1>4 DEF IInv


\* What the steps of an execution leave alone.
LEMMA CallFrame ==
  ASSUME NEW p \in Executors, NEW c \in Calls, CallStep(p, c)
  PROVE  store' = store /\ UNCHANGED scheduled /\ (Send(p, c) \/ sent' = sent)
<1>1. ASSUME NEW r, Change(p, r) \/ UNCHANGED rows PROVE store' = store
  BY <1>1 DEF Change, rows
<1>2. ASSUME TakeOver(p) PROVE store' = store
  BY <1>1, <1>2 DEF TakeOver
<1>3. CASE Check(p, c)
  BY <1>1, <1>2, <1>3 DEF Check, history
<1>4. CASE Skip(p, c) \/ StartCall(p, c)
  BY <1>1, <1>4 DEF Skip, StartCall, StepIs, history
<1>5. CASE RecordFails(p, c) \/ Abort(p, c)
  BY <1>1, <1>5 DEF RecordFails, Abort, StepIs, history
<1>6. CASE Finish(p, c)
  BY <1>1, <1>6 DEF Finish, StepIs
<1>7. CASE Send(p, c) \/ GiveUp(p, c)
  BY <1>7 DEF Send, GiveUp, rows, history
<1>8. QED
  BY <1>3, <1>4, <1>5, <1>6, <1>7 DEF CallStep

LEMMA SegmentFrame ==
  ASSUME NEW p \in Executors, SegmentEnds(p)
  PROVE  store' = store /\ UNCHANGED scheduled /\ sent' = sent /\ Executing(p)
<1>1. ASSUME NEW r, Change(p, r) \/ UNCHANGED rows PROVE store' = store
  BY <1>1 DEF Change, rows
<1>2. ASSUME NEW r, EndSegment(p, r) PROVE store' = store /\ UNCHANGED scheduled /\ sent' = sent
  BY <1>1, <1>2 DEF EndSegment, history
<1>3. ASSUME NEW S \in SUBSET Calls, NEW question \in BOOLEAN, Ask(p, S, question)
      PROVE  store' = store /\ UNCHANGED scheduled /\ sent' = sent /\ Executing(p)
  BY <1>2, <1>3 DEF Ask, CallsMade
<1>4. CASE Complete(p) \/ Fail(p)
  BY <1>2, <1>4 DEF Complete, Fail, CallsMade
<1>5. CASE Stop(p)
  BY <1>1, <1>5 DEF Stop, TakeOver, CallsMade, history
<1>6. QED
  BY <1>3, <1>4, <1>5 DEF SegmentEnds

LEMMA OperateFrame ==
  ASSUME Operate
  PROVE  store' = store /\ sent' = sent /\ (~InProcess => UNCHANGED scheduled)
<1>1. ASSUME NEW r, Decided(r)
      PROVE  store' = store /\ sent' = sent /\ (~InProcess => UNCHANGED scheduled)
  BY <1>1 DEF Decided, Change, history, scheduled
<1>2. ASSUME NEW c \in Calls, NEW approved \in BOOLEAN, Decide(c, approved)
      PROVE  store' = store /\ sent' = sent /\ (~InProcess => UNCHANGED scheduled)
  BY <1>1, <1>2 DEF Decide
<1>3. CASE Answer
  BY <1>1, <1>3 DEF Answer
<1>4. CASE Cancel \/ Rename
  BY <1>4 DEF Cancel, Rename, Change, history
<1>5. CASE ResumeRequest
  BY <1>5 DEF ResumeRequest, rows, history
<1>6. QED
  BY <1>2, <1>3, <1>4, <1>5 DEF Operate

\* The steps that change the storage, and those that send.
LEMMA StoreUnchanged ==
  ASSUME Next, ~\E d \in Dispatchers: Claim(d) \/ Begin(d), ~\E p \in Procs: Write(p)
  PROVE  store' = store
<1>1. ASSUME NEW p \in Executors, NEW c \in Calls, CallStep(p, c) PROVE store' = store
  BY <1>1, CallFrame
<1>2. ASSUME NEW p \in Executors, SegmentEnds(p) PROVE store' = store
  BY <1>2, SegmentFrame
<1>3. ASSUME Operate PROVE store' = store
  BY <1>3, OperateFrame
<1>4. ASSUME NEW d \in Dispatchers, BeginFails(d) PROVE store' = store
  BY <1>4 DEF BeginFails
<1>5. ASSUME NEW kind \in Kinds, Start(kind) PROVE store' = store
  BY <1>5 DEF Start, Change, rows
<1>6. ASSUME Expire \/ ExpireHeld \/ WriteFails PROVE store' = store
  BY <1>6 DEF Expire, ExpireHeld, Expired, WriteFails, rows
<1>7. ASSUME NEW p \in Procs, Sync(p) \/ Crash(p) PROVE store' = store
  BY <1>7 DEF Sync, Crash, Change
<1>8. QED
  BY <1>1, <1>2, <1>3, <1>4, <1>5, <1>6, <1>7, ActionCases

LEMMA SentUnchanged ==
  ASSUME Next, ~\E p \in Executors, c \in Calls: Send(p, c)
  PROVE  sent' = sent
<1>1. ASSUME NEW p \in Executors, NEW c \in Calls, CallStep(p, c) PROVE sent' = sent
  BY <1>1, CallFrame
<1>2. ASSUME NEW p \in Executors, SegmentEnds(p) PROVE sent' = sent
  BY <1>2, SegmentFrame
<1>3. ASSUME Operate PROVE sent' = sent
  BY <1>3, OperateFrame
<1>4. ASSUME NEW d \in Dispatchers, Claim(d) \/ Begin(d) \/ BeginFails(d)
      PROVE  sent' = sent
  BY <1>4 DEF Claim, Begin, BeginFails, history
<1>5. ASSUME NEW kind \in Kinds, Start(kind) PROVE sent' = sent
  BY <1>5 DEF Start, history
<1>6. ASSUME Expire \/ ExpireHeld \/ WriteFails PROVE sent' = sent
  BY <1>6 DEF Expire, ExpireHeld, Expired, WriteFails, history
<1>7. ASSUME NEW p \in Procs, Write(p) \/ Sync(p) \/ Crash(p) PROVE sent' = sent
  BY <1>7 DEF Write, Sync, Crash, history
<1>8. QED
  BY <1>1, <1>2, <1>3, <1>4, <1>5, <1>6, <1>7, ActionCases

\* The storage changes by writes only, and then it catches up with the memory;
\* a call goes out when its approval is in the storage, for the first time.
LEMMA StoreSteps ==
  ASSUME IInv, InProcess, [Next]_vars
  PROVE  /\ Behind(store, store')
         /\ \/ sent' = sent
            \/ \E c \in Calls: /\ store.approval[c] = "approved" /\ sent[c] = 0
                               /\ sent' = [sent EXCEPT ![c] = 1]
                               /\ store' = store
<1>1. Procs = {Api} /\ Executors = {Api} /\ Dispatchers = {}
  BY DEF InProcess, Procs, Executors
<1>2. Behind(store, mem[Api]) /\ Behind(store, store)
  BY DEF IInv, TypeOK, RowInv, Behind, Runs, Owners
<1>3. store' = store \/ store' = mem[Api]
  <2>1. ASSUME Write(Api) PROVE store' = mem[Api]
    BY <2>1, NoNews DEF Write
  <2>2. QED
    BY <1>1, <2>1, StoreUnchanged DEF vars
<1>4. sent' = sent \/ \E c \in Calls: Send(Api, c)
  BY <1>1, SentUnchanged DEF vars
<1>5. ASSUME NEW c \in Calls, Send(Api, c)
      PROVE  /\ store.approval[c] = "approved" /\ sent[c] = 0
             /\ sent' = [sent EXCEPT ![c] = 1] /\ store' = store
  <2>1. OneCallInv(c) /\ sent \in [Calls -> Nat]
    BY DEF IInv, CallInv, TypeOK
  <2>2. QED
    BY <1>5, <2>1 DEF Send, OneCallInv, Gone, rows
<1>6. QED
  BY <1>2, <1>3, <1>4, <1>5

\* The inductive invariant holds throughout, in the in_process mode.
THEOREM InvariantHolds ==
  ASSUME InProcess
  PROVE  Spec => []IInv
<1>1. Init => IInv
  BY InitInv
<1>2. IInv /\ [Next]_vars => IInv'
  BY Inductive
<1>3. QED
  BY <1>1, <1>2, PTL DEF Spec

\* A stored outcome is never replaced by another in the in_process mode; the
\* property says nothing of the other one.
THEOREM OutcomesStand == Spec => OutcomeStands
<1>1. CASE InProcess
  <2>1. IInv /\ [Next]_vars =>
          [InProcess /\ Closed(store) => store'.status = store.status]_vars
    BY <1>1, StoreSteps DEF Behind
  <2>2. QED
    BY <1>1, <2>1, InvariantHolds, PTL DEF Spec, OutcomeStands
<1>2. CASE ~InProcess
  <2>1. [InProcess /\ Closed(store) => store'.status = store.status]_vars
    BY <1>2
  <2>2. QED
    BY <2>1, PTL DEF OutcomeStands
<1>3. QED
  BY <1>1, <1>2


-------------------------------------------------------------------------------
(* The dispatcher mode without other writes of the API (~Renames).  At most   *)
(* one dispatcher is active, and what the API may still write is a decision   *)
(* on the waiting run or a cancellation.  The API's copy leads the storage,   *)
(* or trails it and can only cancel, or is over.                              *)

\* A run that waits for the user; a run that waits for nobody.
Waits(r) == r.status \in {"waiting_approval", "waiting_confirmation"}
Quiet(r) == Undecided(r) = {} /\ r.question # "pending"

\* A dispatcher that executes the run, or has not written the end yet.
Active(d) == Executing(d) \/ dirty[d]

\* The rows s and r have the same decisions; r may have cancelled more.
Agree(s, r) ==
    \A c \in Calls: /\ Final(s.approval[c]) => r.approval[c] = s.approval[c]
                    /\ r.approval[c] = "approved" => s.approval[c] = "approved"

SameDecisions(s, r) ==
    \A c \in Calls: Final(s.approval[c]) \/ Final(r.approval[c]) =>
                    r.approval[c] = s.approval[c]

\* The call c of run r is approved and begun, and no open run comes back to it.
Stands(r, c, result) ==
    /\ r.approval[c] = "approved"
    /\ r.step[c] \in {"running", "unknown", "cancelled"} \cup (Results \cap {result})
    /\ Closed(r) \/ c \notin r.asked

\* The same in a copy that may be older than the call.
Older(r, c, result) ==
    /\ r.approval[c] = "approved"
    /\ r.step[c] \in {"pending", "running", "unknown", "cancelled"} \cup (Results \cap {result})
    /\ r.status = "cancelled" => r.step[c] # "pending"

\* The approved calls of the saved state are still to be made.
Ready(r) == \A c \in r.asked: r.approval[c] = "approved" => r.step[c] = "pending"

Records(r) == \A c \in Calls: sent[c] > 0 => Stands(r, c, answer[c])

StoreInv ==
    /\ Waits(store) \/ Quiet(store)
    /\ Waits(store) \/ store.status = "running" => store.lease = NoOwner
    /\ store.status = "queued" /\ store.lease.token # 0 =>
         store.lease.gen >= store.exec.gen
    /\ Waits(store) \/ store.status = "queued" => Ready(store)
    /\ Records(store)

\* A call that is to be made or has been made.
ToMake(d, c) == c \in work[d].todo \/ call[d][c] \in {"started", "recorded"}
Begun(c) ==
    \/ sent[c] > 0
    \/ \E d \in Dispatchers: ToMake(d, c)
    \/ store.status = "queued" /\ c \in store.asked /\ store.approval[c] = "approved"

\* The API decides on the waiting run, nobody else can change it,
Leads ==
    /\ Waits(store)
    /\ dirty[Api] \/ mem[Api] = store
    /\ Waits(mem[Api]) \/ Quiet(mem[Api])
    /\ \A c \in Calls: Final(store.approval[c]) => mem[Api].approval[c] = store.approval[c]
    /\ mem[Api].lease = NoOwner /\ mem[Api].exec = store.exec
    /\ Closed(mem[Api]) \/ Ready(mem[Api])
    /\ Records(mem[Api])

\* or it has an older copy, and can only cancel the run,
Trails ==
    /\ Quiet(mem[Api])
    /\ SameDecisions(store, mem[Api])
    /\ store.status # "cancelled"
    /\ dirty[Api] => mem[Api].status = "cancelled"
    /\ \A c \in Calls: Begun(c) => Older(mem[Api], c, answer[c])

\* or it has nothing to say any more.
Over == Closed(store) /\ Closed(mem[Api]) /\ Quiet(mem[Api]) /\ ~dirty[Api]

ApiInv == Leads \/ Trails \/ Over

ActiveInv == \A d \in Dispatchers:
    Active(d) =>
      /\ held[d] = NoClaim
      /\ \A q \in Dispatchers: Active(q) => q = d
      /\ store.status \in {"running", "cancelled"}
      /\ Agree(store, mem[d])
      /\ Records(mem[d])
      /\ Waits(mem[d]) \/ Quiet(mem[d])
      /\ Waits(mem[d]) => Ready(mem[d])
      /\ mem[d].status # "queued"
      /\ Executing(d) => mem[d].status \in {"running", "cancelled"}
      /\ store.status = "running" =>
           /\ mem[d].exec = store.exec /\ mem[d].lease = NoOwner
           /\ mem[d].status # "cancelled" /\ SameDecisions(store, mem[d])
           /\ dirty[d] \/ mem[d] = store

OneCall(d, c) ==
    /\ call[d][c] # "none" => Executing(d)
    /\ call[d][c] \in {"started", "recorded", "sent"} => c \notin work[d].todo
    /\ ToMake(d, c) =>
         /\ Executing(d) /\ sent[c] = 0
         /\ Older(store, c, answer[c]) /\ Older(mem[d], c, answer[c])
         /\ Closed(mem[d]) \/ c \notin mem[d].asked
    /\ call[d][c] = "started" => Stands(mem[d], c, answer[c])
    /\ call[d][c] = "recorded" => Stands(store, c, answer[c]) /\ Stands(mem[d], c, answer[c])
    /\ call[d][c] = "sent" => sent[c] > 0 /\ answer[c] = "none"
    /\ sent[c] = 0 => answer[c] = "none"
CallsInv == \A d \in Dispatchers, c \in Calls: OneCall(d, c)

IsDispatched == ~InProcess /\ ~Renames

\* The tasks of the in_process mode are not used.
NoTasks == tasks = {} /\ due = {}

DInv == TypeOK /\ StoreInv /\ ApiInv /\ ActiveInv /\ CallsInv /\ NoTasks

\* The row n goes on from r: no call that is made or may be made is forgotten.
Keeps(r, n) ==
    \A c \in Calls, result \in {"none"} \cup Results:
      /\ Stands(r, c, result) => Stands(n, c, result)
      /\ Older(r, c, result) => Older(n, c, result)

\* A cancelled row makes nothing again.
LEMMA CancelledRow ==
  ASSUME NEW r \in Runs, NEW n, n = Cancelled(r)
  PROVE  /\ n \in Runs /\ n.status = "cancelled" /\ Closed(n) /\ Quiet(n) /\ ~Waits(n)
         /\ n.lease = r.lease /\ n.exec = r.exec /\ n.asked = r.asked
         /\ \A c \in Calls: n.approval[c] = IF r.approval[c] = "pending" THEN "cancelled"
                                            ELSE r.approval[c]
         /\ \A c \in Calls, result \in {"none"} \cup Results:
              Older(r, c, result) \/ Stands(r, c, result) =>
                Older(n, c, result) /\ Stands(n, c, result)
         /\ Keeps(r, n)
<1>0. n \in Runs
  BY RowTypes
<1>1. /\ n.status = "cancelled"
      /\ n.lease = r.lease /\ n.exec = r.exec /\ n.asked = r.asked
      /\ n.question = IF r.question = "pending" THEN "cancelled" ELSE r.question
      /\ \A c \in Calls:
           /\ n.approval[c] = IF r.approval[c] = "pending" THEN "cancelled"
                              ELSE r.approval[c]
           /\ n.step[c] = IF r.step[c] \in {"waiting", "pending", "running"}
                          THEN "cancelled" ELSE r.step[c]
  BY DEF Cancelled, Runs
<1>2. Closed(n) /\ Quiet(n) /\ ~Waits(n)
  BY <1>1 DEF Closed, Quiet, Undecided, Waits
<1>3. \A c \in Calls, result \in {"none"} \cup Results:
        Older(r, c, result) \/ Stands(r, c, result) =>
          Older(n, c, result) /\ Stands(n, c, result)
  BY <1>1, <1>2 DEF Older, Stands, Results
<1>4. QED
  BY <1>0, <1>1, <1>2, <1>3 DEF Keeps

\* A row that is as it was but for its status, its owners and the saved state.
LEMMA SameCalls ==
  ASSUME NEW r \in Runs, NEW n \in Runs, ~Closed(r), n.status # "cancelled",
         n.approval = r.approval, n.step = r.step, n.asked \subseteq r.asked
  PROVE  Keeps(r, n) /\ SameDecisions(r, n)
<1>1. ASSUME NEW c \in Calls, NEW result \in {"none"} \cup Results
      PROVE  /\ Stands(r, c, result) => Stands(n, c, result)
             /\ Older(r, c, result) => Older(n, c, result)
  BY DEF Stands, Older
<1>2. QED
  BY <1>1 DEF Keeps, SameDecisions

\* A failed row, and the row of an execution.
LEMMA BegunRows ==
  ASSUME NEW r \in Runs, ~Closed(r), Quiet(r), NEW o \in Owners,
         NEW n \in {Failed(r), Running(r, o), Running(Dropped(r), o)}
  PROVE  /\ n \in Runs /\ Keeps(r, n) /\ SameDecisions(r, n) /\ Quiet(n) /\ ~Waits(n)
         /\ n.status \in {"failed", "running"}
         /\ n = Failed(r) => n.status = "failed" /\ n.lease = r.lease /\ n.exec = r.exec
         /\ n # Failed(r) => n.status = "running" /\ n.lease = NoOwner /\ n.exec = o
         /\ n = Running(Dropped(r), o) => n.asked = {}
<1>1. CASE n = Failed(r)
  <2>0. n \in Runs
    BY <1>1, RowTypes
  <2>1. /\ n.status = "failed" /\ n.lease = r.lease /\ n.exec = r.exec
        /\ n.approval = r.approval /\ n.step = r.step /\ n.asked = {}
        /\ n.question = r.question
    BY <1>1 DEF Failed, Dropped, Runs
  <2>2. Keeps(r, n) /\ SameDecisions(r, n)
    BY <2>0, <2>1, SameCalls
  <2>3. Quiet(n) /\ ~Waits(n)
    BY <2>1 DEF Quiet, Undecided, Waits
  <2>4. n # Running(Dropped(r), o)
    <3>1. Dropped(r) \in Runs
      BY RowTypes
    <3>2. Running(Dropped(r), o).status = "running"
      BY <3>1 DEF Running, Runs
    <3>3. QED
      BY <2>1, <3>2
  <2>5. QED
    BY <1>1, <2>0, <2>1, <2>2, <2>3, <2>4
<1>2. ASSUME NEW x \in {r, Dropped(r)}, n = Running(x, o)
      PROVE  /\ n \in Runs /\ n.status = "running" /\ n.lease = NoOwner /\ n.exec = o
             /\ Keeps(r, n) /\ SameDecisions(r, n) /\ Quiet(n) /\ ~Waits(n)
             /\ x = Dropped(r) => n.asked = {}
  <2>1. x \in Runs
    BY RowTypes
  <2>2. /\ x.approval = r.approval /\ x.step = r.step /\ x.asked \subseteq r.asked
        /\ x.question = r.question
        /\ x = Dropped(r) => x.asked = {}
    BY DEF Dropped, Runs
  <2>0. n \in Runs
    BY <1>2, <2>1, RowTypes
  <2>3. /\ n.status = "running" /\ n.lease = NoOwner /\ n.exec = o
        /\ n.approval = x.approval /\ n.step = x.step /\ n.asked = x.asked
        /\ n.question = x.question
    BY <1>2, <2>1 DEF Running, Runs
  <2>4. Keeps(r, n) /\ SameDecisions(r, n)
    BY <2>0, <2>2, <2>3, SameCalls
  <2>5. Quiet(n) /\ ~Waits(n)
    <3>1. n.approval = r.approval /\ n.question = r.question
      BY <2>2, <2>3
    <3>2. QED
      BY <2>3, <3>1 DEF Quiet, Undecided, Waits
  <2>6. x = Dropped(r) => n.asked = {}
    BY <2>2, <2>3
  <2>7. QED
    BY <2>0, <2>3, <2>4, <2>5, <2>6
<1>3. CASE n = Running(r, o) \/ n = Running(Dropped(r), o)
  <2>1. PICK x \in {r, Dropped(r)}: n = Running(x, o)
    BY <1>3
  <2>2. n.status = "running" /\ n # Failed(r)
    <3>1. Failed(r).status = "failed"
      BY DEF Failed, Dropped, Runs
    <3>2. QED
      BY <1>2, <2>1, <3>1
  <2>3. n = Running(Dropped(r), o) => n.asked = {}
    BY <1>2
  <2>4. QED
    BY <1>2, <2>1, <2>2, <2>3
<1>4. QED
  BY <1>1, <1>3


\* The types of the dispatcher mode.
LEMMA DTypes ==
  ASSUME TypeOK, ~InProcess
  PROVE  /\ Executors = Dispatchers /\ Procs = {Api} \cup Dispatchers
         /\ Api \notin Dispatchers
         /\ store \in Runs /\ mem \in [Procs -> Runs] /\ dirty \in [Procs -> BOOLEAN]
         /\ held \in [Dispatchers -> Claims]
         /\ work \in [Dispatchers -> Segments]
         /\ call \in [Dispatchers -> [Calls -> Phases]]
         /\ sent \in [Calls -> Nat]
         /\ answer \in [Calls -> {"none"} \cup Results]
  BY AgentAssumption DEF TypeOK, Executors, Procs

\* A dispatcher that is not active has no calls.
LEMMA NoCalls ==
  ASSUME CallsInv, NEW d \in Dispatchers, ~Active(d)
  PROVE  /\ work[d].token = 0
         /\ \A c \in Calls: call[d][c] = "none" /\ c \notin work[d].todo /\ ~ToMake(d, c)
  BY DEF CallsInv, OneCall, Active, ToMake, Executing

\* The other dispatchers are not active.
LEMMA Alone ==
  ASSUME DInv, NEW d \in Dispatchers, Active(d), NEW q \in Dispatchers, q # d
  PROVE  ~Active(q) /\ \A c \in Calls: ~ToMake(q, c)
<1>1. ~Active(q)
  BY DEF DInv, ActiveInv
<1>2. QED
  BY <1>1, NoCalls DEF DInv

\* Nobody is active, unless the run is running or has been cancelled.
LEMMA NobodyActive ==
  ASSUME DInv, store.status \notin {"running", "cancelled"}, NEW d \in Dispatchers
  PROVE  ~Active(d) /\ \A c \in Calls: ~ToMake(d, c)
<1>1. ~Active(d)
  BY DEF DInv, ActiveInv
<1>2. QED
  BY <1>1, NoCalls DEF DInv

\* The API's copy where the API has an older row.
LEMMA FewerBegun ==
  ASSUME Trails, UNCHANGED <<store, answer>>,
         mem'[Api] = mem[Api], dirty'[Api] = dirty[Api],
         \A c \in Calls: Begun(c)' => Begun(c)
  PROVE  Trails'
  BY DEF Trails, SameDecisions, Older, Quiet, Undecided

\* A dispatcher that is not active afterwards has changed nothing that counts.
LEMMA InactiveStep ==
  ASSUME DInv, ~InProcess, NEW d \in Dispatchers, UNCHANGED <<store, sent, answer>>,
         \A q \in Procs \ {d}: mem'[q] = mem[q] /\ dirty'[q] = dirty[q],
         \A q \in Dispatchers \ {d}:
           work'[q] = work[q] /\ call'[q] = call[q] /\ held'[q] = held[q],
         ~dirty'[d], work'[d].token = 0, work'[d].todo = {},
         \A c \in Calls: call'[d][c] = "none"
  PROVE  StoreInv' /\ ApiInv' /\ ActiveInv' /\ CallsInv'
<1>1. Api \in Procs /\ Api # d /\ \A q \in Dispatchers: q \in Procs
  BY DTypes DEF DInv
<1>2. ~Active(d)' /\ \A c \in Calls: ~ToMake(d, c)'
  BY DEF Active, Executing, ToMake
<1>3. \A q \in Dispatchers \ {d}:
        /\ Active(q)' = Active(q) /\ Executing(q)' = Executing(q)
        /\ \A c \in Calls: ToMake(q, c)' = ToMake(q, c)
  BY <1>1 DEF Active, Executing, ToMake
<1>4. StoreInv'
  BY DEF DInv, StoreInv, Waits, Quiet, Undecided, Ready, Records, Stands, Closed
<1>5. ApiInv'
  <2>1. CASE Leads
    BY <1>1, <2>1 DEF ApiInv, Leads, Waits, Quiet, Undecided, Ready, Records, Stands, Closed
  <2>2. CASE Trails
    <3>1. \A c \in Calls: Begun(c)' => Begun(c)
      BY <1>2, <1>3 DEF Begun
    <3>2. QED
      BY <1>1, <2>2, <3>1, FewerBegun DEF ApiInv
  <2>3. CASE Over
    BY <1>1, <2>3 DEF ApiInv, Over, Quiet, Undecided, Closed
  <2>4. QED
    BY <2>1, <2>2, <2>3 DEF DInv, ApiInv
<1>6. ActiveInv'
  <2> SUFFICES ASSUME NEW q \in Dispatchers \ {d}, Active(q)
      PROVE  /\ held'[q] = NoClaim
             /\ \A x \in Dispatchers: Active(x)' => x = q
             /\ store.status \in {"running", "cancelled"}
             /\ Agree(store, mem'[q])
             /\ \A c \in Calls: sent[c] > 0 => Stands(mem'[q], c, answer[c])
             /\ Waits(mem'[q]) \/ Quiet(mem'[q])
             /\ Waits(mem'[q]) => Ready(mem'[q])
             /\ mem'[q].status # "queued"
             /\ Executing(q) => mem'[q].status \in {"running", "cancelled"}
             /\ store.status = "running" =>
                  /\ mem'[q].exec = store.exec /\ mem'[q].lease = NoOwner
                  /\ mem'[q].status # "cancelled" /\ SameDecisions(store, mem'[q])
                  /\ dirty'[q] \/ mem'[q] = store
    BY <1>2, <1>3 DEF ActiveInv, Records, Agree, SameDecisions, Stands, Waits, Quiet, Undecided,
       Ready, Closed
  <2>1. mem'[q] = mem[q] /\ dirty'[q] = dirty[q] /\ held'[q] = held[q]
    BY <1>1
  <2>2. \A x \in Dispatchers: Active(x)' => x = q
    BY <1>2, <1>3 DEF DInv, ActiveInv
  <2>3. QED
    BY <2>1, <2>2 DEF DInv, ActiveInv, Records
<1>7. CallsInv'
  <2> SUFFICES ASSUME NEW q \in Dispatchers, NEW c \in Calls PROVE OneCall(q, c)'
    BY DEF CallsInv
  <2>1. OneCall(q, c)
    BY DEF DInv, CallsInv
  <2>2. CASE q = d
    BY <1>2, <2>1, <2>2 DEF OneCall
  <2>3. CASE q # d
    <3>1. mem'[q] = mem[q] /\ work'[q] = work[q] /\ call'[q] = call[q]
      BY <1>1, <2>3
    <3>2. QED
      BY <1>3, <2>1, <2>3, <3>1 DEF OneCall, Older, Stands, Closed
  <2>4. QED
    BY <2>2, <2>3
<1>8. QED
  BY <1>4, <1>5, <1>6, <1>7


\* A change of the API's copy touches nothing else.
LEMMA ApiStep ==
  ASSUME DInv, ~InProcess, UNCHANGED <<store, held, work, call, sent, answer>>,
         \A d \in Dispatchers: mem'[d] = mem[d] /\ dirty'[d] = dirty[d]
  PROVE  /\ StoreInv' /\ ActiveInv' /\ CallsInv'
         /\ \A c \in Calls: Begun(c)' <=> Begun(c)
<1>1. \A d \in Dispatchers:
        /\ Active(d)' = Active(d) /\ Executing(d)' = Executing(d)
        /\ \A c \in Calls: ToMake(d, c)' = ToMake(d, c)
  BY DEF Active, Executing, ToMake
<1>2. StoreInv'
  BY DEF DInv, StoreInv, Waits, Quiet, Undecided, Ready, Records, Stands, Closed
<1>3. ActiveInv'
  <2> SUFFICES ASSUME NEW q \in Dispatchers, Active(q)
      PROVE  /\ held[q] = NoClaim
             /\ \A x \in Dispatchers: Active(x)' => x = q
             /\ store.status \in {"running", "cancelled"}
             /\ Agree(store, mem'[q])
             /\ \A c \in Calls: sent[c] > 0 => Stands(mem'[q], c, answer[c])
             /\ Waits(mem'[q]) \/ Quiet(mem'[q])
             /\ Waits(mem'[q]) => Ready(mem'[q])
             /\ mem'[q].status # "queued"
             /\ Executing(q) => mem'[q].status \in {"running", "cancelled"}
             /\ store.status = "running" =>
                  /\ mem'[q].exec = store.exec /\ mem'[q].lease = NoOwner
                  /\ mem'[q].status # "cancelled" /\ SameDecisions(store, mem'[q])
                  /\ dirty'[q] \/ mem'[q] = store
    BY <1>1 DEF ActiveInv, Records, Agree, SameDecisions, Stands, Waits, Quiet, Undecided,
       Ready, Closed
  <2>1. \A x \in Dispatchers: Active(x)' => x = q
    BY <1>1 DEF DInv, ActiveInv
  <2>2. QED
    BY <2>1 DEF DInv, ActiveInv, Records
<1>4. CallsInv'
  BY <1>1 DEF DInv, CallsInv, OneCall, Older, Stands, Closed
<1>5. \A c \in Calls: Begun(c)' <=> Begun(c)
  BY <1>1 DEF Begun
<1>6. QED
  BY <1>2, <1>3, <1>4, <1>5

\* The begun calls in the storage.
LEMMA StoredCalls ==
  ASSUME DInv, NEW c \in Calls, Begun(c), ~Waits(store)
  PROVE  Older(store, c, answer[c])
<1>1. CASE sent[c] > 0
  BY <1>1 DEF DInv, StoreInv, Records, Stands, Older, Results
<1>2. CASE \E d \in Dispatchers: ToMake(d, c)
  BY <1>2 DEF DInv, CallsInv, OneCall
<1>3. CASE store.status = "queued" /\ c \in store.asked /\ store.approval[c] = "approved"
  BY <1>3 DEF DInv, StoreInv, Ready, Older
<1>4. QED
  BY <1>1, <1>2, <1>3 DEF Begun

\* The API takes over the row of the storage.
LEMMA ApiReads ==
  ASSUME DInv, ~InProcess, UNCHANGED <<store, held, work, call, sent, answer>>,
         \A d \in Dispatchers: mem'[d] = mem[d] /\ dirty'[d] = dirty[d],
         mem'[Api] = store, ~dirty'[Api]
  PROVE  StoreInv' /\ ApiInv' /\ ActiveInv' /\ CallsInv'
<1>1. /\ StoreInv' /\ ActiveInv' /\ CallsInv'
      /\ \A c \in Calls: Begun(c)' <=> Begun(c)
  BY ApiStep
<1>2. CASE Waits(store)
  <2>1. Leads'
    BY <1>2 DEF DInv, StoreInv, Leads, Waits, Quiet, Undecided, Ready, Records, Stands, Closed
  <2>2. QED
    BY <1>1, <2>1 DEF ApiInv
<1>3. CASE ~Waits(store) /\ store.status # "cancelled"
  <2>1. Quiet(store) /\ \A c \in Calls: Begun(c) => Older(store, c, answer[c])
    BY <1>3, StoredCalls DEF DInv, StoreInv
  <2>2. Trails'
    BY <1>1, <1>3, <2>1 DEF Trails, SameDecisions, Older, Quiet, Undecided
  <2>3. QED
    BY <1>1, <2>2 DEF ApiInv
<1>4. CASE store.status = "cancelled"
  <2>1. Over'
    BY <1>4 DEF DInv, StoreInv, Over, Waits, Quiet, Undecided, Closed
  <2>2. QED
    BY <1>1, <2>1 DEF ApiInv
<1>5. QED
  BY <1>2, <1>3, <1>4

\* What a process may write over the row s.
Succeeds(s, n) ==
    /\ Closed(s) => Closed(n)
    /\ \A c \in Calls:
         /\ Final(s.approval[c]) => n.approval[c] = s.approval[c]
         /\ Closed(s) /\ n.approval[c] = "approved" => s.approval[c] = "approved"
    /\ ~Closed(n) => Generation(n) >= Generation(s)

\* The parts of a change.
LEMMA Changes ==
  ASSUME TypeOK, ~InProcess, NEW p \in Procs, NEW n, Change(p, n)
  PROVE  /\ store' = store /\ mem'[p] = n /\ dirty'[p]
         /\ \A q \in Procs \ {p}: mem'[q] = mem[q] /\ dirty'[q] = dirty[q]
<1>1. mem \in [Procs -> Runs] /\ dirty \in [Procs -> BOOLEAN]
  BY DEF TypeOK
<1>2. /\ store' = store /\ mem' = [mem EXCEPT ![p] = n]
      /\ dirty' = [dirty EXCEPT ![p] = TRUE]
  BY DEF Change
<1>3. QED
  BY <1>1, <1>2

\* The API cancels the run.
LEMMA CancelDInv ==
  ASSUME DInv, ~InProcess, Cancel
  PROVE  StoreInv' /\ ApiInv' /\ ActiveInv' /\ CallsInv'
<1> DEFINE n == Cancelled(mem[Api])
<1>1. /\ TypeOK /\ Api \in Procs /\ mem[Api] \in Runs
      /\ \A d \in Dispatchers: d \in Procs /\ d # Api
      /\ answer \in [Calls -> {"none"} \cup Results]
  BY DTypes DEF DInv
<1>2. /\ ~Closed(mem[Api]) /\ Change(Api, n)
      /\ UNCHANGED <<held, work, call, sent, answer>>
  BY DEF Cancel, history
<1>3. /\ store' = store /\ mem'[Api] = n /\ dirty'[Api]
      /\ \A d \in Dispatchers: mem'[d] = mem[d] /\ dirty'[d] = dirty[d]
  BY <1>1, <1>2, Changes
<1>4. /\ StoreInv' /\ ActiveInv' /\ CallsInv'
      /\ \A c \in Calls: Begun(c)' <=> Begun(c)
  BY <1>2, <1>3, ApiStep
<1>5. /\ n.status = "cancelled" /\ Closed(n) /\ Quiet(n)
      /\ n.lease = mem[Api].lease /\ n.exec = mem[Api].exec
      /\ \A c \in Calls: n.approval[c] = IF mem[Api].approval[c] = "pending" THEN "cancelled"
                                         ELSE mem[Api].approval[c]
      /\ \A c \in Calls, result \in {"none"} \cup Results:
           Older(mem[Api], c, result) \/ Stands(mem[Api], c, result) =>
             Older(n, c, result) /\ Stands(n, c, result)
  BY <1>1, CancelledRow
<1> HIDE DEF n
<1>6. CASE Leads
  <2>1. \A c \in Calls: sent[c] > 0 => Stands(n, c, answer[c])
    BY <1>1, <1>5, <1>6 DEF Leads, Records
  <2>2. \A c \in Calls: Final(store.approval[c]) => n.approval[c] = store.approval[c]
    BY <1>5, <1>6 DEF Leads, Final
  <2>3. Leads'
    BY <1>2, <1>3, <1>5, <1>6, <2>1, <2>2
       DEF Leads, Waits, Quiet, Undecided, Records, Stands, Closed
  <2>4. QED
    BY <1>4, <2>3 DEF ApiInv
<1>7. CASE Trails
  <2>1. \A c \in Calls: n.approval[c] = mem[Api].approval[c]
    BY <1>5, <1>7 DEF Trails, Quiet, Undecided
  <2>2. \A c \in Calls: Begun(c) => Older(n, c, answer[c])
    BY <1>1, <1>5, <1>7 DEF Trails
  <2>3. Trails'
    BY <1>2, <1>3, <1>4, <1>5, <1>7, <2>1, <2>2
       DEF Trails, SameDecisions, Older, Quiet, Undecided
  <2>4. QED
    BY <1>4, <2>3 DEF ApiInv
<1>8. ~Over
  BY <1>2 DEF Over
<1>9. QED
  BY <1>6, <1>7, <1>8 DEF DInv, ApiInv


\* The API changes the row on which it decides.
LEMMA LeadsChange ==
  ASSUME DInv, ~InProcess, Leads, NEW n, Change(Api, n),
         UNCHANGED <<held, work, call, sent, answer>>,
         Waits(n) \/ Quiet(n), Closed(n) \/ Ready(n),
         n.lease = mem[Api].lease, n.exec = mem[Api].exec,
         \A c \in Calls: /\ Final(mem[Api].approval[c]) => n.approval[c] = mem[Api].approval[c]
                         /\ sent[c] > 0 => Stands(n, c, answer[c])
  PROVE  StoreInv' /\ ApiInv' /\ ActiveInv' /\ CallsInv'
<1>1. TypeOK /\ Api \in Procs /\ \A d \in Dispatchers: d \in Procs /\ d # Api
  BY DTypes DEF DInv
<1>2. /\ store' = store /\ mem'[Api] = n /\ dirty'[Api]
      /\ \A d \in Dispatchers: mem'[d] = mem[d] /\ dirty'[d] = dirty[d]
  BY <1>1, Changes
<1>3. StoreInv' /\ ActiveInv' /\ CallsInv'
  BY <1>2, ApiStep
<1>4. \A c \in Calls: Final(store.approval[c]) => n.approval[c] = store.approval[c]
  BY DEF Leads
<1>5. Leads'
  BY <1>2, <1>4 DEF Leads, Waits, Quiet, Undecided, Ready, Records, Stands, Closed
<1>6. QED
  BY <1>3, <1>5 DEF ApiInv

\* A copy with something to decide leads the storage.
LEMMA OpenLeads ==
  ASSUME DInv, ~Quiet(mem[Api])
  PROVE  Leads /\ Waits(mem[Api]) /\ ~Closed(mem[Api])
  BY DEF DInv, ApiInv, Leads, Trails, Over, Waits, Closed

\* The user decides on a call.
LEMMA DecideDInv ==
  ASSUME DInv, ~InProcess, NEW c \in Calls, NEW approved \in BOOLEAN, Decide(c, approved)
  PROVE  StoreInv' /\ ApiInv' /\ ActiveInv' /\ CallsInv'
<1> DEFINE r == mem[Api]
           after == IF Undecided(r) # {c} THEN r.status
                    ELSE IF r.question = "pending" THEN "waiting_confirmation"
                         ELSE "queued"
           n == [r EXCEPT !.approval[c] = IF approved THEN "approved" ELSE "rejected",
                          !.step[c] = IF approved THEN "pending" ELSE "cancelled",
                          !.status = after]
<1>1. r \in Runs
  BY DTypes DEF DInv
<1>2. /\ r.approval[c] = "pending" /\ UNCHANGED <<held, work, call, sent, answer>>
      /\ ~Closed(r) => Change(Api, n)
  BY DEF Decide, Decided, history
<1>3. Leads /\ Waits(r) /\ ~Closed(r)
  <2>1. c \in Undecided(r)
    BY <1>2 DEF Undecided
  <2>2. ~Quiet(mem[Api])
    BY <2>1 DEF Quiet
  <2>3. QED
    BY <2>2, OpenLeads
<1>4. /\ n.status = after /\ n.lease = r.lease /\ n.exec = r.exec
      /\ n.asked = r.asked /\ n.question = r.question
      /\ n.approval[c] \in {"approved", "rejected"}
      /\ n.approval[c] = "approved" => n.step[c] = "pending"
      /\ \A x \in Calls \ {c}: n.approval[x] = r.approval[x] /\ n.step[x] = r.step[x]
  BY <1>1 DEF Runs
<1>5. Waits(n) \/ Quiet(n)
  <2>1. after = "queued" \/ Waits(n)
    BY <1>3, <1>4 DEF Waits
  <2>2. after = "queued" => Undecided(r) = {c} /\ r.question # "pending"
    BY <1>3 DEF Waits
  <2>3. after = "queued" => Quiet(n)
    BY <1>4, <2>2 DEF Quiet, Undecided
  <2>4. QED
    BY <2>1, <2>3
<1> HIDE DEF n, after
<1>6. Ready(n)
  <2>1. Ready(r) /\ r.asked \subseteq Calls
    BY <1>1, <1>3 DEF Leads, Runs
  <2>2. QED
    BY <1>4, <2>1 DEF Ready
<1>7. ASSUME NEW x \in Calls
      PROVE  /\ Final(r.approval[x]) => n.approval[x] = r.approval[x]
             /\ sent[x] > 0 => Stands(n, x, answer[x])
  <2>1. x = c => ~Final(r.approval[x]) /\ ~Stands(r, x, answer[x])
    BY <1>2 DEF Final, Stands
  <2>2. sent[x] > 0 => Stands(r, x, answer[x])
    BY <1>3 DEF Leads, Records
  <2>3. QED
    BY <1>3, <1>4, <2>1, <2>2 DEF Stands
<1>8. QED
  BY <1>2, <1>3, <1>4, <1>5, <1>6, <1>7, LeadsChange

\* The user answers the question.
LEMMA AnswerDInv ==
  ASSUME DInv, ~InProcess, Answer
  PROVE  StoreInv' /\ ApiInv' /\ ActiveInv' /\ CallsInv'
<1> DEFINE r == mem[Api]
           waits == r.status = "waiting_confirmation" /\ Undecided(r) = {}
           s == IF waits THEN "queued" ELSE r.status
           n == [r EXCEPT !.question = "answered", !.status = s]
<1>1. r \in Runs
  BY DTypes DEF DInv
<1>2. /\ r.question = "pending" /\ UNCHANGED <<held, work, call, sent, answer>>
      /\ Change(Api, n)
  BY DEF Answer, Decided, history
<1>3. Leads /\ Waits(r) /\ ~Closed(r)
  BY <1>2, OpenLeads DEF Quiet
<1>4. /\ n.status = s /\ n.lease = r.lease /\ n.exec = r.exec
      /\ n.asked = r.asked /\ n.question = "answered"
      /\ n.approval = r.approval /\ n.step = r.step
  BY <1>1 DEF Runs
<1>5. Waits(n) \/ Quiet(n)
  BY <1>3, <1>4 DEF Waits, Quiet, Undecided
<1> HIDE DEF n, s, waits
<1>6. Ready(n)
  BY <1>3, <1>4 DEF Leads, Ready
<1>7. ASSUME NEW x \in Calls
      PROVE  /\ Final(r.approval[x]) => n.approval[x] = r.approval[x]
             /\ sent[x] > 0 => Stands(n, x, answer[x])
  BY <1>3, <1>4 DEF Leads, Records, Stands
<1>8. QED
  BY <1>2, <1>3, <1>4, <1>5, <1>6, <1>7, LeadsChange

\* The operations of the API.
LEMMA OperateDInv ==
  ASSUME DInv, IsDispatched, Operate
  PROVE  StoreInv' /\ ApiInv' /\ ActiveInv' /\ CallsInv'
<1>1. ~ResumeRequest /\ ~Rename
  BY DEF IsDispatched, ResumeRequest, Rename
<1>2. QED
  BY <1>1, DecideDInv, AnswerDInv, CancelDInv DEF Operate, IsDispatched


-------------------------------------------------------------------------------
(* The execution of a dispatcher *)

\* The active dispatcher changes its row, or leaves it.
LEMMA ActiveStep ==
  ASSUME DInv, ~InProcess, NEW d \in Dispatchers, Active(d), NEW n \in Runs,
         Change(d, n) \/ (UNCHANGED rows /\ n = mem[d]),
         UNCHANGED held,
         \A q \in Dispatchers \ {d}: work'[q] = work[q] /\ call'[q] = call[q],
         Executing(d)' => Executing(d) /\ n.status \in {"running", "cancelled"},
         Waits(n) \/ Quiet(n), Waits(n) => Ready(n), n.status # "queued",
         Agree(store, n),
         store.status = "running" =>
           /\ n.exec = store.exec /\ n.lease = NoOwner /\ n.status # "cancelled"
           /\ SameDecisions(store, n),
         \A c \in Calls:
           /\ sent'[c] > 0 => Stands(store, c, answer'[c]) /\ Stands(n, c, answer'[c])
           /\ Begun(c)' => Begun(c)
           /\ answer'[c] = answer[c] \/ answer[c] = "none"
  PROVE  StoreInv' /\ ApiInv' /\ ActiveInv'
<1>1. /\ TypeOK /\ d \in Procs /\ Api \in Procs /\ Api # d
      /\ \A q \in Dispatchers: q \in Procs /\ q # Api
  BY DTypes DEF DInv
<1>2. /\ store' = store /\ mem'[d] = n
      /\ dirty'[d] \/ (dirty'[d] = dirty[d] /\ n = mem[d])
      /\ \A q \in Procs \ {d}: mem'[q] = mem[q] /\ dirty'[q] = dirty[q]
  BY <1>1, Changes DEF rows
<1>3. store.status \in {"running", "cancelled"} /\ ~Waits(store)
  BY DEF DInv, ActiveInv, Waits
<1>4. StoreInv'
  BY <1>2 DEF DInv, StoreInv, Waits, Quiet, Undecided, Ready, Records, Stands, Closed
<1>5. ApiInv'
  <2>1. mem'[Api] = mem[Api] /\ dirty'[Api] = dirty[Api]
    BY <1>1, <1>2
  <2>2. CASE Trails
    <3>1. ASSUME NEW c \in Calls, Begun(c)' PROVE Older(mem[Api], c, answer'[c])
      <4>1. Older(mem[Api], c, answer[c])
        BY <2>2, <3>1 DEF Trails
      <4>2. QED
        BY <4>1 DEF Older, Results
    <3>2. QED
      BY <1>2, <2>1, <2>2, <3>1 DEF ApiInv, Trails, SameDecisions, Older, Quiet, Undecided
  <2>3. CASE Over
    BY <1>2, <2>1, <2>3 DEF ApiInv, Over, Quiet, Undecided, Closed
  <2>4. QED
    BY <1>3, <2>2, <2>3 DEF DInv, ApiInv, Leads
<1>6. ActiveInv'
  <2>1. \A q \in Dispatchers: Active(q)' => q = d
    <3>1. ASSUME NEW q \in Dispatchers, q # d PROVE ~Active(q)'
      <4>1. ~Active(q)
        BY <3>1, Alone
      <4>2. QED
        BY <1>1, <1>2, <3>1, <4>1 DEF Active, Executing
    <3>2. QED
      BY <3>1
  <2>2. store.status = "running" => dirty'[d] \/ n = store
    BY <1>2 DEF DInv, ActiveInv
  <2>3. held[d] = NoClaim
    BY DEF DInv, ActiveInv
  <2>4. QED
    BY <1>2, <1>3, <2>1, <2>2, <2>3
       DEF ActiveInv, Records, Agree, SameDecisions, Stands, Waits, Quiet, Undecided, Ready,
           Closed
<1>7. QED
  BY <1>4, <1>5, <1>6

\* The end of a segment leaves no calls.
LEMMA SegmentDone ==
  ASSUME DInv, ~InProcess, NEW d \in Dispatchers, Executing(d), NEW n \in Runs,
         Change(d, n) \/ (UNCHANGED rows /\ n = mem[d]),
         Idle(d), work' = [work EXCEPT ![d] = NoSegment],
         UNCHANGED <<held, call, sent, answer>>,
         Waits(n) \/ Quiet(n), Waits(n) => Ready(n), n.status # "queued",
         Agree(store, n),
         store.status = "running" =>
           /\ n.exec = store.exec /\ n.lease = NoOwner /\ n.status # "cancelled"
           /\ SameDecisions(store, n),
         \A c \in Calls: sent[c] > 0 => Stands(n, c, answer[c])
  PROVE  StoreInv' /\ ApiInv' /\ ActiveInv' /\ CallsInv'
<1>1. /\ work \in [Dispatchers -> Segments] /\ Active(d) /\ d \in Procs
      /\ \A q \in Dispatchers: q \in Procs
      /\ TypeOK
  BY DTypes DEF DInv, Active
<1>2. /\ work'[d].token = 0 /\ work'[d].todo = {}
      /\ \A q \in Dispatchers \ {d}: work'[q] = work[q]
  BY <1>1 DEF NoSegment
<1>3. ~Executing(d)' /\ \A c \in Calls: ~ToMake(d, c)'
  BY <1>2 DEF Executing, ToMake, Idle
<1>4. store' = store /\ \A q \in Dispatchers \ {d}: mem'[q] = mem[q]
  BY <1>1, Changes DEF rows
<1>5. ASSUME NEW q \in Dispatchers, q # d
      PROVE  /\ Executing(q)' = Executing(q)
             /\ \A c \in Calls: ToMake(q, c)' = ToMake(q, c) /\ ~ToMake(q, c)
             /\ ~Active(q)
  BY <1>1, <1>2, <1>5, Alone DEF Executing, ToMake
<1>6. \A c \in Calls: Begun(c)' => Begun(c)
  BY <1>3, <1>4, <1>5 DEF Begun
<1>7. StoreInv' /\ ApiInv' /\ ActiveInv'
  <2>1. \A c \in Calls: sent[c] > 0 => Stands(store, c, answer[c])
    BY DEF DInv, StoreInv, Records
  <2>2. QED
    BY <1>1, <1>2, <1>3, <1>6, <2>1, ActiveStep
<1>8. CallsInv'
  <2> SUFFICES ASSUME NEW q \in Dispatchers, NEW c \in Calls PROVE OneCall(q, c)'
    BY DEF CallsInv
  <2>1. OneCall(q, c)
    BY DEF DInv, CallsInv
  <2>2. CASE q = d
    BY <1>3, <2>1, <2>2 DEF OneCall, Idle
  <2>3. CASE q # d
    <3>1. ~ToMake(q, c)' /\ call'[q][c] = "none"
      BY <1>5, <2>3, NoCalls DEF DInv
    <3>2. QED
      BY <2>1, <3>1 DEF OneCall
  <2>4. QED
    BY <2>2, <2>3
<1>9. QED
  BY <1>7, <1>8


\* The row of an active dispatcher may stay as it is, or be cancelled.
LEMMA ActiveRow ==
  ASSUME DInv, ~InProcess, NEW d \in Dispatchers, Active(d)
  PROVE  /\ mem[d] \in Runs
         /\ Waits(mem[d]) \/ Quiet(mem[d])
         /\ Waits(mem[d]) => Ready(mem[d])
         /\ mem[d].status # "queued" /\ Agree(store, mem[d])
         /\ Executing(d) => mem[d].status \in {"running", "cancelled"}
         /\ store.status \in {"running", "cancelled"}
         /\ store.status = "running" =>
              /\ mem[d].exec = store.exec /\ mem[d].lease = NoOwner
              /\ mem[d].status # "cancelled" /\ SameDecisions(store, mem[d])
         /\ \A c \in Calls: sent[c] > 0 => Stands(mem[d], c, answer[c])
  BY DTypes DEF DInv, ActiveInv, Records

LEMMA CancelledActive ==
  ASSUME DInv, ~InProcess, NEW d \in Dispatchers, Active(d), store.status = "cancelled",
         NEW n, n = Cancelled(mem[d])
  PROVE  /\ n \in Runs /\ n.status = "cancelled" /\ Closed(n) /\ Quiet(n) /\ ~Waits(n)
         /\ n.asked = mem[d].asked
         /\ Agree(store, n) /\ Keeps(mem[d], n)
         /\ \A c \in Calls: sent[c] > 0 => Stands(n, c, answer[c])
<1>1. mem[d] \in Runs /\ answer \in [Calls -> {"none"} \cup Results]
  BY DTypes, ActiveRow DEF DInv
<1>2. /\ n \in Runs /\ n.status = "cancelled" /\ Closed(n) /\ Quiet(n) /\ ~Waits(n)
      /\ n.asked = mem[d].asked /\ Keeps(mem[d], n)
      /\ \A c \in Calls: n.approval[c] = IF mem[d].approval[c] = "pending" THEN "cancelled"
                                         ELSE mem[d].approval[c]
  BY <1>1, CancelledRow
<1>3. Agree(store, n)
  BY <1>2, ActiveRow DEF Agree, Final
<1>4. \A c \in Calls: sent[c] > 0 => Stands(n, c, answer[c])
  BY <1>1, <1>2, ActiveRow DEF Keeps
<1>5. QED
  BY <1>2, <1>3, <1>4

\* What a dispatcher asks the user.
Asked(r, S, question) ==
    [r EXCEPT
        !.status = IF S # {} THEN "waiting_approval" ELSE "waiting_confirmation",
        !.saved = TRUE,
        !.asked = S,
        !.step = [c \in Calls |-> IF c \in S THEN "waiting" ELSE @[c]],
        !.approval = [c \in Calls |-> IF c \in S THEN "pending" ELSE @[c]],
        !.question = IF question THEN "pending" ELSE @]

AskFields(r, S, n) ==
    /\ n.status \in {"waiting_approval", "waiting_confirmation"}
    /\ n.lease = r.lease /\ n.exec = r.exec /\ n.asked = S
    /\ \A c \in Calls:
         /\ n.approval[c] = IF c \in S THEN "pending" ELSE r.approval[c]
         /\ n.step[c] = IF c \in S THEN "waiting" ELSE r.step[c]

LEMMA AskedRow ==
  ASSUME NEW r \in Runs, NEW S \in SUBSET Calls, NEW question \in BOOLEAN
  PROVE  Asked(r, S, question) \in Runs /\ AskFields(r, S, Asked(r, S, question))
<1> DEFINE n == Asked(r, S, question)
<1>1. n \in Runs
  <2> DEFINE status == IF S # {} THEN "waiting_approval" ELSE "waiting_confirmation"
             step == [c \in Calls |-> IF c \in S THEN "waiting" ELSE r.step[c]]
             approval == [c \in Calls |-> IF c \in S THEN "pending" ELSE r.approval[c]]
             asks == IF question THEN "pending" ELSE r.question
             m == [r EXCEPT !.status = status, !.saved = TRUE, !.asked = S,
                            !.step = step, !.approval = approval, !.question = asks]
  <2>1. /\ status \in {"waiting_approval", "waiting_confirmation"}
        /\ asks \in {"none", "pending", "answered", "cancelled"}
    BY DEF Runs
  <2>2. step \in [Calls -> {"none", "waiting", "pending", "running", "cancelled"}
                          \cup Results]
    BY DEF Runs
  <2>3. approval \in [Calls -> {"none", "pending", "approved", "rejected", "cancelled"}]
    BY DEF Runs
  <2>4. n = m
    BY DEF Asked
  <2> HIDE DEF status, step, approval, asks, n
  <2>5. m \in Runs
    BY <2>1, <2>2, <2>3 DEF Runs
  <2>6. QED
    BY <2>4, <2>5
<1>2. AskFields(r, S, n)
  BY DEF Runs, AskFields, Asked
<1>3. QED
  BY <1>1, <1>2

LEMMA AskRow ==
  ASSUME NEW r \in Runs, ~Closed(r), NEW S \in SUBSET Calls, NEW n \in Runs,
         AskFields(r, S, n),
         \A c \in S: r.step[c] = "none" /\ r.approval[c] = "none"
  PROVE  /\ Waits(n) /\ Ready(n) /\ n.status \notin {"queued", "cancelled"}
         /\ n.lease = r.lease /\ n.exec = r.exec /\ SameDecisions(r, n)
         /\ \A c \in Calls, result \in {"none"} \cup Results:
              Stands(r, c, result) => Stands(n, c, result)
<1>1. Ready(n) /\ Waits(n) /\ SameDecisions(r, n)
  BY DEF AskFields, Ready, Waits, SameDecisions, Final
<1>2. \A c \in Calls, result \in {"none"} \cup Results:
        Stands(r, c, result) => Stands(n, c, result)
  BY DEF AskFields, Stands
<1>3. QED
  BY <1>1, <1>2 DEF AskFields

\* The end of a segment.
LEMMA SegmentDInv ==
  ASSUME DInv, ~InProcess, NEW d \in Dispatchers, Executing(d), SegmentEnds(d)
  PROVE  StoreInv' /\ ApiInv' /\ ActiveInv' /\ CallsInv'
<1>1. Active(d) /\ mem[d] \in Runs /\ NoOwner \in Owners
  BY ActiveRow DEF Active, NoOwner, Owners
<1>0. mem[d] \in Runs
  BY <1>1
<1>2. ASSUME NEW n \in Runs, Idle(d), EndSegment(d, n),
             mem[d].status = "running" =>
               /\ Waits(n) \/ Quiet(n)
               /\ Waits(n) => Ready(n)
               /\ n.status \notin {"queued", "cancelled"}
               /\ n.exec = mem[d].exec /\ n.lease = mem[d].lease
               /\ SameDecisions(mem[d], n)
               /\ \A c \in Calls, result \in {"none"} \cup Results:
                    Stands(mem[d], c, result) => Stands(n, c, result)
      PROVE  StoreInv' /\ ApiInv' /\ ActiveInv' /\ CallsInv'
  <2>1. /\ work' = [work EXCEPT ![d] = NoSegment]
        /\ UNCHANGED <<held, call, sent, answer>>
        /\ UNCHANGED rows \/ (mem[d].status = "running" /\ Change(d, n))
    BY <1>2 DEF EndSegment, history
  <2>2. CASE UNCHANGED rows
    BY <1>1, <1>2, <2>1, <2>2, ActiveRow, SegmentDone
  <2>3. CASE mem[d].status = "running" /\ Change(d, n)
    <3>1. Agree(store, n) /\ (store.status = "running" => SameDecisions(store, n))
      <4>1. /\ Agree(store, mem[d]) /\ SameDecisions(mem[d], n)
            /\ store.status = "running" => SameDecisions(store, mem[d])
        BY <1>1, <1>2, <2>3, ActiveRow
      <4>2. Agree(store, n)
        BY <4>1 DEF Agree, SameDecisions, Final
      <4>3. store.status = "running" => SameDecisions(store, n)
        BY <4>1 DEF SameDecisions
      <4>4. QED
        BY <4>2, <4>3
    <3>2. \A c \in Calls: sent[c] > 0 => Stands(n, c, answer[c])
      BY <1>1, <1>2, <2>3, ActiveRow, DTypes DEF DInv
    <3>3. QED
      BY <1>1, <1>2, <2>1, <2>3, <3>1, <3>2, ActiveRow, SegmentDone
  <2>4. QED
    BY <2>1, <2>2, <2>3
<1>3. mem[d].status = "running" => Quiet(mem[d]) /\ ~Closed(mem[d])
  BY <1>1, ActiveRow DEF Waits, Closed
<1>4. ASSUME NEW S \in SUBSET Calls, NEW question \in BOOLEAN, Ask(d, S, question)
      PROVE  StoreInv' /\ ApiInv' /\ ActiveInv' /\ CallsInv'
  <2> DEFINE n == Asked(mem[d], S, question)
  <2>1. /\ EndSegment(d, n) /\ Idle(d)
        /\ \A c \in S: mem[d].step[c] = "none" /\ mem[d].approval[c] = "none"
    BY <1>4 DEF Ask, Asked, CallsMade
  <2>2. n \in Runs /\ AskFields(mem[d], S, n)
    BY <1>0, AskedRow
  <2>3. mem[d].status = "running" =>
          /\ Waits(n) /\ Ready(n) /\ n.status \notin {"queued", "cancelled"}
          /\ n.lease = mem[d].lease /\ n.exec = mem[d].exec /\ SameDecisions(mem[d], n)
          /\ \A c \in Calls, result \in {"none"} \cup Results:
              Stands(mem[d], c, result) => Stands(n, c, result)
    <3> HIDE DEF n
    <3>1. QED
      BY <1>0, <1>3, <2>1, <2>2, AskRow
  <2> HIDE DEF n
  <2>4. QED
    BY <1>2, <2>1, <2>2, <2>3
<1>5. CASE Complete(d)
  <2> DEFINE n == [mem[d] EXCEPT !.status = "completed"]
  <2>1. /\ n \in Runs /\ n.status = "completed" /\ n.lease = mem[d].lease
        /\ n.exec = mem[d].exec /\ n.approval = mem[d].approval /\ n.step = mem[d].step
        /\ n.asked = mem[d].asked /\ n.question = mem[d].question
    BY <1>1 DEF Runs
  <2>2. EndSegment(d, n) /\ Idle(d)
    BY <1>5 DEF Complete, CallsMade
  <2>3. mem[d].status = "running" =>
          /\ Quiet(n) /\ ~Waits(n) /\ SameDecisions(mem[d], n)
          /\ \A c \in Calls, result \in {"none"} \cup Results:
              Stands(mem[d], c, result) => Stands(n, c, result)
    BY <1>3, <2>1 DEF Quiet, Undecided, Waits, SameDecisions, Stands, Closed
  <2> HIDE DEF n
  <2>4. QED
    BY <1>2, <2>1, <2>2, <2>3
<1>6. CASE Fail(d)
  <2> DEFINE n == Failed(mem[d])
  <2>1. n \in Runs /\ EndSegment(d, n) /\ Idle(d)
    BY <1>1, <1>6, RowTypes DEF Fail
  <2>2. mem[d].status = "running" =>
          /\ Keeps(mem[d], n) /\ SameDecisions(mem[d], n) /\ Quiet(n) /\ ~Waits(n)
          /\ n.status = "failed" /\ n.lease = mem[d].lease /\ n.exec = mem[d].exec
    BY <1>1, <1>3, BegunRows
  <2> HIDE DEF n
  <2>3. QED
    BY <1>2, <2>1, <2>2 DEF Keeps
<1>7. CASE Stop(d)
  <2>1. /\ work' = [work EXCEPT ![d] = NoSegment] /\ Idle(d)
        /\ UNCHANGED <<held, call, sent, answer>>
        /\ \/ UNCHANGED rows
           \/ store.status = "cancelled" /\ Change(d, Cancelled(mem[d]))
    BY <1>7 DEF Stop, CallsMade, TakeOver, history
  <2>2. CASE UNCHANGED rows
    BY <1>1, <2>1, <2>2, ActiveRow, SegmentDone
  <2>3. CASE store.status = "cancelled" /\ Change(d, Cancelled(mem[d]))
    <3> DEFINE n == Cancelled(mem[d])
    <3>1. /\ n \in Runs /\ n.status = "cancelled" /\ Quiet(n) /\ ~Waits(n) /\ Agree(store, n)
          /\ \A c \in Calls: sent[c] > 0 => Stands(n, c, answer[c])
      BY <1>1, <2>3, CancelledActive
    <3>2. Change(d, n)
      BY <2>3
    <3> HIDE DEF n
    <3>3. QED
      BY <2>1, <2>3, <3>1, <3>2, SegmentDone
  <2>4. QED
    BY <2>1, <2>2, <2>3
<1>8. QED
  BY <1>4, <1>5, <1>6, <1>7 DEF SegmentEnds


\* The row n may follow that of dispatcher d in a step of its call c.
GoesOn(d, n, c) ==
    /\ n \in Runs
    /\ n.status \in {"running", "cancelled"} /\ Quiet(n) /\ Agree(store, n)
    /\ store.status = "running" =>
         /\ n.exec = store.exec /\ n.lease = NoOwner /\ n.status # "cancelled"
         /\ SameDecisions(store, n)
    /\ Closed(mem[d]) => Closed(n)
    /\ n.asked = mem[d].asked
    /\ mem[d].approval[c] = "approved" => n.approval[c] = "approved"
    /\ \A x \in Calls \ {c}, result \in {"none"} \cup Results:
         /\ Stands(mem[d], x, result) => Stands(n, x, result)
         /\ Older(mem[d], x, result) => Older(n, x, result)

LEMMA SameGoesOn ==
  ASSUME DInv, ~InProcess, NEW d \in Dispatchers, Executing(d), NEW c \in Calls
  PROVE  GoesOn(d, mem[d], c)
<1>1. Active(d)
  BY DEF Active
<1>2. Quiet(mem[d])
  BY <1>1, ActiveRow DEF Waits
<1>3. QED
  BY <1>1, <1>2, ActiveRow DEF GoesOn

LEMMA CancelledGoesOn ==
  ASSUME DInv, ~InProcess, NEW d \in Dispatchers, Executing(d), NEW c \in Calls,
         store.status = "cancelled"
  PROVE  GoesOn(d, Cancelled(mem[d]), c)
<1> DEFINE n == Cancelled(mem[d])
<1>1. Active(d)
  BY DEF Active
<1>2. /\ n \in Runs /\ n.status = "cancelled" /\ Closed(n) /\ Quiet(n)
      /\ n.asked = mem[d].asked
      /\ Agree(store, n) /\ Keeps(mem[d], n)
  BY <1>1, CancelledActive
<1>3. mem[d].approval[c] = "approved" => n.approval[c] = "approved"
  BY <1>1, ActiveRow, CancelledRow
<1> HIDE DEF n
<1>4. GoesOn(d, n, c)
  BY <1>2, <1>3 DEF GoesOn, Keeps
<1>5. QED
  BY <1>4 DEF n

LEMMA StepGoesOn ==
  ASSUME NEW d \in Dispatchers, NEW c \in Calls, NEW n, GoesOn(d, n, c),
         NEW s \in {"running", "cancelled"} \cup Results,
         NEW m, m = [n EXCEPT !.step[c] = s]
  PROVE  GoesOn(d, m, c) /\ m.step[c] = s
<1>1. n \in Runs
  BY DEF GoesOn
<1>2. [n EXCEPT !.step[c] = s] \in Runs
  BY <1>1 DEF Runs
<1>3. /\ m.status = n.status /\ m.lease = n.lease /\ m.exec = n.exec /\ m.asked = n.asked
      /\ m.approval = n.approval /\ m.question = n.question /\ m.step[c] = s
      /\ \A x \in Calls \ {c}: m.step[x] = n.step[x]
  BY <1>1 DEF Runs
<1>4. \A x \in Calls \ {c}, result \in {"none"} \cup Results:
        /\ Stands(n, x, result) => Stands(m, x, result)
        /\ Older(n, x, result) => Older(m, x, result)
  BY <1>3 DEF Stands, Older, Closed
<1>5. Quiet(m) /\ Agree(store, m) /\ (SameDecisions(store, n) => SameDecisions(store, m))
      /\ (Closed(n) => Closed(m))
  BY <1>3 DEF GoesOn, Quiet, Undecided, Agree, SameDecisions, Closed
<1>6. QED
  BY <1>2, <1>3, <1>4, <1>5 DEF GoesOn

\* A step of the call c leaves the other calls alone.
LEMMA OtherCallsD ==
  ASSUME DInv, ~InProcess, NEW d \in Dispatchers, Executing(d), NEW c \in Calls,
         NEW n, GoesOn(d, n, c),
         Change(d, n) \/ (UNCHANGED rows /\ n = mem[d]),
         UNCHANGED held,
         work' = work \/ Dequeue(d, c),
         call' = call \/ \E phase \in Phases: At(d, c, phase),
         \A x \in Calls \ {c}: sent'[x] = sent[x] /\ answer'[x] = answer[x],
         sent'[c] > 0 => Stands(store, c, answer'[c]) /\ Stands(n, c, answer'[c]),
         sent'[c] > 0 \/ ToMake(d, c)' => sent[c] > 0 \/ ToMake(d, c),
         answer'[c] = answer[c] \/ answer[c] = "none",
         sent'[c] = 0 => answer'[c] = "none"
  PROVE  /\ StoreInv' /\ ApiInv' /\ ActiveInv'
         /\ \A q \in Dispatchers, x \in Calls: q # d \/ x # c => OneCall(q, x)'
         /\ store' = store /\ mem'[d] = n /\ Executing(d)'
         /\ c \in work'[d].todo => c \in work[d].todo
         /\ Dequeue(d, c) => c \notin work'[d].todo
<1>1. /\ TypeOK /\ Active(d) /\ d \in Procs /\ n \in Runs
      /\ \A q \in Dispatchers: q \in Procs
      /\ work \in [Dispatchers -> Segments]
      /\ call \in [Dispatchers -> [Calls -> Phases]]
      /\ answer \in [Calls -> {"none"} \cup Results]
  BY DTypes DEF DInv, Active, GoesOn
<1>2. /\ store' = store /\ mem'[d] = n
      /\ \A q \in Procs \ {d}: mem'[q] = mem[q] /\ dirty'[q] = dirty[q]
  BY <1>1, Changes DEF rows
<1>3. /\ work'[d].token = work[d].token
      /\ \A x \in Calls \ {c}: x \in work'[d].todo <=> x \in work[d].todo
      /\ c \in work'[d].todo => c \in work[d].todo
      /\ Dequeue(d, c) => c \notin work'[d].todo
      /\ \A q \in Dispatchers \ {d}: work'[q] = work[q]
  BY <1>1 DEF Dequeue, Segments
<1>4. /\ \A x \in Calls \ {c}: call'[d][x] = call[d][x]
      /\ \A q \in Dispatchers \ {d}: call'[q] = call[q]
  BY <1>1 DEF At
<1>5. ASSUME NEW q \in Dispatchers, q # d
      PROVE  /\ ~Active(q) /\ ~Executing(q)'
             /\ \A x \in Calls: call'[q][x] = "none" /\ ~ToMake(q, x)' /\ ~ToMake(q, x)
  <2>1. ~Active(q) /\ \A x \in Calls: call[q][x] = "none" /\ ~ToMake(q, x)
    BY <1>1, <1>5, Alone, NoCalls DEF DInv
  <2>2. QED
    BY <1>3, <1>4, <1>5, <2>1 DEF Active, Executing, ToMake
<1>6. \A x \in Calls \ {c}: ToMake(d, x)' <=> ToMake(d, x)
  BY <1>3, <1>4 DEF ToMake
<1>7. Executing(d)'
  BY <1>3 DEF Executing
<1>8. ASSUME NEW x \in Calls
      PROVE  /\ sent'[x] > 0 => Stands(store, x, answer'[x]) /\ Stands(n, x, answer'[x])
             /\ Begun(x)' => Begun(x)
             /\ answer'[x] = answer[x] \/ answer[x] = "none"
  <2>1. x # c /\ sent[x] > 0 => Stands(store, x, answer[x]) /\ Stands(n, x, answer[x])
    BY <1>1, ActiveRow DEF DInv, StoreInv, Records, GoesOn
  <2>2. Begun(x)' => Begun(x)
    <3>1. x # c => (sent'[x] > 0 \/ ToMake(d, x)' => sent[x] > 0 \/ ToMake(d, x))
      BY <1>6
    <3>2. sent'[x] > 0 \/ ToMake(d, x)' => sent[x] > 0 \/ ToMake(d, x)
      BY <3>1
    <3>3. QED
      BY <1>2, <1>5, <3>2 DEF Begun
  <2>3. QED
    BY <2>1, <2>2
<1>9. StoreInv' /\ ApiInv' /\ ActiveInv'
  <2>1. n.status # "queued" /\ ~Waits(n)
    BY DEF GoesOn, Waits
  <2>2. \A q \in Dispatchers \ {d}: work'[q] = work[q] /\ call'[q] = call[q]
    BY <1>3, <1>4
  <2>3. QED
    BY <1>1, <1>8, <2>1, <2>2, ActiveStep DEF GoesOn
<1>10. ASSUME NEW q \in Dispatchers, NEW x \in Calls, q # d \/ x # c PROVE OneCall(q, x)'
  <2>1. OneCall(q, x)
    BY DEF DInv, CallsInv
  <2>2. CASE q # d
    <3>1. ~ToMake(q, x)' /\ call'[q][x] = "none"
      BY <1>5, <2>2
    <3>2. sent'[x] = 0 => answer'[x] = "none"
      <4>1. CASE x # c
        BY <2>1, <4>1 DEF OneCall
      <4>2. CASE x = c
        BY <4>2
      <4>3. QED
        BY <4>1, <4>2
    <3>3. QED
      BY <3>1, <3>2 DEF OneCall
  <2>3. CASE q = d /\ x # c
    <3>1. answer[x] \in {"none"} \cup Results
      BY <1>1
    <3>2. \A result \in {"none"} \cup Results:
            /\ Stands(mem[d], x, result) => Stands(n, x, result)
            /\ Older(mem[d], x, result) => Older(n, x, result)
      BY <2>3 DEF GoesOn
    <3>3. /\ Closed(mem[d]) \/ x \notin mem[d].asked => Closed(n) \/ x \notin n.asked
      BY DEF GoesOn
    <3>4. /\ OneCall(d, x) /\ Executing(d)' /\ (ToMake(d, x)' <=> ToMake(d, x))
          /\ call'[d][x] = call[d][x] /\ (x \in work'[d].todo <=> x \in work[d].todo)
          /\ sent'[x] = sent[x] /\ answer'[x] = answer[x]
          /\ store' = store /\ mem'[d] = n
      BY <1>2, <1>3, <1>4, <1>6, <1>7, <2>1, <2>3
    <3>5. /\ Stands(mem[d], x, answer[x]) => Stands(mem'[d], x, answer'[x])
          /\ Older(mem[d], x, answer[x]) => Older(mem'[d], x, answer'[x])
          /\ Stands(store, x, answer[x]) => Stands(store', x, answer'[x])
          /\ Older(store, x, answer[x]) => Older(store', x, answer'[x])
          /\ Closed(mem[d]) \/ x \notin mem[d].asked =>
               Closed(mem'[d]) \/ x \notin mem'[d].asked
      BY <3>1, <3>2, <3>3, <3>4
    <3>6. OneCall(d, x)'
      BY <3>4, <3>5 DEF OneCall, Stands, Older, Closed
    <3>7. QED
      BY <2>3, <3>6
  <2>4. QED
    BY <1>10, <2>2, <2>3
<1>11. QED
  BY <1>2, <1>3, <1>7, <1>9, <1>10


\* A call that is not made, or not any more.
LEMMA CallGone ==
  ASSUME DInv, ~InProcess, NEW d \in Dispatchers, Executing(d), NEW c \in Calls,
         NEW n, GoesOn(d, n, c),
         Change(d, n) \/ (UNCHANGED rows /\ n = mem[d]),
         UNCHANGED <<held, sent>>,
         \/ work' = work /\ c \notin work[d].todo
         \/ Dequeue(d, c) /\ c \in work[d].todo,
         (call' = call /\ call[d][c] = "none") \/ At(d, c, "none"),
         \A x \in Calls \ {c}: answer'[x] = answer[x],
         \/ answer'[c] = answer[c]
         \/ /\ answer'[c] \in Results /\ answer[c] = "none" /\ sent[c] > 0
            /\ n.step[c] \in {answer'[c]},
         sent[c] > 0 => n.step[c] \in {"running", "unknown", "cancelled"}
                                      \cup (Results \cap {answer'[c]})
  PROVE  StoreInv' /\ ApiInv' /\ ActiveInv' /\ CallsInv'
<1>1. /\ call \in [Dispatchers -> [Calls -> Phases]] /\ Active(d)
      /\ answer[c] \in {"none"} \cup Results
  BY DTypes DEF DInv, Active
<1>2. (\E phase \in Phases: At(d, c, phase)) \/ call' = call
  BY <1>1 DEF At, Phases
<1>3. call'[d][c] = "none"
  BY <1>1 DEF At
<1>4. sent[c] > 0 => /\ Stands(store, c, answer[c]) /\ Stands(mem[d], c, answer[c])
  BY <1>1, ActiveRow DEF DInv, StoreInv, Records
<1>5. sent'[c] > 0 => Stands(store, c, answer'[c]) /\ Stands(n, c, answer'[c])
  <2>1. sent[c] > 0 => Stands(store, c, answer'[c])
    BY <1>4 DEF Stands, Results
  <2>2. sent[c] > 0 => Stands(n, c, answer'[c])
    BY <1>4 DEF Stands, GoesOn
  <2>3. QED
    BY <2>1, <2>2
<1>6. c \notin work'[d].todo
  BY <1>1, DTypes DEF Dequeue, DInv, Segments
<1>7. ~ToMake(d, c)'
  BY <1>3, <1>6 DEF ToMake
<1>8. sent'[c] = 0 => answer'[c] = "none"
  BY DEF DInv, CallsInv, OneCall
<1>9. /\ StoreInv' /\ ApiInv' /\ ActiveInv'
      /\ \A q \in Dispatchers, x \in Calls: q # d \/ x # c => OneCall(q, x)'
  BY <1>2, <1>5, <1>7, <1>8, OtherCallsD
<1>10. OneCall(d, c)'
  BY <1>3, <1>7, <1>8 DEF OneCall
<1>11. QED
  BY <1>9, <1>10 DEF CallsInv

\* The eight steps of a call.
LEMMA CallStepDInv ==
  ASSUME DInv, ~InProcess, NEW d \in Dispatchers, NEW c \in Calls, CallStep(d, c)
  PROVE  StoreInv' /\ ApiInv' /\ ActiveInv' /\ CallsInv'
<1>1. OneCall(d, c)
  BY DEF DInv, CallsInv
<1>2. Executing(d)
  BY <1>1 DEF CallStep, Check, Skip, StartCall, RecordFails, Send, Abort, Finish, GiveUp, OneCall
<1>3. Active(d)
  BY <1>2 DEF Active
<1>4. /\ call \in [Dispatchers -> [Calls -> Phases]] /\ work \in [Dispatchers -> Segments]
      /\ sent \in [Calls -> Nat] /\ answer \in [Calls -> {"none"} \cup Results]
  BY DTypes DEF DInv
<1>5. \A phase \in Phases: At(d, c, phase) => call'[d][c] = phase
  BY <1>4 DEF At
<1>6. {"none", "checked", "started", "recorded", "sent"} = Phases
  BY DEF Phases
<1>7. GoesOn(d, mem[d], c)
  BY <1>2, SameGoesOn
<1>8. ASSUME NEW s \in {"running", "failed", "cancelled"} \cup Results, StepIs(d, c, s)
      PROVE  \E n: GoesOn(d, n, c) /\ Change(d, n) /\ n.step[c] = s
  <2> DEFINE n == [mem[d] EXCEPT !.step[c] = s]
  <2>1. Change(d, n)
    BY <1>8 DEF StepIs
  <2>2. s \in {"running", "cancelled"} \cup Results
    BY DEF Results
  <2>3. GoesOn(d, n, c) /\ n.step[c] = s
    BY <1>7, <2>2, StepGoesOn
  <2> HIDE DEF n
  <2>4. QED
    BY <2>1, <2>3
<1>9. sent[c] > 0 => Stands(mem[d], c, answer[c])
  BY <1>3, ActiveRow
<1>10. c \in work[d].todo => sent[c] = 0 /\ call[d][c] \notin {"started", "recorded", "sent"}
  BY <1>1 DEF OneCall, ToMake
<1>11. ASSUME Skip(d, c) \/ RecordFails(d, c) \/ GiveUp(d, c)
       PROVE  StoreInv' /\ ApiInv' /\ ActiveInv' /\ CallsInv'
  <2>1. /\ \/ UNCHANGED rows
           \/ StepIs(d, c, "failed") /\ sent[c] = 0
        /\ UNCHANGED <<held, sent, answer>> /\ At(d, c, "none")
        /\ \/ work' = work /\ c \notin work[d].todo
           \/ Dequeue(d, c) /\ c \in work[d].todo
    <3>1. CASE Skip(d, c)
      BY <1>10, <3>1 DEF Skip, history
    <3>2. CASE RecordFails(d, c)
      BY <1>1, <3>2 DEF RecordFails, OneCall, ToMake, history
    <3>3. CASE GiveUp(d, c)
      BY <1>1, <3>3 DEF GiveUp, OneCall, history
    <3>4. QED
      BY <1>11, <3>1, <3>2, <3>3
  <2>2. CASE UNCHANGED rows
    BY <1>2, <1>7, <1>9, <2>1, <2>2, CallGone DEF Stands
  <2>3. CASE StepIs(d, c, "failed") /\ sent[c] = 0
    <3>1. PICK n: GoesOn(d, n, c) /\ Change(d, n)
      BY <1>8, <2>3
    <3>2. QED
      BY <1>2, <2>1, <2>3, <3>1, CallGone
  <2>4. QED
    BY <2>1, <2>2, <2>3
<1>12. CASE Abort(d, c)
  <2> DEFINE r == Adopt(mem[d], store)
             n == [r EXCEPT !.step[c] = "cancelled"]
  <2>1. /\ Change(d, n) /\ At(d, c, "none") /\ UNCHANGED <<held, work, sent, answer>>
        /\ c \notin work[d].todo
    BY <1>1, <1>12 DEF Abort, OneCall, history
  <2>2. GoesOn(d, r, c)
    BY <1>2, <1>7, CancelledGoesOn DEF Adopt
  <2> HIDE DEF r
  <2>3. GoesOn(d, n, c) /\ n.step[c] = "cancelled"
    BY <2>2, StepGoesOn
  <2> HIDE DEF n
  <2>4. QED
    BY <1>2, <2>1, <2>3, CallGone
<1>13. CASE Finish(d, c)
  <2>1. PICK result \in Results:
          /\ StepIs(d, c, result) /\ answer' = [answer EXCEPT ![c] = result]
          /\ call[d][c] = "sent" /\ At(d, c, "none") /\ UNCHANGED <<held, work, sent>>
    BY <1>13 DEF Finish
  <2>2. PICK n: GoesOn(d, n, c) /\ Change(d, n) /\ n.step[c] = result
    BY <1>8, <2>1
  <2>3. /\ answer'[c] = result /\ answer[c] = "none" /\ sent[c] > 0
        /\ c \notin work[d].todo
        /\ \A x \in Calls \ {c}: answer'[x] = answer[x]
    BY <1>1, <1>4, <2>1 DEF OneCall
  <2>4. n.step[c] \in {"running", "unknown", "cancelled"} \cup (Results \cap {answer'[c]})
    BY <2>2, <2>3
  <2>5. QED
    BY <1>2, <2>1, <2>2, <2>3, <2>4, CallGone
<1>14. CASE Send(d, c)
  <2>1. /\ call[d][c] = "recorded" /\ At(d, c, "sent")
        /\ UNCHANGED rows /\ UNCHANGED <<held, work, answer>>
        /\ sent' = [sent EXCEPT ![c] = @ + 1]
    BY <1>14 DEF Send
  <2>2. /\ ToMake(d, c) /\ sent[c] = 0 /\ sent'[c] = 1 /\ answer[c] = "none"
        /\ Stands(store, c, answer[c]) /\ Stands(mem[d], c, answer[c])
        /\ c \notin work[d].todo
        /\ \A x \in Calls \ {c}: sent'[x] = sent[x]
    BY <1>1, <1>4, <2>1 DEF OneCall, ToMake
  <2>3. call'[d][c] = "sent" /\ (\E phase \in Phases: At(d, c, phase))
    BY <1>5, <1>6, <2>1
  <2>4. /\ StoreInv' /\ ApiInv' /\ ActiveInv'
        /\ \A q \in Dispatchers, x \in Calls: q # d \/ x # c => OneCall(q, x)'
        /\ Executing(d)'
    BY <1>2, <1>7, <2>1, <2>2, <2>3, OtherCallsD
  <2>5. OneCall(d, c)'
    BY <2>1, <2>2, <2>3, <2>4 DEF OneCall, ToMake
  <2>6. QED
    BY <2>4, <2>5 DEF CallsInv
<1>15. CASE Check(d, c)
  <2>1. /\ c \in work[d].todo /\ call[d][c] = "none" /\ UNCHANGED <<held, sent, answer>>
        /\ \/ UNCHANGED rows
           \/ store.status = "cancelled" /\ Change(d, Cancelled(mem[d]))
        /\ \/ Dequeue(d, c) /\ UNCHANGED call
           \/ At(d, c, "checked") /\ UNCHANGED work
    BY <1>15 DEF Check, TakeOver, history
  <2>2. PICK n: /\ GoesOn(d, n, c) /\ (Older(mem[d], c, answer[c]) => Older(n, c, answer[c]))
                /\ Change(d, n) \/ (UNCHANGED rows /\ n = mem[d])
    <3>1. CASE UNCHANGED rows
      BY <1>7, <3>1
    <3>2. CASE store.status = "cancelled" /\ Change(d, Cancelled(mem[d]))
      <4>1. GoesOn(d, Cancelled(mem[d]), c)
        BY <1>2, <3>2, CancelledGoesOn
      <4>2. Older(mem[d], c, answer[c]) => Older(Cancelled(mem[d]), c, answer[c])
        BY <1>3, <1>4, ActiveRow, CancelledRow
      <4>3. QED
        BY <3>2, <4>1, <4>2
    <3>3. QED
      BY <2>1, <3>1, <3>2
  <2>3. CASE Dequeue(d, c) /\ UNCHANGED call
    BY <1>2, <1>10, <2>1, <2>2, <2>3, CallGone
  <2>4. CASE At(d, c, "checked") /\ UNCHANGED work
    <3>1. call'[d][c] = "checked" /\ (\E phase \in Phases: At(d, c, phase))
      BY <1>5, <1>6, <2>4
    <3>2. ToMake(d, c) /\ sent[c] = 0 /\ answer[c] = "none"
      BY <1>1, <2>1 DEF OneCall, ToMake
    <3>3. /\ StoreInv' /\ ApiInv' /\ ActiveInv'
          /\ \A q \in Dispatchers, x \in Calls: q # d \/ x # c => OneCall(q, x)'
          /\ store' = store /\ mem'[d] = n /\ Executing(d)'
      BY <1>2, <2>1, <2>2, <2>4, <3>1, <3>2, OtherCallsD
    <3>4. /\ Older(n, c, answer[c]) /\ Older(store, c, answer[c])
          /\ Closed(n) \/ c \notin n.asked
      BY <1>1, <2>2, <3>2 DEF OneCall, GoesOn
    <3>5. OneCall(d, c)'
      BY <2>1, <2>4, <3>1, <3>2, <3>3, <3>4 DEF OneCall, Older, Closed
    <3>6. QED
      BY <3>3, <3>5 DEF CallsInv
  <2>5. QED
    BY <2>1, <2>3, <2>4
<1>16. CASE StartCall(d, c)
  <2>1. /\ c \in work[d].todo /\ Dequeue(d, c) /\ UNCHANGED <<held, sent, answer>>
        /\ \/ At(d, c, "none") /\ UNCHANGED rows
           \/ At(d, c, "started") /\ StepIs(d, c, "running")
    BY <1>16 DEF StartCall, history
  <2>2. CASE At(d, c, "none") /\ UNCHANGED rows
    BY <1>2, <1>7, <1>10, <2>1, <2>2, CallGone
  <2>3. CASE At(d, c, "started") /\ StepIs(d, c, "running")
    <3>1. call'[d][c] = "started" /\ (\E phase \in Phases: At(d, c, phase))
      BY <1>5, <1>6, <2>3
    <3>2. ToMake(d, c) /\ sent[c] = 0 /\ answer[c] = "none"
      BY <1>1, <2>1 DEF OneCall, ToMake
    <3>3. PICK n: GoesOn(d, n, c) /\ Change(d, n) /\ n.step[c] = "running"
      BY <1>8, <2>3
    <3>4. /\ StoreInv' /\ ApiInv' /\ ActiveInv'
          /\ \A q \in Dispatchers, x \in Calls: q # d \/ x # c => OneCall(q, x)'
          /\ store' = store /\ mem'[d] = n /\ Executing(d)' /\ c \notin work'[d].todo
      BY <1>2, <2>1, <3>1, <3>2, <3>3, OtherCallsD
    <3>5. /\ Stands(n, c, answer[c]) /\ Older(n, c, answer[c])
          /\ Older(store, c, answer[c])
          /\ Closed(n) \/ c \notin n.asked
      BY <1>1, <3>2, <3>3 DEF OneCall, GoesOn, Older, Stands
    <3>6. /\ Stands(mem'[d], c, answer'[c]) /\ Older(mem'[d], c, answer'[c])
          /\ Older(store', c, answer'[c]) /\ sent'[c] = 0 /\ answer'[c] = "none"
          /\ Closed(mem'[d]) \/ c \notin mem'[d].asked
      BY <2>1, <3>2, <3>4, <3>5
    <3>8. OneCall(d, c)'
      BY <3>1, <3>4, <3>6 DEF OneCall, Older, Stands, Closed
    <3>9. QED
      BY <3>4, <3>8 DEF CallsInv
  <2>4. QED
    BY <2>1, <2>2, <2>3
<1>17. QED
  BY <1>11, <1>12, <1>13, <1>14, <1>15, <1>16 DEF CallStep




-------------------------------------------------------------------------------
(* Claims, begins and writes of the dispatcher mode *)

\* Nobody is active after the step.
LEMMA NobodyStep ==
  ASSUME DInv, ~InProcess, UNCHANGED <<sent, answer>>,
         \A q \in Dispatchers:
           /\ ~dirty'[q] /\ work'[q].token = 0 /\ work'[q].todo = {}
           /\ \A c \in Calls: call'[q][c] = "none"
  PROVE  /\ ActiveInv' /\ CallsInv'
         /\ \A q \in Dispatchers, c \in Calls: ~ToMake(q, c)'
<1>1. \A q \in Dispatchers: ~Active(q)' /\ \A c \in Calls: ~ToMake(q, c)'
  BY DEF Active, Executing, ToMake
<1>2. ActiveInv'
  BY <1>1 DEF ActiveInv
<1>3. CallsInv'
  <2> SUFFICES ASSUME NEW q \in Dispatchers, NEW c \in Calls PROVE OneCall(q, c)'
    BY DEF CallsInv
  <2>1. OneCall(q, c)
    BY DEF DInv, CallsInv
  <2>2. QED
    BY <1>1, <2>1 DEF OneCall
<1>4. QED
  BY <1>1, <1>2, <1>3

\* Nothing that counts changes.
LEMMA SameStep ==
  ASSUME DInv, ~InProcess, UNCHANGED <<rows, held, work, call, sent, answer>>
  PROVE  StoreInv' /\ ApiInv' /\ ActiveInv' /\ CallsInv'
<1>1. UNCHANGED <<store, mem, dirty>>
  BY DEF rows
<1>2. /\ StoreInv' /\ ActiveInv' /\ CallsInv'
      /\ \A c \in Calls: Begun(c)' <=> Begun(c)
  BY <1>1, ApiStep
<1>3. CASE Leads
  BY <1>1, <1>2, <1>3
     DEF ApiInv, Leads, Waits, Quiet, Undecided, Ready, Records, Stands, Closed
<1>4. CASE Trails
  BY <1>1, <1>2, <1>4, FewerBegun DEF ApiInv
<1>5. CASE Over
  BY <1>1, <1>2, <1>5 DEF ApiInv, Over, Quiet, Undecided, Closed
<1>6. QED
  BY <1>3, <1>4, <1>5 DEF DInv, ApiInv

\* A queued run: nobody is active, and the API's copy trails.
LEMMA QueuedRun ==
  ASSUME DInv, ~InProcess, store.status = "queued"
  PROVE  /\ store \in Runs /\ ~Closed(store) /\ ~Waits(store) /\ Quiet(store)
         /\ Ready(store) /\ Records(store) /\ Trails
         /\ \A q \in Dispatchers:
              /\ ~dirty[q] /\ work[q].token = 0 /\ work[q].todo = {}
              /\ \A c \in Calls: call[q][c] = "none" /\ ~ToMake(q, c)
<1>1. ~Closed(store) /\ ~Waits(store)
  BY DEF Closed, Waits
<1>2. Quiet(store) /\ Ready(store) /\ Records(store)
  BY <1>1 DEF DInv, StoreInv
<1>3. Trails
  BY <1>1 DEF DInv, ApiInv, Leads, Over
<1>4. ASSUME NEW q \in Dispatchers
      PROVE  /\ ~dirty[q] /\ work[q].token = 0 /\ work[q].todo = {}
             /\ \A c \in Calls: call[q][c] = "none" /\ ~ToMake(q, c)
  <2>1. ~Active(q)
    BY NobodyActive
  <2>2. work[q].todo \subseteq Calls
    BY DTypes DEF DInv, Segments
  <2>3. QED
    BY <2>1, <2>2, NoCalls DEF DInv, Active
<1>5. QED
  BY <1>1, <1>2, <1>3, <1>4, DTypes DEF DInv

\* A dispatcher claims the run.
LEMMA ClaimDInv ==
  ASSUME DInv, ~InProcess, NEW d \in Dispatchers, Claim(d)
  PROVE  StoreInv' /\ ApiInv' /\ ActiveInv' /\ CallsInv' /\ Succeeds(store, store')
<1> DEFINE lease == [token |-> issued + 1, gen |-> Generation(store) + 1]
           r == [store EXCEPT !.lease = lease]
<1>1. /\ store.status = "queued" /\ store' = r /\ mem' = [mem EXCEPT ![d] = r]
      /\ UNCHANGED <<dirty, work, call, sent, answer>>
  BY DEF Claim, history
<1>2. /\ store \in Runs /\ ~Closed(store) /\ ~Waits(store) /\ Quiet(store)
      /\ Ready(store) /\ Records(store) /\ Trails
      /\ \A q \in Dispatchers:
           /\ ~dirty[q] /\ work[q].token = 0 /\ work[q].todo = {}
           /\ \A c \in Calls: call[q][c] = "none" /\ ~ToMake(q, c)
  BY <1>1, QueuedRun
<1>3. /\ r.status = store.status /\ r.exec = store.exec /\ r.asked = store.asked
      /\ r.approval = store.approval /\ r.step = store.step
      /\ r.question = store.question /\ r.lease = lease
  BY <1>2 DEF Runs
<1>4. lease.gen = Generation(store) + 1
  OBVIOUS
<1> HIDE DEF r, lease
<1>5. /\ Generation(store) \in Nat /\ Generation(store) >= store.exec.gen
      /\ store.exec.gen \in Nat
  BY <1>2 DEF Generation, Runs, Owners
<1>6. StoreInv'
  <2>1. Waits(r) \/ Quiet(r)
    BY <1>2, <1>3 DEF Quiet, Undecided
  <2>2. ~Waits(r) /\ r.status # "running" /\ lease.gen >= r.exec.gen
    BY <1>1, <1>3, <1>4, <1>5 DEF Waits
  <2>3. Ready(r)
    BY <1>2, <1>3 DEF Ready
  <2>4. \A c \in Calls: sent[c] > 0 => Stands(r, c, answer[c])
    BY <1>2, <1>3 DEF Records, Stands, Closed
  <2>5. QED
    BY <1>1, <1>3, <2>1, <2>2, <2>3, <2>4
       DEF StoreInv, Waits, Quiet, Undecided, Ready, Records, Stands, Closed
<1>7. /\ ActiveInv' /\ CallsInv'
      /\ \A q \in Dispatchers, c \in Calls: ~ToMake(q, c)'
  BY <1>1, <1>2, NobodyStep
<1>8. ApiInv'
  <2>1. mem'[Api] = mem[Api] /\ dirty'[Api] = dirty[Api]
    BY <1>1, DTypes DEF DInv
  <2>2. \A c \in Calls: Begun(c)' => Begun(c)
    BY <1>1, <1>3, <1>7 DEF Begun
  <2>3. Trails'
    BY <1>1, <1>2, <1>3, <2>1, <2>2 DEF Trails, SameDecisions, Older, Quiet, Undecided
  <2>4. QED
    BY <2>3 DEF ApiInv
<1>9. Succeeds(store, r)
  <2>1. Generation(r) >= Generation(store)
    BY <1>3, <1>4, <1>5 DEF Generation
  <2>2. QED
    BY <1>2, <1>3, <2>1 DEF Succeeds
<1>10. QED
  BY <1>1, <1>6, <1>7, <1>8, <1>9



\* What a begin of a queued run comes to.
LEMMA BeginCases ==
  ASSUME NEW r \in Runs, NEW o, Quiet(r), NEW new \in Executed(r, o) \cup Resumed(r, o)
  PROVE  \/ new.row = Failed(r) /\ new.segment = NoSegment
         \/ /\ new.row \in {Running(r, o), Running(Dropped(r), o)}
            /\ new.segment.token = o.token
            /\ \A c \in new.segment.todo:
                 /\ new.row = Running(Dropped(r), o)
                 /\ c \in r.asked /\ r.approval[c] = "approved"
<1> DEFINE begun == [token |-> o.token, todo |-> {}, refused |-> FALSE]
           todo == {c \in r.asked: r.approval[c] = "approved"}
           resumed == [token |-> o.token, todo |-> todo,
                       refused |-> \E c \in Calls: r.approval[c] = "rejected"]
<1>1. \/ new = [row |-> Failed(r), segment |-> NoSegment]
      \/ new = [row |-> Running(r, o), segment |-> begun]
      \/ new = [row |-> Running(Dropped(r), o), segment |-> resumed]
  BY DEF Executed, Resumed, Quiet
<1>2. /\ begun.token = o.token /\ begun.todo = {}
      /\ resumed.token = o.token /\ resumed.todo = todo
  OBVIOUS
<1>3. \A c \in todo: c \in r.asked /\ r.approval[c] = "approved"
  OBVIOUS
<1> HIDE DEF begun, resumed, todo
<1>4. CASE new = [row |-> Failed(r), segment |-> NoSegment]
  BY <1>4, PairFields
<1>5. CASE new = [row |-> Running(r, o), segment |-> begun]
  BY <1>2, <1>5, PairFields
<1>6. CASE new = [row |-> Running(Dropped(r), o), segment |-> resumed]
  BY <1>2, <1>3, <1>6, PairFields
<1>7. QED
  BY <1>1, <1>4, <1>5, <1>6

\* A dispatcher begins the run that it claimed.
LEMMA BegunDInv ==
  ASSUME DInv, ~InProcess, NEW d \in Dispatchers, store.status = "queued",
         store.lease.token # 0, NEW new,
         new \in Executed(store, store.lease) \cup Resumed(store, store.lease),
         store' = new.row, mem' = [mem EXCEPT ![d] = new.row],
         work' = [work EXCEPT ![d] = new.segment], held' = [held EXCEPT ![d] = NoClaim],
         UNCHANGED <<dirty, call, sent, answer>>
  PROVE  StoreInv' /\ ApiInv' /\ ActiveInv' /\ CallsInv' /\ Succeeds(store, store')
<1> DEFINE n == new.row
           segment == new.segment
<1>0. /\ store \in Runs /\ ~Closed(store) /\ ~Waits(store) /\ Quiet(store)
      /\ Ready(store) /\ Records(store) /\ Trails
      /\ \A q \in Dispatchers:
           /\ ~dirty[q] /\ work[q].token = 0 /\ work[q].todo = {}
           /\ \A c \in Calls: call[q][c] = "none" /\ ~ToMake(q, c)
  BY QueuedRun
<1>1. store.lease \in Owners /\ answer \in [Calls -> {"none"} \cup Results]
  BY <1>0, DTypes DEF DInv, Runs
<1>2. /\ mem'[d] = n /\ work'[d] = segment /\ held'[d] = NoClaim
      /\ \A q \in Dispatchers \ {d}: work'[q] = work[q] /\ mem'[q] = mem[q]
      /\ mem'[Api] = mem[Api] /\ dirty'[Api] = dirty[Api] /\ store' = n
      /\ \A q \in Dispatchers: dirty'[q] = dirty[q] /\ call'[q] = call[q]
  BY DTypes DEF DInv
<1>3. \/ n = Failed(store) /\ segment = NoSegment
      \/ /\ n \in {Running(store, store.lease), Running(Dropped(store), store.lease)}
         /\ segment.token = store.lease.token
         /\ \A c \in segment.todo:
              /\ n = Running(Dropped(store), store.lease)
              /\ c \in store.asked /\ store.approval[c] = "approved"
  BY <1>0, BeginCases
<1> HIDE DEF n, segment
<1>4. /\ n \in Runs /\ Keeps(store, n) /\ SameDecisions(store, n) /\ Quiet(n) /\ ~Waits(n)
      /\ n.status \in {"failed", "running"}
      /\ n = Failed(store) =>
           n.status = "failed" /\ n.lease = store.lease /\ n.exec = store.exec
      /\ n # Failed(store) =>
           n.status = "running" /\ n.lease = NoOwner /\ n.exec = store.lease
      /\ n = Running(Dropped(store), store.lease) => n.asked = {}
  BY <1>0, <1>1, <1>3, BegunRows
<1>5. \A c \in Calls: sent[c] > 0 => Stands(n, c, answer[c])
  BY <1>0, <1>1, <1>4 DEF Records, Keeps
<1>6. StoreInv'
  BY <1>2, <1>3, <1>4, <1>5
     DEF StoreInv, Waits, Quiet, Undecided, Ready, Records, Stands, Closed
<1>7. \A q \in Dispatchers \ {d}:
        ~Active(q)' /\ \A c \in Calls: call'[q][c] = "none" /\ ~ToMake(q, c)'
  BY <1>0, <1>2 DEF Active, Executing, ToMake
<1>8. ASSUME NEW c \in Calls, ToMake(d, c)'
      PROVE  /\ c \in segment.todo /\ n = Running(Dropped(store), store.lease)
             /\ c \in store.asked /\ store.approval[c] = "approved"
  <2>1. c \in segment.todo
    BY <1>0, <1>2, <1>8 DEF ToMake
  <2>2. QED
    BY <1>3, <2>1 DEF NoSegment
<1>9. ApiInv'
  <2>1. \A c \in Calls: Begun(c)' => Begun(c)
    BY <1>2, <1>4, <1>7, <1>8 DEF Begun
  <2>2. SameDecisions(n, mem[Api])
    BY <1>0, <1>4 DEF Trails, SameDecisions
  <2>3. \A c \in Calls: Begun(c)' => Older(mem[Api], c, answer[c])
    BY <1>0, <2>1 DEF Trails
  <2>4. Trails'
    BY <1>0, <1>2, <1>4, <2>2, <2>3 DEF Trails, SameDecisions, Older, Quiet, Undecided
  <2>5. QED
    BY <2>4 DEF ApiInv
<1>10. n \in {Running(store, store.lease), Running(Dropped(store), store.lease)} =>
        n.status = "running"
  <2>1. Dropped(store) \in Runs
    BY <1>0, RowTypes
  <2>2. QED
    BY <1>0, <2>1 DEF Running, Runs
<1>11. ActiveInv'
  <2>1. ASSUME Active(d)' PROVE n.status = "running" /\ n.lease = NoOwner
    <3>1. segment.token # 0
      BY <1>0, <1>2, <2>1 DEF Active, Executing
    <3>2. n.status = "running"
      BY <1>3, <1>10, <3>1 DEF NoSegment
    <3>3. QED
      BY <1>4, <3>2
  <2>2. Agree(n, n) /\ SameDecisions(n, n)
    BY DEF Agree, SameDecisions
  <2>3. QED
    BY <1>2, <1>4, <1>5, <1>7, <2>1, <2>2
       DEF ActiveInv, Records, Agree, SameDecisions, Stands, Waits, Quiet, Undecided, Ready,
           Closed
<1>12. CallsInv'
  <2> SUFFICES ASSUME NEW q \in Dispatchers, NEW c \in Calls PROVE OneCall(q, c)'
    BY DEF CallsInv
  <2>1. sent'[c] = 0 => answer'[c] = "none"
    BY DEF DInv, CallsInv, OneCall
  <2>2. call'[q][c] = "none"
    BY <1>0, <1>2
  <2>3. CASE ~ToMake(q, c)'
    BY <2>1, <2>2, <2>3 DEF OneCall
  <2>4. CASE ToMake(q, c)'
    <3>1. q = d
      BY <1>7, <2>4
    <3>2. /\ c \in segment.todo /\ n = Running(Dropped(store), store.lease)
          /\ c \in store.asked /\ store.approval[c] = "approved"
      BY <1>8, <2>4, <3>1
    <3>3. sent[c] = 0
      <4>1. ~Stands(store, c, answer[c])
        BY <1>0, <3>2 DEF Stands
      <4>2. sent[c] \in Nat
        BY DTypes DEF DInv
      <4>3. QED
        BY <1>0, <4>1, <4>2 DEF Records
    <3>4. Older(n, c, answer[c])
      <4>1. Older(store, c, answer[c])
        BY <1>0, <3>2 DEF Ready, Older, Closed
      <4>2. QED
        BY <1>1, <1>4, <4>1 DEF Keeps
    <3>5. Executing(d)' /\ n.asked = {}
      BY <1>2, <1>3, <1>4, <3>2 DEF Executing, NoSegment
    <3>6. /\ Older(store', c, answer'[c]) /\ Older(mem'[d], c, answer'[c]) /\ sent'[c] = 0
          /\ c \notin mem'[d].asked
      BY <1>2, <3>3, <3>4, <3>5
    <3>7. QED
      BY <2>1, <2>2, <3>1, <3>5, <3>6 DEF OneCall, Older, Closed
  <2>5. QED
    BY <2>3, <2>4
<1>13. Succeeds(store, n)
  <2>1. ~Closed(n) => Generation(n) >= Generation(store)
    <3>1. /\ store.lease.gen \in Nat /\ store.exec.gen \in Nat
          /\ store.lease.gen >= store.exec.gen
      BY <1>0, <1>1 DEF DInv, StoreInv, Runs, Owners
    <3>2. Generation(store) = store.lease.gen
      BY <3>1 DEF Generation
    <3>3. ~Closed(n) => n.lease = NoOwner /\ n.exec = store.lease
      BY <1>4 DEF Closed
    <3>4. QED
      BY <3>1, <3>2, <3>3 DEF Generation, NoOwner
  <2>2. QED
    BY <1>0, <1>4, <2>1 DEF Succeeds, SameDecisions
<1>14. QED
  BY <1>2, <1>6, <1>9, <1>11, <1>12, <1>13

\* A step that leaves the dispatcher idle, with any claim and any copy.
LEMMA IdleStep ==
  ASSUME DInv, ~InProcess, NEW d \in Dispatchers, ~Active(d),
         UNCHANGED <<store, dirty, call, sent, answer>>,
         NEW r, mem' = [mem EXCEPT ![d] = r], NEW claim, held' = [held EXCEPT ![d] = claim],
         work' = work \/ work' = [work EXCEPT ![d] = NoSegment]
  PROVE  StoreInv' /\ ApiInv' /\ ActiveInv' /\ CallsInv'
<1>1. /\ mem \in [Procs -> Runs] /\ dirty \in [Procs -> BOOLEAN]
      /\ work \in [Dispatchers -> Segments] /\ held \in [Dispatchers -> Claims]
  BY DTypes DEF DInv
<1>2. ~dirty[d] /\ work[d].token = 0 /\ \A c \in Calls: call[d][c] = "none"
  BY NoCalls DEF DInv, Active
<1>3. work[d].todo = {}
  BY <1>1, NoCalls DEF DInv, Segments
<1>4. QED
  BY <1>1, <1>2, <1>3, InactiveStep DEF NoSegment

\* A dispatcher begins the run, or finds that it may not.
LEMMA BeginDInv ==
  ASSUME DInv, ~InProcess, NEW d \in Dispatchers, Begin(d)
  PROVE  StoreInv' /\ ApiInv' /\ ActiveInv' /\ CallsInv'
         /\ (store' = store \/ Succeeds(store, store'))
<1> DEFINE owner == [token |-> held[d].token, gen |-> held[d].gen]
<1>1. held[d].token # 0 /\ ~Active(d)
  BY DEF Begin, DInv, ActiveInv, NoClaim
<1>2. CASE ~MayBegin(store, held[d])
  <2>1. /\ store' = store /\ mem' = [mem EXCEPT ![d] = store]
        /\ work' = [work EXCEPT ![d] = NoSegment] /\ held' = [held EXCEPT ![d] = NoClaim]
        /\ UNCHANGED <<dirty, call, sent, answer>>
    <3>1. PICK new \in {[row |-> store, segment |-> NoSegment]}:
            /\ store' = new.row /\ mem' = [mem EXCEPT ![d] = new.row]
            /\ work' = [work EXCEPT ![d] = new.segment]
      BY <1>2 DEF Begin
    <3>2. new.row = store /\ new.segment = NoSegment
      OBVIOUS
    <3>3. held' = [held EXCEPT ![d] = NoClaim] /\ UNCHANGED <<dirty, call, sent, answer>>
      BY DEF Begin, history
    <3>4. QED
      BY <3>1, <3>2, <3>3
  <2>2. QED
    BY <1>1, <2>1, IdleStep
<1>3. CASE MayBegin(store, held[d])
  <2>1. store.status = "queued" /\ store.lease = owner /\ store.lease.token # 0
    BY <1>3 DEF MayBegin, LeaseActive
  <2>2. PICK new \in Executed(store, owner) \cup Resumed(store, owner):
          /\ store' = new.row /\ mem' = [mem EXCEPT ![d] = new.row]
          /\ work' = [work EXCEPT ![d] = new.segment]
    BY <1>3 DEF Begin
  <2>3. held' = [held EXCEPT ![d] = NoClaim] /\ UNCHANGED <<dirty, call, sent, answer>>
    BY DEF Begin, history
  <2> HIDE DEF owner
  <2>4. QED
    BY <2>1, <2>2, <2>3, BegunDInv
<1>4. QED
  BY <1>2, <1>3

\* The transaction of a begin fails.
LEMMA BeginFailsDInv ==
  ASSUME DInv, ~InProcess, NEW d \in Dispatchers, BeginFails(d)
  PROVE  StoreInv' /\ ApiInv' /\ ActiveInv' /\ CallsInv' /\ store' = store
<1>1. held[d].token # 0 /\ ~Active(d)
  BY DEF BeginFails, DInv, ActiveInv, NoClaim
<1>2. /\ held' = [held EXCEPT ![d] = NoClaim] /\ mem' = [mem EXCEPT ![d] = store]
      /\ UNCHANGED <<store, dirty, work, call, sent, answer>>
  BY DEF BeginFails, history
<1>3. QED
  BY <1>1, <1>2, IdleStep



\* What the write of a process leaves.
LEMMA Written ==
  ASSUME TypeOK, ~InProcess, NEW p \in Procs, Write(p)
  PROVE  /\ dirty[p] /\ store' = Adopt(mem[p], store) /\ mem'[p] = Adopt(mem[p], store)
         /\ ~dirty'[p]
         /\ \A q \in Procs \ {p}: mem'[q] = mem[q] /\ dirty'[q] = dirty[q]
         /\ \A q \in Dispatchers, c \in Calls:
              call'[q][c] = IF q = p /\ call[q][c] = "started" THEN "recorded"
                            ELSE call[q][c]
         /\ UNCHANGED <<held, work, sent, answer>>
<1>1. /\ mem \in [Procs -> Runs] /\ dirty \in [Procs -> BOOLEAN]
      /\ Executors = Dispatchers
  BY DTypes
<1>2. /\ dirty[p] /\ store' = Adopt(mem[p], store)
      /\ mem' = [mem EXCEPT ![p] = Adopt(mem[p], store)]
      /\ dirty' = [dirty EXCEPT ![p] = FALSE]
      /\ call' = [q \in Executors |-> [c \in Calls |->
                    IF q = p /\ call[q][c] = "started" THEN "recorded" ELSE call[q][c]]]
      /\ UNCHANGED <<held, work, sent, answer>>
  BY DEF Write, history
<1>3. QED
  BY <1>1, <1>2

\* The row that an active dispatcher writes.
LEMMA WrittenRow ==
  ASSUME DInv, ~InProcess, NEW d \in Dispatchers, Active(d),
         NEW r, r = Adopt(mem[d], store)
  PROVE  /\ r \in Runs /\ Keeps(mem[d], r) /\ Agree(store, r)
         /\ Waits(r) \/ Quiet(r)
         /\ Waits(r) => Ready(r)
         /\ Waits(r) \/ r.status = "running" => r.lease = NoOwner
         /\ r.status # "queued"
         /\ Executing(d) => r.status \in {"running", "cancelled"}
         /\ Closed(mem[d]) \/ r.asked = mem[d].asked
         /\ Closed(mem[d]) => Closed(r)
         /\ \A c \in Calls: sent[c] > 0 => Stands(r, c, answer[c])
         /\ store.status = "running" =>
              /\ r.exec = store.exec /\ r.status # "cancelled" /\ SameDecisions(store, r)
              /\ ~Closed(r) => r.lease = NoOwner
         /\ store.status = "cancelled" => Closed(r) /\ Quiet(r)
<1>1. CASE store.status = "cancelled" /\ ~Closed(mem[d])
  <2>1. r = Cancelled(mem[d])
    BY <1>1 DEF Adopt
  <2>2. /\ r \in Runs /\ r.status = "cancelled" /\ Closed(r) /\ Quiet(r) /\ ~Waits(r)
        /\ r.asked = mem[d].asked /\ Agree(store, r) /\ Keeps(mem[d], r)
        /\ \A c \in Calls: sent[c] > 0 => Stands(r, c, answer[c])
    BY <1>1, <2>1, CancelledActive
  <2>3. QED
    BY <1>1, <2>2
<1>2. CASE store.status # "cancelled" \/ Closed(mem[d])
  <2>1. r = mem[d]
    BY <1>2 DEF Adopt
  <2>2. Keeps(r, r)
    BY DEF Keeps
  <2>3. store.status = "cancelled" => Closed(r) /\ Quiet(r)
    BY <1>2, <2>1, ActiveRow DEF Closed, Waits
  <2>4. Waits(r) \/ r.status = "running" => store.status = "running"
    BY <1>2, <2>1, ActiveRow DEF Closed, Waits
  <2>5. QED
    BY <2>1, <2>2, <2>3, <2>4, ActiveRow
<1>3. QED
  BY <1>1, <1>2

\* A dispatcher writes its row.
LEMMA WriteDInv ==
  ASSUME DInv, ~InProcess, NEW d \in Dispatchers, Write(d)
  PROVE  StoreInv' /\ ApiInv' /\ ActiveInv' /\ CallsInv' /\ Succeeds(store, store')
<1> DEFINE r == Adopt(mem[d], store)
<1>1. /\ TypeOK /\ d \in Procs /\ Api \in Procs /\ Api # d
      /\ \A q \in Dispatchers: q \in Procs
      /\ answer \in [Calls -> {"none"} \cup Results]
      /\ store.status = "running" => store \in Runs
  BY DTypes DEF DInv
<1>2. /\ dirty[d] /\ store' = r /\ mem'[d] = r /\ ~dirty'[d]
      /\ \A q \in Procs \ {d}: mem'[q] = mem[q] /\ dirty'[q] = dirty[q]
      /\ \A q \in Dispatchers, c \in Calls:
           call'[q][c] = IF q = d /\ call[q][c] = "started" THEN "recorded" ELSE call[q][c]
      /\ UNCHANGED <<held, work, sent, answer>>
  BY <1>1, Written
<1>3. Active(d)
  BY <1>2 DEF Active
<1>4. /\ r \in Runs /\ Keeps(mem[d], r) /\ Agree(store, r)
      /\ Waits(r) \/ Quiet(r)
      /\ Waits(r) => Ready(r)
      /\ Waits(r) \/ r.status = "running" => r.lease = NoOwner
      /\ r.status # "queued"
      /\ Executing(d) => r.status \in {"running", "cancelled"}
      /\ Closed(mem[d]) \/ r.asked = mem[d].asked
      /\ Closed(mem[d]) => Closed(r)
      /\ \A c \in Calls: sent[c] > 0 => Stands(r, c, answer[c])
      /\ store.status = "running" =>
           /\ r.exec = store.exec /\ r.status # "cancelled" /\ SameDecisions(store, r)
           /\ ~Closed(r) => r.lease = NoOwner
      /\ store.status = "cancelled" => Closed(r) /\ Quiet(r)
  BY <1>3, WrittenRow
<1> HIDE DEF r
<1>5. store.status \in {"running", "cancelled"} /\ ~Waits(store) /\ held[d] = NoClaim
  BY <1>3 DEF DInv, ActiveInv, Waits
<1>6. ASSUME NEW q \in Dispatchers, q # d
      PROVE  ~Active(q)' /\ \A c \in Calls: call'[q][c] = "none" /\ ~ToMake(q, c)'
  <2>1. ~Active(q) /\ \A c \in Calls: call[q][c] = "none" /\ ~ToMake(q, c)
    BY <1>3, <1>6, Alone, NoCalls DEF DInv
  <2>2. QED
    BY <1>1, <1>2, <1>6, <2>1 DEF Active, Executing, ToMake
<1>7. \A c \in Calls: ToMake(d, c)' <=> ToMake(d, c)
  BY <1>2 DEF ToMake
<1>8. StoreInv'
  BY <1>2, <1>4 DEF StoreInv, Waits, Quiet, Undecided, Ready, Records, Stands, Closed
<1>9. ApiInv'
  <2>1. mem'[Api] = mem[Api] /\ dirty'[Api] = dirty[Api]
    BY <1>1, <1>2
  <2>2. CASE store.status = "running"
    <3>1. Trails
      BY <1>5, <2>2 DEF DInv, ApiInv, Leads, Over, Closed
    <3>2. SameDecisions(r, mem[Api])
      BY <1>4, <2>2, <3>1 DEF Trails, SameDecisions
    <3>3. \A c \in Calls: Begun(c)' => Begun(c)
      BY <1>2, <1>4, <1>6, <1>7 DEF Begun
    <3>4. \A c \in Calls: Begun(c)' => Older(mem[Api], c, answer[c])
      BY <3>1, <3>3 DEF Trails
    <3>5. Trails'
      BY <1>2, <1>4, <2>1, <2>2, <3>1, <3>2, <3>4
         DEF Trails, SameDecisions, Older, Quiet, Undecided
    <3>6. QED
      BY <3>5 DEF ApiInv
  <2>3. CASE store.status = "cancelled"
    <3>1. Over
      BY <1>5, <2>3 DEF DInv, ApiInv, Leads, Trails
    <3>2. Over'
      BY <1>2, <1>4, <2>1, <2>3, <3>1 DEF Over, Quiet, Undecided, Closed
    <3>3. QED
      BY <3>2 DEF ApiInv
  <2>4. QED
    BY <1>5, <2>2, <2>3
<1>10. ActiveInv'
  <2>1. Agree(r, r) /\ SameDecisions(r, r)
    BY DEF Agree, SameDecisions
  <2>2. Active(d)' => Executing(d)
    BY <1>2 DEF Active, Executing
  <2>3. QED
    BY <1>2, <1>4, <1>5, <1>6, <2>1, <2>2
       DEF ActiveInv, Records, Agree, SameDecisions, Stands, Waits, Quiet, Undecided, Ready,
           Closed
<1>11. CallsInv'
  <2> SUFFICES ASSUME NEW q \in Dispatchers, NEW c \in Calls PROVE OneCall(q, c)'
    BY DEF CallsInv
  <2>1. sent'[c] = 0 => answer'[c] = "none"
    BY <1>2 DEF DInv, CallsInv, OneCall
  <2>2. CASE q # d
    BY <1>6, <2>1, <2>2 DEF OneCall
  <2>3. CASE q = d
    <3>1. OneCall(d, c)
      BY DEF DInv, CallsInv
    <3>2. /\ Stands(mem[d], c, answer[c]) => Stands(r, c, answer[c])
          /\ Older(mem[d], c, answer[c]) => Older(r, c, answer[c])
          /\ Closed(mem[d]) \/ c \notin mem[d].asked => Closed(r) \/ c \notin r.asked
      BY <1>1, <1>4 DEF Keeps
    <3>3. /\ call'[d][c] = IF call[d][c] = "started" THEN "recorded" ELSE call[d][c]
          /\ (ToMake(d, c)' <=> ToMake(d, c)) /\ (Executing(d)' <=> Executing(d))
          /\ work'[d] = work[d] /\ sent'[c] = sent[c] /\ answer'[c] = answer[c]
          /\ store' = r /\ mem'[d] = r
      BY <1>2, <1>7 DEF Executing
    <3>4. /\ Stands(mem[d], c, answer[c]) =>
               Stands(mem'[d], c, answer'[c]) /\ Stands(store', c, answer'[c])
          /\ Older(mem[d], c, answer[c]) =>
               Older(mem'[d], c, answer'[c]) /\ Older(store', c, answer'[c])
          /\ Closed(mem[d]) \/ c \notin mem[d].asked =>
               Closed(mem'[d]) \/ c \notin mem'[d].asked
      BY <3>2, <3>3
    <3>5. OneCall(d, c)'
      BY <3>1, <3>3, <3>4 DEF OneCall, Stands, Older, Closed
    <3>6. QED
      BY <2>3, <3>5
  <2>4. QED
    BY <2>2, <2>3
<1>12. Succeeds(store, r)
  <2>1. CASE store.status = "running"
    <3>1. ~Closed(r) => Generation(r) >= Generation(store)
      <4>1. store.lease = NoOwner /\ store.exec.gen \in Nat
        BY <1>1, <2>1 DEF DInv, StoreInv, Runs, Owners
      <4>2. QED
        BY <1>4, <2>1, <4>1 DEF Generation, NoOwner
    <3>2. ~Closed(store)
      BY <2>1 DEF Closed
    <3>3. QED
      BY <1>4, <2>1, <3>1, <3>2 DEF Succeeds, SameDecisions
  <2>2. CASE store.status = "cancelled"
    BY <1>4, <2>2 DEF Succeeds, Agree
  <2>3. QED
    BY <1>5, <2>1, <2>2
<1>13. QED
  BY <1>2, <1>8, <1>9, <1>10, <1>11, <1>12



\* The API writes its row.
LEMMA WriteApiDInv ==
  ASSUME DInv, ~InProcess, Write(Api)
  PROVE  StoreInv' /\ ApiInv' /\ ActiveInv' /\ CallsInv' /\ Succeeds(store, store')
<1> DEFINE r == Adopt(mem[Api], store)
<1>1. /\ TypeOK /\ Api \in Procs /\ \A d \in Dispatchers: d \in Procs /\ d # Api
      /\ store \in Runs /\ mem[Api] \in Runs
      /\ work \in [Dispatchers -> Segments]
      /\ call \in [Dispatchers -> [Calls -> Phases]]
  BY DTypes DEF DInv
<1>2. /\ dirty[Api] /\ store' = r /\ mem'[Api] = r /\ ~dirty'[Api]
      /\ \A d \in Dispatchers: mem'[d] = mem[d] /\ dirty'[d] = dirty[d]
      /\ \A d \in Dispatchers, c \in Calls: call'[d][c] = call[d][c]
      /\ UNCHANGED <<held, work, sent, answer>>
  BY <1>1, Written
<1>3. r = mem[Api]
  BY <1>2 DEF Adopt, DInv, ApiInv, Leads, Trails, Over, Waits, Closed
<1> HIDE DEF r
<1>4. \A d \in Dispatchers:
        /\ Executing(d)' = Executing(d) /\ Active(d)' = Active(d)
        /\ \A c \in Calls: ToMake(d, c)' = ToMake(d, c)
  BY <1>2 DEF Executing, Active, ToMake
<1>5. CASE Leads
  <2>1. /\ Waits(store) /\ (Waits(r) \/ Quiet(r)) /\ (Closed(r) \/ Ready(r))
        /\ \A c \in Calls: Final(store.approval[c]) => r.approval[c] = store.approval[c]
        /\ r.lease = NoOwner /\ r.exec = store.exec /\ store.lease = NoOwner
        /\ \A c \in Calls: sent[c] > 0 => Stands(r, c, answer[c])
    BY <1>3, <1>5 DEF DInv, StoreInv, Leads, Records
  <2>2. /\ ActiveInv' /\ CallsInv'
        /\ \A q \in Dispatchers, c \in Calls: ~ToMake(q, c)'
    <3>1. ASSUME NEW q \in Dispatchers
          PROVE  /\ ~dirty'[q] /\ work'[q].token = 0 /\ work'[q].todo = {}
                 /\ \A c \in Calls: call'[q][c] = "none"
      <4>1. ~Active(q)
        BY <2>1, NobodyActive DEF Waits
      <4>2. work[q].todo \subseteq Calls
        BY <1>1 DEF Segments
      <4>3. QED
        BY <1>2, <4>1, <4>2, NoCalls DEF DInv, Active
    <3>2. QED
      BY <1>2, <3>1, NobodyStep
  <2>3. StoreInv'
    <3>1. Waits(r) \/ r.status = "queued" => Ready(r)
      BY <2>1 DEF Waits, Closed
    <3>2. QED
      BY <1>2, <2>1, <3>1
         DEF StoreInv, Waits, Quiet, Undecided, Ready, Records, Stands, Closed, NoOwner
  <2>4. ApiInv'
    <3>1. CASE Waits(r)
      <4>1. Leads'
        BY <1>2, <2>1, <3>1
           DEF Leads, Waits, Quiet, Undecided, Ready, Records, Stands, Closed
      <4>2. QED
        BY <4>1 DEF ApiInv
    <3>2. CASE r.status = "cancelled"
      <4>1. Quiet(r)
        BY <2>1, <3>2 DEF Waits
      <4>2. Over'
        BY <1>2, <3>2, <4>1 DEF Over, Quiet, Undecided, Closed
      <4>3. QED
        BY <4>2 DEF ApiInv
    <3>3. CASE ~Waits(r) /\ r.status # "cancelled"
      <4>1. ASSUME NEW c \in Calls, Begun(c)' PROVE Older(r, c, answer[c])
        <5>1. CASE sent[c] > 0
          BY <2>1, <3>3, <5>1 DEF Stands, Older, Results
        <5>2. CASE r.status = "queued" /\ c \in r.asked /\ r.approval[c] = "approved"
          BY <2>1, <5>2 DEF Ready, Older, Closed
        <5>3. QED
          BY <1>2, <2>2, <4>1, <5>1, <5>2 DEF Begun
      <4>2. Trails'
        BY <1>2, <2>1, <3>3, <4>1 DEF Trails, SameDecisions, Older, Quiet, Undecided
      <4>3. QED
        BY <4>2 DEF ApiInv
    <3>4. QED
      BY <3>1, <3>2, <3>3
  <2>5. Succeeds(store, r)
    <3>1. ~Closed(store)
      BY <2>1 DEF Waits, Closed
    <3>2. Generation(r) = Generation(store) /\ Generation(store) \in Nat
      BY <1>1, <2>1, RowTypes DEF Generation
    <3>3. QED
      BY <2>1, <3>1, <3>2 DEF Succeeds
  <2>6. QED
    BY <1>2, <2>2, <2>3, <2>4, <2>5
<1>6. CASE Trails
  <2>1. /\ r.status = "cancelled" /\ Closed(r) /\ Quiet(r) /\ ~Waits(r)
        /\ SameDecisions(store, r) /\ store.status # "cancelled"
        /\ \A c \in Calls: Begun(c) => Older(r, c, answer[c])
    BY <1>2, <1>3, <1>6 DEF Trails, Closed, Waits
  <2>2. \A c \in Calls: Begun(c) => Stands(r, c, answer[c])
    BY <2>1 DEF Older, Stands
  <2>3. \A c \in Calls: sent[c] > 0 => Stands(r, c, answer[c])
    BY <2>2 DEF Begun
  <2>4. StoreInv'
    BY <1>2, <2>1, <2>3 DEF StoreInv, Waits, Quiet, Undecided, Ready, Records, Stands, Closed
  <2>5. ApiInv'
    BY <1>2, <2>1 DEF ApiInv, Over, Quiet, Undecided, Closed
  <2>6. ASSUME NEW q \in Dispatchers, Active(q)
        PROVE  /\ held[q] = NoClaim /\ Agree(r, mem[q])
               /\ \A x \in Dispatchers: Active(x) => x = q
               /\ \A c \in Calls: sent[c] > 0 => Stands(mem[q], c, answer[c])
               /\ Waits(mem[q]) \/ Quiet(mem[q])
               /\ Waits(mem[q]) => Ready(mem[q])
               /\ mem[q].status # "queued"
               /\ Executing(q) => mem[q].status \in {"running", "cancelled"}
    <3>1. store.status = "running" /\ SameDecisions(store, mem[q])
      BY <2>1, <2>6 DEF DInv, ActiveInv
    <3>2. Agree(r, mem[q])
      BY <2>1, <3>1 DEF SameDecisions, Agree, Final
    <3>3. QED
      BY <2>6, <3>2 DEF DInv, ActiveInv, Records
  <2>7. ActiveInv'
    BY <1>2, <1>4, <2>1, <2>6
       DEF ActiveInv, Records, Agree, SameDecisions, Stands, Waits, Quiet, Undecided, Ready,
           Closed
  <2>8. CallsInv'
    <3> SUFFICES ASSUME NEW q \in Dispatchers, NEW c \in Calls PROVE OneCall(q, c)'
      BY DEF CallsInv
    <3>1. OneCall(q, c)
      BY DEF DInv, CallsInv
    <3>2. ToMake(q, c) => Older(store', c, answer'[c]) /\ Stands(store', c, answer'[c])
      BY <1>2, <2>1, <2>2 DEF Begun
    <3>3. call[q][c] = "recorded" => ToMake(q, c)
      BY DEF ToMake
    <3>4. /\ mem'[q] = mem[q] /\ work'[q] = work[q] /\ call'[q][c] = call[q][c]
          /\ sent' = sent /\ answer' = answer
          /\ (ToMake(q, c)' <=> ToMake(q, c)) /\ (Executing(q)' <=> Executing(q))
      BY <1>2, <1>4
    <3>5. QED
      BY <3>1, <3>2, <3>3, <3>4 DEF OneCall, Older, Stands, Closed
  <2>9. Succeeds(store, r)
    BY <2>1 DEF Succeeds, SameDecisions, Final
  <2>10. QED
    BY <1>2, <2>4, <2>5, <2>7, <2>8, <2>9
<1>7. ~Over
  BY <1>2 DEF Over
<1>8. QED
  BY <1>5, <1>6, <1>7 DEF DInv, ApiInv

\* A dispatcher takes over the row of the storage.
LEMMA SyncDInv ==
  ASSUME DInv, ~InProcess, NEW d \in Dispatchers, Sync(d)
  PROVE  StoreInv' /\ ApiInv' /\ ActiveInv' /\ CallsInv'
<1>1. /\ TypeOK /\ d \in Procs /\ Api \in Procs /\ Api # d
      /\ \A q \in Dispatchers: q \in Procs
      /\ answer \in [Calls -> {"none"} \cup Results]
  BY DTypes DEF DInv
<1>2. /\ ~dirty[d] /\ mem[d] # store /\ mem' = [mem EXCEPT ![d] = store]
      /\ UNCHANGED <<store, dirty, held, work, call, sent, answer>>
  BY DEF Sync, history
<1>3. CASE ~Active(d)
  <2>1. held' = [held EXCEPT ![d] = held[d]]
    BY <1>2, DTypes DEF DInv
  <2>2. QED
    BY <1>2, <1>3, <2>1, IdleStep
<1>4. CASE Active(d)
  <2>1. store.status = "cancelled" /\ Executing(d) /\ held[d] = NoClaim
    BY <1>2, <1>4 DEF DInv, ActiveInv, Active
  <2>2. /\ mem'[d] = store /\ \A q \in Procs \ {d}: mem'[q] = mem[q]
    BY <1>1, <1>2, DTypes DEF DInv
  <2>3. \A q \in Dispatchers:
          /\ Executing(q)' = Executing(q) /\ Active(q)' = Active(q)
          /\ \A c \in Calls: ToMake(q, c)' = ToMake(q, c)
    BY <1>2 DEF Executing, Active, ToMake
  <2>4. StoreInv'
    BY <1>2 DEF DInv, StoreInv, Waits, Quiet, Undecided, Ready, Records, Stands, Closed
  <2>5. ApiInv'
    <3>1. Over
      BY <2>1 DEF DInv, ApiInv, Leads, Trails, Waits
    <3>2. mem'[Api] = mem[Api]
      BY <1>1, <2>2
    <3>3. QED
      BY <1>2, <3>1, <3>2 DEF ApiInv, Over, Quiet, Undecided, Closed
  <2>6. Quiet(store) /\ ~Waits(store) /\ Agree(store, store) /\ Closed(store)
        /\ \A c \in Calls: sent[c] > 0 => Stands(store, c, answer[c])
    BY <2>1 DEF DInv, StoreInv, Waits, Agree, Closed, Records
  <2>7. \A q \in Dispatchers: Active(q)' => q = d
    BY <1>4, <2>3, Alone
  <2>8. ActiveInv'
    BY <1>2, <2>1, <2>2, <2>6, <2>7
       DEF ActiveInv, Records, Agree, SameDecisions, Stands, Waits, Quiet, Undecided, Ready,
           Closed
  <2>9. CallsInv'
    <3> SUFFICES ASSUME NEW q \in Dispatchers, NEW c \in Calls PROVE OneCall(q, c)'
      BY DEF CallsInv
    <3>1. OneCall(q, c)
      BY DEF DInv, CallsInv
    <3>2. CASE q # d
      <4>1. mem'[q] = mem[q]
        BY <1>1, <2>2, <3>2
      <4>2. QED
        BY <1>2, <2>3, <3>1, <4>1 DEF OneCall, Older, Stands, Closed
    <3>3. CASE q = d
      <4>1. ToMake(d, c) => Older(store, c, answer[c]) /\ Stands(store, c, answer[c])
        BY <2>1, <2>6, <3>1, <3>3 DEF OneCall, Older, Stands
      <4>2. call[d][c] \in {"started", "recorded"} => ToMake(d, c)
        BY DEF ToMake
      <4>3. QED
        BY <1>2, <2>2, <2>3, <2>6, <3>1, <3>3, <4>1, <4>2 DEF OneCall, Older, Stands, Closed
    <3>4. QED
      BY <3>2, <3>3
  <2>10. QED
    BY <2>4, <2>5, <2>8, <2>9
<1>5. QED
  BY <1>3, <1>4

\* A process dies, or the API takes over the row of the storage.
LEMMA CrashDInv ==
  ASSUME DInv, ~InProcess, NEW p \in Procs, Crash(p) \/ (Sync(p) /\ p = Api)
  PROVE  StoreInv' /\ ApiInv' /\ ActiveInv' /\ CallsInv' /\ store' = store
<1>1. /\ mem \in [Procs -> Runs] /\ dirty \in [Procs -> BOOLEAN]
      /\ held \in [Dispatchers -> Claims]
      /\ work \in [Dispatchers -> Segments] /\ call \in [Dispatchers -> [Calls -> Phases]]
      /\ Executors = Dispatchers /\ Procs = {Api} \cup Dispatchers /\ Api \notin Dispatchers
  BY DTypes DEF DInv
<1>2. /\ store' = store /\ mem' = [mem EXCEPT ![p] = store] /\ ~dirty'[p]
      /\ \A q \in Procs \ {p}: dirty'[q] = dirty[q]
      /\ UNCHANGED <<sent, answer>>
  BY <1>1 DEF Crash, Sync, history
<1>3. CASE p = Api
  <2>1. UNCHANGED <<held, work, call>>
    BY <1>1, <1>3 DEF Crash, Sync
  <2>2. QED
    BY <1>1, <1>2, <1>3, <2>1, ApiReads
<1>4. CASE p \in Dispatchers
  <2>1. /\ work' = [work EXCEPT ![p] = NoSegment]
        /\ call' = [call EXCEPT ![p] = [c \in Calls |-> "none"]]
        /\ held' = [d \in Dispatchers |-> IF d = p THEN NoClaim ELSE held[d]]
    BY <1>1, <1>4 DEF Crash
  <2>2. /\ work'[p].token = 0 /\ work'[p].todo = {} /\ \A c \in Calls: call'[p][c] = "none"
        /\ \A q \in Dispatchers \ {p}:
             work'[q] = work[q] /\ call'[q] = call[q] /\ held'[q] = held[q]
    BY <1>1, <1>4, <2>1 DEF NoSegment
  <2>3. \A q \in Procs \ {p}: mem'[q] = mem[q] /\ dirty'[q] = dirty[q]
    BY <1>1, <1>2
  <2>4. QED
    BY <1>2, <1>4, <2>2, <2>3, InactiveStep
<1>5. QED
  BY <1>1, <1>3, <1>4



\* No step creates a task.
LEMMA NoTasksStep ==
  ASSUME NoTasks, ~InProcess, Next
  PROVE  NoTasks' /\ \A kind \in Kinds: ~Start(kind)
<1>1. ASSUME NEW p \in Executors, NEW c \in Calls, CallStep(p, c) PROVE NoTasks'
  BY <1>1, CallFrame DEF NoTasks, scheduled
<1>2. ASSUME NEW p \in Executors, SegmentEnds(p) PROVE NoTasks'
  BY <1>2, SegmentFrame DEF NoTasks, scheduled
<1>3. ASSUME Operate PROVE NoTasks'
  BY <1>3, OperateFrame DEF NoTasks, scheduled
<1>4. ASSUME NEW d \in Dispatchers, Claim(d) \/ Begin(d) \/ BeginFails(d)
      PROVE  NoTasks'
  BY <1>4 DEF NoTasks, Claim, Begin, BeginFails, scheduled
<1>5. \A kind \in Kinds: ~Start(kind)
  BY DEF NoTasks, Start
<1>6. ASSUME Expire \/ ExpireHeld \/ WriteFails PROVE NoTasks'
  BY <1>6 DEF NoTasks, Expire, ExpireHeld, Expired, WriteFails, scheduled
<1>7. ASSUME NEW p \in Procs, Write(p) \/ Sync(p) \/ Crash(p) PROVE NoTasks'
  BY <1>7 DEF NoTasks, Write, Sync, Crash, scheduled
<1>8. QED
  BY <1>1, <1>2, <1>3, <1>4, <1>5, <1>6, <1>7, ActionCases

\* The inductive invariant, and what a step does to the storage.
LEMMA DispatchInductive ==
  ASSUME DInv, IsDispatched, [Next]_vars
  PROVE  DInv' /\ Succeeds(store, store')
<1>1. ~InProcess /\ Executors = Dispatchers /\ Procs = {Api} \cup Dispatchers
      /\ store \in Runs
  BY DTypes DEF IsDispatched, DInv
<1>2. ASSUME store' = store PROVE Succeeds(store, store')
  BY <1>1, <1>2, RowTypes DEF Succeeds
<1>3. CASE UNCHANGED vars
  <2>1. UNCHANGED <<rows, held, work, call, sent, answer, tasks, due>> /\ store' = store
    BY <1>3 DEF vars, rows
  <2>2. StoreInv' /\ ApiInv' /\ ActiveInv' /\ CallsInv'
    BY <1>1, <2>1, SameStep
  <2>3. TypeOK' /\ NoTasks'
    BY <1>3 DEF DInv, TypeOK, NoTasks, vars
  <2>4. QED
    BY <1>2, <2>1, <2>2, <2>3 DEF DInv
<1>4. CASE Next
  <2>1. TypeOK' /\ NoTasks' /\ \A kind \in Kinds: ~Start(kind)
    BY <1>1, <1>4, NoTasksStep, RowsType, OthersType DEF DInv, TypeOK, RowsOK, OthersOK
  <2>2. ASSUME NEW d \in Dispatchers, NEW c \in Calls, CallStep(d, c)
        PROVE  StoreInv' /\ ApiInv' /\ ActiveInv' /\ CallsInv'
    BY <1>1, <2>2, CallStepDInv
  <2>3. ASSUME NEW d \in Dispatchers, SegmentEnds(d)
        PROVE  StoreInv' /\ ApiInv' /\ ActiveInv' /\ CallsInv'
    <3>1. Executing(d)
      BY <1>1, <2>3, SegmentFrame
    <3>2. QED
      BY <1>1, <2>3, <3>1, SegmentDInv
  <2>4. ASSUME Expire \/ ExpireHeld \/ WriteFails
        PROVE  StoreInv' /\ ApiInv' /\ ActiveInv' /\ CallsInv'
    <3>1. UNCHANGED <<rows, held, work, call, sent, answer>>
      BY <2>4 DEF Expire, ExpireHeld, Expired, WriteFails, history
    <3>2. QED
      BY <1>1, <3>1, SameStep
  <2>5. ASSUME NEW p \in Procs, Write(p) \/ Sync(p) \/ Crash(p)
        PROVE  StoreInv' /\ ApiInv' /\ ActiveInv' /\ CallsInv'
    BY <1>1, <2>5, WriteDInv, WriteApiDInv, SyncDInv, CrashDInv
  <2>6. StoreInv' /\ ApiInv' /\ ActiveInv' /\ CallsInv'
    BY <1>1, <1>4, <2>1, <2>2, <2>3, <2>4, <2>5, OperateDInv, ClaimDInv, BeginDInv,
       BeginFailsDInv, ActionCases
  <2>7. Succeeds(store, store') \/ store' = store
    BY <1>1, <1>4, StoreUnchanged, ClaimDInv, BeginDInv, WriteDInv, WriteApiDInv
  <2>8. QED
    BY <1>2, <2>1, <2>6, <2>7 DEF DInv
<1>5. QED
  BY <1>3, <1>4

\* A call goes out when its approval is in the storage, for the first time.
LEMMA DispatchSends ==
  ASSUME DInv, IsDispatched, [Next]_vars
  PROVE  \/ sent' = sent
         \/ \E c \in Calls: /\ store.approval[c] = "approved" /\ sent[c] = 0
                            /\ sent' = [sent EXCEPT ![c] = 1]
                            /\ store' = store
<1>1. ~InProcess /\ Executors = Dispatchers
  BY DTypes DEF IsDispatched, DInv
<1>2. ASSUME NEW d \in Dispatchers, NEW c \in Calls, Send(d, c)
      PROVE  /\ store.approval[c] = "approved" /\ sent[c] = 0
             /\ sent' = [sent EXCEPT ![c] = 1] /\ store' = store
  <2>1. OneCall(d, c) /\ call[d][c] = "recorded"
    BY <1>2 DEF Send, DInv, CallsInv
  <2>2. Stands(store, c, answer[c]) /\ sent[c] = 0
    BY <2>1 DEF OneCall, ToMake
  <2>3. QED
    BY <1>2, <2>2 DEF Send, Stands, rows
<1>3. CASE UNCHANGED vars
  BY <1>3 DEF vars
<1>4. CASE Next /\ ~\E p \in Executors, c \in Calls: Send(p, c)
  BY <1>4, SentUnchanged
<1>5. QED
  BY <1>1, <1>2, <1>3, <1>4

\* The run as it is created.
LEMMA DispatchInit ==
  ASSUME Init, IsDispatched
  PROVE  DInv
<1>1. TypeOK /\ Executors = Dispatchers /\ ~InProcess
  BY InitType, DTypes DEF IsDispatched
<1>2. /\ store = NewRun /\ \A p \in Procs: mem[p] = NewRun /\ ~dirty[p]
      /\ \A d \in Dispatchers: work[d] = NoSegment /\ \A c \in Calls: call[d][c] = "none"
      /\ \A c \in Calls: sent[c] = 0 /\ answer[c] = "none"
      /\ tasks = {} /\ due = {}
  BY <1>1 DEF Init
<1>3. /\ NewRun.status = "queued" /\ NewRun.lease = NoOwner /\ NewRun.asked = {}
      /\ NewRun.question = "none" /\ \A c \in Calls: NewRun.approval[c] = "none"
  BY DEF NewRun
<1>4. Quiet(NewRun) /\ ~Waits(NewRun) /\ Ready(NewRun)
  BY <1>3 DEF Quiet, Undecided, Waits, Ready
<1>5. StoreInv
  BY <1>2, <1>3, <1>4 DEF StoreInv, Records, NoOwner
<1>6. \A d \in Dispatchers:
        ~Active(d) /\ ~Executing(d) /\ \A c \in Calls: ~ToMake(d, c)
  BY <1>2 DEF Active, Executing, ToMake, NoSegment, Procs
<1>7. ActiveInv /\ CallsInv
  BY <1>2, <1>6 DEF ActiveInv, CallsInv, OneCall
<1>8. ApiInv
  <2>1. mem[Api] = NewRun /\ ~dirty[Api]
    BY <1>2 DEF Procs
  <2>2. \A c \in Calls: ~Begun(c)
    BY <1>2, <1>3, <1>6 DEF Begun
  <2>3. QED
    BY <1>2, <1>3, <1>4, <2>1, <2>2 DEF ApiInv, Trails, SameDecisions
<1>9. QED
  BY <1>1, <1>2, <1>5, <1>7, <1>8 DEF DInv, NoTasks

\* The inductive invariant holds throughout, in the dispatcher mode.
THEOREM DispatchInvariant ==
  ASSUME IsDispatched
  PROVE  Spec => []DInv
<1>1. Init => DInv
  BY DispatchInit
<1>2. DInv /\ [Next]_vars => DInv'
  BY DispatchInductive
<1>3. QED
  BY <1>1, <1>2, PTL DEF Spec


-------------------------------------------------------------------------------
(* What holds in both modes.  With dispatchers and an API that also writes    *)
(* the row for a reason of its own, none of it does.                          *)

\* The API executes the run itself, or writes decisions and cancellations only.
NoForeignWrites == InProcess \/ ~Renames
BothInv == IF InProcess THEN IInv ELSE DInv

\* The inductive invariant of each mode holds throughout.
THEOREM InvariantOfMode ==
  ASSUME NoForeignWrites
  PROVE  Spec => []BothInv
<1>1. CASE InProcess
  <2>1. IInv => BothInv
    BY <1>1 DEF BothInv
  <2>2. QED
    BY <1>1, <2>1, InvariantHolds, PTL
<1>2. CASE IsDispatched
  <2>1. DInv => BothInv
    BY <1>2 DEF BothInv, IsDispatched
  <2>2. QED
    BY <1>2, <2>1, DispatchInvariant, PTL
<1>3. QED
  BY <1>1, <1>2 DEF NoForeignWrites, IsDispatched

\* What a step does to the stored row and to the calls sent, in both modes.
LEMMA StepOfMode ==
  ASSUME NoForeignWrites, BothInv, [Next]_vars
  PROVE  /\ store' \in Runs /\ Succeeds(store, store')
         /\ \/ sent' = sent
            \/ \E c \in Calls: /\ store.approval[c] = "approved" /\ sent[c] = 0
                               /\ sent' = [sent EXCEPT ![c] = 1]
                               /\ store' = store
<1>1. CASE InProcess
  <2>1. /\ store \in Runs /\ store' \in Runs /\ Behind(store, store')
    BY <1>1, StoreSteps, Inductive DEF BothInv, IInv, TypeOK
  <2>2. Generation(store') >= Generation(store)
    <3>1. /\ store.lease = NoOwner /\ store'.lease = NoOwner
          /\ store'.exec.gen >= store.exec.gen
          /\ store.exec.gen \in Nat /\ store'.exec.gen \in Nat
      BY <2>1 DEF Behind, Runs, Owners
    <3>2. QED
      BY <3>1 DEF Generation, NoOwner
  <2>3. Succeeds(store, store')
    BY <2>1, <2>2 DEF Behind, Succeeds, Closed
  <2>4. QED
    BY <1>1, <2>1, <2>3, StoreSteps DEF BothInv
<1>2. CASE IsDispatched
  <2>1. DInv' /\ Succeeds(store, store')
    BY <1>2, DispatchInductive DEF BothInv, IsDispatched
  <2>2. QED
    BY <1>2, <2>1, DispatchSends DEF BothInv, IsDispatched, DInv, TypeOK
<1>3. QED
  BY <1>1, <1>2 DEF NoForeignWrites, IsDispatched

\* A write that was sent stays on record, with no result but the one that came
\* back, over crashes, cancellations and failed writes.
THEOREM StepsAreTruthful ==
  ASSUME NoForeignWrites
  PROVE  Spec => []TruthfulSteps
<1>1. IInv => TruthfulSteps
  BY DEF IInv, CallInv, OneCallInv, Gone, TruthfulSteps
<1>2. DInv => TruthfulSteps
  BY DEF DInv, StoreInv, Records, Stands, TruthfulSteps
<1>3. BothInv => TruthfulSteps
  BY <1>1, <1>2 DEF BothInv
<1>4. QED
  BY <1>3, InvariantOfMode, PTL

\* The run is executed by one process at a time, and neither a task nor a claim
\* begins it while it is executed. (run_claim)
THEOREM ExecutionsDoNotOverlap ==
  ASSUME NoForeignWrites
  PROVE  Spec => []NoOverlap
<1>1. InProcess /\ IInv => NoOverlap
  BY DEF IInv, RowInv, Closed, NoOverlap, InProcess, Executors
<1>2. ASSUME ~InProcess, DInv PROVE NoOverlap
  <2>1. Executors = Dispatchers
    BY <1>2, DTypes DEF DInv
  <2>2. \A p, q \in Dispatchers: Executing(p) /\ Executing(q) => p = q
    BY <1>2 DEF DInv, ActiveInv, Active
  <2>3. ASSUME NEW d \in Dispatchers, MayBegin(store, held[d]), NEW p \in Dispatchers
        PROVE  ~Executing(p)
    BY <1>2, <2>3, NobodyActive DEF MayBegin, Active
  <2>4. QED
    BY <1>2, <2>1, <2>2, <2>3 DEF NoOverlap
<1>3. BothInv => NoOverlap
  BY <1>1, <1>2 DEF BothInv
<1>4. QED
  BY <1>3, InvariantOfMode, PTL

\* The generation never goes back: a claim continues from all earlier ones.
THEOREM GenerationsDoGrow ==
  ASSUME NoForeignWrites
  PROVE  Spec => GenerationsGrow
<1>1. BothInv /\ [Next]_vars =>
        [~Closed(store') => Generation(store') >= Generation(store)]_vars
  BY StepOfMode DEF Succeeds
<1>2. QED
  BY <1>1, InvariantOfMode, PTL DEF Spec, GenerationsGrow

\* The run keeps its ledger: decisions and the end stand, and a call is sent at
\* most once, after its approval is stored.
THEOREM KeepsTheLedger ==
  ASSUME NoForeignWrites
  PROVE  Spec => Implements
<1>1. Init => Ledger!Init
  BY DEF Init, Ledger!Init, NewRun, Closed
<1>2. ASSUME BothInv, [Next]_vars PROVE [Ledger!Next]_(Ledger!lvars)
  <2>1. store' \in Runs /\ Succeeds(store, store')
    BY <1>2, StepOfMode
  <2>2. CASE sent' = sent
    <3>1. Ledger!Advance
      BY <2>1, <2>2
         DEF Ledger!Advance, Ledger!Final, Ledger!Decisions, Succeeds, Final, Closed, Runs
    <3>2. QED
      BY <3>1 DEF Ledger!Next
  <2>3. CASE \E c \in Calls: /\ store.approval[c] = "approved" /\ sent[c] = 0
                             /\ sent' = [sent EXCEPT ![c] = 1]
                             /\ store' = store
    BY <2>3 DEF Ledger!Next, Ledger!Send, Closed
  <2>4. QED
    BY <1>2, <2>2, <2>3, StepOfMode
<1>3. QED
  BY <1>1, <1>2, InvariantOfMode, PTL DEF Spec, Implements, Ledger!Spec

\* A call is sent at most once and never without an approval in the storage.
\* (external_writes, rule 4)
THEOREM WritesAreSentOnce ==
  ASSUME NoForeignWrites
  PROVE  Spec => []Ledger!SentOnceApproved
  BY KeepsTheLedger, Ledger!LedgerSafe, PTL DEF Implements
===============================================================================
