------------------------------- MODULE RunLedger ------------------------------
(* What an agent run promises about the external writes that need the user's  *)
(* approval, whatever its processes do: a decision once made stands, nothing  *)
(* is approved after the end of the run, the end is final, and a call is sent *)
(* at most once, after its approval is on record.                             *)
EXTENDS Integers, TLAPS

CONSTANT Calls

VARIABLES
    decision,   \* the decision on each call
    closed,     \* the run has ended
    sends       \* how often each call was sent

lvars == <<decision, closed, sends>>

Decisions == {"none", "pending", "approved", "rejected", "cancelled"}

Init ==
    /\ decision = [c \in Calls |-> "none"]
    /\ closed = FALSE
    /\ sends = [c \in Calls |-> 0]

Final(d) == d \in {"approved", "rejected", "cancelled"}

\* The record of the run is written: any number of decisions, or the end.
Advance ==
    /\ decision' \in [Calls -> Decisions]
    /\ \A c \in Calls: Final(decision[c]) => decision'[c] = decision[c]
    /\ closed' \in BOOLEAN
    /\ closed => closed'
    /\ closed => \A c \in Calls: decision'[c] = "approved" => decision[c] = "approved"
    /\ UNCHANGED sends

\* A call goes out.
Send(c) ==
    /\ decision[c] = "approved"
    /\ sends[c] = 0
    /\ sends' = [sends EXCEPT ![c] = 1]
    /\ UNCHANGED <<decision, closed>>

Next == Advance \/ \E c \in Calls: Send(c)
Spec == Init /\ [][Next]_lvars


-------------------------------------------------------------------------------
(* What follows from it *)

\* A call is sent at most once, and only with an approval that still stands.
SentOnceApproved ==
    \A c \in Calls: /\ sends[c] \in {0, 1}
                    /\ sends[c] = 1 => decision[c] = "approved"

Inv ==
    /\ decision \in [Calls -> Decisions]
    /\ closed \in BOOLEAN
    /\ sends \in [Calls -> Nat]
    /\ SentOnceApproved

\* Whoever keeps the ledger sends every call at most once and none without an
\* approval. (external_writes, rule 4)
THEOREM LedgerSafe == Spec => [](SentOnceApproved)
<1>1. ASSUME Init
      PROVE  Inv
  <2>1. decision \in [Calls -> Decisions] /\ closed \in BOOLEAN /\ sends \in [Calls -> Nat]
    BY <1>1 DEF Init, Decisions
  <2>2. \A c \in Calls: sends[c] = 0
    BY <1>1 DEF Init
  <2> QED
    BY <2>1, <2>2 DEF Inv, SentOnceApproved
<1>2. ASSUME Inv, Advance
      PROVE  Inv'
  <2>1. /\ decision' \in [Calls -> Decisions] /\ closed' \in BOOLEAN /\ sends' = sends
        /\ \A c \in Calls: Final(decision[c]) => decision'[c] = decision[c]
    BY <1>2 DEF Advance
  <2>2. SentOnceApproved'
    BY <1>2, <2>1 DEF Inv, SentOnceApproved, Final
  <2> QED
    BY <1>2, <2>1, <2>2 DEF Inv
<1>3. ASSUME Inv, NEW c \in Calls, Send(c)
      PROVE  Inv'
  BY <1>3 DEF Inv, Send, SentOnceApproved
<1>4. Inv /\ UNCHANGED lvars => Inv'
  BY DEF Inv, lvars, SentOnceApproved
<1>5. Inv /\ [Next]_lvars => Inv'
  BY <1>2, <1>3, <1>4 DEF Next
<1>6. Inv => SentOnceApproved
  BY DEF Inv
<1> QED
  BY <1>1, <1>5, <1>6, PTL DEF Spec
===============================================================================
