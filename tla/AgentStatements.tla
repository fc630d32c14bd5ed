--------------------------- MODULE AgentStatements ----------------------------
(* Statements of the agent's documentation and comments that the code does    *)
(* not keep; each is checked by a run that shows how.                         *)
EXTENDS MCAgentRun

\* run_claim: the executions of a run do not overlap in one storage, and
\* external_writes rule 4: an approved call is not sent again when it comes back.
SentOnce == \A c \in Calls: sent[c] <= 1

\* builtin_run_ended: an execution is stopped only if the run has ended or has
\* been begun by another execution; in one process there is no other.
RunningIsExecuted ==
    InProcess /\ mem[Api].status = "running" => Executing(Api)
===============================================================================
