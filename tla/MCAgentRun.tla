----------------------------- MODULE MCAgentRun -------------------------------
(* Instances of the agent run.  A crash can undo a decision that was not yet  *)
(* written, and a run can be claimed again and again, so the crashes, the     *)
(* failed begins and the expiries of a held claim are bounded together by     *)
(* MaxFaults; nothing else is.                                                *)
EXTENDS AgentRun, TLC

CONSTANTS c1, c2, d1, d2, MaxFaults

Symmetry == Permutations(Calls)

VARIABLE faults

MCInit == Init /\ faults = 0
MCNext ==
    \/ Work /\ faults' = faults
    \/ Fault /\ faults < MaxFaults /\ faults' = faults + 1
MCSpec == MCInit /\ [][MCNext]_<<vars, faults>>
MCFairSpec == MCSpec /\ Fairness
===============================================================================
