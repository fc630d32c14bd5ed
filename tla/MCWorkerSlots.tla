---------------------------- MODULE MCWorkerSlots -----------------------------
(* Small instances of the slots of a worker: MaxFaults bounds the failures and *)
(* the steps of others together.                                              *)
EXTENDS WorkerSlots

CONSTANTS h1, h2, l1, MaxFaults

ByAge == [j \in Jobs |-> CASE j = h1 -> 1 [] j = h2 -> 2 [] OTHER -> 3]

VARIABLE faults

MCInit == Init /\ faults = 0
MCNext ==
    \/ Work /\ faults' = faults
    \/ (\E j \in Jobs: Fault(j)) /\ faults < MaxFaults /\ faults' = faults + 1
MCFairSpec == MCInit /\ [][MCNext]_<<vars, faults>> /\ Fairness
===============================================================================
