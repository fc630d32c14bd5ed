--------------------------- MODULE MCIngestionFaults --------------------------
(* The ingestion queue with a bound on the number of faults (deaths, errors,  *)
(* expiries, worker stops) and on nothing else.                               *)
EXTENDS MCIngestionQueue

CONSTANTS j3, MaxFaults

\* Two jobs of one recipe beside a third of another recipe of the document.
ThreeJobs == [j \in Jobs |-> IF j = j3 THEN r2 ELSE r1]

VARIABLE faults

MCInit == Init /\ faults = 0
MCNext ==
    \/ Work /\ faults' = faults
    \/ Fault /\ faults < MaxFaults /\ faults' = faults + 1
MCSpec == MCInit /\ [][MCNext]_<<vars, faults>>
MCFairSpec == MCSpec /\ Fairness
===============================================================================
