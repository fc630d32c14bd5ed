---------------------------- MODULE MCLoginThrottle ----------------------------
(* Small instances of the login throttle: the clock stops at MaxClock.        *)
EXTENDS LoginThrottle, TLC

CONSTANT MaxClock

VARIABLE troubled     \* a call has failed or a process has ended

MCInit == Init /\ troubled = FALSE
MCNext ==
    /\ \/ (Work \/ Tick) /\ troubled' = troubled
       \/ Fault /\ troubled' = TRUE
    /\ clock' <= MaxClock
FaultySpec == MCInit /\ [][MCNext]_<<vars, troubled>>
FaultyFairSpec == FaultySpec /\ Fairness

\* As long as no call fails, attempts that were refused, called off or successful
\* leave no row behind.  (release, clear, login_throttle.py:250-269)
CalmLeavesNoResidue == ~troubled => NoResidue

Symmetry == Permutations(Attempts) \cup Permutations(Processes) \cup Permutations(Users)
===============================================================================
