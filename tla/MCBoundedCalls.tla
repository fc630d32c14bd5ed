---------------------------- MODULE MCBoundedCalls ----------------------------
(* The rules of four kinds of failures, one of each way the default rules     *)
(* treat them: a limited rate, a service that is down, refused credentials,   *)
(* an input too large for the service.                                        *)
EXTENDS BoundedCalls

CONSTANTS limited, down, denied, large

Rule(retriesOf, flags) ==
    [f \in {"retries", "job", "throttle", "breaker", "final", "refresh", "adaptive"} |->
        IF f = "retries" THEN retriesOf ELSE f \in flags]

MCRules ==
    [k \in Kinds |-> CASE k = limited -> Rule(1, {"throttle", "final"})
                       [] k = down    -> Rule(2, {"breaker", "final"})
                       [] k = denied  -> Rule(1, {"job", "refresh"})
                       [] k = large    -> Rule(1, {"adaptive"})]

-------------------------------------------------------------------------------
(* Fairness, told by what the states show: evaluating ENABLED for the steps   *)
(* of a call costs TLC more than all the rest.                                *)

\* One step of c is enabled as long as nothing changes pc[c] or its delay.
CanStep(c) == AtTop(c) \/ InFlight(c) \/ pc[c] = "refreshing"
MapIsOver == \A c \in Items: pc[c] = "ended"
clocks == <<pause, guard, late, sleep>>

\* Follows from Fairness: whatever can go on does so in the end.  Of the steps
\* of a call only Doze leaves pc[c] alone, and it ends CanStep(c).
MCFairness ==
    /\ \A c \in Calls: []<>(~CanStep(c)) \/ []<><<pc'[c] # pc[c]>>_pc
    /\ \A c \in Items: []<>(pc[c] = "ended" \/ ~stopping)
    /\ []<>(~MapIsOver \/ round \in {"returned", "raised"})
    /\ \/ []<>(late /\ pause = 0 /\ guard = 0 /\ \A c \in Calls: sleep[c] = 0)
       \/ []<><<Tick>>_clocks

MCSpec == Spec /\ MCFairness
===============================================================================
