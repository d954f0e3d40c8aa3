----------------------------- MODULE MCSoloMining -----------------------------
(* SoloMining with two templates two seconds apart, one of which lets the time *)
(* be rolled, two ranges and two extra nonces.  The later time is the last a   *)
(* header can hold, so that one plan stops rolling at its own limit and the    *)
(* other at that of the header.                                                *)
EXTENDS SoloMining

CONSTANTS t1, t2

MCTemplates == {t1, t2}

MCTemplateOf == [t \in MCTemplates |-> IF t = t1 THEN [time |-> 0, mutable |-> TRUE]
                                       ELSE [time |-> 2, mutable |-> FALSE]]

MCPlans ==
    {[max_chunks |-> 9, max_time_roll_seconds |-> 1, submits |-> TRUE],
     [max_chunks |-> 0, max_time_roll_seconds |-> 3, submits |-> FALSE]}

===============================================================================
