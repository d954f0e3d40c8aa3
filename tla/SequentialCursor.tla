--------------------------- MODULE SequentialCursor ---------------------------
(***************************************************************************)
(* mining/strategy.py, SequentialSearchCursor: contiguous ascending parent *)
(* ranges.  `issued' is a history variable: the assignments returned.      *)
(***************************************************************************)
EXTENDS ParentRanges

VARIABLES
    domain,             \* constructor arguments, never reassigned
    next_nonce,
    assignment_index,
    issued

vars == <<domain, next_nonce, assignment_index, issued>>

exhausted == next_nonce = domain.limit

Init ==
    /\ domain \in Domains
    /\ next_nonce = domain.start
    /\ assignment_index = 0
    /\ issued = <<>>

NextStop(d, start) == Smaller(start + d.chunk, d.limit)

\* Advances by one nonce too few: the next range overlaps this one.
NextAssignmentOverlapping ==
    /\ ~exhausted
    /\ LET stop == NextStop(domain, next_nonce)
       IN  /\ issued' = Append(issued, [index |-> assignment_index,
                                        start |-> next_nonce,
                                        stop  |-> stop])
           /\ next_nonce' = IF stop = domain.limit THEN stop
                            ELSE Smaller(stop, next_nonce + 1)
    /\ assignment_index' = assignment_index + 1
    /\ UNCHANGED domain

NextAssignment ==
    /\ ~exhausted
    /\ LET stop == NextStop(domain, next_nonce)
       IN  /\ issued' = Append(issued, [index |-> assignment_index,
                                        start |-> next_nonce,
                                        stop  |-> stop])
           /\ next_nonce' = stop
    /\ assignment_index' = assignment_index + 1
    /\ UNCHANGED domain

\* After exhaustion every further call returns None and changes nothing.
NextAssignmentNone ==
    /\ exhausted
    /\ UNCHANGED vars

Next == NextAssignment \/ NextAssignmentNone

Spec == Init /\ [][Next]_vars

-------------------------------------------------------------------------------

TypeOK ==
    /\ domain \in Domains
    /\ next_nonce \in domain.start .. domain.limit
    /\ assignment_index \in Nat
    /\ issued \in Seq(Assignments)

\* What was issued is exactly the prefix below next_nonce, one assignment per
\* index: the strengthening from which coverage follows.
IssuedPrefix ==
    /\ CoveredBy(issued) = domain.start .. next_nonce - 1
    /\ Len(issued) = assignment_index

Cover == INSTANCE NonceCover WITH covered <- CoveredBy(issued)

\* Every step hands out fresh nonces and exhaustion is reported at once.
CoverSpec == Cover!Spec
===============================================================================
