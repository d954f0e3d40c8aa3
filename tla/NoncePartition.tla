---------------------------- MODULE NoncePartition ----------------------------
(***************************************************************************)
(* compute/parallel.py, partition_nonce_range: one parent nonce range cut  *)
(* into balanced ascending assignments, one per worker (native-parallel)   *)
(* or per device (cuda-multi).                                             *)
(***************************************************************************)
EXTENDS Integers

Lesser(a, b) == IF a < b THEN a ELSE b

\* No worker is given an empty range.
AssignmentCount(start, stop, workers) == Lesser(workers, stop - start)

BaseSize(start, stop, workers) ==
    (stop - start) \div AssignmentCount(start, stop, workers)

LargerAssignments(start, stop, workers) ==
    (stop - start) % AssignmentCount(start, stop, workers)

\* Where the loop's assignment_start is after `index' assignments: each added
\* BaseSize, and one more nonce while the larger ones last.
AssignmentStart(start, stop, workers, index) ==
    start + index * BaseSize(start, stop, workers)
          + Lesser(index, LargerAssignments(start, stop, workers))

\* Numbered from 1, as the worker or device that runs them.
PartitionNonceRange(start, stop, workers) ==
    [i \in 1 .. AssignmentCount(start, stop, workers) |->
        [start |-> AssignmentStart(start, stop, workers, i - 1),
         stop  |-> AssignmentStart(start, stop, workers, i)]]

NoncesIn(range) == range.start .. range.stop - 1

\* What the reduction adds up over n assignments, one after another.
Total(counts, n) ==
    LET upTo[i \in 0 .. n] == IF i = 0 THEN 0 ELSE upTo[i - 1] + counts[i]
    IN  upTo[n]

-------------------------------------------------------------------------------

\* The assignments are nonempty, start where the parent range starts, end where
\* it ends, leave no gap and differ in size by one nonce at most.
ContiguousAndBalanced(start, stop, workers) ==
    LET p == PartitionNonceRange(start, stop, workers)
        n == AssignmentCount(start, stop, workers)
    IN  /\ p[1].start = start
        /\ p[n].stop = stop
        /\ \A i \in 1 .. n : p[i].start < p[i].stop
        /\ \A i \in 1 .. n - 1 : p[i + 1].start = p[i].stop
        /\ \A i, j \in 1 .. n :
               (p[i].stop - p[i].start) - (p[j].stop - p[j].start) <= 1

\* Every nonce of the parent range is in exactly one assignment, and no
\* assignment holds another nonce.
EachNonceOnce(start, stop, workers) ==
    LET p == PartitionNonceRange(start, stop, workers)
        n == AssignmentCount(start, stop, workers)
    IN  /\ \A i \in 1 .. n : NoncesIn(p[i]) \subseteq start .. stop - 1
        /\ \A x \in start .. stop - 1 : \E i \in 1 .. n : x \in NoncesIn(p[i])
        /\ \A i, j \in 1 .. n : i # j => NoncesIn(p[i]) \cap NoncesIn(p[j]) = {}
===============================================================================
