-------------------------- MODULE OrbitingBitCursor ---------------------------
(***************************************************************************)
(* mining/strategy.py, OrbitingBitSearchCursor: parent ranges visited in   *)
(* bit-reversal order of a counter over the enclosing power of two; the    *)
(* reversed indexes past the last range are skipped, also the ones left    *)
(* over after the last range was emitted.                                  *)
(***************************************************************************)
EXTENDS ParentRanges, FiniteSetsExt

VARIABLES
    domain,
    permutation_counter,
    emitted_count,
    assignment_index,
    raised,             \* a SearchStrategyExecutionError left next_assignment
    issued              \* history: the assignments returned

vars == <<domain, permutation_counter, emitted_count, assignment_index, raised,
          issued>>

\* 1 << k.
PowerOfTwo[k \in Nat] == IF k = 0 THEN 1 ELSE 2 * PowerOfTwo[k - 1]

\* Number of binary digits of n.
BitLength(n) ==
    CHOOSE k \in 0 .. n :
        PowerOfTwo[k] > n /\ \A j \in 0 .. k - 1 : PowerOfTwo[j] <= n

NextPowerOfTwo(value) == PowerOfTwo[BitLength(value - 1)]

\* Moves the low bit of `value' to the top of the result, once per bit of the width.
ReverseBits(value, width) ==
    LET reversed[i \in 0 .. width] ==
            IF i = 0 THEN 0
            ELSE 2 * reversed[i - 1] + ((value \div PowerOfTwo[i - 1]) % 2)
    IN  reversed[width]

range_count == RangeCount(domain)
permutation_size == NextPowerOfTwo(range_count)
bit_width == BitLength(permutation_size) - 1

PhysicalIndex(counter) == ReverseBits(counter, bit_width)

exhausted == permutation_counter = permutation_size

Init ==
    /\ domain \in Domains
    /\ permutation_counter = 0
    /\ emitted_count = 0
    /\ assignment_index = 0
    /\ raised = FALSE
    /\ issued = <<>>

\* The counters whose reversal is a real range, from permutation_counter on.
ValidFrom(counter) ==
    {c \in counter .. permutation_size - 1 : PhysicalIndex(c) < range_count}

\* Stops at the last valid index instead of consuming the invalid suffix.
CounterAfterLazy(counter) == counter + 1

\* Where the counter stands once `counter' was emitted: _consume_trailing_-
\* invalid_indexes runs through the suffix when the last range was emitted.
CounterAfter(counter) ==
    IF emitted_count + 1 = range_count THEN permutation_size ELSE counter + 1

\* Emits the next valid physical range; the loop skips the invalid indexes.
Emit(counter) ==
    LET item == Assignment(domain, assignment_index,
                           domain.start + PhysicalIndex(counter) * domain.chunk)
        last == emitted_count + 1 = range_count
    IN  /\ permutation_counter' = CounterAfter(counter)
        /\ emitted_count' = emitted_count + 1
        /\ assignment_index' = assignment_index + 1
        /\ raised' = (\/ item.start >= item.stop
                      \/ emitted_count' > range_count
                      \/ last /\ ValidFrom(counter + 1) # {})
        /\ issued' = IF raised' THEN issued ELSE Append(issued, item)

\* The counter runs out before every range was emitted.
RaiseIncomplete ==
    /\ permutation_counter' = permutation_size
    /\ raised' = TRUE
    /\ UNCHANGED <<emitted_count, assignment_index, issued>>

NextAssignment ==
    /\ ~exhausted /\ ~raised
    /\ IF ValidFrom(permutation_counter) # {}
       THEN Emit(Min(ValidFrom(permutation_counter)))
       ELSE RaiseIncomplete
    /\ UNCHANGED domain

NextAssignmentNone ==
    /\ exhausted /\ ~raised
    /\ raised' = (emitted_count # range_count)
    /\ UNCHANGED <<domain, permutation_counter, emitted_count, assignment_index,
                   issued>>

Next == NextAssignment \/ NextAssignmentNone

Spec == Init /\ [][Next]_vars
===============================================================================
