--------------------------- MODULE FibonacciCursor ----------------------------
(***************************************************************************)
(* mining/fibonacci.py, FibonacciBounceSearchCursor: the offsets           *)
(* 0, +1, -1, +2, -2, ... times a Fibonacci stride coprime to the range    *)
(* count, modulo that count.                                               *)
(***************************************************************************)
EXTENDS ParentRanges, FiniteSetsExt

VARIABLES
    domain,
    emitted_count,
    assignment_index,
    raised,
    issued

vars == <<domain, emitted_count, assignment_index, raised, issued>>

Divides(k, n) == n % k = 0
Gcd(m, n) == Max({k \in 1 .. m : Divides(k, m) /\ Divides(k, n)})

\* The Fibonacci numbers 1, 2, 3, 5, ... below n, with 1 always among them.
FibonacciBelow(n) ==
    LET fib[i \in 0 .. n] == IF i <= 1 THEN i + 1 ELSE fib[i - 1] + fib[i - 2]
    IN  {1} \cup {fib[i] : i \in {j \in 0 .. n : fib[j] < n}}

FibonacciCoprimeStride(count) ==
    IF count = 1 THEN 1
    ELSE Max({f \in FibonacciBelow(count) : Gcd(f, count) = 1})

FibonacciBounceOffset(index) ==
    IF index = 0 THEN 0
    ELSE LET magnitude == (index + 1) \div 2
         IN  IF index % 2 = 1 THEN magnitude ELSE -magnitude

range_count == RangeCount(domain)
fibonacci_stride == FibonacciCoprimeStride(range_count)

exhausted == assignment_index = range_count

Init ==
    /\ domain \in Domains
    /\ emitted_count = 0
    /\ assignment_index = 0
    /\ raised = FALSE
    /\ issued = <<>>

PhysicalIndex(index) ==
    (FibonacciBounceOffset(index) * fibonacci_stride) % range_count

NextAssignment ==
    /\ ~exhausted /\ ~raised
    /\ LET start == domain.start + PhysicalIndex(assignment_index) * domain.chunk
           item  == Assignment(domain, assignment_index, start)
           bad   == ~ (item.start < item.stop)
       IN  /\ assignment_index' = assignment_index + (IF bad THEN 0 ELSE 1)
           /\ emitted_count' = emitted_count + (IF bad THEN 0 ELSE 1)
           /\ raised' = (bad \/ emitted_count' > range_count)
           /\ issued' = IF raised' THEN issued ELSE Append(issued, item)
    /\ UNCHANGED domain

NextAssignmentNone ==
    /\ exhausted /\ ~raised
    /\ raised' = (emitted_count # range_count)
    /\ UNCHANGED <<domain, emitted_count, assignment_index, issued>>

Next == NextAssignment \/ NextAssignmentNone

Spec == Init /\ [][Next]_vars
===============================================================================
