--------------------------- MODULE SearchStrategies ---------------------------
(***************************************************************************)
(* The three strategies a mining run may select, side by side: one cursor  *)
(* of one of them, created for any domain, and asked for assignments until *)
(* it is exhausted.  Each implements NonceCover.                           *)
(***************************************************************************)
EXTENDS ParentRanges

VARIABLES
    strategy,
    domain,
    next_nonce,             \* sequential only
    permutation_counter,    \* orbiting-bit only
    emitted_count,          \* orbiting-bit and fibonacci-bounce
    assignment_index,
    raised,
    issued

vars == <<strategy, domain, next_nonce, permutation_counter, emitted_count,
          assignment_index, raised, issued>>

Sequential == INSTANCE SequentialCursor
OrbitingBit == INSTANCE OrbitingBitCursor
Fibonacci == INSTANCE FibonacciCursor

exhausted ==
    CASE strategy = "sequential" -> Sequential!exhausted
      [] strategy = "orbiting-bit" -> OrbitingBit!exhausted
      [] strategy = "fibonacci-bounce" -> Fibonacci!exhausted

Init ==
    \/ /\ strategy = "sequential"
       /\ Sequential!Init
       /\ permutation_counter = 0 /\ emitted_count = 0 /\ raised = FALSE
    \/ /\ strategy = "orbiting-bit"
       /\ OrbitingBit!Init
       /\ next_nonce = 0
    \/ /\ strategy = "fibonacci-bounce"
       /\ Fibonacci!Init
       /\ next_nonce = 0 /\ permutation_counter = 0

SequentialStep ==
    /\ strategy = "sequential"
    /\ Sequential!Next
    /\ UNCHANGED <<strategy, permutation_counter, emitted_count, raised>>

OrbitingBitStep ==
    /\ strategy = "orbiting-bit"
    /\ OrbitingBit!Next
    /\ UNCHANGED <<strategy, next_nonce>>

FibonacciStep ==
    /\ strategy = "fibonacci-bounce"
    /\ Fibonacci!Next
    /\ UNCHANGED <<strategy, next_nonce, permutation_counter>>

Next == SequentialStep \/ OrbitingBitStep \/ FibonacciStep

-------------------------------------------------------------------------------

TypeOK ==
    /\ strategy \in {"sequential", "orbiting-bit", "fibonacci-bounce"}
    /\ domain \in Domains
    /\ next_nonce \in 0 .. NonceLimit
    /\ permutation_counter \in Nat
    /\ emitted_count \in 0 .. RangeCount(domain)
    /\ assignment_index \in 0 .. RangeCount(domain)
    /\ raised \in BOOLEAN
    /\ issued \in Seq(Assignments)

\* strategy.py and fibonacci.py raise SearchStrategyExecutionError when a
\* permutation leaves the domain, repeats a range or ends before complete
\* coverage: no domain and no strategy ever reaches one of those raises.
NeverRaises == ~raised

\* What the assignments handed out so far cover.
Cover == INSTANCE NonceCover WITH covered <- CoveredBy(issued)
===============================================================================
