------------------------------ MODULE WorkSearch ------------------------------
(***************************************************************************)
(* The search of one pool job: the variants of WorkProgression, each       *)
(* searched by a strategy cursor of its own (continuous.py creates one for *)
(* every variant, over the same nonces), and the next variant asked for    *)
(* only when that cursor is exhausted.                                     *)
(***************************************************************************)
EXTENDS WorkProgression, ParentRanges, FiniteSets

VARIABLES
    strategy, domain, next_nonce, permutation_counter, emitted_count,
    assignment_index, raised, issued,      \* the cursor of SearchStrategies
    searched                               \* history: (variant, nonce) pairs

search_vars == <<strategy, domain, next_nonce, permutation_counter,
                 emitted_count, assignment_index, raised, issued>>
work_vars == <<vars, search_vars, searched>>

Search == INSTANCE SearchStrategies

WorkInit ==
    /\ Init
    /\ Search!Init
    /\ searched = {}

\* One assignment, searched to its end.
SearchRange ==
    /\ Search!Next
    /\ searched' = searched \cup ({VariantOf(cursor)} \X CoveredBy(issued'))
    /\ UNCHANGED vars

\* Keeps the counters of the cursor of the variant before.
OldCursor ==
    /\ issued' = <<>>
    /\ UNCHANGED <<strategy, domain, next_nonce, permutation_counter,
                   emitted_count, assignment_index, raised>>

\* _create_strategy_cursor, with the start nonce and chunk size of the plan.
FreshCursor ==
    /\ next_nonce' = IF strategy = "sequential" THEN domain.start ELSE 0
    /\ permutation_counter' = 0
    /\ emitted_count' = 0
    /\ assignment_index' = 0
    /\ raised' = FALSE
    /\ issued' = <<>>
    /\ UNCHANGED <<strategy, domain>>

AdvanceWork ==
    /\ Search!exhausted
    /\ AdvanceExtraNonce \/ RollNetworkTime
    /\ FreshCursor
    /\ UNCHANGED searched

GiveUp ==
    /\ Search!exhausted
    /\ Exhaust
    /\ UNCHANGED <<search_vars, searched>>

WorkNext == SearchRange \/ AdvanceWork \/ GiveUp

WorkSpec == WorkInit /\ [][WorkNext]_work_vars

-------------------------------------------------------------------------------

\* strategy.py and fibonacci.py raise SearchStrategyExecutionError when a
\* permutation leaves the domain, repeats a range or ends before complete
\* coverage: no domain, no strategy and no variant ever reaches a raise.
NeverRaises == Search!NeverRaises

\* For each variant its strategy hands out every nonce of the domain exactly
\* once in ranges of at most chunk nonces, and is exhausted in the step that
\* hands out the last one; the next variant starts uncovered.
HandedOut == issued[Len(issued)]

CoverStep ==
    \/ cursor' # cursor /\ Search!Cover!Init'
    \/ /\ cursor' = cursor /\ issued' # issued
       /\ Search!Cover!Issue(HandedOut'.start, HandedOut'.stop)
    \/ /\ cursor' = cursor /\ issued' = issued
       /\ UNCHANGED Search!Cover!cover_vars

CoverSpec == Search!Cover!Init /\ [][CoverStep]_work_vars

\* Every hash of the job that was prepared is searched: all nonces of the
\* variants left behind, of the current one those issued, and nothing twice
\* or of any other variant.  When the job is given up that is its whole space.
HashesAccounted ==
    LET nonces == domain.start .. domain.limit - 1
        current == {VariantOf(cursor)}
    IN  /\ searched = ((prepared \ current) \X nonces)
                        \cup (current \X CoveredBy(issued))
        /\ exhausted => Cardinality(searched) =
             job.space * (MaxNetworkTime - job.pool_time + 1) * Cardinality(nonces)
===============================================================================
