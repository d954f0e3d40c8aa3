-------------------------- MODULE MCContinuousMining --------------------------
(* ContinuousMining over small plans: one or two parent ranges, one or two     *)
(* extra nonces, with and without a chunk limit and pacing.  Context a_later   *)
(* announces what a's progression reaches by rolling the time by one second.   *)
(* Difficulties are only ever compared for equality.                           *)
EXTENDS ContinuousMining, TLC

CONSTANTS a, a_later, b, d1, d2

MCContexts == {a, a_later, b}

DifficultySymmetry == Permutations(Difficulties)

MCEffectOf ==
    [c \in MCContexts |->
        [base |-> IF c = b THEN "b" ELSE "a", time |-> IF c = a_later THEN 1 ELSE 0]]

MCPlans ==
    {[max_chunks |-> 0, ranges |-> 1, space |-> 1, paced |-> FALSE],
     [max_chunks |-> 2, ranges |-> 2, space |-> 1, paced |-> TRUE],
     [max_chunks |-> 0, ranges |-> 1, space |-> 2, paced |-> FALSE]}

===============================================================================
