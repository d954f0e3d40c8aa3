--------------------------- MODULE MCChunkedMining ---------------------------
(***************************************************************************)
(* Two workers or devices, chunks of up to three nonces (one assignment    *)
(* larger than the other), budgets of one to three chunks, the last one    *)
(* shortened in two of the plans, and one plan that ends at the nonce      *)
(* limit.                                                                  *)
(***************************************************************************)
EXTENDS ChunkedMining, TLC

CONSTANTS d1, d2

MCHashValues == 0 .. 2

MCPlans == {[start |-> 0, chunk |-> 3, max |-> 4],
            [start |-> 2, chunk |-> 1, max |-> 3],
            [start |-> 1, chunk |-> 2, max |-> 2]}

DifficultySymmetry == Permutations({d1, d2})
===============================================================================
