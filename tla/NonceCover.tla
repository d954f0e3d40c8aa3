------------------------------ MODULE NonceCover ------------------------------
(***************************************************************************)
(* What every parent-range search strategy promises: the nonce domain      *)
(* start..limit-1 is handed out as nonempty half-open ranges of at most    *)
(* `chunk' nonces, no nonce twice, and the cursor reports exhaustion in    *)
(* the very step that hands out the last nonce (the mining loop reads      *)
(* cursor.exhausted right after a search, before it asks for another       *)
(* assignment).  The order is left open: it is what strategies differ in.  *)
(***************************************************************************)
EXTENDS Integers

CONSTANT NonceLimit    \* exclusive bound of a nonce; 2^32 in the program

VARIABLES
    domain,            \* [start, chunk, limit]: the arguments of create_cursor
    covered,           \* nonces handed out so far
    exhausted          \* what the cursor's `exhausted' property answers

cover_vars == <<domain, covered, exhausted>>

Domains == {d \in [start : 0 .. NonceLimit - 1,
                   chunk : 1 .. NonceLimit,
                   limit : 1 .. NonceLimit] : d.start < d.limit}

Nonces(lo, hi) == lo .. hi - 1

Init ==
    /\ domain \in Domains
    /\ covered = {}
    /\ exhausted = FALSE

Issue(lo, hi) ==
    /\ ~exhausted
    /\ lo < hi
    /\ hi - lo <= domain.chunk
    /\ Nonces(lo, hi) \cap covered = {}
    /\ covered' = covered \cup Nonces(lo, hi)
    /\ exhausted' = (covered' = Nonces(domain.start, domain.limit))
    /\ UNCHANGED domain

Next ==
    \E lo, hi \in domain.start .. domain.limit : Issue(lo, hi)

Spec == Init /\ [][Next]_cover_vars
===============================================================================
