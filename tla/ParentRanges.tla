----------------------------- MODULE ParentRanges -----------------------------
(***************************************************************************)
(* The parent ranges of a nonce domain and the assignments cursors issue.  *)
(***************************************************************************)
EXTENDS Integers, Sequences

CONSTANT NonceLimit    \* 2^32 in the program; both _NONCE_LIMIT and the
                       \* largest chunk size

ASSUME NonceLimitAssumption == NonceLimit \in Nat \ {0}

\* Arguments the cursor constructors accept.
Domains == {d \in [start : 0 .. NonceLimit - 1,
                   chunk : 1 .. NonceLimit,
                   limit : 1 .. NonceLimit] : d.start < d.limit}

Smaller(a, b) == IF a < b THEN a ELSE b

\* Ceiling of the domain size over the chunk size.
RangeCount(d) == (d.limit - d.start + d.chunk - 1) \div d.chunk

\* One parent range, its last one cut at the domain's limit.
Assignment(d, index, start) ==
    [index |-> index, start |-> start, stop |-> Smaller(start + d.chunk, d.limit)]

Assignments == [index : Nat, start : 0 .. NonceLimit, stop : 0 .. NonceLimit]

NoncesOf(a) == a.start .. a.stop - 1

CoveredBy(seq) == UNION {NoncesOf(seq[i]) : i \in DOMAIN seq}
===============================================================================
