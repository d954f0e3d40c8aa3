------------------------- MODULE ChunkedMining_proofs -------------------------
(***************************************************************************)
(* For any number of workers or devices, any hashes, any plans, any        *)
(* notifications and any number of failures: the backend leaves nothing    *)
(* behind a search, the command nothing behind itself, a search reports    *)
(* what one sequential search would, and the chunks spend the budget.      *)
(*                                                                         *)
(* It begins with partition_nonce_range, exact for every parent range and  *)
(* every number of workers.  The argument is one equation,                 *)
(* size = count * base + larger, and the monotony of the points where      *)
(* assignments start.                                                      *)
(*                                                                         *)
(* PoolInv reads kind, step, closed, contexts, futures, awaited and        *)
(* unjoined only: steps of the command that leave these alone keep it.     *)
(* LoopInv is about the call, its result and the loop's own variables.     *)
(***************************************************************************)
EXTENDS ChunkedMining, FiniteSetsExt, WellFoundedInduction, TLAPS

-------------------------------------------------------------------------------
(* Least elements, and sums: the induction they need is the existence of a  *)
(* first counterexample.                                                    *)

\* A set of naturals has a least element.
LEMMA LeastNatural ==
    ASSUME NEW T, T \subseteq Nat, T # {}
    PROVE  \E x \in T : \A y \in T : x <= y
  <1>1. IsWellFoundedOn(OpToRel(<,Nat), Nat)
    BY NatLessThanWellFounded
  <1>2. \E x \in T : \A y \in T : ~ (<<y, x>> \in OpToRel(<,Nat))
    BY <1>1, WFMin, Zenon
  <1>3. PICK x \in T : \A y \in T : ~ (<<y, x>> \in OpToRel(<,Nat))
    BY <1>2
  <1>4. \A y \in T : y < x => <<y, x>> \in OpToRel(<,Nat)
    BY DEF OpToRel
  <1>5. \A y \in T : ~ (y < x)
    BY <1>3, <1>4
  <1> QED
    BY <1>5

\* Induction over a bounded range of naturals, for a set of the good ones.
LEMMA UpTo ==
    ASSUME NEW n \in Nat, NEW G, 0 \in G,
           \A i \in 1 .. n : i - 1 \in G => i \in G
    PROVE  \A i \in 0 .. n : i \in G
  <1> DEFINE T == {i \in 0 .. n : i \notin G}
  <1>1. SUFFICES ASSUME T # {} PROVE FALSE
    OBVIOUS
  <1>2. T \subseteq Nat
    OBVIOUS
  <1> HIDE DEF T
  <1>3. PICK i \in T : \A j \in T : i <= j
    BY <1>1, <1>2, LeastNatural
  <1>4. i \in 0 .. n /\ i \notin G
    BY DEF T
  <1>5. i \in 1 .. n /\ i - 1 \in 0 .. n /\ ~ (i <= i - 1)
    BY <1>4
  <1>6. i - 1 \in G
    BY <1>3, <1>5 DEF T
  <1> QED
    BY <1>4, <1>5, <1>6

\* p holds the sums of the first terms of f, none to n of them.
Prefixes(p, f, n) ==
    /\ p \in [0 .. n -> Nat]
    /\ p[0] = 0
    /\ \A i \in 1 .. n : p[i] = p[i - 1] + f[i]

\* Total is defined by a recursion: whatever satisfies its equations gives it.
LEMMA TotalByPrefixes ==
    ASSUME NEW n \in Nat, NEW f \in [1 .. n -> Nat], NEW p, Prefixes(p, f, n)
    PROVE  Total(f, n) = p[n]
  <1> DEFINE Rec(g) == g = [i \in 0 .. n |-> IF i = 0 THEN 0 ELSE g[i - 1] + f[i]]
             sum == CHOOSE g : Rec(g)
  <1>1. Rec(p)
    <2> DEFINE r == [i \in 0 .. n |-> IF i = 0 THEN 0 ELSE p[i - 1] + f[i]]
    <2>1. ASSUME NEW i \in 0 .. n PROVE p[i] = r[i]
      <3>1. i = 0 \/ i \in 1 .. n
        OBVIOUS
      <3> QED
        BY <3>1 DEF Prefixes
    <2>2. p = [i \in 0 .. n |-> p[i]]
      BY DEF Prefixes
    <2> QED
      BY <2>1, <2>2
  <1>2. Rec(sum)
    <2> HIDE DEF Rec
    <2> QED
      BY <1>1
  <1>3. Total(f, n) = sum[n]
    BY DEF Total
  <1>4. \A i \in 0 .. n : sum[i] = IF i = 0 THEN 0 ELSE sum[i - 1] + f[i]
    <2> HIDE DEF sum
    <2> QED
      BY <1>2
  <1> HIDE DEF sum, Rec
  <1> DEFINE G == {i \in 0 .. n : sum[i] = p[i]}
  <1>5. 0 \in G
    BY <1>4 DEF Prefixes
  <1>6. ASSUME NEW i \in 1 .. n, i - 1 \in G PROVE i \in G
    <2>1. i \in 0 .. n /\ i # 0 /\ sum[i - 1] = p[i - 1] /\ p[i] = p[i - 1] + f[i]
      BY <1>6 DEF Prefixes
    <2>2. sum[i] = sum[i - 1] + f[i]
      BY <1>4, <2>1
    <2> QED
      BY <2>1, <2>2
  <1> HIDE DEF G
  <1>7. \A i \in 0 .. n : i \in G
    BY <1>5, <1>6, UpTo
  <1>8. n \in 0 .. n
    OBVIOUS
  <1> QED
    BY <1>3, <1>7, <1>8 DEF G

\* ... and the equations have a solution.
LEMMA PrefixesExist ==
    ASSUME NEW n \in Nat, NEW f \in [1 .. n -> Nat]
    PROVE  \E p : Prefixes(p, f, n)
  <1> DEFINE Upto(m, p) == /\ p \in [0 .. m -> Nat]
                           /\ p[0] = 0
                           /\ \A i \in 1 .. m : p[i] = p[i - 1] + f[i]
             G == {m \in 0 .. n : \E p : Upto(m, p)}
  <1>1. 0 \in G
    <2> DEFINE z == [i \in 0 .. 0 |-> 0]
    <2>1. z \in [0 .. 0 -> Nat] /\ z[0] = 0 /\ \A i \in 1 .. 0 : FALSE
      OBVIOUS
    <2>2. Upto(0, z)
      BY <2>1
    <2>3. 0 \in 0 .. n
      OBVIOUS
    <2> HIDE DEF Upto
    <2> QED
      BY <2>2, <2>3
  <1>2. ASSUME NEW m \in 1 .. n, m - 1 \in G PROVE m \in G
    <2>1. PICK p : Upto(m - 1, p)
      BY <1>2
    <2> DEFINE q == [i \in 0 .. m |-> IF i = m THEN p[m - 1] + f[m] ELSE p[i]]
    <2>2. f[m] \in Nat /\ p[m - 1] \in Nat
      BY <2>1
    <2>3. q \in [0 .. m -> Nat]
      BY <2>1, <2>2
    <2>4. q[0] = 0
      BY <2>1
    <2>5. ASSUME NEW i \in 1 .. m PROVE q[i] = q[i - 1] + f[i]
      BY <2>1
    <2>6. Upto(m, q)
      BY <2>3, <2>4, <2>5
    <2> HIDE DEF Upto
    <2>7. m \in 0 .. n
      OBVIOUS
    <2> QED
      BY <2>6, <2>7
  <1> HIDE DEF G
  <1>3. \A m \in 0 .. n : m \in G
    BY <1>1, <1>2, UpTo
  <1>a. n \in 0 .. n
    OBVIOUS
  <1>4. PICK p : Upto(n, p)
    BY <1>3, <1>a DEF G
  <1> QED
    BY <1>4 DEF Prefixes

\* The sum of what grows by steps is how far it has grown.
LEMMA TotalTelescopes ==
    ASSUME NEW n \in Nat, NEW at \in [0 .. n -> Nat], NEW f \in [1 .. n -> Nat],
           \A i \in 1 .. n : at[i] = at[i - 1] + f[i]
    PROVE  Total(f, n) = at[n] - at[0]
  <1> DEFINE p == [i \in 0 .. n |-> at[i] - at[0]]
             G == {i \in 0 .. n : at[i] >= at[0]}
  <1>1. 0 \in G
    OBVIOUS
  <1>2. ASSUME NEW i \in 1 .. n, i - 1 \in G PROVE i \in G
    <2>1. at[i] = at[i - 1] + f[i] /\ f[i] \in Nat /\ at[i - 1] >= at[0]
      BY <1>2
    <2>2. at[i] \in Nat /\ at[i - 1] \in Nat /\ at[0] \in Nat
      OBVIOUS
    <2> QED
      BY <2>1, <2>2
  <1> HIDE DEF G
  <1>3. \A i \in 0 .. n : i \in G
    BY <1>1, <1>2, UpTo
  <1>4. p \in [0 .. n -> Nat]
    BY <1>3 DEF G
  <1>5. p[0] = 0
    OBVIOUS
  <1>6. ASSUME NEW i \in 1 .. n PROVE p[i] = p[i - 1] + f[i]
    <2>1. i - 1 \in 0 .. n /\ i \in 0 .. n
      OBVIOUS
    <2>2. at[i] \in Nat /\ at[i - 1] \in Nat /\ at[0] \in Nat /\ f[i] \in Nat
      OBVIOUS
    <2> QED
      BY <2>1, <2>2
  <1>7. Prefixes(p, f, n)
    BY <1>4, <1>5, <1>6 DEF Prefixes
  <1>8. Total(f, n) = p[n]
    <2> HIDE DEF p
    <2> QED
      BY <1>7, TotalByPrefixes
  <1> QED
    BY <1>8

\* A sum of positive parts is bounded by the growth they are parts of.
LEMMA TotalBounded ==
    ASSUME NEW n \in Nat, n >= 1, NEW at \in [0 .. n -> Nat], NEW f \in [1 .. n -> Nat],
           \A i \in 1 .. n : 1 <= f[i] /\ f[i] <= at[i] - at[i - 1]
    PROVE  Total(f, n) \in 1 .. at[n] - at[0]
  <1>1. PICK p : Prefixes(p, f, n)
    BY PrefixesExist
  <1> DEFINE G == {i \in 0 .. n : i <= p[i] /\ p[i] <= at[i] - at[0]}
  <1>2. 0 \in G
    BY <1>1 DEF Prefixes
  <1>3. ASSUME NEW i \in 1 .. n, i - 1 \in G PROVE i \in G
    <2>1. /\ at[i] \in Nat /\ at[i - 1] \in Nat /\ at[0] \in Nat
          /\ p[i] \in Nat /\ p[i - 1] \in Nat /\ f[i] \in Nat
      BY <1>1 DEF Prefixes
    <2>2. i - 1 <= p[i - 1] /\ p[i - 1] <= at[i - 1] - at[0]
      BY <1>3
    <2>3. p[i] = p[i - 1] + f[i] /\ 1 <= f[i] /\ f[i] <= at[i] - at[i - 1]
      BY <1>1 DEF Prefixes
    <2>4. PICK a \in Nat, b \in Nat, c \in Nat : a = at[i] /\ b = at[i - 1] /\ c = at[0]
      BY <2>1
    <2>5. PICK x \in Nat, y \in Nat, z \in Nat : x = p[i] /\ y = p[i - 1] /\ z = f[i]
      BY <2>1
    <2>6. i - 1 <= y /\ y <= b - c /\ x = y + z /\ 1 <= z /\ z <= a - b
      BY <2>2, <2>3, <2>4, <2>5
    <2>7. i <= x /\ x <= a - c
      BY <2>6
    <2> QED
      BY <2>4, <2>5, <2>7
  <1> HIDE DEF G
  <1>4. \A i \in 0 .. n : i \in G
    BY <1>2, <1>3, UpTo
  <1>5. Total(f, n) = p[n]
    BY <1>1, TotalByPrefixes
  <1>6. n \in 0 .. n /\ p[n] \in Nat /\ at[n] \in Nat /\ at[0] \in Nat
    BY <1>1 DEF Prefixes
  <1>7. n <= p[n] /\ p[n] <= at[n] - at[0]
    BY <1>4, <1>6 DEF G
  <1> QED
    BY <1>5, <1>6, <1>7

\* One more term.
LEMMA TotalExtends ==
    ASSUME NEW n \in Nat, NEW f \in [1 .. n -> Nat], NEW g \in [1 .. n + 1 -> Nat],
           \A i \in 1 .. n : g[i] = f[i]
    PROVE  Total(f, n) \in Nat /\ Total(g, n + 1) = Total(f, n) + g[n + 1]
  <1>1. PICK p : Prefixes(p, g, n + 1)
    BY PrefixesExist
  <1> DEFINE q == [i \in 0 .. n |-> p[i]]
  <1>2. Prefixes(q, f, n)
    <2>1. q \in [0 .. n -> Nat] /\ q[0] = 0
      BY <1>1 DEF Prefixes
    <2>2. ASSUME NEW i \in 1 .. n PROVE q[i] = q[i - 1] + f[i]
      <3>1. i \in 1 .. n + 1 /\ i \in 0 .. n /\ i - 1 \in 0 .. n
        OBVIOUS
      <3> QED
        BY <1>1, <3>1 DEF Prefixes
    <2> QED
      BY <2>1, <2>2 DEF Prefixes
  <1>3. Total(f, n) = q[n]
    <2> HIDE DEF q
    <2> QED
      BY <1>2, TotalByPrefixes
  <1>4. Total(g, n + 1) = p[n + 1]
    BY <1>1, TotalByPrefixes
  <1>5. n + 1 \in 1 .. n + 1 /\ (n + 1) - 1 = n
    OBVIOUS
  <1>6. p[n + 1] = p[n] + g[n + 1] /\ p[n] \in Nat
    BY <1>1, <1>5 DEF Prefixes
  <1> QED
    BY <1>3, <1>4, <1>6

\* The extremes of a set of naturals are in it and bound it.
LEMMA MinIs ==
    ASSUME NEW S, S \subseteq Nat, S # {}
    PROVE  Min(S) \in S /\ \A y \in S : Min(S) <= y
  BY LeastNatural DEF Min

LEMMA MaxIs ==
    ASSUME NEW n \in Nat, NEW S, S \subseteq 1 .. n, S # {}
    PROVE  Max(S) \in S /\ \A y \in S : y <= Max(S)
  <1> DEFINE T == {k \in 0 .. n : n - k \in S}
  <1>1. T # {}
    <2>1. PICK x \in S : x \in 1 .. n
      OBVIOUS
    <2>2. n - x \in 0 .. n /\ n - (n - x) = x
      BY <2>1
    <2>3. n - x \in T
      BY <2>1, <2>2
    <2> QED
      BY <2>3
  <1>a. T \subseteq Nat
    OBVIOUS
  <1>2. PICK k \in T : \A j \in T : k <= j
    <2> HIDE DEF T
    <2> QED
      BY <1>1, <1>a, LeastNatural
  <1>3. n - k \in S
    OBVIOUS
  <1>4. ASSUME NEW y \in S PROVE y <= n - k
    <2>1. n - y \in 0 .. n /\ n - (n - y) = y
      OBVIOUS
    <2>2. k <= n - y
      BY <1>2, <2>1
    <2> QED
      BY <2>2
  <1> QED
    BY <1>3, <1>4 DEF Max
-------------------------------------------------------------------------------
(* The partition.                                                           *)

\* Euclidean division of naturals.
LEMMA Division ==
    ASSUME NEW a \in Nat, NEW d \in Nat \ {0}
    PROVE  /\ a \div d \in Nat
           /\ a % d \in 0 .. d - 1
           /\ a = (d * (a \div d)) + (a % d)
  BY SMT

\* What the cut is made of: at most one assignment per worker, none of them
\* empty, and the larger ones take up the remainder.
LEMMA CutSizes ==
    ASSUME NEW start \in Nat, NEW stop \in Nat, start < stop,
           NEW workers \in Nat \ {0},
           NEW n, n = AssignmentCount(start, stop, workers),
           NEW b, b = BaseSize(start, stop, workers),
           NEW r, r = LargerAssignments(start, stop, workers)
    PROVE  /\ n \in Nat /\ n >= 1 /\ n <= workers
           /\ b \in Nat /\ b >= 1
           /\ r \in Nat /\ r < n
           /\ stop - start = n * b + r
  <1>1. n \in Nat /\ n >= 1 /\ n <= workers /\ n <= stop - start
    BY DEF AssignmentCount, Lesser
  <1>2. stop - start \in Nat /\ b = (stop - start) \div n /\ r = (stop - start) % n
    BY DEF BaseSize, LargerAssignments
  <1>3. b \in Nat /\ r \in 0 .. n - 1 /\ stop - start = n * b + r
    <2>1. n \in Nat \ {0}
      BY <1>1
    <2>2. PICK a \in Nat : a = stop - start
      BY <1>2
    <2>3. a \div n \in Nat /\ a % n \in 0 .. n - 1 /\ a = (n * (a \div n)) + (a % n)
      BY <2>1, Division
    <2>4. b = a \div n /\ r = a % n
      BY <1>2, <2>2
    <2> QED
      BY <2>2, <2>3, <2>4
  <1>4. b >= 1
    <2>1. SUFFICES ASSUME b = 0 PROVE FALSE
      BY <1>3
    <2>2. n * b = 0
      BY <1>1, <2>1
    <2> QED
      BY <1>1, <1>3, <2>2
  <1> QED
    BY <1>1, <1>3, <1>4

\* The points where assignments start grow by the size of each assignment.
LEMMA CutPoints ==
    ASSUME NEW start \in Nat, NEW stop \in Nat, start < stop,
           NEW workers \in Nat \ {0}
    PROVE  /\ \A k \in Nat : AssignmentStart(start, stop, workers, k) \in Nat
           /\ AssignmentStart(start, stop, workers, 0) = start
           /\ \A k \in Nat :
                  AssignmentStart(start, stop, workers, k + 1)
                      = AssignmentStart(start, stop, workers, k)
                          + (IF k < LargerAssignments(start, stop, workers)
                             THEN BaseSize(start, stop, workers) + 1
                             ELSE BaseSize(start, stop, workers))
           /\ \A k, m \in Nat :
                  k <= m => AssignmentStart(start, stop, workers, k)
                                <= AssignmentStart(start, stop, workers, m)
  <1> DEFINE at(k) == AssignmentStart(start, stop, workers, k)
             b == BaseSize(start, stop, workers)
             r == LargerAssignments(start, stop, workers)
  <1>0. b \in Nat /\ r \in Nat
    BY CutSizes
  <1>1. \A k \in Nat : at(k) = start + k * b + Lesser(k, r)
    BY DEF AssignmentStart
  <1>2. \A k \in Nat : k * b \in Nat /\ Lesser(k, r) \in Nat
    BY <1>0 DEF Lesser
  <1> HIDE DEF at, b, r
  <1>3. at(0) = start
    <2>1. 0 * b = 0 /\ Lesser(0, r) = 0
      BY <1>0 DEF Lesser
    <2> QED
      BY <1>1, <2>1
  <1>4. ASSUME NEW k \in Nat
        PROVE  at(k + 1) = at(k) + (IF k < r THEN b + 1 ELSE b)
    <2>1. (k + 1) * b = (k * b) + b
      BY <1>0
    <2>2. Lesser(k + 1, r) = Lesser(k, r) + (IF k < r THEN 1 ELSE 0)
      BY <1>0 DEF Lesser
    <2>3. at(k + 1) = start + (k + 1) * b + Lesser(k + 1, r)
      BY <1>1
    <2>4. at(k) = start + k * b + Lesser(k, r)
      BY <1>1
    <2> QED
      BY <1>0, <1>2, <2>1, <2>2, <2>3, <2>4
  <1>5. ASSUME NEW k \in Nat, NEW m \in Nat, k <= m
        PROVE  at(k) <= at(m)
    <2>1. PICK d \in Nat : m = k + d
      <3>1. m - k \in Nat /\ m = k + (m - k)
        BY <1>5
      <3> QED
        BY <3>1
    <2>2. m * b = (k * b) + (d * b)
      BY <1>0, <2>1
    <2>3. d * b \in Nat /\ k * b \in Nat /\ m * b \in Nat
      BY <1>2
    <2>4. /\ Lesser(k, r) \in Nat /\ Lesser(m, r) \in Nat
          /\ Lesser(k, r) <= Lesser(m, r)
      BY <1>0, <1>5 DEF Lesser
    <2>5. at(k) = start + k * b + Lesser(k, r) /\ at(m) = start + m * b + Lesser(m, r)
      BY <1>1
    <2> HIDE <1>1
    <2> QED
      BY <2>2, <2>3, <2>4, <2>5
  <1>6. \A k \in Nat : at(k) \in Nat
    <2> SUFFICES ASSUME NEW k \in Nat PROVE at(k) \in Nat
      OBVIOUS
    <2>1. at(k) = start + k * b + Lesser(k, r)
      BY <1>1
    <2>2. k * b \in Nat /\ Lesser(k, r) \in Nat
      BY <1>2
    <2> QED
      BY <2>1, <2>2
  <1> QED
    BY <1>3, <1>4, <1>5, <1>6 DEF at, b, r

\* What each assignment of the partition is, in terms of those points.
LEMMA AssignmentShape ==
    ASSUME NEW start \in Nat, NEW stop \in Nat, start < stop,
           NEW workers \in Nat \ {0},
           NEW n, n = AssignmentCount(start, stop, workers),
           NEW b, b = BaseSize(start, stop, workers),
           NEW r, r = LargerAssignments(start, stop, workers),
           NEW p, p = PartitionNonceRange(start, stop, workers)
    PROVE  /\ \A i \in 1 .. n :
                  /\ p[i].start = AssignmentStart(start, stop, workers, i - 1)
                  /\ p[i].stop = AssignmentStart(start, stop, workers, i)
                  /\ p[i].start \in Nat /\ p[i].stop \in Nat
                  /\ p[i].stop = p[i].start + (IF i - 1 < r THEN b + 1 ELSE b)
           /\ p[1].start = start
           /\ p[n].stop = stop
  <1> DEFINE at(k) == AssignmentStart(start, stop, workers, k)
  <1>1. /\ n \in Nat /\ n >= 1 /\ b \in Nat /\ b >= 1 /\ r \in Nat /\ r < n
        /\ stop - start = n * b + r
    BY CutSizes
  <1>2. ASSUME NEW i \in 1 .. n
        PROVE  p[i].start = at(i - 1) /\ p[i].stop = at(i)
    BY <1>2 DEF PartitionNonceRange
  <1>3. /\ \A k \in Nat : at(k) \in Nat
        /\ at(0) = start
        /\ \A k \in Nat : at(k + 1) = at(k) + (IF k < r THEN b + 1 ELSE b)
    <2>1. \A k \in Nat : at(k) \in Nat
      BY CutPoints
    <2>2. at(0) = start
      BY CutPoints
    <2>3. \A k \in Nat :
              at(k + 1) = at(k) + (IF k < LargerAssignments(start, stop, workers)
                                   THEN BaseSize(start, stop, workers) + 1
                                   ELSE BaseSize(start, stop, workers))
      BY CutPoints
    <2>4. \A k \in Nat : at(k + 1) = at(k) + (IF k < r THEN b + 1 ELSE b)
      BY <2>3
    <2> QED
      BY <2>1, <2>2, <2>4
  <1>4. at(n) = stop
    <2>1. at(n) = start + n * b + Lesser(n, r)
      BY DEF AssignmentStart
    <2>2. Lesser(n, r) = r
      BY <1>1 DEF Lesser
    <2>3. n * b \in Nat
      BY <1>1
    <2> QED
      BY <1>1, <2>1, <2>2, <2>3
  <1> HIDE DEF at
  <1>5. ASSUME NEW i \in 1 .. n
        PROVE  /\ p[i].start \in Nat /\ p[i].stop \in Nat
               /\ p[i].stop = p[i].start + (IF i - 1 < r THEN b + 1 ELSE b)
    <2>1. PICK k \in Nat : i = k + 1
      <3>1. i - 1 \in Nat /\ i = (i - 1) + 1
        BY <1>1
      <3> QED
        BY <3>1
    <2>2. p[i].start = at(k) /\ p[i].stop = at(k + 1)
      BY <1>1, <1>2, <2>1
    <2> QED
      BY <1>3, <2>1, <2>2
  <1>6. p[1].start = start /\ p[n].stop = stop
    BY <1>1, <1>2, <1>3, <1>4
  <1> QED
    BY <1>2, <1>5, <1>6 DEF at

\* Whatever the parent range and the number of workers, the assignments are
\* nonempty, contiguous from its start to its stop, and balanced to one nonce:
\* the loop of partition_nonce_range neither loses a nonce nor adds one.
THEOREM PartitionContiguousAndBalanced ==
    ASSUME NEW start \in Nat, NEW stop \in Nat, start < stop,
           NEW workers \in Nat \ {0}
    PROVE  ContiguousAndBalanced(start, stop, workers)
  <1> DEFINE n == AssignmentCount(start, stop, workers)
             b == BaseSize(start, stop, workers)
             r == LargerAssignments(start, stop, workers)
             p == PartitionNonceRange(start, stop, workers)
  <1>1. n \in Nat /\ n >= 1 /\ b \in Nat /\ b >= 1
    BY CutSizes
  <1>2. \A i \in 1 .. n :
            /\ p[i].start = AssignmentStart(start, stop, workers, i - 1)
            /\ p[i].stop = AssignmentStart(start, stop, workers, i)
            /\ p[i].start \in Nat /\ p[i].stop \in Nat
            /\ p[i].stop = p[i].start + (IF i - 1 < r THEN b + 1 ELSE b)
    BY AssignmentShape
  <1>3. p[1].start = start /\ p[n].stop = stop
    BY AssignmentShape
  <1> HIDE DEF n, b, r, p
  <1>4. \A i \in 1 .. n : p[i].start < p[i].stop
    BY <1>1, <1>2
  <1>5. ASSUME NEW i \in 1 .. n - 1
        PROVE  p[i + 1].start = p[i].stop
    <2>1. i \in 1 .. n /\ i + 1 \in 1 .. n /\ (i + 1) - 1 = i
      BY <1>1
    <2>2. p[i + 1].start = AssignmentStart(start, stop, workers, (i + 1) - 1)
      BY <1>2, <2>1
    <2> QED
      BY <1>2, <2>1, <2>2
  <1>6. ASSUME NEW i \in 1 .. n, NEW j \in 1 .. n
        PROVE  (p[i].stop - p[i].start) - (p[j].stop - p[j].start) <= 1
    BY <1>1, <1>2
  <1> QED
    BY <1>3, <1>4, <1>5, <1>6 DEF ContiguousAndBalanced, n, p

\* Every nonce of the parent range is handed to exactly one worker: a parallel
\* search hashes what one sequential search would, nothing twice and nothing
\* else.
THEOREM PartitionEachNonceOnce ==
    ASSUME NEW start \in Nat, NEW stop \in Nat, start < stop,
           NEW workers \in Nat \ {0}
    PROVE  EachNonceOnce(start, stop, workers)
  <1> DEFINE n == AssignmentCount(start, stop, workers)
             b == BaseSize(start, stop, workers)
             r == LargerAssignments(start, stop, workers)
             p == PartitionNonceRange(start, stop, workers)
             at(k) == AssignmentStart(start, stop, workers, k)
  <1>1. /\ n \in Nat /\ n >= 1 /\ b \in Nat /\ b >= 1
        /\ r \in Nat /\ r < n /\ stop - start = n * b + r
    BY CutSizes
  <1>2. \A i \in 1 .. n : p[i].start = at(i - 1) /\ p[i].stop = at(i)
    BY AssignmentShape
  <1>3. p[1].start = start /\ p[n].stop = stop
    BY AssignmentShape
  <1>4. \A k \in Nat : at(k) \in Nat
    BY CutPoints
  <1>5. \A k, m \in Nat : k <= m => at(k) <= at(m)
    BY CutPoints, Zenon
  <1>6. at(0) = start /\ at(n) = stop
    <2>1. at(0) = start
      BY CutPoints
    <2> QED
      BY <1>1, <1>2, <1>3, <2>1
  <1>7. \A k \in Nat : at(k) = start + k * b + Lesser(k, r)
    BY DEF AssignmentStart
  <1> HIDE DEF n, b, r, p, at
  <1>8. ASSUME NEW i \in 1 .. n
        PROVE  NoncesIn(p[i]) \subseteq start .. stop - 1
    <2>1. i - 1 \in Nat /\ i \in Nat /\ 0 <= i - 1 /\ i <= n
      BY <1>1
    <2>2. at(0) <= at(i - 1) /\ at(i) <= at(n)
      BY <1>1, <1>5, <2>1
    <2>3. at(i - 1) \in Nat /\ at(i) \in Nat
      BY <1>4, <2>1
    <2>4. NoncesIn(p[i]) = at(i - 1) .. at(i) - 1
      BY <1>2 DEF NoncesIn
    <2> QED
      BY <1>6, <2>2, <2>3, <2>4
  <1>9. ASSUME NEW x \in start .. stop - 1
        PROVE  \E i \in 1 .. n : x \in NoncesIn(p[i])
    \* It is enough to find the last point that is not beyond x.
    <2>1. SUFFICES \E k \in 0 .. n - 1 : at(k) <= x /\ x < at(k + 1)
      <3>1. ASSUME NEW k \in 0 .. n - 1, at(k) <= x, x < at(k + 1)
            PROVE  x \in NoncesIn(p[k + 1])
        <4>1. k + 1 \in 1 .. n /\ (k + 1) - 1 = k
          BY <1>1
        <4>2. p[k + 1].start = at((k + 1) - 1) /\ p[k + 1].stop = at(k + 1)
          BY <1>2, <4>1
        <4>3. at(k) \in Nat /\ at(k + 1) \in Nat
          BY <1>1, <1>4
        <4> QED
          BY <3>1, <4>1, <4>2, <4>3 DEF NoncesIn
      <3>2. \A k \in 0 .. n - 1 : k + 1 \in 1 .. n
        BY <1>1
      <3> QED
        BY <3>1, <3>2
    <2>2. PICK off \in Nat : off = x - start
      <3>1. x - start \in Nat
        OBVIOUS
      <3> QED
        BY <3>1
    <2>3. CASE off < r * (b + 1)
      \* Among the larger assignments, of b + 1 nonces each.
      <3>1. b + 1 \in Nat \ {0}
        BY <1>1
      <3>2. PICK k \in Nat, m \in 0 .. b : off = ((b + 1) * k) + m
        <4>1. /\ off \div (b + 1) \in Nat /\ off % (b + 1) \in 0 .. (b + 1) - 1
              /\ off = ((b + 1) * (off \div (b + 1))) + (off % (b + 1))
          BY <3>1, Division
        <4>2. (b + 1) - 1 = b
          BY <1>1
        <4> QED
          BY <4>1, <4>2
      <3>3. k < r
        <4>1. SUFFICES ASSUME k >= r PROVE FALSE
          BY <1>1
        <4>2. PICK d \in Nat : k = r + d
          <5>1. k - r \in Nat /\ k = r + (k - r)
            BY <1>1, <4>1
          <5> QED
            BY <5>1
        <4>3. (b + 1) * k = (r * (b + 1)) + (d * (b + 1)) /\ d * (b + 1) \in Nat
          BY <1>1, <4>2
        <4>4. r * (b + 1) \in Nat
          BY <1>1
        <4> QED
          BY <2>3, <3>2, <4>3, <4>4
      <3>4. k \in 0 .. n - 1 /\ Lesser(k, r) = k /\ Lesser(k + 1, r) = k + 1
        BY <1>1, <3>3 DEF Lesser
      <3>5. at(k) = start + k * b + k /\ at(k + 1) = start + (k + 1) * b + (k + 1)
        BY <1>7, <3>4
      <3>6. (b + 1) * k = (k * b) + k /\ (k + 1) * b = (k * b) + b /\ k * b \in Nat
        BY <1>1
      <3>7. at(k) <= x /\ x < at(k + 1)
        BY <1>1, <2>2, <3>2, <3>5, <3>6
      <3> QED
        BY <3>4, <3>7
    <2>4. CASE off >= r * (b + 1)
      \* Among the others, of b nonces each.
      <3>1. b \in Nat \ {0} /\ r * (b + 1) \in Nat
        BY <1>1
      <3>2. PICK rest \in Nat : off = (r * (b + 1)) + rest
        <4>1. off - (r * (b + 1)) \in Nat
          BY <2>4, <3>1
        <4> QED
          BY <3>1, <4>1
      <3>3. PICK q \in Nat, m \in 0 .. b - 1 : rest = (b * q) + m
        <4>1. /\ rest \div b \in Nat /\ rest % b \in 0 .. b - 1
              /\ rest = (b * (rest \div b)) + (rest % b)
          BY <3>1, Division
        <4> QED
          BY <4>1
      <3> DEFINE k == r + q
      <3>4. k \in Nat /\ Lesser(k, r) = r /\ Lesser(k + 1, r) = r
        BY <1>1 DEF Lesser
      <3>5. at(k) = start + k * b + r /\ at(k + 1) = start + (k + 1) * b + r
        BY <1>7, <3>4
      <3>6. /\ k * b = (r * b) + (b * q) /\ (k + 1) * b = (r * b) + (b * q) + b
            /\ r * (b + 1) = (r * b) + r
            /\ r * b \in Nat /\ b * q \in Nat
        BY <1>1
      <3>7. at(k) <= x /\ x < at(k + 1)
        BY <1>1, <2>2, <3>2, <3>3, <3>5, <3>6
      <3>8. k < n
        <4>1. SUFFICES ASSUME k >= n PROVE FALSE
          BY <1>1, <3>4
        <4>2. at(n) <= at(k)
          BY <1>1, <1>5, <3>4, <4>1
        <4>3. at(k) \in Nat
          BY <1>4, <3>4
        <4> QED
          BY <1>6, <3>7, <4>2, <4>3
      <3> QED
        BY <1>1, <3>4, <3>7, <3>8
    <2>5. r * (b + 1) \in Nat
      BY <1>1
    <2> QED
      BY <2>3, <2>4, <2>5
  <1>10. ASSUME NEW i \in 1 .. n, NEW j \in 1 .. n, i < j
         PROVE  NoncesIn(p[i]) \cap NoncesIn(p[j]) = {}
    <2>1. i \in Nat /\ j - 1 \in Nat /\ i - 1 \in Nat /\ j \in Nat /\ i <= j - 1
      BY <1>1, <1>10
    <2>2. at(i) <= at(j - 1)
      BY <1>5, <2>1
    <2>3. /\ at(i - 1) \in Nat /\ at(i) \in Nat
          /\ at(j - 1) \in Nat /\ at(j) \in Nat
      BY <1>4, <2>1
    <2>4. /\ NoncesIn(p[i]) = at(i - 1) .. at(i) - 1
          /\ NoncesIn(p[j]) = at(j - 1) .. at(j) - 1
      BY <1>2 DEF NoncesIn
    <2> QED
      BY <2>2, <2>3, <2>4
  <1>11. ASSUME NEW i \in 1 .. n, NEW j \in 1 .. n, i # j
         PROVE  NoncesIn(p[i]) \cap NoncesIn(p[j]) = {}
    <2>1. i < j \/ j < i
      BY <1>1, <1>11
    <2>2. NoncesIn(p[j]) \cap NoncesIn(p[i]) = NoncesIn(p[i]) \cap NoncesIn(p[j])
      OBVIOUS
    <2> QED
      BY <1>10, <2>1, <2>2
  <1> QED
    BY <1>8, <1>9, <1>11 DEF EachNonceOnce, n, p

-------------------------------------------------------------------------------
(* The backends, and the command that searches with one.                    *)

FutureStates == {"pending", "running", "done", "failed", "cancelled"}

PoolTyped ==
    /\ kind \in {"native-parallel", "cuda-multi"}
    /\ closed \in BOOLEAN
    /\ step \in {"construct", "unavailable", "idle", "submit", "wait", "shutdown"}
    /\ contexts \in [Devices -> {"none", "open", "closed"}]
    /\ futures \in Seq(FutureStates)
    /\ awaited \in Nat

\* native-parallel never passes a future that is not done, and begins with the
\* first one.
AwaitedDone ==
    /\ step = "submit" => awaited = 1
    /\ \A i \in DOMAIN futures : i < awaited => futures[i] = "done"

\* Nothing is left for a thread to take once the except branch has cancelled.
CancelledBeforeJoin == step = "shutdown" => InState("pending") = {}

\* A closed context means that the calling thread is out of every search, and
\* that none will start: the backend is closed, or was never available.
ClosedContextsFinal ==
    \A d \in Devices : contexts[d] = "closed" =>
        /\ step \in {"idle", "unavailable"}
        /\ closed \/ step = "unavailable"

\* Contexts are cuda-multi's, and its except branch marks the backend closed
\* before the join after which it releases them.
ContextsOwned ==
    /\ kind = "native-parallel" =>
           step # "construct" /\ \A d \in Devices : contexts[d] = "none"
    /\ kind = "cuda-multi" /\ step = "shutdown" => closed

NothingBeforeConstruction == step \in {"construct", "unavailable"} => futures = <<>>

PoolInv ==
    /\ PoolTyped
    /\ AwaitedDone
    /\ CancelledBeforeJoin
    /\ ClosedContextsFinal
    /\ ContextsOwned
    /\ NothingBeforeConstruction
    /\ NoWorkAfterReturn

-------------------------------------------------------------------------------

LEMMA PoolInvInit == Init => PoolInv
  <1> SUFFICES ASSUME Init PROVE PoolInv
    OBVIOUS
  <1> USE DEF Init, PoolInit
  <1>1. futures = <<>> /\ DOMAIN futures = {}
    OBVIOUS
  <1>2. PoolTyped
    <2>1. closed \in BOOLEAN
      OBVIOUS
    <2>2. kind \in {"native-parallel", "cuda-multi"} /\ step \in {"construct", "idle"}
      OBVIOUS
    <2>3. /\ contexts \in [Devices -> {"none", "open", "closed"}]
          /\ futures \in Seq(FutureStates) /\ awaited \in Nat
      OBVIOUS
    <2> QED
      BY <2>1, <2>2, <2>3 DEF PoolTyped
  <1>3. AwaitedDone
    BY <1>1 DEF AwaitedDone
  <1>4. CancelledBeforeJoin
    BY DEF CancelledBeforeJoin
  <1>5. ClosedContextsFinal
    BY DEF ClosedContextsFinal
  <1>6. NothingBeforeConstruction
    BY <1>1 DEF NothingBeforeConstruction
  <1>7. NoWorkAfterReturn
    BY <1>1 DEF NoWorkAfterReturn, Unfinished, InState
  <1>8. ContextsOwned
    BY DEF ContextsOwned
  <1> QED
    BY <1>2, <1>3, <1>4, <1>5, <1>6, <1>7, <1>8 DEF PoolInv

\* The steps in which the backend does not move.
LEMMA PoolUnchanged ==
    ASSUME PoolInv, UNCHANGED <<kind, step, closed, contexts, futures, awaited, unjoined>>
    PROVE  PoolInv'
  BY DEF PoolInv, PoolTyped, AwaitedDone, CancelledBeforeJoin, ClosedContextsFinal,
         ContextsOwned, NothingBeforeConstruction, NoWorkAfterReturn, Unfinished, InState

LEMMA DeviceOpensKeeps == ASSUME PoolInv, DeviceOpens PROVE PoolInv'
  <1> USE DEF PoolInv, DeviceOpens
  <1>1. step = "construct" /\ futures = <<>> /\ futures' = futures
    BY DEF NothingBeforeConstruction
  <1>2. step' \in {"construct", "idle"} /\ UNCHANGED <<awaited, closed, unjoined>>
    OBVIOUS
  <1>3. /\ contexts' \in [Devices -> {"none", "open", "closed"}]
        /\ \A d \in Devices : contexts'[d] = "closed" => contexts[d] = "closed"
    BY DEF PoolTyped
  <1>4. PoolTyped'
    BY <1>1, <1>2, <1>3 DEF PoolTyped
  <1>5. AwaitedDone' /\ CancelledBeforeJoin' /\ NothingBeforeConstruction'
    BY <1>1, <1>2 DEF AwaitedDone, CancelledBeforeJoin, NothingBeforeConstruction
  <1>6. ClosedContextsFinal'
    BY <1>1, <1>3 DEF ClosedContextsFinal
  <1>7. NoWorkAfterReturn'
    BY <1>1 DEF NoWorkAfterReturn, Unfinished, InState
  <1>8. ContextsOwned'
    BY <1>1 DEF PoolTyped, ContextsOwned
  <1> QED
    BY <1>4, <1>5, <1>6, <1>7, <1>8

LEMMA DeviceUnavailableKeeps == ASSUME PoolInv, DeviceUnavailable PROVE PoolInv'
  <1> USE DEF PoolInv, DeviceUnavailable
  <1>1. step = "construct" /\ futures = <<>> /\ futures' = futures
    BY DEF NothingBeforeConstruction
  <1>2. step' = "unavailable" /\ UNCHANGED <<awaited, closed, unjoined>>
    OBVIOUS
  <1>3. contexts' \in [Devices -> {"none", "open", "closed"}]
    BY DEF PoolTyped, Released
  <1>4. PoolTyped'
    BY <1>1, <1>2, <1>3 DEF PoolTyped
  <1>5. AwaitedDone' /\ CancelledBeforeJoin' /\ NothingBeforeConstruction'
    BY <1>1, <1>2 DEF AwaitedDone, CancelledBeforeJoin, NothingBeforeConstruction
  <1>6. ClosedContextsFinal' /\ NoWorkAfterReturn'
    BY <1>2 DEF ClosedContextsFinal, NoWorkAfterReturn
  <1>7. ContextsOwned'
    BY <1>1, <1>2 DEF PoolTyped, ContextsOwned
  <1> QED
    BY <1>4, <1>5, <1>6, <1>7

\* A worker takes, finishes or fails an assignment that was not finished.
LEMMA WorkerMovesKeeps ==
    ASSUME PoolInv, NEW i \in DOMAIN futures,
           NEW from \in {"pending", "running"},
           NEW to \in {"running", "done", "failed"},
           WorkerMoves(i, from, to)
    PROVE  PoolInv'
  <1> USE DEF PoolInv, WorkerMoves
  <1>1. /\ futures' \in Seq(FutureStates) /\ DOMAIN futures' = DOMAIN futures
        /\ \A k \in DOMAIN futures : futures'[k] = IF k = i THEN to ELSE futures[k]
        /\ futures[i] \in {"pending", "running"}
    BY DEF PoolTyped, FutureStates
  <1>2. UNCHANGED <<step, closed, contexts, awaited, unjoined>>
    OBVIOUS
  <1>3. PoolTyped'
    BY <1>1, <1>2 DEF PoolTyped
  <1>4. AwaitedDone'
    BY <1>1, <1>2 DEF AwaitedDone
  <1>5. CancelledBeforeJoin'
    BY <1>1, <1>2 DEF CancelledBeforeJoin, InState
  <1>6. ClosedContextsFinal'
    BY <1>2 DEF ClosedContextsFinal
  <1>7. NothingBeforeConstruction'
    BY <1>2 DEF NothingBeforeConstruction
  <1>8. NoWorkAfterReturn'
    BY <1>1, <1>2 DEF NoWorkAfterReturn, Unfinished, InState
  <1>9. ContextsOwned'
    BY <1>2 DEF ContextsOwned
  <1> QED
    BY <1>3, <1>4, <1>5, <1>6, <1>7, <1>8, <1>9

LEMMA SubmitAssignmentKeeps == ASSUME PoolInv, SubmitAssignment PROVE PoolInv'
  <1> USE DEF PoolInv, SubmitAssignment
  <1>1. step = "submit" /\ step' \in {"submit", "wait"}
        /\ UNCHANGED <<closed, contexts, awaited, unjoined>>
    OBVIOUS
  <1>2. /\ futures' \in Seq(FutureStates)
        /\ DOMAIN futures' = DOMAIN futures \cup {Len(futures) + 1}
        /\ \A k \in DOMAIN futures : futures'[k] = futures[k]
    BY DEF PoolTyped, FutureStates
  <1>3. PoolTyped'
    BY <1>1, <1>2 DEF PoolTyped
  <1>4. AwaitedDone'
    <2>1. awaited = 1
      BY <1>1 DEF AwaitedDone
    <2>2. \A k \in DOMAIN futures' : ~ (k < 1)
      BY <1>2 DEF PoolTyped
    <2> QED
      BY <1>1, <2>1, <2>2 DEF AwaitedDone
  <1>5. CancelledBeforeJoin' /\ NothingBeforeConstruction' /\ NoWorkAfterReturn'
    BY <1>1 DEF CancelledBeforeJoin, NothingBeforeConstruction, NoWorkAfterReturn
  <1>6. ClosedContextsFinal'
    BY <1>1 DEF ClosedContextsFinal
  <1>7. ContextsOwned'
    BY <1>1 DEF ContextsOwned
  <1> QED
    BY <1>3, <1>4, <1>5, <1>6, <1>7

\* The except branch: what was pending is cancelled, and the thread goes on to
\* the join.
LEMMA BreakKeeps ==
    ASSUME PoolInv, step \in {"submit", "wait"}, NEW cause, Break(cause)
    PROVE  PoolInv'
  <1> USE DEF PoolInv, Break
  <1>1. step' = "shutdown" /\ UNCHANGED <<contexts, awaited, unjoined>>
    OBVIOUS
  <1>2. /\ futures' \in Seq(FutureStates) /\ DOMAIN futures' = DOMAIN futures
        /\ \A k \in DOMAIN futures :
               futures'[k] = IF futures[k] = "pending" THEN "cancelled" ELSE futures[k]
    BY DEF PoolTyped, FutureStates, Cancelled
  <1>3. PoolTyped'
    BY <1>1, <1>2 DEF PoolTyped
  <1>4. AwaitedDone'
    BY <1>1, <1>2 DEF AwaitedDone
  <1>5. CancelledBeforeJoin'
    BY <1>2 DEF CancelledBeforeJoin, InState
  <1>6. ClosedContextsFinal'
    BY <1>1 DEF ClosedContextsFinal
  <1>7. NothingBeforeConstruction' /\ NoWorkAfterReturn'
    BY <1>1 DEF NothingBeforeConstruction, NoWorkAfterReturn
  <1>8. ContextsOwned'
    BY <1>1 DEF PoolTyped, ContextsOwned
  <1> QED
    BY <1>3, <1>4, <1>5, <1>6, <1>7, <1>8

LEMMA ResultReadyKeeps == ASSUME PoolInv, ResultReady PROVE PoolInv'
  <1> USE DEF PoolInv, ResultReady
  <1>1. /\ step = "wait" /\ futures[awaited] = "done" /\ awaited' = awaited + 1
        /\ UNCHANGED <<step, closed, contexts, futures, unjoined>>
    BY DEF InState
  <1>2. PoolTyped'
    BY <1>1 DEF PoolTyped
  <1>3. AwaitedDone'
    <2>1. \A k \in DOMAIN futures : k \in Nat
      BY DEF PoolTyped
    <2>2. \A k \in DOMAIN futures : k < awaited + 1 => k < awaited \/ k = awaited
      BY <2>1 DEF PoolTyped
    <2> QED
      BY <1>1, <2>2 DEF AwaitedDone
  <1>4. CancelledBeforeJoin' /\ NothingBeforeConstruction' /\ NoWorkAfterReturn'
    BY <1>1 DEF CancelledBeforeJoin, NothingBeforeConstruction, NoWorkAfterReturn
  <1>5. ClosedContextsFinal'
    BY <1>1 DEF ClosedContextsFinal
  <1>6. ContextsOwned'
    BY <1>1 DEF ContextsOwned
  <1> QED
    BY <1>2, <1>3, <1>4, <1>5, <1>6

\* All results in means no assignment unfinished, however the caller waited.
LEMMA SearchReturnsKeeps == ASSUME PoolInv, SearchReturns PROVE PoolInv'
  <1> USE DEF PoolInv, SearchReturns
  <1>1. /\ step = "wait" /\ step' = "idle" /\ AllResultsIn
        /\ UNCHANGED <<closed, contexts, futures, awaited, unjoined>>
    OBVIOUS
  <1>2. \A k \in DOMAIN futures : futures[k] = "done"
    <2>1. CASE kind = "native-parallel"
      <3>1. awaited = Len(futures) + 1
        BY <1>1, <2>1 DEF AllResultsIn
      <3>2. \A k \in DOMAIN futures : k < awaited
        BY <3>1 DEF PoolTyped
      <3> QED
        BY <3>2 DEF AwaitedDone
    <2>2. CASE kind # "native-parallel"
      BY <1>1, <2>2 DEF AllResultsIn, InState
    <2> QED
      BY <2>1, <2>2
  <1>3. NoWorkAfterReturn'
    BY <1>1, <1>2 DEF NoWorkAfterReturn, Unfinished, InState
  <1>4. PoolTyped' /\ AwaitedDone' /\ CancelledBeforeJoin' /\ NothingBeforeConstruction'
    BY <1>1 DEF PoolTyped, AwaitedDone, CancelledBeforeJoin, NothingBeforeConstruction
  <1>5. ClosedContextsFinal'
    BY <1>1 DEF ClosedContextsFinal
  <1>6. ContextsOwned'
    BY <1>1 DEF ContextsOwned
  <1> QED
    BY <1>3, <1>4, <1>5, <1>6

\* What follows the join, whether it waited or was cut short.
LEMMA RaiseKeeps ==
    ASSUME PoolInv, step = "shutdown", Raise,
           \/ UNCHANGED unjoined /\ InState("running") = {}
           \/ unjoined' = TRUE
    PROVE  PoolInv'
  <1> USE DEF PoolInv, Raise
  <1>1. /\ step' = "idle" /\ contexts' = Released(contexts)
        /\ UNCHANGED <<kind, closed, futures, awaited>>
    OBVIOUS
  <1>2. /\ contexts' \in [Devices -> {"none", "open", "closed"}]
        /\ \A d \in Devices : contexts'[d] = "closed" => contexts[d] # "none"
        /\ \A d \in Devices : contexts[d] = "none" => contexts'[d] = "none"
    BY <1>1 DEF PoolTyped, Released
  <1>3. PoolTyped' /\ AwaitedDone' /\ CancelledBeforeJoin' /\ NothingBeforeConstruction'
    BY <1>1, <1>2 DEF PoolTyped, AwaitedDone, CancelledBeforeJoin, NothingBeforeConstruction
  <1>4. ContextsOwned'
    BY <1>1, <1>2 DEF ContextsOwned
  <1>5. ClosedContextsFinal'
    <2> SUFFICES ASSUME NEW d \in Devices, contexts'[d] = "closed"
                 PROVE  closed
      BY <1>1 DEF ClosedContextsFinal
    <2>1. kind = "cuda-multi"
      BY <1>2 DEF PoolTyped, ContextsOwned
    <2> QED
      BY <2>1 DEF ContextsOwned
  <1>6. NoWorkAfterReturn'
    BY <1>1 DEF CancelledBeforeJoin, NoWorkAfterReturn, Unfinished, InState
  <1> QED
    BY <1>3, <1>4, <1>5, <1>6

LEMMA CloseBackendKeeps ==
    ASSUME PoolInv, CloseBackend
    PROVE  PoolInv'
  <1> USE DEF PoolInv, CloseBackend
  <1>1. /\ step = "idle" /\ closed' = TRUE
        /\ UNCHANGED <<kind, step, futures, awaited, unjoined>>
    OBVIOUS
  <1>2. /\ contexts' \in [Devices -> {"none", "open", "closed"}]
        /\ \A d \in Devices : contexts[d] = "none" => contexts'[d] = "none"
    BY DEF PoolTyped, Released
  <1>3. PoolTyped' /\ AwaitedDone' /\ CancelledBeforeJoin' /\ NothingBeforeConstruction'
    BY <1>1, <1>2 DEF PoolTyped, AwaitedDone, CancelledBeforeJoin, NothingBeforeConstruction
  <1>4. ContextsOwned' /\ ClosedContextsFinal'
    BY <1>1, <1>2 DEF ContextsOwned, ClosedContextsFinal
  <1>5. NoWorkAfterReturn'
    BY <1>1 DEF NoWorkAfterReturn, Unfinished, InState
  <1> QED
    BY <1>3, <1>4, <1>5

\* A search only starts on a backend that is neither closed nor broken, hence
\* with every context still open.
LEMMA StartSearchKeeps ==
    ASSUME PoolInv, NEW start, NEW stop, StartSearch(start, stop)
    PROVE  PoolInv'
  <1> USE DEF PoolInv, StartSearch
  <1>1. CASE closed \/ broken
    <2>1. UNCHANGED <<kind, step, closed, contexts, futures, awaited, unjoined>>
      BY <1>1
    <2> QED
      BY <2>1, PoolUnchanged
  <1>2. CASE ~(closed \/ broken)
    <2>1. /\ step = "idle" /\ step' = "submit" /\ futures' = <<>> /\ awaited' = 1
          /\ ~closed /\ UNCHANGED <<kind, closed, contexts, unjoined>>
      BY <1>2
    <2>2. \A d \in Devices : contexts[d] # "closed"
      BY <2>1 DEF ClosedContextsFinal
    <2>3. PoolTyped' /\ CancelledBeforeJoin' /\ NothingBeforeConstruction' /\ NoWorkAfterReturn'
      BY <2>1 DEF PoolTyped, CancelledBeforeJoin, NothingBeforeConstruction, NoWorkAfterReturn
    <2>4. AwaitedDone' /\ ContextsOwned' /\ ClosedContextsFinal'
      BY <2>1, <2>2 DEF AwaitedDone, ContextsOwned, ClosedContextsFinal
    <2> QED
      BY <2>3, <2>4
  <1> QED
    BY <1>1, <1>2

LEMMA ForgetCallKeeps ==
    ASSUME PoolInv, ForgetCall, step = "idle"
    PROVE  PoolInv'
  <1> USE DEF PoolInv, ForgetCall
  <1>1. futures' = <<>> /\ UNCHANGED <<kind, step, closed, contexts, awaited, unjoined>>
    OBVIOUS
  <1>2. PoolTyped' /\ CancelledBeforeJoin' /\ NothingBeforeConstruction'
    BY <1>1 DEF PoolTyped, CancelledBeforeJoin, NothingBeforeConstruction
  <1>3. AwaitedDone' /\ ContextsOwned' /\ ClosedContextsFinal'
    BY <1>1 DEF AwaitedDone, ContextsOwned, ClosedContextsFinal
  <1>4. NoWorkAfterReturn'
    BY <1>1 DEF NoWorkAfterReturn, Unfinished, InState
  <1> QED
    BY <1>2, <1>3, <1>4

-------------------------------------------------------------------------------

LEMMA PoolNextKeeps == ASSUME PoolInv, PoolNext PROVE PoolInv'
  <1>1. CASE DeviceOpens
    BY <1>1, DeviceOpensKeeps
  <1>2. CASE DeviceUnavailable
    BY <1>2, DeviceUnavailableKeeps
  <1>3. CASE \E i \in DOMAIN futures : WorkerStarts(i) \/ WorkerFinishes(i) \/ WorkerFails(i)
    <2>1. PICK i \in DOMAIN futures : WorkerStarts(i) \/ WorkerFinishes(i) \/ WorkerFails(i)
      BY <1>3
    <2>2. CASE WorkerStarts(i)
      BY <2>2, WorkerMovesKeeps DEF WorkerStarts
    <2>3. CASE WorkerFinishes(i)
      BY <2>3, WorkerMovesKeeps DEF WorkerFinishes
    <2>4. CASE WorkerFails(i)
      BY <2>4, WorkerMovesKeeps DEF WorkerFails
    <2> QED
      BY <2>1, <2>2, <2>3, <2>4
  <1>4. CASE SubmitAssignment
    BY <1>4, SubmitAssignmentKeeps
  <1>5. CASE SubmitFails \/ SearchBreaks \/ SearchInterrupted
    <2>1. step \in {"submit", "wait"} /\ (Break("error") \/ Break("interrupt"))
      BY <1>5 DEF SubmitFails, SearchBreaks, SearchInterrupted
    <2> QED
      BY <2>1, BreakKeeps
  <1>6. CASE ResultReady
    BY <1>6, ResultReadyKeeps
  <1>7. CASE SearchReturns
    BY <1>7, SearchReturnsKeeps
  <1>8. CASE ShutdownEnds
    BY <1>8, RaiseKeeps DEF ShutdownEnds
  <1>9. CASE ShutdownInterrupted
    BY <1>9, RaiseKeeps DEF ShutdownInterrupted
  <1> QED
    BY <1>1, <1>2, <1>3, <1>4, <1>5, <1>6, <1>7, <1>8, <1>9 DEF PoolNext

\* The command moves the backend only by starting a search, by taking its
\* result and by closing it.
LEMMA NextKeepsPoolInv == ASSUME PoolInv, [Next]_vars PROVE PoolInv'
  <1> DEFINE Still == UNCHANGED <<kind, step, closed, contexts, futures, awaited, unjoined>>
  <1>1. CASE BackendStep
    BY <1>1, PoolNextKeeps DEF BackendStep
  <1>2. CASE StartChunk
    <2>1. \E start, stop : StartSearch(start, stop)
      BY <1>2 DEF StartChunk
    <2> QED
      BY <2>1, StartSearchKeeps
  <1>3. CASE ChunkReturns
    BY <1>3, ForgetCallKeeps DEF ChunkReturns
  <1>4. CASE StrategyRefused \/ CloseBackendLast \/ CloseBackendFails
    <2>1. CloseBackend
      BY <1>4 DEF StrategyRefused, CloseBackendLast, CloseBackendFails
    <2> QED
      BY <2>1, CloseBackendKeeps
  <1>5. CASE \/ PoolSends \/ ComponentsSelected \/ BackendRefused \/ Handshake
             \/ ReceiveBuildableJob \/ ChunkRaises \/ SubmitAnswered \/ Poll \/ PollEmpty
             \/ CloseClient \/ Ended \/ UNCHANGED vars
    <2>1. UNCHANGED poolVars
      BY <1>5 DEF PoolSends, ComponentsSelected, BackendRefused, Handshake,
                  ReceiveBuildableJob, ChunkRaises, SubmitAnswered, Poll, PollEmpty,
                  CloseClient, Ended, vars
    <2>2. Still
      BY <2>1 DEF poolVars
    <2> QED
      BY <2>2, PoolUnchanged
  <1>6. CASE \/ SelectionNotLogged \/ HandshakeFails \/ CloseClientFails
             \/ CloseClientFailureNotLogged
             \/ \E at \in {"await_job", "chunk", "submit", "drain"} : StepFails(at)
    <2>1. UNCHANGED poolVarsButFaults
      BY <1>6 DEF SelectionNotLogged, HandshakeFails, CloseClientFails,
                  CloseClientFailureNotLogged, StepFails
    <2>2. Still
      BY <2>1 DEF poolVarsButFaults
    <2> QED
      BY <2>2, PoolUnchanged
  <1> QED
    BY <1>1, <1>2, <1>3, <1>4, <1>5, <1>6 DEF Next

THEOREM PoolInvariant == Spec => []PoolInv
  <1>1. Init => PoolInv
    BY PoolInvInit
  <1>2. PoolInv /\ [Next]_vars => PoolInv'
    BY NextKeepsPoolInv
  <1> QED
    BY <1>1, <1>2, PTL DEF Spec

\* When search_nonce_range is over, however many workers or devices there are,
\* whichever failed and in whatever order the others ran, none of its
\* assignments is queued or running (an interrupted join excepted).
THEOREM SearchLeavesNoWork == Spec => []NoWorkAfterReturn
  <1>1. PoolInv => NoWorkAfterReturn
    BY DEF PoolInv
  <1> QED
    BY PoolInvariant, <1>1, PTL

\* A device context is never closed under a running assignment (an interrupted
\* join excepted): contexts close only outside a search, where no work is left.
THEOREM ContextsClosedIdle == Spec => []ContextsReleasedAfterJoin
  <1>1. ASSUME PoolInv PROVE ContextsReleasedAfterJoin
    <2> SUFFICES ASSUME ~unjoined, NEW d \in Devices, contexts[d] = "closed",
                        d \in InState("running")
                 PROVE  FALSE
      BY DEF ContextsReleasedAfterJoin, ContextsReleasedIdle
    <2>1. step \in {"idle", "unavailable"}
      BY <1>1 DEF PoolInv, ClosedContextsFinal
    <2>2. step # "unavailable"
      BY <1>1 DEF PoolInv, NothingBeforeConstruction, InState
    <2>3. d \in Unfinished
      BY DEF Unfinished
    <2> QED
      BY <1>1, <2>1, <2>2, <2>3 DEF PoolInv, NoWorkAfterReturn
  <1> QED
    BY PoolInvariant, <1>1, PTL

-------------------------------------------------------------------------------
(* The end of the command.                                                  *)

\* A backend that was closed, or never became available, holds nothing once the
\* calling thread is out of it.
ReleasedInv ==
    /\ step \in {"construct", "unavailable"} => executor = "none" /\ ~closed
    /\ closed => step \in {"idle", "shutdown"}
    /\ closed /\ step = "idle" => executor = "none" /\ OpenDevices = {}
    /\ step = "unavailable" => OpenDevices = {}

\* Where the command stands says what it has opened and closed.
CleanupInv ==
    /\ phase = "select" => client = "none"
    /\ phase \in {"close_backend", "ended"} => client # "open"
    /\ phase = "ended" /\ ~logEscaped => step = "unavailable" \/ (closed /\ step = "idle")

LEMMA ReleasedOpensNothing ==
    ASSUME contexts' = Released(contexts)
    PROVE  OpenDevices' = {}
  BY DEF Released, OpenDevices

\* What a backend holds over one of its own steps.
LEMMA PoolNextReleases ==
    ASSUME ReleasedInv, PoolNext
    PROVE  /\ ReleasedInv'
           /\ closed /\ step = "idle" => closed' /\ step' = "idle"
           /\ step = "unavailable" => step' = "unavailable"
  <1> USE DEF ReleasedInv
  <1>1. CASE DeviceOpens
    <2>1. /\ step = "construct" /\ step' \in {"construct", "idle"}
          /\ UNCHANGED <<executor, closed>>
      BY <1>1 DEF DeviceOpens
    <2> QED
      BY <2>1
  <1>2. CASE DeviceUnavailable
    BY <1>2, ReleasedOpensNothing DEF DeviceUnavailable
  <1>3. CASE \E i \in DOMAIN futures : WorkerStarts(i) \/ WorkerFinishes(i) \/ WorkerFails(i)
    <2>1. UNCHANGED <<step, executor, closed, contexts>>
      BY <1>3 DEF WorkerStarts, WorkerFinishes, WorkerFails, WorkerMoves
    <2> QED
      BY <2>1 DEF OpenDevices
  <1>4. CASE SubmitAssignment
    BY <1>4 DEF SubmitAssignment
  <1>5. CASE SubmitFails \/ SearchBreaks \/ SearchInterrupted
    BY <1>5 DEF SubmitFails, SearchBreaks, SearchInterrupted, Break
  <1>6. CASE ResultReady
    BY <1>6 DEF ResultReady
  <1>7. CASE SearchReturns
    BY <1>7 DEF SearchReturns
  <1>8. CASE ShutdownEnds \/ ShutdownInterrupted
    BY <1>8, ReleasedOpensNothing DEF ShutdownEnds, ShutdownInterrupted, Raise
  <1> QED
    BY <1>1, <1>2, <1>3, <1>4, <1>5, <1>6, <1>7, <1>8 DEF PoolNext

LEMMA CloseBackendReleases ==
    ASSUME ReleasedInv, CloseBackend
    PROVE  ReleasedInv' /\ closed' /\ step' = "idle"
  <1>1. /\ step = "idle" /\ step' = "idle" /\ closed' = TRUE
        /\ executor' = IF closed THEN executor ELSE "none"
        /\ contexts' = IF closed THEN contexts ELSE Released(contexts)
    BY DEF CloseBackend
  <1>2. CASE closed
    BY <1>1, <1>2 DEF ReleasedInv, OpenDevices
  <1>3. CASE ~closed
    BY <1>1, <1>3, ReleasedOpensNothing DEF ReleasedInv
  <1> QED
    BY <1>2, <1>3

\* The command ends past its cleanup, or before there was anything to clean up.
LEMMA NextReleases ==
    ASSUME ReleasedInv, CleanupInv, [Next]_vars
    PROVE  ReleasedInv' /\ CleanupInv'
  <1> DEFINE Still == UNCHANGED <<step, executor, closed, contexts>>
  <1>a. ASSUME Still PROVE ReleasedInv'
    BY <1>a DEF ReleasedInv, OpenDevices
  <1>1. CASE BackendStep
    <2>1. UNCHANGED <<phase, client, logEscaped>>
      BY <1>1 DEF BackendStep, commandVars
    <2> QED
      BY <1>1, <2>1, PoolNextReleases DEF BackendStep, CleanupInv
  <1>2. CASE StartChunk
    <2>1. /\ \E start, stop : StartSearch(start, stop)
          /\ phase' = "searching" /\ UNCHANGED <<client, logEscaped>>
      BY <1>2 DEF StartChunk
    <2>2. UNCHANGED <<executor, closed, contexts>> /\ step = "idle" /\ (~closed \/ step' = step)
      BY <2>1 DEF StartSearch
    <2>3. step' \in {"idle", "submit"}
      BY <2>1 DEF StartSearch
    <2> QED
      BY <2>1, <2>2, <2>3 DEF ReleasedInv, CleanupInv, OpenDevices
  <1>3. CASE ChunkReturns
    <2>1. Still
      BY <1>3 DEF ChunkReturns, ForgetCall
    <2>2. phase' \in {"submit", "close_client", "drain"}
      BY <1>3 DEF ChunkReturns
    <2> QED
      BY <1>a, <2>1, <2>2 DEF CleanupInv
  <1>4. CASE StrategyRefused \/ CloseBackendLast \/ CloseBackendFails
    <2>1. ReleasedInv' /\ closed' /\ step' = "idle"
      BY <1>4, CloseBackendReleases DEF StrategyRefused, CloseBackendLast, CloseBackendFails
    <2>2. client # "open" /\ client' = client
      BY <1>4 DEF StrategyRefused, EndSelection, CloseBackendLast, CloseBackendFails, CleanupInv
    <2> QED
      BY <2>1, <2>2, <1>4 DEF StrategyRefused, EndSelection, CloseBackendLast,
                              CloseBackendFails, CleanupInv
  <1>5. CASE \/ PoolSends \/ ComponentsSelected \/ BackendRefused \/ Handshake
             \/ ReceiveBuildableJob \/ ChunkRaises \/ SubmitAnswered \/ Poll \/ PollEmpty
             \/ CloseClient \/ Ended \/ UNCHANGED vars
    <2>1. Still
      BY <1>5 DEF PoolSends, ComponentsSelected, BackendRefused, Handshake,
                  ReceiveBuildableJob, ChunkRaises, SubmitAnswered, Poll, PollEmpty,
                  CloseClient, Ended, vars, poolVars
    <2>2. CleanupInv'
      BY <1>5, <2>1 DEF PoolSends, ComponentsSelected, BackendRefused, EndSelection,
                  Handshake, ReceiveBuildableJob, ChunkRaises, FailAs, SubmitAnswered, Poll,
                  PollEmpty, CloseClient, Ended, vars, commandVars, CleanupInv
    <2> QED
      BY <1>a, <2>1, <2>2
  <1>6. CASE \/ SelectionNotLogged \/ HandshakeFails \/ CloseClientFails
             \/ CloseClientFailureNotLogged
             \/ \E at \in {"await_job", "chunk", "submit", "drain"} : StepFails(at)
    <2>1. Still
      BY <1>6 DEF SelectionNotLogged, HandshakeFails, CloseClientFails,
                  CloseClientFailureNotLogged, StepFails, poolVarsButFaults
    <2>2. CleanupInv'
      BY <1>6, <2>1 DEF SelectionNotLogged, EndSelection, HandshakeFails, FailAs,
                  CloseClientFails, CloseClientFailureNotLogged, StepFails, CleanupInv
    <2> QED
      BY <1>a, <2>1, <2>2
  <1> QED
    BY <1>1, <1>2, <1>3, <1>4, <1>5, <1>6 DEF Next

\* When the command is over, however it ended, its connection is closed and the
\* backend holds neither a pool nor a device context, for any number of devices,
\* failures and interrupts (an event-log error that skips the cleanup excepted).
THEOREM BackendReleasedHolds == Spec => []BackendReleased
  <1>1. Init => ReleasedInv /\ CleanupInv
    <2> SUFFICES ASSUME Init PROVE ReleasedInv /\ CleanupInv
      OBVIOUS
    <2>1. step \in {"construct", "idle"} /\ executor = "none" /\ closed = FALSE
      BY DEF Init, PoolInit
    <2> QED
      BY <2>1 DEF Init, ReleasedInv, CleanupInv
  <1>2. (ReleasedInv /\ CleanupInv) /\ [Next]_vars => (ReleasedInv /\ CleanupInv)'
    BY NextReleases
  <1>3. ReleasedInv /\ CleanupInv => BackendReleased
    <2> SUFFICES ASSUME ReleasedInv, CleanupInv, phase = "ended", ~logEscaped
                 PROVE  client # "open" /\ executor = "none" /\ OpenDevices = {}
      BY DEF BackendReleased
    <2>1. step = "unavailable" \/ (closed /\ step = "idle")
      BY DEF CleanupInv
    <2> QED
      BY <2>1 DEF ReleasedInv, CleanupInv
  <1> QED
    BY <1>1, <1>2, <1>3, PTL DEF Spec

-------------------------------------------------------------------------------
(* What a search reports.                                                   *)

Searched ==
    /\ call.start \in Nat /\ call.stop \in Nat /\ call.start < call.stop
    /\ call.hash \in [call.start .. call.stop - 1 -> HashValues]

Parent == [start |-> call.start, stop |-> call.stop]

Hits(range) == {n \in NoncesIn(range) : Meets(n)}

LEMMA LowestMatchIs ==
    ASSUME NEW range, NoncesIn(range) \subseteq Nat
    PROVE  /\ Hits(range) = {} => LowestMatch(range) = NoNonce
           /\ Hits(range) # {} =>
                  /\ LowestMatch(range) \in Hits(range)
                  /\ \A n \in Hits(range) : LowestMatch(range) <= n
  <1>1. Hits(range) \subseteq Nat
    BY DEF Hits
  <1>2. LowestMatch(range) = IF Hits(range) = {} THEN NoNonce ELSE Min(Hits(range))
    BY DEF LowestMatch, Hits
  <1> QED
    BY <1>1, <1>2, MinIs

\* The best of some nonces is one of them, has the least hash, and is the
\* lowest with that hash.
IsBest(b, nonces) ==
    /\ b \in nonces
    /\ \A n \in nonces : call.hash[b] <= call.hash[n]
    /\ \A n \in nonces : call.hash[n] = call.hash[b] => b <= n

LEMMA HashIsNatural ==
    ASSUME Searched, NEW n \in call.start .. call.stop - 1
    PROVE  n \in Nat /\ call.hash[n] \in Nat
  <1>1. call.hash[n] \in HashValues
    BY DEF Searched
  <1>2. n \in Nat
    BY DEF Searched
  <1> QED
    BY <1>1, <1>2, TargetAssumption

LEMMA BestOfIs ==
    ASSUME Searched, NEW nonces, nonces # {},
           nonces \subseteq call.start .. call.stop - 1
    PROVE  IsBest(BestOf(nonces), nonces)
  <1> DEFINE hashes == {call.hash[n] : n \in nonces}
             least == Min(hashes)
             lowest == {n \in nonces : call.hash[n] = least}
  <1>1. \A n \in nonces : n \in Nat /\ call.hash[n] \in Nat
    BY HashIsNatural
  <1>2. hashes \subseteq Nat /\ hashes # {}
    BY <1>1
  <1>3. least \in hashes /\ \A h \in hashes : least <= h
    <2> HIDE DEF hashes
    <2> QED
      BY <1>2, MinIs
  <1>4. lowest \subseteq Nat /\ lowest # {}
    <2> HIDE DEF least
    <2> QED
      BY <1>1, <1>3
  <1>5. BestOf(nonces) = Min(lowest)
    BY DEF BestOf
  <1>6. Min(lowest) \in lowest /\ \A n \in lowest : Min(lowest) <= n
    <2> HIDE DEF lowest
    <2> QED
      BY <1>4, MinIs
  <1> HIDE DEF least
  <1> QED
    BY <1>3, <1>5, <1>6 DEF IsBest

\* There is only one such nonce.
LEMMA BestUnique ==
    ASSUME Searched, NEW nonces, nonces \subseteq call.start .. call.stop - 1,
           NEW a, NEW b, IsBest(a, nonces), IsBest(b, nonces)
    PROVE  a = b
  <1>1. /\ a \in nonces /\ b \in nonces
        /\ call.hash[a] <= call.hash[b] /\ call.hash[b] <= call.hash[a]
    BY DEF IsBest
  <1>2. a \in Nat /\ b \in Nat /\ call.hash[a] \in Nat /\ call.hash[b] \in Nat
    BY <1>1, HashIsNatural
  <1>3. call.hash[a] = call.hash[b]
    BY <1>1, <1>2
  <1>4. a <= b /\ b <= a
    BY <1>1, <1>3 DEF IsBest
  <1> QED
    BY <1>2, <1>4

\* The assignments of a call, and the points between them.
LEMMA AssignmentsCover ==
    ASSUME Searched,
           NEW n, n = AssignmentCount(call.start, call.stop, Workers)
    PROVE  /\ n \in Nat /\ n >= 1 /\ DOMAIN Assignments = 1 .. n
           /\ \A i \in 1 .. n :
                  /\ Assignments[i].start \in Nat /\ Assignments[i].stop \in Nat
                  /\ Assignments[i].start < Assignments[i].stop
                  /\ NoncesIn(Assignments[i]) \subseteq NoncesIn(Parent)
           /\ \A x \in NoncesIn(Parent) : \E i \in 1 .. n : x \in NoncesIn(Assignments[i])
           /\ \E at \in [0 .. n -> Nat] :
                  /\ at[0] = call.start /\ at[n] = call.stop
                  /\ \A i \in 1 .. n : Assignments[i].start = at[i - 1] /\ Assignments[i].stop = at[i]
  <1> USE WorkersAssumption DEF Searched
  <1>1. NoncesIn(Parent) = call.start .. call.stop - 1
    BY DEF NoncesIn, Parent
  <1>2. n \in Nat /\ n >= 1
    BY CutSizes
  <1>3. DOMAIN Assignments = 1 .. n
    BY DEF Assignments, PartitionNonceRange
  <1>4. EachNonceOnce(call.start, call.stop, Workers)
    BY PartitionEachNonceOnce
  <1>5. \A i \in 1 .. n :
            /\ Assignments[i].start \in Nat /\ Assignments[i].stop \in Nat
            /\ Assignments[i].start = AssignmentStart(call.start, call.stop, Workers, i - 1)
            /\ Assignments[i].stop = AssignmentStart(call.start, call.stop, Workers, i)
    BY AssignmentShape DEF Assignments
  <1>6. Assignments[1].start = call.start /\ Assignments[n].stop = call.stop
    BY AssignmentShape DEF Assignments
  <1>7. ContiguousAndBalanced(call.start, call.stop, Workers)
    BY PartitionContiguousAndBalanced
  <1>8. \A i \in 1 .. n : Assignments[i].start < Assignments[i].stop
    BY <1>7 DEF ContiguousAndBalanced, Assignments
  <1>9. /\ \A i \in 1 .. n : NoncesIn(Assignments[i]) \subseteq call.start .. call.stop - 1
        /\ \A x \in call.start .. call.stop - 1 : \E i \in 1 .. n : x \in NoncesIn(Assignments[i])
    BY <1>4 DEF EachNonceOnce, Assignments
  <1> DEFINE at == [k \in 0 .. n |-> AssignmentStart(call.start, call.stop, Workers, k)]
  <1>10. \A k \in Nat : AssignmentStart(call.start, call.stop, Workers, k) \in Nat
    BY CutPoints
  <1>11. at \in [0 .. n -> Nat]
    BY <1>2, <1>10
  <1>12. at[0] = call.start /\ at[n] = call.stop
    <2>1. 1 \in 1 .. n /\ 1 - 1 = 0 /\ n \in 1 .. n
      BY <1>2
    <2>2. /\ Assignments[1].start = AssignmentStart(call.start, call.stop, Workers, 0)
          /\ Assignments[n].stop = AssignmentStart(call.start, call.stop, Workers, n)
      BY <1>5, <2>1
    <2> QED
      BY <1>2, <1>6, <2>2
  <1>13. \A i \in 1 .. n : Assignments[i].start = at[i - 1] /\ Assignments[i].stop = at[i]
    <2> SUFFICES ASSUME NEW i \in 1 .. n
                 PROVE  Assignments[i].start = at[i - 1] /\ Assignments[i].stop = at[i]
      OBVIOUS
    <2>1. i \in 0 .. n /\ i - 1 \in 0 .. n
      BY <1>2
    <2> QED
      BY <1>5, <2>1
  <1> HIDE DEF at
  <1> QED
    BY <1>1, <1>2, <1>3, <1>5, <1>8, <1>9, <1>11, <1>12, <1>13

\* One worker: it checks some of its range, all of it when nothing matches and
\* the match when there is one, and reports the best of what it checked.
LEMMA WorkerReports ==
    ASSUME Searched, NEW range, range.start \in Nat, range.stop \in Nat,
           range.start < range.stop, NoncesIn(range) \subseteq NoncesIn(Parent),
           NEW r, r = WorkerResult(range)
    PROVE  /\ r.hashes \in 1 .. range.stop - range.start
           /\ Hits(range) = {} =>
                  /\ r.match = NoNonce
                  /\ r.hashes = range.stop - range.start
                  /\ IsBest(r.best, NoncesIn(range))
           /\ Hits(range) # {} =>
                  /\ r.match \in Hits(range) /\ \A n \in Hits(range) : r.match <= n
                  /\ r.best \in NoncesIn(range)
                  /\ call.hash[r.best] <= call.hash[r.match]
  <1> DEFINE checked == range.start .. range.start + HashesChecked(range) - 1
  <1>1. /\ r.match = LowestMatch(range) /\ r.hashes = HashesChecked(range)
        /\ r.best = BestOf(checked)
    BY DEF WorkerResult
  <1>2. NoncesIn(range) = range.start .. range.stop - 1
    BY DEF NoncesIn
  <1>3. NoncesIn(Parent) = call.start .. call.stop - 1
    BY DEF NoncesIn, Parent
  <1>4. NoncesIn(range) \subseteq Nat
    BY <1>2
  <1>5. CASE Hits(range) = {}
    <2>1. LowestMatch(range) = NoNonce
      BY <1>4, <1>5, LowestMatchIs
    <2>2. HashesChecked(range) = range.stop - range.start
      BY <2>1 DEF HashesChecked
    <2>3. checked = NoncesIn(range)
      BY <1>2, <2>2
    <2>4. range.start \in NoncesIn(range)
      <3> HIDE DEF checked
      <3> QED
        BY <1>2
    <2> HIDE DEF checked
    <2>5. IsBest(BestOf(checked), checked)
      BY <1>3, <2>3, <2>4, BestOfIs
    <2> QED
      BY <1>1, <1>5, <2>1, <2>2, <2>3, <2>5
  <1>6. CASE Hits(range) # {}
    <2>1. /\ LowestMatch(range) \in Hits(range)
          /\ \A n \in Hits(range) : LowestMatch(range) <= n
      BY <1>4, <1>6, LowestMatchIs
    <2> DEFINE m == LowestMatch(range)
    <2>2. m \in range.start .. range.stop - 1
      BY <1>2, <2>1 DEF Hits
    <2>3. \/ HashesChecked(range) = m - range.start + 1
          \/ HashesChecked(range) = range.stop - range.start
      BY DEF HashesChecked
    <2> HIDE DEF m
    <2>4. /\ HashesChecked(range) \in 1 .. range.stop - range.start
          /\ m <= range.start + HashesChecked(range) - 1
      BY <2>2, <2>3
    <2>5. m \in checked /\ checked \subseteq NoncesIn(range)
      BY <1>2, <2>2, <2>4
    <2> HIDE DEF checked
    <2>6. IsBest(BestOf(checked), checked)
      BY <1>3, <2>5, BestOfIs
    <2>7. BestOf(checked) \in NoncesIn(range) /\ call.hash[BestOf(checked)] <= call.hash[m]
      BY <2>5, <2>6 DEF IsBest
    <2> QED
      BY <1>1, <1>6, <2>1, <2>4, <2>7 DEF m
  <1> QED
    BY <1>5, <1>6

\* The reduction of what the workers of a call report is what one sequential
\* search of the whole range would report.
LEMMA ReductionSound ==
    ASSUME Searched, NEW result, result = ReduceWorkerResults
    PROVE  /\ result.status = "result"
           /\ result.match = LowestMatch(Parent)
           /\ result.hashes \in 1 .. call.stop - call.start
           /\ result.match = NoNonce =>
                  /\ result.hashes = call.stop - call.start
                  /\ result.best = BestOf(NoncesIn(Parent))
           /\ result.match # NoNonce =>
                  /\ result.best \in NoncesIn(Parent)
                  /\ call.hash[result.best] <= call.hash[result.match]
  <1> DEFINE n == AssignmentCount(call.start, call.stop, Workers)
             a == Assignments
             R == Results
             counts == [i \in DOMAIN Results |-> Results[i].hashes]
             bests == {Results[i].best : i \in DOMAIN Results}
  <1>1. /\ n \in Nat /\ n >= 1 /\ DOMAIN a = 1 .. n
        /\ \A i \in 1 .. n :
               /\ a[i].start \in Nat /\ a[i].stop \in Nat /\ a[i].start < a[i].stop
               /\ NoncesIn(a[i]) \subseteq NoncesIn(Parent)
        /\ \A x \in NoncesIn(Parent) : \E i \in 1 .. n : x \in NoncesIn(a[i])
        /\ \E at \in [0 .. n -> Nat] :
               /\ at[0] = call.start /\ at[n] = call.stop
               /\ \A i \in 1 .. n : a[i].start = at[i - 1] /\ a[i].stop = at[i]
    BY AssignmentsCover
  <1>2. DOMAIN R = 1 .. n /\ \A i \in 1 .. n : R[i] = WorkerResult(a[i])
    BY <1>1 DEF Results
  <1>3. /\ result.status = "result"
        /\ result.match = IF Matches = {} THEN NoNonce ELSE Min(Matches)
        /\ result.hashes = Total(counts, n)
        /\ result.best = BestOf(bests)
    BY DEF ReduceWorkerResults, Outcome, HashesReported
  <1>4. Matches = {R[i].match : i \in 1 .. n} \ {NoNonce} /\ bests = {R[i].best : i \in 1 .. n}
    BY <1>2 DEF Matches
  <1> HIDE DEF n, a, R
  <1>5. ASSUME NEW i \in 1 .. n
        PROVE  /\ R[i].hashes \in 1 .. a[i].stop - a[i].start
               /\ Hits(a[i]) = {} =>
                      /\ R[i].match = NoNonce
                      /\ R[i].hashes = a[i].stop - a[i].start
                      /\ IsBest(R[i].best, NoncesIn(a[i]))
               /\ Hits(a[i]) # {} =>
                      /\ R[i].match \in Hits(a[i])
                      /\ \A m \in Hits(a[i]) : R[i].match <= m
                      /\ R[i].best \in NoncesIn(a[i])
                      /\ call.hash[R[i].best] <= call.hash[R[i].match]
    BY <1>1, <1>2, WorkerReports
  <1>6. NoncesIn(Parent) = call.start .. call.stop - 1 /\ NoncesIn(Parent) \subseteq Nat
    BY DEF NoncesIn, Parent, Searched
  <1>7. \A i \in 1 .. n : Hits(a[i]) \subseteq Hits(Parent)
    BY <1>1 DEF Hits
  <1>8. \A i \in 1 .. n : R[i].best \in NoncesIn(Parent)
    BY <1>1, <1>5 DEF IsBest
  <1>9. bests \subseteq call.start .. call.stop - 1 /\ bests # {}
    <2>1. 1 \in 1 .. n
      BY <1>1
    <2> QED
      BY <1>4, <1>6, <1>8, <2>1
  <1> HIDE DEF bests
  <1>10. IsBest(BestOf(bests), bests)
    BY <1>9, BestOfIs
  <1>11. counts = [i \in 1 .. n |-> R[i].hashes]
    BY <1>2 DEF R
  <1>12. counts \in [1 .. n -> Nat]
    <2>1. ASSUME NEW i \in 1 .. n PROVE R[i].hashes \in Nat
      <3>1. R[i].hashes \in 1 .. a[i].stop - a[i].start
        BY <1>5
      <3> QED
        BY <3>1
    <2> QED
      BY <1>11, <2>1
  <1>13. PICK at \in [0 .. n -> Nat] :
             /\ at[0] = call.start /\ at[n] = call.stop
             /\ \A i \in 1 .. n : a[i].start = at[i - 1] /\ a[i].stop = at[i]
    BY <1>1
  <1>14. Total(counts, n) \in 1 .. call.stop - call.start
    <2>1. \A i \in 1 .. n : 1 <= counts[i] /\ counts[i] <= at[i] - at[i - 1]
      BY <1>5, <1>11, <1>13
    <2> HIDE DEF counts
    <2> QED
      BY <1>1, <1>12, <1>13, <2>1, TotalBounded
  <1>15. CASE Hits(Parent) = {}
    <2>1. \A i \in 1 .. n : Hits(a[i]) = {}
      BY <1>7, <1>15
    <2>2. Matches = {}
      BY <1>4, <1>5, <2>1
    <2>3. LowestMatch(Parent) = NoNonce
      BY <1>6, <1>15, LowestMatchIs
    <2>4. Total(counts, n) = call.stop - call.start
      <3>1. \A i \in 1 .. n : at[i] = at[i - 1] + counts[i]
        <4> SUFFICES ASSUME NEW i \in 1 .. n PROVE at[i] = at[i - 1] + counts[i]
          OBVIOUS
        <4>1. counts[i] = at[i] - at[i - 1]
          BY <1>5, <1>11, <1>13, <2>1
        <4>2. at[i] \in Nat /\ at[i - 1] \in Nat
          BY <1>1
        <4> QED
          BY <4>1, <4>2
      <3> HIDE DEF counts
      <3> QED
        BY <1>1, <1>12, <1>13, <3>1, TotalTelescopes
    <2>5. IsBest(BestOf(bests), NoncesIn(Parent))
      <3> DEFINE b == BestOf(bests)
      <3>1. b \in NoncesIn(Parent)
        BY <1>6, <1>9, <1>10 DEF IsBest
      <3>2. ASSUME NEW x \in NoncesIn(Parent)
            PROVE  /\ call.hash[b] <= call.hash[x]
                   /\ call.hash[x] = call.hash[b] => b <= x
        <4>1. PICK i \in 1 .. n : x \in NoncesIn(a[i])
          BY <1>1
        <4> DEFINE c == R[i].best
        <4>2. IsBest(c, NoncesIn(a[i])) /\ c \in bests
          BY <1>4, <1>5, <2>1
        <4>3. /\ call.hash[b] <= call.hash[c]
              /\ call.hash[c] = call.hash[b] => b <= c
          BY <1>10, <4>2 DEF IsBest
        <4>4. /\ call.hash[c] <= call.hash[x]
              /\ call.hash[x] = call.hash[c] => c <= x
          BY <4>1, <4>2 DEF IsBest
        <4>5. c \in call.start .. call.stop - 1
          BY <1>9, <4>2
        <4> HIDE DEF b, c
        <4>6. /\ b \in Nat /\ c \in Nat /\ x \in Nat
              /\ call.hash[b] \in Nat /\ call.hash[c] \in Nat /\ call.hash[x] \in Nat
          BY <1>6, <3>1, <4>5, HashIsNatural
        <4> QED
          BY <4>3, <4>4, <4>6
      <3> HIDE DEF b
      <3> QED
        BY <3>1, <3>2 DEF IsBest, b
    <2>6. IsBest(BestOf(NoncesIn(Parent)), NoncesIn(Parent))
      BY <1>6, <2>5, BestOfIs DEF IsBest
    <2>7. BestOf(bests) = BestOf(NoncesIn(Parent))
      BY <1>6, <2>5, <2>6, BestUnique
    <2> QED
      BY <1>3, <1>14, <2>2, <2>3, <2>4, <2>7
  <1>16. CASE Hits(Parent) # {}
    <2> DEFINE m == LowestMatch(Parent)
    <2>1. m \in Hits(Parent) /\ \A x \in Hits(Parent) : m <= x
      BY <1>6, <1>16, LowestMatchIs
    <2>2. PICK i \in 1 .. n : m \in NoncesIn(a[i])
      BY <1>1, <2>1 DEF Hits
    <2>3. m \in Hits(a[i])
      BY <2>1, <2>2 DEF Hits
    <2>4. R[i].match \in Hits(a[i]) /\ R[i].match <= m /\ m <= R[i].match
      BY <1>5, <1>7, <2>1, <2>3
    <2>5. m \in Nat /\ R[i].match \in Nat
      BY <1>6, <1>7, <2>1, <2>4 DEF Hits
    <2>6. R[i].match = m
      BY <2>4, <2>5
    <2>7. m \in Matches
      BY <1>4, <2>5, <2>6 DEF NoNonce
    <2>8. Matches \subseteq Hits(Parent)
      <3>1. ASSUME NEW j \in 1 .. n, R[j].match # NoNonce PROVE R[j].match \in Hits(Parent)
        BY <1>5, <1>7, <3>1
      <3> QED
        BY <1>4, <3>1
    <2>9. Matches \subseteq Nat
      BY <1>6, <2>8 DEF Hits
    <2>10. Min(Matches) \in Matches /\ Min(Matches) <= m
      BY <2>7, <2>9, MinIs
    <2>11. Min(Matches) = m
      <3>1. m <= Min(Matches) /\ Min(Matches) \in Nat
        BY <2>1, <2>8, <2>9, <2>10
      <3> QED
        BY <2>5, <2>10, <3>1
    <2>12. result.match = m /\ m # NoNonce
      BY <1>3, <2>5, <2>7, <2>11 DEF NoNonce
    <2> DEFINE b == BestOf(bests)
               c == R[i].best
    <2>13. c \in bests /\ call.hash[c] <= call.hash[m]
      BY <1>4, <1>5, <2>3, <2>6
    <2>14. b \in bests /\ call.hash[b] <= call.hash[c]
      BY <1>10, <2>13 DEF IsBest
    <2> HIDE DEF b, c, m
    <2>15. /\ b \in call.start .. call.stop - 1 /\ c \in call.start .. call.stop - 1
           /\ m \in call.start .. call.stop - 1
      BY <1>6, <1>9, <2>1, <2>13, <2>14 DEF Hits
    <2>16. call.hash[b] \in Nat /\ call.hash[c] \in Nat /\ call.hash[m] \in Nat
      BY <2>15, HashIsNatural
    <2>17. b \in NoncesIn(Parent) /\ call.hash[b] <= call.hash[m]
      BY <1>6, <2>13, <2>14, <2>15, <2>16
    <2>18. result.best = b /\ result.match = LowestMatch(Parent)
      BY <1>3, <2>12 DEF b, m
    <2> QED
      BY <1>3, <1>14, <2>12, <2>17, <2>18
  <1> QED
    BY <1>15, <1>16

-------------------------------------------------------------------------------
(* The loop.                                                                *)

\* A search in progress has a range; a result that waits to be taken is right.
SearchInv ==
    /\ step \in {"submit", "wait"} => Searched
    /\ step = "shutdown" => raising \in {"error", "interrupt"}
    /\ returned.status = "result" => Searched /\ SameCandidateAsSequential

Notifications == Difficulties \cup {Notify}
JobShape == [position : Nat, difficulty : Difficulties \cup {NoDifficulty}]
SearchShape == [job : JobShape, start : Nat, stop : Nat, heard : Nat]

LoopTyped ==
    /\ plan \in Plans
    /\ cursor \in [next : Nat, limit : Nat]
    /\ total \in Nat
    /\ heard \in Seq(Notifications)
    /\ difficulty \in Difficulties \cup {NoDifficulty}
    /\ job \in JobShape /\ selected \in JobShape
    /\ searches \in Seq(SearchShape)

CursorInPlan ==
    /\ plan.start <= cursor.next
    /\ cursor.next <= cursor.limit
    /\ cursor.limit <= plan.start + plan.max

\* The work searched so far is older than the current job or below its cursor.
RangesApart ==
    \A i \in DOMAIN searches :
        /\ plan.start <= searches[i].start
        /\ searches[i].start <= searches[i].stop
        /\ searches[i].stop <= plan.start + plan.max
        /\ searches[i].job.position <= job.position
        /\ searches[i].job = job => searches[i].stop <= cursor.next
        /\ \A k \in 1 .. i - 1 :
               searches[k].job = searches[i].job => searches[k].stop <= searches[i].start

DifficultiesIn(h) == {q \in DOMAIN h : h[q] # Notify}

JobsIn(h) == {p \in DOMAIN h : h[p] = Notify /\ \E q \in DifficultiesIn(h) : q < p}

DifficultyInForce ==
    IF DifficultiesIn(heard) = {} THEN difficulty = NoDifficulty
    ELSE difficulty = heard[Max(DifficultiesIn(heard))]

\* Jobs are numbered by their notification, and history is not rewritten.
JobsHeard ==
    /\ job.position <= Len(heard) /\ selected.position <= Len(heard)
    /\ \A i \in DOMAIN searches : searches[i].heard <= Len(heard)
    /\ NewestJobSearched

BeforeWork ==
    phase \in {"select", "connect", "await_job"} => searches = <<>> /\ selected = NoJob

\* The job under search is the newest one read, or the selected one is.
JobIsNewest ==
    /\ phase \in {"chunk", "searching", "drain"} =>
           difficulty # NoDifficulty /\ JobsIn(heard) # {}
    /\ phase \in {"chunk", "searching"} => job = NewestJob(heard) /\ selected = NoJob
    /\ phase = "drain" =>
           IF selected = NoJob THEN job = NewestJob(heard)
           ELSE selected = NewestJob(heard) /\ job.position < selected.position

Underway == step \in {"submit", "wait"} \/ returned.status = "result"
LastSearch == searches[Len(searches)]

\* What was assigned, what is left of the cursor and the budget.
BudgetKept ==
    /\ total <= plan.max
    /\ failed => status # "0"
    /\ phase \in {"select", "connect", "await_job", "chunk", "drain"} =>
           /\ submissions = <<>> /\ total = Assigned
           /\ total + (cursor.limit - cursor.next) = plan.max
    /\ phase = "searching" =>
           /\ submissions = <<>> /\ searches # <<>> /\ LastSearch.job = job
           /\ Assigned = total + (LastSearch.stop - LastSearch.start)
           /\ Assigned + (cursor.limit - cursor.next) = plan.max
           /\ Underway => call.start = LastSearch.start /\ call.stop = LastSearch.stop
    /\ phase = "submit" => submissions # <<>>
    /\ phase \in {"close_client", "close_backend", "ended"} /\ status = "0"
           /\ submissions = <<>> => total = plan.max /\ Assigned = plan.max

LoopInv ==
    /\ SearchInv
    /\ LoopTyped
    /\ CursorInPlan
    /\ RangesApart
    /\ DifficultyInForce
    /\ JobsHeard
    /\ BeforeWork
    /\ JobIsNewest
    /\ BudgetKept
    /\ LowestMatchSubmittedOnce

LEMMA PlanIsNatural ==
    ASSUME NEW p \in Plans
    PROVE  p.start \in Nat /\ p.chunk \in Nat /\ p.chunk >= 1 /\ p.max \in Nat /\ p.max >= 1
  <1>1. p.start \in 0 .. NonceLimit - 1 /\ p.chunk \in 1 .. NonceLimit /\ p.max \in 1 .. NonceLimit - p.start
    BY PlansAssumption
  <1> QED
    BY <1>1

LEMMA SearchReturnsSound ==
    ASSUME SearchInv, SearchReturns
    PROVE  Searched' /\ SameCandidateAsSequential' /\ returned'.status = "result"
  <1>1. step = "wait" /\ returned' = ReduceWorkerResults /\ UNCHANGED <<call, kind>>
    BY DEF SearchReturns
  <1>2. Searched
    BY <1>1 DEF SearchInv
  <1>3. Searched'
    BY <1>1, <1>2 DEF Searched
  <1> DEFINE result == ReduceWorkerResults
  <1>4. /\ result.status = "result"
        /\ result.match = LowestMatch(Parent)
        /\ result.hashes \in 1 .. call.stop - call.start
        /\ result.match = NoNonce =>
               /\ result.hashes = call.stop - call.start
               /\ result.best = BestOf(NoncesIn(Parent))
        /\ result.match # NoNonce =>
               /\ result.best \in NoncesIn(Parent)
               /\ call.hash[result.best] <= call.hash[result.match]
    BY <1>2, ReductionSound
  <1> HIDE DEF result
  <1>5. returned' = result
    BY <1>1 DEF result
  <1>6. /\ LowestMatch(Parent)' = LowestMatch(Parent)
        /\ BestOf(NoncesIn(Parent))' = BestOf(NoncesIn(Parent))
        /\ NoncesIn(Parent)' = NoncesIn(Parent)
    BY <1>1 DEF LowestMatch, Meets, BestOf, Parent
  <1>7. SameCandidateAsSequential'
    BY <1>1, <1>4, <1>5, <1>6 DEF SameCandidateAsSequential, Parent
  <1> QED
    BY <1>3, <1>4, <1>5, <1>7

\* What a step of the backend leaves the command to see.
LEMMA PoolNextSearches ==
    ASSUME SearchInv, PoolNext
    PROVE  /\ SearchInv'
           /\ call' = call
           /\ Underway' => Underway
  <1>a. ASSUME UNCHANGED <<call, returned>>,
               step' \in {"submit", "wait"} => step \in {"submit", "wait"},
               step' = "shutdown" => raising' \in {"error", "interrupt"}
        PROVE  SearchInv' /\ call' = call /\ (Underway' => Underway)
    <2>1. Searched => Searched'
      BY <1>a DEF Searched
    <2>2. SameCandidateAsSequential => SameCandidateAsSequential'
      BY <1>a DEF SameCandidateAsSequential, LowestMatch, Meets, BestOf
    <2> QED
      BY <1>a, <2>1, <2>2 DEF SearchInv, Underway
  <1>b. ASSUME step' = "idle", call' = call, returned'.status # "result"
        PROVE  SearchInv' /\ call' = call /\ (Underway' => Underway)
    BY <1>b DEF SearchInv, Underway
  <1>1. CASE DeviceOpens \/ DeviceUnavailable
    <2>1. UNCHANGED <<call, returned>> /\ step' \in {"construct", "idle", "unavailable"}
      BY <1>1 DEF DeviceOpens, DeviceUnavailable
    <2> QED
      BY <1>a, <2>1
  <1>2. CASE \E i \in DOMAIN futures : WorkerStarts(i) \/ WorkerFinishes(i) \/ WorkerFails(i)
    <2>1. UNCHANGED <<call, returned, step, raising>>
      BY <1>2 DEF WorkerStarts, WorkerFinishes, WorkerFails, WorkerMoves
    <2> QED
      BY <1>a, <2>1 DEF SearchInv
  <1>3. CASE SubmitAssignment
    <2>1. UNCHANGED <<call, returned>> /\ step = "submit" /\ step' \in {"submit", "wait"}
      BY <1>3 DEF SubmitAssignment
    <2> QED
      BY <1>a, <2>1
  <1>4. CASE SubmitFails \/ SearchBreaks \/ SearchInterrupted
    <2>1. /\ UNCHANGED <<call, returned>> /\ step' = "shutdown"
          /\ raising' \in {"error", "interrupt"}
      BY <1>4 DEF SubmitFails, SearchBreaks, SearchInterrupted, Break
    <2> QED
      BY <1>a, <2>1
  <1>5. CASE ResultReady
    <2>1. UNCHANGED <<call, returned, step, raising>>
      BY <1>5 DEF ResultReady
    <2> QED
      BY <1>a, <2>1 DEF SearchInv
  <1>6. CASE SearchReturns
    <2>1. Searched' /\ SameCandidateAsSequential' /\ returned'.status = "result"
      BY <1>6, SearchReturnsSound
    <2>2. step = "wait" /\ step' = "idle" /\ call' = call
      BY <1>6 DEF SearchReturns
    <2> QED
      BY <2>1, <2>2 DEF SearchInv, Underway
  <1>7. CASE ShutdownEnds \/ ShutdownInterrupted
    <2>1. step = "shutdown" /\ step' = "idle" /\ call' = call /\ returned' = Raised(raising)
      BY <1>7 DEF ShutdownEnds, ShutdownInterrupted, Raise
    <2>2. returned'.status # "result"
      BY <2>1 DEF SearchInv, Raised, Outcome
    <2> QED
      BY <1>b, <2>1, <2>2
  <1> QED
    BY <1>1, <1>2, <1>3, <1>4, <1>5, <1>6, <1>7 DEF PoolNext

\* Where only the backend moves, or only what the loop does not read.
LEMMA SearchInvUnchanged ==
    ASSUME SearchInv, UNCHANGED <<step, call, returned, raising>>
    PROVE  SearchInv'
  <1>1. Searched => Searched'
    BY DEF Searched
  <1>2. SameCandidateAsSequential => SameCandidateAsSequential'
    BY DEF SameCandidateAsSequential, LowestMatch, Meets, BestOf
  <1> QED
    BY <1>1, <1>2 DEF SearchInv

LEMMA CloseBackendSearches ==
    ASSUME SearchInv, CloseBackend
    PROVE  SearchInv'
  BY SearchInvUnchanged DEF CloseBackend

Steady == LoopTyped /\ CursorInPlan /\ RangesApart /\ DifficultyInForce /\ JobsHeard

LEMMA SteadyUnchanged ==
    ASSUME Steady, UNCHANGED <<plan, heard, loopVars>>
    PROVE  Steady'
  <1> USE DEF loopVars
  <1>1. LoopTyped'
    BY DEF Steady, LoopTyped
  <1>2. CursorInPlan' /\ DifficultyInForce'
    BY DEF Steady, CursorInPlan, DifficultyInForce, DifficultiesIn
  <1>3. RangesApart'
    BY DEF Steady, RangesApart
  <1>4. JobsHeard'
    BY DEF Steady, JobsHeard, NewestJobSearched
  <1> QED
    BY <1>1, <1>2, <1>3, <1>4 DEF Steady

\* What follows a phase, when neither the loop's variables nor history change.
LEMMA PhaseMoves ==
    ASSUME LoopInv, SearchInv', UNCHANGED <<plan, heard, loopVars>>,
           \/ /\ UNCHANGED <<phase, status, failed, call>>
              /\ Underway' => Underway
           \/ /\ phase \in {"select", "connect"} /\ phase' \in {"connect", "await_job"}
              /\ UNCHANGED <<status, failed>>
           \/ /\ phase' \in {"close_client", "close_backend", "ended"} /\ status' # "0"
           \/ /\ phase \in {"submit", "close_client", "close_backend"}
              /\ phase' \in {"close_client", "close_backend", "ended"}
              /\ UNCHANGED failed
              /\ status' = status \/ status' # "0"
    PROVE  LoopInv'
  <1>1. Steady /\ BeforeWork /\ JobIsNewest /\ BudgetKept /\ LowestMatchSubmittedOnce
    BY DEF LoopInv, Steady
  <1>2. Steady'
    BY <1>1, SteadyUnchanged
  <1>3. UNCHANGED <<plan, heard, difficulty, job, selected, cursor, total, searches, submissions>>
    BY DEF loopVars
  <1>4. BeforeWork'
    BY <1>1, <1>3 DEF BeforeWork
  <1>5. JobIsNewest'
    BY <1>1, <1>3 DEF JobIsNewest
  <1>6. Assigned' = Assigned /\ LastSearch' = LastSearch
    BY <1>3 DEF Assigned, RangeSizes, LastSearch
  <1>7. BudgetKept'
    BY <1>1, <1>3, <1>6 DEF BudgetKept
  <1>8. LowestMatchSubmittedOnce'
    BY <1>1, <1>3 DEF LowestMatchSubmittedOnce
  <1> QED
    BY <1>2, <1>4, <1>5, <1>7, <1>8 DEF LoopInv, Steady

-------------------------------------------------------------------------------
(* The newest job of a history of notifications.                            *)

LEMMA NewestJobIs ==
    ASSUME NEW h
    PROVE  NewestJob(h) =
               [position |-> Max(JobsIn(h)),
                difficulty |-> h[Max({q \in DifficultiesIn(h) : q < Max(JobsIn(h))})]]
  BY DEF NewestJob, JobsIn, DifficultiesIn

\* A difficulty that follows a job does not change it.
LEMMA NewestJobKept ==
    ASSUME NEW h \in Seq(Notifications), NEW d \in Difficulties, JobsIn(h) # {}
    PROVE  /\ NewestJob(Append(h, d)) = NewestJob(h)
           /\ JobsIn(Append(h, d)) # {}
  <1> DEFINE g == Append(h, d)
             newest == Max(JobsIn(h))
             D == {q \in DifficultiesIn(h) : q < newest}
  <1>1. d # Notify
    BY NotificationsAssumption
  <1>2. d \in Notifications
    BY DEF Notifications
  <1>3. /\ DOMAIN g = DOMAIN h \cup {Len(h) + 1} /\ Len(h) \in Nat
        /\ DOMAIN h = 1 .. Len(h)
        /\ \A q \in DOMAIN h : g[q] = h[q] /\ q \in 1 .. Len(h)
        /\ g[Len(h) + 1] = d
    BY <1>2
  <1> HIDE DEF g
  <1>4. DifficultiesIn(g) = DifficultiesIn(h) \cup {Len(h) + 1}
    BY <1>1, <1>3 DEF DifficultiesIn
  <1>5. \A p \in DOMAIN h : ~ (Len(h) + 1 < p)
    BY <1>3
  <1>6. JobsIn(g) = JobsIn(h)
    BY <1>1, <1>3, <1>4, <1>5 DEF JobsIn
  <1>7. JobsIn(h) \subseteq 1 .. Len(h) /\ DifficultiesIn(h) \subseteq 1 .. Len(h)
    BY <1>3 DEF JobsIn, DifficultiesIn
  <1>8. newest \in JobsIn(h)
    BY <1>3, <1>7, MaxIs
  <1> HIDE DEF newest
  <1>9. {q \in DifficultiesIn(g) : q < newest} = D
    BY <1>3, <1>4, <1>7, <1>8
  <1>10. D # {} /\ D \subseteq 1 .. Len(h)
    BY <1>7, <1>8 DEF JobsIn
  <1> HIDE DEF D
  <1>11. Max(D) \in D
    BY <1>3, <1>10, MaxIs
  <1>12. g[Max(D)] = h[Max(D)]
    BY <1>3, <1>7, <1>10, <1>11 DEF DifficultiesIn
  <1> QED
    BY <1>6, <1>9, <1>12, NewestJobIs DEF newest, D, g

\* A job that follows a difficulty is the newest, under the last difficulty.
LEMMA NewestJobAnnounced ==
    ASSUME NEW h \in Seq(Notifications), DifficultiesIn(h) # {}
    PROVE  /\ NewestJob(Append(h, Notify)) =
                  [position |-> Len(h) + 1, difficulty |-> h[Max(DifficultiesIn(h))]]
           /\ JobsIn(Append(h, Notify)) # {}
  <1> DEFINE g == Append(h, Notify)
             D == DifficultiesIn(h)
             last == Len(h) + 1
  <1>1. Notify \in Notifications
    BY DEF Notifications
  <1>2. /\ DOMAIN g = DOMAIN h \cup {last} /\ Len(h) \in Nat
        /\ \A q \in DOMAIN h : g[q] = h[q] /\ q \in 1 .. Len(h)
        /\ g[last] = Notify /\ DOMAIN g = 1 .. last /\ DOMAIN h = 1 .. Len(h)
    BY <1>1
  <1> HIDE DEF g
  <1>3. DifficultiesIn(g) = D
    BY <1>2 DEF DifficultiesIn
  <1>4. D \subseteq 1 .. Len(h)
    BY <1>2 DEF DifficultiesIn
  <1>5. last \in JobsIn(g)
    BY <1>2, <1>3, <1>4 DEF JobsIn
  <1>6. JobsIn(g) \subseteq 1 .. last
    BY <1>2 DEF JobsIn
  <1>7. Max(JobsIn(g)) \in JobsIn(g) /\ last <= Max(JobsIn(g))
    BY <1>2, <1>5, <1>6, MaxIs
  <1>8. Max(JobsIn(g)) = last
    BY <1>2, <1>6, <1>7
  <1>9. {q \in D : q < last} = D
    BY <1>2, <1>4
  <1> HIDE DEF D
  <1>10. Max(D) \in D
    BY <1>2, <1>4, MaxIs DEF D
  <1>11. g[Max(D)] = h[Max(D)]
    BY <1>2, <1>4, <1>10
  <1>12. NewestJob(g) = [position |-> last, difficulty |-> g[Max(D)]]
    BY <1>3, <1>8, <1>9, NewestJobIs
  <1> QED
    BY <1>5, <1>11, <1>12 DEF D, g

\* The difficulty in force over one more notification.
LEMMA DifficultyFollows ==
    ASSUME LoopTyped, DifficultyInForce, NEW n \in Notifications,
           heard' = Append(heard, n),
           difficulty' = IF n = Notify THEN difficulty ELSE n
    PROVE  DifficultyInForce'
  <1> DEFINE D == DifficultiesIn(heard)
             last == Len(heard) + 1
  <1>1. heard \in Seq(Notifications)
    BY DEF LoopTyped
  <1>2. /\ DOMAIN heard' = DOMAIN heard \cup {last} /\ Len(heard) \in Nat
        /\ \A q \in DOMAIN heard : heard'[q] = heard[q] /\ q \in 1 .. Len(heard)
        /\ heard'[last] = n
    BY <1>1
  <1>3. D \subseteq 1 .. Len(heard)
    BY <1>2 DEF DifficultiesIn
  <1>4. CASE n = Notify
    <2>1. DifficultiesIn(heard)' = D
      BY <1>2, <1>4 DEF DifficultiesIn
    <2> HIDE DEF D
    <2>2. ASSUME D # {} PROVE heard'[Max(D)] = heard[Max(D)]
      <3>1. Max(D) \in D
        BY <1>2, <1>3, <2>2, MaxIs
      <3> QED
        BY <1>2, <3>1 DEF D, DifficultiesIn
    <2> QED
      BY <1>4, <2>1, <2>2 DEF DifficultyInForce, D
  <1>5. CASE n # Notify
    <2> DEFINE E == D \cup {last}
    <2>1. DifficultiesIn(heard)' = E
      BY <1>2, <1>5 DEF DifficultiesIn
    <2>2. E \subseteq 1 .. last /\ E # {}
      BY <1>2, <1>3
    <2>3. last \in Nat /\ last \in E
      BY <1>2
    <2>4. Max(E) = last
      <3> HIDE DEF E, last
      <3>1. Max(E) \in E /\ last <= Max(E)
        BY <2>2, <2>3, MaxIs
      <3>2. Max(E) \in 1 .. last
        BY <2>2, <3>1
      <3> QED
        BY <2>3, <3>1, <3>2
    <2> QED
      BY <1>2, <1>5, <2>1, <2>2, <2>4 DEF DifficultyInForce
  <1> QED
    BY <1>4, <1>5

\* Jobs searched before stay the newest ones of what had been heard then.
LEMMA HistoryKept ==
    ASSUME LoopTyped, NewestJobSearched, NEW n \in Notifications,
           \A i \in DOMAIN searches : searches[i].heard <= Len(heard),
           heard' = Append(heard, n), searches' = searches
    PROVE  /\ NewestJobSearched'
           /\ \A i \in DOMAIN searches' : searches'[i].heard <= Len(heard')
  <1>1. heard \in Seq(Notifications) /\ searches \in Seq(SearchShape)
    BY DEF LoopTyped
  <1>2. Len(heard') = Len(heard) + 1 /\ Len(heard) \in Nat
    BY <1>1
  <1>3. ASSUME NEW i \in DOMAIN searches
        PROVE  SubSeq(heard', 1, searches[i].heard) = SubSeq(heard, 1, searches[i].heard)
    <2>a. searches[i] \in SearchShape
      BY <1>1
    <2>1. searches[i].heard \in 0 .. Len(heard)
      BY <1>1, <2>a DEF SearchShape
    <2>2. PICK k \in 0 .. Len(heard) : k = searches[i].heard
      BY <2>1
    <2>3. \A j \in 1 .. k : heard'[j] = heard[j]
      BY <1>1
    <2> QED
      BY <1>1, <1>2, <2>2, <2>3
  <1>4. NewestJobSearched'
    BY <1>3 DEF NewestJobSearched
  <1>5. \A i \in DOMAIN searches : searches[i].heard <= Len(heard) + 1
    <2> SUFFICES ASSUME NEW i \in DOMAIN searches
                 PROVE  searches[i].heard <= Len(heard) + 1
      OBVIOUS
    <2>a. searches[i] \in SearchShape
      BY <1>1
    <2>1. searches[i].heard \in Nat /\ searches[i].heard <= Len(heard)
      BY <2>a DEF SearchShape
    <2> QED
      BY <1>2, <2>1
  <1> QED
    BY <1>2, <1>4, <1>5

-------------------------------------------------------------------------------
(* The statements of the loop.                                              *)

\* A statement that reads one notification leaves the rest of the loop alone.
LEMMA ReadKeeps ==
    ASSUME LoopInv, NEW n \in Notifications, heard' = Append(heard, n),
           difficulty' = IF n = Notify THEN difficulty ELSE n,
           UNCHANGED <<plan, cursor, total, searches, submissions>>,
           job' \in JobShape, selected' \in JobShape,
           job'.position <= Len(heard) + 1, selected'.position <= Len(heard) + 1,
           searches = <<>> \/ job' = job
    PROVE  Steady'
  <1>1. Steady
    BY DEF LoopInv, Steady
  <1>2. heard \in Seq(Notifications) /\ heard' \in Seq(Notifications) /\ Len(heard') = Len(heard) + 1
    BY <1>1 DEF Steady, LoopTyped
  <1>3. difficulty' \in Difficulties \cup {NoDifficulty}
    BY <1>1 DEF Steady, LoopTyped, Notifications
  <1>4. LoopTyped'
    BY <1>1, <1>2, <1>3 DEF Steady, LoopTyped
  <1>5. CursorInPlan'
    BY <1>1 DEF Steady, CursorInPlan
  <1>6. RangesApart'
    <2>1. CASE searches = <<>>
      BY <2>1 DEF RangesApart
    <2>2. CASE job' = job
      BY <1>1, <2>2 DEF Steady, RangesApart
    <2> QED
      BY <2>1, <2>2
  <1>7. DifficultyInForce'
    BY <1>1, DifficultyFollows DEF Steady
  <1>8. JobsHeard'
    <2>1. /\ NewestJobSearched'
          /\ \A i \in DOMAIN searches' : searches'[i].heard <= Len(heard')
      BY <1>1, HistoryKept DEF Steady, JobsHeard
    <2> QED
      BY <1>2, <2>1 DEF JobsHeard
  <1> QED
    BY <1>4, <1>5, <1>6, <1>7, <1>8 DEF Steady

LEMMA BuildJobShape ==
    ASSUME LoopTyped
    PROVE  BuildJob \in JobShape /\ BuildJob.position = Len(heard) + 1 /\ BuildJob # NoJob
  BY DEF LoopTyped, BuildJob, JobShape, NoJob

\* With a difficulty in force, the job just read is the newest.
LEMMA BuiltIsNewest ==
    ASSUME LoopTyped, DifficultyInForce, difficulty # NoDifficulty,
           heard' = Append(heard, Notify)
    PROVE  NewestJob(heard') = BuildJob /\ JobsIn(heard') # {}
  <1>1. DifficultiesIn(heard) # {} /\ difficulty = heard[Max(DifficultiesIn(heard))]
    BY DEF DifficultyInForce
  <1>2. heard \in Seq(Notifications)
    BY DEF LoopTyped
  <1> QED
    BY <1>1, <1>2, NewestJobAnnounced DEF BuildJob

\* The budget and the shares, where neither changes.
LEMMA BudgetUnchanged ==
    ASSUME BudgetKept, LowestMatchSubmittedOnce,
           UNCHANGED <<plan, cursor, total, searches, submissions, status, failed>>,
           phase \in {"await_job", "drain"}, phase' \in {"await_job", "chunk", "drain"}
    PROVE  BudgetKept' /\ LowestMatchSubmittedOnce'
  <1>1. Assigned' = Assigned
    BY DEF Assigned, RangeSizes
  <1>2. BudgetKept'
    BY <1>1 DEF BudgetKept
  <1>3. submissions' = <<>>
    BY DEF BudgetKept
  <1>4. Len(submissions') <= 1
    BY <1>3
  <1> QED
    BY <1>2, <1>3, <1>4 DEF LowestMatchSubmittedOnce

LEMMA ReceiveBuildableJobKeeps == ASSUME LoopInv, ReceiveBuildableJob PROVE LoopInv'
  <1>1. PICK n \in Difficulties \cup {Notify} :
            /\ Read(n)
            /\ difficulty' = IF n = Notify THEN difficulty ELSE n
            /\ IF n = Notify /\ difficulty # NoDifficulty
               THEN job' = BuildJob /\ phase' = "chunk"
               ELSE UNCHANGED <<job, phase>>
    BY DEF ReceiveBuildableJob
  <1>2. /\ phase = "await_job"
        /\ UNCHANGED <<poolVars, plan, selected, cursor, total, searches, submissions, status, failed>>
    BY DEF ReceiveBuildableJob
  <1>3. n \in Notifications /\ heard' = Append(heard, n)
    BY <1>1 DEF Notifications, Read
  <1>4. SearchInv'
    BY <1>2, SearchInvUnchanged DEF LoopInv, poolVars
  <1>5. searches = <<>> /\ selected = NoJob
    BY <1>2 DEF LoopInv, BeforeWork
  <1>6. LoopTyped /\ DifficultyInForce /\ JobsHeard
    BY DEF LoopInv
  <1>7. Len(heard) \in Nat
    BY <1>6 DEF LoopTyped
  <1>8. job' = BuildJob \/ job' = job
    BY <1>1
  <1>9. Steady'
    <2>1. job' \in JobShape /\ job'.position <= Len(heard) + 1
      BY <1>6, <1>7, <1>8, BuildJobShape DEF LoopTyped, JobsHeard, JobShape
    <2>2. selected' \in JobShape /\ selected'.position <= Len(heard) + 1
      BY <1>2, <1>6, <1>7 DEF LoopTyped, JobsHeard, JobShape
    <2> QED
      BY <1>1, <1>2, <1>3, <1>5, <2>1, <2>2, ReadKeeps
  <1>10. BeforeWork'
    BY <1>2, <1>5 DEF BeforeWork
  <1>11. phase' \in {"await_job", "chunk"}
    BY <1>1, <1>2
  <1>12. JobIsNewest'
    <2>1. CASE phase' = "await_job"
      BY <2>1 DEF JobIsNewest
    <2>2. CASE phase' = "chunk"
      <3>1. n = Notify /\ difficulty # NoDifficulty /\ job' = BuildJob /\ difficulty' = difficulty
        BY <1>1, <1>2, <2>2
      <3>2. NewestJob(heard') = BuildJob /\ JobsIn(heard') # {}
        BY <1>3, <1>6, <3>1, BuiltIsNewest
      <3> QED
        BY <1>2, <1>5, <2>2, <3>1, <3>2 DEF JobIsNewest
    <2> QED
      BY <1>11, <2>1, <2>2
  <1>13. BudgetKept' /\ LowestMatchSubmittedOnce'
    BY <1>2, <1>11, BudgetUnchanged DEF LoopInv
  <1> QED
    BY <1>4, <1>9, <1>10, <1>12, <1>13 DEF LoopInv, Steady

LEMMA PollKeeps == ASSUME LoopInv, Poll PROVE LoopInv'
  <1>1. PICK n \in Difficulties \cup {Notify} :
            /\ Read(n)
            /\ difficulty' = IF n = Notify THEN difficulty ELSE n
            /\ selected' = IF n = Notify THEN BuildJob ELSE selected
    BY DEF Poll
  <1>2. /\ phase = "drain" /\ phase' = "drain"
        /\ UNCHANGED <<poolVars, plan, job, cursor, total, searches, submissions, status, failed>>
    BY DEF Poll
  <1>3. n \in Notifications /\ heard' = Append(heard, n)
    BY <1>1 DEF Notifications, Read
  <1>4. SearchInv'
    BY <1>2, SearchInvUnchanged DEF LoopInv, poolVars
  <1>5. LoopTyped /\ DifficultyInForce /\ JobsHeard /\ JobIsNewest
    BY DEF LoopInv
  <1>6. heard \in Seq(Notifications) /\ Len(heard) \in Nat
    BY <1>5 DEF LoopTyped
  <1>7. /\ job \in JobShape /\ job.position \in Nat /\ job.position <= Len(heard)
        /\ selected \in JobShape /\ selected.position \in Nat /\ selected.position <= Len(heard)
    BY <1>5 DEF LoopTyped, JobsHeard, JobShape
  <1>8. Steady'
    <2>1. selected' \in JobShape /\ selected'.position <= Len(heard) + 1
      BY <1>1, <1>5, <1>6, <1>7, BuildJobShape
    <2>2. job' \in JobShape /\ job'.position <= Len(heard) + 1
      BY <1>2, <1>6, <1>7
    <2> QED
      BY <1>1, <1>2, <1>3, <2>1, <2>2, ReadKeeps
  <1>9. BeforeWork'
    BY <1>2 DEF BeforeWork
  <1>10. difficulty # NoDifficulty /\ JobsIn(heard) # {}
    BY <1>2, <1>5 DEF JobIsNewest
  <1>11. JobIsNewest'
    <2>1. CASE n = Notify
      <3>1. selected' = BuildJob /\ difficulty' = difficulty
        BY <1>1, <2>1
      <3>2. NewestJob(heard') = BuildJob /\ JobsIn(heard') # {}
        BY <1>3, <1>5, <1>10, <2>1, BuiltIsNewest
      <3>3. BuildJob # NoJob /\ job.position < BuildJob.position
        BY <1>5, <1>6, <1>7, BuildJobShape
      <3> QED
        BY <1>2, <1>10, <3>1, <3>2, <3>3 DEF JobIsNewest
    <2>2. CASE n # Notify
      <3>1. n \in Difficulties /\ selected' = selected /\ difficulty' = n
        BY <1>1, <2>2
      <3>2. NewestJob(heard') = NewestJob(heard) /\ JobsIn(heard') # {}
        BY <1>3, <1>6, <1>10, <3>1, NewestJobKept
      <3>3. difficulty' # NoDifficulty
        BY <3>1, NotificationsAssumption DEF NoDifficulty
      <3> QED
        BY <1>2, <1>5, <3>1, <3>2, <3>3 DEF JobIsNewest
    <2> QED
      BY <2>1, <2>2
  <1>12. BudgetKept' /\ LowestMatchSubmittedOnce'
    BY <1>2, BudgetUnchanged DEF LoopInv
  <1> QED
    BY <1>4, <1>8, <1>9, <1>11, <1>12 DEF LoopInv, Steady

LEMMA PollEmptyKeeps == ASSUME LoopInv, PollEmpty PROVE LoopInv'
  <1>1. /\ phase = "drain" /\ phase' = "chunk" /\ selected' = NoJob
        /\ UNCHANGED <<poolVars, plan, heard, difficulty, total, searches, submissions, status, failed>>
        /\ IF selected = NoJob
           THEN UNCHANGED <<job, cursor>>
           ELSE job' = selected /\ cursor' = ReplacementCursor
    BY DEF PollEmpty
  <1>2. SearchInv'
    BY <1>1, SearchInvUnchanged DEF LoopInv, poolVars
  <1>3. /\ LoopTyped /\ CursorInPlan /\ RangesApart /\ DifficultyInForce /\ JobsHeard
        /\ JobIsNewest /\ BudgetKept
    BY DEF LoopInv
  <1>4. /\ plan.start \in Nat /\ plan.max \in Nat /\ total \in Nat /\ total <= plan.max
        /\ cursor.next \in Nat /\ cursor.limit \in Nat
    BY <1>3, PlanIsNatural DEF LoopTyped, BudgetKept
  <1>5. /\ submissions = <<>> /\ total = Assigned
        /\ total + (cursor.limit - cursor.next) = plan.max
    BY <1>1, <1>3 DEF BudgetKept
  <1>6. Assigned' = Assigned
    BY <1>1 DEF Assigned, RangeSizes
  <1>7. DifficultyInForce' /\ BeforeWork'
    BY <1>1, <1>3 DEF DifficultyInForce, BeforeWork
  <1>8. /\ \A i \in DOMAIN searches : searches[i].heard <= Len(heard)
        /\ NewestJobSearched'
    BY <1>1, <1>3 DEF JobsHeard, NewestJobSearched
  <1>9. LowestMatchSubmittedOnce'
    <2>1. submissions' = <<>> /\ Len(submissions') <= 1
      BY <1>1, <1>5
    <2> QED
      BY <2>1 DEF LowestMatchSubmittedOnce
  <1>10. NoJob \in JobShape /\ NoJob.position = 0
    BY DEF NoJob, JobShape
  <1>11. CASE selected = NoJob
    <2>1. UNCHANGED <<job, cursor>>
      BY <1>1, <1>11
    <2>2. LoopTyped' /\ CursorInPlan'
      BY <1>1, <1>3, <1>10, <2>1 DEF LoopTyped, CursorInPlan
    <2>3. RangesApart'
      BY <1>1, <1>3, <2>1 DEF RangesApart
    <2>4. JobsHeard'
      BY <1>1, <1>3, <1>8, <1>11, <2>1 DEF JobsHeard
    <2>5. JobIsNewest'
      BY <1>1, <1>3, <1>11, <2>1 DEF JobIsNewest
    <2>6. BudgetKept'
      BY <1>1, <1>3, <1>5, <1>6, <2>1 DEF BudgetKept
    <2> QED
      BY <1>2, <1>7, <1>9, <2>2, <2>3, <2>4, <2>5, <2>6 DEF LoopInv
  <1>12. CASE selected # NoJob
    <2>1. job' = selected /\ cursor' = ReplacementCursor
      BY <1>1, <1>12
    <2>2. cursor'.next = plan.start /\ cursor'.limit = plan.start + (plan.max - total)
      BY <2>1 DEF ReplacementCursor, SequentialCursor
    <2>3. cursor' \in [next : Nat, limit : Nat]
      BY <1>4, <2>1 DEF ReplacementCursor, SequentialCursor
    <2>4. LoopTyped'
      BY <1>1, <1>3, <1>10, <2>1, <2>3 DEF LoopTyped
    <2>5. CursorInPlan'
      BY <1>1, <1>4, <2>2 DEF CursorInPlan
    <2>6. selected = NewestJob(heard) /\ job.position < selected.position
      BY <1>1, <1>3, <1>12 DEF JobIsNewest
    <2>7. RangesApart'
      <3>1. ASSUME NEW i \in DOMAIN searches
            PROVE  searches[i].job.position <= selected.position /\ searches[i].job # selected
        <4>1. searches[i] \in SearchShape
          BY <1>3 DEF LoopTyped
        <4>2. searches[i].job.position \in Nat /\ job.position \in Nat /\ selected.position \in Nat
          BY <1>3, <4>1 DEF LoopTyped, SearchShape, JobShape
        <4>3. searches[i].job.position <= job.position
          BY <1>3 DEF RangesApart
        <4> QED
          BY <2>6, <4>2, <4>3
      <3> QED
        BY <1>1, <1>3, <2>1, <3>1 DEF RangesApart
    <2>8. JobsHeard'
      BY <1>1, <1>3, <1>8, <2>1, <1>10 DEF JobsHeard, LoopTyped
    <2>9. JobIsNewest'
      BY <1>1, <1>3, <2>1, <2>6 DEF JobIsNewest
    <2>10. total + (cursor'.limit - cursor'.next) = plan.max
      BY <1>4, <2>2
    <2>11. BudgetKept'
      BY <1>1, <1>3, <1>5, <1>6, <2>10 DEF BudgetKept
    <2> QED
      BY <1>2, <1>7, <1>9, <2>4, <2>5, <2>7, <2>8, <2>9, <2>11 DEF LoopInv
  <1> QED
    BY <1>11, <1>12

\* A chunk more is its size more.
LEMMA AssignedExtends ==
    ASSUME searches \in Seq(SearchShape),
           \A i \in DOMAIN searches : searches[i].start <= searches[i].stop,
           NEW e \in SearchShape, e.start <= e.stop, searches' = Append(searches, e)
    PROVE  Assigned \in Nat /\ Assigned' = Assigned + (e.stop - e.start)
  <1> DEFINE n == Len(searches)
             f == RangeSizes
             g == RangeSizes'
  <1>1. n \in Nat /\ DOMAIN searches = 1 .. n /\ DOMAIN searches' = 1 .. n + 1 /\ Len(searches') = n + 1
    OBVIOUS
  <1>2. f = [i \in 1 .. n |-> searches[i].stop - searches[i].start]
    BY <1>1 DEF RangeSizes
  <1>3. g = [i \in 1 .. n + 1 |-> searches'[i].stop - searches'[i].start]
    BY <1>1 DEF RangeSizes
  <1>4. ASSUME NEW i \in 1 .. n PROVE searches[i].stop - searches[i].start \in Nat
    <2>1. searches[i] \in SearchShape
      BY <1>1
    <2>2. searches[i].stop \in Nat /\ searches[i].start \in Nat
      BY <2>1 DEF SearchShape
    <2> QED
      BY <1>1, <2>2
  <1>5. e.stop - e.start \in Nat
    BY DEF SearchShape
  <1>6. \A i \in 1 .. n : searches'[i] = searches[i]
    BY <1>1
  <1>7. searches'[n + 1] = e
    BY <1>1
  <1>8. f \in [1 .. n -> Nat]
    BY <1>2, <1>4
  <1>9. \A i \in 1 .. n : g[i] = f[i]
    BY <1>1, <1>2, <1>3, <1>6
  <1>10. g[n + 1] = e.stop - e.start
    BY <1>1, <1>3, <1>7
  <1>11. g \in [1 .. n + 1 -> Nat]
    <2>1. ASSUME NEW i \in 1 .. n + 1 PROVE g[i] \in Nat
      <3>1. CASE i \in 1 .. n
        BY <1>8, <1>9, <3>1
      <3>2. CASE i = n + 1
        BY <1>5, <1>10, <3>2
      <3> QED
        BY <1>1, <3>1, <3>2
    <2> QED
      BY <1>3, <2>1
  <1>12. Assigned = Total(f, n) /\ Assigned' = Total(g, n + 1)
    BY <1>1 DEF Assigned
  <1> HIDE DEF f, g, n
  <1> QED
    BY <1>1, <1>8, <1>9, <1>10, <1>11, <1>12, TotalExtends

LEMMA StartChunkKeeps == ASSUME LoopInv, StartChunk PROVE LoopInv'
  <1> DEFINE end == cursor.next + plan.chunk
             stop == IF end < cursor.limit THEN end ELSE cursor.limit
             e == [job |-> job, start |-> cursor.next, stop |-> stop, heard |-> Len(heard)]
  <1>1. /\ phase = "chunk" /\ phase' = "searching" /\ cursor.next < cursor.limit
        /\ cursor' = [cursor EXCEPT !.next = stop]
        /\ StartSearch(cursor.next, stop)
        /\ searches' = Append(searches, e)
        /\ UNCHANGED <<plan, heard, difficulty, job, selected, total, submissions, status, failed>>
    BY DEF StartChunk
  <1>2. /\ LoopTyped /\ CursorInPlan /\ RangesApart /\ DifficultyInForce /\ JobsHeard
        /\ JobIsNewest /\ BudgetKept /\ SearchInv
    BY DEF LoopInv
  <1>3. /\ plan.start \in Nat /\ plan.max \in Nat /\ total \in Nat
        /\ plan.chunk \in Nat /\ plan.chunk >= 1
        /\ cursor \in [next : Nat, limit : Nat]
        /\ cursor.next \in Nat /\ cursor.limit \in Nat
    BY <1>2, PlanIsNatural DEF LoopTyped
  <1>4. stop \in Nat /\ cursor.next < stop /\ stop <= cursor.limit
    BY <1>1, <1>3
  <1> HIDE DEF end, stop
  <1>5. cursor'.next = stop /\ cursor'.limit = cursor.limit /\ cursor' \in [next : Nat, limit : Nat]
    BY <1>1, <1>3, <1>4
  <1>6. heard \in Seq(Notifications) /\ Len(heard) \in Nat /\ job \in JobShape
        /\ searches \in Seq(SearchShape)
    BY <1>2 DEF LoopTyped
  <1>7. e \in SearchShape
    BY <1>3, <1>4, <1>6 DEF SearchShape
  <1>8. e.job = job /\ e.start = cursor.next /\ e.stop = stop /\ e.heard = Len(heard)
    OBVIOUS
  <1> HIDE DEF e
  <1> DEFINE last == Len(searches) + 1
  <1>9. /\ searches' \in Seq(SearchShape) /\ Len(searches) \in Nat /\ Len(searches') = last
        /\ DOMAIN searches = 1 .. Len(searches) /\ DOMAIN searches' = 1 .. last
        /\ searches'[last] = e
        /\ \A i \in DOMAIN searches : searches'[i] = searches[i]
    BY <1>1, <1>6, <1>7
  <1>10. \A i \in DOMAIN searches' : i \in DOMAIN searches \/ i = last
    BY <1>9
  <1>11. LoopTyped'
    BY <1>1, <1>2, <1>5, <1>9 DEF LoopTyped
  <1>12. CursorInPlan'
    BY <1>1, <1>2, <1>3, <1>4, <1>5 DEF CursorInPlan
  <1>13. RangesApart'
    <2> SUFFICES ASSUME NEW i \in DOMAIN searches'
                 PROVE  /\ plan.start <= searches'[i].start
                        /\ searches'[i].start <= searches'[i].stop
                        /\ searches'[i].stop <= plan.start + plan.max
                        /\ searches'[i].job.position <= job.position
                        /\ searches'[i].job = job => searches'[i].stop <= stop
                        /\ \A k \in 1 .. i - 1 :
                               searches'[k].job = searches'[i].job
                                   => searches'[k].stop <= searches'[i].start
      BY <1>1, <1>5 DEF RangesApart
    <2>1. CASE i \in DOMAIN searches
      <3>1. searches[i] \in SearchShape /\ searches'[i] = searches[i]
        BY <1>6, <1>9, <2>1
      <3>2. searches[i].stop \in Nat
        BY <3>1 DEF SearchShape
      <3>3. \A k \in 1 .. i - 1 : k \in DOMAIN searches /\ searches'[k] = searches[k]
        BY <1>9, <2>1
      <3>4. searches[i].job = job => searches[i].stop <= stop
        <4>1. searches[i].job = job => searches[i].stop <= cursor.next
          BY <1>2, <2>1 DEF RangesApart
        <4> QED
          BY <1>3, <1>4, <3>2, <4>1
      <3> QED
        BY <1>2, <2>1, <3>1, <3>3, <3>4 DEF RangesApart
    <2>2. CASE i = last
      <3>1. searches'[i] = e
        BY <1>9, <2>2
      <3>2. /\ plan.start <= cursor.next /\ cursor.next <= stop
            /\ stop <= plan.start + plan.max
        BY <1>2, <1>3, <1>4 DEF CursorInPlan
      <3>3. job.position \in Nat
        BY <1>6 DEF JobShape
      <3>4. ASSUME NEW k \in 1 .. i - 1, searches'[k].job = job
            PROVE  searches'[k].stop <= cursor.next
        <4>1. k \in DOMAIN searches
          BY <1>9, <2>2
        <4> QED
          BY <1>2, <1>9, <3>4, <4>1 DEF RangesApart
      <3>5. job.position <= job.position /\ stop <= stop
        BY <1>4, <3>3
      <3> QED
        BY <1>8, <3>1, <3>2, <3>4, <3>5
    <2> QED
      BY <1>10, <2>1, <2>2
  <1>14. DifficultyInForce'
    BY <1>1, <1>2 DEF DifficultyInForce
  <1>15. job = NewestJob(heard) /\ selected = NoJob
    BY <1>1, <1>2 DEF JobIsNewest
  <1>16. JobsHeard'
    <2>1. SubSeq(heard, 1, Len(heard)) = heard
      BY <1>6
    <2>2. ASSUME NEW i \in DOMAIN searches'
          PROVE  /\ searches'[i].heard <= Len(heard)
                 /\ searches'[i].job = NewestJob(SubSeq(heard, 1, searches'[i].heard))
      <3>1. CASE i \in DOMAIN searches
        BY <1>2, <1>9, <3>1 DEF JobsHeard, NewestJobSearched
      <3>2. CASE i = last
        <4>1. searches'[i] = e /\ e.heard = Len(heard) /\ e.job = NewestJob(heard)
          BY <1>8, <1>9, <1>15, <3>2
        <4>2. SubSeq(heard, 1, searches'[i].heard) = heard
          BY <2>1, <4>1
        <4>3. searches'[i].heard <= Len(heard)
          BY <1>6, <4>1
        <4>4. searches'[i].job = NewestJob(heard)
          BY <4>1
        <4> QED
          BY <4>2, <4>3, <4>4
      <3> QED
        BY <1>10, <3>1, <3>2
    <2> QED
      BY <1>1, <1>2, <2>2 DEF JobsHeard, NewestJobSearched
  <1>17. BeforeWork'
    BY <1>1 DEF BeforeWork
  <1>18. JobIsNewest'
    BY <1>1, <1>2 DEF JobIsNewest
  <1>19. /\ submissions = <<>> /\ total = Assigned
         /\ total + (cursor.limit - cursor.next) = plan.max
    BY <1>1, <1>2 DEF BudgetKept
  <1>20. Assigned' = Assigned + (stop - cursor.next)
    <2>1. \A i \in DOMAIN searches : searches[i].start <= searches[i].stop
      BY <1>2 DEF RangesApart
    <2>2. e.start <= e.stop
      BY <1>3, <1>4, <1>8
    <2> QED
      BY <1>1, <1>6, <1>7, <1>8, <2>1, <2>2, AssignedExtends
  <1>21. LastSearch' = e /\ searches' # <<>>
    BY <1>9 DEF LastSearch
  <1>a. Assigned' = total + (stop - cursor.next) /\ total <= plan.max
    BY <1>2, <1>19, <1>20 DEF BudgetKept
  <1>b. Assigned' + (cursor'.limit - cursor'.next) = plan.max
    <2>1. PICK x \in Nat, y \in Nat, z \in Nat, w \in Nat :
              x = total /\ y = stop /\ z = cursor.next /\ w = cursor.limit
      BY <1>3, <1>4
    <2>2. (x + (y - z)) + (w - y) = x + (w - z)
      OBVIOUS
    <2> QED
      BY <1>5, <1>19, <1>a, <2>1, <2>2
  <1>c. LastSearch'.job = job /\ LastSearch'.start = cursor.next /\ LastSearch'.stop = stop
    BY <1>8, <1>21
  <1>22. CASE closed \/ broken
    <2>1. /\ returned' = Raised("error") /\ step' = step /\ step = "idle"
      BY <1>1, <1>22 DEF StartSearch
    <2>2. ~ Underway' /\ SearchInv'
      BY <2>1 DEF Underway, SearchInv, Raised, Outcome
    <2>3. BudgetKept'
      BY <1>1, <1>2, <1>19, <1>21, <1>a, <1>b, <1>c, <2>2 DEF BudgetKept
    <2> QED
      BY <1>11, <1>12, <1>13, <1>14, <1>16, <1>17, <1>18, <1>19, <1>1, <2>2, <2>3
      DEF LoopInv, LowestMatchSubmittedOnce
  <1>23. CASE ~ (closed \/ broken)
    <2>1. PICK hash \in [cursor.next .. stop - 1 -> HashValues] :
              call' = [start |-> cursor.next, stop |-> stop, hash |-> hash]
      BY <1>1, <1>23 DEF StartSearch
    <2>2. step' = "submit" /\ returned' = Nothing
      BY <1>1, <1>23 DEF StartSearch
    <2>3. Searched'
      BY <1>3, <1>4, <2>1 DEF Searched
    <2>4. SearchInv'
      BY <2>2, <2>3 DEF SearchInv, Nothing, Raised, Outcome
    <2>5. call'.start = cursor.next /\ call'.stop = stop
      BY <2>1
    <2>6. BudgetKept'
      BY <1>1, <1>2, <1>19, <1>21, <1>a, <1>b, <1>c, <2>5 DEF BudgetKept
    <2> QED
      BY <1>11, <1>12, <1>13, <1>14, <1>16, <1>17, <1>18, <1>19, <1>1, <2>4, <2>6
      DEF LoopInv, LowestMatchSubmittedOnce
  <1> QED
    BY <1>22, <1>23

LEMMA ChunkReturnsKeeps == ASSUME LoopInv, ChunkReturns PROVE LoopInv'
  <1>1. /\ phase = "searching" /\ step = "idle" /\ returned.status = "result"
        /\ total' = total + returned.hashes
        /\ IF returned.match # NoNonce
           THEN /\ submissions' = Append(submissions,
                                         [job |-> job, nonce |-> returned.match, call |-> call])
                /\ phase' = "submit"
           ELSE /\ phase' = IF total' >= plan.max THEN "close_client" ELSE "drain"
                /\ UNCHANGED submissions
        /\ UNCHANGED <<plan, heard, difficulty, job, selected, cursor, searches, status, failed>>
    BY DEF ChunkReturns
  <1>2. returned' = Nothing /\ step' = "idle"
    BY <1>1 DEF ChunkReturns, ForgetCall
  <1>3. /\ SearchInv /\ LoopTyped /\ CursorInPlan /\ RangesApart /\ DifficultyInForce /\ JobsHeard
        /\ JobIsNewest /\ BudgetKept /\ LowestMatchSubmittedOnce
    BY DEF LoopInv
  <1>4. SearchInv'
    BY <1>2 DEF SearchInv, Nothing, Raised, Outcome
  <1>5. Searched /\ SameCandidateAsSequential /\ Underway
    BY <1>1, <1>3 DEF SearchInv, Underway
  <1>6. /\ submissions = <<>> /\ searches # <<>> /\ LastSearch.job = job
        /\ Assigned = total + (LastSearch.stop - LastSearch.start)
        /\ Assigned + (cursor.limit - cursor.next) = plan.max
        /\ call.start = LastSearch.start /\ call.stop = LastSearch.stop
    BY <1>1, <1>3, <1>5 DEF BudgetKept
  <1>7. /\ returned.match = LowestMatch(Parent)
        /\ returned.hashes \in 1 .. call.stop - call.start
        /\ returned.match = NoNonce => returned.hashes = call.stop - call.start
    BY <1>1, <1>5 DEF SameCandidateAsSequential, Parent
  <1>8. /\ call.start \in Nat /\ call.stop \in Nat
        /\ total \in Nat /\ cursor.limit \in Nat /\ cursor.next \in Nat
        /\ cursor.next <= cursor.limit
        /\ plan.max \in Nat
    BY <1>3, <1>5, PlanIsNatural DEF Searched, LoopTyped, CursorInPlan
  <1>9. /\ total' \in Nat /\ total' <= Assigned /\ Assigned <= plan.max
        /\ Assigned \in Nat /\ total' <= plan.max
    <2>1. PICK x \in Nat, y \in Nat, z \in Nat, h \in Nat :
              x = total /\ y = call.stop /\ z = call.start /\ h = returned.hashes
      BY <1>7, <1>8
    <2>2. h <= y - z /\ Assigned = x + (y - z) /\ total' = x + h
      BY <1>1, <1>6, <1>7, <2>1
    <2>3. total' \in Nat /\ total' <= Assigned /\ Assigned \in Nat
      BY <2>2
    <2>4. Assigned <= plan.max
      BY <1>6, <1>8, <2>3
    <2>5. total' <= plan.max
      BY <1>8, <2>3, <2>4
    <2> QED
      BY <2>3, <2>4, <2>5
  <1>10. LoopTyped' /\ CursorInPlan' /\ DifficultyInForce'
    BY <1>1, <1>3, <1>9 DEF LoopTyped, CursorInPlan, DifficultyInForce
  <1>11. RangesApart' /\ JobsHeard'
    BY <1>1, <1>3 DEF RangesApart, JobsHeard, NewestJobSearched
  <1>12. phase' \in {"submit", "close_client", "drain"}
    BY <1>1
  <1>13. BeforeWork'
    BY <1>12 DEF BeforeWork
  <1>14. JobIsNewest'
    <2>1. /\ difficulty # NoDifficulty /\ JobsIn(heard) # {}
          /\ job = NewestJob(heard) /\ selected = NoJob
      BY <1>1, <1>3 DEF JobIsNewest
    <2> QED
      BY <1>1, <1>12, <2>1 DEF JobIsNewest
  <1>15. Assigned' = Assigned /\ LastSearch' = LastSearch
    BY <1>1 DEF Assigned, RangeSizes, LastSearch
  <1>16. CASE returned.match = NoNonce
    <2>1. submissions' = <<>> /\ total' = Assigned
      BY <1>1, <1>6, <1>7, <1>8, <1>16
    <2>2. phase' = IF total' >= plan.max THEN "close_client" ELSE "drain"
      BY <1>1, <1>16
    <2>3. BudgetKept'
      <3>1. CASE phase' = "close_client"
        <4>1. total' >= plan.max
          BY <2>2, <3>1
        <4>2. total' = plan.max
          BY <1>8, <1>9, <4>1
        <4> QED
          BY <1>1, <1>3, <1>9, <1>15, <2>1, <3>1, <4>2 DEF BudgetKept
      <3>2. CASE phase' = "drain"
        BY <1>1, <1>3, <1>6, <1>9, <1>15, <2>1, <3>2 DEF BudgetKept
      <3> QED
        BY <2>2, <3>1, <3>2
    <2>4. LowestMatchSubmittedOnce'
      BY <2>1 DEF LowestMatchSubmittedOnce
    <2> QED
      BY <1>4, <1>10, <1>11, <1>13, <1>14, <2>3, <2>4 DEF LoopInv
  <1>17. CASE returned.match # NoNonce
    <2> DEFINE share == [job |-> job, nonce |-> returned.match, call |-> call]
    <2>1. submissions' = <<share>> /\ phase' = "submit"
      BY <1>1, <1>6, <1>17
    <2>2. Len(submissions') = 1 /\ submissions' # <<>> /\ submissions'[1] = share
      BY <2>1
    <2>3. share.job = job /\ share.nonce = returned.match /\ share.call = call
      OBVIOUS
    <2> HIDE DEF share
    <2>4. BudgetKept'
      BY <1>1, <1>3, <1>9, <2>1, <2>2 DEF BudgetKept
    <2>5. NoncesIn(Parent) = call.start .. call.stop - 1 /\ NoncesIn(Parent) \subseteq Nat
      BY <1>8 DEF NoncesIn, Parent
    <2> DEFINE m == returned.match
    <2>6. m \in Hits(Parent) /\ \A n \in Hits(Parent) : m <= n
      BY <1>7, <1>17, <2>5, LowestMatchIs
    <2>7. m \in call.start .. call.stop - 1 /\ call.hash[m] <= Target
      BY <2>5, <2>6 DEF Hits, Meets
    <2> HIDE DEF m
    <2>8. ASSUME NEW n \in call.start .. m - 1 PROVE call.hash[n] > Target
      <3>1. m \in Nat /\ n \in call.start .. call.stop - 1 /\ n \in Nat /\ ~ (m <= n)
        BY <1>8, <2>7
      <3>2. n \notin Hits(Parent)
        BY <2>6, <3>1
      <3>3. ~ (call.hash[n] <= Target)
        BY <2>5, <3>1, <3>2 DEF Hits, Meets
      <3>4. call.hash[n] \in Nat
        BY <1>5, <3>1, HashIsNatural
      <3> QED
        BY <3>3, <3>4, TargetAssumption
    <2>9. searches'[Len(searches')] = LastSearch
      BY <1>1 DEF LastSearch
    <2>10. LowestMatchSubmittedOnce'
      BY <1>6, <2>1, <2>2, <2>3, <2>7, <2>8, <2>9 DEF LowestMatchSubmittedOnce, m
    <2> QED
      BY <1>4, <1>10, <1>11, <1>13, <1>14, <2>4, <2>10 DEF LoopInv
  <1> QED
    BY <1>16, <1>17

LEMMA LoopInvInit == ASSUME Init PROVE LoopInv
  <1>1. /\ step \in {"construct", "idle"} /\ returned = Nothing
        /\ plan \in Plans /\ phase = "select"
        /\ heard = <<>> /\ difficulty = NoDifficulty /\ job = NoJob /\ selected = NoJob
        /\ cursor = SequentialCursor(plan, plan.max)
        /\ total = 0 /\ searches = <<>> /\ submissions = <<>>
        /\ status = "0" /\ failed = FALSE
    BY DEF Init, PoolInit
  <1>2. plan.start \in Nat /\ plan.max \in Nat /\ plan.max >= 1
    BY <1>1, PlanIsNatural
  <1>3. /\ cursor \in [next : Nat, limit : Nat]
        /\ cursor.next = plan.start /\ cursor.limit = plan.start + plan.max
    BY <1>1, <1>2 DEF SequentialCursor
  <1>4. SearchInv
    BY <1>1 DEF SearchInv, Nothing, Raised, Outcome
  <1>5. NoJob \in JobShape /\ NoJob.position = 0
    BY DEF NoJob, JobShape
  <1>6. LoopTyped
    BY <1>1, <1>3, <1>5 DEF LoopTyped
  <1>7. CursorInPlan
    BY <1>2, <1>3 DEF CursorInPlan
  <1>8. RangesApart
    BY <1>1 DEF RangesApart
  <1>9. DifficultyInForce
    <2>1. DifficultiesIn(heard) = {}
      BY <1>1 DEF DifficultiesIn
    <2> QED
      BY <1>1, <2>1 DEF DifficultyInForce
  <1>10. JobsHeard
    BY <1>1, <1>5 DEF JobsHeard, NewestJobSearched
  <1>11. BeforeWork /\ JobIsNewest
    BY <1>1 DEF BeforeWork, JobIsNewest
  <1>12. Assigned = 0
    <2> DEFINE f == RangeSizes
               at == [i \in 0 .. 0 |-> 0]
    <2>1. f \in [1 .. 0 -> Nat] /\ Len(searches) = 0
      BY <1>1 DEF RangeSizes
    <2>2. Prefixes(at, f, 0)
      BY DEF Prefixes
    <2>3. Assigned = Total(f, 0)
      BY <2>1 DEF Assigned
    <2>4. at[0] = 0
      OBVIOUS
    <2> HIDE DEF f, at
    <2>5. Total(f, 0) = at[0]
      <3>1. 0 \in Nat /\ f \in [1 .. 0 -> Nat]
        BY <2>1
      <3> QED
        BY <2>2, <3>1, TotalByPrefixes, Zenon
    <2> QED
      BY <2>3, <2>4, <2>5
  <1>13. BudgetKept
    <2>1. total + (cursor.limit - cursor.next) = plan.max /\ total <= plan.max
      BY <1>1, <1>2, <1>3
    <2> QED
      BY <1>1, <1>12, <2>1 DEF BudgetKept
  <1>14. LowestMatchSubmittedOnce
    <2>1. Len(submissions) <= 1
      BY <1>1
    <2> QED
      BY <1>1, <2>1 DEF LowestMatchSubmittedOnce
  <1> QED
    BY <1>4, <1>6, <1>7, <1>8, <1>9, <1>10, <1>11, <1>13, <1>14 DEF LoopInv

LEMMA NextKeepsLoopInv == ASSUME LoopInv, [Next]_vars PROVE LoopInv'
  <1>0. SearchInv
    BY DEF LoopInv
  <1>1. CASE BackendStep
    <2>1. SearchInv' /\ call' = call /\ (Underway' => Underway)
      BY <1>0, <1>1, PoolNextSearches DEF BackendStep
    <2>2. UNCHANGED <<plan, heard, loopVars, phase, status, failed>>
      BY <1>1 DEF BackendStep, commandVars
    <2> QED
      BY <2>1, <2>2, PhaseMoves
  <1>2. CASE PoolSends \/ Ended \/ UNCHANGED vars
    <2>1. UNCHANGED <<step, call, returned, raising, plan, heard, loopVars, phase, status, failed>>
      BY <1>2 DEF PoolSends, Ended, vars, poolVars, commandVars
    <2>2. SearchInv' /\ (Underway' => Underway)
      BY <1>0, <2>1, SearchInvUnchanged DEF Underway
    <2> QED
      BY <2>1, <2>2, PhaseMoves
  <1>3. CASE ComponentsSelected \/ Handshake
    <2>1. /\ UNCHANGED <<step, call, returned, raising, plan, heard, loopVars, status, failed>>
          /\ phase \in {"select", "connect"} /\ phase' \in {"connect", "await_job"}
      BY <1>3 DEF ComponentsSelected, Handshake, poolVars
    <2>2. SearchInv'
      BY <1>0, <2>1, SearchInvUnchanged
    <2> QED
      BY <2>1, <2>2, PhaseMoves
  <1>4. CASE \/ BackendRefused \/ StrategyRefused \/ SelectionNotLogged
             \/ HandshakeFails \/ ChunkRaises \/ CloseClientFailureNotLogged
             \/ \E at \in {"await_job", "chunk", "submit", "drain"} : StepFails(at)
    <2>1. /\ UNCHANGED <<plan, heard, loopVars>>
          /\ phase' \in {"close_client", "ended"} /\ status' # "0"
      BY <1>4 DEF BackendRefused, StrategyRefused, SelectionNotLogged, EndSelection,
                  HandshakeFails, ChunkRaises, CloseClientFailureNotLogged, StepFails, FailAs
    <2>2. CloseBackend \/ UNCHANGED <<step, call, returned, raising>>
      BY <1>4 DEF BackendRefused, StrategyRefused, SelectionNotLogged, HandshakeFails,
                  ChunkRaises, CloseClientFailureNotLogged, StepFails, poolVars, poolVarsButFaults
    <2>3. SearchInv'
      BY <1>0, <2>2, SearchInvUnchanged, CloseBackendSearches
    <2> QED
      BY <2>1, <2>3, PhaseMoves
  <1>5. CASE SubmitAnswered \/ CloseClient \/ CloseClientFails \/ CloseBackendLast \/ CloseBackendFails
    <2>1. /\ UNCHANGED <<plan, heard, loopVars, failed>>
          /\ phase \in {"submit", "close_client", "close_backend"}
          /\ phase' \in {"close_client", "close_backend", "ended"}
          /\ status' = status \/ status' # "0"
      BY <1>5 DEF SubmitAnswered, CloseClient, CloseClientFails, CloseBackendLast, CloseBackendFails
    <2>2. CloseBackend \/ UNCHANGED <<step, call, returned, raising>>
      BY <1>5 DEF SubmitAnswered, CloseClient, CloseClientFails, CloseBackendLast,
                  CloseBackendFails, poolVars, poolVarsButFaults
    <2>3. SearchInv'
      BY <1>0, <2>2, SearchInvUnchanged, CloseBackendSearches
    <2> QED
      BY <2>1, <2>3, PhaseMoves
  <1>6. CASE ReceiveBuildableJob
    BY <1>6, ReceiveBuildableJobKeeps
  <1>7. CASE StartChunk
    BY <1>7, StartChunkKeeps
  <1>8. CASE ChunkReturns
    BY <1>8, ChunkReturnsKeeps
  <1>9. CASE Poll
    BY <1>9, PollKeeps
  <1>10. CASE PollEmpty
    BY <1>10, PollEmptyKeeps
  <1> QED
    BY <1>1, <1>2, <1>3, <1>4, <1>5, <1>6, <1>7, <1>8, <1>9, <1>10 DEF Next

\* The search in progress, the cursor, the budget and the jobs read stay in
\* step with one another through every statement of the loop.
THEOREM LoopInvariant == Spec => []LoopInv
  <1>1. Init => LoopInv
    BY LoopInvInit
  <1>2. LoopInv /\ [Next]_vars => LoopInv'
    BY NextKeepsLoopInv
  <1> QED
    BY <1>1, <1>2, PTL DEF Spec

\* Whatever the number of workers or devices and whatever the hashes, in every
\* order of completion: a search reports the candidate that one sequential
\* search of the parent range reports, counts each nonce hashed once, and the
\* one share submitted is the lowest match of the last chunk.
THEOREM LowestMatchReportedHolds == Spec => []LowestMatchReported
  <1>1. ASSUME LoopInv PROVE LowestMatchReported
    <2>1. CASE returned.status = "result"
      BY <1>1, <2>1 DEF LoopInv, SearchInv, LowestMatchReported
    <2>2. CASE returned.status # "result"
      BY <1>1, <2>2 DEF LoopInv, SameCandidateAsSequential, LowestMatchReported
    <2> QED
      BY <2>1, <2>2
  <1> QED
    BY LoopInvariant, <1>1, PTL

\* For every plan, chunk size and sequence of notifications: the chunks spend
\* the hash budget to the last hash and never past it, no job has a nonce
\* searched twice, and every chunk works on the newest job read before it.
THEOREM RangesRightHolds == Spec => []RangesRight
  <1>1. ASSUME LoopInv PROVE RangesRight
    <2>1. NewestJobSearched
      BY <1>1 DEF LoopInv, JobsHeard
    <2>2. ASSUME NEW i \in DOMAIN searches
          PROVE  /\ searches[i].start >= plan.start
                 /\ searches[i].stop <= plan.start + plan.max
                 /\ \A k \in 1 .. i - 1 :
                        searches[k].job = searches[i].job => searches[k].stop <= searches[i].start
      <3>1. searches[i] \in SearchShape /\ plan.start \in Nat
        BY <1>1, PlanIsNatural DEF LoopInv, LoopTyped
      <3>2. searches[i].start \in Nat
        BY <3>1 DEF SearchShape
      <3> QED
        BY <1>1, <3>1, <3>2 DEF LoopInv, RangesApart
    <2>3. BudgetSpentExactly
      BY <1>1, <2>2 DEF LoopInv, BudgetKept, BudgetSpentExactly
    <2> QED
      BY <2>1, <2>3 DEF RangesRight
  <1> QED
    BY LoopInvariant, <1>1, PTL
===============================================================================
