---------------------------- MODULE WorkSearch_proofs --------------------------
(***************************************************************************)
(* Proofs about WorkSearch and, within it, WorkProgression, for every set  *)
(* of extra-nonce space sizes, every maximum network time and every nonce  *)
(* limit: what the progression prepares; that the bit reversal of the      *)
(* orbiting-bit cursor and the coprime Fibonacci stride are permutations   *)
(* of the parent ranges; and that every strategy therefore refines         *)
(* NonceCover and every hash of a job is searched once.                    *)
(***************************************************************************)
EXTENDS WorkSearch, FiniteSetTheorems, WellFoundedInduction, TLAPS

-------------------------------------------------------------------------------
(* The progression of the variants. *)

\* The inductive invariant: types, what was prepared, and the counters.
Inv == TypeOK /\ PreparedPrefix /\ CountersAgree

-------------------------------------------------------------------------------

\* One more variant of the same second: the value that (value + 1) % space
\* yields is the one the cycle's next position prescribes, and it is new.
LEMMA NextValue ==
    ASSUME NEW space \in Nat \ {0}, NEW value \in 0 .. space - 1
    PROVE  /\ (value + 1) % space \in 0 .. space - 1
           /\ (value + 1) % space = IF value + 1 = space THEN 0 ELSE value + 1
  <1>1. CASE value + 1 = space
    BY <1>1
  <1>2. CASE value + 1 # space
    BY <1>2
  <1>3. QED
    BY <1>1, <1>2

\* What membership in Jobs says of the fields.
LEMMA JobFacts ==
    ASSUME NEW j \in Jobs
    PROVE  /\ j.space \in Nat /\ j.space > 0
           /\ j.pool_time \in Nat /\ j.pool_time <= MaxNetworkTime
           /\ j.seed \in Nat /\ j.seed < j.space
  <1>1. j \in [space : SpaceSizes, pool_time : 0 .. MaxNetworkTime, seed : Nat]
        /\ j.seed < j.space
    BY DEF Jobs
  <1>2. j.space \in SpaceSizes /\ j.pool_time \in 0 .. MaxNetworkTime /\ j.seed \in Nat
    BY <1>1
  <1>3. j.space \in Nat /\ j.space > 0
    BY <1>2, SpaceSizesAssumption
  <1>4. QED
    BY <1>1, <1>2, <1>3, MaxNetworkTimeAssumption

\* The enumerable set of jobs is within the other.
LEMMA StartingJobsAreJobs == StartingJobs \subseteq Jobs
  <1> SUFFICES ASSUME NEW s \in SpaceSizes,
                      NEW j \in [space : {s}, pool_time : 0 .. MaxNetworkTime,
                                 seed : 0 .. s - 1]
               PROVE  j \in Jobs
    BY DEF StartingJobs
  <1>1. s \in Nat /\ s > 0
    BY SpaceSizesAssumption
  <1>2. j.space = s /\ j.seed \in 0 .. s - 1 /\ j.pool_time \in 0 .. MaxNetworkTime
    OBVIOUS
  <1>3. j.seed \in Nat /\ j.seed < j.space
    BY <1>1, <1>2
  <1>4. j = [space |-> j.space, pool_time |-> j.pool_time, seed |-> j.seed]
    OBVIOUS
  <1>5. QED
    BY <1>2, <1>3, <1>4 DEF Jobs

\* Init establishes the invariant.
LEMMA InitInv == Init => Inv
  <1> SUFFICES ASSUME Init PROVE Inv
    OBVIOUS
  <1>1. job \in Jobs
    BY StartingJobsAreJobs DEF Init
  <1>2. /\ job.space \in Nat /\ job.space > 0
        /\ job.pool_time \in Nat /\ job.pool_time <= MaxNetworkTime
        /\ job.seed \in Nat /\ job.seed < job.space
    BY <1>1, JobFacts
  <1>3. /\ cursor = Start(job) /\ exhausted = FALSE
        /\ prepared = {<<job.seed, job.pool_time>>}
    BY DEF Init, VariantOf, Start
  <1>4. TypeOK
    <2>1. /\ job.seed \in 0 .. job.space - 1
          /\ 1 \in 1 .. job.space
          /\ job.pool_time \in job.pool_time .. MaxNetworkTime
      BY <1>2, MaxNetworkTimeAssumption
    <2>2. cursor \in [value : 0 .. job.space - 1, variants : 1 .. job.space,
                      index : Nat, advances : Nat, cycles : Nat,
                      time : job.pool_time .. MaxNetworkTime, rolls : Nat]
      BY <1>3, <2>1 DEF Start
    <2>3. <<job.seed, job.pool_time>>
             \in (0 .. job.space - 1) \X (job.pool_time .. MaxNetworkTime)
      BY <2>1
    <2>4. exhausted \in BOOLEAN
      BY <1>3
    <2>5. QED
      BY <1>1, <1>3, <2>2, <2>3, <2>4 DEF TypeOK
  <1>5. PreparedPrefix
    <2>1. cursor.variants = 1 /\ cursor.value = job.seed /\ cursor.time = job.pool_time
      BY <1>3 DEF Start
    <2>2. CycleValues(1) = {job.seed}
      BY <1>2 DEF CycleValues
    <2>3. job.pool_time .. cursor.time - 1 = {}
      BY <1>2, <2>1
    <2>4. QED
      BY <1>2, <1>3, <2>1, <2>2, <2>3 DEF PreparedPrefix
  <1>6. CountersAgree
    BY <1>2, <1>3 DEF CountersAgree, Start
  <1>7. QED
    BY <1>4, <1>5, <1>6 DEF Inv

-------------------------------------------------------------------------------

\* The facts about the fields that every step of the induction uses.
LEMMA FieldFacts ==
    ASSUME TypeOK
    PROVE  /\ job.space \in Nat /\ job.space > 0
           /\ job.pool_time \in Nat /\ job.seed \in Nat /\ job.seed < job.space
           /\ MaxNetworkTime \in Nat
           /\ cursor.value \in Nat /\ cursor.value < job.space
           /\ cursor.variants \in Nat /\ cursor.variants >= 1
           /\ cursor.variants <= job.space
           /\ cursor.index \in Nat /\ cursor.advances \in Nat
           /\ cursor.cycles \in Nat /\ cursor.rolls \in Nat
           /\ cursor.time \in Nat /\ cursor.time >= job.pool_time
           /\ cursor.time <= MaxNetworkTime
  <1>1. job \in Jobs
    BY DEF TypeOK
  <1>2. /\ job.space \in Nat /\ job.space > 0
        /\ job.pool_time \in Nat /\ job.seed \in Nat /\ job.seed < job.space
    BY <1>1, JobFacts
  <1>3. /\ cursor.value \in 0 .. job.space - 1 /\ cursor.variants \in 1 .. job.space
        /\ cursor.index \in Nat /\ cursor.advances \in Nat
        /\ cursor.cycles \in Nat /\ cursor.rolls \in Nat
        /\ cursor.time \in job.pool_time .. MaxNetworkTime
    BY DEF TypeOK
  <1>4. QED
    BY <1>2, <1>3, MaxNetworkTimeAssumption

\* AdvanceExtraNonce: the next extra nonce of the same second.
LEMMA AdvanceExtraNonceInv ==
    ASSUME Inv, AdvanceExtraNonce
    PROVE  Inv' /\ VariantOf(cursor') \notin prepared
  <1> DEFINE v == cursor.value
             n == cursor.variants
             fresh == IF v + 1 = job.space THEN 0 ELSE v + 1
  <1>1. TypeOK /\ PreparedPrefix /\ CountersAgree
    BY DEF Inv
  <1>2. /\ job.space \in Nat /\ job.space > 0
        /\ job.pool_time \in Nat /\ job.seed \in Nat /\ job.seed < job.space
        /\ MaxNetworkTime \in Nat
        /\ v \in Nat /\ v < job.space
        /\ n \in Nat /\ n >= 1 /\ n < job.space
        /\ cursor.index \in Nat /\ cursor.advances \in Nat
        /\ cursor.cycles \in Nat /\ cursor.rolls \in Nat
        /\ cursor.time \in Nat /\ cursor.time >= job.pool_time
        /\ cursor.time <= MaxNetworkTime
    BY <1>1, FieldFacts DEF AdvanceExtraNonce, CycleOpen
  <1>3. fresh = (v + 1) % job.space /\ fresh \in 0 .. job.space - 1
    <2>1. job.space \in Nat \ {0} /\ v \in 0 .. job.space - 1
      BY <1>2
    <2>2. QED
      BY <2>1, NextValue
  <1>4. /\ cursor' = [cursor EXCEPT !.value = (@ + 1) % job.space,
                                    !.variants = @ + 1,
                                    !.index = @ + 1, !.advances = @ + 1]
        /\ job' = job /\ exhausted' = exhausted /\ ~exhausted
        /\ prepared' = prepared \cup {VariantOf(cursor')}
    BY DEF AdvanceExtraNonce, NextExtraNonce
  <1>5. cursor \in [value : 0 .. job.space - 1, variants : 1 .. job.space,
                    index : Nat, advances : Nat, cycles : Nat,
                    time : job.pool_time .. MaxNetworkTime, rolls : Nat]
    BY <1>1 DEF TypeOK
  <1>6. /\ cursor'.value = fresh /\ cursor'.variants = n + 1
        /\ cursor'.index = cursor.index + 1 /\ cursor'.advances = cursor.advances + 1
        /\ cursor'.cycles = cursor.cycles /\ cursor'.rolls = cursor.rolls
        /\ cursor'.time = cursor.time
    BY <1>3, <1>4, <1>5
  <1>7. prepared' = prepared \cup {<<fresh, cursor.time>>}
    BY <1>4, <1>6 DEF VariantOf
  <1>8. TypeOK'
    <2>1. /\ fresh \in 0 .. job.space - 1 /\ n + 1 \in 1 .. job.space
          /\ cursor.index + 1 \in Nat /\ cursor.advances + 1 \in Nat
      BY <1>2, <1>3
    <2>2. cursor' \in [value : 0 .. job.space - 1, variants : 1 .. job.space,
                       index : Nat, advances : Nat, cycles : Nat,
                       time : job.pool_time .. MaxNetworkTime, rolls : Nat]
      BY <1>3, <1>4, <1>5, <2>1
    <2>3. <<fresh, cursor.time>>
             \in (0 .. job.space - 1) \X (job.pool_time .. MaxNetworkTime)
      BY <1>2, <1>3
    <2>4. QED
      BY <1>1, <1>4, <1>7, <2>2, <2>3 DEF TypeOK
  <1>9. /\ fresh = IF n + 1 <= job.space - job.seed
                   THEN job.seed + n
                   ELSE job.seed + n - job.space
        /\ fresh \notin CycleValues(n)
        /\ CycleValues(n + 1) = CycleValues(n) \cup {fresh}
    <2>1. v = IF n <= job.space - job.seed
              THEN job.seed + n - 1
              ELSE job.seed + n - 1 - job.space
      BY <1>1 DEF PreparedPrefix
    <2>2. CASE n < job.space - job.seed
      <3>1. fresh = job.seed + n
        BY <1>2, <2>1, <2>2
      <3>2. /\ CycleValues(n) = job.seed .. job.seed + n - 1
            /\ CycleValues(n + 1) = job.seed .. job.seed + n
        <4>1. /\ n <= job.space - job.seed /\ n + 1 <= job.space - job.seed
              /\ job.seed + (n + 1) - 1 = job.seed + n
          BY <1>2, <2>2
        <4>2. QED
          BY <4>1 DEF CycleValues
      <3>3. job.seed .. job.seed + n = (job.seed .. job.seed + n - 1) \cup {job.seed + n}
        BY <1>2
      <3>4. job.seed + n \notin job.seed .. job.seed + n - 1
        BY <1>2
      <3>5. fresh \notin CycleValues(n) /\ CycleValues(n + 1) = CycleValues(n) \cup {fresh}
        <4> HIDE DEF fresh
        <4>1. QED
          BY <3>1, <3>2, <3>3, <3>4
      <3>6. n + 1 <= job.space - job.seed
        BY <1>2, <2>2
      <3>7. QED
        BY <1>2, <3>1, <3>5, <3>6
    <2>3. CASE n = job.space - job.seed
      <3>1. fresh = 0 /\ job.seed + n = job.space
        BY <1>2, <2>1, <2>3
      <3>2. /\ CycleValues(n) = job.seed .. job.space - 1
            /\ CycleValues(n + 1) = (job.seed .. job.space - 1) \cup (0 .. 0)
        <4>1. /\ job.seed + n - 1 = job.space - 1
              /\ job.seed + (n + 1) - 1 - job.space = 0
          BY <1>2, <3>1
        <4>2. n <= job.space - job.seed /\ ~ (n + 1 <= job.space - job.seed)
          BY <1>2, <2>3
        <4>3. QED
          BY <4>1, <4>2 DEF CycleValues
      <3>3. job.seed > 0
        BY <1>2, <2>3
      <3>4. 0 .. 0 = {0} /\ 0 \notin job.seed .. job.space - 1
        BY <1>2, <3>3
      <3>5. fresh \notin CycleValues(n) /\ CycleValues(n + 1) = CycleValues(n) \cup {fresh}
        <4>1. fresh = 0
          BY <3>1
        <4> HIDE DEF fresh
        <4>2. QED
          BY <4>1, <3>2, <3>4
      <3>6. ~ (n + 1 <= job.space - job.seed)
        BY <1>2, <2>3
      <3>7. QED
        BY <1>2, <3>1, <3>5, <3>6
    <2>4. CASE n > job.space - job.seed
      <3> DEFINE m == job.seed + n - job.space
      <3>1. fresh = m /\ m \in Nat /\ m > 0 /\ m < job.seed
        BY <1>2, <2>1, <2>4
      <3>2. /\ CycleValues(n) = (job.seed .. job.space - 1) \cup (0 .. m - 1)
            /\ CycleValues(n + 1) = (job.seed .. job.space - 1) \cup (0 .. m)
        <4>1. /\ job.seed + n - 1 - job.space = m - 1
              /\ job.seed + (n + 1) - 1 - job.space = m
          BY <1>2
        <4>2. ~ (n <= job.space - job.seed) /\ ~ (n + 1 <= job.space - job.seed)
          BY <1>2, <2>4
        <4>3. QED
          BY <4>1, <4>2 DEF CycleValues
      <3>3. /\ 0 .. m = (0 .. m - 1) \cup {m}
            /\ m \notin 0 .. m - 1
            /\ m \notin job.seed .. job.space - 1
        BY <1>2, <3>1
      <3>4. ~ (n + 1 <= job.space - job.seed)
        BY <1>2, <2>4
      <3> HIDE DEF m
      <3>5. fresh \notin CycleValues(n) /\ CycleValues(n + 1) = CycleValues(n) \cup {fresh}
        BY <3>1, <3>2, <3>3
      <3>6. QED
        BY <3>1, <3>4, <3>5 DEF m
    <2>5. QED
      BY <1>2, <2>2, <2>3, <2>4
  <1>10. PreparedPrefix'
    <2>1. (CycleValues(cursor.variants))' = CycleValues(n + 1)
      BY <1>4, <1>6 DEF CycleValues
    <2>2. prepared = ((0 .. job.space - 1) \X (job.pool_time .. cursor.time - 1))
                        \cup (CycleValues(n) \X {cursor.time})
      BY <1>1 DEF PreparedPrefix
    <2>3. prepared' = ((0 .. job.space - 1) \X (job.pool_time .. cursor.time - 1))
                        \cup (CycleValues(n + 1) \X {cursor.time})
      BY <1>7, <1>9, <2>2
    <2>4. cursor'.value = IF cursor'.variants <= job.space - job.seed
                          THEN job.seed + cursor'.variants - 1
                          ELSE job.seed + cursor'.variants - 1 - job.space
      BY <1>2, <1>6, <1>9
    <2>5. QED
      BY <1>4, <1>6, <2>1, <2>3, <2>4 DEF PreparedPrefix
  <1>11. CountersAgree'
    BY <1>1, <1>2, <1>4, <1>6 DEF CountersAgree
  <1>12. VariantOf(cursor') \notin prepared
    <2>1. VariantOf(cursor') = <<fresh, cursor.time>>
      BY <1>6 DEF VariantOf
    <2>2. cursor.time \notin job.pool_time .. cursor.time - 1
      BY <1>2
    <2>3. prepared = ((0 .. job.space - 1) \X (job.pool_time .. cursor.time - 1))
                        \cup (CycleValues(n) \X {cursor.time})
      BY <1>1 DEF PreparedPrefix
    <2>4. QED
      BY <1>9, <2>1, <2>2, <2>3
  <1>13. QED
    BY <1>8, <1>10, <1>11, <1>12 DEF Inv

\* A full cycle uses every extra nonce of the space, wherever it started.
LEMMA CycleComplete ==
    ASSUME job.space \in Nat, job.seed \in Nat, job.seed < job.space
    PROVE  CycleValues(job.space) = 0 .. job.space - 1
  <1>1. CASE job.seed = 0
    BY <1>1 DEF CycleValues
  <1>2. CASE job.seed > 0
    <2>1. ~ (job.space <= job.space - job.seed)
      BY <1>2
    <2>2. job.seed + job.space - 1 - job.space = job.seed - 1
      OBVIOUS
    <2>3. CycleValues(job.space) = (job.seed .. job.space - 1) \cup (0 .. job.seed - 1)
      BY <2>1, <2>2 DEF CycleValues
    <2>4. QED
      BY <2>3
  <1>3. QED
    BY <1>1, <1>2

\* Distributivity, for the counters of one more completed cycle.
LEMMA OneMoreCycle ==
    ASSUME NEW r \in Nat, NEW s \in Nat
    PROVE  r * s \in Nat /\ (r + 1) * s = r * s + s
  OBVIOUS

\* RollNetworkTime: the whole cycle of the current second is behind us.
LEMMA RollNetworkTimeInv ==
    ASSUME Inv, RollNetworkTime
    PROVE  Inv' /\ VariantOf(cursor') \notin prepared
  <1> DEFINE t == cursor.time
  <1>1. TypeOK /\ PreparedPrefix /\ CountersAgree
    BY DEF Inv
  <1>2. /\ job.space \in Nat /\ job.space > 0
        /\ job.pool_time \in Nat /\ job.seed \in Nat /\ job.seed < job.space
        /\ MaxNetworkTime \in Nat
        /\ cursor.variants = job.space
        /\ cursor.index \in Nat /\ cursor.advances \in Nat
        /\ cursor.cycles \in Nat /\ cursor.rolls \in Nat
        /\ t \in Nat /\ t >= job.pool_time /\ t < MaxNetworkTime
    BY <1>1, FieldFacts DEF RollNetworkTime, CycleOpen
  <1>3. /\ cursor' = [cursor EXCEPT !.value = job.seed, !.variants = 1,
                                    !.index = @ + 1, !.advances = @ + 1,
                                    !.cycles = @ + 1, !.time = @ + 1,
                                    !.rolls = @ + 1]
        /\ job' = job /\ exhausted' = exhausted /\ ~exhausted
        /\ prepared' = prepared \cup {VariantOf(cursor')}
    BY DEF RollNetworkTime, Rolled
  <1>4. cursor \in [value : 0 .. job.space - 1, variants : 1 .. job.space,
                    index : Nat, advances : Nat, cycles : Nat,
                    time : job.pool_time .. MaxNetworkTime, rolls : Nat]
    BY <1>1 DEF TypeOK
  <1>5. /\ cursor'.value = job.seed /\ cursor'.variants = 1
        /\ cursor'.index = cursor.index + 1 /\ cursor'.advances = cursor.advances + 1
        /\ cursor'.cycles = cursor.cycles + 1 /\ cursor'.rolls = cursor.rolls + 1
        /\ cursor'.time = t + 1
    BY <1>3, <1>4
  <1>6. VariantOf(cursor') = <<job.seed, t + 1>>
    BY <1>5 DEF VariantOf
  <1>7. TypeOK'
    <2>1. /\ job.seed \in 0 .. job.space - 1 /\ 1 \in 1 .. job.space
          /\ cursor.index + 1 \in Nat /\ cursor.advances + 1 \in Nat
          /\ cursor.cycles + 1 \in Nat /\ cursor.rolls + 1 \in Nat
          /\ t + 1 \in job.pool_time .. MaxNetworkTime
      BY <1>2
    <2>2. cursor' \in [value : 0 .. job.space - 1, variants : 1 .. job.space,
                       index : Nat, advances : Nat, cycles : Nat,
                       time : job.pool_time .. MaxNetworkTime, rolls : Nat]
      BY <1>3, <1>4, <2>1
    <2>3. <<job.seed, t + 1>>
             \in (0 .. job.space - 1) \X (job.pool_time .. MaxNetworkTime)
      BY <2>1
    <2>4. QED
      BY <1>1, <1>3, <1>6, <2>2, <2>3 DEF TypeOK
  <1>8. prepared = (0 .. job.space - 1) \X (job.pool_time .. t)
    <2>1. CycleValues(job.space) = 0 .. job.space - 1
      BY <1>2, CycleComplete
    <2>2. prepared = ((0 .. job.space - 1) \X (job.pool_time .. t - 1))
                        \cup (CycleValues(job.space) \X {t})
      BY <1>1, <1>2 DEF PreparedPrefix
    <2>3. job.pool_time .. t = (job.pool_time .. t - 1) \cup {t}
      BY <1>2
    <2>4. QED
      BY <2>1, <2>2, <2>3
  <1>9. PreparedPrefix'
    <2>1. (CycleValues(cursor.variants))' = {job.seed}
      BY <1>2, <1>3, <1>5 DEF CycleValues
    <2>2. job.pool_time .. (t + 1) - 1 = job.pool_time .. t
      BY <1>2
    <2>3. prepared' = ((0 .. job.space - 1) \X (job.pool_time .. (t + 1) - 1))
                         \cup ({job.seed} \X {t + 1})
      <3>1. prepared' = prepared \cup {<<job.seed, t + 1>>}
        BY <1>3, <1>6
      <3>2. {job.seed} \X {t + 1} = {<<job.seed, t + 1>>}
        OBVIOUS
      <3>3. QED
        BY <1>8, <2>2, <3>1, <3>2
    <2>4. cursor'.value = IF cursor'.variants <= job.space - job.seed
                          THEN job.seed + cursor'.variants - 1
                          ELSE job.seed + cursor'.variants - 1 - job.space
      BY <1>2, <1>5
    <2>5. QED
      BY <1>3, <1>5, <2>1, <2>3, <2>4 DEF PreparedPrefix
  <1>10. CountersAgree'
    <2>1. /\ cursor.rolls = t - job.pool_time /\ cursor.cycles = cursor.rolls
          /\ cursor.advances = cursor.index
          /\ cursor.index = cursor.rolls * job.space + job.space - 1
      BY <1>1, <1>2 DEF CountersAgree
    <2>2. (cursor.rolls + 1) * job.space = cursor.rolls * job.space + job.space
      BY <1>2, OneMoreCycle
    <2>3. cursor.rolls * job.space \in Nat
      BY <1>2, OneMoreCycle
    <2>4. cursor.index + 1 = (cursor.rolls + 1) * job.space + 1 - 1
      BY <1>2, <2>1, <2>2, <2>3
    <2>5. cursor.rolls + 1 = (t + 1) - job.pool_time
      BY <1>2, <2>1
    <2>6. QED
      BY <1>3, <1>5, <2>1, <2>4, <2>5 DEF CountersAgree
  <1>11. VariantOf(cursor') \notin prepared
    <2>1. t + 1 \notin job.pool_time .. t
      BY <1>2
    <2>2. QED
      BY <1>6, <1>8, <2>1
  <1>12. QED
    BY <1>7, <1>9, <1>10, <1>11 DEF Inv

\* Exhaust: nothing but the flag changes, and it is set at the very last variant.
LEMMA ExhaustInv ==
    ASSUME Inv, Exhaust
    PROVE  Inv' /\ cursor' = cursor
  <1>1. TypeOK /\ PreparedPrefix /\ CountersAgree
    BY DEF Inv
  <1>2. /\ cursor.variants = job.space /\ cursor.time = MaxNetworkTime
        /\ job' = job /\ cursor' = cursor /\ prepared' = prepared /\ exhausted' = TRUE
    BY <1>1, FieldFacts DEF Exhaust, CycleOpen
  <1>3. (CycleValues(cursor.variants))' = CycleValues(cursor.variants)
    BY <1>2 DEF CycleValues
  <1>4. TypeOK'
    BY <1>1, <1>2 DEF TypeOK
  <1>5. PreparedPrefix'
    BY <1>1, <1>2, <1>3 DEF PreparedPrefix
  <1>6. CountersAgree'
    BY <1>1, <1>2 DEF CountersAgree
  <1>7. QED
    BY <1>2, <1>4, <1>5, <1>6 DEF Inv

\* Steps that leave the progression alone.
LEMMA StutterInv == Inv /\ UNCHANGED vars => Inv'
  BY DEF Inv, vars, TypeOK, PreparedPrefix, CountersAgree, CycleValues

\* The invariant is inductive.
LEMMA NextInv == Inv /\ [Next]_vars => Inv'
  <1> SUFFICES ASSUME Inv, [Next]_vars PROVE Inv'
    OBVIOUS
  <1>1. CASE AdvanceExtraNonce
    BY <1>1, AdvanceExtraNonceInv
  <1>2. CASE RollNetworkTime
    BY <1>2, RollNetworkTimeInv
  <1>3. CASE Exhaust
    BY <1>3, ExhaustInv
  <1>4. CASE UNCHANGED vars
    BY <1>4, StutterInv
  <1>5. QED
    BY <1>1, <1>2, <1>3, <1>4 DEF Next

\* Types and counters: MiningWorkCursor.__post_init__ accepts every successor
\* advance() builds, and network_time_roll_count is the elapsed time.
THEOREM InvHolds == Spec => [](TypeOK /\ PreparedPrefix /\ CountersAgree)
  <1>1. Inv => TypeOK /\ PreparedPrefix /\ CountersAgree
    BY DEF Inv
  <1>2. QED
    BY InitInv, NextInv, <1>1, PTL DEF Spec

\* No variant is prepared twice, whatever the seed, the extra-nonce size and
\* the pool time.
THEOREM NeverPreparedTwiceHolds == Spec => NeverPreparedTwice
  <1>1. Inv /\ [Next]_vars => [cursor' # cursor => VariantOf(cursor') \notin prepared]_vars
    <2> SUFFICES ASSUME Inv, Next, cursor' # cursor
                 PROVE  VariantOf(cursor') \notin prepared
      OBVIOUS
    <2>1. CASE AdvanceExtraNonce
      BY <2>1, AdvanceExtraNonceInv
    <2>2. CASE RollNetworkTime
      BY <2>2, RollNetworkTimeInv
    <2>3. CASE Exhaust
      BY <2>3, ExhaustInv
    <2>4. QED
      BY <2>1, <2>2, <2>3 DEF Next
  <1>2. QED
    BY InitInv, NextInv, <1>1, PTL DEF Spec, NeverPreparedTwice

\* When the cursor gives up, every extra nonce of every second from the pool
\* time to the largest 32-bit time was prepared.
THEOREM ExhaustedMeansAllHolds == Spec => []ExhaustedMeansAll
  <1>1. Inv => ExhaustedMeansAll
    <2> SUFFICES ASSUME Inv, exhausted
                 PROVE  prepared = (0 .. job.space - 1) \X (job.pool_time .. MaxNetworkTime)
      BY DEF ExhaustedMeansAll
    <2>1. TypeOK /\ PreparedPrefix
      BY DEF Inv
    <2>2. /\ job.space \in Nat /\ job.space > 0
          /\ job.pool_time \in Nat /\ job.seed \in Nat /\ job.seed < job.space
          /\ MaxNetworkTime \in Nat /\ MaxNetworkTime >= job.pool_time
      BY <2>1, FieldFacts
    <2>3. prepared = ((0 .. job.space - 1) \X (job.pool_time .. MaxNetworkTime - 1))
                        \cup (CycleValues(job.space) \X {MaxNetworkTime})
      BY <2>1 DEF PreparedPrefix
    <2>4. CycleValues(job.space) = 0 .. job.space - 1
      BY <2>2, CycleComplete
    <2>5. job.pool_time .. MaxNetworkTime
            = (job.pool_time .. MaxNetworkTime - 1) \cup {MaxNetworkTime}
      BY <2>2
    <2>6. QED
      BY <2>3, <2>4, <2>5
  <1>2. QED
    BY InitInv, NextInv, <1>1, PTL DEF Spec

-------------------------------------------------------------------------------
(* Induction over the naturals, by the least counterexample, and what a    *)
(* definition by recursion over them denotes.                              *)

\* A set of naturals has a least element.
LEMMA LeastNatural ==
    ASSUME NEW T, T \subseteq Nat, T # {}
    PROVE  \E x \in T : \A y \in T : x <= y
  <1>1. IsWellFoundedOn(OpToRel(<,Nat), Nat)
    BY NatLessThanWellFounded
  <1>2. PICK x \in T : \A y \in T : ~ (<<y, x>> \in OpToRel(<,Nat))
    BY <1>1, WFMin, Zenon
  <1>3. \A y \in T : y < x => <<y, x>> \in OpToRel(<,Nat)
    BY DEF OpToRel
  <1>4. \A y \in T : ~ (y < x)
    BY <1>2, <1>3
  <1> QED
    BY <1>4

\* Induction, for the set of the naturals it holds of.
LEMMA Naturals ==
    ASSUME NEW G, 0 \in G, \A n \in Nat : n \in G => n + 1 \in G
    PROVE  Nat \subseteq G
  <1> DEFINE T == Nat \ G
  <1> SUFFICES ASSUME T # {} PROVE FALSE
    OBVIOUS
  <1>1. PICK n \in T : \A m \in T : n <= m
    BY LeastNatural
  <1>2. n - 1 \in Nat /\ n - 1 \notin T
    BY <1>1
  <1> QED
    BY <1>1, <1>2

\* g obeys the recursion x, F[1][x], F[2][F[1][x]], ... up to n.
Recurs(S, x, F, n, g) ==
    /\ g \in [0 .. n -> S] /\ g[0] = x
    /\ \A i \in 1 .. n : g[i] = F[i][g[i - 1]]

\* A longer part of a recursion continues the shorter one.
LEMMA LongerPart ==
    ASSUME NEW S, NEW x, NEW F, NEW n \in Nat \ {0}, NEW g, NEW h,
           Recurs(S, x, F, n, g), Recurs(S, x, F, n - 1, h)
    PROVE  g[n] = F[n][h[n - 1]]
  <1> DEFINE G == {i \in Nat : i <= n - 1 => g[i] = h[i]}
  <1>1. 0 \in G
    BY DEF Recurs
  <1>2. ASSUME NEW i \in Nat, i \in G PROVE i + 1 \in G
    <2> SUFFICES ASSUME i + 1 <= n - 1 PROVE g[i + 1] = h[i + 1]
      OBVIOUS
    <2>1. i + 1 \in 1 .. n /\ i + 1 \in 1 .. n - 1 /\ g[i] = h[i] /\ (i + 1) - 1 = i
      BY <1>2
    <2> QED
      BY <2>1 DEF Recurs
  <1> HIDE DEF G
  <1>3. Nat \subseteq G
    BY <1>1, <1>2, Naturals
  <1>4. g[n - 1] = h[n - 1]
    BY <1>3 DEF G
  <1> QED
    BY <1>4 DEF Recurs

\* One step more.
LEMMA NextPart ==
    ASSUME NEW S, NEW x \in S, NEW F \in [Nat -> [S -> S]], NEW n \in Nat, NEW g,
           Recurs(S, x, F, n, g)
    PROVE  Recurs(S, x, F, n + 1,
                  [i \in 0 .. n + 1 |-> IF i <= n THEN g[i] ELSE F[n + 1][g[n]]])
  <1> DEFINE h == [i \in 0 .. n + 1 |-> IF i <= n THEN g[i] ELSE F[n + 1][g[n]]]
  <1> USE DEF Recurs
  <1>1. F[n + 1][g[n]] \in S
    OBVIOUS
  <1>2. h \in [0 .. n + 1 -> S] /\ h[0] = x
    BY <1>1
  <1>3. ASSUME NEW i \in 1 .. n + 1 PROVE h[i] = F[i][h[i - 1]]
    OBVIOUS
  <1> QED
    BY <1>2, <1>3

\* f obeys it everywhere.
Solves(S, x, F, f) ==
    /\ f \in [Nat -> S] /\ f[0] = x
    /\ \A n \in Nat \ {0} : f[n] = F[n][f[n - 1]]

\* There is a function for every recursion that stays within a set.
LEMMA Recursion ==
    ASSUME NEW S, NEW x \in S, NEW F \in [Nat -> [S -> S]]
    PROVE  \E f : Solves(S, x, F, f)
  <1> DEFINE G == {n \in Nat : \E g : Recurs(S, x, F, n, g)}
             part(n) == CHOOSE g : Recurs(S, x, F, n, g)
             f == [n \in Nat |-> part(n)[n]]
  <1>1. 0 \in G
    <2>1. Recurs(S, x, F, 0, [i \in 0 .. 0 |-> x])
      BY DEF Recurs
    <2> QED
      BY <2>1
  <1>2. ASSUME NEW n \in Nat, n \in G PROVE n + 1 \in G
    <2>1. PICK g : Recurs(S, x, F, n, g)
      BY <1>2
    <2> DEFINE h == [i \in 0 .. n + 1 |-> IF i <= n THEN g[i] ELSE F[n + 1][g[n]]]
    <2>2. Recurs(S, x, F, n + 1, h)
      BY <2>1, NextPart
    <2> HIDE DEF h
    <2> QED
      BY <2>2
  <1>3. Nat \subseteq G
    <2> HIDE DEF G
    <2> QED
      BY <1>1, <1>2, Naturals
  <1>4. ASSUME NEW n \in Nat PROVE Recurs(S, x, F, n, part(n))
    BY <1>3
  <1> HIDE DEF part
  <1>5. ASSUME NEW n \in Nat PROVE part(n)[n] \in S /\ part(n)[0] = x
    BY <1>4 DEF Recurs
  <1>6. f \in [Nat -> S] /\ f[0] = x
    BY <1>5
  <1>7. ASSUME NEW n \in Nat \ {0} PROVE f[n] = F[n][f[n - 1]]
    <2>1. n \in Nat /\ n - 1 \in Nat
      OBVIOUS
    <2>2. Recurs(S, x, F, n, part(n)) /\ Recurs(S, x, F, n - 1, part(n - 1))
      BY <1>4, <2>1
    <2>3. part(n)[n] = F[n][part(n - 1)[n - 1]]
      BY <2>2, LongerPart
    <2> QED
      BY <2>1, <2>3
  <1> HIDE DEF f
  <1>8. Solves(S, x, F, f)
    BY <1>6, <1>7 DEF Solves
  <1> QED
    BY <1>8

-------------------------------------------------------------------------------
(* The powers of two, and the bits of a number. *)

\* PowerOfTwo is what its recursive definition says.
LEMMA PowerOfTwoRecursion ==
    /\ Search!OrbitingBit!PowerOfTwo \in [Nat -> Nat]
    /\ Search!OrbitingBit!PowerOfTwo[0] = 1
    /\ \A n \in Nat \ {0} :
          Search!OrbitingBit!PowerOfTwo[n] = 2 * Search!OrbitingBit!PowerOfTwo[n - 1]
  <1> DEFINE F == [n \in Nat |-> [v \in Nat |-> 2 * v]]
             Is(f) == f = [k \in Nat |-> IF k = 0 THEN 1 ELSE 2 * f[k - 1]]
  <1>1. F \in [Nat -> [Nat -> Nat]]
    OBVIOUS
  <1>2. PICK f : Solves(Nat, 1, F, f)
    <2>1. 1 \in Nat
      OBVIOUS
    <2> HIDE DEF F
    <2> QED
      BY <1>1, <2>1, Recursion
  <1>3. ASSUME NEW n \in Nat \ {0} PROVE f[n] = 2 * f[n - 1]
    <2>1. n \in Nat /\ f[n - 1] \in Nat /\ f[n] = F[n][f[n - 1]]
      BY <1>2 DEF Solves
    <2> QED
      BY <2>1
  <1>4. Is(f)
    <2>1. f = [k \in Nat |-> f[k]]
      BY <1>2 DEF Solves
    <2>2. \A k \in Nat : f[k] = IF k = 0 THEN 1 ELSE 2 * f[k - 1]
      BY <1>2, <1>3 DEF Solves
    <2> QED
      BY <2>1, <2>2
  <1>5. Search!OrbitingBit!PowerOfTwo = CHOOSE g : Is(g)
    BY DEF Search!OrbitingBit!PowerOfTwo
  <1>6. Is(Search!OrbitingBit!PowerOfTwo)
    BY <1>4, <1>5
  <1> DEFINE P == Search!OrbitingBit!PowerOfTwo
  <1>7. P = [k \in Nat |-> IF k = 0 THEN 1 ELSE 2 * P[k - 1]]
    BY <1>6
  <1> HIDE DEF P
  <1>8. P[0] = 1 /\ \A n \in Nat \ {0} : P[n] = 2 * P[n - 1]
    BY <1>7
  <1>9. P \in [Nat -> Nat]
    <2> DEFINE G == {n \in Nat : P[n] \in Nat}
    <2>1. 0 \in G /\ \A n \in Nat : n \in G => n + 1 \in G
      BY <1>8
    <2>2. Nat \subseteq G
      <3> HIDE DEF G
      <3> QED
        BY <2>1, Naturals
    <2>3. P = [k \in Nat |-> P[k]]
      BY <1>7
    <2> QED
      BY <2>2, <2>3
  <1> QED
    BY <1>8, <1>9 DEF P

\* Powers(P) names what the lemmas below need of 1, 2, 4, 8, ...
Powers(P) ==
    /\ P \in [Nat -> Nat \ {0}] /\ P[0] = 1
    /\ \A n \in Nat : P[n + 1] = 2 * P[n]
    /\ \A n \in Nat : P[n] > n
    /\ \A n \in Nat : \A m \in 0 .. n : P[m] <= P[n]

\* The powers of two double, never decrease and exceed their exponent.
LEMMA PowersOfTwo == Powers(Search!OrbitingBit!PowerOfTwo)
  <1> DEFINE P == Search!OrbitingBit!PowerOfTwo
  <1>1. P \in [Nat -> Nat] /\ P[0] = 1 /\ \A n \in Nat \ {0} : P[n] = 2 * P[n - 1]
    BY PowerOfTwoRecursion
  <1> HIDE DEF P
  <1>2. ASSUME NEW n \in Nat PROVE P[n + 1] = 2 * P[n]
    <2>1. n + 1 \in Nat \ {0} /\ (n + 1) - 1 = n
      OBVIOUS
    <2> QED
      BY <1>1, <2>1
  <1>3. \A n \in Nat : P[n] > n
    <2> DEFINE G == {n \in Nat : P[n] > n}
    <2>1. 0 \in G /\ \A n \in Nat : n \in G => n + 1 \in G
      BY <1>1, <1>2
    <2> HIDE DEF G
    <2>2. Nat \subseteq G
      BY <2>1, Naturals
    <2> QED
      BY <2>2 DEF G
  <1>4. \A n \in Nat : \A m \in 0 .. n : P[m] <= P[n]
    <2> DEFINE G == {n \in Nat : \A m \in 0 .. n : P[m] <= P[n]}
    <2>1. 0 \in G
      BY <1>1
    <2>2. ASSUME NEW n \in Nat, n \in G PROVE n + 1 \in G
      <3>1. \A m \in 0 .. n : P[m] <= P[n]
        BY <2>2
      <3>2. P[n] <= P[n + 1]
        BY <1>1, <1>2
      <3>3. ASSUME NEW m \in 0 .. n + 1 PROVE P[m] <= P[n + 1]
        <4>1. m = n + 1 \/ m \in 0 .. n
          OBVIOUS
        <4>2. m \in Nat /\ n + 1 \in Nat
          OBVIOUS
        <4> QED
          BY <1>1, <3>1, <3>2, <4>1, <4>2
      <3> QED
        BY <3>3
    <2> HIDE DEF G
    <2>3. Nat \subseteq G
      BY <2>1, <2>2, Naturals
    <2> QED
      BY <2>3 DEF G
  <1>5. P \in [Nat -> Nat \ {0}]
    BY <1>1, <1>3
  <1> QED
    BY <1>1, <1>2, <1>3, <1>4, <1>5 DEF Powers, P

\* BitLength is the least exponent whose power exceeds n.
LEMMA BitLengthFacts ==
    ASSUME NEW n \in Nat
    PROVE  /\ Search!OrbitingBit!BitLength(n) \in 0 .. n
           /\ Search!OrbitingBit!PowerOfTwo[Search!OrbitingBit!BitLength(n)] > n
           /\ \A j \in 0 .. Search!OrbitingBit!BitLength(n) - 1 :
                 Search!OrbitingBit!PowerOfTwo[j] <= n
  <1> DEFINE P == Search!OrbitingBit!PowerOfTwo
             Fits(k) == P[k] > n /\ \A j \in 0 .. k - 1 : P[j] <= n
             T == {k \in Nat : P[k] > n}
  <1>1. Powers(P)
    BY PowersOfTwo
  <1>2. Search!OrbitingBit!BitLength(n) = CHOOSE k \in 0 .. n : Fits(k)
    BY DEF Search!OrbitingBit!BitLength
  <1> HIDE DEF P
  <1>3. n \in T
    BY <1>1 DEF Powers
  <1>4. PICK k \in T : \A y \in T : k <= y
    BY <1>3, LeastNatural
  <1>5. k \in 0 .. n
    BY <1>3, <1>4
  <1>6. ASSUME NEW j \in 0 .. k - 1 PROVE P[j] <= n
    <2>1. j \in Nat /\ ~ (k <= j)
      BY <1>4
    <2>2. j \notin T
      BY <1>4, <2>1
    <2>3. P[j] \in Nat
      BY <1>1, <2>1 DEF Powers
    <2> QED
      BY <2>1, <2>2, <2>3
  <1>7. Fits(k)
    BY <1>4, <1>6
  <1> HIDE DEF Fits
  <1> DEFINE b == CHOOSE i \in 0 .. n : Fits(i)
  <1>8. b \in 0 .. n /\ Fits(b)
    BY <1>5, <1>7
  <1> HIDE DEF b
  <1>9. Search!OrbitingBit!BitLength(n) = b
    BY <1>2 DEF b
  <1> QED
    BY <1>8, <1>9 DEF Fits, P

\* Reading the width back from the permutation size.
LEMMA BitLengthOfPower ==
    ASSUME NEW w \in Nat
    PROVE  Search!OrbitingBit!BitLength(Search!OrbitingBit!PowerOfTwo[w]) = w + 1
  <1> DEFINE P == Search!OrbitingBit!PowerOfTwo
             b == Search!OrbitingBit!BitLength(P[w])
  <1>1. Powers(P)
    BY PowersOfTwo
  <1>2. P[w] \in Nat
    BY <1>1 DEF Powers, P
  <1>3. /\ b \in 0 .. P[w] /\ P[b] > P[w]
        /\ \A j \in 0 .. b - 1 : P[j] <= P[w]
    <2>1. \A n \in Nat :
             /\ Search!OrbitingBit!BitLength(n) \in 0 .. n
             /\ P[Search!OrbitingBit!BitLength(n)] > n
             /\ \A j \in 0 .. Search!OrbitingBit!BitLength(n) - 1 : P[j] <= n
      BY BitLengthFacts
    <2> QED
      BY <1>2, <2>1
  <1> HIDE DEF b, P
  <1>4. b \in Nat
    BY <1>2, <1>3
  <1>5. ~ (b <= w)
    <2> SUFFICES ASSUME b <= w PROVE FALSE
      OBVIOUS
    <2>1. b \in 0 .. w
      BY <1>4
    <2>2. P[b] <= P[w]
      BY <1>1, <2>1 DEF Powers
    <2>3. P[b] \in Nat
      BY <1>1, <1>4 DEF Powers
    <2> QED
      BY <1>2, <1>3, <2>2, <2>3
  <1>6. ~ (w + 1 < b)
    <2> SUFFICES ASSUME w + 1 < b PROVE FALSE
      OBVIOUS
    <2>1. w + 1 \in 0 .. b - 1
      BY <1>4
    <2>2. P[w + 1] <= P[w] /\ P[w + 1] = 2 * P[w] /\ P[w] # 0
      BY <1>1, <1>3, <2>1 DEF Powers
    <2> QED
      BY <1>2, <2>2
  <1> QED
    BY <1>4, <1>5, <1>6 DEF b, P

-------------------------------------------------------------------------------
(* Multiplication, division and remainder of naturals. *)

\* Multiplication by a natural keeps the order.
LEMMA TimesMonotone ==
    ASSUME NEW m \in Nat, NEW a \in Int, NEW b \in Int, a <= b
    PROVE  m * a <= m * b
  <1>1. b - a \in Nat
    OBVIOUS
  <1>2. m * (b - a) \in Nat
    BY <1>1
  <1>3. m * (b - a) = m * b - m * a
    OBVIOUS
  <1>4. m * a \in Int /\ m * b \in Int
    OBVIOUS
  <1> QED
    BY <1>2, <1>3, <1>4

\* Quotient and remainder.
LEMMA Division ==
    ASSUME NEW u \in Int, NEW m \in Nat \ {0}
    PROVE  /\ u \div m \in Int /\ u % m \in 0 .. m - 1
           /\ u = m * (u \div m) + (u % m)
  OBVIOUS

\* The quotient is the only one.
LEMMA QuotientUnique ==
    ASSUME NEW m \in Nat \ {0}, NEW q \in Int, NEW r \in 0 .. m - 1,
           NEW p \in Int, NEW s \in 0 .. m - 1, m * q + r = m * p + s
    PROVE  q = p /\ r = s
  <1>1. \A a, b \in Int : a <= b => m * a <= m * b
    BY TimesMonotone
  <1>2. \A a \in Int : m * (a + 1) = m * a + m /\ m * a \in Int
    OBVIOUS
  <1>3. ~ (q < p)
    <2> SUFFICES ASSUME q < p PROVE FALSE
      OBVIOUS
    <2>1. m * (q + 1) <= m * p
      BY <1>1
    <2>2. m * q \in Int /\ m * p \in Int /\ m * (q + 1) = m * q + m
      BY <1>2
    <2> QED
      BY <2>1, <2>2
  <1>4. ~ (p < q)
    <2> SUFFICES ASSUME p < q PROVE FALSE
      OBVIOUS
    <2>1. m * (p + 1) <= m * q
      BY <1>1
    <2>2. m * q \in Int /\ m * p \in Int /\ m * (p + 1) = m * p + m
      BY <1>2
    <2> QED
      BY <2>1, <2>2
  <1>5. q = p
    BY <1>3, <1>4
  <1>6. m * q \in Int
    OBVIOUS
  <1> QED
    BY <1>5, <1>6

\* Dropping the lowest digit of the quotient.
LEMMA DivTwice ==
    ASSUME NEW u \in Nat, NEW m \in Nat \ {0}
    PROVE  u \div m = 2 * (u \div (2 * m)) + ((u \div m) % 2)
  <1> DEFINE q == u \div m
             r == u % m
             h == q \div 2
             b == q % 2
             n == 2 * m
  <1>1. q \in Int /\ r \in 0 .. m - 1 /\ u = m * q + r
    BY Division
  <1> HIDE DEF q, r
  <1>2. h \in Int /\ b \in 0 .. 1 /\ q = 2 * h + b
    BY <1>1
  <1> HIDE DEF h, b
  <1>3. n \in Nat \ {0}
    OBVIOUS
  <1>4. u \div n \in Int /\ u % n \in 0 .. n - 1 /\ u = n * (u \div n) + (u % n)
    <2>1. u \in Int
      OBVIOUS
    <2> HIDE DEF n
    <2> QED
      BY <1>3, <2>1, Division
  <1>5. m * q = n * h + m * b
    BY <1>1, <1>2
  <1>6. m * b + r \in 0 .. n - 1
    <2>1. CASE b = 0
      BY <1>1, <2>1
    <2>2. CASE b = 1
      BY <1>1, <2>2
    <2> QED
      BY <1>2, <2>1, <2>2
  <1>7. n * h + (m * b + r) = u
    <2>1. n * h \in Int /\ m * b \in Int /\ m * q \in Int
      BY <1>1, <1>2
    <2> QED
      BY <1>1, <1>5, <2>1
  <1>8. n * h + (m * b + r) = n * (u \div n) + (u % n)
    BY <1>4, <1>7
  <1> HIDE DEF n
  <1>9. h = u \div n
    BY <1>2, <1>3, <1>4, <1>6, <1>8, QuotientUnique
  <1> QED
    BY <1>2, <1>9 DEF n, q, h, b

-------------------------------------------------------------------------------
(* The bit reversal permutes the numbers of its width. *)

\* r[i] holds the i lowest bits of v, reversed.
Reversal(v, w, r) ==
    /\ r \in [0 .. w -> Nat] /\ r[0] = 0
    /\ \A i \in 1 .. w :
          r[i] = 2 * r[i - 1] + ((v \div Search!OrbitingBit!PowerOfTwo[i - 1]) % 2)

\* A bit is 0 or 1.
LEMMA Bit ==
    ASSUME NEW v \in Nat, NEW i \in Nat
    PROVE  (v \div Search!OrbitingBit!PowerOfTwo[i]) % 2 \in 0 .. 1
  <1>1. Search!OrbitingBit!PowerOfTwo[i] \in Nat \ {0}
    BY PowersOfTwo DEF Powers
  <1>2. v \div Search!OrbitingBit!PowerOfTwo[i] \in Int
    BY <1>1, Division
  <1> QED
    BY <1>2

\* ReverseBits computes such a reversal.
LEMMA ReversalExists ==
    ASSUME NEW v \in Nat, NEW w \in Nat
    PROVE  \E r : Reversal(v, w, r) /\ Search!OrbitingBit!ReverseBits(v, w) = r[w]
  <1> DEFINE P == Search!OrbitingBit!PowerOfTwo
             bit(i) == (v \div P[i - 1]) % 2
             F == [i \in Nat |-> [x \in Nat |-> IF i = 0 THEN x ELSE 2 * x + bit(i)]]
             Is(g) == g = [i \in 0 .. w |-> IF i = 0 THEN 0 ELSE 2 * g[i - 1] + bit(i)]
  <1>1. ASSUME NEW i \in Nat \ {0} PROVE bit(i) \in Nat
    <2>1. i - 1 \in Nat
      OBVIOUS
    <2>2. bit(i) \in 0 .. 1
      BY <2>1, Bit
    <2> HIDE DEF bit
    <2> QED
      BY <2>2
  <1>2. Search!OrbitingBit!ReverseBits(v, w) = (CHOOSE g : Is(g))[w]
    BY DEF Search!OrbitingBit!ReverseBits
  <1> HIDE DEF bit
  <1>3. F \in [Nat -> [Nat -> Nat]]
    <2>1. ASSUME NEW i \in Nat, NEW x \in Nat
          PROVE  (IF i = 0 THEN x ELSE 2 * x + bit(i)) \in Nat
      BY <1>1
    <2> QED
      BY <2>1
  <1>4. PICK f : Solves(Nat, 0, F, f)
    <2>1. 0 \in Nat
      OBVIOUS
    <2> HIDE DEF F
    <2> QED
      BY <1>3, <2>1, Recursion
  <1>5. f \in [Nat -> Nat] /\ f[0] = 0
    BY <1>4 DEF Solves
  <1>6. ASSUME NEW i \in Nat \ {0} PROVE f[i] = 2 * f[i - 1] + bit(i)
    <2>1. i \in Nat /\ i # 0 /\ f[i - 1] \in Nat /\ f[i] = F[i][f[i - 1]]
      BY <1>4 DEF Solves
    <2> QED
      BY <2>1
  <1> DEFINE g == [i \in 0 .. w |-> f[i]]
  <1>7. Is(g)
    <2>1. ASSUME NEW i \in 0 .. w
          PROVE  g[i] = IF i = 0 THEN 0 ELSE 2 * g[i - 1] + bit(i)
      <3>1. CASE i = 0
        BY <1>5, <3>1
      <3>2. CASE i # 0
        <4>1. i \in Nat \ {0} /\ i - 1 \in 0 .. w
          BY <3>2
        <4>2. g[i - 1] = f[i - 1] /\ g[i] = f[i]
          BY <4>1
        <4> QED
          BY <1>6, <3>2, <4>1, <4>2
      <3> QED
        BY <3>1, <3>2
    <2>2. g = [i \in 0 .. w |-> g[i]]
      OBVIOUS
    <2> HIDE DEF g
    <2> QED
      BY <2>1, <2>2
  <1> DEFINE r == CHOOSE h : Is(h)
  <1>8. Is(r)
    <2> HIDE DEF Is, g
    <2> QED
      BY <1>7
  <1> HIDE DEF r
  <1>9. r = [i \in 0 .. w |-> IF i = 0 THEN 0 ELSE 2 * r[i - 1] + bit(i)]
    BY <1>8
  <1> HIDE DEF Is
  <1>10. /\ r[0] = 0 /\ DOMAIN r = 0 .. w
         /\ \A i \in 1 .. w : r[i] = 2 * r[i - 1] + bit(i)
    BY <1>9
  <1>11. r \in [0 .. w -> Nat]
    <2> DEFINE G == {i \in Nat : i <= w => r[i] \in Nat}
    <2>1. 0 \in G
      BY <1>10
    <2>2. ASSUME NEW i \in Nat, i \in G PROVE i + 1 \in G
      <3> SUFFICES ASSUME i + 1 <= w PROVE r[i + 1] \in Nat
        OBVIOUS
      <3>1. i + 1 \in 1 .. w /\ i + 1 \in Nat \ {0} /\ (i + 1) - 1 = i /\ r[i] \in Nat
        BY <2>2
      <3>2. bit(i + 1) \in Nat /\ r[i + 1] = 2 * r[i] + bit(i + 1)
        BY <1>1, <1>10, <3>1
      <3> QED
        BY <3>1, <3>2
    <2> HIDE DEF G
    <2>3. Nat \subseteq G
      BY <2>1, <2>2, Naturals
    <2>4. \A i \in 0 .. w : r[i] \in Nat
      BY <2>3 DEF G
    <2>5. r = [i \in 0 .. w |-> r[i]]
      BY <1>9
    <2> QED
      BY <2>4, <2>5
  <1>12. Reversal(v, w, r)
    BY <1>10, <1>11 DEF Reversal, bit
  <1>13. Search!OrbitingBit!ReverseBits(v, w) = r[w]
    BY <1>2 DEF r
  <1> QED
    BY <1>12, <1>13

\* The reversal keeps the width.
LEMMA ReversalBound ==
    ASSUME NEW v \in Nat, NEW w \in Nat, NEW r, Reversal(v, w, r)
    PROVE  r[w] \in 0 .. Search!OrbitingBit!PowerOfTwo[w] - 1
  <1> DEFINE P == Search!OrbitingBit!PowerOfTwo
             bit(i) == (v \div P[i]) % 2
             G == {i \in Nat : i <= w => r[i] <= P[i] - 1}
  <1>1. Powers(P)
    BY PowersOfTwo
  <1>2. ASSUME NEW i \in Nat PROVE bit(i) \in 0 .. 1
    BY Bit
  <1>3. r \in [0 .. w -> Nat] /\ r[0] = 0
    BY DEF Reversal
  <1>4. \A i \in 1 .. w : r[i] = 2 * r[i - 1] + bit(i - 1)
    BY DEF Reversal
  <1> HIDE DEF P, bit
  <1>5. 0 \in G
    BY <1>1, <1>3 DEF Powers
  <1>6. ASSUME NEW i \in Nat, i \in G PROVE i + 1 \in G
    <2> SUFFICES ASSUME i + 1 <= w PROVE r[i + 1] <= P[i + 1] - 1
      OBVIOUS
    <2>1. i + 1 \in 1 .. w /\ (i + 1) - 1 = i /\ i \in 0 .. w
      OBVIOUS
    <2>2. r[i] \in Nat /\ r[i] <= P[i] - 1
      BY <1>3, <1>6, <2>1
    <2>3. r[i + 1] = 2 * r[i] + bit(i)
      BY <1>4, <2>1
    <2>4. P[i] \in Nat /\ P[i + 1] = 2 * P[i]
      BY <1>1 DEF Powers
    <2> QED
      BY <1>2, <2>2, <2>3, <2>4
  <1> HIDE DEF G
  <1>7. Nat \subseteq G
    BY <1>5, <1>6, Naturals
  <1>8. r[w] <= P[w] - 1
    BY <1>7 DEF G
  <1>9. r[w] \in Nat /\ P[w] \in Nat
    BY <1>1, <1>3 DEF Powers
  <1> QED
    BY <1>8, <1>9 DEF P

\* Two numbers of that width with the same reversal are the same.
LEMMA ReversalInjective ==
    ASSUME NEW w \in Nat,
           NEW u \in 0 .. Search!OrbitingBit!PowerOfTwo[w] - 1,
           NEW v \in 0 .. Search!OrbitingBit!PowerOfTwo[w] - 1,
           NEW r, NEW s, Reversal(u, w, r), Reversal(v, w, s), r[w] = s[w]
    PROVE  u = v
  <1> DEFINE P == Search!OrbitingBit!PowerOfTwo
             bu(i) == (u \div P[i]) % 2
             bv(i) == (v \div P[i]) % 2
             qu(i) == u \div P[i]
             qv(i) == v \div P[i]
             G == {i \in Nat : i <= w /\ r[i] = s[i] /\ qu(i) = qv(i) => u = v}
  <1>1. Powers(P)
    BY PowersOfTwo
  <1>2. P[w] \in Nat \ {0}
    BY <1>1 DEF Powers
  <1>3. u \in Nat /\ v \in Nat /\ u < P[w] /\ v < P[w]
    BY <1>2
  <1>4. ASSUME NEW i \in Nat PROVE bu(i) \in 0 .. 1 /\ bv(i) \in 0 .. 1
    BY <1>3, Bit
  <1>5. /\ r \in [0 .. w -> Nat] /\ s \in [0 .. w -> Nat]
        /\ \A i \in 1 .. w : r[i] = 2 * r[i - 1] + bu(i - 1)
        /\ \A i \in 1 .. w : s[i] = 2 * s[i - 1] + bv(i - 1)
    BY DEF Reversal
  <1>6. ASSUME NEW i \in Nat
        PROVE  /\ qu(i) = 2 * qu(i + 1) + bu(i)
               /\ qv(i) = 2 * qv(i + 1) + bv(i)
    <2>1. P[i] \in Nat \ {0} /\ P[i + 1] = 2 * P[i]
      BY <1>1 DEF Powers
    <2>2. u \div P[i] = 2 * (u \div (2 * P[i])) + ((u \div P[i]) % 2)
      BY <1>3, <2>1, DivTwice
    <2>3. v \div P[i] = 2 * (v \div (2 * P[i])) + ((v \div P[i]) % 2)
      BY <1>3, <2>1, DivTwice
    <2> QED
      BY <2>1, <2>2, <2>3
  <1>7. qu(0) = u /\ qv(0) = v
    <2>1. P[0] = 1
      BY <1>1 DEF Powers
    <2> QED
      BY <1>3, <2>1
  <1>8. qu(w) = 0 /\ qv(w) = 0
    <2>1. ASSUME NEW x \in Nat, x < P[w] PROVE x \div P[w] = 0
      <3> HIDE DEF P
      <3>4. x \in Int
        BY <2>1
      <3>2. /\ x \div P[w] \in Int /\ x % P[w] \in 0 .. P[w] - 1
            /\ x = P[w] * (x \div P[w]) + (x % P[w])
        BY <1>2, <3>4, Division
      <3>1. P[w] * 0 + x = P[w] * (x \div P[w]) + (x % P[w])
        BY <1>2, <2>1, <3>2
      <3>3. x \in 0 .. P[w] - 1 /\ 0 \in Int
        BY <1>2, <2>1
      <3> QED
        BY <1>2, <3>1, <3>2, <3>3, QuotientUnique
    <2> QED
      BY <1>3, <2>1
  <1>9. 0 \in G
    BY <1>7
  <1> HIDE DEF P, bu, bv, qu, qv
  <1>10. ASSUME NEW i \in Nat, i \in G PROVE i + 1 \in G
    <2> SUFFICES ASSUME i + 1 <= w, r[i + 1] = s[i + 1], qu(i + 1) = qv(i + 1)
                 PROVE  u = v
      OBVIOUS
    <2>1. i + 1 \in 1 .. w /\ (i + 1) - 1 = i /\ i \in 0 .. w
      OBVIOUS
    <2>2. r[i] \in Nat /\ s[i] \in Nat
      BY <1>5, <2>1
    <2>3. r[i + 1] = 2 * r[i] + bu(i) /\ s[i + 1] = 2 * s[i] + bv(i)
      BY <1>5, <2>1
    <2>4. bu(i) \in 0 .. 1 /\ bv(i) \in 0 .. 1
      BY <1>4
    <2>5. r[i] = s[i] /\ bu(i) = bv(i)
      <3>1. \A a, b \in Nat : \A x, y \in 0 .. 1 :
               2 * a + x = 2 * b + y => a = b /\ x = y
        OBVIOUS
      <3>2. 2 * r[i] + bu(i) = 2 * s[i] + bv(i)
        BY <2>3
      <3> QED
        BY <2>2, <2>4, <3>1, <3>2
    <2>6. qu(i) = qv(i)
      BY <1>6, <2>5
    <2> QED
      BY <1>10, <2>5, <2>6
  <1> HIDE DEF G
  <1>11. Nat \subseteq G
    BY <1>9, <1>10, Naturals
  <1> QED
    BY <1>8, <1>11 DEF G

-------------------------------------------------------------------------------
(* The ranges of a domain. *)

\* The nonces of physical range p, and of the ranges of a set of indexes.
Block(d, p) == d.start + p * d.chunk .. Smaller(d.start + p * d.chunk + d.chunk, d.limit) - 1

Blocks(d, D) == UNION {Block(d, p) : p \in D}

\* The fields of a domain.
LEMMA DomainFacts ==
    ASSUME NEW d \in Domains
    PROVE  /\ d.start \in Nat /\ d.limit \in Nat /\ d.chunk \in Nat \ {0}
           /\ d.start < d.limit /\ d.limit <= NonceLimit
  <1>1. /\ d.start \in 0 .. NonceLimit - 1 /\ d.chunk \in 1 .. NonceLimit
        /\ d.limit \in 1 .. NonceLimit /\ d.start < d.limit
    BY DEF Domains
  <1> QED
    BY <1>1, NonceLimitAssumption

\* The last range begins below the limit and the next would not.
LEMMA RangeCountFacts ==
    ASSUME NEW d \in Domains
    PROVE  /\ RangeCount(d) \in Nat \ {0}
           /\ d.start + (RangeCount(d) - 1) * d.chunk < d.limit
           /\ d.limit <= d.start + RangeCount(d) * d.chunk
  <1> DEFINE size == d.limit - d.start
             c == d.chunk
             n == RangeCount(d)
             u == size + c - 1
  <1>1. size \in Nat \ {0} /\ c \in Nat \ {0} /\ d.limit = d.start + size /\ d.start \in Nat
    BY DomainFacts
  <1>2. n = u \div c
    BY <1>1 DEF RangeCount
  <1>3. u \in Int
    BY <1>1
  <1> HIDE DEF n, u
  <1>4. n \in Int /\ u % c \in 0 .. c - 1 /\ u = c * n + (u % c)
    <2> HIDE DEF c
    <2> QED
      BY <1>1, <1>2, <1>3, Division
  <1>5. u = size + c - 1
    BY DEF u
  <1> HIDE DEF size, c
  <1>6. c * n \in Int /\ (n - 1) * c = c * n - c /\ n * c = c * n
    BY <1>1, <1>4
  <1>7. (n - 1) * c < size /\ size <= n * c
    BY <1>1, <1>4, <1>5, <1>6
  <1>8. ~ (n <= 0)
    <2> SUFFICES ASSUME n <= 0 PROVE FALSE
      OBVIOUS
    <2>1. c * n <= c * 0
      BY <1>1, <1>4, TimesMonotone
    <2> QED
      BY <1>1, <1>6, <1>7, <2>1
  <1>9. n \in Nat \ {0}
    BY <1>4, <1>8
  <1>10. d.start + (n - 1) * c < d.limit /\ d.limit <= d.start + n * c
    BY <1>1, <1>6, <1>7
  <1> QED
    BY <1>9, <1>10 DEF n, c

\* A range is nonempty, of at most chunk nonces and within the domain.
LEMMA BlockBounds ==
    ASSUME NEW d \in Domains, NEW p \in 0 .. RangeCount(d) - 1
    PROVE  LET lo == d.start + p * d.chunk
               hi == Smaller(lo + d.chunk, d.limit)
           IN  /\ lo \in Nat /\ hi \in Nat /\ d.start <= lo
               /\ lo < hi /\ hi <= d.limit /\ hi - lo <= d.chunk
  <1> DEFINE c == d.chunk
             n == RangeCount(d)
  <1>1. c \in Nat \ {0} /\ d.start \in Nat /\ d.limit \in Nat
    BY DomainFacts
  <1>2. n \in Nat \ {0} /\ d.start + (n - 1) * c < d.limit
    BY RangeCountFacts
  <1> HIDE DEF n
  <1>3. p \in Nat /\ p <= n - 1
    BY <1>2 DEF n
  <1> HIDE DEF c
  <1>4. c * p <= c * (n - 1) /\ p * c = c * p /\ (n - 1) * c = c * (n - 1)
    BY <1>1, <1>2, <1>3, TimesMonotone
  <1>5. p * c \in Nat /\ (n - 1) * c \in Nat
    BY <1>1, <1>2, <1>3
  <1>6. d.start + p * c < d.limit
    BY <1>1, <1>2, <1>4, <1>5
  <1> QED
    BY <1>1, <1>5, <1>6 DEF Smaller, c

\* No nonce is in two ranges.
LEMMA BlocksDisjoint ==
    ASSUME NEW d \in Domains, NEW p \in Nat, NEW q \in Nat,
           p < q, NEW x \in Block(d, p)
    PROVE  x \notin Block(d, q)
  <1> DEFINE c == d.chunk
  <1>1. c \in Nat \ {0} /\ d.start \in Nat /\ d.limit \in Nat
    BY DomainFacts
  <1> HIDE DEF c
  <1>2. c * (p + 1) <= c * q /\ p * c \in Nat /\ q * c \in Nat
        /\ q * c = c * q /\ c * (p + 1) = p * c + c
    BY <1>1, TimesMonotone
  <1>3. x \in Int /\ x <= Smaller(d.start + p * c + c, d.limit) - 1
    BY <1>1, <1>2 DEF Block, c, Smaller
  <1>4. x < d.start + p * c + c
    BY <1>1, <1>2, <1>3 DEF Smaller
  <1>5. d.start + p * c + c <= d.start + q * c
    BY <1>1, <1>2
  <1>6. x < d.start + q * c
    BY <1>1, <1>2, <1>3, <1>4, <1>5
  <1> QED
    BY <1>1, <1>2, <1>3, <1>6 DEF Block, c

\* Every nonce of the domain is in a range.
LEMMA BlocksCover ==
    ASSUME NEW d \in Domains, NEW x \in d.start .. d.limit - 1
    PROVE  \E p \in 0 .. RangeCount(d) - 1 : x \in Block(d, p)
  <1> DEFINE c == d.chunk
             n == RangeCount(d)
             y == x - d.start
             p == y \div c
  <1>1. c \in Nat \ {0} /\ d.start \in Nat /\ d.limit \in Nat
    BY DomainFacts
  <1>2. n \in Nat \ {0} /\ d.limit <= d.start + n * c
    BY RangeCountFacts
  <1>3. x \in Nat /\ y \in Nat /\ x = d.start + y /\ x < d.limit
    BY <1>1
  <1> HIDE DEF n, c, y
  <1>4. p \in Int /\ y % c \in 0 .. c - 1 /\ y = c * p + (y % c)
    BY <1>1, <1>3, Division
  <1> HIDE DEF p
  <1>5. c * p \in Int /\ p * c = c * p /\ n * c = c * n /\ c * n \in Int
    BY <1>1, <1>2, <1>4
  <1>6. ~ (p < 0)
    <2> SUFFICES ASSUME p < 0 PROVE FALSE
      OBVIOUS
    <2>1. c * p <= c * (-1)
      BY <1>1, <1>4, TimesMonotone
    <2> QED
      BY <1>1, <1>3, <1>4, <1>5, <2>1
  <1>7. ~ (n <= p)
    <2> SUFFICES ASSUME n <= p PROVE FALSE
      OBVIOUS
    <2>1. c * n <= c * p
      BY <1>1, <1>2, <1>4, TimesMonotone
    <2> QED
      BY <1>1, <1>2, <1>3, <1>4, <1>5, <2>1
  <1>8. p \in 0 .. n - 1
    BY <1>2, <1>4, <1>6, <1>7
  <1>9. /\ d.start + p * c <= x /\ x < d.start + p * c + c
        /\ d.start + p * c \in Int
    BY <1>1, <1>3, <1>4, <1>5
  <1>10. x \in Block(d, p)
    BY <1>1, <1>3, <1>9 DEF Block, Smaller, c
  <1> QED
    BY <1>8, <1>10 DEF n

\* All ranges together are the domain.
LEMMA AllBlocks ==
    ASSUME NEW d \in Domains
    PROVE  Blocks(d, 0 .. RangeCount(d) - 1) = d.start .. d.limit - 1
  <1>1. d.start \in Nat /\ d.limit \in Nat
    BY DomainFacts
  <1>2. ASSUME NEW x \in d.start .. d.limit - 1
        PROVE  x \in Blocks(d, 0 .. RangeCount(d) - 1)
    BY BlocksCover DEF Blocks
  <1>3. ASSUME NEW x \in Blocks(d, 0 .. RangeCount(d) - 1)
        PROVE  x \in d.start .. d.limit - 1
    <2>1. PICK p \in 0 .. RangeCount(d) - 1 : x \in Block(d, p)
      BY <1>3 DEF Blocks
    <2> DEFINE lo == d.start + p * d.chunk
               hi == Smaller(lo + d.chunk, d.limit)
    <2>2. /\ lo \in Nat /\ hi \in Nat /\ d.start <= lo /\ hi <= d.limit
      BY BlockBounds
    <2>3. x \in lo .. hi - 1
      BY <2>1 DEF Block
    <2> HIDE DEF lo, hi
    <2> QED
      BY <1>1, <2>2, <2>3
  <1> QED
    BY <1>2, <1>3

\* Fewer ranges are less.
LEMMA FewerBlocks ==
    ASSUME NEW d \in Domains, NEW D \in SUBSET (0 .. RangeCount(d) - 1),
           Blocks(d, D) = d.start .. d.limit - 1
    PROVE  D = 0 .. RangeCount(d) - 1
  <1> SUFFICES ASSUME NEW p \in 0 .. RangeCount(d) - 1, p \notin D
               PROVE  FALSE
    OBVIOUS
  <1> DEFINE lo == d.start + p * d.chunk
             hi == Smaller(lo + d.chunk, d.limit)
  <1>1. lo \in Nat /\ hi \in Nat /\ d.start <= lo /\ lo < hi /\ hi <= d.limit
    BY BlockBounds
  <1>2. d.start \in Nat /\ d.limit \in Nat /\ RangeCount(d) \in Nat \ {0}
    BY DomainFacts, RangeCountFacts
  <1>3. Block(d, p) = lo .. hi - 1
    BY DEF Block
  <1> HIDE DEF lo, hi
  <1>4. lo \in Block(d, p) /\ lo \in d.start .. d.limit - 1
    BY <1>1, <1>2, <1>3
  <1>5. PICK q \in D : lo \in Block(d, q)
    BY <1>4 DEF Blocks
  <1>6. p \in Nat /\ q \in Nat /\ p # q
    BY <1>2, <1>5
  <1> QED
    BY <1>4, <1>5, <1>6, BlocksDisjoint

\* A range that was not handed out shares no nonce with those that were.
LEMMA NewBlock ==
    ASSUME NEW d \in Domains, NEW D \in SUBSET (0 .. RangeCount(d) - 1),
           NEW p \in 0 .. RangeCount(d) - 1, p \notin D
    PROVE  /\ Block(d, p) \cap Blocks(d, D) = {}
           /\ Blocks(d, D \cup {p}) = Blocks(d, D) \cup Block(d, p)
  <1>1. RangeCount(d) \in Nat \ {0}
    BY RangeCountFacts
  <1>2. ASSUME NEW x \in Block(d, p), x \in Blocks(d, D) PROVE FALSE
    <2>1. PICK q \in D : x \in Block(d, q)
      BY <1>2 DEF Blocks
    <2>2. p \in Nat /\ q \in Nat /\ p # q
      BY <1>1, <2>1
    <2> QED
      BY <1>2, <2>1, <2>2, BlocksDisjoint
  <1> QED
    BY <1>2 DEF Blocks

-------------------------------------------------------------------------------
(* The physical range a counter of the orbiting-bit cursor stands for. *)

\* The strategies' own names for the operators of ParentRanges.
LEMMA SameRanges ==
    /\ Search!OrbitingBit!range_count = RangeCount(domain)
    /\ Search!Fibonacci!range_count = RangeCount(domain)
    /\ Search!Domains = Domains /\ Search!Cover!Domains = Domains
    /\ Search!Sequential!Domains = Domains /\ Search!OrbitingBit!Domains = Domains
    /\ Search!Fibonacci!Domains = Domains
  <1>1. Search!OrbitingBit!range_count = RangeCount(domain)
    BY DEF Search!OrbitingBit!range_count, Search!OrbitingBit!RangeCount, RangeCount
  <1>2. Search!Fibonacci!range_count = RangeCount(domain)
    BY DEF Search!Fibonacci!range_count, Search!Fibonacci!RangeCount, RangeCount
  <1> QED
    BY <1>1, <1>2 DEF Domains, Search!Domains, Search!Cover!Domains,
       Search!Sequential!Domains, Search!OrbitingBit!Domains, Search!Fibonacci!Domains

PermutationSize == Search!OrbitingBit!permutation_size

Orbit == [c \in 0 .. PermutationSize - 1 |-> Search!OrbitingBit!PhysicalIndex(c)]

\* The bit width is that of the enclosing power of two.
LEMMA WidthFacts ==
    ASSUME domain \in Domains
    PROVE  /\ Search!OrbitingBit!bit_width \in Nat
           /\ PermutationSize = Search!OrbitingBit!PowerOfTwo[Search!OrbitingBit!bit_width]
           /\ PermutationSize \in Nat /\ RangeCount(domain) <= PermutationSize
  <1> DEFINE n == RangeCount(domain)
             w == Search!OrbitingBit!BitLength(n - 1)
             P == Search!OrbitingBit!PowerOfTwo
  <1>1. n \in Nat \ {0}
    BY RangeCountFacts
  <1>2. PermutationSize = P[w]
    BY SameRanges DEF PermutationSize, Search!OrbitingBit!permutation_size,
       Search!OrbitingBit!NextPowerOfTwo
  <1>3. n - 1 \in Nat
    BY <1>1
  <1>4. w \in 0 .. n - 1 /\ P[w] > n - 1
    <2> HIDE DEF n
    <2> QED
      BY <1>3, BitLengthFacts
  <1>5. w \in Nat
    BY <1>3, <1>4
  <1>6. Search!OrbitingBit!bit_width = Search!OrbitingBit!BitLength(P[w]) - 1
    BY <1>2 DEF Search!OrbitingBit!bit_width, PermutationSize
  <1>7. Search!OrbitingBit!BitLength(P[w]) = w + 1
    <2> HIDE DEF w
    <2> QED
      BY <1>5, BitLengthOfPower
  <1>8. P[w] \in Nat
    BY <1>5, PowersOfTwo DEF Powers
  <1> HIDE DEF w, P, n
  <1>9. Search!OrbitingBit!bit_width = w
    BY <1>5, <1>6, <1>7
  <1>10. n <= P[w]
    BY <1>1, <1>4, <1>8
  <1> QED
    BY <1>2, <1>5, <1>8, <1>9, <1>10 DEF n, P

\* Every counter stands for an index of its own, and every index for a counter.
LEMMA OrbitPermutes ==
    ASSUME domain \in Domains
    PROVE  /\ \A c \in 0 .. PermutationSize - 1 : Orbit[c] \in 0 .. PermutationSize - 1
           /\ \A c, e \in 0 .. PermutationSize - 1 : Orbit[c] = Orbit[e] => c = e
           /\ \A p \in 0 .. PermutationSize - 1 :
                 \E c \in 0 .. PermutationSize - 1 : Orbit[c] = p
  <1> DEFINE w == Search!OrbitingBit!bit_width
             K == 0 .. PermutationSize - 1
  <1>1. /\ w \in Nat /\ PermutationSize = Search!OrbitingBit!PowerOfTwo[w]
        /\ PermutationSize \in Nat
    BY WidthFacts
  <1>2. ASSUME NEW c \in K
        PROVE  \E r : Reversal(c, w, r) /\ Orbit[c] = r[w]
    <2>1. c \in Nat
      OBVIOUS
    <2>2. Orbit[c] = Search!OrbitingBit!ReverseBits(c, w)
      BY DEF Orbit, Search!OrbitingBit!PhysicalIndex
    <2> HIDE DEF w, K
    <2> QED
      BY <1>1, <2>1, <2>2, ReversalExists
  <1> HIDE DEF w
  <1>3. ASSUME NEW c \in K PROVE Orbit[c] \in K
    <2>1. PICK r : Reversal(c, w, r) /\ Orbit[c] = r[w]
      BY <1>2
    <2>2. c \in Nat
      OBVIOUS
    <2> QED
      BY <1>1, <2>1, <2>2, ReversalBound
  <1>4. ASSUME NEW c \in K, NEW e \in K, Orbit[c] = Orbit[e] PROVE c = e
    <2>1. PICK r : Reversal(c, w, r) /\ Orbit[c] = r[w]
      BY <1>2
    <2>2. PICK s : Reversal(e, w, s) /\ Orbit[e] = s[w]
      BY <1>2
    <2>3. r[w] = s[w]
      BY <1>4, <2>1, <2>2
    <2>4. /\ c \in 0 .. Search!OrbitingBit!PowerOfTwo[w] - 1
          /\ e \in 0 .. Search!OrbitingBit!PowerOfTwo[w] - 1
      BY <1>1
    <2> QED
      BY <1>1, <2>1, <2>2, <2>3, <2>4, ReversalInjective
  <1>5. IsFiniteSet(K)
    <2>1. 0 \in Int /\ PermutationSize - 1 \in Int
      BY <1>1
    <2> QED
      BY <2>1, FS_Interval
  <1> HIDE DEF K
  <1>6. Orbit \in [K -> K]
    <2>1. Orbit = [c \in K |-> Orbit[c]]
      BY DEF Orbit, K
    <2> QED
      BY <1>3, <2>1
  <1>7. Orbit \in Injection(K, K)
    BY <1>4, <1>6 DEF Injection, IsInjective
  <1>8. Orbit \in Surjection(K, K)
    BY <1>5, <1>7, FS_Injection
  <1>9. \A p \in K : \E c \in K : Orbit[c] = p
    BY <1>8 DEF Surjection
  <1> QED
    BY <1>3, <1>4, <1>9 DEF K

-------------------------------------------------------------------------------
(* The stride of the Fibonacci cursor is coprime to the number of ranges. *)

\* The maximum of a bounded nonempty set of integers.
LEMMA MaxFacts ==
    ASSUME NEW S \in SUBSET Int, S # {}, NEW b \in Int, \A x \in S : x <= b
    PROVE  Search!Fibonacci!Max(S) \in S /\ \A y \in S : Search!Fibonacci!Max(S) >= y
  <1> DEFINE T == {b - x : x \in S}
  <1>1. T \subseteq Nat /\ T # {}
    OBVIOUS
  <1>2. PICK t \in T : \A u \in T : t <= u
    BY <1>1, LeastNatural
  <1>3. PICK x \in S : t = b - x
    BY <1>2
  <1>4. ASSUME NEW y \in S PROVE x >= y
    <2>1. b - y \in T
      OBVIOUS
    <2>2. b - x <= b - y
      BY <1>2, <1>3, <2>1
    <2> QED
      BY <1>3, <2>2
  <1>5. \E z \in S : \A y \in S : z >= y
    BY <1>4
  <1> QED
    BY <1>5 DEF Search!Fibonacci!Max

\* Divisibility as a multiple.
LEMMA MultipleIffDivides ==
    ASSUME NEW n \in Int, NEW k \in Nat \ {0}
    PROVE  n % k = 0 <=> \E q \in Int : n = k * q
  <1>1. n \div k \in Int /\ n % k \in 0 .. k - 1 /\ n = k * (n \div k) + (n % k)
    BY Division
  <1>2. ASSUME n % k = 0 PROVE \E q \in Int : n = k * q
    <2>1. k * (n \div k) \in Int
      BY <1>1
    <2>2. n = k * (n \div k)
      BY <1>1, <1>2, <2>1
    <2> QED
      BY <1>1, <2>2
  <1>3. ASSUME NEW q \in Int, n = k * q PROVE n % k = 0
    <2>1. k * q + 0 = k * (n \div k) + (n % k) /\ 0 \in 0 .. k - 1
      BY <1>1, <1>3
    <2> QED
      BY <1>1, <2>1, QuotientUnique
  <1> QED
    BY <1>2, <1>3

\* No number but 1 divides both.
Coprime(s, n) ==
    \A e \in Nat \ {0} : (\E t \in Int : s = e * t) /\ (\E m \in Int : n = e * m) => e = 1

\* Gcd finds it.
LEMMA GcdOne ==
    ASSUME NEW s \in Nat \ {0}, NEW n \in Nat \ {0}
    PROVE  Search!Fibonacci!Gcd(s, n) = 1 <=> Coprime(s, n)
  <1> DEFINE D(k, i) == i % k = 0
             S == {k \in 1 .. s : D(k, s) /\ D(k, n)}
             g == Search!Fibonacci!Max(S)
  <1>1. Search!Fibonacci!Gcd(s, n) = g
    BY DEF Search!Fibonacci!Gcd, Search!Fibonacci!Divides
  <1>2. 1 \in S
    BY Division
  <1>3. S \in SUBSET Int /\ S # {} /\ \A x \in S : x <= s
    BY <1>2
  <1>4. g \in S /\ \A y \in S : g >= y
    <2> HIDE DEF S
    <2> QED
      BY <1>3, MaxFacts
  <1>5. \A e \in Nat \ {0} :
           e \in S <=> (\E t \in Int : s = e * t) /\ (\E m \in Int : n = e * m)
    <2> SUFFICES ASSUME NEW e \in Nat \ {0}
                 PROVE  e \in S <=> (\E t \in Int : s = e * t) /\ (\E m \in Int : n = e * m)
      OBVIOUS
    <2>0. s \in Int /\ n \in Int
      OBVIOUS
    <2>1. D(e, s) <=> \E t \in Int : s = e * t
      BY <2>0, MultipleIffDivides, Zenon
    <2>2. D(e, n) <=> \E m \in Int : n = e * m
      BY <2>0, MultipleIffDivides, Zenon
    <2>3. ASSUME NEW t \in Int, s = e * t PROVE e \in 1 .. s
      <3>1. ~ (t <= 0)
        <4> SUFFICES ASSUME t <= 0 PROVE FALSE
          OBVIOUS
        <4>1. e * t <= e * 0
          BY TimesMonotone
        <4> QED
          BY <2>3, <4>1
      <3>2. e * 1 <= e * t
        BY <3>1, TimesMonotone
      <3> QED
        BY <2>3, <3>2
    <2> HIDE DEF D
    <2>4. e \in S <=> e \in 1 .. s /\ D(e, s) /\ D(e, n)
      OBVIOUS
    <2> QED
      BY <2>1, <2>2, <2>3, <2>4
  <1>6. S \subseteq Nat \ {0}
    OBVIOUS
  <1> HIDE DEF S, g
  <1>7. g = 1 <=> \A e \in S : e = 1
    BY <1>2, <1>4, <1>6
  <1>8. Coprime(s, n) <=> \A e \in S : e = 1
    BY <1>5, <1>6 DEF Coprime
  <1> QED
    BY <1>1, <1>7, <1>8

\* Euclid's lemma: what a coprime factor does not provide the other must.
LEMMA Euclid ==
    ASSUME NEW s \in Nat \ {0}, NEW n \in Nat \ {0}, Coprime(s, n),
           NEW k \in Int, NEW t \in Int, k * s = n * t
    PROVE  \E q \in Int : k = n * q
  <1> DEFINE Good(i) == \E j \in Int : i * s = n * j
             L == {i \in Nat \ {0} : Good(i)}
  <1>1. n \in L
    <2>1. n * s = n * s /\ s \in Int
      OBVIOUS
    <2>2. Good(n)
      BY <2>1
    <2> QED
      BY <2>2
  <1>2. PICK m \in L : \A i \in L : m <= i
    <2>1. L \subseteq Nat /\ L # {}
      BY <1>1
    <2> HIDE DEF L
    <2> QED
      BY <2>1, LeastNatural
  <1>3. m \in Nat \ {0}
    BY <1>2
  <1>4. PICK j \in Int : m * s = n * j
    BY <1>2
  <1>5. ASSUME NEW i \in Int, Good(i) PROVE \E q \in Int : i = m * q
    <2> DEFINE q == i \div m
               r == i % m
    <2>1. q \in Int /\ r \in 0 .. m - 1 /\ i = m * q + r
      BY <1>3, Division
    <2> HIDE DEF q, r
    <2>2. PICK x \in Int : i * s = n * x
      BY <1>5
    <2>3. r * s = n * (x - q * j)
      <3>1. i * s = (m * q) * s + r * s
        BY <1>3, <2>1
      <3>2. (m * q) * s = q * (m * s)
        BY <1>3, <2>1
      <3>3. q * (m * s) = q * (n * j)
        BY <1>4
      <3>4. q * (n * j) = n * (q * j)
        BY <1>4, <2>1
      <3>5. n * (x - q * j) = n * x - n * (q * j)
        BY <1>4, <2>1, <2>2
      <3>6. /\ n * (q * j) \in Int /\ r * s \in Int /\ n * x \in Int /\ i * s \in Int
        BY <1>4, <2>1, <2>2
      <3> QED
        BY <2>2, <3>1, <3>2, <3>3, <3>4, <3>5, <3>6
    <2>4. x - q * j \in Int
      BY <1>4, <2>1, <2>2
    <2>5. Good(r)
      BY <2>3, <2>4
    <2>6. r = 0
      <3> SUFFICES ASSUME r # 0 PROVE FALSE
        OBVIOUS
      <3>1. r \in L
        BY <2>1, <2>5
      <3>2. m <= r
        BY <1>2, <3>1
      <3> QED
        BY <1>3, <2>1, <3>2
    <2>7. i = m * q
      <3>1. m * q \in Int
        BY <1>3, <2>1
      <3> QED
        BY <2>1, <2>6, <3>1
    <2> QED
      BY <2>1, <2>7
  <1>6. PICK e \in Int : n = m * e
    <2>1. Good(n) /\ n \in Int
      BY <1>1
    <2> HIDE DEF Good
    <2> QED
      BY <1>5, <2>1
  <1>7. e \in Nat \ {0}
    <2> SUFFICES ASSUME e <= 0 PROVE FALSE
      BY <1>6
    <2>1. m * e <= m * 0
      BY <1>3, <1>6, TimesMonotone
    <2> QED
      BY <1>3, <1>6, <2>1
  <1>8. s = e * j
    <2>1. m * s = m * (e * j)
      BY <1>3, <1>4, <1>6
    <2>2. s \in Int /\ e * j \in Int /\ 0 \in 0 .. m - 1
      BY <1>3, <1>4, <1>6
    <2>3. m * s + 0 = m * (e * j) + 0
      BY <2>1
    <2> DEFINE z == e * j
    <2> HIDE DEF z
    <2>4. s = z
      BY <1>3, <2>2, <2>3, QuotientUnique DEF z
    <2> QED
      BY <2>4 DEF z
  <1>9. n = e * m /\ m \in Int
    BY <1>3, <1>6, <1>7
  <1>10. e = 1
    BY <1>4, <1>7, <1>8, <1>9 DEF Coprime
  <1>11. m = n
    BY <1>6, <1>10, <1>3
  <1>12. Good(k)
    OBVIOUS
  <1> HIDE DEF Good
  <1> QED
    BY <1>5, <1>11, <1>12

\* The first Fibonacci numbers are positive, so the stride is found among them.
LEMMA StrideFacts ==
    ASSUME domain \in Domains
    PROVE  /\ Search!Fibonacci!fibonacci_stride \in Nat \ {0}
           /\ Coprime(Search!Fibonacci!fibonacci_stride, RangeCount(domain))
  <1> DEFINE n == RangeCount(domain)
             Is(g) == g = [i \in 0 .. n |-> IF i <= 1 THEN i + 1 ELSE g[i - 1] + g[i - 2]]
             fib == CHOOSE g : Is(g)
             B == {1} \cup {fib[i] : i \in {j \in 0 .. n : fib[j] < n}}
             C == {f \in B : Search!Fibonacci!Gcd(f, n) = 1}
  <1>1. n \in Nat \ {0}
    BY RangeCountFacts
  <1>2. Search!Fibonacci!FibonacciBelow(n) = B
    BY DEF Search!Fibonacci!FibonacciBelow
  <1>3. Search!Fibonacci!fibonacci_stride = IF n = 1 THEN 1 ELSE Search!Fibonacci!Max(C)
    BY <1>2, SameRanges DEF Search!Fibonacci!fibonacci_stride,
       Search!Fibonacci!FibonacciCoprimeStride
  <1>4. \E g : Is(g)
    <2> DEFINE F == [i \in Nat |-> [v \in Nat \X Nat |-> <<v[2], v[1] + v[2]>>]]
    <2>1. F \in [Nat -> [Nat \X Nat -> Nat \X Nat]] /\ <<1, 2>> \in Nat \X Nat
      OBVIOUS
    <2>2. PICK f : Solves(Nat \X Nat, <<1, 2>>, F, f)
      <3> HIDE DEF F
      <3> QED
        BY <2>1, Recursion
    <2>8. /\ f \in [Nat -> Nat \X Nat] /\ f[0] = <<1, 2>>
          /\ \A i \in Nat \ {0} : f[i] = F[i][f[i - 1]]
      <3> HIDE DEF F
      <3> QED
        BY <2>2 DEF Solves
    <2>9. ASSUME NEW i \in Nat \ {0} PROVE i - 1 \in Nat /\ f[i - 1] \in Nat \X Nat
      <3>1. i - 1 \in Nat
        OBVIOUS
      <3> HIDE DEF F
      <3> QED
        BY <2>8, <3>1
    <2>3. /\ f[0] = <<1, 2>>
          /\ \A i \in Nat \ {0} : f[i] = F[i][f[i - 1]] /\ f[i - 1] \in Nat \X Nat
      <3> HIDE DEF F
      <3> QED
        BY <2>8, <2>9
    <2>4. ASSUME NEW i \in Nat \ {0} PROVE f[i] = <<f[i - 1][2], f[i - 1][1] + f[i - 1][2]>>
      <3>1. i \in Nat /\ f[i] = F[i][f[i - 1]] /\ f[i - 1] \in Nat \X Nat
        BY <2>3
      <3> QED
        BY <3>1
    <2> DEFINE h == [i \in 0 .. n |-> f[i][1]]
    <2>5. ASSUME NEW i \in 0 .. n
          PROVE  h[i] = IF i <= 1 THEN i + 1 ELSE h[i - 1] + h[i - 2]
      <3>1. CASE i = 0
        BY <2>3, <3>1
      <3>2. CASE i = 1
        <4>1. f[1][1] = f[0][2]
          BY <2>4
        <4> QED
          BY <2>3, <3>2, <4>1
      <3>3. CASE i > 1
        <4>1. /\ i \in Nat \ {0} /\ i - 1 \in Nat \ {0} /\ (i - 1) - 1 = i - 2
              /\ i - 1 \in 0 .. n /\ i - 2 \in 0 .. n
          BY <1>1, <3>3
        <4>2. f[i][1] = f[i - 1][2]
          BY <2>4, <4>1
        <4>3. f[i - 1][2] = f[i - 2][1] + f[i - 2][2] /\ f[i - 1][1] = f[i - 2][2]
          BY <2>4, <4>1
        <4>4. f[i - 2] \in Nat \X Nat
          BY <2>3, <4>1
        <4>5. f[i - 2][1] \in Nat /\ f[i - 2][2] \in Nat
          BY <4>4
        <4>6. f[i][1] = f[i - 1][1] + f[i - 2][1]
          BY <4>2, <4>3, <4>5
        <4>7. h[i] = f[i][1] /\ h[i - 1] = f[i - 1][1] /\ h[i - 2] = f[i - 2][1]
          BY <4>1
        <4> HIDE DEF h
        <4> QED
          BY <3>3, <4>6, <4>7
      <3> QED
        BY <1>1, <3>1, <3>2, <3>3
    <2>6. h = [i \in 0 .. n |-> h[i]]
      OBVIOUS
    <2> HIDE DEF h
    <2>7. Is(h)
      BY <2>5, <2>6
    <2> QED
      BY <2>7
  <1>5. Is(fib)
    <2> HIDE DEF Is
    <2> QED
      BY <1>4
  <1> HIDE DEF fib
  <1>6. \A i \in 0 .. n : fib[i] = IF i <= 1 THEN i + 1 ELSE fib[i - 1] + fib[i - 2]
    BY <1>5
  <1> HIDE DEF Is, n
  <1>7. \A i \in 0 .. n : fib[i] \in Nat \ {0}
    <2> DEFINE Pos(i) == i <= n => fib[i] \in Nat \ {0}
               G == {i \in Nat : Pos(i) /\ Pos(i + 1)}
    <2>1. 0 \in G
      BY <1>6
    <2>2. ASSUME NEW i \in Nat, i \in G PROVE i + 1 \in G
      <3> SUFFICES ASSUME i + 2 <= n PROVE fib[i + 2] \in Nat \ {0}
        BY <2>2
      <3>1. fib[i] \in Nat \ {0} /\ fib[i + 1] \in Nat \ {0}
        BY <1>1, <2>2
      <3>2. i + 2 \in 0 .. n /\ ~ (i + 2 <= 1) /\ (i + 2) - 1 = i + 1 /\ (i + 2) - 2 = i
        BY <1>1
      <3>3. fib[i + 2] = fib[i + 1] + fib[i]
        BY <1>6, <3>2
      <3> QED
        BY <3>1, <3>3
    <2> HIDE DEF G
    <2>3. Nat \subseteq G
      BY <2>1, <2>2, Naturals
    <2> QED
      BY <1>1, <2>3 DEF G
  <1>8. B \subseteq Nat \ {0} /\ \A x \in B : x <= n
    BY <1>1, <1>7
  <1>9. 1 \in C
    <2>1. Coprime(1, n)
      <3> SUFFICES ASSUME NEW e \in Nat \ {0}, NEW t \in Int, 1 = e * t PROVE e = 1
        BY DEF Coprime
      <3>1. CASE t <= 0
        <4>1. e * t <= e * 0
          BY <3>1, TimesMonotone
        <4> QED
          BY <4>1
      <3>2. CASE t >= 1
        <4>1. e * 1 <= e * t
          BY <3>2, TimesMonotone
        <4> QED
          BY <4>1
      <3> QED
        BY <3>1, <3>2
    <2>2. 1 \in Nat \ {0}
      OBVIOUS
    <2>3. Search!Fibonacci!Gcd(1, n) = 1
      BY <1>1, <2>1, <2>2, GcdOne
    <2> QED
      BY <2>3
  <1>10. Coprime(1, n)
    <2>1. 1 \in Nat \ {0} /\ Search!Fibonacci!Gcd(1, n) = 1
      BY <1>9
    <2> QED
      BY <1>1, <2>1, GcdOne
  <1>11. Search!Fibonacci!Max(C) \in C
    <2>1. C \in SUBSET Int /\ C # {} /\ n \in Int /\ \A x \in C : x <= n
      BY <1>1, <1>8, <1>9
    <2> HIDE DEF C
    <2> QED
      BY <2>1, MaxFacts
  <1> DEFINE m == Search!Fibonacci!Max(C)
  <1> HIDE DEF B, m
  <1>12. m \in Nat \ {0} /\ Search!Fibonacci!Gcd(m, n) = 1
    BY <1>8, <1>11 DEF m
  <1>13. Coprime(m, n)
    BY <1>1, <1>12, GcdOne
  <1> QED
    BY <1>3, <1>10, <1>12, <1>13 DEF n, m

-------------------------------------------------------------------------------
(* The offsets 0, +1, -1, +2, -2, ... are distinct, less than count apart.  *)

\* Two offsets of the bounce.
LEMMA OffsetFacts ==
    ASSUME NEW n \in Nat, NEW i \in 0 .. n - 1, NEW j \in 0 .. n - 1
    PROVE  LET a == Search!Fibonacci!FibonacciBounceOffset(i)
               b == Search!Fibonacci!FibonacciBounceOffset(j)
           IN  /\ a \in Int /\ b \in Int
               /\ a = b => i = j
               /\ a - b < n /\ b - a < n
  BY DEF Search!Fibonacci!FibonacciBounceOffset

Bounce == [i \in 0 .. RangeCount(domain) - 1 |-> Search!Fibonacci!PhysicalIndex(i)]

\* Each index of the cursor stands for a range of its own.
LEMMA BouncePermutes ==
    ASSUME domain \in Domains
    PROVE  /\ \A i \in 0 .. RangeCount(domain) - 1 : Bounce[i] \in 0 .. RangeCount(domain) - 1
           /\ \A i, j \in 0 .. RangeCount(domain) - 1 : Bounce[i] = Bounce[j] => i = j
  <1> DEFINE n == RangeCount(domain)
             s == Search!Fibonacci!fibonacci_stride
             a(i) == Search!Fibonacci!FibonacciBounceOffset(i)
  <1>1. n \in Nat \ {0} /\ s \in Nat \ {0} /\ Coprime(s, n)
    BY RangeCountFacts, StrideFacts
  <1>2. ASSUME NEW i \in 0 .. n - 1 PROVE Bounce[i] = (a(i) * s) % n
    BY SameRanges DEF Bounce, Search!Fibonacci!PhysicalIndex
  <1> HIDE DEF n, s
  <1>3. ASSUME NEW i \in 0 .. n - 1, NEW j \in 0 .. n - 1
        PROVE  /\ a(i) \in Int /\ a(j) \in Int /\ a(i) - a(j) < n /\ a(j) - a(i) < n
               /\ a(i) = a(j) => i = j
    BY <1>1, OffsetFacts
  <1> HIDE DEF a
  <1>4. ASSUME NEW i \in 0 .. n - 1
        PROVE  /\ a(i) * s \in Int
               /\ (a(i) * s) \div n \in Int /\ Bounce[i] \in 0 .. n - 1
               /\ a(i) * s = n * ((a(i) * s) \div n) + Bounce[i]
    <2> DEFINE x == a(i) * s
    <2>1. x \in Int
      BY <1>1, <1>3
    <2> HIDE DEF x
    <2>2. x \div n \in Int /\ x % n \in 0 .. n - 1 /\ x = n * (x \div n) + (x % n)
      BY <1>1, <2>1, Division
    <2>3. Bounce[i] = x % n
      BY <1>2 DEF x
    <2> QED
      BY <2>1, <2>2, <2>3 DEF x
  <1>5. ASSUME NEW i \in 0 .. n - 1, NEW j \in 0 .. n - 1, Bounce[i] = Bounce[j]
        PROVE  i = j
    <2> DEFINE x == (a(i) * s) \div n
               y == (a(j) * s) \div n
               k == a(i) - a(j)
               r == Bounce[i]
    <2>1. /\ x \in Int /\ y \in Int /\ r \in Int
          /\ a(i) * s = n * x + r /\ a(j) * s = n * y + r
      BY <1>4, <1>5, <1>1
    <2> HIDE DEF x, y, r
    <2>2. k \in Int /\ k < n /\ -k < n
      BY <1>1, <1>3
    <2>3. k * s = n * (x - y)
      <3>1. k * s = a(i) * s - a(j) * s
        BY <1>1, <1>3
      <3>2. n * (x - y) = n * x - n * y /\ n * x \in Int /\ n * y \in Int
        BY <1>1, <2>1
      <3> QED
        BY <2>1, <3>1, <3>2
    <2>4. x - y \in Int
      BY <2>1
    <2>5. k = 0 => a(i) = a(j)
      BY <1>3
    <2> HIDE DEF k
    <2>6. PICK q \in Int : k = n * q
      BY <1>1, <2>2, <2>3, <2>4, Euclid
    <2>7. ~ (q >= 1)
      <3> SUFFICES ASSUME q >= 1 PROVE FALSE
        OBVIOUS
      <3>1. n * 1 <= n * q
        BY <1>1, <2>6, TimesMonotone
      <3> QED
        BY <1>1, <2>2, <2>6, <3>1
    <2>8. ~ (q <= -1)
      <3> SUFFICES ASSUME q <= -1 PROVE FALSE
        OBVIOUS
      <3>1. n * q <= n * (-1)
        BY <1>1, <2>6, TimesMonotone
      <3> QED
        BY <1>1, <2>2, <2>6, <3>1
    <2>9. q = 0
      BY <2>6, <2>7, <2>8
    <2>10. k = 0
      BY <1>1, <2>6, <2>9
    <2> QED
      BY <1>3, <2>5, <2>10
  <1> QED
    BY <1>4, <1>5 DEF n

-------------------------------------------------------------------------------
(* One cursor: which ranges it has handed out. *)

Count == RangeCount(domain)
Indexes == 0 .. Count - 1

\* The ranges among the first m of an order.
Reached(order, m, n) == {order[c] : c \in {e \in 0 .. m - 1 : order[e] < n}}

SequentialInv ==
    /\ assignment_index \in 0 .. Count
    /\ next_nonce = Smaller(domain.start + assignment_index * domain.chunk, domain.limit)
    /\ CoveredBy(issued) = Blocks(domain, 0 .. assignment_index - 1)

\* emitted_count is the number of ranges reached, and the invalid suffix is
\* consumed together with the last of them.
OrbitInv ==
    /\ permutation_counter \in 0 .. PermutationSize
    /\ emitted_count \in Nat /\ assignment_index \in Nat
    /\ emitted_count = Cardinality(Reached(Orbit, permutation_counter, Count))
    /\ emitted_count = Count => permutation_counter = PermutationSize
    /\ CoveredBy(issued) = Blocks(domain, Reached(Orbit, permutation_counter, Count))

BounceInv ==
    /\ assignment_index \in 0 .. Count /\ emitted_count = assignment_index
    /\ CoveredBy(issued) = Blocks(domain, Reached(Bounce, assignment_index, Count))

CursorInv ==
    /\ domain \in Domains
    /\ issued \in Seq(Assignments)
    /\ raised = FALSE
    /\ \/ strategy = "sequential" /\ SequentialInv
       \/ strategy = "orbiting-bit" /\ OrbitInv
       \/ strategy = "fibonacci-bounce" /\ BounceInv

\* The number of ranges.
LEMMA CountFacts ==
    ASSUME domain \in Domains
    PROVE  Count \in Nat \ {0} /\ IsFiniteSet(Indexes) /\ Cardinality(Indexes) = Count
  <1>1. Count \in Nat \ {0}
    BY RangeCountFacts DEF Count
  <1>2. 0 \in Int /\ Count - 1 \in Int
    BY <1>1
  <1>3. /\ IsFiniteSet(0 .. Count - 1)
        /\ Cardinality(0 .. Count - 1) = IF 0 > Count - 1 THEN 0 ELSE Count - 1 - 0 + 1
    BY <1>2, FS_Interval
  <1> QED
    BY <1>1, <1>3 DEF Indexes

\* Nothing of an order follows when all is reached, and the reverse.
LEMMA ReachedFacts ==
    ASSUME NEW n \in Nat, NEW N \in Nat, NEW order,
           \A c \in 0 .. N - 1 : order[c] \in Nat,
           \A c, e \in 0 .. N - 1 : order[c] = order[e] => c = e,
           \A p \in 0 .. n - 1 : \E c \in 0 .. N - 1 : order[c] = p,
           NEW m \in 0 .. N
    PROVE  /\ Reached(order, m, n) \subseteq 0 .. n - 1
           /\ Reached(order, N, n) = 0 .. n - 1
           /\ \A c \in m .. N - 1 : order[c] \notin Reached(order, m, n)
           /\ Reached(order, m, n) = 0 .. n - 1 <=> \A c \in m .. N - 1 : ~ (order[c] < n)
  <1>1. ASSUME NEW x \in Reached(order, m, n)
        PROVE  x \in 0 .. n - 1
    BY DEF Reached
  <1>2. ASSUME NEW x \in Reached(order, N, n) PROVE x \in 0 .. n - 1
    BY DEF Reached
  <1>3. ASSUME NEW p \in 0 .. n - 1 PROVE p \in Reached(order, N, n)
    <2>1. PICK c \in 0 .. N - 1 : order[c] = p
      OBVIOUS
    <2>2. order[c] < n
      BY <2>1
    <2> QED
      BY <2>1, <2>2 DEF Reached
  <1>4. ASSUME NEW c \in m .. N - 1, order[c] \in Reached(order, m, n) PROVE FALSE
    <2>1. PICK e \in 0 .. m - 1 : order[e] = order[c]
      BY <1>4 DEF Reached
    <2>2. e \in 0 .. N - 1 /\ c \in 0 .. N - 1 /\ e # c
      OBVIOUS
    <2> QED
      BY <2>1, <2>2
  <1>5. ASSUME Reached(order, m, n) = 0 .. n - 1, NEW c \in m .. N - 1, order[c] < n
        PROVE  FALSE
    <2>1. c \in 0 .. N - 1
      OBVIOUS
    <2>2. order[c] \in 0 .. n - 1
      BY <1>5, <2>1
    <2> QED
      BY <1>4, <1>5, <2>2
  <1>6. ASSUME \A c \in m .. N - 1 : ~ (order[c] < n), NEW p \in 0 .. n - 1
        PROVE  p \in Reached(order, m, n)
    <2>1. PICK c \in 0 .. N - 1 : order[c] = p
      OBVIOUS
    <2>2. order[c] < n
      BY <2>1
    <2>3. c \in 0 .. m - 1
      BY <1>6, <2>2
    <2> QED
      BY <2>1, <2>2, <2>3 DEF Reached
  <1> QED
    BY <1>1, <1>2, <1>3, <1>4, <1>5, <1>6

\* One more of an order, the invalid ones before it skipped.
LEMMA ReachedNext ==
    ASSUME NEW n \in Nat, NEW m \in Nat, NEW c \in Nat, m <= c, NEW order,
           \A e \in m .. c - 1 : ~ (order[e] < n), order[c] < n
    PROVE  Reached(order, c + 1, n) = Reached(order, m, n) \cup {order[c]}
  <1>1. ASSUME NEW e \in 0 .. (c + 1) - 1, order[e] < n, e # c PROVE e \in 0 .. m - 1
    BY <1>1
  <1>2. c \in 0 .. (c + 1) - 1 /\ 0 .. m - 1 \subseteq 0 .. (c + 1) - 1
    OBVIOUS
  <1> QED
    BY <1>1, <1>2 DEF Reached

\* What one more assignment covers.
LEMMA AppendCovers ==
    ASSUME NEW q \in Seq(Assignments), NEW item
    PROVE  CoveredBy(Append(q, item)) = CoveredBy(q) \cup NoncesOf(item)
  <1> DEFINE r == Append(q, item)
  <1>1. DOMAIN r = DOMAIN q \cup {Len(q) + 1} /\ r[Len(q) + 1] = item
        /\ \A i \in DOMAIN q : r[i] = q[i]
    OBVIOUS
  <1> HIDE DEF r
  <1> QED
    BY <1>1 DEF CoveredBy, r

-------------------------------------------------------------------------------
(* Facts of each order. *)

\* The bit-reversal order visits every range once, among other indexes.
LEMMA OrbitOrder ==
    ASSUME domain \in Domains
    PROVE  /\ PermutationSize \in Nat /\ Count <= PermutationSize
           /\ \A c \in 0 .. PermutationSize - 1 : Orbit[c] \in Nat
           /\ \A c, e \in 0 .. PermutationSize - 1 : Orbit[c] = Orbit[e] => c = e
           /\ \A p \in 0 .. Count - 1 : \E c \in 0 .. PermutationSize - 1 : Orbit[c] = p
  <1>1. PermutationSize \in Nat /\ Count <= PermutationSize /\ Count \in Nat
    BY WidthFacts, CountFacts DEF Count
  <1>2. 0 .. Count - 1 \subseteq 0 .. PermutationSize - 1
    BY <1>1
  <1> QED
    BY <1>1, <1>2, OrbitPermutes

\* The Fibonacci order visits every range once.
LEMMA BounceOrder ==
    ASSUME domain \in Domains
    PROVE  /\ \A c \in 0 .. Count - 1 : Bounce[c] \in Nat /\ Bounce[c] < Count
           /\ \A c, e \in 0 .. Count - 1 : Bounce[c] = Bounce[e] => c = e
           /\ \A p \in 0 .. Count - 1 : \E c \in 0 .. Count - 1 : Bounce[c] = p
  <1>1. Count \in Nat \ {0} /\ IsFiniteSet(Indexes)
    BY CountFacts
  <1>2. /\ \A i \in Indexes : Bounce[i] \in Indexes
        /\ \A i, j \in Indexes : Bounce[i] = Bounce[j] => i = j
    BY BouncePermutes DEF Count, Indexes
  <1>3. Bounce \in [Indexes -> Indexes]
    <2>1. Bounce = [i \in Indexes |-> Bounce[i]]
      BY DEF Bounce, Indexes, Count
    <2> QED
      BY <1>2, <2>1
  <1>4. Bounce \in Injection(Indexes, Indexes)
    BY <1>2, <1>3 DEF Injection, IsInjective
  <1>5. Bounce \in Surjection(Indexes, Indexes)
    BY <1>1, <1>4, FS_Injection
  <1>6. \A p \in Indexes : \E c \in Indexes : Bounce[c] = p
    BY <1>5 DEF Surjection
  <1>7. \A i \in Indexes : i \in Nat /\ i < Count
    BY <1>1 DEF Indexes
  <1>8. \A c \in Indexes : Bounce[c] \in Nat /\ Bounce[c] < Count
    BY <1>2, <1>7
  <1> QED
    BY <1>2, <1>6, <1>8 DEF Indexes

\* Each cursor is exhausted exactly when the whole domain was handed out.
LEMMA ExhaustedCovered ==
    ASSUME CursorInv
    PROVE  /\ Search!exhausted \in BOOLEAN
           /\ Search!exhausted <=> CoveredBy(issued) = domain.start .. domain.limit - 1
  <1> DEFINE all == domain.start .. domain.limit - 1
             n == Count
  <1>1. domain \in Domains /\ n \in Nat \ {0}
    BY CountFacts DEF CursorInv
  <1>2. Blocks(domain, 0 .. n - 1) = all
    BY <1>1, AllBlocks DEF Count
  <1>3. \A D \in SUBSET (0 .. n - 1) : Blocks(domain, D) = all => D = 0 .. n - 1
    BY <1>1, FewerBlocks DEF Count
  <1>4. CASE strategy = "sequential" /\ SequentialInv
    <2> DEFINE ai == assignment_index
    <2>1. Search!exhausted <=> next_nonce = domain.limit
      BY <1>4 DEF Search!exhausted, Search!Sequential!exhausted
    <2>2. /\ ai \in 0 .. n /\ CoveredBy(issued) = Blocks(domain, 0 .. ai - 1)
          /\ next_nonce = Smaller(domain.start + ai * domain.chunk, domain.limit)
      BY <1>4 DEF SequentialInv
    <2>3. next_nonce = domain.limit <=> ai = n
      <3>1. ai = n => next_nonce = domain.limit
        <4>1. /\ domain.limit <= domain.start + n * domain.chunk
              /\ domain.limit \in Nat /\ domain.start \in Nat /\ domain.chunk \in Nat \ {0}
          BY <1>1, RangeCountFacts, DomainFacts DEF Count
        <4>2. domain.start + n * domain.chunk \in Nat
          BY <1>1, <4>1
        <4> QED
          BY <2>2, <4>1, <4>2 DEF Smaller
      <3>2. ai # n => next_nonce # domain.limit
        <4> SUFFICES ASSUME ai # n PROVE next_nonce # domain.limit
          OBVIOUS
        <4> DEFINE lo == domain.start + ai * domain.chunk
        <4>1. ai \in 0 .. RangeCount(domain) - 1
          BY <1>1, <2>2 DEF Count
        <4>2. lo \in Nat /\ lo < Smaller(lo + domain.chunk, domain.limit)
              /\ Smaller(lo + domain.chunk, domain.limit) <= domain.limit
              /\ Smaller(lo + domain.chunk, domain.limit) \in Nat
              /\ domain.limit \in Nat
          BY <1>1, <4>1, BlockBounds, DomainFacts
        <4> HIDE DEF lo
        <4>3. lo < domain.limit
          BY <4>2
        <4>4. next_nonce = Smaller(lo, domain.limit)
          BY <2>2 DEF lo
        <4> QED
          BY <4>2, <4>3, <4>4 DEF Smaller
      <3> QED
        BY <3>1, <3>2
    <2>4. 0 .. ai - 1 \in SUBSET (0 .. n - 1)
      BY <1>1, <2>2
    <2>5. 0 .. ai - 1 = 0 .. n - 1 <=> ai = n
      <3>1. ai < n => ai \in 0 .. n - 1 /\ ai \notin 0 .. ai - 1
        BY <1>1, <2>2
      <3> QED
        BY <1>1, <2>2, <3>1
    <2> HIDE DEF n, all, ai
    <2>6. Blocks(domain, 0 .. ai - 1) = all <=> ai = n
      BY <1>2, <1>3, <2>4, <2>5
    <2> QED
      BY <2>1, <2>2, <2>3, <2>6 DEF all
  <1>5. CASE strategy = "orbiting-bit" /\ OrbitInv
    <2> DEFINE D == Reached(Orbit, permutation_counter, n)
    <2>1. Search!exhausted <=> permutation_counter = PermutationSize
      BY <1>5 DEF Search!exhausted, Search!OrbitingBit!exhausted, PermutationSize
    <2>2. /\ permutation_counter \in 0 .. PermutationSize
          /\ emitted_count = Cardinality(D)
          /\ emitted_count = n => permutation_counter = PermutationSize
          /\ CoveredBy(issued) = Blocks(domain, D)
      BY <1>5 DEF OrbitInv
    <2>3. /\ D \subseteq 0 .. n - 1
          /\ Reached(Orbit, PermutationSize, n) = 0 .. n - 1
      <3> HIDE DEF n
      <3>1. /\ PermutationSize \in Nat
            /\ \A c \in 0 .. PermutationSize - 1 : Orbit[c] \in Nat
            /\ \A c, e \in 0 .. PermutationSize - 1 : Orbit[c] = Orbit[e] => c = e
            /\ \A p \in 0 .. n - 1 : \E c \in 0 .. PermutationSize - 1 : Orbit[c] = p
        BY <1>1, OrbitOrder DEF n
      <3> QED
        BY <1>1, <2>2, <3>1, ReachedFacts
    <2>4. Cardinality(0 .. n - 1) = n
      BY <1>1, CountFacts DEF Indexes
    <2> HIDE DEF n, all, D
    <2>5. CoveredBy(issued) = all => permutation_counter = PermutationSize
      BY <1>3, <2>2, <2>3, <2>4
    <2>6. permutation_counter = PermutationSize => CoveredBy(issued) = all
      BY <1>2, <2>2, <2>3 DEF D
    <2> QED
      BY <2>1, <2>5, <2>6 DEF all
  <1>6. CASE strategy = "fibonacci-bounce" /\ BounceInv
    <2> DEFINE ai == assignment_index
               D == Reached(Bounce, ai, n)
    <2>1. Search!exhausted <=> ai = n
      BY <1>6, SameRanges DEF Search!exhausted, Search!Fibonacci!exhausted, Count
    <2>2. ai \in 0 .. n /\ CoveredBy(issued) = Blocks(domain, D)
      BY <1>6 DEF BounceInv
    <2>3. /\ D \subseteq 0 .. n - 1
          /\ Reached(Bounce, n, n) = 0 .. n - 1
          /\ D = 0 .. n - 1 <=> \A c \in ai .. n - 1 : ~ (Bounce[c] < n)
          /\ \A c \in 0 .. n - 1 : Bounce[c] < n
      <3> HIDE DEF n
      <3>1. /\ \A c \in 0 .. n - 1 : Bounce[c] \in Nat
            /\ \A c \in 0 .. n - 1 : Bounce[c] < n
            /\ \A c, e \in 0 .. n - 1 : Bounce[c] = Bounce[e] => c = e
            /\ \A p \in 0 .. n - 1 : \E c \in 0 .. n - 1 : Bounce[c] = p
        BY <1>1, BounceOrder DEF n
      <3>2. n \in Nat
        BY <1>1
      <3> QED
        BY <2>2, <3>1, <3>2, ReachedFacts
    <2> HIDE DEF D, n, all, ai
    <2>4. CoveredBy(issued) = all => ai = n
      <3> SUFFICES ASSUME CoveredBy(issued) = all, ai # n PROVE FALSE
        OBVIOUS
      <3>1. ai \in ai .. n - 1 /\ ai \in 0 .. n - 1
        BY <1>1, <2>2
      <3>2. D = 0 .. n - 1
        BY <1>3, <2>2, <2>3
      <3> QED
        BY <2>3, <3>1, <3>2
    <2>5. ai = n => CoveredBy(issued) = all
      BY <1>2, <2>2, <2>3 DEF D
    <2> QED
      BY <2>1, <2>4, <2>5 DEF all
  <1> QED
    BY <1>4, <1>5, <1>6 DEF CursorInv

-------------------------------------------------------------------------------
(* One request to a cursor. *)

\* An assignment was handed out: a range none of whose nonces was before.
Issues ==
    /\ ~ Search!exhausted
    /\ \E p \in Indexes, item \in Assignments :
          /\ item.start = domain.start + p * domain.chunk
          /\ item.stop = Smaller(item.start + domain.chunk, domain.limit)
          /\ issued' = Append(issued, item)
          /\ Block(domain, p) \cap CoveredBy(issued) = {}
          /\ CoveredBy(issued)' = CoveredBy(issued) \cup Block(domain, p)

\* The record a cursor builds for physical range p.
LEMMA ItemFacts ==
    ASSUME domain \in Domains, NEW p \in Indexes, NEW i \in Nat,
           NEW start, start = domain.start + p * domain.chunk
    PROVE  LET stop == Smaller(start + domain.chunk, domain.limit)
               item == [index |-> i, start |-> start, stop |-> stop]
           IN  /\ item \in Assignments /\ start < stop
               /\ NoncesOf(item) = Block(domain, p)
  <1> DEFINE stop == Smaller(start + domain.chunk, domain.limit)
             item == [index |-> i, start |-> start, stop |-> stop]
  <1>1. start \in Nat /\ stop \in Nat /\ start < stop /\ stop <= domain.limit
    BY BlockBounds DEF Indexes, Count
  <1>2. domain.limit \in Nat /\ domain.limit <= NonceLimit /\ NonceLimit \in Nat
    BY DomainFacts, NonceLimitAssumption
  <1>3. Block(domain, p) = start .. stop - 1
    BY DEF Block
  <1> HIDE DEF stop
  <1>4. item \in Assignments
    BY <1>1, <1>2 DEF Assignments
  <1>5. NoncesOf(item) = start .. stop - 1
    BY DEF NoncesOf
  <1> QED
    BY <1>1, <1>3, <1>4, <1>5 DEF stop

\* The effect of handing out range p when D was handed out before.
LEMMA IssueEffect ==
    ASSUME CursorInv, ~ Search!exhausted,
           NEW D \in SUBSET Indexes, CoveredBy(issued) = Blocks(domain, D),
           NEW p \in Indexes, p \notin D, NEW i \in Nat,
           issued' = Append(issued,
               [index |-> i, start |-> domain.start + p * domain.chunk,
                stop |-> Smaller(domain.start + p * domain.chunk + domain.chunk,
                                 domain.limit)])
    PROVE  /\ Issues /\ issued' \in Seq(Assignments)
           /\ CoveredBy(issued)' = Blocks(domain, D \cup {p})
  <1> DEFINE item == [index |-> i, start |-> domain.start + p * domain.chunk,
                      stop |-> Smaller(domain.start + p * domain.chunk + domain.chunk,
                                       domain.limit)]
  <1>1. domain \in Domains /\ issued \in Seq(Assignments)
    BY DEF CursorInv
  <1>2. item \in Assignments /\ NoncesOf(item) = Block(domain, p)
    BY <1>1, ItemFacts
  <1>3. /\ item.start = domain.start + p * domain.chunk
        /\ item.stop = Smaller(item.start + domain.chunk, domain.limit)
    OBVIOUS
  <1>4. issued' = Append(issued, item)
    OBVIOUS
  <1> HIDE DEF item
  <1>5. CoveredBy(issued)' = CoveredBy(issued) \cup NoncesOf(item)
    BY <1>1, <1>4, AppendCovers
  <1>6. /\ Block(domain, p) \cap Blocks(domain, D) = {}
        /\ Blocks(domain, D \cup {p}) = Blocks(domain, D) \cup Block(domain, p)
    BY <1>1, NewBlock DEF Indexes, Count
  <1>7. issued' \in Seq(Assignments)
    BY <1>1, <1>2, <1>4
  <1>8. Issues
    BY <1>2, <1>3, <1>4, <1>5, <1>6 DEF Issues
  <1> QED
    BY <1>2, <1>5, <1>6, <1>7, <1>8

\* The answer of an exhausted cursor: None, and nothing changes.
Refuses ==
    Search!exhausted /\ UNCHANGED <<search_vars>>

\* The order of a cursor depends on its domain alone.
LEMMA SameOrder ==
    ASSUME domain' = domain
    PROVE  /\ PermutationSize' = PermutationSize /\ Orbit' = Orbit
           /\ Bounce' = Bounce /\ Count' = Count
  <1>1. Count' = Count
    BY DEF Count
  <1>2. PermutationSize' = PermutationSize
    BY DEF PermutationSize, Search!OrbitingBit!permutation_size,
       Search!OrbitingBit!range_count
  <1>3. Orbit' = Orbit
    BY <1>2 DEF Orbit, Search!OrbitingBit!PhysicalIndex, Search!OrbitingBit!bit_width,
       Search!OrbitingBit!permutation_size, Search!OrbitingBit!range_count
  <1>4. Bounce' = Bounce
    BY DEF Bounce, Search!Fibonacci!PhysicalIndex, Search!Fibonacci!fibonacci_stride,
       Search!Fibonacci!range_count
  <1> QED
    BY <1>1, <1>2, <1>3, <1>4

\* One request to a sequential cursor.
LEMMA SequentialIssues ==
    ASSUME CursorInv, Search!SequentialStep
    PROVE  /\ CursorInv' /\ domain' = domain /\ strategy' = strategy
           /\ Issues \/ Refuses
  <1> DEFINE ai == assignment_index
             start == domain.start + ai * domain.chunk
             stop == Smaller(start + domain.chunk, domain.limit)
             item == [index |-> ai, start |-> start, stop |-> stop]
  <1>1. /\ strategy = "sequential" /\ strategy' = strategy
        /\ permutation_counter' = permutation_counter
        /\ emitted_count' = emitted_count /\ raised' = raised
        /\ Search!Sequential!Next
    BY DEF Search!SequentialStep
  <1>2. SequentialInv /\ domain \in Domains /\ raised = FALSE /\ issued \in Seq(Assignments)
    BY <1>1 DEF CursorInv
  <1>3. /\ ai \in 0 .. Count
        /\ next_nonce = Smaller(start, domain.limit)
        /\ CoveredBy(issued) = Blocks(domain, 0 .. ai - 1)
    BY <1>2 DEF SequentialInv
  <1>4. Search!exhausted <=> next_nonce = domain.limit
    BY <1>1 DEF Search!exhausted, Search!Sequential!exhausted
  <1>5. Count \in Nat \ {0}
    BY <1>2, CountFacts
  <1>6. CASE Search!Sequential!NextAssignmentNone
    <2>1. Search!exhausted /\ UNCHANGED search_vars
      BY <1>1, <1>4, <1>6 DEF Search!Sequential!NextAssignmentNone,
         Search!Sequential!exhausted, Search!Sequential!vars, search_vars
    <2>2. CursorInv'
      <3>1. UNCHANGED <<domain, issued, raised, strategy, assignment_index, next_nonce>>
        BY <2>1 DEF search_vars
      <3>2. SequentialInv'
        BY <1>2, <3>1, SameOrder DEF SequentialInv
      <3> QED
        BY <1>1, <1>2, <3>1, <3>2 DEF CursorInv
    <2> QED
      BY <1>1, <2>1, <2>2 DEF Refuses, search_vars
  <1>7. CASE Search!Sequential!NextAssignment
    <2>1. /\ next_nonce # domain.limit
          /\ issued' = Append(issued, [index |-> ai, start |-> next_nonce,
                 stop |-> Smaller(next_nonce + domain.chunk, domain.limit)])
          /\ next_nonce' = Smaller(next_nonce + domain.chunk, domain.limit)
          /\ assignment_index' = ai + 1 /\ domain' = domain
      BY <1>7 DEF Search!Sequential!NextAssignment, Search!Sequential!exhausted,
         Search!Sequential!NextStop, Search!Sequential!Smaller, Smaller
    <2>2. next_nonce = start
      BY <1>3, <2>1 DEF Smaller
    <2>3. ai \in Indexes
      <3> SUFFICES ASSUME ai = Count PROVE FALSE
        BY <1>3, <1>5 DEF Indexes
      <3>1. /\ domain.limit <= domain.start + Count * domain.chunk
            /\ domain.limit \in Nat /\ domain.start \in Nat /\ domain.chunk \in Nat
        BY <1>2, RangeCountFacts, DomainFacts DEF Count
      <3>2. domain.start + Count * domain.chunk \in Nat
        BY <1>5, <3>1
      <3> QED
        BY <1>3, <2>1, <3>1, <3>2 DEF Smaller
    <2>4. /\ 0 .. ai - 1 \in SUBSET Indexes /\ ai \notin 0 .. ai - 1 /\ ai \in Nat
          /\ (0 .. ai - 1) \cup {ai} = 0 .. (ai + 1) - 1 /\ ai + 1 \in 0 .. Count
      BY <1>5, <2>3 DEF Indexes
    <2>5. ~ Search!exhausted
      BY <1>4, <2>1
    <2>6. /\ Issues /\ issued' \in Seq(Assignments)
          /\ CoveredBy(issued)' = Blocks(domain, (0 .. ai - 1) \cup {ai})
      <3> DEFINE D == 0 .. ai - 1
      <3>1. CoveredBy(issued) = Blocks(domain, D) /\ D \in SUBSET Indexes /\ ai \notin D
        BY <1>3, <2>4
      <3>2. issued' = Append(issued, item)
        BY <2>1, <2>2
      <3> HIDE DEF D
      <3> QED
        BY <2>3, <2>4, <2>5, <3>1, <3>2, IssueEffect DEF D
    <2>7. CoveredBy(issued)' = Blocks(domain, 0 .. assignment_index' - 1)
      BY <2>1, <2>4, <2>6
    <2>8. next_nonce' = Smaller(domain.start + (ai + 1) * domain.chunk, domain.limit)
      <3>1. /\ domain.start \in Nat /\ domain.chunk \in Nat
        BY <1>2, DomainFacts
      <3>2. start + domain.chunk = domain.start + (ai + 1) * domain.chunk
        BY <2>4, <3>1
      <3> QED
        BY <2>1, <2>2, <3>2
    <2>9. SequentialInv'
      <3>1. Blocks(domain, 0 .. assignment_index' - 1) = Blocks(domain', 0 .. assignment_index' - 1)
        BY <2>1
      <3> QED
        BY <2>1, <2>4, <2>7, <2>8, <3>1, SameOrder DEF SequentialInv
    <2>10. CursorInv'
      BY <1>1, <1>2, <2>1, <2>6, <2>9 DEF CursorInv
    <2> QED
      BY <1>1, <2>1, <2>6, <2>10
  <1> QED
    BY <1>1, <1>6, <1>7 DEF Search!Sequential!Next

\* One request to a Fibonacci cursor.
LEMMA FibonacciIssues ==
    ASSUME CursorInv, Search!FibonacciStep
    PROVE  /\ CursorInv' /\ domain' = domain /\ strategy' = strategy
           /\ Issues \/ Refuses
  <1> DEFINE ai == assignment_index
             p == Bounce[ai]
             start == domain.start + p * domain.chunk
             stop == Smaller(start + domain.chunk, domain.limit)
             item == [index |-> ai, start |-> start, stop |-> stop]
             D == Reached(Bounce, ai, Count)
  <1>1. /\ strategy = "fibonacci-bounce" /\ strategy' = strategy
        /\ permutation_counter' = permutation_counter /\ next_nonce' = next_nonce
        /\ Search!Fibonacci!Next
    BY DEF Search!FibonacciStep
  <1>2. BounceInv /\ domain \in Domains /\ raised = FALSE /\ issued \in Seq(Assignments)
    BY <1>1 DEF CursorInv
  <1>3. /\ ai \in 0 .. Count /\ emitted_count = ai
        /\ CoveredBy(issued) = Blocks(domain, D)
    BY <1>2 DEF BounceInv
  <1>4. Search!exhausted <=> ai = Count
    BY <1>1, SameRanges DEF Search!exhausted, Search!Fibonacci!exhausted, Count
  <1>5. Count \in Nat \ {0}
    BY <1>2, CountFacts
  <1>6. CASE Search!Fibonacci!NextAssignmentNone
    <2>1. Search!exhausted
      BY <1>1, <1>6 DEF Search!Fibonacci!NextAssignmentNone, Search!exhausted
    <2>2. /\ UNCHANGED <<domain, emitted_count, assignment_index, issued>>
          /\ raised' = (emitted_count # Count)
      BY <1>6, SameRanges DEF Search!Fibonacci!NextAssignmentNone, Count
    <2>3. raised' = raised
      BY <1>2, <1>3, <1>4, <2>1, <2>2
    <2>4. UNCHANGED search_vars
      BY <1>1, <2>2, <2>3 DEF search_vars
    <2>5. BounceInv'
      BY <1>2, <2>2, SameOrder DEF BounceInv
    <2>6. CursorInv'
      BY <1>1, <1>2, <2>2, <2>3, <2>5 DEF CursorInv
    <2> QED
      BY <1>1, <2>1, <2>2, <2>4, <2>6 DEF Refuses
  <1>7. CASE Search!Fibonacci!NextAssignment
    <2>1. ~ Search!exhausted /\ domain' = domain
      BY <1>1, <1>7 DEF Search!Fibonacci!NextAssignment, Search!exhausted
    <2>2. ai \in Indexes /\ ai \in 0 .. Count - 1
      BY <1>3, <1>4, <1>5, <2>1 DEF Indexes
    <2>3. /\ \A c \in 0 .. Count - 1 : Bounce[c] \in Nat /\ Bounce[c] < Count
          /\ \A c, e \in 0 .. Count - 1 : Bounce[c] = Bounce[e] => c = e
          /\ \A q \in 0 .. Count - 1 : \E c \in 0 .. Count - 1 : Bounce[c] = q
      BY <1>2, BounceOrder
    <2>4. p \in Indexes /\ p < Count
      BY <1>5, <2>2, <2>3 DEF Indexes
    <2>5. Search!Fibonacci!PhysicalIndex(ai) = p
      BY <2>2 DEF Bounce, Count
    <2>6. start < stop
      BY <1>2, <1>3, <2>4, ItemFacts
    <2>7. /\ assignment_index' = ai + 1 /\ emitted_count' = ai + 1
          /\ raised' = FALSE /\ issued' = Append(issued, item)
      <3>1. LET it == Search!Fibonacci!Assignment(domain, ai, start)
                bad == ~ (it.start < it.stop)
            IN  /\ assignment_index' = ai + (IF bad THEN 0 ELSE 1)
                /\ emitted_count' = emitted_count + (IF bad THEN 0 ELSE 1)
                /\ raised' = (bad \/ emitted_count' > Count)
                /\ issued' = IF raised' THEN issued ELSE Append(issued, it)
        BY <1>7, <2>5, SameRanges DEF Search!Fibonacci!NextAssignment, Count
      <3>2. Search!Fibonacci!Assignment(domain, ai, start) = item
        BY DEF Search!Fibonacci!Assignment, Search!Fibonacci!Smaller, Smaller
      <3>3. item.start < item.stop
        BY <2>6
      <3> HIDE DEF item
      <3>4. /\ assignment_index' = ai + 1 /\ emitted_count' = emitted_count + 1
            /\ raised' = (emitted_count' > Count)
            /\ issued' = IF raised' THEN issued ELSE Append(issued, item)
        BY <3>1, <3>2, <3>3
      <3>5. ~ (ai + 1 > Count)
        BY <1>5, <2>2
      <3>7. emitted_count' = ai + 1 /\ raised' = (ai + 1 > Count)
        BY <1>3, <3>4
      <3>6. raised' = FALSE
        <4> DEFINE over == ai + 1 > Count
        <4>1. raised' = over /\ ~ over
          BY <3>5, <3>7
        <4> HIDE DEF over
        <4> QED
          BY <4>1
      <3> QED
        BY <1>3, <3>4, <3>6
    <2>8. /\ D \in SUBSET Indexes /\ p \notin D
      <3>1. \A c \in 0 .. Count - 1 : Bounce[c] \in Nat
        BY <2>3
      <3>2. D \subseteq 0 .. Count - 1 /\ \A c \in ai .. Count - 1 : Bounce[c] \notin D
        BY <1>3, <1>5, <2>3, <3>1, ReachedFacts
      <3>3. ai \in ai .. Count - 1
        BY <1>5, <2>2
      <3> QED
        BY <3>2, <3>3 DEF Indexes
    <2>9. D \cup {p} = Reached(Bounce, ai + 1, Count)
      <3>1. ai \in Nat /\ \A e \in ai .. ai - 1 : ~ (Bounce[e] < Count)
        BY <2>2
      <3>2. ai <= ai
        BY <3>1
      <3> QED
        BY <1>5, <2>4, <3>1, <3>2, ReachedNext
    <2>10. /\ Issues /\ issued' \in Seq(Assignments)
           /\ CoveredBy(issued)' = Blocks(domain, D \cup {p})
      <3>1. ai \in Nat
        BY <1>3
      <3> HIDE DEF D, p, ai
      <3> QED
        BY <1>3, <2>1, <2>4, <2>7, <2>8, <3>1, IssueEffect
    <2>11. BounceInv'
      <3>1. ai + 1 \in 0 .. Count
        BY <1>5, <2>2
      <3>2. Count' = Count /\ Bounce' = Bounce
        BY <2>1, SameOrder
      <3>3. CoveredBy(issued)' = Blocks(domain', Reached(Bounce', assignment_index', Count'))
        BY <2>1, <2>7, <2>9, <2>10, <3>2
      <3> QED
        BY <2>7, <3>1, <3>2, <3>3 DEF BounceInv
    <2>12. CursorInv'
      BY <1>1, <1>2, <2>1, <2>7, <2>10, <2>11 DEF CursorInv
    <2> QED
      BY <1>1, <2>1, <2>10, <2>12
  <1> QED
    BY <1>1, <1>6, <1>7 DEF Search!Fibonacci!Next


\* One request to an orbiting-bit cursor.
LEMMA OrbitingBitIssues ==
    ASSUME CursorInv, Search!OrbitingBitStep
    PROVE  /\ CursorInv' /\ domain' = domain /\ strategy' = strategy
           /\ Issues \/ Refuses
  <1> DEFINE counter == permutation_counter
             size == PermutationSize
             n == Count
             D == Reached(Orbit, counter, n)
             valid(m) == {c \in m .. size - 1 : Orbit[c] < n}
  <1>1. /\ strategy = "orbiting-bit" /\ strategy' = strategy /\ next_nonce' = next_nonce
        /\ Search!OrbitingBit!Next
    BY DEF Search!OrbitingBitStep
  <1>2. OrbitInv /\ domain \in Domains /\ raised = FALSE /\ issued \in Seq(Assignments)
    BY <1>1 DEF CursorInv
  <1>3. /\ counter \in 0 .. size
        /\ emitted_count \in Nat /\ assignment_index \in Nat
        /\ emitted_count = Cardinality(D)
        /\ emitted_count = n => counter = size
        /\ CoveredBy(issued) = Blocks(domain, D)
    BY <1>2 DEF OrbitInv
  <1>4. Search!exhausted <=> counter = size
    BY <1>1 DEF Search!exhausted, Search!OrbitingBit!exhausted, PermutationSize
  <1>5. /\ n \in Nat \ {0} /\ size \in Nat /\ n <= size
        /\ IsFiniteSet(0 .. n - 1) /\ Cardinality(0 .. n - 1) = n
    BY <1>2, CountFacts, OrbitOrder DEF Indexes
  <1>6. /\ \A c \in 0 .. size - 1 : Orbit[c] \in Nat
        /\ \A c, e \in 0 .. size - 1 : Orbit[c] = Orbit[e] => c = e
        /\ \A p \in 0 .. n - 1 : \E c \in 0 .. size - 1 : Orbit[c] = p
    BY <1>2, OrbitOrder
  <1>7. \A m \in 0 .. size :
           Search!OrbitingBit!ValidFrom(m) = valid(m)
    <2> SUFFICES ASSUME NEW m \in 0 .. size
                 PROVE  Search!OrbitingBit!ValidFrom(m) = valid(m)
      OBVIOUS
    <2>1. \A c \in m .. size - 1 : Search!OrbitingBit!PhysicalIndex(c) = Orbit[c]
      BY <1>5 DEF Orbit
    <2>2. Search!OrbitingBit!ValidFrom(m)
            = {c \in m .. size - 1 : Search!OrbitingBit!PhysicalIndex(c) < n}
      BY SameRanges DEF Search!OrbitingBit!ValidFrom, PermutationSize, Count
    <2> QED
      BY <2>1, <2>2
  <1>8. \A m \in 0 .. size :
           /\ Reached(Orbit, m, n) \subseteq 0 .. n - 1
           /\ Reached(Orbit, size, n) = 0 .. n - 1
           /\ \A c \in m .. size - 1 : Orbit[c] \notin Reached(Orbit, m, n)
           /\ Reached(Orbit, m, n) = 0 .. n - 1 <=> valid(m) = {}
    <2> SUFFICES ASSUME NEW m \in 0 .. size
                 PROVE  /\ Reached(Orbit, m, n) \subseteq 0 .. n - 1
                        /\ Reached(Orbit, size, n) = 0 .. n - 1
                        /\ \A c \in m .. size - 1 : Orbit[c] \notin Reached(Orbit, m, n)
                        /\ Reached(Orbit, m, n) = 0 .. n - 1 <=> valid(m) = {}
      OBVIOUS
    <2>1. valid(m) = {} <=> \A c \in m .. size - 1 : ~ (Orbit[c] < n)
      OBVIOUS
    <2>2. n \in Nat
      BY <1>5
    <2> HIDE DEF n, size, valid
    <2>3. /\ Reached(Orbit, m, n) \subseteq 0 .. n - 1
          /\ Reached(Orbit, size, n) = 0 .. n - 1
          /\ \A c \in m .. size - 1 : Orbit[c] \notin Reached(Orbit, m, n)
          /\ Reached(Orbit, m, n) = 0 .. n - 1
               <=> \A c \in m .. size - 1 : ~ (Orbit[c] < n)
      BY <1>5, <1>6, <2>2, ReachedFacts
    <2> QED
      BY <2>1, <2>3
  <1>9. CASE Search!OrbitingBit!NextAssignmentNone
    <2>1. Search!exhausted
      BY <1>1, <1>9 DEF Search!OrbitingBit!NextAssignmentNone, Search!exhausted
    <2>2. /\ UNCHANGED <<domain, permutation_counter, emitted_count, assignment_index,
                         issued>>
          /\ raised' = (emitted_count # n)
      BY <1>9, SameRanges DEF Search!OrbitingBit!NextAssignmentNone, Count
    <2>3. emitted_count = n
      <3>1. size \in 0 .. size
        BY <1>5
      <3> QED
        BY <1>3, <1>4, <1>5, <1>8, <2>1, <3>1
    <2>4. raised' = raised
      BY <1>2, <2>2, <2>3
    <2>5. UNCHANGED search_vars
      BY <1>1, <2>2, <2>4 DEF search_vars
    <2>6. OrbitInv'
      BY <1>2, <2>2, SameOrder DEF OrbitInv
    <2>7. CursorInv'
      BY <1>1, <1>2, <2>2, <2>4, <2>6 DEF CursorInv
    <2> QED
      BY <1>1, <2>1, <2>2, <2>5, <2>7 DEF Refuses
  <1>10. CASE Search!OrbitingBit!NextAssignment
    <2>1. ~ Search!exhausted /\ domain' = domain
      BY <1>1, <1>10 DEF Search!OrbitingBit!NextAssignment, Search!exhausted
    <2>2. valid(counter) # {}
      <3> SUFFICES ASSUME valid(counter) = {} PROVE FALSE
        OBVIOUS
      <3>1. D = 0 .. n - 1
        BY <1>3, <1>8
      <3> QED
        BY <1>3, <1>4, <1>5, <2>1, <3>1
    <2> DEFINE c == Search!OrbitingBit!Min(valid(counter))
               p == Orbit[c]
               start == domain.start + p * domain.chunk
               stop == Smaller(start + domain.chunk, domain.limit)
               item == [index |-> assignment_index, start |-> start, stop |-> stop]
    <2>3. c \in valid(counter) /\ \A e \in valid(counter) : c <= e
      <3>1. valid(counter) \subseteq Nat
        BY <1>3, <1>5
      <3> HIDE DEF valid
      <3>2. \E e \in valid(counter) : \A f \in valid(counter) : e <= f
        BY <2>2, <3>1, LeastNatural
      <3> QED
        BY <3>2 DEF Search!OrbitingBit!Min
    <2>4. Search!OrbitingBit!Emit(c)
      <3>1. Search!OrbitingBit!ValidFrom(counter) = valid(counter)
        BY <1>3, <1>7
      <3> HIDE DEF valid
      <3> QED
        BY <1>10, <2>2, <3>1 DEF Search!OrbitingBit!NextAssignment
    <2> HIDE DEF c
    <2>5. /\ c \in 0 .. size - 1 /\ c \in counter .. size - 1 /\ c \in Nat
          /\ counter \in Nat /\ counter <= c /\ p < n
      BY <1>3, <1>5, <2>3
    <2>6. \A e \in counter .. c - 1 : ~ (p < n /\ Orbit[e] < n)
      <3> SUFFICES ASSUME NEW e \in counter .. c - 1, Orbit[e] < n PROVE FALSE
        OBVIOUS
      <3>1. e \in valid(counter)
        BY <1>5, <2>5
      <3> QED
        BY <2>3, <2>5, <3>1
    <2>7. p \in Indexes /\ p \in Nat
      BY <1>5, <1>6, <2>5 DEF Indexes
    <2>8. D \in SUBSET Indexes /\ p \notin D /\ IsFiniteSet(D) /\ D \subseteq 0 .. n - 1
      <3>1. D \subseteq 0 .. n - 1 /\ p \notin D
        BY <1>3, <1>8, <2>5
      <3>2. IsFiniteSet(D)
        BY <1>5, <3>1, FS_Subset
      <3> QED
        BY <3>1, <3>2 DEF Indexes
    <2>9. Reached(Orbit, c + 1, n) = D \cup {p}
      <3>1. n \in Nat /\ \A e \in counter .. c - 1 : ~ (Orbit[e] < n)
        BY <1>5, <2>5, <2>6
      <3> HIDE DEF n, counter
      <3> QED
        BY <2>5, <3>1, ReachedNext
    <2>10. Cardinality(D \cup {p}) = emitted_count + 1
      <3> HIDE DEF D, p
      <3> QED
        BY <1>3, <2>8, FS_AddElement
    <2>11. c + 1 \in 0 .. size
      BY <1>5, <2>5
    <2>12. D \cup {p} \subseteq 0 .. n - 1 /\ emitted_count + 1 <= n
      <3>1. D \cup {p} \subseteq 0 .. n - 1
        BY <2>7, <2>8 DEF Indexes
      <3> DEFINE E == D \cup {p}
      <3>2. Cardinality(E) <= Cardinality(0 .. n - 1)
        <4>1. E \in SUBSET (0 .. n - 1)
          BY <3>1
        <4> HIDE DEF E
        <4> QED
          BY <1>5, <4>1, FS_Subset
      <3> QED
        BY <1>5, <2>10, <3>1, <3>2
    <2>13. emitted_count + 1 = n => D \cup {p} = 0 .. n - 1 /\ valid(c + 1) = {}
      <3> SUFFICES ASSUME emitted_count + 1 = n
                   PROVE  D \cup {p} = 0 .. n - 1 /\ valid(c + 1) = {}
        OBVIOUS
      <3> DEFINE E == D \cup {p}
      <3>1. E \in SUBSET (0 .. n - 1) /\ Cardinality(E) = Cardinality(0 .. n - 1)
        BY <1>5, <2>10, <2>12
      <3>2. E = 0 .. n - 1
        <4> HIDE DEF E, n
        <4> QED
          BY <1>5, <3>1, FS_Subset
      <3>3. Reached(Orbit, c + 1, n) = 0 .. n - 1
        BY <2>9, <3>2
      <3> HIDE DEF valid, E
      <3> QED
        BY <1>8, <2>11, <3>2, <3>3 DEF E
    <2>14. start < stop
      BY <1>2, <1>3, <2>7, ItemFacts
    <2>15. /\ permutation_counter' = IF emitted_count + 1 = n THEN size ELSE c + 1
           /\ emitted_count' = emitted_count + 1
           /\ assignment_index' = assignment_index + 1
           /\ raised' = FALSE /\ issued' = Append(issued, item)
      <3>1. Search!OrbitingBit!PhysicalIndex(c) = p
        BY <2>5 DEF Orbit
      <3>2. Search!OrbitingBit!Assignment(domain, assignment_index, start) = item
        BY DEF Search!OrbitingBit!Assignment, Search!OrbitingBit!Smaller, Smaller
      <3>3. Search!OrbitingBit!ValidFrom(c + 1) = valid(c + 1)
        BY <1>7, <2>11
      <3>4. LET it == Search!OrbitingBit!Assignment(domain, assignment_index, start)
                last == emitted_count + 1 = n
            IN  /\ permutation_counter' = IF last THEN size ELSE c + 1
                /\ emitted_count' = emitted_count + 1
                /\ assignment_index' = assignment_index + 1
                /\ raised' = (\/ it.start >= it.stop
                              \/ emitted_count' > n
                              \/ last /\ Search!OrbitingBit!ValidFrom(c + 1) # {})
                /\ issued' = IF raised' THEN issued ELSE Append(issued, it)
        BY <2>4, <3>1, SameRanges DEF Search!OrbitingBit!Emit,
           Search!OrbitingBit!CounterAfter, PermutationSize, Count
      <3>5. ~ (item.start >= item.stop)
        <4>1. item.start = start /\ item.stop = stop
          OBVIOUS
        <4>2. start \in Int /\ stop \in Int
          BY <1>2, <2>7, DomainFacts DEF Smaller
        <4> HIDE DEF item, start, stop
        <4> QED
          BY <2>14, <4>1, <4>2
      <3>6. ~ (emitted_count + 1 > n)
        BY <1>3, <1>5, <2>12
      <3>7. ~ (emitted_count + 1 = n /\ valid(c + 1) # {})
        BY <2>13
      <3> HIDE DEF item, valid, n, size
      <3>8. raised' = (\/ item.start >= item.stop
                       \/ emitted_count + 1 > n
                       \/ emitted_count + 1 = n /\ valid(c + 1) # {})
        BY <3>2, <3>3, <3>4
      <3>9. raised' = FALSE
        BY <3>5, <3>6, <3>7, <3>8, Zenon
      <3>10. issued' = Append(issued, item)
        BY <3>2, <3>4, <3>9
      <3> QED
        BY <3>4, <3>9, <3>10
    <2>16. /\ Issues /\ issued' \in Seq(Assignments)
           /\ CoveredBy(issued)' = Blocks(domain, D \cup {p})
      <3>1. assignment_index \in Nat /\ issued' = Append(issued, item)
        BY <1>3, <2>15
      <3> HIDE DEF D, p, n
      <3> QED
        BY <1>3, <2>1, <2>7, <2>8, <3>1, IssueEffect
    <2>17. /\ permutation_counter' \in 0 .. size
           /\ Reached(Orbit, permutation_counter', n) = D \cup {p}
      <3>1. CASE emitted_count + 1 = n
        <4>1. permutation_counter' = size /\ size \in 0 .. size
          BY <1>5, <2>15, <3>1
        <4>2. Reached(Orbit, size, n) = 0 .. n - 1
          BY <1>8, <4>1
        <4> HIDE DEF size, n, D, p
        <4> QED
          BY <2>13, <3>1, <4>1, <4>2
      <3>2. CASE emitted_count + 1 # n
        <4>1. permutation_counter' = c + 1
          BY <2>15, <3>2
        <4> HIDE DEF size, n, D, p
        <4> QED
          BY <2>9, <2>11, <4>1
      <3> QED
        BY <3>1, <3>2
    <2>18. OrbitInv'
      <3>1. Count' = n /\ Orbit' = Orbit /\ PermutationSize' = size
        BY <2>1, SameOrder
      <3>2. /\ emitted_count' \in Nat /\ assignment_index' \in Nat
            /\ emitted_count' = n => permutation_counter' = size
        BY <1>3, <2>15
      <3> DEFINE E == D \cup {p}
      <3> HIDE DEF E, n, size, counter
      <3>3. /\ Reached(Orbit', permutation_counter', Count') = E
            /\ emitted_count' = Cardinality(E)
            /\ CoveredBy(issued)' = Blocks(domain', E)
        BY <2>1, <2>10, <2>15, <2>16, <2>17, <3>1 DEF E
      <3>4. /\ permutation_counter' \in 0 .. PermutationSize'
            /\ emitted_count' = Count' => permutation_counter' = PermutationSize'
        BY <2>17, <3>1, <3>2
      <3> QED
        BY <3>2, <3>3, <3>4 DEF OrbitInv
    <2>19. CursorInv'
      BY <1>1, <1>2, <2>1, <2>15, <2>16, <2>18 DEF CursorInv
    <2> QED
      BY <1>1, <2>1, <2>16, <2>19
  <1> QED
    BY <1>1, <1>9, <1>10 DEF Search!OrbitingBit!Next

\* Whatever the strategy, a request hands out a new range of the domain, or
\* the cursor is exhausted and it changes nothing.
LEMMA SearchIssues ==
    ASSUME CursorInv, Search!Next
    PROVE  /\ CursorInv' /\ domain' = domain /\ strategy' = strategy
           /\ Issues \/ Refuses
  BY SequentialIssues, OrbitingBitIssues, FibonacciIssues DEF Search!Next

-------------------------------------------------------------------------------
(* The cover of the domain, request by request. *)

\* The strategies' and the cover's own names for what is covered.
LEMMA SameCover ==
    /\ \A q : Search!CoveredBy(q) = CoveredBy(q)
    /\ \A lo, hi : Search!Cover!Nonces(lo, hi) = lo .. hi - 1
  BY DEF CoveredBy, NoncesOf, Search!CoveredBy, Search!NoncesOf, Search!Cover!Nonces

\* Exhaustion as an implication, for the next state.
LEMMA ExhaustedIffAll ==
    CursorInv => /\ Search!exhausted \in BOOLEAN
                 /\ Search!exhausted <=> CoveredBy(issued) = domain.start .. domain.limit - 1
  BY ExhaustedCovered

\* The same of the next state.
LEMMA ExhaustedIffAllNext ==
    ASSUME CursorInv'
    PROVE  /\ Search!exhausted' \in BOOLEAN
           /\ Search!exhausted' <=>
                CoveredBy(issued)' = domain'.start .. domain'.limit - 1
  <1>1. (CursorInv => /\ Search!exhausted \in BOOLEAN
                      /\ Search!exhausted <=>
                           CoveredBy(issued) = domain.start .. domain.limit - 1)'
    BY ExhaustedIffAll, PTL
  <1> QED
    BY <1>1

\* A step of the abstract cover: the range is new, and the cursor says it is
\* exhausted exactly when it was the last one.
LEMMA IssueCovers ==
    ASSUME CursorInv, CursorInv', domain' = domain, Issues
    PROVE  issued' # issued /\ Search!Cover!Issue(HandedOut'.start, HandedOut'.stop)
  <1>1. PICK p \in Indexes, item \in Assignments :
           /\ item.start = domain.start + p * domain.chunk
           /\ item.stop = Smaller(item.start + domain.chunk, domain.limit)
           /\ issued' = Append(issued, item)
           /\ Block(domain, p) \cap CoveredBy(issued) = {}
           /\ CoveredBy(issued)' = CoveredBy(issued) \cup Block(domain, p)
    BY DEF Issues
  <1>2. domain \in Domains /\ issued \in Seq(Assignments) /\ ~ Search!exhausted
    BY DEF CursorInv, Issues
  <1>3. /\ Len(issued') = Len(issued) + 1 /\ Len(issued) \in Nat
        /\ issued'[Len(issued')] = item
    BY <1>1, <1>2
  <1>4. issued' # issued
    BY <1>3
  <1>5. HandedOut' = item
    BY <1>3 DEF HandedOut
  <1>6. Block(domain, p) = item.start .. item.stop - 1
    BY <1>1 DEF Block
  <1>7. item.start < item.stop /\ item.stop - item.start <= domain.chunk
    BY <1>1, <1>2, BlockBounds DEF Indexes, Count
  <1>8. Search!Cover!Nonces(item.start, item.stop) \cap CoveredBy(issued) = {}
    BY <1>1, <1>6, SameCover
  <1>9. CoveredBy(issued)' = CoveredBy(issued) \cup Search!Cover!Nonces(item.start, item.stop)
    BY <1>1, <1>6, SameCover
  <1>10. Search!exhausted'
           = (CoveredBy(issued)' = Search!Cover!Nonces(domain.start, domain.limit))
    <2>1. Search!Cover!Nonces(domain.start, domain.limit) = domain.start .. domain.limit - 1
      BY SameCover
    <2> QED
      BY <2>1, ExhaustedIffAllNext
  <1>11. Search!CoveredBy(issued) = CoveredBy(issued)
         /\ Search!CoveredBy(issued)' = CoveredBy(issued)'
    BY DEF CoveredBy, NoncesOf, Search!CoveredBy, Search!NoncesOf
  <1>12. Search!Cover!Issue(item.start, item.stop)
    BY <1>2, <1>7, <1>8, <1>9, <1>10, <1>11 DEF Search!Cover!Issue
  <1> QED
    BY <1>4, <1>5, <1>12

\* What a new cursor covers.
LEMMA NothingCovered == CoveredBy(<<>>) = {}
  BY DEF CoveredBy

\* Initially.
LEMMA SearchInitInv ==
    ASSUME Search!Init
    PROVE  CursorInv /\ issued = <<>> /\ Search!Cover!Init
  <1>1. domain \in Domains /\ issued = <<>>
    BY SameRanges DEF Search!Init, Search!Sequential!Init, Search!OrbitingBit!Init,
       Search!Fibonacci!Init
  <1>2. /\ Count \in Nat \ {0} /\ PermutationSize \in Nat
        /\ Count <= PermutationSize
    BY <1>1, CountFacts, OrbitOrder
  <1>3. /\ \A order : Reached(order, 0, Count) = {}
        /\ Blocks(domain, {}) = {} /\ 0 .. 0 - 1 = {}
    BY DEF Reached, Blocks
  <1>4. issued \in Seq(Assignments) /\ CoveredBy(issued) = {}
    BY <1>1, NothingCovered
  <1> DEFINE Fits == domain \in Domains /\ issued \in Seq(Assignments)
             none == CoveredBy(issued)
  <1>12. Fits /\ none = {}
    BY <1>1, <1>4
  <1> HIDE DEF Fits, none
  <1>5. ASSUME strategy = "sequential", Search!Sequential!Init, raised = FALSE
        PROVE  CursorInv
    <2>1. next_nonce = domain.start /\ assignment_index = 0
      BY <1>5 DEF Search!Sequential!Init
    <2>2. Smaller(domain.start + 0 * domain.chunk, domain.limit) = domain.start
      BY <1>1, DomainFacts DEF Smaller
    <2>3. SequentialInv
      BY <1>2, <1>3, <1>4, <2>1, <2>2 DEF SequentialInv
    <2> QED
      BY <1>5, <1>12, <2>3 DEF CursorInv, Fits
  <1>6. ASSUME strategy = "orbiting-bit", Search!OrbitingBit!Init PROVE CursorInv
    <2>1. /\ permutation_counter = 0 /\ emitted_count = 0 /\ assignment_index = 0
          /\ raised = FALSE
      BY <1>6 DEF Search!OrbitingBit!Init
    <2>3. Reached(Orbit, permutation_counter, Count) = {}
      BY <1>3, <2>1
    <2>4. /\ none = Blocks(domain, Reached(Orbit, permutation_counter, Count))
          /\ emitted_count = Cardinality(Reached(Orbit, permutation_counter, Count))
      BY <1>3, <1>12, <2>1, <2>3, FS_EmptySet
    <2>2. OrbitInv
      BY <1>2, <2>1, <2>4 DEF OrbitInv, none
    <2> QED
      BY <1>6, <1>12, <2>1, <2>2 DEF CursorInv, Fits
  <1>7. ASSUME strategy = "fibonacci-bounce", Search!Fibonacci!Init PROVE CursorInv
    <2>1. emitted_count = 0 /\ assignment_index = 0 /\ raised = FALSE
      BY <1>7 DEF Search!Fibonacci!Init
    <2>3. Reached(Bounce, assignment_index, Count) = {}
      BY <1>3, <2>1
    <2>4. none = Blocks(domain, Reached(Bounce, assignment_index, Count))
      BY <1>3, <1>12, <2>3
    <2>2. BounceInv
      BY <1>2, <2>1, <2>4 DEF BounceInv, none
    <2> QED
      BY <1>7, <1>12, <2>1, <2>2 DEF CursorInv, Fits
  <1>8. CursorInv
    BY <1>5, <1>6, <1>7 DEF Search!Init
  <1>9. Search!exhausted = FALSE
    <2>1. domain.start \in domain.start .. domain.limit - 1
      BY <1>1, DomainFacts
    <2> QED
      BY <1>4, <1>8, <2>1, ExhaustedCovered
  <1>10. Search!CoveredBy(issued) = {}
    BY <1>4, SameCover
  <1>11. Search!Cover!Init
    BY <1>1, <1>9, <1>10, SameRanges DEF Search!Cover!Init
  <1> QED
    BY <1>1, <1>8, <1>11

\* A cursor for the next variant, over the same domain.
LEMMA FreshInv ==
    ASSUME CursorInv, FreshCursor
    PROVE  /\ CursorInv' /\ domain' = domain /\ issued' = <<>>
           /\ CoveredBy(issued)' = {} /\ ~ Search!exhausted'
           /\ Search!Cover!Init'
  <1>1. /\ next_nonce' = (IF strategy = "sequential" THEN domain.start ELSE 0)
        /\ permutation_counter' = 0 /\ emitted_count' = 0 /\ assignment_index' = 0
        /\ raised' = FALSE /\ issued' = <<>>
        /\ strategy' = strategy /\ domain' = domain
    BY DEF FreshCursor
  <1>2. domain \in Domains /\ domain' \in Domains
    BY <1>1 DEF CursorInv
  <1>3. /\ Count \in Nat \ {0} /\ PermutationSize \in Nat
        /\ Count <= PermutationSize
    BY <1>2, CountFacts, OrbitOrder
  <1>4. Count' = Count /\ PermutationSize' = PermutationSize /\ Orbit' = Orbit
        /\ Bounce' = Bounce
    BY <1>1, SameOrder
  <1>5. /\ \A order : Reached(order, 0, Count) = {}
        /\ Blocks(domain, {}) = {} /\ 0 .. 0 - 1 = {}
    BY DEF Reached, Blocks
  <1>6. issued' \in Seq(Assignments) /\ CoveredBy(issued)' = {}
    BY <1>1, NothingCovered
  <1>14. domain' \in Domains /\ issued' \in Seq(Assignments) /\ raised' = FALSE
        /\ strategy' = strategy
    BY <1>1, <1>2, <1>6
  <1>7. ASSUME strategy = "sequential" PROVE CursorInv'
    <2>1. Smaller(domain.start + 0 * domain.chunk, domain.limit) = domain.start
      BY <1>2, DomainFacts DEF Smaller
    <2>2. CoveredBy(issued)' = Blocks(domain', 0 .. assignment_index' - 1)
      BY <1>1, <1>5, <1>6
    <2>3. next_nonce' = Smaller(domain'.start + assignment_index' * domain'.chunk, domain'.limit)
      BY <1>1, <1>7, <2>1
    <2>4. SequentialInv'
      BY <1>1, <1>3, <1>4, <2>2, <2>3 DEF SequentialInv
    <2> QED
      BY <1>14, <1>7, <2>4 DEF CursorInv
  <1>8. ASSUME strategy = "orbiting-bit" PROVE CursorInv'
    <2>1. Reached(Orbit', permutation_counter', Count') = {}
      BY <1>1, <1>4, <1>5
    <2>2. CoveredBy(issued)' = Blocks(domain', Reached(Orbit', permutation_counter', Count'))
      BY <1>1, <1>5, <1>6, <2>1
    <2>3. emitted_count' = Cardinality(Reached(Orbit', permutation_counter', Count'))
      BY <1>1, <2>1, FS_EmptySet
    <2>4. OrbitInv'
      BY <1>1, <1>3, <1>4, <2>2, <2>3 DEF OrbitInv
    <2> QED
      BY <1>14, <1>8, <2>4 DEF CursorInv
  <1>9. ASSUME strategy = "fibonacci-bounce" PROVE CursorInv'
    <2>1. CoveredBy(issued)' = Blocks(domain', Reached(Bounce', assignment_index', Count'))
      BY <1>1, <1>4, <1>5, <1>6
    <2>2. BounceInv'
      BY <1>1, <1>3, <1>4, <2>1 DEF BounceInv
    <2> QED
      BY <1>14, <1>9, <2>2 DEF CursorInv
  <1>10. CursorInv'
    BY <1>7, <1>8, <1>9 DEF CursorInv
  <1>11. Search!exhausted' = FALSE
    <2>1. domain.start \in domain.start .. domain.limit - 1
      BY <1>2, DomainFacts
    <2> QED
      BY <1>1, <1>6, <1>10, <2>1, ExhaustedIffAllNext
  <1>12. Search!CoveredBy(issued)' = {}
    <2>1. Search!CoveredBy(issued)' = CoveredBy(issued)'
      BY DEF CoveredBy, NoncesOf, Search!CoveredBy, Search!NoncesOf
    <2> QED
      BY <1>6, <2>1
  <1>13. Search!Cover!Init'
    <2>1. domain' \in Search!Cover!Domains
      BY <1>2, SameRanges
    <2> QED
      BY <1>11, <1>12, <2>1 DEF Search!Cover!Init
  <1> QED
    BY <1>1, <1>6, <1>10, <1>11, <1>13

-------------------------------------------------------------------------------
(* The whole search of a pool job. *)

Nonces == domain.start .. domain.limit - 1

\* The first conjunct of HashesAccounted.
Accounted ==
    searched = ((prepared \ {VariantOf(cursor)}) \X Nonces)
                  \cup ({VariantOf(cursor)} \X CoveredBy(issued))

\* The inductive invariant of the composed search.
WorkInv ==
    /\ Inv /\ CursorInv
    /\ VariantOf(cursor) \in prepared
    /\ Accounted
    /\ exhausted => Search!exhausted

\* The invariant holds initially.
LEMMA WorkInitInv == WorkInit => WorkInv /\ Search!Cover!Init
  <1> SUFFICES ASSUME WorkInit PROVE WorkInv /\ Search!Cover!Init
    OBVIOUS
  <1>1. Inv
    BY InitInv DEF WorkInit
  <1>2. CursorInv /\ issued = <<>> /\ Search!Cover!Init
    BY SearchInitInv DEF WorkInit
  <1>3. /\ prepared = {VariantOf(cursor)} /\ exhausted = FALSE
    BY DEF WorkInit, Init
  <1>4. Accounted
    <2>1. searched = {} /\ CoveredBy(issued) = {} /\ prepared \ {VariantOf(cursor)} = {}
      BY <1>2, <1>3, NothingCovered DEF WorkInit
    <2> QED
      BY <2>1 DEF Accounted
  <1> QED
    BY <1>1, <1>2, <1>3, <1>4 DEF WorkInv

\* SearchRange: the nonces of one more range, of the current variant.
LEMMA SearchRangeInv ==
    ASSUME WorkInv, SearchRange
    PROVE  /\ WorkInv' /\ cursor' = cursor /\ domain' = domain
           /\ Issues \/ Refuses
  <1>1. /\ Inv /\ CursorInv /\ VariantOf(cursor) \in prepared /\ Accounted
        /\ exhausted => Search!exhausted
    BY DEF WorkInv
  <1>2. /\ UNCHANGED vars
        /\ searched' = searched \cup ({VariantOf(cursor)} \X CoveredBy(issued'))
        /\ Search!Next
    BY DEF SearchRange
  <1>3. job' = job /\ cursor' = cursor /\ exhausted' = exhausted /\ prepared' = prepared
    BY <1>2 DEF vars
  <1>4. Inv'
    BY <1>1, <1>2, StutterInv
  <1>5. /\ CursorInv' /\ domain' = domain /\ strategy' = strategy
        /\ Issues \/ Refuses
    BY <1>1, <1>2, SearchIssues
  <1>6. VariantOf(cursor') = VariantOf(cursor) /\ Nonces' = Nonces
    BY <1>3, <1>5 DEF Nonces
  <1>7. CoveredBy(issued) \subseteq CoveredBy(issued')
    <2>1. CASE Issues
      BY <2>1 DEF Issues
    <2>2. CASE Refuses
      BY <2>2 DEF Refuses, search_vars
    <2> QED
      BY <1>5, <2>1, <2>2
  <1>8. Accounted'
    <2> DEFINE v == VariantOf(cursor)
               c == CoveredBy(issued)
               e == CoveredBy(issued')
    <2>1. searched = ((prepared \ {v}) \X Nonces) \cup ({v} \X c)
      BY <1>1 DEF Accounted
    <2>2. searched' = searched \cup ({v} \X e) /\ c \subseteq e
      BY <1>2, <1>7
    <2> HIDE DEF v, c, e
    <2>3. searched' = ((prepared \ {v}) \X Nonces) \cup ({v} \X e)
      BY <2>1, <2>2
    <2> QED
      BY <1>3, <1>6, <2>3 DEF Accounted, v, e
  <1>9. Search!exhausted => Search!exhausted'
    <2> SUFFICES ASSUME Search!exhausted PROVE Search!exhausted'
      OBVIOUS
    <2>1. Refuses
      BY <1>5 DEF Issues
    <2>2. issued' = issued
      BY <2>1 DEF Refuses, search_vars
    <2> QED
      BY <1>1, <1>5, <2>2, ExhaustedCovered, ExhaustedIffAllNext
  <1>10. VariantOf(cursor)' \in prepared'
    BY <1>1, <1>3, <1>6
  <1>11. exhausted' => Search!exhausted'
    BY <1>1, <1>3, <1>9
  <1> QED
    BY <1>3, <1>4, <1>5, <1>8, <1>10, <1>11 DEF WorkInv

\* The next variant: the one left behind was searched to its end.
LEMMA AdvanceWorkInv ==
    ASSUME WorkInv, AdvanceWork
    PROVE  WorkInv' /\ cursor' # cursor /\ Search!Cover!Init'
  <1>1. /\ Inv /\ CursorInv /\ VariantOf(cursor) \in prepared /\ Accounted
        /\ Search!exhausted /\ FreshCursor /\ searched' = searched
        /\ AdvanceExtraNonce \/ RollNetworkTime
    BY DEF WorkInv, AdvanceWork
  <1>2. Inv' /\ VariantOf(cursor') \notin prepared
    BY <1>1, AdvanceExtraNonceInv, RollNetworkTimeInv
  <1>3. /\ prepared' = prepared \cup {VariantOf(cursor')}
        /\ exhausted' = exhausted /\ ~ exhausted
    BY <1>1 DEF AdvanceExtraNonce, RollNetworkTime
  <1>4. cursor' # cursor
    BY <1>1, <1>2
  <1>5. /\ CursorInv' /\ domain' = domain /\ CoveredBy(issued)' = {}
        /\ Search!Cover!Init'
    BY <1>1, FreshInv
  <1>6. CoveredBy(issued) = Nonces
    BY <1>1, ExhaustedCovered DEF Nonces
  <1>7. Accounted'
    <2> DEFINE v == VariantOf(cursor)
               w == VariantOf(cursor')
    <2>1. searched = ((prepared \ {v}) \X Nonces) \cup ({v} \X Nonces) /\ v \in prepared
      BY <1>1, <1>6 DEF Accounted
    <2> HIDE DEF v
    <2>2. searched = prepared \X Nonces
      BY <2>1
    <2>3. w \notin prepared /\ prepared' = prepared \cup {w}
      BY <1>2, <1>3
    <2>4. Nonces' = Nonces
      BY <1>5 DEF Nonces
    <2> HIDE DEF w
    <2>5. prepared' \ {w} = prepared
      BY <2>3
    <2>6. searched' = ((prepared' \ {w}) \X Nonces') \cup ({w} \X {})
      BY <1>1, <2>2, <2>4, <2>5
    <2>7. searched' = ((prepared' \ {w}) \X Nonces') \cup ({w} \X CoveredBy(issued)')
      BY <1>5, <2>6
    <2> QED
      BY <2>7 DEF Accounted, w
  <1>8. VariantOf(cursor)' \in prepared'
    BY <1>3
  <1> QED
    BY <1>2, <1>3, <1>4, <1>5, <1>7, <1>8 DEF WorkInv

\* GiveUp: only the flag of the progression changes.
LEMMA GiveUpInv ==
    ASSUME WorkInv, GiveUp
    PROVE  WorkInv' /\ UNCHANGED <<cursor, search_vars>>
  <1>1. /\ Inv /\ CursorInv /\ VariantOf(cursor) \in prepared /\ Accounted
        /\ Search!exhausted /\ Exhaust /\ UNCHANGED <<search_vars, searched>>
    BY DEF WorkInv, GiveUp
  <1>2. Inv' /\ cursor' = cursor /\ prepared' = prepared
    BY <1>1, ExhaustInv DEF Exhaust
  <1>3. UNCHANGED <<strategy, domain, next_nonce, permutation_counter, emitted_count,
                    assignment_index, raised, issued, searched>>
    BY <1>1 DEF search_vars
  <1>4. CursorInv'
    <2>1. Count' = Count /\ Orbit' = Orbit /\ Bounce' = Bounce
          /\ PermutationSize' = PermutationSize
      BY <1>3, SameOrder
    <2>2. /\ SequentialInv => SequentialInv'
          /\ OrbitInv => OrbitInv'
          /\ BounceInv => BounceInv'
      BY <1>3, <2>1 DEF SequentialInv, OrbitInv, BounceInv
    <2> QED
      BY <1>1, <1>3, <2>2 DEF CursorInv
  <1>5. Search!exhausted'
    BY <1>1, <1>3, <1>4, ExhaustedCovered, ExhaustedIffAllNext
  <1>6. Accounted' /\ VariantOf(cursor)' \in prepared'
    BY <1>1, <1>2, <1>3 DEF Accounted, Nonces
  <1> QED
    BY <1>1, <1>2, <1>4, <1>5, <1>6 DEF WorkInv

\* Stuttering steps keep it.
LEMMA WorkStutterInv ==
    ASSUME WorkInv, UNCHANGED work_vars
    PROVE  WorkInv'
  <1>1. /\ UNCHANGED vars
        /\ UNCHANGED <<strategy, domain, next_nonce, permutation_counter, emitted_count,
                       assignment_index, raised, issued, searched>>
    BY DEF work_vars, search_vars
  <1>2. Inv' /\ UNCHANGED <<cursor, exhausted, prepared>>
    BY <1>1, StutterInv DEF WorkInv, vars
  <1>3. CursorInv'
    <2>1. Count' = Count /\ Orbit' = Orbit /\ Bounce' = Bounce
          /\ PermutationSize' = PermutationSize
      BY <1>1, SameOrder
    <2>2. /\ SequentialInv => SequentialInv'
          /\ OrbitInv => OrbitInv'
          /\ BounceInv => BounceInv'
      BY <1>1, <2>1 DEF SequentialInv, OrbitInv, BounceInv
    <2> QED
      BY <1>1, <2>2 DEF CursorInv, WorkInv
  <1>4. Search!exhausted => Search!exhausted'
    BY <1>1, <1>3, ExhaustedCovered, ExhaustedIffAllNext DEF WorkInv
  <1>5. Accounted' /\ VariantOf(cursor)' \in prepared'
    BY <1>1, <1>2 DEF Accounted, Nonces, WorkInv
  <1> QED
    BY <1>2, <1>3, <1>4, <1>5 DEF WorkInv

\* The invariant is inductive.
LEMMA WorkNextInv == WorkInv /\ [WorkNext]_work_vars => WorkInv'
  BY SearchRangeInv, AdvanceWorkInv, GiveUpInv, WorkStutterInv DEF WorkNext

\* The raises of strategy.py and fibonacci.py are unreachable: no permutation
\* leaves the domain, repeats a range or ends before complete coverage,
\* whatever the domain, the strategy and the variant.
THEOREM NeverRaisesHolds == WorkSpec => []NeverRaises
  <1>1. WorkInv => NeverRaises
    BY DEF WorkInv, CursorInv, NeverRaises, Search!NeverRaises
  <1> QED
    BY WorkInitInv, WorkNextInv, <1>1, PTL DEF WorkSpec

\* The variants of a job, while its cursors search them, are those of the
\* progression alone.
THEOREM PreparedPrefixHolds == WorkSpec => []PreparedPrefix
  <1>1. WorkInv => PreparedPrefix
    BY DEF WorkInv, Inv
  <1> QED
    BY WorkInitInv, WorkNextInv, <1>1, PTL DEF WorkSpec

\* Every nonce of every variant handed out, once, and nothing else is
\* searched; when the job is given up its whole space was.
THEOREM HashesAccountedHolds == WorkSpec => []HashesAccounted
  <1>1. WorkInv => HashesAccounted
    <2> SUFFICES ASSUME WorkInv PROVE HashesAccounted
      OBVIOUS
    <2>1. /\ Inv /\ CursorInv /\ VariantOf(cursor) \in prepared /\ Accounted
          /\ exhausted => Search!exhausted
      BY DEF WorkInv
    <2> DEFINE seconds == job.pool_time .. MaxNetworkTime
               extra == 0 .. job.space - 1
    <2>2. ASSUME exhausted
          PROVE  Cardinality(searched)
                   = job.space * (MaxNetworkTime - job.pool_time + 1) * Cardinality(Nonces)
      <3>1. /\ job.space \in Nat /\ job.space > 0
            /\ job.pool_time \in Nat /\ job.seed \in Nat /\ job.seed < job.space
            /\ MaxNetworkTime \in Nat /\ MaxNetworkTime >= job.pool_time
        BY <2>1, FieldFacts DEF Inv
      <3>2. prepared = extra \X seconds
        <4>1. prepared = (extra \X (job.pool_time .. MaxNetworkTime - 1))
                            \cup (CycleValues(job.space) \X {MaxNetworkTime})
          BY <2>1, <2>2 DEF Inv, PreparedPrefix
        <4>2. CycleValues(job.space) = extra
          BY <3>1, CycleComplete
        <4>3. seconds = (job.pool_time .. MaxNetworkTime - 1) \cup {MaxNetworkTime}
          BY <3>1
        <4> HIDE DEF seconds, extra
        <4> QED
          BY <4>1, <4>2, <4>3
      <3>3. CoveredBy(issued) = Nonces
        BY <2>1, <2>2, ExhaustedCovered DEF Nonces
      <3>4. searched = prepared \X Nonces
        <4> DEFINE v == VariantOf(cursor)
        <4>1. searched = ((prepared \ {v}) \X Nonces) \cup ({v} \X Nonces) /\ v \in prepared
          BY <2>1, <3>3 DEF Accounted
        <4> HIDE DEF v
        <4> QED
          BY <4>1
      <3>5. IsFiniteSet(extra) /\ Cardinality(extra) = job.space
        <4>1. 0 \in Int /\ job.space - 1 \in Int
          BY <3>1
        <4>2. /\ IsFiniteSet(0 .. job.space - 1)
              /\ Cardinality(0 .. job.space - 1)
                   = IF 0 > job.space - 1 THEN 0 ELSE job.space - 1 - 0 + 1
          BY <4>1, FS_Interval
        <4> QED
          BY <3>1, <4>2
      <3>6. IsFiniteSet(seconds) /\ Cardinality(seconds) = MaxNetworkTime - job.pool_time + 1
        <4>1. job.pool_time \in Int /\ MaxNetworkTime \in Int
          BY <3>1
        <4>2. /\ IsFiniteSet(job.pool_time .. MaxNetworkTime)
              /\ Cardinality(job.pool_time .. MaxNetworkTime)
                   = IF job.pool_time > MaxNetworkTime THEN 0
                     ELSE MaxNetworkTime - job.pool_time + 1
          BY <4>1, FS_Interval
        <4> QED
          BY <3>1, <4>2
      <3>7. IsFiniteSet(Nonces)
        <4>1. domain.start \in Int /\ domain.limit - 1 \in Int
          BY <2>1, DomainFacts DEF CursorInv
        <4> QED
          BY <4>1, FS_Interval DEF Nonces
      <3> HIDE DEF extra, seconds
      <3>8. IsFiniteSet(prepared)
            /\ Cardinality(prepared) = job.space * (MaxNetworkTime - job.pool_time + 1)
        BY <3>2, <3>5, <3>6, FS_Product
      <3>9. Cardinality(prepared \X Nonces) = Cardinality(prepared) * Cardinality(Nonces)
        BY <3>7, <3>8, FS_Product
      <3> QED
        BY <3>4, <3>8, <3>9
    <2> QED
      BY <2>1, <2>2 DEF HashesAccounted, Accounted, Nonces
  <1> QED
    BY WorkInitInv, WorkNextInv, <1>1, PTL DEF WorkSpec

\* Variant by variant each cursor refines NonceCover: fresh ranges of at most
\* chunk nonces, exhaustion reported in the very step of the last nonce, and
\* the next variant uncovered.
THEOREM CoverSpecHolds == WorkSpec => CoverSpec
  <1>1. WorkInv /\ WorkInv' /\ [WorkNext]_work_vars => [CoverStep]_work_vars
    <2> SUFFICES ASSUME WorkInv, WorkInv', WorkNext PROVE CoverStep
      OBVIOUS
    <2>1. CursorInv /\ CursorInv'
      BY DEF WorkInv
    <2>2. CASE SearchRange
      <3>1. cursor' = cursor /\ domain' = domain /\ (Issues \/ Refuses)
        BY <2>2, SearchRangeInv
      <3>2. CASE Issues
        BY <2>1, <3>1, <3>2, IssueCovers DEF CoverStep
      <3>3. CASE Refuses
        <4>1. UNCHANGED <<strategy, domain, next_nonce, permutation_counter, emitted_count,
                          assignment_index, raised, issued>>
          BY <3>3 DEF Refuses, search_vars
        <4>2. UNCHANGED Search!Cover!cover_vars
          <5>1. Search!exhausted' = Search!exhausted
            BY <2>1, <4>1, ExhaustedCovered, ExhaustedIffAllNext
          <5>2. Search!CoveredBy(issued)' = Search!CoveredBy(issued)
            BY <4>1
          <5> QED
            BY <4>1, <5>1, <5>2 DEF Search!Cover!cover_vars
        <4> QED
          BY <3>1, <4>1, <4>2 DEF CoverStep
      <3> QED
        BY <3>1, <3>2, <3>3
    <2>3. CASE AdvanceWork
      BY <2>3, AdvanceWorkInv DEF CoverStep
    <2>4. CASE GiveUp
      <3>1. cursor' = cursor
            /\ UNCHANGED <<strategy, domain, next_nonce, permutation_counter,
                           emitted_count, assignment_index, raised, issued>>
        BY <2>4, GiveUpInv DEF search_vars
      <3>2. Search!exhausted' = Search!exhausted
        BY <2>1, <3>1, ExhaustedCovered, ExhaustedIffAllNext
      <3>3. Search!CoveredBy(issued)' = Search!CoveredBy(issued)
        BY <3>1
      <3>4. UNCHANGED Search!Cover!cover_vars
        BY <3>1, <3>2, <3>3 DEF Search!Cover!cover_vars
      <3> QED
        BY <3>1, <3>4 DEF CoverStep
    <2> QED
      BY <2>2, <2>3, <2>4 DEF WorkNext
  <1>2. WorkInit => Search!Cover!Init
    BY WorkInitInv
  <1> QED
    BY WorkInitInv, WorkNextInv, <1>1, <1>2, PTL DEF WorkSpec, CoverSpec
===============================================================================
