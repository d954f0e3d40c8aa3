---------------------------- MODULE WorkProgression ---------------------------
(***************************************************************************)
(* mining/progression.py, MiningWorkCursor: the (extra nonce 2, network    *)
(* time) variants of one pool job.  A variant is left only after its whole *)
(* nonce space was searched; extra nonces are taken from a random seed     *)
(* upwards and wrap around, then the network time moves on by one second   *)
(* and the cycle restarts from the seed, until the 32-bit time is used up. *)
(***************************************************************************)
EXTENDS Integers

CONSTANTS
    SpaceSizes,        \* extra-nonce space sizes; 256^extra_nonce_2_size
    MaxNetworkTime     \* 0xffffffff in the program

ASSUME SpaceSizesAssumption == \A s \in SpaceSizes : s \in Nat /\ s > 0
ASSUME MaxNetworkTimeAssumption == MaxNetworkTime \in Nat

VARIABLES
    job,               \* [space, pool_time, seed]: fixed for the cursor's life
    cursor,            \* the MiningWorkCursor's mutable fields
    exhausted,         \* advance() returned no successor
    prepared           \* history: the variants handed out for preparation

vars == <<job, cursor, exhausted, prepared>>

Jobs == {j \in [space : SpaceSizes, pool_time : 0 .. MaxNetworkTime, seed : Nat] :
            j.seed < j.space}

\* The same set, enumerable.
StartingJobs ==
    UNION {[space : {s}, pool_time : 0 .. MaxNetworkTime, seed : 0 .. s - 1] :
              s \in SpaceSizes}

VariantOf(c) == <<c.value, c.time>>

Start(j) ==
    [value    |-> j.seed,
     variants |-> 1,               \* variants_at_current_time
     index    |-> 0,               \* variant_index
     advances |-> 0,               \* extra_nonce_2_advance_count
     cycles   |-> 0,               \* extra_nonce_2_cycle_count
     time     |-> j.pool_time,     \* network_time_value
     rolls    |-> 0]               \* network_time_roll_count

Init ==
    /\ job \in StartingJobs
    /\ cursor = Start(job)
    /\ exhausted = FALSE
    /\ prepared = {VariantOf(Start(job))}

\* Off by one: the last extra nonce of a cycle is never reached.
CycleOpenShort(c) == c.variants < job.space - 1

CycleOpen(c) == c.variants < job.space

NextExtraNonce(c) ==
    [c EXCEPT !.value = (@ + 1) % job.space, !.variants = @ + 1,
              !.index = @ + 1, !.advances = @ + 1]

Rolled(c) ==
    [c EXCEPT !.value = job.seed, !.variants = 1, !.index = @ + 1,
              !.advances = @ + 1, !.cycles = @ + 1, !.time = @ + 1,
              !.rolls = @ + 1]

AdvanceExtraNonce ==
    /\ ~exhausted
    /\ CycleOpen(cursor)
    /\ cursor' = NextExtraNonce(cursor)
    /\ prepared' = prepared \cup {VariantOf(cursor')}
    /\ UNCHANGED <<job, exhausted>>

RollNetworkTime ==
    /\ ~exhausted
    /\ ~CycleOpen(cursor)
    /\ cursor.time # MaxNetworkTime
    /\ cursor' = Rolled(cursor)
    /\ prepared' = prepared \cup {VariantOf(cursor')}
    /\ UNCHANGED <<job, exhausted>>

\* No successor: the mining loop drops the cursor and waits for a new job.
Exhaust ==
    /\ ~exhausted
    /\ ~CycleOpen(cursor)
    /\ cursor.time = MaxNetworkTime
    /\ exhausted' = TRUE
    /\ UNCHANGED <<job, cursor, prepared>>

Next == AdvanceExtraNonce \/ RollNetworkTime \/ Exhaust

Spec == Init /\ [][Next]_vars

-------------------------------------------------------------------------------

\* The ranges MiningWorkCursor.__post_init__ insists on for every successor.
TypeOK ==
    /\ job \in Jobs
    /\ cursor \in [value : 0 .. job.space - 1, variants : 1 .. job.space,
                   index : Nat, advances : Nat, cycles : Nat,
                   time : job.pool_time .. MaxNetworkTime, rolls : Nat]
    /\ exhausted \in BOOLEAN
    /\ prepared \subseteq (0 .. job.space - 1) \X (job.pool_time .. MaxNetworkTime)

\* The extra nonces a cycle has used after `n' variants from the seed.
CycleValues(n) ==
    IF n <= job.space - job.seed
    THEN job.seed .. job.seed + n - 1
    ELSE (job.seed .. job.space - 1) \cup (0 .. job.seed + n - 1 - job.space)

\* What was prepared: every variant of the past seconds, and of the current
\* second the extra nonces from the seed to the current one.
PreparedPrefix ==
    /\ prepared =
         ((0 .. job.space - 1) \X (job.pool_time .. cursor.time - 1))
            \cup (CycleValues(cursor.variants) \X {cursor.time})
    /\ cursor.value =
         IF cursor.variants <= job.space - job.seed
         THEN job.seed + cursor.variants - 1
         ELSE job.seed + cursor.variants - 1 - job.space
    /\ exhausted => /\ cursor.variants = job.space
                    /\ cursor.time = MaxNetworkTime

\* No (extra nonce, time) variant of a pool job is prepared a second time: a
\* repeat would search a full nonce space again, and the mining loop raises
\* on it (continuous.py, "work progression produced duplicate effective work").
NeverPreparedTwice ==
    [][cursor' # cursor => VariantOf(cursor') \notin prepared]_vars

\* When advance() gives up, every variant of the job was prepared: no extra
\* nonce of any second up to 0xffffffff is left unsearched.
ExhaustedMeansAll ==
    exhausted =>
        prepared = (0 .. job.space - 1) \X (job.pool_time .. MaxNetworkTime)

\* The counters reported with a variant agree with each other, so that
\* network_time_roll_count equals the elapsed seconds, which __post_init__
\* checks, and the position can be recovered from them.
CountersAgree ==
    /\ cursor.rolls = cursor.time - job.pool_time
    /\ cursor.cycles = cursor.rolls
    /\ cursor.advances = cursor.index
    /\ cursor.index = cursor.rolls * job.space + cursor.variants - 1
===============================================================================
