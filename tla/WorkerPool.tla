------------------------------ MODULE WorkerPool ------------------------------
(***************************************************************************)
(* compute/parallel.py, NativeParallelBackend, and compute/cuda_multi.py,  *)
(* CudaMultiBackend: one parent range partitioned over a thread pool, the  *)
(* results reduced, and the pool torn down when anything fails.            *)
(*                                                                         *)
(* The two differ in how the caller waits (in submission order, or until   *)
(* the first exception), in how much of its range a worker searches (up to *)
(* its first match, or all of it) and in what they own besides the pool    *)
(* (one device context per ordinal).  `kind' selects between them.         *)
(*                                                                         *)
(* One thread calls search_nonce_range and close; the workers run beside   *)
(* it.  The standard library's executor is modelled from how it is used.   *)
(***************************************************************************)
EXTENDS NoncePartition, Sequences, FiniteSetsExt

CONSTANTS
    Workers,        \* worker_count, or the number of device ordinals
    HashValues,     \* what a header may hash to, as the comparison integer
    Target,         \* a hash at or below it is a match
    MaxFaults,      \* bound: failures injected in one behaviour
    MaxInterrupts   \* bound: KeyboardInterrupts in one behaviour

ASSUME WorkersAssumption == Workers \in Nat \ {0}
ASSUME TargetAssumption == HashValues \subseteq Nat /\ Target \in Nat

VARIABLES
    kind,           \* "native-parallel" or "cuda-multi"
    step,           \* where the calling thread is in the backend
    executor,       \* _executor: "none", "open", or "stopping" once detached
    broken,         \* _broken
    closed,         \* _closed
    contexts,       \* per device: "none", "open" or "closed"
    call,           \* the search in progress or last made
    futures,        \* state of each submitted assignment
    awaited,        \* the future native-parallel calls result() on
    raising,        \* what the except branch will raise
    returned,       \* outcome of the last search_nonce_range
    faults,         \* history: failures injected
    interrupts,     \* history: interrupts delivered
    unjoined        \* history: an interrupt cut short shutdown(wait=True)

poolVars == <<kind, step, executor, broken, closed, contexts, call, futures,
              awaited, raising, returned, faults, interrupts, unjoined>>

Devices == 1 .. Workers
NoNonce == -1
NoCall == [start |-> 0, stop |-> 0, hash |-> <<>>]

Outcome(status, match, hashes, best) ==
    [status |-> status, match |-> match, hashes |-> hashes, best |-> best]
Raised(cause) == Outcome(cause, NoNonce, 0, NoNonce)
Nothing == Raised("none")

PoolInit ==
    /\ kind \in {"native-parallel", "cuda-multi"}
    /\ step = IF kind = "cuda-multi" THEN "construct" ELSE "idle"
    /\ executor = "none"
    /\ broken = FALSE
    /\ closed = FALSE
    /\ contexts = [d \in Devices |-> "none"]
    /\ call = NoCall
    /\ futures = <<>>
    /\ awaited = 1
    /\ raising = "none"
    /\ returned = Nothing
    /\ faults = 0
    /\ interrupts = 0
    /\ unjoined = FALSE

Fault == faults < MaxFaults /\ faults' = faults + 1
Interrupt == interrupts < MaxInterrupts /\ interrupts' = interrupts + 1

-------------------------------------------------------------------------------
(* What one worker finds in its assignment, and the reduction.              *)

Assignments == PartitionNonceRange(call.start, call.stop, Workers)

Meets(n) == call.hash[n] <= Target

LowestMatch(range) ==
    LET hits == {n \in NoncesIn(range) : Meets(n)}
    IN  IF hits = {} THEN NoNonce ELSE Min(hits)

\* The native worker stops at its first match; a CUDA kernel never does.
HashesChecked(range) ==
    IF kind = "native-parallel" /\ LowestMatch(range) # NoNonce
    THEN LowestMatch(range) - range.start + 1
    ELSE range.stop - range.start

\* The least hash among the candidates, the lowest nonce among equals.
BestOf(nonces) ==
    LET least == Min({call.hash[n] : n \in nonces})
    IN  Min({n \in nonces : call.hash[n] = least})

WorkerResult(range) ==
    [match  |-> LowestMatch(range),
     hashes |-> HashesChecked(range),
     best   |-> BestOf(range.start .. range.start + HashesChecked(range) - 1)]

Results == [i \in DOMAIN Assignments |-> WorkerResult(Assignments[i])]

Matches == {Results[i].match : i \in DOMAIN Results} \ {NoNonce}

HashesReported == Total([i \in DOMAIN Results |-> Results[i].hashes],
                        AssignmentCount(call.start, call.stop, Workers))

\* A reduction that takes the match of the last worker that has one.
ReduceWorkerResultsLastMatch ==
    LET withMatch == {i \in DOMAIN Results : Results[i].match # NoNonce}
    IN  Outcome("result",
                IF withMatch = {} THEN NoNonce ELSE Results[Max(withMatch)].match,
                HashesReported,
                BestOf({Results[i].best : i \in DOMAIN Results}))

ReduceWorkerResults ==
    Outcome("result",
            IF Matches = {} THEN NoNonce ELSE Min(Matches),
            HashesReported,
            BestOf({Results[i].best : i \in DOMAIN Results}))

-------------------------------------------------------------------------------
(* Construction and release of the device contexts.                         *)

Released(ctx) == [d \in Devices |-> IF ctx[d] = "open" THEN "closed" ELSE ctx[d]]

OpenDevices == {d \in Devices : contexts[d] = "open"}

\* _initialize_backends: the ordinals in ascending order, all or none.
DeviceOpens ==
    /\ step = "construct"
    /\ LET d == Cardinality(OpenDevices) + 1
       IN  /\ contexts' = [contexts EXCEPT ![d] = "open"]
           /\ step' = IF d = Workers THEN "idle" ELSE "construct"
    /\ UNCHANGED <<kind, executor, broken, closed, call, futures, awaited,
                   raising, returned, faults, interrupts, unjoined>>

DeviceUnavailable ==
    /\ step = "construct"
    /\ Fault
    /\ contexts' = Released(contexts)
    /\ step' = "unavailable"
    /\ UNCHANGED <<kind, executor, broken, closed, call, futures, awaited,
                   raising, returned, interrupts, unjoined>>

-------------------------------------------------------------------------------
(* The workers.                                                             *)

InState(s) == {i \in DOMAIN futures : futures[i] = s}
Unfinished == InState("pending") \cup InState("running")

WorkerMoves(i, from, to) ==
    /\ futures[i] = from
    /\ futures' = [futures EXCEPT ![i] = to]
    /\ UNCHANGED <<kind, step, executor, broken, closed, contexts, call,
                   awaited, raising, returned, interrupts, unjoined>>

\* There is a thread for every assignment of a call: none waits for another.
WorkerStarts(i) == WorkerMoves(i, "pending", "running") /\ UNCHANGED faults

WorkerFinishes(i) == WorkerMoves(i, "running", "done") /\ UNCHANGED faults

WorkerFails(i) == WorkerMoves(i, "running", "failed") /\ Fault

-------------------------------------------------------------------------------
(* The calling thread.                                                      *)

\* search_nonce_range up to the submissions.
StartSearch(start, stop) ==
    /\ step = "idle"
    /\ IF closed \/ broken
       THEN /\ returned' = Raised("error")
            /\ UNCHANGED <<step, call, futures, awaited>>
       ELSE /\ \E hash \in [start .. stop - 1 -> HashValues] :
                   call' = [start |-> start, stop |-> stop, hash |-> hash]
            /\ step' = "submit"
            /\ futures' = <<>>
            /\ awaited' = 1
            /\ returned' = Nothing
    /\ UNCHANGED <<kind, executor, broken, closed, contexts, raising, faults,
                   interrupts, unjoined>>

\* _submit_assignments, on the executor the first search creates.
SubmitAssignment ==
    /\ step = "submit"
    /\ executor' = "open"
    /\ futures' = Append(futures, "pending")
    /\ step' = IF Len(futures) + 1 = Cardinality(DOMAIN Assignments)
               THEN "wait" ELSE "submit"
    /\ UNCHANGED <<kind, broken, closed, contexts, call, awaited, raising,
                   returned, faults, interrupts, unjoined>>

\* future.cancel() on every future, and the executor's own queue emptied: only
\* what no thread has taken yet can be cancelled.
Cancelled == [i \in DOMAIN futures |->
                 IF futures[i] = "pending" THEN "cancelled" ELSE futures[i]]

\* Closes the contexts before the pool has been joined.
BreakReleasingFirst(cause) ==
    /\ futures' = Cancelled
    /\ broken' = TRUE
    /\ closed' = (closed \/ kind = "cuda-multi")
    /\ executor' = IF executor = "none" THEN "none" ELSE "stopping"
    /\ contexts' = Released(contexts)
    /\ raising' = cause
    /\ step' = "shutdown"
    /\ UNCHANGED <<kind, call, awaited, returned, unjoined>>

\* The except branch up to the wait: _break_executor, or _terminate, which
\* marks the backend closed as well.
Break(cause) ==
    /\ futures' = Cancelled
    /\ broken' = TRUE
    /\ closed' = (closed \/ kind = "cuda-multi")
    /\ executor' = IF executor = "none" THEN "none" ELSE "stopping"
    /\ raising' = cause
    /\ step' = "shutdown"
    /\ UNCHANGED <<kind, contexts, call, awaited, returned, unjoined>>

\* The executor factory or a submission raises.
SubmitFails ==
    /\ step = "submit"
    /\ Fault
    /\ Break("error")
    /\ UNCHANGED interrupts

\* native-parallel: future.result() in submission order.
ResultReady ==
    /\ step = "wait"
    /\ kind = "native-parallel"
    /\ awaited \in InState("done")
    /\ awaited' = awaited + 1
    /\ UNCHANGED <<kind, step, executor, broken, closed, contexts, call, futures,
                   raising, returned, faults, interrupts, unjoined>>

AllResultsIn ==
    IF kind = "native-parallel" THEN awaited = Len(futures) + 1
    ELSE InState("done") = DOMAIN futures

\* native-parallel meets a failure when its turn comes, cuda-multi as soon as
\* wait(FIRST_EXCEPTION) returns.
FailureSeen ==
    IF kind = "native-parallel" THEN awaited \in InState("failed")
    ELSE InState("failed") # {}

SearchReturns ==
    /\ step = "wait"
    /\ AllResultsIn
    /\ returned' = ReduceWorkerResults
    /\ step' = "idle"
    /\ UNCHANGED <<kind, executor, broken, closed, contexts, call, futures,
                   awaited, raising, faults, interrupts, unjoined>>

SearchBreaks ==
    /\ step = "wait"
    /\ FailureSeen
    /\ Break("error")
    /\ UNCHANGED <<faults, interrupts>>

\* A KeyboardInterrupt while the caller submits or waits.
SearchInterrupted ==
    /\ step \in {"submit", "wait"}
    /\ Interrupt
    /\ Break("interrupt")
    /\ UNCHANGED faults

\* shutdown is over: cuda-multi closes its contexts, and the search raises.
Raise ==
    /\ executor' = "none"
    /\ contexts' = Released(contexts)
    /\ returned' = Raised(raising)
    /\ step' = "idle"
    /\ UNCHANGED <<kind, broken, closed, call, futures, awaited, raising, faults>>

\* shutdown without wait=True.
ShutdownEndsAtOnce ==
    /\ step = "shutdown"
    /\ Raise
    /\ UNCHANGED <<interrupts, unjoined>>

\* Breaks the pool and leaves the device contexts to close(), which will find
\* the backend marked closed.
ShutdownEndsKeepingContexts ==
    /\ step = "shutdown"
    /\ InState("running") = {}
    /\ executor' = "none"
    /\ returned' = Raised(raising)
    /\ step' = "idle"
    /\ UNCHANGED <<kind, broken, closed, contexts, call, futures, awaited, raising,
                   faults, interrupts, unjoined>>

\* shutdown(wait=True) joins every thread.
ShutdownEnds ==
    /\ step = "shutdown"
    /\ InState("running") = {}
    /\ Raise
    /\ UNCHANGED <<interrupts, unjoined>>

\* A KeyboardInterrupt during the join is swallowed with every other
\* BaseException, and what follows the join happens at once.
ShutdownInterrupted ==
    /\ step = "shutdown"
    /\ InState("running") # {}
    /\ Interrupt
    /\ Raise
    /\ unjoined' = TRUE

\* close(): at most once; the first call waits for the pool if there is one.
CloseBackend ==
    /\ step = "idle"
    /\ closed \/ executor = "none" \/ Unfinished = {}
    /\ closed' = TRUE
    /\ executor' = IF closed THEN executor ELSE "none"
    /\ contexts' = IF closed THEN contexts ELSE Released(contexts)
    /\ UNCHANGED <<kind, step, broken, call, futures, awaited, raising, returned,
                   interrupts, unjoined>>

PoolNext ==
    \/ DeviceOpens
    \/ DeviceUnavailable
    \/ \E i \in DOMAIN futures : WorkerStarts(i) \/ WorkerFinishes(i) \/ WorkerFails(i)
    \/ SubmitAssignment
    \/ SubmitFails
    \/ ResultReady
    \/ SearchReturns
    \/ SearchBreaks
    \/ SearchInterrupted
    \/ ShutdownEnds
    \/ ShutdownInterrupted

-------------------------------------------------------------------------------

PoolTypeOK ==
    /\ kind \in {"native-parallel", "cuda-multi"}
    /\ step \in {"construct", "unavailable", "idle", "submit", "wait", "shutdown"}
    /\ executor \in {"none", "open", "stopping"}
    /\ broken \in BOOLEAN /\ closed \in BOOLEAN /\ unjoined \in BOOLEAN
    /\ contexts \in [Devices -> {"none", "open", "closed"}]
    /\ futures \in Seq({"pending", "running", "done", "failed", "cancelled"})
    /\ awaited \in 1 .. Workers + 1
    /\ raising \in {"none", "error", "interrupt"}
    /\ returned.status \in {"none", "result", "error", "interrupt"}
    /\ faults \in 0 .. MaxFaults /\ interrupts \in 0 .. MaxInterrupts

\* When search_nonce_range has returned or raised, none of its assignments is
\* queued or running, whichever worker failed and in whatever order the others
\* were taken, finished or cancelled (an interrupted join excepted).
NoWorkAfterReturn ==
    step = "idle" /\ ~unjoined => Unfinished = {}

\* A device context is closed only while no assignment runs on that device.
\* docs/11-multi-gpu.md:130-131 says so of every failure.
ContextsReleasedIdle ==
    \A d \in Devices : contexts[d] = "closed" => d \notin InState("running")

\* The same, when no interrupt cuts the join short.
ContextsReleasedAfterJoin == ~unjoined => ContextsReleasedIdle

\* A parallel search gives the candidate that one sequential search of the
\* whole parent range gives, in every completion order; without a match it
\* hashed every nonce once and reports the sequential search's best nonce; with
\* one, the best it reports is no worse than the match.
SameCandidateAsSequential ==
    LET range == [start |-> call.start, stop |-> call.stop]
        best  == returned.best
    IN  returned.status = "result" =>
            /\ returned.match = LowestMatch(range)
            /\ returned.hashes \in 1 .. call.stop - call.start
            /\ returned.match = NoNonce =>
                   /\ returned.hashes = call.stop - call.start
                   /\ best = BestOf(NoncesIn(range))
            /\ returned.match # NoNonce =>
                   /\ best \in NoncesIn(range)
                   /\ call.hash[best] <= call.hash[returned.match]
===============================================================================
