---------------------------- MODULE ChunkedMining ----------------------------
(***************************************************************************)
(* mining/chunks.py, run_chunked_mining, inside the command that owns it,  *)
(* _run_stratum_mine_chunks of __main__.py: select a backend, connect,     *)
(* receive a first job, search chunk after chunk until the hash budget is  *)
(* spent or a match is submitted, take up newer jobs between chunks, and   *)
(* clean up.  The backend is WorkerPool's; the pool side is only the order *)
(* of the notifications it sends.                                          *)
(***************************************************************************)
EXTENDS WorkerPool

CONSTANTS
    Plans,             \* (start_nonce, chunk_size, max_hashes) on the command line
    NonceLimit,        \* 2^32 in the program
    Difficulties,      \* only compared for equality
    Notify,            \* a mining.notify: its job is known by its position
    MaxNotifications   \* bound: notifications the mining pool sends

ASSUME PlansAssumption ==
    \A p \in Plans : /\ p.start \in 0 .. NonceLimit - 1
                     /\ p.chunk \in 1 .. NonceLimit
                     /\ p.max \in 1 .. NonceLimit - p.start

ASSUME NotificationsAssumption ==
    Notify \notin Difficulties /\ "none" \notin Difficulties

VARIABLES
    plan,
    phase,          \* the statement the command is at
    client,         \* "none", "open" or "closed"
    unread,         \* notifications that arrived and were not read
    heard,          \* history: notifications read, in order
    difficulty,     \* MiningJobAssembler's current difficulty
    job,            \* current_job and current_work
    selected,       \* selected_replacement
    cursor,         \* the sequential strategy's cursor over this work
    counted,        \* current_work_searched
    jobsUsed, replacements, total,
    searches,       \* history: every chunk started
    submissions,    \* history: every share handed to the client
    status,         \* exit status, or "raised" when the command raises
    failed,         \* pending_failure is not None
    logEscaped      \* history: an event-log error skipped the cleanup

loopVars == <<difficulty, job, selected, cursor, counted, jobsUsed,
              replacements, total, searches, submissions>>
poolVarsButFaults == <<kind, step, executor, broken, closed, contexts, call, futures,
                       awaited, raising, returned, interrupts, unjoined>>
commandVars == <<plan, phase, client, unread, heard, loopVars, status, failed, logEscaped>>
vars == <<poolVars, commandVars>>

NoDifficulty == "none"
NoJob == [position |-> 0, difficulty |-> NoDifficulty]

SequentialCursor(p, remaining) == [next |-> p.start, limit |-> p.start + remaining]

Init ==
    /\ PoolInit
    /\ plan \in Plans
    /\ phase = "select"
    /\ client = "none"
    /\ unread = <<>> /\ heard = <<>>
    /\ difficulty = NoDifficulty
    /\ job = NoJob /\ selected = NoJob
    /\ cursor = SequentialCursor(plan, plan.max)
    /\ counted = FALSE
    /\ jobsUsed = 0 /\ replacements = 0 /\ total = 0
    /\ searches = <<>> /\ submissions = <<>>
    /\ status = "0" /\ failed = FALSE /\ logEscaped = FALSE

-------------------------------------------------------------------------------
(* The mining pool, and reading what it sent.                               *)

PoolSends ==
    /\ client = "open"
    /\ Len(heard) + Len(unread) < MaxNotifications
    /\ \E n \in Difficulties \cup {Notify} : unread' = Append(unread, n)
    /\ UNCHANGED <<poolVars, plan, phase, client, heard, loopVars, status, failed, logEscaped>>

\* The next notification, moved from unread to heard.
Read(n) ==
    /\ unread # <<>>
    /\ n = Head(unread)
    /\ unread' = Tail(unread)
    /\ heard' = Append(heard, n)

\* MiningJobAssembler.build_job: a snapshot of the difficulty now in effect.
BuildJob == [position |-> Len(heard) + 1, difficulty |-> difficulty]

-------------------------------------------------------------------------------
(* Failures: every one of them reaches the finally block.                   *)

\* The rest of a step that raises: pending_failure is set, cleanup is next.
FailAs(newStatus) ==
    /\ failed' = TRUE
    /\ status' = newStatus
    /\ phase' = "close_client"
    /\ UNCHANGED <<plan, unread, heard, loopVars, logEscaped>>

\* Something the step called raised a controlled error.
StepFails(at) ==
    /\ phase = at
    /\ Fault
    /\ FailAs("1")
    /\ UNCHANGED <<poolVarsButFaults, client>>

-------------------------------------------------------------------------------
(* Before the loop.                                                         *)

EndSelection(newStatus) ==
    /\ phase' = "ended"
    /\ status' = newStatus
    /\ UNCHANGED <<plan, client, unread, heard, loopVars, failed>>

\* _select_live_mining_components
ComponentsSelected ==
    /\ phase = "select"
    /\ step = "idle"
    /\ phase' = "connect"
    /\ UNCHANGED <<poolVars, plan, client, unread, heard, loopVars, status, failed, logEscaped>>

BackendRefused ==
    /\ phase = "select"
    /\ step = "unavailable"
    /\ EndSelection("2")
    /\ UNCHANGED <<poolVars, logEscaped>>

\* The strategy is unknown or incompatible with the selected backend.
StrategyRefused ==
    /\ phase = "select"
    /\ Fault
    /\ CloseBackend
    /\ EndSelection("2")
    /\ UNCHANGED logEscaped

\* compute_backend_selected cannot be written: the error leaves the command
\* before its try block, and nothing closes the backend.
SelectionNotLogged ==
    /\ phase = "select"
    /\ step = "idle"
    /\ Fault
    /\ logEscaped' = TRUE
    /\ EndSelection("1")
    /\ UNCHANGED poolVarsButFaults

Handshake ==
    /\ phase = "connect"
    /\ client' = "open"
    /\ phase' = "await_job"
    /\ UNCHANGED <<poolVars, plan, unread, heard, loopVars, status, failed, logEscaped>>

\* The client exists by then: cleanup closes it.
HandshakeFails ==
    /\ phase = "connect"
    /\ Fault
    /\ client' = "open"
    /\ FailAs("1")
    /\ UNCHANGED poolVarsButFaults

\* _receive_buildable_job: jobs announced before a difficulty are dropped.
ReceiveBuildableJob ==
    /\ phase = "await_job"
    /\ \E n \in Difficulties \cup {Notify} :
          /\ Read(n)
          /\ difficulty' = IF n = Notify THEN difficulty ELSE n
          /\ IF n = Notify /\ difficulty # NoDifficulty
             THEN job' = BuildJob /\ phase' = "chunk"
             ELSE UNCHANGED <<job, phase>>
    /\ UNCHANGED <<poolVars, plan, client, selected, cursor, counted, jobsUsed,
                   replacements, total, searches, submissions, status, failed, logEscaped>>

-------------------------------------------------------------------------------
(* The loop.                                                                *)

\* The next parent range of the sequential cursor, searched by the backend.
StartChunk ==
    /\ phase = "chunk"
    /\ cursor.next < cursor.limit
    /\ LET end  == cursor.next + plan.chunk
           stop == IF end < cursor.limit THEN end ELSE cursor.limit
       IN  /\ cursor' = [cursor EXCEPT !.next = stop]
           /\ StartSearch(cursor.next, stop)
           /\ searches' = Append(searches, [job |-> job, start |-> cursor.next, stop |-> stop,
                                            heard |-> Len(heard)])
    /\ jobsUsed' = IF counted THEN jobsUsed ELSE jobsUsed + 1
    /\ counted' = TRUE
    /\ phase' = "searching"
    /\ UNCHANGED <<plan, client, unread, heard, difficulty, job, selected, replacements,
                   total, submissions, status, failed, logEscaped>>

\* The locals of a search that returned a result are gone.
ForgetCall ==
    /\ returned' = Nothing
    /\ call' = NoCall
    /\ futures' = <<>>
    /\ UNCHANGED <<kind, step, executor, broken, closed, contexts, awaited, raising,
                   faults, interrupts, unjoined>>

\* Submission is the statement after a match: the client takes it at once, and
\* the match is the result whatever the pool answers.
ChunkReturns ==
    /\ phase = "searching" /\ step = "idle" /\ returned.status = "result"
    /\ total' = total + returned.hashes
    /\ IF returned.match # NoNonce
       THEN /\ submissions' = Append(submissions,
                                     [job |-> job, nonce |-> returned.match, call |-> call])
            /\ phase' = "submit"
       ELSE /\ phase' = IF total' >= plan.max THEN "close_client" ELSE "drain"
            /\ UNCHANGED submissions
    /\ ForgetCall
    /\ UNCHANGED <<plan, client, unread, heard, difficulty, job, selected, cursor, counted,
                   jobsUsed, replacements, searches, status, failed, logEscaped>>

\* A compute error is reported; a KeyboardInterrupt is raised after cleanup.
ChunkRaises ==
    /\ phase = "searching" /\ step = "idle" /\ returned.status \in {"error", "interrupt"}
    /\ FailAs(IF returned.status = "error" THEN "1" ELSE "raised")
    /\ UNCHANGED <<poolVars, client>>

\* The pool accepted or rejected the share.
SubmitAnswered ==
    /\ phase = "submit"
    /\ phase' = "close_client"
    /\ UNCHANGED <<poolVars, plan, client, unread, heard, loopVars, status, failed, logEscaped>>

\* One non-blocking poll that found a notification.
Poll ==
    /\ phase = "drain"
    /\ \E n \in Difficulties \cup {Notify} :
          /\ Read(n)
          /\ difficulty' = IF n = Notify THEN difficulty ELSE n
          /\ selected' = IF n = Notify THEN BuildJob ELSE selected
    /\ UNCHANGED <<poolVars, plan, phase, client, job, cursor, counted, jobsUsed, replacements,
                   total, searches, submissions, status, failed, logEscaped>>

\* A replacement whose cursor is given the whole budget again.
ReplacementCursorWholeBudget == SequentialCursor(plan, plan.max)

ReplacementCursor == SequentialCursor(plan, plan.max - total)

\* Nothing left to read: the newest job announced, if any, replaces the work.
PollEmpty ==
    /\ phase = "drain"
    /\ unread = <<>>
    /\ IF selected = NoJob
       THEN UNCHANGED <<job, cursor, counted, replacements>>
       ELSE /\ job' = selected
            /\ cursor' = ReplacementCursor
            /\ counted' = FALSE
            /\ replacements' = replacements + 1
    /\ selected' = NoJob
    /\ phase' = "chunk"
    /\ UNCHANGED <<poolVars, plan, client, unread, heard, difficulty, jobsUsed, total,
                   searches, submissions, status, failed, logEscaped>>

-------------------------------------------------------------------------------
(* The finally block.                                                       *)

CloseClient ==
    /\ phase = "close_client"
    /\ client' = "closed"
    /\ phase' = "close_backend"
    /\ UNCHANGED <<poolVars, plan, unread, heard, loopVars, status, failed, logEscaped>>

\* The transport raises while closing (it is closed nevertheless).
CloseClientFails ==
    /\ phase = "close_client"
    /\ Fault
    /\ client' = "closed"
    /\ phase' = "close_backend"
    /\ status' = IF failed THEN status ELSE "1"
    /\ UNCHANGED <<poolVarsButFaults, plan, unread, heard, loopVars, failed, logEscaped>>

\* ... and command_failed cannot be written either: the error leaves the
\* finally block with the backend still open.
CloseClientFailureNotLogged ==
    /\ phase = "close_client"
    /\ ~failed
    /\ Fault
    /\ client' = "closed"
    /\ logEscaped' = TRUE
    /\ phase' = "ended"
    /\ status' = "1"
    /\ UNCHANGED <<poolVarsButFaults, plan, unread, heard, loopVars, failed>>

CloseBackendLast ==
    /\ phase = "close_backend"
    /\ CloseBackend
    /\ phase' = "ended"
    /\ UNCHANGED <<faults, plan, client, unread, heard, loopVars, status, failed, logEscaped>>

\* Shutting the pool down or synchronising a device fails; every context is
\* released all the same.
CloseBackendFails ==
    /\ phase = "close_backend"
    /\ ~closed
    /\ executor # "none" \/ kind = "cuda-multi"
    /\ Fault
    /\ CloseBackend
    /\ phase' = "ended"
    /\ status' = IF ~failed /\ status = "0" THEN "1" ELSE status
    /\ UNCHANGED <<plan, client, unread, heard, loopVars, failed, logEscaped>>

\* The command is over; workers an interrupted join left behind may still run.
Ended == phase = "ended" /\ UNCHANGED vars

BackendStep == PoolNext /\ UNCHANGED commandVars

Next ==
    \/ BackendStep
    \/ PoolSends
    \/ ComponentsSelected \/ BackendRefused \/ StrategyRefused \/ SelectionNotLogged
    \/ Handshake \/ HandshakeFails
    \/ ReceiveBuildableJob \/ StartChunk \/ ChunkReturns \/ ChunkRaises
    \/ SubmitAnswered \/ Poll \/ PollEmpty
    \/ \E at \in {"await_job", "chunk", "submit", "drain"} : StepFails(at)
    \/ CloseClient \/ CloseClientFails \/ CloseClientFailureNotLogged
    \/ CloseBackendLast \/ CloseBackendFails
    \/ Ended

Spec == Init /\ [][Next]_vars

-------------------------------------------------------------------------------

Phases == {"select", "connect", "await_job", "chunk", "searching", "drain", "submit",
           "close_client", "close_backend", "ended"}
Jobs == [position : 0 .. MaxNotifications, difficulty : Difficulties \cup {NoDifficulty}]

TypeOK ==
    /\ PoolTypeOK
    /\ plan \in Plans
    /\ phase \in Phases
    /\ client \in {"none", "open", "closed"}
    /\ unread \in Seq(Difficulties \cup {Notify}) /\ heard \in Seq(Difficulties \cup {Notify})
    /\ difficulty \in Difficulties \cup {NoDifficulty}
    /\ job \in Jobs /\ selected \in Jobs
    /\ cursor.next \in 0 .. cursor.limit /\ cursor.limit \in 0 .. NonceLimit
    /\ counted \in BOOLEAN /\ failed \in BOOLEAN /\ logEscaped \in BOOLEAN
    /\ jobsUsed \in 0 .. Len(searches) /\ replacements \in 0 .. MaxNotifications
    /\ total \in 0 .. plan.max
    /\ status \in {"0", "1", "2", "raised"}

\* When the command is over, however it ended, its connection is closed and its
\* backend holds no thread pool and no device context, unless an event-log
\* error left the command past its cleanup.
BackendReleased ==
    phase = "ended" /\ ~logEscaped =>
        /\ client # "open"
        /\ executor = "none"
        /\ OpenDevices = {}

RangeSizes == [i \in DOMAIN searches |-> searches[i].stop - searches[i].start]
Assigned == Total(RangeSizes, Len(searches))

\* The hash budget is spent to the last hash and never past it: while nothing
\* matched, the chunks that returned add up to the count reported, a run
\* without a match stops at exactly max_hashes, no job has a nonce searched
\* twice, however jobs replace one another, and no range leaves the plan's.
BudgetSpentExactly ==
    /\ total <= plan.max
    /\ phase \in {"chunk", "drain"} => total = Assigned
    /\ phase = "ended" /\ status = "0" /\ submissions = <<>> =>
           total = plan.max /\ Assigned = plan.max
    /\ \A i \in DOMAIN searches :
           /\ searches[i].start >= plan.start
           /\ searches[i].stop <= plan.start + plan.max
           /\ \A k \in 1 .. i - 1 :
                  searches[k].job = searches[i].job => searches[k].stop <= searches[i].start

\* At most one share is submitted; it ends the run, and it is the lowest
\* matching nonce of the last chunk, submitted for the work that was searched,
\* whichever worker or device found it first.
LowestMatchSubmittedOnce ==
    /\ Len(submissions) <= 1
    /\ submissions # <<>> =>
           LET share == submissions[1]
               last  == searches[Len(searches)]
           IN  /\ share.job = last.job
               /\ share.call.start = last.start /\ share.call.stop = last.stop
               /\ share.nonce \in last.start .. last.stop - 1
               /\ share.call.hash[share.nonce] <= Target
               /\ \A n \in last.start .. share.nonce - 1 : share.call.hash[n] > Target
               /\ phase \in {"submit", "close_client", "close_backend", "ended"}

\* The newest job among the notifications h that arrived once a difficulty was
\* known, with the difficulty in effect when it arrived.
NewestJob(h) ==
    LET difficulties == {q \in DOMAIN h : h[q] # Notify}
        jobs == {p \in DOMAIN h : h[p] = Notify /\ \E q \in difficulties : q < p}
        newest == Max(jobs)
    IN  [position |-> newest, difficulty |-> h[Max({q \in difficulties : q < newest})]]

\* Every chunk searches the newest job read before it, under the difficulty
\* announced before that job and not a later one.
NewestJobSearched ==
    \A i \in DOMAIN searches :
        searches[i].job = NewestJob(SubSeq(heard, 1, searches[i].heard))

\* What the searches report and what reaches the pool are the lowest match.
LowestMatchReported == SameCandidateAsSequential /\ LowestMatchSubmittedOnce

\* The ranges searched spend the budget exactly, each on the newest job.
RangesRight == BudgetSpentExactly /\ NewestJobSearched
===============================================================================
