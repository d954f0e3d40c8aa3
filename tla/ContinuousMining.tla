--------------------------- MODULE ContinuousMining ---------------------------
(***************************************************************************)
(* mining/continuous.py, run_continuous_mining: the loop that owns the     *)
(* current job, its work variant and search cursor, and decides after      *)
(* every searched range whether to submit, stop, recover the session,      *)
(* switch to a newer job, go on or advance to the next variant.            *)
(*                                                                         *)
(* A step is the code between two points where the world may interfere:    *)
(* a signal or the deadline sets the stop token, a liveness threshold is   *)
(* crossed, the pool's next message arrives.  The messages a poll returns  *)
(* are chosen when it is made.  A parent range is its number in the search *)
(* strategy's order (NonceCover), a variant its index in the job's         *)
(* progression (WorkProgression), a recovery its outcome (SessionRecovery).*)
(***************************************************************************)
EXTENDS Integers, FiniteSets

CONSTANTS
    Plans,          \* [max_chunks (0: none), ranges, space, paced]
    Contexts,       \* pool contexts of announcements, difficulty left out
    EffectOf,       \* context -> [base, time]: what its header is made from; two
                    \* spellings of one job are two contexts with one effect
    MaxNetworkTime, \* 0xffffffff in the program
    Difficulties,
    NoJob,          \* stands for None
    MaxMessages,    \* bound: pool notifications received
    MaxSessions,    \* bound: sessions, the initial one included
    MaxSearches     \* bound: ranges searched when the plan has no limit

ASSUME PlansAssumption ==
    \A p \in Plans : /\ p.max_chunks \in Nat
                     /\ p.ranges \in Nat /\ p.ranges > 0
                     /\ p.space \in Nat /\ p.space > 0
                     /\ p.paced \in BOOLEAN
ASSUME EffectAssumption ==
    /\ MaxNetworkTime \in Nat
    /\ \A c \in Contexts : EffectOf[c].time \in 0 .. MaxNetworkTime
ASSUME BoundsAssumption ==
    MaxMessages \in Nat /\ MaxSessions \in Nat \ {0} /\ MaxSearches \in Nat

VARIABLES
    plan,
    pc,
    session,        \* the session recovery holds (its index)
    bound,          \* the session each of the current_* callables belongs to
    difficulty,     \* current_assembler's difficulty
    current,        \* current_job, its variant, cursor and searched flags
    last_ignored,   \* last_ignored_pool_identity
    match,          \* the range result's match while it is handled
    drain,          \* who drains, the job that woke it, the newest drained job
    token,          \* StopController: deadline passed, first observed cause
    stale,          \* liveness limits crossed: "silence", "job_age"
    count,          \* the cumulative counters of the result
    outcome,
    stop_event,     \* observer.stop_requested was called
    messages,       \* environment: notifications received
    latest,         \* history: newest job announced in this session
    chunks_at_stop  \* history: chunks completed when the stop became visible

vars == <<plan, pc, session, bound, difficulty, current, last_ignored, match,
          drain, token, stale, count, outcome, stop_event, messages, latest,
          chunks_at_stop>>

history == <<latest, chunks_at_stop>>
work_state == <<session, bound, difficulty, current, last_ignored>>

-------------------------------------------------------------------------------
(* Jobs, identities and the stop token                                     *)

Jobs == [session : 1 .. MaxSessions, context : Contexts, difficulty : Difficulties]

ASSUME NoJobAssumption == NoJob \notin Jobs

\* mining_job_context_identity: every field of the announcement counts.
ContextIdentity(job) == <<job.session, job.context, job.difficulty>>

NetworkTime(job, variant) == EffectOf[job.context].time + variant \div plan.space

\* mining_work_identity: job, header prefix and targets of a prepared variant.
\* The session stands for the extra nonce 1 and the seed it brings.
WorkIdentity(job, variant) ==
    <<job.session, EffectOf[job.context].base, job.difficulty,
      NetworkTime(job, variant), variant % plan.space>>

\* MiningWorkCursor.start and a fresh strategy cursor.
Fresh(job) ==
    [job |-> job, variant |-> 0, issued |-> 0, hashed |-> 0,
     work_searched |-> FALSE, job_searched |-> FALSE]

\* Shares would still be submitted through the first session's closure.
ReboundKeepingSubmit(new) ==
    [assembler |-> new, receive |-> new, submit |-> 1, seed |-> new]

\* current_assembler, _receive_notification, _submit_share, _extra_nonce_2_seed.
Rebound(new) ==
    [assembler |-> new, receive |-> new, submit |-> new, seed |-> new]

\* The deadline is never looked at.
StopRequestedByUserOnly == token.reason # "none"

StopRequested == token.expired \/ token.reason # "none"

\* Reading the token observes the deadline; the first observed cause stays.
Observed ==
    IF token.reason = "none" /\ token.expired
    THEN [token EXCEPT !.reason = "runtime_limit_reached"]
    ELSE token

ObserveStop ==
    /\ token' = Observed
    /\ stop_event' = (stop_event \/ StopRequested)

NoDrain == [source |-> "none", woken |-> NoJob, newest |-> NoJob]
NoMatch == [found |-> FALSE, network |-> FALSE, complete |-> TRUE]

Exhausted == current.issued = plan.ranges

ChunkLimit == plan.max_chunks # 0 /\ count.chunks >= plan.max_chunks

Init ==
    /\ plan \in Plans
    /\ pc = "start"
    /\ session = 1
    /\ bound = Rebound(1)
    /\ difficulty \in Difficulties
    /\ \E job \in Jobs : /\ job.session = 1
                         /\ current = Fresh(job)
                         /\ latest = job
    /\ last_ignored = NoJob
    /\ match = NoMatch
    /\ drain = NoDrain
    /\ token = [expired |-> FALSE, reason |-> "none"]
    /\ stale = {}
    /\ count = [chunks |-> 0, jobs |-> 0, replacements |-> 0, variants |-> 0,
                advances |-> 0, cycles |-> 0, rolls |-> 0, duplicates |-> 0,
                candidates |-> 0, accepted |-> 0, rejected |-> 0]
    /\ outcome = "none"
    /\ stop_event = FALSE
    /\ messages = 0
    /\ chunks_at_stop = 0

Ended == {"finished", "raised"}

-------------------------------------------------------------------------------
(* The world                                                               *)

\* request_stop from a signal handler: only the first cause counts.
Signal ==
    /\ pc \notin Ended
    /\ token.reason = "none"
    /\ token' = [token EXCEPT !.reason = "stopped_by_user"]
    /\ chunks_at_stop' = IF StopRequested THEN chunks_at_stop ELSE count.chunks
    /\ UNCHANGED <<plan, pc, work_state, match, drain, stale, count, outcome,
                   stop_event, messages, latest>>

DeadlinePasses ==
    /\ pc \notin Ended
    /\ ~token.expired
    /\ token.reason = "none"
    /\ token' = [token EXCEPT !.expired = TRUE]
    /\ chunks_at_stop' = count.chunks
    /\ UNCHANGED <<plan, pc, work_state, match, drain, stale, count, outcome,
                   stop_event, messages, latest>>

\* A limit matters where it is next read: at these points, or after a search.
LimitCrossed(limit) ==
    /\ pc \in {"head", "searching", "pacing", "waiting_poll"}
    /\ limit \notin stale
    /\ stale' = stale \cup {limit}
    /\ UNCHANGED <<plan, pc, work_state, match, drain, token, count, outcome,
                   stop_event, messages, history>>

-------------------------------------------------------------------------------
(* Ways to leave                                                           *)

Finish(result) ==
    /\ pc' = "finished"
    /\ outcome' = result

\* Every controlled stop is reported as the user's.
FinishStoppedByUser ==
    /\ token' = Observed
    /\ Finish("stopped_by_user")
    /\ stop_event' = TRUE
    /\ UNCHANGED <<plan, work_state, match, drain, stale, count, messages, history>>

\* finish_stopped: only a user stop is reported as a stop event.
FinishStopped ==
    /\ token' = Observed
    /\ Finish(token'.reason)
    /\ stop_event' = (stop_event \/ token'.reason = "stopped_by_user")
    /\ UNCHANGED <<plan, work_state, match, drain, stale, count, messages, history>>

\* The early return before anything is prepared.
StartStopped ==
    /\ pc = "start"
    /\ StopRequested
    /\ FinishStopped

Begin ==
    /\ pc = "start"
    /\ ~StopRequested
    /\ pc' = "head"
    /\ UNCHANGED <<plan, work_state, match, drain, token, stale, count, outcome,
                   stop_event, messages, history>>

\* The waiting loop does not look at the stop token.
StopSeenNotWaiting ==
    /\ \/ pc \in {"head", "boundary", "pacing"}
       \/ pc = "drained" /\ drain.source # "pacing"
    /\ StopRequested
    /\ FinishStopped

\* The explicit stop checks of the loop, and of the loops inside it.
StopSeen ==
    /\ \/ pc \in {"head", "boundary", "pacing", "waiting"}
       \/ pc = "drained" /\ drain.source # "pacing"
    /\ StopRequested
    /\ FinishStopped

\* A limit was crossed: the stale session is given up, and a candidate with it.
StaleSeen ==
    /\ pc \in {"head", "pacing"}
    /\ ~StopRequested
    /\ stale # {}
    /\ pc' = "recovering"
    /\ UNCHANGED <<plan, work_state, match, drain, token, stale, count, outcome,
                   stop_event, messages, history>>

ChunkLimitReached ==
    /\ pc \in {"head", "boundary"}
    /\ ~StopRequested
    /\ pc = "head" => stale = {}
    /\ ChunkLimit
    /\ Finish("chunk_limit_reached")
    /\ UNCHANGED <<plan, work_state, match, drain, token, stale, count,
                   stop_event, messages, history>>

-------------------------------------------------------------------------------
(* One parent range                                                        *)

\* The next assignment is taken and its search starts; the first range of a
\* variant, and of a job, is where they are counted as used.
SearchStarts ==
    /\ pc = "head"
    /\ ~StopRequested
    /\ stale = {}
    /\ ~ChunkLimit
    /\ count.chunks < MaxSearches
    /\ current' = [current EXCEPT !.issued = @ + 1, !.work_searched = TRUE,
                                  !.job_searched = TRUE]
    /\ count' = [count EXCEPT !.variants = IF current.work_searched THEN @ ELSE @ + 1,
                              !.jobs = IF current.job_searched THEN @ ELSE @ + 1]
    /\ pc' = "searching"
    /\ UNCHANGED <<plan, session, bound, difficulty, last_ignored, match, drain,
                   token, stale, outcome, stop_event, messages, history>>

\* Backends may stop at the first match, leaving the rest of a range unhashed.
SearchResults ==
    {NoMatch} \cup [found : {TRUE}, network : BOOLEAN, complete : BOOLEAN]

\* The result is counted; a match found by a session that went stale meanwhile
\* is suppressed.
SearchCompletes ==
    /\ pc = "searching"
    /\ \E result \in SearchResults :
          /\ current' = [current EXCEPT !.hashed = IF result.complete THEN @ + 1 ELSE @]
          /\ match' = IF stale = {} THEN result ELSE NoMatch
          /\ pc' = IF stale # {} THEN "recovering"
                   ELSE IF result.found THEN "candidate" ELSE "boundary"
    /\ count' = [count EXCEPT !.chunks = @ + 1]
    /\ UNCHANGED <<plan, session, bound, difficulty, last_ignored, drain, token,
                   stale, outcome, stop_event, messages, history>>

\* The candidate is reported, the stop token read before and after.
CandidateFound ==
    /\ pc = "candidate"
    /\ ObserveStop
    /\ count' = [count EXCEPT !.candidates = @ + 1]
    /\ pc' = "submit"
    /\ UNCHANGED <<plan, work_state, match, drain, stale, outcome, messages, history>>

\* A Boolean answer, or a StratumRequestError that carries the pool's reason:
\* both are definite.  The token is read before and after it is reported.
Submit(accepted) ==
    /\ pc = "submit"
    /\ count' = IF accepted THEN [count EXCEPT !.accepted = @ + 1]
                ELSE [count EXCEPT !.rejected = @ + 1]
    /\ stale' = stale \ {"silence"}
    /\ ObserveStop
    /\ pc' = IF accepted THEN "accepted" ELSE "rejected"
    /\ UNCHANGED <<plan, work_state, match, drain, outcome, messages, history>>

\* Anything else - a lost connection, a timeout, an unclassified request
\* failure - leaves the outcome of the share unknown and is terminal.
SubmitRaises ==
    /\ pc = "submit"
    /\ pc' = "raised"
    /\ UNCHANGED <<plan, work_state, match, drain, token, stale, count, outcome,
                   stop_event, messages, history>>

\* Forgets that a range may be left partly searched.
ShareEndsUnlessPartial == match.network \/ StopRequested

\* A share ends the run if it solves a block, if part of its range was not
\* hashed, or if a stop is pending; otherwise mining goes on.
ShareEnds == match.network \/ ~match.complete \/ StopRequested

ShareOutcome == IF pc = "accepted" THEN "share_accepted" ELSE "share_rejected"

ShareHandled ==
    /\ pc \in {"accepted", "rejected"}
    /\ token' = Observed
    /\ IF ShareEnds
       THEN Finish(ShareOutcome)
       ELSE pc' = "boundary" /\ UNCHANGED outcome
    /\ match' = NoMatch
    /\ UNCHANGED <<plan, work_state, drain, stale, count, stop_event, messages, history>>

-------------------------------------------------------------------------------
(* Between two ranges: notifications, pacing, progression, waiting          *)

StartDrain(source, woken) ==
    /\ drain' = [source |-> source, woken |-> woken, newest |-> NoJob]
    /\ pc' = "drain"

Boundary ==
    /\ pc = "boundary"
    /\ ~StopRequested
    /\ ~ChunkLimit
    /\ StartDrain("boundary", NoJob)
    /\ UNCHANGED <<plan, work_state, match, token, stale, count, outcome,
                   stop_event, messages, history>>

Announced(context) ==
    [session |-> bound.assembler, context |-> context, difficulty |-> difficulty]

\* Polls of the session: _apply_notification and the liveness clocks.
ReceiveDifficulty(d) ==
    /\ messages < MaxMessages
    /\ messages' = messages + 1
    /\ difficulty' = d
    /\ stale' = stale \ {"silence"}
    /\ UNCHANGED latest

ReceiveJob(context) ==
    /\ messages < MaxMessages
    /\ messages' = messages + 1
    /\ latest' = Announced(context)
    /\ stale' = {}
    /\ UNCHANGED difficulty

\* Each loop reads the token, and the pacing loop the limits, before a poll.
PollBegins ==
    /\ pc \in {"drain", "pacing", "waiting"}
    /\ ~StopRequested
    /\ pc = "pacing" => stale = {}
    /\ pc' = CASE pc = "drain" -> "drain_poll"
               [] pc = "pacing" -> "pacing_poll"
               [] pc = "waiting" -> "waiting_poll"
    /\ UNCHANGED <<plan, work_state, match, drain, token, stale, count, outcome,
                   stop_event, messages, history>>

DrainStep ==
    /\ pc = "drain_poll"
    /\ pc' = "drain"
    /\ \/ \E d \in Difficulties : ReceiveDifficulty(d) /\ UNCHANGED drain
       \/ \E c \in Contexts : /\ ReceiveJob(c)
                              /\ drain' = [drain EXCEPT !.newest = Announced(c)]
    /\ UNCHANGED <<plan, session, bound, current, last_ignored, match, token,
                   count, outcome, stop_event, chunks_at_stop>>

\* An empty queue or a stop ends the drain.
DrainEnds ==
    /\ \/ pc = "drain" /\ StopRequested /\ token' = Observed
       \/ pc = "drain_poll" /\ UNCHANGED token
    /\ pc' = "drained"
    /\ UNCHANGED <<plan, work_state, match, drain, stale, count, outcome,
                   stop_event, messages, history>>

\* A poll raises StratumConnectionError: what was drained is dropped with it.
ConnectionLost ==
    /\ pc \in {"drain_poll", "pacing_poll", "waiting_poll"}
    /\ pc' = "recovering"
    /\ drain' = NoDrain
    /\ UNCHANGED <<plan, work_state, match, token, stale, count, outcome,
                   stop_event, messages, history>>

\* The job that woke the loop wins over the ones queued behind it.
SelectedFirst == IF drain.woken # NoJob THEN drain.woken ELSE drain.newest

\* The job a drain ends with: the newest drained one, or the one that woke it.
Selected == IF drain.newest # NoJob THEN drain.newest ELSE drain.woken

\* Where control goes when there is nothing new to switch to.
AfterDrain ==
    CASE drain.source = "boundary" -> IF plan.paced THEN "pacing" ELSE "advance"
      [] OTHER -> drain.source

\* select_pool_job: the same context as the current or the last ignored one.
KnownContext(job) ==
    \E known \in {current.job, last_ignored} \ {NoJob} :
        ContextIdentity(job) = ContextIdentity(known)

IgnoreContext(job) ==
    /\ KnownContext(job)
    /\ count' = [count EXCEPT !.duplicates = @ + 1]
    /\ pc' = AfterDrain
    /\ UNCHANGED <<current, last_ignored>>

\* A new context that prepares the very variant being searched.
IgnoreEffective(job) ==
    /\ ~KnownContext(job)
    /\ WorkIdentity(job, 0) = WorkIdentity(current.job, current.variant)
    /\ count' = [count EXCEPT !.duplicates = @ + 1]
    /\ last_ignored' = job
    /\ pc' = AfterDrain
    /\ UNCHANGED current

\* The replacement inherits the searched flag of the job it replaces.
ReplaceKeepingSearched(job) ==
    /\ ~KnownContext(job)
    /\ WorkIdentity(job, 0) # WorkIdentity(current.job, current.variant)
    /\ count' = [count EXCEPT !.replacements = @ + 1]
    /\ current' = [Fresh(job) EXCEPT !.job_searched = current.job_searched]
    /\ last_ignored' = NoJob
    /\ pc' = "head"

\* New work: progression and search restart from the session's seed.
Replace(job) ==
    /\ ~KnownContext(job)
    /\ WorkIdentity(job, 0) # WorkIdentity(current.job, current.variant)
    /\ count' = [count EXCEPT !.replacements = @ + 1]
    /\ current' = Fresh(job)
    /\ last_ignored' = NoJob
    /\ pc' = "head"

\* Only the pacing loop selects without looking at the stop token first.
Select ==
    /\ pc = "drained"
    /\ drain.source # "pacing" => ~StopRequested
    /\ IF Selected = NoJob
       THEN pc' = AfterDrain /\ UNCHANGED <<count, current, last_ignored>>
       ELSE \/ IgnoreContext(Selected)
            \/ IgnoreEffective(Selected)
            \/ Replace(Selected)
    /\ drain' = NoDrain
    /\ UNCHANGED <<plan, session, bound, difficulty, match, token, stale, outcome,
                   stop_event, messages, history>>

PollingLoop == IF pc = "pacing_poll" THEN "pacing" ELSE "waiting"

\* A poll of the pacing or the waiting loop returns a notification.
WakeUp ==
    /\ pc \in {"pacing_poll", "waiting_poll"}
    /\ \/ \E d \in Difficulties : ReceiveDifficulty(d) /\ StartDrain(PollingLoop, NoJob)
       \/ \E c \in Contexts : ReceiveJob(c) /\ StartDrain(PollingLoop, Announced(c))
    /\ UNCHANGED <<plan, session, bound, current, last_ignored, match, token,
                   count, outcome, stop_event, chunks_at_stop>>

PacingOver ==
    /\ pc = "pacing"
    /\ ~StopRequested
    /\ stale = {}
    /\ pc' = "advance"
    /\ UNCHANGED <<plan, work_state, match, drain, token, stale, count, outcome,
                   stop_event, messages, history>>

\* A poll comes back empty.  Only then does the waiting loop look at the limits.
PollNone ==
    /\ pc \in {"pacing_poll", "waiting_poll"}
    /\ pc = "waiting_poll" => stale = {}
    /\ pc' = PollingLoop
    /\ UNCHANGED <<plan, work_state, match, drain, token, stale, count, outcome,
                   stop_event, messages, history>>

WaitingStale ==
    /\ pc = "waiting_poll"
    /\ stale # {}
    /\ pc' = "recovering"
    /\ UNCHANGED <<plan, work_state, match, drain, token, stale, count, outcome,
                   stop_event, messages, history>>

-------------------------------------------------------------------------------
(* Progression: MiningWorkCursor.advance once a variant is exhausted         *)

NextRange ==
    /\ pc = "advance"
    /\ ~Exhausted
    /\ pc' = "head"
    /\ UNCHANGED <<plan, work_state, match, drain, token, stale, count, outcome,
                   stop_event, messages, history>>

CycleOpen == (current.variant + 1) % plan.space # 0

TimeLeft == NetworkTime(current.job, current.variant) < MaxNetworkTime

\* The successor is searched afresh, as a variant of the same job.
NextVariant ==
    [current EXCEPT !.variant = @ + 1, !.issued = 0, !.hashed = 0,
                    !.work_searched = FALSE]

AdvanceExtraNonce ==
    /\ pc = "advance"
    /\ Exhausted
    /\ CycleOpen
    /\ current' = NextVariant
    /\ count' = [count EXCEPT !.advances = @ + 1]
    /\ pc' = "head"
    /\ UNCHANGED <<plan, session, bound, difficulty, last_ignored, match, drain,
                   token, stale, outcome, stop_event, messages, history>>

RollNetworkTime ==
    /\ pc = "advance"
    /\ Exhausted
    /\ ~CycleOpen
    /\ TimeLeft
    /\ current' = NextVariant
    /\ count' = [count EXCEPT !.advances = @ + 1, !.cycles = @ + 1, !.rolls = @ + 1]
    /\ pc' = "head"
    /\ UNCHANGED <<plan, session, bound, difficulty, last_ignored, match, drain,
                   token, stale, outcome, stop_event, messages, history>>

WaitForJob ==
    /\ pc = "advance"
    /\ Exhausted
    /\ ~CycleOpen
    /\ ~TimeLeft
    /\ count' = [count EXCEPT !.cycles = @ + 1]
    /\ pc' = "waiting"
    /\ UNCHANGED <<plan, work_state, match, drain, token, stale, outcome,
                   stop_event, messages, history>>

-------------------------------------------------------------------------------
(* Outcomes of a recovery (SessionRecovery)                                  *)

\* A job lost before its first range would be counted as replaced.
CountRecoveredAlways == [count EXCEPT !.replacements = @ + 1]

CountRecovered ==
    [count EXCEPT !.replacements = IF current.job_searched THEN @ + 1 ELSE @]

\* install_recovered_session: every callable now belongs to the new session.
\* Work that was never searched is not counted as replaced.
RecoverInstalled ==
    /\ pc = "recovering"
    /\ session < MaxSessions
    /\ session' = session + 1
    /\ bound' = Rebound(session')
    /\ difficulty' \in Difficulties
    /\ \E c \in Contexts, d \in Difficulties :
          LET job == [session |-> session', context |-> c, difficulty |-> d]
          IN  /\ current' = Fresh(job)
              /\ latest' = job
    /\ last_ignored' = NoJob
    /\ count' = CountRecovered
    /\ stale' = {}
    /\ pc' = "head"
    /\ UNCHANGED <<plan, match, drain, token, outcome, stop_event, messages,
                   chunks_at_stop>>

\* A stop interrupts the recovery, which then returns None.
RecoverStopped ==
    /\ pc = "recovering"
    /\ StopRequested
    /\ FinishStopped

\* The policy is used up, or the pool refused the miner.
RecoverFails ==
    /\ pc = "recovering"
    /\ pc' = "raised"
    /\ UNCHANGED <<plan, work_state, match, drain, token, stale, count, outcome,
                   stop_event, messages, history>>

-------------------------------------------------------------------------------
Liveness == \E limit \in {"silence", "job_age"} : LimitCrossed(limit)

SubmitAnswered == \E accepted \in BOOLEAN : Submit(accepted)

Loop ==
    \/ StartStopped \/ Begin \/ StopSeen \/ StaleSeen \/ ChunkLimitReached
    \/ SearchStarts \/ SearchCompletes
    \/ CandidateFound \/ SubmitAnswered \/ SubmitRaises \/ ShareHandled
    \/ Boundary \/ PollBegins \/ DrainStep \/ DrainEnds \/ ConnectionLost \/ Select
    \/ WakeUp \/ PollNone \/ PacingOver \/ WaitingStale
    \/ NextRange \/ AdvanceExtraNonce \/ RollNetworkTime \/ WaitForJob
    \/ RecoverInstalled \/ RecoverStopped \/ RecoverFails

Finished == pc \in Ended /\ UNCHANGED vars

Next == Signal \/ DeadlinePasses \/ Liveness \/ Loop \/ Finished

Spec == Init /\ [][Next]_vars

\* Where the loop waits in a call for the pool, which may answer with messages
\* that are ignored, and start the call's timeout over, for as long as it likes.
PoolCalls == {"submit", "drain_poll", "pacing_poll", "waiting_poll", "recovering"}

\* The loop runs on, and the search of a range ends, wherever nothing is needed
\* of the pool; whether a call ever returns is the pool's affair.
FairSpec == Spec /\ WF_vars(pc \notin PoolCalls /\ Loop)

-------------------------------------------------------------------------------
(* Properties                                                                *)

Steps == {"start", "head", "searching", "candidate", "submit", "accepted",
          "rejected", "boundary", "drain", "drain_poll", "drained", "pacing",
          "pacing_poll", "advance", "waiting", "waiting_poll", "recovering"}
         \cup Ended

StopCauses == {"stopped_by_user", "runtime_limit_reached"}

Outcomes == StopCauses \cup {"chunk_limit_reached", "share_accepted", "share_rejected"}

\* Every part of the loop's state keeps its shape.
TypeOK ==
    /\ plan \in Plans
    /\ pc \in Steps
    /\ session \in 1 .. MaxSessions
    /\ bound \in [{"assembler", "receive", "submit", "seed"} -> 1 .. MaxSessions]
    /\ difficulty \in Difficulties
    /\ current \in [job : Jobs, variant : Nat, issued : Nat, hashed : Nat,
                    work_searched : BOOLEAN, job_searched : BOOLEAN]
    /\ current.hashed <= current.issued /\ current.issued <= plan.ranges
    /\ last_ignored \in Jobs \cup {NoJob}
    /\ match \in [found : BOOLEAN, network : BOOLEAN, complete : BOOLEAN]
    /\ drain \in [source : {"none", "boundary", "pacing", "waiting"},
                  woken : Jobs \cup {NoJob}, newest : Jobs \cup {NoJob}]
    /\ token \in [expired : BOOLEAN, reason : {"none"} \cup StopCauses]
    /\ stale \subseteq {"silence", "job_age"}
    /\ count \in [{"chunks", "jobs", "replacements", "variants", "advances",
                   "cycles", "rolls", "duplicates", "candidates", "accepted",
                   "rejected"} -> Nat]
    /\ outcome \in {"none"} \cup Outcomes
    /\ stop_event \in BOOLEAN
    /\ messages \in 0 .. MaxMessages
    /\ latest \in Jobs
    /\ chunks_at_stop \in Nat

Searched == IF current.job_searched THEN 1 ELSE 0

\* Every job that was searched was either replaced or is the current one, over
\* any sequence of replacements, recoveries and jobs lost before their first
\* range: the two totals of the session never drift apart.
JobsAccounted == count.jobs = count.replacements + Searched

\* ContinuousMiningResult.__post_init__: whichever return ends the run, the
\* counters it reports are consistent, so reporting the result never raises.
ResultAccepted ==
    pc = "finished" =>
        /\ count.jobs <= count.chunks
        /\ count.variants <= count.chunks
        /\ count.replacements <= count.chunks
        /\ count.accepted + count.rejected <= count.candidates
        /\ plan.max_chunks # 0 => count.chunks <= plan.max_chunks

\* A share is sent through the session whose job it solves: after a recovery no
\* candidate, and no callable, of the session before it is used.
SharesGoThroughOwnSession ==
    /\ \A callable \in DOMAIN bound : bound[callable] = session
    /\ pc = "submit" => current.job.session = bound.submit

\* No range is searched for a job that a newer announcement has superseded: at
\* every search the current work is that of the newest job received, however
\* many were queued, drained or ignored as duplicates on the way.
NewestJobMined ==
    pc = "searching" =>
        /\ current.job.session = latest.session
        /\ current.job.difficulty = latest.difficulty
        /\ EffectOf[current.job.context].base = EffectOf[latest.context].base

\* A stop lets at most the range being searched complete.
StopBoundsWork ==
    token.expired \/ token.reason # "none" => count.chunks <= chunks_at_stop + 1

\* A variant is left for the next one, or for a new job to wait for, only after
\* every nonce of it was hashed: a backend that stopped at a match inside a
\* range must not make the rest of the range look searched.
VariantLeftOnlyWhenCovered ==
    [][ \/ current'.job = current.job /\ current'.variant # current.variant
        \/ pc = "advance" /\ pc' = "waiting"
        => current.hashed = plan.ranges ]_vars

\* The reported cause of a controlled stop is the one the token observed first,
\* and a stop by the user is always reported as an event as well.
StopReportedTruthfully ==
    pc = "finished" /\ outcome \in StopCauses =>
        /\ outcome = token.reason
        /\ outcome = "runtime_limit_reached" => token.expired
        /\ outcome = "stopped_by_user" => stop_event

\* docs/04-observability.md: a runtime expiry "is not mislabeled as a user
\* request", so only a user's stop may be reported as a stop event.
RuntimeExpiryNotMislabeled == stop_event => token.reason = "stopped_by_user"

\* No call of the pool stays pending for good.
CallsReturn == []<>(pc \notin PoolCalls)

\* Wherever a stop finds the loop - searching, submitting, draining, pacing,
\* waiting or recovering - the loop ends, as long as the calls it makes return.
StopTerminates == CallsReturn => (StopRequested ~> pc \in Ended)

===============================================================================
