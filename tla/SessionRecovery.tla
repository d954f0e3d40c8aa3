---------------------------- MODULE SessionRecovery ---------------------------
(***************************************************************************)
(* mining/recovery.py, StratumSessionRecovery: the owner of the one usable *)
(* Stratum session.  It establishes the first session, and after a         *)
(* connection loss or a liveness violation it retries with capped          *)
(* exponential backoff until fresh usable work is installed, a stop is     *)
(* observed or the attempts are exhausted.                                 *)
(*                                                                         *)
(* One step is the code between two places where the stop flag, which a    *)
(* signal handler or the runtime limit raises at any time, may change:     *)
(* between a check of the flag and the call it guards there is a step      *)
(* boundary.  Time in a backoff is counted in sleep quanta.                *)
(***************************************************************************)
EXTENDS Integers, FiniteSets

CONSTANTS
    Policies,           \* reconnect policies [attempts, base, maximum, silence]
    MaxLosses,          \* bound: sessions the environment breaks
    MaxMessages         \* bound: notifications of one client before its work is usable

ASSUME PoliciesAssumption ==
    \A p \in Policies : /\ p.attempts \in Nat
                        /\ p.base \in Nat /\ p.base > 0
                        /\ p.maximum \in Nat /\ p.maximum > 0
                        /\ p.silence \in Nat    \* 0: no server-silence limit
ASSUME BoundsAssumption == MaxLosses \in Nat /\ MaxMessages \in Nat

VARIABLES
    policy,
    pc,             \* where the owner (or the loop that called it) stands
    initial,        \* establishing for establish_initial_session, not _retry
    attempt,        \* _retry's loop variable, 0 outside of it
    remaining,      \* quanta of the backoff still to sleep
    stop,           \* stop_token.stop_requested
    created,        \* clients the factory has made; the newest has this number
    open,           \* clients not closed
    current,        \* client of _current_session, 0 for None
    difficulty,     \* assembler.current_difficulty, 0 for None
    selected,       \* selected_job of _wait_for_usable_work
    quiet,          \* polls since last_server_activity
    stats,          \* the cumulative counters
    work,           \* initial_job of the session installed last
    losses,         \* environment: sessions broken so far
    messages,       \* environment: notifications delivered by this client
    usable,         \* history: newest job announced by this client after a difficulty
    created_at_stop \* history: clients made, or about to be made, when the stop
                    \* was requested

vars == <<policy, pc, initial, attempt, remaining, stop, created, open, current,
          difficulty, selected, quiet, stats, work, losses, messages, usable,
          created_at_stop>>

establishing == <<difficulty, selected, quiet, messages, usable>>

NoJob == [client |-> 0, number |-> 0, difficulty |-> 0]
NoStats == [attempts |-> 0, successes |-> 0, failures |-> 0, sessions |-> 0]

Returned == {"stopped", "exhausted", "raised", "closed"}

Init ==
    /\ policy \in Policies
    /\ pc = "idle"
    /\ initial = TRUE
    /\ attempt = 0
    /\ remaining = 0
    /\ stop = FALSE
    /\ created = 0
    /\ open = {}
    /\ current = 0
    /\ difficulty = 0
    /\ selected = NoJob
    /\ quiet = 0
    /\ stats = NoStats
    /\ work = NoJob
    /\ losses = 0
    /\ messages = 0
    /\ usable = NoJob
    /\ created_at_stop = 0

\* A signal, or the runtime limit: at any moment, once.
RequestStop ==
    /\ ~stop
    /\ pc \notin Returned
    /\ stop' = TRUE
    /\ created_at_stop' = created + IF pc = "connect" THEN 1 ELSE 0
    /\ UNCHANGED <<policy, pc, initial, attempt, remaining, created, open,
                   current, stats, work, losses, establishing>>

\* establish_initial_session: the stop check before anything is opened.
EstablishInitial ==
    /\ pc = "idle"
    /\ pc' = IF stop THEN "stopped" ELSE "connect"
    /\ UNCHANGED <<policy, initial, attempt, remaining, stop, created, open,
                   current, stats, work, losses, establishing, created_at_stop>>

-------------------------------------------------------------------------------
(* _establish_once and _wait_for_usable_work                               *)

\* client_factory() and handshake() succeed; a fresh seed and assembler.
Handshake ==
    /\ pc = "connect"
    /\ created' = created + 1
    /\ open' = open \cup {created'}
    /\ difficulty' = 0
    /\ selected' = NoJob
    /\ quiet' = 0
    /\ messages' = 0
    /\ usable' = NoJob
    /\ pc' = "wait"
    /\ UNCHANGED <<policy, initial, attempt, remaining, stop, current, stats,
                   work, losses, created_at_stop>>

\* After the last allowed attempt _retry raises SessionRecoveryExhaustedError.
NextAttempt(n) ==
    IF n < policy.attempts
    THEN pc' = "retry" /\ attempt' = n + 1
    ELSE pc' = "exhausted" /\ attempt' = n

\* A failure of a reconnect is counted; the first of all failures is not.
FailureCounted ==
    stats' = IF initial THEN stats
             ELSE [stats EXCEPT !.failures = @ + 1]

\* _RecoverableSessionFailure, caught by establish_initial_session, which
\* starts _retry, or by _retry itself, which goes on to its next attempt.
RecoverableFailure ==
    /\ FailureCounted
    /\ NextAttempt(attempt)
    /\ initial' = FALSE

\* handshake() raises StratumConnectionError; the finally clause closes.
HandshakeFails ==
    /\ pc = "connect"
    /\ created' = created + 1
    /\ RecoverableFailure
    /\ UNCHANGED <<policy, remaining, stop, open, current, work, losses,
                   establishing, created_at_stop>>

\* Any other error of the factory, the handshake or the seed propagates.
HandshakeRaises ==
    /\ pc = "connect"
    /\ created' = created + 1
    /\ pc' = "raised"
    /\ UNCHANGED <<policy, initial, attempt, remaining, stop, open, current,
                   stats, work, losses, establishing, created_at_stop>>

\* The polling loop does not look at the stop token.
WaitHeadIgnoringStop ==
    /\ pc = "wait"
    /\ pc' = "poll"
    /\ UNCHANGED <<policy, initial, attempt, remaining, stop, created, open, current,
                   stats, work, losses, establishing, created_at_stop>>

\* The head of the polling loop: with a stop the client is given up.
WaitHead ==
    /\ pc = "wait"
    /\ IF stop
       THEN pc' = "stopped" /\ open' = open \ {created}
       ELSE pc' = "poll" /\ UNCHANGED open
    /\ UNCHANGED <<policy, initial, attempt, remaining, stop, created, current,
                   stats, work, losses, establishing, created_at_stop>>

Heard ==
    /\ pc = "poll"
    /\ messages < MaxMessages
    /\ messages' = messages + 1
    /\ quiet' = 0
    /\ pc' = "wait"
    /\ UNCHANGED <<policy, initial, attempt, remaining, stop, created, open,
                   current, stats, work, losses, created_at_stop>>

PollDifficulty(d) ==
    /\ Heard
    /\ difficulty' = d
    /\ UNCHANGED <<selected, usable>>

\* The first announced job is kept although newer ones are queued behind it.
PollNotifyKeepingFirst ==
    /\ Heard
    /\ IF difficulty = 0
       THEN UNCHANGED <<selected, usable>>
       ELSE /\ usable' = [client |-> created, number |-> messages',
                          difficulty |-> difficulty]
            /\ selected' = IF selected = NoJob THEN usable' ELSE selected
    /\ UNCHANGED difficulty

\* Announces job number messages': it is kept only if a difficulty is known.
PollNotify ==
    /\ Heard
    /\ IF difficulty = 0
       THEN UNCHANGED <<selected, usable>>
       ELSE /\ selected' = [client |-> created, number |-> messages',
                            difficulty |-> difficulty]
            /\ usable' = selected'
    /\ UNCHANGED difficulty

\* The poll times out without a selected job.
PollNone ==
    /\ pc = "poll"
    /\ selected = NoJob
    /\ IF policy.silence # 0 /\ quiet + 1 >= policy.silence
       THEN /\ open' = open \ {created}
            /\ quiet' = quiet
            /\ RecoverableFailure
       ELSE /\ quiet' = IF policy.silence = 0 THEN quiet ELSE quiet + 1
            /\ pc' = "wait"
            /\ UNCHANGED <<open, stats, attempt, initial>>
    /\ UNCHANGED <<policy, remaining, stop, created, current, work, losses,
                   difficulty, selected, messages, usable, created_at_stop>>

\* _install_session, and in _retry the successful reconnect; attempts of a
\* later recovery start from 1 again.
InstallCounted ==
    stats' = IF initial THEN [stats EXCEPT !.sessions = @ + 1]
             ELSE [stats EXCEPT !.sessions = @ + 1, !.successes = @ + 1]

\* A drained queue with a selected job: the session is installed.
PollDrained ==
    /\ pc = "poll"
    /\ selected # NoJob
    /\ current' = created
    /\ work' = selected
    /\ InstallCounted
    /\ initial' = FALSE
    /\ attempt' = 0
    /\ pc' = "live"
    /\ UNCHANGED <<policy, remaining, stop, created, open, losses, establishing,
                   created_at_stop>>

\* The connection is lost while waiting for work; the finally clause closes.
PollFails ==
    /\ pc = "poll"
    /\ open' = open \ {created}
    /\ RecoverableFailure
    /\ UNCHANGED <<policy, remaining, stop, created, current, work, losses,
                   establishing, created_at_stop>>

PollRaises ==
    /\ pc = "poll"
    /\ open' = open \ {created}
    /\ pc' = "raised"
    /\ UNCHANGED <<policy, initial, attempt, remaining, stop, created, current,
                   stats, work, losses, establishing, created_at_stop>>

-------------------------------------------------------------------------------
(* _retry                                                                  *)

Minimum(a, b) == IF a < b THEN a ELSE b

DelayForAttempt(n) == Minimum(policy.base * 2^(n - 1), policy.maximum)

\* The check at the head of the loop body, then the delay is scheduled.
RetryHead ==
    /\ pc = "retry"
    /\ IF stop
       THEN pc' = "stopped" /\ UNCHANGED remaining
       ELSE pc' = "backoff" /\ remaining' = DelayForAttempt(attempt)
    /\ UNCHANGED <<policy, initial, attempt, stop, created, open, current, stats,
                   work, losses, establishing, created_at_stop>>

\* wait_for_reconnect_delay sleeps one quantum, the flag checked before it.
Sleep ==
    /\ pc = "backoff"
    /\ ~stop
    /\ remaining > 0
    /\ remaining' = remaining - 1
    /\ UNCHANGED <<policy, pc, initial, attempt, stop, created, open, current,
                   stats, work, losses, establishing, created_at_stop>>

\* Interrupted, or stopped by the time the delay is over.
BackoffStopped ==
    /\ pc = "backoff"
    /\ stop
    /\ pc' = "stopped"
    /\ UNCHANGED <<policy, initial, attempt, remaining, stop, created, open,
                   current, stats, work, losses, establishing, created_at_stop>>

\* The flag is not read again once the delay is over.
BackoffOverUnchecked ==
    /\ pc = "backoff"
    /\ remaining = 0
    /\ stats' = [stats EXCEPT !.attempts = @ + 1]
    /\ pc' = "connect"
    /\ UNCHANGED <<policy, initial, attempt, remaining, stop, created, open,
                   current, work, losses, establishing, created_at_stop>>

\* The delay is over and the flag was not set: the attempt is counted.
BackoffOver ==
    /\ pc = "backoff"
    /\ ~stop
    /\ remaining = 0
    /\ stats' = [stats EXCEPT !.attempts = @ + 1]
    /\ pc' = "connect"
    /\ UNCHANGED <<policy, initial, attempt, remaining, stop, created, open,
                   current, work, losses, establishing, created_at_stop>>

-------------------------------------------------------------------------------
(* The mining loop's calls while it holds a session                        *)

\* The lost session is kept while a new one is established.
RecoverKeepingSession ==
    /\ pc = "live"
    /\ losses < MaxLosses
    /\ losses' = losses + 1
    /\ IF stop
       THEN pc' = "stopped" /\ UNCHANGED attempt
       ELSE NextAttempt(0)
    /\ UNCHANGED <<policy, initial, remaining, stop, created, open, current, stats,
                   work, establishing, created_at_stop>>

\* recover_session after a StratumConnectionError, and recover_stale_session
\* after a liveness violation: the session is closed first, then stop is read.
Recover ==
    /\ pc = "live"
    /\ losses < MaxLosses
    /\ losses' = losses + 1
    /\ open' = open \ {current}
    /\ current' = 0
    /\ IF stop
       THEN pc' = "stopped" /\ UNCHANGED attempt
       ELSE NextAttempt(0)
    /\ UNCHANGED <<policy, initial, remaining, stop, created, stats, work,
                   establishing, created_at_stop>>

\* The command's finally clause: close() after the loop returned or raised.
Close ==
    /\ pc \in Returned \ {"closed"} \/ pc = "live"
    /\ open' = open \ {current}
    /\ current' = 0
    /\ pc' = "closed"
    /\ UNCHANGED <<policy, initial, attempt, remaining, stop, created, stats,
                   work, losses, establishing, created_at_stop>>

-------------------------------------------------------------------------------

Poll ==
    \/ \E d \in 1 .. 2 : PollDifficulty(d)
    \/ PollNotify
    \/ PollNone
    \/ PollDrained
    \/ PollFails
    \/ PollRaises

OwnStep ==
    \/ EstablishInitial
    \/ Handshake \/ HandshakeFails \/ HandshakeRaises
    \/ WaitHead \/ Poll
    \/ RetryHead \/ Sleep \/ BackoffStopped \/ BackoffOver

Next == RequestStop \/ OwnStep \/ Recover \/ Close

Spec == Init /\ [][Next]_vars

\* Where the owner waits in a call for the pool: the handshake or a poll, whose
\* timeouts start over with every message that is ignored.
PoolCalls == {"connect", "poll"}

\* The owner runs on the caller's thread and keeps taking the steps that need
\* nothing of the pool; whether a call ever returns is the pool's affair.
FairSpec == Spec /\ WF_vars(pc \notin PoolCalls /\ OwnStep)

-------------------------------------------------------------------------------

JobRecords == [client : 0 .. created, number : 0 .. MaxMessages, difficulty : 0 .. 2]

TypeOK ==
    /\ policy \in Policies
    /\ pc \in {"idle", "connect", "wait", "poll", "retry", "backoff", "live"}
               \cup Returned
    /\ initial \in BOOLEAN
    /\ attempt \in 0 .. policy.attempts
    /\ remaining \in 0 .. policy.maximum
    /\ stop \in BOOLEAN
    /\ created \in Nat
    /\ open \subseteq 1 .. created
    /\ current \in 0 .. created
    /\ difficulty \in 0 .. 2
    /\ selected \in JobRecords
    /\ quiet \in 0 .. policy.silence
    /\ stats \in [attempts : Nat, successes : Nat, failures : Nat, sessions : Nat]
    /\ work \in JobRecords
    /\ losses \in 0 .. MaxLosses
    /\ messages \in 0 .. MaxMessages
    /\ usable \in JobRecords
    /\ created_at_stop \in 0 .. created + 1

\* At most one client is open: the newest, and only while it is being
\* established or carries the current session.  Whatever way the owner is
\* left - loss, stop, exhaustion, an error - no connection is left behind.
OneOpenClient ==
    /\ open = IF pc \in {"wait", "poll"} THEN {created}
              ELSE IF pc = "live" THEN {current} ELSE {}
    /\ pc = "live" <=> current # 0
    /\ current # 0 => current = created

\* Every reconnect attempt ends as a success or a failure, except one cut off
\* by a stop or an error; sessions are the reconnects plus the first one; and
\* no loss costs more than the policy's attempts.
AttemptsAccounted ==
    /\ stats.attempts - stats.successes - stats.failures
          \in IF pc \in {"connect", "wait", "poll"} /\ ~initial THEN {1}
             ELSE IF pc \in {"stopped", "raised", "closed"} THEN {0, 1}
             ELSE {0}
    /\ stats.sessions - stats.successes \in {0, 1}
    /\ stats.attempts <= policy.attempts * (losses + 1)

\* The work a session starts with was announced on that session's own client,
\* after a difficulty of that client, and is its newest such announcement:
\* nothing of an earlier client or from before the difficulty is mined.
InstalledWorkIsNewest ==
    pc = "live" => /\ work = usable
                   /\ work.client = current
                   /\ work.difficulty # 0

\* A connection attempt whose last stop check lies before the stop is still
\* made; after it no client is opened any more, however many attempts the
\* policy has left ("no new range or reconnect attempt begins afterward",
\* ARCHITECTURE.md).
StopBoundsConnections == stop => created <= created_at_stop

\* Connections are neither leaked nor shared, and the one in use carries the
\* newest work announced on it.
InstalledSessionSound == OneOpenClient /\ InstalledWorkIsNewest

\* Each connection made is accounted for, and a policy and a stop bound them.
ConnectionsAccounted == AttemptsAccounted /\ StopBoundsConnections

\* No call of the pool stays pending for good.
CallsReturn == []<>(pc \notin PoolCalls)

\* A requested stop interrupts backoff and waiting for work: as long as the calls
\* it has under way return, the owner hands control back, if need be with the
\* session it was just installing.
StopReturns == CallsReturn => (stop ~> (pc \in Returned \cup {"live"}))

\* The owner implements the session lifecycle the mining loop relies on.
Lifecycle == INSTANCE SessionLifecycle
                WITH held <- current, newest <- work.client,
                     sessions <- stats.sessions, closed <- (pc = "closed")
LifecycleSpec == Lifecycle!Spec
===============================================================================
