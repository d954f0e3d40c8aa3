---------------------------- MODULE SessionEvents ----------------------------
(***************************************************************************)
(* What the Stratum commands do inside their try block, seen from the      *)
(* event log: the observers that turn the steps of a session into events   *)
(* (_ChunkedEventObserver, _ContinuousEventObserver) and the sessions of   *)
(* the handshake, the observation and bounded mining, which the command    *)
(* line drives itself.  What chunked and continuous mining decide is in    *)
(* ChunkedMining, ContinuousMining and SessionRecovery; here only the      *)
(* order of their events is kept.                                          *)
(***************************************************************************)
EXTENDS CommandFrame

CONSTANTS
    MaxNotices,    \* bound: notifications heard in one session
    MaxAttempts,   \* maximum_attempts of the reconnect policy
    Hashes         \* the best hash values a range may have

VARIABLES
    session,       \* the session of the current command
    sent           \* shares the current command sent to the pool

sessionVars == <<session, sent>>

ASSUME SessionAssumption ==
    /\ {MaxNotices, MaxAttempts} \subseteq Nat
    /\ Hashes \subseteq Nat

NoHash == 99

Fresh == [step |-> "connect", heard |-> {}, notices |-> 0, ranges |-> 0,
          hash |-> 0, best |-> NoHash, match |-> FALSE, verdict |-> "none",
          losses |-> 0, attempts |-> 0, turns |-> 0, stopped |-> FALSE,
          (* What the next range begins: a job, a variant of one, or       *)
          (* nothing; and where to go back when a job was no news.         *)
          fresh |-> "job", back |-> "none",
          (* A stale session: "no", "recovering", "recovered"; and the     *)
          (* error that ended its recovery.                                *)
          stale |-> "no", error |-> "none"]

SessionInit == session = Fresh /\ sent = 0

(* Bound: how often a session takes one of the longer ways around. *)
MayTurn == command = "stratum-mine" /\ session.turns < limits.turns

At(step) ==
    pc = "session" /\ command \notin BitcoinCommands /\ session.step = step

(* The session goes on with s. *)
Continue(s) ==
    /\ session' = s
    /\ UNCHANGED <<schedule, command, pc, status, pending, leaving, outcome,
                   ended>>

Step(next) == Continue([session EXCEPT !.step = next])

Done(result) ==
    /\ pc' = "client"
    /\ outcome' = result
    /\ UNCHANGED <<schedule, command, status, pending, leaving, ended, session>>

Escape(error) == Raise(error) /\ UNCHANGED session

(* What goes wrong while a stale session is recovered is reported first.   *)
Fails(error) ==
    IF session.stale = "recovering"
    THEN Continue([session EXCEPT !.step = "stale_failed", !.error = error])
    ELSE Escape(error)

(* An observer method: its event is written, or it raises EventLogError    *)
(* and what the method was called before does not happen.                  *)
Observe(event, level, value, then) ==
    /\ Say(event, level, value, then, Fails("log"))
    /\ UNCHANGED <<resourceVars, sent>>

(* Until a session of continuous mining has usable work its client is not  *)
(* installed, and whatever ends the attempt closes it (_establish_once);   *)
(* the other commands leave it to their finally block.                     *)
AbandonClient ==
    client' = IF command = "stratum-mine" THEN "released" ELSE client

ObserveSetup(event, then) ==
    /\ \/ Emit(event, "INFO", "none") /\ then /\ UNCHANGED client
       \/ EmitFails(event, "INFO", "none") /\ Fails("log") /\ AbandonClient
    /\ UNCHANGED <<handlers, backend, setup, sent>>

(* Anything a session calls may fail: the client, the backend, the pool.   *)
(* What the command does not expect, and a KeyboardInterrupt where no stop *)
(* handler is installed, count as faults.                                  *)
SomeError ==
    \/ Fails("expected") /\ UNCHANGED logVars
    \/ /\ \/ Fails("unexpected")
          \/ Fails("interrupt") /\ handlers # "held"
       /\ Fault
       /\ UNCHANGED <<files, held, sink, detached>>

SetupFails ==
    /\ At("connect") \/ At("listen")
    /\ SomeError
    /\ client' = IF command = "stratum-mine" THEN "released" ELSE "held"
    /\ UNCHANGED <<handlers, backend, setup, sent>>

WorkFails ==
    /\ At("search") \/ At("submit")
    /\ SomeError
    /\ UNCHANGED <<resourceVars, sent>>

-----------------------------------------------------------------------------
Connect ==
    /\ At("connect")
    /\ client' = "held"
    /\ Step("authorize")
    /\ UNCHANGED <<logVars, handlers, backend, setup, sent>>

Authorize ==
    /\ At("authorize")
    /\ ObserveSetup("stratum_authorized",
                    IF command = "stratum-handshake"
                    THEN Done("handshake_succeeded") ELSE Step("listen"))

(* A job counts once the difficulty is known. *)
Heard(notice) ==
    [session EXCEPT
       !.notices = @ + 1,
       !.heard = IF notice = "job" /\ "difficulty" \notin @
                    /\ command # "stratum-observe"
                 THEN @ ELSE @ \cup {notice}]

Listen(notice, event) ==
    /\ At("listen")
    /\ session.notices < MaxNotices
    /\ session.heard # {"difficulty", "job"}
    /\ ObserveSetup(event, Continue(Heard(notice)))

HearDifficulty == Listen("difficulty", "difficulty_received")
HearJob == Listen("job", "mining_job_received")

Observed ==
    /\ At("listen") /\ command = "stratum-observe"
    /\ session.heard = {"difficulty", "job"}
    /\ Observe("notification_observation_completed", "INFO", "none",
               Done("observation_succeeded"))

(* Recovered work replaces the job whose ranges were being searched. *)
Installed(s) ==
    [s EXCEPT !.step = CASE s.fresh # "job" -> "replace"
                         [] s.fresh = "job" /\ s.stale = "recovered" -> "restored"
                         [] OTHER -> "range"]

(* Usable work: a reconnection has succeeded only now. *)
WorkReady ==
    /\ At("listen") /\ command \in SearchCommands
    /\ session.heard = {"difficulty", "job"}
    /\ IF session.attempts = 0
       THEN /\ Continue([session EXCEPT !.step = "range", !.notices = 0])
            /\ UNCHANGED <<logVars, resourceVars, sent>>
       ELSE Observe("stratum_reconnect_succeeded", "INFO", "none",
                    Continue(Installed([session EXCEPT
                      !.attempts = 0, !.notices = 0,
                      !.stale = IF @ = "no" THEN "no" ELSE "recovered"])))

-----------------------------------------------------------------------------
WorkAdvanced ==
    /\ At("range") /\ command = "stratum-mine"
    /\ session.fresh # "none" /\ session.ranges < limits.ranges
    /\ Observe("mining_work_advanced", "INFO", "none",
               Continue([session EXCEPT !.fresh = "none"]))

RangeStarted ==
    /\ At("range") /\ session.ranges < limits.ranges
    /\ command = "stratum-mine" => session.fresh = "none"
    /\ Observe("nonce_range_started", "INFO", "none", Step("search"))

AfterRangeSubmits(match) == IF match THEN "submit" ELSE "next"    \* mutant

AfterRange(match) == IF match THEN "candidate" ELSE "next"

(* The range is reported, and then its best hash if none was below it.     *)
RangeCompleted ==
    /\ At("search")
    /\ \E hash \in Hashes, match \in BOOLEAN :
         Observe("nonce_range_completed", "INFO", "none",
                 Continue([session EXCEPT
                             !.ranges = @ + 1,
                             !.match = match,
                             !.hash = hash,
                             !.step = IF hash < session.best THEN "improve"
                                      ELSE AfterRange(match)]))

BestHashImproved ==
    /\ At("improve")
    /\ Observe("best_hash_improved", "INFO", session.hash,
               Continue([session EXCEPT !.best = session.hash,
                                        !.step = AfterRange(session.match)]))

(* The candidate is in the log before its share is sent. *)
CandidateFound ==
    /\ At("candidate")
    /\ Observe("share_candidate_found", "INFO", "none", Step("submit"))

SubmitShare ==
    /\ At("submit")
    /\ sent' = sent + 1
    /\ \/ \E verdict \in {"accepted", "rejected"} :
            Continue([session EXCEPT !.step = "verdict", !.verdict = verdict])
       \/ Fails("expected")
    /\ UNCHANGED <<logVars, resourceVars>>

Outcome(verdict) == IF verdict = "accepted" THEN "share_accepted" ELSE "share_rejected"

SubmissionCompleted ==
    /\ At("verdict")
    /\ Observe("share_submission_completed",
               IF session.verdict = "accepted" THEN "INFO" ELSE "WARNING",
               session.verdict,
               IF command = "stratum-mine" THEN Step("answered")
               ELSE Done(Outcome(session.verdict)))

(* Continuous mining goes on after a share that is not a block, unless it  *)
(* was told to stop.                                                       *)
Answered ==
    /\ At("answered")
    /\ \/ Done(Outcome(session.verdict))
       \/ ~session.stopped /\ Step("next")
    /\ UNCHANGED <<logVars, resourceVars, sent>>

(* A stop seen around a candidate is reported at once, and the share       *)
(* handled to its end.                                                     *)
StopObserved ==
    /\ At("candidate") \/ At("submit") \/ At("verdict") \/ At("answered")
    /\ MayTurn /\ ~session.stopped
    /\ Observe("mining_stop_requested", "INFO", "none",
               Continue([session EXCEPT !.stopped = TRUE, !.turns = @ + 1]))

-----------------------------------------------------------------------------
(* After a range: bounded mining is done, chunked mining when its budget   *)
(* is spent, continuous mining when it is told to stop or is at a limit.   *)
Limit(c) ==
    CASE c = "stratum-mine-once" -> "range_exhausted"
      [] c = "stratum-mine-chunks" -> "hash_budget_exhausted"
      [] c = "stratum-mine" -> "limit_reached"

LimitReached ==
    /\ \/ At("next")
       \/ At("range") /\ command = "stratum-mine" /\ session.ranges > 0
          /\ session.ranges = limits.ranges
    /\ Done(Limit(command))
    /\ UNCHANGED <<logVars, resourceVars, sent>>

NextRange ==
    /\ At("next") /\ command # "stratum-mine-once"
    /\ session.ranges < limits.ranges
    /\ Step("range")
    /\ UNCHANGED <<logVars, resourceVars, sent>>

(* The pool is heard between two ranges, also when the variant has none    *)
(* left, and while a new job is waited for.                                *)
Hearing == At("next") \/ At("advance") \/ At("wait")

JobReceived ==
    /\ Hearing /\ command # "stratum-mine-once"
    /\ session.ranges < limits.ranges
    /\ Observe("mining_job_received", "INFO", "none",
               Continue([session EXCEPT
                 !.step = "replace",
                 !.back = IF At("next") THEN "range" ELSE session.step]))

JobReplaced ==
    /\ At("replace")
    /\ Observe("mining_job_replaced", "INFO", "none",
               Continue(Installed([session EXCEPT !.fresh = "job", !.back = "none"])))

(* A job that is being searched, or gives the same work, changes nothing. *)
DuplicateIgnored ==
    /\ At("replace") /\ MayTurn /\ session.back # "none"
    /\ Observe("duplicate_work_ignored", "INFO", "none",
               Continue([session EXCEPT !.step = session.back, !.back = "none",
                                        !.turns = @ + 1]))

NonceSpaceExhausted ==
    /\ At("next") /\ MayTurn
    /\ session.ranges < limits.ranges
    /\ Observe("nonce_space_exhausted", "INFO", "none",
               Continue([session EXCEPT !.step = "advance", !.turns = @ + 1]))

NextVariant == Continue([session EXCEPT !.step = "range", !.fresh = "work"])

ExtraNonceAdvances ==
    /\ At("advance")
    /\ NextVariant
    /\ UNCHANGED <<logVars, resourceVars, sent>>

CycleCompleted ==
    /\ At("advance")
    /\ Observe("extra_nonce_2_cycle_completed", "INFO", "none", Step("cycle"))

NetworkTimeRolled ==
    /\ At("cycle")
    /\ Observe("network_time_rolled", "INFO", "none", NextVariant)

(* No variant of the job is left: only another job helps. *)
WaitingForJob ==
    /\ At("cycle")
    /\ Observe("mining_waiting_for_job", "INFO", "none", Step("wait"))

(* A stop while a session is made leaves none: it is reported here too.    *)
StopRequested ==
    /\ command = "stratum-mine"
    /\ \/ Hearing \/ At("range")
       \/ At("listen") \/ At("schedule") \/ At("attempt")
    /\ client' = IF At("listen") THEN "released" ELSE client
    /\ Say("mining_stop_requested", "INFO", "none", Done("stopped_by_user"),
           Escape("log"))
    /\ UNCHANGED <<handlers, backend, setup, sent>>

-----------------------------------------------------------------------------
(* A lost connection is recoverable for continuous mining alone: when its  *)
(* session could not be made, and when the pool is polled between ranges.  *)
(* The client is closed before the loss is reported.                       *)
ConnectionLost ==
    /\ command = "stratum-mine" /\ session.losses < limits.losses
    /\ At("connect") \/ At("listen") \/ Hearing
    /\ session.attempts = 0
    /\ client' = "released"
    /\ Say("stratum_connection_lost", "WARNING", "none",
           Continue([session EXCEPT !.step = "schedule", !.losses = @ + 1]),
           Fails("log"))
    /\ UNCHANGED <<handlers, backend, setup, sent>>

(* A pool too silent, or a job too old, is found out before a range and    *)
(* after one, and a candidate just found is dropped.                       *)
LivenessWarning ==
    /\ MayTurn /\ session.losses < limits.losses
    /\ Hearing \/ At("range") \/ At("candidate")
    /\ Observe("stratum_liveness_warning", "WARNING", "none",
               Continue([session EXCEPT !.step = "stale", !.losses = @ + 1,
                                        !.turns = @ + 1]))

SessionStale ==
    /\ At("stale")
    /\ Observe("stratum_session_stale", "WARNING", "none", Step("stale_start"))

(* Its client is closed, and a session made as after a lost connection.    *)
StaleReconnectStarted ==
    /\ At("stale_start")
    /\ \/ /\ Emit("stratum_stale_reconnect_started", "INFO", "none")
          /\ client' = "released"
          /\ Continue([session EXCEPT !.step = "schedule", !.stale = "recovering"])
       \/ /\ EmitFails("stratum_stale_reconnect_started", "INFO", "none")
          /\ Fails("log")
          /\ UNCHANGED client
    /\ UNCHANGED <<handlers, backend, setup, sent>>

StaleReconnectSucceeded ==
    /\ At("restored")
    /\ Observe("stratum_stale_reconnect_succeeded", "INFO", "none",
               Continue([session EXCEPT !.step = "range", !.stale = "no"]))

StaleReconnectFailed ==
    /\ At("stale_failed")
    /\ Say("stratum_stale_reconnect_failed", "ERROR", "none",
           Escape(session.error), Escape("log"))
    /\ UNCHANGED <<resourceVars, sent>>

ReconnectScheduled ==
    /\ At("schedule") /\ session.attempts < MaxAttempts
    /\ Observe("stratum_reconnect_scheduled", "INFO", "none", Step("attempt"))

ReconnectAttempted ==
    /\ At("attempt")
    /\ Observe("stratum_reconnect_attempted", "INFO", "none",
               Continue([session EXCEPT !.step = "connect", !.heard = {},
                                        !.notices = 0, !.attempts = @ + 1]))

ReconnectFailed ==
    /\ session.attempts > 0
    /\ At("connect") \/ At("listen")
    /\ client' = "released"
    /\ Say("stratum_reconnect_failed", "WARNING", "none", Step("schedule"),
           Fails("log"))
    /\ UNCHANGED <<handlers, backend, setup, sent>>

ReconnectExhausted ==
    /\ At("schedule") /\ session.attempts >= MaxAttempts
    /\ Observe("stratum_reconnect_exhausted", "ERROR", "none", Fails("expected"))

-----------------------------------------------------------------------------
SessionNext ==
    \/ SetupFails \/ WorkFails \/ Connect \/ Authorize
    \/ HearDifficulty \/ HearJob \/ Observed \/ WorkReady
    \/ WorkAdvanced \/ RangeStarted \/ RangeCompleted \/ BestHashImproved
    \/ CandidateFound \/ SubmitShare \/ SubmissionCompleted
    \/ Answered \/ StopObserved
    \/ LimitReached \/ NextRange \/ JobReceived \/ JobReplaced
    \/ DuplicateIgnored \/ NonceSpaceExhausted \/ ExtraNonceAdvances
    \/ CycleCompleted \/ NetworkTimeRolled \/ WaitingForJob \/ StopRequested
    \/ ConnectionLost \/ LivenessWarning \/ SessionStale
    \/ StaleReconnectStarted \/ StaleReconnectSucceeded \/ StaleReconnectFailed
    \/ ReconnectScheduled \/ ReconnectAttempted
    \/ ReconnectFailed \/ ReconnectExhausted
=============================================================================
