---------------------------- MODULE Reporting_proofs ----------------------------
(***************************************************************************)
(* What the commands leave behind, in the log and in the system, for any   *)
(* schedule of commands, any number of failing writes, kills, interrupts   *)
(* and other faults, any rotations of the log and any dashboard reading    *)
(* it.  First, what each step does as far as the invariants care; then the *)
(* invariants, of the control, the resources and the two files; then what  *)
(* the dashboard makes of a file that is read piece by piece, what the     *)
(* strict summary makes of it, what is said of settings and blocks, and    *)
(* that the two readers agree.                                             *)
(***************************************************************************)
EXTENDS Reporting, FiniteSetTheorems, SequenceTheorems, WellFoundedInduction, TLAPS

Levels == {"INFO", "WARNING", "ERROR"}

LogQuiet == UNCHANGED <<files, held, sink, detached>>

\* An event is written, or the log fails.
WrittenAs(event, value) == \E level \in Levels : Emit(event, level, value)
Written(event) == \E value : WrittenAs(event, value)
Lost(event) == \E level \in Levels : \E value : EmitFails(event, level, value)
Wrote(event) == Written(event) /\ faults' = faults
Failed(event) == Lost(event) /\ faults' = faults + 1

LEMMA EmitWritten ==
    ASSUME NEW event, NEW level \in Levels, NEW value
    PROVE  /\ Emit(event, level, value) =>
                  WrittenAs(event, value) /\ Written(event) /\ UNCHANGED <<limits, faults>>
           /\ EmitFails(event, level, value) =>
                  Lost(event) /\ faults' = faults + 1 /\ limits' = limits
  BY DEF WrittenAs, Written, Lost, EmitFails, Fault, Emit

LEMMA LevelsAre == {"INFO", "WARNING", "ERROR"} \subseteq Levels
  BY DEF Levels

Preparing == {"start", "settings", "profile", "backend", "strategy", "announce", "install"}
Cleaning == {"client", "handlers", "backend_close"}
Errors == {"expected", "unexpected", "interrupt", "log"}

\* Every kill is a fault; OnlyKills says that there are no others.
KilledRuns == DOMAIN ended \ Returned
Kills == Cardinality(KilledRuns)

LEMMA KillsSame ==
    /\ OnlyKills <=> faults = Kills
    /\ OnlyKills' <=> faults' = Kills'
    /\ ended' = ended => Kills' = Kills
  BY DEF OnlyKills, Kills, KilledRuns, Returned

\* The events that end a run, begin it, or say what it found are written where they
\* belong, and hashing alone never has those of a block.
Noted(event) ==
    /\ event \notin TerminalEvents
    /\ event = "command_started" => pc = "start"
    /\ event \in {"solo_block_proposal_completed", "solo_block_submission_completed"} =>
           command # "solo-hash"
    /\ event = "solo_block_submission_completed" =>
           pc = "session" /\ command \in BitcoinCommands /\ solo.step = "submitted"
    /\ event = "best_hash_improved" =>
           pc = "session" /\ command \notin BitcoinCommands /\ session.step = "improve"
    /\ event = "share_submission_completed" =>
           pc = "session" /\ command \notin BitcoinCommands /\ session.step = "verdict"

-------------------------------------------------------------------------------
(* The steps of a Stratum session.                                          *)

\* Only a command that searches gets further than its first notifications, and
\* a job that is no news was heard where there is something to go back to.
SessionTyped ==
    /\ {"step", "error", "stale", "back", "attempts"} \subseteq DOMAIN session
    /\ session.back \in {"none", "range", "advance", "wait"}
    /\ command \notin SearchCommands =>
           /\ session.step \in {"connect", "authorize", "listen"}
           /\ session.stale = "no" /\ session.attempts = 0

Results == {"handshake_succeeded", "observation_succeeded", "share_accepted", "share_rejected",
            "range_exhausted", "hash_budget_exhausted", "limit_reached", "stopped_by_user"}

\* What a session step does to the command; the error that ends it is expected,
\* a fault, or the one that ended the recovery of a stale session.
SessionMoves ==
    /\ pc = "session" /\ command \notin BitcoinCommands
    /\ UNCHANGED <<schedule, command, status, leaving, ended, handlers, backend, setup, limits>>
    /\ client' \in {client, "held", "released"}
    /\ \/ pc' = "session" /\ UNCHANGED <<pending, outcome>>
       \/ pc' = "client" /\ outcome' \in Results /\ UNCHANGED pending
       \/ /\ pc' = "except" /\ UNCHANGED <<outcome, session>>
          /\ \/ pending' = "expected"
             \/ pending' \in Errors /\ faults' = faults + 1
             \/ pending' = session.error /\ session.step = "stale_failed"
    /\ SessionTyped'
    /\ \/ session'.step # "stale_failed"
       \/ session'.step = "stale_failed" /\ session'.error = session.error /\ pc' = "except"
       \/ session'.step = "stale_failed" /\ session'.error = "expected"
       \/ session'.step = "stale_failed" /\ session'.error \in Errors /\ faults' = faults + 1
    /\ session.step = "stale_failed" => pc' = "except"
    /\ faults' \in {faults, faults + 1}
    /\ session'.step = "submit" => session.step = "submit" \/ Written("share_candidate_found")

\* What it writes, if anything; when that fails nothing else goes on.
SessionWrites(event) ==
    \/ Written(event) /\ faults' = faults
    \/ Lost(event) /\ faults' = faults + 1 /\ pc' = "except"
    \/ /\ Lost(event) /\ faults' = faults + 1
       /\ pc' = "session" /\ session'.step = "stale_failed"

\* What each action of a Stratum session writes, sends and leaves.
USE DEF At, Observe, Say, Done, Step, Continue, Fails, Escape, Raise,
   resourceVars, SearchCommands, SessionMoves, SessionTyped, SessionWrites, Errors, Results

LEMMA SetupFailsMoves ==
    ASSUME SessionTyped, SetupFails
    PROVE  SessionMoves /\ sent' = sent /\ LogQuiet
  BY EmitWritten, LevelsAre DEF SetupFails, SomeError, Fault, LogQuiet, logVars

LEMMA WorkFailsMoves ==
    ASSUME SessionTyped, WorkFails
    PROVE  SessionMoves /\ sent' = sent /\ LogQuiet
  BY EmitWritten, LevelsAre DEF WorkFails, SomeError, Fault, LogQuiet, logVars

LEMMA ConnectMoves ==
    ASSUME SessionTyped, Connect
    PROVE  SessionMoves /\ sent' = sent /\ LogQuiet
  BY EmitWritten, LevelsAre DEF Connect, LogQuiet, logVars

LEMMA AuthorizeMoves ==
    ASSUME SessionTyped, Authorize
    PROVE  SessionMoves /\ sent' = sent /\ SessionWrites("stratum_authorized")
  BY EmitWritten, LevelsAre DEF Authorize, ObserveSetup, AbandonClient

LEMMA HearDifficultyMoves ==
    ASSUME SessionTyped, HearDifficulty
    PROVE  SessionMoves /\ sent' = sent /\ SessionWrites("difficulty_received")
  BY EmitWritten, LevelsAre DEF HearDifficulty, Listen, Heard, ObserveSetup, AbandonClient

LEMMA HearJobMoves ==
    ASSUME SessionTyped, HearJob
    PROVE  SessionMoves /\ sent' = sent /\ SessionWrites("mining_job_received")
  BY EmitWritten, LevelsAre DEF HearJob, Listen, Heard, ObserveSetup, AbandonClient

LEMMA ObservedMoves ==
    ASSUME SessionTyped, Observed
    PROVE  SessionMoves /\ sent' = sent /\ SessionWrites("notification_observation_completed")
  BY EmitWritten, LevelsAre DEF Observed

LEMMA WorkReadyMoves ==
    ASSUME SessionTyped, WorkReady
    PROVE  SessionMoves /\ sent' = sent
           /\ (LogQuiet \/ SessionWrites("stratum_reconnect_succeeded"))
  BY EmitWritten, LevelsAre DEF WorkReady, Installed, LogQuiet, logVars

LEMMA WorkAdvancedMoves ==
    ASSUME SessionTyped, WorkAdvanced
    PROVE  SessionMoves /\ sent' = sent /\ SessionWrites("mining_work_advanced")
  BY EmitWritten, LevelsAre DEF WorkAdvanced

LEMMA RangeStartedMoves ==
    ASSUME SessionTyped, RangeStarted
    PROVE  SessionMoves /\ sent' = sent /\ SessionWrites("nonce_range_started")
  BY EmitWritten, LevelsAre DEF RangeStarted

LEMMA RangeCompletedMoves ==
    ASSUME SessionTyped, RangeCompleted
    PROVE  SessionMoves /\ sent' = sent /\ SessionWrites("nonce_range_completed")
  BY EmitWritten, LevelsAre DEF RangeCompleted, AfterRange

LEMMA BestHashImprovedMoves ==
    ASSUME SessionTyped, BestHashImproved
    PROVE  SessionMoves /\ sent' = sent /\ SessionWrites("best_hash_improved")
  BY EmitWritten, LevelsAre DEF BestHashImproved, AfterRange

LEMMA CandidateFoundMoves ==
    ASSUME SessionTyped, CandidateFound
    PROVE  SessionMoves /\ sent' = sent /\ SessionWrites("share_candidate_found")
  BY EmitWritten, LevelsAre DEF CandidateFound

LEMMA SubmissionCompletedMoves ==
    ASSUME SessionTyped, SubmissionCompleted
    PROVE  SessionMoves /\ sent' = sent /\ SessionWrites("share_submission_completed")
  BY EmitWritten, LevelsAre DEF SubmissionCompleted, Outcome

LEMMA AnsweredMoves ==
    ASSUME SessionTyped, Answered
    PROVE  SessionMoves /\ sent' = sent /\ LogQuiet
  BY EmitWritten, LevelsAre DEF Answered, Outcome, LogQuiet, logVars

LEMMA StopObservedMoves ==
    ASSUME SessionTyped, StopObserved
    PROVE  SessionMoves /\ sent' = sent /\ SessionWrites("mining_stop_requested")
  BY EmitWritten, LevelsAre DEF StopObserved

LEMMA LimitReachedMoves ==
    ASSUME SessionTyped, LimitReached
    PROVE  SessionMoves /\ sent' = sent /\ LogQuiet
  BY EmitWritten, LevelsAre DEF LimitReached, Limit, LogQuiet, logVars

LEMMA NextRangeMoves ==
    ASSUME SessionTyped, NextRange
    PROVE  SessionMoves /\ sent' = sent /\ LogQuiet
  BY EmitWritten, LevelsAre DEF NextRange, LogQuiet, logVars

LEMMA JobReceivedMoves ==
    ASSUME SessionTyped, JobReceived
    PROVE  SessionMoves /\ sent' = sent /\ SessionWrites("mining_job_received")
  BY EmitWritten, LevelsAre DEF JobReceived, Hearing

LEMMA JobReplacedMoves ==
    ASSUME SessionTyped, JobReplaced
    PROVE  SessionMoves /\ sent' = sent /\ SessionWrites("mining_job_replaced")
  BY EmitWritten, LevelsAre DEF JobReplaced, Installed

LEMMA DuplicateIgnoredMoves ==
    ASSUME SessionTyped, DuplicateIgnored
    PROVE  SessionMoves /\ sent' = sent /\ SessionWrites("duplicate_work_ignored")
  BY EmitWritten, LevelsAre DEF DuplicateIgnored

LEMMA NonceSpaceExhaustedMoves ==
    ASSUME SessionTyped, NonceSpaceExhausted
    PROVE  SessionMoves /\ sent' = sent /\ SessionWrites("nonce_space_exhausted")
  BY EmitWritten, LevelsAre DEF NonceSpaceExhausted

LEMMA ExtraNonceAdvancesMoves ==
    ASSUME SessionTyped, ExtraNonceAdvances
    PROVE  SessionMoves /\ sent' = sent /\ LogQuiet
  BY EmitWritten, LevelsAre DEF ExtraNonceAdvances, NextVariant, LogQuiet, logVars

LEMMA CycleCompletedMoves ==
    ASSUME SessionTyped, CycleCompleted
    PROVE  SessionMoves /\ sent' = sent /\ SessionWrites("extra_nonce_2_cycle_completed")
  BY EmitWritten, LevelsAre DEF CycleCompleted

LEMMA NetworkTimeRolledMoves ==
    ASSUME SessionTyped, NetworkTimeRolled
    PROVE  SessionMoves /\ sent' = sent /\ SessionWrites("network_time_rolled")
  BY EmitWritten, LevelsAre DEF NetworkTimeRolled, NextVariant

LEMMA WaitingForJobMoves ==
    ASSUME SessionTyped, WaitingForJob
    PROVE  SessionMoves /\ sent' = sent /\ SessionWrites("mining_waiting_for_job")
  BY EmitWritten, LevelsAre DEF WaitingForJob

LEMMA StopRequestedMoves ==
    ASSUME SessionTyped, StopRequested
    PROVE  SessionMoves /\ sent' = sent /\ SessionWrites("mining_stop_requested")
  BY EmitWritten, LevelsAre DEF StopRequested, Hearing

LEMMA ConnectionLostMoves ==
    ASSUME SessionTyped, ConnectionLost
    PROVE  SessionMoves /\ sent' = sent /\ SessionWrites("stratum_connection_lost")
  BY EmitWritten, LevelsAre DEF ConnectionLost, Hearing

LEMMA LivenessWarningMoves ==
    ASSUME SessionTyped, LivenessWarning
    PROVE  SessionMoves /\ sent' = sent /\ SessionWrites("stratum_liveness_warning")
  BY EmitWritten, LevelsAre DEF LivenessWarning, Hearing

LEMMA SessionStaleMoves ==
    ASSUME SessionTyped, SessionStale
    PROVE  SessionMoves /\ sent' = sent /\ SessionWrites("stratum_session_stale")
  BY EmitWritten, LevelsAre DEF SessionStale

LEMMA StaleReconnectStartedMoves ==
    ASSUME SessionTyped, StaleReconnectStarted
    PROVE  SessionMoves /\ sent' = sent /\ SessionWrites("stratum_stale_reconnect_started")
  BY EmitWritten, LevelsAre DEF StaleReconnectStarted

LEMMA StaleReconnectSucceededMoves ==
    ASSUME SessionTyped, StaleReconnectSucceeded
    PROVE  SessionMoves /\ sent' = sent /\ SessionWrites("stratum_stale_reconnect_succeeded")
  BY EmitWritten, LevelsAre DEF StaleReconnectSucceeded

LEMMA StaleReconnectFailedMoves ==
    ASSUME SessionTyped, StaleReconnectFailed
    PROVE  SessionMoves /\ sent' = sent /\ SessionWrites("stratum_stale_reconnect_failed")
  BY EmitWritten, LevelsAre DEF StaleReconnectFailed

LEMMA ReconnectScheduledMoves ==
    ASSUME SessionTyped, ReconnectScheduled
    PROVE  SessionMoves /\ sent' = sent /\ SessionWrites("stratum_reconnect_scheduled")
  BY EmitWritten, LevelsAre DEF ReconnectScheduled

LEMMA ReconnectAttemptedMoves ==
    ASSUME SessionTyped, ReconnectAttempted
    PROVE  SessionMoves /\ sent' = sent /\ SessionWrites("stratum_reconnect_attempted")
  BY EmitWritten, LevelsAre DEF ReconnectAttempted

LEMMA ReconnectExhaustedMoves ==
    ASSUME SessionTyped, ReconnectExhausted
    PROVE  SessionMoves /\ sent' = sent /\ SessionWrites("stratum_reconnect_exhausted")
  BY EmitWritten, LevelsAre DEF ReconnectExhausted

LEMMA SubmitShareMoves ==
    ASSUME SessionTyped, SubmitShare
    PROVE  /\ SessionMoves /\ LogQuiet
           /\ sent' = sent + 1 /\ session.step = "submit"
           /\ pc' = "except" \/ session'.step # "submit"
  BY EmitWritten, LevelsAre DEF SubmitShare, LogQuiet, logVars

\* What every session step comes to: it may write an event, never one that ends
\* the run, and it may send a share.
SessionStep ==
    /\ SessionMoves
    /\ LogQuiet \/ \E event : Noted(event) /\ SessionWrites(event)
    /\ \/ sent' = sent
       \/ /\ sent' = sent + 1 /\ session.step = "submit"
          /\ ~(pc' = "session" /\ session'.step = "submit")
    /\ session'.step = "submit" /\ session.step # "submit" => sent' = sent

HIDE DEF At, Observe, Say, Done, Step, Continue, Fails, Escape,
   Raise, resourceVars, SearchCommands, SessionMoves, SessionTyped, SessionWrites, Errors,
   Results

LEMMA ReconnectFailedMoves ==
    ASSUME SessionTyped, ReconnectFailed
    PROVE  SessionMoves /\ sent' = sent /\ SessionWrites("stratum_reconnect_failed")
  <1>1. command \in SearchCommands
    BY DEF ReconnectFailed, SessionTyped
  <1> QED
    BY <1>1, EmitWritten, LevelsAre DEF ReconnectFailed, At, Observe, Say, Done, Step,
       Continue, Fails, Escape, Raise, resourceVars, SearchCommands, SessionMoves,
       SessionTyped, SessionWrites, Errors, Results

LEMMA SessionSteps ==
    ASSUME SessionTyped, SessionNext
    PROVE  SessionStep
<1>1. CASE SetupFails
  BY <1>1, SetupFailsMoves DEF SessionStep
<1>2. CASE WorkFails
  BY <1>2, WorkFailsMoves DEF SessionStep
<1>3. CASE Connect
  BY <1>3, ConnectMoves DEF SessionStep
<1>4. CASE Authorize
  BY <1>4, AuthorizeMoves DEF SessionStep, Noted, TerminalEvents
<1>5. CASE HearDifficulty
  BY <1>5, HearDifficultyMoves DEF SessionStep, Noted, TerminalEvents
<1>6. CASE HearJob
  BY <1>6, HearJobMoves DEF SessionStep, Noted, TerminalEvents
<1>7. CASE Observed
  BY <1>7, ObservedMoves DEF SessionStep, Noted, TerminalEvents
<1>8. CASE WorkReady
  BY <1>8, WorkReadyMoves DEF SessionStep, Noted, TerminalEvents
<1>9. CASE WorkAdvanced
  BY <1>9, WorkAdvancedMoves DEF SessionStep, Noted, TerminalEvents
<1>10. CASE RangeStarted
  BY <1>10, RangeStartedMoves DEF SessionStep, Noted, TerminalEvents
<1>11. CASE RangeCompleted
  BY <1>11, RangeCompletedMoves DEF SessionStep, Noted, TerminalEvents
<1>12. CASE BestHashImproved
  BY <1>12, BestHashImprovedMoves DEF SessionStep, Noted, TerminalEvents, BestHashImproved, At
<1>13. CASE CandidateFound
  BY <1>13, CandidateFoundMoves DEF SessionStep, Noted, TerminalEvents
<1>14. CASE SubmissionCompleted
  BY <1>14, SubmissionCompletedMoves DEF SessionStep, Noted, TerminalEvents, SubmissionCompleted, At
<1>15. CASE Answered
  BY <1>15, AnsweredMoves DEF SessionStep
<1>16. CASE StopObserved
  BY <1>16, StopObservedMoves DEF SessionStep, Noted, TerminalEvents
<1>17. CASE LimitReached
  BY <1>17, LimitReachedMoves DEF SessionStep
<1>18. CASE NextRange
  BY <1>18, NextRangeMoves DEF SessionStep
<1>19. CASE JobReceived
  BY <1>19, JobReceivedMoves DEF SessionStep, Noted, TerminalEvents
<1>20. CASE JobReplaced
  BY <1>20, JobReplacedMoves DEF SessionStep, Noted, TerminalEvents
<1>21. CASE DuplicateIgnored
  BY <1>21, DuplicateIgnoredMoves DEF SessionStep, Noted, TerminalEvents
<1>22. CASE NonceSpaceExhausted
  BY <1>22, NonceSpaceExhaustedMoves DEF SessionStep, Noted, TerminalEvents
<1>23. CASE ExtraNonceAdvances
  BY <1>23, ExtraNonceAdvancesMoves DEF SessionStep
<1>24. CASE CycleCompleted
  BY <1>24, CycleCompletedMoves DEF SessionStep, Noted, TerminalEvents
<1>25. CASE NetworkTimeRolled
  BY <1>25, NetworkTimeRolledMoves DEF SessionStep, Noted, TerminalEvents
<1>26. CASE WaitingForJob
  BY <1>26, WaitingForJobMoves DEF SessionStep, Noted, TerminalEvents
<1>27. CASE StopRequested
  BY <1>27, StopRequestedMoves DEF SessionStep, Noted, TerminalEvents
<1>28. CASE ConnectionLost
  BY <1>28, ConnectionLostMoves DEF SessionStep, Noted, TerminalEvents
<1>29. CASE LivenessWarning
  BY <1>29, LivenessWarningMoves DEF SessionStep, Noted, TerminalEvents
<1>30. CASE SessionStale
  BY <1>30, SessionStaleMoves DEF SessionStep, Noted, TerminalEvents
<1>31. CASE StaleReconnectStarted
  BY <1>31, StaleReconnectStartedMoves DEF SessionStep, Noted, TerminalEvents
<1>32. CASE StaleReconnectSucceeded
  BY <1>32, StaleReconnectSucceededMoves DEF SessionStep, Noted, TerminalEvents
<1>33. CASE StaleReconnectFailed
  BY <1>33, StaleReconnectFailedMoves DEF SessionStep, Noted, TerminalEvents
<1>34. CASE ReconnectScheduled
  BY <1>34, ReconnectScheduledMoves DEF SessionStep, Noted, TerminalEvents
<1>35. CASE ReconnectAttempted
  BY <1>35, ReconnectAttemptedMoves DEF SessionStep, Noted, TerminalEvents
<1>36. CASE ReconnectFailed
  BY <1>36, ReconnectFailedMoves DEF SessionStep, Noted, TerminalEvents
<1>37. CASE ReconnectExhausted
  BY <1>37, ReconnectExhaustedMoves DEF SessionStep, Noted, TerminalEvents
<1>38. CASE SubmitShare
  BY <1>38, SubmitShareMoves DEF SessionStep, SessionMoves
<1> QED
  BY <1>1, <1>2, <1>3, <1>4, <1>5, <1>6, <1>7, <1>8, <1>9, <1>10, <1>11, <1>12, <1>13,
     <1>14, <1>15, <1>16, <1>17, <1>18, <1>19, <1>20, <1>21, <1>22, <1>23, <1>24, <1>25,
     <1>26, <1>27, <1>28, <1>29, <1>30, <1>31, <1>32, <1>33, <1>34, <1>35, <1>36, <1>37,
     <1>38 DEF SessionNext
-------------------------------------------------------------------------------
(* The invariants.                                                          *)

\* Where the commands of a node are in their session.
CheckSteps == {"opt_in", "info", "connected", "authenticated", "verified", "download",
               "up_to_date", "address", "template", "reachable", "parse", "received", "close"}
SoloCleaning == {"restore", "close_backend", "close_client", "report"}
Fetching == {"fetch", "template_received", "template_replaced"}

SoloTyped ==
    /\ {"step", "polls", "ranges", "why", "then", "verdict", "submits", "cleanup"}
           \subseteq DOMAIN solo
    /\ pc \in {"session", "except"} => solo.step \notin SoloCleaning
    /\ command = "bitcoin-core-check" /\ pc = "session" => solo.step \in CheckSteps
    /\ solo.step \in Fetching => solo.why \in {"poll", "exhausted", "match", "proposed"}
    /\ solo.step = "submit" => solo.why = "proposed"
    /\ solo.step = "close" => command = "bitcoin-core-check"
    /\ command = "solo-hash" =>
           /\ solo.step \notin {"propose", "proposed", "submit", "submitted"}
           /\ solo.why # "proposed"

Places == Preparing \cup Cleaning \cup {"session", "except", "finish", "close", "idle"}

Typed ==
    /\ pc \in Places
    /\ faults \in Nat /\ Kills \in 0 .. faults
    /\ pending \in Errors \cup {"none"}
    /\ status \in 0 .. 2
    /\ leaving \in {"none", "log", "raise", "cut"}

\* Who gets where, and that a command begins with a session of its own.
PlacesOf ==
    /\ pc = "settings" => command \notin BitcoinCommands
    /\ pc \in {"profile", "backend", "strategy", "announce", "backend_close"} =>
           command \in SearchCommands
    /\ pc \in {"profile", "install", "handlers"} => command = "stratum-mine"
    /\ pc \in Preparing => session.step = "connect" /\ solo.step = "opt_in"

\* How far a command has got says what has failed, and what is about to escape.
Failing ==
    /\ pc \in Preparing \cup {"session", "finish"} =>
           pending = "none" /\ status = 0 /\ leaving = "none"
    /\ pc = "except" => pending # "none" /\ status = 0 /\ leaving = "none"
    /\ pc \in Cleaning /\ pending = "none" => leaving = "none"
    /\ pc \in Cleaning /\ pending # "none" => status # 0 \/ leaving # "none"
    /\ pc = "client" /\ command \in BitcoinCommands /\ pending = "none" => status = 0

\* As long as nothing went wrong underneath but that processes were killed, only
\* what the commands expect fails.
Expected ==
    /\ session.step # "stale_failed" \/ session.error \in Errors
    /\ OnlyKills =>
           /\ pending \in {"none", "expected"} /\ leaving = "none"
           /\ session.step # "stale_failed" \/ session.error = "expected"

OutcomeTyped ==
    pc \in Cleaning \cup {"finish"} /\ pending = "none" /\ command \notin BitcoinCommands =>
        outcome \in Results

Control == Typed /\ PlacesOf /\ Failing /\ Expected /\ OutcomeTyped

\* Each command's process has a run of its own, and ends once.
Runs ==
    /\ sink.run \in Nat /\ sink.streams \subseteq Streams
    /\ sink.streams # {} => "log" \in sink.streams
    /\ DOMAIN ended \subseteq 1 .. sink.run
    /\ pc # "idle" => sink.run # 0 /\ sink.run \notin DOMAIN ended

\* The command has not reported how it ends, and still may.
MayReport ==
    \/ pc \in Preparing \cup {"session", "except"}
    \/ pc \in Cleaning \cup {"finish"} /\ pending = "none" /\ status = 0

Succeeding == pc = "close" /\ status = 0 /\ leaving = "none"

NotHeld(resources) == \A r \in resources : r # "held"
NotLeft == \A r \in {client, handlers, backend} : r # "left"

\* What a command holds where, and that nothing is left behind by one that may
\* still report a success.
Resources ==
    /\ pc \in {"start", "settings", "profile", "backend"} =>
           NotHeld({client, handlers, backend})
    /\ pc \in {"strategy", "announce", "install"} => NotHeld({client, handlers})
    /\ command \notin SearchCommands \cup BitcoinCommands => backend # "held"
    /\ command \notin {"stratum-mine"} \cup BitcoinCommands => handlers # "held"
    /\ command = "bitcoin-core-check" =>
           NotHeld({handlers, backend}) /\ (pc \in Cleaning => pending # "none")
    /\ pc = "handlers" => client # "held"
    /\ pc = "backend_close" => NotHeld({client, handlers})
    /\ pc = "client" /\ command \in BitcoinCommands =>
           /\ solo.step \in {"close_backend", "close_client", "report"} => handlers # "held"
           /\ solo.step \in {"close_client", "report"} => backend # "held"
           /\ solo.step = "report" => client # "held"
    /\ MayReport /\ pc # "except" =>
           NotLeft \/ (pc = "client" /\ command \in BitcoinCommands /\ solo.cleanup)
    /\ pc = "finish" \/ Succeeding
         \/ (pc = "idle" /\ sink.run \in DOMAIN ended /\ ended[sink.run] = "succeeded") =>
           NotHeld({client, handlers, backend}) /\ NotLeft
    /\ pc \in {"finish", "close"} \/ (pc = "idle" /\ sink.run \in Returned) =>
           /\ handlers # "held"
           /\ client = "held" => leaving = "cut"
           /\ backend = "held" => leaving = "cut" \/ (pending = "none" /\ faults > 0)

IsTerminal(half, r) == half.record.run = r /\ half.record.event \in TerminalEvents

NoTerminal(q, r) == \A i \in DOMAIN q : ~IsTerminal(q[i], r)

\* Nothing of a run follows a whole terminal record of it.
Sealed(q) ==
    \A i, j \in DOMAIN q :
        /\ i < j /\ q[i].last
        /\ IsTerminal(q[i], q[i].record.run)
        => q[j].record.run # q[i].record.run

Total(s) == files[s] \o held[s]

LogInv ==
    /\ \A s \in Streams :
          /\ \A i \in DOMAIN files[s] : files[s][i].record.run \in 1 .. sink.run
          /\ \A i \in DOMAIN held[s] : held[s][i].record.run = sink.run
          /\ held[s] # <<>> => s \in sink.streams
          /\ Sealed(Total(s))
          /\ MayReport => NoTerminal(Total(s), sink.run)
    /\ detached => files["log"] = <<>> /\ rotations # 0
    /\ pc = "idle" => held = [s \in Streams |-> <<>>]
    /\ rotations \in Nat
    /\ sink.streams = {} => \A s \in Streams : \A i \in DOMAIN files[s] :
          files[s][i].record.run # sink.run

\* Nothing was lost of what the run has written so far.
Clean ==
    \/ pc \in Preparing \ {"start"}
    \/ pc = "session" /\ session.step # "stale_failed"
    \/ pc \in Cleaning \cup {"finish"} /\ pending = "none" /\ status = 0

WholeLines == held["log"] = <<>> /\ (Log # <<>> => Log[Len(Log)].last)

WholeInv ==
    rotations = 0 =>
        /\ Clean /\ sink.streams # {} => WholeLines
        /\ OnlyKills => WholeLines

NeedsCandidate ==
    solo.step \in {"propose", "proposed"} \/ solo.why = "proposed" \/ block # "none"

NeedsProposal == solo.why = "proposed" \/ block # "none"

AcceptedProposals(r) ==
    {i \in EventsOf(Log, r, "solo_block_proposal_completed") : Log[i].record.value = "accepted"}

ShareInv ==
    rotations = 0 /\ sink.streams # {} =>
        LET candidates == Cardinality(EventsOf(Log, sink.run, "share_candidate_found"))
        IN  /\ sent <= candidates
            /\ pc = "session" /\ session.step = "submit" => sent < candidates
            /\ NeedsCandidate => EventsOf(Log, sink.run, "solo_candidate_found") # {}
            /\ NeedsProposal => AcceptedProposals(sink.run) # {}

Terminals(r) == UNION {EventsOf(Log, r, event) : event \in TerminalEvents}

ExitInv ==
    rotations = 0 /\ pc # "idle" /\ sink.streams # {} =>
        /\ Succeeding => Successes(sink.run) # {}
        /\ faults = 0 =>
              /\ ~Succeeding => Successes(sink.run) = {}
              /\ ~MayReport => Terminals(sink.run) # {}

-------------------------------------------------------------------------------
(* The steps of a solo session.                                             *)

\* What a step of a solo session does to the command.
SoloMoves ==
    /\ pc = "session" /\ command \in BitcoinCommands
    /\ UNCHANGED <<schedule, command, status, leaving, ended, setup, limits>>
    /\ faults' \in {faults, faults + 1}
    /\ \/ pc' = "session" /\ UNCHANGED <<pending, outcome>>
       \/ pc' = "client" /\ UNCHANGED pending /\ command # "bitcoin-core-check"
       \/ /\ pc' = "except"
          /\ pending' = "expected" \/ (pending' \in Errors /\ faults' = faults + 1)
       \/ /\ pc' = "finish" /\ UNCHANGED pending
          /\ command = "bitcoin-core-check" /\ client' = "released"
    /\ SoloTyped' /\ solo'.step \notin SoloCleaning
    /\ command = "bitcoin-core-check" => UNCHANGED <<handlers, backend>>
    /\ pc' # "except" =>
           client' \in {client, "held", "released"} /\ handlers' \in {handlers, "held"}
    /\ backend' \in {backend, "held"}
    /\ NeedsCandidate' => NeedsCandidate \/ Written("solo_candidate_found")
    /\ NeedsProposal' => NeedsProposal \/ WrittenAs("solo_block_proposal_completed", "accepted")

SoloWrites(event) ==
    \/ Written(event) /\ faults' = faults
    \/ Lost(event) /\ faults' = faults + 1 /\ pc' = "except"

SoloLog == LogQuiet \/ \E event : Noted(event) /\ SoloWrites(event)

\* What each action of a solo session writes and leaves.
USE DEF SoloAt, Turn, To, SoloRaise, Raise, Concludes, Quiet, Tell,
   Say, logVars, resourceVars, rpcVars, Fault, LogQuiet, SoloLog, SoloWrites,
   TerminalEvents, Noted, SoloMoves, SoloTyped, NeedsCandidate, NeedsProposal, CheckSteps,
   SoloCleaning, Fetching, Errors, BitcoinCommands

LEMMA RefusedMoves ==
    ASSUME SoloTyped, Refused
    PROVE  SoloMoves /\ SoloLog
  BY EmitWritten, LevelsAre DEF Refused

LEMMA OpenClientMoves ==
    ASSUME SoloTyped, OpenClient
    PROVE  SoloMoves /\ SoloLog
  BY EmitWritten, LevelsAre DEF OpenClient

LEMMA AskNodeMoves ==
    ASSUME SoloTyped, AskNode
    PROVE  SoloMoves /\ SoloLog
  BY EmitWritten, LevelsAre DEF AskNode, AskChain, Ask, ReadOnly, Synchronized

LEMMA CheckStagesMoves ==
    ASSUME SoloTyped, CheckStages
    PROVE  SoloMoves /\ SoloLog
  BY EmitWritten, LevelsAre DEF CheckStages, Stage, Synchronized

LEMMA TemplateParsedMoves ==
    ASSUME SoloTyped, TemplateParsed
    PROVE  SoloMoves /\ SoloLog
  BY EmitWritten, LevelsAre DEF TemplateParsed

LEMMA CheckClosesMoves ==
    ASSUME SoloTyped, CheckCloses
    PROVE  SoloMoves /\ SoloLog
  BY EmitWritten, LevelsAre DEF CheckCloses, CloseRpc

LEMMA BuildBackendMoves ==
    ASSUME SoloTyped, BuildBackend
    PROVE  SoloMoves /\ SoloLog
  BY EmitWritten, LevelsAre DEF BuildBackend

LEMMA InstallSoloHandlersMoves ==
    ASSUME SoloTyped, InstallSoloHandlers
    PROVE  SoloMoves /\ SoloLog
  BY EmitWritten, LevelsAre DEF InstallSoloHandlers

LEMMA AnnounceMoves ==
    ASSUME SoloTyped, Announce
    PROVE  SoloMoves /\ SoloLog
  BY EmitWritten, LevelsAre DEF Announce, Stage

LEMMA StoppedSoloMoves ==
    ASSUME SoloTyped, StoppedSolo
    PROVE  SoloMoves /\ SoloLog
  BY EmitWritten, LevelsAre DEF StoppedSolo

LEMMA HeadOfLoopMoves ==
    ASSUME SoloTyped, HeadOfLoop
    PROVE  SoloMoves /\ SoloLog
  BY EmitWritten, LevelsAre DEF HeadOfLoop, For

LEMMA FetchTemplateMoves ==
    ASSUME SoloTyped, FetchTemplate
    PROVE  SoloMoves /\ SoloLog
  BY EmitWritten, LevelsAre DEF FetchTemplate, ReadOnly, FetchFails, Suppress

LEMMA TemplateReceivedMoves ==
    ASSUME SoloTyped, TemplateReceived
    PROVE  SoloMoves /\ SoloLog
  BY EmitWritten, LevelsAre DEF TemplateReceived, Fetched, Suppress

LEMMA TemplateReplacedMoves ==
    ASSUME SoloTyped, TemplateReplaced
    PROVE  SoloMoves /\ SoloLog
  BY EmitWritten, LevelsAre DEF TemplateReplaced, Fetched, Suppress

LEMMA NextSoloRangeMoves ==
    ASSUME SoloTyped, NextSoloRange
    PROVE  SoloMoves /\ SoloLog
  BY EmitWritten, LevelsAre DEF NextSoloRange

LEMMA VariantStartedMoves ==
    ASSUME SoloTyped, VariantStarted
    PROVE  SoloMoves /\ SoloLog
  BY EmitWritten, LevelsAre DEF VariantStarted, Stage

LEMMA VariantUsedUpMoves ==
    ASSUME SoloTyped, VariantUsedUp
    PROVE  SoloMoves /\ SoloLog
  BY EmitWritten, LevelsAre DEF VariantUsedUp, For

LEMMA ExtraNonceAdvancedMoves ==
    ASSUME SoloTyped, ExtraNonceAdvanced
    PROVE  SoloMoves /\ SoloLog
  BY EmitWritten, LevelsAre DEF ExtraNonceAdvanced

LEMMA TimestampRolledMoves ==
    ASSUME SoloTyped, TimestampRolled
    PROVE  SoloMoves /\ SoloLog
  BY EmitWritten, LevelsAre DEF TimestampRolled, Stage

LEMMA SoloRangeCompletedMoves ==
    ASSUME SoloTyped, SoloRangeCompleted
    PROVE  SoloMoves /\ SoloLog
  BY EmitWritten, LevelsAre DEF SoloRangeCompleted

LEMMA SearchRefusedMoves ==
    ASSUME SoloTyped, SearchRefused
    PROVE  SoloMoves /\ SoloLog
  BY EmitWritten, LevelsAre DEF SearchRefused

LEMMA SuppressedMoves ==
    ASSUME SoloTyped, Suppressed
    PROVE  SoloMoves /\ SoloLog
  BY EmitWritten, LevelsAre DEF Suppressed

LEMMA SoloCandidateFoundMoves ==
    ASSUME SoloTyped, SoloCandidateFound
    PROVE  SoloMoves /\ SoloLog
  BY EmitWritten, LevelsAre DEF SoloCandidateFound

LEMMA ProposeMoves ==
    ASSUME SoloTyped, Propose
    PROVE  SoloMoves /\ SoloLog
  BY EmitWritten, LevelsAre DEF Propose, ProposeBlock, Suppress

LEMMA ProposalCompletedMoves ==
    ASSUME SoloTyped, ProposalCompleted
    PROVE  SoloMoves /\ SoloLog
  BY EmitWritten, LevelsAre DEF ProposalCompleted

LEMMA SubmitSoloMoves ==
    ASSUME SoloTyped, SubmitSolo
    PROVE  SoloMoves /\ SoloLog
  BY EmitWritten, LevelsAre DEF SubmitSolo, SubmitBlock, Fates

LEMMA BlockSubmittedMoves ==
    ASSUME SoloTyped, BlockSubmitted
    PROVE  SoloMoves /\ SoloLog
  BY EmitWritten, LevelsAre DEF BlockSubmitted

LEMMA SoloUnexpectedMoves ==
    ASSUME SoloTyped, SoloUnexpected
    PROVE  SoloMoves /\ SoloLog
  BY EmitWritten, LevelsAre DEF SoloUnexpected

HIDE DEF SoloAt, Turn, To, SoloRaise, Raise, Concludes, Quiet, Tell,
   Say, logVars, resourceVars, rpcVars, Fault, LogQuiet, SoloLog, SoloWrites,
   TerminalEvents, Noted, SoloMoves, SoloTyped, NeedsCandidate, NeedsProposal, CheckSteps,
   SoloCleaning, Fetching, Errors, BitcoinCommands

LEMMA SoloSteps ==
    ASSUME SoloTyped, SoloSetup \/ SoloSession
    PROVE  SoloMoves /\ SoloLog
  BY RefusedMoves, OpenClientMoves, AskNodeMoves, CheckStagesMoves, TemplateParsedMoves,
     CheckClosesMoves, BuildBackendMoves, InstallSoloHandlersMoves, AnnounceMoves,
     StoppedSoloMoves, HeadOfLoopMoves, FetchTemplateMoves, TemplateReceivedMoves,
     TemplateReplacedMoves, NextSoloRangeMoves, VariantStartedMoves, VariantUsedUpMoves,
     ExtraNonceAdvancedMoves, TimestampRolledMoves, SoloRangeCompletedMoves,
     SearchRefusedMoves, SuppressedMoves, SoloCandidateFoundMoves, ProposeMoves,
     ProposalCompletedMoves, SubmitSoloMoves, BlockSubmittedMoves, SoloUnexpectedMoves DEF
     SoloSetup, SoloSession

-------------------------------------------------------------------------------
(* What every other step of a command does to its report.                   *)

\* Nothing is written, and nothing fails.
Still == LogQuiet /\ faults' = faults

Silent ==
    /\ LogQuiet /\ ~Succeeding'
    /\ MayReport' => MayReport
    /\ Clean' => Clean
    /\ faults' \in {faults, faults + 1}
    /\ MayReport /\ ~MayReport' => ~OnlyKills'

Notes(event) ==
    /\ MayReport /\ ~Succeeding'
    /\ \/ Wrote(event) /\ MayReport'
       \/ Failed(event) /\ ~Clean'

ReportsFailure ==
    /\ MayReport /\ ~MayReport' /\ ~Clean' /\ ~Succeeding'
    /\ Wrote("command_failed") \/ Failed("command_failed")

ReportsCompletion ==
    /\ MayReport /\ Clean /\ ~MayReport' /\ ~Clean'
    /\ \/ /\ WrittenAs("command_completed", outcome) /\ faults' = faults
          /\ Succeeding' <=> outcome \notin UnsuccessfulOutcomes
       \/ Failed("command_completed") /\ ~Succeeding'

\* The events a command writes around its session.
Said(event, level, value) ==
    /\ Emit(event, level, value) =>
           WrittenAs(event, value) /\ Wrote(event) /\ limits' = limits
    /\ EmitFails(event, level, value) => Failed(event) /\ limits' = limits

LEMMA FrameSaid ==
    /\ Said("command_started", "INFO", command)
    /\ Said("command_failed", "ERROR", "none")
    /\ Said("compute_profile_resolved", "INFO", "none")
    /\ Said("compute_backend_selected", "INFO", "none")
    /\ Said("search_strategy_selected", "INFO", "none")
    /\ Said("command_completed", "INFO", outcome)
    /\ Said("command_completed",
            IF outcome = "share_rejected" THEN "WARNING" ELSE "INFO", outcome)
  BY EmitWritten, LevelsAre DEF Said, Wrote, Failed

Effect ==
    \/ Silent
    \/ \E event : Noted(event) /\ Notes(event)
    \/ ReportsFailure
    \/ ReportsCompletion

\* A command is under way before and after the step.
Underway ==
    /\ pc \notin {"idle", "close"} /\ pc' \notin {"idle", "start"}
    /\ pc' = "session" => pc \in Preparing \cup {"session"}
    /\ UNCHANGED <<ended, command, limits>>

\* What is sent goes after its record.
SendStep ==
    /\ \/ sent' = sent
       \/ /\ sent' = sent + 1
          /\ pc = "session" /\ session.step = "submit"
          /\ ~(pc' = "session" /\ session'.step = "submit")
    /\ pc' = "session" /\ session'.step = "submit" =>
           /\ sent' = sent
           /\ (pc = "session" /\ session.step = "submit")
                 \/ (Clean /\ Written("share_candidate_found"))
    /\ NeedsCandidate' => NeedsCandidate \/ (Clean /\ Written("solo_candidate_found"))
    /\ NeedsProposal' =>
           NeedsProposal
             \/ (Clean /\ WrittenAs("solo_block_proposal_completed", "accepted"))

\* The session of the other kind of command does not move at all.
NoNeeds == (NeedsCandidate' => NeedsCandidate) /\ (NeedsProposal' => NeedsProposal)

Kept == SessionTyped /\ SoloTyped /\ Control /\ Resources

FrameStep == Effect /\ Underway /\ Kept'

\* Every step of the frame has an Effect on the report and keeps the control.
USE DEF Said, Say, Wrote, Failed, CommandFailed, GoTo, Return, Raise,
   resourceVars, logVars, sessionVars, soloVars, rpcVars, Fault, Underway, Kept, Control,
   Typed, Preparing, Cleaning, Errors, SearchCommands, BitcoinCommands

LEMMA StartFrame ==
    ASSUME Kept, Start, UNCHANGED <<sessionVars, soloVars>>
    PROVE  FrameStep
<1> USE FrameSaid, KillsSame DEF Start
<1>1. Effect
  BY DEF Effect, Silent, Notes, ReportsFailure, ReportsCompletion, LogQuiet, MayReport,
     Clean, Succeeding, Noted, TerminalEvents, UnsuccessfulOutcomes, Results, Failing, Expected,
     OutcomeTyped
<1>2. Underway /\ SessionTyped' /\ SoloTyped'
  BY DEF SessionTyped, SoloTyped, PlacesOf, CheckSteps, SoloCleaning, Fetching
<1>3. Typed' /\ PlacesOf'
  BY DEF PlacesOf, Failing, Places
<1>4. Failing'
  BY DEF Failing, PlacesOf
<1>5. Expected' /\ OutcomeTyped'
  BY DEF Failing, Expected, OutcomeTyped, Results
<1>6. Resources'
  BY DEF Resources, NotHeld, NotLeft, MayReport, Succeeding, Failing, PlacesOf, SoloTyped, SoloCleaning
<1> QED
  BY <1>1, <1>2, <1>3, <1>4, <1>5, <1>6 DEF FrameStep

LEMMA InterruptedFrame ==
    ASSUME Kept, InterruptFrame, UNCHANGED <<sessionVars, soloVars>>
    PROVE  FrameStep
<1> USE FrameSaid, KillsSame DEF InterruptFrame, Interrupted
<1>1. Effect
  BY DEF Effect, Silent, Notes, ReportsFailure, ReportsCompletion, LogQuiet, MayReport,
     Clean, Succeeding, Noted, TerminalEvents, UnsuccessfulOutcomes, Results, Failing, Expected,
     OutcomeTyped
<1>2. Underway /\ SessionTyped' /\ SoloTyped'
  BY DEF SessionTyped, SoloTyped, PlacesOf, CheckSteps, SoloCleaning, Fetching
<1>3. Typed' /\ PlacesOf'
  BY DEF PlacesOf, Failing, Places
<1>4. Failing'
  BY DEF Failing, PlacesOf
<1>5. Expected' /\ OutcomeTyped'
  BY DEF Failing, Expected, OutcomeTyped, Results
<1>6. Resources'
  BY DEF Resources, NotHeld, NotLeft, MayReport, Succeeding, Failing, PlacesOf, SoloTyped, SoloCleaning
<1> QED
  BY <1>1, <1>2, <1>3, <1>4, <1>5, <1>6 DEF FrameStep

LEMMA SelectBackendFrame ==
    ASSUME Kept, SelectBackend, UNCHANGED <<sessionVars, soloVars>>
    PROVE  FrameStep
<1> USE FrameSaid, KillsSame DEF SelectBackend
<1>1. Effect
  BY DEF Effect, Silent, Notes, ReportsFailure, ReportsCompletion, LogQuiet, MayReport,
     Clean, Succeeding, Noted, TerminalEvents, UnsuccessfulOutcomes, Results, Failing, Expected,
     OutcomeTyped
<1>2. Underway /\ SessionTyped' /\ SoloTyped'
  BY DEF SessionTyped, SoloTyped, PlacesOf, CheckSteps, SoloCleaning, Fetching
<1>3. Typed' /\ PlacesOf'
  BY DEF PlacesOf, Failing, Places
<1>4. Failing'
  BY DEF Failing, PlacesOf
<1>5. Expected' /\ OutcomeTyped'
  BY DEF Failing, Expected, OutcomeTyped, Results
<1>6. Resources'
  BY DEF Resources, NotHeld, NotLeft, MayReport, Succeeding, Failing, PlacesOf, SoloTyped, SoloCleaning
<1> QED
  BY <1>1, <1>2, <1>3, <1>4, <1>5, <1>6 DEF FrameStep

LEMMA SelectStrategyFrame ==
    ASSUME Kept, SelectStrategy, UNCHANGED <<sessionVars, soloVars>>
    PROVE  FrameStep
<1> USE FrameSaid, KillsSame DEF SelectStrategy
<1>1. Effect
  BY DEF Effect, Silent, Notes, ReportsFailure, ReportsCompletion, LogQuiet, MayReport,
     Clean, Succeeding, Noted, TerminalEvents, UnsuccessfulOutcomes, Results, Failing, Expected,
     OutcomeTyped
<1>2. Underway /\ SessionTyped' /\ SoloTyped'
  BY DEF SessionTyped, SoloTyped, PlacesOf, CheckSteps, SoloCleaning, Fetching
<1>3. Typed' /\ PlacesOf'
  BY DEF PlacesOf, Failing, Places
<1>4. Failing'
  BY DEF Failing, PlacesOf
<1>5. Expected' /\ OutcomeTyped'
  BY DEF Failing, Expected, OutcomeTyped, Results
<1>6. Resources'
  BY DEF Resources, NotHeld, NotLeft, MayReport, Succeeding, Failing, PlacesOf, SoloTyped, SoloCleaning
<1> QED
  BY <1>1, <1>2, <1>3, <1>4, <1>5, <1>6 DEF FrameStep

LEMMA AnnounceStrategyFrame ==
    ASSUME Kept, AnnounceStrategy, UNCHANGED <<sessionVars, soloVars>>
    PROVE  FrameStep
<1> USE FrameSaid, KillsSame DEF AnnounceStrategy
<1>1. Effect
  BY DEF Effect, Silent, Notes, ReportsFailure, ReportsCompletion, LogQuiet, MayReport,
     Clean, Succeeding, Noted, TerminalEvents, UnsuccessfulOutcomes, Results, Failing, Expected,
     OutcomeTyped
<1>2. Underway /\ SessionTyped' /\ SoloTyped'
  BY DEF SessionTyped, SoloTyped, PlacesOf, CheckSteps, SoloCleaning, Fetching
<1>3. Typed' /\ PlacesOf'
  BY DEF PlacesOf, Failing, Places
<1>4. Failing'
  BY DEF Failing, PlacesOf
<1>5. Expected' /\ OutcomeTyped'
  BY DEF Failing, Expected, OutcomeTyped, Results
<1>6. Resources'
  BY DEF Resources, NotHeld, NotLeft, MayReport, Succeeding, Failing, PlacesOf, SoloTyped, SoloCleaning
<1> QED
  BY <1>1, <1>2, <1>3, <1>4, <1>5, <1>6 DEF FrameStep

LEMMA InstallHandlersFrame ==
    ASSUME Kept, InstallHandlers, UNCHANGED <<sessionVars, soloVars>>
    PROVE  FrameStep
<1> USE FrameSaid, KillsSame DEF InstallHandlers
<1>1. Effect
  BY DEF Effect, Silent, Notes, ReportsFailure, ReportsCompletion, LogQuiet, MayReport,
     Clean, Succeeding, Noted, TerminalEvents, UnsuccessfulOutcomes, Results, Failing, Expected,
     OutcomeTyped
<1>2. Underway /\ SessionTyped' /\ SoloTyped'
  BY DEF SessionTyped, SoloTyped, PlacesOf, CheckSteps, SoloCleaning, Fetching
<1>3. Typed' /\ PlacesOf'
  BY DEF PlacesOf, Failing, Places
<1>4. Failing'
  BY DEF Failing, PlacesOf
<1>5. Expected' /\ OutcomeTyped'
  BY DEF Failing, Expected, OutcomeTyped, Results
<1>6. Resources'
  BY DEF Resources, NotHeld, NotLeft, MayReport, Succeeding, Failing, PlacesOf, SoloTyped, SoloCleaning
<1> QED
  BY <1>1, <1>2, <1>3, <1>4, <1>5, <1>6 DEF FrameStep

LEMMA ExceptBoundedFrame ==
    ASSUME Kept, ExceptBounded, UNCHANGED <<sessionVars, soloVars>>
    PROVE  FrameStep
<1> USE FrameSaid, KillsSame DEF ExceptBounded, Leave, Reraised
<1>1. Effect
  BY DEF Effect, Silent, Notes, ReportsFailure, ReportsCompletion, LogQuiet, MayReport,
     Clean, Succeeding, Noted, TerminalEvents, UnsuccessfulOutcomes, Results, Failing, Expected,
     OutcomeTyped
<1>2. Underway /\ SessionTyped' /\ SoloTyped'
  BY DEF SessionTyped, SoloTyped, PlacesOf, CheckSteps, SoloCleaning, Fetching
<1>3. Typed' /\ PlacesOf'
  BY DEF PlacesOf, Failing, Places
<1>4. Failing'
  BY DEF Failing, PlacesOf
<1>5. Expected' /\ OutcomeTyped'
  BY DEF Failing, Expected, OutcomeTyped, Results
<1>6. Resources'
  BY DEF Resources, NotHeld, NotLeft, MayReport, Succeeding, Failing, PlacesOf, SoloTyped, SoloCleaning
<1> QED
  BY <1>1, <1>2, <1>3, <1>4, <1>5, <1>6 DEF FrameStep

LEMMA ExceptOnceFrame ==
    ASSUME Kept, ExceptOnce, UNCHANGED <<sessionVars, soloVars>>
    PROVE  FrameStep
<1> USE FrameSaid, KillsSame DEF ExceptOnce, Leave, Reraised
<1>1. Effect
  BY DEF Effect, Silent, Notes, ReportsFailure, ReportsCompletion, LogQuiet, MayReport,
     Clean, Succeeding, Noted, TerminalEvents, UnsuccessfulOutcomes, Results, Failing, Expected,
     OutcomeTyped
<1>2. Underway /\ SessionTyped' /\ SoloTyped'
  BY DEF SessionTyped, SoloTyped, PlacesOf, CheckSteps, SoloCleaning, Fetching
<1>3. Typed' /\ PlacesOf'
  BY DEF PlacesOf, Failing, Places
<1>4. Failing'
  BY DEF Failing, PlacesOf
<1>5. Expected' /\ OutcomeTyped'
  BY DEF Failing, Expected, OutcomeTyped, Results
<1>6. Resources'
  BY DEF Resources, NotHeld, NotLeft, MayReport, Succeeding, Failing, PlacesOf, SoloTyped, SoloCleaning
<1> QED
  BY <1>1, <1>2, <1>3, <1>4, <1>5, <1>6 DEF FrameStep

LEMMA ExceptContinuousFrame ==
    ASSUME Kept, ExceptContinuous, UNCHANGED <<sessionVars, soloVars>>
    PROVE  FrameStep
<1> USE FrameSaid, KillsSame DEF ExceptContinuous, Leave
<1>1. Effect
  BY DEF Effect, Silent, Notes, ReportsFailure, ReportsCompletion, LogQuiet, MayReport,
     Clean, Succeeding, Noted, TerminalEvents, UnsuccessfulOutcomes, Results, Failing, Expected,
     OutcomeTyped
<1>2. Underway /\ SessionTyped' /\ SoloTyped'
  BY DEF SessionTyped, SoloTyped, PlacesOf, CheckSteps, SoloCleaning, Fetching
<1>3. Typed' /\ PlacesOf'
  BY DEF PlacesOf, Failing, Places
<1>4. Failing'
  BY DEF Failing, PlacesOf
<1>5. Expected' /\ OutcomeTyped'
  BY DEF Failing, Expected, OutcomeTyped, Results
<1>6. Resources'
  BY DEF Resources, NotHeld, NotLeft, MayReport, Succeeding, Failing, PlacesOf, SoloTyped, SoloCleaning
<1> QED
  BY <1>1, <1>2, <1>3, <1>4, <1>5, <1>6 DEF FrameStep

LEMMA CloseClientFrame ==
    ASSUME Kept, CloseClient, UNCHANGED <<sessionVars, soloVars>>
    PROVE  FrameStep
<1> USE FrameSaid, KillsSame DEF CloseClient, NextCleanup, AfterCleanup, FirstFailure, ReleaseFails,
   ReportRelease, Released, Interrupted
<1>1. Effect
  BY DEF Effect, Silent, Notes, ReportsFailure, ReportsCompletion, LogQuiet, MayReport,
     Clean, Succeeding, Noted, TerminalEvents, UnsuccessfulOutcomes, Results, Failing, Expected,
     OutcomeTyped
<1>2. Underway /\ SessionTyped' /\ SoloTyped'
  BY DEF SessionTyped, SoloTyped, PlacesOf, CheckSteps, SoloCleaning, Fetching
<1>3. Typed' /\ PlacesOf'
  BY DEF PlacesOf, Failing, Places
<1>4. Failing'
  BY DEF Failing, PlacesOf
<1>5. Expected' /\ OutcomeTyped'
  BY DEF Failing, Expected, OutcomeTyped, Results
<1>6. Resources'
  BY DEF Resources, NotHeld, NotLeft, MayReport, Succeeding, Failing, PlacesOf, SoloTyped, SoloCleaning
<1> QED
  BY <1>1, <1>2, <1>3, <1>4, <1>5, <1>6 DEF FrameStep

LEMMA RestoreHandlersFrame ==
    ASSUME Kept, RestoreHandlers, UNCHANGED <<sessionVars, soloVars>>
    PROVE  FrameStep
<1> USE FrameSaid, KillsSame DEF RestoreHandlers, Interrupted, NextCleanup, AfterCleanup, FirstFailure, ReleaseFails,
   ReportRelease, Released
<1>1. Effect
  BY DEF Effect, Silent, Notes, ReportsFailure, ReportsCompletion, LogQuiet, MayReport,
     Clean, Succeeding, Noted, TerminalEvents, UnsuccessfulOutcomes, Results, Failing, Expected,
     OutcomeTyped
<1>2. Underway /\ SessionTyped' /\ SoloTyped'
  BY DEF SessionTyped, SoloTyped, PlacesOf, CheckSteps, SoloCleaning, Fetching
<1>3. Typed' /\ PlacesOf'
  BY DEF PlacesOf, Failing, Places
<1>4. Failing'
  BY DEF Failing, PlacesOf
<1>5. Expected' /\ OutcomeTyped'
  BY DEF Failing, Expected, OutcomeTyped, Results
<1>6. Resources'
  BY DEF Resources, NotHeld, NotLeft, MayReport, Succeeding, Failing, PlacesOf, SoloTyped, SoloCleaning
<1> QED
  BY <1>1, <1>2, <1>3, <1>4, <1>5, <1>6 DEF FrameStep

LEMMA CloseBackendFrame ==
    ASSUME Kept, CloseBackend, UNCHANGED <<sessionVars, soloVars>>
    PROVE  FrameStep
<1> USE FrameSaid, KillsSame DEF CloseBackend, Interrupted, NextCleanup, AfterCleanup, FirstFailure, ReleaseFails,
   ReportRelease, Released
<1>1. Effect
  BY DEF Effect, Silent, Notes, ReportsFailure, ReportsCompletion, LogQuiet, MayReport,
     Clean, Succeeding, Noted, TerminalEvents, UnsuccessfulOutcomes, Results, Failing, Expected,
     OutcomeTyped
<1>2. Underway /\ SessionTyped' /\ SoloTyped'
  BY DEF SessionTyped, SoloTyped, PlacesOf, CheckSteps, SoloCleaning, Fetching
<1>3. Typed' /\ PlacesOf'
  BY DEF PlacesOf, Failing, Places
<1>4. Failing'
  BY DEF Failing, PlacesOf
<1>5. Expected' /\ OutcomeTyped'
  BY DEF Failing, Expected, OutcomeTyped, Results
<1>6. Resources'
  BY DEF Resources, NotHeld, NotLeft, MayReport, Succeeding, Failing, PlacesOf, SoloTyped, SoloCleaning
<1> QED
  BY <1>1, <1>2, <1>3, <1>4, <1>5, <1>6 DEF FrameStep

LEMMA FinishFrame ==
    ASSUME Kept, Finish, UNCHANGED <<sessionVars, soloVars>>
    PROVE  FrameStep
<1> USE FrameSaid, KillsSame DEF Finish
<1>1. Effect
  BY DEF Effect, Silent, Notes, ReportsFailure, ReportsCompletion, LogQuiet, MayReport,
     Clean, Succeeding, Noted, TerminalEvents, UnsuccessfulOutcomes, Results, Failing, Expected,
     OutcomeTyped
<1>2. Underway /\ SessionTyped' /\ SoloTyped'
  BY DEF SessionTyped, SoloTyped, PlacesOf, CheckSteps, SoloCleaning, Fetching
<1>3. Typed' /\ PlacesOf'
  BY DEF PlacesOf, Failing, Places
<1>4. Failing'
  BY DEF Failing, PlacesOf
<1>5. Expected' /\ OutcomeTyped'
  BY DEF Failing, Expected, OutcomeTyped, Results
<1>6. Resources'
  BY DEF Resources, NotHeld, NotLeft, MayReport, Succeeding, Failing, PlacesOf, SoloTyped, SoloCleaning
<1> QED
  BY <1>1, <1>2, <1>3, <1>4, <1>5, <1>6 DEF FrameStep

LEMMA ExceptSoloFrame ==
    ASSUME Kept, ExceptSolo, UNCHANGED sessionVars
    PROVE  FrameStep /\ NoNeeds
<1> USE FrameSaid, KillsSame DEF ExceptSolo, Reported, Escapes, Reraised, Caught
<1>1. Effect
  BY DEF Effect, Silent, Notes, ReportsFailure, ReportsCompletion, LogQuiet, MayReport,
     Clean, Succeeding, Noted, TerminalEvents, UnsuccessfulOutcomes, Results, Failing, Expected,
     OutcomeTyped
<1>2. Underway /\ SessionTyped' /\ SoloTyped'
  BY DEF SessionTyped, SoloTyped, PlacesOf, CheckSteps, SoloCleaning, Fetching
<1>3. Typed' /\ PlacesOf'
  BY DEF PlacesOf, Failing, Places
<1>4. Failing'
  BY DEF Failing, PlacesOf
<1>5. Expected' /\ OutcomeTyped'
  BY DEF Failing, Expected, OutcomeTyped, Results
<1>6. Resources'
  BY DEF Resources, NotHeld, NotLeft, MayReport, Succeeding, Failing, PlacesOf, SoloTyped, SoloCleaning
<1>7. NoNeeds
  BY DEF NoNeeds, NeedsCandidate, NeedsProposal, SoloTyped
<1> QED
  BY <1>1, <1>2, <1>3, <1>4, <1>5, <1>6, <1>7 DEF FrameStep

LEMMA SoloCleanupBeginsFrame ==
    ASSUME Kept, SoloCleanupBegins, UNCHANGED sessionVars
    PROVE  FrameStep /\ NoNeeds
<1> USE FrameSaid, KillsSame DEF SoloCleanupBegins, To, Turn, Quiet
<1>1. Effect
  BY DEF Effect, Silent, Notes, ReportsFailure, ReportsCompletion, LogQuiet, MayReport,
     Clean, Succeeding, Noted, TerminalEvents, UnsuccessfulOutcomes, Results, Failing, Expected,
     OutcomeTyped
<1>2. Underway /\ SessionTyped' /\ SoloTyped'
  BY DEF SessionTyped, SoloTyped, PlacesOf, CheckSteps, SoloCleaning, Fetching
<1>3. Typed' /\ PlacesOf'
  BY DEF PlacesOf, Failing, Places
<1>4. Failing'
  BY DEF Failing, PlacesOf
<1>5. Expected' /\ OutcomeTyped'
  BY DEF Failing, Expected, OutcomeTyped, Results
<1>6. Resources'
  BY DEF Resources, NotHeld, NotLeft, MayReport, Succeeding, Failing, PlacesOf, SoloTyped, SoloCleaning
<1>7. NoNeeds
  BY DEF NoNeeds, NeedsCandidate, NeedsProposal, SoloTyped
<1> QED
  BY <1>1, <1>2, <1>3, <1>4, <1>5, <1>6, <1>7 DEF FrameStep

LEMMA RestoreSoloHandlersFrame ==
    ASSUME Kept, RestoreSoloHandlers, UNCHANGED sessionVars
    PROVE  FrameStep /\ NoNeeds
<1> USE FrameSaid, KillsSame DEF RestoreSoloHandlers, Released, Remember, To, Turn, Reached
<1>1. Effect
  BY DEF Effect, Silent, Notes, ReportsFailure, ReportsCompletion, LogQuiet, MayReport,
     Clean, Succeeding, Noted, TerminalEvents, UnsuccessfulOutcomes, Results, Failing, Expected,
     OutcomeTyped
<1>2. Underway /\ SessionTyped' /\ SoloTyped'
  BY DEF SessionTyped, SoloTyped, PlacesOf, CheckSteps, SoloCleaning, Fetching
<1>3. Typed' /\ PlacesOf'
  BY DEF PlacesOf, Failing, Places
<1>4. Failing'
  BY DEF Failing, PlacesOf
<1>5. Expected' /\ OutcomeTyped'
  BY DEF Failing, Expected, OutcomeTyped, Results
<1>6. Resources'
  BY DEF Resources, NotHeld, NotLeft, MayReport, Succeeding, Failing, PlacesOf, SoloTyped, SoloCleaning
<1>7. NoNeeds
  BY DEF NoNeeds, NeedsCandidate, NeedsProposal, SoloTyped
<1> QED
  BY <1>1, <1>2, <1>3, <1>4, <1>5, <1>6, <1>7 DEF FrameStep

LEMMA CloseSoloBackendFrame ==
    ASSUME Kept, CloseSoloBackend, UNCHANGED sessionVars
    PROVE  FrameStep /\ NoNeeds
<1> USE FrameSaid, KillsSame DEF CloseSoloBackend, Released, Remember, To, Turn, Reached
<1>1. Effect
  BY DEF Effect, Silent, Notes, ReportsFailure, ReportsCompletion, LogQuiet, MayReport,
     Clean, Succeeding, Noted, TerminalEvents, UnsuccessfulOutcomes, Results, Failing, Expected,
     OutcomeTyped
<1>2. Underway /\ SessionTyped' /\ SoloTyped'
  BY DEF SessionTyped, SoloTyped, PlacesOf, CheckSteps, SoloCleaning, Fetching
<1>3. Typed' /\ PlacesOf'
  BY DEF PlacesOf, Failing, Places
<1>4. Failing'
  BY DEF Failing, PlacesOf
<1>5. Expected' /\ OutcomeTyped'
  BY DEF Failing, Expected, OutcomeTyped, Results
<1>6. Resources'
  BY DEF Resources, NotHeld, NotLeft, MayReport, Succeeding, Failing, PlacesOf, SoloTyped, SoloCleaning
<1>7. NoNeeds
  BY DEF NoNeeds, NeedsCandidate, NeedsProposal, SoloTyped
<1> QED
  BY <1>1, <1>2, <1>3, <1>4, <1>5, <1>6, <1>7 DEF FrameStep

LEMMA CloseSoloClientFrame ==
    ASSUME Kept, CloseSoloClient, UNCHANGED sessionVars
    PROVE  FrameStep /\ NoNeeds
<1> USE FrameSaid, KillsSame DEF CloseSoloClient, Released, Remember, To, Turn, Reached, CloseRpc
<1>1. Effect
  BY DEF Effect, Silent, Notes, ReportsFailure, ReportsCompletion, LogQuiet, MayReport,
     Clean, Succeeding, Noted, TerminalEvents, UnsuccessfulOutcomes, Results, Failing, Expected,
     OutcomeTyped
<1>2. Underway /\ SessionTyped' /\ SoloTyped'
  BY DEF SessionTyped, SoloTyped, PlacesOf, CheckSteps, SoloCleaning, Fetching
<1>3. Typed' /\ PlacesOf'
  BY DEF PlacesOf, Failing, Places
<1>4. Failing'
  BY DEF Failing, PlacesOf
<1>5. Expected' /\ OutcomeTyped'
  BY DEF Failing, Expected, OutcomeTyped, Results
<1>6. Resources'
  BY DEF Resources, NotHeld, NotLeft, MayReport, Succeeding, Failing, PlacesOf, SoloTyped, SoloCleaning
<1>7. NoNeeds
  BY DEF NoNeeds, NeedsCandidate, NeedsProposal, SoloTyped, CloseRpc
<1> QED
  BY <1>1, <1>2, <1>3, <1>4, <1>5, <1>6, <1>7 DEF FrameStep

LEMMA InterruptSoloCleanupFrame ==
    ASSUME Kept, InterruptSoloCleanup, UNCHANGED sessionVars
    PROVE  FrameStep /\ NoNeeds
<1> USE FrameSaid, KillsSame DEF InterruptSoloCleanup, Interrupted
<1>1. Effect
  BY DEF Effect, Silent, Notes, ReportsFailure, ReportsCompletion, LogQuiet, MayReport,
     Clean, Succeeding, Noted, TerminalEvents, UnsuccessfulOutcomes, Results, Failing, Expected,
     OutcomeTyped
<1>2. Underway /\ SessionTyped' /\ SoloTyped'
  BY DEF SessionTyped, SoloTyped, PlacesOf, CheckSteps, SoloCleaning, Fetching
<1>3. Typed' /\ PlacesOf'
  BY DEF PlacesOf, Failing, Places
<1>4. Failing'
  BY DEF Failing, PlacesOf
<1>5. Expected' /\ OutcomeTyped'
  BY DEF Failing, Expected, OutcomeTyped, Results
<1>6. Resources'
  BY DEF Resources, NotHeld, NotLeft, MayReport, Succeeding, Failing, PlacesOf, SoloTyped, SoloCleaning
<1>7. NoNeeds
  BY DEF NoNeeds, NeedsCandidate, NeedsProposal, SoloTyped
<1> QED
  BY <1>1, <1>2, <1>3, <1>4, <1>5, <1>6, <1>7 DEF FrameStep

LEMMA SoloResultFrame ==
    ASSUME Kept, SoloResult, UNCHANGED sessionVars
    PROVE  FrameStep /\ NoNeeds
<1> USE FrameSaid, KillsSame DEF SoloResult, Reached
<1>1. Effect
  BY DEF Effect, Silent, Notes, ReportsFailure, ReportsCompletion, LogQuiet, MayReport,
     Clean, Succeeding, Noted, TerminalEvents, UnsuccessfulOutcomes, Results, Failing, Expected,
     OutcomeTyped
<1>2. Underway /\ SessionTyped' /\ SoloTyped'
  BY DEF SessionTyped, SoloTyped, PlacesOf, CheckSteps, SoloCleaning, Fetching
<1>3. Typed' /\ PlacesOf'
  BY DEF PlacesOf, Failing, Places
<1>4. Failing'
  BY DEF Failing, PlacesOf
<1>5. Expected' /\ OutcomeTyped'
  BY DEF Failing, Expected, OutcomeTyped, Results
<1>6. Resources'
  BY DEF Resources, NotHeld, NotLeft, MayReport, Succeeding, Failing, PlacesOf, SoloTyped, SoloCleaning
<1>7. NoNeeds
  BY DEF NoNeeds, NeedsCandidate, NeedsProposal, SoloTyped
<1> QED
  BY <1>1, <1>2, <1>3, <1>4, <1>5, <1>6, <1>7 DEF FrameStep

LEMMA SoloFinishFrame ==
    ASSUME Kept, SoloFinish, UNCHANGED sessionVars
    PROVE  FrameStep /\ NoNeeds
<1> USE FrameSaid, KillsSame DEF SoloFinish
<1>1. Effect
  BY DEF Effect, Silent, Notes, ReportsFailure, ReportsCompletion, LogQuiet, MayReport,
     Clean, Succeeding, Noted, TerminalEvents, UnsuccessfulOutcomes, Results, Failing, Expected,
     OutcomeTyped
<1>2. Underway /\ SessionTyped' /\ SoloTyped'
  BY DEF SessionTyped, SoloTyped, PlacesOf, CheckSteps, SoloCleaning, Fetching
<1>3. Typed' /\ PlacesOf'
  BY DEF PlacesOf, Failing, Places
<1>4. Failing'
  BY DEF Failing, PlacesOf
<1>5. Expected' /\ OutcomeTyped'
  BY DEF Failing, Expected, OutcomeTyped, Results
<1>6. Resources'
  BY DEF Resources, NotHeld, NotLeft, MayReport, Succeeding, Failing, PlacesOf, SoloTyped, SoloCleaning
<1>7. NoNeeds
  BY DEF NoNeeds, NeedsCandidate, NeedsProposal, SoloTyped
<1> QED
  BY <1>1, <1>2, <1>3, <1>4, <1>5, <1>6, <1>7 DEF FrameStep

HIDE DEF Said, Say, Wrote, Failed, CommandFailed, GoTo, Return, Raise,
   resourceVars, logVars, sessionVars, soloVars, rpcVars, Fault, Underway, Kept, Control,
   Typed, Preparing, Cleaning, Errors, SearchCommands, BitcoinCommands

LEMMA SettingsFrame ==
    ASSUME Kept, Settings, UNCHANGED <<sessionVars, soloVars>>
    PROVE  FrameStep
<1>1. \/ Still /\ command \notin SearchCommands /\ GoTo("session")
      \/ Still /\ command \in SearchCommands
         /\ GoTo(IF command = "stratum-mine" THEN "profile" ELSE "backend")
      \/ Wrote("command_failed") /\ Return(2)
      \/ Failed("command_failed") /\ Return(1)
  BY FrameSaid DEF Said, Say, CommandFailed, Settings, logVars, Still, LogQuiet
<1>2. pc = "settings" /\ UNCHANGED <<client, handlers, backend>> /\ limits' = limits
  BY FrameSaid DEF Said, Say, CommandFailed, Settings, resourceVars, logVars
<1> USE <1>1, <1>2, KillsSame DEF Still, Wrote, Failed, GoTo, Return, Raise, resourceVars, logVars,
   sessionVars, soloVars, rpcVars, Fault, Underway, Kept, Control, Typed, Preparing,
   Cleaning, Errors, SearchCommands, BitcoinCommands
<1>3. Effect
  BY DEF Effect, Silent, Notes, ReportsFailure, ReportsCompletion, LogQuiet, MayReport,
     Clean, Succeeding, Noted, TerminalEvents, UnsuccessfulOutcomes, Results, Failing, Expected,
     OutcomeTyped
<1>4. Underway /\ SessionTyped' /\ SoloTyped'
  BY DEF SessionTyped, SoloTyped, PlacesOf, CheckSteps, SoloCleaning, Fetching
<1>5. Typed' /\ PlacesOf'
  BY DEF PlacesOf, Failing, Places
<1>6. Failing'
  BY DEF Failing, PlacesOf
<1>7. Expected' /\ OutcomeTyped'
  BY DEF Failing, Expected, OutcomeTyped, Results
<1>8. Resources'
  BY DEF Resources, NotHeld, NotLeft, MayReport, Succeeding, Failing, PlacesOf, SoloTyped, SoloCleaning
<1> QED
  BY <1>1, <1>2, <1>3, <1>4, <1>5, <1>6, <1>7, <1>8 DEF FrameStep

LEMMA ResolveProfileFrame ==
    ASSUME Kept, ResolveProfile, UNCHANGED <<sessionVars, soloVars>>
    PROVE  FrameStep
<1>1. \/ Still /\ GoTo("backend")
      \/ Wrote("command_failed") /\ Return(2)
      \/ Failed("command_failed") /\ Return(1)
      \/ Wrote("compute_profile_resolved") /\ GoTo("backend")
      \/ Failed("compute_profile_resolved") /\ Return(1)
  BY FrameSaid DEF Said, Say, CommandFailed, ResolveProfile, logVars, Still, LogQuiet
<1>2. pc = "profile" /\ UNCHANGED <<client, handlers, backend>> /\ limits' = limits
  BY FrameSaid DEF Said, Say, CommandFailed, ResolveProfile, resourceVars, logVars
<1> USE <1>1, <1>2, KillsSame DEF Still, Wrote, Failed, GoTo, Return, Raise, resourceVars, logVars,
   sessionVars, soloVars, rpcVars, Fault, Underway, Kept, Control, Typed, Preparing,
   Cleaning, Errors, SearchCommands, BitcoinCommands
<1>3. Effect
  BY DEF Effect, Silent, Notes, ReportsFailure, ReportsCompletion, LogQuiet, MayReport,
     Clean, Succeeding, Noted, TerminalEvents, UnsuccessfulOutcomes, Results, Failing, Expected,
     OutcomeTyped
<1>4. Underway /\ SessionTyped' /\ SoloTyped'
  BY DEF SessionTyped, SoloTyped, PlacesOf, CheckSteps, SoloCleaning, Fetching
<1>5. Typed' /\ PlacesOf'
  BY DEF PlacesOf, Failing, Places
<1>6. Failing'
  BY DEF Failing, PlacesOf
<1>7. Expected' /\ OutcomeTyped'
  BY DEF Failing, Expected, OutcomeTyped, Results
<1>8. Resources'
  BY DEF Resources, NotHeld, NotLeft, MayReport, Succeeding, Failing, PlacesOf, SoloTyped, SoloCleaning
<1> QED
  BY <1>1, <1>2, <1>3, <1>4, <1>5, <1>6, <1>7, <1>8 DEF FrameStep

\* A step of a session writes no more than its event, and keeps what is kept.
LEMMA SessionFrame ==
    ASSUME Kept, SessionStep, UNCHANGED soloVars
    PROVE  FrameStep
<1> USE KillsSame DEF SessionStep, SessionMoves, Kept, Control, Typed, Underway, soloVars, Preparing,
   Cleaning, Errors, SearchCommands, BitcoinCommands
<1>1. Effect
  <2>1. CASE LogQuiet
    BY <2>1 DEF Effect, Silent, MayReport, Clean, Succeeding, Failing
  <2>2. CASE \E event : Noted(event) /\ SessionWrites(event)
    <3>1. PICK event : Noted(event) /\ SessionWrites(event)
      BY <2>2
    <3>2. Notes(event)
      BY <3>1 DEF SessionWrites, Wrote, Failed, Notes, MayReport, Clean, Succeeding, Failing
    <3> QED
      BY <3>1, <3>2 DEF Effect
  <2> QED
    BY <2>1, <2>2
<1>2. Underway /\ SessionTyped' /\ SoloTyped'
  BY DEF SessionTyped, SoloTyped, PlacesOf, CheckSteps, SoloCleaning, Fetching
<1>3. Typed' /\ PlacesOf'
  BY DEF PlacesOf, Failing, Expected, Places
<1>4. Failing'
  BY DEF Failing, Expected, PlacesOf
<1>5. Expected' /\ OutcomeTyped'
  BY DEF Failing, Expected, OutcomeTyped, Results
<1>6. Resources'
  BY DEF Resources, NotHeld, NotLeft, MayReport, Succeeding, Failing, PlacesOf
<1> QED
  BY <1>1, <1>2, <1>3, <1>4, <1>5, <1>6 DEF FrameStep

\* So does a step of a solo session.
LEMMA SoloFrame ==
    ASSUME Kept, SoloMoves, SoloLog, UNCHANGED sessionVars
    PROVE  FrameStep
<1> USE KillsSame DEF SoloMoves, SoloLog, Kept, Control, Typed, Underway, sessionVars, Preparing,
   Cleaning, Errors, SearchCommands, BitcoinCommands
<1>1. Effect
  <2>0. session.step # "stale_failed"
    BY DEF SessionTyped
  <2>1. CASE LogQuiet
    BY <2>0, <2>1 DEF Effect, Silent, MayReport, Clean, Succeeding, Failing
  <2>2. CASE \E event : Noted(event) /\ SoloWrites(event)
    <3>1. PICK event : Noted(event) /\ SoloWrites(event)
      BY <2>2
    <3>2. Notes(event)
      BY <2>0, <3>1 DEF SoloWrites, Wrote, Failed, Notes, MayReport, Clean, Succeeding, Failing
    <3> QED
      BY <3>1, <3>2 DEF Effect
  <2> QED
    BY <2>1, <2>2
<1>2. Underway /\ SessionTyped' /\ SoloTyped'
  BY DEF SessionTyped, SoloTyped, PlacesOf, CheckSteps, SoloCleaning, Fetching
<1>3. Typed' /\ PlacesOf'
  BY DEF PlacesOf, Failing, Expected, Places
<1>4. Failing'
  BY DEF Failing, Expected, PlacesOf
<1>5. Expected' /\ OutcomeTyped'
  BY DEF Failing, Expected, OutcomeTyped, Results
<1>6. Resources'
  BY DEF Resources, NotHeld, NotLeft, MayReport, Succeeding, Failing, PlacesOf, SoloTyped, SoloCleaning
<1> QED
  BY <1>1, <1>2, <1>3, <1>4, <1>5, <1>6 DEF FrameStep

\* A run begins with command_started, or something failed.
Opening ==
    pc = "start" =>
        \/ WrittenAs("command_started", command) /\ faults' = faults /\ MayReport'
        \/ faults' = faults + 1

LEMMA StartOpens ==
    ASSUME Kept, Start
    PROVE  Opening
<1>1. \/ WrittenAs("command_started", command) /\ faults' = faults
         /\ GoTo(IF command \in BitcoinCommands THEN "session" ELSE "settings")
      \/ faults' = faults + 1
  BY FrameSaid DEF Start, Say, Said, Wrote, Failed
<1> QED
  BY <1>1 DEF Opening, GoTo, MayReport, Preparing

\* What every step of a command comes to while it runs.
CommandStep == FrameStep /\ SendStep /\ Opening

LEMMA CommandSteps ==
    ASSUME Kept,
           \/ /\ Start \/ Prepare \/ Except \/ Cleanup \/ Finish
              /\ UNCHANGED <<sessionVars, soloVars>>
           \/ SessionNext /\ UNCHANGED soloVars
           \/ SoloNext /\ UNCHANGED sessionVars
    PROVE  CommandStep
<1> USE DEF CommandStep, SendStep
<1>0. Opening
  <2>1. CASE Start
    BY <2>1, StartOpens
  <2>2. CASE pc # "start"
    BY <2>2 DEF Opening
  <2>3. CASE SessionNext
    <3>1. pc = "session"
      BY <2>3, SessionSteps DEF Kept, SessionStep, SessionMoves
    <3> QED
      BY <3>1 DEF Opening
  <2>4. CASE SoloSetup \/ SoloSession
    <3>1. pc = "session"
      BY <2>4, SoloSteps DEF Kept, SoloMoves
    <3> QED
      BY <3>1 DEF Opening
  <2>5. CASE InterruptFrame
    BY <2>5 DEF InterruptFrame, Interrupted, Fault, Opening
  <2>6. CASE (Prepare /\ ~InterruptFrame) \/ Except \/ Cleanup \/ Finish
    <3>1. pc # "start"
      BY <2>6 DEF Prepare, Settings, ResolveProfile, SelectBackend,
         SelectStrategy, AnnounceStrategy, InstallHandlers, Except, ExceptBounded, ExceptOnce,
         ExceptContinuous, Cleanup, CloseClient, RestoreHandlers, CloseBackend, Finish
    <3> QED
      BY <3>1 DEF Opening
  <2>7. CASE SoloNext /\ ~(SoloSetup \/ SoloSession)
    <3>1. pc # "start"
      BY <2>7 DEF SoloNext, ExceptSolo, SoloCleanupBegins, RestoreSoloHandlers,
         CloseSoloBackend, CloseSoloClient, InterruptSoloCleanup, SoloResult, SoloFinish, Reached
    <3> QED
      BY <3>1 DEF Opening
  <2> QED
    BY <2>1, <2>3, <2>4, <2>5, <2>6, <2>7
<1>1. CASE /\ Start \/ Prepare \/ Except \/ Cleanup \/ Finish
           /\ UNCHANGED <<sessionVars, soloVars>>
  <2>1. FrameStep
    BY <1>1, StartFrame, InterruptedFrame, SettingsFrame, ResolveProfileFrame,
       SelectBackendFrame, SelectStrategyFrame, AnnounceStrategyFrame, InstallHandlersFrame,
       ExceptBoundedFrame, ExceptOnceFrame, ExceptContinuousFrame, CloseClientFrame,
       RestoreHandlersFrame, CloseBackendFrame, FinishFrame
       DEF Prepare, Except, Cleanup
  <2> QED
    BY <1>0, <1>1, <2>1 DEF FrameStep, Underway, Kept, Control, PlacesOf, sessionVars, soloVars,
       rpcVars, NeedsCandidate, NeedsProposal
<1>2. CASE SessionNext /\ UNCHANGED soloVars
  <2>1. SessionStep /\ FrameStep
    BY <1>2, SessionSteps, SessionFrame DEF Kept
  <2> QED
    BY <1>0, <1>2, <2>1 DEF SessionStep, SessionMoves, Clean, soloVars, rpcVars, NeedsCandidate,
       NeedsProposal
<1>3. CASE SoloNext /\ UNCHANGED sessionVars
  <2>1. CASE SoloSetup \/ SoloSession
    <3>1. SoloMoves /\ FrameStep
      BY <1>3, <2>1, SoloSteps, SoloFrame DEF Kept
    <3>2. session.step \notin {"submit", "stale_failed"} /\ UNCHANGED <<session, sent>>
      BY <1>3, <3>1 DEF SoloMoves, Kept, SessionTyped, SearchCommands, BitcoinCommands,
         sessionVars
    <3> QED
      BY <1>0, <3>1, <3>2 DEF SoloMoves, Clean
  <2>2. CASE ~(SoloSetup \/ SoloSession)
    <3>1. FrameStep /\ NoNeeds
      BY <1>3, <2>2, ExceptSoloFrame, SoloCleanupBeginsFrame, RestoreSoloHandlersFrame,
         CloseSoloBackendFrame, CloseSoloClientFrame, InterruptSoloCleanupFrame,
         SoloResultFrame, SoloFinishFrame
         DEF SoloNext
    <3> QED
      BY <1>0, <1>3, <3>1 DEF NoNeeds, FrameStep, Underway, Kept, Control, PlacesOf, sessionVars
  <2> QED
    BY <2>1, <2>2
<1> QED
  BY <1>1, <1>2, <1>3

-------------------------------------------------------------------------------
(* Sequences of half lines.                                                 *)

IsSeq(q) == \E S : q \in Seq(S)

\* p is a stretch of q.
Stretch(p, q) ==
    \E k \in Nat : \A i \in DOMAIN p : k + i \in DOMAIN q /\ p[i] = q[k + i]

LEMMA SeqLen ==
    ASSUME NEW q, IsSeq(q)
    PROVE  Len(q) \in Nat /\ DOMAIN q = 1 .. Len(q)
<1>1. PICK S : q \in Seq(S)
  BY DEF IsSeq
<1> QED
  BY <1>1, LenProperties

LEMMA SeqJoin ==
    ASSUME NEW p, NEW q, IsSeq(p), IsSeq(q)
    PROVE  /\ IsSeq(p \o q)
           /\ Len(p \o q) = Len(p) + Len(q)
           /\ \A i \in 1 .. Len(p) : (p \o q)[i] = p[i]
           /\ \A i \in 1 .. Len(q) : (p \o q)[Len(p) + i] = q[i]
<1>1. PICK S : p \in Seq(S)
  BY DEF IsSeq
<1>2. PICK T : q \in Seq(T)
  BY DEF IsSeq
<1>3. p \in Seq(S \cup T) /\ q \in Seq(S \cup T)
  BY <1>1, <1>2, SeqMonotonic
<1>4. /\ p \o q \in Seq(S \cup T)
      /\ Len(p \o q) = Len(p) + Len(q)
      /\ \A i \in 1 .. Len(p) + Len(q) :
            (p \o q)[i] = IF i <= Len(p) THEN p[i] ELSE q[i - Len(p)]
  BY <1>3, ConcatProperties
<1>5. Len(p) \in Nat /\ Len(q) \in Nat
  BY SeqLen
<1>6. IsSeq(p \o q)
  BY <1>4 DEF IsSeq
<1> QED
  BY <1>4, <1>5, <1>6

LEMMA SeqAssociative ==
    ASSUME NEW p, NEW q, NEW h, IsSeq(p), IsSeq(q), IsSeq(h)
    PROVE  (p \o q) \o h = p \o (q \o h) /\ p \o <<>> = p /\ <<>> \o p = p /\ IsSeq(<<>>)
<1>1. PICK S : p \in Seq(S)
  BY DEF IsSeq
<1>2. PICK T : q \in Seq(T)
  BY DEF IsSeq
<1>3. PICK U : h \in Seq(U)
  BY DEF IsSeq
<1> DEFINE V == S \cup T \cup U
<1>4. p \in Seq(V) /\ q \in Seq(V) /\ h \in Seq(V)
  BY <1>1, <1>2, <1>3, SeqMonotonic
<1>5. <<>> \in Seq(V)
  BY EmptySeq
<1> HIDE DEF V
<1>6. IsSeq(<<>>)
  BY <1>5 DEF IsSeq
<1> QED
  BY <1>4, <1>6, ConcatAssociative, ConcatEmptySeq

LEMMA StretchJoin ==
    ASSUME NEW p, NEW q, IsSeq(p), IsSeq(q)
    PROVE  Stretch(p, p) /\ Stretch(p, p \o q) /\ Stretch(q, p \o q)
<1>1. /\ Len(p) \in Nat /\ DOMAIN p = 1 .. Len(p)
      /\ Len(q) \in Nat /\ DOMAIN q = 1 .. Len(q)
      /\ DOMAIN (p \o q) = 1 .. Len(p) + Len(q)
  BY SeqLen, SeqJoin
<1>2. Stretch(p, p) /\ Stretch(p, p \o q)
  <2>1. \A i \in DOMAIN p : 0 + i = i /\ i \in DOMAIN (p \o q) /\ p[i] = (p \o q)[i]
    BY <1>1, SeqJoin
  <2> QED
    BY <2>1 DEF Stretch
<1>3. Stretch(q, p \o q)
  <2>1. \A i \in DOMAIN q : Len(p) + i \in DOMAIN (p \o q) /\ q[i] = (p \o q)[Len(p) + i]
    BY <1>1, SeqJoin
  <2> QED
    BY <1>1, <2>1 DEF Stretch
<1> QED
  BY <1>2, <1>3

LEMMA SeqCut ==
    ASSUME NEW q, IsSeq(q), NEW n \in 0 .. Len(q)
    PROVE  /\ IsSeq(SubSeq(q, 1, n)) /\ IsSeq(SubSeq(q, n + 1, Len(q)))
           /\ SubSeq(q, 1, n) \o SubSeq(q, n + 1, Len(q)) = q
           /\ Stretch(SubSeq(q, 1, n), q) /\ Stretch(SubSeq(q, n + 1, Len(q)), q)
<1>1. PICK S : q \in Seq(S)
  BY DEF IsSeq
<1>2. Len(q) \in Nat
  BY SeqLen
<1>3. \A i \in 1 .. n : q[i] \in S
  BY <1>1, <1>2, ElementOfSeq
<1>4. \A i \in n + 1 .. Len(q) : q[i] \in S
  BY <1>1, <1>2, ElementOfSeq
<1>5. SubSeq(q, 1, n) \in Seq(S)
  BY <1>2, <1>3, SubSeqProperties
<1>6. SubSeq(q, n + 1, Len(q)) \in Seq(S)
  BY <1>2, <1>4, SubSeqProperties
<1>7. SubSeq(q, 1, n) \o SubSeq(q, n + 1, Len(q)) = q
  <2>1. SubSeq(q, 1, n) \o SubSeq(q, n + 1, Len(q)) = SubSeq(q, 1, Len(q))
    <3>1. 1 \in 1 .. Len(q) + 1 /\ n \in 1 - 1 .. Len(q) /\ Len(q) \in n .. Len(q)
      BY <1>2
    <3> QED
      BY <1>1, <3>1, ConcatAdjacentSubSeq
  <2> QED
    BY <1>1, <2>1, SubSeqFull
<1>8. IsSeq(SubSeq(q, 1, n)) /\ IsSeq(SubSeq(q, n + 1, Len(q)))
  BY <1>5, <1>6 DEF IsSeq
<1> QED
  BY <1>7, <1>8, StretchJoin

LEMMA HalvesOf ==
    ASSUME NEW record
    PROVE  /\ IsSeq(Halves(record)) /\ Len(Halves(record)) = 2
           /\ Halves(record)[1] = [record |-> record, last |-> FALSE]
           /\ Halves(record)[2] = [record |-> record, last |-> TRUE]
<1>1. Halves(record) \in Seq({[record |-> record, last |-> FALSE],
                              [record |-> record, last |-> TRUE]})
  BY DEF Halves
<1> QED
  BY <1>1 DEF Halves, IsSeq

-------------------------------------------------------------------------------
(* What a file says of a run stays what it was when something is appended. *)

\* Of what holds of a sequence, this holds of its stretches.
LEMMA StretchKeeps ==
    ASSUME NEW p, NEW q, IsSeq(p), IsSeq(q), Stretch(p, q)
    PROVE  /\ Sealed(q) => Sealed(p)
           /\ \A r : NoTerminal(q, r) => NoTerminal(p, r)
           /\ \A B : (\A i \in DOMAIN q : q[i].record.run \in B) =>
                     (\A i \in DOMAIN p : p[i].record.run \in B)
<1>1. PICK k \in Nat : \A i \in DOMAIN p : k + i \in DOMAIN q /\ p[i] = q[k + i]
  BY DEF Stretch
<1>2. DOMAIN p \subseteq Nat
  BY SeqLen
<1>3. Sealed(q) => Sealed(p)
  <2> SUFFICES ASSUME Sealed(q), NEW i \in DOMAIN p, NEW j \in DOMAIN p, i < j, p[i].last,
                      IsTerminal(p[i], p[i].record.run)
               PROVE  p[j].record.run # p[i].record.run
    BY DEF Sealed
  <2>1. k + i < k + j /\ p[i] = q[k + i] /\ p[j] = q[k + j]
    BY <1>1, <1>2
  <2> QED
    BY <1>1, <2>1 DEF Sealed
<1>4. \A r : NoTerminal(q, r) => NoTerminal(p, r)
  BY <1>1 DEF NoTerminal
<1> QED
  BY <1>1, <1>3, <1>4

\* A record of a run without a terminal one may follow.
LEMMA SealedJoin ==
    ASSUME NEW q, NEW record, IsSeq(q), Sealed(q), NoTerminal(q, record.run)
    PROVE  /\ Sealed(q \o Halves(record))
           /\ record.event \notin TerminalEvents =>
                 NoTerminal(q \o Halves(record), record.run)
<1> DEFINE line == Halves(record)
<1>1. IsSeq(line) /\ Len(line) = 2 /\ line[1].record = record /\ line[2].record = record
      /\ line[1].last = FALSE /\ line[2].last = TRUE
  <2>1. /\ IsSeq(line) /\ Len(line) = 2
        /\ line[1] = [record |-> record, last |-> FALSE]
        /\ line[2] = [record |-> record, last |-> TRUE]
    BY HalvesOf
  <2> QED
    BY <2>1
<1> HIDE DEF line
<1>2. Len(q) \in Nat /\ DOMAIN q = 1 .. Len(q)
  BY SeqLen
<1>3. /\ DOMAIN (q \o line) = 1 .. Len(q) + 2
      /\ \A i \in 1 .. Len(q) : (q \o line)[i] = q[i]
      /\ (q \o line)[Len(q) + 1] = line[1] /\ (q \o line)[Len(q) + 2] = line[2]
  <2>1. /\ IsSeq(q \o line) /\ Len(q \o line) = Len(q) + Len(line)
        /\ \A i \in 1 .. Len(q) : (q \o line)[i] = q[i]
        /\ \A i \in 1 .. Len(line) : (q \o line)[Len(q) + i] = line[i]
    <3>1. IsSeq(line)
      BY <1>1
    <3> QED
      BY <3>1, SeqJoin
  <2>2. DOMAIN (q \o line) = 1 .. Len(q) + 2
    BY <1>1, <2>1, SeqLen
  <2> QED
    BY <1>1, <2>1, <2>2
<1>4. Sealed(q \o line)
  <2> SUFFICES ASSUME NEW i \in 1 .. Len(q) + 2, NEW j \in 1 .. Len(q) + 2, i < j,
                      (q \o line)[i].last,
                      IsTerminal((q \o line)[i], (q \o line)[i].record.run)
               PROVE  (q \o line)[j].record.run # (q \o line)[i].record.run
    BY <1>3 DEF Sealed
  <2>1. i \in 1 .. Len(q)
    BY <1>1, <1>2, <1>3
  <2>2. CASE j \in 1 .. Len(q)
    BY <1>2, <1>3, <2>1, <2>2 DEF Sealed
  <2>3. CASE j \notin 1 .. Len(q)
    <3>1. (q \o line)[j].record = record
      BY <1>1, <1>2, <1>3, <2>3
    <3>2. ~IsTerminal(q[i], record.run)
      BY <1>2, <2>1 DEF NoTerminal
    <3> QED
      BY <1>3, <2>1, <3>1, <3>2 DEF IsTerminal
  <2> QED
    BY <2>2, <2>3
<1>5. ASSUME record.event \notin TerminalEvents PROVE NoTerminal(q \o line, record.run)
  <2> SUFFICES ASSUME NEW i \in 1 .. Len(q) + 2
               PROVE  ~IsTerminal((q \o line)[i], record.run)
    BY <1>3 DEF NoTerminal
  <2>1. CASE i \in 1 .. Len(q)
    BY <1>2, <1>3, <2>1 DEF NoTerminal
  <2>2. CASE i \notin 1 .. Len(q)
    <3>1. (q \o line)[i].record = record
      BY <1>1, <1>2, <1>3, <2>2
    <3> QED
      BY <1>5, <3>1 DEF IsTerminal
  <2> QED
    BY <2>1, <2>2
<1> QED
  BY <1>4, <1>5 DEF line

\* Nothing that is appended takes an event of a run away, and what other runs
\* append adds none.
LEMMA EventsJoin ==
    ASSUME NEW q, NEW h, IsSeq(q), IsSeq(h), NEW r
    PROVE  /\ \A event : \A i \in EventsOf(q, r, event) :
                 i \in EventsOf(q \o h, r, event) /\ (q \o h)[i] = q[i]
           /\ (\A i \in DOMAIN h : h[i].record.run # r) =>
                 /\ LinesOf(q \o h, r) = LinesOf(q, r)
                 /\ \A event : EventsOf(q \o h, r, event) = EventsOf(q, r, event)
<1>1. /\ Len(q) \in Nat /\ Len(h) \in Nat /\ DOMAIN h = 1 .. Len(h)
      /\ Len(q \o h) = Len(q) + Len(h)
      /\ \A i \in 1 .. Len(q) : (q \o h)[i] = q[i]
      /\ \A i \in 1 .. Len(h) : (q \o h)[Len(q) + i] = h[i]
  BY SeqLen, SeqJoin
<1>2. ASSUME NEW i \in 1 .. Len(q)
      PROVE  i \in LinesOf(q \o h, r) <=> i \in LinesOf(q, r)
  BY <1>1 DEF LinesOf, WellFormed
<1>3. LinesOf(q, r) \subseteq 1 .. Len(q) /\ LinesOf(q \o h, r) \subseteq 1 .. Len(q) + Len(h)
  BY <1>1 DEF LinesOf
<1>4. \A event : \A i \in EventsOf(q, r, event) :
         i \in EventsOf(q \o h, r, event) /\ (q \o h)[i] = q[i]
  BY <1>1, <1>2, <1>3 DEF EventsOf
<1>5. ASSUME \A i \in DOMAIN h : h[i].record.run # r
      PROVE  /\ LinesOf(q \o h, r) = LinesOf(q, r)
             /\ \A event : EventsOf(q \o h, r, event) = EventsOf(q, r, event)
  <2>1. ASSUME NEW i \in LinesOf(q \o h, r)
        PROVE  i \in 1 .. Len(q)
    <3>1. (q \o h)[i].record.run = r /\ i \in 1 .. Len(q) + Len(h)
      BY <1>1, <2>1 DEF LinesOf
    <3>2. CASE i > Len(q)
      <4>1. i - Len(q) \in 1 .. Len(h) /\ Len(q) + (i - Len(q)) = i
        BY <1>1, <3>1, <3>2
      <4> QED
        BY <1>1, <1>5, <3>1, <4>1
    <3> QED
      BY <1>1, <3>1, <3>2
  <2>2. LinesOf(q \o h, r) = LinesOf(q, r)
    BY <1>2, <1>3, <2>1
  <2> QED
    BY <1>1, <1>3, <2>2 DEF EventsOf
<1> QED
  BY <1>4, <1>5

\* After whole lines a record is one line more.
NewLine(q, record, r, event) ==
    IF record.run = r /\ record.event = event THEN {Len(q) + 2} ELSE {}

EndsWhole(q) == q # <<>> => q[Len(q)].last

OneMore(q, more, record) ==
    /\ \A r, event : EventsOf(more, r, event) =
                        EventsOf(q, r, event) \cup NewLine(q, record, r, event)
    /\ more[Len(q) + 2].record = record

LEMMA LineAdded ==
    ASSUME NEW q, IsSeq(q), EndsWhole(q), NEW record
    PROVE  OneMore(q, q \o Halves(record), record)
<1> SUFFICES ASSUME NEW r, NEW event
             PROVE  /\ EventsOf(q \o Halves(record), r, event) =
                          EventsOf(q, r, event) \cup NewLine(q, record, r, event)
                    /\ (q \o Halves(record))[Len(q) + 2].record = record
  BY DEF OneMore
<1> DEFINE line == Halves(record)
<1> DEFINE more == q \o line
<1>1. /\ IsSeq(line) /\ Len(line) = 2
      /\ line[1] = [record |-> record, last |-> FALSE]
      /\ line[2] = [record |-> record, last |-> TRUE]
  BY HalvesOf
<1> HIDE DEF line
<1>2. IsSeq(line)
  BY <1>1
<1>3. Len(q) \in Nat
  BY SeqLen
<1>4. /\ Len(more) = Len(q) + Len(line)
      /\ \A i \in 1 .. Len(q) : more[i] = q[i]
      /\ \A i \in 1 .. Len(line) : more[Len(q) + i] = line[i]
  BY <1>2, SeqJoin
<1> HIDE DEF more
<1>5. /\ Len(more) = Len(q) + 2
      /\ \A i \in 1 .. Len(q) : more[i] = q[i]
      /\ more[Len(q) + 1].last = FALSE /\ more[Len(q) + 1].record = record
      /\ more[Len(q) + 2].last = TRUE /\ more[Len(q) + 2].record = record
  BY <1>1, <1>4
<1>6. ASSUME NEW i \in 1 .. Len(q)
      PROVE  i \in LinesOf(more, r) <=> i \in LinesOf(q, r)
  BY <1>3, <1>5 DEF LinesOf, WellFormed
<1>7. Len(q) + 1 \notin LinesOf(more, r)
  BY <1>5 DEF LinesOf
<1>8. Len(q) + 2 \in LinesOf(more, r) <=> record.run = r
  <2>1. Len(q) > 0 => more[Len(q)].last
    <3>1. Len(q) > 0 => q # <<>>
      OBVIOUS
    <3> QED
      BY <1>3, <1>5, <3>1 DEF EndsWhole
  <2>2. WellFormed(more, Len(q) + 2)
    BY <1>3, <1>5, <2>1 DEF WellFormed
  <2> QED
    BY <1>3, <1>5, <2>2 DEF LinesOf
<1>9. LinesOf(q, r) \subseteq 1 .. Len(q) /\ LinesOf(more, r) \subseteq 1 .. Len(q) + 2
  BY <1>5 DEF LinesOf
<1>10. EventsOf(more, r, event) =
          EventsOf(q, r, event) \cup NewLine(q, record, r, event)
  BY <1>3, <1>5, <1>6, <1>7, <1>8, <1>9 DEF EventsOf, NewLine
<1> QED
  BY <1>5, <1>10 DEF more, line

LEMMA JoinRuns ==
    ASSUME NEW p, NEW q, IsSeq(p), IsSeq(q), NEW B,
           \A i \in DOMAIN p : p[i].record.run \in B,
           \A i \in DOMAIN q : q[i].record.run \in B
    PROVE  \A i \in DOMAIN (p \o q) : (p \o q)[i].record.run \in B
<1>1. /\ Len(p) \in Nat /\ DOMAIN p = 1 .. Len(p)
      /\ Len(q) \in Nat /\ DOMAIN q = 1 .. Len(q)
      /\ DOMAIN (p \o q) = 1 .. Len(p) + Len(q)
      /\ \A i \in 1 .. Len(p) : (p \o q)[i] = p[i]
      /\ \A i \in 1 .. Len(q) : (p \o q)[Len(p) + i] = q[i]
  BY SeqLen, SeqJoin
<1>2. ASSUME NEW i \in 1 .. Len(p) + Len(q), i \notin 1 .. Len(p)
      PROVE  (p \o q)[i].record.run \in B
  <2>1. i - Len(p) \in 1 .. Len(q) /\ Len(p) + (i - Len(p)) = i
    BY <1>1, <1>2
  <2> QED
    BY <1>1, <2>1
<1> QED
  BY <1>1, <1>2

-------------------------------------------------------------------------------
(* The steps of the whole.                                                  *)

Running == CommandStep /\ rotations' = rotations

Begins == BeginCommand /\ rotations' = rotations

Closes == Close /\ UNCHANGED <<sessionVars, soloVars, rotations>>

Dies == Killed /\ rotations' = rotations

Elsewhere == UNCHANGED <<logVars, commandVars, rotations>>

Rotates == Rotate /\ UNCHANGED commandVars

LEMMA StepKinds ==
    ASSUME Kept, [Next]_vars
    PROVE  Running \/ Begins \/ Closes \/ Dies \/ Elsewhere \/ Rotates
<1>1. CASE Command /\ UNCHANGED dashVars
  <2>1. rotations' = rotations
    BY <1>1 DEF dashVars
  <2>2. CASE BeginCommand
    BY <2>1, <2>2 DEF Begins
  <2>3. CASE AroundSession
    BY <2>1, <2>3, CommandSteps DEF AroundSession, Running, Closes
  <2>4. CASE SessionNext /\ UNCHANGED soloVars
    BY <2>1, <2>4, CommandSteps DEF Running
  <2>5. CASE SoloNext /\ UNCHANGED sessionVars
    BY <2>1, <2>5, CommandSteps DEF Running
  <2> QED
    BY <1>1, <2>2, <2>3, <2>4, <2>5 DEF Command
<1>2. CASE Killed /\ UNCHANGED dashVars
  BY <1>2 DEF Dies, dashVars
<1>3. CASE Poll /\ UNCHANGED <<logVars, commandVars>>
  BY <1>3 DEF Poll, Look, Read, Elsewhere
<1>4. CASE Rotate /\ UNCHANGED commandVars
  BY <1>4 DEF Rotates
<1>5. CASE UNCHANGED vars
  BY <1>5 DEF vars, dashVars, Elsewhere
<1> QED
  BY <1>1, <1>2, <1>3, <1>4, <1>5 DEF Next

SinkTyped == {"state", "run", "sequence", "streams"} \subseteq DOMAIN sink

Based == Kept /\ Runs /\ SinkTyped

\* No step of a command touches whose sink it is.
SameSink ==
    /\ SinkTyped' /\ sink'.run = sink.run /\ sink'.streams = sink.streams
    /\ UNCHANGED <<detached, ended, command, limits>>
    /\ faults' \in {faults, faults + 1}

LEMMA RunningSink ==
    ASSUME SinkTyped, Running
    PROVE  SameSink
<1>1. Underway /\ Effect
  BY DEF Running, CommandStep, FrameStep
<1>2. UNCHANGED <<ended, command, limits>>
  BY <1>1 DEF Underway
<1> USE DEF SinkTyped, SameSink
<1>3. CASE Silent
  BY <1>2, <1>3 DEF Silent, LogQuiet
<1>4. ASSUME NEW event, Wrote(event) PROVE SameSink
  BY <1>2, <1>4 DEF Wrote, Written, WrittenAs, Emit
<1>5. ASSUME NEW event, Failed(event) PROVE SameSink
  BY <1>2, <1>5 DEF Failed, Lost, EmitFails
<1>6. CASE WrittenAs("command_completed", outcome) /\ faults' = faults
  BY <1>2, <1>6 DEF WrittenAs, Emit
<1> QED
  BY <1>1, <1>3, <1>4, <1>5, <1>6 DEF Effect, Notes, ReportsFailure, ReportsCompletion

BaseInv == Kept /\ Runs /\ SinkTyped

LEMMA BaseInit == Init => BaseInv
<1> SUFFICES ASSUME Init PROVE BaseInv
  OBVIOUS
<1> USE DEF Init, LogInit, FrameInit, SessionInit, SoloInit, Fresh, FreshSolo
<1>1. SessionTyped /\ SoloTyped
  BY DEF SessionTyped, SoloTyped, SearchCommands, Fetching
<1>2. Typed /\ PlacesOf
  <2>1. KilledRuns = {}
    BY DEF KilledRuns
  <2>2. Kills = 0
    BY <2>1, FS_EmptySet DEF Kills
  <2> QED
    BY <2>2 DEF Typed, PlacesOf, Places, BitcoinCommands, SearchCommands, Preparing
<1>3. Failing /\ Expected /\ OutcomeTyped
  BY DEF Failing, Expected, OutcomeTyped, Preparing, Cleaning
<1>4. Resources
  BY DEF Resources, NotHeld, NotLeft, MayReport, Succeeding, Returned
<1>5. Runs /\ SinkTyped
  BY DEF Runs, SinkTyped, Streams
<1> QED
  BY <1>1, <1>2, <1>3, <1>4, <1>5 DEF BaseInv, Kept, Control

\* A process that ends is among the killed ones when it was killed.
LEMMA KilledEnds ==
    ASSUME Runs, pc # "idle", NEW exit, End(exit)
    PROVE  Kills \in Nat /\ Kills' = IF exit = "killed" THEN Kills + 1 ELSE Kills
<1>1. /\ DOMAIN ended \subseteq 1 .. sink.run /\ sink.run \in Nat
      /\ sink.run \notin DOMAIN ended
      /\ ended' = [r \in DOMAIN ended \cup {sink.run} |->
                     IF r = sink.run THEN exit ELSE ended[r]]
  BY DEF Runs, End
<1>2. IsFiniteSet(KilledRuns)
  <2>1. IsFiniteSet(1 .. sink.run)
    BY <1>1, FS_Interval
  <2>2. KilledRuns \subseteq 1 .. sink.run
    BY <1>1 DEF KilledRuns
  <2> QED
    BY <2>1, <2>2, FS_Subset
<1>3. sink.run \notin KilledRuns
  BY <1>1 DEF KilledRuns
<1>4. KilledRuns' = IF exit = "killed" THEN KilledRuns \cup {sink.run} ELSE KilledRuns
  BY <1>1 DEF KilledRuns, Returned
<1>5. Cardinality(KilledRuns) \in Nat
  BY <1>2, FS_CardinalityType
<1>6. Cardinality(KilledRuns \cup {sink.run}) = Cardinality(KilledRuns) + 1
  BY <1>2, <1>3, FS_AddElement
<1> QED
  BY <1>4, <1>5, <1>6 DEF Kills

LEMMA BaseStep ==
    ASSUME BaseInv, [Next]_vars
    PROVE  BaseInv'
<1> USE DEF BaseInv
<1>1. CASE Running
  <2>1. Kept' /\ Underway
    BY <1>1 DEF Running, CommandStep, FrameStep
  <2>2. SameSink
    BY <1>1, RunningSink
  <2>3. Runs'
    BY <2>1, <2>2 DEF Runs, SameSink, Underway
  <2> QED
    BY <2>1, <2>2, <2>3 DEF SameSink
<1>2. CASE Begins
  <2> USE <1>2 DEF Begins, BeginCommand, Begin, Fresh, FreshSolo, OpenSink, OpenSinkFails, Fault
  <2>1. pc' \in {"start", "idle"} /\ faults' \in Nat
    BY DEF Kept, Control, Typed
  <2>2. SessionTyped' /\ SoloTyped'
    BY <2>1 DEF SessionTyped, SoloTyped, SearchCommands, Fetching
  <2>3. Typed' /\ PlacesOf'
    BY <2>1, KillsSame DEF Kept, Control, Typed, PlacesOf, Places, BitcoinCommands, SearchCommands, Preparing
  <2>4. Failing' /\ Expected' /\ OutcomeTyped'
    BY <2>1 DEF Failing, Expected, OutcomeTyped, Preparing, Cleaning
  <2>5. Resources'
    <3>1. client' = "none" /\ handlers' = "none" /\ backend' = "none"
      OBVIOUS
    <3>2. NotHeld({client, handlers, backend})' /\ NotHeld({client, handlers})'
          /\ NotHeld({handlers, backend})' /\ NotLeft'
      BY <3>1 DEF NotHeld, NotLeft
    <3> QED
      BY <2>1, <3>1, <3>2 DEF Resources, Cleaning
  <2>6. Runs' /\ SinkTyped'
    <3>1. PICK streams \in {{}, StreamsOf(Head(schedule))} :
             \/ OpenSink(streams) /\ pc' = "start"
             \/ OpenSinkFails(streams) /\ pc' = "idle"
      OBVIOUS
    <3>2. streams \subseteq Streams /\ (streams # {} => "log" \in streams)
      BY DEF StreamsOf, Streams
    <3>3. sink.run \in Nat /\ DOMAIN ended' \subseteq 1 .. sink.run
      BY DEF Runs
    <3>4. CASE OpenSink(streams) /\ pc' = "start"
      <4>1. sink' = [state |-> "open", run |-> sink.run + 1, sequence |-> 1, streams |-> streams]
        BY <3>4
      <4>2. DOMAIN ended' \subseteq 1 .. sink'.run /\ sink'.run \notin DOMAIN ended'
        BY <3>3, <4>1
      <4> QED
        BY <3>2, <3>3, <4>1, <4>2 DEF Runs, SinkTyped
    <3>5. CASE OpenSinkFails(streams) /\ pc' = "idle"
      BY <3>5 DEF Runs, SinkTyped
    <3> QED
      BY <3>1, <3>4, <3>5
  <2> QED
    BY <2>2, <2>3, <2>4, <2>5, <2>6 DEF Kept, Control
<1>3. ASSUME NEW exit, pc # "idle", End(exit), UNCHANGED <<sessionVars, soloVars>>,
             sink' = [sink EXCEPT !.state = "closed"], faults' \in {faults, faults + 1},
             exit # "killed" => pc = "close",
             exit = "succeeded" => Succeeding,
             exit = "killed" => faults' = faults + 1
      PROVE  BaseInv'
  <2> USE <1>3 DEF End, sessionVars, soloVars, resourceVars, Kept, Control, Typed
  <2>1. SessionTyped' /\ SoloTyped'
    BY DEF SessionTyped, SoloTyped
  <2>0. Kills' = IF exit = "killed" THEN Kills + 1 ELSE Kills
    BY <1>3, KilledEnds DEF BaseInv
  <2>2. Typed' /\ PlacesOf'
    BY <2>0 DEF Typed, PlacesOf, Places, Preparing
  <2>3. Failing' /\ Expected' /\ OutcomeTyped'
    BY <2>0, KillsSame DEF Failing, Expected, OutcomeTyped, Preparing, Cleaning
  <2>4. Runs' /\ SinkTyped'
    BY DEF Runs, SinkTyped
  <2>5. Resources'
    <3>1. sink'.run = sink.run
      BY DEF SinkTyped
    <3>2. sink.run \in Returned' => pc = "close"
      BY DEF Returned
    <3>3. sink.run \in DOMAIN ended' /\ ended'[sink.run] = exit
      OBVIOUS
    <3>4. UNCHANGED <<pending, leaving, client, handlers, backend, command>> /\ pc' = "idle"
      OBVIOUS
    <3> HIDE <1>3
    <3> QED
      BY <1>3, <3>1, <3>2, <3>3, <3>4 DEF Resources, NotHeld, NotLeft, MayReport, Succeeding,
         Preparing, Cleaning
  <2> QED
    BY <2>1, <2>2, <2>3, <2>4, <2>5
<1>4. CASE Closes
  <2>1. Exit \in {"raised", "failed", "refused", "succeeded"}
    BY DEF Exit, Kept, Control, Typed
  <2>2. Exit = "succeeded" => leaving = "none" /\ status = 0
    BY DEF Exit, Kept, Control, Typed
  <2>3. PICK exit : End(exit) /\ exit # "killed" /\ (exit = "succeeded" => Succeeding)
    BY <1>4, <2>1, <2>2 DEF Closes, Close, Succeeding
  <2> QED
    BY <1>3, <1>4, <2>3 DEF Closes, Close, CloseSink, CloseSinkFails, Fault
<1>5. CASE Dies
  BY <1>3, <1>5 DEF Dies, Killed, Kill, Fault, SinkLost
<1>6. CASE Elsewhere
  BY <1>6, KillsSame DEF Elsewhere, logVars, commandVars, frameVars, sessionVars, soloVars, Kept, Control,
     SessionTyped, SoloTyped, Typed, PlacesOf, Failing, Expected, OutcomeTyped, Resources, NotHeld, NotLeft,
     MayReport, Succeeding, Runs, SinkTyped, Returned
<1>7. CASE Rotates
  <2>1. UNCHANGED <<commandVars, sink, faults>>
    BY <1>7 DEF Rotates, Rotate, Truncate, Replace, TruncateLog, ReplaceLog
  <2> QED
    BY <2>1, KillsSame DEF commandVars, frameVars, sessionVars, soloVars, Kept, Control,
     SessionTyped, SoloTyped, Typed, PlacesOf, Failing, Expected, OutcomeTyped, Resources, NotHeld, NotLeft,
     MayReport, Succeeding, Runs, SinkTyped, Returned
<1> QED
  BY <1>1, <1>2, <1>4, <1>5, <1>6, <1>7, StepKinds

LEMMA BaseAlways == Spec => []BaseInv
  BY BaseInit, BaseStep, PTL DEF Spec

(* A command that exits with success has released all it held.  One that   *)
(* returns any other way has tried to: the handlers always, the client     *)
(* unless an interrupt that no stop handler took cut the finally block     *)
(* short, and the backend unless such an interrupt did, or the log failed  *)
(* in a command whose session had ended well.                              *)
THEOREM ReleasedAlways == Spec => []ResourcesReleased
<1>1. BaseInv => ResourcesReleased
  BY DEF BaseInv, Kept, Resources, NotHeld, NotLeft, ResourcesReleased, Open, Returned
<1> QED
  BY <1>1, BaseAlways, PTL

-------------------------------------------------------------------------------
(* One terminal record per run.                                             *)

\* The file f of a stream, and what its buffer q holds, after line was written
\* or not: the file has got a part of what was due, and nothing is out of order.
GrowsBy(f, q, line, f2, q2) ==
    /\ IsSeq(f2) /\ IsSeq(q2)
    /\ Stretch(f2 \o q2, (f \o q) \o line)
    /\ Stretch(q2, q \o line)
    /\ \E h : IsSeq(h) /\ Stretch(h, q \o line) /\ f2 = f \o h

Grown(s, line) == GrowsBy(files[s], held[s], line, files'[s], held'[s])

Emission(line) ==
    /\ DOMAIN files' = Streams /\ DOMAIN held' = Streams
    /\ detached => files'["log"] = files["log"]
    /\ \A s \in Streams :
          \/ files'[s] = files[s] /\ held'[s] = held[s]
          \/ s \in sink.streams /\ Grown(s, line)

StreamInv(s) ==
    /\ IsSeq(files[s]) /\ IsSeq(held[s])
    /\ \A i \in DOMAIN Total(s) : Total(s)[i].record.run \in 1 .. sink.run
    /\ \A i \in DOMAIN held[s] : held[s][i].record.run \in {sink.run}
    /\ s \notin sink.streams =>
          /\ held[s] = <<>>
          /\ \A i \in DOMAIN Total(s) :
                Total(s)[i].record.run \in (1 .. sink.run) \ {sink.run}
    /\ Sealed(Total(s))
    /\ MayReport => NoTerminal(Total(s), sink.run)

FilesInv ==
    /\ DOMAIN files = Streams /\ DOMAIN held = Streams
    /\ \A s \in Streams : StreamInv(s)
    /\ detached => files["log"] = <<>> /\ rotations # 0
    /\ pc = "idle" => \A s \in Streams : held[s] = <<>>
    /\ rotations \in Nat

\* Part h of what was due reaches the file, or the one that is gone, and g is held
\* on to or lost.
LEMMA PartGrows ==
    ASSUME NEW f, NEW q, NEW line, NEW h, NEW g, IsSeq(f), IsSeq(q), IsSeq(line),
           IsSeq(h), IsSeq(g), NEW f2, NEW q2
    PROVE  /\ h \o g = q \o line
           /\ f2 = f \o h \/ (f = <<>> /\ f2 = f)
           /\ q2 \in {g, <<>>}
           => GrowsBy(f, q, line, f2, q2)
<1>0. (f \o h) \o g = f \o (h \o g) /\ (f \o q) \o line = f \o (q \o line)
  <2>1. (f \o h) \o g = f \o (h \o g)
    BY SeqAssociative
  <2>2. (f \o q) \o line = f \o (q \o line)
    BY SeqAssociative
  <2> QED
    BY <2>1, <2>2
<1> SUFFICES ASSUME h \o g = q \o line, f2 = f \o h \/ (f = <<>> /\ f2 = f),
                    q2 \in {g, <<>>}
             PROVE  GrowsBy(f, q, line, f2, q2)
  OBVIOUS
<1> DEFINE due == q \o line
<1>1. IsSeq(due) /\ IsSeq(<<>>) /\ IsSeq(q2) /\ h \o g = due
  BY SeqJoin, SeqAssociative
<1>2. (f \o q) \o line = f \o due
  BY <1>0
<1>3. Stretch(h, due) /\ Stretch(g, due) /\ Stretch(<<>>, due) /\ Stretch(due, due)
  <2>1. Stretch(h, h \o g) /\ Stretch(g, h \o g)
    BY StretchJoin
  <2>2. Stretch(<<>>, <<>> \o due) /\ Stretch(due, due) /\ <<>> \o due = due
    BY <1>1, StretchJoin, SeqAssociative
  <2> QED
    BY <1>1, <2>1, <2>2
<1>4. f \o due = (f \o h) \o g
  BY <1>0
<1> HIDE DEF due
<1>5. Stretch(q2, due)
  BY <1>3
<1>6. CASE f = <<>> /\ f2 = f
  <2>1. f2 = f \o <<>> /\ f2 \o q2 = q2 /\ f \o due = due /\ IsSeq(f2)
    BY <1>1, <1>6, SeqAssociative
  <2> QED
    BY <1>1, <1>2, <1>3, <1>5, <2>1 DEF GrowsBy, due
<1>7. CASE f2 = f \o h
  <2>1. IsSeq(f2)
    BY <1>7, SeqJoin
  <2>2. IsSeq(f2 \o g)
    BY <2>1, SeqJoin
  <2>3. Stretch(f2, f2 \o g) /\ Stretch(f2 \o g, f2 \o g)
    BY <2>1, <2>2, StretchJoin
  <2>4. f2 \o q2 = f2 \o g \/ f2 \o q2 = f2
    BY <2>1, SeqAssociative
  <2>5. f2 \o g = f \o due
    BY <1>4, <1>7
  <2> QED
    BY <1>1, <1>2, <1>3, <1>5, <1>7, <2>1, <2>3, <2>4, <2>5 DEF GrowsBy, due
<1> QED
  BY <1>6, <1>7

LEMMA FlushGrows ==
    ASSUME NEW s, NEW line, NEW h, NEW g, IsSeq(files[s]), IsSeq(held[s]), IsSeq(line),
           IsSeq(h), IsSeq(g), h \o g = Pending(s, line),
           s = "log" /\ detached => files[s] = <<>>,
           files'[s] = Appended(s, h), held'[s] \in {g, <<>>}
    PROVE  Grown(s, line)
<1>1. PICK f : f = files[s]
  OBVIOUS
<1>2. PICK q : q = held[s]
  OBVIOUS
<1>3. IsSeq(f) /\ IsSeq(q) /\ h \o g = q \o line
  BY <1>1, <1>2 DEF Pending
<1>4. files'[s] = f \o h \/ (f = <<>> /\ files'[s] = f)
  BY <1>1 DEF Appended
<1>5. GrowsBy(f, q, line, files'[s], held'[s])
  BY <1>3, <1>4, PartGrows
<1> QED
  BY <1>1, <1>2, <1>5 DEF Grown

LEMMA EmitGrows ==
    ASSUME BaseInv, FilesInv, NEW event, NEW level, NEW value,
           Emit(event, level, value) \/ EmitFails(event, level, value)
    PROVE  Emission(Halves(Record(event, value)))
<1> DEFINE line == Halves(Record(event, value))
<1>1. IsSeq(line) /\ Len(line) = 2
  BY HalvesOf
<1> HIDE DEF line
<1>2. \A s \in Streams : /\ IsSeq(files[s]) /\ IsSeq(held[s]) /\ IsSeq(<<>>)
                         /\ IsSeq(Pending(s, line)) /\ Pending(s, line) \o <<>> = Pending(s, line)
                         /\ s = "log" /\ detached => files[s] = <<>>
  BY <1>1, SeqJoin, SeqAssociative DEF FilesInv, StreamInv, Pending
<1>3. Targets(level) \subseteq sink.streams /\ sink.streams \subseteq Streams
  BY DEF Targets, BaseInv, Runs
<1>4. \A s \in Streams : sink.streams # {} => "log" \in sink.streams
  BY DEF BaseInv, Runs
<1>5. CASE Emit(event, level, value)
  <2>1. /\ files' = [s \in Streams |-> IF s \in Targets(level)
                                       THEN Appended(s, Pending(s, line)) ELSE files[s]]
        /\ held' = [s \in Streams |-> IF s \in Targets(level) THEN <<>> ELSE held[s]]
    BY <1>5 DEF Emit, line
  <2>2. ASSUME NEW s \in Streams, s \in Targets(level)
        PROVE  Grown(s, line)
    <3>1. files'[s] = Appended(s, Pending(s, line)) /\ held'[s] = <<>>
      BY <2>1, <2>2
    <3> QED
      BY <1>1, <1>2, <3>1, FlushGrows
  <2>3. detached => files'["log"] = files["log"]
    BY <2>1 DEF Appended, Streams
  <2> QED
    BY <1>3, <2>1, <2>2, <2>3 DEF Emission, line
<1>6. CASE EmitFails(event, level, value)
  <2>1. PICK s \in Targets(level) : \E n \in 0 .. Len(Pending(s, line)) - 1 :
           FlushStops(s, n, IF s = "warning" THEN {"log"} ELSE {}, line)
    BY <1>6 DEF EmitFails, line
  <2>2. PICK n \in 0 .. Len(Pending(s, line)) - 1 :
           FlushStops(s, n, IF s = "warning" THEN {"log"} ELSE {}, line)
    BY <2>1
  <2> DEFINE before == IF s = "warning" THEN {"log"} ELSE {}
             h == SubSeq(Pending(s, line), 1, n)
             g == SubSeq(Pending(s, line), n + 1, Len(Pending(s, line)))
  <2>3. /\ files' = [t \in Streams |->
                       IF t = s THEN Appended(t, h)
                       ELSE IF t \in before THEN Appended(t, Pending(t, line))
                       ELSE files[t]]
        /\ held' = [t \in Streams |-> IF t = s THEN g
                                      ELSE IF t \in before THEN <<>> ELSE held[t]]
    BY <2>2 DEF FlushStops
  <2>4. s \in Streams /\ s \in sink.streams /\ before \subseteq sink.streams
    BY <1>3, <1>4
  <2>5. IsSeq(h) /\ IsSeq(g) /\ h \o g = Pending(s, line)
    <3>1. IsSeq(Pending(s, line))
      BY <1>2, <2>4
    <3>2. n \in 0 .. Len(Pending(s, line))
      BY <3>1, SeqLen
    <3> QED
      BY <3>1, <3>2, SeqCut
  <2> HIDE DEF before, h, g
  <2>6. Grown(s, line)
    <3>1. files'[s] = Appended(s, h) /\ held'[s] = g
      BY <2>3, <2>4
    <3> QED
      BY <1>1, <1>2, <2>4, <2>5, <3>1, FlushGrows
  <2>7. ASSUME NEW t \in Streams, t # s, t \in before
        PROVE  Grown(t, line)
    <3>1. files'[t] = Appended(t, Pending(t, line)) /\ held'[t] = <<>>
      BY <2>3, <2>7
    <3> QED
      BY <1>1, <1>2, <3>1, FlushGrows
  <2>8. detached => files'["log"] = files["log"]
    BY <2>3 DEF Appended, Streams
  <2> QED
    BY <2>3, <2>4, <2>6, <2>7, <2>8 DEF Emission, line
<1> QED
  BY <1>5, <1>6

LEMMA WritesGrow ==
    ASSUME BaseInv, FilesInv, NEW event, Written(event) \/ Lost(event)
    PROVE  \E value : Emission(Halves(Record(event, value)))
  BY EmitGrows DEF Written, WrittenAs, Lost

\* The sequences of a stream stay what they are when it grows by a record.
LEMMA StreamGrows ==
    ASSUME BaseInv, NEW s \in Streams, StreamInv(s), pc # "idle", SameSink, MayReport,
           NEW record, record.run = sink.run, s \in sink.streams,
           Grown(s, Halves(record)), record.event \in TerminalEvents => ~MayReport'
    PROVE  StreamInv(s)'
<1> DEFINE line == Halves(record)
           all == Total(s) \o line
           due == held[s] \o line
<1>1. /\ IsSeq(line) /\ Len(line) = 2
      /\ line[1].record = record /\ line[2].record = record
  <2>1. /\ IsSeq(line) /\ Len(line) = 2
        /\ line[1] = [record |-> record, last |-> FALSE]
        /\ line[2] = [record |-> record, last |-> TRUE]
    BY HalvesOf
  <2> QED
    BY <2>1
<1> HIDE DEF line
<1>2. IsSeq(Total(s)) /\ IsSeq(held[s]) /\ IsSeq(line)
  BY <1>1, SeqJoin DEF StreamInv, Total
<1>3. IsSeq(all) /\ IsSeq(due)
  BY <1>2, SeqJoin
<1>4. sink.run \in 1 .. sink.run
  BY DEF BaseInv, Runs
<1>5. \A i \in DOMAIN line : line[i].record.run = sink.run
  BY <1>1, SeqLen
<1>6. \A i \in DOMAIN all : all[i].record.run \in 1 .. sink.run
  <2>1. \A i \in DOMAIN Total(s) : Total(s)[i].record.run \in 1 .. sink.run
    BY DEF StreamInv
  <2> QED
    BY <1>2, <1>4, <1>5, <2>1, JoinRuns
<1>7. \A i \in DOMAIN due : due[i].record.run \in {sink.run}
  <2>1. \A i \in DOMAIN held[s] : held[s][i].record.run \in {sink.run}
    BY DEF StreamInv
  <2>2. \A i \in DOMAIN line : line[i].record.run \in {sink.run}
    BY <1>5
  <2> QED
    BY <1>2, <2>1, <2>2, JoinRuns
<1>8. Sealed(all) /\ (record.event \notin TerminalEvents => NoTerminal(all, sink.run))
  <2>1. Sealed(Total(s)) /\ NoTerminal(Total(s), record.run)
    BY DEF StreamInv
  <2> QED
    BY <1>2, <2>1, SealedJoin DEF line
<1> HIDE DEF all, due
<1>9. /\ IsSeq(files'[s]) /\ IsSeq(held'[s]) /\ IsSeq(Total(s)')
      /\ Stretch(Total(s)', all) /\ Stretch(held'[s], due)
  <2>1. /\ IsSeq(files'[s]) /\ IsSeq(held'[s])
        /\ Stretch(Total(s)', all) /\ Stretch(held'[s], due)
    BY DEF Grown, GrowsBy, Total, line, all, due
  <2>2. IsSeq(files'[s] \o held'[s])
    BY <2>1, SeqJoin
  <2> QED
    BY <2>1, <2>2 DEF Total
<1>10. /\ \A i \in DOMAIN Total(s)' : Total(s)'[i].record.run \in 1 .. sink.run
       /\ \A i \in DOMAIN held'[s] : held'[s][i].record.run \in {sink.run}
       /\ Sealed(Total(s)')
       /\ record.event \notin TerminalEvents => NoTerminal(Total(s)', sink.run)
  BY <1>3, <1>6, <1>7, <1>8, <1>9, StretchKeeps
<1>11. sink'.run = sink.run /\ sink'.streams = sink.streams
  BY DEF SameSink
<1> QED
  BY <1>9, <1>10, <1>11 DEF StreamInv

LEMMA FaultsNat == BaseInv => faults \in Nat
  BY DEF BaseInv, Kept, Control, Typed

\* Once something else failed, there are never only kills again.
LEMMA OnlyKillsBefore ==
    ASSUME BaseInv, ended' = ended, faults' \in {faults, faults + 1}
    PROVE  OnlyKills' => OnlyKills /\ faults' = faults
  BY KillsSame DEF BaseInv, Kept, Control, Typed

LEMMA NothingFailed == BaseInv /\ faults = 0 => OnlyKills
  BY KillsSame DEF BaseInv, Kept, Control, Typed

\* An event keeps the files in order, when it is no last one or none comes after.
LEMMA EventKeepsFiles ==
    ASSUME BaseInv, FilesInv, pc # "idle", pc' # "idle", SameSink, rotations' = rotations,
           MayReport, NEW event, Written(event) \/ Lost(event),
           event \in TerminalEvents => ~MayReport'
    PROVE  FilesInv'
<1>1. PICK value : Emission(Halves(Record(event, value)))
  BY WritesGrow
<1> DEFINE record == Record(event, value)
<1>2. record.run = sink.run /\ record.event = event
  BY DEF Record
<1> HIDE DEF record
<1>3. Emission(Halves(record))
  BY <1>1 DEF record
<1>4. ASSUME NEW s \in Streams
      PROVE  StreamInv(s)'
  <2>1. StreamInv(s)
    BY DEF FilesInv
  <2>2. CASE files'[s] = files[s] /\ held'[s] = held[s]
    <3>1. Total(s)' = Total(s) /\ sink'.run = sink.run /\ sink'.streams = sink.streams
      BY <2>2 DEF Total, SameSink
    <3> QED
      BY <2>1, <2>2, <3>1 DEF StreamInv
  <2>3. CASE s \in sink.streams /\ Grown(s, Halves(record))
    BY <1>2, <2>1, <2>3, StreamGrows
  <2> QED
    BY <1>3, <2>2, <2>3 DEF Emission
<1>5. /\ DOMAIN files' = Streams /\ DOMAIN held' = Streams
      /\ detached' => files'["log"] = <<>> /\ rotations' # 0
      /\ rotations' \in Nat
  BY <1>3 DEF Emission, FilesInv, SameSink
<1> QED
  BY <1>4, <1>5 DEF FilesInv

\* Neither does a step that writes no record and loses nothing but halves.
LEMMA QuietKeepsStream ==
    ASSUME NEW s \in Streams, StreamInv(s), sink'.run = sink.run, sink'.streams = sink.streams,
           MayReport' => MayReport, IsSeq(files'[s]), IsSeq(held'[s]),
           Stretch(Total(s)', Total(s)), Stretch(held'[s], held[s]),
           s \notin sink.streams => held'[s] = <<>>
    PROVE  StreamInv(s)'
<1>1. IsSeq(Total(s)) /\ IsSeq(Total(s)') /\ IsSeq(held[s])
  <2>1. IsSeq(files[s]) /\ IsSeq(held[s]) /\ IsSeq(files'[s]) /\ IsSeq(held'[s])
    BY DEF StreamInv
  <2>2. IsSeq(files[s] \o held[s]) /\ IsSeq(files'[s] \o held'[s])
    BY <2>1, SeqJoin
  <2> QED
    BY <2>1, <2>2 DEF Total
<1>2. /\ Sealed(Total(s)) => Sealed(Total(s)')
      /\ \A r : NoTerminal(Total(s), r) => NoTerminal(Total(s)', r)
      /\ \A B : (\A i \in DOMAIN Total(s) : Total(s)[i].record.run \in B) =>
                (\A i \in DOMAIN Total(s)' : Total(s)'[i].record.run \in B)
      /\ \A B : (\A i \in DOMAIN held[s] : held[s][i].record.run \in B) =>
                (\A i \in DOMAIN held'[s] : held'[s][i].record.run \in B)
  BY <1>1, StretchKeeps
<1>3. \A i \in DOMAIN Total(s)' : Total(s)'[i].record.run \in 1 .. sink.run
  BY <1>2 DEF StreamInv
<1>4. \A i \in DOMAIN held'[s] : held'[s][i].record.run \in {sink.run}
  BY <1>2 DEF StreamInv
<1>5. s \notin sink.streams =>
         \A i \in DOMAIN Total(s)' : Total(s)'[i].record.run \in (1 .. sink.run) \ {sink.run}
  BY <1>2 DEF StreamInv
<1> QED
  BY <1>2, <1>3, <1>4, <1>5 DEF StreamInv

LEMMA FilesInit == Init => FilesInv
<1> SUFFICES ASSUME Init PROVE FilesInv
  OBVIOUS
<1>1. files = [s \in Streams |-> <<>>] /\ held = [s \in Streams |-> <<>>] /\ sink.run = 0
  BY DEF Init, LogInit
<1>2. IsSeq(<<>>) /\ <<>> \o <<>> = <<>>
  <2>1. <<>> \in Seq({})
    BY EmptySeq
  <2> QED
    BY <2>1, SeqAssociative DEF IsSeq
<1>3. ASSUME NEW s \in Streams
      PROVE  StreamInv(s)
  <2>1. files[s] = <<>> /\ held[s] = <<>>
    BY <1>1
  <2>2. Total(s) = <<>>
    BY <1>2, <2>1 DEF Total
  <2> QED
    BY <1>2, <2>1, <2>2 DEF StreamInv, Sealed, NoTerminal
<1> QED
  BY <1>1, <1>3 DEF FilesInv, Init, LogInit, DashInit

\* Closing, or a kill, takes a part of what is held to the file.
LEMMA EndOfSink ==
    ASSUME BaseInv, FilesInv,
           \/ CloseSink /\ faults' = faults
           \/ CloseSinkFails /\ faults' # 0
           \/ SinkLost /\ faults' # 0
    PROVE  /\ Emission(<<>>)
           /\ held' = [s \in Streams |-> <<>>]
           /\ sink' = [sink EXCEPT !.state = "closed"]
           /\ detached' = detached
           /\ faults' = 0 => \A s \in Streams : files'[s] = Appended(s, held[s])
<1>1. /\ held' = [s \in Streams |-> <<>>] /\ detached' = detached
      /\ sink' = [sink EXCEPT !.state = "closed"]
  BY DEF CloseSink, CloseSinkFails, SinkLost
<1>2. ASSUME NEW s \in Streams
      PROVE  /\ IsSeq(files[s]) /\ IsSeq(held[s]) /\ IsSeq(<<>>)
             /\ held[s] \o <<>> = held[s] /\ Pending(s, <<>>) = held[s]
             /\ <<>> \o held[s] = held[s]
             /\ s = "log" /\ detached => files[s] = <<>>
  <2>1. IsSeq(files[s]) /\ IsSeq(held[s])
    BY DEF FilesInv, StreamInv
  <2>2. /\ IsSeq(<<>>)
        /\ held[s] \o <<>> = held[s]
        /\ <<>> \o held[s] = held[s]
    BY <2>1, SeqAssociative
  <2> QED
    BY <2>1, <2>2 DEF Pending, FilesInv
<1>3. ASSUME NEW s \in Streams, NEW h, NEW g, IsSeq(h), IsSeq(g), h \o g = held[s],
             files'[s] = Appended(s, h)
      PROVE  Grown(s, <<>>)
  BY <1>1, <1>2, <1>3, FlushGrows
<1>4. ASSUME NEW s \in Streams
      PROVE  Grown(s, <<>>)
  <2>1. CASE files'[s] = Appended(s, held[s])
    <3>1. IsSeq(held[s]) /\ IsSeq(<<>>) /\ held[s] \o <<>> = held[s]
      BY <1>2
    <3> QED
      BY <1>3, <2>1, <3>1
  <2>2. CASE \E n \in 0 .. Len(held[s]) : files'[s] = Appended(s, SubSeq(held[s], 1, n))
    <3>1. PICK n \in 0 .. Len(held[s]) : files'[s] = Appended(s, SubSeq(held[s], 1, n))
      BY <2>2
    <3>2. IsSeq(held[s])
      BY <1>2
    <3>3. /\ IsSeq(SubSeq(held[s], 1, n)) /\ IsSeq(SubSeq(held[s], n + 1, Len(held[s])))
          /\ SubSeq(held[s], 1, n) \o SubSeq(held[s], n + 1, Len(held[s])) = held[s]
      BY <3>2, SeqCut
    <3> QED
      BY <1>3, <3>1, <3>3
  <2>3. CASE files'[s] = files[s]
    <3>1. files[s] \o <<>> = files[s] /\ IsSeq(<<>>)
      BY <1>2, SeqAssociative
    <3>2. files'[s] = Appended(s, <<>>)
      BY <2>3, <3>1 DEF Appended
    <3> QED
      BY <1>2, <1>3, <3>1, <3>2
  <2> QED
    BY <2>1, <2>2, <2>3 DEF CloseSink, CloseSinkFails, SinkLost
<1>5. DOMAIN files' = Streams /\ DOMAIN held' = Streams
  BY <1>1 DEF CloseSink, CloseSinkFails, SinkLost, FilesInv
<1>6. detached => files'["log"] = files["log"]
  BY DEF CloseSink, CloseSinkFails, SinkLost, Appended, Streams
<1>7. \A s \in Streams : s \in sink.streams \/ (files'[s] = files[s] /\ held'[s] = held[s])
  <2> SUFFICES ASSUME NEW s \in Streams, s \notin sink.streams
               PROVE  files'[s] = files[s] /\ held'[s] = held[s]
    OBVIOUS
  <2>1. held[s] = <<>> /\ files[s] \o <<>> = files[s]
    <3>1. held[s] = <<>>
      BY DEF FilesInv, StreamInv
    <3>2. IsSeq(files[s])
      BY <1>2
    <3> QED
      BY <3>1, <3>2, SeqAssociative
  <2>2. files'[s] \in {files[s], Appended(s, held[s])}
    BY DEF CloseSink, CloseSinkFails, SinkLost
  <2> QED
    BY <1>1, <2>1, <2>2 DEF Appended
<1>8. faults' = 0 => \A s \in Streams : files'[s] = Appended(s, held[s])
  BY DEF CloseSink
<1> QED
  BY <1>1, <1>4, <1>5, <1>6, <1>7, <1>8 DEF Emission

LEMMA FilesStep ==
    ASSUME BaseInv, FilesInv, [Next]_vars
    PROVE  FilesInv'
<1>1. CASE Running
  <2>1. SameSink /\ Effect /\ Underway /\ rotations' = rotations
    BY <1>1, RunningSink DEF BaseInv, Running, CommandStep, FrameStep
  <2>2. pc # "idle" /\ pc' # "idle"
    BY <2>1 DEF Underway
  <2>3. CASE Silent
    <3>1. /\ UNCHANGED <<files, held>> /\ (MayReport' => MayReport)
          /\ UNCHANGED <<sink, detached, rotations>>
      BY <2>1, <2>3 DEF Silent, LogQuiet
    <3>2. \A s \in Streams : StreamInv(s)'
      BY <3>1 DEF FilesInv, StreamInv, Total
    <3> QED
      BY <2>2, <3>1, <3>2 DEF FilesInv
  <2>4. CASE \E event : Noted(event) /\ Notes(event)
    <3>1. PICK event : Noted(event) /\ Notes(event)
      BY <2>4
    <3> QED
      BY <2>1, <2>2, <3>1, EventKeepsFiles DEF Noted, Notes, Wrote, Failed
  <2>5. CASE ReportsFailure
    BY <2>1, <2>2, <2>5, EventKeepsFiles DEF ReportsFailure, Wrote, Failed
  <2>6. CASE ReportsCompletion
    BY <2>1, <2>2, <2>6, EventKeepsFiles DEF ReportsCompletion, Written, Failed
  <2> QED
    BY <2>1, <2>3, <2>4, <2>5, <2>6 DEF Effect
<1>2. CASE Begins
  <2>1. /\ UNCHANGED <<files, held, rotations>>
        /\ pc = "idle"
        /\ \/ sink'.run = sink.run + 1 /\ ~detached'
           \/ UNCHANGED <<sink, detached>> /\ ~MayReport'
    BY <1>2 DEF Begins, BeginCommand, Begin, OpenSink, OpenSinkFails, Fault, MayReport,
       Preparing, Cleaning
  <2>2. ASSUME NEW s \in Streams
        PROVE  StreamInv(s)'
    <3>1. held[s] = <<>> /\ Total(s)' = Total(s) /\ StreamInv(s)
      BY <2>1 DEF FilesInv, Total
    <3>2. CASE UNCHANGED <<sink, detached>> /\ ~MayReport'
      BY <2>1, <3>1, <3>2 DEF StreamInv
    <3>3. CASE sink'.run = sink.run + 1 /\ ~detached'
      <4>1. sink.run \in Nat
        BY DEF BaseInv, Runs
      <4>2. \A i \in DOMAIN Total(s) : /\ Total(s)[i].record.run \in 1 .. sink'.run
                                       /\ Total(s)[i].record.run # sink'.run
        BY <3>1, <3>3, <4>1 DEF StreamInv
      <4>3. NoTerminal(Total(s), sink'.run)
        BY <4>2 DEF NoTerminal, IsTerminal
      <4>4. \A i \in DOMAIN held[s] : held[s][i].record.run \in {sink'.run}
        BY <3>1
      <4> QED
        BY <2>1, <3>1, <4>2, <4>3, <4>4 DEF StreamInv
    <3> QED
      BY <2>1, <3>2, <3>3
  <2>3. \A s \in Streams : held'[s] = <<>>
    BY <2>1 DEF FilesInv
  <2> QED
    BY <2>1, <2>2, <2>3 DEF FilesInv
<1>3. ASSUME Emission(<<>>), held' = [s \in Streams |-> <<>>],
             sink' = [sink EXCEPT !.state = "closed"], detached' = detached,
             rotations' = rotations, pc' = "idle"
      PROVE  FilesInv'
  <2>1. ~MayReport' /\ sink'.run = sink.run /\ sink'.streams = sink.streams
    BY <1>3 DEF MayReport, Preparing, Cleaning, BaseInv, SinkTyped
  <2>2. ASSUME NEW s \in Streams
        PROVE  StreamInv(s)'
    <3>1. StreamInv(s) /\ held'[s] = <<>> /\ IsSeq(Total(s)) /\ IsSeq(held[s])
      <4>1. StreamInv(s) /\ held'[s] = <<>>
        BY <1>3 DEF FilesInv
      <4>2. IsSeq(files[s]) /\ IsSeq(held[s])
        BY <4>1 DEF StreamInv
      <4>3. IsSeq(files[s] \o held[s])
        BY <4>2, SeqJoin
      <4> QED
        BY <4>1, <4>2, <4>3 DEF Total
    <3>2. /\ IsSeq(files'[s]) /\ IsSeq(held'[s])
          /\ Stretch(Total(s)', Total(s)) /\ Stretch(held'[s], held[s])
      <4>1. CASE files'[s] = files[s] /\ held'[s] = held[s]
        <5>1. Total(s)' = Total(s)
          BY <4>1 DEF Total
        <5>2. Stretch(Total(s), Total(s)) /\ Stretch(held[s], held[s])
          BY <3>1, StretchJoin
        <5> QED
          BY <3>1, <4>1, <5>1, <5>2 DEF StreamInv
      <4>2. CASE Grown(s, <<>>)
        <5>1. Total(s) \o <<>> = Total(s) /\ held[s] \o <<>> = held[s]
          BY <3>1, SeqAssociative
        <5>2. /\ IsSeq(files'[s]) /\ IsSeq(held'[s])
              /\ Stretch(Total(s)', Total(s) \o <<>>) /\ Stretch(held'[s], held[s] \o <<>>)
          BY <4>2 DEF Grown, GrowsBy, Total
        <5> QED
          BY <5>1, <5>2
      <4> QED
        BY <1>3, <4>1, <4>2 DEF Emission
    <3> QED
      BY <2>1, <3>1, <3>2, QuietKeepsStream
  <2> QED
    BY <1>3, <2>2 DEF FilesInv, Emission
<1>4. CASE Closes
  BY <1>3, <1>4, EndOfSink, FaultsNat DEF Closes, Close, End, CloseSink, CloseSinkFails, Fault
<1>5. CASE Dies
  BY <1>3, <1>5, EndOfSink, FaultsNat DEF Dies, Killed, Kill, End, Fault
<1>6. CASE Elsewhere
  <2>1. UNCHANGED <<files, held, sink, detached, rotations, pc, pending, status>>
    BY <1>6 DEF Elsewhere, logVars, commandVars, frameVars
  <2>2. \A s \in Streams : StreamInv(s)'
    BY <2>1 DEF FilesInv, StreamInv, Total, MayReport
  <2> QED
    BY <2>1, <2>2 DEF FilesInv
<1>7. CASE Rotates
  <2>1. /\ UNCHANGED <<held, sink, pc, pending, status>>
        /\ files' = [files EXCEPT !["log"] = <<>>]
        /\ rotations' = rotations + 1
    BY <1>7 DEF Rotates, Rotate, Truncate, Replace, TruncateLog, ReplaceLog, commandVars,
       frameVars
  <2>2. rotations' \in Nat /\ rotations' # 0
    BY <2>1 DEF FilesInv
  <2>3. DOMAIN files' = Streams /\ files'["log"] = <<>>
    BY <2>1 DEF FilesInv, Streams
  <2>4. MayReport' <=> MayReport
    BY <2>1 DEF MayReport
  <2>5. ASSUME NEW s \in Streams
        PROVE  StreamInv(s)'
    <3>1. /\ StreamInv(s) /\ IsSeq(files[s]) /\ IsSeq(held[s]) /\ held'[s] = held[s]
          /\ (s \notin sink.streams => held[s] = <<>>)
      BY <2>1 DEF FilesInv, StreamInv
    <3>2. files'[s] = files[s] \/ files'[s] = <<>>
      BY <2>1, <2>3
    <3>3. /\ IsSeq(<<>>) /\ <<>> \o held[s] = held[s]
          /\ Stretch(held[s], held[s]) /\ Stretch(held[s], files[s] \o held[s])
          /\ Stretch(files[s] \o held[s], files[s] \o held[s])
      <4>1. IsSeq(files[s] \o held[s])
        BY <3>1, SeqJoin
      <4> QED
        BY <3>1, <4>1, SeqAssociative, StretchJoin
    <3>4. Stretch(Total(s)', Total(s)) /\ IsSeq(files'[s])
      BY <3>1, <3>2, <3>3 DEF Total
    <3> QED
      BY <2>1, <2>4, <3>1, <3>3, <3>4, QuietKeepsStream
  <2> QED
    BY <2>1, <2>2, <2>3, <2>5 DEF FilesInv
<1> QED
  BY <1>1, <1>2, <1>4, <1>5, <1>6, <1>7, StepKinds DEF BaseInv

LEMMA FilesAlways == Spec => [](BaseInv /\ FilesInv)
  BY BaseInit, FilesInit, BaseStep, FilesStep, PTL DEF Spec

(* Whatever fails, a file has at most one terminal record of a run, and    *)
(* nothing of the run follows it: the except clauses, the finally blocks   *)
(* and the event of a success never report twice.                          *)
THEOREM OneTerminalAlways == Spec => []OneTerminalPerRun
<1>1. BaseInv /\ FilesInv => OneTerminalPerRun
  <2> SUFFICES ASSUME BaseInv, FilesInv, NEW s \in Streams, NEW r \in 1 .. sink.run,
                      NEW i \in LinesOf(files[s], r), NEW j \in LinesOf(files[s], r),
                      files[s][i].record.event \in TerminalEvents, ~(j <= i)
               PROVE  FALSE
    BY DEF OneTerminalPerRun
  <2>1. /\ i \in 1 .. Len(files[s]) /\ j \in 1 .. Len(files[s])
        /\ files[s][i].last /\ files[s][i].record.run = r /\ files[s][j].record.run = r
    BY DEF LinesOf
  <2>2. Sealed(files[s]) /\ IsSeq(files[s])
    <3>1. StreamInv(s)
      BY DEF FilesInv
    <3>2. IsSeq(files[s]) /\ IsSeq(held[s]) /\ Sealed(files[s] \o held[s])
      BY <3>1 DEF StreamInv, Total
    <3>3. IsSeq(files[s] \o held[s]) /\ Stretch(files[s], files[s] \o held[s])
      BY <3>2, SeqJoin, StretchJoin
    <3> QED
      BY <3>2, <3>3, StretchKeeps
  <2>3. Len(files[s]) \in Nat /\ DOMAIN files[s] = 1 .. Len(files[s])
    BY <2>2, SeqLen
  <2>4. i < j
    BY <2>1, <2>3
  <2>5. IsTerminal(files[s][i], r)
    BY <2>1 DEF IsTerminal
  <2> QED
    BY <2>1, <2>2, <2>3, <2>4, <2>5 DEF Sealed
<1> QED
  BY <1>1, FilesAlways, PTL

-------------------------------------------------------------------------------
(* As long as nobody rotated the log, it only grows, by records of the run  *)
(* under way, and a record written without a failure is a line of it.       *)

Appends ==
    \E h : /\ IsSeq(h) /\ Log' = Log \o h
           /\ \A i \in DOMAIN h : h[i].record.run = sink.run
           /\ sink.streams = {} => Log' = Log

LEMMA EmissionAppends ==
    ASSUME BaseInv, FilesInv, NEW line, IsSeq(line), Emission(line),
           \A i \in DOMAIN line : line[i].record.run \in {sink.run}
    PROVE  Appends
<1>1. "log" \in Streams /\ StreamInv("log")
  BY DEF FilesInv, Streams
<1>2. IsSeq(Log) /\ IsSeq(held["log"]) /\ IsSeq(<<>>) /\ Log \o <<>> = Log
  <2>1. IsSeq(Log) /\ IsSeq(held["log"])
    BY <1>1 DEF StreamInv, Log
  <2> QED
    BY <2>1, SeqAssociative
<1>3. CASE Log' = Log
  <2>1. \A i \in DOMAIN <<>> : <<>>[i].record.run = sink.run
    OBVIOUS
  <2> QED
    BY <1>2, <1>3, <2>1 DEF Appends
<1>4. CASE "log" \in sink.streams /\ Grown("log", line)
  <2>1. PICK h : IsSeq(h) /\ Stretch(h, held["log"] \o line) /\ Log' = Log \o h
    BY <1>4 DEF Grown, GrowsBy, Log
  <2>2. \A i \in DOMAIN (held["log"] \o line) :
           (held["log"] \o line)[i].record.run \in {sink.run}
    <3>1. \A i \in DOMAIN held["log"] : held["log"][i].record.run \in {sink.run}
      BY <1>1 DEF StreamInv
    <3> QED
      BY <1>2, <3>1, JoinRuns
  <2>3. IsSeq(held["log"] \o line)
    BY <1>2, SeqJoin
  <2>4. \A i \in DOMAIN h : h[i].record.run \in {sink.run}
    BY <2>1, <2>2, <2>3, StretchKeeps
  <2> QED
    BY <1>4, <2>1, <2>4 DEF Appends
<1> QED
  BY <1>1, <1>3, <1>4 DEF Emission, Log

LEMMA RecordRuns ==
    ASSUME NEW record
    PROVE  /\ IsSeq(Halves(record))
           /\ \A i \in DOMAIN Halves(record) : Halves(record)[i].record = record
<1>1. PICK line : line = Halves(record)
  OBVIOUS
<1>2. /\ IsSeq(line) /\ Len(line) = 2
      /\ line[1] = [record |-> record, last |-> FALSE]
      /\ line[2] = [record |-> record, last |-> TRUE]
  BY <1>1, HalvesOf
<1>3. DOMAIN line = 1 .. 2
  BY <1>2, SeqLen
<1>4. line[1].record = record /\ line[2].record = record
  BY <1>2
<1> QED
  BY <1>1, <1>2, <1>3, <1>4

LEMMA EventAppends ==
    ASSUME BaseInv, FilesInv, NEW event, Written(event) \/ Lost(event)
    PROVE  Appends
<1>1. PICK value : Emission(Halves(Record(event, value)))
  BY WritesGrow
<1>2. PICK record : record = Record(event, value)
  OBVIOUS
<1>3. record.run = sink.run
  BY <1>2 DEF Record
<1>4. PICK line : line = Halves(record)
  OBVIOUS
<1>5. IsSeq(line) /\ \A i \in DOMAIN line : line[i].record = record
  BY <1>4, RecordRuns
<1>6. Emission(line)
  BY <1>1, <1>2, <1>4
<1> QED
  BY <1>3, <1>5, <1>6, EmissionAppends

LEMMA LogAppends ==
    ASSUME BaseInv, FilesInv, [Next]_vars, ~Rotates
    PROVE  Appends
<1>1. IsSeq(Log) /\ IsSeq(<<>>) /\ Log \o <<>> = Log
  <2>1. IsSeq(Log)
    BY DEF FilesInv, Streams, StreamInv, Log
  <2> QED
    BY <2>1, SeqAssociative
<1>2. CASE files' = files
  <2>1. \A i \in DOMAIN <<>> : <<>>[i].record.run = sink.run
    OBVIOUS
  <2>2. Log' = Log
    BY <1>2 DEF Log
  <2> QED
    BY <1>1, <2>1, <2>2 DEF Appends
<1>3. CASE Running
  <2>1. Effect
    BY <1>3 DEF Running, CommandStep, FrameStep
  <2>2. CASE Silent
    BY <1>2, <2>2 DEF Silent, LogQuiet
  <2>3. CASE \E event : Written(event) \/ Lost(event)
    BY <2>3, EventAppends
  <2> QED
    BY <2>1, <2>2, <2>3 DEF Effect, Notes, ReportsFailure, ReportsCompletion, Wrote, Failed,
       Written
<1>4. CASE Begins
  BY <1>2, <1>4 DEF Begins, BeginCommand, Begin, OpenSink, OpenSinkFails
<1>5. CASE Closes \/ Dies
  <2>1. Emission(<<>>)
    BY <1>5, EndOfSink, FaultsNat DEF Closes, Close, CloseSink, CloseSinkFails, Fault, Dies,
       Killed, Kill
  <2>2. \A i \in DOMAIN <<>> : <<>>[i].record.run \in {sink.run}
    OBVIOUS
  <2> QED
    BY <1>1, <2>1, <2>2, EmissionAppends
<1>6. CASE Elsewhere
  BY <1>2, <1>6 DEF Elsewhere, logVars
<1> QED
  BY <1>3, <1>4, <1>5, <1>6, StepKinds DEF BaseInv

\* A record written without a failure is the end of the log.
LEMMA LineWritten ==
    ASSUME BaseInv, FilesInv, rotations = 0, NEW event, NEW value, WrittenAs(event, value)
    PROVE  /\ sink.streams = {} => Log' = Log /\ held'["log"] = held["log"]
           /\ sink.streams # {} => /\ Log' = Log \o (held["log"] \o Halves(Record(event, value)))
                                   /\ WholeLines'
<1>1. PICK level \in Levels : Emit(event, level, value)
  BY DEF WrittenAs
<1>2. PICK line : line = Halves(Record(event, value))
  OBVIOUS
<1>3. /\ files' = [s \in Streams |-> IF s \in Targets(level)
                                     THEN Appended(s, Pending(s, line)) ELSE files[s]]
      /\ held' = [s \in Streams |-> IF s \in Targets(level) THEN <<>> ELSE held[s]]
  BY <1>1, <1>2 DEF Emit
<1>4. CASE sink.streams = {}
  <2>1. Targets(level) = {}
    BY <1>4 DEF Targets
  <2>2. \A s \in Streams : files'[s] = files[s] /\ held'[s] = held[s]
    BY <1>3, <2>1
  <2> QED
    BY <1>4, <2>2 DEF Log, Streams
<1>5. CASE sink.streams # {}
  <2>1. "log" \in Targets(level) /\ "log" \in Streams
    BY <1>5 DEF Targets, BaseInv, Runs, Streams
  <2>2. ~detached
    BY DEF FilesInv
  <2>3. Log' = Log \o (held["log"] \o line) /\ held'["log"] = <<>>
    BY <1>3, <2>1, <2>2 DEF Log, Appended, Pending
  <2>4. PICK f : f = Log
    OBVIOUS
  <2>5. PICK h : h = held["log"]
    OBVIOUS
  <2>6. IsSeq(f) /\ IsSeq(h)
    BY <2>1, <2>4, <2>5 DEF FilesInv, StreamInv, Log
  <2>7. /\ IsSeq(line) /\ Len(line) = 2
        /\ line[2] = [record |-> Record(event, value), last |-> TRUE]
    BY <1>2, HalvesOf
  <2>8. PICK due : due = h \o line
    OBVIOUS
  <2>9. IsSeq(due) /\ Len(due) = Len(h) + 2 /\ due[Len(h) + 2] = line[2] /\ Len(h) \in Nat
    <3>1. IsSeq(h) /\ IsSeq(line) /\ 2 \in 1 .. Len(line)
      BY <2>6, <2>7
    <3>2. IsSeq(h \o line) /\ Len(h \o line) = Len(h) + Len(line)
          /\ (h \o line)[Len(h) + 2] = line[2]
      BY <3>1, SeqJoin
    <3>3. Len(h) \in Nat
      BY <3>1, SeqLen
    <3> QED
      BY <2>7, <2>8, <3>2, <3>3
  <2>10. Len(f \o due) = Len(f) + Len(due) /\ (f \o due)[Len(f) + Len(due)] = due[Len(due)]
    <3>1. Len(due) \in 1 .. Len(due)
      BY <2>9
    <3> QED
      BY <2>6, <2>9, <3>1, SeqJoin
  <2>11. Log' = f \o due
    BY <2>3, <2>4, <2>5, <2>8
  <2>12. due[Len(due)].last = TRUE
    BY <2>7, <2>9
  <2>13. Log'[Len(Log')].last
    BY <2>10, <2>11, <2>12
  <2> QED
    BY <1>2, <1>5, <2>3, <2>13 DEF WholeLines
<1> QED
  BY <1>4, <1>5

\* As long as only processes are killed, closing the log adds nothing to it.
LEMMA ClosesQuietly ==
    ASSUME BaseInv, FilesInv, WholeInv, Closes, rotations = 0, OnlyKills'
    PROVE  CloseSink /\ OnlyKills /\ WholeLines /\ Log' = Log /\ held'["log"] = <<>>
<1>1. faults \in Nat
  BY FaultsNat
<1>2. CloseSink /\ OnlyKills
  <2>1. Exit \in {"raised", "failed", "refused", "succeeded"}
    BY DEF Exit, BaseInv, Kept, Control, Typed
  <2>2. PICK exit : End(exit) /\ exit # "killed"
    BY <2>1 DEF Closes, Close
  <2>3. Kills' = Kills
    BY <2>2, KilledEnds DEF Closes, Close, BaseInv
  <2>4. faults' = Kills' /\ Kills \in 0 .. faults
    BY KillsSame DEF BaseInv, Kept, Control, Typed
  <2>5. faults' = faults \/ faults' = faults + 1
    BY DEF Closes, Close, CloseSink, CloseSinkFails, Fault
  <2>6. faults' = faults
    BY <1>1, <2>3, <2>4, <2>5
  <2> QED
    BY <1>1, <2>3, <2>4, <2>6, KillsSame DEF Closes, Close, CloseSinkFails, Fault
<1>3. held'["log"] = <<>> /\ Log' = Appended("log", held["log"])
  BY <1>2 DEF CloseSink, Log, Streams
<1>4. held["log"] = <<>> /\ WholeLines
  BY <1>2 DEF WholeInv, WholeLines
<1>5. Log' = Log
  <2>1. IsSeq(Log)
    BY DEF FilesInv, StreamInv, Log, Streams
  <2>2. Log \o <<>> = Log
    BY <2>1, SeqAssociative
  <2> QED
    BY <1>3, <1>4, <2>2 DEF Appended, Log
<1> QED
  BY <1>2, <1>3, <1>4, <1>5

\* Nothing was lost of what a run wrote as long as it did not fail.
LEMMA WholeStep ==
    ASSUME BaseInv, FilesInv, WholeInv, [Next]_vars
    PROVE  WholeInv'
<1> SUFFICES ASSUME rotations' = 0
             PROVE  /\ Clean' /\ sink'.streams # {} => WholeLines'
                    /\ OnlyKills' => WholeLines'
  BY DEF WholeInv
<1>1. ASSUME rotations = 0, sink'.streams = sink.streams, ended' = ended, NEW event,
             Wrote(event)
      PROVE  (sink'.streams # {} => WholeLines') /\ (OnlyKills' => WholeLines')
  <2>1. PICK value : WrittenAs(event, value)
    BY <1>1 DEF Wrote, Written
  <2>2. CASE sink.streams = {}
    <3>1. Log' = Log /\ held'["log"] = held["log"]
      BY <1>1, <2>1, <2>2, LineWritten
    <3> QED
      BY <1>1, <2>2, <3>1, OnlyKillsBefore DEF WholeInv, WholeLines, Wrote
  <2>3. CASE sink.streams # {}
    BY <1>1, <2>1, <2>3, LineWritten
  <2> QED
    BY <2>2, <2>3
<1>2. ASSUME rotations = 0, files' = files, held' = held, sink'.streams = sink.streams,
             Clean' => Clean, OnlyKills' => OnlyKills
      PROVE  (Clean' /\ sink'.streams # {} => WholeLines') /\ (OnlyKills' => WholeLines')
  BY <1>2 DEF WholeInv, WholeLines, Log
<1>3. faults \in Nat
  BY FaultsNat
<1>4. CASE Running
  <2>1. /\ Effect /\ sink'.streams = sink.streams /\ rotations = 0 /\ ended' = ended
        /\ faults' \in {faults, faults + 1}
    BY <1>4, RunningSink DEF Running, CommandStep, FrameStep, BaseInv, SameSink
  <2>2. CASE Silent
    <3>1. files' = files /\ held' = held /\ (Clean' => Clean) /\ (OnlyKills' => OnlyKills)
      BY <2>1, <2>2, OnlyKillsBefore DEF Silent, LogQuiet
    <3> QED
      BY <1>2, <2>1, <3>1
  <2>3. ASSUME NEW event, Wrote(event)
        PROVE  (Clean' /\ sink'.streams # {} => WholeLines') /\ (OnlyKills' => WholeLines')
    BY <1>1, <2>1, <2>3
  <2>4. ASSUME NEW event, Failed(event), ~Clean'
        PROVE  (Clean' /\ sink'.streams # {} => WholeLines') /\ (OnlyKills' => WholeLines')
    BY <1>3, <2>1, <2>4, OnlyKillsBefore DEF Failed
  <2> QED
    BY <2>1, <2>2, <2>3, <2>4
       DEF Effect, Notes, ReportsFailure, ReportsCompletion, Wrote, Written
<1>5. CASE Begins
  <2>1. /\ rotations = 0 /\ files' = files /\ held' = held
        /\ pc' \in {"start", "idle"} /\ ended' = ended /\ faults' \in {faults, faults + 1}
    BY <1>5 DEF Begins, BeginCommand, Begin, OpenSink, OpenSinkFails, Fault
  <2>2. ~Clean'
    BY <2>1 DEF Clean, Preparing, Cleaning
  <2> QED
    BY <2>1, <2>2, OnlyKillsBefore DEF WholeInv, WholeLines, Log
<1>6. CASE Closes
  <2>1. pc' = "idle" /\ rotations = 0
    BY <1>6 DEF Closes, Close, End
  <2>2. ~Clean'
    BY <2>1 DEF Clean, Preparing, Cleaning
  <2>3. ASSUME OnlyKills'
        PROVE  WholeLines'
    <3>1. WholeLines /\ Log' = Log /\ held'["log"] = <<>>
      BY <1>6, <2>1, <2>3, ClosesQuietly
    <3> QED
      BY <3>1 DEF WholeLines
  <2> QED
    BY <2>2, <2>3
<1>7. CASE Dies
  <2>1. /\ pc' = "idle" /\ faults' = faults + 1 /\ End("killed") /\ pc # "idle"
        /\ files' = files /\ held' = [s \in Streams |-> <<>>]
    BY <1>7 DEF Dies, Killed, Kill, End, Fault, SinkLost
  <2>2. ~Clean'
    BY <2>1 DEF Clean, Preparing, Cleaning
  <2>3. OnlyKills' => OnlyKills
    <3>1. Kills \in Nat /\ Kills' = Kills + 1
      BY <2>1, KilledEnds DEF BaseInv
    <3> QED
      BY <1>3, <2>1, <3>1, KillsSame
  <2>4. rotations = 0
    BY <1>7 DEF Dies
  <2>5. held'["log"] = <<>> /\ Log' = Log
    BY <2>1 DEF Streams, Log
  <2> QED
    BY <2>2, <2>3, <2>4, <2>5 DEF WholeInv, WholeLines
<1>8. CASE Elsewhere
  <2>1. /\ rotations = 0 /\ files' = files /\ held' = held /\ sink'.streams = sink.streams
        /\ UNCHANGED <<pc, session, status, pending, faults, ended>>
    BY <1>8 DEF Elsewhere, logVars, commandVars, frameVars, sessionVars
  <2>2. Clean' => Clean
    BY <2>1 DEF Clean
  <2> QED
    BY <1>2, <2>1, <2>2, OnlyKillsBefore
<1>9. ~Rotates
  BY DEF Rotates, Rotate, Truncate, Replace, FilesInv
<1> QED
  BY <1>4, <1>5, <1>6, <1>7, <1>8, <1>9, StepKinds DEF BaseInv

LEMMA WholeInit == Init => WholeInv
  BY DEF Init, LogInit, FrameInit, WholeInv, Clean, WholeLines, Log, Streams, Preparing,
     Cleaning

-------------------------------------------------------------------------------
(* What is sent has a record.                                               *)

LEMMA EventsFinite ==
    ASSUME NEW q, IsSeq(q), NEW r, NEW event
    PROVE  /\ IsFiniteSet(EventsOf(q, r, event))
           /\ EventsOf(q, r, event) \subseteq 1 .. Len(q)
           /\ Cardinality(EventsOf(q, r, event)) \in Nat
<1>1. Len(q) \in Nat
  BY SeqLen
<1>2. EventsOf(q, r, event) \subseteq 1 .. Len(q)
  BY DEF EventsOf, LinesOf
<1>3. IsFiniteSet(1 .. Len(q))
  BY <1>1, FS_Interval
<1>4. IsFiniteSet(EventsOf(q, r, event))
  BY <1>2, <1>3, FS_Subset
<1> QED
  BY <1>2, <1>4, FS_CardinalityType

\* No event of the run under way is lost, and a written one is one more.
LEMMA MoreEvents ==
    ASSUME BaseInv, FilesInv, Appends, NEW r
    PROVE  /\ \A event : \A i \in EventsOf(Log, r, event) :
                 i \in EventsOf(Log', r, event) /\ Log'[i] = Log[i]
           /\ \A event : Cardinality(EventsOf(Log, r, event))
                            <= Cardinality(EventsOf(Log', r, event))
           /\ \A event : /\ Cardinality(EventsOf(Log, r, event)) \in Nat
                         /\ Cardinality(EventsOf(Log', r, event)) \in Nat
           /\ r # sink.run => /\ LinesOf(Log', r) = LinesOf(Log, r)
                              /\ \A event : EventsOf(Log', r, event) = EventsOf(Log, r, event)
<1>1. PICK h : /\ IsSeq(h) /\ Log' = Log \o h
               /\ \A i \in DOMAIN h : h[i].record.run = sink.run
  BY DEF Appends
<1>2. PICK f : f = Log
  OBVIOUS
<1>3. PICK g : g = Log'
  OBVIOUS
<1>4. IsSeq(f)
  BY <1>2 DEF FilesInv, StreamInv, Log, Streams
<1>5. IsSeq(g) /\ g = f \o h
  BY <1>1, <1>2, <1>3, <1>4, SeqJoin
<1>6. /\ \A event : \A i \in EventsOf(f, r, event) :
            i \in EventsOf(f \o h, r, event) /\ (f \o h)[i] = f[i]
      /\ r # sink.run => /\ LinesOf(f \o h, r) = LinesOf(f, r)
                         /\ \A event : EventsOf(f \o h, r, event) = EventsOf(f, r, event)
  <2>0. IsSeq(h)
    BY <1>1
  <2>1. \A event : \A i \in EventsOf(f, r, event) :
            i \in EventsOf(f \o h, r, event) /\ (f \o h)[i] = f[i]
    BY <1>4, <2>0, EventsJoin
  <2>2. ASSUME r # sink.run
        PROVE  /\ LinesOf(f \o h, r) = LinesOf(f, r)
               /\ \A event : EventsOf(f \o h, r, event) = EventsOf(f, r, event)
    <3>1. \A i \in DOMAIN h : h[i].record.run # r
      BY <1>1, <2>2
    <3> QED
      BY <1>4, <2>0, <3>1, EventsJoin
  <2> QED
    BY <2>1, <2>2
<1>7. ASSUME NEW event
      PROVE  /\ Cardinality(EventsOf(f, r, event)) <= Cardinality(EventsOf(g, r, event))
             /\ Cardinality(EventsOf(f, r, event)) \in Nat
             /\ Cardinality(EventsOf(g, r, event)) \in Nat
  <2>1. EventsOf(f, r, event) \subseteq EventsOf(g, r, event)
    BY <1>5, <1>6
  <2>2. IsFiniteSet(EventsOf(g, r, event))
    BY <1>5, EventsFinite
  <2>3. /\ Cardinality(EventsOf(f, r, event)) \in Nat
        /\ Cardinality(EventsOf(g, r, event)) \in Nat
    BY <1>4, <1>5, EventsFinite
  <2> QED
    BY <2>1, <2>2, <2>3, FS_Subset
<1> QED
  BY <1>2, <1>3, <1>5, <1>6, <1>7

LEMMA OneMoreEvent ==
    ASSUME BaseInv, FilesInv, rotations = 0, sink.streams # {}, WholeLines,
           NEW event, NEW value, WrittenAs(event, value)
    PROVE  /\ \A other : EventsOf(Log', sink.run, other) =
                            EventsOf(Log, sink.run, other) \cup
                               (IF event = other THEN {Len(Log) + 2} ELSE {})
           /\ Len(Log) + 2 \notin 1 .. Len(Log)
           /\ Log'[Len(Log) + 2].record.value = value
           /\ \A i \in 1 .. Len(Log) : Log'[i] = Log[i]
           /\ Cardinality(EventsOf(Log', sink.run, event)) =
                 Cardinality(EventsOf(Log, sink.run, event)) + 1
<1>1. PICK f : f = Log
  OBVIOUS
<1>2. PICK g : g = Log'
  OBVIOUS
<1>3. PICK record : record = Record(event, value)
  OBVIOUS
<1>4. record.run = sink.run /\ record.event = event /\ record.value = value
  BY <1>3 DEF Record
<1>5. PICK line : line = Halves(record)
  OBVIOUS
<1>6. IsSeq(line) /\ IsSeq(f)
  BY <1>1, <1>5, RecordRuns DEF FilesInv, StreamInv, Log, Streams
<1>7. g = f \o line
  <2>1. Log' = Log \o (held["log"] \o line)
    BY <1>3, <1>5, LineWritten
  <2>2. held["log"] \o line = line
    BY <1>6, SeqAssociative DEF WholeLines
  <2> QED
    BY <1>1, <1>2, <2>1, <2>2
<1>8. EndsWhole(f)
  BY <1>1 DEF WholeLines, EndsWhole
<1>9. OneMore(f, g, record)
  BY <1>5, <1>6, <1>7, <1>8, LineAdded
<1>10. \A other : EventsOf(g, sink.run, other) =
            EventsOf(f, sink.run, other) \cup
               (IF event = other THEN {Len(f) + 2} ELSE {})
  BY <1>4, <1>9 DEF OneMore, NewLine
<1>11. g[Len(f) + 2].record.value = value
  BY <1>4, <1>9 DEF OneMore
<1>12. Len(f) \in Nat /\ \A i \in 1 .. Len(f) : g[i] = f[i]
  BY <1>6, <1>7, SeqLen, SeqJoin
<1>13. Cardinality(EventsOf(g, sink.run, event)) =
          Cardinality(EventsOf(f, sink.run, event)) + 1
  <2>1. EventsOf(g, sink.run, event) = EventsOf(f, sink.run, event) \cup {Len(f) + 2}
    BY <1>10
  <2>2. IsFiniteSet(EventsOf(f, sink.run, event)) /\ Len(f) + 2 \notin EventsOf(f, sink.run, event)
    BY <1>6, <1>12, EventsFinite
  <2> QED
    BY <2>1, <2>2, FS_AddElement
<1> QED
  BY <1>1, <1>2, <1>10, <1>11, <1>12, <1>13

Candidates == EventsOf(Log, sink.run, "share_candidate_found")

SharesInv == sent \in Nat /\ ShareInv

\* What a step adds to a record that is needed.
LEMMA ShareStep ==
    ASSUME BaseInv, FilesInv, WholeInv, SharesInv, [Next]_vars
    PROVE  SharesInv'
<1> USE DEF SharesInv
<1>a. sent' \in Nat
  <2>1. CASE Running
    BY <2>1 DEF Running, CommandStep, SendStep
  <2>2. CASE Begins
    BY <2>2 DEF Begins, BeginCommand
  <2>3. CASE Closes \/ Dies \/ Elsewhere \/ Rotates
    BY <2>3 DEF Closes, Dies, Killed, Elsewhere, Rotates, commandVars, sessionVars
  <2> QED
    BY <2>1, <2>2, <2>3, StepKinds DEF BaseInv
<1> SUFFICES ASSUME rotations' = 0, sink'.streams # {}
             PROVE  /\ sent' <= Cardinality(Candidates')
                    /\ pc' = "session" /\ session'.step = "submit" =>
                          sent' < Cardinality(Candidates')
                    /\ NeedsCandidate' => EventsOf(Log, sink.run, "solo_candidate_found")' # {}
                    /\ NeedsProposal' => AcceptedProposals(sink.run)' # {}
  BY <1>a DEF ShareInv, Candidates
<1>0. ~Rotates
  BY DEF Rotates, Rotate, Truncate, Replace, FilesInv
<1>1. Appends
  BY <1>0, LogAppends
<1>2. /\ sent \in Nat
      /\ Cardinality(Candidates) \in Nat
      /\ Cardinality(EventsOf(Log', sink.run, "share_candidate_found")) \in Nat
      /\ Cardinality(Candidates) <= Cardinality(EventsOf(Log', sink.run, "share_candidate_found"))
  BY <1>1, MoreEvents DEF Candidates
<1>3. ASSUME sink'.run = sink.run, sink'.streams = sink.streams, rotations = 0
      PROVE  /\ Cardinality(Candidates) <= Cardinality(Candidates')
             /\ Cardinality(Candidates') \in Nat
             /\ sent <= Cardinality(Candidates)
             /\ pc = "session" /\ session.step = "submit" => sent < Cardinality(Candidates)
             /\ NeedsCandidate => EventsOf(Log, sink.run, "solo_candidate_found")' # {}
             /\ NeedsProposal => AcceptedProposals(sink.run)' # {}
  <2>1. /\ sent <= Cardinality(Candidates)
        /\ pc = "session" /\ session.step = "submit" => sent < Cardinality(Candidates)
        /\ NeedsCandidate => EventsOf(Log, sink.run, "solo_candidate_found") # {}
        /\ NeedsProposal => AcceptedProposals(sink.run) # {}
    BY <1>3 DEF ShareInv, Candidates
  <2>2. \A event : \A i \in EventsOf(Log, sink.run, event) :
           i \in EventsOf(Log', sink.run, event) /\ Log'[i] = Log[i]
    BY <1>1, MoreEvents
  <2>3. NeedsCandidate => EventsOf(Log', sink.run, "solo_candidate_found") # {}
    BY <2>1, <2>2
  <2>4. NeedsProposal => AcceptedProposals(sink.run)' # {}
    <3>1. ASSUME NeedsProposal
          PROVE  \E i \in EventsOf(Log', sink.run, "solo_block_proposal_completed") :
                    Log'[i].record.value = "accepted"
      BY <2>1, <2>2, <3>1 DEF AcceptedProposals
    <3> QED
      BY <1>3, <3>1 DEF AcceptedProposals
  <2> QED
    BY <1>2, <1>3, <2>1, <2>3, <2>4 DEF Candidates
<1>4. CASE Running
  <2>1. SendStep /\ sink'.run = sink.run /\ sink'.streams = sink.streams /\ rotations = 0
    BY <1>4, RunningSink DEF Running, CommandStep, BaseInv, SameSink
  <2>2. ASSUME Clean, NEW event, Written(event)
        PROVE  /\ EventsOf(Log', sink.run, event) # {}
               /\ Cardinality(EventsOf(Log', sink.run, event)) =
                     Cardinality(EventsOf(Log, sink.run, event)) + 1
    <3>1. WholeLines
      BY <2>1, <2>2 DEF WholeInv
    <3>2. PICK value : WrittenAs(event, value)
      BY <2>2 DEF Written
    <3>3. /\ EventsOf(Log', sink.run, event) =
                EventsOf(Log, sink.run, event) \cup {Len(Log) + 2}
          /\ Cardinality(EventsOf(Log', sink.run, event)) =
                Cardinality(EventsOf(Log, sink.run, event)) + 1
      BY <2>1, <3>1, <3>2, OneMoreEvent
    <3> QED
      BY <3>3
  <2>3. ASSUME Clean, WrittenAs("solo_block_proposal_completed", "accepted")
        PROVE  AcceptedProposals(sink.run)' # {}
    <3>1. WholeLines
      BY <2>1, <2>3 DEF WholeInv
    <3>2. /\ EventsOf(Log', sink.run, "solo_block_proposal_completed") =
                EventsOf(Log, sink.run, "solo_block_proposal_completed") \cup {Len(Log) + 2}
          /\ Log'[Len(Log) + 2].record.value = "accepted"
      BY <2>1, <2>3, <3>1, OneMoreEvent
    <3>3. \E i \in EventsOf(Log', sink.run, "solo_block_proposal_completed") :
             Log'[i].record.value = "accepted"
      BY <3>2
    <3> QED
      BY <2>1, <3>3 DEF AcceptedProposals
  <2>4. /\ Cardinality(Candidates) <= Cardinality(Candidates')
        /\ Cardinality(Candidates) \in Nat /\ Cardinality(Candidates') \in Nat
        /\ sent <= Cardinality(Candidates) /\ sent \in Nat
        /\ pc = "session" /\ session.step = "submit" => sent < Cardinality(Candidates)
        /\ NeedsCandidate => EventsOf(Log, sink.run, "solo_candidate_found")' # {}
        /\ NeedsProposal => AcceptedProposals(sink.run)' # {}
    BY <1>2, <1>3, <2>1
  <2>5. sent' <= Cardinality(Candidates')
    BY <2>1, <2>4 DEF SendStep
  <2>6. ASSUME pc' = "session", session'.step = "submit"
        PROVE  sent' < Cardinality(Candidates')
    <3>1. CASE pc = "session" /\ session.step = "submit"
      BY <2>1, <2>4, <2>6, <3>1 DEF SendStep
    <3>2. CASE Clean /\ Written("share_candidate_found")
      <4>1. Cardinality(Candidates') = Cardinality(Candidates) + 1
        BY <2>1, <2>2, <3>2 DEF Candidates
      <4> QED
        BY <2>1, <2>4, <2>6, <4>1 DEF SendStep
    <3> QED
      BY <2>1, <2>6, <3>1, <3>2 DEF SendStep
  <2>7. NeedsCandidate' => EventsOf(Log, sink.run, "solo_candidate_found")' # {}
    BY <2>1, <2>2, <2>4 DEF SendStep
  <2>8. NeedsProposal' => AcceptedProposals(sink.run)' # {}
    BY <2>1, <2>3, <2>4 DEF SendStep
  <2> QED
    BY <2>5, <2>6, <2>7, <2>8
<1>5. CASE Begins
  <2>1. /\ sent' = 0 /\ session' = Fresh /\ solo' = FreshSolo /\ block' = "none"
    BY <1>5 DEF Begins, BeginCommand, RpcReset
  <2>2. Cardinality(Candidates') \in Nat
    <3>1. PICK r : r = sink'.run
      OBVIOUS
    <3>2. Cardinality(EventsOf(Log', r, "share_candidate_found")) \in Nat
      BY <1>1, MoreEvents
    <3> QED
      BY <3>1, <3>2 DEF Candidates
  <2> QED
    BY <2>1, <2>2 DEF Fresh, FreshSolo, NeedsCandidate, NeedsProposal
<1>6. CASE Closes \/ Dies
  <2>1. /\ pc' = "idle" /\ UNCHANGED <<session, sent, solo, block, rotations>>
        /\ sink' = [sink EXCEPT !.state = "closed"]
    BY <1>6 DEF Closes, Close, End, CloseSink, CloseSinkFails, Dies, Killed, Kill, SinkLost,
       sessionVars, soloVars, rpcVars
  <2>2. sink'.run = sink.run /\ sink'.streams = sink.streams
    BY <2>1 DEF BaseInv, SinkTyped
  <2> QED
    BY <1>2, <1>3, <2>1, <2>2 DEF NeedsCandidate, NeedsProposal
<1>7. CASE Elsewhere
  <2>1. UNCHANGED <<pc, session, sent, solo, block, sink, rotations>>
    BY <1>7 DEF Elsewhere, logVars, commandVars, frameVars, sessionVars, soloVars, rpcVars
  <2> QED
    BY <1>2, <1>3, <2>1 DEF NeedsCandidate, NeedsProposal
<1> QED
  BY <1>0, <1>4, <1>5, <1>6, <1>7, StepKinds DEF BaseInv

LEMMA ShareInit == Init => SharesInv
  BY DEF Init, LogInit, SharesInv, ShareInv, SessionInit

-------------------------------------------------------------------------------
(* What the exit says of the log.                                           *)

\* What a returned run says stays, whoever writes after it.
PastInv ==
    rotations = 0 =>
        \A r \in Returned : LinesOf(Log, r) # {} =>
            /\ ended[r] = "succeeded" => Successes(r) # {}
            /\ faults = 0 => /\ Successes(r) # {} => ended[r] = "succeeded"
                             /\ Terminals(r) # {}

LEMMA TerminalsFound ==
    ASSUME NEW r
    PROVE  Terminals(r) # {} <=> \E event \in TerminalEvents : EventsOf(Log, r, event) # {}
  BY DEF Terminals

LEMMA PastRuns ==
    ASSUME BaseInv, FilesInv, Appends, NEW r
    PROVE  /\ Successes(r) # {} => Successes(r)' # {}
           /\ Terminals(r) # {} => Terminals(r)' # {}
           /\ r # sink.run => /\ LinesOf(Log, r)' = LinesOf(Log, r)
                              /\ Successes(r)' # {} => Successes(r) # {}
<1>1. \A event : \A i \in EventsOf(Log, r, event) :
         i \in EventsOf(Log', r, event) /\ Log'[i] = Log[i]
  BY MoreEvents
<1>2. r # sink.run => /\ LinesOf(Log', r) = LinesOf(Log, r)
                      /\ \A event : EventsOf(Log', r, event) = EventsOf(Log, r, event)
  BY MoreEvents
<1>3. Successes(r) # {} => Successes(r)' # {}
  BY <1>1 DEF Successes
<1>4. Terminals(r) # {} => Terminals(r)' # {}
  BY <1>1 DEF Terminals
<1>5. ASSUME r # sink.run, Successes(r)' # {}
      PROVE  Successes(r) # {}
  <2>1. PICK i \in EventsOf(Log', r, "command_completed") :
           Log'[i].record.value \notin UnsuccessfulOutcomes
    BY <1>5 DEF Successes
  <2>2. i \in EventsOf(Log, r, "command_completed") /\ Log'[i] = Log[i]
    BY <1>1, <1>2, <1>5, <2>1
  <2>3. Log[i].record.value \notin UnsuccessfulOutcomes
    BY <2>1, <2>2
  <2> QED
    BY <2>2, <2>3 DEF Successes
<1> QED
  BY <1>2, <1>3, <1>4, <1>5

\* What a record of the run under way adds.
LEMMA RecordTells ==
    ASSUME BaseInv, FilesInv, rotations = 0, sink.streams # {}, WholeLines,
           NEW event, NEW value, WrittenAs(event, value), sink'.run = sink.run
    PROVE  /\ event # "command_completed" \/ value \in UnsuccessfulOutcomes =>
                 (Successes(sink.run) = {} => Successes(sink.run)' = {})
           /\ event = "command_completed" /\ value \notin UnsuccessfulOutcomes =>
                 Successes(sink.run)' # {}
           /\ event \in TerminalEvents => Terminals(sink.run)' # {}
<1>1. PICK r : r = sink.run
  OBVIOUS
<1>2. PICK n : n = Len(Log) + 2
  OBVIOUS
<1>3. /\ \A other : EventsOf(Log', r, other) =
                       EventsOf(Log, r, other) \cup (IF event = other THEN {n} ELSE {})
      /\ Log'[n].record.value = value
      /\ \A i \in 1 .. Len(Log) : Log'[i] = Log[i]
  BY <1>1, <1>2, OneMoreEvent
<1>4. EventsOf(Log, r, "command_completed") \subseteq 1 .. Len(Log)
  BY DEF EventsOf, LinesOf
<1>5. ASSUME event # "command_completed" \/ value \in UnsuccessfulOutcomes,
             Successes(r) = {}, NEW i \in EventsOf(Log', r, "command_completed")
      PROVE  Log'[i].record.value \in UnsuccessfulOutcomes
  <2>1. CASE i \in EventsOf(Log, r, "command_completed")
    <3>1. Log[i].record.value \in UnsuccessfulOutcomes
      BY <1>5, <2>1 DEF Successes
    <3> QED
      BY <1>3, <1>4, <2>1, <3>1
  <2>2. CASE event = "command_completed" /\ i = n
    BY <1>3, <1>5, <2>2
  <2> QED
    BY <1>3, <2>1, <2>2
<1>6. ASSUME event = "command_completed", value \notin UnsuccessfulOutcomes
      PROVE  \E i \in EventsOf(Log', r, "command_completed") :
                Log'[i].record.value \notin UnsuccessfulOutcomes
  BY <1>3, <1>6
<1>7. ASSUME event \in TerminalEvents
      PROVE  \E other \in TerminalEvents : EventsOf(Log', r, other) # {}
  BY <1>3, <1>7
<1>8. event \in TerminalEvents => Terminals(sink.run)' # {}
  BY <1>1, <1>7 DEF Terminals
<1>9. event = "command_completed" /\ value \notin UnsuccessfulOutcomes =>
         Successes(sink.run)' # {}
  BY <1>1, <1>6 DEF Successes
<1>10. event # "command_completed" \/ value \in UnsuccessfulOutcomes =>
          (Successes(sink.run) = {} => Successes(sink.run)' = {})
  BY <1>1, <1>5 DEF Successes
<1> QED
  BY <1>8, <1>9, <1>10

LEMMA ExitStep ==
    ASSUME BaseInv, FilesInv, WholeInv, ExitInv, [Next]_vars
    PROVE  ExitInv'
<1> SUFFICES ASSUME rotations' = 0, pc' # "idle", sink'.streams # {}
             PROVE  /\ Succeeding' => Successes(sink.run)' # {}
                    /\ faults' = 0 /\ ~Succeeding' => Successes(sink.run)' = {}
                    /\ faults' = 0 /\ ~MayReport' => Terminals(sink.run)' # {}
  BY DEF ExitInv
<1>0. ~Rotates /\ faults \in Nat
  BY FaultsNat DEF Rotates, Rotate, Truncate, Replace, FilesInv
<1>1. Appends
  BY <1>0, LogAppends
<1>2. CASE Running
  <2>1. /\ Effect /\ rotations = 0 /\ pc # "idle" /\ sink.streams # {}
        /\ sink'.run = sink.run /\ sink'.streams = sink.streams
        /\ faults' \in {faults, faults + 1} /\ ~Succeeding /\ ended' = ended
    BY <1>2, RunningSink DEF Running, CommandStep, FrameStep, Underway, BaseInv, SameSink,
       Succeeding
  <2>2. /\ faults = 0 => Successes(sink.run) = {} /\ (~MayReport => Terminals(sink.run) # {})
        /\ faults' = 0 => faults = 0 /\ OnlyKills'
        /\ faults = 0 => WholeLines
        /\ Clean => WholeLines
    <3>1. (faults = 0 => OnlyKills) /\ (faults' = 0 => faults' = faults)
      BY <1>0, <2>1, NothingFailed
    <3>2. faults' = faults /\ OnlyKills => OnlyKills'
      BY <2>1, KillsSame
    <3> QED
      BY <1>0, <2>1, <3>1, <3>2 DEF ExitInv, WholeInv
  <2>3. CASE Silent
    <3>1. /\ ~Succeeding' /\ UNCHANGED <<files, sink>>
          /\ faults' = 0 /\ ~MayReport' => ~MayReport
      BY <2>2, <2>3 DEF Silent, LogQuiet
    <3>2. Successes(sink.run)' = Successes(sink.run) /\ Terminals(sink.run)' = Terminals(sink.run)
      BY <3>1 DEF Successes, Terminals, Log
    <3> QED
      BY <2>2, <3>1, <3>2
  <2>4. CASE \E event : Noted(event) /\ Notes(event)
    <3>1. PICK event : Noted(event) /\ Notes(event)
      BY <2>4
    <3>2. ~Succeeding' /\ event # "command_completed"
      BY <3>1 DEF Noted, Notes, TerminalEvents
    <3>3. CASE Wrote(event) /\ MayReport'
      <4>1. PICK value : WrittenAs(event, value)
        BY <3>3 DEF Wrote, Written
      <4>2. faults = 0 => Successes(sink.run)' = {}
        BY <2>1, <2>2, <3>2, <4>1, RecordTells
      <4> QED
        BY <2>2, <3>2, <3>3, <4>2
    <3>4. CASE Failed(event)
      BY <1>0, <3>2, <3>4 DEF Failed
    <3> QED
      BY <3>1, <3>3, <3>4 DEF Notes
  <2>5. CASE ReportsFailure
    <3>1. ~Succeeding' /\ "command_failed" \in TerminalEvents
      BY <2>5 DEF ReportsFailure, TerminalEvents
    <3>2. CASE Wrote("command_failed")
      <4>1. PICK value : WrittenAs("command_failed", value)
        BY <3>2 DEF Wrote, Written
      <4>2. faults = 0 => Successes(sink.run)' = {} /\ Terminals(sink.run)' # {}
        BY <2>1, <2>2, <3>1, <4>1, RecordTells
      <4> QED
        BY <2>2, <3>1, <4>2
    <3>3. CASE Failed("command_failed")
      BY <1>0, <3>1, <3>3 DEF Failed
    <3> QED
      BY <2>5, <3>2, <3>3 DEF ReportsFailure
  <2>6. CASE ReportsCompletion
    <3>1. CASE /\ WrittenAs("command_completed", outcome) /\ faults' = faults
               /\ Succeeding' <=> outcome \notin UnsuccessfulOutcomes
      <4>1. WholeLines /\ "command_completed" \in TerminalEvents
        BY <2>2, <2>6 DEF ReportsCompletion, TerminalEvents
      <4>2. /\ outcome \in UnsuccessfulOutcomes =>
                  (Successes(sink.run) = {} => Successes(sink.run)' = {})
            /\ outcome \notin UnsuccessfulOutcomes => Successes(sink.run)' # {}
            /\ Terminals(sink.run)' # {}
        BY <2>1, <3>1, <4>1, RecordTells
      <4> QED
        BY <2>2, <3>1, <4>2
    <3>2. CASE Failed("command_completed") /\ ~Succeeding'
      BY <1>0, <3>2 DEF Failed
    <3> QED
      BY <2>6, <3>1, <3>2 DEF ReportsCompletion
  <2> QED
    BY <2>1, <2>3, <2>4, <2>5, <2>6 DEF Effect
<1>3. CASE Begins
  <2>1. /\ pc' = "start" /\ files' = files /\ sink'.run = sink.run + 1
    BY <1>3 DEF Begins, BeginCommand, Begin, OpenSink
  <2>2. ~Succeeding' /\ MayReport'
    BY <2>1 DEF Succeeding, MayReport, Preparing
  <2>3. PICK r : r = sink'.run
    OBVIOUS
  <2>4. LinesOf(Log, r) = {}
    <3>1. \A i \in DOMAIN Log : Log[i].record.run \in 1 .. sink.run
      <4>1. StreamInv("log") /\ Log = files["log"]
        BY DEF FilesInv, Streams, Log
      <4>2. IsSeq(Log) /\ IsSeq(held["log"])
        BY <4>1 DEF StreamInv
      <4>3. Stretch(Log, Log \o held["log"]) /\ IsSeq(Log \o held["log"])
        BY <4>2, StretchJoin, SeqJoin
      <4>4. \A i \in DOMAIN (Log \o held["log"]) :
               (Log \o held["log"])[i].record.run \in 1 .. sink.run
        BY <4>1 DEF StreamInv, Total
      <4> QED
        BY <4>2, <4>3, <4>4, StretchKeeps
    <3>2. sink.run \in Nat
      BY DEF BaseInv, Runs
    <3>3. IsSeq(Log)
      BY DEF FilesInv, StreamInv, Log, Streams
    <3>4. DOMAIN Log = 1 .. Len(Log)
      BY <3>3, SeqLen
    <3> QED
      BY <2>1, <2>3, <3>1, <3>2, <3>4 DEF LinesOf
  <2>5. Log' = Log
    BY <2>1 DEF Log
  <2>6. Successes(sink.run)' = {}
    BY <2>3, <2>4, <2>5 DEF Successes, EventsOf
  <2> QED
    BY <2>2, <2>6
<1>4. CASE Closes \/ Dies
  BY <1>4 DEF Closes, Close, End, Dies, Killed, Kill
<1>5. CASE Elsewhere
  <2>1. UNCHANGED <<pc, status, leaving, pending, sink, files, faults, rotations>>
    BY <1>5 DEF Elsewhere, logVars, commandVars, frameVars
  <2>2. /\ Successes(sink.run)' = Successes(sink.run)
        /\ Terminals(sink.run)' = Terminals(sink.run)
        /\ (Succeeding' <=> Succeeding) /\ (MayReport' <=> MayReport)
    BY <2>1 DEF Successes, Terminals, Log, Succeeding, MayReport
  <2> QED
    BY <2>1, <2>2 DEF ExitInv
<1> QED
  BY <1>0, <1>2, <1>3, <1>4, <1>5, StepKinds DEF BaseInv

LEMMA PastStep ==
    ASSUME BaseInv, FilesInv, WholeInv, ExitInv, PastInv, [Next]_vars
    PROVE  PastInv'
<1> SUFFICES ASSUME rotations' = 0, NEW r \in Returned', LinesOf(Log, r)' # {}
             PROVE  /\ ended'[r] = "succeeded" => Successes(r)' # {}
                    /\ faults' = 0 => /\ Successes(r)' # {} => ended'[r] = "succeeded"
                                      /\ Terminals(r)' # {}
  BY DEF PastInv
<1>0. ~Rotates /\ faults \in Nat
  BY FaultsNat DEF Rotates, Rotate, Truncate, Replace, FilesInv
<1>1. Appends
  BY <1>0, LogAppends
<1>2. /\ Successes(r) # {} => Successes(r)' # {}
      /\ Terminals(r) # {} => Terminals(r)' # {}
      /\ r # sink.run => /\ LinesOf(Log, r)' = LinesOf(Log, r)
                         /\ Successes(r)' # {} => Successes(r) # {}
  BY <1>1, PastRuns
<1>3. ASSUME r \in Returned, r # sink.run, ended'[r] = ended[r], rotations = 0,
             faults' = 0 => faults = 0
      PROVE  /\ ended'[r] = "succeeded" => Successes(r)' # {}
             /\ faults' = 0 => /\ Successes(r)' # {} => ended'[r] = "succeeded"
                               /\ Terminals(r)' # {}
  <2>1. LinesOf(Log, r) # {}
    BY <1>2, <1>3
  <2>2. /\ ended[r] = "succeeded" => Successes(r) # {}
        /\ faults = 0 => /\ Successes(r) # {} => ended[r] = "succeeded"
                         /\ Terminals(r) # {}
    BY <1>3, <2>1 DEF PastInv
  <2> QED
    BY <1>2, <1>3, <2>2
<1>4. CASE Running
  <2>1. ended' = ended /\ rotations = 0 /\ faults' \in {faults, faults + 1} /\ pc # "idle"
    BY <1>4, RunningSink DEF Running, CommandStep, FrameStep, Underway, BaseInv, SameSink
  <2>2. r \in Returned /\ r # sink.run
    BY <2>1 DEF Returned, BaseInv, Runs
  <2> QED
    BY <1>0, <1>3, <2>1, <2>2
<1>5. CASE files' = files /\ ended' = ended /\ rotations' = rotations
           /\ (faults' = 0 => faults = 0)
  <2>1. /\ Successes(r)' = Successes(r) /\ Terminals(r)' = Terminals(r)
        /\ LinesOf(Log, r)' = LinesOf(Log, r) /\ r \in Returned
    BY <1>5 DEF Successes, Terminals, Log, Returned
  <2> QED
    BY <1>5, <2>1 DEF PastInv
<1>6. CASE Begins
  BY <1>0, <1>5, <1>6 DEF Begins, BeginCommand, Begin, OpenSink, OpenSinkFails, Fault
<1>7. CASE Dies
  <2>1. /\ ended' = [q \in DOMAIN ended \cup {sink.run} |->
                       IF q = sink.run THEN "killed" ELSE ended[q]]
        /\ faults' = faults + 1 /\ rotations = 0
    BY <1>7 DEF Dies, Killed, Kill, End, Fault
  <2>2. r \in Returned /\ r # sink.run /\ ended'[r] = ended[r]
    BY <2>1 DEF Returned
  <2> QED
    BY <1>0, <1>3, <2>1, <2>2
<1>8. CASE Closes
  <2>1. /\ pc = "close" /\ rotations = 0
        /\ \/ CloseSink /\ End(Exit) /\ faults' = faults
           \/ CloseSinkFails /\ End(IF Exit = "succeeded" THEN "failed" ELSE Exit)
              /\ faults' = faults + 1
    BY <1>8 DEF Closes, Close, CloseSink, CloseSinkFails, Fault
  <2>2. PICK exit : /\ End(exit)
                    /\ \/ CloseSink /\ exit = Exit /\ faults' = faults
                       \/ exit # "succeeded" /\ faults' = faults + 1
                       \/ exit = Exit /\ faults' = faults + 1
    BY <2>1
  <2>3. ended' = [q \in DOMAIN ended \cup {sink.run} |->
                    IF q = sink.run THEN exit ELSE ended[q]]
    BY <2>2 DEF End
  <2>4. CASE r # sink.run
    <3>1. r \in Returned /\ ended'[r] = ended[r]
      BY <2>3, <2>4 DEF Returned
    <3> QED
      BY <1>0, <1>3, <2>1, <2>2, <2>4, <3>1
  <2>5. CASE r = sink.run
    <3>1. ended'[r] = exit
      BY <2>3, <2>5
    <3>2. sink.streams # {}
      <4>1. ASSUME sink.streams = {}
            PROVE  LinesOf(Log, r)' = {}
        <5>1. Log' = Log
          BY <1>1, <4>1 DEF Appends
        <5>2. \A i \in DOMAIN Log : Log[i].record.run \in (1 .. sink.run) \ {sink.run}
          <6>1. /\ StreamInv("log") /\ Log = files["log"]
            BY DEF FilesInv, Streams, Log
          <6>2. IsSeq(Log) /\ held["log"] = <<>>
            BY <4>1, <6>1 DEF StreamInv
          <6>3. Total("log") = Log
            BY <6>1, <6>2, SeqAssociative DEF Total
          <6> QED
            BY <4>1, <6>1, <6>3 DEF StreamInv
        <5>3. IsSeq(Log)
          BY DEF FilesInv, StreamInv, Log, Streams
        <5>4. DOMAIN Log = 1 .. Len(Log)
          BY <5>3, SeqLen
        <5> QED
          BY <2>5, <5>1, <5>2, <5>4 DEF LinesOf
      <4> QED
        BY <4>1
    <3>3. ~MayReport
      BY <2>1 DEF MayReport, Preparing, Cleaning
    <3>4. Exit = "succeeded" <=> Succeeding
      BY <2>1 DEF Exit, Succeeding, BaseInv, Kept, Control, Typed
    <3>5. /\ Succeeding => Successes(r) # {}
          /\ faults = 0 => /\ ~Succeeding => Successes(r) = {}
                           /\ Terminals(r) # {}
      BY <2>1, <2>5, <3>2, <3>3 DEF ExitInv
    <3>6. ended'[r] = "succeeded" => Successes(r)' # {}
      BY <1>2, <2>2, <3>1, <3>4, <3>5
    <3>7. ASSUME faults' = 0
          PROVE  /\ Successes(r)' # {} => ended'[r] = "succeeded"
                 /\ Terminals(r)' # {}
      <4>1. CloseSink /\ exit = Exit /\ faults = 0
        BY <1>0, <2>2, <3>7
      <4>2. Log' = Log
        <5>1. held["log"] = <<>>
          BY <2>1, <4>1, NothingFailed DEF WholeInv, WholeLines
        <5>2. Log' = Appended("log", held["log"])
          BY <4>1 DEF CloseSink, Log, Streams
        <5>3. IsSeq(Log)
          BY DEF FilesInv, StreamInv, Log, Streams
        <5>4. Log \o <<>> = Log
          BY <5>3, SeqAssociative
        <5> QED
          BY <5>1, <5>2, <5>4 DEF Appended, Log
      <4>3. Successes(r)' = Successes(r)
        BY <4>2 DEF Successes
      <4> QED
        BY <1>2, <3>1, <3>4, <3>5, <4>1, <4>3
    <3> QED
      BY <3>6, <3>7
  <2> QED
    BY <2>4, <2>5
<1>9. CASE Elsewhere
  BY <1>5, <1>9 DEF Elsewhere, logVars, commandVars, frameVars
<1> QED
  BY <1>0, <1>4, <1>6, <1>7, <1>8, <1>9, StepKinds DEF BaseInv

LEMMA ExitInit == Init => ExitInv /\ PastInv
<1> SUFFICES ASSUME Init PROVE ExitInv /\ PastInv
  OBVIOUS
<1>1. pc = "idle" /\ DOMAIN ended = {}
  BY DEF Init, FrameInit
<1> QED
  BY <1>1 DEF ExitInv, PastInv, Returned

(* The inductive invariant of the commands and their log: control and      *)
(* resources, the files and the lines on their way to them, shares and     *)
(* blocks sent, exit statuses, and the runs that are over.                 *)
IInv == /\ BaseInv /\ FilesInv
        /\ WholeInv /\ SharesInv
        /\ ExitInv /\ PastInv

\* It holds in every state of every command, whatever fails.
THEOREM InvariantAlways == Spec => []IInv
<1>1. Init => IInv
  BY BaseInit, FilesInit, WholeInit, ShareInit, ExitInit DEF IInv
<1>2. IInv /\ [Next]_vars => IInv'
  BY BaseStep, FilesStep, WholeStep, ShareStep, ExitStep, PastStep DEF IInv
<1> QED
  BY <1>1, <1>2, PTL DEF Spec

(* No share reaches the pool, and no block the node, before the record of  *)
(* its candidate, and for a block that of its accepted proposal, is in the *)
(* log: the write comes before the call in the mining loops.               *)
THEOREM RecordedFirstAlways == Spec => []ShareRecordedFirst
<1>1. IInv => ShareRecordedFirst
  BY DEF IInv, SharesInv, ShareInv, NeedsCandidate, NeedsProposal, AcceptedProposals,
     ShareRecordedFirst
<1> QED
  BY <1>1, InvariantAlways, PTL

(* A command with a log exits 0 only after its last record said it ended   *)
(* well; when nothing failed underneath it exits 0 exactly then, and a     *)
(* last record tells how it ended: _run_with_event_sink and the except     *)
(* clauses and finally blocks inside it.                                   *)
THEOREM ExitMatchesAlways == Spec => []ExitMatchesLog
<1>1. IInv => ExitMatchesLog
  <2> SUFFICES ASSUME IInv, rotations = 0, NEW r \in Returned, LinesOf(Log, r) # {}
               PROVE  /\ ended[r] = "succeeded" => Successes(r) # {}
                      /\ faults = 0 =>
                           /\ Successes(r) # {} => ended[r] = "succeeded"
                           /\ \E event \in TerminalEvents : EventsOf(Log, r, event) # {}
    BY DEF ExitMatchesLog
  <2> QED
    BY TerminalsFound DEF IInv, PastInv
<1> QED
  BY <1>1, InvariantAlways, PTL

-------------------------------------------------------------------------------
(* Induction over the naturals, by the least counterexample, and over the  *)
(* lines of a file.                                                        *)

LEMMA LeastNatural ==
    ASSUME NEW T, T \subseteq Nat, T # {}
    PROVE  \E x \in T : \A y \in T : x <= y
<1>1. IsWellFoundedOn(OpToRel(<,Nat), Nat)
  BY NatLessThanWellFounded
<1>2. PICK x \in T : \A y \in T : ~ (<<y, x>> \in OpToRel(<,Nat))
  BY <1>1, WFMin, Zenon
<1>3. \A y \in T : y < x => <<y, x>> \in OpToRel(<,Nat)
  BY DEF OpToRel
<1>4. \A y \in T : ~ (y < x)
  BY <1>2, <1>3
<1> QED
  BY <1>4

LEMMA Naturals ==
    ASSUME NEW G, 0 \in G, \A n \in Nat : n \in G => n + 1 \in G
    PROVE  Nat \subseteq G
<1> DEFINE T == Nat \ G
<1> SUFFICES ASSUME T # {} PROVE FALSE
  OBVIOUS
<1>1. PICK n \in T : \A m \in T : n <= m
  BY LeastNatural
<1>2. n - 1 \in Nat /\ n - 1 \notin T
  BY <1>1
<1> QED
  BY <1>1, <1>2

\* An unfinished line follows the last whole one.
LEMMA FileCut ==
    ASSUME NEW q, IsSeq(q)
    PROVE  \E end \in 0 .. Len(q) :
              /\ UnfinishedLine(q) = SubSeq(q, end + 1, Len(q))
              /\ EndsWhole(SubSeq(q, 1, end))
              /\ \A i \in end + 1 .. Len(q) : ~q[i].last
<1> DEFINE ends == {0} \cup {i \in 1 .. Len(q) : q[i].last}
           IsEnd(e) == e \in ends /\ \A j \in ends : j <= e
           end == CHOOSE e \in ends : \A j \in ends : j <= e
<1>1. Len(q) \in Nat
  BY SeqLen
<1>2. \E e : IsEnd(e)
  <2> DEFINE T == {n \in Nat : \A j \in ends : j <= n}
  <2>1. Len(q) \in T
    BY <1>1
  <2>2. PICK n \in T : \A m \in T : n <= m
    BY <2>1, LeastNatural
  <2>3. n \in ends
    <3> SUFFICES ASSUME n \notin ends PROVE FALSE
      OBVIOUS
    <3>1. 0 \in ends /\ ends \subseteq Nat
      BY <1>1
    <3>2. n - 1 \in T
      BY <2>2, <3>1
    <3> QED
      BY <2>2, <3>2
  <2> QED
    BY <2>2, <2>3
<1>3. IsEnd(end)
  BY <1>2
<1>4. end \in 0 .. Len(q)
  BY <1>1, <1>3
<1>5. UnfinishedLine(q) = SubSeq(q, end + 1, Len(q))
  BY DEF UnfinishedLine
<1>6. \A i \in end + 1 .. Len(q) : ~q[i].last
  <2> SUFFICES ASSUME NEW i \in end + 1 .. Len(q), q[i].last PROVE FALSE
    OBVIOUS
  <2>1. i \in ends
    BY <1>1, <1>4
  <2> QED
    BY <1>1, <1>3, <1>4, <2>1
<1>7. EndsWhole(SubSeq(q, 1, end))
  <2> SUFFICES ASSUME SubSeq(q, 1, end) # <<>>
               PROVE  SubSeq(q, 1, end)[Len(SubSeq(q, 1, end))].last
    BY DEF EndsWhole
  <2>1. PICK S : q \in Seq(S)
    BY DEF IsSeq
  <2>2. \A i \in 1 .. end : q[i] \in S
    BY <1>1, <1>4, <2>1, ElementOfSeq
  <2> HIDE DEF end
  <2>3. /\ Len(SubSeq(q, 1, end)) = end
        /\ \A i \in 1 .. end : SubSeq(q, 1, end)[i] = q[i]
    BY <1>1, <1>4, <2>2, SubSeqProperties
  <2>4. end # 0
    BY <2>3, <1>4, <2>1, <2>2, SubSeqProperties, EmptySeq
  <2>5. q[end].last
    BY <1>3, <2>4
  <2> QED
    BY <1>4, <2>3, <2>4, <2>5
<1> HIDE DEF end
<1> QED
  BY <1>4, <1>5, <1>6, <1>7

\* What a line is does not depend on what follows it, nor on what is before the
\* whole line it follows.
LEMMA LineKept ==
    ASSUME NEW p, NEW q, IsSeq(p), IsSeq(q), NEW i \in 1 .. Len(p)
    PROVE  /\ (p \o q)[i] = p[i]
           /\ WellFormed(p \o q, i) <=> WellFormed(p, i)
  BY SeqLen, SeqJoin DEF WellFormed

LEMMA LineShifted ==
    ASSUME NEW p, NEW q, IsSeq(p), IsSeq(q), EndsWhole(p), NEW i \in 1 .. Len(q)
    PROVE  /\ (p \o q)[Len(p) + i] = q[i]
           /\ WellFormed(p \o q, Len(p) + i) <=> WellFormed(q, i)
<1>1. /\ Len(p) \in Nat /\ Len(q) \in Nat
      /\ \A j \in 1 .. Len(p) : (p \o q)[j] = p[j]
      /\ \A j \in 1 .. Len(q) : (p \o q)[Len(p) + j] = q[j]
  BY SeqLen, SeqJoin
<1>2. Len(p) > 0 => p[Len(p)].last
  <2>1. Len(p) > 0 => p # <<>>
    OBVIOUS
  <2> QED
    BY <2>1 DEF EndsWhole
<1> DEFINE f == p \o q
<1>3. /\ \A j \in 1 .. Len(p) : f[j] = p[j]
      /\ \A j \in 1 .. Len(q) : f[Len(p) + j] = q[j]
  BY <1>1
<1> HIDE DEF f
<1>4. WellFormed(f, Len(p) + i) <=> WellFormed(q, i)
  <2>1. CASE i = 1
    <3>1. ~WellFormed(q, i)
      BY <2>1 DEF WellFormed
    <3>2. Len(p) > 0 => (Len(p) + i) - 1 = Len(p) /\ f[Len(p)].last
      BY <1>1, <1>2, <1>3, <2>1
    <3>3. ~WellFormed(f, Len(p) + i)
      BY <1>1, <2>1, <3>2 DEF WellFormed
    <3> QED
      BY <3>1, <3>3
  <2>2. CASE i = 2
    <3>1. /\ (Len(p) + i) - 1 = Len(p) + 1 /\ (Len(p) + i) - 2 = Len(p)
          /\ 1 \in 1 .. Len(q) /\ i - 1 = 1
      BY <1>1, <2>2
    <3>2. /\ f[Len(p) + 1] = q[1] /\ f[Len(p) + i] = q[i]
          /\ Len(p) > 0 => f[Len(p)].last
      BY <1>1, <1>2, <1>3, <3>1
    <3> QED
      BY <1>1, <2>2, <3>1, <3>2 DEF WellFormed
  <2>3. CASE i > 2
    <3>1. /\ (Len(p) + i) - 1 = Len(p) + (i - 1) /\ (Len(p) + i) - 2 = Len(p) + (i - 2)
          /\ i - 1 \in 1 .. Len(q) /\ i - 2 \in 1 .. Len(q)
      BY <1>1, <2>3
    <3>2. /\ f[Len(p) + (i - 1)] = q[i - 1] /\ f[Len(p) + (i - 2)] = q[i - 2]
          /\ f[Len(p) + i] = q[i]
      BY <1>3, <3>1
    <3> QED
      BY <1>1, <2>3, <3>1, <3>2 DEF WellFormed
  <2> QED
    BY <1>1, <2>1, <2>2, <2>3
<1> QED
  BY <1>1, <1>4 DEF f

-------------------------------------------------------------------------------
(* What the two readers make of a file, line by line.                       *)

\* The summary and the dashboard reach position i of data with v.
ReadAt(how, v, data, i) ==
    IF how = "summary" THEN IF data[i].last THEN ConsumeLine(v, data, i) ELSE v
    ELSE LineApplied(v, data, i)

\* What they make of the first n positions of data, beginning with v.
Shows(how, v, data, n, f) ==
    f = [i \in 0 .. n |-> IF i = 0 THEN v ELSE ReadAt(how, f[i - 1], data, i)]

LEMMA ShowsLines ==
    ASSUME NEW how, NEW v, NEW data, NEW n \in Nat, NEW f, Shows(how, v, data, n, f)
    PROVE  f[0] = v /\ \A i \in 1 .. n : f[i] = ReadAt(how, f[i - 1], data, i)
  BY DEF Shows

LEMMA ShowsFirst ==
    ASSUME NEW how, NEW v, NEW data, NEW n \in Nat, NEW f, Shows(how, v, data, n, f)
    PROVE  f[0] = v
  BY ShowsLines

LEMMA ShowsExists ==
    ASSUME NEW how, NEW v, NEW data, NEW n \in Nat
    PROVE  \E f : Shows(how, v, data, n, f)
<1> DEFINE G == {k \in Nat : \E f : Shows(how, v, data, k, f)}
<1>1. 0 \in G
  <2> DEFINE f == [i \in 0 .. 0 |-> v]
  <2>1. f = [i \in 0 .. 0 |-> IF i = 0 THEN v ELSE ReadAt(how, f[i - 1], data, i)]
    OBVIOUS
  <2> HIDE DEF f
  <2> QED
    BY <2>1 DEF Shows
<1>2. ASSUME NEW k \in Nat, k \in G PROVE k + 1 \in G
  <2>1. PICK f : Shows(how, v, data, k, f)
    BY <1>2
  <2> DEFINE g == [i \in 0 .. k + 1 |-> IF i <= k THEN f[i]
                                        ELSE ReadAt(how, f[k], data, k + 1)]
  <2>2. f[0] = v /\ \A i \in 1 .. k : f[i] = ReadAt(how, f[i - 1], data, i)
    BY <2>1, ShowsLines
  <2>3. \A i \in 0 .. k : g[i] = f[i]
    OBVIOUS
  <2>4. g[k + 1] = ReadAt(how, f[k], data, k + 1)
    OBVIOUS
  <2>5. g = [i \in 0 .. k + 1 |-> g[i]]
    OBVIOUS
  <2> HIDE DEF g
  <2>6. \A i \in 0 .. k + 1 : g[i] = IF i = 0 THEN v ELSE ReadAt(how, g[i - 1], data, i)
    <3> SUFFICES ASSUME NEW i \in 0 .. k + 1
                 PROVE  g[i] = IF i = 0 THEN v ELSE ReadAt(how, g[i - 1], data, i)
      OBVIOUS
    <3>1. CASE i = 0
      BY <2>2, <2>3, <3>1
    <3>2. CASE i \in 1 .. k
      <4>1. i \in 0 .. k /\ i - 1 \in 0 .. k
        BY <3>2
      <4> QED
        BY <2>2, <2>3, <3>2, <4>1
    <3>3. CASE i = k + 1
      <4>1. k \in 0 .. k /\ i - 1 = k /\ i # 0
        BY <3>3
      <4> QED
        BY <2>3, <2>4, <3>3, <4>1
    <3> QED
      BY <3>1, <3>2, <3>3
  <2>7. Shows(how, v, data, k + 1, g)
    BY <2>5, <2>6 DEF Shows
  <2> QED
    BY <2>7
<1>3. Nat \subseteq G
  <2> HIDE DEF G
  <2> QED
    BY <1>1, <1>2, Naturals
<1> QED
  BY <1>3

\* The m lines of p behind position k are those of q.
SameLines(how, p, k, q, m) ==
    \A u : \A i \in 1 .. m : ReadAt(how, u, p, k + i) = ReadAt(how, u, q, i)

Continues(f, k, g, m) == \A i \in 0 .. m : f[k + i] = g[i]

\* Two of them agree from where they meet on, as long as they see the same lines.
LEMMA ShowsAgree ==
    ASSUME NEW how, NEW v, NEW p, NEW q, NEW n \in Nat, NEW m \in Nat, NEW k \in Nat,
           NEW f, NEW g, Shows(how, v, p, n, f), Shows(how, f[k], q, m, g), k + m <= n,
           SameLines(how, p, k, q, m)
    PROVE  Continues(f, k, g, m)
<1> DEFINE G == {i \in Nat : i <= m => f[k + i] = g[i]}
<1>1. /\ g[0] = f[k] /\ \A i \in 1 .. m : g[i] = ReadAt(how, g[i - 1], q, i)
      /\ \A i \in 1 .. n : f[i] = ReadAt(how, f[i - 1], p, i)
  BY ShowsLines
<1>2. 0 \in G
  BY <1>1
<1>3. ASSUME NEW i \in Nat, i \in G PROVE i + 1 \in G
  <2> SUFFICES ASSUME i + 1 <= m PROVE f[k + (i + 1)] = g[i + 1]
    OBVIOUS
  <2>1. /\ i + 1 \in 1 .. m /\ k + (i + 1) \in 1 .. n
        /\ (k + (i + 1)) - 1 = k + i /\ (i + 1) - 1 = i /\ f[k + i] = g[i]
    BY <1>3
  <2>2. f[k + (i + 1)] = ReadAt(how, f[k + i], p, k + (i + 1))
    BY <1>1, <2>1
  <2>4. ReadAt(how, f[k + i], p, k + (i + 1)) = ReadAt(how, f[k + i], q, i + 1)
    BY <2>1 DEF SameLines
  <2>3. g[i + 1] = ReadAt(how, g[i], q, i + 1)
    BY <1>1, <2>1
  <2> QED
    BY <2>1, <2>2, <2>3, <2>4
<1>4. Nat \subseteq G
  <2> HIDE DEF G
  <2> QED
    BY <1>2, <1>3, Naturals
<1> QED
  BY <1>4 DEF Continues

\* Lines that follow whole lines are read on from what those come to.
LEMMA ShowsJoin ==
    ASSUME NEW how, NEW v, NEW p, NEW q, IsSeq(p), IsSeq(q), EndsWhole(p), NEW f, NEW g, NEW h,
           Shows(how, v, p \o q, Len(p) + Len(q), f), Shows(how, v, p, Len(p), g),
           Shows(how, g[Len(p)], q, Len(q), h)
    PROVE  f[Len(p) + Len(q)] = h[Len(q)]
<1>1. /\ IsSeq(p \o q) /\ Len(p \o q) = Len(p) + Len(q)
      /\ Len(p) \in Nat /\ Len(q) \in Nat
  BY SeqLen, SeqJoin
<1>5. SameLines(how, p \o q, 0, p, Len(p))
  <2> SUFFICES ASSUME NEW u, NEW i \in 1 .. Len(p)
               PROVE  ReadAt(how, u, p \o q, i) = ReadAt(how, u, p, i)
    BY <1>1 DEF SameLines
  <2> QED
    BY LineKept DEF ReadAt, LineApplied, ConsumeLine
<1>6. SameLines(how, p \o q, Len(p), q, Len(q))
  <2> SUFFICES ASSUME NEW u, NEW i \in 1 .. Len(q)
               PROVE  ReadAt(how, u, p \o q, Len(p) + i) = ReadAt(how, u, q, i)
    BY DEF SameLines
  <2> QED
    BY LineShifted DEF ReadAt, LineApplied, ConsumeLine
<1>7. /\ 0 \in Nat /\ Len(p) + Len(q) \in Nat
      /\ 0 + Len(p) <= Len(p) + Len(q) /\ Len(p) + Len(q) <= Len(p) + Len(q)
  BY <1>1
<1>8. Continues(f, 0, g, Len(p))
  <2>1. f[0] = v
    BY <1>7, ShowsFirst
  <2>2. Shows(how, f[0], p, Len(p), g)
    BY <2>1
  <2> QED
    BY <1>1, <1>5, <1>7, <2>2, ShowsAgree
<1>9. f[Len(p)] = g[Len(p)]
  BY <1>1, <1>8 DEF Continues
<1>10. Continues(f, Len(p), h, Len(q))
  <2>1. Shows(how, f[Len(p)], q, Len(q), h)
    BY <1>9
  <2> QED
    BY <1>1, <1>6, <1>7, <2>1, ShowsAgree
<1> QED
  BY <1>1, <1>10 DEF Continues

LEMMA ProjectShows ==
    ASSUME NEW v, NEW data, IsSeq(data), NEW f, Shows("view", v, data, Len(data), f)
    PROVE  Project(v, data) = f[Len(data)]
<1> DEFINE Once(g) ==
      g = [i \in 0 .. Len(data) |->
             IF i = 0 THEN v
             ELSE CHOOSE after \in {LineApplied(before, data, i) :
                                      before \in {g[i - 1]}} : TRUE]
           shown == CHOOSE g : Once(g)
<1>1. Project(v, data) = shown[Len(data)]
  BY DEF Project
<1>2. Len(data) \in Nat
  BY SeqLen
<1>3. \A g : Once(g) <=> Shows("view", v, data, Len(data), g)
  <2>1. \A i, w : (CHOOSE after \in {LineApplied(before, data, i) :
                                       before \in {w}} : TRUE)
                    = LineApplied(w, data, i)
    OBVIOUS
  <2> QED
    BY <2>1 DEF Shows, ReadAt
<1>4. Shows("view", v, data, Len(data), shown)
  <2>1. Once(f)
    BY <1>3
  <2>2. Once(shown)
    BY <2>1, Zenon
  <2> QED
    BY <1>3, <2>2
<1> HIDE DEF shown
<1>5. f[0] = v
  <2>1. Shows("view", v, data, Len(data), f)
    OBVIOUS
  <2> QED
    BY <1>2, <2>1, ShowsFirst, Zenon
<1>6. SameLines("view", data, 0, data, Len(data))
  BY <1>2 DEF SameLines
<1>7. Continues(f, 0, shown, Len(data))
  <2>1. 0 \in Nat /\ 0 + Len(data) <= Len(data)
    BY <1>2
  <2>2. Shows("view", f[0], data, Len(data), shown)
    BY <1>4, <1>5
  <2> QED
    BY <1>2, <1>6, <2>1, <2>2, ShowsAgree
<1> QED
  BY <1>1, <1>2, <1>7 DEF Continues

LEMMA ProjectNothing ==
    ASSUME NEW v
    PROVE  Project(v, <<>>) = v
<1>1. IsSeq(<<>>) /\ Len(<<>>) = 0
  <2>1. <<>> \in Seq({})
    BY EmptySeq
  <2> QED
    BY <2>1 DEF IsSeq
<1>2. PICK f : Shows("view", v, <<>>, 0, f)
  BY ShowsExists
<1>3. f[0] = v
  BY <1>2, ShowsFirst, Zenon
<1>4. Project(v, <<>>) = f[Len(<<>>)]
  <2>1. Shows("view", v, <<>>, Len(<<>>), f)
    BY <1>1, <1>2
  <2> QED
    BY <1>1, <2>1, ProjectShows
<1> QED
  BY <1>1, <1>3, <1>4

\* Lines that follow whole lines are applied to what those show.
LEMMA ProjectJoin ==
    ASSUME NEW v, NEW p, NEW q, IsSeq(p), IsSeq(q), EndsWhole(p)
    PROVE  Project(v, p \o q) = Project(Project(v, p), q)
<1>1. /\ IsSeq(p \o q) /\ Len(p \o q) = Len(p) + Len(q)
      /\ Len(p) \in Nat /\ Len(q) \in Nat
  BY SeqLen, SeqJoin
<1>2. PICK f : Shows("view", v, p \o q, Len(p) + Len(q), f)
  BY <1>1, ShowsExists
<1>3. PICK g : Shows("view", v, p, Len(p), g)
  BY <1>1, ShowsExists
<1>4. PICK h : Shows("view", g[Len(p)], q, Len(q), h)
  BY <1>1, ShowsExists
<1>5. f[Len(p) + Len(q)] = h[Len(q)]
  BY <1>2, <1>3, <1>4, ShowsJoin
<1>6. Project(v, p \o q) = f[Len(p) + Len(q)] /\ Project(v, p) = g[Len(p)]
  BY <1>1, <1>2, <1>3, ProjectShows
<1>7. Project(g[Len(p)], q) = h[Len(q)]
  BY <1>4, ProjectShows
<1> QED
  BY <1>5, <1>6, <1>7

\* Halves without a newline show nothing.
LEMMA ProjectUnfinished ==
    ASSUME NEW v, NEW q, IsSeq(q), \A i \in 1 .. Len(q) : ~q[i].last
    PROVE  Project(v, q) = v
<1>1. Len(q) \in Nat
  BY SeqLen
<1>2. PICK f : Shows("view", v, q, Len(q), f)
  BY <1>1, ShowsExists
<1>3. f[0] = v
  BY <1>1, <1>2, ShowsFirst, Zenon
<1>7. \A i \in 1 .. Len(q) : f[i] = LineApplied(f[i - 1], q, i)
  <2>1. \A i \in 1 .. Len(q) : f[i] = ReadAt("view", f[i - 1], q, i)
    <3>1. Shows("view", v, q, Len(q), f) =>
            \A i \in 1 .. Len(q) : f[i] = ReadAt("view", f[i - 1], q, i)
      BY <1>1, ShowsLines
    <3> QED
      BY <1>2, <3>1
  <2> QED
    BY <2>1 DEF ReadAt
<1> DEFINE G == {i \in Nat : i <= Len(q) => f[i] = v}
<1>4. 0 \in G
  BY <1>3
<1>5. ASSUME NEW i \in Nat, i \in G PROVE i + 1 \in G
  <2> SUFFICES ASSUME i + 1 <= Len(q) PROVE f[i + 1] = v
    OBVIOUS
  <2>1. i + 1 \in 1 .. Len(q) /\ f[i] = v /\ (i + 1) - 1 = i
    BY <1>1, <1>5
  <2>2. f[i + 1] = LineApplied(f[i], q, i + 1) /\ ~q[i + 1].last
    BY <1>7, <2>1
  <2> QED
    BY <2>1, <2>2 DEF LineApplied
<1>6. Nat \subseteq G
  <2> HIDE DEF G
  <2> QED
    BY <1>4, <1>5, Naturals
<1> QED
  BY <1>1, <1>2, <1>6, ProjectShows

-------------------------------------------------------------------------------
(* What the follower keeps between two polls.                               *)

LEMMA Reassociate ==
    ASSUME NEW p, NEW q, NEW h, IsSeq(p), IsSeq(q), IsSeq(h)
    PROVE  (p \o q) \o h = p \o (q \o h)
  BY SeqAssociative

LEMMA SameElements ==
    ASSUME NEW p, NEW q, IsSeq(p), IsSeq(q), Len(p) = Len(q), \A i \in 1 .. Len(p) : p[i] = q[i]
    PROVE  p = q
<1>1. PICK S : p \in Seq(S)
  BY DEF IsSeq
<1>2. PICK T : q \in Seq(T)
  BY DEF IsSeq
<1>3. p \in Seq(S \cup T) /\ q \in Seq(S \cup T)
  BY <1>1, <1>2, SeqMonotonic
<1> QED
  BY <1>3, SeqEqual

\* A file is its whole lines, and then the one that is not finished.
Cut(q, whole, unfinished) ==
    /\ IsSeq(whole) /\ IsSeq(unfinished) /\ q = whole \o unfinished
    /\ EndsWhole(whole) /\ \A i \in 1 .. Len(unfinished) : ~unfinished[i].last

LEMMA CutExists ==
    ASSUME NEW q, IsSeq(q)
    PROVE  \E whole, unfinished : Cut(q, whole, unfinished) /\ UnfinishedLine(q) = unfinished
<1>1. PICK end \in 0 .. Len(q) :
              /\ UnfinishedLine(q) = SubSeq(q, end + 1, Len(q))
              /\ EndsWhole(SubSeq(q, 1, end))
              /\ \A i \in end + 1 .. Len(q) : ~q[i].last
  BY FileCut
<1>2. Len(q) \in Nat
  BY SeqLen
<1>3. PICK whole : whole = SubSeq(q, 1, end)
  OBVIOUS
<1>4. PICK unfinished : unfinished = SubSeq(q, end + 1, Len(q))
  OBVIOUS
<1>5. IsSeq(whole) /\ IsSeq(unfinished) /\ whole \o unfinished = q
  BY <1>3, <1>4, SeqCut
<1>6. ASSUME NEW i \in 1 .. Len(unfinished) PROVE ~unfinished[i].last
  <2>1. PICK S : q \in Seq(S)
    BY DEF IsSeq
  <2>2. \A j \in end + 1 .. Len(q) : q[j] \in S
    BY <1>2, <2>1, ElementOfSeq
  <2>3. \A j \in 1 .. Len(unfinished) :
           /\ unfinished[j] = q[end + j]
           /\ end + j \in end + 1 .. Len(q)
    <3>1. /\ Len(unfinished) = IF end + 1 <= Len(q) THEN Len(q) - (end + 1) + 1 ELSE 0
          /\ \A j \in 1 .. Len(unfinished) : unfinished[j] = q[end + 1 + j - 1]
      BY <1>2, <1>4, <2>2, SubSeqProperties
    <3> QED
      BY <1>2, <3>1
  <2> QED
    BY <1>1, <2>3
<1> QED
  BY <1>1, <1>3, <1>4, <1>5, <1>6 DEF Cut

LEMMA WholeJoin ==
    ASSUME NEW p, NEW q, IsSeq(p), IsSeq(q), EndsWhole(p), EndsWhole(q)
    PROVE  EndsWhole(p \o q)
<1>1. /\ Len(p) \in Nat /\ Len(q) \in Nat /\ Len(p \o q) = Len(p) + Len(q)
      /\ \A i \in 1 .. Len(p) : (p \o q)[i] = p[i]
      /\ \A i \in 1 .. Len(q) : (p \o q)[Len(p) + i] = q[i]
  BY SeqLen, SeqJoin
<1>2. CASE q = <<>>
  <2>1. p \o q = p
    BY <1>2, SeqAssociative
  <2> QED
    BY <2>1
<1>3. CASE q # <<>>
  <2>1. Len(q) # 0
    BY <1>3, EmptySeq DEF IsSeq
  <2>2. (p \o q)[Len(p) + Len(q)] = q[Len(q)]
    BY <1>1, <2>1
  <2> QED
    BY <1>1, <1>3, <2>2 DEF EndsWhole
<1> QED
  BY <1>2, <1>3

LEMMA CutUnique ==
    ASSUME NEW q, NEW whole, NEW unfinished, Cut(q, whole, unfinished)
    PROVE  UnfinishedLine(q) = unfinished
<1>1. IsSeq(whole) /\ IsSeq(unfinished) /\ IsSeq(q) /\ q = whole \o unfinished
  BY SeqJoin DEF Cut
<1>2. PICK p, u : Cut(q, p, u) /\ UnfinishedLine(q) = u
  BY <1>1, CutExists
<1>3. IsSeq(p) /\ IsSeq(u) /\ q = p \o u
  BY <1>2 DEF Cut
<1>4. /\ Len(p) \in Nat /\ Len(u) \in Nat /\ Len(q) = Len(p) + Len(u)
      /\ \A i \in 1 .. Len(p) : q[i] = p[i]
      /\ \A i \in 1 .. Len(u) : q[Len(p) + i] = u[i]
  BY <1>3, SeqLen, SeqJoin
<1>5. /\ Len(whole) \in Nat /\ Len(unfinished) \in Nat
      /\ Len(q) = Len(whole) + Len(unfinished)
      /\ \A i \in 1 .. Len(whole) : q[i] = whole[i]
      /\ \A i \in 1 .. Len(unfinished) : q[Len(whole) + i] = unfinished[i]
  BY <1>1, SeqLen, SeqJoin
<1>6. /\ Len(p) > 0 => q[Len(p)].last
      /\ Len(whole) > 0 => q[Len(whole)].last
  <2>1. (Len(p) > 0 => p # <<>>) /\ (Len(whole) > 0 => whole # <<>>)
    OBVIOUS
  <2> QED
    BY <1>2, <1>4, <1>5, <2>1 DEF Cut, EndsWhole
<1>7. Len(p) = Len(whole)
  <2>1. CASE Len(p) < Len(whole)
    <3>1. Len(whole) - Len(p) \in 1 .. Len(u) /\ Len(p) + (Len(whole) - Len(p)) = Len(whole)
      BY <1>4, <1>5, <2>1
    <3>2. q[Len(whole)] = u[Len(whole) - Len(p)]
      BY <1>4, <3>1
    <3> QED
      BY <1>2, <1>4, <1>5, <1>6, <2>1, <3>1, <3>2 DEF Cut
  <2>2. CASE Len(whole) < Len(p)
    <3>1. /\ Len(p) - Len(whole) \in 1 .. Len(unfinished)
          /\ Len(whole) + (Len(p) - Len(whole)) = Len(p)
      BY <1>4, <1>5, <2>2
    <3>2. q[Len(p)] = unfinished[Len(p) - Len(whole)]
      BY <1>5, <3>1
    <3> QED
      BY <1>4, <1>5, <1>6, <2>2, <3>1, <3>2 DEF Cut
  <2> QED
    BY <1>4, <1>5, <2>1, <2>2
<1>8. u = unfinished
  <2>1. Len(u) = Len(unfinished)
    BY <1>4, <1>5, <1>7
  <2>2. \A i \in 1 .. Len(u) : u[i] = unfinished[i]
    BY <1>4, <1>5, <1>7, <2>1
  <2> QED
    BY <1>1, <1>3, <2>1, <2>2, SameElements
<1> QED
  BY <1>2, <1>8

\* Reading on from the unfinished line is reading the file anew.
LEMMA ReadOn ==
    ASSUME NEW v, NEW q, NEW c, IsSeq(q), IsSeq(c)
    PROVE  /\ Project(v, q \o c) = Project(Project(v, q), UnfinishedLine(q) \o c)
           /\ UnfinishedLine(q \o c) = UnfinishedLine(UnfinishedLine(q) \o c)
<1>1. PICK p, u : Cut(q, p, u) /\ UnfinishedLine(q) = u
  BY CutExists
<1>2. /\ IsSeq(p) /\ IsSeq(u) /\ q = p \o u /\ EndsWhole(p)
      /\ \A i \in 1 .. Len(u) : ~u[i].last
  BY <1>1 DEF Cut
<1>3. PICK d : d = u \o c
  OBVIOUS
<1>4. IsSeq(d)
  BY <1>2, <1>3, SeqJoin
<1>5. q \o c = p \o d
  BY <1>2, <1>3, SeqAssociative
<1>6. Project(v, q \o c) = Project(Project(v, p), d)
  BY <1>2, <1>4, <1>5, ProjectJoin
<1>7. Project(v, q) = Project(v, p)
  <2>1. Project(v, q) = Project(Project(v, p), u)
    BY <1>2, ProjectJoin
  <2> QED
    BY <1>2, <2>1, ProjectUnfinished
<1>8. UnfinishedLine(q \o c) = UnfinishedLine(d)
  <2>1. PICK w, e : Cut(d, w, e) /\ UnfinishedLine(d) = e
    BY <1>4, CutExists
  <2>2. /\ IsSeq(w) /\ IsSeq(e) /\ d = w \o e /\ EndsWhole(w)
        /\ \A i \in 1 .. Len(e) : ~e[i].last
    BY <2>1 DEF Cut
  <2>3. PICK f : f = p \o w
    OBVIOUS
  <2>4. IsSeq(f) /\ EndsWhole(f)
    BY <1>2, <2>2, <2>3, SeqJoin, WholeJoin
  <2>5. p \o d = f \o e
    <3>1. IsSeq(p) /\ IsSeq(w) /\ IsSeq(e)
      BY <1>2, <2>2
    <3>2. (p \o w) \o e = p \o (w \o e)
      BY <3>1, Reassociate
    <3> QED
      BY <2>2, <2>3, <3>2
  <2>6. Cut(q \o c, f, e)
    BY <1>5, <2>2, <2>4, <2>5 DEF Cut
  <2> QED
    BY <2>1, <2>6, CutUnique
<1> QED
  BY <1>1, <1>3, <1>6, <1>7, <1>8

LEMMA NothingRead ==
    /\ IsSeq(<<>>) /\ Len(<<>>) = 0
    /\ \A q : SubSeq(q, 1, 0) = <<>>
    /\ UnfinishedLine(<<>>) = <<>> /\ Project(NoRun, <<>>) = NoRun
<1>1. IsSeq(<<>>) /\ Len(<<>>) = 0
  <2>1. <<>> \in Seq({})
    BY EmptySeq
  <2> QED
    BY <2>1 DEF IsSeq
<1>2. \A q : SubSeq(q, 1, 0) = <<>>
  BY SubSeqEmpty
<1>3. Cut(<<>>, <<>>, <<>>)
  <2>1. <<>> \o <<>> = <<>>
    BY <1>1, SeqAssociative
  <2> QED
    BY <1>1, <2>1 DEF Cut, EndsWhole
<1>4. UnfinishedLine(<<>>) = <<>>
  BY <1>3, CutUnique
<1> QED
  BY <1>1, <1>2, <1>4, ProjectNothing

\* The follower, as long as it was not overtaken and the file is the one it reads.
Following == ~overtaken /\ reader.identity \in {0, inode}

\* What it keeps is what the part of the file it has read says.
Told(q) == view = Project(NoRun, q) /\ reader.partial = UnfinishedLine(q)

\* What it has read.
ReadSoFar == SubSeq(Log, 1, reader.offset)

FollowInv ==
    /\ {"state", "offset", "partial", "identity", "reset"} \subseteq DOMAIN reader
    /\ inode \in Nat \ {0} /\ reader.identity \in 0 .. inode /\ reader.offset \in Nat
    /\ overtaken \in BOOLEAN
    /\ reader.identity = 0 =>
          reader.offset = 0 /\ ~overtaken /\ reader.state = "idle"
    /\ reader.state = "looked" /\ ~overtaken => reader.identity = inode
    /\ reader.state = "looked" /\ reader.reset =>
          reader.offset = 0 /\ reader.partial = <<>>
    /\ Following =>
          /\ reader.offset <= Len(Log)
          /\ \/ reader.state = "looked" /\ reader.reset
             \/ Told(ReadSoFar)

LEMMA FollowInit == Init => FollowInv
<1> SUFFICES ASSUME Init PROVE FollowInv
  OBVIOUS
<1>1. /\ inode = 1 /\ view = NoRun /\ overtaken = FALSE /\ files["log"] = <<>>
      /\ reader = [state |-> "idle", offset |-> 0, partial |-> <<>>,
                   identity |-> 0, reset |-> FALSE]
  BY DEF Init, DashInit, LogInit, Streams
<1>2. ReadSoFar = <<>> /\ Len(Log) = 0
  BY <1>1, NothingRead DEF Log, ReadSoFar
<1>3. Told(ReadSoFar)
  BY <1>1, <1>2, NothingRead DEF Told
<1>4. /\ inode = 1 /\ overtaken = FALSE /\ reader.identity = 0 /\ reader.offset = 0
      /\ reader.state = "idle"
      /\ {"state", "offset", "partial", "identity", "reset"} \subseteq DOMAIN reader
  BY <1>1
<1>5. inode \in Nat \ {0} /\ reader.identity \in 0 .. inode
  BY <1>4
<1>6. reader.offset \in Nat
  BY <1>4
<1>7. overtaken \in BOOLEAN
  BY <1>4
<1>8. reader.offset <= Len(Log)
  BY <1>2, <1>4
<1> QED
  BY <1>2, <1>3, <1>4, <1>5, <1>6, <1>7, <1>8 DEF FollowInv

LEMMA LookFollows ==
    ASSUME FollowInv, IsSeq(Log), Look, files' = files
    PROVE  FollowInv'
<1>1. UNCHANGED <<inode, view, Log>>
  BY DEF Look, Log
<1>2. CASE SourceReset
  <2>1. /\ reader' = [state |-> "looked", offset |-> 0, partial |-> <<>>,
                      identity |-> inode, reset |-> TRUE]
        /\ overtaken' = FALSE
    <3>1. ~(inode = reader.identity /\ Len(Log) >= reader.offset)
      <4>1. Len(Log) \in Nat /\ reader.offset \in Nat
        BY SeqLen DEF FollowInv
      <4> QED
        BY <1>2, <4>1 DEF SourceReset
    <3>2. overtaken' = (overtaken /\ inode = reader.identity /\ Len(Log) >= reader.offset)
      BY DEF Look
    <3>3. overtaken' = FALSE
      BY <3>1, <3>2, Zenon
    <3> QED
      BY <1>2, <3>3 DEF Look
  <2>2. /\ reader'.state = "looked" /\ reader'.reset /\ reader'.offset = 0
        /\ reader'.partial = <<>> /\ reader'.identity = inode
        /\ {"state", "offset", "partial", "identity", "reset"} \subseteq DOMAIN reader'
    BY <2>1
  <2>3. reader'.offset <= Len(Log')
    BY <1>1, <2>2, SeqLen
  <2>4. /\ inode' \in Nat \ {0} /\ reader'.identity \in 0 .. inode'
        /\ reader'.identity # 0 /\ reader'.offset \in Nat
    BY <1>1, <2>2 DEF FollowInv
  <2>5. overtaken' \in BOOLEAN
    BY <2>1
  <2> QED
    BY <1>1, <2>2, <2>3, <2>4, <2>5 DEF FollowInv
<1>3. CASE ~SourceReset
  <2>1. /\ reader' = [reader EXCEPT !.state = "looked", !.identity = inode,
                                    !.reset = FALSE]
        /\ reader.state = "idle"
    BY <1>3 DEF Look
  <2>2. /\ reader'.state = "looked" /\ reader'.identity = inode /\ reader'.reset = FALSE
        /\ reader'.offset = reader.offset /\ reader'.partial = reader.partial
        /\ DOMAIN reader' = DOMAIN reader
    BY <2>1 DEF FollowInv
  <2>3. overtaken' = (overtaken /\ inode = reader.identity /\ Len(Log) >= reader.offset)
    BY DEF Look
  <2>4. overtaken' \in BOOLEAN /\ (~overtaken' => Following)
    <3>1. CASE reader.identity = 0
      <4>1. ~overtaken
        BY <3>1 DEF FollowInv
      <4>2. ~overtaken' /\ overtaken' \in BOOLEAN
        BY <2>3, <4>1, Zenon
      <4> QED
        BY <3>1, <4>1, <4>2 DEF Following
    <3>2. CASE reader.identity # 0
      <4>1. Len(Log) \in Nat /\ reader.offset \in Nat
        BY SeqLen DEF FollowInv
      <4>2. inode = reader.identity /\ Len(Log) >= reader.offset
        BY <1>3, <3>2, <4>1 DEF SourceReset
      <4>3. overtaken' = overtaken
        <5>1. overtaken \in BOOLEAN
          BY DEF FollowInv
        <5> QED
          BY <2>3, <4>2, <5>1, Zenon
      <4> QED
        BY <4>2, <4>3 DEF Following, FollowInv
    <3> QED
      BY <3>1, <3>2
  <2> QED
    BY <1>1, <2>1, <2>2, <2>4 DEF FollowInv, Following, Told, ReadSoFar
<1> QED
  BY <1>2, <1>3

LEMMA ReadFollows ==
    ASSUME FollowInv, IsSeq(Log), Read, files' = files
    PROVE  FollowInv'
<1>1. UNCHANGED <<inode, overtaken, Log>> /\ reader.state = "looked"
  BY DEF Read, Log
<1>2. PICK data : data = reader.partial \o Chunk
  OBVIOUS
<1>3. PICK base : base = IF reader.reset THEN NoRun ELSE view
  OBVIOUS
<1>4. /\ view' = Project(base, data)
      /\ reader' = [reader EXCEPT !.offset = @ + Len(Chunk), !.partial = UnfinishedLine(data),
                                  !.state = IF view'.valid THEN "idle" ELSE "failed"]
  BY <1>2, <1>3 DEF Read
<1>5. /\ reader'.offset = reader.offset + Len(Chunk)
      /\ reader'.partial = UnfinishedLine(data)
      /\ reader'.state \in {"idle", "failed"}
      /\ reader'.identity = reader.identity /\ reader'.reset = reader.reset
      /\ DOMAIN reader' = DOMAIN reader
  BY <1>4 DEF FollowInv
<1>6. Len(Log) \in Nat
  BY SeqLen
<1>7. reader.offset \in Nat /\ reader.identity # 0
  BY <1>1 DEF FollowInv
<1>8. Len(Chunk) \in Nat
  <2>1. PICK S : Log \in Seq(S)
    BY DEF IsSeq
  <2>2. \A i \in reader.offset + 1 .. Len(Log) : Log[i] \in S
    BY <1>6, <1>7, <2>1, ElementOfSeq
  <2>3. Chunk \in Seq(S)
    BY <1>6, <1>7, <2>2, SubSeqProperties DEF Chunk
  <2> QED
    BY <2>3
<1>9. ASSUME Following
      PROVE  /\ reader'.offset = Len(Log) /\ Told(Log)'
  <2>1. reader.offset \in 0 .. Len(Log)
    BY <1>6, <1>7, <1>9 DEF FollowInv
  <2>2. PICK q : q = SubSeq(Log, 1, reader.offset)
    OBVIOUS
  <2>3. PICK c : c = Chunk
    OBVIOUS
  <2>4. IsSeq(q) /\ IsSeq(c) /\ Log = q \o c /\ Len(q) = reader.offset
    <3>1. IsSeq(q) /\ IsSeq(c) /\ q \o c = Log
      BY <2>1, <2>2, <2>3, SeqCut DEF Chunk
    <3>2. Len(q) = reader.offset
      <4>1. PICK S : Log \in Seq(S)
        BY DEF IsSeq
      <4>2. \A i \in 1 .. reader.offset : Log[i] \in S
        BY <1>6, <2>1, <4>1, ElementOfSeq
      <4> QED
        BY <1>6, <2>1, <2>2, <4>2, SubSeqProperties
    <3> QED
      BY <3>1, <3>2
  <2>5. reader'.offset = Len(Log)
    BY <1>5, <2>3, <2>4, SeqJoin
  <2>6. CASE reader.reset
    <3>1. reader.offset = 0 /\ reader.partial = <<>> /\ base = NoRun
      BY <1>1, <1>3, <2>6 DEF FollowInv
    <3>2. q = <<>> /\ <<>> \o c = c
      BY <2>2, <2>4, <3>1, NothingRead, SeqAssociative
    <3>3. data = Log
      BY <1>2, <2>3, <2>4, <3>1, <3>2
    <3> QED
      BY <1>1, <1>4, <1>5, <2>5, <3>1, <3>3 DEF Told
  <2>7. CASE ~reader.reset
    <3>1. view = Project(NoRun, q) /\ reader.partial = UnfinishedLine(q) /\ base = view
      BY <1>3, <1>9, <2>2, <2>7 DEF FollowInv, Told, ReadSoFar
    <3>2. data = UnfinishedLine(q) \o c
      BY <1>2, <2>3, <3>1
    <3>3. /\ Project(NoRun, Log) = Project(Project(NoRun, q), data)
          /\ UnfinishedLine(Log) = UnfinishedLine(data)
      BY <2>4, <3>2, ReadOn
    <3> QED
      BY <1>1, <1>4, <1>5, <2>5, <3>1, <3>3 DEF Told
  <2> QED
    BY <2>5, <2>6, <2>7
<1>10. SubSeq(Log, 1, Len(Log)) = Log
  BY SubSeqFull DEF IsSeq
<1>11. Following' => Following
  BY <1>1, <1>5 DEF Following
<1>12. Following' => reader'.offset = Len(Log') /\ Told(ReadSoFar)'
  <2> SUFFICES ASSUME Following' PROVE reader'.offset = Len(Log') /\ Told(ReadSoFar)'
    OBVIOUS
  <2>1. reader'.offset = Len(Log) /\ Told(Log)'
    BY <1>9, <1>11
  <2>2. SubSeq(Log', 1, reader'.offset) = Log'
    BY <1>1, <1>10, <2>1
  <2> QED
    BY <1>1, <2>1, <2>2 DEF Told, ReadSoFar
<1> QED
  BY <1>1, <1>5, <1>6, <1>7, <1>8, <1>12 DEF FollowInv

LEMMA RotateFollows ==
    ASSUME FollowInv, Truncate \/ Replace, "log" \in DOMAIN files
    PROVE  FollowInv'
<1>1. Log' = <<>> /\ UNCHANGED <<reader, view>>
  BY DEF Truncate, Replace, TruncateLog, ReplaceLog, Log
<1>2. Len(<<>>) = 0 /\ SubSeq(Log, 1, 0) = <<>> /\ SubSeq(<<>>, 1, 0) = <<>>
  BY NothingRead
<1>3. CASE Truncate
  <2>1. inode' = inode
    BY <1>3 DEF Truncate
  <2>2. /\ overtaken' \in BOOLEAN
        /\ ~overtaken' <=> ~overtaken /\ ~Unnoticed
    <3>1. overtaken' = (overtaken \/ Unnoticed)
      BY <1>3 DEF Truncate
    <3> QED
      BY <3>1, Zenon
  <2>3. /\ overtaken' => reader.identity # 0
        /\ Following' => Following /\ reader.offset = 0
    BY <1>1, <2>1, <2>2 DEF Following, Unnoticed, FollowInv
  <2>4. ASSUME Following'
        PROVE  /\ reader'.offset <= Len(Log')
               /\ \/ reader'.state = "looked" /\ reader'.reset
                  \/ (Told(ReadSoFar))'
    <3>1. reader.offset = 0 /\ Following
      BY <2>3, <2>4
    <3>2. Told(<<>>) \/ (reader.state = "looked" /\ reader.reset)
      <4>1. ReadSoFar = <<>>
        BY <1>2, <3>1 DEF ReadSoFar
      <4>2. Following => Told(ReadSoFar) \/ (reader.state = "looked" /\ reader.reset)
        BY DEF FollowInv
      <4> QED
        BY <3>1, <4>1, <4>2, Zenon
    <3>3. ReadSoFar' = <<>> /\ reader'.offset <= Len(Log')
      BY <1>1, <1>2, <3>1 DEF ReadSoFar
    <3> QED
      BY <1>1, <3>2, <3>3 DEF Told
  <2> QED
    BY <1>1, <1>2, <2>1, <2>2, <2>3, <2>4 DEF FollowInv, Following
<1>4. CASE Replace
  <2>1. /\ inode' = inode + 1
        /\ overtaken' \in BOOLEAN
        /\ ~overtaken' <=> ~overtaken /\ reader.state # "looked"
    <3>1. overtaken' = (overtaken \/ reader.state = "looked")
      BY <1>4 DEF Replace
    <3>2. overtaken' \in BOOLEAN /\ (~overtaken' <=> ~overtaken /\ reader.state # "looked")
      BY <3>1, Zenon
    <3> QED
      BY <1>4, <3>2 DEF Replace
  <2>2. inode' \in Nat \ {0} /\ reader'.identity \in 0 .. inode'
    BY <1>1, <2>1 DEF FollowInv
  <2>3. Following' => Following /\ reader.offset = 0
    BY <1>1, <2>1 DEF Following, FollowInv
  <2>4. overtaken' => reader.identity # 0
    BY <2>1 DEF FollowInv
  <2>5. reader'.state = "looked" => overtaken'
    BY <1>1, <2>1
  <2>6. ASSUME Following'
        PROVE  /\ reader'.offset <= Len(Log')
               /\ \/ reader'.state = "looked" /\ reader'.reset
                  \/ (Told(ReadSoFar))'
    <3>1. reader.offset = 0 /\ Following
      BY <2>3, <2>6
    <3>2. Told(<<>>) \/ (reader.state = "looked" /\ reader.reset)
      <4>1. ReadSoFar = <<>>
        BY <1>2, <3>1 DEF ReadSoFar
      <4>2. Following => Told(ReadSoFar) \/ (reader.state = "looked" /\ reader.reset)
        BY DEF FollowInv
      <4> QED
        BY <3>1, <4>1, <4>2, Zenon
    <3>3. ReadSoFar' = <<>> /\ reader'.offset <= Len(Log')
      BY <1>1, <1>2, <3>1 DEF ReadSoFar
    <3> QED
      BY <1>1, <3>2, <3>3 DEF Told
  <2> QED
    BY <1>1, <1>2, <2>1, <2>2, <2>3, <2>4, <2>5, <2>6 DEF FollowInv
<1> QED
  BY <1>3, <1>4

LEMMA AppendFollows ==
    ASSUME FollowInv, UNCHANGED dashVars, IsSeq(Log), NEW h, IsSeq(h), Log' = Log \o h
    PROVE  FollowInv'
<1>1. UNCHANGED <<inode, reader, view, overtaken>>
  BY DEF dashVars
<1>2. /\ Len(Log) \in Nat /\ Len(h) \in Nat /\ Len(Log') = Len(Log) + Len(h)
      /\ IsSeq(Log') /\ \A i \in 1 .. Len(Log) : Log'[i] = Log[i]
  BY SeqLen, SeqJoin
<1>3. ASSUME Following
      PROVE  SubSeq(Log', 1, reader.offset) = SubSeq(Log, 1, reader.offset)
  <2>1. reader.offset \in 0 .. Len(Log) /\ reader.offset \in 0 .. Len(Log')
    BY <1>2, <1>3 DEF FollowInv
  <2>2. PICK n \in 0 .. Len(Log) : n = reader.offset /\ n \in 0 .. Len(Log')
    BY <2>1
  <2>3. PICK S : Log \in Seq(S)
    BY DEF IsSeq
  <2>4. PICK T : Log' \in Seq(T)
    BY <1>2 DEF IsSeq
  <2>5. \A i \in 1 .. n : Log[i] \in S /\ Log'[i] \in T /\ Log'[i] = Log[i]
    BY <1>2, <2>2, <2>3, <2>4, ElementOfSeq
  <2>6. /\ SubSeq(Log, 1, n) \in Seq(S) /\ SubSeq(Log', 1, n) \in Seq(T)
        /\ Len(SubSeq(Log, 1, n)) = n /\ Len(SubSeq(Log', 1, n)) = n
        /\ \A i \in 1 .. n : SubSeq(Log, 1, n)[i] = Log[i] /\ SubSeq(Log', 1, n)[i] = Log'[i]
    <3>1. 1 \in Int /\ n \in Int
      OBVIOUS
    <3>2. \A i \in 1 .. n : Log[i] \in S
      BY <2>5
    <3>3. \A i \in 1 .. n : Log'[i] \in T
      BY <2>5
    <3>4. /\ SubSeq(Log, 1, n) \in Seq(S) /\ Len(SubSeq(Log, 1, n)) = n
          /\ \A i \in 1 .. n : SubSeq(Log, 1, n)[i] = Log[i]
      BY <3>1, <3>2, SubSeqProperties
    <3>5. /\ SubSeq(Log', 1, n) \in Seq(T) /\ Len(SubSeq(Log', 1, n)) = n
          /\ \A i \in 1 .. n : SubSeq(Log', 1, n)[i] = Log'[i]
      BY <3>1, <3>3, SubSeqProperties
    <3> QED
      BY <3>4, <3>5
  <2>7. IsSeq(SubSeq(Log, 1, n)) /\ IsSeq(SubSeq(Log', 1, n))
    BY <2>6 DEF IsSeq
  <2>8. SubSeq(Log', 1, n) = SubSeq(Log, 1, n)
    BY <2>5, <2>6, <2>7, SameElements
  <2> QED
    BY <2>2, <2>8
<1>4. ASSUME Following'
      PROVE  /\ reader'.offset <= Len(Log')
             /\ \/ reader'.state = "looked" /\ reader'.reset
                \/ (Told(ReadSoFar))'
  <2>1. Following /\ ReadSoFar' = ReadSoFar
    BY <1>1, <1>3, <1>4 DEF Following, ReadSoFar
  <2>2. /\ reader.offset <= Len(Log) /\ reader.offset \in Nat
        /\ \/ reader.state = "looked" /\ reader.reset
           \/ Told(ReadSoFar)
    BY <2>1 DEF FollowInv
  <2>3. reader'.offset <= Len(Log')
    BY <1>1, <1>2, <2>2
  <2> QED
    BY <1>1, <2>1, <2>2, <2>3 DEF Told
<1> QED
  BY <1>1, <1>4 DEF FollowInv

LEMMA FollowStep ==
    ASSUME BaseInv, FilesInv, FollowInv, [Next]_vars
    PROVE  FollowInv'
<1>1. IsSeq(Log) /\ IsSeq(<<>>) /\ Log \o <<>> = Log /\ "log" \in DOMAIN files
  <2>1. IsSeq(Log) /\ "log" \in DOMAIN files
    BY DEF FilesInv, Streams, StreamInv, Log
  <2> QED
    BY <2>1, SeqAssociative
<1>2. CASE Poll /\ UNCHANGED <<logVars, commandVars>>
  BY <1>1, <1>2, LookFollows, ReadFollows DEF Poll, logVars
<1>3. CASE Rotate /\ UNCHANGED commandVars
  BY <1>1, <1>3, RotateFollows DEF Rotate
<1>4. CASE UNCHANGED dashVars
  <2>1. ~Rotates
    <3>1. rotations \in Nat /\ rotations' = rotations
      BY <1>4 DEF FilesInv, dashVars
    <3> QED
      BY <3>1 DEF Rotates, Rotate, Truncate, Replace
  <2>2. PICK h : IsSeq(h) /\ Log' = Log \o h
    BY <2>1, LogAppends DEF Appends
  <2> QED
    BY <1>1, <1>4, <2>2, AppendFollows
<1> QED
  BY <1>2, <1>3, <1>4 DEF Next, vars

LEMMA FollowAlways == Spec => []FollowInv
<1>1. Init => BaseInv /\ FilesInv /\ FollowInv
  BY BaseInit, FilesInit, FollowInit
<1>2. BaseInv /\ FilesInv /\ FollowInv /\ [Next]_vars => (BaseInv /\ FilesInv /\ FollowInv)'
  BY BaseStep, FilesStep, FollowStep
<1> QED
  BY <1>1, <1>2, PTL DEF Spec

(* What DashboardLogReader has told its view (dashboard.py, read_available *)
(* and apply) is what a new dashboard would show of the lines read so far, *)
(* whatever was cut, torn, emptied or replaced between two polls, unless   *)
(* the emptied file outgrew the reader's offset unnoticed.                 *)
THEOREM DashboardFollows == Spec => []DashboardFollowsLog
<1>1. FollowInv => DashboardFollowsLog
  BY DEF FollowInv, Following, Told, ReadSoFar, DashboardFollowsLog
<1> QED
  BY <1>1, FollowAlways, PTL

-------------------------------------------------------------------------------
(* What the strict summary makes of a log without a half line.              *)

LEMMA WholeFinished ==
    ASSUME NEW q, IsSeq(q), EndsWhole(q)
    PROVE  UnfinishedLine(q) = <<>>
<1>1. IsSeq(<<>>) /\ Len(<<>>) = 0
  <2>1. <<>> \in Seq({})
    BY EmptySeq
  <2> QED
    BY <2>1 DEF IsSeq
<1>2. q = q \o <<>>
  BY SeqAssociative
<1>3. Cut(q, q, <<>>)
  BY <1>1, <1>2 DEF Cut
<1> QED
  BY <1>3, CutUnique

LEMMA SummaryShows ==
    ASSUME NEW q, IsSeq(q), EndsWhole(q), NEW f, Shows("summary", EmptySummary, q, Len(q), f)
    PROVE  Summarize(q) = f[Len(q)]
<1> DEFINE Once(g) ==
      g = [i \in 0 .. Len(q) |->
             IF i = 0 THEN EmptySummary
             ELSE LET before == g[i - 1]
                  IN  IF q[i].last THEN ConsumeLine(before, q, i) ELSE before]
           shown == CHOOSE g : Once(g)
<1>1. Summarize(q) = shown[Len(q)]
  BY WholeFinished DEF Summarize
<1>2. Len(q) \in Nat
  BY SeqLen
<1>3. \A g : Once(g) <=> Shows("summary", EmptySummary, q, Len(q), g)
  BY DEF Shows, ReadAt
<1>4. Shows("summary", EmptySummary, q, Len(q), shown)
  <2>1. Once(f)
    BY <1>3
  <2>2. Once(shown)
    BY <2>1, Zenon
  <2> QED
    BY <1>3, <2>2
<1> HIDE DEF shown
<1>5. f[0] = EmptySummary
  <2>1. Shows("summary", EmptySummary, q, Len(q), f)
    OBVIOUS
  <2> QED
    BY <1>2, <2>1, ShowsFirst, Zenon
<1>6. SameLines("summary", q, 0, q, Len(q))
  BY <1>2 DEF SameLines
<1>7. Continues(f, 0, shown, Len(q))
  <2>1. 0 \in Nat /\ 0 + Len(q) <= Len(q)
    BY <1>2
  <2>2. Shows("summary", f[0], q, Len(q), shown)
    BY <1>4, <1>5
  <2> QED
    BY <1>2, <1>6, <2>1, <2>2, ShowsAgree
<1> QED
  BY <1>1, <1>2, <1>7 DEF Continues

LEMMA SummaryNothing == Summarize(<<>>) = EmptySummary
<1>1. IsSeq(<<>>) /\ Len(<<>>) = 0 /\ EndsWhole(<<>>)
  <2>1. <<>> \in Seq({})
    BY EmptySeq
  <2> QED
    BY <2>1 DEF IsSeq, EndsWhole
<1>2. PICK f : Shows("summary", EmptySummary, <<>>, 0, f)
  BY ShowsExists
<1>3. f[0] = EmptySummary
  BY <1>2, ShowsFirst, Zenon
<1>4. Shows("summary", EmptySummary, <<>>, Len(<<>>), f)
  BY <1>1, <1>2
<1>5. Summarize(<<>>) = f[Len(<<>>)]
  BY <1>1, <1>4, SummaryShows
<1> QED
  BY <1>1, <1>3, <1>5

\* One record more is read as it stands.
LEMMA RecordRead ==
    ASSUME NEW v, v.accepted, NEW record, NEW h,
           Shows("summary", v, Halves(record), 2, h)
    PROVE  h[2] = ConsumeRecord(v, record)
<1>1. PICK line : line = Halves(record)
  OBVIOUS
<1>2. /\ line[1] = [record |-> record, last |-> FALSE]
      /\ line[2] = [record |-> record, last |-> TRUE]
  BY <1>1, HalvesOf
<1>3. h[0] = v
  BY <1>1, ShowsFirst, Zenon
<1>4. h = [i \in 0 .. 2 |-> IF i = 0 THEN v ELSE ReadAt("summary", h[i - 1], line, i)]
  BY <1>1 DEF Shows
<1>5. h[1] = ReadAt("summary", h[0], line, 1) /\ h[2] = ReadAt("summary", h[1], line, 2)
  BY <1>4
<1>6. h[1] = v
  BY <1>2, <1>3, <1>5 DEF ReadAt
<1>7. WellFormed(line, 2)
  BY <1>2 DEF WellFormed
<1>8. h[2] = ConsumeLine(v, line, 2)
  BY <1>2, <1>5, <1>6 DEF ReadAt
<1> QED
  BY <1>2, <1>7, <1>8 DEF ConsumeLine

LEMMA SummaryJoin ==
    ASSUME NEW q, IsSeq(q), EndsWhole(q), NEW record, Summarize(q).accepted
    PROVE  Summarize(q \o Halves(record)) = ConsumeRecord(Summarize(q), record)
<1>1. PICK line : line = Halves(record)
  OBVIOUS
<1>2. IsSeq(line) /\ Len(line) = 2 /\ line[2] = [record |-> record, last |-> TRUE]
  BY <1>1, HalvesOf
<1>3. Len(q) \in Nat /\ IsSeq(q \o line) /\ Len(q \o line) = Len(q) + Len(line)
  BY <1>2, SeqLen, SeqJoin
<1>4. EndsWhole(q \o line)
  <2>1. EndsWhole(line)
    BY <1>2 DEF EndsWhole
  <2> QED
    BY <1>2, <2>1, WholeJoin
<1>5. PICK f : Shows("summary", EmptySummary, q \o line, Len(q) + Len(line), f)
  BY <1>2, <1>3, ShowsExists
<1>6. PICK g : Shows("summary", EmptySummary, q, Len(q), g)
  BY <1>3, ShowsExists
<1>7. PICK h : Shows("summary", g[Len(q)], line, Len(line), h)
  BY <1>2, ShowsExists
<1>8. f[Len(q) + Len(line)] = h[Len(line)]
  <2>1. IsSeq(line)
    BY <1>2
  <2>2. PICK empty : empty = EmptySummary
    OBVIOUS
  <2>3. Shows("summary", empty, q \o line, Len(q) + Len(line), f)
    BY <1>5, <2>2
  <2>4. Shows("summary", empty, q, Len(q), g)
    BY <1>6, <2>2
  <2> QED
    BY <1>7, <2>1, <2>3, <2>4, ShowsJoin
<1>9. Summarize(q) = g[Len(q)]
  BY <1>6, SummaryShows
<1>10. Summarize(q \o line) = f[Len(q) + Len(line)]
  <2>1. Shows("summary", EmptySummary, q \o line, Len(q \o line), f)
    BY <1>3, <1>5
  <2> QED
    BY <1>3, <1>4, <2>1, SummaryShows
<1>11. PICK v : v = Summarize(q)
  OBVIOUS
<1>12. Shows("summary", v, Halves(record), 2, h) /\ v.accepted
  BY <1>1, <1>2, <1>7, <1>9, <1>11
<1>13. h[2] = ConsumeRecord(v, record)
  BY <1>12, RecordRead
<1> QED
  BY <1>1, <1>2, <1>8, <1>10, <1>11, <1>13

\* What is accepted enters the runs and nothing else that is told about them.
LEMMA RecordEnters ==
    ASSUME NEW v, {"accepted", "runs"} \subseteq DOMAIN v, v.accepted, NEW record,
           RunAccepts(v.runs, record), SoloAccepts(v.runs, record)
    PROVE  LET after == ConsumeRecord(v, record)
           IN  /\ {"accepted", "runs"} \subseteq DOMAIN after
               /\ after.accepted /\ after.runs = RunAfter(v.runs, record)
<1>1. PICK w : w = AggregateSolo(AggregateStratum(AggregateCommand(v, record), record), record)
  OBVIOUS
<1>2. {"accepted", "runs"} \subseteq DOMAIN w /\ w.accepted = v.accepted
  BY <1>1 DEF AggregateSolo, AggregateStratum, AggregateCommand
<1>3. ConsumeRecord(v, record) = [w EXCEPT !.runs = RunAfter(v.runs, record)]
  BY <1>1 DEF ConsumeRecord
<1>4. PICK runs : runs = RunAfter(v.runs, record)
  OBVIOUS
<1>5. PICK after : after = [w EXCEPT !.runs = runs]
  OBVIOUS
<1>6. after.runs = runs /\ after.accepted = w.accepted /\ DOMAIN after = DOMAIN w
  BY <1>2, <1>5
<1> QED
  BY <1>2, <1>3, <1>4, <1>5, <1>6
-------------------------------------------------------------------------------
(* What the strict summary knows of the runs.                               *)

Summary == Summarize(Log)

\* The summary is about to read what the running command writes next.
Current(of) ==
    /\ of.next = sink.sequence /\ of.command = command
    /\ MayReport <=> of.terminal = "none"

Sound ==
    /\ {"accepted", "runs"} \subseteq DOMAIN Summary /\ Summary.accepted
    /\ DOMAIN Summary.runs \subseteq 1 .. sink.run
    /\ \A r \in DOMAIN Summary.runs :
          /\ Summary.runs[r].terminal \in TerminalEvents \cup {"none"}
          /\ r \in Returned => Summary.runs[r].terminal # "none"
    /\ pc = "start" => sink.sequence = 1 /\ sink.run \notin DOMAIN Summary.runs
    /\ pc # "idle" /\ sink.streams = {} => sink.run \notin DOMAIN Summary.runs
    /\ pc \notin {"idle", "start"} /\ sink.streams # {} =>
          sink.run \in DOMAIN Summary.runs /\ Current(Summary.runs[sink.run])

SummaryInv == rotations = 0 /\ OnlyKills => Sound

\* A record that comes where the code writes it is accepted.
LEMMA RecordSound ==
    ASSUME BaseInv, FilesInv, WholeLines, Sound, rotations = 0,
           pc # "idle", pc' \notin {"idle", "start"}, UNCHANGED <<ended, command>>,
           NEW event, NEW value, WrittenAs(event, value), MayReport,
           event = "command_started" <=> pc = "start",
           event = "command_started" => value = command,
           event \in {"solo_block_proposal_completed", "solo_block_submission_completed"} =>
               command # "solo-hash",
           MayReport' <=> event \notin TerminalEvents
    PROVE  Sound'
<1> DEFINE record == Record(event, value)
<1>1. /\ record.run = sink.run /\ record.sequence = sink.sequence
      /\ record.event = event /\ record.value = value
  BY DEF Record
<1> HIDE DEF record
<1>2. SinkTyped /\ Runs
  BY DEF BaseInv
<1>3. sink' = [sink EXCEPT !.sequence = @ + 1]
  BY DEF WrittenAs, Emit
<1>4. /\ sink'.run = sink.run /\ sink'.streams = sink.streams
      /\ sink'.sequence = sink.sequence + 1
  BY <1>2, <1>3 DEF SinkTyped
<1>5. Returned' = Returned /\ sink.run \notin Returned /\ sink.run \in 1 .. sink.run
  BY <1>2 DEF Returned, Runs
<1>6. CASE sink.streams = {}
  <2>1. Summary' = Summary
    BY <1>6, LineWritten DEF Summary
  <2> QED
    BY <1>4, <1>5, <1>6, <2>1 DEF Sound
<1>7. CASE sink.streams # {}
  <2>1. IsSeq(Log) /\ EndsWhole(Log) /\ held["log"] = <<>>
    BY DEF FilesInv, StreamInv, Streams, Log, WholeLines, EndsWhole
  <2>2. Log' = Log \o Halves(record)
    <3>1. Log' = Log \o (held["log"] \o Halves(record))
      BY <1>7, LineWritten DEF record
    <3>2. IsSeq(Halves(record))
      BY HalvesOf
    <3>3. <<>> \o Halves(record) = Halves(record)
      BY <3>2, SeqAssociative
    <3> QED
      BY <2>1, <3>1, <3>3
  <2>3. Summary' = ConsumeRecord(Summary, record)
    BY <2>1, <2>2, SummaryJoin DEF Summary, Sound
  <2>4. RunAccepts(Summary.runs, record)
    BY <1>1, <1>7 DEF RunAccepts, Sound, Current
  <2>5. SoloAccepts(Summary.runs, record)
    BY <1>1, <1>7 DEF SoloAccepts, Sound, Current
  <2>6. /\ {"accepted", "runs"} \subseteq DOMAIN Summary' /\ Summary'.accepted
        /\ Summary'.runs = RunAfter(Summary.runs, record)
    BY <2>3, <2>4, <2>5, RecordEnters DEF Sound
  <2>7. /\ DOMAIN Summary'.runs = DOMAIN Summary.runs \cup {sink.run}
        /\ \A r \in DOMAIN Summary.runs \ {sink.run} : Summary'.runs[r] = Summary.runs[r]
        /\ Summary'.runs[sink.run] =
              [next |-> sink.sequence + 1,
               command |-> IF sink.run \in DOMAIN Summary.runs
                           THEN Summary.runs[sink.run].command ELSE value,
               terminal |-> IF event \in TerminalEvents THEN event ELSE "none"]
    BY <1>1, <2>6 DEF RunAfter
  <2>8. Current(Summary.runs[sink.run])'
    BY <1>4, <1>7, <2>7 DEF Current, Sound, TerminalEvents
  <2>9. \A r \in DOMAIN Summary'.runs :
          /\ Summary'.runs[r].terminal \in TerminalEvents \cup {"none"}
          /\ r \in Returned => Summary'.runs[r].terminal # "none"
    BY <1>5, <2>7 DEF Sound
  <2>10. DOMAIN Summary'.runs \subseteq 1 .. sink.run
    BY <1>5, <2>7 DEF Sound
  <2> QED
    BY <1>4, <1>5, <1>7, <2>6, <2>7, <2>8, <2>9, <2>10 DEF Sound
<1> QED
  BY <1>6, <1>7

LEMMA SoundRunning ==
    ASSUME BaseInv, FilesInv, WholeInv, SummaryInv, Running, rotations = 0, OnlyKills'
    PROVE  Sound'
<1>1. faults \in Nat
  BY FaultsNat
<1>2. /\ Effect /\ Opening /\ Underway /\ SameSink
  BY RunningSink DEF Running, CommandStep, FrameStep, BaseInv
<1>3. /\ pc # "idle" /\ pc' \notin {"idle", "start"} /\ UNCHANGED <<ended, command>>
  BY <1>2 DEF Underway
<1>4. OnlyKills /\ faults' = faults
  BY <1>2, <1>3, OnlyKillsBefore DEF SameSink
<1>5. Sound /\ WholeLines
  BY <1>4 DEF SummaryInv, WholeInv
<1>6. CASE pc = "start"
  <2>1. MayReport
    BY <1>6 DEF MayReport, Preparing
  <2>2. WrittenAs("command_started", command) /\ MayReport'
    BY <1>1, <1>2, <1>4, <1>6 DEF Opening
  <2> QED
    BY <1>3, <1>5, <1>6, <2>1, <2>2, RecordSound DEF TerminalEvents
<1>7. CASE pc # "start"
  <2>1. CASE Silent
    <3>1. (MayReport' <=> MayReport) /\ LogQuiet
      BY <2>1 DEF Silent
    <3>2. Summary' = Summary /\ sink' = sink /\ Returned' = Returned
      BY <1>3, <3>1 DEF LogQuiet, Summary, Log, Returned
    <3> QED
      BY <1>3, <1>5, <1>7, <3>1, <3>2 DEF Sound, Current
  <2>2. CASE \E event : Noted(event) /\ Notes(event)
    <3>1. PICK event : Noted(event) /\ Notes(event)
      BY <2>2
    <3>2. Wrote(event) /\ MayReport' /\ MayReport
      BY <1>1, <1>4, <3>1 DEF Notes, Failed
    <3>3. PICK value : WrittenAs(event, value)
      BY <3>2 DEF Wrote, Written
    <3>4. event \notin TerminalEvents /\ event # "command_started"
      BY <1>7, <3>1 DEF Noted
    <3>5. event \in {"solo_block_proposal_completed", "solo_block_submission_completed"} =>
              command # "solo-hash"
      BY <3>1 DEF Noted
    <3> QED
      BY <1>3, <1>5, <1>7, <3>2, <3>3, <3>4, <3>5, RecordSound
  <2>3. ASSUME NEW event \in TerminalEvents, Written(event), MayReport, ~MayReport'
        PROVE  Sound'
    <3>1. PICK value : WrittenAs(event, value)
      BY <2>3 DEF Written
    <3>2. event \in {"command_completed", "command_failed"}
      BY <2>3 DEF TerminalEvents
    <3> QED
      BY <1>3, <1>5, <1>7, <2>3, <3>1, <3>2, RecordSound
  <2>4. CASE ReportsFailure
    BY <1>1, <1>4, <2>3, <2>4 DEF ReportsFailure, Wrote, Failed, TerminalEvents
  <2>5. CASE ReportsCompletion
    BY <1>1, <1>4, <2>3, <2>5 DEF ReportsCompletion, Written, Failed, TerminalEvents
  <2> QED
    BY <1>2, <2>1, <2>2, <2>4, <2>5 DEF Effect
<1> QED
  BY <1>6, <1>7

\* The summary of the whole log stays sound, whatever anybody does.
LEMMA SummaryStep ==
    ASSUME BaseInv, FilesInv, WholeInv, SummaryInv, [Next]_vars
    PROVE  SummaryInv'
<1> SUFFICES ASSUME rotations' = 0, OnlyKills'
             PROVE  Sound'
  BY DEF SummaryInv
<1>1. faults \in Nat /\ Runs /\ SinkTyped
  BY FaultsNat DEF BaseInv
<1>2. CASE Running
  BY <1>2, SoundRunning DEF Running
<1>3. CASE Begins
  <2>1. /\ rotations = 0 /\ Log' = Log /\ pc' \in {"start", "idle"} /\ ended' = ended
        /\ faults' \in {faults, faults + 1}
    BY <1>3 DEF Begins, BeginCommand, Begin, OpenSink, OpenSinkFails, Fault, Log
  <2>2. OnlyKills /\ faults' = faults /\ Sound
    BY <2>1, OnlyKillsBefore DEF SummaryInv
  <2>3. PICK streams : OpenSink(streams) /\ pc' = "start"
    BY <1>1, <1>3, <2>2 DEF Begins, BeginCommand, Begin, OpenSinkFails, Fault
  <2>4. sink'.run = sink.run + 1 /\ sink'.sequence = 1
    BY <2>3 DEF OpenSink
  <2>5. Summary' = Summary /\ Returned' = Returned
    BY <2>1 DEF Summary, Returned
  <2>6. 1 .. sink.run \subseteq 1 .. sink'.run /\ sink'.run \notin 1 .. sink.run
    BY <1>1, <2>4 DEF Runs
  <2> QED
    BY <2>2, <2>3, <2>4, <2>5, <2>6 DEF Sound
<1>4. CASE Closes
  <2>1. /\ rotations = 0 /\ pc = "close" /\ pc' = "idle"
    BY <1>4 DEF Closes, Close, End
  <2>2. CloseSink /\ OnlyKills /\ Log' = Log
    BY <1>4, <2>1, ClosesQuietly
  <2>3. Sound /\ Summary' = Summary /\ ~MayReport
    BY <2>1, <2>2 DEF SummaryInv, Summary, MayReport, Preparing, Cleaning
  <2>4. sink'.run = sink.run
    BY <1>1, <2>2 DEF CloseSink, SinkTyped
  <2>5. Returned' \subseteq Returned \cup {sink.run}
    BY <1>4 DEF Returned, Closes, Close, End
  <2>6. sink.run \in DOMAIN Summary.runs => Summary.runs[sink.run].terminal # "none"
    BY <2>1, <2>3 DEF Sound, Current
  <2> QED
    BY <2>1, <2>3, <2>4, <2>5, <2>6 DEF Sound
<1>5. CASE Dies
  <2>1. /\ rotations = 0 /\ pc # "idle" /\ pc' = "idle" /\ faults' = faults + 1
        /\ End("killed") /\ Log' = Log /\ sink' = [sink EXCEPT !.state = "closed"]
    BY <1>5 DEF Dies, Killed, Kill, End, Fault, SinkLost, Log
  <2>2. Kills \in Nat /\ Kills' = Kills + 1
    BY <1>1, <2>1, KilledEnds
  <2>3. OnlyKills
    BY <1>1, <2>1, <2>2, KillsSame
  <2>4. Sound /\ Summary' = Summary /\ sink'.run = sink.run
    BY <1>1, <2>1, <2>3 DEF SummaryInv, Summary, SinkTyped
  <2>5. Returned' \subseteq Returned
    BY <2>1 DEF Returned, End
  <2> QED
    BY <2>1, <2>4, <2>5 DEF Sound
<1>6. CASE Elsewhere
  <2>1. /\ rotations = 0 /\ UNCHANGED <<files, sink, pc, command, status, pending, faults, ended>>
    BY <1>6 DEF Elsewhere, logVars, commandVars, frameVars
  <2>2. OnlyKills /\ Sound
    BY <2>1, OnlyKillsBefore DEF SummaryInv
  <2>3. Summary' = Summary /\ Returned' = Returned /\ (MayReport' <=> MayReport)
    BY <2>1 DEF Summary, Log, Returned, MayReport
  <2> QED
    BY <2>1, <2>2, <2>3 DEF Sound, Current
<1>7. ~Rotates
  BY DEF Rotates, Rotate, Truncate, Replace, FilesInv
<1> QED
  BY <1>2, <1>3, <1>4, <1>5, <1>6, <1>7, StepKinds DEF BaseInv

LEMMA SummaryInit == Init => SummaryInv
<1> SUFFICES ASSUME Init PROVE Sound
  BY DEF SummaryInv
<1>1. Log = <<>> /\ pc = "idle"
  BY DEF Init, LogInit, FrameInit, Log, Streams
<1>2. Summary = EmptySummary
  BY <1>1, SummaryNothing DEF Summary
<1>3. {"accepted", "runs"} \subseteq DOMAIN Summary /\ Summary.accepted
      /\ DOMAIN Summary.runs = {}
  BY <1>2 DEF EmptySummary
<1> QED
  BY <1>1, <1>3 DEF Sound

\* As long as nothing fails but that processes are killed, wherever they are, the
\* strict summary accepts the log at every moment, and no run that came back is
\* among its incomplete ones (summarize_jsonl after any history of commands).
THEOREM SoundLogAlways == Spec => []SoundLogAccepted
<1>1. Init => SummaryInv
  BY SummaryInit
<1>2. IInv /\ SummaryInv /\ [Next]_vars => SummaryInv'
  BY SummaryStep DEF IInv
<1>3. SummaryInv => SoundLogAccepted
  BY DEF SummaryInv, Sound, SoundLogAccepted, Summary, IncompleteRuns, CompletedRuns,
     FailedRuns, RunsEndedBy, TerminalEvents
<1> QED
  BY <1>1, <1>2, <1>3, InvariantAlways, PTL DEF Spec
-------------------------------------------------------------------------------
(* What becomes of the controls a user gives.                               *)

Backends == {"python", "native", "native-parallel", "cuda", "cuda-multi"}

LEMMA LeastOfTwo ==
    ASSUME NEW a \in Nat, NEW b \in Nat
    PROVE  Min({a, b}) \in Nat /\ Min({a, b}) <= a /\ Min({a, b}) <= b
<1>1. \E x \in {a, b} : \A y \in {a, b} : x <= y
  OBVIOUS
<1> QED
  BY <1>1 DEF Min

\* The controls of a resolved profile reach the backend it names.
Reaches(used, p) ==
    /\ DOMAIN used = ControlsOf(p.backend_name) \cup {"chunk_size", "delay", "backend_name"}
    /\ used.backend_name = p.backend_name
    /\ used.chunk_size = p.chunk_size /\ used.delay = p.delay
    /\ \A c \in ControlsOf(p.backend_name) \cap DOMAIN p : used[c] = p[c]

LEMMA ControlsReach ==
    ASSUME NEW s0, NEW p, p.backend_name \in Backends
    PROVE  Reaches(BackendControls(ReplaceSettings(s0, p)), p)
<1> DEFINE s == ReplaceSettings(s0, p)
           used == BackendControls(s)
<1>1. /\ DOMAIN s = {"backend_name", "worker_count", "cuda_device", "cuda_devices",
                     "cuda_threads_per_block", "chunk_size", "delay"}
      /\ s.backend_name = p.backend_name
      /\ s.chunk_size = p.chunk_size /\ s.delay = p.delay
  BY DEF ReplaceSettings
<1>2. \A c \in {"worker_count", "cuda_device", "cuda_devices", "cuda_threads_per_block"} :
         c \in DOMAIN p => s[c] = p[c]
  BY DEF ReplaceSettings, Setting
<1>3. ControlsOf(p.backend_name) \subseteq
         {"worker_count", "cuda_device", "cuda_devices", "cuda_threads_per_block"}
  BY DEF ControlsOf, Backends
<1> HIDE DEF s
<1>4. BackendName(s) = p.backend_name
  BY <1>1 DEF BackendName, Backends
<1>5. PICK taken : taken = ControlsOf(p.backend_name) \cup {"chunk_size", "delay"}
  OBVIOUS
<1>6. used = Layered([c \in taken |-> s[c]], [backend_name |-> p.backend_name])
  <2>1. ControlsOf(BackendName(s)) \cup ({"chunk_size", "delay"} \cap DOMAIN s) = taken
    BY <1>1, <1>4, <1>5
  <2> QED
    BY <1>4, <2>1 DEF BackendControls
<1>7. DOMAIN [c \in taken |-> s[c]] = taken
      /\ DOMAIN [backend_name |-> p.backend_name] = {"backend_name"}
  OBVIOUS
<1>8. "backend_name" \notin taken
  BY <1>3, <1>5
<1>9. /\ DOMAIN used = taken \cup {"backend_name"}
      /\ used.backend_name = p.backend_name
      /\ \A c \in taken : used[c] = s[c]
  BY <1>6, <1>7, <1>8 DEF Layered
<1> HIDE DEF used
<1>10. Reaches(used, p)
  BY <1>1, <1>2, <1>3, <1>5, <1>9 DEF Reaches
<1> QED
  BY <1>10 DEF used, s

\* The devices of a backend, by its name.
LEMMA BackendDevices ==
    ASSUME NEW used, NEW name \in Backends,
           DOMAIN used = ControlsOf(name) \cup {"chunk_size", "delay", "backend_name"}
    PROVE  DevicesOf(used) = CASE name = "cuda" -> {used.cuda_device}
                               [] name = "cuda-multi" -> used.cuda_devices
                               [] OTHER -> {}
<1>1. "cuda_devices" \in DOMAIN used <=> name = "cuda-multi"
  BY DEF ControlsOf, Backends
<1>2. "cuda_device" \in DOMAIN used <=> name = "cuda"
  BY DEF ControlsOf, Backends
<1>3. {used[c] : c \in DOMAIN used \cap {"cuda_device"}}
         = IF name = "cuda" THEN {used.cuda_device} ELSE {}
  BY <1>2
<1>4. Setting(used, "cuda_devices", {})
         = IF name = "cuda-multi" THEN used.cuda_devices ELSE {}
  BY <1>1 DEF Setting
<1> QED
  BY <1>3, <1>4 DEF DevicesOf

\* What the layers say together is what each of them says.
Says(all, layer) ==
    \A c \in DOMAIN layer : c \in DOMAIN all /\ all[c] = layer[c]

OneWay(controls) == ~({"cuda_device", "cuda_devices"} \subseteq DOMAIN controls)

LEMMA DevicesSaid ==
    ASSUME NEW all, NEW layer, OneWay(all), Says(all, layer)
    PROVE  /\ DevicesOf(layer) \subseteq DevicesOf(all)
           /\ DevicesOf(layer) # {} => DevicesOf(all) = DevicesOf(layer)
<1> USE DEF DevicesOf, Setting, OneWay, Says
<1>1. CASE "cuda_device" \in DOMAIN layer
  <2>1. "cuda_devices" \notin DOMAIN layer /\ "cuda_devices" \notin DOMAIN all
        /\ "cuda_device" \in DOMAIN all /\ all["cuda_device"] = layer["cuda_device"]
    BY <1>1
  <2>2. DevicesOf(layer) = {layer["cuda_device"]}
    BY <1>1, <2>1
  <2>3. DevicesOf(all) = {all["cuda_device"]}
    BY <2>1
  <2> QED
    BY <2>1, <2>2, <2>3
<1>2. CASE "cuda_device" \notin DOMAIN layer /\ "cuda_devices" \in DOMAIN layer
  <2>1. "cuda_device" \notin DOMAIN all /\ "cuda_devices" \in DOMAIN all
        /\ all["cuda_devices"] = layer["cuda_devices"]
    BY <1>2
  <2>2. DevicesOf(layer) = layer["cuda_devices"]
    BY <1>2
  <2>3. DevicesOf(all) = all["cuda_devices"]
    BY <2>1
  <2> QED
    BY <2>1, <2>2, <2>3
<1>3. CASE "cuda_device" \notin DOMAIN layer /\ "cuda_devices" \notin DOMAIN layer
  <2>1. DevicesOf(layer) = {}
    BY <1>3
  <2> QED
    BY <2>1
<1> QED
  BY <1>1, <1>2, <1>3

\* A backend that does what all layers say does what each of them says.
LEMMA AgreesLayer ==
    ASSUME NEW used, NEW all, NEW layer, OneWay(all), Says(all, layer), Agrees(used, all)
    PROVE  Agrees(used, layer)
<1>1. DevicesOf(layer) # {} => DevicesOf(used) = DevicesOf(layer)
  BY DevicesSaid DEF Agrees
<1>2. ASSUME NEW c \in DOMAIN layer \ {"cuda_device", "cuda_devices"}
      PROVE  c \in DOMAIN used /\ used[c] = layer[c]
  BY <1>2 DEF Agrees, Says
<1> QED
  BY <1>1, <1>2 DEF Agrees

LEMMA LayersSay ==
    ASSUME NEW cli, NEW env
    PROVE  /\ Says(MergedOver(cli, env), cli)
           /\ Says(MergedOver(cli, env), [c \in DOMAIN env \ DOMAIN cli |-> env[c]])
           /\ DevicesOf(MergedOver(cli, env)) \subseteq
                 DevicesOf(cli) \cup DevicesOf([c \in DOMAIN env \ DOMAIN cli |-> env[c]])
<1>1. PICK all : all = MergedOver(cli, env)
  OBVIOUS
<1>2. PICK rest : rest = [c \in DOMAIN env \ DOMAIN cli |-> env[c]]
  OBVIOUS
<1>3. /\ DOMAIN all = DOMAIN cli \cup DOMAIN env
      /\ \A c \in DOMAIN cli : all[c] = cli[c]
      /\ \A c \in DOMAIN env \ DOMAIN cli : all[c] = env[c]
  BY <1>1 DEF MergedOver, Layered
<1>4. DOMAIN rest = DOMAIN env \ DOMAIN cli /\ \A c \in DOMAIN rest : rest[c] = env[c]
  BY <1>2
<1>5. Says(all, cli) /\ Says(all, rest)
  BY <1>3, <1>4 DEF Says
<1>6. ASSUME NEW d \in DevicesOf(all)
      PROVE  d \in DevicesOf(cli) \cup DevicesOf(rest)
  <2>1. CASE "cuda_device" \in DOMAIN all /\ d = all["cuda_device"]
    <3>1. CASE "cuda_device" \in DOMAIN cli
      BY <1>3, <2>1, <3>1 DEF DevicesOf
    <3>2. CASE "cuda_device" \in DOMAIN rest
      <4>1. all["cuda_device"] = rest["cuda_device"]
        BY <1>5, <3>2 DEF Says
      <4> QED
        BY <2>1, <3>2, <4>1 DEF DevicesOf
    <3> QED
      BY <1>3, <1>4, <2>1, <3>1, <3>2
  <2>2. CASE "cuda_devices" \in DOMAIN all /\ d \in all["cuda_devices"]
    <3>1. CASE "cuda_devices" \in DOMAIN cli
      BY <1>3, <2>2, <3>1 DEF DevicesOf, Setting
    <3>2. CASE "cuda_devices" \in DOMAIN rest
      <4>1. all["cuda_devices"] = rest["cuda_devices"]
        BY <1>5, <3>2 DEF Says
      <4> QED
        BY <2>2, <3>2, <4>1 DEF DevicesOf, Setting
    <3> QED
      BY <1>3, <1>4, <2>2, <3>1, <3>2
  <2> QED
    BY <1>6, <2>1, <2>2 DEF DevicesOf, Setting
<1> QED
  BY <1>1, <1>2, <1>5, <1>6

\* What the property asks of a backend under a profile.
Honours(profile, used, all, machine) ==
    /\ Agrees(used, all)
    /\ DevicesOf(used) \subseteq DevicesOf(all) \cup {0}
    /\ DevicesOf(used) \subseteq machine.devices
    /\ profile = "auto" => Setting(used, "worker_count", 1) <= 8
    /\ profile \in {"auto", "max"} =>
          Setting(used, "worker_count", 1) \in 0 .. machine.cpus \cup {1}
    /\ profile = "lite" =>
          used.backend_name \notin {"native-parallel", "cuda-multi"} /\ used.delay > 0

\* A preset keeps the backend it was made for.
LEMMA PresetKeeps ==
    ASSUME NEW profile, NEW b, DOMAIN b \cap {"chunk_size", "delay"} = {}
    PROVE  /\ \A c \in DOMAIN b : c \in DOMAIN Preset(profile, b) /\ Preset(profile, b)[c] = b[c]
           /\ profile = "lite" => Preset(profile, b).delay = 50
<1> DEFINE pace == [chunk_size |-> PresetChunk(profile, b.backend_name),
                    delay |-> PresetDelay(profile, b.backend_name)]
<1>1. Preset(profile, b) = Layered(b, pace)
  BY DEF Preset
<1>2. /\ DOMAIN pace = {"chunk_size", "delay"}
      /\ profile = "lite" => pace.delay = 50
  BY DEF PresetDelay
<1> HIDE DEF pace
<1> QED
  BY <1>1, <1>2 DEF Layered

LEMMA LiteShape ==
    ASSUME NEW machine, NEW b \in ResolveLite(machine)
    PROVE  \/ b = [backend_name |-> "python"] \/ b = [backend_name |-> "native"]
           \/ b = Cuda(0) /\ 0 \in machine.devices
  BY DEF ResolveLite, CudaAvailable

\* The automatic presets take the devices that are named, or the first.
LEMMA AutomaticCases ==
    ASSUME NEW profile, NEW all, NEW machine
    PROVE  LET devices == Setting(all, "cuda_devices", {})
           IN  /\ Cardinality(devices) = 1 =>
                    ResolveAutomatic(profile, all, machine) =
                      RequireCuda(CHOOSE d \in devices : TRUE, machine)
               /\ Cardinality(devices) > 1 =>
                    ResolveAutomatic(profile, all, machine) =
                      IF CudaAvailable(machine, devices) THEN {CudaMulti(devices)} ELSE {}
               /\ Cardinality(devices) = 0 /\ devices = {} /\ "cuda_device" \in DOMAIN all =>
                    ResolveAutomatic(profile, all, machine) = RequireCuda(all.cuda_device, machine)
               /\ Cardinality(devices) = 0 /\ devices = {} /\ "cuda_device" \notin DOMAIN all =>
                    ResolveAutomatic(profile, all, machine) = ResolveUnnamed(profile, machine)
<1> DEFINE devices == Setting(all, "cuda_devices", {})
           first == RequireCuda(CHOOSE d \in devices : TRUE, machine)
           several == IF CudaAvailable(machine, devices) THEN {CudaMulti(devices)} ELSE {}
           named == RequireCuda(all.cuda_device, machine)
           unnamed == ResolveUnnamed(profile, machine)
           count == Cardinality(devices)
<1>0. ResolveAutomatic(profile, all, machine) =
        CASE count = 1 -> first
          [] count > 1 -> several
          [] devices = {} /\ "cuda_device" \in DOMAIN all -> named
          [] devices = {} /\ "cuda_device" \notin DOMAIN all -> unnamed
  BY Zenon DEF ResolveAutomatic
<1>1. devices = {} => count = 0
  BY FS_EmptySet
<1> HIDE DEF devices, first, several, named, unnamed, count
<1>2. count = 1 => ResolveAutomatic(profile, all, machine) = first
  BY <1>0, <1>1
<1>3. count > 1 => ResolveAutomatic(profile, all, machine) = several
  BY <1>0, <1>1
<1>4. devices = {} /\ "cuda_device" \in DOMAIN all =>
         ResolveAutomatic(profile, all, machine) = named
  BY <1>0, <1>1
<1>5. devices = {} /\ "cuda_device" \notin DOMAIN all =>
         ResolveAutomatic(profile, all, machine) = unnamed
  BY <1>0, <1>1
<1> QED
  BY <1>2, <1>3, <1>4, <1>5 DEF devices, first, several, named, unnamed, count

LEMMA AutomaticShape ==
    ASSUME NEW profile \in {"auto", "max"}, NEW all, NEW machine, OneWay(all),
           IsFiniteSet(Setting(all, "cuda_devices", {})), machine.cpus \in Nat,
           NEW b \in ResolveAutomatic(profile, all, machine)
    PROVE  \/ \E d \in machine.devices : b = Cuda(d) /\ DevicesOf(all) = {d}
           \/ b = Cuda(0) /\ 0 \in machine.devices /\ DevicesOf(all) = {}
           \/ b = CudaMulti(DevicesOf(all)) /\ DevicesOf(all) \subseteq machine.devices
           \/ b \in {[backend_name |-> "python"], [backend_name |-> "native"]}
                 /\ DevicesOf(all) = {}
           \/ /\ b = [backend_name |-> "native-parallel",
                       worker_count |-> Workers(profile, machine)]
              /\ CpuCount(machine) >= 2 /\ DevicesOf(all) = {}
<1> DEFINE devices == Setting(all, "cuda_devices", {})
<1>0. /\ Cardinality(devices) = 1 =>
            ResolveAutomatic(profile, all, machine) =
              RequireCuda(CHOOSE d \in devices : TRUE, machine)
      /\ Cardinality(devices) > 1 =>
            ResolveAutomatic(profile, all, machine) =
              IF CudaAvailable(machine, devices) THEN {CudaMulti(devices)} ELSE {}
      /\ Cardinality(devices) = 0 /\ devices = {} /\ "cuda_device" \in DOMAIN all =>
            ResolveAutomatic(profile, all, machine) = RequireCuda(all.cuda_device, machine)
      /\ Cardinality(devices) = 0 /\ devices = {} /\ "cuda_device" \notin DOMAIN all =>
            ResolveAutomatic(profile, all, machine) = ResolveUnnamed(profile, machine)
  BY AutomaticCases
<1> HIDE DEF devices
<1>1. CASE devices = {} /\ "cuda_device" \in DOMAIN all
  <2>1. Cardinality(devices) = 0
    BY <1>1, FS_EmptySet
  <2>2. DevicesOf(all) = {all.cuda_device}
    BY <1>1 DEF DevicesOf, devices
  <2>3. b = Cuda(all.cuda_device) /\ all.cuda_device \in machine.devices
    BY <1>0, <1>1, <2>1 DEF RequireCuda, CudaAvailable
  <2> QED
    BY <2>2, <2>3
<1>2. CASE devices = {} /\ "cuda_device" \notin DOMAIN all
  <2>1. Cardinality(devices) = 0
    BY <1>2, FS_EmptySet
  <2>2. DevicesOf(all) = {}
    BY <1>2 DEF DevicesOf, devices
  <2>3. b \in ResolveUnnamed(profile, machine)
    BY <1>0, <1>2, <2>1
  <2> QED
    BY <2>2, <2>3 DEF ResolveUnnamed, CudaAvailable
<1>3. CASE devices # {}
  <2>1. "cuda_device" \notin DOMAIN all
    BY <1>3 DEF OneWay, Setting, devices
  <2>2. DevicesOf(all) = devices
    BY <2>1 DEF DevicesOf, devices
  <2>3. CASE Cardinality(devices) = 1
    <3>1. PICK d : devices = {d}
      BY <2>3, FS_Singleton DEF devices
    <3>2. (CHOOSE e \in devices : TRUE) = d
      BY <3>1
    <3>3. b = Cuda(d) /\ d \in machine.devices
      BY <1>0, <2>3, <3>2 DEF RequireCuda, CudaAvailable
    <3> QED
      BY <2>2, <3>1, <3>3
  <2>4. CASE Cardinality(devices) > 1
    BY <1>0, <2>2, <2>4 DEF CudaAvailable
  <2>5. Cardinality(devices) \in Nat /\ Cardinality(devices) # 0
    BY <1>3, FS_CardinalityType, FS_EmptySet DEF devices
  <2> QED
    BY <2>3, <2>4, <2>5
<1> QED
  BY <1>1, <1>2, <1>3

\* What the backend of a preset uses.
Uses(used, profile, b) ==
    /\ DOMAIN used = ControlsOf(b.backend_name) \cup {"chunk_size", "delay", "backend_name"}
    /\ used.backend_name = b.backend_name
    /\ \A c \in ControlsOf(b.backend_name) \cap DOMAIN b : used[c] = b[c]
    /\ profile = "lite" => used.delay = 50

LEMMA PresetUsed ==
    ASSUME NEW s0, NEW profile, NEW b, b.backend_name \in Backends, "backend_name" \in DOMAIN b,
           DOMAIN b \cap {"chunk_size", "delay"} = {}
    PROVE  Uses(BackendControls(ReplaceSettings(s0, Preset(profile, b))), profile, b)
<1>1. PICK p : p = Preset(profile, b)
  OBVIOUS
<1>2. /\ \A c \in DOMAIN b : c \in DOMAIN p /\ p[c] = b[c]
      /\ profile = "lite" => p.delay = 50
  BY <1>1, PresetKeeps
<1>3. p.backend_name = b.backend_name
  BY <1>2
<1>4. Reaches(BackendControls(ReplaceSettings(s0, p)), p)
  BY <1>3, ControlsReach
<1>5. PICK used : used = BackendControls(ReplaceSettings(s0, p))
  OBVIOUS
<1>6. Uses(used, profile, b)
  BY <1>2, <1>3, <1>4, <1>5 DEF Reaches, Uses
<1> QED
  BY <1>1, <1>5, <1>6

LEMMA WorkersBounded ==
    ASSUME NEW profile \in {"auto", "max"}, NEW machine, machine.cpus \in Nat,
           CpuCount(machine) >= 2
    PROVE  /\ Workers(profile, machine) \in 0 .. machine.cpus
           /\ profile = "auto" => Workers(profile, machine) <= 8
<1>1. machine.cpus # 0 /\ CpuCount(machine) = Min({machine.cpus, 256})
  BY DEF CpuCount
<1>2. CpuCount(machine) \in Nat /\ CpuCount(machine) <= machine.cpus
  BY <1>1, LeastOfTwo
<1>3. CASE profile = "auto"
  <2>1. CpuCount(machine) \div 2 \in Nat /\ CpuCount(machine) \div 2 <= CpuCount(machine)
    BY <1>2
  <2>2. Workers(profile, machine) = Min({CpuCount(machine) \div 2, 8})
    BY <1>3 DEF Workers
  <2>3. PICK half \in Nat : half = CpuCount(machine) \div 2
    BY <2>1
  <2>4. Min({half, 8}) \in Nat /\ Min({half, 8}) <= half /\ Min({half, 8}) <= 8
    BY LeastOfTwo
  <2> QED
    BY <1>2, <2>1, <2>2, <2>3, <2>4
<1>4. CASE profile = "max"
  <2>1. Workers(profile, machine) = Min({CpuCount(machine), 32})
    BY <1>4 DEF Workers
  <2>2. PICK count \in Nat : count = CpuCount(machine)
    BY <1>2
  <2>3. Min({count, 32}) \in Nat /\ Min({count, 32}) <= count
    BY LeastOfTwo
  <2> QED
    BY <1>2, <1>4, <2>1, <2>2, <2>3
<1> QED
  BY <1>3, <1>4

LEMMA AutomaticHonours ==
    ASSUME NEW s0, NEW profile \in {"auto", "max"}, NEW all, NEW machine,
           DOMAIN all \subseteq {"cuda_device", "cuda_devices"}, OneWay(all),
           IsFiniteSet(Setting(all, "cuda_devices", {})), machine.cpus \in Nat,
           NEW b \in ResolveAutomatic(profile, all, machine)
    PROVE  Honours(profile, BackendControls(ReplaceSettings(s0, Preset(profile, b))), all, machine)
<1>1. PICK used : used = BackendControls(ReplaceSettings(s0, Preset(profile, b)))
  OBVIOUS
<1>2. /\ b.backend_name \in Backends /\ "backend_name" \in DOMAIN b
      /\ DOMAIN b \cap {"chunk_size", "delay"} = {}
  BY AutomaticShape DEF Cuda, CudaMulti, Backends
<1>3. /\ DOMAIN used = ControlsOf(b.backend_name) \cup {"chunk_size", "delay", "backend_name"}
      /\ \A c \in ControlsOf(b.backend_name) \cap DOMAIN b : used[c] = b[c]
  <2>1. Uses(used, profile, b)
    BY <1>1, <1>2, PresetUsed
  <2> QED
    BY <2>1 DEF Uses
<1>4. DevicesOf(used) = CASE b.backend_name = "cuda" -> {used.cuda_device}
                          [] b.backend_name = "cuda-multi" -> used.cuda_devices
                          [] OTHER -> {}
  BY <1>2, <1>3, BackendDevices
<1>5. b.backend_name # "native-parallel" => "worker_count" \notin DOMAIN used
  BY <1>2, <1>3 DEF ControlsOf, Backends
<1>6. SUFFICES Honours(profile, used, all, machine)
  BY <1>1
<1>7. /\ DevicesOf(all) # {} => DevicesOf(used) = DevicesOf(all)
      /\ DevicesOf(used) \subseteq DevicesOf(all) \cup {0}
      /\ DevicesOf(used) \subseteq machine.devices
      /\ b.backend_name = "native-parallel" =>
            Setting(used, "worker_count", 1) = Workers(profile, machine)
              /\ CpuCount(machine) >= 2
  <2>1. ASSUME NEW d, b = Cuda(d)
        PROVE  DevicesOf(used) = {d} /\ b.backend_name = "cuda"
    BY <1>3, <1>4, <2>1 DEF Cuda, ControlsOf
  <2>2. ASSUME NEW devices, b = CudaMulti(devices)
        PROVE  DevicesOf(used) = devices /\ b.backend_name = "cuda-multi"
    BY <1>3, <1>4, <2>2 DEF CudaMulti, ControlsOf
  <2>3. ASSUME b \in {[backend_name |-> "python"], [backend_name |-> "native"]}
        PROVE  DevicesOf(used) = {} /\ b.backend_name # "native-parallel"
    BY <1>4, <2>3
  <2>4. ASSUME NEW workers, b = [backend_name |-> "native-parallel", worker_count |-> workers]
        PROVE  DevicesOf(used) = {} /\ Setting(used, "worker_count", 1) = workers
    BY <1>3, <1>4, <2>4 DEF ControlsOf, Setting
  <2> QED
    BY <2>1, <2>2, <2>3, <2>4, AutomaticShape
<1>8. /\ profile = "auto" => Setting(used, "worker_count", 1) <= 8
      /\ Setting(used, "worker_count", 1) \in 0 .. machine.cpus \cup {1}
  <2>1. CASE b.backend_name = "native-parallel"
    BY <1>7, <2>1, WorkersBounded
  <2>2. CASE b.backend_name # "native-parallel"
    BY <1>5, <2>2 DEF Setting
  <2> QED
    BY <2>1, <2>2
<1>9. Agrees(used, all)
  BY <1>7 DEF Agrees
<1> QED
  BY <1>7, <1>8, <1>9 DEF Honours

LEMMA LiteHonours ==
    ASSUME NEW s0, NEW all, NEW machine, DOMAIN all = {}, NEW b \in ResolveLite(machine)
    PROVE  Honours("lite", BackendControls(ReplaceSettings(s0, Preset("lite", b))), all, machine)
<1>1. PICK used : used = BackendControls(ReplaceSettings(s0, Preset("lite", b)))
  OBVIOUS
<1>2. /\ b.backend_name \in {"python", "native", "cuda"} /\ "backend_name" \in DOMAIN b
      /\ DOMAIN b \cap {"chunk_size", "delay"} = {}
  BY LiteShape DEF Cuda
<1>3. /\ DOMAIN used = ControlsOf(b.backend_name) \cup {"chunk_size", "delay", "backend_name"}
      /\ used.backend_name = b.backend_name /\ used.delay = 50
      /\ \A c \in ControlsOf(b.backend_name) \cap DOMAIN b : used[c] = b[c]
  <2>1. b.backend_name \in Backends
    BY <1>2 DEF Backends
  <2>2. Uses(used, "lite", b)
    BY <1>1, <1>2, <2>1, PresetUsed
  <2> QED
    BY <2>2 DEF Uses
<1>4. DevicesOf(used) = CASE b.backend_name = "cuda" -> {used.cuda_device}
                          [] b.backend_name = "cuda-multi" -> used.cuda_devices
                          [] OTHER -> {}
  BY <1>2, <1>3, BackendDevices DEF Backends
<1>5. DevicesOf(used) \subseteq {0} \cap machine.devices
  <2>1. CASE b = Cuda(0) /\ 0 \in machine.devices
    BY <1>3, <1>4, <2>1 DEF Cuda, ControlsOf
  <2>2. CASE b \in {[backend_name |-> "python"], [backend_name |-> "native"]}
    BY <1>4, <2>2
  <2> QED
    BY <2>1, <2>2, LiteShape
<1>6. DevicesOf(all) = {}
  BY DEF DevicesOf, Setting
<1>7. Agrees(used, all)
  BY <1>6 DEF Agrees
<1> QED
  BY <1>1, <1>2, <1>3, <1>5, <1>6, <1>7 DEF Honours

\* A whole configuration is used as it is given.
LEMMA CustomHonours ==
    ASSUME NEW s0, NEW all, NEW machine, OneWay(all), NEW p \in ResolveCustom(all, machine)
    PROVE  Honours("custom", BackendControls(ReplaceSettings(s0, p)), all, machine)
<1> DEFINE name == Setting(all, "backend_name", "none")
<1>1. /\ name \in Backends
      /\ ControlsOf(name) \cup {"chunk_size"} \subseteq DOMAIN all
      /\ DOMAIN all \subseteq ControlsOf(name) \cup {"backend_name", "chunk_size", "delay"}
      /\ name = "cuda" => {all.cuda_device} \subseteq machine.devices
      /\ name = "cuda-multi" => all.cuda_devices \subseteq machine.devices
      /\ p = Layered(all, [delay |-> 0])
  BY DEF ResolveCustom, Backends, CudaAvailable
<1>2. "backend_name" \in DOMAIN all /\ name = all.backend_name
  BY <1>1 DEF Setting, Backends
<1>3. /\ DOMAIN p = DOMAIN all \cup {"delay"}
      /\ \A c \in DOMAIN all : p[c] = all[c]
  BY <1>1 DEF Layered
<1> HIDE DEF name
<1>4. p.backend_name = name
  BY <1>2, <1>3
<1>5. PICK used : used = BackendControls(ReplaceSettings(s0, p))
  OBVIOUS
<1>6. Reaches(used, p)
  BY <1>1, <1>4, <1>5, ControlsReach
<1>7. /\ DOMAIN used = ControlsOf(name) \cup {"chunk_size", "delay", "backend_name"}
      /\ \A c \in DOMAIN used \cap DOMAIN all : used[c] = all[c]
  BY <1>1, <1>2, <1>3, <1>4, <1>6 DEF Reaches
<1>8. DevicesOf(used) = CASE name = "cuda" -> {used.cuda_device}
                          [] name = "cuda-multi" -> used.cuda_devices
                          [] OTHER -> {}
  BY <1>1, <1>7, BackendDevices
<1>9. DOMAIN all \subseteq DOMAIN used
  BY <1>1, <1>7
<1>10. Says(used, all)
  BY <1>7, <1>9 DEF Says
<1>11. OneWay(used)
  BY <1>1, <1>7 DEF OneWay, ControlsOf, Backends
<1>12. DevicesOf(used) = DevicesOf(all)
  <2>1. DevicesOf(all) \subseteq DevicesOf(used)
    BY <1>10, <1>11, DevicesSaid
  <2>2. CASE name = "cuda"
    <3>1. "cuda_device" \in DOMAIN all /\ used["cuda_device"] = all["cuda_device"]
      BY <1>1, <1>7, <1>9, <2>2 DEF ControlsOf
    <3> QED
      BY <1>8, <2>1, <2>2, <3>1 DEF DevicesOf
  <2>3. CASE name = "cuda-multi"
    <3>1. "cuda_devices" \in DOMAIN all /\ used["cuda_devices"] = all["cuda_devices"]
      BY <1>1, <1>7, <1>9, <2>3 DEF ControlsOf
    <3> QED
      BY <1>8, <2>1, <2>3, <3>1 DEF DevicesOf, Setting
  <2>4. CASE name \notin {"cuda", "cuda-multi"}
    BY <1>8, <2>1, <2>4
  <2> QED
    BY <2>2, <2>3, <2>4
<1>13. DevicesOf(used) \subseteq machine.devices
  <2>1. name = "cuda" => used.cuda_device = all.cuda_device
    BY <1>1, <1>7, <1>9 DEF ControlsOf
  <2>2. name = "cuda-multi" => used.cuda_devices = all.cuda_devices
    BY <1>1, <1>7, <1>9 DEF ControlsOf
  <2> QED
    BY <1>1, <1>8, <2>1, <2>2
<1>14. Agrees(used, all)
  BY <1>9, <1>10, <1>12 DEF Agrees, Says
<1> QED
  BY <1>5, <1>12, <1>13, <1>14 DEF Honours

LEMMA LayerFinite ==
    ASSUME NEW cli, NEW env, IsFiniteSet(Setting(cli, "cuda_devices", {})),
           IsFiniteSet(Setting(env, "cuda_devices", {}))
    PROVE  IsFiniteSet(Setting(MergedOver(cli, env), "cuda_devices", {}))
<1>1. Setting(MergedOver(cli, env), "cuda_devices", {})
        \in {Setting(cli, "cuda_devices", {}), Setting(env, "cuda_devices", {})}
  BY DEF Setting, MergedOver, Layered
<1> QED
  BY <1>1

\* Whatever the profile, what it resolves to does what the user says.
LEMMA ResolvedHonours ==
    ASSUME NEW s0, NEW profile \in Profiles, NEW all, NEW machine, machine.cpus \in Nat,
           IsFiniteSet(Setting(all, "cuda_devices", {})),
           NEW p \in ResolveComputeProfile(profile, all, machine)
    PROVE  /\ OneWay(all)
           /\ Honours(profile, BackendControls(ReplaceSettings(s0, p)), all, machine)
<1>1. ~ProfileConflict(profile, all)
  BY DEF ResolveComputeProfile
<1>2. /\ OneWay(all)
      /\ profile = "lite" => DOMAIN all = {}
      /\ profile \in {"auto", "max"} => DOMAIN all \subseteq {"cuda_device", "cuda_devices"}
  BY <1>1 DEF ProfileConflict, OneWay
<1>3. CASE profile = "lite"
  <2>1. PICK b \in ResolveLite(machine) : p = Preset("lite", b)
    BY <1>1, <1>3 DEF ResolveComputeProfile
  <2> QED
    BY <1>2, <1>3, <2>1, LiteHonours
<1>4. CASE profile \in {"auto", "max"}
  <2>1. PICK b \in ResolveAutomatic(profile, all, machine) : p = Preset(profile, b)
    BY <1>1, <1>4 DEF ResolveComputeProfile
  <2> QED
    BY <1>2, <1>4, <2>1, AutomaticHonours
<1>5. CASE profile = "custom"
  <2>1. p \in ResolveCustom(all, machine)
    BY <1>1, <1>5 DEF ResolveComputeProfile
  <2> QED
    BY <1>2, <1>5, <2>1, CustomHonours
<1> QED
  BY <1>3, <1>4, <1>5 DEF Profiles

\* Without a profile, the backend is the one the environment names.
LEMMA EnvironmentNames ==
    ASSUME NEW env, NEW settings \in SettingsFromEnv(env)
    PROVE  LET named == Setting(env, "backend_name", "auto")
           IN  BackendControls(settings).backend_name =
                 IF named \in {"auto", "cpu"} THEN "python" ELSE named
<1>1. settings.backend_name = Setting(env, "backend_name", "auto")
      /\ DOMAIN settings = {"backend_name", "worker_count", "cuda_device", "cuda_devices",
                            "cuda_threads_per_block"}
  BY DEF SettingsFromEnv
<1>2. PICK name : name = BackendName(settings)
  OBVIOUS
<1>3. name = IF Setting(env, "backend_name", "auto") \in {"auto", "cpu"} THEN "python"
             ELSE Setting(env, "backend_name", "auto")
  BY <1>1, <1>2 DEF BackendName
<1>4. PICK taken : taken = ControlsOf(name)
  OBVIOUS
<1>5. BackendControls(settings) = Layered([c \in taken |-> settings[c]], [backend_name |-> name])
  <2>1. ControlsOf(BackendName(settings)) \cup ({"chunk_size", "delay"} \cap DOMAIN settings) = taken
    BY <1>1, <1>2, <1>4
  <2> QED
    BY <1>2, <2>1 DEF BackendControls
<1>6. ASSUME name = "python" PROVE BackendControls(settings).backend_name = name
  <2>1. taken = {}
    BY <1>4, <1>6 DEF ControlsOf
  <2> QED
    BY <1>5, <2>1 DEF Layered
<1>7. ASSUME name # "python" PROVE BackendControls(settings).backend_name = name
  <2>1. settings["backend_name"] = name
    BY <1>1, <1>3, <1>7
  <2> QED
    BY <1>5, <2>1 DEF Layered
<1>8. BackendControls(settings).backend_name = name
  BY <1>6, <1>7
<1> QED
  BY <1>3, <1>8

-------------------------------------------------------------------------------
(* The settings of a command, from the environment to the backend.          *)

Deciding == {"profile", "backend", "strategy"}

\* What a profile left in the setup of a command.
Resolved ==
    \E settings \in SettingsFromEnv(setup.request.env) :
      \E p \in ResolveComputeProfile(RequestedProfile(setup.request),
                 MergedOver(setup.request.cli, setup.request.env), setup.machine) :
        /\ setup.machine \in Machines[limits.inputs]
        /\ setup.settings = ReplaceSettings(settings, p)

SetupInv ==
    /\ limits.inputs \in DOMAIN Requests \cap DOMAIN Machines
    /\ pc \in Deciding =>
           /\ setup = [request |-> setup.request, machine |-> setup.machine,
                       settings |-> setup.settings]
           /\ setup.request \in Requests[limits.inputs]
    /\ pc = "profile" =>
           command = "stratum-mine" /\ setup.settings \in SettingsFromEnv(setup.request.env)
    /\ pc \in {"backend", "strategy"} =>
           IF command = "stratum-mine" /\ RequestedProfile(setup.request) # "none"
           THEN Resolved
           ELSE setup.settings \in SettingsFromEnv(setup.request.env)

LEMMA SetupHonoured ==
    ASSUME SetupInv
    PROVE  ProfileHonoured
<1> DEFINE request == setup.request
           machine == setup.machine
           profile == RequestedProfile(request)
           used == BackendControls(setup.settings)
           env == [c \in DOMAIN request.env \ DOMAIN request.cli |-> request.env[c]]
<1>1. SUFFICES ASSUME pc = "strategy"
      PROVE  IF command = "stratum-mine" /\ profile # "none"
             THEN /\ Agrees(used, request.cli) /\ Agrees(used, env)
                  /\ DevicesOf(used) \subseteq
                       DevicesOf(request.cli) \cup DevicesOf(env) \cup {0}
                  /\ DevicesOf(used) \subseteq machine.devices
                  /\ profile = "auto" => Setting(used, "worker_count", 1) <= 8
                  /\ profile \in {"auto", "max"} =>
                       Setting(used, "worker_count", 1) \in 0 .. machine.cpus \cup {1}
                  /\ profile = "lite" =>
                       /\ used.backend_name \notin {"native-parallel", "cuda-multi"}
                       /\ used.delay > 0
             ELSE LET named == Setting(request.env, "backend_name", "auto")
                  IN  used.backend_name = IF named \in {"auto", "cpu"} THEN "python"
                                          ELSE named
  BY DEF ProfileHonoured
<1>2. /\ {request.profile, request.environment_profile} \subseteq Profiles \cup {"none"}
      /\ IsFiniteSet(Setting(request.cli, "cuda_devices", {}))
      /\ IsFiniteSet(Setting(request.env, "cuda_devices", {}))
  BY <1>1, InputsAssumption DEF SetupInv, Deciding
<1>3. CASE command = "stratum-mine" /\ profile # "none"
  <2>1. PICK all : all = MergedOver(request.cli, request.env)
    OBVIOUS
  <2>2. PICK settings \in SettingsFromEnv(request.env),
             p \in ResolveComputeProfile(profile, all, machine) :
          machine \in Machines[limits.inputs] /\ setup.settings = ReplaceSettings(settings, p)
    BY <1>1, <1>3, <2>1 DEF SetupInv, Resolved
  <2>3. machine.cpus \in Nat
    BY <2>2, InputsAssumption DEF SetupInv
  <2>4. profile \in Profiles
    BY <1>2, <1>3 DEF RequestedProfile
  <2>5. IsFiniteSet(Setting(all, "cuda_devices", {}))
    BY <1>2, <2>1, LayerFinite
  <2>6. OneWay(all) /\ Honours(profile, used, all, machine)
    BY <2>2, <2>3, <2>4, <2>5, ResolvedHonours
  <2>7. /\ Says(all, request.cli) /\ Says(all, env)
        /\ DevicesOf(all) \subseteq DevicesOf(request.cli) \cup DevicesOf(env)
    BY <2>1, LayersSay
  <2> HIDE DEF used, env, machine, profile, request
  <2>8. Agrees(used, request.cli) /\ Agrees(used, env)
    BY <2>6, <2>7, AgreesLayer DEF Honours
  <2> QED
    BY <1>3, <2>6, <2>7, <2>8 DEF Honours
<1>4. CASE ~(command = "stratum-mine" /\ profile # "none")
  <2>1. setup.settings \in SettingsFromEnv(request.env)
    BY <1>1, <1>4 DEF SetupInv
  <2> QED
    BY <1>4, <2>1, EnvironmentNames
<1> QED
  BY <1>3, <1>4

LEMMA SetupStarts == Init => SetupInv
  BY InputsAssumption DEF Init, FrameInit, SetupInv, Deciding


\* The step does not decide anything.
Away == limits' = limits /\ pc' \notin Deciding

\* The session is over, and will not be begun again.
Leaves == limits' = limits /\ pc' \notin Preparing \cup {"session"}

SettingsStep ==
    /\ UNCHANGED <<limits, command>>
    /\ Settings \/ ResolveProfile \/ SelectBackend \/ UNCHANGED <<pc, setup>>

LEMMA SayingKeeps ==
    ASSUME NEW event, NEW level, NEW value,
           Emit(event, level, value) \/ EmitFails(event, level, value)
    PROVE  limits' = limits
  BY DEF Emit, EmitFails, Fault

LEMMA SettingsDecide ==
    ASSUME Settings
    PROVE  SettingsStep
<1>1. \/ GoTo("session") /\ UNCHANGED logVars
      \/ GoTo(IF command = "stratum-mine" THEN "profile" ELSE "backend") /\ UNCHANGED logVars
      \/ CommandFailed(Return(2), Return(1))
  BY Zenon DEF Settings
<1>2. UNCHANGED <<limits, command>>
  BY <1>1 DEF CommandFailed, Say, Emit, EmitFails, Fault, GoTo, Return, logVars
<1> QED
  BY <1>2 DEF SettingsStep

\* The profile is resolved, and announced unless the log fails.
Resolves(announced, refused) ==
    \/ RequestedProfile(setup.request) = "none" /\ GoTo("backend")
         /\ UNCHANGED <<logVars, setup>>
    \/ /\ RequestedProfile(setup.request) # "none"
       /\ \E machine \in Machines[limits.inputs] :
            LET resolved == ResolveComputeProfile(RequestedProfile(setup.request),
                              MergedOver(setup.request.cli, setup.request.env), machine)
            IN  \/ resolved = {} /\ setup' = NoSetup /\ refused
                \/ \E p \in resolved :
                     /\ setup' = [setup EXCEPT
                          !.machine = machine,
                          !.settings = ReplaceSettings(setup.settings, p)]
                     /\ announced

LEMMA ProfileDecides ==
    ASSUME ResolveProfile
    PROVE  SettingsStep
<1>1. Resolves(Say("compute_profile_resolved", "INFO", "none", GoTo("backend"), Return(1)),
               CommandFailed(Return(2), Return(1)))
  BY Zenon DEF ResolveProfile, Resolves
<1>2. \/ GoTo("backend") /\ UNCHANGED logVars
      \/ CommandFailed(Return(2), Return(1))
      \/ Say("compute_profile_resolved", "INFO", "none", GoTo("backend"), Return(1))
  BY <1>1, Zenon DEF Resolves
<1>3. UNCHANGED <<limits, command>>
  BY <1>2 DEF CommandFailed, Say, Emit, EmitFails, Fault, GoTo, Return, logVars
<1> QED
  BY <1>3 DEF SettingsStep

LEMMA PreparationDecides ==
    ASSUME Start \/ Prepare
    PROVE  SettingsStep \/ Away
<1> USE DEF Away, Deciding, GoTo, Return, Raise, CommandFailed, Fault, logVars
<1>1. CASE Start
  BY <1>1 DEF Start, Say, Emit, EmitFails
<1>2. CASE InterruptFrame
  BY <1>2 DEF InterruptFrame, Interrupted
<1>3. CASE Settings
  BY <1>3, SettingsDecide
<1>4. CASE ResolveProfile
  BY <1>4, ProfileDecides
<1>5. CASE SelectBackend
  <2>1. UNCHANGED <<limits, command>>
    BY <1>5 DEF SelectBackend, Say, Emit, EmitFails
  <2> QED
    BY <1>5, <2>1 DEF SettingsStep
<1>6. CASE SelectStrategy
  BY <1>6 DEF SelectStrategy, Say, Emit, EmitFails
<1>7. CASE AnnounceStrategy
  BY <1>7 DEF AnnounceStrategy, Say, Emit, EmitFails
<1>8. CASE InstallHandlers
  BY <1>8 DEF InstallHandlers
<1> QED
  BY <1>1, <1>2, <1>3, <1>4, <1>5, <1>6, <1>7, <1>8 DEF Prepare

LEMMA EndingLeaves ==
    ASSUME Except \/ Cleanup \/ Finish \/ Close \/ Kill
    PROVE  Leaves
<1> USE DEF Leaves, Preparing, GoTo, Return, Leave, CommandFailed, Fault, logVars, End
<1>1. CASE Except
  BY <1>1 DEF Except, ExceptBounded, ExceptOnce, ExceptContinuous, Say, Emit, EmitFails
<1>2. CASE Cleanup
  BY <1>2 DEF Cleanup, CloseClient, RestoreHandlers, CloseBackend, ReleaseFails, ReportRelease,
     NextCleanup, AfterCleanup, Interrupted, Say, Emit, EmitFails
<1>3. CASE Finish
  BY <1>3 DEF Finish, Say, Emit, EmitFails
<1>4. CASE Close
  BY <1>4 DEF Close, CloseSink, CloseSinkFails
<1>5. CASE Kill
  BY <1>5 DEF Kill, SinkLost
<1> QED
  BY <1>1, <1>2, <1>3, <1>4, <1>5

LEMMA SoloEndingLeaves ==
    ASSUME SoloNext, ~(SoloSetup \/ SoloSession)
    PROVE  Leaves
<1> USE DEF Leaves, Preparing, GoTo, Return, Leave, CommandFailed, Fault, logVars
<1>1. CASE ExceptSolo
  BY <1>1 DEF ExceptSolo, Reported, Escapes, Say, Emit, EmitFails
<1>2. CASE SoloCleanupBegins \/ RestoreSoloHandlers \/ CloseSoloBackend \/ CloseSoloClient
  BY <1>2 DEF SoloCleanupBegins, RestoreSoloHandlers, CloseSoloBackend, CloseSoloClient,
     Remember, Reached, To, Turn, Quiet, CloseRpc
<1>3. CASE SoloResult
  BY <1>3 DEF SoloResult, Say, Emit, EmitFails
<1>4. CASE SoloFinish
  BY <1>4 DEF SoloFinish, Say, Emit, EmitFails
<1>5. CASE InterruptSoloCleanup
  BY <1>5 DEF InterruptSoloCleanup, Interrupted
<1> QED
  BY <1>1, <1>2, <1>3, <1>4, <1>5 DEF SoloNext

LEMMA StepDecides ==
    ASSUME Kept, [Next]_vars
    PROVE  SettingsStep \/ Away
<1>1. CASE BeginCommand
  <2>1. limits' = limits
    BY <1>1 DEF BeginCommand, Begin, OpenSink, OpenSinkFails, Fault
  <2>2. pc' \in {"start", "idle"}
    BY <1>1 DEF BeginCommand, Begin
  <2> QED
    BY <2>1, <2>2 DEF Away, Deciding
<1>2. CASE SessionNext
  <2>1. SessionMoves
    BY <1>2, SessionSteps DEF Kept, SessionStep
  <2> QED
    BY <2>1 DEF SessionMoves, Away, Deciding
<1>3. CASE SoloNext
  <2>1. CASE SoloSetup \/ SoloSession
    <3>1. SoloMoves
      BY <2>1, SoloSteps DEF Kept
    <3> QED
      BY <3>1 DEF SoloMoves, Away, Deciding
  <2>2. CASE ~(SoloSetup \/ SoloSession)
    BY <1>3, <2>2, SoloEndingLeaves DEF Leaves, Away, Deciding, Preparing
  <2> QED
    BY <2>1, <2>2
<1>4. CASE AroundSession \/ Killed
  BY <1>4, PreparationDecides, EndingLeaves
     DEF AroundSession, Killed, Leaves, Away, Deciding, Preparing
<1>5. CASE UNCHANGED <<logVars, commandVars>>
  BY <1>5 DEF SettingsStep, logVars, commandVars, frameVars
<1>6. CASE Rotate /\ UNCHANGED commandVars
  BY <1>6 DEF Rotate, Truncate, Replace, TruncateLog, ReplaceLog, SettingsStep, commandVars,
     frameVars
<1> QED
  BY <1>1, <1>2, <1>3, <1>4, <1>5, <1>6 DEF Next, Command, vars

LEMMA SetupStep ==
    ASSUME Kept, SetupInv, [Next]_vars
    PROVE  SetupInv'
<1>0. SettingsStep => UNCHANGED <<limits, command>>
  BY DEF SettingsStep
<1>1. CASE Away
  BY <1>1 DEF Away, SetupInv, Deciding
<1>2. CASE SettingsStep /\ UNCHANGED <<pc, setup>>
  BY <1>2 DEF SettingsStep, SetupInv, Resolved, Deciding
<1>3. CASE SettingsStep /\ Settings
  <2>1. \/ GoTo("session")
        \/ /\ \E request \in Requests[limits.inputs] : \E settings \in SettingsFromEnv(request.env) :
                setup' = [NoSetup EXCEPT !.request = request, !.settings = settings]
           /\ GoTo(IF command = "stratum-mine" THEN "profile" ELSE "backend")
        \/ CommandFailed(Return(2), Return(1))
    BY <1>3, Zenon DEF Settings
  <2>2. CommandFailed(Return(2), Return(1)) => pc' = "close"
    BY DEF CommandFailed, Say, Return
  <2>3. \A next : GoTo(next) => pc' = next
    BY DEF GoTo
  <2>4. CASE pc' \in {"session", "close"}
    BY <1>0, <1>3, <2>4 DEF SetupInv, Deciding
  <2>5. ASSUME NEW request \in Requests[limits.inputs],
               NEW settings \in SettingsFromEnv(request.env),
               setup' = [NoSetup EXCEPT !.request = request, !.settings = settings],
               pc' = IF command = "stratum-mine" THEN "profile" ELSE "backend"
        PROVE  SetupInv'
    <3>1. setup' = [request |-> request, machine |-> NoControls, settings |-> settings]
      BY <2>5 DEF NoSetup
    <3>2. setup'.request = request /\ setup'.settings = settings /\ setup'.machine = NoControls
      BY <3>1
    <3>3. pc' # "strategy" /\ (pc' = "backend" <=> command # "stratum-mine")
          /\ (pc' = "profile" <=> command = "stratum-mine")
      BY <2>5
    <3>4. UNCHANGED <<limits, command>>
      BY <1>0, <1>3
    <3> QED
      BY <3>1, <3>2, <3>3, <3>4 DEF SetupInv, Deciding
  <2> QED
    BY <2>1, <2>2, <2>3, <2>4, <2>5
<1>4. CASE SettingsStep /\ ResolveProfile
  <2>0. pc = "profile"
    BY <1>4 DEF ResolveProfile
  <2>1. /\ command = "stratum-mine" /\ UNCHANGED <<limits, command>>
        /\ setup.settings \in SettingsFromEnv(setup.request.env)
        /\ setup.request \in Requests[limits.inputs]
        /\ setup = [request |-> setup.request, machine |-> setup.machine,
                    settings |-> setup.settings]
    BY <1>0, <1>4, <2>0 DEF SetupInv, Deciding
  <2>2. Resolves(Say("compute_profile_resolved", "INFO", "none", GoTo("backend"), Return(1)),
                 CommandFailed(Return(2), Return(1)))
    BY <1>4, Zenon DEF ResolveProfile, Resolves
  <2>3. CommandFailed(Return(2), Return(1)) => pc' = "close"
    BY DEF CommandFailed, Say, Return
  <2>4. Say("compute_profile_resolved", "INFO", "none", GoTo("backend"), Return(1)) =>
           pc' \in {"backend", "close"}
    BY DEF Say, GoTo, Return
  <2>5. GoTo("backend") => pc' = "backend"
    BY DEF GoTo
  <2>6. CASE pc' = "close"
    BY <2>1, <2>6 DEF SetupInv, Deciding
  <2>7. CASE RequestedProfile(setup.request) = "none" /\ pc' = "backend" /\ setup' = setup
    BY <2>0, <2>1, <2>7 DEF SetupInv, Deciding
  <2>8. ASSUME RequestedProfile(setup.request) # "none", pc' = "backend",
               NEW machine \in Machines[limits.inputs],
               NEW p \in ResolveComputeProfile(RequestedProfile(setup.request),
                           MergedOver(setup.request.cli, setup.request.env), machine),
               setup' = [setup EXCEPT !.machine = machine,
                                      !.settings = ReplaceSettings(setup.settings, p)]
        PROVE  SetupInv'
    <3>1. setup' = [request |-> setup.request, machine |-> machine,
                    settings |-> ReplaceSettings(setup.settings, p)]
      BY <2>1, <2>8
    <3>2. /\ setup'.request = setup.request /\ setup'.machine = machine
          /\ setup'.settings = ReplaceSettings(setup.settings, p)
      BY <3>1
    <3>3. Resolved'
      BY <2>1, <2>8, <3>2 DEF Resolved
    <3> QED
      BY <2>1, <2>8, <3>1, <3>2, <3>3 DEF SetupInv, Deciding
  <2> QED
    BY <2>2, <2>3, <2>4, <2>5, <2>6, <2>7, <2>8 DEF Resolves
<1>5. CASE SettingsStep /\ SelectBackend
  <2>1. \/ pc' = "close"
        \/ pc = "backend" /\ pc' = "strategy" /\ setup' = setup
    BY <1>5 DEF SelectBackend, CommandFailed, Say, GoTo, Return
  <2> QED
    BY <1>0, <1>5, <2>1 DEF SetupInv, Resolved, Deciding
<1> QED
  BY <1>1, <1>2, <1>3, <1>4, <1>5, StepDecides DEF SettingsStep

\* A search command uses what its user asked for: the devices, the workers and every
\* other control of its profile, what is said on the command line before what the
\* environment says, within what the machine has; and without a profile the backend
\* the environment names (resolve_compute_profile, _resolve_command_profile).
THEOREM ProfileHonouredAlways == Spec => []ProfileHonoured
<1>1. Init => SetupInv
  BY SetupStarts
<1>2. Kept /\ SetupInv /\ [Next]_vars => SetupInv'
  BY SetupStep
<1>3. SetupInv => ProfileHonoured
  BY SetupHonoured
<1>4. IInv => Kept
  BY DEF IInv, BaseInv
<1> QED
  BY <1>1, <1>2, <1>3, <1>4, InvariantAlways, PTL DEF Spec

-------------------------------------------------------------------------------
(* What a command says of the block it gave the node.                       *)

BlockOutcomes == {"block_accepted", "block_rejected"}
Submission == "solo_block_submission_completed"

RpcTyped == {"closed", "next_request_id"} \subseteq DOMAIN rpc /\ rpc.next_request_id \in Nat

\* The verdict is the one of a node that did this with the block.
VerdictFits(verdict, fate) ==
    \/ verdict = "accepted" /\ fate = "held"
    \/ verdict = "duplicate" /\ fate = "known"
    \/ verdict = "rejected" /\ fate = "refused"

\* The verdict read from the node's answer is what it did with the block.
Matches == VerdictFits(solo.verdict, block)

\* Nothing is said of a block.
Unreported == LogQuiet \/ \E event : event # Submission /\ (Written(event) \/ Lost(event))

\* A step of a command gives the node nothing and says nothing of a block, or it
\* gives it the block, or it reports what the node did.
Unsubmitted ==
    /\ block' = block /\ solo'.submits = solo.submits /\ RpcTyped'
    /\ solo'.then \notin BlockOutcomes
    /\ outcome' = outcome \/ outcome' \notin BlockOutcomes
    /\ pc' = "session" /\ command = "solo-mine" =>
           solo.step # "submitted" /\ solo'.step # "submitted"

Submits ==
    /\ pc = "session" /\ command = "solo-mine" /\ solo.step # "submitted"
    /\ block' \in {block} \cup Fates /\ solo'.submits = solo.submits + 1 /\ RpcTyped'
    /\ solo'.then = solo.then /\ LogQuiet
    /\ \/ pc' = "client" /\ outcome' \notin BlockOutcomes
       \/ pc' = "session" /\ outcome' = outcome /\ solo'.step = "submitted" /\ Matches'

Reports ==
    /\ pc = "session" /\ command \in BitcoinCommands /\ solo.step = "submitted"
    /\ UNCHANGED soloVars
    /\ \/ pc' = "except" /\ outcome' = outcome
       \/ /\ pc' = "client"
          /\ outcome' = IF solo.verdict = "accepted" THEN "block_accepted" ELSE "block_rejected"
    /\ \E level \in Levels :
          \/ Emit(Submission, level, solo.verdict)
          \/ EmitFails(Submission, level, solo.verdict)

\* A reply that does not carry what the node made of the request is refused.
LEMMA RepliesTrue ==
    ASSUME NEW id \in Nat, NEW result \in {"null", "text", "duplicate"}, NEW reply \in Replies(id, result)
    PROVE  /\ reply.result # result => ReplyError(reply, id) # "none"
           /\ ReplyError(reply, id) \notin Verdicts
<1> DEFINE whole == Answer(id, result, "null")
           Damaged == {whole, [whole EXCEPT !.arrives = FALSE],
                       [whole EXCEPT !.status = 401], [whole EXCEPT !.status = 500]}
           Unread == {[whole EXCEPT !.body = "oversized"], [whole EXCEPT !.body = "nested"],
                      [whole EXCEPT !.body = "malformed"]}
           Unsaid == {[whole EXCEPT !.result = "absent"], [whole EXCEPT !.error = "absent"],
                      [whole EXCEPT !.error = "rejected", !.result = "text"]}
           Remote == {Answer(id, "null", "malformed"), Answer(id, "null", "method_unavailable"),
                      Answer(id, "null", "node_not_ready")}
           Known == \/ reply.result = result /\ reply.error = "null"
                    \/ reply.result = "absent" /\ reply.error = "null"
                    \/ reply.error = "absent"
                    \/ reply.error = "rejected" /\ reply.result = "text"
                    \/ reply.error \in {"malformed", "method_unavailable", "node_not_ready"}
                    \/ reply.id = id - 1 /\ reply.error = "null"
<1>1. reply \in {whole, [whole EXCEPT !.arrives = FALSE],
         [whole EXCEPT !.status = 401], [whole EXCEPT !.status = 500],
         [whole EXCEPT !.body = "oversized"], [whole EXCEPT !.body = "nested"],
         [whole EXCEPT !.body = "malformed"],
         [whole EXCEPT !.result = "absent"], [whole EXCEPT !.error = "absent"],
         [whole EXCEPT !.error = "rejected", !.result = "text"],
         Answer(id, "null", "malformed"), Answer(id, "null", "method_unavailable"),
         Answer(id, "null", "node_not_ready"), Answer(id - 1, "null", "null")}
  BY DEF Replies
<1>2. \/ reply \in Damaged \/ reply \in Unread \/ reply \in Unsaid \/ reply \in Remote
      \/ reply = Answer(id - 1, "null", "null")
  BY <1>1, Zenon
<1>3. Known
  <2>1. CASE reply \in Damaged
    BY <2>1 DEF Answer
  <2>2. CASE reply \in Unread
    BY <2>2 DEF Answer
  <2>3. CASE reply \in Unsaid
    BY <2>3 DEF Answer
  <2>4. CASE reply \in Remote
    BY <2>4 DEF Answer
  <2>5. CASE reply = Answer(id - 1, "null", "null")
    BY <2>5 DEF Answer
  <2> QED
    BY <1>2, <2>1, <2>2, <2>3, <2>4, <2>5
<1> HIDE DEF whole, Damaged, Unread, Unsaid, Remote
<1>4. reply.error \notin {"none", "accepted", "duplicate"} /\ id - 1 # id
  BY <1>3
<1>5. ReplyError(reply, id) = "none" => Believed(reply, id) /\ reply.error = "null"
  BY <1>4 DEF ReplyError
<1>6. ReplyError(reply, id) \in Verdicts => Believed(reply, id) /\ reply.error = "rejected"
  BY <1>4 DEF ReplyError, Verdicts
<1>7. reply.result # result => ReplyError(reply, id) # "none"
  BY <1>3, <1>4, <1>5 DEF Believed
<1>8. ReplyError(reply, id) \notin Verdicts
  BY <1>3, <1>6 DEF Believed
<1> QED
  BY <1>7, <1>8

\* Only an answer of the node's own to the request is a verdict.
LEMMA VerdictTrue ==
    ASSUME RpcTyped, NEW fate \in Fates, NEW end \in SubmissionEnds(fate)
    PROVE  end \in Verdicts => ~rpc.closed /\ VerdictFits(end, fate)
<1> DEFINE result == AnswerOf(fate)
<1>1. PICK r \in Received(result) : end = Verdict(r)
  BY DEF SubmissionEnds
<1>2. CASE rpc.closed
  BY <1>1, <1>2 DEF Received, Verdict, Verdicts
<1>3. CASE ~rpc.closed
  <2>1. PICK reply \in Replies(rpc.next_request_id, result) :
           r = [error |-> ReplyError(reply, rpc.next_request_id), result |-> reply.result]
    BY <1>1, <1>3 DEF Received
  <2>2. PICK id : id = rpc.next_request_id /\ id \in Nat
    BY DEF RpcTyped
  <2>3. /\ result \in {"null", "text", "duplicate"}
        /\ VerdictFits(Verdict([error |-> "none", result |-> result]), fate)
    BY DEF AnswerOf, Fates, VerdictFits, Verdict
  <2> HIDE DEF result
  <2>4. reply \in Replies(id, result)
    BY <2>1, <2>2
  <2>5. reply.result # result => ReplyError(reply, id) # "none"
    BY <2>2, <2>3, <2>4, RepliesTrue
  <2> QED
    <3>1. end = Verdict(r) /\ r.error = ReplyError(reply, id) /\ r.result = reply.result
      BY <1>1, <2>1, <2>2
    <3>2. CASE ReplyError(reply, id) # "none"
      <4>1. end = ReplyError(reply, id)
        BY <3>1, <3>2 DEF Verdict
      <4>2. end \notin Verdicts
        BY <2>2, <2>3, <2>4, <4>1, RepliesTrue
      <4> QED
        BY <4>2
    <3>3. CASE ReplyError(reply, id) = "none"
      <4>1. reply.result = result
        BY <2>5, <3>3
      <4>2. end = Verdict([error |-> "none", result |-> result])
        BY <3>1, <3>3, <4>1 DEF Verdict
      <4> QED
        BY <1>3, <2>3, <4>2
    <3> QED
      BY <3>2, <3>3
<1> QED
  BY <1>2, <1>3

LEMMA ExchangeTyped == RpcTyped /\ Exchange => RpcTyped'
  BY DEF RpcTyped, Exchange

USE DEF SoloAt, Turn, To, SoloRaise, Raise, Concludes, Quiet, Tell, Say, logVars, resourceVars,
   rpcVars, soloVars, Fault, SoloTyped, CheckSteps, RpcTyped, BlockOutcomes, Unsubmitted, Exchange

LEMMA SetupUnsubmitted ==
    ASSUME SoloTyped, RpcTyped, solo.then \notin BlockOutcomes, SoloSetup
    PROVE  Unsubmitted
<1>1. CASE Refused
  BY <1>1 DEF Refused
<1>2. CASE OpenClient
  BY <1>2 DEF OpenClient, NewClient
<1>3. CASE AskNode
  BY <1>3 DEF AskNode, AskChain, Ask, ReadOnly, Synchronized
<1>4. CASE CheckStages
  BY <1>4 DEF CheckStages, Stage, Synchronized
<1>5. CASE TemplateParsed
  BY <1>5 DEF TemplateParsed
<1>6. CASE CheckCloses
  BY <1>6 DEF CheckCloses, CloseRpc
<1>7. CASE BuildBackend
  BY <1>7 DEF BuildBackend
<1>8. CASE InstallSoloHandlers
  BY <1>8 DEF InstallSoloHandlers
<1>9. CASE Announce
  BY <1>9 DEF Announce, Stage
<1> QED
  BY <1>1, <1>2, <1>3, <1>4, <1>5, <1>6, <1>7, <1>8, <1>9 DEF SoloSetup

LEMMA SessionUnsubmitted ==
    ASSUME SoloTyped, RpcTyped, solo.then \notin BlockOutcomes, SoloSession,
           ~SubmitSolo, ~BlockSubmitted
    PROVE  Unsubmitted
<1>1. CASE StoppedSolo
  BY <1>1 DEF StoppedSolo
<1>2. CASE HeadOfLoop
  BY <1>2 DEF HeadOfLoop, For
<1>3. CASE FetchTemplate
  <2>1. /\ SoloAt("fetch") /\ ReadOnly
        /\ To("template_received") \/ SoloRaise("expected")
             \/ Concludes("rpc_failure") \/ Suppress("rpc_failure")
    BY <1>3, Zenon DEF FetchTemplate, FetchFails
  <2>2. RpcTyped' /\ block' = block
    BY <2>1, ExchangeTyped DEF ReadOnly
  <2> QED
    BY <2>1, <2>2 DEF Suppress
<1>4. CASE TemplateReceived
  BY <1>4 DEF TemplateReceived, Fetched, Suppress, Fetching
<1>5. CASE TemplateReplaced
  BY <1>5 DEF TemplateReplaced, Fetched, Suppress, Fetching
<1>6. CASE NextSoloRange
  BY <1>6 DEF NextSoloRange
<1>7. CASE VariantStarted
  BY <1>7 DEF VariantStarted, Stage
<1>8. CASE VariantUsedUp
  BY <1>8 DEF VariantUsedUp, For
<1>9. CASE ExtraNonceAdvanced
  BY <1>9 DEF ExtraNonceAdvanced
<1>10. CASE TimestampRolled
  BY <1>10 DEF TimestampRolled, Stage
<1>11. CASE SoloRangeCompleted
  BY <1>11 DEF SoloRangeCompleted
<1>12. CASE SearchRefused
  BY <1>12 DEF SearchRefused
<1>13. CASE Suppressed
  BY <1>13 DEF Suppressed
<1>14. CASE SoloCandidateFound
  BY <1>14 DEF SoloCandidateFound
<1>15. CASE Propose
  <2>1. SoloAt("propose") /\ ProposeBlock
    BY <1>15, Zenon DEF Propose
  <2>2. PICK end : CASE end \in Verdicts ->
                          Turn([solo EXCEPT !.step = "proposed", !.verdict = end])
                     [] end = "method_unavailable" -> Concludes("proposal_unavailable")
                     [] OTHER -> Suppress("rpc_failure")
    BY <1>15, Zenon DEF Propose
  <2>3. \/ Turn([solo EXCEPT !.step = "proposed", !.verdict = end])
        \/ Concludes("proposal_unavailable")
        \/ Suppress("rpc_failure")
    BY <2>2, Zenon
  <2>4. RpcTyped' /\ block' = block
    BY <2>1, ExchangeTyped DEF ProposeBlock
  <2> QED
    BY <2>1, <2>3, <2>4 DEF Suppress
<1>16. CASE ProposalCompleted
  BY <1>16 DEF ProposalCompleted
<1>17. CASE SoloUnexpected
  BY <1>17 DEF SoloUnexpected
<1> QED
  BY <1>1, <1>2, <1>3, <1>4, <1>5, <1>6, <1>7, <1>8, <1>9, <1>10, <1>11, <1>12, <1>13, <1>14,
     <1>15, <1>16, <1>17 DEF SoloSession

LEMMA SubmitSubmits ==
    ASSUME SoloTyped, RpcTyped, SubmitSolo
    PROVE  Submits
<1>1. PICK fate \in Fates : \E end \in SubmissionEnds(fate) :
         /\ SubmitBlock(fate)
         /\ IF end \in Verdicts
            THEN Turn([solo EXCEPT !.step = "submitted", !.submits = @ + 1,
                                   !.verdict = end])
            ELSE /\ pc' = "client"
                 /\ outcome' = "rpc_failure"
                 /\ solo' = [solo EXCEPT !.submits = @ + 1]
                 /\ UNCHANGED <<schedule, command, status, pending, leaving, ended>>
  BY DEF SubmitSolo
<1>2. PICK end \in SubmissionEnds(fate) :
         /\ SubmitBlock(fate)
         /\ IF end \in Verdicts
            THEN Turn([solo EXCEPT !.step = "submitted", !.submits = @ + 1,
                                   !.verdict = end])
            ELSE /\ pc' = "client"
                 /\ outcome' = "rpc_failure"
                 /\ solo' = [solo EXCEPT !.submits = @ + 1]
                 /\ UNCHANGED <<schedule, command, status, pending, leaving, ended>>
  BY <1>1
<1>3. pc = "session" /\ command = "solo-mine" /\ solo.step = "submit"
  BY DEF SubmitSolo, BitcoinCommands
<1>4. end \in Verdicts => ~rpc.closed /\ VerdictFits(end, fate)
  BY VerdictTrue
<1>5. RpcTyped' /\ block' \in {block} \cup Fates /\ LogQuiet
  BY <1>2, ExchangeTyped DEF SubmitBlock, SubmitSolo, LogQuiet
<1>6. CASE end \in Verdicts
  BY <1>2, <1>3, <1>4, <1>5, <1>6 DEF Submits, Matches, SubmitBlock, Verdicts
<1>7. CASE end \notin Verdicts
  BY <1>2, <1>3, <1>5, <1>7 DEF Submits
<1> QED
  BY <1>6, <1>7

LEMMA ReportReports ==
    ASSUME SoloTyped, BlockSubmitted
    PROVE  Reports
  BY LevelsAre DEF BlockSubmitted, Reports, Submission

\* When a verdict was read nothing but its report is left to say.
LEMMA VerdictSilent ==
    ASSUME SoloSetup \/ SoloSession, solo.step = "submitted", ~BlockSubmitted
    PROVE  LogQuiet
<1>1. CASE SoloSetup
  BY <1>1 DEF SoloSetup, Refused, OpenClient, AskNode, AskChain, Ask, Synchronized, CheckStages, Stage,
     TemplateParsed, CheckCloses, BuildBackend, InstallSoloHandlers, Announce
<1>2. CASE SoloSession /\ ~SoloUnexpected
  BY <1>2 DEF SoloSession, StoppedSolo, HeadOfLoop, FetchTemplate, TemplateReceived, TemplateReplaced,
     NextSoloRange, VariantStarted, Stage, VariantUsedUp, ExtraNonceAdvanced, TimestampRolled,
     SoloRangeCompleted, SearchRefused, Suppressed, SoloCandidateFound, Propose,
     ProposalCompleted, SubmitSolo
<1>3. CASE SoloUnexpected
  BY <1>3 DEF SoloUnexpected, LogQuiet
<1> QED
  BY <1>1, <1>2, <1>3

LEMMA EndingsUnsubmitted ==
    ASSUME RpcTyped, solo.then \notin BlockOutcomes,
           {"step", "then", "submits", "cleanup"} \subseteq DOMAIN solo, SoloNext,
           ~SoloSetup, ~SoloSession
    PROVE  Unsubmitted
<1>1. CASE ExceptSolo
  BY <1>1 DEF ExceptSolo, CommandFailed, Reported, Escapes
<1>2. CASE SoloCleanupBegins
  BY <1>2 DEF SoloCleanupBegins
<1>3. CASE RestoreSoloHandlers
  BY <1>3 DEF RestoreSoloHandlers, Reached, Remember
<1>4. CASE CloseSoloBackend
  BY <1>4 DEF CloseSoloBackend, Reached, Remember
<1>5. CASE CloseSoloClient
  BY <1>5 DEF CloseSoloClient, Reached, Remember, CloseRpc
<1>6. CASE SoloResult
  BY <1>6 DEF SoloResult, Reached, CommandFailed, Return, GoTo
<1>7. CASE SoloFinish
  BY <1>7 DEF SoloFinish, Return
<1>8. CASE InterruptSoloCleanup
  BY <1>8 DEF InterruptSoloCleanup, Interrupted
<1> QED
  BY <1>1, <1>2, <1>3, <1>4, <1>5, <1>6, <1>7, <1>8 DEF SoloNext

LEMMA OutcomeStays ==
    ASSUME Start \/ Prepare \/ Except \/ Cleanup \/ Finish
    PROVE  outcome' = outcome
<1> USE DEF CommandFailed, GoTo, Return
<1>1. CASE Start
  BY <1>1 DEF Start
<1>2. CASE Prepare
  <2>1. CASE InterruptFrame
    BY <2>1 DEF InterruptFrame, Interrupted
  <2>2. CASE Settings
    BY <2>2 DEF Settings
  <2>3. CASE ResolveProfile
    BY <2>3 DEF ResolveProfile
  <2>4. CASE SelectBackend
    BY <2>4 DEF SelectBackend
  <2>5. CASE SelectStrategy
    BY <2>5 DEF SelectStrategy
  <2>6. CASE AnnounceStrategy
    BY <2>6 DEF AnnounceStrategy
  <2>7. CASE InstallHandlers
    BY <2>7 DEF InstallHandlers
  <2> QED
    BY <1>2, <2>1, <2>2, <2>3, <2>4, <2>5, <2>6, <2>7 DEF Prepare
<1>3. CASE Except
  BY <1>3 DEF Except, ExceptBounded, ExceptOnce, ExceptContinuous, Leave
<1>4. CASE Cleanup
  BY <1>4 DEF Cleanup, CloseClient, RestoreHandlers, CloseBackend, ReleaseFails, ReportRelease,
     Interrupted
<1>5. CASE Finish
  BY <1>5 DEF Finish
<1> QED
  BY <1>1, <1>2, <1>3, <1>4, <1>5

HIDE DEF SoloAt, Turn, To, SoloRaise, Raise, Concludes, Quiet, Tell, Say, logVars, resourceVars,
   rpcVars, soloVars, Fault, SoloTyped, CheckSteps, RpcTyped, BlockOutcomes, Unsubmitted, Exchange

BlockMoves == (Unsubmitted /\ Unreported) \/ Submits \/ Reports

LEMMA NothingTold ==
    ASSUME Effect, pc # "session"
    PROVE  Unreported
<1>1. \A event : Noted(event) => event # Submission
  BY DEF Noted, Submission
<1>2. "command_failed" # Submission /\ "command_completed" # Submission
  BY DEF Submission
<1>3. \A event : (Wrote(event) \/ Failed(event)) /\ event # Submission => Unreported
  BY DEF Wrote, Failed, Unreported
<1>4. \A event : WrittenAs(event, outcome) => Written(event)
  BY DEF Written
<1>5. CASE Silent
  BY <1>5 DEF Silent, Unreported
<1>6. CASE \E event : Noted(event) /\ Notes(event)
  BY <1>1, <1>3, <1>6 DEF Notes
<1>7. CASE ReportsFailure
  BY <1>2, <1>3, <1>7 DEF ReportsFailure
<1>8. CASE ReportsCompletion
  BY <1>2, <1>3, <1>4, <1>8 DEF ReportsCompletion, Unreported
<1> QED
  BY <1>5, <1>6, <1>7, <1>8 DEF Effect

\* Every step of a command is one of the three.
LEMMA CommandMoves ==
    ASSUME Kept, RpcTyped, solo.then \notin BlockOutcomes,
           \/ /\ Start \/ Prepare \/ Except \/ Cleanup \/ Finish
              /\ UNCHANGED <<sessionVars, soloVars>>
           \/ SessionNext /\ UNCHANGED soloVars
           \/ SoloNext /\ UNCHANGED sessionVars
    PROVE  BlockMoves
<1>1. CommandStep /\ Effect /\ Underway /\ Kept'
  BY CommandSteps DEF CommandStep, FrameStep
<1>2. SoloTyped /\ SessionTyped /\ PlacesOf
  BY DEF Kept, Control
<1>3. CASE /\ Start \/ Prepare \/ Except \/ Cleanup \/ Finish
           /\ UNCHANGED <<sessionVars, soloVars>>
  <2>1. pc # "session"
    BY <1>3 DEF Start, Prepare, InterruptFrame, Settings, ResolveProfile, SelectBackend,
       SelectStrategy, AnnounceStrategy, InstallHandlers, Except, ExceptBounded, ExceptOnce,
       ExceptContinuous, Cleanup, CloseClient, RestoreHandlers, CloseBackend, Finish
  <2>2. pc' = "session" => solo.step = "opt_in"
    BY <1>1, <1>2, <2>1 DEF Underway, PlacesOf
  <2>3. outcome' = outcome
    BY <1>3, OutcomeStays
  <2>4. Unsubmitted
    BY <1>3, <2>2, <2>3 DEF Unsubmitted, soloVars, rpcVars, RpcTyped
  <2> QED
    BY <1>1, <2>1, <2>4, NothingTold DEF BlockMoves
<1>4. CASE SessionNext /\ UNCHANGED soloVars
  <2>1. SessionStep
    BY <1>2, <1>4, SessionSteps
  <2>2. command \notin BitcoinCommands /\ (outcome' = outcome \/ outcome' \in Results)
    BY <2>1 DEF SessionStep, SessionMoves
  <2>3. Unsubmitted
    BY <1>4, <2>2 DEF Unsubmitted, soloVars, rpcVars, RpcTyped, BitcoinCommands, Results,
       BlockOutcomes
  <2>4. CASE LogQuiet
    BY <2>3, <2>4 DEF Unreported, BlockMoves
  <2>5. CASE \E event : Noted(event) /\ SessionWrites(event)
    <3>1. PICK event : Noted(event) /\ SessionWrites(event)
      BY <2>5
    <3>2. event # Submission
      BY <2>2, <3>1 DEF Noted, Submission
    <3> QED
      BY <2>3, <3>1, <3>2 DEF SessionWrites, Unreported, BlockMoves
  <2> QED
    BY <2>1, <2>4, <2>5 DEF SessionStep
<1>5. CASE SoloSetup \/ SoloSession
  <2>1. SoloMoves /\ SoloLog
    BY <1>2, <1>5, SoloSteps
  <2>2. CASE SubmitSolo
    BY <1>2, <2>2, SubmitSubmits DEF BlockMoves
  <2>3. CASE BlockSubmitted
    BY <1>2, <2>3, ReportReports DEF BlockMoves
  <2>4. CASE ~SubmitSolo /\ ~BlockSubmitted
    <3>1. Unsubmitted
      BY <1>2, <1>5, <2>4, SetupUnsubmitted, SessionUnsubmitted
    <3>2. CASE solo.step = "submitted"
      BY <1>5, <2>4, <3>1, <3>2, VerdictSilent DEF Unreported, BlockMoves
    <3>3. CASE solo.step # "submitted"
      <4>1. \A event : Noted(event) => event # Submission
        BY <3>3 DEF Noted, Submission
      <4>2. Unreported
        BY <2>1, <4>1 DEF SoloLog, SoloWrites, Unreported
      <4> QED
        BY <3>1, <4>2 DEF BlockMoves
    <3> QED
      BY <3>2, <3>3
  <2> QED
    BY <2>2, <2>3, <2>4
<1>6. CASE SoloNext /\ ~(SoloSetup \/ SoloSession)
  <2>1. pc # "session"
    BY <1>6 DEF SoloNext, ExceptSolo, SoloCleanupBegins, RestoreSoloHandlers,
       CloseSoloBackend, CloseSoloClient, InterruptSoloCleanup, SoloResult, SoloFinish, Reached
  <2>2. {"step", "then", "submits", "cleanup"} \subseteq DOMAIN solo
    BY <1>2 DEF SoloTyped
  <2>3. Unsubmitted
    BY <1>6, <2>2, EndingsUnsubmitted
  <2> QED
    BY <1>1, <2>1, <2>3, NothingTold DEF BlockMoves
<1> QED
  BY <1>3, <1>4, <1>5, <1>6


Unasked == block = "none" /\ solo.submits = 0

\* What the command knows of the block is what became of it.
BlockControl ==
    /\ RpcTyped /\ solo.then \notin BlockOutcomes
    /\ pc = "start" \/ command # "solo-mine" => Unasked
    /\ pc = "session" /\ command = "solo-mine" =>
           IF solo.step = "submitted" THEN Matches ELSE Unasked
    /\ block \in {"none"} \cup Fates
    /\ block # "none" => solo.submits = 1
    /\ outcome = "block_accepted" => block = "held"
    /\ outcome = "block_rejected" => block \in {"known", "refused"}

LEMMA BlockKinds ==
    ASSUME Kept, RpcTyped, solo.then \notin BlockOutcomes, [Next]_vars
    PROVE  (Running /\ BlockMoves) \/ Begins \/ Closes \/ Dies \/ Elsewhere \/ Rotates
<1>1. CASE Command /\ UNCHANGED dashVars /\ ~BeginCommand /\ ~(AroundSession /\ Close)
  <2>1. \/ /\ Start \/ Prepare \/ Except \/ Cleanup \/ Finish
           /\ UNCHANGED <<sessionVars, soloVars>>
        \/ SessionNext /\ UNCHANGED soloVars
        \/ SoloNext /\ UNCHANGED sessionVars
    BY <1>1 DEF Command, AroundSession
  <2>2. rotations' = rotations
    BY <1>1 DEF dashVars
  <2> QED
    BY <2>1, <2>2, CommandSteps, CommandMoves DEF Running
<1>2. CASE AroundSession /\ Close /\ UNCHANGED dashVars
  BY <1>2 DEF AroundSession, Closes, dashVars
<1>3. CASE BeginCommand /\ UNCHANGED dashVars
  BY <1>3 DEF Begins, dashVars
<1>4. CASE Killed /\ UNCHANGED dashVars
  BY <1>4 DEF Dies, dashVars
<1>5. CASE Poll /\ UNCHANGED <<logVars, commandVars>>
  BY <1>5 DEF Poll, Look, Read, Elsewhere
<1>6. CASE Rotate /\ UNCHANGED commandVars
  BY <1>6 DEF Rotates
<1>7. CASE UNCHANGED vars
  BY <1>7 DEF vars, dashVars, Elsewhere
<1> QED
  BY <1>1, <1>2, <1>3, <1>4, <1>5, <1>6, <1>7 DEF Next

LEMMA ControlStep ==
    ASSUME Kept, BlockControl, [Next]_vars
    PROVE  BlockControl'
<1> USE DEF BlockControl, Unasked, Matches, VerdictFits, Fates, BlockOutcomes
<1>1. CASE Running /\ BlockMoves
  <2>1. /\ pc' # "start" /\ command' = command /\ PlacesOf
        /\ pc' = "session" => pc \in Preparing \cup {"session"}
    BY <1>1 DEF Running, CommandStep, FrameStep, Underway, Kept, Control
  <2>2. pc \in Preparing /\ command = "solo-mine" => pc = "start"
    BY <2>1 DEF PlacesOf, Preparing, BitcoinCommands, SearchCommands
  <2>3. CASE Unsubmitted
    BY <2>1, <2>2, <2>3 DEF Unsubmitted
  <2>4. CASE Submits
    BY <2>1, <2>4 DEF Submits
  <2>5. CASE Reports
    <3>1. UNCHANGED <<solo, rpc, block>>
      BY <2>5 DEF Reports, soloVars, rpcVars
    <3>2. command = "solo-mine"
      BY <2>5 DEF Reports, Kept, SoloTyped, CheckSteps, BitcoinCommands
    <3>3. Matches /\ solo.verdict \in {"accepted", "rejected", "duplicate"}
      BY <2>5, <3>2 DEF Reports
    <3>4. /\ pc' # "session"
          /\ outcome' = "block_accepted" => solo.verdict = "accepted" \/ outcome' = outcome
          /\ outcome' = "block_rejected" => solo.verdict # "accepted" \/ outcome' = outcome
      BY <2>5 DEF Reports
    <3>5. RpcTyped'
      BY <3>1 DEF RpcTyped
    <3> QED
      BY <2>1, <3>1, <3>2, <3>3, <3>4, <3>5
  <2> QED
    BY <1>1, <2>3, <2>4, <2>5 DEF BlockMoves
<1>2. CASE Begins
  BY <1>2 DEF Begins, BeginCommand, Begin, FreshSolo, RpcReset, NewClient, RpcTyped
<1>3. CASE Closes \/ Dies
  <2>1. UNCHANGED <<solo, rpc, block, command, outcome>> /\ pc' = "idle"
    BY <1>3 DEF Closes, Close, Dies, Killed, Kill, End, soloVars, rpcVars
  <2> QED
    BY <2>1 DEF RpcTyped
<1>4. CASE Elsewhere \/ Rotates
  <2>1. UNCHANGED <<solo, rpc, block, command, outcome, pc>>
    BY <1>4 DEF Elsewhere, Rotates, commandVars, frameVars, soloVars, rpcVars
  <2> QED
    BY <2>1 DEF RpcTyped
<1> QED
  BY <1>1, <1>2, <1>3, <1>4, BlockKinds

\* The records in q of what the node did with the block of run r say one of values.
Truth(q, r, values) ==
    \A i \in DOMAIN q :
        q[i].record.run = r /\ q[i].record.event = Submission => q[i].record.value \in values

LEMMA TruthJoin ==
    ASSUME NEW p, NEW q, IsSeq(p), IsSeq(q), NEW r, NEW values,
           Truth(p, r, values), Truth(q, r, values)
    PROVE  Truth(p \o q, r, values)
<1>1. /\ Len(p) \in Nat /\ DOMAIN p = 1 .. Len(p)
      /\ Len(q) \in Nat /\ DOMAIN q = 1 .. Len(q)
      /\ DOMAIN (p \o q) = 1 .. Len(p) + Len(q)
      /\ \A i \in 1 .. Len(p) : (p \o q)[i] = p[i]
      /\ \A i \in 1 .. Len(q) : (p \o q)[Len(p) + i] = q[i]
  BY SeqLen, SeqJoin
<1>2. SUFFICES ASSUME NEW i \in 1 .. Len(p) + Len(q)
               PROVE  LET half == (p \o q)[i]
                      IN  half.record.run = r /\ half.record.event = Submission =>
                              half.record.value \in values
  BY <1>1 DEF Truth
<1>3. CASE i \in 1 .. Len(p)
  BY <1>1, <1>3 DEF Truth
<1>4. CASE i \notin 1 .. Len(p)
  <2>1. i - Len(p) \in 1 .. Len(q) /\ Len(p) + (i - Len(p)) = i
    BY <1>1, <1>4
  <2> QED
    BY <1>1, <2>1 DEF Truth
<1> QED
  BY <1>3, <1>4

LEMMA EmissionTrue ==
    ASSUME FilesInv, NEW line, IsSeq(line), Emission(line), NEW r, NEW values,
           Truth(Total("log"), r, values), Truth(line, r, values)
    PROVE  Truth(Total("log")', r, values)
<1>1. "log" \in Streams
  BY DEF Streams
<1>2. IsSeq(Total("log"))
  BY <1>1, SeqJoin DEF FilesInv, StreamInv, Total
<1>3. CASE files'["log"] = files["log"] /\ held'["log"] = held["log"]
  BY <1>3 DEF Total
<1>4. CASE Grown("log", line)
  <2>1. Stretch(Total("log")', Total("log") \o line)
    BY <1>4 DEF Grown, GrowsBy, Total
  <2>2. Truth(Total("log") \o line, r, values)
    BY <1>2, TruthJoin
  <2> QED
    BY <2>1, <2>2 DEF Stretch, Truth
<1> QED
  BY <1>1, <1>3, <1>4 DEF Emission

BlockTold ==
    command = "solo-mine" /\ (pc # "idle" \/ client # "none") =>
        Truth(Total("log"), sink.run, NodeVerdicts)

LEMMA RecordTrue ==
    ASSUME NEW record, NEW r, NEW values,
           record.run = r /\ record.event = Submission => record.value \in values
    PROVE  Truth(Halves(record), r, values) /\ IsSeq(Halves(record))
<1>1. PICK line : line = Halves(record)
  OBVIOUS
<1>2. /\ IsSeq(line) /\ Len(line) = 2
      /\ line[1] = [record |-> record, last |-> FALSE]
      /\ line[2] = [record |-> record, last |-> TRUE]
  BY <1>1, HalvesOf
<1>3. DOMAIN line = {1, 2}
  BY <1>2, SeqLen
<1> QED
  BY <1>1, <1>2, <1>3 DEF Truth

LEMMA ToldStep ==
    ASSUME BaseInv, FilesInv, BlockControl, BlockTold, [Next]_vars
    PROVE  BlockTold'
<1>1. Kept /\ SinkTyped /\ Runs
  BY DEF BaseInv
<1>2. CASE Running /\ BlockMoves
  <2>1. /\ pc # "idle" /\ command' = command /\ sink'.run = sink.run
    BY <1>1, <1>2, RunningSink DEF Running, CommandStep, FrameStep, Underway, SameSink
  <2>2. SUFFICES ASSUME command = "solo-mine"
                 PROVE  Truth(Total("log")', sink.run, NodeVerdicts')
    BY <2>1 DEF BlockTold
  <2>3. Truth(Total("log"), sink.run, NodeVerdicts)
    BY <2>1, <2>2 DEF BlockTold
  <2>4. ASSUME NEW event, NEW value, Emission(Halves(Record(event, value))),
               event = Submission => value \in NodeVerdicts
        PROVE  Truth(Total("log")', sink.run, NodeVerdicts)
    <3> DEFINE record == Record(event, value)
    <3>1. record.event = event /\ record.value = value
      BY DEF Record
    <3> HIDE DEF record
    <3>2. Truth(Halves(record), sink.run, NodeVerdicts) /\ IsSeq(Halves(record))
      BY <2>4, <3>1, RecordTrue
    <3>3. Emission(Halves(record))
      BY <2>4 DEF record
    <3> QED
      BY <2>3, <3>2, <3>3, EmissionTrue
  <2>5. LogQuiet => Total("log")' = Total("log")
    BY DEF LogQuiet, Total
  <2>6. CASE Unsubmitted /\ Unreported
    <3>1. NodeVerdicts' = NodeVerdicts
      BY <2>6 DEF Unsubmitted, NodeVerdicts
    <3>2. CASE \E event : event # Submission /\ (Written(event) \/ Lost(event))
      BY <2>4, <3>1, <3>2, WritesGrow
    <3> QED
      BY <2>3, <2>5, <2>6, <3>1, <3>2 DEF Unreported
  <2>7. CASE Submits
    <3>1. LogQuiet /\ NodeVerdicts = {}
      BY <2>7 DEF Submits, BlockControl, Unasked, NodeVerdicts
    <3> QED
      BY <2>3, <2>5, <3>1 DEF Truth
  <2>8. CASE Reports
    <3>1. NodeVerdicts' = NodeVerdicts /\ solo.verdict \in NodeVerdicts
      BY <2>2, <2>8 DEF Reports, BlockControl, Matches, VerdictFits, NodeVerdicts, soloVars, rpcVars
    <3>2. Emission(Halves(Record(Submission, solo.verdict)))
      BY <2>8, EmitGrows DEF Reports
    <3> QED
      BY <2>4, <3>1, <3>2
  <2> QED
    BY <1>2, <2>6, <2>7, <2>8 DEF BlockMoves
<1>3. CASE Begins
  <2>1. /\ UNCHANGED <<files, held>> /\ pc = "idle" /\ client' = "none" /\ block' = "none"
        /\ pc' = "idle" \/ sink'.run = sink.run + 1
    BY <1>3 DEF Begins, BeginCommand, Begin, OpenSink, OpenSinkFails, RpcReset
  <2>2. SUFFICES ASSUME sink'.run = sink.run + 1
                 PROVE  Truth(Total("log")', sink'.run, NodeVerdicts')
    BY <2>1 DEF BlockTold
  <2>3. /\ \A i \in DOMAIN Total("log") : Total("log")[i].record.run \in 1 .. sink.run
        /\ sink.run \in Nat
    BY <1>1 DEF FilesInv, StreamInv, Streams, Runs
  <2>4. \A i \in DOMAIN Total("log") : Total("log")[i].record.run # sink'.run
    BY <2>2, <2>3
  <2>5. Total("log")' = Total("log")
    BY <2>1 DEF Total
  <2> QED
    BY <2>4, <2>5 DEF Truth
<1>4. CASE Closes \/ Dies
  <2>1. /\ pc # "idle" /\ command' = command /\ block' = block
        /\ \/ CloseSink /\ faults' = faults
           \/ CloseSinkFails /\ faults' # 0
           \/ SinkLost /\ faults' # 0
    BY <1>4, FaultsNat DEF Closes, Close, Dies, Killed, Kill, End, soloVars, rpcVars, CloseSink,
       CloseSinkFails, Fault
  <2>2. Emission(<<>>) /\ sink' = [sink EXCEPT !.state = "closed"]
    BY <2>1, EndOfSink
  <2>3. sink'.run = sink.run /\ NodeVerdicts' = NodeVerdicts
    BY <1>1, <2>1, <2>2 DEF SinkTyped, NodeVerdicts
  <2>4. IsSeq(<<>>) /\ DOMAIN <<>> = {}
    <3>1. <<>> \in Seq({})
      BY EmptySeq
    <3> QED
      BY <3>1 DEF IsSeq
  <2>5. \A values : Truth(<<>>, sink.run, values)
    BY <2>4 DEF Truth
  <2> QED
    BY <2>1, <2>2, <2>3, <2>4, <2>5, EmissionTrue DEF BlockTold
<1>5. CASE Elsewhere
  <2>1. UNCHANGED <<files, held, sink, command, pc, client, block>>
    BY <1>5 DEF Elsewhere, logVars, commandVars, frameVars, soloVars, rpcVars
  <2> QED
    BY <2>1 DEF BlockTold, Total, NodeVerdicts
<1>6. CASE Rotates
  <2>1. /\ UNCHANGED <<held, sink, command, pc, client, block>>
        /\ files' = [files EXCEPT !["log"] = <<>>]
    BY <1>6 DEF Rotates, Rotate, Truncate, Replace, TruncateLog, ReplaceLog, commandVars,
       frameVars, soloVars, rpcVars
  <2>2. /\ Total("log")' = <<>> \o held["log"] /\ IsSeq(held["log"]) /\ IsSeq(files["log"])
    BY <2>1 DEF Total, FilesInv, StreamInv, Streams
  <2>3. Total("log")' = held["log"]
    BY <2>2, SeqAssociative
  <2>4. Stretch(held["log"], Total("log"))
    <3>1. IsSeq(Total("log"))
      BY <2>2, SeqJoin DEF Total
    <3> QED
      BY <2>2, <3>1, StretchJoin DEF Total
  <2>5. \A values : Truth(Total("log"), sink.run, values) => Truth(Total("log")', sink.run, values)
    BY <2>3, <2>4 DEF Stretch, Truth
  <2> QED
    BY <2>1, <2>5 DEF BlockTold, NodeVerdicts
<1> QED
  BY <1>1, <1>2, <1>3, <1>4, <1>5, <1>6, BlockKinds DEF BlockControl

LEMMA BlockInit == Init => BlockControl /\ BlockTold
  BY DEF Init, FrameInit, SoloInit, FreshSolo, RpcInit, NewClient, BlockControl, BlockTold, RpcTyped,
     BlockOutcomes, Unasked


\* A summary that counts a block has read its record.
Tells(v, record) == record.event = Submission /\ record.run \in DOMAIN v.runs

TellsGood(v, record) == Tells(v, record) /\ record.value = "accepted"
TellsBad(v, record) == Tells(v, record) /\ record.value # "accepted"

Counts(v) ==
    /\ {"accepted", "runs", "acceptedBlocks", "rejectedBlocks"} \subseteq DOMAIN v
    /\ v.acceptedBlocks \in Nat /\ v.rejectedBlocks \in Nat

Backed(v, data, n) ==
    /\ Counts(v)
    /\ v.acceptedBlocks > 0 => \E i \in 1 .. n : TellsGood(v, data[i].record)
    /\ v.rejectedBlocks > 0 => \E i \in 1 .. n : TellsBad(v, data[i].record)

LEMMA RejectedCounts ==
    /\ Counts(Rejected) /\ Rejected.acceptedBlocks = 0 /\ Rejected.rejectedBlocks = 0
    /\ Counts(EmptySummary) /\ EmptySummary.acceptedBlocks = 0 /\ EmptySummary.rejectedBlocks = 0
<1> DEFINE counts == [event \in CountedEvents |-> 0]
           runs == [r \in {} |-> <<>>]
<1>1. EmptySummary =
        [accepted |-> TRUE, runs |-> runs, records |-> 0, failures |-> 0, counts |-> counts,
         acceptedShares |-> 0, rejectedShares |-> 0, acceptedBlocks |-> 0, rejectedBlocks |-> 0]
  BY DEF EmptySummary
<1> HIDE DEF counts, runs
<1>2. /\ {"accepted", "runs", "acceptedBlocks", "rejectedBlocks"} \subseteq DOMAIN EmptySummary
      /\ EmptySummary.acceptedBlocks = 0 /\ EmptySummary.rejectedBlocks = 0
  BY <1>1
<1>3. /\ DOMAIN Rejected = DOMAIN EmptySummary
      /\ Rejected.acceptedBlocks = EmptySummary.acceptedBlocks
      /\ Rejected.rejectedBlocks = EmptySummary.rejectedBlocks
  BY <1>2 DEF Rejected
<1> QED
  BY <1>2, <1>3 DEF Counts

\* What one record adds to the blocks a summary counts.
LEMMA RecordCounted ==
    ASSUME NEW v, Counts(v), NEW record,
           RunAccepts(v.runs, record) /\ SoloAccepts(v.runs, record)
    PROVE  LET after == ConsumeRecord(v, record)
           IN  /\ Counts(after)
               /\ DOMAIN after.runs = DOMAIN v.runs \cup {record.run}
               /\ after.acceptedBlocks > 0 =>
                      v.acceptedBlocks > 0 \/ TellsGood(after, record)
               /\ after.rejectedBlocks > 0 =>
                      v.rejectedBlocks > 0 \/ TellsBad(after, record)
<1> DEFINE counted == AggregateStratum(AggregateCommand(v, record), record)
           w == AggregateSolo(counted, record)
           runs == RunAfter(v.runs, record)
           after == [w EXCEPT !.runs = runs]
           submitted == record.event = Submission
<1>1. /\ DOMAIN counted = DOMAIN v /\ counted.acceptedBlocks = v.acceptedBlocks
      /\ counted.rejectedBlocks = v.rejectedBlocks
  BY DEF AggregateStratum, AggregateCommand, Counts
<1>2. w = [counted EXCEPT
             !.acceptedBlocks = @ + OneIf(submitted /\ record.value = "accepted"),
             !.rejectedBlocks = @ + OneIf(submitted /\ record.value # "accepted")]
  BY DEF AggregateSolo, Submission
<1>3. /\ OneIf(submitted /\ record.value = "accepted") \in Nat
      /\ OneIf(submitted /\ record.value # "accepted") \in Nat
      /\ OneIf(submitted /\ record.value = "accepted") > 0 => submitted /\ record.value = "accepted"
      /\ OneIf(submitted /\ record.value # "accepted") > 0 => submitted /\ record.value # "accepted"
  BY DEF OneIf
<1>4. DOMAIN runs = DOMAIN v.runs \cup {record.run}
  BY DEF RunAfter
<1>5. after = ConsumeRecord(v, record)
  BY DEF ConsumeRecord
<1> HIDE DEF counted, w, runs, submitted
<1>6. /\ DOMAIN w = DOMAIN v
      /\ w.acceptedBlocks = v.acceptedBlocks + OneIf(submitted /\ record.value = "accepted")
      /\ w.rejectedBlocks = v.rejectedBlocks + OneIf(submitted /\ record.value # "accepted")
  BY <1>1, <1>2 DEF Counts
<1>7. /\ DOMAIN after = DOMAIN v /\ after.runs = runs
      /\ after.acceptedBlocks = w.acceptedBlocks /\ after.rejectedBlocks = w.rejectedBlocks
  BY <1>6 DEF Counts
<1> HIDE DEF after
<1>8. Counts(after)
  BY <1>3, <1>6, <1>7 DEF Counts
<1> DEFINE a == OneIf(submitted /\ record.value = "accepted")
           b == OneIf(submitted /\ record.value # "accepted")
<1>9. /\ after.acceptedBlocks > 0 =>
             v.acceptedBlocks > 0 \/ (submitted /\ record.value = "accepted")
      /\ after.rejectedBlocks > 0 =>
             v.rejectedBlocks > 0 \/ (submitted /\ record.value # "accepted")
  <2>1. /\ a \in Nat /\ (a > 0 => submitted /\ record.value = "accepted")
        /\ b \in Nat /\ (b > 0 => submitted /\ record.value # "accepted")
        /\ after.acceptedBlocks = v.acceptedBlocks + a
        /\ after.rejectedBlocks = v.rejectedBlocks + b
        /\ v.acceptedBlocks \in Nat /\ v.rejectedBlocks \in Nat
    BY <1>3, <1>6, <1>7 DEF Counts
  <2> HIDE DEF a, b
  <2> QED
    BY <2>1
<1> QED
  BY <1>4, <1>5, <1>7, <1>8, <1>9 DEF Tells, TellsGood, TellsBad, submitted

LEMMA LineBacked ==
    ASSUME NEW v, NEW data, NEW n \in Nat, Backed(v, data, n)
    PROVE  Backed(ReadAt("summary", v, data, n + 1), data, n + 1)
<1> DEFINE after == ReadAt("summary", v, data, n + 1)
           record == data[n + 1].record
<1> SUFFICES Backed(after, data, n + 1)
  OBVIOUS
<1>1. 1 .. n \subseteq 1 .. n + 1 /\ n + 1 \in 1 .. n + 1
  OBVIOUS
<1>2. Counts(v)
  BY DEF Backed
<1>3. CASE after = Rejected
  BY <1>3, RejectedCounts DEF Backed
<1>4. CASE after = v
  BY <1>1, <1>4 DEF Backed
<1>5. CASE /\ after = ConsumeRecord(v, record)
           /\ RunAccepts(v.runs, record) /\ SoloAccepts(v.runs, record)
  <2>1. /\ Counts(after)
        /\ DOMAIN after.runs = DOMAIN v.runs \cup {record.run}
        /\ after.acceptedBlocks > 0 =>
               v.acceptedBlocks > 0 \/ TellsGood(after, record)
        /\ after.rejectedBlocks > 0 =>
               v.rejectedBlocks > 0 \/ TellsBad(after, record)
    BY <1>2, <1>5, RecordCounted
  <2> HIDE DEF after
  <2>2. \A i \in 1 .. n :
            /\ TellsGood(v, data[i].record) => TellsGood(after, data[i].record)
            /\ TellsBad(v, data[i].record) => TellsBad(after, data[i].record)
    BY <2>1 DEF Tells, TellsGood, TellsBad
  <2>3. after.acceptedBlocks > 0 => \E i \in 1 .. n + 1 : TellsGood(after, data[i].record)
    BY <1>1, <2>1, <2>2 DEF Backed
  <2>4. after.rejectedBlocks > 0 => \E i \in 1 .. n + 1 : TellsBad(after, data[i].record)
    BY <1>1, <2>1, <2>2 DEF Backed
  <2> QED
    BY <2>1, <2>3, <2>4 DEF Backed
<1>6. \/ after = v \/ after = Rejected
      \/ /\ after = ConsumeRecord(v, record)
         /\ RunAccepts(v.runs, record) /\ SoloAccepts(v.runs, record)
  BY Zenon DEF ReadAt, ConsumeLine, ConsumeRecord
<1> QED
  BY <1>3, <1>4, <1>5, <1>6

LEMMA AllBacked ==
    ASSUME NEW data, NEW n \in Nat, NEW f, Shows("summary", EmptySummary, data, n, f)
    PROVE  Backed(f[n], data, n)
<1> DEFINE G == {k \in Nat : k <= n => Backed(f[k], data, k)}
<1>1. f[0] = EmptySummary /\ \A i \in 1 .. n : f[i] = ReadAt("summary", f[i - 1], data, i)
  <2>1. PICK empty : empty = EmptySummary
    OBVIOUS
  <2>2. Shows("summary", empty, data, n, f)
    BY <2>1
  <2> QED
    BY <2>1, <2>2, ShowsLines
<1>2. 0 \in G
  <2>1. Backed(f[0], data, 0)
    BY <1>1, RejectedCounts DEF Backed
  <2> QED
    BY <2>1
<1>3. ASSUME NEW k \in Nat, k \in G PROVE k + 1 \in G
  <2>1. SUFFICES ASSUME k + 1 <= n PROVE Backed(f[k + 1], data, k + 1)
    OBVIOUS
  <2>2. k + 1 \in 1 .. n /\ k <= n /\ (k + 1) - 1 = k
    BY <2>1
  <2>3. Backed(f[k], data, k)
    BY <1>3, <2>2
  <2>4. f[k + 1] = ReadAt("summary", f[k], data, k + 1)
    BY <1>1, <2>2
  <2> QED
    BY <2>3, <2>4, LineBacked
<1>4. Nat \subseteq G
  <2> HIDE DEF G
  <2> QED
    BY <1>2, <1>3, Naturals
<1> QED
  BY <1>4

\* A summary is what the lines come to, or the file ends in an unfinished one.
LEMMA SummaryRead ==
    ASSUME NEW q, IsSeq(q)
    PROVE  \E f : /\ Shows("summary", EmptySummary, q, Len(q), f)
                  /\ Summarize(q) = IF UnfinishedLine(q) = <<>> THEN f[Len(q)] ELSE Rejected
<1> DEFINE Once(g) ==
      g = [i \in 0 .. Len(q) |->
             IF i = 0 THEN EmptySummary
             ELSE LET before == g[i - 1]
                  IN  IF q[i].last THEN ConsumeLine(before, q, i) ELSE before]
           shown == CHOOSE g : Once(g)
<1>1. Summarize(q) = IF UnfinishedLine(q) = <<>> THEN shown[Len(q)] ELSE Rejected
  BY DEF Summarize
<1>2. Len(q) \in Nat
  BY SeqLen
<1>3. \A g : Once(g) <=> Shows("summary", EmptySummary, q, Len(q), g)
  BY DEF Shows, ReadAt
<1>4. Shows("summary", EmptySummary, q, Len(q), shown)
  <2>1. \E g : Shows("summary", EmptySummary, q, Len(q), g)
    BY <1>2, ShowsExists
  <2>2. \E g : Once(g)
    BY <1>3, <2>1
  <2>3. Once(shown)
    BY <2>2, Zenon
  <2> QED
    BY <1>3, <2>3
<1> HIDE DEF shown
<1> QED
  BY <1>1, <1>4

LEMMA SummaryBacked ==
    ASSUME NEW q, IsSeq(q)
    PROVE  Backed(Summarize(q), q, Len(q))
<1>1. PICK f : /\ Shows("summary", EmptySummary, q, Len(q), f)
               /\ Summarize(q) = IF UnfinishedLine(q) = <<>> THEN f[Len(q)] ELSE Rejected
  BY SummaryRead
<1>2. Len(q) \in Nat
  BY SeqLen
<1>3. Backed(f[Len(q)], q, Len(q))
  BY <1>1, <1>2, AllBacked
<1>4. Backed(Rejected, q, Len(q))
  BY RejectedCounts DEF Backed
<1> QED
  BY <1>1, <1>3, <1>4

LEMMA TruthPrefix ==
    ASSUME NEW p, NEW q, IsSeq(p), IsSeq(q), NEW r, NEW values, Truth(p \o q, r, values)
    PROVE  Truth(p, r, values)
<1>1. /\ Len(p) \in Nat /\ DOMAIN p = 1 .. Len(p)
      /\ Len(q) \in Nat /\ DOMAIN (p \o q) = 1 .. Len(p) + Len(q)
      /\ \A i \in 1 .. Len(p) : (p \o q)[i] = p[i]
  BY SeqLen, SeqJoin
<1>2. 1 .. Len(p) \subseteq 1 .. Len(p) + Len(q)
  BY <1>1
<1> QED
  BY <1>1, <1>2 DEF Truth

\* What is in the log is among all that was written to it.
LEMMA LogTold ==
    ASSUME FilesInv, NEW r, NEW values, Truth(Total("log"), r, values)
    PROVE  Truth(Log, r, values)
<1>1. IsSeq(files["log"]) /\ IsSeq(held["log"])
  BY DEF FilesInv, StreamInv, Streams
<1>2. Truth(files["log"] \o held["log"], r, values)
  BY DEF Total
<1>3. Truth(files["log"], r, values)
  BY <1>1, <1>2, TruthPrefix
<1> QED
  BY <1>3 DEF Log

LEMMA BlockTruly ==
    ASSUME FilesInv, BlockControl, BlockTold
    PROVE  BlockReportedTruly
<1>1. /\ outcome = "block_accepted" => block = "held"
      /\ outcome = "block_rejected" => block \in {"known", "refused"}
      /\ block # "none" => command = "solo-mine" /\ solo.submits = 1
  BY DEF BlockControl, Unasked
<1>2. ASSUME command = "solo-mine", pc # "idle" \/ client # "none"
      PROVE  /\ \A i \in EventsOf(Log, sink.run, "solo_block_submission_completed") :
                    Log[i].record.value \in NodeVerdicts
             /\ Summarize(Log).accepted /\ DOMAIN Summarize(Log).runs = {sink.run} =>
                    /\ Summarize(Log).acceptedBlocks > 0 => "accepted" \in NodeVerdicts
                    /\ Summarize(Log).rejectedBlocks > 0 =>
                           NodeVerdicts \cap {"rejected", "duplicate"} # {}
  <2>1. Truth(Log, sink.run, NodeVerdicts)
    BY <1>2, LogTold DEF BlockTold
  <2>2. IsSeq(Log)
    BY DEF FilesInv, StreamInv, Streams, Log
  <2>3. \A i \in EventsOf(Log, sink.run, "solo_block_submission_completed") :
            Log[i].record.value \in NodeVerdicts
    BY <2>1, <2>2, SeqLen DEF Truth, EventsOf, LinesOf, Submission
  <2>4. PICK summary : summary = Summarize(Log)
    OBVIOUS
  <2>5. Backed(summary, Log, Len(Log)) /\ DOMAIN Log = 1 .. Len(Log)
    BY <2>2, <2>4, SummaryBacked, SeqLen
  <2>6. NodeVerdicts \subseteq {"accepted", "rejected", "duplicate"}
    BY DEF NodeVerdicts, BlockControl, Fates
  <2>7. ASSUME NEW i \in 1 .. Len(Log), Tells(summary, Log[i].record),
               DOMAIN summary.runs = {sink.run}
        PROVE  Log[i].record.value \in NodeVerdicts
    BY <2>1, <2>5, <2>7 DEF Tells, Truth
  <2>8. DOMAIN summary.runs = {sink.run} =>
            /\ summary.acceptedBlocks > 0 => "accepted" \in NodeVerdicts
            /\ summary.rejectedBlocks > 0 => NodeVerdicts \cap {"rejected", "duplicate"} # {}
    BY <2>5, <2>6, <2>7 DEF Backed, TellsGood, TellsBad
  <2> QED
    BY <2>3, <2>4, <2>8
<1> QED
  BY <1>1, <1>2 DEF BlockReportedTruly

(* Whatever its replies lose on the way, what solo-mine says of its block  *)
(* is what the node said of it, in its outcome, the records of its run,    *)
(* and the blocks that a summary of that run alone counts: accepted when   *)
(* the node took it, rejected when it answered with a text, be it that it  *)
(* refused the block or that it holds or may hold it already.  No other    *)
(* command gave the node a block, and this one gave it one only.  A record *)
(* is true when it is written, as the verdict that ends                    *)
(* BitcoinCoreTemplateClient.submit_block is the node's answer to that     *)
(* very request or none at all; it stays true as the node is asked once;   *)
(* and the summary counts a block only where it has read such a record of  *)
(* a run it knows.                                                         *)
THEOREM BlockReportedAlways == Spec => []BlockReportedTruly
<1>1. Init => BlockControl /\ BlockTold
  BY BlockInit
<1>2. BaseInv /\ FilesInv /\ BlockControl /\ BlockTold /\ [Next]_vars => (BlockControl /\ BlockTold)'
  BY ControlStep, ToldStep DEF BaseInv
<1>3. FilesInv /\ BlockControl /\ BlockTold => BlockReportedTruly
  BY BlockTruly
<1> QED
  BY <1>1, <1>2, <1>3, FilesAlways, PTL DEF Spec

-------------------------------------------------------------------------------
(* What the two readers make of one record.                                 *)

Tallies == (CountedEvents \cap ShownEvents) \cup {"accepted", "rejected"}

\* What a record adds to what both readers count under a name.
Tally(c, record) ==
    OneIf(IF c \in {"accepted", "rejected"}
          THEN record.event = "share_submission_completed" /\ record.value = c
          ELSE record.event = c)

Adds(after, before, record) ==
    \A c \in Tallies : SharedCounts(after)[c] = SharedCounts(before)[c] + Tally(c, record)

CountsOf(of, names) ==
    /\ {"counts", "acceptedShares", "rejectedShares"} \subseteq DOMAIN of
    /\ of.counts = [e \in names |-> of.counts[e]]
    /\ \A e \in names : of.counts[e] \in Nat
    /\ of.acceptedShares \in Nat /\ of.rejectedShares \in Nat

SummaryShape(s) ==
    {"accepted", "runs", "records", "failures"} \subseteq DOMAIN s /\ CountsOf(s, CountedEvents)

ViewShape(v) ==
    /\ {"valid", "run", "status", "terminal", "rangeOpen", "visited", "best"} \subseteq DOMAIN v
    /\ CountsOf(v, ShownEvents) /\ v.terminal \in BOOLEAN

LEMMA SharedNames ==
    ASSUME NEW of
    PROVE  /\ DOMAIN SharedCounts(of) = Tallies
           /\ \A e \in CountedEvents \cap ShownEvents : SharedCounts(of)[e] = of.counts[e]
           /\ SharedCounts(of)["accepted"] = of.acceptedShares
           /\ SharedCounts(of)["rejected"] = of.rejectedShares
  BY DEF SharedCounts, Tallies, CountedEvents

\* What counts the event and the share counts it.
LEMMA CountsAdd ==
    ASSUME NEW names, CountedEvents \cap ShownEvents \subseteq names,
           NEW before, CountsOf(before, names), NEW after, NEW record,
           {"counts", "acceptedShares", "rejectedShares"} \subseteq DOMAIN after,
           after.counts = Counting(before.counts, record.event),
           after.acceptedShares = before.acceptedShares + Tally("accepted", record),
           after.rejectedShares = before.rejectedShares + Tally("rejected", record)
    PROVE  CountsOf(after, names) /\ Adds(after, before, record)
<1>1. \A c : Tally(c, record) \in Nat
  BY DEF Tally, OneIf
<1>2. after.counts = [e \in names |-> IF e = record.event THEN before.counts[e] + 1
                                      ELSE before.counts[e]]
  BY DEF Counting, CountsOf
<1>3. CountsOf(after, names)
  BY <1>1, <1>2 DEF CountsOf
<1>4. \A e \in CountedEvents \cap ShownEvents :
          after.counts[e] = before.counts[e] + Tally(e, record)
  <2>1. \A e \in CountedEvents \cap ShownEvents : e \notin {"accepted", "rejected"}
    BY DEF CountedEvents
  <2>2. \A e \in names : before.counts[e] \in Nat
    BY DEF CountsOf
  <2> QED
    BY <1>2, <2>1, <2>2 DEF Tally, OneIf
<1>5. Adds(after, before, record)
  BY <1>4, SharedNames DEF Adds, Tallies
<1> QED
  BY <1>3, <1>5

\* The runs behind a record the summary accepts.
Extends(after, runs, record) ==
    /\ DOMAIN after = DOMAIN runs \cup {record.run}
    /\ \A r \in DOMAIN runs : r # record.run => after[r] = runs[r]
    /\ after[record.run].terminal \in TerminalEvents <=> record.event \in TerminalEvents
    /\ record.run \in DOMAIN runs <=> record.event # "command_started"
    /\ record.run \in DOMAIN runs => runs[record.run].terminal \notin TerminalEvents

LEMMA RunsAfter ==
    ASSUME NEW runs, NEW record, RunAccepts(runs, record)
    PROVE  Extends(RunAfter(runs, record), runs, record)
<1> DEFINE after == RunAfter(runs, record)
<1>1. /\ DOMAIN after = DOMAIN runs \cup {record.run}
      /\ \A r \in DOMAIN runs : r # record.run => after[r] = runs[r]
      /\ after[record.run].terminal = IF record.event \in TerminalEvents THEN record.event ELSE "none"
  BY DEF RunAfter
<1>2. "none" \notin TerminalEvents
  BY DEF TerminalEvents
<1>3. /\ record.run \in DOMAIN runs <=> record.event # "command_started"
      /\ record.run \in DOMAIN runs => runs[record.run].terminal = "none"
  BY DEF RunAccepts
<1> QED
  BY <1>1, <1>2, <1>3 DEF Extends

LEMMA SummaryAdds ==
    ASSUME NEW s, SummaryShape(s), s.accepted, NEW record,
           RunAccepts(s.runs, record), SoloAccepts(s.runs, record)
    PROVE  LET after == ConsumeRecord(s, record)
           IN  /\ SummaryShape(after) /\ Adds(after, s, record)
               /\ Extends(after.runs, s.runs, record)
<1>1. PICK runs : runs = RunAfter(s.runs, record)
  OBVIOUS
<1>2. PICK a : a = AggregateCommand(s, record)
  OBVIOUS
<1>3. PICK b : b = AggregateStratum(a, record)
  OBVIOUS
<1>4. PICK c : c = AggregateSolo(b, record)
  OBVIOUS
<1>5. PICK after : after = [c EXCEPT !.runs = runs]
  OBVIOUS
<1>6. after = ConsumeRecord(s, record)
  BY <1>1, <1>2, <1>3, <1>4, <1>5 DEF ConsumeRecord
<1>7. /\ DOMAIN a = DOMAIN s /\ a.counts = s.counts
      /\ a.acceptedShares = s.acceptedShares /\ a.rejectedShares = s.rejectedShares
  BY <1>2 DEF AggregateCommand
<1>8. /\ DOMAIN b = DOMAIN a /\ b.counts = Counting(a.counts, record.event)
      /\ b.acceptedShares = a.acceptedShares + Tally("accepted", record)
      /\ b.rejectedShares = a.rejectedShares + Tally("rejected", record)
  BY <1>3, <1>7 DEF AggregateStratum, Tally, SummaryShape, CountsOf
<1>9. /\ DOMAIN c = DOMAIN b /\ c.counts = b.counts
      /\ c.acceptedShares = b.acceptedShares /\ c.rejectedShares = b.rejectedShares
  BY <1>4 DEF AggregateSolo
<1>10. /\ DOMAIN after = DOMAIN c /\ after.counts = c.counts /\ after.runs = runs
       /\ after.acceptedShares = c.acceptedShares /\ after.rejectedShares = c.rejectedShares
  BY <1>5, <1>7, <1>8, <1>9 DEF SummaryShape
<1>11. CountsOf(after, CountedEvents) /\ Adds(after, s, record)
  <2>1. CountsOf(s, CountedEvents) /\ CountedEvents \cap ShownEvents \subseteq CountedEvents
    BY DEF SummaryShape
  <2>2. /\ {"counts", "acceptedShares", "rejectedShares"} \subseteq DOMAIN after
        /\ after.counts = Counting(s.counts, record.event)
        /\ after.acceptedShares = s.acceptedShares + Tally("accepted", record)
        /\ after.rejectedShares = s.rejectedShares + Tally("rejected", record)
    BY <1>7, <1>8, <1>9, <1>10, <2>1 DEF CountsOf
  <2> QED
    BY <2>1, <2>2, CountsAdd
<1>12. SummaryShape(after)
  BY <1>7, <1>8, <1>9, <1>10, <1>11 DEF SummaryShape
<1>13. Extends(runs, s.runs, record)
  BY <1>1, RunsAfter
<1> QED
  BY <1>6, <1>10, <1>11, <1>12, <1>13

\* What most events leave as it is.
Alike(w, v) ==
    /\ DOMAIN w = DOMAIN v /\ w.run = v.run /\ w.valid = v.valid
    /\ w.terminal = v.terminal /\ w.best = v.best /\ w.counts = v.counts
    /\ w.acceptedShares = v.acceptedShares /\ w.rejectedShares = v.rejectedShares

ViewFields == {"valid", "run", "status", "terminal", "rangeOpen", "visited", "best", "counts",
               "acceptedShares", "rejectedShares"}

LEMMA SessionAlike ==
    ASSUME NEW v, ViewFields \subseteq DOMAIN v, NEW record
    PROVE  Alike(ApplySession(v, record), v)
  BY DEF ApplySession, Alike, ViewFields

LEMMA RecoveryAlike ==
    ASSUME NEW v, ViewFields \subseteq DOMAIN v, NEW record
    PROVE  Alike(ApplyRecovery(v, record), v)
  BY DEF ApplyRecovery, Alike, ViewFields

LEMMA WorkAlike ==
    ASSUME NEW v, ViewFields \subseteq DOMAIN v, NEW record
    PROVE  Alike(ApplyWork(v, record), v)
  BY DEF ApplyWork, ResetVariant, Alike, ViewFields

\* A record a view of the run can take.
Fits(v, record) ==
    /\ record.event = "share_submission_completed" => record.value \in {"accepted", "rejected"}
    /\ record.event = "best_hash_improved" => record.value < v.best

LEMMA SharesApplied ==
    ASSUME NEW v, ViewFields \subseteq DOMAIN v, v.acceptedShares \in Nat, v.rejectedShares \in Nat,
           NEW record, Fits(v, record)
    PROVE  LET w == ApplyShares(v, record)
           IN  /\ DOMAIN w = DOMAIN v /\ w.run = v.run /\ w.valid = v.valid
               /\ w.terminal = v.terminal /\ w.counts = v.counts
               /\ w.acceptedShares = v.acceptedShares + Tally("accepted", record)
               /\ w.rejectedShares = v.rejectedShares + Tally("rejected", record)
               /\ w.best = IF record.event = "best_hash_improved" THEN record.value ELSE v.best
<1>1. CASE record.event = "best_hash_improved"
  <2>1. Tally("accepted", record) = 0 /\ Tally("rejected", record) = 0
    BY <1>1 DEF Tally, OneIf
  <2>2. ApplyShares(v, record) = [v EXCEPT !.best = record.value]
    BY <1>1 DEF ApplyShares, Fits
  <2> QED
    BY <1>1, <2>1, <2>2 DEF ViewFields
<1>2. CASE record.event = "share_submission_completed"
  <2>1. CASE record.value = "accepted"
    <3>1. Tally("accepted", record) = 1 /\ Tally("rejected", record) = 0
      BY <1>2, <2>1 DEF Tally, OneIf
    <3>2. ApplyShares(v, record) = [v EXCEPT !.acceptedShares = @ + 1]
      BY <1>2, <2>1 DEF ApplyShares
    <3> QED
      BY <1>2, <3>1, <3>2 DEF ViewFields
  <2>2. CASE record.value = "rejected"
    <3>1. Tally("accepted", record) = 0 /\ Tally("rejected", record) = 1
      BY <1>2, <2>2 DEF Tally, OneIf
    <3>2. ApplyShares(v, record) = [v EXCEPT !.rejectedShares = @ + 1]
      BY <1>2, <2>2 DEF ApplyShares
    <3> QED
      BY <1>2, <3>1, <3>2 DEF ViewFields
  <2> QED
    BY <1>2, <2>1, <2>2 DEF Fits
<1>3. CASE record.event \notin {"best_hash_improved", "share_submission_completed"}
  <2>1. Tally("accepted", record) = 0 /\ Tally("rejected", record) = 0
    BY <1>3 DEF Tally, OneIf
  <2>2. ApplyShares(v, record) = v
    BY <1>3 DEF ApplyShares
  <2> QED
    BY <1>3, <2>1, <2>2
<1> QED
  BY <1>1, <1>2, <1>3

LEMMA TerminalApplied ==
    ASSUME NEW v, ViewFields \subseteq DOMAIN v, v.terminal \in BOOLEAN, NEW record
    PROVE  LET w == ApplyTerminal(v, record)
           IN  /\ DOMAIN w = DOMAIN v /\ w.run = v.run /\ w.valid = v.valid
               /\ w.terminal \in BOOLEAN
               /\ w.terminal <=> v.terminal \/ record.event \in TerminalEvents
               /\ w.counts = v.counts /\ w.best = v.best
               /\ w.acceptedShares = v.acceptedShares /\ w.rejectedShares = v.rejectedShares
  BY DEF ApplyTerminal, TerminalEvents, ViewFields

Continued(after, v, record) ==
    /\ ViewShape(after) /\ Adds(after, v, record)
    /\ after.run = v.run /\ after.valid = v.valid
    /\ after.terminal <=> v.terminal \/ record.event \in TerminalEvents
    /\ after.best = IF record.event = "best_hash_improved" THEN record.value ELSE v.best

LEMMA ViewAdds ==
    ASSUME NEW v, ViewShape(v), NEW record, Fits(v, record),
           v.run # 0, record.run = v.run, record.event # "command_started"
    PROVE  Continued(Apply(v, record), v, record)
<1>1. PICK a : a = [v EXCEPT !.counts = Counting(@, record.event)]
  OBVIOUS
<1>2. PICK b : b = ApplySession(a, record)
  OBVIOUS
<1>3. PICK c : c = ApplyRecovery(b, record)
  OBVIOUS
<1>4. PICK d : d = ApplyWork(c, record)
  OBVIOUS
<1>5. PICK e : e = ApplyShares(d, record)
  OBVIOUS
<1>6. PICK after : after = ApplyTerminal(e, record)
  OBVIOUS
<1>7. Apply(v, record) = after
  BY <1>1, <1>2, <1>3, <1>4, <1>5, <1>6 DEF Apply
<1>8. ViewFields \subseteq DOMAIN v /\ CountsOf(v, ShownEvents) /\ v.terminal \in BOOLEAN
      /\ v.acceptedShares \in Nat /\ v.rejectedShares \in Nat
  BY DEF ViewShape, ViewFields, CountsOf
<1>9. /\ DOMAIN a = DOMAIN v /\ a.run = v.run /\ a.valid = v.valid
      /\ a.terminal = v.terminal /\ a.best = v.best
      /\ a.acceptedShares = v.acceptedShares /\ a.rejectedShares = v.rejectedShares
      /\ a.counts = Counting(v.counts, record.event)
  BY <1>1, <1>8 DEF ViewFields
<1>10. Alike(b, a)
  BY <1>2, <1>8, <1>9, SessionAlike
<1>11. Alike(c, b)
  BY <1>3, <1>8, <1>9, <1>10, RecoveryAlike DEF Alike
<1>12. Alike(d, c)
  BY <1>4, <1>8, <1>9, <1>10, <1>11, WorkAlike DEF Alike
<1>13. /\ DOMAIN d = DOMAIN v /\ d.run = v.run /\ d.valid = v.valid
       /\ d.terminal = v.terminal /\ d.best = v.best
       /\ d.acceptedShares = v.acceptedShares /\ d.rejectedShares = v.rejectedShares
       /\ d.counts = Counting(v.counts, record.event)
  BY <1>9, <1>10, <1>11, <1>12 DEF Alike
<1>14. ViewFields \subseteq DOMAIN d /\ Fits(d, record)
       /\ d.acceptedShares \in Nat /\ d.rejectedShares \in Nat
  BY <1>8, <1>13 DEF Fits
<1>15. /\ DOMAIN e = DOMAIN d /\ e.run = d.run /\ e.valid = d.valid
       /\ e.terminal = d.terminal /\ e.counts = d.counts
       /\ e.acceptedShares = d.acceptedShares + Tally("accepted", record)
       /\ e.rejectedShares = d.rejectedShares + Tally("rejected", record)
       /\ e.best = IF record.event = "best_hash_improved" THEN record.value ELSE d.best
  BY <1>5, <1>14, SharesApplied
<1>16. ViewFields \subseteq DOMAIN e /\ e.terminal \in BOOLEAN
  BY <1>8, <1>13, <1>14, <1>15
<1>17. /\ DOMAIN after = DOMAIN e /\ after.run = e.run /\ after.valid = e.valid
       /\ after.terminal \in BOOLEAN
       /\ after.terminal <=> e.terminal \/ record.event \in TerminalEvents
       /\ after.counts = e.counts /\ after.best = e.best
       /\ after.acceptedShares = e.acceptedShares /\ after.rejectedShares = e.rejectedShares
  BY <1>6, <1>16, TerminalApplied
<1>18. CountsOf(after, ShownEvents) /\ Adds(after, v, record)
  <2>1. CountedEvents \cap ShownEvents \subseteq ShownEvents
    OBVIOUS
  <2>2. /\ {"counts", "acceptedShares", "rejectedShares"} \subseteq DOMAIN after
        /\ after.counts = Counting(v.counts, record.event)
        /\ after.acceptedShares = v.acceptedShares + Tally("accepted", record)
        /\ after.rejectedShares = v.rejectedShares + Tally("rejected", record)
    BY <1>8, <1>13, <1>15, <1>17 DEF ViewFields
  <2> QED
    BY <1>8, <2>1, <2>2, CountsAdd
<1>19. ViewShape(after)
  BY <1>13, <1>15, <1>17, <1>18 DEF ViewShape
<1> QED
  BY <1>7, <1>13, <1>15, <1>17, <1>18, <1>19 DEF Continued

LEMMA NoRunShape ==
    /\ ViewShape(NoRun) /\ NoRun.valid /\ NoRun.run = 0 /\ ~NoRun.terminal
    /\ NoRun.best = NoBestHash /\ \A c \in Tallies : SharedCounts(NoRun)[c] = 0
<1> DEFINE counts == [event \in ShownEvents |-> 0]
<1>1. NoRun = [valid |-> TRUE, run |-> 0, status |-> "waiting", terminal |-> FALSE,
               rangeOpen |-> FALSE, visited |-> 0, best |-> NoBestHash, counts |-> counts,
               acceptedShares |-> 0, rejectedShares |-> 0]
  BY DEF NoRun
<1>2. counts = [e \in ShownEvents |-> counts[e]] /\ \A e \in ShownEvents : counts[e] = 0
  OBVIOUS
<1> HIDE DEF counts
<1>3. /\ DOMAIN NoRun = ViewFields /\ NoRun.valid /\ NoRun.run = 0 /\ NoRun.terminal = FALSE
      /\ NoRun.best = NoBestHash /\ NoRun.counts = counts
      /\ NoRun.acceptedShares = 0 /\ NoRun.rejectedShares = 0
  BY <1>1 DEF ViewFields
<1>4. ViewShape(NoRun)
  <2>1. /\ NoRun.counts = [e \in ShownEvents |-> NoRun.counts[e]]
        /\ \A e \in ShownEvents : NoRun.counts[e] \in Nat
    BY <1>2, <1>3
  <2>2. CountsOf(NoRun, ShownEvents)
    BY <1>3, <2>1 DEF CountsOf, ViewFields
  <2>3. NoRun.terminal \in BOOLEAN
    BY <1>3, Zenon
  <2>4. {"valid", "run", "status", "terminal", "rangeOpen", "visited", "best"} \subseteq DOMAIN NoRun
    BY <1>3 DEF ViewFields
  <2> QED
    BY <2>2, <2>3, <2>4 DEF ViewShape
<1>5. \A c \in Tallies : SharedCounts(NoRun)[c] = 0
  <2>1. \A e \in CountedEvents \cap ShownEvents : NoRun.counts[e] = 0
    BY <1>2, <1>3
  <2> QED
    BY <1>3, <2>1, SharedNames DEF Tallies
<1> QED
  BY <1>3, <1>4, <1>5

LEMMA ViewStarts ==
    ASSUME NEW record
    PROVE  LET after == ResetForRun(record)
           IN  /\ ViewShape(after) /\ after.valid /\ after.run = record.run /\ ~after.terminal
               /\ after.best = NoBestHash /\ \A c \in Tallies : SharedCounts(after)[c] = 0
<1>1. PICK after : after = ResetForRun(record)
  OBVIOUS
<1>2. /\ DOMAIN after = DOMAIN NoRun /\ after.run = record.run /\ after.valid = NoRun.valid
      /\ after.terminal = NoRun.terminal /\ after.best = NoRun.best
      /\ after.counts = NoRun.counts
      /\ after.acceptedShares = NoRun.acceptedShares /\ after.rejectedShares = NoRun.rejectedShares
  BY <1>1, NoRunShape DEF ResetForRun, ViewShape, CountsOf
<1>3. ViewShape(after)
  BY <1>2, NoRunShape DEF ViewShape, CountsOf
<1>4. \A c \in Tallies : SharedCounts(after)[c] = SharedCounts(NoRun)[c]
  <2>1. \A e \in CountedEvents \cap ShownEvents : after.counts[e] = NoRun.counts[e]
    BY <1>2
  <2> QED
    BY <1>2, <2>1, SharedNames DEF Tallies
<1> QED
  BY <1>1, <1>2, <1>3, <1>4, NoRunShape

LEMMA EmptyShape ==
    /\ SummaryShape(EmptySummary) /\ EmptySummary.accepted /\ DOMAIN EmptySummary.runs = {}
    /\ \A c \in Tallies : SharedCounts(EmptySummary)[c] = 0
<1> DEFINE counts == [event \in CountedEvents |-> 0]
           runs == [r \in {} |-> <<>>]
<1>1. EmptySummary =
        [accepted |-> TRUE, runs |-> runs, records |-> 0, failures |-> 0, counts |-> counts,
         acceptedShares |-> 0, rejectedShares |-> 0, acceptedBlocks |-> 0, rejectedBlocks |-> 0]
  BY DEF EmptySummary
<1>2. /\ counts = [e \in CountedEvents |-> counts[e]] /\ DOMAIN runs = {}
      /\ \A e \in CountedEvents : counts[e] = 0
  OBVIOUS
<1> HIDE DEF counts, runs
<1>3. /\ {"accepted", "runs", "records", "failures", "counts", "acceptedShares", "rejectedShares"}
              \subseteq DOMAIN EmptySummary
      /\ EmptySummary.accepted /\ EmptySummary.runs = runs /\ EmptySummary.counts = counts
      /\ EmptySummary.acceptedShares = 0 /\ EmptySummary.rejectedShares = 0
  BY <1>1
<1>4. SummaryShape(EmptySummary)
  <2>1. /\ EmptySummary.counts = [e \in CountedEvents |-> EmptySummary.counts[e]]
        /\ \A e \in CountedEvents : EmptySummary.counts[e] \in Nat
    BY <1>2, <1>3
  <2> QED
    BY <1>3, <2>1 DEF SummaryShape, CountsOf
<1>5. \A c \in Tallies : SharedCounts(EmptySummary)[c] = 0
  <2>1. \A e \in CountedEvents \cap ShownEvents : EmptySummary.counts[e] = 0
    BY <1>2, <1>3
  <2> QED
    BY <1>3, <2>1, SharedNames DEF Tallies
<1>6. DOMAIN EmptySummary.runs = {}
  BY <1>2, <1>3, Zenon
<1> QED
  BY <1>3, <1>4, <1>5, <1>6, Zenon

-------------------------------------------------------------------------------
(* What the two readers agree on, line by line.                             *)

ImprovedAt(q, i) == q[i].last /\ q[i].record.event = "best_hash_improved"

\* A share has a verdict, and a best hash is better than none.
Proper(record) ==
    /\ record.event = "share_submission_completed" => record.value \in {"accepted", "rejected"}
    /\ record.event = "best_hash_improved" => record.value \in Nat /\ record.value < NoBestHash

LawfulAt(q, i) == q[i].record.run # 0 /\ Proper(q[i].record)

Improves(q) ==
    \A i, j \in DOMAIN q :
        i < j /\ ImprovedAt(q, i) /\ ImprovedAt(q, j) /\ q[i].record.run = q[j].record.run =>
            q[j].record.value < q[i].record.value

\* A log in which every run's best hashes improve, and every record is proper.
Lawful(q) == Improves(q) /\ \A i \in DOMAIN q : q[i].last => LawfulAt(q, i)

KnowsRun(v, s) ==
    v.run # 0 =>
        v.run \in DOMAIN s.runs /\ (v.terminal <=> s.runs[v.run].terminal \in TerminalEvents)

AtMost(v, s) ==
    \A c \in Tallies :
        /\ SharedCounts(v)[c] \in Nat /\ SharedCounts(s)[c] \in Nat
        /\ SharedCounts(v)[c] <= SharedCounts(s)[c]

Alone(v, s) ==
    v.run # 0 /\ DOMAIN s.runs = {v.run} =>
        \A c \in Tallies : SharedCounts(v)[c] = SharedCounts(s)[c]

Untouched(s) == DOMAIN s.runs = {} => \A c \in Tallies : SharedCounts(s)[c] = 0

BestRead(v, q, n) ==
    \/ v.best = NoBestHash
    \/ \E i \in 1 .. n :
          ImprovedAt(q, i) /\ q[i].record.run = v.run /\ q[i].record.value = v.best

\* What v shows of the first n half lines of q and s counts in them.
Agreed(v, s, q, n) ==
    s.accepted =>
        /\ SummaryShape(s) /\ ViewShape(v) /\ v.valid
        /\ KnowsRun(v, s) /\ AtMost(v, s) /\ Alone(v, s) /\ Untouched(s)
        /\ BestRead(v, q, n)

LEMMA AgreedFirst ==
    ASSUME NEW q
    PROVE  Agreed(NoRun, EmptySummary, q, 0)
  BY NoRunShape, EmptyShape
     DEF Agreed, KnowsRun, AtMost, Alone, Untouched, BestRead

LEMMA TallyNat ==
    ASSUME NEW c, NEW record
    PROVE  Tally(c, record) \in Nat
  BY DEF Tally, OneIf

\* A record of the run that is shown.
LEMMA RecordShown ==
    ASSUME NEW v, NEW s, NEW q, NEW n \in Nat, s.accepted, Agreed(v, s, q, n),
           Lawful(q), n + 1 \in DOMAIN q, q[n + 1].last, 1 .. n \subseteq DOMAIN q,
           NEW record, record = q[n + 1].record,
           RunAccepts(s.runs, record), SoloAccepts(s.runs, record),
           v.run # 0, record.run = v.run
    PROVE  Agreed(Apply(v, record), ConsumeRecord(s, record), q, n + 1)
<1>1. /\ SummaryShape(s) /\ ViewShape(v) /\ v.valid
      /\ KnowsRun(v, s) /\ AtMost(v, s) /\ Alone(v, s)
      /\ BestRead(v, q, n)
  BY DEF Agreed
<1>2. PICK t : t = ConsumeRecord(s, record)
  OBVIOUS
<1>3. PICK w : w = Apply(v, record)
  OBVIOUS
<1>4. SummaryShape(t) /\ Adds(t, s, record) /\ Extends(t.runs, s.runs, record)
  BY <1>1, <1>2, SummaryAdds
<1>5. v.run \in DOMAIN s.runs
  BY <1>1 DEF KnowsRun
<1>6. /\ DOMAIN t.runs = DOMAIN s.runs
      /\ t.runs[v.run].terminal \in TerminalEvents <=> record.event \in TerminalEvents
      /\ s.runs[v.run].terminal \notin TerminalEvents
      /\ record.event # "command_started"
  BY <1>4, <1>5 DEF Extends
<1>7. LawfulAt(q, n + 1) /\ Improves(q)
  BY DEF Lawful
<1>8. Fits(v, record)
  <2>1. SUFFICES ASSUME record.event = "best_hash_improved"
                 PROVE  record.value < v.best
    BY <1>7 DEF LawfulAt, Proper, Fits
  <2>2. ImprovedAt(q, n + 1) /\ record.value < NoBestHash
    BY <1>7, <2>1 DEF ImprovedAt, LawfulAt, Proper
  <2>3. CASE v.best = NoBestHash
    BY <2>2, <2>3
  <2>4. ASSUME NEW i \in 1 .. n, ImprovedAt(q, i), q[i].record.run = v.run,
               q[i].record.value = v.best
        PROVE  record.value < v.best
    <3>1. i < n + 1 /\ i \in DOMAIN q
      BY <2>4
    <3> QED
      BY <1>7, <2>2, <2>4, <3>1 DEF Improves
  <2> QED
    BY <1>1, <2>3, <2>4 DEF BestRead
<1>9. /\ ViewShape(w) /\ Adds(w, v, record)
      /\ w.run = v.run /\ w.valid = v.valid
      /\ w.terminal <=> v.terminal \/ record.event \in TerminalEvents
      /\ w.best = IF record.event = "best_hash_improved" THEN record.value ELSE v.best
  <2>1. Continued(w, v, record)
    BY <1>1, <1>3, <1>6, <1>8, ViewAdds
  <2> QED
    BY <2>1 DEF Continued
<1>10. KnowsRun(w, t)
  <2>1. ~v.terminal
    BY <1>1, <1>6 DEF KnowsRun
  <2> QED
    BY <1>5, <1>6, <1>9, <2>1 DEF KnowsRun
<1>11. AtMost(w, t)
  BY <1>1, <1>4, <1>9, TallyNat DEF AtMost, Adds
<1>12. Alone(w, t)
  BY <1>1, <1>4, <1>6, <1>9 DEF Alone, Adds
<1>13. Untouched(t)
  BY <1>5, <1>6 DEF Untouched
<1>14. BestRead(w, q, n + 1)
  <2>1. n + 1 \in 1 .. n + 1 /\ 1 .. n \subseteq 1 .. n + 1
    OBVIOUS
  <2>2. CASE record.event = "best_hash_improved"
    BY <1>9, <2>1, <2>2 DEF BestRead, ImprovedAt
  <2>3. CASE record.event # "best_hash_improved"
    BY <1>1, <1>9, <2>1, <2>3 DEF BestRead
  <2> QED
    BY <2>2, <2>3
<1> QED
  BY <1>1, <1>2, <1>3, <1>4, <1>9, <1>10, <1>11, <1>12, <1>13, <1>14 DEF Agreed

\* A record of another run leaves the view as it is.
LEMMA RecordElsewhere ==
    ASSUME NEW v, NEW s, NEW q, NEW n \in Nat, s.accepted, Agreed(v, s, q, n),
           NEW record, record.run # 0,
           RunAccepts(s.runs, record), SoloAccepts(s.runs, record),
           v.run = 0 \/ record.run # v.run
    PROVE  Agreed(v, ConsumeRecord(s, record), q, n + 1)
<1>1. /\ SummaryShape(s) /\ ViewShape(v) /\ v.valid
      /\ KnowsRun(v, s) /\ AtMost(v, s) /\ Alone(v, s)
      /\ BestRead(v, q, n)
  BY DEF Agreed
<1>2. PICK t : t = ConsumeRecord(s, record)
  OBVIOUS
<1>3. SummaryShape(t) /\ Adds(t, s, record) /\ Extends(t.runs, s.runs, record)
  BY <1>1, <1>2, SummaryAdds
<1>4. /\ DOMAIN t.runs = DOMAIN s.runs \cup {record.run}
      /\ \A r \in DOMAIN s.runs : r # record.run => t.runs[r] = s.runs[r]
  BY <1>3 DEF Extends
<1>5. KnowsRun(v, t)
  BY <1>1, <1>4 DEF KnowsRun
<1>6. AtMost(v, t)
  <2>1. \A c \in Tallies : Tally(c, record) \in Nat
    BY TallyNat
  <2> QED
    BY <1>1, <1>3, <2>1 DEF AtMost, Adds
<1>7. Alone(v, t)
  BY <1>1, <1>4 DEF Alone
<1>8. Untouched(t)
  BY <1>4 DEF Untouched
<1>9. BestRead(v, q, n + 1)
  <2>1. 1 .. n \subseteq 1 .. n + 1
    OBVIOUS
  <2> QED
    BY <1>1, <2>1 DEF BestRead
<1> QED
  BY <1>1, <1>2, <1>3, <1>5, <1>6, <1>7, <1>8, <1>9 DEF Agreed

\* A new run is shown from its beginning.
LEMMA RecordBegins ==
    ASSUME NEW v, NEW s, NEW q, NEW n \in Nat, s.accepted, Agreed(v, s, q, n),
           NEW record, record.event = "command_started",
           RunAccepts(s.runs, record), SoloAccepts(s.runs, record)
    PROVE  Agreed(ResetForRun(record), ConsumeRecord(s, record), q, n + 1)
<1>1. SummaryShape(s) /\ AtMost(v, s) /\ Untouched(s)
  BY DEF Agreed
<1>2. PICK t : t = ConsumeRecord(s, record)
  OBVIOUS
<1>3. PICK w : w = ResetForRun(record)
  OBVIOUS
<1>4. SummaryShape(t) /\ Adds(t, s, record) /\ Extends(t.runs, s.runs, record)
  BY <1>1, <1>2, SummaryAdds
<1>5. /\ DOMAIN t.runs = DOMAIN s.runs \cup {record.run} /\ record.run \notin DOMAIN s.runs
      /\ t.runs[record.run].terminal \in TerminalEvents <=> record.event \in TerminalEvents
  BY <1>4 DEF Extends
<1>6. /\ ViewShape(w) /\ w.valid /\ w.run = record.run /\ ~w.terminal
      /\ w.best = NoBestHash /\ \A c \in Tallies : SharedCounts(w)[c] = 0
  BY <1>3, ViewStarts
<1>7. \A c \in Tallies : Tally(c, record) = 0
  BY DEF Tally, OneIf, Tallies, CountedEvents
<1>8. KnowsRun(w, t)
  BY <1>5, <1>6 DEF KnowsRun, TerminalEvents
<1>9. \A c \in Tallies : SharedCounts(t)[c] = SharedCounts(s)[c] /\ SharedCounts(s)[c] \in Nat
  BY <1>1, <1>4, <1>7 DEF AtMost, Adds
<1>10. AtMost(w, t)
  BY <1>6, <1>9 DEF AtMost
<1>11. Alone(w, t)
  <2>1. DOMAIN t.runs = {w.run} => DOMAIN s.runs = {}
    BY <1>5, <1>6
  <2> QED
    BY <1>1, <1>6, <1>9, <2>1 DEF Alone, Untouched
<1>12. Untouched(t)
  BY <1>5 DEF Untouched
<1>13. BestRead(w, q, n + 1)
  BY <1>6 DEF BestRead
<1> QED
  BY <1>2, <1>3, <1>4, <1>6, <1>8, <1>10, <1>11, <1>12, <1>13 DEF Agreed

LEMMA LineAgreed ==
    ASSUME NEW v, NEW s, NEW q, NEW n \in Nat, Agreed(v, s, q, n),
           Lawful(q), n + 1 \in DOMAIN q, 1 .. n \subseteq DOMAIN q
    PROVE  Agreed(ReadAt("view", v, q, n + 1), ReadAt("summary", s, q, n + 1), q, n + 1)
<1>1. PICK t : t = ReadAt("summary", s, q, n + 1)
  OBVIOUS
<1>2. PICK w : w = ReadAt("view", v, q, n + 1)
  OBVIOUS
<1>3. w = LineApplied(v, q, n + 1)
  BY <1>2 DEF ReadAt
<1>4. CASE ~t.accepted
  BY <1>1, <1>2, <1>4 DEF Agreed
<1>5. CASE ~q[n + 1].last
  <2>1. t = s /\ w = v
    BY <1>1, <1>3, <1>5 DEF ReadAt, LineApplied
  <2>2. 1 .. n \subseteq 1 .. n + 1
    OBVIOUS
  <2>3. Agreed(v, s, q, n + 1)
    BY <2>2 DEF Agreed, BestRead
  <2> QED
    BY <1>1, <1>2, <2>1, <2>3
<1>6. CASE t.accepted /\ q[n + 1].last
  <2> DEFINE record == q[n + 1].record
  <2>1. ~Rejected.accepted
    BY EmptyShape DEF Rejected, SummaryShape
  <2>2. t = ConsumeLine(s, q, n + 1)
    BY <1>1, <1>6 DEF ReadAt
  <2>3. s.accepted /\ WellFormed(q, n + 1) /\ t = ConsumeRecord(s, record)
    BY <1>6, <2>1, <2>2 DEF ConsumeLine
  <2>4. RunAccepts(s.runs, record) /\ SoloAccepts(s.runs, record)
    BY <1>6, <2>1, <2>3 DEF ConsumeRecord
  <2>5. v.valid
    BY <2>3 DEF Agreed
  <2>6. w = Apply(v, record)
    BY <1>3, <1>6, <2>3, <2>5 DEF LineApplied
  <2>7. record.run # 0
    BY <1>6 DEF Lawful, LawfulAt, Proper
  <2> HIDE DEF record
  <2>8. record = q[n + 1].record
    BY DEF record
  <2>9. Agreed(w, t, q, n + 1)
    <3>1. CASE v.run # 0 /\ record.run = v.run
      BY <1>6, <2>3, <2>4, <2>6, <2>8, <3>1, RecordShown
    <3>2. CASE v.run = 0 \/ record.run # v.run
      <4>1. \/ Apply(v, record) = v
            \/ record.event = "command_started" /\ Apply(v, record) = ResetForRun(record)
        BY <3>2, Zenon DEF Apply
      <4>2. CASE Apply(v, record) = v
        BY <2>3, <2>4, <2>6, <2>7, <3>2, <4>2, RecordElsewhere
      <4>3. CASE record.event = "command_started" /\ Apply(v, record) = ResetForRun(record)
        BY <2>3, <2>4, <2>6, <4>3, RecordBegins
      <4> QED
        BY <4>1, <4>2, <4>3
    <3> QED
      BY <3>1, <3>2
  <2> QED
    BY <1>1, <1>2, <2>9
<1> QED
  BY <1>4, <1>5, <1>6

LEMMA AllAgreed ==
    ASSUME NEW q, IsSeq(q), Lawful(q),
           NEW f, Shows("summary", EmptySummary, q, Len(q), f),
           NEW g, Shows("view", NoRun, q, Len(q), g)
    PROVE  Agreed(g[Len(q)], f[Len(q)], q, Len(q))
<1>1. PICK n : n = Len(q) /\ n \in Nat /\ DOMAIN q = 1 .. n
  BY SeqLen
<1> DEFINE G == {k \in Nat : k <= n => Agreed(g[k], f[k], q, k)}
<1>2. f[0] = EmptySummary /\ \A i \in 1 .. n : f[i] = ReadAt("summary", f[i - 1], q, i)
  <2>1. PICK empty : empty = EmptySummary
    OBVIOUS
  <2>2. Shows("summary", empty, q, n, f)
    BY <1>1, <2>1
  <2> QED
    BY <1>1, <2>1, <2>2, ShowsLines
<1>3. g[0] = NoRun /\ \A i \in 1 .. n : g[i] = ReadAt("view", g[i - 1], q, i)
  <2>1. PICK empty : empty = NoRun
    OBVIOUS
  <2>2. Shows("view", empty, q, n, g)
    BY <1>1, <2>1
  <2>3. g[0] = empty /\ \A i \in 1 .. n : g[i] = ReadAt("view", g[i - 1], q, i)
    BY <1>1, <2>2 DEF Shows
  <2> QED
    BY <2>1, <2>3, Zenon
<1>4. 0 \in G
  <2>1. Agreed(g[0], f[0], q, 0)
    BY <1>2, <1>3, AgreedFirst
  <2> QED
    BY <2>1
<1>5. ASSUME NEW k \in Nat, k \in G PROVE k + 1 \in G
  <2>1. SUFFICES ASSUME k + 1 <= n PROVE Agreed(g[k + 1], f[k + 1], q, k + 1)
    OBVIOUS
  <2>2. k + 1 \in 1 .. n /\ k <= n /\ (k + 1) - 1 = k /\ 1 .. k \subseteq 1 .. n
    BY <1>1, <2>1
  <2>3. Agreed(g[k], f[k], q, k)
    BY <1>5, <2>2
  <2>4. /\ f[k + 1] = ReadAt("summary", f[k], q, k + 1)
        /\ g[k + 1] = ReadAt("view", g[k], q, k + 1)
    BY <1>2, <1>3, <2>2
  <2> QED
    BY <1>1, <2>2, <2>3, <2>4, LineAgreed
<1>6. Nat \subseteq G
  <2> HIDE DEF G
  <2> QED
    BY <1>4, <1>5, Naturals
<1> QED
  BY <1>1, <1>6

\* The two readers of a lawful log agree.
LEMMA ReadersMeet ==
    ASSUME NEW q, IsSeq(q), Lawful(q), Summarize(q).accepted
    PROVE  Agreed(Project(NoRun, q), Summarize(q), q, Len(q))
<1>1. Len(q) \in Nat
  BY SeqLen
<1>2. PICK f : /\ Shows("summary", EmptySummary, q, Len(q), f)
               /\ Summarize(q) = IF UnfinishedLine(q) = <<>> THEN f[Len(q)] ELSE Rejected
  BY SummaryRead
<1>3. PICK g : Shows("view", NoRun, q, Len(q), g)
  BY <1>1, ShowsExists
<1>4. Project(NoRun, q) = g[Len(q)]
  <2>1. PICK v : v = NoRun
    OBVIOUS
  <2>2. Shows("view", v, q, Len(q), g)
    BY <1>3, <2>1
  <2>3. Project(v, q) = g[Len(q)]
    BY <2>2, ProjectShows
  <2> QED
    BY <2>1, <2>3
<1>5. Summarize(q) = f[Len(q)]
  <2>1. ~Rejected.accepted
    BY EmptyShape DEF Rejected, SummaryShape
  <2>2. PICK s : s = Summarize(q) /\ s.accepted
    OBVIOUS
  <2> QED
    BY <1>2, <2>1, <2>2
<1> QED
  BY <1>2, <1>3, <1>4, <1>5, AllAgreed

-------------------------------------------------------------------------------
(* What the commands write is lawful.                                       *)

Improving(q) == Improves(q) /\ \A i \in DOMAIN q : Proper(q[i].record)

\* No best hash of run r is below b.
Above(q, r, b) ==
    \A i \in DOMAIN q : ImprovedAt(q, i) /\ q[i].record.run = r => b <= q[i].record.value

LEMMA StretchImproves ==
    ASSUME NEW p, NEW q, IsSeq(p), Stretch(p, q)
    PROVE  /\ Improving(q) => Improving(p)
           /\ \A r, b : Above(q, r, b) => Above(p, r, b)
<1>1. PICK k \in Nat : \A i \in DOMAIN p : k + i \in DOMAIN q /\ p[i] = q[k + i]
  BY DEF Stretch
<1>2. DOMAIN p \subseteq Nat
  BY SeqLen
<1>3. ASSUME Improving(q) PROVE Improving(p)
  <2>1. \A i \in DOMAIN p : Proper(p[i].record)
    BY <1>1, <1>3 DEF Improving
  <2>2. ASSUME NEW i \in DOMAIN p, NEW j \in DOMAIN p, i < j, ImprovedAt(p, i), ImprovedAt(p, j),
               p[i].record.run = p[j].record.run
        PROVE  p[j].record.value < p[i].record.value
    <3>1. /\ p[i] = q[k + i] /\ p[j] = q[k + j]
          /\ k + i \in DOMAIN q /\ k + j \in DOMAIN q
      BY <1>1
    <3>2. k + i < k + j
      BY <1>2, <2>2
    <3> QED
      BY <1>3, <2>2, <3>1, <3>2 DEF Improving, Improves, ImprovedAt
  <2> QED
    BY <2>1, <2>2 DEF Improving, Improves
<1>4. ASSUME NEW r, NEW b, Above(q, r, b) PROVE Above(p, r, b)
  BY <1>1, <1>4 DEF Above, ImprovedAt
<1> QED
  BY <1>3, <1>4

\* What follows q when a record is written.
Followed(t, q, record) ==
    /\ IsSeq(t) /\ Len(q) \in Nat
    /\ DOMAIN t = 1 .. Len(q) + 2 /\ DOMAIN q = 1 .. Len(q)
    /\ \A i \in 1 .. Len(q) : t[i] = q[i]
    /\ t[Len(q) + 1] = [record |-> record, last |-> FALSE]
    /\ t[Len(q) + 2] = [record |-> record, last |-> TRUE]

LEMMA RecordFollows ==
    ASSUME NEW q, IsSeq(q), NEW record
    PROVE  Followed(q \o Halves(record), q, record)
<1> DEFINE line == Halves(record)
           t == q \o line
<1>1. IsSeq(line) /\ Len(line) = 2
      /\ line[1] = [record |-> record, last |-> FALSE]
      /\ line[2] = [record |-> record, last |-> TRUE]
  BY HalvesOf
<1> HIDE DEF line
<1>2. Len(q) \in Nat /\ DOMAIN q = 1 .. Len(q)
  BY SeqLen
<1>3. /\ IsSeq(t) /\ Len(t) = Len(q) + Len(line)
      /\ \A i \in 1 .. Len(q) : t[i] = q[i]
      /\ \A i \in 1 .. Len(line) : t[Len(q) + i] = line[i]
  <2>1. IsSeq(line)
    BY <1>1
  <2> QED
    BY <2>1, SeqJoin
<1> HIDE DEF t
<1>4. DOMAIN t = 1 .. Len(q) + 2
  BY <1>1, <1>3, SeqLen
<1>5. t[Len(q) + 1] = line[1] /\ t[Len(q) + 2] = line[2]
  <2>1. 1 \in 1 .. Len(line) /\ 2 \in 1 .. Len(line)
    BY <1>1
  <2> QED
    BY <1>3, <2>1
<1>6. Followed(t, q, record)
  BY <1>1, <1>2, <1>3, <1>4, <1>5 DEF Followed
<1> QED
  BY <1>6 DEF t, line

\* One more record: its best hash is below what run r had.
LEMMA RecordImproves ==
    ASSUME NEW q, IsSeq(q), Improving(q), NEW record, Proper(record), NEW b \in Nat,
           Above(q, record.run, b),
           record.event = "best_hash_improved" => record.value < b
    PROVE  /\ Improving(q \o Halves(record))
           /\ \A n \in Nat : n <= b /\ (record.event = "best_hash_improved" => n <= record.value)
                  => Above(q \o Halves(record), record.run, n)
<1>1. PICK t : t = q \o Halves(record)
  OBVIOUS
<1>2. Followed(t, q, record)
  BY <1>1, RecordFollows
<1>4. /\ Len(q) \in Nat /\ DOMAIN t = 1 .. Len(q) + 2 /\ DOMAIN q = 1 .. Len(q)
      /\ \A i \in 1 .. Len(q) : t[i] = q[i]
      /\ t[Len(q) + 1] = [record |-> record, last |-> FALSE]
      /\ t[Len(q) + 2] = [record |-> record, last |-> TRUE]
  BY <1>2 DEF Followed
<1>5. \A i \in DOMAIN t :
          \/ i \in DOMAIN q /\ t[i] = q[i] /\ (ImprovedAt(t, i) <=> ImprovedAt(q, i))
          \/ i = Len(q) + 1 /\ ~ImprovedAt(t, i) /\ t[i].record = record
          \/ i = Len(q) + 2 /\ t[i].record = record
  <2>1. \A i \in DOMAIN q : t[i] = q[i] /\ (ImprovedAt(t, i) <=> ImprovedAt(q, i))
    BY <1>4 DEF ImprovedAt
  <2>2. ~ImprovedAt(t, Len(q) + 1) /\ t[Len(q) + 1].record = record
    BY <1>4 DEF ImprovedAt
  <2>3. t[Len(q) + 2].record = record
    BY <1>4
  <2>4. \A i \in DOMAIN t : i \in DOMAIN q \/ i = Len(q) + 1 \/ i = Len(q) + 2
    BY <1>4
  <2> QED
    BY <2>1, <2>2, <2>3, <2>4
<1>6. Improving(t)
  <2>1. \A i \in DOMAIN t : Proper(t[i].record)
    BY <1>5 DEF Improving
  <2>2. ASSUME NEW i \in DOMAIN t, NEW j \in DOMAIN t, i < j, ImprovedAt(t, i), ImprovedAt(t, j),
               t[i].record.run = t[j].record.run
        PROVE  t[j].record.value < t[i].record.value
    <3>1. CASE j \in DOMAIN q
      <4>1. i \in DOMAIN q
        BY <1>4, <2>2, <3>1
      <4>2. t[i] = q[i] /\ t[j] = q[j] /\ ImprovedAt(q, i) /\ ImprovedAt(q, j)
        BY <1>4, <1>5, <2>2, <3>1, <4>1
      <4> QED
        BY <2>2, <3>1, <4>1, <4>2 DEF Improving, Improves
    <3>2. CASE j \notin DOMAIN q
      <4>1. j = Len(q) + 2 /\ t[j].record = record /\ record.event = "best_hash_improved"
        BY <1>5, <2>2, <3>2 DEF ImprovedAt
      <4>2. i \in DOMAIN q /\ t[i] = q[i] /\ ImprovedAt(q, i)
        BY <1>4, <1>5, <2>2, <4>1
      <4>3. b <= q[i].record.value /\ record.value < b
        BY <2>2, <4>1, <4>2 DEF Above
      <4>4. q[i].record.value \in Nat /\ record.value \in Nat
        BY <4>1, <4>2 DEF Improving, ImprovedAt, Proper
      <4> QED
        BY <4>1, <4>2, <4>3, <4>4
    <3> QED
      BY <3>1, <3>2
  <2> QED
    BY <2>1, <2>2 DEF Improving, Improves
<1>7. ASSUME NEW n \in Nat, n <= b, record.event = "best_hash_improved" => n <= record.value
      PROVE  Above(t, record.run, n)
  <2> SUFFICES ASSUME NEW i \in DOMAIN t, ImprovedAt(t, i), t[i].record.run = record.run
               PROVE  n <= t[i].record.value
    BY DEF Above
  <2>1. CASE i \in DOMAIN q
    <3>1. t[i] = q[i] /\ ImprovedAt(q, i)
      BY <1>4, <1>5, <2>1
    <3>2. b <= q[i].record.value
      BY <2>1, <3>1 DEF Above
    <3>3. q[i].record.value \in Nat
      BY <2>1, <3>1 DEF Improving, ImprovedAt, Proper
    <3> QED
      BY <1>7, <3>1, <3>2, <3>3
  <2>2. CASE i \notin DOMAIN q
    <3>1. t[i].record = record /\ record.event = "best_hash_improved"
      BY <1>5, <2>2 DEF ImprovedAt
    <3> QED
      BY <1>7, <3>1
  <2> QED
    BY <2>1, <2>2
<1> QED
  BY <1>1, <1>6, <1>7

\* What is in the log and in its buffer is a stretch of what was written.
LEMMA EmissionStretch ==
    ASSUME FilesInv, NEW line, IsSeq(line), Emission(line)
    PROVE  /\ IsSeq(Total("log")) /\ IsSeq(Total("log")')
           /\ Stretch(Total("log")', Total("log") \o line)
<1>1. "log" \in Streams
  BY DEF Streams
<1>2. IsSeq(Total("log"))
  BY <1>1, SeqJoin DEF FilesInv, StreamInv, Total
<1>3. CASE files'["log"] = files["log"] /\ held'["log"] = held["log"]
  <2>1. Total("log")' = Total("log")
    BY <1>3 DEF Total
  <2> QED
    BY <1>2, <2>1, StretchJoin
<1>4. CASE Grown("log", line)
  <2>1. /\ Stretch(Total("log")', Total("log") \o line)
        /\ IsSeq(files'["log"]) /\ IsSeq(held'["log"])
    BY <1>4 DEF Grown, GrowsBy, Total
  <2>2. IsSeq(files'["log"] \o held'["log"])
    BY <2>1, SeqJoin
  <2> QED
    BY <1>2, <2>1, <2>2 DEF Total
<1> QED
  BY <1>1, <1>3, <1>4 DEF Emission

(* How the search of a session gets on: a best hash is reported where it is better, a *)
(* verdict where there is one.                                                        *)
Progress ==
    /\ {"step", "hash", "best", "match", "verdict", "fresh", "stale", "back", "error", "heard",
        "notices", "attempts", "ranges", "losses", "turns", "stopped"} \subseteq DOMAIN session
    /\ session.best \in Nat /\ session.best <= NoBestHash
    /\ session.step = "improve" => session.hash \in Nat /\ session.hash < session.best
    /\ session.step = "verdict" => session.verdict \in {"accepted", "rejected"}

\* The step has nothing to do with the best hash, or with a verdict.
Onward ==
    /\ Progress' /\ session'.best = session.best
    /\ session.step \notin {"improve", "verdict"}

USE DEF At, Observe, ObserveSetup, Say, Done, Step, Continue, Fails, Escape, Raise, SomeError,
   Progress, Onward

LEMMA SetupOnward ==
    ASSUME SessionTyped, Progress,
           \/ SetupFails \/ WorkFails \/ Connect \/ Authorize
           \/ HearDifficulty \/ HearJob \/ Observed
    PROVE  Onward
<1>1. CASE SetupFails \/ WorkFails
  BY <1>1 DEF SetupFails, WorkFails
<1>2. CASE Connect
  BY <1>2 DEF Connect
<1>3. CASE Authorize
  BY <1>3 DEF Authorize
<1>4. CASE HearDifficulty \/ HearJob
  BY <1>4 DEF HearDifficulty, HearJob, Listen, Heard
<1>5. CASE Observed
  BY <1>5 DEF Observed
<1> QED
  BY <1>1, <1>2, <1>3, <1>4, <1>5

LEMMA WorkOnward ==
    ASSUME SessionTyped, Progress, WorkReady \/ WorkAdvanced \/ RangeStarted
    PROVE  Onward
<1>1. CASE WorkReady
  BY <1>1 DEF WorkReady, Installed
<1>2. CASE WorkAdvanced
  BY <1>2 DEF WorkAdvanced
<1>3. CASE RangeStarted
  BY <1>3 DEF RangeStarted
<1> QED
  BY <1>1, <1>2, <1>3

LEMMA RangeOnward ==
    ASSUME SessionTyped, Progress, RangeCompleted
    PROVE  Onward
<1>1. PICK hash \in Hashes, match \in BOOLEAN :
         Observe("nonce_range_completed", "INFO", "none",
                 Continue([session EXCEPT
                             !.ranges = @ + 1,
                             !.match = match,
                             !.hash = hash,
                             !.step = IF hash < session.best THEN "improve"
                                      ELSE AfterRange(match)]))
  BY Zenon DEF RangeCompleted
<1>2. hash \in Nat /\ AfterRange(match) \in {"candidate", "next"}
  BY SessionAssumption DEF AfterRange
<1>3. PICK next : /\ next = IF hash < session.best THEN "improve" ELSE AfterRange(match)
                  /\ next = "improve" => hash < session.best
                  /\ next # "verdict"
  BY <1>2
<1>4. \/ session' = [session EXCEPT !.ranges = @ + 1, !.match = match, !.hash = hash,
                                    !.step = next]
      \/ session' = session
      \/ session' = [session EXCEPT !.step = "stale_failed", !.error = "log"]
  BY <1>1, <1>3
<1>5. session.step = "search"
  BY DEF RangeCompleted
<1> QED
  BY <1>2, <1>3, <1>4, <1>5

LEMMA ShareOnward ==
    ASSUME SessionTyped, Progress,
           CandidateFound \/ SubmitShare \/ Answered
    PROVE  Onward
<1>1. CASE CandidateFound
  BY <1>1 DEF CandidateFound
<1>2. CASE SubmitShare
  BY <1>2 DEF SubmitShare
<1>3. CASE Answered
  BY <1>3 DEF Answered
<1> QED
  BY <1>1, <1>2, <1>3

LEMMA JobOnward ==
    ASSUME SessionTyped, Progress,
           \/ LimitReached \/ NextRange \/ JobReceived \/ JobReplaced
           \/ DuplicateIgnored \/ NonceSpaceExhausted
    PROVE  Onward
<1>1. CASE LimitReached
  BY <1>1 DEF LimitReached
<1>2. CASE NextRange
  BY <1>2 DEF NextRange
<1>3. CASE JobReceived
  BY <1>3 DEF JobReceived, Hearing
<1>4. CASE JobReplaced
  BY <1>4 DEF JobReplaced, Installed
<1>5. CASE DuplicateIgnored
  BY <1>5 DEF DuplicateIgnored, SessionTyped
<1>6. CASE NonceSpaceExhausted
  BY <1>6 DEF NonceSpaceExhausted
<1> QED
  BY <1>1, <1>2, <1>3, <1>4, <1>5, <1>6

LEMMA VariantOnward ==
    ASSUME SessionTyped, Progress,
           \/ ExtraNonceAdvances \/ CycleCompleted \/ NetworkTimeRolled
           \/ WaitingForJob \/ StopRequested
    PROVE  Onward
<1> USE DEF NextVariant
<1>1. CASE ExtraNonceAdvances
  BY <1>1 DEF ExtraNonceAdvances
<1>2. CASE CycleCompleted
  BY <1>2 DEF CycleCompleted
<1>3. CASE NetworkTimeRolled
  BY <1>3 DEF NetworkTimeRolled
<1>4. CASE WaitingForJob
  BY <1>4 DEF WaitingForJob
<1>5. CASE StopRequested
  BY <1>5 DEF StopRequested, Hearing
<1> QED
  BY <1>1, <1>2, <1>3, <1>4, <1>5

LEMMA StaleOnward ==
    ASSUME SessionTyped, Progress,
           \/ ConnectionLost \/ LivenessWarning \/ SessionStale
           \/ StaleReconnectStarted \/ StaleReconnectSucceeded \/ StaleReconnectFailed
    PROVE  Onward
<1>1. CASE ConnectionLost
  BY <1>1 DEF ConnectionLost, Hearing
<1>2. CASE LivenessWarning
  BY <1>2 DEF LivenessWarning, Hearing
<1>3. CASE SessionStale
  BY <1>3 DEF SessionStale
<1>4. CASE StaleReconnectStarted
  BY <1>4 DEF StaleReconnectStarted
<1>5. CASE StaleReconnectSucceeded
  BY <1>5 DEF StaleReconnectSucceeded
<1>6. CASE StaleReconnectFailed
  BY <1>6 DEF StaleReconnectFailed
<1> QED
  BY <1>1, <1>2, <1>3, <1>4, <1>5, <1>6

LEMMA ReconnectOnward ==
    ASSUME SessionTyped, Progress,
           \/ ReconnectScheduled \/ ReconnectAttempted
           \/ ReconnectFailed \/ ReconnectExhausted
    PROVE  Onward
<1>1. CASE ReconnectScheduled
  BY <1>1 DEF ReconnectScheduled
<1>2. CASE ReconnectAttempted
  BY <1>2 DEF ReconnectAttempted
<1>3. CASE ReconnectFailed
  BY <1>3 DEF ReconnectFailed
<1>4. CASE ReconnectExhausted
  BY <1>4 DEF ReconnectExhausted
<1> QED
  BY <1>1, <1>2, <1>3, <1>4

HIDE DEF At, Observe, ObserveSetup, Say, Done, Step, Continue, Fails, Escape, Raise, SomeError,
   Progress, Onward

\* What is written with a value the readers compare.
Valued == {"best_hash_improved", "share_submission_completed"}

\* The session may still write a best hash.
Hashing == pc \in Preparing \cup {"session"} /\ session.step # "stale_failed"

\* What a step of a command writes of best hashes and shares.
Unvalued == LogQuiet \/ \E event : event \notin Valued /\ (Written(event) \/ Lost(event))

Answers ==
    \E value \in {"accepted", "rejected"} : \E level \in Levels :
        \/ Emit("share_submission_completed", level, value)
        \/ EmitFails("share_submission_completed", level, value)

Betters ==
    /\ Hashing /\ session.hash \in Nat /\ session.hash < session.best
    /\ \E level \in Levels :
          \/ Emit("best_hash_improved", level, session.hash) /\ session'.best = session.hash
          \/ EmitFails("best_hash_improved", level, session.hash) /\ ~Hashing'

BestMoves ==
    /\ Progress' /\ (Hashing' => Hashing)
    /\ (session'.best = session.best /\ (Unvalued \/ Answers)) \/ Betters

LEMMA ImprovedMoves ==
    ASSUME SessionTyped, Progress, BestHashImproved
    PROVE  Progress' /\ Betters
<1>1. /\ pc = "session" /\ session.step = "improve"
      /\ \/ /\ Emit("best_hash_improved", "INFO", session.hash)
            /\ session' = [session EXCEPT !.best = session.hash, !.step = AfterRange(session.match)]
         \/ /\ EmitFails("best_hash_improved", "INFO", session.hash)
            /\ \/ session' = [session EXCEPT !.step = "stale_failed", !.error = "log"]
               \/ session' = session /\ pc' = "except"
  BY DEF BestHashImproved, At, Observe, Say, Continue, Fails, Escape, Raise
<1>2. PICK next : next = AfterRange(session.match) /\ next \in {"candidate", "next"}
  BY DEF AfterRange
<1>3. session.hash \in Nat /\ session.hash < session.best
  BY <1>1 DEF Progress
<1>4. Hashing /\ "INFO" \in Levels
  BY <1>1 DEF Hashing, Levels
<1>5. CASE /\ Emit("best_hash_improved", "INFO", session.hash)
           /\ session' = [session EXCEPT !.best = session.hash, !.step = AfterRange(session.match)]
  <2>1. session' = [session EXCEPT !.best = session.hash, !.step = next]
    BY <1>2, <1>5
  <2>2. Progress' /\ session'.best = session.hash
    BY <1>2, <1>3, <2>1 DEF Progress, NoBestHash
  <2> QED
    BY <1>3, <1>4, <1>5, <2>2 DEF Betters
<1>6. CASE /\ EmitFails("best_hash_improved", "INFO", session.hash)
           /\ \/ session' = [session EXCEPT !.step = "stale_failed", !.error = "log"]
              \/ session' = session /\ pc' = "except"
  <2>1. Progress' /\ ~Hashing'
    BY <1>6 DEF Progress, Hashing, Preparing
  <2> QED
    BY <1>3, <1>4, <1>6, <2>1 DEF Betters
<1> QED
  BY <1>1, <1>5, <1>6

LEMMA SubmittedMoves ==
    ASSUME SessionTyped, Progress, SubmissionCompleted
    PROVE  Progress' /\ session'.best = session.best /\ Answers
<1> USE DEF At, Observe, Say, Done, Step, Continue, Fails, Escape, Raise
<1>1. Progress' /\ session'.best = session.best
  BY DEF SubmissionCompleted, Progress
<1>2. PICK level : level = IF session.verdict = "accepted" THEN "INFO" ELSE "WARNING"
  OBVIOUS
<1>3. level \in Levels
  BY <1>2 DEF Levels
<1>4. \/ Emit("share_submission_completed", level, session.verdict)
      \/ EmitFails("share_submission_completed", level, session.verdict)
  BY <1>2 DEF SubmissionCompleted
<1>5. session.verdict \in {"accepted", "rejected"}
  BY DEF SubmissionCompleted, Progress
<1> QED
  BY <1>1, <1>3, <1>4, <1>5 DEF Answers

LEMMA StopMoves ==
    ASSUME SessionTyped, Progress, StopObserved
    PROVE  Progress' /\ session'.best = session.best /\ Unvalued
<1>1. Progress' /\ session'.best = session.best
  BY DEF StopObserved, Progress, At, Observe, Say, Continue, Fails, Escape, Raise
<1>2. Written("mining_stop_requested") \/ Lost("mining_stop_requested")
  BY StopObservedMoves DEF SessionWrites
<1> QED
  BY <1>1, <1>2 DEF Unvalued, Valued

LEMMA SessionBest ==
    ASSUME SessionTyped, Progress, SessionNext
    PROVE  BestMoves
<1>1. SessionStep
  BY SessionSteps
<1>2. Hashing' => Hashing
  BY <1>1 DEF SessionStep, SessionMoves, Hashing, Preparing
<1>3. CASE BestHashImproved
  BY <1>2, <1>3, ImprovedMoves DEF BestMoves
<1>4. CASE SubmissionCompleted
  BY <1>2, <1>4, SubmittedMoves DEF BestMoves
<1>5. CASE StopObserved
  BY <1>2, <1>5, StopMoves DEF BestMoves
<1>6. CASE ~BestHashImproved /\ ~SubmissionCompleted /\ ~StopObserved
  <2>1. Onward
    BY <1>6, SetupOnward, WorkOnward, RangeOnward, ShareOnward, JobOnward, VariantOnward,
       StaleOnward, ReconnectOnward DEF SessionNext
  <2>2. \A event : Noted(event) => event \notin Valued
    BY <2>1 DEF Onward, Noted, Valued
  <2>3. Unvalued
    BY <1>1, <2>2 DEF SessionStep, SessionWrites, Unvalued
  <2> QED
    BY <1>2, <2>1, <2>3 DEF Onward, BestMoves
<1> QED
  BY <1>3, <1>4, <1>5, <1>6

LEMMA NothingValued ==
    ASSUME Effect, pc # "session"
    PROVE  Unvalued
<1>1. \A event : Noted(event) => event \notin Valued
  BY DEF Noted, Valued
<1>2. "command_failed" \notin Valued /\ "command_completed" \notin Valued
  BY DEF Valued
<1>3. \A event : (Wrote(event) \/ Failed(event)) /\ event \notin Valued => Unvalued
  BY DEF Wrote, Failed, Unvalued
<1>4. \A event : WrittenAs(event, outcome) => Written(event)
  BY DEF Written
<1>5. CASE Silent
  BY <1>5 DEF Silent, Unvalued
<1>6. CASE \E event : Noted(event) /\ Notes(event)
  BY <1>1, <1>3, <1>6 DEF Notes
<1>7. CASE ReportsFailure
  BY <1>2, <1>3, <1>7 DEF ReportsFailure
<1>8. CASE ReportsCompletion
  BY <1>2, <1>3, <1>4, <1>8 DEF ReportsCompletion, Unvalued
<1> QED
  BY <1>5, <1>6, <1>7, <1>8 DEF Effect

LEMMA CommandBest ==
    ASSUME Kept, Progress,
           \/ /\ Start \/ Prepare \/ Except \/ Cleanup \/ Finish
              /\ UNCHANGED <<sessionVars, soloVars>>
           \/ SessionNext /\ UNCHANGED soloVars
           \/ SoloNext /\ UNCHANGED sessionVars
    PROVE  BestMoves
<1>1. Effect /\ Underway
  BY CommandSteps DEF CommandStep, FrameStep
<1>2. SoloTyped /\ SessionTyped
  BY DEF Kept
<1>3. CASE /\ Start \/ Prepare \/ Except \/ Cleanup \/ Finish
           /\ UNCHANGED <<sessionVars, soloVars>>
  <2>1. pc # "session"
    BY <1>3 DEF Start, Prepare, InterruptFrame, Settings, ResolveProfile, SelectBackend,
       SelectStrategy, AnnounceStrategy, InstallHandlers, Except, ExceptBounded, ExceptOnce,
       ExceptContinuous, Cleanup, CloseClient, RestoreHandlers, CloseBackend, Finish
  <2>2. session' = session
    BY <1>3 DEF sessionVars
  <2>3. CASE Start \/ (Prepare /\ ~InterruptFrame)
    <3>1. pc \in Preparing
      BY <2>3 DEF Start, Prepare, Settings, ResolveProfile, SelectBackend,
         SelectStrategy, AnnounceStrategy, InstallHandlers, Preparing
    <3> QED
      BY <1>1, <2>1, <2>2, <3>1, NothingValued DEF BestMoves, Progress, Hashing
  <2>4. CASE Except \/ Cleanup \/ Finish
    <3>1. Leaves
      BY <2>4, EndingLeaves
    <3> QED
      BY <1>1, <2>1, <2>2, <3>1, NothingValued DEF BestMoves, Progress, Hashing, Leaves
  <2>5. CASE InterruptFrame
    <3>1. Leaves
      BY <1>1, <2>5 DEF InterruptFrame, Interrupted, Leaves, Underway, Preparing
    <3> QED
      BY <1>1, <2>1, <2>2, <3>1, NothingValued DEF BestMoves, Progress, Hashing, Leaves
  <2> QED
    BY <1>3, <2>3, <2>4, <2>5
<1>4. CASE SessionNext /\ UNCHANGED soloVars
  BY <1>2, <1>4, SessionBest
<1>5. CASE (SoloSetup \/ SoloSession) /\ UNCHANGED sessionVars
  <2>1. SoloMoves /\ SoloLog
    BY <1>2, <1>5, SoloSteps
  <2>2. session' = session /\ pc = "session" /\ command \in BitcoinCommands
    BY <1>5, <2>1 DEF sessionVars, SoloMoves
  <2>3. \A event : Noted(event) => event \notin Valued
    BY <2>2 DEF Noted, Valued
  <2>4. Unvalued
    BY <2>1, <2>3 DEF SoloLog, SoloWrites, Unvalued
  <2> QED
    BY <2>2, <2>4 DEF BestMoves, Progress, Hashing
<1>6. CASE SoloNext /\ ~(SoloSetup \/ SoloSession) /\ UNCHANGED sessionVars
  <2>1. pc # "session"
    BY <1>6 DEF SoloNext, ExceptSolo, SoloCleanupBegins, RestoreSoloHandlers,
       CloseSoloBackend, CloseSoloClient, InterruptSoloCleanup, SoloResult, SoloFinish, Reached
  <2>2. Leaves /\ session' = session
    BY <1>6, SoloEndingLeaves DEF sessionVars
  <2> QED
    BY <1>1, <2>1, <2>2, NothingValued DEF BestMoves, Progress, Hashing, Leaves
<1> QED
  BY <1>3, <1>4, <1>5, <1>6

LEMMA BestKinds ==
    ASSUME Kept, Progress, [Next]_vars
    PROVE  (Running /\ BestMoves) \/ Begins \/ Closes \/ Dies \/ Elsewhere \/ Rotates
<1>1. CASE Command /\ UNCHANGED dashVars /\ ~BeginCommand /\ ~(AroundSession /\ Close)
  <2>1. \/ /\ Start \/ Prepare \/ Except \/ Cleanup \/ Finish
           /\ UNCHANGED <<sessionVars, soloVars>>
        \/ SessionNext /\ UNCHANGED soloVars
        \/ SoloNext /\ UNCHANGED sessionVars
    BY <1>1 DEF Command, AroundSession
  <2>2. rotations' = rotations
    BY <1>1 DEF dashVars
  <2> QED
    BY <2>1, <2>2, CommandSteps, CommandBest DEF Running
<1>2. CASE AroundSession /\ Close /\ UNCHANGED dashVars
  BY <1>2 DEF AroundSession, Closes, dashVars
<1>3. CASE BeginCommand /\ UNCHANGED dashVars
  BY <1>3 DEF Begins, dashVars
<1>4. CASE Killed /\ UNCHANGED dashVars
  BY <1>4 DEF Dies, dashVars
<1>5. CASE Poll /\ UNCHANGED <<logVars, commandVars>>
  BY <1>5 DEF Poll, Look, Read, Elsewhere
<1>6. CASE Rotate /\ UNCHANGED commandVars
  BY <1>6 DEF Rotates
<1>7. CASE UNCHANGED vars
  BY <1>7 DEF vars, dashVars, Elsewhere
<1> QED
  BY <1>1, <1>2, <1>3, <1>4, <1>5, <1>6, <1>7 DEF Next

\* Every run's best hashes get better, down to the best of its session.
BestTold ==
    /\ Improving(Total("log"))
    /\ Hashing => Above(Total("log"), sink.run, session.best)

LEMMA AboveNothing ==
    ASSUME NEW q, Improving(q), NEW r
    PROVE  Above(q, r, 0)
  BY DEF Improving, Above, ImprovedAt, Proper

LEMMA RecordWritten ==
    ASSUME FilesInv, NEW record, Emission(Halves(record)), Proper(record),
           Improving(Total("log")), NEW b \in Nat, Above(Total("log"), record.run, b),
           record.event = "best_hash_improved" => record.value < b
    PROVE  /\ Improving(Total("log")')
           /\ \A n \in Nat : n <= b /\ (record.event = "best_hash_improved" => n <= record.value)
                  => Above(Total("log")', record.run, n)
<1>1. IsSeq(Halves(record))
  BY HalvesOf
<1>2. /\ IsSeq(Total("log")) /\ IsSeq(Total("log")')
      /\ Stretch(Total("log")', Total("log") \o Halves(record))
  BY <1>1, EmissionStretch
<1>3. PICK q : q = Total("log")
  OBVIOUS
<1>4. IsSeq(q) /\ Improving(q) /\ Above(q, record.run, b)
  BY <1>2, <1>3
<1>5. /\ Improving(q \o Halves(record))
      /\ \A n \in Nat : n <= b /\ (record.event = "best_hash_improved" => n <= record.value)
             => Above(q \o Halves(record), record.run, n)
  BY <1>4, RecordImproves
<1>6. PICK t : t = Total("log")'
  OBVIOUS
<1>7. IsSeq(t) /\ Stretch(t, q \o Halves(record))
  BY <1>2, <1>3, <1>6
<1>8. /\ Improving(q \o Halves(record)) => Improving(t)
      /\ \A r, n : Above(q \o Halves(record), r, n) => Above(t, r, n)
  BY <1>7, StretchImproves
<1> QED
  BY <1>5, <1>6, <1>8

LEMMA BestStep ==
    ASSUME BaseInv, FilesInv, Progress, BestTold, [Next]_vars
    PROVE  Progress' /\ BestTold'
<1>1. Kept /\ SinkTyped /\ Runs
  BY DEF BaseInv
<1>2. CASE Running /\ BestMoves
  <2>1. sink'.run = sink.run
    BY <1>1, <1>2, RunningSink DEF SameSink
  <2>2. Progress' /\ (Hashing' => Hashing)
    BY <1>2 DEF BestMoves
  <2>3. ASSUME NEW event, NEW value, Emission(Halves(Record(event, value))),
               Proper(Record(event, value)), event # "best_hash_improved",
               session'.best = session.best
        PROVE  BestTold'
    <3>1. PICK record : record = Record(event, value)
      OBVIOUS
    <3>2. record.run = sink.run /\ record.event # "best_hash_improved"
      BY <2>3, <3>1 DEF Record
    <3>3. Emission(Halves(record)) /\ Proper(record)
      BY <2>3, <3>1
    <3>4. Improving(Total("log")) /\ 0 \in Nat
      BY DEF BestTold
    <3>5. Above(Total("log"), record.run, 0)
      BY <3>4, AboveNothing
    <3>6. Improving(Total("log")')
      BY <3>2, <3>3, <3>4, <3>5, RecordWritten
    <3>7. ASSUME Hashing PROVE Above(Total("log")', sink.run, session.best)
      <4>1. session.best \in Nat /\ session.best <= session.best
        BY DEF Progress
      <4>2. Above(Total("log"), record.run, session.best)
        BY <3>2, <3>7 DEF BestTold
      <4>3. Above(Total("log")', record.run, session.best)
        BY <3>2, <3>3, <3>4, <4>1, <4>2, RecordWritten
      <4> QED
        BY <3>2, <4>3
    <3> QED
      BY <2>1, <2>2, <2>3, <3>6, <3>7 DEF BestTold
  <2>4. CASE session'.best = session.best /\ LogQuiet
    BY <2>1, <2>2, <2>4 DEF BestTold, LogQuiet, Total
  <2>5. CASE /\ session'.best = session.best
             /\ \E event : event \notin Valued /\ (Written(event) \/ Lost(event))
    <3>1. PICK event : event \notin Valued /\ (Written(event) \/ Lost(event))
      BY <2>5
    <3>2. PICK value : Emission(Halves(Record(event, value)))
      BY <3>1, WritesGrow
    <3>3. Proper(Record(event, value)) /\ event # "best_hash_improved"
      BY <3>1 DEF Proper, Record, Valued
    <3> QED
      BY <2>2, <2>3, <2>5, <3>2, <3>3
  <2>6. CASE session'.best = session.best /\ Answers
    <3>1. PICK value \in {"accepted", "rejected"}, level \in Levels :
             \/ Emit("share_submission_completed", level, value)
             \/ EmitFails("share_submission_completed", level, value)
      BY <2>6 DEF Answers
    <3>2. Emission(Halves(Record("share_submission_completed", value)))
      BY <3>1, EmitGrows
    <3>3. Proper(Record("share_submission_completed", value))
      BY <3>1 DEF Proper, Record
    <3>4. "share_submission_completed" # "best_hash_improved"
      OBVIOUS
    <3> QED
      BY <2>2, <2>3, <2>6, <3>2, <3>3, <3>4
  <2>7. CASE Betters
    <3>1. PICK level \in Levels :
             \/ Emit("best_hash_improved", level, session.hash) /\ session'.best = session.hash
             \/ EmitFails("best_hash_improved", level, session.hash) /\ ~Hashing'
      BY <2>7 DEF Betters
    <3>2. PICK record : record = Record("best_hash_improved", session.hash)
      OBVIOUS
    <3>3. Emission(Halves(record))
      BY <3>1, <3>2, EmitGrows
    <3>4. /\ record.run = sink.run /\ record.event = "best_hash_improved"
          /\ record.value = session.hash
      BY <3>2 DEF Record
    <3>5. /\ session.hash \in Nat /\ session.hash < session.best /\ session.best \in Nat
          /\ session.best <= NoBestHash /\ Hashing
      BY <2>7 DEF Betters, Progress
    <3>6. Proper(record)
      BY <3>4, <3>5 DEF Proper, NoBestHash
    <3>7. Improving(Total("log")) /\ Above(Total("log"), record.run, session.best)
      BY <3>4, <3>5 DEF BestTold
    <3>8. /\ Improving(Total("log")')
          /\ \A n \in Nat : n <= session.best /\ n <= record.value
                 => Above(Total("log")', record.run, n)
      BY <3>3, <3>4, <3>5, <3>6, <3>7, RecordWritten
    <3>9. session.hash <= session.best /\ session.hash <= record.value
      BY <3>4, <3>5
    <3>10. Above(Total("log")', sink.run, session.hash)
      BY <3>4, <3>5, <3>8, <3>9
    <3> QED
      BY <2>1, <2>2, <3>1, <3>8, <3>10 DEF BestTold
  <2> QED
    BY <1>2, <2>4, <2>5, <2>6, <2>7 DEF BestMoves, Unvalued
<1>3. CASE Begins
  <2>1. /\ UNCHANGED <<files, held>> /\ pc = "idle" /\ session' = Fresh
        /\ pc' = "idle" \/ sink'.run = sink.run + 1
    BY <1>3 DEF Begins, BeginCommand, Begin, OpenSink, OpenSinkFails
  <2>2. Progress'
    BY <2>1 DEF Fresh, Progress, NoHash, NoBestHash
  <2>3. Total("log")' = Total("log")
    BY <2>1 DEF Total
  <2>4. ASSUME sink'.run = sink.run + 1
        PROVE  Above(Total("log")', sink'.run, session'.best)
    <3>1. /\ \A i \in DOMAIN Total("log") : Total("log")[i].record.run \in 1 .. sink.run
          /\ sink.run \in Nat
      BY <1>1 DEF FilesInv, StreamInv, Streams, Runs
    <3>2. \A i \in DOMAIN Total("log") : Total("log")[i].record.run # sink'.run
      BY <2>4, <3>1
    <3> QED
      BY <2>3, <3>2 DEF Above
  <2>5. pc' = "idle" => ~Hashing'
    BY DEF Hashing, Preparing
  <2> QED
    BY <2>1, <2>2, <2>3, <2>4, <2>5 DEF BestTold
<1>4. CASE Closes \/ Dies
  <2>1. /\ pc' = "idle" /\ session' = session
        /\ \/ CloseSink /\ faults' = faults
           \/ CloseSinkFails /\ faults' # 0
           \/ SinkLost /\ faults' # 0
    BY <1>4, FaultsNat DEF Closes, Close, Dies, Killed, Kill, End, sessionVars, CloseSink,
       CloseSinkFails, Fault
  <2>2. pc # "idle"
    BY <1>4 DEF Closes, Close, Dies, Killed, Kill
  <2>3. Emission(<<>>)
    BY <2>1, <2>2, EndOfSink
  <2>4. IsSeq(<<>>)
    <3>1. <<>> \in Seq({})
      BY EmptySeq
    <3> QED
      BY <3>1 DEF IsSeq
  <2>5. /\ IsSeq(Total("log")) /\ IsSeq(Total("log")')
        /\ Stretch(Total("log")', Total("log") \o <<>>)
    BY <2>3, <2>4, EmissionStretch
  <2>6. Total("log") \o <<>> = Total("log")
    BY <2>4, <2>5, SeqAssociative
  <2>7. Improving(Total("log")) => Improving(Total("log")')
    BY <2>5, <2>6, StretchImproves
  <2>8. Progress' /\ ~Hashing'
    BY <2>1 DEF Progress, Hashing, Preparing
  <2> QED
    BY <2>7, <2>8 DEF BestTold
<1>5. CASE Elsewhere
  <2>1. UNCHANGED <<files, held, sink, pc, session>>
    BY <1>5 DEF Elsewhere, logVars, commandVars, frameVars, sessionVars
  <2> QED
    BY <2>1 DEF BestTold, Total, Hashing, Progress
<1>6. CASE Rotates
  <2>1. /\ UNCHANGED <<held, sink, pc, session>>
        /\ files' = [files EXCEPT !["log"] = <<>>]
    BY <1>6 DEF Rotates, Rotate, Truncate, Replace, TruncateLog, ReplaceLog, commandVars,
       frameVars, sessionVars
  <2>2. /\ Total("log")' = <<>> \o held["log"] /\ IsSeq(held["log"]) /\ IsSeq(files["log"])
    BY <2>1 DEF Total, FilesInv, StreamInv, Streams
  <2>3. Total("log")' = held["log"]
    BY <2>2, SeqAssociative
  <2>4. Stretch(held["log"], Total("log"))
    BY <2>2, StretchJoin DEF Total
  <2>5. /\ Improving(Total("log")) => Improving(held["log"])
        /\ \A r, b : Above(Total("log"), r, b) => Above(held["log"], r, b)
    BY <2>2, <2>4, StretchImproves
  <2>6. Progress' /\ (Hashing' => Hashing)
    BY <2>1 DEF Progress, Hashing
  <2> QED
    BY <2>1, <2>3, <2>5, <2>6 DEF BestTold
<1> QED
  BY <1>1, <1>2, <1>3, <1>4, <1>5, <1>6, BestKinds

LEMMA LogLawful ==
    ASSUME FilesInv, BestTold
    PROVE  IsSeq(Log) /\ Lawful(Log)
<1>1. PICK p : p = files["log"]
  OBVIOUS
<1>2. PICK h : h = held["log"]
  OBVIOUS
<1>3. /\ IsSeq(p) /\ IsSeq(h) /\ Improving(p \o h)
      /\ \A i \in DOMAIN (p \o h) : (p \o h)[i].record.run \in 1 .. sink.run
  BY <1>1, <1>2 DEF FilesInv, StreamInv, Streams, Total, BestTold
<1>4. Stretch(p, p \o h) /\ IsSeq(p \o h)
  BY <1>3, StretchJoin, SeqJoin
<1>5. Improving(p)
  BY <1>3, <1>4, StretchImproves
<1>6. \A i \in DOMAIN p : p[i].record.run \in 1 .. sink.run
  BY <1>3, <1>4, StretchKeeps
<1>7. Lawful(p)
  BY <1>5, <1>6 DEF Improving, Lawful, LawfulAt
<1> QED
  BY <1>1, <1>3, <1>7 DEF Log

\* The reader has failed only on a view it calls invalid.
FailedInv == {"state"} \subseteq DOMAIN reader /\ (reader.state = "failed" => ~view.valid)

LEMMA FailedStep ==
    ASSUME FailedInv, [Next]_vars
    PROVE  FailedInv'
<1>1. CASE Look
  BY <1>1 DEF Look, FailedInv
<1>2. CASE Read
  <2>1. PICK shown : /\ view' = shown
                     /\ reader'.state = IF shown.valid THEN "idle" ELSE "failed"
                     /\ DOMAIN reader' = DOMAIN reader
    BY <1>2 DEF Read, FailedInv
  <2> QED
    BY <2>1 DEF FailedInv
<1>3. CASE UNCHANGED <<reader, view>>
  BY <1>3 DEF FailedInv
<1>4. Rotate => UNCHANGED <<reader, view>>
  BY DEF Rotate, Truncate, Replace
<1> QED
  BY <1>1, <1>2, <1>3, <1>4 DEF Next, Poll, vars, dashVars

\* Where the two readers agree, they agree on what the property compares.
LEMMA AgreedReaders ==
    ASSUME NEW v, NEW s, NEW q, NEW n, Agreed(v, s, q, n), s.accepted, v.run # 0
    PROVE  /\ v.terminal = (v.run \notin IncompleteRuns(s))
           /\ \A c \in DOMAIN SharedCounts(v) : SharedCounts(v)[c] <= SharedCounts(s)[c]
           /\ DOMAIN s.runs = {v.run} => SharedCounts(v) = SharedCounts(s)
<1>1. KnowsRun(v, s) /\ AtMost(v, s) /\ Alone(v, s) /\ ViewShape(v)
  BY DEF Agreed
<1>2. v.terminal \in BOOLEAN
  BY <1>1 DEF ViewShape
<1>3. v.terminal <=> v.run \notin IncompleteRuns(s)
  <2>1. v.run \in DOMAIN s.runs /\ (v.terminal <=> s.runs[v.run].terminal \in TerminalEvents)
    BY <1>1 DEF KnowsRun
  <2> QED
    BY <2>1 DEF IncompleteRuns, CompletedRuns, FailedRuns, RunsEndedBy, TerminalEvents
<1>4. v.terminal = (v.run \notin IncompleteRuns(s))
  BY <1>2, <1>3, Zenon
<1>5. DOMAIN SharedCounts(v) = Tallies /\ DOMAIN SharedCounts(s) = Tallies
  BY SharedNames
<1>6. \A c \in DOMAIN SharedCounts(v) : SharedCounts(v)[c] <= SharedCounts(s)[c]
  BY <1>1, <1>5 DEF AtMost
<1>7. DOMAIN s.runs = {v.run} => SharedCounts(v) = SharedCounts(s)
  <2> SUFFICES ASSUME DOMAIN s.runs = {v.run} PROVE SharedCounts(v) = SharedCounts(s)
    OBVIOUS
  <2>1. \A c \in Tallies : SharedCounts(v)[c] = SharedCounts(s)[c]
    BY <1>1 DEF Alone
  <2>2. /\ SharedCounts(v) = [c \in Tallies |-> SharedCounts(v)[c]]
        /\ SharedCounts(s) = [c \in Tallies |-> SharedCounts(s)[c]]
    BY <1>5 DEF SharedCounts
  <2> QED
    BY <2>1, <2>2
<1> QED
  BY <1>4, <1>6, <1>7

LEMMA ReadersTold ==
    ASSUME FilesInv, BestTold, FollowInv, FailedInv
    PROVE  ReadersAgree
<1>1. IsSeq(Log) /\ Lawful(Log)
  BY LogLawful
<1>2. SUFFICES ASSUME CaughtUp, Summarize(Log).accepted
               PROVE  /\ reader.state # "failed"
                      /\ view.run # 0 =>
                           /\ view.terminal = (view.run \notin IncompleteRuns(Summarize(Log)))
                           /\ \A c \in DOMAIN SharedCounts(view) :
                                  SharedCounts(view)[c] <= SharedCounts(Summarize(Log))[c]
                           /\ DOMAIN Summarize(Log).runs = {view.run} =>
                                  SharedCounts(view) = SharedCounts(Summarize(Log))
  BY DEF ReadersAgree
<1>3. PICK q : q = Log
  OBVIOUS
<1>4. view = Project(NoRun, q)
  <2>1. Following /\ reader.state # "looked" /\ reader.offset = Len(Log)
    BY <1>2 DEF CaughtUp, Following
  <2>2. Told(ReadSoFar)
    BY <2>1 DEF FollowInv
  <2>3. ReadSoFar = Log
    <3>1. PICK S : Log \in Seq(S)
      BY <1>1 DEF IsSeq
    <3>2. SubSeq(Log, 1, Len(Log)) = Log
      BY <3>1, SubSeqFull
    <3> QED
      BY <2>1, <3>2 DEF ReadSoFar
  <2> QED
    BY <1>3, <2>2, <2>3 DEF Told
<1>5. PICK s : s = Summarize(q)
  OBVIOUS
<1>6. s.accepted
  BY <1>2, <1>3, <1>5
<1>7. Agreed(Project(NoRun, q), Summarize(q), q, Len(q))
  BY <1>1, <1>2, <1>3, ReadersMeet
<1>8. Agreed(view, s, q, Len(q))
  BY <1>4, <1>5, <1>7
<1>9. view.valid
  BY <1>6, <1>8 DEF Agreed
<1>10. reader.state # "failed"
  BY <1>9 DEF FailedInv
<1>11. PICK v : v = view
  OBVIOUS
<1>12. v.run # 0 =>
          /\ v.terminal = (v.run \notin IncompleteRuns(s))
          /\ \A c \in DOMAIN SharedCounts(v) : SharedCounts(v)[c] <= SharedCounts(s)[c]
          /\ DOMAIN s.runs = {v.run} => SharedCounts(v) = SharedCounts(s)
  BY <1>6, <1>8, <1>11, AgreedReaders
<1>13. s = Summarize(Log)
  BY <1>3, <1>5
<1> QED
  BY <1>10, <1>11, <1>12, <1>13

LEMMA BestInit == Init => Progress /\ BestTold /\ FailedInv
<1> SUFFICES ASSUME Init PROVE Progress /\ BestTold /\ FailedInv
  OBVIOUS
<1>1. Progress
  BY DEF Init, SessionInit, Fresh, Progress, NoHash, NoBestHash
<1>2. BestTold
  <2>1. files["log"] = <<>> /\ held["log"] = <<>> /\ pc = "idle"
    BY DEF Init, LogInit, FrameInit, Streams
  <2>2. DOMAIN Total("log") = {}
    BY <2>1 DEF Total
  <2> QED
    BY <2>1, <2>2 DEF BestTold, Improving, Improves, Hashing, Preparing
<1>3. FailedInv
  BY DEF Init, DashInit, FailedInv
<1> QED
  BY <1>1, <1>2, <1>3

(* Once the dashboard has caught up with a log the summary accepts, it is  *)
(* not in error, and DashboardLogReader and summarize_jsonl, which keep no *)
(* code in common, agree on the run it shows: whether it ended, and how    *)
(* often each thing happened that both count.  The one refuses a best hash *)
(* that does not improve and the other a record out of its order, so this  *)
(* needs what the commands write: each run's best hashes get better, as a  *)
(* session reports one only below its best, and starts a run without any;  *)
(* and every share has one of two verdicts.                                *)
THEOREM ReadersAgreeAlways == Spec => []ReadersAgree
<1>1. Init => Progress /\ BestTold /\ FailedInv
  BY BestInit
<1>2. BaseInv /\ FilesInv /\ Progress /\ BestTold /\ FailedInv /\ [Next]_vars
          => (Progress /\ BestTold /\ FailedInv)'
  BY BestStep, FailedStep
<1>3. FilesInv /\ BestTold /\ FollowInv /\ FailedInv => ReadersAgree
  BY ReadersTold
<1> QED
  BY <1>1, <1>2, <1>3, FilesAlways, FollowAlways, PTL DEF Spec
===============================================================================
