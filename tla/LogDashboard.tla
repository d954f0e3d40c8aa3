---------------------------- MODULE LogDashboard ----------------------------
(***************************************************************************)
(* The dashboard that follows the event log while commands append to it:   *)
(* DashboardLogReader polls the file for new bytes, DashboardState is the  *)
(* projection of the newest mining run that run_dashboard keeps from one   *)
(* poll to the next.  A poll is two steps: it looks at the file, and then  *)
(* opens and reads it.  Somebody else may empty or replace the file.       *)
(***************************************************************************)
EXTENDS EventLog, LogSummary

VARIABLES
    inode,         \* identity of the file at the log's path
    rotations,     \* times it was emptied or replaced
    reader,        \* the follower's position in it
    view,          \* the projection shown
    overtaken      \* history: emptied, and longer again than the follower's
                   \* offset before it looked

dashVars == <<inode, rotations, reader, view, overtaken>>

MiningCommands == {"stratum-mine", "stratum-mine-chunks", "stratum-mine-once"}

NoBestHash == 99

(* The events whose number is shown. *)
ShownEvents ==
    {"mining_job_received", "mining_job_replaced", "mining_work_advanced",
     "nonce_range_completed", "stratum_connection_lost",
     "stratum_reconnect_attempted", "stratum_reconnect_succeeded",
     "duplicate_work_ignored", "stratum_liveness_warning",
     "stratum_session_stale", "share_candidate_found"}

NoRun ==
    [valid |-> TRUE, run |-> 0, status |-> "waiting", terminal |-> FALSE,
     rangeOpen |-> FALSE, visited |-> 0, best |-> NoBestHash,
     counts |-> [event \in ShownEvents |-> 0],
     acceptedShares |-> 0, rejectedShares |-> 0]

DashInit ==
    /\ inode = 1
    /\ rotations = 0
    /\ reader = [state |-> "idle", offset |-> 0, partial |-> <<>>,
                 identity |-> 0, reset |-> FALSE]
    /\ view = NoRun
    /\ overtaken = FALSE

-----------------------------------------------------------------------------
(* DashboardState.apply, on the events of the newest mining run only. *)
ResetForRun(record) == [NoRun EXCEPT !.run = record.run, !.status = "starting"]

ResetVariant(v) == [v EXCEPT !.rangeOpen = FALSE, !.visited = 0]

ApplySession(v, record) ==
    CASE record.event = "stratum_authorized" -> [v EXCEPT !.status = "mining"]
      [] record.event = "mining_stop_requested" -> [v EXCEPT !.status = "stopping"]
      [] OTHER -> v

ApplyRecovery(v, record) ==
    CASE record.event = "stratum_reconnect_succeeded"
           -> [v EXCEPT !.status = "mining"]
      [] record.event \in {"stratum_connection_lost", "stratum_session_stale"}
           -> [v EXCEPT !.status = "recovering"]
      [] OTHER -> v

ApplyWork(v, record) ==
    CASE record.event \in {"mining_job_replaced", "mining_work_advanced"}
           -> ResetVariant(v)
      [] record.event = "nonce_range_started" -> [v EXCEPT !.rangeOpen = TRUE]
      [] record.event = "nonce_range_completed"
           -> [v EXCEPT !.rangeOpen = FALSE, !.visited = @ + 1]
      [] OTHER -> v

(* A best hash that is not below the last one is an error of the log. *)
ApplyShares(v, record) ==
    CASE record.event = "best_hash_improved"
           -> IF record.value < v.best THEN [v EXCEPT !.best = record.value]
              ELSE [v EXCEPT !.valid = FALSE]
      [] record.event = "share_submission_completed"
           -> IF record.value = "accepted"
              THEN [v EXCEPT !.acceptedShares = @ + 1]
              ELSE [v EXCEPT !.rejectedShares = @ + 1]
      [] OTHER -> v

(* Mutant: only a completed run is a run that ended. *)
ApplyCompleted(v, record) ==
    IF record.event = "command_completed"
    THEN [v EXCEPT !.status = record.value, !.terminal = TRUE] ELSE v

ApplyTerminal(v, record) ==
    CASE record.event = "command_completed"
           -> [v EXCEPT !.status = record.value, !.terminal = TRUE]
      [] record.event = "command_failed"
           -> [v EXCEPT !.status = "failed", !.terminal = TRUE]
      [] OTHER -> v

Apply(v, record) ==
    IF record.event = "command_started" /\ record.value \in MiningCommands
    THEN IF record.run >= v.run THEN ResetForRun(record) ELSE v
    ELSE IF v.run = 0 \/ record.run # v.run THEN v
    ELSE LET counted == [v EXCEPT !.counts = Counting(@, record.event)]
             session == ApplyRecovery(ApplySession(counted, record), record)
             work == ApplyShares(ApplyWork(session, record), record)
         IN  ApplyTerminal(work, record)

(* What is shown once position i of data is reached. *)
LineApplied(v, data, i) ==
    IF ~data[i].last \/ ~v.valid THEN v
    ELSE IF WellFormed(data, i) THEN Apply(v, data[i].record)
    ELSE [v EXCEPT !.valid = FALSE]

(* Every complete line of data applied to v; a malformed one ends it.  The *)
(* choice has one element: TLC then evaluates the lines before just once.  *)
Project(v, data) ==
    LET shown[i \in 0 .. Len(data)] ==
          IF i = 0 THEN v
          ELSE CHOOSE after \in {LineApplied(before, data, i) :
                                   before \in {shown[i - 1]}} : TRUE
    IN  shown[Len(data)]

-----------------------------------------------------------------------------
Log == files["log"]

(* Mutants: one of the two tests is missing. *)
ResetBySize == reader.identity # 0 /\ Len(Log) < reader.offset
ResetByIdentity == reader.identity # 0 /\ inode # reader.identity

(* The file is another one, or shorter than what was read of it. *)
SourceReset ==
    /\ reader.identity # 0
    /\ inode # reader.identity \/ Len(Log) < reader.offset

Look ==
    /\ limits.watched
    /\ reader.state = "idle"
    /\ reader' = IF SourceReset
                 THEN [state |-> "looked", offset |-> 0, partial |-> <<>>,
                       identity |-> inode, reset |-> TRUE]
                 ELSE [reader EXCEPT !.state = "looked", !.identity = inode,
                                     !.reset = FALSE]
    /\ overtaken' = (overtaken /\ inode = reader.identity
                                /\ Len(Log) >= reader.offset)
    /\ UNCHANGED <<inode, rotations, view>>

(* From the offset to the end of the file, which may have grown, or be     *)
(* another file, since the look.                                           *)
Chunk == SubSeq(Log, reader.offset + 1, Len(Log))

Read ==
    LET data == reader.partial \o Chunk
        shown == Project(IF reader.reset THEN NoRun ELSE view, data)
    IN  /\ reader.state = "looked"
        /\ reader' = [reader EXCEPT
                        !.offset = @ + Len(Chunk),
                        !.partial = UnfinishedLine(data),
                        !.state = IF shown.valid THEN "idle" ELSE "failed"]
        /\ view' = shown
        /\ UNCHANGED <<inode, rotations, overtaken>>

Poll == Look \/ Read

-----------------------------------------------------------------------------
(* The follower has already read a part of the file that is emptied; until *)
(* it looks, only a file shorter than that part tells it so.               *)
Unnoticed == reader.offset > 0 /\ reader.identity = inode

Truncate ==
    /\ rotations < limits.rotations
    /\ TruncateLog
    /\ rotations' = rotations + 1
    /\ overtaken' = (overtaken \/ Unnoticed)
    /\ UNCHANGED <<inode, reader, view>>

Replace ==
    /\ rotations < limits.rotations
    /\ ReplaceLog
    /\ rotations' = rotations + 1
    /\ inode' = inode + 1
    /\ overtaken' = (overtaken \/ reader.state = "looked")
    /\ UNCHANGED <<reader, view>>
=============================================================================
