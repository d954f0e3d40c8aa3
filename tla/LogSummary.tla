----------------------------- MODULE LogSummary -----------------------------
(***************************************************************************)
(* The strict reader of a whole event log (summarize_jsonl), as operators  *)
(* on the half lines of EventLog: one malformed line, or one record that   *)
(* breaks the order of its run, rejects the file.                          *)
(***************************************************************************)
EXTENDS Naturals, Sequences, FiniteSets

(* A line ends with the half that carries the newline.  The one that ends  *)
(* at position i is a record only if it is the two halves of one.          *)
WellFormed(file, i) ==
    /\ i > 1
    /\ ~file[i - 1].last
    /\ file[i - 1].record = file[i].record
    /\ i > 2 => file[i - 2].last

(* What follows the last newline. *)
UnfinishedLine(file) ==
    LET ends == {0} \cup {i \in 1 .. Len(file) : file[i].last}
        end == CHOOSE i \in ends : \A j \in ends : j <= i
    IN  SubSeq(file, end + 1, Len(file))

TerminalEvents == {"command_completed", "command_failed"}

-----------------------------------------------------------------------------
(* The events of Stratum mining that are counted one by one. *)
CountedEvents ==
    {"difficulty_received", "mining_job_received", "mining_work_advanced",
     "extra_nonce_2_cycle_completed", "network_time_rolled",
     "duplicate_work_ignored", "stratum_connection_lost",
     "stratum_reconnect_attempted", "stratum_reconnect_succeeded",
     "stratum_reconnect_failed", "stratum_reconnect_exhausted",
     "stratum_liveness_warning", "stratum_session_stale",
     "stratum_stale_reconnect_started", "stratum_stale_reconnect_succeeded",
     "stratum_stale_reconnect_failed", "nonce_range_completed",
     "share_candidate_found"}

(* counts, one higher at event if it is among those counted. *)
Counting(counts, event) ==
    [e \in DOMAIN counts |-> IF e = event THEN counts[e] + 1 ELSE counts[e]]

EmptySummary ==
    [accepted |-> TRUE,
     runs |-> [r \in {} |-> <<>>],
     records |-> 0, failures |-> 0,
     counts |-> [event \in CountedEvents |-> 0],
     acceptedShares |-> 0, rejectedShares |-> 0,
     acceptedBlocks |-> 0, rejectedBlocks |-> 0]

Rejected == [EmptySummary EXCEPT !.accepted = FALSE]

(* _validate_run_integrity: a run begins with command_started at one, its  *)
(* sequence is contiguous, and nothing follows its terminal event.         *)
RunAccepts(runs, record) ==
    IF record.run \notin DOMAIN runs
    THEN record.sequence = 1 /\ record.event = "command_started"
    ELSE /\ record.sequence = runs[record.run].next
         /\ runs[record.run].terminal = "none"
         /\ record.event # "command_started"

RunAfter(runs, record) ==
    [r \in DOMAIN runs \cup {record.run} |->
       IF r # record.run THEN runs[r]
       ELSE [next |-> record.sequence + 1,
             command |-> IF r \in DOMAIN runs THEN runs[r].command
                         ELSE record.value,
             terminal |-> IF record.event \in TerminalEvents
                          THEN record.event ELSE "none"]]

OneIf(condition) == IF condition THEN 1 ELSE 0

(* The totals the known events feed. *)
AggregateCommand(summary, record) ==
    [summary EXCEPT !.records = @ + 1,
                    !.failures = @ + OneIf(record.event = "command_failed")]

AggregateStratum(summary, record) ==
    LET submitted == record.event = "share_submission_completed"
    IN  [summary EXCEPT
           !.counts = Counting(@, record.event),
           !.acceptedShares = @ + OneIf(submitted /\ record.value = "accepted"),
           !.rejectedShares = @ + OneIf(submitted /\ record.value = "rejected")]

AggregateSolo(summary, record) ==
    LET submitted == record.event = "solo_block_submission_completed"
    IN  [summary EXCEPT
           !.acceptedBlocks = @ + OneIf(submitted /\ record.value = "accepted"),
           !.rejectedBlocks = @ + OneIf(submitted /\ record.value # "accepted")]

(* Hashing alone proposes nothing and submits nothing. *)
SoloAccepts(runs, record) ==
    record.event \in {"solo_block_proposal_completed",
                      "solo_block_submission_completed"} =>
        runs[record.run].command # "solo-hash"

ConsumeRecord(summary, record) ==
    IF RunAccepts(summary.runs, record) /\ SoloAccepts(summary.runs, record)
    THEN [AggregateSolo(AggregateStratum(AggregateCommand(summary, record),
                                         record), record) EXCEPT
            !.runs = RunAfter(summary.runs, record)]
    ELSE Rejected

ConsumeLine(summary, file, i) ==
    IF summary.accepted /\ WellFormed(file, i)
    THEN ConsumeRecord(summary, file[i].record)
    ELSE Rejected

(* The whole file, and then the line it ends in without a newline. *)
Summarize(file) ==
    LET read[i \in 0 .. Len(file)] ==
          IF i = 0 THEN EmptySummary
          ELSE LET before == read[i - 1]
               IN  IF file[i].last THEN ConsumeLine(before, file, i)
                   ELSE before
    IN  IF UnfinishedLine(file) = <<>> THEN read[Len(file)] ELSE Rejected

RunsEndedBy(summary, event) ==
    {r \in DOMAIN summary.runs : summary.runs[r].terminal = event}

(* The three classes the summary sorts the runs into. *)
CompletedRuns(summary) == RunsEndedBy(summary, "command_completed")
FailedRuns(summary) == RunsEndedBy(summary, "command_failed")
IncompleteRuns(summary) ==
    DOMAIN summary.runs \ (CompletedRuns(summary) \cup FailedRuns(summary))
=============================================================================
