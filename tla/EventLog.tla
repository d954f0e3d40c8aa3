------------------------------ MODULE EventLog ------------------------------
(***************************************************************************)
(* The JSON Lines event sink of one command (JsonlEventSink) and the two   *)
(* append-only files it writes: the event log and, for the Stratum         *)
(* commands, the warning log beside it.                                    *)
(*                                                                         *)
(* A record is one line.  A full disk can take half of it, so a file is a  *)
(* sequence of half lines; the second half carries the newline.  A flush   *)
(* that fails keeps what it could not write in the stream's buffer, and    *)
(* whatever is flushed next, another record or the closing of the file,    *)
(* writes that first.  What a process still holds when it is killed is     *)
(* lost.  The run identifier is the ordinal of the run.                    *)
(***************************************************************************)
EXTENDS Naturals, Sequences

VARIABLES
    limits,        \* the bounds of this behaviour: [faults, rotations,
                   \* ranges, losses], whether it is watched, and what
                   \* inputs it may have
    files,         \* stream -> the half lines in its file
    held,          \* stream -> the half lines its buffer could not write
    sink,          \* the sink of the current run
    detached,      \* the log was replaced: the sink writes to a file gone
    faults         \* failed opens, writes and closes, kills, interrupts

logVars == <<limits, files, held, sink, detached, faults>>

Streams == {"log", "warning"}

WarningLevels == {"WARNING", "ERROR"}

LogInit ==
    /\ files = [s \in Streams |-> <<>>]
    /\ held = [s \in Streams |-> <<>>]
    /\ sink = [state |-> "closed", run |-> 0, sequence |-> 1,
               streams |-> {}]
    /\ detached = FALSE
    /\ faults = 0

Fault == faults < limits.faults /\ faults' = faults + 1 /\ UNCHANGED limits

(* Mutant: the numbers go on where the run before stopped. *)
OpenSinkKeepsSequence(streams) ==
    /\ sink' = [state |-> "open", run |-> sink.run + 1,
                sequence |-> sink.sequence, streams |-> streams]
    /\ detached' = FALSE
    /\ UNCHANGED <<limits, files, held, faults>>

(* The command is started without a log (no stream), with the event log    *)
(* alone, or with the warning log beside it.                               *)
OpenSink(streams) ==
    /\ sink' = [state |-> "open", run |-> sink.run + 1, sequence |-> 1,
                streams |-> streams]
    /\ detached' = FALSE
    /\ UNCHANGED <<limits, files, held, faults>>

(* One of the files cannot be opened; the log, when it is open already, is *)
(* closed again with nothing in it.                                        *)
OpenSinkFails(streams) ==
    /\ streams # {}
    /\ Fault
    /\ UNCHANGED <<files, held, sink, detached>>

-----------------------------------------------------------------------------
Record(event, value) ==
    [run |-> sink.run, sequence |-> sink.sequence,
     event |-> event, value |-> value]

Halves(record) == <<[record |-> record, last |-> FALSE],
                    [record |-> record, last |-> TRUE]>>

(* The streams a record of this level goes to. *)
Targets(level) ==
    IF level \in WarningLevels THEN sink.streams ELSE sink.streams \cap {"log"}

(* What stream s writes when the halves h are flushed through it. *)
Pending(s, h) == held[s] \o h

Appended(s, h) ==
    IF s = "log" /\ detached THEN files[s] ELSE files[s] \o h

(* Every stream took the line: only now the sequence number is used up. *)
Emit(event, level, value) ==
    LET line == Halves(Record(event, value))
    IN  /\ sink.state = "open"
        /\ files' = [s \in Streams |->
                       IF s \in Targets(level)
                       THEN Appended(s, Pending(s, line)) ELSE files[s]]
        /\ held' = [s \in Streams |->
                      IF s \in Targets(level) THEN <<>> ELSE held[s]]
        /\ sink' = [sink EXCEPT !.sequence = @ + 1]
        /\ UNCHANGED <<limits, detached, faults>>

(* The flush of stream s stops after n of the halves it had to write; the  *)
(* streams in before have taken the line.                                  *)
FlushStops(s, n, before, line) ==
    /\ files' = [t \in Streams |->
                   IF t = s THEN Appended(t, SubSeq(Pending(t, line), 1, n))
                   ELSE IF t \in before THEN Appended(t, Pending(t, line))
                   ELSE files[t]]
    /\ held' = [t \in Streams |->
                  IF t = s THEN SubSeq(Pending(t, line), n + 1,
                                       Len(Pending(t, line)))
                  ELSE IF t \in before THEN <<>>
                  ELSE held[t]]

(* EventLogError: the write to the log fails and the warning log is not    *)
(* tried, or the log has the line and the write to the warning log fails.  *)
(* Either way the next record gets the same sequence number.               *)
EmitFails(event, level, value) ==
    LET line == Halves(Record(event, value))
    IN  /\ sink.state = "open"
        /\ \E s \in Targets(level) :
             \E n \in 0 .. Len(Pending(s, line)) - 1 :
               FlushStops(s, n, IF s = "warning" THEN {"log"} ELSE {}, line)
        /\ Fault
        /\ UNCHANGED <<sink, detached>>

(* Closing flushes what the buffers hold.  Both streams are closed, also   *)
(* when the first one fails; what a stream could not write is lost then.   *)
CloseSink ==
    /\ sink.state = "open"
    /\ files' = [s \in Streams |-> Appended(s, held[s])]
    /\ held' = [s \in Streams |-> <<>>]
    /\ sink' = [sink EXCEPT !.state = "closed"]
    /\ UNCHANGED <<limits, detached, faults>>

CloseSinkFails ==
    /\ sink.state = "open"
    /\ \E s \in sink.streams :
         \E n \in 0 .. Len(held[s]) :
           files' = [t \in Streams |->
                       IF t = s THEN Appended(t, SubSeq(held[t], 1, n))
                       ELSE Appended(t, held[t])]
    /\ held' = [s \in Streams |-> <<>>]
    /\ sink' = [sink EXCEPT !.state = "closed"]
    /\ Fault
    /\ UNCHANGED detached

(* The process is killed: the buffers are lost with it. *)
SinkLost ==
    /\ held' = [s \in Streams |-> <<>>]
    /\ sink' = [sink EXCEPT !.state = "closed"]
    /\ UNCHANGED <<files, detached>>

-----------------------------------------------------------------------------
(* Somebody empties the log in place, or moves it away and a later run     *)
(* creates it anew: what the open sink still writes then reaches the file  *)
(* nobody reads.                                                           *)
TruncateLog ==
    /\ files["log"] # <<>>
    /\ files' = [files EXCEPT !["log"] = <<>>]
    /\ UNCHANGED <<limits, held, sink, detached, faults>>

ReplaceLog ==
    /\ files["log"] # <<>>
    /\ files' = [files EXCEPT !["log"] = <<>>]
    /\ detached' = (sink.state = "open")
    /\ UNCHANGED <<limits, held, sink, faults>>
=============================================================================
