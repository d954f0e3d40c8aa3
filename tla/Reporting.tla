------------------------------ MODULE Reporting ------------------------------
(***************************************************************************)
(* The commands a shell runs one after the other, the log they append to,  *)
(* and its two readers: the dashboard that follows it while they run, and  *)
(* the summary anybody may ask for at any moment.                          *)
(***************************************************************************)
EXTENDS SessionEvents, SoloEvents, LogDashboard

commandVars == <<frameVars, sessionVars, soloVars>>
vars == <<logVars, commandVars, dashVars>>

Init == LogInit /\ FrameInit /\ SessionInit /\ SoloInit /\ DashInit

(* Every command has a session of its own. *)
BeginCommand ==
    /\ Begin
    /\ session' = Fresh /\ sent' = 0
    /\ solo' = FreshSolo /\ RpcReset

AroundSession ==
    /\ Start \/ Prepare \/ Except \/ Cleanup \/ Finish \/ Close
    /\ UNCHANGED <<sessionVars, soloVars>>

Command ==
    \/ BeginCommand \/ AroundSession
    \/ SessionNext /\ UNCHANGED soloVars
    \/ SoloNext /\ UNCHANGED sessionVars

Killed == Kill /\ UNCHANGED <<sessionVars, soloVars>>

Rotate == Truncate \/ Replace

Next ==
    \/ Command /\ UNCHANGED dashVars
    \/ Killed /\ UNCHANGED dashVars
    \/ Poll /\ UNCHANGED <<logVars, commandVars>>
    \/ Rotate /\ UNCHANGED commandVars

(* The dashboard polls once a second for as long as it runs.  Nothing else *)
(* is due: a command may stop anywhere, which is as good as killing it.    *)
Spec ==
    /\ Init /\ [][Next]_vars
    /\ WF_vars(UNCHANGED <<logVars, commandVars>> /\ Poll)

-----------------------------------------------------------------------------
TypeOK ==
    /\ sink.state \in {"open", "closed"}
    /\ \A s \in Streams : held[s] # <<>> => sink.state = "open"
    /\ faults \in 0 .. limits.faults
    /\ pending \in {"none", "expected", "unexpected", "interrupt", "log"}

(* The whole lines of a file that are records of run r. *)
LinesOf(file, r) ==
    {i \in 1 .. Len(file) :
       file[i].last /\ WellFormed(file, i) /\ file[i].record.run = r}

EventsOf(file, r, event) ==
    {i \in LinesOf(file, r) : file[i].record.event = event}

(* Runs that ended without a kill. *)
Returned == {r \in DOMAIN ended : ended[r] # "killed"}

(* Nothing failed but that processes were killed. *)
OnlyKills == faults = Cardinality(DOMAIN ended \ Returned)

(* As long as no write fails, the strict summary accepts the log at every  *)
(* moment, also after a process was killed anywhere, and a run it calls    *)
(* incomplete was killed or is still running: no command that returned is  *)
(* among them.  A process killed after its last record may be classed as   *)
(* ended.                                                                  *)
SoundLogAccepted ==
    OnlyKills /\ rotations = 0 =>
        LET summary == Summarize(Log)
        IN  /\ summary.accepted
            /\ \A r \in DOMAIN summary.runs :
                 r \in Returned => r \notin IncompleteRuns(summary)

(* Whatever fails, a run has at most one terminal record in a file, and    *)
(* nothing of it follows that record: the except clauses, the cleanup and  *)
(* the event of a success never report twice.                              *)
OneTerminalPerRun ==
    \A s \in Streams : \A r \in 1 .. sink.run :
        \A i \in LinesOf(files[s], r) :
            files[s][i].record.event \in TerminalEvents =>
                \A j \in LinesOf(files[s], r) : j <= i

(* The records of run r that say it ended well.  A solo session that ends  *)
(* with a refused block or a lost node completes its command and fails.    *)
Successes(r) ==
    {i \in EventsOf(Log, r, "command_completed") :
       Log[i].record.value \notin UnsuccessfulOutcomes}

(* A command with a log exits 0 only if its last record says it ended      *)
(* well; when nothing failed underneath, it also exits 0 only then, and    *)
(* some other last record tells how it ended.                              *)
ExitMatchesLog ==
    rotations = 0 =>
        \A r \in Returned :
            LinesOf(Log, r) # {} =>
                /\ ended[r] = "succeeded" => Successes(r) # {}
                /\ faults = 0 =>
                     /\ Successes(r) # {} => ended[r] = "succeeded"
                     /\ \E event \in TerminalEvents : EventsOf(Log, r, event) # {}

(* A command that exits with success has put the signal handlers back and  *)
(* closed its client and its backend.  Any other that returns has at least *)
(* tried to put the handlers back, though what it could not put back is    *)
(* left as it is; it has tried to close its client unless an interrupt     *)
(* that came while no stop handlers were installed cut the cleanup short,  *)
(* and its backend unless such an interrupt did or, when the session       *)
(* itself ended well, the log failed on the way.                           *)
Open == {"held", "left"}

ResourcesReleased ==
    pc = "idle" /\ sink.run \in Returned =>
        /\ ended[sink.run] = "succeeded" =>
             {client, handlers, backend} \cap Open = {}
        /\ handlers # "held"
        /\ client = "held" => leaving = "cut"
        /\ backend = "held" => leaving = "cut" \/ (pending = "none" /\ faults > 0)

(* No share reaches the pool, and no block the node, before the record of  *)
(* its candidate is in the file: after a crash the log knows of everything *)
(* that was sent.                                                          *)
ShareRecordedFirst ==
    rotations = 0 /\ sink.streams # {} =>
        /\ sent <= Cardinality(EventsOf(Log, sink.run, "share_candidate_found"))
        /\ block # "none" =>
             /\ EventsOf(Log, sink.run, "solo_candidate_found") # {}
             /\ \E i \in EventsOf(Log, sink.run, "solo_block_proposal_completed") :
                  Log[i].record.value = "accepted"

(* What a solo command says of its block is what the node said of it,      *)
(* whatever its replies lose on the way.  A block reported as accepted is  *)
(* one the node took.  One reported as rejected, by the outcome or by a    *)
(* summary of this one run, is one the node answered with a text: it may   *)
(* hold the block all the same, and the category in the record tells the   *)
(* texts that leave that open from those that refuse.  Hashing alone never *)
(* gave the node a block.  A command that could not open its log has no    *)
(* run, and leaves the records of the run before.                          *)
NodeVerdicts ==
    CASE block = "held"    -> {"accepted"}
      [] block = "known"   -> {"duplicate"}
      [] block = "refused" -> {"rejected"}
      [] block = "none"    -> {}

BlockReportedTruly ==
    LET summary == Summarize(Log)
        reports == EventsOf(Log, sink.run, "solo_block_submission_completed")
    IN  /\ outcome = "block_accepted" => block = "held"
        /\ outcome = "block_rejected" => block \in {"known", "refused"}
        /\ block # "none" => command = "solo-mine" /\ solo.submits = 1
        /\ command = "solo-mine" /\ (pc # "idle" \/ client # "none") =>
             /\ \A i \in reports : Log[i].record.value \in NodeVerdicts
             /\ summary.accepted /\ DOMAIN summary.runs = {sink.run} =>
                  /\ summary.acceptedBlocks > 0 => "accepted" \in NodeVerdicts
                  /\ summary.rejectedBlocks > 0 =>
                       NodeVerdicts \cap {"rejected", "duplicate"} # {}

(* The backend a search is about to use is the one asked for.  What is     *)
(* given on the command line holds, and what the environment adds, to the  *)
(* exact devices; the presets never take a device nobody named but the     *)
(* first, and keep the number of workers below their bounds; lite neither  *)
(* takes several processors or devices nor searches without pauses.        *)
(* Without a profile the backend is the environment's, or the only one     *)
(* that is always there when it names none.                                *)
DevicesOf(controls) ==
    Setting(controls, "cuda_devices", {}) \cup
    {controls[c] : c \in DOMAIN controls \cap {"cuda_device"}}

Agrees(used, asked) ==
    /\ \A c \in DOMAIN asked \ {"cuda_device", "cuda_devices"} :
         c \in DOMAIN used /\ used[c] = asked[c]
    /\ DevicesOf(asked) # {} => DevicesOf(used) = DevicesOf(asked)

ProfileHonoured ==
    pc = "strategy" =>
        LET request == setup.request
            profile == RequestedProfile(request)
            used == BackendControls(setup.settings)
            env == [c \in DOMAIN request.env \ DOMAIN request.cli |-> request.env[c]]
        IN  IF command = "stratum-mine" /\ profile # "none"
            THEN /\ Agrees(used, request.cli) /\ Agrees(used, env)
                 /\ DevicesOf(used) \subseteq
                      DevicesOf(request.cli) \cup DevicesOf(env) \cup {0}
                 /\ DevicesOf(used) \subseteq setup.machine.devices
                 /\ profile = "auto" =>
                      Setting(used, "worker_count", 1) <= 8
                 /\ profile \in {"auto", "max"} =>
                      Setting(used, "worker_count", 1) \in 0 .. setup.machine.cpus \cup {1}
                 /\ profile = "lite" =>
                      /\ used.backend_name \notin {"native-parallel", "cuda-multi"}
                      /\ used.delay > 0
            ELSE LET named == Setting(request.env, "backend_name", "auto")
                 IN  used.backend_name = IF named \in {"auto", "cpu"} THEN "python"
                                         ELSE named

(* Between two polls the dashboard shows exactly what the part of the file *)
(* it has read says, however the file grew, was torn, emptied or replaced  *)
(* meanwhile, unless the file outgrew the follower unnoticed.              *)
DashboardFollowsLog ==
    reader.state = "idle" /\ ~overtaken
    /\ reader.identity = inode /\ reader.offset <= Len(Log) =>
        view = Project(NoRun, SubSeq(Log, 1, reader.offset))

(* Once it has caught up with a log the summary accepts, the dashboard is  *)
(* not in error, and the two agree on the run it shows: whether it ended,  *)
(* and how often each thing happened that both count: as often when the    *)
(* log has no other run, no more often otherwise.                          *)
CaughtUp ==
    /\ ~overtaken /\ reader.state # "looked"
    /\ reader.identity = inode /\ reader.offset = Len(Log)

SharedCounts(of) ==
    [c \in (CountedEvents \cap ShownEvents) \cup {"accepted", "rejected"} |->
       IF c = "accepted" THEN of.acceptedShares
       ELSE IF c = "rejected" THEN of.rejectedShares ELSE of.counts[c]]

ReadersAgree ==
    LET summary == Summarize(Log)
    IN  CaughtUp /\ summary.accepted =>
          /\ reader.state # "failed"
          /\ view.run # 0 =>
               LET shown == SharedCounts(view)
                   counted == SharedCounts(summary)
               IN  /\ view.terminal = (view.run \notin IncompleteRuns(summary))
                   /\ \A c \in DOMAIN shown : shown[c] <= counted[c]
                   /\ DOMAIN summary.runs = {view.run} => shown = counted

(* When the commands have ended and the log is left alone, the dashboard   *)
(* comes to have read all of it, or reports that it cannot, and stays so:  *)
(* with DashboardFollowsLog, it shows how the last run ended.              *)
LogShown ==
    limits.watched =>
        <>[](\/ overtaken \/ reader.state = "failed"
             \/ reader.identity = inode /\ reader.offset = Len(Log))
=============================================================================
