---------------------------- MODULE CommandFrame ----------------------------
(***************************************************************************)
(* What a command does around its session: the event sink it runs with     *)
(* (_run_with_event_sink, _with_events), and, for the Stratum commands,    *)
(* the settings, profile, backend and strategy it selects before and the   *)
(* handlers and cleanup of the try statement around the session itself.    *)
(* Every event it writes may fail, and where that leaves the command       *)
(* depends on where it happens.                                            *)
(***************************************************************************)
EXTENDS EventLog, ComputeProfiles

CONSTANTS
    Schedules,     \* the commands a shell may run in sequence, as records
                   \* [commands, limits] with the bounds they are run in
    Requests,      \* what a user may ask to search with, by limits.inputs:
                   \* records [profile, environment_profile, cli, env]
    Machines       \* and on which machine: records [cpus, native, devices]

ASSUME InputsAssumption ==
    /\ \A plan \in Schedules :
         plan.limits.inputs \in DOMAIN Requests \cap DOMAIN Machines
    /\ \A i \in DOMAIN Requests : \A request \in Requests[i] :
         /\ {request.profile, request.environment_profile} \subseteq Profiles \cup {"none"}
         /\ \A controls \in {request.cli, request.env} :
              IsFiniteSet(Setting(controls, "cuda_devices", {}))
    /\ \A i \in DOMAIN Machines : \A machine \in Machines[i] : machine.cpus \in Nat

VARIABLES
    schedule,      \* commands still to run
    command,       \* the current one
    pc,            \* where it is
    status,        \* its local status
    pending,       \* how the try block ended: "none" or an error class
    leaving,       \* what escapes the handlers: "none", "log", "raise", or
                   \* "cut": an interrupt no try block was left to handle
    client, handlers, backend,
                   \* "none", "held", "released", or "left": what should
                   \* have released it failed, and it may still be there
    setup,         \* from the settings to the backend: [request, machine,
                   \* settings], else NoSetup
    outcome,       \* result of the session
    ended          \* history: run -> how its process ended

frameVars == <<schedule, command, pc, status, pending, leaving,
               client, handlers, backend, setup, outcome, ended>>
resourceVars == <<client, handlers, backend, setup>>

(* The commands that search, and so hold a backend. *)
SearchCommands == {"stratum-mine-once", "stratum-mine-chunks", "stratum-mine"}

(* The commands that speak to a Bitcoin Core node: SoloEvents. *)
BitcoinCommands == {"bitcoin-core-check", "solo-hash", "solo-mine"}

(* They have no warning log. *)
StreamsOf(c) == IF c \in BitcoinCommands THEN {"log"} ELSE Streams

NoSetup == [request |-> NoControls, machine |-> NoControls, settings |-> NoControls]

FrameInit ==
    /\ \E plan \in Schedules : schedule = plan.commands /\ limits = plan.limits
    /\ command = "none"
    /\ pc = "idle"
    /\ status = 0
    /\ pending = "none"
    /\ leaving = "none"
    /\ client = "none" /\ handlers = "none" /\ backend = "none"
    /\ setup = NoSetup
    /\ outcome = "none"
    /\ ended = [r \in {} |-> <<>>]

-----------------------------------------------------------------------------
(* One event: written, or EventLogError. *)
Say(event, level, value, written, failed) ==
    \/ Emit(event, level, value) /\ written
    \/ EmitFails(event, level, value) /\ failed

GoTo(next) ==
    /\ pc' = next
    /\ UNCHANGED <<schedule, command, status, pending, leaving, outcome, ended>>

(* The operation returns a status, or lets EventLogError reach the frame,  *)
(* which makes it 1.                                                       *)
Return(code) ==
    /\ pc' = "close"
    /\ status' = code
    /\ UNCHANGED <<schedule, command, pending, leaving, outcome, ended>>

(* An exception in the try block around the session. *)
Raise(error) ==
    /\ pc' = "except"
    /\ pending' = error
    /\ UNCHANGED <<schedule, command, status, leaving, outcome, ended>>

-----------------------------------------------------------------------------
(* _run_with_event_sink, _with_events. *)
Begin ==
    /\ pc = "idle" /\ schedule # <<>>
    /\ command' = Head(schedule) /\ schedule' = Tail(schedule)
    /\ \E streams \in {{}, StreamsOf(Head(schedule))} :
         \/ /\ OpenSink(streams)
            /\ pc' = "start"
         \/ /\ OpenSinkFails(streams)
            /\ pc' = "idle"
    /\ status' = 0 /\ pending' = "none" /\ leaving' = "none"
    /\ client' = "none" /\ handlers' = "none" /\ backend' = "none"
    /\ setup' = NoSetup
    /\ outcome' = "none"
    /\ UNCHANGED ended

Start ==
    /\ pc = "start"
    /\ Say("command_started", "INFO", command,
           GoTo(IF command \in BitcoinCommands THEN "session" ELSE "settings"),
           Return(1))
    /\ UNCHANGED resourceVars

End(exit) ==
    /\ pc' = "idle"
    /\ ended' = [r \in DOMAIN ended \cup {sink.run} |->
                   IF r = sink.run THEN exit ELSE ended[r]]
    /\ UNCHANGED <<schedule, command, status, pending, leaving, outcome>>
    /\ UNCHANGED resourceVars

(* Mutant: an EventLogError that escapes leaves the status as it was. *)
ExitByStatus ==
    CASE leaving \in {"raise", "cut"} -> "raised"
      [] leaving \in {"none", "log"} /\ status = 1 -> "failed"
      [] leaving \in {"none", "log"} /\ status = 2 -> "refused"
      [] leaving \in {"none", "log"} /\ status = 0 -> "succeeded"

(* The exit the process had before its log is closed. *)
Exit ==
    CASE leaving \in {"raise", "cut"} -> "raised"
      [] leaving = "log" \/ (leaving = "none" /\ status = 1) -> "failed"
      [] leaving = "none" /\ status = 2 -> "refused"
      [] leaving = "none" /\ status = 0 -> "succeeded"

(* A sink that cannot be closed turns a success into a failure only. *)
Close ==
    /\ pc = "close"
    /\ \/ CloseSink /\ End(Exit)
       \/ CloseSinkFails /\ End(IF Exit = "succeeded" THEN "failed" ELSE Exit)

(* SIGKILL, or the machine stops: no handler and no cleanup runs. *)
Kill ==
    /\ pc # "idle"
    /\ Fault
    /\ SinkLost
    /\ End("killed")

-----------------------------------------------------------------------------
CommandFailed(written, failed) ==
    Say("command_failed", "ERROR", "none", written, failed)

Settings ==
    /\ pc = "settings"
    /\ \/ /\ command \notin SearchCommands
          /\ GoTo("session")
          /\ UNCHANGED <<logVars, setup>>
       \/ /\ command \in SearchCommands
          /\ \E request \in Requests[limits.inputs] : \E settings \in SettingsFromEnv(request.env) :
               setup' = [NoSetup EXCEPT !.request = request, !.settings = settings]
          /\ GoTo(IF command = "stratum-mine" THEN "profile" ELSE "backend")
          /\ UNCHANGED logVars
       \/ CommandFailed(Return(2), Return(1)) /\ UNCHANGED setup
    /\ UNCHANGED <<client, handlers, backend>>

(* _resolve_command_profile: without a profile the settings stay, a        *)
(* refused one ends the command, and a resolved one replaces the settings  *)
(* and is announced before the backend it names is built.                  *)
ResolveProfile ==
    /\ pc = "profile"
    /\ LET profile == RequestedProfile(setup.request)
           overrides == MergedOver(setup.request.cli, setup.request.env)
       IN  \/ /\ profile = "none"
              /\ GoTo("backend")
              /\ UNCHANGED <<logVars, setup>>
           \/ /\ profile # "none"
              /\ \E machine \in Machines[limits.inputs] :
                   LET resolved == ResolveComputeProfile(profile, overrides, machine)
                   IN  \/ /\ resolved = {}
                          /\ setup' = NoSetup
                          /\ CommandFailed(Return(2), Return(1))
                       \/ \E p \in resolved :
                            /\ setup' = [setup EXCEPT
                                 !.machine = machine,
                                 !.settings = ReplaceSettings(setup.settings, p)]
                            /\ Say("compute_profile_resolved", "INFO", "none",
                                   GoTo("backend"), Return(1))
    /\ UNCHANGED <<client, handlers, backend>>

(* _select_live_mining_components: the backend is held from here on, but   *)
(* the try block that releases it begins only when both are announced.     *)
(* What a profile found may be gone by now, and nothing takes its place.   *)
SelectBackend ==
    /\ pc = "backend"
    /\ \/ /\ BackendName(setup.settings) # "python"
          /\ setup' = NoSetup
          /\ CommandFailed(Return(2), Return(1))
          /\ UNCHANGED backend
       \/ /\ backend' = "held"
          /\ GoTo("strategy")
          /\ UNCHANGED <<logVars, setup>>
    /\ UNCHANGED <<client, handlers>>

SelectStrategy ==
    /\ pc = "strategy"
    /\ \/ /\ CommandFailed(Return(2), Return(1))
          /\ backend' = "released"
       \/ /\ Say("compute_backend_selected", "INFO", "none",
                 GoTo("announce"), Return(1))
          /\ UNCHANGED backend
    /\ setup' = NoSetup
    /\ UNCHANGED <<client, handlers>>

AnnounceStrategy ==
    /\ pc = "announce"
    /\ Say("search_strategy_selected", "INFO", "none",
           GoTo(IF command = "stratum-mine" THEN "install" ELSE "session"),
           Return(1))
    /\ UNCHANGED resourceVars

(* When _StopSignalScope.install fails at the second signal it puts back   *)
(* the first; if that fails as well, its own handler stays for good, as    *)
(* the one from before is forgotten.                                       *)
InstallHandlers ==
    /\ pc = "install"
    /\ \/ /\ handlers' = "held"
          /\ GoTo("session")
          /\ UNCHANGED faults
       \/ /\ handlers' \in {"released", "left"}
          /\ Raise("expected")
          /\ Fault
    /\ UNCHANGED <<limits, files, held, sink, detached, client, backend, setup>>

(* A KeyboardInterrupt outside the try block reaches the frame.  None is   *)
(* raised while both stop handlers are installed.                          *)
Interrupted ==
    /\ Fault
    /\ pc' = "close"
    /\ leaving' = "cut"
    /\ UNCHANGED <<files, held, sink, detached>>
    /\ UNCHANGED <<schedule, command, status, pending, outcome, ended>>

(* Before the try block, or after its finally block. *)
InterruptFrame ==
    /\ pc \in {"start", "settings", "profile", "backend", "strategy", "announce",
              "finish"}
    /\ Interrupted
    /\ setup' = NoSetup
    /\ UNCHANGED <<client, handlers, backend>>

Prepare ==
    \/ InterruptFrame
    \/ Settings \/ ResolveProfile \/ SelectBackend \/ SelectStrategy
    \/ AnnounceStrategy \/ InstallHandlers

-----------------------------------------------------------------------------
(* The handlers.  "expected" are the errors a command names; "unexpected"  *)
(* is any other Exception, "log" an EventLogError among them, "interrupt"  *)
(* a KeyboardInterrupt.                                                    *)
Reraised == IF pending = "log" THEN "log" ELSE "raise"

Leave(code, escapes) ==
    /\ pc' = "client"
    /\ status' = code
    /\ leaving' = escapes
    /\ UNCHANGED <<schedule, command, pending, outcome, ended>>

(* The handshake and the observer name the expected errors only. *)
ExceptBounded ==
    /\ pc = "except"
    /\ command \notin SearchCommands \cup BitcoinCommands
    /\ IF pending = "expected"
       THEN \E code \in {1, 2} :
              CommandFailed(Leave(code, "none"), Leave(status, "log"))
       ELSE Leave(status, Reraised) /\ UNCHANGED logVars
    /\ UNCHANGED resourceVars

(* Mining once and in chunks reports anything else on the way out, and     *)
(* ignores a log that cannot take the report.                              *)
ExceptOnce ==
    /\ pc = "except"
    /\ command \in {"stratum-mine-once", "stratum-mine-chunks"}
    /\ IF pending = "expected"
       THEN CommandFailed(Leave(1, "none"), Leave(1, "log"))
       ELSE CommandFailed(Leave(status, Reraised), Leave(status, Reraised))
    /\ UNCHANGED resourceVars

(* Continuous mining handles every Exception, a failed log included. *)
ExceptContinuous ==
    /\ pc = "except"
    /\ command = "stratum-mine"
    /\ CommandFailed(Leave(1, "none"), Leave(1, "log"))
    /\ UNCHANGED resourceVars

Except == ExceptBounded \/ ExceptOnce \/ ExceptContinuous

-----------------------------------------------------------------------------
(* The finally block, resource by resource.  A failed release is reported  *)
(* when nothing failed before it.                                          *)
FirstFailureByStatus == status = 0      \* mutant

FirstFailure == pending = "none" /\ status = 0

AfterCleanup == IF FirstFailure THEN "finish" ELSE "close"

(* Mutant: the handlers stay installed. *)
NextCleanupKeepsHandlers(r) ==
    IF r = "client" /\ command \in SearchCommands THEN "backend_close"
    ELSE IF r = "handlers" THEN "backend_close" ELSE AfterCleanup

(* Where the finally block goes on when resource r is done with. *)
NextCleanup(r) ==
    CASE r = "client" /\ command = "stratum-mine" -> "handlers"
      [] r = "client" /\ command \in SearchCommands \ {"stratum-mine"} -> "backend_close"
      [] r = "handlers" -> "backend_close"
      [] OTHER -> AfterCleanup

(* The report is written in the finally block itself: if the log fails     *)
(* there, the rest of the block is skipped.                                *)
ReportRelease(r) ==
    Say("command_failed", "ERROR", "none",
        /\ pc' = IF r = "backend" THEN "close" ELSE NextCleanup(r)
        /\ status' = 1
        /\ UNCHANGED <<schedule, command, pending, leaving, outcome, ended>>,
        Return(1))

ReleaseFails(r) ==
    IF FirstFailure THEN ReportRelease(r) ELSE GoTo(NextCleanup(r)) /\ UNCHANGED logVars

Released(resource) == IF resource = "held" THEN "released" ELSE resource

(* Closing the client swallows what the socket raises; only an interrupt   *)
(* can escape it, and the commands that search swallow that one too.       *)
CloseClient ==
    /\ pc = "client" /\ command \notin BitcoinCommands
    /\ \/ /\ client' = Released(client)
          /\ GoTo(NextCleanup("client")) /\ UNCHANGED logVars
       \/ /\ client = "held" /\ handlers # "held"
          /\ command \in SearchCommands
          /\ client' = "left"
          /\ ReleaseFails("client")
       \/ /\ client = "held" /\ command \notin SearchCommands
          /\ Interrupted
          /\ UNCHANGED client
    /\ UNCHANGED <<handlers, backend, setup>>

(* restore tries both signals and then forgets what was there before: a    *)
(* handler it could not put back is not tried again.  As soon as the one   *)
(* of SIGINT is back, an interrupt escapes the finally block from here or  *)
(* from the closing of the backend.                                        *)
RestoreHandlers ==
    /\ pc = "handlers"
    /\ \/ /\ handlers' = Released(handlers)
          /\ GoTo("backend_close") /\ UNCHANGED logVars
       \/ handlers = "held" /\ handlers' = "left" /\ ReleaseFails("handlers")
       \/ /\ handlers = "held" /\ handlers' \in {"released", "left"}
          /\ Interrupted
    /\ UNCHANGED <<client, backend, setup>>

CloseBackend ==
    /\ pc = "backend_close"
    /\ \/ /\ backend' = Released(backend)
          /\ GoTo(AfterCleanup) /\ UNCHANGED logVars
       \/ backend' = "left" /\ ReleaseFails("backend")
       \/ Interrupted /\ UNCHANGED backend
    /\ UNCHANGED <<client, handlers, setup>>

Cleanup == CloseClient \/ RestoreHandlers \/ CloseBackend

(* The event of a success: a warning when the pool rejected the share. *)
Finish ==
    /\ pc = "finish" /\ command \notin BitcoinCommands
    /\ Say("command_completed",
           IF outcome = "share_rejected" THEN "WARNING" ELSE "INFO", outcome,
           Return(0), Return(1))
    /\ UNCHANGED resourceVars
=============================================================================
