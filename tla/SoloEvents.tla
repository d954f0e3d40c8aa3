------------------------------ MODULE SoloEvents ------------------------------
(***************************************************************************)
(* The Bitcoin Core commands (bitcoin/command.py) inside the same frame:   *)
(* the readiness check, hashing alone, and mining with submission.  Their  *)
(* setup asks the node first and holds its resources after; a failed log   *)
(* is an error like others; each resource is released whatever the others  *)
(* do, and only then the outcome is reported.  What the session decides is *)
(* in SoloMining; here the calls and events of it are kept in order.       *)
(***************************************************************************)
EXTENDS CommandFrame, RpcClient

VARIABLE solo
         \* [step, polls, ranges, why: what the template is fetched for,
         \*  then: what a suppression ends in, verdict, submits, cleanup: a
         \*  release failed]

soloVars == <<solo, rpcVars>>

FreshSolo == [step |-> "opt_in", polls |-> 0, ranges |-> 0, why |-> "none",
              then |-> "none", verdict |-> "none", submits |-> 0,
              cleanup |-> FALSE]

SoloInit == solo = FreshSolo /\ RpcInit

SoloAt(step) == pc = "session" /\ command \in BitcoinCommands /\ solo.step = step

Turn(s) ==
    /\ solo' = s
    /\ UNCHANGED <<schedule, command, pc, status, pending, leaving, outcome,
                   ended>>

To(step) == Turn([solo EXCEPT !.step = step])

SoloRaise(error) == Raise(error) /\ UNCHANGED solo

Concludes(result) ==
    /\ pc' = "client"
    /\ outcome' = result
    /\ UNCHANGED <<schedule, command, status, pending, leaving, ended, solo>>

Quiet == UNCHANGED <<logVars, resourceVars>>

(* An event between two calls to the node. *)
Tell(event, level, value, then) ==
    /\ Say(event, level, value, then, SoloRaise("log"))
    /\ UNCHANGED <<resourceVars, rpcVars>>

-----------------------------------------------------------------------------
(* Setup: any step of it may be refused by what it checks. *)
Refused ==
    /\ \E step \in {"opt_in", "client", "parse", "backend"} : SoloAt(step)
    /\ SoloRaise("expected")
    /\ Quiet /\ UNCHANGED rpcVars

(* What no except clause names, and an interrupt without stop handlers. *)
SoloUnexpected ==
    /\ pc = "session" /\ command \in BitcoinCommands
    /\ \/ SoloRaise("unexpected")
       \/ SoloRaise("interrupt") /\ handlers # "held"
    /\ Fault
    /\ UNCHANGED <<files, held, sink, detached, resourceVars, rpcVars>>

OpenClient ==
    /\ SoloAt("opt_in")
    /\ client' = "held"
    /\ rpc' = NewClient
    /\ To("info")
    /\ UNCHANGED <<logVars, handlers, backend, setup, block>>

(* A read-only call that goes on to next. *)
Ask(step, next) ==
    /\ SoloAt(step)
    /\ ReadOnly
    /\ \E end \in ReadOnlyEnds :
         IF end = "read" THEN To(next) ELSE SoloRaise("expected")
    /\ Quiet

(* The chain is known; the check reports how far it got. *)
AskChain ==
    Ask("info", IF command = "bitcoin-core-check" THEN "connected" ELSE "synchronized")

Stage(step, event, next) == SoloAt(step) /\ Tell(event, "INFO", "none", To(next))

(* Initial block download is refused, by the check after its second stage. *)
Synchronized(step, next) ==
    /\ SoloAt(step)
    /\ To(next) \/ SoloRaise("expected")
    /\ Quiet /\ UNCHANGED rpcVars

CheckStages ==
    /\ command = "bitcoin-core-check"
    /\ \/ Stage("connected", "bitcoin_rpc_connected", "authenticated")
       \/ Stage("authenticated", "bitcoin_readiness_stage", "verified")
       \/ Stage("verified", "bitcoin_readiness_stage", "download")
       \/ Synchronized("download", "up_to_date")
       \/ Stage("up_to_date", "bitcoin_readiness_stage", "address")
       \/ Stage("reachable", "bitcoin_readiness_stage", "parse")
       \/ Stage("received", "solo_template_received", "close")

AskNode ==
    \/ AskChain
    \/ command # "bitcoin-core-check" /\ Synchronized("synchronized", "address")
    \/ Ask("address", "template")
    \/ Ask("template", IF command = "bitcoin-core-check" THEN "reachable" ELSE "parse")

TemplateParsed ==
    /\ SoloAt("parse")
    /\ To(IF command = "bitcoin-core-check" THEN "received" ELSE "backend")
    /\ Quiet /\ UNCHANGED rpcVars

(* The check closes its client before it reports that all is ready; a      *)
(* failed close is a failure of the check.                                 *)
CheckCloses ==
    /\ SoloAt("close")
    /\ CloseRpc
    /\ \/ /\ client' = "released"
          /\ pc' = "finish" /\ outcome' = "ready"
          /\ UNCHANGED <<schedule, command, status, pending, leaving, ended, solo>>
       \/ client' = "left" /\ SoloRaise("expected")
    /\ UNCHANGED <<logVars, handlers, backend, setup>>

BuildBackend ==
    /\ SoloAt("backend")
    /\ backend' = "held"
    /\ To("handlers")
    /\ UNCHANGED <<logVars, client, handlers, setup, rpcVars>>

(* As in _StopSignalScope: what cannot be put back is left. *)
InstallSoloHandlers ==
    /\ SoloAt("handlers")
    /\ \/ /\ handlers' = "held"
          /\ To("connected")
          /\ UNCHANGED faults
       \/ /\ handlers' \in {"released", "left"}
          /\ SoloRaise("expected")
          /\ Fault
    /\ UNCHANGED <<limits, files, held, sink, detached, client, backend, setup, rpcVars>>

Announce ==
    /\ command # "bitcoin-core-check"
    /\ \/ Stage("connected", "bitcoin_rpc_connected", "profile")
       \/ Stage("profile", "compute_profile_resolved", "selected")
       \/ Stage("selected", "compute_backend_selected", "strategy")
       \/ Stage("strategy", "search_strategy_selected", "first")
       \/ Stage("first", "solo_template_received", "head")

SoloSetup ==
    \/ Refused \/ OpenClient \/ AskNode \/ CheckStages
    \/ TemplateParsed \/ CheckCloses \/ BuildBackend
    \/ InstallSoloHandlers \/ Announce

-----------------------------------------------------------------------------
(* The session.  It ends with a result here, and the command reports it.   *)
StoppedSolo ==
    /\ SoloAt("head")
    /\ \E result \in {"stopped_by_user", "runtime_limit_reached",
                      "chunk_limit_reached"} : Concludes(result)
    /\ Quiet /\ UNCHANGED rpcVars

Suppress(then) == Turn([solo EXCEPT !.step = "suppress", !.then = then])

(* Where the session goes with the template fetched. *)
Fetched(changed) ==
    CASE solo.why = "poll" -> To("range")
      [] solo.why = "exhausted" /\ changed -> To("head")
      [] solo.why = "exhausted" /\ ~changed -> Concludes("safe_progression_exhausted")
      [] solo.why = "match" /\ changed -> Suppress("head")
      [] solo.why = "match" /\ ~changed -> To("candidate") \/ Suppress("stopped_by_user")
      [] solo.why = "proposed" /\ changed -> Suppress("candidate_suppressed")
      [] solo.why = "proposed" /\ ~changed -> To("submit") \/ Suppress("stopped_by_user")

FetchFails ==
    IF solo.why \in {"poll", "exhausted"} THEN Concludes("rpc_failure")
    ELSE Suppress("rpc_failure")

For(reason) == Turn([solo EXCEPT !.step = "fetch", !.why = reason, !.polls = @ + 1])

(* The template is polled when its time has come. *)
HeadOfLoop ==
    /\ SoloAt("head")
    /\ To("range") \/ (solo.polls < limits.losses /\ For("poll"))
    /\ Quiet /\ UNCHANGED rpcVars

(* The call, and the parsing of what it returned. *)
FetchTemplate ==
    /\ SoloAt("fetch")
    /\ ReadOnly
    /\ \E end \in ReadOnlyEnds :
         IF end = "read" THEN To("template_received") \/ SoloRaise("expected")
         ELSE FetchFails
    /\ Quiet

TemplateReceived ==
    /\ SoloAt("template_received")
    /\ \E changed \in BOOLEAN :
         Tell("solo_template_received", "INFO", "none",
              IF changed THEN To("template_replaced") ELSE Fetched(FALSE))

(* replace_template: the work starts over before the event is written. *)
TemplateReplaced ==
    /\ SoloAt("template_replaced")
    /\ Tell("solo_template_replaced", "INFO", "none", Fetched(TRUE))

-----------------------------------------------------------------------------
(* The next range, of this variant or of one that is new. *)
NextSoloRange ==
    /\ SoloAt("range") /\ solo.ranges < limits.ranges
    /\ To("search") \/ To("variant")
    /\ Quiet /\ UNCHANGED rpcVars

VariantStarted == Stage("variant", "solo_work_variant_started", "search")

(* The variant is used up: another extra nonce, and perhaps another time,  *)
(* or nothing that may be varied is left.                                  *)
VariantUsedUp ==
    /\ SoloAt("range")
    /\ \/ solo.ranges < limits.ranges /\ To("advance")
       \/ solo.polls < limits.losses /\ For("exhausted")
    /\ Quiet /\ UNCHANGED rpcVars

ExtraNonceAdvanced ==
    /\ SoloAt("advance")
    /\ \E next \in {"head", "roll"} :
         Tell("solo_coinbase_extra_nonce_advanced", "INFO", "none",
              Turn([solo EXCEPT !.step = next, !.ranges = @ + 1]))

TimestampRolled == Stage("roll", "solo_timestamp_rolled", "head")

(* The range is searched and reported; a stop suppresses its match. *)
SoloRangeCompleted ==
    /\ SoloAt("search")
    /\ Tell("solo_nonce_range_completed", "INFO", "none",
            \/ Turn([solo EXCEPT !.step = "head", !.ranges = @ + 1])
            \/ Turn([solo EXCEPT !.step = "fetch", !.ranges = @ + 1, !.why = "match"])
            \/ Turn([solo EXCEPT !.step = "suppress", !.ranges = @ + 1,
                                 !.then = "stopped_by_user"])
            \/ Concludes("stopped_by_user"))

(* The backend, verification or assembly of a block raises, or the work    *)
(* cannot be prepared or was searched before.                              *)
SearchRefused ==
    /\ \E step \in {"template_replaced", "variant", "search", "candidate"} :
         SoloAt(step)
    /\ SoloRaise("expected")
    /\ Quiet /\ UNCHANGED rpcVars

Suppressed ==
    /\ SoloAt("suppress")
    /\ Tell("solo_candidate_suppressed", "WARNING", "none",
            IF solo.then = "head" THEN To("head") ELSE Concludes(solo.then))

-----------------------------------------------------------------------------
(* HashOnlyCandidatePolicy is done when the candidate is recorded;         *)
(* ProposalSubmissionCandidatePolicy proposes it then.                     *)
SoloCandidateFound ==
    /\ SoloAt("candidate")
    /\ Tell("solo_candidate_found", "INFO", "none",
            IF command = "solo-hash"
            THEN Concludes("candidate_found_submission_disabled")
            ELSE To("propose"))

Propose ==
    /\ SoloAt("propose")
    /\ ProposeBlock
    /\ \E end \in ProposalEnds :
         CASE end \in Verdicts ->
                Turn([solo EXCEPT !.step = "proposed", !.verdict = end])
           [] end = "method_unavailable" -> Concludes("proposal_unavailable")
           [] OTHER -> Suppress("rpc_failure")
    /\ Quiet

ProposalCompleted ==
    /\ SoloAt("proposed")
    /\ Tell("solo_block_proposal_completed",
            IF solo.verdict = "accepted" THEN "INFO" ELSE "WARNING", solo.verdict,
            IF solo.verdict = "accepted"
            THEN Turn([solo EXCEPT !.step = "fetch", !.why = "proposed"])
            ELSE Concludes("proposal_rejected"))

SubmitSolo ==
    /\ SoloAt("submit")
    /\ \E fate \in Fates : \E end \in SubmissionEnds(fate) :
         /\ SubmitBlock(fate)
         /\ IF end \in Verdicts
            THEN Turn([solo EXCEPT !.step = "submitted", !.submits = @ + 1,
                                   !.verdict = end])
            ELSE /\ pc' = "client"
                 /\ outcome' = "rpc_failure"
                 /\ solo' = [solo EXCEPT !.submits = @ + 1]
                 /\ UNCHANGED <<schedule, command, status, pending, leaving, ended>>
    /\ Quiet

BlockSubmitted ==
    /\ SoloAt("submitted")
    /\ Tell("solo_block_submission_completed",
            IF solo.verdict = "accepted" THEN "INFO" ELSE "WARNING", solo.verdict,
            Concludes(IF solo.verdict = "accepted" THEN "block_accepted"
                      ELSE "block_rejected"))

SoloSession ==
    \/ StoppedSolo \/ HeadOfLoop \/ FetchTemplate \/ TemplateReceived
    \/ TemplateReplaced \/ NextSoloRange \/ VariantStarted \/ VariantUsedUp
    \/ ExtraNonceAdvanced \/ TimestampRolled \/ SoloRangeCompleted
    \/ SearchRefused \/ Suppressed \/ SoloCandidateFound \/ Propose
    \/ ProposalCompleted \/ SubmitSolo \/ BlockSubmitted \/ SoloUnexpected

-----------------------------------------------------------------------------
(* The solo commands report whatever their except clause catches, a failed *)
(* log included, and ignore a log that cannot take the report.             *)
Reported ==
    /\ pc' = "client"
    /\ status' = 1
    /\ UNCHANGED <<schedule, command, pending, leaving, outcome, ended, solo>>

Escapes ==
    /\ pc' = "client"
    /\ leaving' = Reraised
    /\ UNCHANGED <<schedule, command, status, pending, outcome, ended, solo>>

(* A failed log is a RuntimeError, which the readiness check lets through. *)
Caught == IF command = "bitcoin-core-check" THEN {"expected"} ELSE {"expected", "log"}

ExceptSolo ==
    /\ pc = "except" /\ command \in BitcoinCommands
    /\ IF pending \in Caught
       THEN CommandFailed(Reported, Reported)
       ELSE Escapes /\ UNCHANGED logVars
    /\ UNCHANGED <<resourceVars, rpcVars>>

(* Handlers, backend, client: a release that fails is only remembered. *)
Remember(next, failed) == Turn([solo EXCEPT !.step = next, !.cleanup = @ \/ failed])

Reached(step) == pc = "client" /\ command \in BitcoinCommands /\ solo.step = step

SoloCleanupBegins ==
    /\ pc = "client" /\ command \in BitcoinCommands
    /\ solo.step \notin {"restore", "close_backend", "close_client", "report"}
    /\ To("restore")
    /\ Quiet /\ UNCHANGED rpcVars

RestoreSoloHandlers ==
    /\ Reached("restore")
    /\ \/ handlers' = Released(handlers) /\ To("close_backend")
       \/ /\ handlers = "held" /\ handlers' = "left"
          /\ Remember("close_backend", TRUE)
    /\ UNCHANGED <<logVars, client, backend, setup, rpcVars>>

CloseSoloBackend ==
    /\ Reached("close_backend")
    /\ \/ backend' = Released(backend) /\ To("close_client")
       \/ /\ backend = "held" /\ backend' = "left"
          /\ Remember("close_client", TRUE)
    /\ UNCHANGED <<logVars, client, handlers, setup, rpcVars>>

(* The readiness check ignores a client it cannot close. *)
CloseSoloClient ==
    /\ Reached("close_client")
    /\ \/ client' = Released(client) /\ To("report")
       \/ /\ client = "held" /\ client' = "left"
          /\ Remember("report", command # "bitcoin-core-check")
    /\ CloseRpc
    /\ UNCHANGED <<logVars, handlers, backend, setup>>

(* Without stop handlers, or once they are restored, an interrupt leaves   *)
(* the finally block wherever it has got to.                               *)
InterruptSoloCleanup ==
    /\ pc = "client" /\ command \in BitcoinCommands /\ handlers # "held"
    /\ Interrupted
    /\ UNCHANGED <<resourceVars, soloVars>>

(* Whatever failed before is the outcome; a failed cleanup turns a result  *)
(* into a failure; otherwise there is a result to report.                  *)
SoloResult ==
    /\ Reached("report")
    /\ IF pending # "none"
       THEN GoTo("close") /\ UNCHANGED logVars
       ELSE IF solo.cleanup THEN CommandFailed(Return(1), Return(1))
       ELSE GoTo("finish") /\ UNCHANGED logVars
    /\ UNCHANGED <<resourceVars, soloVars>>

UnsuccessfulOutcomes ==
    {"rpc_failure", "proposal_unavailable", "proposal_rejected", "block_rejected"}

(* The event of the outcome, whether it is a success or not. *)
SoloFinish ==
    /\ pc = "finish" /\ command \in BitcoinCommands
    /\ Say("command_completed", "INFO", outcome,
           Return(IF outcome \in UnsuccessfulOutcomes THEN 1 ELSE 0), Return(1))
    /\ UNCHANGED <<resourceVars, soloVars>>

SoloNext ==
    \/ SoloSetup \/ SoloSession \/ ExceptSolo
    \/ SoloCleanupBegins \/ RestoreSoloHandlers \/ CloseSoloBackend
    \/ CloseSoloClient \/ InterruptSoloCleanup \/ SoloResult \/ SoloFinish
=============================================================================
