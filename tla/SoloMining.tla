------------------------------ MODULE SoloMining ------------------------------
(***************************************************************************)
(* bitcoin/solo.py, run_solo_mining: one bounded solo session against a    *)
(* Bitcoin Core node, whose block template changes while ranges are        *)
(* searched, templates polled and a candidate proposed and submitted.      *)
(*                                                                         *)
(* A step ends where the node is called, a range is searched or the stop   *)
(* token is read again, so that a signal, the deadline and a new template  *)
(* fall between any two of them.  Templates are told apart by fingerprint, *)
(* ranges are numbered in the order of the strategy (NonceCover).          *)
(***************************************************************************)
EXTENDS Integers, FiniteSets

CONSTANTS
    Plans,              \* [max_chunks (0: none), max_time_roll_seconds, submits]
    Templates,
    TemplateOf,         \* template -> [time, mutable]
    Ranges,             \* parent ranges of one nonce domain
    MaxExtraNonce,      \* MAX_COINBASE_EXTRA_NONCE
    MaxTime,            \* 0xffffffff
    MaxChanges,         \* bound: changes of the node's template
    MaxSearches         \* bound: ranges searched when the plan has no limit

ASSUME PlansAssumption ==
    \A p \in Plans : /\ p.max_chunks \in Nat
                     /\ p.max_time_roll_seconds \in Nat
                     /\ p.submits \in BOOLEAN
ASSUME TemplatesAssumption ==
    \A t \in Templates : /\ TemplateOf[t].time \in 0 .. MaxTime
                         /\ TemplateOf[t].mutable \in BOOLEAN
ASSUME BoundsAssumption ==
    /\ Ranges \in Nat \ {0} /\ MaxExtraNonce \in Nat /\ MaxTime \in Nat
    /\ MaxChanges \in Nat /\ MaxSearches \in Nat

VARIABLES
    plan,
    pc,
    template,       \* current_template
    variant,        \* current_variant and the progression: [extra, timestamp]
    issued,         \* ranges the strategy cursor handed out
    variant_started,
    seen,           \* seen_variant_identities
    match,          \* the candidate while it is handled: its template, or none
    token,          \* the stop token: [expired, reason]
    count,          \* the result's counters
    outcome,
    node,           \* environment: the template the node would return
    changes,        \* environment: how often it has changed
    wall,           \* history: latest local wall time read
    left,           \* history: templates that were replaced
    found,          \* history: matches the backend reported
    at_stop,        \* history: [chunks, submits] when the stop became visible
    submits,        \* history: calls of submit_block
    fetched_at,     \* history: changes of the node when it was last fetched from
    accepted_at     \* history: changes of the node when it accepted the proposal

vars == <<plan, pc, template, variant, issued, variant_started, seen, match,
          token, count, outcome, node, changes, wall, left, found, at_stop, submits,
          fetched_at, accepted_at>>

work == <<template, variant, issued, variant_started, seen, left, fetched_at>>
world == <<token, node, changes, at_stop>>
past == <<wall, found, submits, accepted_at>>

NoMatch == [held |-> FALSE]

\* The identity of a variant: the template's fingerprint and what is varied.
Identity == <<template, variant.extra, variant.timestamp>>

StopRequested == token.expired \/ token.reason # "none"

\* _stop_outcome reads, and so observes, the token.
StopOutcome ==
    IF token.reason # "none" THEN token.reason ELSE "runtime_limit_reached"

Init ==
    /\ plan \in Plans
    /\ pc = "head"
    /\ template \in Templates
    /\ \E extra \in 0 .. MaxExtraNonce :
          variant = [extra |-> extra, timestamp |-> TemplateOf[template].time]
    /\ issued = 0
    /\ variant_started = FALSE
    /\ seen = {}
    /\ match = NoMatch
    /\ token = [expired |-> FALSE, reason |-> "none"]
    /\ count = [chunks |-> 0, templates |-> 1, replacements |-> 0, variants |-> 0,
                advances |-> 0, rolls |-> 0, candidates |-> 0, suppressions |-> 0,
                proposals |-> 0, submissions |-> 0]
    /\ outcome = "none"
    /\ node = template
    /\ changes = 0
    /\ wall = 0
    /\ left = {}
    /\ found = 0
    /\ at_stop = [chunks |-> 0, submits |-> 0]
    /\ submits = 0
    /\ fetched_at = 0
    /\ accepted_at = 0

Ended == {"finished", "raised"}

-------------------------------------------------------------------------------
(* The world                                                               *)

\* A submission that is about to be made has passed its last check.
MadeBy == [chunks |-> count.chunks, submits |-> submits + IF pc = "submit" THEN 1 ELSE 0]

Signal ==
    /\ pc \notin Ended
    /\ token.reason = "none"
    /\ token' = [token EXCEPT !.reason = "stopped_by_user"]
    /\ at_stop' = IF StopRequested THEN at_stop ELSE MadeBy
    /\ UNCHANGED <<plan, pc, work, match, count, outcome, node, changes,
                   past>>

DeadlinePasses ==
    /\ pc \notin Ended
    /\ ~StopRequested
    /\ token' = [token EXCEPT !.expired = TRUE]
    /\ at_stop' = MadeBy
    /\ UNCHANGED <<plan, pc, work, match, count, outcome, node, changes,
                   past>>

\* A new tip, new transactions or only a new time: the template differs.
NodeChanges ==
    /\ pc \notin Ended
    /\ changes < MaxChanges
    /\ changes' = changes + 1
    /\ node' \in Templates \ {node}
    /\ UNCHANGED <<plan, pc, work, match, token, count, outcome, past,
                   at_stop>>

-------------------------------------------------------------------------------
(* Finishing, and template refreshes                                       *)

Finish(result) ==
    /\ pc' = "finished"
    /\ outcome' = result

Counted(counters) == [c \in DOMAIN count |-> count[c] + IF c \in counters THEN 1 ELSE 0]

\* replace_template: progression and search restart on the fetched template.
Replace ==
    /\ template' = node
    /\ variant' = [extra |-> 0, timestamp |-> TemplateOf[node].time]
    /\ issued' = 0
    /\ variant_started' = FALSE

\* A successful fetch_template, and what it was made for.
Fetch(also) ==
    /\ IF node = template
       THEN /\ count' = Counted({"templates"})
            /\ UNCHANGED <<template, variant, issued, variant_started, left>>
       ELSE /\ count' = Counted({"templates", "replacements"} \cup also)
            /\ Replace
            /\ left' = left \cup {template}
    /\ fetched_at' = changes
    /\ UNCHANGED seen

\* Any call to the node may raise BitcoinRpcError instead.
RpcFails(counters) ==
    /\ Finish("rpc_failure")
    /\ count' = Counted(counters)
    /\ UNCHANGED <<plan, work, match, world, past>>

-------------------------------------------------------------------------------
(* The loop up to a range                                                  *)

ChunkLimit == plan.max_chunks # 0 /\ count.chunks >= plan.max_chunks

HeadStopped ==
    /\ pc = "head"
    /\ StopRequested
    /\ Finish(StopOutcome)
    /\ UNCHANGED <<plan, work, match, world, count, past>>

\* Checked at the head of the loop, and after a range without a match.
ChunkLimitReached ==
    /\ pc \in {"head", "paced"}
    /\ pc = "head" => ~StopRequested
    /\ ChunkLimit
    /\ Finish("chunk_limit_reached")
    /\ UNCHANGED <<plan, work, match, world, count, past>>

\* The template is polled if template_poll_seconds have passed.
HeadPolls ==
    /\ pc = "head"
    /\ ~StopRequested
    /\ ~ChunkLimit
    /\ count.chunks < MaxSearches
    /\ \/ Fetch({}) \/ UNCHANGED <<work, count>>
    /\ pc' = "assign"
    /\ UNCHANGED <<plan, match, world, outcome, past>>

HeadPollFails ==
    /\ pc = "head"
    /\ ~StopRequested
    /\ ~ChunkLimit
    /\ RpcFails({})

\* next_assignment returned a range; a variant is looked up before its first.
SearchStarts ==
    /\ pc = "assign"
    /\ issued < Ranges
    /\ variant_started \/ Identity \notin seen
    /\ issued' = issued + 1
    /\ seen' = seen \cup {Identity}
    /\ variant_started' = TRUE
    /\ count' = IF variant_started THEN count ELSE Counted({"variants"})
    /\ pc' = "search"
    /\ UNCHANGED <<plan, template, variant, left, fetched_at, match, world, outcome,
                   past>>

\* "solo progression produced duplicate effective work"
DuplicateRaises ==
    /\ pc = "assign"
    /\ issued < Ranges
    /\ ~variant_started
    /\ Identity \in seen
    /\ pc' = "raised"
    /\ UNCHANGED <<plan, work, match, world, count, outcome, past>>

\* _SoloProgression.advance: the next extra nonce ...
AdvanceExtraNonce ==
    /\ pc = "assign"
    /\ issued = Ranges
    /\ variant.extra < MaxExtraNonce
    /\ variant' = [variant EXCEPT !.extra = @ + 1]
    /\ issued' = 0
    /\ variant_started' = FALSE
    /\ count' = Counted({"advances"})
    /\ pc' = "head"
    /\ UNCHANGED <<plan, template, seen, left, fetched_at, match, world, outcome,
                   past>>

\* The wall clock may be ahead of any time a header can hold.
Clock == 0 .. MaxTime + 1

\* ... or, after the last one, a later time, if the template and the clock allow.
MayRoll(now) ==
    /\ TemplateOf[template].mutable
    /\ variant.timestamp < now
    /\ variant.timestamp # MaxTime
    /\ variant.timestamp - TemplateOf[template].time < plan.max_time_roll_seconds

\* The extra nonces would start over at the time they were searched at.
RolledInPlace == [extra |-> 0, timestamp |-> variant.timestamp]

Rolled == [extra |-> 0, timestamp |-> variant.timestamp + 1]

RollTime(now) ==
    /\ pc = "assign"
    /\ issued = Ranges
    /\ variant.extra = MaxExtraNonce
    /\ MayRoll(now)
    /\ wall' = IF now > wall THEN now ELSE wall
    /\ variant' = Rolled
    /\ issued' = 0
    /\ variant_started' = FALSE
    /\ count' = Counted({"advances", "rolls"})
    /\ pc' = "head"
    /\ UNCHANGED <<plan, template, seen, left, fetched_at, match, world, outcome,
                   found, submits, accepted_at>>

\* Neither: only a fresh template can go on.
ProgressionEnds(now) ==
    /\ pc = "assign"
    /\ issued = Ranges
    /\ variant.extra = MaxExtraNonce
    /\ ~MayRoll(now)
    /\ Fetch({})
    /\ IF node = template
       THEN Finish("safe_progression_exhausted")
       ELSE pc' = "head" /\ UNCHANGED outcome
    /\ UNCHANGED <<plan, match, world, past>>

ProgressionEndFails ==
    /\ pc = "assign"
    /\ issued = Ranges
    /\ variant.extra = MaxExtraNonce
    /\ RpcFails({})

-------------------------------------------------------------------------------
(* A range, and what is done about its candidate                           *)

\* The range is searched and the token read: a stop suppresses a candidate.
SearchCompletes(matched) ==
    /\ pc = "search"
    /\ found' = found + IF matched THEN 1 ELSE 0
    /\ count' = Counted({"chunks"} \cup IF matched /\ StopRequested
                                        THEN {"suppressions"} ELSE {})
    /\ IF StopRequested
       THEN Finish(StopOutcome) /\ UNCHANGED match
       ELSE /\ pc' = IF matched THEN "found" ELSE "paced"
            /\ match' = IF matched THEN [held |-> TRUE, identity |-> Identity]
                        ELSE match
            /\ UNCHANGED outcome
    /\ UNCHANGED <<plan, work, world, wall, submits, accepted_at>>

\* The backend raises, or its candidate fails verification.
SearchRaises ==
    /\ pc \in {"search", "found"}
    /\ pc' = "raised"
    /\ UNCHANGED <<plan, work, match, world, count, outcome, past>>

\* The pause is over.
Paced ==
    /\ pc = "paced"
    /\ ~ChunkLimit
    /\ pc' = "head"
    /\ UNCHANGED <<plan, work, match, world, count, outcome, past>>

\* The forced refresh before anything is made of the candidate.
Confirm ==
    /\ pc = "found"
    /\ Fetch({"suppressions"})
    /\ pc' = IF node = template THEN "confirmed" ELSE "head"
    /\ match' = IF node = template THEN match ELSE NoMatch
    /\ UNCHANGED <<plan, world, outcome, past>>

\* A match the node could not be asked about would be dropped silently.
ConfirmFailsUncounted ==
    /\ pc = "found"
    /\ RpcFails({})

ConfirmFails ==
    /\ pc = "found"
    /\ RpcFails({"suppressions"})

ConfirmedStopped ==
    /\ pc = "confirmed"
    /\ StopRequested
    /\ Finish(StopOutcome)
    /\ count' = Counted({"suppressions"})
    /\ UNCHANGED <<plan, work, match, world, past>>

\* HashOnlyCandidatePolicy stops here, without any call to the node.
HashOnly ==
    /\ pc = "confirmed"
    /\ ~StopRequested
    /\ ~plan.submits
    /\ Finish("candidate_found_submission_disabled")
    /\ count' = Counted({"candidates"})
    /\ UNCHANGED <<plan, work, match, world, past>>

\* ProposalSubmissionCandidatePolicy assembles the block and proposes it.
Assemble ==
    /\ pc = "confirmed"
    /\ ~StopRequested
    /\ plan.submits
    /\ count' = Counted({"candidates"})
    /\ pc' \in {"propose", "raised"}
    /\ UNCHANGED <<plan, work, match, world, outcome, past>>

ProposeAnswered(accepted) ==
    /\ pc = "propose"
    /\ count' = Counted({"proposals"})
    /\ IF accepted
       THEN pc' = "proposed" /\ accepted_at' = changes /\ UNCHANGED outcome
       ELSE Finish("proposal_rejected") /\ UNCHANGED accepted_at
    /\ UNCHANGED <<plan, work, match, world, wall, found, submits>>

\* The node has no proposal mode, or the call failed.
ProposeFails ==
    /\ pc = "propose"
    /\ \/ Finish("proposal_unavailable") /\ UNCHANGED count
       \/ Finish("rpc_failure") /\ count' = Counted({"suppressions"})
    /\ UNCHANGED <<plan, work, match, world, past>>

\* The block would be submitted without looking at the node again.
RefreshSkipped ==
    /\ pc = "proposed"
    /\ pc' = "refreshed"
    /\ UNCHANGED <<plan, work, match, world, count, outcome, past>>

\* The second forced refresh; a change suppresses the candidate for good.
Refresh ==
    /\ pc = "proposed"
    /\ Fetch({"suppressions"})
    /\ IF node = template
       THEN pc' = "refreshed" /\ UNCHANGED outcome
       ELSE Finish("candidate_suppressed")
    /\ UNCHANGED <<plan, match, world, past>>

RefreshFails ==
    /\ pc = "proposed"
    /\ RpcFails({"suppressions"})

RefreshedStopped ==
    /\ pc = "refreshed"
    /\ StopRequested
    /\ Finish(StopOutcome)
    /\ count' = Counted({"suppressions"})
    /\ UNCHANGED <<plan, work, match, world, past>>

\* The last look at the token; after it submit_block is called.
SubmitUnchecked ==
    /\ pc = "refreshed"
    /\ pc' = "submit"
    /\ UNCHANGED <<plan, work, match, world, count, outcome, past>>

Submit ==
    /\ pc = "refreshed"
    /\ ~StopRequested
    /\ pc' = "submit"
    /\ UNCHANGED <<plan, work, match, world, count, outcome, past>>

SubmitAnswered(accepted) ==
    /\ pc = "submit"
    /\ submits' = submits + 1
    /\ Finish(IF accepted THEN "block_accepted" ELSE "block_rejected")
    /\ count' = Counted({"submissions"})
    /\ UNCHANGED <<plan, work, match, world, wall, found, accepted_at>>

SubmitFails ==
    /\ pc = "submit"
    /\ submits' = submits + 1
    /\ Finish("rpc_failure")
    /\ UNCHANGED <<plan, work, match, world, count, wall, found, accepted_at>>

-------------------------------------------------------------------------------
World == Signal \/ DeadlinePasses \/ NodeChanges

Loop ==
    \/ HeadStopped \/ ChunkLimitReached \/ HeadPolls \/ HeadPollFails
    \/ SearchStarts \/ DuplicateRaises \/ AdvanceExtraNonce
    \/ \E now \in Clock : RollTime(now) \/ ProgressionEnds(now)
    \/ ProgressionEndFails
    \/ \E matched \in BOOLEAN : SearchCompletes(matched)
    \/ SearchRaises \/ Paced
    \/ Confirm \/ ConfirmFails \/ ConfirmedStopped \/ HashOnly \/ Assemble
    \/ \E accepted \in BOOLEAN : ProposeAnswered(accepted)
    \/ ProposeFails \/ Refresh \/ RefreshFails \/ RefreshedStopped \/ Submit
    \/ \E accepted \in BOOLEAN : SubmitAnswered(accepted)
    \/ SubmitFails

Finished == pc \in Ended /\ UNCHANGED vars

Next == World \/ Loop \/ Finished

Spec == Init /\ [][Next]_vars

-------------------------------------------------------------------------------
(* Properties                                                                *)

Counters == {"chunks", "templates", "replacements", "variants", "advances", "rolls",
             "candidates", "suppressions", "proposals", "submissions"}

Stops == {"stopped_by_user", "runtime_limit_reached"}

\* Every part of the session's state keeps its shape.
TypeOK ==
    /\ plan \in Plans
    /\ template \in Templates /\ node \in Templates
    /\ variant \in [extra : 0 .. MaxExtraNonce, timestamp : 0 .. MaxTime]
    /\ issued \in 0 .. Ranges
    /\ variant_started \in BOOLEAN /\ variant_started => Identity \in seen
    /\ token \in [expired : BOOLEAN, reason : {"none", "stopped_by_user"}]
    /\ count \in [Counters -> Nat]
    /\ count.variants = Cardinality(seen)
    /\ count.replacements < count.templates

\* A block is submitted at most once, and only if the node, asked again after it
\* accepted the proposal, still gave the template the block was built from.
SubmitsFreshest ==
    pc = "submit" =>
        /\ submits = 0
        /\ match.held /\ match.identity = Identity
        /\ count.proposals = 1
        /\ fetched_at >= accepted_at

\* The progression alone never comes back to a variant of a template, so the
\* duplicate check only ever stops a session whose node came back to an earlier
\* template.  Templates are told apart by fingerprint: the same header built
\* from two of them counts as two variants, in the code as well.
DuplicateOnlyOnReturn ==
    pc = "assign" /\ issued < Ranges /\ ~variant_started /\ Identity \in seen
        => template \in left

\* A header's time is the template's, or was rolled: then the template allows
\* it, and it is ahead neither of the local clock nor of the roll limit; and a
\* header can always hold it, whatever the clock and the limit say.
TimestampWithinBounds ==
    LET rolled == variant.timestamp - TemplateOf[template].time
    IN  /\ rolled >= 0 /\ variant.timestamp <= MaxTime
        /\ rolled > 0 => /\ TemplateOf[template].mutable
                         /\ rolled <= plan.max_time_roll_seconds
                         /\ variant.timestamp <= wall

\* The session searches no variant of a template twice unless the node went back
\* to it, and only times that the template, the clock and a header allow.
VariantsValid == DuplicateOnlyOnReturn /\ TimestampWithinBounds

\* The candidate was lost after the policy took it and before it was sent.
SuppressedLate ==
    /\ count.candidates = 1
    /\ submits = 0
    /\ outcome \in Stops \cup {"rpc_failure", "candidate_suppressed"}

\* No match is lost uncounted: each is a candidate or a suppression, and both
\* only if it was given up between the policy and the submission.
CandidatesAccounted ==
    pc = "finished" =>
        found = count.candidates + count.suppressions - IF SuppressedLate THEN 1 ELSE 0

\* A stop lets the range being searched complete, and a submission already on
\* its way; after it no other range completes and no block is submitted.
StopBoundsSession ==
    StopRequested => /\ count.chunks <= at_stop.chunks + 1
                     /\ submits <= at_stop.submits

===============================================================================
