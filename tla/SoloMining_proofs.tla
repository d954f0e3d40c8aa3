--------------------------- MODULE SoloMining_proofs ---------------------------
(***************************************************************************)
(* What a solo session submits, searches, counts and does after a stop,    *)
(* for any plans, templates, ranges, extra nonces and any number of        *)
(* template changes.  Four invariants, each about a few variables, over    *)
(* one about types.                                                        *)
(***************************************************************************)
EXTENDS SoloMining, TLAPS

Before == {"head", "assign", "search", "paced"}
Holding == {"found", "confirmed"}
Handling == {"propose", "proposed", "refreshed", "submit"}
Variants == [extra : 0 .. MaxExtraNonce, timestamp : 0 .. MaxTime]

WorkTyped ==
    /\ template \in Templates /\ node \in Templates
    /\ variant \in Variants
    /\ variant_started \in BOOLEAN
    /\ fetched_at \in Nat /\ accepted_at \in Nat /\ changes \in Nat
    /\ wall \in Nat

CountTyped ==
    /\ plan \in Plans
    /\ pc \in Before \cup Holding \cup Handling \cup Ended
    /\ count \in [Counters -> Nat]
    /\ found \in Nat /\ submits \in Nat
    /\ token \in [expired : BOOLEAN, reason : {"none", "stopped_by_user"}]
    /\ at_stop \in [chunks : Nat, submits : Nat]

\* No chunk completes after a stop but the one that was being searched, and a
\* submission that is about to be made when it comes counts as made.
StopKept ==
    StopRequested =>
        /\ pc \notin Ended => count.chunks = at_stop.chunks
        /\ count.chunks <= at_stop.chunks + 1
        /\ submits + (IF pc = "submit" THEN 1 ELSE 0) <= at_stop.submits

\* Where the session is says what has become of the matches found so far.
MatchesAccounted ==
    /\ pc \notin Ended => submits = 0
    /\ pc \in Before =>
           count.candidates = 0 /\ count.proposals = 0 /\ found = count.suppressions
    /\ pc \in Holding =>
           count.candidates = 0 /\ count.proposals = 0 /\ found = count.suppressions + 1
    /\ pc \in Handling =>
           /\ count.candidates = 1 /\ found = count.suppressions + 1
           /\ count.proposals = IF pc = "propose" THEN 0 ELSE 1
    /\ CandidatesAccounted

\* The candidate held is of the current work, and its proposal's acceptance is
\* no later than the node's last change.
CandidateCurrent ==
    /\ pc \in Holding \cup Handling => match.held /\ match.identity = Identity
    /\ accepted_at <= changes
    /\ pc \in {"refreshed", "submit"} => fetched_at >= accepted_at

\* What was searched on the template is behind the variant, in time and then in
\* extra nonce, unless the template was left and came back.
Behind(id) ==
    \/ id[3] < variant.timestamp
    \/ id[3] = variant.timestamp /\ id[2] < variant.extra
    \/ variant_started /\ id = Identity

VariantsBehind ==
    /\ seen \subseteq Templates \X (0 .. MaxExtraNonce) \X (0 .. MaxTime)
    /\ \A id \in seen : id[1] = template \/ id[1] \in left
    /\ template \notin left => \A id \in seen : id[1] = template => Behind(id)
    /\ TimestampWithinBounds

Inv == WorkTyped /\ CountTyped /\ StopKept /\ MatchesAccounted /\ CandidateCurrent /\ VariantsBehind

-------------------------------------------------------------------------------

\* One more for each of some counters.
LEMMA CountedIs ==
    ASSUME CountTyped, NEW S, count' = Counted(S)
    PROVE  /\ count' \in [Counters -> Nat]
           /\ count'.chunks = count.chunks + (IF "chunks" \in S THEN 1 ELSE 0)
           /\ count'.candidates = count.candidates + (IF "candidates" \in S THEN 1 ELSE 0)
           /\ count'.suppressions = count.suppressions + (IF "suppressions" \in S THEN 1 ELSE 0)
           /\ count'.proposals = count.proposals + (IF "proposals" \in S THEN 1 ELSE 0)
  <1>1. count \in [Counters -> Nat] /\ DOMAIN count = Counters
    BY DEF CountTyped
  <1>2. ASSUME NEW c \in Counters
        PROVE  /\ count'[c] = count[c] + (IF c \in S THEN 1 ELSE 0)
               /\ count'[c] \in Nat
    BY <1>1 DEF Counted
  <1>3. count' \in [Counters -> Nat]
    BY <1>1, <1>2 DEF Counted
  <1>4. {"chunks", "candidates", "suppressions", "proposals"} \subseteq Counters
    BY DEF Counters
  <1> QED
    BY <1>2, <1>3, <1>4

\* The same, as the facts the invariants read.
Same == /\ count' \in [Counters -> Nat]
        /\ count'.chunks = count.chunks /\ count'.candidates = count.candidates
        /\ count'.suppressions = count.suppressions /\ count'.proposals = count.proposals

LEMMA CountUnchanged ==
    ASSUME CountTyped, \/ count' = count
                       \/ \E S \in SUBSET {"templates", "replacements", "variants", "advances",
                                           "rolls", "submissions"} : count' = Counted(S)
    PROVE  Same
  <1>1. CASE count' = count
    BY <1>1 DEF CountTyped, Same
  <1>2. CASE count' # count
    <2>1. PICK S \in SUBSET {"templates", "replacements", "variants", "advances",
                             "rolls", "submissions"} : count' = Counted(S)
      BY <1>2
    <2>2. {"chunks", "candidates", "suppressions", "proposals"} \cap S = {}
      OBVIOUS
    <2>3. /\ count.chunks \in Nat /\ count.candidates \in Nat
          /\ count.suppressions \in Nat /\ count.proposals \in Nat
      BY DEF CountTyped, Counters
    <2> QED
      BY <2>1, <2>2, <2>3, CountedIs DEF Same
  <1> QED
    BY <1>1, <1>2

Booked == CountTyped /\ StopKept /\ MatchesAccounted

\* The numbers that are compared.
LEMMA Numbers ==
    ASSUME CountTyped
    PROVE  /\ count.chunks \in Nat /\ count.candidates \in Nat
           /\ count.suppressions \in Nat /\ count.proposals \in Nat
           /\ at_stop.chunks \in Nat /\ at_stop.submits \in Nat
           /\ submits \in Nat /\ found \in Nat
  BY DEF CountTyped, Counters

\* A step that neither finds nor settles anything.
LEMMA MovesOn ==
    ASSUME Booked, pc \notin Ended, Same,
           UNCHANGED <<plan, token, at_stop, found, submits>>,
           \/ pc \in Before /\ pc' \in Before \cup Ended
           \/ pc \in Holding /\ pc' \in Holding
           \/ pc = "proposed" /\ pc' = "refreshed"
           \/ pc = "refreshed" /\ pc' = "submit" /\ ~StopRequested
           \/ pc' = "raised"
    PROVE  Booked'
  <1> USE DEF Before, Holding, Handling, Ended
  <1>1. CountTyped'
    BY DEF Booked, CountTyped, Same
  <1>2. StopKept'
    BY Numbers DEF Booked, StopKept, StopRequested, Same
  <1>3. MatchesAccounted'
    <2>1. submits = 0
      BY DEF Booked, MatchesAccounted
    <2>2. CandidatesAccounted'
      BY Numbers DEF Booked, MatchesAccounted, CandidatesAccounted, SuppressedLate, Same
    <2> QED
      BY <2>1, <2>2 DEF Booked, MatchesAccounted, Same
  <1> QED
    BY <1>1, <1>2, <1>3 DEF Booked

\* A candidate is given up.
LEMMA Suppresses ==
    ASSUME Booked, count' \in [Counters -> Nat],
           UNCHANGED <<plan, token, at_stop, found, submits>>,
           count'.chunks = count.chunks /\ count'.candidates = count.candidates,
           count'.proposals = count.proposals,
           count'.suppressions = count.suppressions + 1,
           \/ pc \in Holding /\ pc' \in {"head", "finished"}
           \/ /\ pc \in Handling /\ pc' = "finished"
              /\ outcome' \in Stops \cup {"rpc_failure", "candidate_suppressed"}
    PROVE  Booked'
  <1> USE DEF Before, Holding, Handling, Ended
  <1>1. CountTyped'
    BY DEF Booked, CountTyped
  <1>2. StopKept'
    BY Numbers DEF Booked, StopKept, StopRequested
  <1>3. MatchesAccounted'
    <2>1. submits = 0 /\ found = count.suppressions + 1
      BY DEF Booked, MatchesAccounted
    <2>2. CandidatesAccounted'
      BY <2>1, Numbers DEF Booked, MatchesAccounted, CandidatesAccounted, SuppressedLate
    <2> QED
      BY <2>1, <2>2, Numbers DEF Booked, MatchesAccounted
  <1> QED
    BY <1>1, <1>2, <1>3 DEF Booked

LEMMA WorldBooked == ASSUME Booked, World PROVE Booked'
  <1>1. UNCHANGED <<plan, pc, count, found, submits, outcome>> /\ pc \notin Ended
    BY DEF World, Signal, DeadlinePasses, NodeChanges, past
  <1>2. MatchesAccounted'
    BY <1>1 DEF Booked, MatchesAccounted, CandidatesAccounted, SuppressedLate
  <1>3. CASE NodeChanges
    <2>1. UNCHANGED <<token, at_stop>>
      BY <1>3 DEF NodeChanges
    <2> QED
      BY <1>1, <1>2, <2>1 DEF Booked, CountTyped, StopKept, StopRequested
  <1>4. CASE Signal \/ DeadlinePasses
    <2>1. /\ \/ token' = [token EXCEPT !.reason = "stopped_by_user"]
             \/ token' = [token EXCEPT !.expired = TRUE]
          /\ at_stop' = IF StopRequested THEN at_stop ELSE MadeBy
      BY <1>4 DEF Signal, DeadlinePasses
    <2>2. MadeBy \in [chunks : Nat, submits : Nat]
      BY Numbers DEF MadeBy, Booked
    <2>3. CountTyped'
      BY <1>1, <2>1, <2>2 DEF Booked, CountTyped
    <2>4. StopKept'
      BY <1>1, <2>1, Numbers DEF Booked, StopKept, MadeBy
    <2> QED
      BY <1>2, <2>3, <2>4 DEF Booked
  <1> QED
    BY <1>3, <1>4 DEF World

LEMMA StopOutcomeIs ==
    ASSUME CountTyped
    PROVE  StopOutcome \in Stops
  BY DEF CountTyped, StopOutcome, Stops

\* Nothing has been found, and nothing is.
LEMMA LoopHeadBooked ==
    ASSUME Booked,
           \/ HeadStopped \/ ChunkLimitReached \/ HeadPolls \/ HeadPollFails
           \/ SearchStarts \/ DuplicateRaises \/ AdvanceExtraNonce
           \/ \E now \in Clock : RollTime(now) \/ ProgressionEnds(now)
           \/ ProgressionEndFails \/ SearchRaises \/ Paced
    PROVE  Booked'
  <1>1. UNCHANGED <<plan, token, at_stop, found, submits>>
    BY DEF HeadStopped, ChunkLimitReached, HeadPolls, HeadPollFails, SearchStarts,
           DuplicateRaises, AdvanceExtraNonce, RollTime, ProgressionEnds, ProgressionEndFails,
           SearchRaises, Paced, RpcFails, world, past
  <1>2. \/ pc \in Before /\ pc' \in Before \cup Ended
        \/ pc \in Holding /\ pc' = "raised"
    BY DEF HeadStopped, ChunkLimitReached, HeadPolls, HeadPollFails, SearchStarts,
           DuplicateRaises, AdvanceExtraNonce, RollTime, ProgressionEnds, ProgressionEndFails,
           SearchRaises, Paced, RpcFails, Finish, Before, Holding, Ended
  <1>3. pc \notin Ended
    BY <1>2 DEF Before, Holding, Ended
  <1> DEFINE Little == {"templates", "replacements", "variants", "advances", "rolls", "submissions"}
  <1>4. count' = count \/ \E S \in SUBSET Little : count' = Counted(S)
    <2>1. CASE \/ HeadStopped \/ ChunkLimitReached \/ DuplicateRaises \/ SearchRaises \/ Paced
      BY <2>1 DEF HeadStopped, ChunkLimitReached, DuplicateRaises, SearchRaises, Paced
    <2>2. CASE HeadPollFails \/ ProgressionEndFails
      <3>1. count' = Counted({})
        BY <2>2 DEF HeadPollFails, ProgressionEndFails, RpcFails
      <3> QED
        BY <3>1
    <2>3. CASE HeadPolls \/ \E now \in Clock : ProgressionEnds(now)
      <3>1. \/ count' = count
            \/ count' = Counted({"templates"})
            \/ count' = Counted({"templates", "replacements"} \cup {})
        BY <2>3 DEF HeadPolls, ProgressionEnds, Fetch
      <3>2. {"templates"} \in SUBSET Little /\ {"templates", "replacements"} \cup {} \in SUBSET Little
        OBVIOUS
      <3> HIDE DEF Little
      <3> QED
        BY <3>1, <3>2
    <2>4. CASE SearchStarts \/ AdvanceExtraNonce \/ \E now \in Clock : RollTime(now)
      <3>1. \/ count' = count
            \/ count' = Counted({"variants"})
            \/ count' = Counted({"advances"})
            \/ count' = Counted({"advances", "rolls"})
        BY <2>4 DEF SearchStarts, AdvanceExtraNonce, RollTime
      <3>2. /\ {"variants"} \in SUBSET Little /\ {"advances"} \in SUBSET Little
            /\ {"advances", "rolls"} \in SUBSET Little
        OBVIOUS
      <3> HIDE DEF Little
      <3> QED
        BY <3>1, <3>2
    <2> QED
      BY <2>1, <2>2, <2>3, <2>4
  <1>5. Same
    BY <1>4, CountUnchanged DEF Booked
  <1> QED
    BY <1>1, <1>2, <1>3, <1>5, MovesOn

\* The forced refreshes: the candidate is kept, or the template has changed.
LEMMA RefreshBooked ==
    ASSUME Booked, Confirm \/ Refresh
    PROVE  Booked'
  <1>1. /\ UNCHANGED <<plan, token, at_stop, found, submits>>
        /\ pc \in {"found", "proposed"} /\ Fetch({"suppressions"})
    BY DEF Confirm, Refresh, world, past
  <1>2. pc \notin Ended /\ CountTyped
    BY <1>1 DEF Ended, Booked
  <1>3. CASE node = template
    <2>1. count' = Counted({"templates"})
      BY <1>1, <1>3 DEF Fetch
    <2>2. Same
      BY <1>2, <2>1, CountUnchanged
    <2>3. \/ pc \in Holding /\ pc' \in Holding
          \/ pc = "proposed" /\ pc' = "refreshed"
      BY <1>3 DEF Confirm, Refresh, Holding
    <2> QED
      BY <1>1, <1>2, <2>2, <2>3, MovesOn
  <1>4. CASE node # template
    <2>1. count' = Counted({"templates", "replacements"} \cup {"suppressions"})
      BY <1>1, <1>4 DEF Fetch
    <2>2. /\ count' \in [Counters -> Nat]
          /\ count'.chunks = count.chunks /\ count'.candidates = count.candidates
          /\ count'.proposals = count.proposals
          /\ count'.suppressions = count.suppressions + 1
      BY <1>2, <2>1, CountedIs, Numbers
    <2>3. \/ pc \in Holding /\ pc' = "head"
          \/ pc \in Handling /\ pc' = "finished" /\ outcome' = "candidate_suppressed"
      BY <1>4 DEF Confirm, Refresh, Finish, Holding, Handling
    <2> QED
      BY <1>1, <2>2, <2>3, Suppresses
  <1> QED
    BY <1>3, <1>4

\* The node fails, or the stop comes, while a candidate is held or handled.
LEMMA GiveUpBooked ==
    ASSUME Booked,
           \/ ConfirmFails \/ ConfirmedStopped \/ RefreshFails \/ RefreshedStopped
           \/ ProposeFails /\ outcome' = "rpc_failure"
    PROVE  Booked'
  <1>1. /\ UNCHANGED <<plan, token, at_stop, found, submits>>
        /\ pc \in Holding \cup Handling /\ pc' = "finished"
        /\ outcome' \in {"rpc_failure", StopOutcome}
        /\ count' = Counted({"suppressions"})
    BY DEF ConfirmFails, ConfirmedStopped, RefreshFails, RefreshedStopped, ProposeFails,
           RpcFails, Finish, Holding, Handling, world, past
  <1>2. /\ count' \in [Counters -> Nat]
        /\ count'.chunks = count.chunks /\ count'.candidates = count.candidates
        /\ count'.proposals = count.proposals
        /\ count'.suppressions = count.suppressions + 1
    BY <1>1, CountedIs, Numbers DEF Booked
  <1>3. outcome' \in Stops \cup {"rpc_failure", "candidate_suppressed"}
    BY <1>1, StopOutcomeIs DEF Booked
  <1> QED
    BY <1>1, <1>2, <1>3, Suppresses

LEMMA SearchCompletesBooked ==
    ASSUME Booked, NEW matched \in BOOLEAN, SearchCompletes(matched)
    PROVE  Booked'
  <1> USE DEF Before, Holding, Handling, Ended
  <1>1. /\ UNCHANGED <<plan, token, at_stop, submits>> /\ pc = "search"
        /\ found' = found + IF matched THEN 1 ELSE 0
        /\ count' = Counted({"chunks"} \cup IF matched /\ StopRequested
                                            THEN {"suppressions"} ELSE {})
        /\ pc' = IF StopRequested THEN "finished" ELSE IF matched THEN "found" ELSE "paced"
        /\ StopRequested => outcome' = StopOutcome
    BY DEF SearchCompletes, Finish, world
  <1>2. /\ count' \in [Counters -> Nat]
        /\ count'.chunks = count.chunks + 1
        /\ count'.candidates = count.candidates /\ count'.proposals = count.proposals
        /\ count'.suppressions = count.suppressions
                                     + IF matched /\ StopRequested THEN 1 ELSE 0
    BY <1>1, CountedIs, Numbers DEF Booked
  <1>3. /\ count.candidates = 0 /\ count.proposals = 0 /\ found = count.suppressions
        /\ submits = 0
    BY <1>1 DEF Booked, MatchesAccounted
  <1>4. CountTyped'
    <2>1. found' \in Nat
      BY <1>1, Numbers DEF Booked
    <2>2. pc' \in {"finished", "found", "paced"}
      BY <1>1
    <2> QED
      BY <1>1, <1>2, <2>1, <2>2 DEF Booked, CountTyped
  <1>5. StopKept'
    BY <1>1, <1>2, Numbers DEF Booked, StopKept, StopRequested
  <1>6. CandidatesAccounted'
    BY <1>1, <1>2, <1>3, Numbers DEF Booked, CandidatesAccounted, SuppressedLate
  <1>7. MatchesAccounted'
    BY <1>1, <1>2, <1>3, <1>6, Numbers DEF Booked, MatchesAccounted
  <1> QED
    BY <1>4, <1>5, <1>7 DEF Booked

LEMMA PolicyBooked ==
    ASSUME Booked,
           \/ HashOnly \/ Assemble
           \/ \E accepted \in BOOLEAN : ProposeAnswered(accepted)
           \/ ProposeFails /\ outcome' # "rpc_failure"
    PROVE  Booked'
  <1> USE DEF Before, Holding, Handling, Ended
  <1>1. UNCHANGED <<plan, token, at_stop, found, submits>>
    BY DEF HashOnly, Assemble, ProposeAnswered, ProposeFails, world, past
  <1>2. /\ pc \in {"confirmed", "propose"} /\ pc' \in {"propose", "raised", "proposed", "finished"}
        /\ pc' = "propose" => pc = "confirmed"
        /\ pc' = "proposed" => pc = "propose"
        /\ pc' = "finished" =>
               outcome' \in {"candidate_found_submission_disabled", "proposal_rejected",
                             "proposal_unavailable"}
        /\ count' = IF pc = "confirmed" THEN Counted({"candidates"})
                    ELSE IF pc' = "finished" /\ outcome' = "proposal_unavailable" THEN count
                    ELSE Counted({"proposals"})
    BY DEF HashOnly, Assemble, ProposeAnswered, ProposeFails, Finish
  <1>3. /\ count' \in [Counters -> Nat]
        /\ count'.chunks = count.chunks /\ count'.suppressions = count.suppressions
        /\ pc = "confirmed" => count'.candidates = count.candidates + 1
                               /\ count'.proposals = count.proposals
        /\ pc = "propose" => count'.candidates = count.candidates
        /\ pc' = "proposed" => count'.proposals = count.proposals + 1
    BY <1>2, CountedIs, Numbers DEF Booked, CountTyped
  <1>4. CountTyped'
    BY <1>1, <1>2, <1>3 DEF Booked, CountTyped
  <1>5. StopKept'
    BY <1>1, <1>2, <1>3, Numbers DEF Booked, StopKept, StopRequested
  <1>6. CASE pc = "confirmed"
    <2>1. /\ submits = 0 /\ found = count.suppressions + 1
          /\ count.candidates = 0 /\ count.proposals = 0
      BY <1>6 DEF Booked, MatchesAccounted
    <2>2. /\ count'.suppressions = count.suppressions
          /\ count'.candidates = 1 /\ count'.proposals = 0
      BY <1>3, <1>6, <2>1
    <2>4. CandidatesAccounted'
      BY <1>1, <1>2, <2>1, <2>2, Numbers DEF CandidatesAccounted, SuppressedLate, Booked, Stops
    <2>5. pc' # "proposed"
      BY <1>2, <1>6
    <2>6. MatchesAccounted'
      BY <1>1, <1>2, <2>1, <2>2, <2>4, <2>5 DEF MatchesAccounted, Booked
    <2> QED
      BY <1>4, <1>5, <2>6 DEF Booked
  <1>7. CASE pc = "propose"
    <2>1. /\ submits = 0 /\ found = count.suppressions + 1
          /\ count.candidates = 1 /\ count.proposals = 0
      BY <1>7 DEF Booked, MatchesAccounted
    <2>2. /\ count'.suppressions = count.suppressions /\ count'.candidates = 1
          /\ pc' = "proposed" => count'.proposals = 1
      BY <1>3, <1>7, <2>1
    <2>4. CandidatesAccounted'
      BY <1>1, <1>2, <2>1, <2>2, Numbers DEF CandidatesAccounted, SuppressedLate, Booked, Stops
    <2>5. pc' # "propose"
      BY <1>2, <1>7
    <2>6. MatchesAccounted'
      BY <1>1, <1>2, <2>1, <2>2, <2>4, <2>5 DEF MatchesAccounted, Booked
    <2> QED
      BY <1>4, <1>5, <2>6 DEF Booked
  <1> QED
    BY <1>2, <1>6, <1>7

LEMMA SubmitBooked ==
    ASSUME Booked, Submit \/ SubmitFails \/ \E accepted \in BOOLEAN : SubmitAnswered(accepted)
    PROVE  Booked'
  <1> USE DEF Before, Holding, Handling, Ended
  <1>1. CASE Submit
    <2>1. /\ UNCHANGED <<plan, token, at_stop, found, submits, count>>
          /\ pc = "refreshed" /\ pc' = "submit" /\ ~StopRequested
      BY <1>1 DEF Submit, world, past
    <2>2. Same
      BY <2>1, CountUnchanged DEF Booked
    <2> QED
      BY <2>1, <2>2, MovesOn
  <1>2. CASE SubmitFails \/ \E accepted \in BOOLEAN : SubmitAnswered(accepted)
    <2>1. /\ UNCHANGED <<plan, token, at_stop, found>>
          /\ pc = "submit" /\ pc' = "finished" /\ submits' = submits + 1
          /\ count' = count \/ count' = Counted({"submissions"})
      BY <1>2 DEF SubmitFails, SubmitAnswered, Finish, world
    <2>2. {"submissions"} \in SUBSET {"templates", "replacements", "variants", "advances",
                                      "rolls", "submissions"}
      OBVIOUS
    <2>3. Same
      BY <2>1, <2>2, CountUnchanged DEF Booked
    <2>4. CountTyped'
      BY <2>1, <2>3 DEF Booked, CountTyped, Same
    <2>5. StopKept'
      BY <2>1, <2>3, Numbers DEF Booked, StopKept, StopRequested, Same
    <2>6. count.candidates = 1 /\ found = count.suppressions + 1 /\ submits = 0
      BY <2>1 DEF Booked, MatchesAccounted
    <2>7. CandidatesAccounted'
      BY <2>1, <2>3, <2>6, Numbers DEF Booked, CandidatesAccounted, SuppressedLate, Same
    <2>8. MatchesAccounted'
      BY <2>1, <2>7 DEF MatchesAccounted
    <2> QED
      BY <2>4, <2>5, <2>8 DEF Booked
  <1> QED
    BY <1>1, <1>2

LEMMA NextBooked == ASSUME Booked, [Next]_vars PROVE Booked'
  <1>1. CASE World
    BY <1>1, WorldBooked
  <1>2. CASE \/ HeadStopped \/ ChunkLimitReached \/ HeadPolls \/ HeadPollFails
             \/ SearchStarts \/ DuplicateRaises \/ AdvanceExtraNonce
             \/ \E now \in Clock : RollTime(now) \/ ProgressionEnds(now)
             \/ ProgressionEndFails \/ SearchRaises \/ Paced
    BY <1>2, LoopHeadBooked
  <1>3. CASE Confirm \/ Refresh
    BY <1>3, RefreshBooked
  <1>4. CASE \/ ConfirmFails \/ ConfirmedStopped \/ RefreshFails \/ RefreshedStopped
             \/ ProposeFails /\ outcome' = "rpc_failure"
    BY <1>4, GiveUpBooked
  <1>5. CASE \E matched \in BOOLEAN : SearchCompletes(matched)
    BY <1>5, SearchCompletesBooked
  <1>6. CASE \/ HashOnly \/ Assemble
             \/ \E accepted \in BOOLEAN : ProposeAnswered(accepted)
             \/ ProposeFails /\ outcome' # "rpc_failure"
    BY <1>6, PolicyBooked
  <1>7. CASE Submit \/ SubmitFails \/ \E accepted \in BOOLEAN : SubmitAnswered(accepted)
    BY <1>7, SubmitBooked
  <1>8. CASE Finished \/ UNCHANGED vars
    <2>1. UNCHANGED vars
      BY <1>8 DEF Finished
    <2> QED
      BY <2>1 DEF vars, Booked, CountTyped, StopKept, StopRequested, MatchesAccounted,
                  CandidatesAccounted, SuppressedLate
  <1> QED
    BY <1>1, <1>2, <1>3, <1>4, <1>5, <1>6, <1>7, <1>8 DEF Next, Loop

-------------------------------------------------------------------------------
(* What is searched.                                                        *)

\* What a step does to the work: nothing, a fetch, a search or the next variant.
LEMMA StepsOfWork ==
    ASSUME Next
    PROVE  /\ plan' = plan
           /\ \/ UNCHANGED <<work, wall>>
              \/ /\ \E S \in SUBSET {"suppressions"} : Fetch(S)
                 /\ UNCHANGED <<node, changes, wall, accepted_at>>
              \/ SearchStarts
              \/ AdvanceExtraNonce
              \/ \E now \in Clock : RollTime(now)
  <1>1. CASE World
    BY <1>1 DEF World, Signal, DeadlinePasses, NodeChanges, work, past
  <1>2. CASE HeadPolls \/ Confirm \/ Refresh \/ \E now \in Clock : ProgressionEnds(now)
    <2>1. /\ plan' = plan /\ UNCHANGED <<node, changes, wall, accepted_at>>
          /\ Fetch({}) \/ Fetch({"suppressions"}) \/ UNCHANGED work
      BY <1>2 DEF HeadPolls, Confirm, Refresh, ProgressionEnds, world, past
    <2>2. {} \in SUBSET {"suppressions"} /\ {"suppressions"} \in SUBSET {"suppressions"}
      OBVIOUS
    <2> QED
      BY <2>1, <2>2
  <1>3. CASE SearchStarts \/ AdvanceExtraNonce \/ \E now \in Clock : RollTime(now)
    BY <1>3 DEF SearchStarts, AdvanceExtraNonce, RollTime
  <1>4. CASE \/ HeadStopped \/ ChunkLimitReached \/ HeadPollFails \/ DuplicateRaises
             \/ ProgressionEndFails \/ SearchRaises \/ Paced \/ ConfirmFails \/ ConfirmedStopped
    BY <1>4 DEF HeadStopped, ChunkLimitReached, HeadPollFails, DuplicateRaises,
                ProgressionEndFails, SearchRaises, Paced, ConfirmFails, ConfirmedStopped,
                RpcFails, past
  <1>5. CASE \/ HashOnly \/ Assemble \/ ProposeFails \/ RefreshFails \/ RefreshedStopped
             \/ Submit \/ SubmitFails
    BY <1>5 DEF HashOnly, Assemble, ProposeFails, RefreshFails, RefreshedStopped, Submit,
                SubmitFails, RpcFails, past
  <1>6. CASE \/ \E matched \in BOOLEAN : SearchCompletes(matched)
             \/ \E accepted \in BOOLEAN : ProposeAnswered(accepted) \/ SubmitAnswered(accepted)
    BY <1>6 DEF SearchCompletes, ProposeAnswered, SubmitAnswered
  <1>7. CASE Finished
    BY <1>7 DEF Finished, vars, work
  <1> QED
    BY <1>1, <1>2, <1>3, <1>4, <1>5, <1>6, <1>7 DEF Next, Loop

\* What a step does to the node and to what was learned from it.
LEMMA StepsOfNode ==
    ASSUME Next
    PROVE  \/ UNCHANGED <<node, changes, accepted_at>>
           \/ /\ changes' = changes + 1 /\ node' \in Templates
              /\ UNCHANGED <<pc, match, work, accepted_at>>
           \/ /\ UNCHANGED <<node, changes, match, work>> /\ accepted_at' = changes
              /\ pc = "propose" /\ pc' = "proposed"
  <1>1. CASE World
    BY <1>1 DEF World, Signal, DeadlinePasses, NodeChanges, past
  <1>2. CASE \/ HeadStopped \/ ChunkLimitReached \/ HeadPolls \/ HeadPollFails \/ DuplicateRaises
             \/ ProgressionEndFails \/ SearchRaises \/ Paced \/ ConfirmFails \/ ConfirmedStopped
    BY <1>2 DEF HeadStopped, ChunkLimitReached, HeadPolls, HeadPollFails, DuplicateRaises,
                ProgressionEndFails, SearchRaises, Paced, ConfirmFails, ConfirmedStopped,
                RpcFails, world, past
  <1>3. CASE \/ SearchStarts \/ AdvanceExtraNonce
             \/ \E now \in Clock : RollTime(now) \/ ProgressionEnds(now)
             \/ \E matched \in BOOLEAN : SearchCompletes(matched)
    BY <1>3 DEF SearchStarts, AdvanceExtraNonce, RollTime, ProgressionEnds, SearchCompletes,
                world, past
  <1>4. CASE \/ Confirm \/ Refresh \/ HashOnly \/ Assemble \/ ProposeFails \/ RefreshFails
             \/ RefreshedStopped \/ Submit \/ SubmitFails
             \/ \E accepted \in BOOLEAN : SubmitAnswered(accepted)
    BY <1>4 DEF Confirm, Refresh, HashOnly, Assemble, ProposeFails, RefreshFails,
                RefreshedStopped, Submit, SubmitFails, SubmitAnswered, RpcFails, world, past
  <1>5. CASE \E accepted \in BOOLEAN : ProposeAnswered(accepted)
    BY <1>5 DEF ProposeAnswered, world
  <1>6. CASE Finished
    BY <1>6 DEF Finished, vars
  <1> QED
    BY <1>1, <1>2, <1>3, <1>4, <1>5, <1>6 DEF Next, Loop

LEMMA NextWorkTyped == ASSUME WorkTyped, Next PROVE WorkTyped'
  <1>1. node' \in Templates /\ accepted_at' \in Nat /\ changes' \in Nat
    BY StepsOfNode DEF WorkTyped
  <1>2. CASE UNCHANGED <<work, wall>>
    BY <1>1, <1>2 DEF WorkTyped, work
  <1>3. CASE (\E S \in SUBSET {"suppressions"} : Fetch(S)) /\ UNCHANGED wall
    <2>1. TemplateOf[node].time \in 0 .. MaxTime
      BY TemplatesAssumption DEF WorkTyped
    <2>2. [extra |-> 0, timestamp |-> TemplateOf[node].time] \in Variants
      BY <2>1, BoundsAssumption DEF Variants
    <2>3. /\ template' \in Templates /\ variant' \in Variants /\ variant_started' \in BOOLEAN
          /\ fetched_at' = changes /\ wall' = wall
      BY <1>3, <2>2 DEF Fetch, Replace, WorkTyped
    <2> QED
      BY <1>1, <2>3 DEF WorkTyped
  <1>4. CASE SearchStarts
    BY <1>1, <1>4 DEF SearchStarts, WorkTyped, past
  <1>5. CASE AdvanceExtraNonce
    <2>1. variant' \in Variants
      BY <1>5, BoundsAssumption DEF AdvanceExtraNonce, WorkTyped, Variants
    <2> QED
      BY <1>1, <1>5, <2>1 DEF AdvanceExtraNonce, WorkTyped, past
  <1>6. CASE \E now \in Clock : RollTime(now)
    <2>1. PICK now \in Clock : RollTime(now)
      BY <1>6
    <2>2. variant' \in Variants
      BY <2>1, BoundsAssumption DEF Clock, RollTime, MayRoll, Rolled, WorkTyped, Variants
    <2>3. wall' \in Nat
      BY <2>1, BoundsAssumption DEF Clock, RollTime, WorkTyped
    <2> QED
      BY <1>1, <2>1, <2>2, <2>3 DEF RollTime, WorkTyped
  <1> QED
    BY <1>2, <1>3, <1>4, <1>5, <1>6, StepsOfWork

\* A candidate comes from a search of the current work, and is held as long as
\* the work stays.
LEMMA NextCandidateCurrent == ASSUME WorkTyped, CandidateCurrent, Next PROVE CandidateCurrent'
  <1> USE DEF Before, Holding, Handling, Ended
  <1>1. accepted_at' <= changes'
    BY StepsOfNode DEF WorkTyped, CandidateCurrent
  <1>2. CASE World
    BY <1>1, <1>2 DEF World, Signal, DeadlinePasses, NodeChanges, work, past, CandidateCurrent,
                      Identity
  <1>3. CASE \/ HeadStopped \/ ChunkLimitReached \/ HeadPolls \/ HeadPollFails
             \/ SearchStarts \/ DuplicateRaises \/ AdvanceExtraNonce
             \/ \E now \in Clock : RollTime(now) \/ ProgressionEnds(now)
             \/ ProgressionEndFails \/ SearchRaises \/ Paced
    <2>1. pc' \notin Holding \cup Handling
      BY <1>3 DEF HeadStopped, ChunkLimitReached, HeadPolls, HeadPollFails, SearchStarts,
                  DuplicateRaises, AdvanceExtraNonce, RollTime, ProgressionEnds,
                  ProgressionEndFails, SearchRaises, Paced, RpcFails, Finish
    <2> QED
      BY <1>1, <2>1 DEF CandidateCurrent
  <1>4. CASE \E matched \in BOOLEAN : SearchCompletes(matched)
    <2>1. /\ UNCHANGED work /\ pc' \notin Handling \cup {"confirmed"}
          /\ pc' = "found" => match' = [held |-> TRUE, identity |-> Identity]
      BY <1>4 DEF SearchCompletes, Finish
    <2>2. pc' = "found" => match'.held /\ match'.identity = Identity'
      BY <2>1 DEF Identity, work
    <2> QED
      BY <1>1, <2>1, <2>2 DEF CandidateCurrent
  <1>5. CASE Confirm \/ Refresh
    <2>1. CASE node = template
      <3>1. /\ UNCHANGED <<template, variant, match, accepted_at>> /\ fetched_at' = changes
            /\ pc \in {"found", "proposed"}
        BY <1>5, <2>1 DEF Confirm, Refresh, Fetch, past
      <3>2. Identity' = Identity
        BY <3>1 DEF Identity
      <3> QED
        BY <1>1, <3>1, <3>2 DEF CandidateCurrent, WorkTyped
    <2>2. CASE node # template
      <3>1. pc' \in {"head", "finished"}
        BY <1>5, <2>2 DEF Confirm, Refresh, Finish
      <3> QED
        BY <1>1, <3>1 DEF CandidateCurrent
    <2> QED
      BY <2>1, <2>2
  <1>6. CASE \/ ConfirmFails \/ ConfirmedStopped \/ HashOnly \/ ProposeFails \/ RefreshFails
             \/ RefreshedStopped \/ SubmitFails
             \/ \E accepted \in BOOLEAN : SubmitAnswered(accepted)
    <2>1. pc' = "finished"
      BY <1>6 DEF ConfirmFails, ConfirmedStopped, HashOnly, ProposeFails, RefreshFails,
                  RefreshedStopped, SubmitFails, SubmitAnswered, RpcFails, Finish
    <2> QED
      BY <1>1, <2>1 DEF CandidateCurrent
  <1>7. CASE Assemble \/ Submit \/ \E accepted \in BOOLEAN : ProposeAnswered(accepted)
    <2>1. /\ UNCHANGED <<work, match>> /\ pc \in {"confirmed", "propose", "refreshed"}
          /\ pc' = "submit" => pc = "refreshed" /\ UNCHANGED accepted_at
          /\ pc' # "refreshed"
      BY <1>7 DEF Assemble, Submit, ProposeAnswered, Finish, past
    <2>2. Identity' = Identity
      BY <2>1 DEF Identity, work
    <2> QED
      BY <1>1, <2>1, <2>2 DEF CandidateCurrent, work
  <1>8. CASE Finished
    BY <1>8 DEF Finished, vars, CandidateCurrent, Identity
  <1> QED
    BY <1>2, <1>3, <1>4, <1>5, <1>6, <1>7, <1>8 DEF Next, Loop

\* A new template is at its own time, with nothing searched on it unless it was
\* left before.
LEMMA FetchBehind ==
    ASSUME WorkTyped, VariantsBehind, NEW S, Fetch(S), UNCHANGED <<plan, wall>>
    PROVE  VariantsBehind'
  <1>1. CASE node = template
    BY <1>1 DEF Fetch, VariantsBehind, Behind, Identity, TimestampWithinBounds
  <1>2. CASE node # template
    <2>1. /\ template' = node /\ variant' = [extra |-> 0, timestamp |-> TemplateOf[node].time]
          /\ left' = left \cup {template} /\ seen' = seen
      BY <1>2 DEF Fetch, Replace
    <2>2. TimestampWithinBounds'
      <3>1. /\ TemplateOf[node].time \in Int /\ MaxTime \in Int
            /\ TemplateOf[node].time <= MaxTime
        BY TemplatesAssumption, BoundsAssumption DEF WorkTyped
      <3>2. /\ variant'.timestamp - TemplateOf[template'].time = 0
            /\ variant'.timestamp <= MaxTime
        BY <2>1, <3>1
      <3> QED
        BY <3>2 DEF TimestampWithinBounds
    <2>3. \A id \in seen : id[1] = template \/ id[1] \in left
      BY DEF VariantsBehind
    <2>4. template' \notin left' => \A id \in seen' : id[1] # template'
      BY <1>2, <2>1, <2>3
    <2> QED
      BY <2>1, <2>2, <2>3, <2>4 DEF VariantsBehind
  <1> QED
    BY <1>1, <1>2

LEMMA SearchBehind ==
    ASSUME WorkTyped, VariantsBehind, SearchStarts
    PROVE  VariantsBehind'
  <1>1. /\ UNCHANGED <<plan, template, variant, left, wall>> /\ variant_started'
        /\ seen' = seen \cup {Identity}
    BY DEF SearchStarts, past
  <1>2. Identity' = Identity /\ Identity[1] = template
    BY <1>1 DEF Identity
  <1>3. Identity \in Templates \X (0 .. MaxExtraNonce) \X (0 .. MaxTime)
    BY DEF Identity, WorkTyped, Variants
  <1>4. ASSUME NEW id \in seen', template' \notin left', id[1] = template'
        PROVE  Behind(id)'
    <2>1. CASE id = Identity
      BY <1>1, <1>2, <2>1 DEF Behind
    <2>2. CASE id # Identity
      <3>1. Behind(id)
        BY <1>1, <1>4, <2>2 DEF VariantsBehind
      <3> QED
        BY <1>1, <2>2, <3>1 DEF Behind
    <2> QED
      BY <2>1, <2>2
  <1>5. TimestampWithinBounds'
    BY <1>1 DEF VariantsBehind, TimestampWithinBounds
  <1> QED
    BY <1>1, <1>2, <1>3, <1>4, <1>5 DEF VariantsBehind

\* The variant moves on, in time or, at the same time, in extra nonce.
LEMMA ProgressBehind ==
    ASSUME WorkTyped, VariantsBehind, UNCHANGED <<template, left, seen>>,
           \/ variant'.timestamp > variant.timestamp
           \/ variant'.timestamp = variant.timestamp /\ variant'.extra > variant.extra,
           variant' \in Variants, TimestampWithinBounds'
    PROVE  VariantsBehind'
  <1>1. ASSUME NEW id \in seen, template \notin left, id[1] = template
        PROVE  Behind(id)'
    <2>1. Behind(id)
      BY <1>1 DEF VariantsBehind
    <2>2. id[2] \in Int /\ id[3] \in Int
      BY DEF VariantsBehind
    <2>3. /\ variant.extra \in Int /\ variant.timestamp \in Int
          /\ variant'.extra \in Int /\ variant'.timestamp \in Int
      BY DEF WorkTyped, Variants
    <2>4. id = Identity => id[2] = variant.extra /\ id[3] = variant.timestamp
      BY DEF Identity
    <2>5. \/ id[3] < variant'.timestamp
          \/ id[3] = variant'.timestamp /\ id[2] < variant'.extra
      BY <2>1, <2>2, <2>3, <2>4 DEF Behind
    <2> QED
      BY <2>5 DEF Behind
  <1> QED
    BY <1>1 DEF VariantsBehind

LEMMA NextVariantsBehind ==
    ASSUME WorkTyped, CountTyped, VariantsBehind, Next
    PROVE  VariantsBehind'
  <1>0. plan' = plan
    BY StepsOfWork
  <1>1. CASE UNCHANGED <<work, wall>>
    BY <1>0, <1>1 DEF work, VariantsBehind, Behind, Identity, TimestampWithinBounds
  <1>2. CASE (\E S \in SUBSET {"suppressions"} : Fetch(S)) /\ UNCHANGED wall
    BY <1>0, <1>2, FetchBehind
  <1>3. CASE SearchStarts
    BY <1>3, SearchBehind
  <1>4. CASE AdvanceExtraNonce
    <2>1. /\ UNCHANGED <<template, left, seen, wall>>
          /\ variant' = [variant EXCEPT !.extra = @ + 1]
      BY <1>4 DEF AdvanceExtraNonce, past
    <2>2. /\ variant' \in Variants /\ variant'.timestamp = variant.timestamp
          /\ variant'.extra > variant.extra
      BY <1>4, NextWorkTyped, <2>1 DEF WorkTyped, Variants
    <2>3. TimestampWithinBounds'
      BY <1>0, <2>1, <2>2 DEF VariantsBehind, TimestampWithinBounds
    <2> QED
      BY <2>1, <2>2, <2>3, ProgressBehind
  <1>5. CASE \E now \in Clock : RollTime(now)
    <2>1. PICK now \in Clock : RollTime(now)
      BY <1>5
    <2>2. /\ UNCHANGED <<template, left, seen>> /\ variant' = Rolled
          /\ MayRoll(now) /\ wall' = IF now > wall THEN now ELSE wall
      BY <2>1 DEF RollTime
    <2>3. variant' \in Variants /\ variant.timestamp \in Int
      BY NextWorkTyped DEF WorkTyped, Variants
    <2>4. variant'.timestamp = variant.timestamp + 1
      BY <2>2 DEF Rolled
    <2>5. TimestampWithinBounds'
      <3>1. PICK time \in Int : time = TemplateOf[template].time
        BY TemplatesAssumption DEF WorkTyped
      <3>2. PICK limit \in Nat : limit = plan.max_time_roll_seconds
        BY PlansAssumption DEF CountTyped
      <3>3. /\ TemplateOf[template].mutable /\ variant.timestamp < now
            /\ variant.timestamp - time < limit
        BY <2>2, <3>1, <3>2 DEF MayRoll
      <3>4. variant.timestamp - time >= 0
        BY <3>1 DEF VariantsBehind, TimestampWithinBounds
      <3>5. variant.timestamp + 1 <= wall'
        BY <2>2, <2>3, <3>3, BoundsAssumption DEF Clock, WorkTyped
      <3>6. /\ variant'.timestamp - time >= 0 /\ variant'.timestamp - time <= limit
            /\ variant'.timestamp <= wall' /\ variant'.timestamp <= MaxTime
        BY <2>3, <2>4, <3>3, <3>4, <3>5, BoundsAssumption DEF Variants
      <3> QED
        BY <1>0, <2>2, <3>1, <3>2, <3>3, <3>6 DEF TimestampWithinBounds
    <2> QED
      BY <2>2, <2>3, <2>4, <2>5, ProgressBehind
  <1> QED
    BY <1>1, <1>2, <1>3, <1>4, <1>5, StepsOfWork

-------------------------------------------------------------------------------
(* The theorems.                                                            *)

LEMMA InitInv == ASSUME Init PROVE Inv
  <1> USE DEF Init, Before, Holding, Handling, Ended
  <1>1. count \in [Counters -> Nat]
    <2>1. count = [c \in Counters |-> IF c = "templates" THEN 1 ELSE 0]
      BY DEF Counters
    <2> QED
      BY <2>1
  <1>2. CountTyped
    <2>1. token \in [expired : BOOLEAN, reason : {"none", "stopped_by_user"}]
      OBVIOUS
    <2>2. at_stop \in [chunks : Nat, submits : Nat]
      OBVIOUS
    <2> QED
      BY <1>1, <2>1, <2>2 DEF CountTyped
  <1>3. WorkTyped
    <2>1. variant \in Variants
      BY TemplatesAssumption DEF Variants
    <2> QED
      BY <2>1 DEF WorkTyped
  <1>4. StopKept
    BY DEF StopKept, StopRequested
  <1>5. MatchesAccounted
    BY DEF MatchesAccounted, CandidatesAccounted
  <1>6. CandidateCurrent
    BY DEF CandidateCurrent
  <1>7. VariantsBehind
    <2>1. TimestampWithinBounds
      <3>1. /\ variant.timestamp - TemplateOf[template].time = 0
            /\ variant.timestamp <= MaxTime
        BY <1>3, BoundsAssumption DEF WorkTyped, Variants
      <3> QED
        BY <3>1 DEF TimestampWithinBounds
    <2> QED
      BY <2>1 DEF VariantsBehind
  <1> QED
    BY <1>2, <1>3, <1>4, <1>5, <1>6, <1>7 DEF Inv

\* The state of a session stays well-formed, and tells what became of every
\* match, what was searched on the template and what happened after a stop.
THEOREM InductiveInvariant == Spec => []Inv
  <1>1. ASSUME Inv, [Next]_vars PROVE Inv'
    <2>1. Booked'
      BY <1>1, NextBooked DEF Inv, Booked
    <2>2. CASE Next
      BY <1>1, <2>1, <2>2, NextWorkTyped, NextCandidateCurrent, NextVariantsBehind DEF Inv, Booked
    <2>3. CASE UNCHANGED vars
      BY <1>1, <2>1, <2>3 DEF Inv, Booked, vars, WorkTyped, CandidateCurrent, VariantsBehind,
                              Behind, Identity, TimestampWithinBounds
    <2> QED
      BY <1>1, <2>2, <2>3
  <1> QED
    BY InitInv, <1>1, PTL DEF Spec

\* A block is submitted at most once in a session, and only one built from the
\* template the node gave when it was asked after it had accepted the proposal.
THEOREM SubmitsFreshestHolds == Spec => []SubmitsFreshest
  <1>1. Inv => SubmitsFreshest
    BY DEF Inv, MatchesAccounted, CandidateCurrent, Holding, Handling, Ended, SubmitsFreshest
  <1> QED
    BY <1>1, InductiveInvariant, PTL

\* No variant of a template - its fingerprint, extra nonce and time - is searched
\* twice unless the node went back to a template that was left, and no rolled time
\* is ahead of the clock, of the roll limit or of what a header can hold.
THEOREM VariantsValidHolds == Spec => []VariantsValid
  <1>1. ASSUME Inv PROVE DuplicateOnlyOnReturn
    <2>1. SUFFICES ASSUME ~variant_started, Identity \in seen, template \notin left
                   PROVE  FALSE
      BY DEF DuplicateOnlyOnReturn
    <2>2. Behind(Identity)
      BY <1>1, <2>1 DEF Inv, VariantsBehind, Identity
    <2>3. variant.extra \in Int /\ variant.timestamp \in Int
      BY <1>1 DEF Inv, WorkTyped, Variants
    <2> QED
      BY <2>1, <2>2, <2>3 DEF Behind, Identity
  <1>2. Inv => VariantsValid
    BY <1>1 DEF Inv, VariantsBehind, VariantsValid
  <1> QED
    BY <1>2, InductiveInvariant, PTL

\* Every match the search reported is a candidate or a suppression at the end.
THEOREM CandidatesAccountedHolds == Spec => []CandidatesAccounted
  <1>1. Inv => CandidatesAccounted
    BY DEF Inv, MatchesAccounted
  <1> QED
    BY <1>1, InductiveInvariant, PTL

\* After a stop the range being searched may complete, and a submission on its
\* way: no other range does, and no other block is submitted.
THEOREM StopBoundsSessionHolds == Spec => []StopBoundsSession
  <1>1. ASSUME Inv PROVE StopBoundsSession
    BY <1>1, Numbers DEF Inv, StopKept, StopBoundsSession
  <1> QED
    BY <1>1, InductiveInvariant, PTL
===============================================================================
