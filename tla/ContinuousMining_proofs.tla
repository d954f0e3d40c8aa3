------------------------ MODULE ContinuousMining_proofs -----------------------
(***************************************************************************)
(* What holds of the mining loop for every plan, every number of messages, *)
(* sessions and searches.                                                  *)
(*                                                                         *)
(* None of the proved properties is inductive by itself; they follow from  *)
(* where the loop stands (pc): a job is searched from its first range on,  *)
(* a range is issued before it is counted, a candidate's range is the only *)
(* one that may be left partly hashed, and what a drain holds was received *)
(* in the session it selects a job for.                                    *)
(***************************************************************************)
EXTENDS ContinuousMining, TLAPS

\* Steps of the loops that poll the pool.
Between == {"drain", "drain_poll", "drained", "pacing", "pacing_poll", "waiting",
            "waiting_poll"}

\* Steps of a drain, and at its end.
Draining == {"drain", "drain_poll", "drained"}

\* Steps at which the current job has been searched.
AfterSearch == {"searching", "candidate", "submit", "accepted", "rejected",
                "boundary", "advance"} \cup Between

\* One range is issued and not yet counted.
Running == IF pc = "searching" THEN 1 ELSE 0

\* The counters, with what is under way at the step.
CountInv ==
    /\ JobsAccounted
    /\ pc \in AfterSearch => current.job_searched
    /\ count.jobs <= count.chunks + Running
    /\ count.variants <= count.chunks + Running
    /\ count.accepted + count.rejected <= count.candidates
    /\ pc = "submit" => count.accepted + count.rejected < count.candidates
    /\ plan.max_chunks # 0 => count.chunks + Running <= plan.max_chunks

\* Steps while the result of a candidate's range is being handled.
Handling == {"candidate", "submit", "accepted", "rejected"}

\* Steps at which it has been handled.
Settled == {"boundary", "advance"} \cup Between

\* How much of the variant is issued to the strategy, and how much is hashed.
CoverInv ==
    /\ pc \in {"start", "head"} => current.issued < plan.ranges
    /\ pc \in {"start", "head"} \cup Settled => current.hashed = current.issued
    /\ pc = "searching" => current.hashed + 1 = current.issued
    /\ pc \in Handling =>
          current.issued = IF match.complete THEN current.hashed
                           ELSE current.hashed + 1

OfSession(job) == job # NoJob => job.session = session

\* Everything the loop holds belongs to the session it runs in.
SessionInv ==
    /\ bound = Rebound(session)
    /\ current.job.session = session
    /\ pc \in Draining =>
          /\ drain.source # "none"
          /\ OfSession(drain.woken)
          /\ OfSession(drain.newest)

\* A range under way counts as the one a stop may let complete.
StopInv ==
    StopRequested => count.chunks + Running <= chunks_at_stop + 1

\* Two jobs whose headers differ at most in their time.
SameWork(job, other) ==
    /\ job.session = other.session
    /\ job.difficulty = other.difficulty
    /\ EffectOf[job.context].base = EffectOf[other.context].base

\* Steps at which the loop has seen every job the pool announced.
Mining == {"start", "head"} \cup (AfterSearch \ Draining)

\* What is mined is the newest announced job, or will be once the drain's job is
\* selected; the job ignored last is one that would be mined the same way.  What
\* a lost connection left undrained is made up for by the recovery.
NewestInv ==
    /\ pc \in Mining => SameWork(current.job, latest)
    /\ pc \in Draining =>
          IF Selected = NoJob THEN SameWork(current.job, latest) ELSE latest = Selected
    /\ last_ignored # NoJob => SameWork(current.job, last_ignored)

\* A runtime expiry is only ever observed after the deadline passed.
ReportInv ==
    /\ StopReportedTruthfully
    /\ token.reason = "runtime_limit_reached" => token.expired

IInv ==
    /\ TypeOK /\ CountInv /\ CoverInv /\ SessionInv /\ StopInv
    /\ NewestInv /\ ReportInv

CountType == [{"chunks", "jobs", "replacements", "variants", "advances", "cycles",
               "rolls", "duplicates", "candidates", "accepted", "rejected"} -> Nat]

CurrentType == [job : Jobs, variant : Nat, issued : Nat, hashed : Nat,
                work_searched : BOOLEAN, job_searched : BOOLEAN]

\* The updates of current_job's state keep its shape.
LEMMA SearchedTyped ==
    ASSUME NEW c \in CurrentType, NEW n \in Nat
    PROVE  [c EXCEPT !.issued = n, !.work_searched = TRUE, !.job_searched = TRUE]
              \in CurrentType
  BY Zenon DEF CurrentType

\* The same for the variant that follows.
LEMMA NextVariantTyped ==
    ASSUME NEW c \in CurrentType, NEW n \in Nat
    PROVE  [c EXCEPT !.variant = n, !.issued = 0, !.hashed = 0,
                     !.work_searched = FALSE] \in CurrentType
  BY 0 \in Nat, Zenon DEF CurrentType

\* The same for a job just selected.
LEMMA FreshTyped ==
    ASSUME NEW job \in Jobs
    PROVE  Fresh(job) \in CurrentType
  BY DEF Fresh, CurrentType

\* Every outcome of a range, without or with a match, is a match of the type.
LEMMA MatchTyped ==
    SearchResults \subseteq [found : BOOLEAN, network : BOOLEAN, complete : BOOLEAN]
<1>1. NoMatch \in [found : BOOLEAN, network : BOOLEAN, complete : BOOLEAN]
  BY DEF NoMatch
<1>2. [found : {TRUE}, network : BOOLEAN, complete : BOOLEAN]
         \subseteq [found : BOOLEAN, network : BOOLEAN, complete : BOOLEAN]
  BY Zenon
<1>3. QED
  BY <1>1, <1>2, Zenon DEF SearchResults

\* The updates of the counters keep their shape.
LEMMA CountStartTyped ==
    ASSUME NEW c \in CountType, NEW m \in Nat, NEW n \in Nat
    PROVE  [c EXCEPT !.variants = m, !.jobs = n] \in CountType
  BY DEF CountType

\* A roll of the time may count in three of them at once.
LEMMA CountRollTyped ==
    ASSUME NEW c \in CountType, NEW k \in Nat, NEW m \in Nat, NEW n \in Nat
    PROVE  [c EXCEPT !.advances = k, !.cycles = m, !.rolls = n] \in CountType
  BY DEF CountType

\* Types over a step: the strategy is asked for a range only while it has one
\* (CoverInv), and every job selected is of the running session (SessionInv).
LEMMA TypeStep == TypeOK /\ CoverInv /\ SessionInv /\ [Next]_vars => TypeOK'
<1> SUFFICES ASSUME TypeOK, CoverInv, SessionInv, [Next]_vars
             PROVE  TypeOK'
  OBVIOUS
<1> USE PlansAssumption, BoundsAssumption
         DEF TypeOK, CurrentType, CountType, Steps, Ended, Outcomes, StopCauses, work_state, history
<1>1. CASE Signal
  BY <1>1 DEF Signal
<1>2. CASE DeadlinePasses
  <2>1. token' \in [expired : BOOLEAN, reason : {"none"} \cup StopCauses]
    BY <1>2 DEF DeadlinePasses
  <2>2. QED
    BY <1>2, <2>1 DEF DeadlinePasses
<1>3. CASE Liveness
  BY <1>3 DEF Liveness, LimitCrossed
<1>4. CASE StartStopped
  BY <1>4 DEF StartStopped, FinishStopped, Finish, Observed, StopRequested
<1>5. CASE Begin
  BY <1>5 DEF Begin
<1>6. CASE StopSeen
  BY <1>6 DEF StopSeen, FinishStopped, Finish, Observed, StopRequested
<1>7. CASE StaleSeen
  BY <1>7 DEF StaleSeen
<1>8. CASE ChunkLimitReached
  BY <1>8 DEF ChunkLimitReached, Finish
<1>9. CASE SearchStarts
  <2>1. current'.issued = current.issued + 1 /\ current'.hashed = current.hashed
    BY <1>9 DEF SearchStarts
  <2>2. current' \in CurrentType
    <3>1. current' = [current EXCEPT !.issued = current.issued + 1,
                                     !.work_searched = TRUE, !.job_searched = TRUE]
      BY <1>9 DEF SearchStarts
    <3>2. current \in CurrentType /\ current.issued + 1 \in Nat
      BY DEF CurrentType
    <3>3. QED
      BY <3>1, <3>2, SearchedTyped
  <2>3. count' \in CountType
    <3>1. count' = [count EXCEPT
              !.variants = IF current.work_searched THEN count.variants
                           ELSE count.variants + 1,
              !.jobs = IF current.job_searched THEN count.jobs ELSE count.jobs + 1]
      BY <1>9 DEF SearchStarts
    <3>2. /\ count \in CountType
          /\ (IF current.work_searched THEN count.variants
              ELSE count.variants + 1) \in Nat
          /\ (IF current.job_searched THEN count.jobs ELSE count.jobs + 1) \in Nat
      OBVIOUS
    <3> HIDE DEF TypeOK, CountType
    <3>3. QED
      BY <3>1, <3>2, CountStartTyped
  <2>4. current'.hashed <= current'.issued /\ current'.issued <= plan.ranges
    BY <1>9, <2>1 DEF SearchStarts, CoverInv
  <2>5. QED
    BY <1>9, <2>2, <2>3, <2>4 DEF SearchStarts
<1>10. CASE SearchCompletes
  <2>1. PICK result \in SearchResults :
            /\ current' = [current EXCEPT !.hashed = IF result.complete THEN @ + 1 ELSE @]
            /\ match' = IF stale = {} THEN result ELSE NoMatch
            /\ pc' \in {"recovering", "candidate", "boundary"}
    BY <1>10 DEF SearchCompletes
  <2>2. SearchResults \subseteq [found : BOOLEAN, network : BOOLEAN, complete : BOOLEAN]
    BY MatchTyped
  <2>3. NoMatch \in SearchResults
    BY DEF SearchResults
  <2>4. match' \in [found : BOOLEAN, network : BOOLEAN, complete : BOOLEAN]
    BY <2>1, <2>2, <2>3
  <2>5. current' \in CurrentType
    BY <2>1
  <2>6. current'.hashed <= current'.issued /\ current'.issued <= plan.ranges
    BY <1>10, <2>1 DEF SearchCompletes, CoverInv
  <2>7. QED
    BY <1>10, <2>1, <2>4, <2>5, <2>6 DEF SearchCompletes
<1>11. CASE CandidateFound
  BY <1>11 DEF CandidateFound, ObserveStop, Observed
<1>12. CASE SubmitAnswered
  BY <1>12 DEF SubmitAnswered, Submit, ObserveStop, Observed
<1>13. CASE SubmitRaises
  BY <1>13 DEF SubmitRaises
<1>14. CASE ShareHandled
  BY <1>14 DEF ShareHandled, Finish, ShareOutcome, Observed, NoMatch
<1>15. CASE Boundary
  BY <1>15 DEF Boundary, StartDrain
<1>16. CASE DrainStep
  BY <1>16 DEF DrainStep, ReceiveDifficulty, ReceiveJob, Announced, Jobs
<1>17. CASE DrainEnds
  BY <1>17 DEF DrainEnds, Observed
<1>18. CASE ConnectionLost
  BY <1>18 DEF ConnectionLost, NoDrain
<1>19. CASE Select
  <2>1. pc = "drained" /\ drain.source \in {"boundary", "pacing", "waiting"}
    BY <1>19 DEF Select, SessionInv, Draining
  <2>2. AfterDrain \in {"pacing", "advance", "waiting"}
    BY <2>1 DEF AfterDrain
  <2>3. Selected # NoJob => Selected \in Jobs
    BY DEF Selected
  <2>4. drain' = NoDrain
    BY <1>19 DEF Select
  <2>5. /\ pc' \in {"head", "pacing", "advance", "waiting"}
        /\ current' = current \/ (current' = Fresh(Selected) /\ Selected \in Jobs)
        /\ last_ignored' \in Jobs \cup {NoJob}
        /\ count' \in CountType
    BY <1>19, <2>2, <2>3 DEF Select, IgnoreContext, IgnoreEffective, Replace
  <2>6. current' \in CurrentType
    BY <2>5, FreshTyped DEF CurrentType
  <2>7. current'.hashed <= current'.issued /\ current'.issued <= plan.ranges
    BY <2>5 DEF Fresh
  <2>8. QED
    BY <1>19, <2>4, <2>5, <2>6, <2>7 DEF Select, NoDrain
<1>20. CASE WakeUp
  <2>1. \A c \in Contexts : Announced(c) \in Jobs
    BY DEF Announced, Jobs
  <2>2. CASE \E d \in Difficulties : ReceiveDifficulty(d) /\ StartDrain(PollingLoop, NoJob)
    BY <1>20, <2>2 DEF WakeUp, PollingLoop, ReceiveDifficulty, StartDrain
  <2>3. CASE \E c \in Contexts : ReceiveJob(c) /\ StartDrain(PollingLoop, Announced(c))
    BY <1>20, <2>1, <2>3 DEF WakeUp, PollingLoop, ReceiveJob, StartDrain
  <2>4. QED
    BY <1>20, <2>2, <2>3 DEF WakeUp
<1>21. CASE PacingOver
  BY <1>21 DEF PacingOver
<1>22. CASE WaitingStale
  BY <1>22 DEF WaitingStale
<1>23. CASE NextRange
  BY <1>23 DEF NextRange
<1>24. CASE AdvanceExtraNonce
  <2>1. current' \in CurrentType
    <3>1. current' = [current EXCEPT !.variant = current.variant + 1, !.issued = 0,
                                     !.hashed = 0, !.work_searched = FALSE]
      BY <1>24 DEF AdvanceExtraNonce, NextVariant
    <3>2. current \in CurrentType /\ current.variant + 1 \in Nat
      BY DEF CurrentType
    <3>3. QED
      BY <3>1, <3>2, NextVariantTyped
  <2>2. current'.hashed = 0 /\ current'.issued = 0
    BY <1>24 DEF AdvanceExtraNonce, NextVariant
  <2>3. QED
    BY <1>24, <2>1, <2>2 DEF AdvanceExtraNonce
<1>25. CASE RollNetworkTime
  <2>1. current' \in CurrentType
    <3>1. current' = [current EXCEPT !.variant = current.variant + 1, !.issued = 0,
                                     !.hashed = 0, !.work_searched = FALSE]
      BY <1>25 DEF RollNetworkTime, NextVariant
    <3>2. current \in CurrentType /\ current.variant + 1 \in Nat
      BY DEF CurrentType
    <3>3. QED
      BY <3>1, <3>2, NextVariantTyped
  <2>2. current'.hashed = 0 /\ current'.issued = 0
    BY <1>25 DEF RollNetworkTime, NextVariant
  <2>3. count' \in CountType
    <3>1. count' = [count EXCEPT !.advances = count.advances + 1,
                                 !.cycles = count.cycles + 1,
                                 !.rolls = count.rolls + 1]
      BY <1>25 DEF RollNetworkTime
    <3>2. /\ count \in CountType
          /\ count.advances + 1 \in Nat /\ count.cycles + 1 \in Nat
          /\ count.rolls + 1 \in Nat
      OBVIOUS
    <3> HIDE DEF TypeOK, CountType
    <3>3. QED
      BY <3>1, <3>2, CountRollTyped
  <2>4. QED
    BY <1>25, <2>1, <2>2, <2>3 DEF RollNetworkTime
<1>26. CASE WaitForJob
  BY <1>26 DEF WaitForJob
<1>27. CASE RecoverInstalled
  BY <1>27 DEF RecoverInstalled, Rebound, Fresh, CountRecovered, Jobs
<1>28. CASE RecoverStopped
  BY <1>28 DEF RecoverStopped, FinishStopped, Finish, Observed, StopRequested
<1>29. CASE RecoverFails
  BY <1>29 DEF RecoverFails
<1>30. CASE Finished
  BY <1>30 DEF Finished, vars
<1>31. CASE PollBegins
  BY <1>31 DEF PollBegins
<1>32. CASE PollNone
  BY <1>32 DEF PollNone, PollingLoop
<1>33. CASE UNCHANGED vars
  BY <1>33 DEF vars
<1> QED
  BY <1>1, <1>2, <1>3, <1>4, <1>5, <1>6, <1>7, <1>8, <1>9, <1>10,
     <1>11, <1>12, <1>13, <1>14, <1>15, <1>16, <1>17, <1>18, <1>19, <1>20,
     <1>21, <1>22, <1>23, <1>24, <1>25, <1>26, <1>27, <1>28, <1>29, <1>30,
     <1>31, <1>32, <1>33 DEF Next, Loop

\* Counters over a step: a range is counted only after it was issued, so none
\* of the totals that constrain each other in the result can overtake another.
LEMMA CountStep == TypeOK /\ SessionInv /\ CountInv /\ [Next]_vars => CountInv'
<1> SUFFICES ASSUME TypeOK, SessionInv, CountInv, [Next]_vars
             PROVE  CountInv'
  OBVIOUS
<1> USE DEF CountInv, JobsAccounted, Searched, AfterSearch, Between, Running, TypeOK, Ended, work_state, history
<1>1. CASE Signal
  BY <1>1 DEF Signal
<1>2. CASE DeadlinePasses
  BY <1>2 DEF DeadlinePasses
<1>3. CASE Liveness
  BY <1>3 DEF Liveness, LimitCrossed
<1>4. CASE StartStopped
  BY <1>4 DEF StartStopped, FinishStopped, Finish
<1>5. CASE Begin
  BY <1>5 DEF Begin
<1>6. CASE StopSeen
  BY <1>6 DEF StopSeen, FinishStopped, Finish
<1>7. CASE StaleSeen
  BY <1>7 DEF StaleSeen
<1>8. CASE ChunkLimitReached
  BY <1>8 DEF ChunkLimitReached, Finish
<1>9. CASE SearchStarts
  <2>1. /\ current'.job_searched = TRUE
        /\ pc = "head" /\ pc' = "searching" /\ plan' = plan
    BY <1>9 DEF SearchStarts
  <2>2. /\ count'.chunks = count.chunks
        /\ count'.replacements = count.replacements
        /\ count'.accepted = count.accepted
        /\ count'.rejected = count.rejected
        /\ count'.candidates = count.candidates
    BY <1>9 DEF SearchStarts
  <2>3. count'.jobs = IF current.job_searched THEN count.jobs ELSE count.jobs + 1
    BY <1>9 DEF SearchStarts
  <2>4. count'.variants = count.variants \/ count'.variants = count.variants + 1
    BY <1>9 DEF SearchStarts
  <2>5. plan.max_chunks # 0 => ~(count.chunks >= plan.max_chunks)
    BY <1>9 DEF SearchStarts, ChunkLimit
  <2>6. plan.max_chunks \in Nat
    BY PlansAssumption
  <2>7. QED
    BY <2>1, <2>2, <2>3, <2>4, <2>5, <2>6
<1>10. CASE SearchCompletes
  BY <1>10 DEF SearchCompletes
<1>11. CASE CandidateFound
  BY <1>11 DEF CandidateFound, ObserveStop
<1>12. CASE SubmitAnswered
  BY <1>12 DEF SubmitAnswered, Submit, ObserveStop
<1>13. CASE SubmitRaises
  BY <1>13 DEF SubmitRaises
<1>14. CASE ShareHandled
  BY <1>14 DEF ShareHandled, Finish
<1>15. CASE Boundary
  BY <1>15 DEF Boundary, StartDrain
<1>16. CASE DrainStep
  BY <1>16 DEF DrainStep
<1>17. CASE DrainEnds
  BY <1>17 DEF DrainEnds
<1>18. CASE ConnectionLost
  BY <1>18 DEF ConnectionLost
<1>19. CASE Select
  BY <1>19 DEF Select, SessionInv, Draining, IgnoreContext, IgnoreEffective, Replace, AfterDrain, Fresh
<1>20. CASE WakeUp
  BY <1>20 DEF WakeUp, PollingLoop, StartDrain
<1>21. CASE PacingOver
  BY <1>21 DEF PacingOver
<1>22. CASE WaitingStale
  BY <1>22 DEF WaitingStale
<1>23. CASE NextRange
  BY <1>23 DEF NextRange
<1>24. CASE AdvanceExtraNonce
  BY <1>24 DEF AdvanceExtraNonce, NextVariant
<1>25. CASE RollNetworkTime
  BY <1>25 DEF RollNetworkTime, NextVariant
<1>26. CASE WaitForJob
  BY <1>26 DEF WaitForJob
<1>27. CASE RecoverInstalled
  BY <1>27 DEF RecoverInstalled, Fresh, CountRecovered
<1>28. CASE RecoverStopped
  BY <1>28 DEF RecoverStopped, FinishStopped, Finish
<1>29. CASE RecoverFails
  BY <1>29 DEF RecoverFails
<1>30. CASE Finished
  BY <1>30 DEF Finished, vars
<1>31. CASE PollBegins
  BY <1>31 DEF PollBegins
<1>32. CASE PollNone
  BY <1>32 DEF PollNone, PollingLoop
<1>33. CASE UNCHANGED vars
  BY <1>33 DEF vars
<1> QED
  BY <1>1, <1>2, <1>3, <1>4, <1>5, <1>6, <1>7, <1>8, <1>9, <1>10,
     <1>11, <1>12, <1>13, <1>14, <1>15, <1>16, <1>17, <1>18, <1>19, <1>20,
     <1>21, <1>22, <1>23, <1>24, <1>25, <1>26, <1>27, <1>28, <1>29, <1>30,
     <1>31, <1>32, <1>33 DEF Next, Loop

\* How far a variant is searched, over a step.
LEMMA CoverStep == TypeOK /\ SessionInv /\ CoverInv /\ [Next]_vars => CoverInv'
<1> SUFFICES ASSUME TypeOK, SessionInv, CoverInv, [Next]_vars
             PROVE  CoverInv'
  OBVIOUS
<1> USE PlansAssumption DEF CoverInv, Settled, Between, Handling, TypeOK, Ended, work_state, history
<1>1. CASE Signal
  BY <1>1 DEF Signal
<1>2. CASE DeadlinePasses
  BY <1>2 DEF DeadlinePasses
<1>3. CASE Liveness
  BY <1>3 DEF Liveness, LimitCrossed
<1>4. CASE StartStopped
  BY <1>4 DEF StartStopped, FinishStopped, Finish
<1>5. CASE Begin
  BY <1>5 DEF Begin
<1>6. CASE StopSeen
  BY <1>6 DEF StopSeen, FinishStopped, Finish
<1>7. CASE StaleSeen
  BY <1>7 DEF StaleSeen
<1>8. CASE ChunkLimitReached
  BY <1>8 DEF ChunkLimitReached, Finish
<1>9. CASE SearchStarts
  BY <1>9 DEF SearchStarts
<1>10. CASE SearchCompletes
  <2>1. PICK result \in SearchResults :
            /\ current' = [current EXCEPT !.hashed = IF result.complete THEN @ + 1 ELSE @]
            /\ match' = IF stale = {} THEN result ELSE NoMatch
            /\ pc' = IF stale # {} THEN "recovering"
                     ELSE IF result.found THEN "candidate" ELSE "boundary"
    BY <1>10 DEF SearchCompletes
  <2>2. result \in [found : BOOLEAN, network : BOOLEAN, complete : BOOLEAN]
    BY MatchTyped
  <2>3. ~result.found => result.complete
    <3>1. CASE result = NoMatch
      BY <3>1 DEF NoMatch
    <3>2. CASE result \in [found : {TRUE}, network : BOOLEAN, complete : BOOLEAN]
      BY <3>2
    <3>3. QED
      BY <3>1, <3>2 DEF SearchResults
  <2>4. /\ current'.hashed = IF result.complete THEN current.hashed + 1 ELSE current.hashed
        /\ current'.issued = current.issued
    BY <2>1
  <2>5. current.hashed + 1 = current.issued /\ plan' = plan
    BY <1>10 DEF SearchCompletes
  <2>6. CASE stale # {}
    BY <2>1, <2>6
  <2>7. CASE stale = {} /\ result.found
    BY <2>1, <2>2, <2>4, <2>5, <2>7
  <2>8. CASE stale = {} /\ ~result.found
    BY <2>1, <2>2, <2>3, <2>4, <2>5, <2>8
  <2>9. QED
    BY <2>6, <2>7, <2>8
<1>11. CASE CandidateFound
  BY <1>11 DEF CandidateFound, ObserveStop
<1>12. CASE SubmitAnswered
  BY <1>12 DEF SubmitAnswered, Submit, ObserveStop
<1>13. CASE SubmitRaises
  BY <1>13 DEF SubmitRaises
<1>14. CASE ShareHandled
  BY <1>14 DEF ShareHandled, Finish, ShareEnds
<1>15. CASE Boundary
  BY <1>15 DEF Boundary, StartDrain
<1>16. CASE DrainStep
  BY <1>16 DEF DrainStep
<1>17. CASE DrainEnds
  BY <1>17 DEF DrainEnds
<1>18. CASE ConnectionLost
  BY <1>18 DEF ConnectionLost
<1>19. CASE Select
  BY <1>19 DEF Select, SessionInv, Draining, IgnoreContext, IgnoreEffective, Replace, AfterDrain, Fresh
<1>20. CASE WakeUp
  BY <1>20 DEF WakeUp, PollingLoop, StartDrain
<1>21. CASE PacingOver
  BY <1>21 DEF PacingOver
<1>22. CASE WaitingStale
  BY <1>22 DEF WaitingStale
<1>23. CASE NextRange
  BY <1>23 DEF NextRange, Exhausted
<1>24. CASE AdvanceExtraNonce
  BY <1>24 DEF AdvanceExtraNonce, NextVariant
<1>25. CASE RollNetworkTime
  BY <1>25 DEF RollNetworkTime, NextVariant
<1>26. CASE WaitForJob
  BY <1>26 DEF WaitForJob
<1>27. CASE RecoverInstalled
  BY <1>27 DEF RecoverInstalled, Fresh
<1>28. CASE RecoverStopped
  BY <1>28 DEF RecoverStopped, FinishStopped, Finish
<1>29. CASE RecoverFails
  BY <1>29 DEF RecoverFails
<1>30. CASE Finished
  BY <1>30 DEF Finished, vars
<1>31. CASE PollBegins
  BY <1>31 DEF PollBegins
<1>32. CASE PollNone
  BY <1>32 DEF PollNone, PollingLoop
<1>33. CASE UNCHANGED vars
  BY <1>33 DEF vars
<1> QED
  BY <1>1, <1>2, <1>3, <1>4, <1>5, <1>6, <1>7, <1>8, <1>9, <1>10,
     <1>11, <1>12, <1>13, <1>14, <1>15, <1>16, <1>17, <1>18, <1>19, <1>20,
     <1>21, <1>22, <1>23, <1>24, <1>25, <1>26, <1>27, <1>28, <1>29, <1>30,
     <1>31, <1>32, <1>33 DEF Next, Loop

\* Sessions over a step.
LEMMA SessionStep == TypeOK /\ SessionInv /\ [Next]_vars => SessionInv'
<1> SUFFICES ASSUME TypeOK, SessionInv, [Next]_vars
             PROVE  SessionInv'
  OBVIOUS
<1> USE DEF SessionInv, Draining, OfSession, Rebound, TypeOK, Ended, work_state, history
<1>1. CASE Signal
  BY <1>1 DEF Signal
<1>2. CASE DeadlinePasses
  BY <1>2 DEF DeadlinePasses
<1>3. CASE Liveness
  BY <1>3 DEF Liveness, LimitCrossed
<1>4. CASE StartStopped
  BY <1>4 DEF StartStopped, FinishStopped, Finish
<1>5. CASE Begin
  BY <1>5 DEF Begin
<1>6. CASE StopSeen
  BY <1>6 DEF StopSeen, FinishStopped, Finish
<1>7. CASE StaleSeen
  BY <1>7 DEF StaleSeen
<1>8. CASE ChunkLimitReached
  BY <1>8 DEF ChunkLimitReached, Finish
<1>9. CASE SearchStarts
  BY <1>9 DEF SearchStarts
<1>10. CASE SearchCompletes
  BY <1>10 DEF SearchCompletes
<1>11. CASE CandidateFound
  BY <1>11 DEF CandidateFound, ObserveStop
<1>12. CASE SubmitAnswered
  BY <1>12 DEF SubmitAnswered, Submit, ObserveStop
<1>13. CASE SubmitRaises
  BY <1>13 DEF SubmitRaises
<1>14. CASE ShareHandled
  BY <1>14 DEF ShareHandled, Finish
<1>15. CASE Boundary
  BY <1>15 DEF Boundary, StartDrain
<1>16. CASE DrainStep
  BY <1>16 DEF DrainStep, ReceiveDifficulty, ReceiveJob, Announced
<1>17. CASE DrainEnds
  BY <1>17 DEF DrainEnds
<1>18. CASE ConnectionLost
  BY <1>18 DEF ConnectionLost
<1>19. CASE Select
  BY <1>19 DEF Select, IgnoreContext, IgnoreEffective, Replace, AfterDrain, Selected, Fresh
<1>20. CASE WakeUp
  BY <1>20 DEF WakeUp, PollingLoop, StartDrain, ReceiveDifficulty, ReceiveJob, Announced
<1>21. CASE PacingOver
  BY <1>21 DEF PacingOver
<1>22. CASE WaitingStale
  BY <1>22 DEF WaitingStale
<1>23. CASE NextRange
  BY <1>23 DEF NextRange
<1>24. CASE AdvanceExtraNonce
  BY <1>24 DEF AdvanceExtraNonce, NextVariant
<1>25. CASE RollNetworkTime
  BY <1>25 DEF RollNetworkTime, NextVariant
<1>26. CASE WaitForJob
  BY <1>26 DEF WaitForJob
<1>27. CASE RecoverInstalled
  BY <1>27 DEF RecoverInstalled, Fresh
<1>28. CASE RecoverStopped
  BY <1>28 DEF RecoverStopped, FinishStopped, Finish
<1>29. CASE RecoverFails
  BY <1>29 DEF RecoverFails
<1>30. CASE Finished
  BY <1>30 DEF Finished, vars
<1>31. CASE PollBegins
  BY <1>31 DEF PollBegins
<1>32. CASE PollNone
  BY <1>32 DEF PollNone, PollingLoop
<1>33. CASE UNCHANGED vars
  BY <1>33 DEF vars
<1> QED
  BY <1>1, <1>2, <1>3, <1>4, <1>5, <1>6, <1>7, <1>8, <1>9, <1>10,
     <1>11, <1>12, <1>13, <1>14, <1>15, <1>16, <1>17, <1>18, <1>19, <1>20,
     <1>21, <1>22, <1>23, <1>24, <1>25, <1>26, <1>27, <1>28, <1>29, <1>30,
     <1>31, <1>32, <1>33 DEF Next, Loop

\* The stop bound over a step.
LEMMA StopStep == TypeOK /\ StopInv /\ [Next]_vars => StopInv'
<1> SUFFICES ASSUME TypeOK, StopInv, [Next]_vars
             PROVE  StopInv'
  OBVIOUS
<1> USE DEF StopInv, StopRequested, Running, TypeOK, Ended, work_state, history
<1>1. CASE Signal
  BY <1>1 DEF Signal
<1>2. CASE DeadlinePasses
  BY <1>2 DEF DeadlinePasses
<1>3. CASE Liveness
  BY <1>3 DEF Liveness, LimitCrossed
<1>4. CASE StartStopped
  BY <1>4 DEF StartStopped, FinishStopped, Finish, Observed
<1>5. CASE Begin
  BY <1>5 DEF Begin
<1>6. CASE StopSeen
  BY <1>6 DEF StopSeen, FinishStopped, Finish, Observed
<1>7. CASE StaleSeen
  BY <1>7 DEF StaleSeen
<1>8. CASE ChunkLimitReached
  BY <1>8 DEF ChunkLimitReached, Finish
<1>9. CASE SearchStarts
  BY <1>9 DEF SearchStarts
<1>10. CASE SearchCompletes
  BY <1>10 DEF SearchCompletes
<1>11. CASE CandidateFound
  BY <1>11 DEF CandidateFound, ObserveStop, Observed
<1>12. CASE SubmitAnswered
  BY <1>12 DEF SubmitAnswered, Submit, ObserveStop, Observed
<1>13. CASE SubmitRaises
  BY <1>13 DEF SubmitRaises
<1>14. CASE ShareHandled
  BY <1>14 DEF ShareHandled, Finish, Observed
<1>15. CASE Boundary
  BY <1>15 DEF Boundary, StartDrain
<1>16. CASE DrainStep
  BY <1>16 DEF DrainStep, ReceiveDifficulty, ReceiveJob
<1>17. CASE DrainEnds
  BY <1>17 DEF DrainEnds, Observed
<1>18. CASE ConnectionLost
  BY <1>18 DEF ConnectionLost
<1>19. CASE Select
  BY <1>19 DEF Select, IgnoreContext, IgnoreEffective, Replace, AfterDrain
<1>20. CASE WakeUp
  BY <1>20 DEF WakeUp, PollingLoop, StartDrain
<1>21. CASE PacingOver
  BY <1>21 DEF PacingOver
<1>22. CASE WaitingStale
  BY <1>22 DEF WaitingStale
<1>23. CASE NextRange
  BY <1>23 DEF NextRange
<1>24. CASE AdvanceExtraNonce
  BY <1>24 DEF AdvanceExtraNonce, NextVariant
<1>25. CASE RollNetworkTime
  BY <1>25 DEF RollNetworkTime, NextVariant
<1>26. CASE WaitForJob
  BY <1>26 DEF WaitForJob
<1>27. CASE RecoverInstalled
  BY <1>27 DEF RecoverInstalled, Fresh, CountRecovered
<1>28. CASE RecoverStopped
  BY <1>28 DEF RecoverStopped, FinishStopped, Finish, Observed
<1>29. CASE RecoverFails
  BY <1>29 DEF RecoverFails
<1>30. CASE Finished
  BY <1>30 DEF Finished, vars
<1>31. CASE PollBegins
  BY <1>31 DEF PollBegins
<1>32. CASE PollNone
  BY <1>32 DEF PollNone, PollingLoop
<1>33. CASE UNCHANGED vars
  BY <1>33 DEF vars
<1> QED
  BY <1>1, <1>2, <1>3, <1>4, <1>5, <1>6, <1>7, <1>8, <1>9, <1>10,
     <1>11, <1>12, <1>13, <1>14, <1>15, <1>16, <1>17, <1>18, <1>19, <1>20,
     <1>21, <1>22, <1>23, <1>24, <1>25, <1>26, <1>27, <1>28, <1>29, <1>30,
     <1>31, <1>32, <1>33 DEF Next, Loop

LEMMA AnnouncedIsJob ==
    ASSUME TypeOK, NEW c \in Contexts
    PROVE  Announced(c) # NoJob
<1>1. Announced(c) \in Jobs
  BY DEF TypeOK, Announced, Jobs
<1>2. QED
  BY <1>1, NoJobAssumption

\* The newest job over a step: a selection keeps the current work only if the
\* selected job is made into the same headers.
LEMMA NewestStep == TypeOK /\ SessionInv /\ NewestInv /\ [Next]_vars => NewestInv'
<1> SUFFICES ASSUME TypeOK, SessionInv, NewestInv, [Next]_vars
             PROVE  NewestInv'
  OBVIOUS
<1> USE DEF NewestInv, Mining, Draining, AfterSearch, Between, SameWork, Ended, work_state, history
<1>1. CASE Signal
  BY <1>1 DEF Signal, Selected
<1>2. CASE DeadlinePasses
  BY <1>2 DEF DeadlinePasses, Selected
<1>3. CASE Liveness
  BY <1>3 DEF Liveness, LimitCrossed
<1>4. CASE StartStopped
  BY <1>4 DEF StartStopped, FinishStopped, Finish
<1>5. CASE Begin
  BY <1>5 DEF Begin
<1>6. CASE StopSeen
  BY <1>6 DEF StopSeen, FinishStopped, Finish
<1>7. CASE StaleSeen
  BY <1>7 DEF StaleSeen
<1>8. CASE ChunkLimitReached
  BY <1>8 DEF ChunkLimitReached, Finish
<1>9. CASE SearchStarts
  BY <1>9 DEF SearchStarts
<1>10. CASE SearchCompletes
  BY <1>10 DEF SearchCompletes
<1>11. CASE CandidateFound
  BY <1>11 DEF CandidateFound, ObserveStop
<1>12. CASE SubmitAnswered
  BY <1>12 DEF SubmitAnswered, Submit, ObserveStop
<1>13. CASE SubmitRaises
  BY <1>13 DEF SubmitRaises
<1>14. CASE ShareHandled
  BY <1>14 DEF ShareHandled, Finish
<1>15. CASE Boundary
  BY <1>15 DEF Boundary, StartDrain, Selected
<1>16. CASE DrainStep
  <2>1. pc = "drain_poll" /\ pc' = "drain" /\ UNCHANGED <<current, last_ignored>>
    BY <1>16 DEF DrainStep
  <2>2. CASE \E d \in Difficulties : ReceiveDifficulty(d) /\ UNCHANGED drain
    BY <2>1, <2>2 DEF ReceiveDifficulty, Selected
  <2>3. CASE \E c \in Contexts : /\ ReceiveJob(c)
                                 /\ drain' = [drain EXCEPT !.newest = Announced(c)]
    <3>1. PICK c \in Contexts : /\ ReceiveJob(c)
                                /\ drain' = [drain EXCEPT !.newest = Announced(c)]
      BY <2>3
    <3>2. latest' = Announced(c) /\ drain'.newest = Announced(c)
      BY <3>1 DEF ReceiveJob, TypeOK
    <3>3. Announced(c) # NoJob
      BY AnnouncedIsJob
    <3>4. QED
      BY <2>1, <3>2, <3>3 DEF Selected
  <2>4. QED
    BY <1>16, <2>2, <2>3 DEF DrainStep
<1>17. CASE DrainEnds
  BY <1>17 DEF DrainEnds, Selected
<1>18. CASE ConnectionLost
  BY <1>18 DEF ConnectionLost
<1>19. CASE Select
  <2>1. /\ pc = "drained" /\ latest' = latest
        /\ AfterDrain \in {"pacing", "advance", "waiting"}
    BY <1>19 DEF Select, SessionInv, Draining, TypeOK, AfterDrain
  <2>2. CASE Selected = NoJob
    BY <1>19, <2>1, <2>2 DEF Select
  <2>3. CASE Selected # NoJob
    <3>1. latest = Selected
      BY <2>1, <2>3
    <3>2. CASE IgnoreContext(Selected)
      <4>1. PICK known \in {current.job, last_ignored} \ {NoJob} :
               ContextIdentity(Selected) = ContextIdentity(known)
        BY <3>2 DEF IgnoreContext, KnownContext
      <4>2. SameWork(known, latest)
        BY <3>1, <4>1 DEF ContextIdentity
      <4>3. SameWork(current.job, latest)
        BY <4>1, <4>2
      <4>4. QED
        BY <2>1, <3>2, <4>3 DEF IgnoreContext
    <3>3. CASE IgnoreEffective(Selected)
      BY <2>1, <3>1, <3>3 DEF IgnoreEffective, WorkIdentity
    <3>4. CASE Replace(Selected)
      BY <2>1, <3>1, <3>4 DEF Replace, Fresh
    <3>5. QED
      BY <1>19, <2>3, <3>2, <3>3, <3>4 DEF Select
  <2>4. QED
    BY <2>2, <2>3
<1>20. CASE WakeUp
  <2>1. pc \in {"pacing_poll", "waiting_poll"} /\ UNCHANGED <<current, last_ignored>>
    BY <1>20 DEF WakeUp
  <2>2. CASE \E d \in Difficulties : ReceiveDifficulty(d) /\ StartDrain(PollingLoop, NoJob)
    BY <2>1, <2>2 DEF ReceiveDifficulty, StartDrain, Selected
  <2>3. CASE \E c \in Contexts : ReceiveJob(c) /\ StartDrain(PollingLoop, Announced(c))
    BY <2>1, <2>3, AnnouncedIsJob DEF ReceiveJob, StartDrain, Selected
  <2>4. QED
    BY <1>20, <2>2, <2>3 DEF WakeUp
<1>21. CASE PacingOver
  BY <1>21 DEF PacingOver
<1>22. CASE WaitingStale
  BY <1>22 DEF WaitingStale
<1>23. CASE NextRange
  BY <1>23 DEF NextRange
<1>24. CASE AdvanceExtraNonce
  BY <1>24 DEF AdvanceExtraNonce, NextVariant
<1>25. CASE RollNetworkTime
  BY <1>25 DEF RollNetworkTime, NextVariant
<1>26. CASE WaitForJob
  BY <1>26 DEF WaitForJob
<1>27. CASE RecoverInstalled
  BY <1>27 DEF RecoverInstalled, Fresh
<1>28. CASE RecoverStopped
  BY <1>28 DEF RecoverStopped, FinishStopped, Finish
<1>29. CASE RecoverFails
  BY <1>29 DEF RecoverFails
<1>30. CASE Finished
  BY <1>30 DEF Finished, vars
<1>31. CASE PollBegins
  BY <1>31 DEF PollBegins, Selected
<1>32. CASE PollNone
  BY <1>32 DEF PollNone, PollingLoop, Selected
<1>33. CASE UNCHANGED vars
  BY <1>33 DEF vars, Selected
<1> QED
  BY <1>1, <1>2, <1>3, <1>4, <1>5, <1>6, <1>7, <1>8, <1>9, <1>10,
     <1>11, <1>12, <1>13, <1>14, <1>15, <1>16, <1>17, <1>18, <1>19, <1>20,
     <1>21, <1>22, <1>23, <1>24, <1>25, <1>26, <1>27, <1>28, <1>29, <1>30,
     <1>31, <1>32, <1>33 DEF Next, Loop

\* The reported cause over a step.
LEMMA ReportStep == TypeOK /\ SessionInv /\ ReportInv /\ [Next]_vars => ReportInv'
<1> SUFFICES ASSUME TypeOK, SessionInv, ReportInv, [Next]_vars
             PROVE  ReportInv'
  OBVIOUS
<1> USE DEF ReportInv, StopReportedTruthfully, StopCauses, TypeOK, Ended, work_state, history
<1>1. CASE Signal
  BY <1>1 DEF Signal
<1>2. CASE DeadlinePasses
  BY <1>2 DEF DeadlinePasses
<1>3. CASE Liveness
  BY <1>3 DEF Liveness, LimitCrossed
<1>4. CASE StartStopped
  BY <1>4 DEF StartStopped, FinishStopped, Finish, Observed, StopRequested
<1>5. CASE Begin
  BY <1>5 DEF Begin
<1>6. CASE StopSeen
  BY <1>6 DEF StopSeen, FinishStopped, Finish, Observed, StopRequested
<1>7. CASE StaleSeen
  BY <1>7 DEF StaleSeen
<1>8. CASE ChunkLimitReached
  BY <1>8 DEF ChunkLimitReached, Finish
<1>9. CASE SearchStarts
  BY <1>9 DEF SearchStarts
<1>10. CASE SearchCompletes
  BY <1>10 DEF SearchCompletes
<1>11. CASE CandidateFound
  BY <1>11 DEF CandidateFound, ObserveStop, Observed
<1>12. CASE SubmitAnswered
  BY <1>12 DEF SubmitAnswered, Submit, ObserveStop, Observed
<1>13. CASE SubmitRaises
  BY <1>13 DEF SubmitRaises
<1>14. CASE ShareHandled
  BY <1>14 DEF ShareHandled, Finish, ShareOutcome, Observed
<1>15. CASE Boundary
  BY <1>15 DEF Boundary, StartDrain
<1>16. CASE DrainStep
  BY <1>16 DEF DrainStep
<1>17. CASE DrainEnds
  BY <1>17 DEF DrainEnds, Observed
<1>18. CASE ConnectionLost
  BY <1>18 DEF ConnectionLost
<1>19. CASE Select
  BY <1>19 DEF Select, SessionInv, Draining, IgnoreContext, IgnoreEffective, Replace, AfterDrain
<1>20. CASE WakeUp
  BY <1>20 DEF WakeUp, PollingLoop, StartDrain
<1>21. CASE PacingOver
  BY <1>21 DEF PacingOver
<1>22. CASE WaitingStale
  BY <1>22 DEF WaitingStale
<1>23. CASE NextRange
  BY <1>23 DEF NextRange
<1>24. CASE AdvanceExtraNonce
  BY <1>24 DEF AdvanceExtraNonce, NextVariant
<1>25. CASE RollNetworkTime
  BY <1>25 DEF RollNetworkTime, NextVariant
<1>26. CASE WaitForJob
  BY <1>26 DEF WaitForJob
<1>27. CASE RecoverInstalled
  BY <1>27 DEF RecoverInstalled, Fresh
<1>28. CASE RecoverStopped
  BY <1>28 DEF RecoverStopped, FinishStopped, Finish, Observed, StopRequested
<1>29. CASE RecoverFails
  BY <1>29 DEF RecoverFails
<1>30. CASE Finished
  BY <1>30 DEF Finished, vars
<1>31. CASE PollBegins
  BY <1>31 DEF PollBegins
<1>32. CASE PollNone
  BY <1>32 DEF PollNone, PollingLoop
<1>33. CASE UNCHANGED vars
  BY <1>33 DEF vars
<1> QED
  BY <1>1, <1>2, <1>3, <1>4, <1>5, <1>6, <1>7, <1>8, <1>9, <1>10,
     <1>11, <1>12, <1>13, <1>14, <1>15, <1>16, <1>17, <1>18, <1>19, <1>20,
     <1>21, <1>22, <1>23, <1>24, <1>25, <1>26, <1>27, <1>28, <1>29, <1>30,
     <1>31, <1>32, <1>33 DEF Next, Loop

\* The initial states of every plan and first job.
LEMMA InitInv == Init => IInv
<1> SUFFICES ASSUME Init
             PROVE  IInv
  OBVIOUS
<1> USE PlansAssumption, BoundsAssumption DEF Init
<1>1. PICK job \in Jobs : job.session = 1 /\ current = Fresh(job) /\ latest = job
  OBVIOUS
<1>2. current \in CurrentType
  BY <1>1, FreshTyped
<1>3. /\ current.issued = 0 /\ current.hashed = 0
      /\ current.job = job /\ current.job_searched = FALSE
  BY <1>1 DEF Fresh
<1>4. TypeOK
  <2>1. token \in [expired : BOOLEAN, reason : {"none"} \cup StopCauses]
    OBVIOUS
  <2>2. match \in [found : BOOLEAN, network : BOOLEAN, complete : BOOLEAN]
    BY DEF NoMatch
  <2>3. bound \in [{"assembler", "receive", "submit", "seed"} -> 1 .. MaxSessions]
    BY DEF Rebound
  <2>4. /\ drain \in [source : {"none", "boundary", "pacing", "waiting"},
                     woken : Jobs \cup {NoJob}, newest : Jobs \cup {NoJob}]
        /\ count \in CountType
    BY DEF NoDrain, CountType
  <2>5. current.hashed <= current.issued /\ current.issued <= plan.ranges
    BY <1>3
  <2>6. /\ plan \in Plans /\ pc \in Steps /\ session \in 1 .. MaxSessions
        /\ difficulty \in Difficulties /\ last_ignored \in Jobs \cup {NoJob}
        /\ messages \in 0 .. MaxMessages /\ chunks_at_stop \in Nat
    BY DEF Steps
  <2>7. /\ stale \subseteq {"silence", "job_age"} /\ latest \in Jobs
        /\ outcome \in {"none"} \cup Outcomes
    BY <1>1
  <2>8. stop_event \in BOOLEAN
    OBVIOUS
  <2> HIDE DEF Init
  <2>9. QED
    BY <1>2, <2>1, <2>2, <2>3, <2>4, <2>5, <2>6, <2>7, <2>8
       DEF TypeOK, CurrentType, CountType
<1>5. CountInv
  BY <1>3 DEF CountInv, JobsAccounted, Searched, AfterSearch, Between, Running
<1>6. CoverInv
  BY <1>3 DEF CoverInv, Settled, Between, Handling
<1>7. SessionInv
  BY <1>1, <1>3 DEF SessionInv, Draining
<1>8. StopInv
  BY DEF StopInv, StopRequested
<1>9. NewestInv
  BY <1>1, <1>3 DEF NewestInv, SameWork, Draining
<1>10. ReportInv
  BY DEF ReportInv, StopReportedTruthfully
<1>11. QED
  BY <1>4, <1>5, <1>6, <1>7, <1>8, <1>9, <1>10 DEF IInv

\* The conjunction of the parts holds throughout: each is kept by every
\* step from the types and the parts it needs.
THEOREM InductiveInvariant == Spec => []IInv
<1>1. IInv /\ [Next]_vars => IInv'
  BY TypeStep, CountStep, CoverStep, SessionStep, StopStep, NewestStep, ReportStep
     DEF IInv
<1>2. QED
  BY InitInv, <1>1, PTL DEF Spec

\* Every part of the loop's state keeps its shape; in particular the strategy
\* cursor is never asked for a range past its last one.
THEOREM TypeCorrect == Spec => []TypeOK
<1>1. IInv => TypeOK
  BY DEF IInv
<1>2. QED
  BY <1>1, InductiveInvariant, PTL

\* The totals of searched and replaced jobs never drift apart.
THEOREM JobsAccountedHolds == Spec => []JobsAccounted
<1>1. IInv => JobsAccounted
  BY DEF IInv, CountInv
<1>2. QED
  BY <1>1, InductiveInvariant, PTL

\* Whichever return ends the run, ContinuousMiningResult accepts its counters.
THEOREM ResultAcceptedHolds == Spec => []ResultAccepted
<1>1. IInv => ResultAccepted
  BY DEF IInv, TypeOK, CountInv, JobsAccounted, Searched, Running, ResultAccepted
<1>2. QED
  BY <1>1, InductiveInvariant, PTL

\* Shares, and all callables, belong to the session whose job is mined.
THEOREM SharesGoThroughOwnSessionHolds == Spec => []SharesGoThroughOwnSession
<1>1. IInv => SharesGoThroughOwnSession
  BY DEF IInv, SessionInv, Draining, Rebound, SharesGoThroughOwnSession
<1>2. QED
  BY <1>1, InductiveInvariant, PTL

\* However many ranges, sessions and messages there are, a stop lets at most
\* one more range complete.
THEOREM StopBoundsWorkHolds == Spec => []StopBoundsWork
<1>1. IInv => StopBoundsWork
  BY DEF IInv, TypeOK, StopInv, StopRequested, Running, StopBoundsWork
<1>2. QED
  BY <1>1, InductiveInvariant, PTL

\* No range is searched for a job that a newer announcement has superseded,
\* whatever was queued, drained, ignored as a duplicate or lost on the way.
THEOREM NewestJobMinedHolds == Spec => []NewestJobMined
<1>1. IInv => NewestJobMined
  BY DEF IInv, NewestInv, Mining, Draining, AfterSearch, Between, SameWork, NewestJobMined
<1>2. QED
  BY <1>1, InductiveInvariant, PTL

\* The reported cause of a controlled stop is the one observed first.
THEOREM StopReportedTruthfullyHolds == Spec => []StopReportedTruthfully
<1>1. IInv => StopReportedTruthfully
  BY DEF IInv, ReportInv
<1>2. QED
  BY <1>1, InductiveInvariant, PTL

\* No variant is left with a nonce of it unhashed.
THEOREM VariantLeftOnlyWhenCoveredHolds == Spec => VariantLeftOnlyWhenCovered
<1> DEFINE Left == \/ current'.job = current.job /\ current'.variant # current.variant
                   \/ pc = "advance" /\ pc' = "waiting"
<1>1. IInv /\ [Next]_vars => [Left => current.hashed = plan.ranges]_vars
  <2> SUFFICES ASSUME IInv, Next, Left
               PROVE  current.hashed = plan.ranges
    OBVIOUS
  <2>1. pc = "advance" => current.hashed = current.issued
    BY DEF IInv, CoverInv, Settled, Between
  <2>2. AdvanceExtraNonce \/ RollNetworkTime \/ WaitForJob
    <3>1. CASE UNCHANGED current /\ (pc # "advance" \/ pc' # "waiting")
      BY <3>1
    <3>2. CASE Select
      <4>1. ASSUME NEW job, Replace(job)
            PROVE  current'.job # current.job
        BY <4>1, NoJobAssumption DEF Replace, KnownContext, Fresh, IInv, TypeOK
      <4>2. QED
        BY <3>2, <4>1 DEF Select, IgnoreContext, IgnoreEffective
    <3>3. CASE RecoverInstalled
      BY <3>3 DEF RecoverInstalled, Fresh, IInv, SessionInv, Draining, TypeOK
    <3>4. CASE SearchStarts \/ SearchCompletes
      BY <3>4 DEF SearchStarts, SearchCompletes, IInv, TypeOK
    <3>5. QED
      BY <3>1, <3>2, <3>3, <3>4
         DEF Next, Loop, Signal, DeadlinePasses, Liveness, LimitCrossed, StartStopped,
             FinishStopped, Finish, Begin, StopSeen, StaleSeen, ChunkLimitReached,
             CandidateFound, SubmitAnswered, Submit, SubmitRaises, ShareHandled,
             Boundary, StartDrain, PollBegins, DrainStep, DrainEnds, ConnectionLost,
             WakeUp, PollNone, PollingLoop, PacingOver, WaitingStale, NextRange, RecoverStopped, RecoverFails,
             Finished, vars, work_state
  <2>3. QED
    BY <2>1, <2>2 DEF AdvanceExtraNonce, RollNetworkTime, WaitForJob, Exhausted
<1>2. QED
  BY <1>1, InductiveInvariant, PTL DEF Spec, VariantLeftOnlyWhenCovered

===============================================================================
