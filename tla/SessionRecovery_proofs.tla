------------------------ MODULE SessionRecovery_proofs ------------------------
(***************************************************************************)
(* What holds of the session owner for every reconnect policy, any number  *)
(* of losses and any number of notifications, and that it implements       *)
(* SessionLifecycle.                                                       *)
(*                                                                         *)
(* The invariant says for every place the owner can stand at (pc) which    *)
(* client is open, how far the attempt under way is counted, and that the  *)
(* client being established is newer than all the work installed before.   *)
(***************************************************************************)
EXTENDS SessionRecovery, TLAPS

\* A client is being established.
Trying == {"connect", "wait", "poll"}

\* It has been made, and its announcements are collected.
Collecting == {"wait", "poll"}

Places == {"idle", "connect", "wait", "poll", "retry", "backoff", "live"}
            \cup Returned

JobType == [client : Nat, number : Nat, difficulty : Nat]

StatsType == [attempts : Nat, successes : Nat, failures : Nat, sessions : Nat]

\* TypeOK without the upper bounds that only TLC's state space needs.
Types ==
    /\ policy \in Policies
    /\ pc \in Places
    /\ initial \in BOOLEAN
    /\ attempt \in 0 .. policy.attempts
    /\ stop \in BOOLEAN
    /\ created \in Nat
    /\ open \subseteq 1 .. created
    /\ current \in 0 .. created
    /\ difficulty \in Nat
    /\ selected \in JobType
    /\ stats \in StatsType
    /\ work \in JobType
    /\ losses \in Nat
    /\ messages \in Nat
    /\ usable \in JobType
    /\ created_at_stop \in Nat

\* A client being established is newer than that of any installed work, and
\* what is selected is its newest usable announcement.
FreshInv ==
    /\ work.client <= created
    /\ pc \in Collecting =>
          /\ work.client < created
          /\ selected = usable
          /\ selected # NoJob => selected.client = created /\ selected.difficulty # 0

\* While the first session is being established nothing is counted.
InitialInv ==
    /\ initial => /\ stats = NoStats
                  /\ attempt = 0
                  /\ losses = 0
                  /\ pc \in {"idle", "stopped", "raised", "closed"} \cup Trying
    /\ pc = "idle" => initial

\* The attempts that the losses so far allow, the running recovery's left out.
Earlier == policy.attempts * losses

\* The attempts made, and those of the running recovery that may still follow.
AttemptInv ==
    /\ pc \in {"retry", "backoff"} =>
          attempt # 0 /\ stats.attempts + 1 <= Earlier + attempt
    /\ pc \in Trying => stats.attempts <= Earlier + attempt
    /\ stats.attempts <= Earlier + policy.attempts

\* A connection attempt that passed its last stop check counts as made.
StopInv ==
    stop => created + (IF pc = "connect" THEN 1 ELSE 0) <= created_at_stop

\* Each attempt made became one success or one failure, unless it was cut off.
BalanceInv ==
    /\ stats.attempts - stats.successes - stats.failures
          \in IF pc \in Trying /\ ~initial THEN {1}
             ELSE IF pc \in {"stopped", "raised", "closed"} THEN {0, 1}
             ELSE {0}
    /\ stats.sessions - stats.successes \in {0, 1}

IInv ==
    /\ Types
    /\ OneOpenClient
    /\ FreshInv
    /\ InstalledWorkIsNewest
    /\ InitialInv
    /\ AttemptInv
    /\ BalanceInv
    /\ StopInv

-------------------------------------------------------------------------------

\* What a recoverable failure does to the counters and where it leads.
FailureEffect ==
    /\ stats' \in StatsType
    /\ stats'.attempts = stats.attempts
    /\ stats'.successes = stats.successes
    /\ stats'.sessions = stats.sessions
    /\ stats'.failures = stats.failures + IF initial THEN 0 ELSE 1
    /\ initial' = FALSE
    /\ \/ pc' = "retry" /\ attempt' = attempt + 1
       \/ pc' = "exhausted" /\ attempt' = attempt
    /\ attempt' \in 0 .. policy.attempts

\* A failure is counted unless it ends the first attempt of all, and leads to
\* an attempt the policy allows or to exhaustion.
LEMMA FailureFacts ==
    ASSUME Types, RecoverableFailure
    PROVE  FailureEffect
<1>1. policy.attempts \in Nat
  BY PoliciesAssumption DEF Types
<1>2. CASE initial
  BY <1>1, <1>2
     DEF Types, StatsType, RecoverableFailure, FailureCounted, NextAttempt, FailureEffect
<1>3. CASE ~initial
  <2>1. stats' = [stats EXCEPT !.failures = @ + 1] /\ stats \in StatsType
    BY <1>3 DEF Types, RecoverableFailure, FailureCounted
  <2>2. /\ stats' \in StatsType
        /\ stats'.attempts = stats.attempts
        /\ stats'.successes = stats.successes
        /\ stats'.sessions = stats.sessions
        /\ stats'.failures = stats.failures + 1
    BY <2>1 DEF StatsType
  <2>3. QED
    BY <1>1, <1>3, <2>2 DEF Types, RecoverableFailure, NextAttempt, FailureEffect
<1>4. QED
  BY <1>2, <1>3 DEF Types

\* What an installation does to the counters.
InstallEffect ==
    /\ stats' \in StatsType
    /\ stats'.attempts = stats.attempts
    /\ stats'.failures = stats.failures
    /\ stats'.sessions = stats.sessions + 1
    /\ stats'.successes = stats.successes + IF initial THEN 0 ELSE 1

\* The update of the counters by an installation keeps their shape.
LEMMA InstallTyped ==
    ASSUME NEW c \in StatsType, NEW m \in Nat, NEW n \in Nat
    PROVE  [c EXCEPT !.sessions = m, !.successes = n] \in StatsType
  BY DEF StatsType

\* An installation is one session more, and a success unless it is the first.
LEMMA InstallFacts ==
    ASSUME Types, InstallCounted
    PROVE  InstallEffect
<1>1. CASE initial
  BY <1>1 DEF Types, StatsType, InstallCounted, InstallEffect
<1>2. CASE ~initial
  <2>1. stats' = [stats EXCEPT !.sessions = @ + 1, !.successes = @ + 1] /\ stats \in StatsType
    BY <1>2 DEF Types, InstallCounted
  <2>2. /\ stats'.attempts = stats.attempts
        /\ stats'.failures = stats.failures
        /\ stats'.sessions = stats.sessions + 1
        /\ stats'.successes = stats.successes + 1
    BY <2>1 DEF StatsType
  <2>3. stats.sessions + 1 \in Nat /\ stats.successes + 1 \in Nat
    BY <2>1 DEF StatsType
  <2>4. stats' \in StatsType
    BY <2>1, <2>3, InstallTyped
  <2>5. QED
    BY <1>2, <2>2, <2>4 DEF InstallEffect
<1>3. QED
  BY <1>1, <1>2 DEF Types

\* One more loss allows for one policy's attempts more.
LEMMA Budget ==
    ASSUME NEW p \in Policies, NEW n \in Nat
    PROVE  /\ p.attempts \in Nat
           /\ p.attempts * n \in Nat
           /\ p.attempts * (n + 1) = p.attempts * n + p.attempts
<1>1. p.attempts \in Nat
  BY PoliciesAssumption
<1>2. QED
  BY <1>1

\* Types over a step.
LEMMA TypeStep == Types /\ OneOpenClient /\ FreshInv /\ [Next]_vars => Types'
<1> SUFFICES ASSUME Types, OneOpenClient, FreshInv, [Next]_vars
             PROVE  Types'
  OBVIOUS
<1>a. RecoverableFailure => FailureEffect
  BY FailureFacts
<1>b. InstallCounted => InstallEffect
  BY InstallFacts
<1> USE PoliciesAssumption DEF Types, Places, Returned, JobType, NoJob, establishing, OneOpenClient
<1>1. CASE RequestStop
  BY <1>1 DEF RequestStop
<1>2. CASE EstablishInitial
  BY <1>2 DEF EstablishInitial
<1>3. CASE Handshake
  BY <1>3 DEF Handshake
<1>4. CASE HandshakeFails
  <2>1. /\ initial' \in BOOLEAN
        /\ pc' \in Places
        /\ attempt' \in 0 .. policy'.attempts
        /\ stats' \in StatsType
    BY <1>4, <1>a DEF HandshakeFails, FailureEffect
  <2>2. created' \in Nat /\ open' \subseteq 1 .. created' /\ current' \in 0 .. created'
    BY <1>4 DEF HandshakeFails
  <2>3. QED
    BY <1>4, <2>1, <2>2 DEF HandshakeFails
<1>5. CASE HandshakeRaises
  BY <1>5 DEF HandshakeRaises
<1>6. CASE WaitHead
  BY <1>6 DEF WaitHead
<1>7. CASE \E d \in 1 .. 2 : PollDifficulty(d)
  BY <1>7 DEF PollDifficulty, Heard
<1>8. CASE PollNotify
  BY <1>8 DEF PollNotify, Heard
<1>9. CASE PollNone
  <2>1. CASE RecoverableFailure /\ open' = open \ {created}
    BY <1>9, <2>1, <1>a DEF PollNone, FailureEffect
  <2>2. CASE pc' = "wait" /\ UNCHANGED <<open, stats, attempt, initial>>
    BY <1>9, <2>2 DEF PollNone
  <2>3. QED
    BY <1>9, <2>1, <2>2 DEF PollNone
<1>10. CASE PollDrained
  <2>1. created \in 0 .. created /\ 0 \in 0 .. policy.attempts
    OBVIOUS
  <2>2. stats' \in StatsType
    BY <1>10, <1>b DEF PollDrained, InstallEffect
  <2>3. QED
    BY <1>10, <2>1, <2>2 DEF PollDrained
<1>11. CASE PollFails
  BY <1>11, <1>a DEF PollFails, FailureEffect
<1>12. CASE PollRaises
  BY <1>12 DEF PollRaises
<1>13. CASE RetryHead
  BY <1>13 DEF RetryHead
<1>14. CASE Sleep
  BY <1>14 DEF Sleep
<1>15. CASE BackoffStopped
  BY <1>15 DEF BackoffStopped
<1>16. CASE BackoffOver
  <2>1. stats' \in StatsType
    BY <1>16 DEF BackoffOver, StatsType
  <2>2. QED
    BY <1>16, <2>1 DEF BackoffOver
<1>17. CASE Recover
  BY <1>17 DEF Recover, NextAttempt
<1>18. CASE Close
  BY <1>18 DEF Close
<1>19. CASE UNCHANGED vars
  BY <1>19 DEF vars
<1>20. QED
  BY <1>1, <1>2, <1>3, <1>4, <1>5, <1>6, <1>7, <1>8, <1>9, <1>10, <1>11, <1>12, <1>13, <1>14, <1>15, <1>16, <1>17, <1>18, <1>19 DEF Next, OwnStep, Poll

\* Each way out of a connection attempt closes its client.
LEMMA OpenStep == Types /\ OneOpenClient /\ [Next]_vars => OneOpenClient'
<1> SUFFICES ASSUME Types, OneOpenClient, [Next]_vars
             PROVE  OneOpenClient'
  OBVIOUS
<1> USE DEF Types, Places, Returned, OneOpenClient, establishing
<1>1. CASE RequestStop
  BY <1>1 DEF RequestStop
<1>2. CASE EstablishInitial
  BY <1>2 DEF EstablishInitial
<1>3. CASE Handshake
  BY <1>3 DEF Handshake
<1>4. CASE HandshakeFails
  BY <1>4 DEF HandshakeFails, RecoverableFailure, NextAttempt, FailureCounted
<1>5. CASE HandshakeRaises
  BY <1>5 DEF HandshakeRaises
<1>6. CASE WaitHead
  BY <1>6 DEF WaitHead
<1>7. CASE \E d \in 1 .. 2 : PollDifficulty(d)
  BY <1>7 DEF PollDifficulty, Heard
<1>8. CASE PollNotify
  BY <1>8 DEF PollNotify, Heard
<1>9. CASE PollNone
  BY <1>9 DEF PollNone, RecoverableFailure, NextAttempt, FailureCounted
<1>10. CASE PollDrained
  BY <1>10 DEF PollDrained, InstallCounted
<1>11. CASE PollFails
  BY <1>11 DEF PollFails, RecoverableFailure, NextAttempt, FailureCounted
<1>12. CASE PollRaises
  BY <1>12 DEF PollRaises
<1>13. CASE RetryHead
  BY <1>13 DEF RetryHead
<1>14. CASE Sleep
  BY <1>14 DEF Sleep
<1>15. CASE BackoffStopped
  BY <1>15 DEF BackoffStopped
<1>16. CASE BackoffOver
  BY <1>16 DEF BackoffOver
<1>17. CASE Recover
  BY <1>17 DEF Recover, NextAttempt
<1>18. CASE Close
  BY <1>18 DEF Close
<1>19. CASE UNCHANGED vars
  BY <1>19 DEF vars
<1>20. QED
  BY <1>1, <1>2, <1>3, <1>4, <1>5, <1>6, <1>7, <1>8, <1>9, <1>10, <1>11, <1>12, <1>13, <1>14, <1>15, <1>16, <1>17, <1>18, <1>19 DEF Next, OwnStep, Poll

\* A new client is newer than all work; its announcements are followed.
LEMMA FreshStep == Types /\ OneOpenClient /\ FreshInv /\ [Next]_vars => FreshInv'
<1> SUFFICES ASSUME Types, OneOpenClient, FreshInv, [Next]_vars
             PROVE  FreshInv'
  OBVIOUS
<1> USE DEF Types, Places, Returned, JobType, NoJob, OneOpenClient, FreshInv, Collecting, establishing
<1>1. CASE RequestStop
  BY <1>1 DEF RequestStop
<1>2. CASE EstablishInitial
  BY <1>2 DEF EstablishInitial
<1>3. CASE Handshake
  BY <1>3 DEF Handshake
<1>4. CASE HandshakeFails
  BY <1>4 DEF HandshakeFails, RecoverableFailure, NextAttempt, FailureCounted
<1>5. CASE HandshakeRaises
  BY <1>5 DEF HandshakeRaises
<1>6. CASE WaitHead
  BY <1>6 DEF WaitHead
<1>7. CASE \E d \in 1 .. 2 : PollDifficulty(d)
  BY <1>7 DEF PollDifficulty, Heard
<1>8. CASE PollNotify
  BY <1>8 DEF PollNotify, Heard
<1>9. CASE PollNone
  BY <1>9 DEF PollNone, RecoverableFailure, NextAttempt, FailureCounted
<1>10. CASE PollDrained
  BY <1>10 DEF PollDrained, InstallCounted
<1>11. CASE PollFails
  BY <1>11 DEF PollFails, RecoverableFailure, NextAttempt, FailureCounted
<1>12. CASE PollRaises
  BY <1>12 DEF PollRaises
<1>13. CASE RetryHead
  BY <1>13 DEF RetryHead
<1>14. CASE Sleep
  BY <1>14 DEF Sleep
<1>15. CASE BackoffStopped
  BY <1>15 DEF BackoffStopped
<1>16. CASE BackoffOver
  BY <1>16 DEF BackoffOver
<1>17. CASE Recover
  BY <1>17 DEF Recover, NextAttempt
<1>18. CASE Close
  BY <1>18 DEF Close
<1>19. CASE UNCHANGED vars
  BY <1>19 DEF vars
<1>20. QED
  BY <1>1, <1>2, <1>3, <1>4, <1>5, <1>6, <1>7, <1>8, <1>9, <1>10, <1>11, <1>12, <1>13, <1>14, <1>15, <1>16, <1>17, <1>18, <1>19 DEF Next, OwnStep, Poll

\* The work installed is the newest announced, and stays it.
LEMMA NewestStep == Types /\ OneOpenClient /\ FreshInv /\ InstalledWorkIsNewest /\ [Next]_vars => InstalledWorkIsNewest'
<1> SUFFICES ASSUME Types, OneOpenClient, FreshInv, InstalledWorkIsNewest, [Next]_vars
             PROVE  InstalledWorkIsNewest'
  OBVIOUS
<1> USE DEF Types, Places, Returned, OneOpenClient, FreshInv, Collecting, InstalledWorkIsNewest, establishing
<1>1. CASE RequestStop
  BY <1>1 DEF RequestStop
<1>2. CASE EstablishInitial
  BY <1>2 DEF EstablishInitial
<1>3. CASE Handshake
  BY <1>3 DEF Handshake
<1>4. CASE HandshakeFails
  BY <1>4 DEF HandshakeFails, RecoverableFailure, NextAttempt, FailureCounted
<1>5. CASE HandshakeRaises
  BY <1>5 DEF HandshakeRaises
<1>6. CASE WaitHead
  BY <1>6 DEF WaitHead
<1>7. CASE \E d \in 1 .. 2 : PollDifficulty(d)
  BY <1>7 DEF PollDifficulty, Heard
<1>8. CASE PollNotify
  BY <1>8 DEF PollNotify, Heard
<1>9. CASE PollNone
  BY <1>9 DEF PollNone, RecoverableFailure, NextAttempt, FailureCounted
<1>10. CASE PollDrained
  BY <1>10 DEF PollDrained, InstallCounted
<1>11. CASE PollFails
  BY <1>11 DEF PollFails, RecoverableFailure, NextAttempt, FailureCounted
<1>12. CASE PollRaises
  BY <1>12 DEF PollRaises
<1>13. CASE RetryHead
  BY <1>13 DEF RetryHead
<1>14. CASE Sleep
  BY <1>14 DEF Sleep
<1>15. CASE BackoffStopped
  BY <1>15 DEF BackoffStopped
<1>16. CASE BackoffOver
  BY <1>16 DEF BackoffOver
<1>17. CASE Recover
  BY <1>17 DEF Recover, NextAttempt
<1>18. CASE Close
  BY <1>18 DEF Close
<1>19. CASE UNCHANGED vars
  BY <1>19 DEF vars
<1>20. QED
  BY <1>1, <1>2, <1>3, <1>4, <1>5, <1>6, <1>7, <1>8, <1>9, <1>10, <1>11, <1>12, <1>13, <1>14, <1>15, <1>16, <1>17, <1>18, <1>19 DEF Next, OwnStep, Poll

\* What is counted, is counted after the first session was tried.
LEMMA InitialStep == Types /\ InitialInv /\ [Next]_vars => InitialInv'
<1> SUFFICES ASSUME Types, InitialInv, [Next]_vars
             PROVE  InitialInv'
  OBVIOUS
<1> USE DEF Types, Places, Returned, InitialInv, Trying, establishing
<1>1. CASE RequestStop
  BY <1>1 DEF RequestStop
<1>2. CASE EstablishInitial
  BY <1>2 DEF EstablishInitial
<1>3. CASE Handshake
  BY <1>3 DEF Handshake
<1>4. CASE HandshakeFails
  BY <1>4 DEF HandshakeFails, RecoverableFailure, NextAttempt, FailureCounted
<1>5. CASE HandshakeRaises
  BY <1>5 DEF HandshakeRaises
<1>6. CASE WaitHead
  BY <1>6 DEF WaitHead
<1>7. CASE \E d \in 1 .. 2 : PollDifficulty(d)
  BY <1>7 DEF PollDifficulty, Heard
<1>8. CASE PollNotify
  BY <1>8 DEF PollNotify, Heard
<1>9. CASE PollNone
  BY <1>9 DEF PollNone, RecoverableFailure, NextAttempt, FailureCounted
<1>10. CASE PollDrained
  BY <1>10 DEF PollDrained, InstallCounted
<1>11. CASE PollFails
  BY <1>11 DEF PollFails, RecoverableFailure, NextAttempt, FailureCounted
<1>12. CASE PollRaises
  BY <1>12 DEF PollRaises
<1>13. CASE RetryHead
  BY <1>13 DEF RetryHead
<1>14. CASE Sleep
  BY <1>14 DEF Sleep
<1>15. CASE BackoffStopped
  BY <1>15 DEF BackoffStopped
<1>16. CASE BackoffOver
  BY <1>16 DEF BackoffOver
<1>17. CASE Recover
  BY <1>17 DEF Recover, NextAttempt
<1>18. CASE Close
  BY <1>18 DEF Close
<1>19. CASE UNCHANGED vars
  BY <1>19 DEF vars
<1>20. QED
  BY <1>1, <1>2, <1>3, <1>4, <1>5, <1>6, <1>7, <1>8, <1>9, <1>10, <1>11, <1>12, <1>13, <1>14, <1>15, <1>16, <1>17, <1>18, <1>19 DEF Next, OwnStep, Poll

\* The attempts of each recovery stay within the policy.
LEMMA AttemptStep == Types /\ InitialInv /\ AttemptInv /\ [Next]_vars => AttemptInv'
<1> SUFFICES ASSUME Types, InitialInv, AttemptInv, [Next]_vars
             PROVE  AttemptInv'
  OBVIOUS
<1>0. /\ policy \in Policies /\ losses \in Nat
      /\ policy.attempts \in Nat /\ Earlier \in Nat
  BY Budget DEF Types, Earlier
<1>a. RecoverableFailure => FailureEffect
  BY FailureFacts
<1>b. InstallCounted => InstallEffect
  BY InstallFacts
<1> USE PoliciesAssumption DEF Types, Places, Returned, StatsType, NoStats, InitialInv, AttemptInv, Trying, establishing
<1>c. FailureEffect /\ pc \in Trying /\ UNCHANGED <<policy, losses>> => AttemptInv'
  <2> SUFFICES ASSUME FailureEffect, pc \in Trying, UNCHANGED <<policy, losses>>
               PROVE  AttemptInv'
    OBVIOUS
  <2>1. Earlier' = Earlier
    BY DEF Earlier
  <2>2. QED
    BY <1>0, <2>1 DEF FailureEffect
<1>d. UNCHANGED <<policy, losses>> => Earlier' = Earlier
  BY DEF Earlier
<1>1. CASE RequestStop
  BY <1>1, <1>0, <1>d DEF RequestStop
<1>2. CASE EstablishInitial
  BY <1>2, <1>0, <1>d DEF EstablishInitial
<1>3. CASE Handshake
  BY <1>3, <1>0, <1>d DEF Handshake
<1>4. CASE HandshakeFails
  BY <1>4, <1>a, <1>c DEF HandshakeFails
<1>5. CASE HandshakeRaises
  BY <1>5, <1>0, <1>d DEF HandshakeRaises
<1>6. CASE WaitHead
  BY <1>6, <1>0, <1>d DEF WaitHead
<1>7. CASE \E d \in 1 .. 2 : PollDifficulty(d)
  BY <1>7, <1>0, <1>d DEF PollDifficulty, Heard
<1>8. CASE PollNotify
  BY <1>8, <1>0, <1>d DEF PollNotify, Heard
<1>9. CASE PollNone
  <2>1. CASE RecoverableFailure
    BY <1>9, <2>1, <1>a, <1>c DEF PollNone
  <2>2. CASE pc' = "wait" /\ UNCHANGED <<open, stats, attempt, initial>>
    BY <1>0, <1>9, <1>d, <2>2 DEF PollNone
  <2>3. QED
    BY <1>9, <2>1, <2>2 DEF PollNone
<1>10. CASE PollDrained
  BY <1>10, <1>b, <1>0, <1>d DEF PollDrained, InstallEffect
<1>11. CASE PollFails
  BY <1>11, <1>a, <1>c DEF PollFails
<1>12. CASE PollRaises
  BY <1>12, <1>0, <1>d DEF PollRaises
<1>13. CASE RetryHead
  BY <1>13, <1>0, <1>d DEF RetryHead
<1>14. CASE Sleep
  BY <1>14, <1>0, <1>d DEF Sleep
<1>15. CASE BackoffStopped
  BY <1>15, <1>0, <1>d DEF BackoffStopped
<1>16. CASE BackoffOver
  BY <1>16, <1>0, <1>d DEF BackoffOver
<1>17. CASE Recover
  <2>1. pc = "live" => ~initial
    OBVIOUS
  <2>2. losses' = losses + 1 /\ UNCHANGED <<policy, stats, initial>>
    BY <1>17 DEF Recover
  <2>3. Earlier' = Earlier + policy.attempts
    BY <1>0, <2>2, Budget DEF Earlier
  <2>4. stats.attempts <= Earlier + policy.attempts
    OBVIOUS
  <2>5. pc' = "retry" => attempt' = 1
    BY <1>17 DEF Recover, NextAttempt
  <2>6. pc' \in {"stopped", "retry", "exhausted"}
    BY <1>17 DEF Recover, NextAttempt
  <2>7. QED
    BY <1>0, <2>1, <2>2, <2>3, <2>4, <2>5, <2>6
<1>18. CASE Close
  BY <1>18, <1>0, <1>d DEF Close
<1>19. CASE UNCHANGED vars
  BY <1>19, <1>0, <1>d DEF vars
<1>20. QED
  BY <1>1, <1>2, <1>3, <1>4, <1>5, <1>6, <1>7, <1>8, <1>9, <1>10, <1>11, <1>12, <1>13, <1>14, <1>15, <1>16, <1>17, <1>18, <1>19 DEF Next, OwnStep, Poll

\* Each attempt is counted once, as what it became.
LEMMA BalanceStep == Types /\ InitialInv /\ BalanceInv /\ [Next]_vars => BalanceInv'
<1> SUFFICES ASSUME Types, InitialInv, BalanceInv, [Next]_vars
             PROVE  BalanceInv'
  OBVIOUS
<1>a. RecoverableFailure => FailureEffect
  BY FailureFacts
<1>b. InstallCounted => InstallEffect
  BY InstallFacts
<1> USE DEF Types, Places, Returned, StatsType, NoStats, InitialInv, Trying, BalanceInv, establishing
<1>c. FailureEffect /\ pc \in Trying => BalanceInv'
  <2> SUFFICES ASSUME FailureEffect, pc \in Trying
               PROVE  BalanceInv'
    OBVIOUS
  <2>1. CASE initial
    <3>1. stats.attempts = 0 /\ stats.successes = 0 /\ stats.failures = 0 /\ stats.sessions = 0
      BY <2>1
    <3>2. /\ stats'.attempts = 0 /\ stats'.successes = 0
          /\ stats'.failures = 0 /\ stats'.sessions = 0
          /\ pc' \in {"retry", "exhausted"} /\ ~initial'
      BY <2>1, <3>1 DEF FailureEffect
    <3>3. QED
      BY <3>2
  <2>2. CASE ~initial
    BY <2>2 DEF FailureEffect
  <2>3. QED
    BY <2>1, <2>2
<1>1. CASE RequestStop
  BY <1>1 DEF RequestStop
<1>2. CASE EstablishInitial
  BY <1>2 DEF EstablishInitial
<1>3. CASE Handshake
  BY <1>3 DEF Handshake
<1>4. CASE HandshakeFails
  BY <1>4, <1>a, <1>c DEF HandshakeFails
<1>5. CASE HandshakeRaises
  BY <1>5 DEF HandshakeRaises
<1>6. CASE WaitHead
  BY <1>6 DEF WaitHead
<1>7. CASE \E d \in 1 .. 2 : PollDifficulty(d)
  BY <1>7 DEF PollDifficulty, Heard
<1>8. CASE PollNotify
  BY <1>8 DEF PollNotify, Heard
<1>9. CASE PollNone
  <2>1. CASE RecoverableFailure
    BY <1>9, <2>1, <1>a, <1>c DEF PollNone
  <2>2. CASE pc' = "wait" /\ UNCHANGED <<open, stats, attempt, initial>>
    BY <1>9, <2>2 DEF PollNone
  <2>3. QED
    BY <1>9, <2>1, <2>2 DEF PollNone
<1>10. CASE PollDrained
  BY <1>10, <1>b DEF PollDrained, InstallEffect
<1>11. CASE PollFails
  BY <1>11, <1>a, <1>c DEF PollFails
<1>12. CASE PollRaises
  BY <1>12 DEF PollRaises
<1>13. CASE RetryHead
  BY <1>13 DEF RetryHead
<1>14. CASE Sleep
  BY <1>14 DEF Sleep
<1>15. CASE BackoffStopped
  BY <1>15 DEF BackoffStopped
<1>16. CASE BackoffOver
  BY <1>16 DEF BackoffOver
<1>17. CASE Recover
  BY <1>17 DEF Recover, NextAttempt
<1>18. CASE Close
  BY <1>18 DEF Close
<1>19. CASE UNCHANGED vars
  BY <1>19 DEF vars
<1>20. QED
  BY <1>1, <1>2, <1>3, <1>4, <1>5, <1>6, <1>7, <1>8, <1>9, <1>10, <1>11, <1>12, <1>13, <1>14, <1>15, <1>16, <1>17, <1>18, <1>19 DEF Next, OwnStep, Poll

\* No attempt passes its stop check after the stop.
LEMMA StopStep == Types /\ StopInv /\ [Next]_vars => StopInv'
<1> SUFFICES ASSUME Types, StopInv, [Next]_vars
             PROVE  StopInv'
  OBVIOUS
<1> USE DEF Types, Places, Returned, StopInv, establishing
<1>1. CASE RequestStop
  BY <1>1 DEF RequestStop
<1>2. CASE EstablishInitial
  BY <1>2 DEF EstablishInitial
<1>3. CASE Handshake
  BY <1>3 DEF Handshake
<1>4. CASE HandshakeFails
  BY <1>4 DEF HandshakeFails, RecoverableFailure, NextAttempt, FailureCounted
<1>5. CASE HandshakeRaises
  BY <1>5 DEF HandshakeRaises
<1>6. CASE WaitHead
  BY <1>6 DEF WaitHead
<1>7. CASE \E d \in 1 .. 2 : PollDifficulty(d)
  BY <1>7 DEF PollDifficulty, Heard
<1>8. CASE PollNotify
  BY <1>8 DEF PollNotify, Heard
<1>9. CASE PollNone
  BY <1>9 DEF PollNone, RecoverableFailure, NextAttempt, FailureCounted
<1>10. CASE PollDrained
  BY <1>10 DEF PollDrained, InstallCounted
<1>11. CASE PollFails
  BY <1>11 DEF PollFails, RecoverableFailure, NextAttempt, FailureCounted
<1>12. CASE PollRaises
  BY <1>12 DEF PollRaises
<1>13. CASE RetryHead
  BY <1>13 DEF RetryHead
<1>14. CASE Sleep
  BY <1>14 DEF Sleep
<1>15. CASE BackoffStopped
  BY <1>15 DEF BackoffStopped
<1>16. CASE BackoffOver
  BY <1>16 DEF BackoffOver
<1>17. CASE Recover
  BY <1>17 DEF Recover, NextAttempt
<1>18. CASE Close
  BY <1>18 DEF Close
<1>19. CASE UNCHANGED vars
  BY <1>19 DEF vars
<1>20. QED
  BY <1>1, <1>2, <1>3, <1>4, <1>5, <1>6, <1>7, <1>8, <1>9, <1>10, <1>11, <1>12, <1>13, <1>14, <1>15, <1>16, <1>17, <1>18, <1>19 DEF Next, OwnStep, Poll

\* The invariant holds of every behaviour.
THEOREM InductiveInvariant == Spec => []IInv
<1>1. Init => IInv
  <2> SUFFICES ASSUME Init
               PROVE  IInv
    OBVIOUS
  <2>1. policy.attempts \in Nat /\ policy.attempts * 0 = 0
    BY PoliciesAssumption DEF Init
  <2>2. Types
    <3>1. NoJob \in JobType /\ NoStats \in StatsType
      BY DEF NoJob, JobType, NoStats, StatsType
    <3>2. 0 \in 0 .. policy.attempts
      BY <2>1
    <3>3. /\ policy \in Policies /\ pc = "idle" /\ initial = TRUE /\ attempt = 0
          /\ stop = FALSE /\ created = 0 /\ open = {} /\ current = 0 /\ difficulty = 0
          /\ selected = NoJob /\ stats = NoStats /\ work = NoJob /\ losses = 0
          /\ messages = 0 /\ usable = NoJob /\ created_at_stop = 0
      BY DEF Init
    <3>4. selected \in JobType /\ stats \in StatsType /\ work \in JobType /\ usable \in JobType
      BY <3>1, <3>3
    <3>5. pc \in Places /\ attempt \in 0 .. policy.attempts
      BY <3>2, <3>3 DEF Places
    <3>6. open \subseteq 1 .. created /\ current \in 0 .. created
      BY <3>3
    <3>7. QED
      BY <3>3, <3>4, <3>5, <3>6 DEF Types
  <2>3. OneOpenClient /\ FreshInv /\ InstalledWorkIsNewest
    BY DEF Init, OneOpenClient, FreshInv, Collecting, InstalledWorkIsNewest, NoJob
  <2>4. InitialInv /\ AttemptInv /\ BalanceInv /\ StopInv
    BY <2>1 DEF Init, InitialInv, AttemptInv, Earlier, Trying, BalanceInv, StopInv, NoStats
  <2>5. QED
    BY <2>2, <2>3, <2>4 DEF IInv
<1>2. IInv /\ [Next]_vars => IInv'
  BY TypeStep, OpenStep, FreshStep, NewestStep, InitialStep, AttemptStep, BalanceStep,
     StopStep DEF IInv
<1>3. QED
  BY <1>1, <1>2, PTL DEF Spec

\* Whatever way the owner is left, no connection is left open, at most one is
\* open at any time, and the session installed starts with the newest usable
\* work of its own connection.
THEOREM InstalledSessionSoundHolds == Spec => []InstalledSessionSound
<1>1. IInv => InstalledSessionSound
  BY DEF IInv, InstalledSessionSound
<1>2. QED
  BY <1>1, InductiveInvariant, PTL

\* Every reconnect attempt is accounted for, no loss costs more attempts than
\* the policy has, and no connection is begun after a stop.
THEOREM ConnectionsAccountedHolds == Spec => []ConnectionsAccounted
<1>1. IInv => ConnectionsAccounted
  <2> SUFFICES ASSUME IInv
               PROVE  ConnectionsAccounted
    OBVIOUS
  <2>1. stats.attempts <= policy.attempts * (losses + 1)
    <3>1. policy \in Policies /\ losses \in Nat
      BY DEF IInv, Types
    <3>2. QED
      BY <3>1, Budget DEF IInv, AttemptInv, Earlier
  <2>2. AttemptsAccounted
    BY <2>1 DEF IInv, BalanceInv, Trying, AttemptsAccounted
  <2>3. StopBoundsConnections
    BY DEF IInv, Types, StopInv, StopBoundsConnections
  <2>4. QED
    BY <2>2, <2>3 DEF ConnectionsAccounted
<1>2. QED
  BY <1>1, InductiveInvariant, PTL

-------------------------------------------------------------------------------

\* The owner implements SessionLifecycle: an installation hands over a session
\* on a client newer than any before, a recovery drops it, close ends it all,
\* and no other step is seen.
THEOREM LifecycleHolds == Spec => LifecycleSpec
<1>1. Init => Lifecycle!Init
  BY DEF Init, Lifecycle!Init, NoJob, NoStats
<1>2. IInv /\ [Next]_vars => [Lifecycle!Next]_Lifecycle!lifecycle_vars
  <2> SUFFICES ASSUME IInv, [Next]_vars
               PROVE  [Lifecycle!Next]_Lifecycle!lifecycle_vars
    OBVIOUS
  <2>1. CASE PollDrained
    <3>1. Lifecycle!Install
      BY <2>1, InstallFacts
         DEF PollDrained, InstallEffect, Lifecycle!Install, IInv, Types, JobType, OneOpenClient, FreshInv,
             Collecting
    <3>2. QED
      BY <3>1 DEF Lifecycle!Next
  <2>2. CASE Recover
    <3>1. Lifecycle!Drop
      BY <2>2 DEF Recover, NextAttempt, Lifecycle!Drop, IInv, OneOpenClient
    <3>2. QED
      BY <3>1 DEF Lifecycle!Next
  <2>3. CASE Close
    <3>1. Lifecycle!Close
      BY <2>3 DEF Close, Lifecycle!Close, Returned
    <3>2. QED
      BY <3>1 DEF Lifecycle!Next
  <2>4. CASE HandshakeFails \/ PollFails \/ PollNone
    <3>1. stats'.sessions = stats.sessions
      BY <2>4, FailureFacts DEF HandshakeFails, PollFails, PollNone, FailureEffect, IInv
    <3>2. pc # "closed" /\ pc' # "closed"
      BY <2>4 DEF HandshakeFails, PollFails, PollNone, RecoverableFailure, NextAttempt
    <3>3. UNCHANGED <<current, work>>
      BY <2>4 DEF HandshakeFails, PollFails, PollNone
    <3>4. QED
      BY <3>1, <3>2, <3>3 DEF Lifecycle!lifecycle_vars
  <2>5. CASE BackoffOver
    <3>1. stats'.sessions = stats.sessions
      BY <2>5 DEF BackoffOver, IInv, Types, StatsType
    <3>2. QED
      BY <2>5, <3>1 DEF BackoffOver, Lifecycle!lifecycle_vars
  <2>6. ASSUME UNCHANGED <<current, work, stats>>, pc = "closed" <=> pc' = "closed"
        PROVE  UNCHANGED Lifecycle!lifecycle_vars
    BY <2>6 DEF Lifecycle!lifecycle_vars
  <2>7. CASE \/ RequestStop \/ EstablishInitial \/ Handshake \/ HandshakeRaises \/ WaitHead
             \/ (\E d \in 1 .. 2 : PollDifficulty(d)) \/ PollNotify \/ PollRaises
             \/ RetryHead \/ Sleep \/ BackoffStopped \/ UNCHANGED vars
    BY <2>6, <2>7
       DEF RequestStop, EstablishInitial, Handshake, HandshakeRaises, WaitHead,
           PollDifficulty, PollNotify, Heard, PollRaises, RetryHead, Sleep, BackoffStopped,
           vars, Returned
  <2>8. QED
    BY <2>1, <2>2, <2>3, <2>4, <2>5, <2>7 DEF Next, OwnStep, Poll
<1>3. QED
  BY <1>1, <1>2, InductiveInvariant, PTL DEF Spec, LifecycleSpec, Lifecycle!Spec

===============================================================================
