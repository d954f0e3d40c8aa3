----------------------------- MODULE StratumClient -----------------------------
(***************************************************************************)
(* network/stratum/client.py, StratumClient: the handshake, authenticated  *)
(* requests and the notification queue over one message channel (see       *)
(* MessageChannel), and the pool at its other end, which may answer late,  *)
(* twice or not at all and may send notifications, informational messages  *)
(* and garbage whenever it likes.                                          *)
(***************************************************************************)
EXTENDS Integers, Sequences, FiniteSets

CONSTANTS
    PollTimeouts,   \* timeout_seconds of poll_notification, in ticks
    MaxConnections, \* bound: connections opened by one client
    MaxPushes,      \* bound: messages the pool sends unasked, repeats included
    MaxRequests     \* bound: requests the client makes

ASSUME BoundsAssumption ==
    /\ PollTimeouts \subseteq Nat
    /\ MaxConnections \in Nat /\ MaxPushes \in Nat /\ MaxRequests \in Nat

None == -1              \* receive_notification: no timeout at all

VARIABLES
    state,              \* _state
    open,               \* the transport owns a socket
    subscribe_result,   \* connection that answered the subscription, 0 for None
    next_request_id,
    notifications,      \* _notifications
    call,               \* the method that waits for a message, or "none"
    handshaking,        \* handshake() is under way
    request,            \* the request of the call: [id, method, share]
    timeout,            \* timeout_seconds of the poll
    left,               \* ticks until its current receive times out
    waited,             \* ticks since the poll began
    wire,               \* messages on their way from the pool
    unanswered,         \* requests the pool has not answered
    answered,           \* responses it may repeat
    pushes,
    connection,         \* number of the newest connection
    announced,          \* history: notifications sent on it
    polled,             \* history: notifications polls took on it, returned or lost
    shares,             \* history: shares submitted
    verdicts,           \* history: <<share, result>> the pool decided
    credited,           \* history: <<share, result>> submit_share returned
    granted             \* history: connections on which the pool authorized

session == <<state, open, subscribe_result, notifications>>
waiting == <<call, request, timeout, left, waited>>
pool == <<unanswered, answered, pushes, verdicts, granted, announced>>
returned == <<polled, credited>>

vars == <<session, waiting, pool, returned, next_request_id, handshaking, wire,
          connection, shares>>

NoRequest == [id |-> 0, method |-> "none", share |-> 0]

Message(kind, number) == [kind |-> kind, number |-> number, result |-> "none"]
Response(id, result) == [kind |-> "response", number |-> id, result |-> result]

\* A refused subscription or authorization and an error end alike.
Results(method) == IF method = "submit" THEN {"true", "false", "error"}
                   ELSE {"true", "error"}

Init ==
    /\ state = "DISCONNECTED"
    /\ open = FALSE
    /\ subscribe_result = 0
    /\ next_request_id = 1
    /\ notifications = <<>>
    /\ call = "none" /\ handshaking = FALSE /\ request = NoRequest
    /\ timeout = 0 /\ left = 0 /\ waited = 0
    /\ wire = <<>>
    /\ unanswered = {} /\ answered = {} /\ pushes = 0
    /\ connection = 0
    /\ announced = <<>> /\ polled = <<>>
    /\ shares = 0 /\ verdicts = {} /\ credited = {} /\ granted = {}

-------------------------------------------------------------------------------
(* The pool                                                                *)

Push(message) ==
    /\ open
    /\ pushes < MaxPushes
    /\ pushes' = pushes + 1
    /\ wire' = Append(wire, message)
    /\ UNCHANGED <<session, waiting, returned, unanswered, answered, verdicts,
                   granted, next_request_id, handshaking, connection, shares>>

PoolNotifies ==
    LET notification == Message("notify", pushes + 1)
    IN  Push(notification) /\ announced' = Append(announced, notification)

\* Informational methods, garbage, and answers given once more.
PoolDisturbs ==
    /\ \E message \in {Message("informational", 0), Message("garbage", 0)}
                        \cup answered : Push(message)
    /\ UNCHANGED announced

PoolAnswers ==
    /\ open
    /\ \E r \in unanswered : \E result \in Results(r.method) :
          /\ unanswered' = unanswered \ {r}
          /\ answered' = answered \cup {Response(r.id, result)}
          /\ wire' = Append(wire, Response(r.id, result))
          /\ verdicts' = IF r.method = "submit"
                         THEN verdicts \cup {<<r.share, result>>} ELSE verdicts
          /\ granted' = IF r.method = "authorize" /\ result = "true"
                        THEN granted \cup {connection} ELSE granted
    /\ UNCHANGED <<session, waiting, returned, pushes, announced, next_request_id,
                   handshaking, connection, shares>>

-------------------------------------------------------------------------------
(* Ends of a call                                                          *)

CallEnds ==
    /\ call' = "none"
    /\ request' = NoRequest
    /\ timeout' = 0 /\ left' = 0 /\ waited' = 0

\* close: the transport first, then the session's state.
Reset ==
    /\ open' = FALSE
    /\ state' = "DISCONNECTED"
    /\ subscribe_result' = 0
    /\ notifications' = <<>>

\* An exception reaches the caller; handshake() closes before it lets it pass.
Raise ==
    /\ CallEnds
    /\ handshaking' = FALSE
    /\ IF handshaking THEN Reset ELSE UNCHANGED session

Close ==
    /\ call = "none"
    /\ ~handshaking
    /\ state # "DISCONNECTED"
    /\ Reset
    /\ wire' = <<>>
    /\ UNCHANGED <<waiting, pool, returned, next_request_id, handshaking,
                   connection, shares>>

-------------------------------------------------------------------------------
(* connect, subscribe, authorize, submit_share                             *)

\* Alone, or as the first step of handshake(): a fresh connection has no past.
Connect ==
    /\ state = "DISCONNECTED"
    /\ connection < MaxConnections
    /\ open' = TRUE
    /\ state' = "CONNECTED"
    /\ handshaking' \in BOOLEAN
    /\ connection' = connection + 1
    /\ wire' = <<>>
    /\ unanswered' = {} /\ answered' = {}
    /\ announced' = <<>> /\ polled' = <<>>
    /\ UNCHANGED <<waiting, subscribe_result, notifications, next_request_id, pushes,
                   verdicts, granted, shares, credited>>

Methods == {"subscribe", "authorize", "submit"}

Required(method) ==
    CASE method = "subscribe" -> "CONNECTED"
      [] method = "authorize" -> "SUBSCRIBED"
      [] method = "submit" -> "AUTHORIZED"

\* _require_state and _allocate_request_id: an id is never used again, not even
\* on a later connection.
Allocate(method) ==
    /\ call = "none"
    /\ state = Required(method)
    /\ next_request_id <= MaxRequests
    /\ next_request_id' = next_request_id + 1
    /\ shares' = IF method = "submit" THEN shares + 1 ELSE shares

\* The request is sent, and its response waited for.
Request(method) ==
    /\ Allocate(method)
    /\ call' = method
    /\ request' = [id |-> next_request_id, method |-> method,
                   share |-> IF method = "submit" THEN shares' ELSE 0]
    /\ unanswered' = unanswered \cup {request'}
    /\ UNCHANGED <<session, returned, timeout, left, waited, answered, pushes,
                   verdicts, granted, announced, handshaking, wire, connection>>

\* It cannot be built or sent: the id is gone all the same.
RequestNotSent(method) ==
    /\ Allocate(method)
    /\ Raise
    /\ UNCHANGED <<pool, returned, wire, connection>>

Take(kind) ==
    /\ wire # <<>>
    /\ Head(wire).kind = kind
    /\ wire' = Tail(wire)

Enqueue(notification) == notifications' = Append(notifications, notification)

\* _wait_for_response: notifications are queued, informational methods dropped.
WaitQueues ==
    /\ call \in Methods
    /\ \/ Take("notify") /\ Enqueue(Head(wire))
       \/ Take("informational") /\ UNCHANGED notifications
    /\ UNCHANGED <<state, open, subscribe_result, waiting, pool, returned,
                   next_request_id, handshaking, connection, shares>>

\* Any response would be taken for the one waited for.
IsAnyAnswer(message) == message.result # "error"

\* The response of the pending request, without an error.
IsAnswer(message) == message.number = request.id /\ message.result # "error"

Subscribed ==
    /\ call = "subscribe"
    /\ Take("response") /\ IsAnswer(Head(wire))
    /\ subscribe_result' = connection
    /\ state' = "SUBSCRIBED"
    /\ CallEnds
    /\ UNCHANGED <<open, notifications, pool, returned, next_request_id,
                   handshaking, connection, shares>>

Authorized ==
    /\ call = "authorize"
    /\ Take("response") /\ IsAnswer(Head(wire))
    /\ state' = "AUTHORIZED"
    /\ handshaking' = FALSE
    /\ CallEnds
    /\ UNCHANGED <<open, subscribe_result, notifications, pool, returned,
                   next_request_id, connection, shares>>

\* The pool's Boolean answer to the share.
Submitted ==
    /\ call = "submit"
    /\ Take("response") /\ IsAnswer(Head(wire))
    /\ credited' = credited \cup {<<request.share, Head(wire).result>>}
    /\ CallEnds
    /\ UNCHANGED <<session, pool, polled, next_request_id, handshaking,
                   connection, shares>>

\* A foreign or unexpected id, an error, a refusal, or a message of no use.
ResponseRaises ==
    /\ call \in Methods
    /\ \/ Take("garbage")
       \/ Take("response") /\ ~IsAnswer(Head(wire))
    /\ Raise
    /\ UNCHANGED <<pool, returned, next_request_id, connection, shares>>

IsNotification(message) == message.kind = "notify"

\* The receive raises: the transport's timeout, or a lost connection.  With a
\* timeout of its own it may have taken a message before: restoring the socket's
\* timeout failed, and the message is lost with the exception.
ReceiveRaises ==
    /\ call # "none"
    /\ \/ UNCHANGED <<wire, polled>>
       \/ /\ call = "poll" /\ timeout # None
          /\ wire # <<>> /\ wire' = Tail(wire)
          /\ polled' = IF IsNotification(Head(wire)) THEN Append(polled, Head(wire))
                       ELSE polled
    /\ Raise
    /\ UNCHANGED <<pool, credited, next_request_id, connection, shares>>

-------------------------------------------------------------------------------
(* receive_notification and poll_notification                              *)

\* Messages on the wire would be preferred to the queue.
PollBeginsOnWire(t) ==
    /\ call = "none"
    /\ state = "AUTHORIZED"
    /\ call' = "poll"
    /\ timeout' = t /\ left' = t /\ waited' = 0
    /\ UNCHANGED <<session, pool, returned, next_request_id, handshaking, request,
                   wire, connection, shares>>

\* Nothing is queued: the transport is read.
PollBegins(t) ==
    /\ call = "none"
    /\ state = "AUTHORIZED"
    /\ notifications = <<>>
    /\ call' = "poll"
    /\ timeout' = t /\ left' = t /\ waited' = 0
    /\ UNCHANGED <<session, pool, returned, next_request_id, handshaking, request,
                   wire, connection, shares>>

PollQueued ==
    /\ call = "none"
    /\ state = "AUTHORIZED"
    /\ notifications # <<>>
    /\ polled' = Append(polled, Head(notifications))
    /\ notifications' = Tail(notifications)
    /\ UNCHANGED <<state, open, subscribe_result, waiting, pool, credited,
                   next_request_id, handshaking, wire, connection, shares>>

PollDelivers ==
    /\ call = "poll"
    /\ Take("notify")
    /\ polled' = Append(polled, Head(wire))
    /\ CallEnds
    /\ UNCHANGED <<session, pool, credited, next_request_id, handshaking,
                   connection, shares>>

\* An informational method is skipped and the transport read once more, with
\* the whole timeout.
PollSkips ==
    /\ call = "poll"
    /\ Take("informational")
    /\ left' = timeout
    /\ UNCHANGED <<session, call, request, timeout, waited, pool, returned,
                   next_request_id, handshaking, connection, shares>>

\* A response nobody waits for, or a message of no use.
PollRaises ==
    /\ call = "poll"
    /\ Take("response") \/ Take("garbage")
    /\ Raise
    /\ UNCHANGED <<pool, returned, next_request_id, connection, shares>>

PollTick ==
    /\ call = "poll"
    /\ wire = <<>>
    /\ left > 0
    /\ left' = left - 1
    /\ waited' = waited + 1
    /\ UNCHANGED <<session, call, request, timeout, pool, returned,
                   next_request_id, handshaking, wire, connection, shares>>

\* StratumReceiveTimeoutError becomes None.
PollNone ==
    /\ call = "poll"
    /\ wire = <<>>
    /\ left = 0
    /\ CallEnds
    /\ UNCHANGED <<session, pool, returned, next_request_id, handshaking, wire,
                   connection, shares>>

-------------------------------------------------------------------------------
Pool == PoolNotifies \/ PoolDisturbs \/ PoolAnswers

RequestCall ==
    \/ \E method \in Methods : Request(method) \/ RequestNotSent(method)
    \/ WaitQueues \/ Subscribed \/ Authorized \/ Submitted
    \/ ResponseRaises \/ ReceiveRaises

PollCall ==
    \/ \E t \in PollTimeouts \cup {None} : PollBegins(t)
    \/ PollQueued \/ PollDelivers \/ PollSkips \/ PollRaises \/ PollTick \/ PollNone

Next == Pool \/ Connect \/ Close \/ RequestCall \/ PollCall

Spec == Init /\ [][Next]_vars

-------------------------------------------------------------------------------
(* Properties                                                              *)

\* The session's state, its transport and the pool agree: a state other than
\* DISCONNECTED has an open transport, a subscription is the connection's own,
\* and only a pool that said so has authorized it.
SessionConsistent ==
    /\ state # "DISCONNECTED" <=> open
    /\ subscribe_result = IF state \in {"SUBSCRIBED", "AUTHORIZED"}
                          THEN connection ELSE 0
    /\ state = "AUTHORIZED" => connection \in granted

\* The notifications among the messages are the expected ones, in their order.
Carries(messages, expected) ==
    \E at \in [DOMAIN expected -> DOMAIN messages] :
        /\ \A i, j \in DOMAIN expected : i < j => at[i] < at[j]
        /\ \A i \in DOMAIN expected : messages[at[i]] = expected[i]
        /\ \A n \in DOMAIN messages :
              IsNotification(messages[n]) <=> \E i \in DOMAIN expected : at[i] = n

\* A connection's notifications reach the caller once and in the order of their
\* announcement, also those that arrived while a response was waited for or an
\* error was raised, and none is skipped but the one a poll took and then raised
\* because the socket's timeout could not be restored; nothing of an earlier
\* connection is ever queued.
NotificationsInOrder ==
    LET taken == polled \o notifications
    IN  IF open
        THEN /\ Len(taken) <= Len(announced)
             /\ taken = SubSeq(announced, 1, Len(taken))
             /\ Carries(wire, SubSeq(announced, Len(taken) + 1, Len(announced)))
        ELSE notifications = <<>>

\* What submit_share returns is what the pool answered to that very share, also
\* after requests that timed out, failed or were answered late or twice.
ShareGetsOwnVerdict == credited \subseteq verdicts

\* The docstring of poll_notification promises an answer "after a bounded timeout".
PollBounded == call = "poll" /\ timeout # None => waited <= timeout

===============================================================================
