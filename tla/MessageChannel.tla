---------------------------- MODULE MessageChannel ----------------------------
(***************************************************************************)
(* What StratumTransport promises the client: the messages of a connection *)
(* arrive in the order the peer sent them, none twice, and none is skipped *)
(* unless a receive has reported a connection failure.  A timeout changes  *)
(* nothing, and nothing of a closed connection arrives on a later one.     *)
(***************************************************************************)
EXTENDS Integers

VARIABLES
    up,         \* a connection is open
    sent,       \* number of messages the peer sent on it; they are 1, 2, ...
    last,       \* the last of them that was received
    failed      \* a receive on it has reported a connection failure

vars == <<up, sent, last, failed>>

Init == up = FALSE /\ sent = 0 /\ last = 0 /\ failed = FALSE

Open == ~up /\ up' = TRUE /\ sent' = 0 /\ last' = 0 /\ failed' = FALSE

Send == up /\ sent' = sent + 1 /\ UNCHANGED <<up, last, failed>>

Receive ==
    /\ up
    /\ last' \in last + 1 .. sent
    /\ ~failed => last' = last + 1
    /\ UNCHANGED <<up, sent, failed>>

Fail == up /\ failed' = TRUE /\ UNCHANGED <<up, sent, last>>

Close == up' = FALSE /\ UNCHANGED <<sent, last, failed>>

Next == Open \/ Send \/ Receive \/ Fail \/ Close

Spec == Init /\ [][Next]_vars

===============================================================================
