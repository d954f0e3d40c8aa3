--------------------------- MODULE StratumTransport ---------------------------
(***************************************************************************)
(* network/stratum/transport.py, StratumTransport: newline framing over    *)
(* one TCP socket, with receives bounded by a temporary socket timeout.  A *)
(* message is LineBytes bytes, its newline the last; TCP hands them over   *)
(* in chunks cut anywhere.  Time passes in ticks, only while recv blocks.  *)
(***************************************************************************)
EXTENDS Integers, Sequences, SequencesExt

CONSTANTS
    LineBytes,      \* bytes of a message, its newline included
    ChunkBytes,     \* most bytes one recv returns: 4096 in the program
    DefaultTimeout, \* ticks: the constructor's timeout
    Timeouts,       \* timeout_seconds arguments, in ticks
    MaxLines,       \* bound: messages the peer sends on a connection
    MaxConnections  \* bound: connections opened

ASSUME SizesAssumption ==
    /\ LineBytes \in Nat \ {0} /\ ChunkBytes \in Nat \ {0}
    /\ DefaultTimeout \in Nat \ {0} /\ Timeouts \subseteq Nat
    /\ MaxLines \in Nat /\ MaxConnections \in Nat

None == -1          \* timeout_seconds = None

VARIABLES
    socket,         \* the number of the connection _socket holds, 0 for None
    receive_buffer,
    setting,        \* the socket's timeout
    previous,       \* previous_timeout
    receiving,      \* a receive_message call is in recv
    timeout,        \* its timeout_seconds
    left,           \* ticks until recv times out
    elapsed,        \* ticks since the call began
    wire,           \* bytes in flight from the peer
    ended,          \* the peer closed its side
    opened,         \* environment: connections opened
    sent,           \* environment: messages the peer sent on this connection
    last,           \* history: the message returned last, 0 before any
    failed          \* history: a receive reported a connection failure

vars == <<socket, receive_buffer, setting, previous, receiving, timeout, left,
          elapsed, wire, ended, opened, sent, last, failed>>

timing == <<previous, receiving, timeout, left, elapsed>>

\* A byte knows its message and its place in it.
Line(connection, n) ==
    [i \in 1 .. LineBytes |-> [connection |-> connection, line |-> n, at |-> i]]

IsNewline(byte) == byte.at = LineBytes

HasLine(buffer) == \E i \in DOMAIN buffer : IsNewline(buffer[i])

\* _pop_buffered_line: up to the first newline, and what remains.
Popped(buffer) == SubSeq(buffer, 1, SelectInSeq(buffer, IsNewline))
Remainder(buffer) ==
    SubSeq(buffer, SelectInSeq(buffer, IsNewline) + 1, Len(buffer))

\* The message a popped line decodes to; -1 for anything but a whole message
\* of this connection.
Decoded(line) == IF line = Line(socket, line[1].line) THEN line[1].line ELSE -1

Init ==
    /\ socket = 0
    /\ receive_buffer = <<>>
    /\ setting = DefaultTimeout
    /\ previous = None
    /\ receiving = FALSE
    /\ timeout = None
    /\ left = 0
    /\ elapsed = 0
    /\ wire = <<>>
    /\ ended = FALSE
    /\ opened = 0
    /\ sent = 0
    /\ last = 0
    /\ failed = FALSE

-------------------------------------------------------------------------------
Connect ==
    /\ socket = 0
    /\ opened < MaxConnections
    /\ socket' = opened + 1
    /\ opened' = opened + 1
    /\ setting' = DefaultTimeout
    /\ wire' = <<>>
    /\ ended' = FALSE
    /\ sent' = 0
    /\ last' = 0
    /\ failed' = FALSE
    /\ UNCHANGED <<receive_buffer, timing>>

PeerSends ==
    /\ socket # 0
    /\ ~ended
    /\ sent < MaxLines
    /\ sent' = sent + 1
    /\ wire' = wire \o Line(socket, sent')
    /\ UNCHANGED <<socket, receive_buffer, setting, timing, ended, opened, last,
                   failed>>

PeerCloses ==
    /\ socket # 0
    /\ ~ended
    /\ ended' = TRUE
    /\ UNCHANGED <<socket, receive_buffer, setting, timing, wire, opened, sent,
                   last, failed>>

\* A whole line is buffered: it is returned without touching the socket.
ReceiveBuffered ==
    /\ socket # 0
    /\ ~receiving
    /\ HasLine(receive_buffer)
    /\ last' = Decoded(Popped(receive_buffer))
    /\ receive_buffer' = Remainder(receive_buffer)
    /\ UNCHANGED <<socket, setting, timing, wire, ended, opened, sent, failed>>

\* A bounded receive saves the socket's timeout and sets its own.
ReceiveBegins(t) ==
    /\ socket # 0
    /\ ~receiving
    /\ ~HasLine(receive_buffer)
    /\ receiving' = TRUE
    /\ timeout' = t
    /\ previous' = IF t = None THEN None ELSE setting
    /\ setting' = IF t = None THEN setting ELSE t
    /\ left' = setting'
    /\ elapsed' = 0
    /\ UNCHANGED <<socket, receive_buffer, wire, ended, opened, sent, last, failed>>

\* The finally clause, as the call ends in whatever way.
Restore ==
    /\ receiving' = FALSE
    /\ previous' = None /\ timeout' = None
    /\ left' = 0 /\ elapsed' = 0
    /\ setting' = IF timeout = None THEN setting ELSE previous

\* The call would wait its whole timeout again after every chunk.
RearmWhole ==
    /\ setting' = IF timeout = None THEN setting ELSE timeout
    /\ left' = setting'
    /\ UNCHANGED <<previous, receiving, timeout, elapsed>>

\* What remains of the deadline bounds the next recv.
Rearm ==
    /\ setting' = IF timeout = None THEN setting ELSE timeout - elapsed
    /\ left' = setting'
    /\ UNCHANGED <<previous, receiving, timeout, elapsed>>

\* What arrived is thrown away with the timeout.
KeptNothing(buffer) == <<>>

\* An incomplete line is kept for the next call.
Kept(buffer) == buffer

\* recv returns a chunk: a complete line ends the call, and so does the deadline.
Recv ==
    /\ receiving
    /\ \E k \in 1 .. ChunkBytes :
          /\ k <= Len(wire)
          /\ wire' = SubSeq(wire, k + 1, Len(wire))
          /\ LET buffer == receive_buffer \o SubSeq(wire, 1, k)
             IN  \/ /\ HasLine(buffer)
                    /\ last' = Decoded(Popped(buffer))
                    /\ receive_buffer' = Remainder(buffer)
                    /\ Restore
                 \/ /\ ~HasLine(buffer)
                    /\ timeout # None /\ elapsed >= timeout
                    /\ receive_buffer' = Kept(buffer)
                    /\ Restore
                    /\ UNCHANGED last
                 \/ /\ ~HasLine(buffer)
                    /\ timeout = None \/ elapsed < timeout
                    /\ receive_buffer' = buffer
                    /\ Rearm
                    /\ UNCHANGED last
    /\ UNCHANGED <<socket, ended, opened, sent, failed>>

Tick ==
    /\ receiving
    /\ left > 0
    /\ wire = <<>>
    /\ ~ended
    /\ left' = left - 1
    /\ elapsed' = elapsed + 1
    /\ UNCHANGED <<socket, receive_buffer, setting, previous, receiving, timeout,
                   wire, ended, opened, sent, last, failed>>

\* StratumReceiveTimeoutError; with no timeout_seconds it is the default's.
RecvTimesOut ==
    /\ receiving
    /\ left = 0
    /\ wire = <<>>
    /\ ~ended
    /\ receive_buffer' = Kept(receive_buffer)
    /\ Restore
    /\ UNCHANGED <<socket, wire, ended, opened, sent, last, failed>>

\* StratumConnectionError: an I/O error, or the end of the peer's stream.
RecvFails ==
    /\ receiving
    /\ failed' = TRUE
    /\ Restore
    /\ UNCHANGED <<socket, receive_buffer, wire, ended, opened, sent, last>>

\* The finally clause itself raises, whatever the call was about to end with:
\* a line it had read is lost, and the socket keeps the last timeout set.
RestoreFails ==
    /\ receiving
    /\ timeout # None
    /\ \E k \in 0 .. ChunkBytes :
          LET buffer == receive_buffer \o SubSeq(wire, 1, k)
          IN  /\ k <= Len(wire)
              /\ wire' = SubSeq(wire, k + 1, Len(wire))
              /\ receive_buffer' = IF HasLine(buffer) THEN Remainder(buffer) ELSE buffer
    /\ failed' = TRUE
    /\ receiving' = FALSE
    /\ previous' = None /\ timeout' = None
    /\ left' = 0 /\ elapsed' = 0
    /\ UNCHANGED <<socket, setting, ended, opened, sent, last>>

Close ==
    /\ ~receiving
    /\ socket # 0
    /\ socket' = 0
    /\ receive_buffer' = <<>>
    /\ UNCHANGED <<setting, timing, wire, ended, opened, sent, last, failed>>

-------------------------------------------------------------------------------
Receive == \E t \in Timeouts \cup {None} : ReceiveBegins(t)

Next ==
    \/ Connect \/ PeerSends \/ PeerCloses
    \/ ReceiveBuffered \/ Receive \/ Recv \/ Tick
    \/ RecvTimesOut \/ RecvFails \/ RestoreFails
    \/ Close

Spec == Init /\ [][Next]_vars

-------------------------------------------------------------------------------
\* A receive in progress has its timeouts, and an idle transport none of them.
TypeOK ==
    /\ socket \in 0 .. opened /\ opened \in 0 .. MaxConnections
    /\ \A i \in DOMAIN receive_buffer : receive_buffer[i].connection = socket
    /\ receiving => socket # 0 /\ ~HasLine(receive_buffer)
    /\ timeout \in Timeouts \cup {None}
    /\ previous = None <=> timeout = None
    /\ setting \in Nat /\ left \in 0 .. setting /\ elapsed \in Nat
    /\ last \in 0 .. sent

\* However the bytes of a message trickle in, a bounded receive gives control
\* back when its timeout has passed.
ReceiveBounded == timeout # None => elapsed + left <= timeout

\* ARCHITECTURE.md: the prior timeout is restored "on every outcome" - only a
\* connection failure may leave another one - so no later request inherits the
\* timeout of a poll.
TimeoutRestored == ~receiving /\ ~failed => setting = DefaultTimeout

\* A timeout holds for the receive it was given to, wholly and only.
TimeoutsHonoured == ReceiveBounded /\ TimeoutRestored

\* Messages arrive whole, in order and once, across chunks, timeouts and closes.
Channel == INSTANCE MessageChannel WITH up <- socket # 0
ChannelSpec == Channel!Spec

===============================================================================
