----------------------- MODULE StratumTransport_proofs ------------------------
(***************************************************************************)
(* What holds of the transport for every line and chunk size, all timeouts *)
(* and any number of messages and connections, and that it implements      *)
(* MessageChannel.                                                         *)
(*                                                                         *)
(* The second rests on one fact about the bytes between peer and client:   *)
(* the buffered ones and those on the wire, one after the other, are whole *)
(* messages up to the last one sent, so that the buffer always starts      *)
(* where a message does.                                                   *)
(***************************************************************************)
EXTENDS StratumTransport, SequenceTheorems, TLAPS

-------------------------------------------------------------------------------
(* Timeouts                                                                *)

TimeTypes ==
    /\ receiving \in BOOLEAN /\ failed \in BOOLEAN
    /\ timeout \in Timeouts \cup {None}
    /\ previous \in Nat \cup {None}
    /\ setting \in Nat /\ left \in Nat /\ elapsed \in Nat

\* What a receive in progress will put back, and what an idle transport has.
SavedInv ==
    /\ receiving => socket # 0
    /\ ~receiving => timeout = None
    /\ timeout # None => previous \in Nat
    /\ ~failed /\ timeout # None => previous = DefaultTimeout
    /\ ~failed /\ timeout = None => setting = DefaultTimeout

TimeInv == TimeTypes /\ SavedInv /\ ReceiveBounded

\* However the call ends, the finally clause leaves an idle transport.
LEMMA RestoreFacts ==
    ASSUME TimeInv, Restore
    PROVE  /\ receiving' = FALSE /\ timeout' = None /\ previous' = None
           /\ left' = 0 /\ elapsed' = 0
           /\ setting' \in Nat
           /\ ~failed => setting' = DefaultTimeout
<1>1. CASE timeout = None
  BY <1>1 DEF TimeInv, TimeTypes, SavedInv, Restore
<1>2. CASE timeout # None
  BY <1>2 DEF TimeInv, TimeTypes, SavedInv, Restore
<1>3. QED
  BY <1>1, <1>2

\* After a chunk the next recv has what remains of the timeout.
LEMMA RearmFacts ==
    ASSUME TimeInv, Rearm, timeout = None \/ elapsed < timeout
    PROVE  /\ setting' \in Nat /\ left' = setting'
           /\ timeout = None => setting' = setting
           /\ timeout # None => elapsed + left' = timeout
<1>1. CASE timeout = None
  BY <1>1 DEF TimeInv, TimeTypes, Rearm
<1>2. CASE timeout # None
  <2>1. timeout \in Nat /\ elapsed < timeout
    BY <1>2, SizesAssumption DEF TimeInv, TimeTypes
  <2>2. QED
    BY <1>2, <2>1 DEF TimeInv, TimeTypes, Rearm
<1>3. QED
  BY <1>1, <1>2

\* Every step keeps the timeouts in order.
LEMMA TimeStep == TimeInv /\ [Next]_vars => TimeInv'
<1> SUFFICES ASSUME TimeInv, [Next]_vars
             PROVE  TimeInv'
  OBVIOUS
<1>0. /\ Timeouts \subseteq Nat /\ DefaultTimeout \in Nat
      /\ None = -1 /\ None \notin Nat
  BY SizesAssumption DEF None
<1>a. ASSUME Restore, UNCHANGED socket, failed' = failed \/ failed' = TRUE
      PROVE  TimeInv'
  <2>1. /\ receiving' = FALSE /\ timeout' = None /\ previous' = None
        /\ left' = 0 /\ elapsed' = 0 /\ setting' \in Nat
        /\ ~failed => setting' = DefaultTimeout
    BY <1>a, RestoreFacts
  <2>2. failed' \in BOOLEAN /\ (~failed' => ~failed)
    <3>1. failed \in BOOLEAN
      BY DEF TimeInv, TimeTypes
    <3>2. CASE failed' = failed
      BY <3>1, <3>2
    <3>3. CASE failed' = TRUE
      BY <3>3
    <3>4. QED
      BY <1>a, <3>2, <3>3
  <2>3. QED
    BY <1>0, <2>1, <2>2 DEF TimeInv, TimeTypes, SavedInv, ReceiveBounded
<1>b. ASSUME UNCHANGED <<setting, timing, failed>>, receiving => socket' # 0
      PROVE  TimeInv'
  BY <1>b DEF TimeInv, TimeTypes, SavedInv, ReceiveBounded, timing
<1>1. CASE Connect
  BY <1>0, <1>1 DEF Connect, timing, TimeInv, TimeTypes, SavedInv, ReceiveBounded
<1>2. CASE PeerSends
  BY <1>2, <1>b DEF PeerSends
<1>3. CASE PeerCloses
  BY <1>3, <1>b DEF PeerCloses
<1>4. CASE ReceiveBuffered
  BY <1>4, <1>b DEF ReceiveBuffered
<1>5. ASSUME NEW t \in Timeouts \cup {None}, ReceiveBegins(t)
      PROVE  TimeInv'
  <2>1. CASE t = None
    BY <1>0, <1>5, <2>1 DEF ReceiveBegins, TimeInv, TimeTypes, SavedInv, ReceiveBounded
  <2>2. CASE t # None
    BY <1>0, <1>5, <2>2 DEF ReceiveBegins, TimeInv, TimeTypes, SavedInv, ReceiveBounded
  <2>3. QED
    BY <2>1, <2>2
<1>6. CASE Recv
  <2>1. CASE Restore
    BY <1>6, <1>a, <2>1 DEF Recv
  <2>2. CASE Rearm /\ (timeout = None \/ elapsed < timeout)
    BY <1>0, <1>6, <2>2, RearmFacts
       DEF Recv, Rearm, TimeInv, TimeTypes, SavedInv, ReceiveBounded
  <2>3. QED
    BY <1>6, <2>1, <2>2 DEF Recv
<1>7. CASE Tick
  BY <1>0, <1>7 DEF Tick, TimeInv, TimeTypes, SavedInv, ReceiveBounded
<1>8. CASE RecvTimesOut
  BY <1>8, <1>a DEF RecvTimesOut
<1>9. CASE RecvFails
  BY <1>9, <1>a DEF RecvFails
<1>10. CASE RestoreFails
  BY <1>0, <1>10 DEF RestoreFails, TimeInv, TimeTypes, SavedInv, ReceiveBounded
<1>11. CASE Close
  BY <1>11, <1>b DEF Close, timing
<1>12. CASE UNCHANGED vars
  BY <1>12, <1>b DEF vars, timing, TimeInv, SavedInv
<1>13. QED
  BY <1>1, <1>2, <1>3, <1>4, <1>5, <1>6, <1>7, <1>8, <1>9, <1>10, <1>11, <1>12
     DEF Next, Receive

\* A transport that was not connected yet has the default timeout.
LEMMA TimeInit == Init => TimeInv
<1>1. DefaultTimeout \in Nat /\ None \in Timeouts \cup {None} /\ None \in Nat \cup {None}
  BY SizesAssumption
<1>2. Init => TimeTypes
  <2>1. Init => receiving \in BOOLEAN /\ failed \in BOOLEAN
    BY DEF Init
  <2>2. Init => timeout = None /\ previous = None
    BY DEF Init
  <2>3. Init => setting \in Nat /\ left \in Nat /\ elapsed \in Nat
    BY <1>1 DEF Init
  <2>4. QED
    BY <1>1, <2>1, <2>2, <2>3 DEF TimeTypes
<1>3. Init => SavedInv /\ ReceiveBounded
  BY <1>1 DEF Init, SavedInv, ReceiveBounded
<1>4. QED
  BY <1>2, <1>3 DEF TimeInv

\* A bounded receive is over when its timeout has passed, and unless a
\* connection failure was reported it leaves the socket's timeout as it was.
THEOREM TimeoutsHonouredHolds == Spec => []TimeoutsHonoured
<1>1. Init => TimeInv
  BY TimeInit
<1>2. TimeInv => TimeoutsHonoured
  BY DEF TimeInv, TimeTypes, SavedInv, TimeoutsHonoured, TimeoutRestored
<1>3. QED
  BY <1>1, <1>2, TimeStep, PTL DEF Spec

-------------------------------------------------------------------------------
(* Messages                                                                *)

Bytes == [connection : Nat, line : Nat, at : 1 .. LineBytes]

\* The byte in place p of all that the messages of a connection consist of.
IsByte(byte, c, p) ==
    /\ byte \in Bytes
    /\ byte.connection = c
    /\ byte.line > 0
    /\ (byte.line - 1) * LineBytes + byte.at = p

\* The buffer and the stream behind it are the messages b + 1 to n.
Frame(c, buffer, stream, b, n) ==
    /\ buffer \in Seq(Bytes) /\ stream \in Seq(Bytes)
    /\ b * LineBytes + Len(buffer) + Len(stream) = n * LineBytes
    /\ \A i \in 1 .. Len(buffer) : IsByte(buffer[i], c, b * LineBytes + i)
    /\ \A i \in 1 .. Len(stream) :
          IsByte(stream[i], c, b * LineBytes + Len(buffer) + i)

\* A place belongs to one byte of one message.
LEMMA PlaceUnique ==
    ASSUME NEW l \in Nat, NEW m \in Nat, NEW i \in 1 .. LineBytes, NEW j \in 1 .. LineBytes,
           l * LineBytes + i = m * LineBytes + j
    PROVE  l = m /\ i = j
<1>1. LineBytes \in Nat /\ LineBytes > 0
  BY SizesAssumption
<1>2. \A x, y \in Nat : x < y => x * LineBytes + LineBytes <= y * LineBytes
  <2> SUFFICES ASSUME NEW x \in Nat, NEW y \in Nat, x < y
               PROVE  x * LineBytes + LineBytes <= y * LineBytes
    OBVIOUS
  <2>1. PICK d \in Nat : y = x + 1 + d
    <3>1. y - x - 1 \in Nat /\ y = x + 1 + (y - x - 1)
      OBVIOUS
    <3>2. QED
      BY <3>1
  <2>2. y * LineBytes = x * LineBytes + LineBytes + d * LineBytes
    BY <1>1, <2>1
  <2>3. d * LineBytes \in Nat /\ x * LineBytes \in Nat
    BY <1>1
  <2>4. QED
    BY <1>1, <2>2, <2>3
<1>3. l * LineBytes \in Nat /\ m * LineBytes \in Nat
  BY <1>1
<1>4. l = m
  <2>1. ~(l < m)
    BY <1>1, <1>2, <1>3
  <2>2. ~(m < l)
    BY <1>1, <1>2, <1>3
  <2>3. QED
    BY <2>1, <2>2
<1>5. QED
  BY <1>3, <1>4

\* The least element of a set of numbers.
LEMMA MinIs ==
    ASSUME NEW S \in SUBSET Int, NEW x \in S, \A y \in S : x <= y
    PROVE  Min(S) = x
<1>1. \A z \in S : (\A y \in S : z <= y) => z = x
  OBVIOUS
<1>2. QED
  BY <1>1 DEF Min

\* The two parts of a concatenation, by index.
LEMMA Parts ==
    ASSUME NEW S, NEW s \in Seq(S), NEW t \in Seq(S)
    PROVE  /\ s \o t \in Seq(S)
           /\ Len(s \o t) = Len(s) + Len(t)
           /\ \A i \in 1 .. Len(s) : (s \o t)[i] = s[i]
           /\ \A i \in 1 .. Len(t) : (s \o t)[Len(s) + i] = t[i]
<1>1. \A i \in 1 .. Len(t) : (s \o t)[Len(s) + i] = t[i]
  <2> SUFFICES ASSUME NEW i \in 1 .. Len(t)
               PROVE  (s \o t)[Len(s) + i] = t[i]
    OBVIOUS
  <2>1. Len(s) + i \in Len(s) + 1 .. Len(s) + Len(t) /\ (Len(s) + i) - Len(s) = i
    BY LenProperties
  <2>2. QED
    BY <2>1, ConcatProperties
<1>2. QED
  BY <1>1, ConcatProperties

\* What is left of a sequence without its first elements, by index.
LEMMA Dropped ==
    ASSUME NEW S, NEW s \in Seq(S), NEW k \in 0 .. Len(s)
    PROVE  /\ SubSeq(s, k + 1, Len(s)) \in Seq(S)
           /\ Len(SubSeq(s, k + 1, Len(s))) = Len(s) - k
           /\ \A i \in 1 .. Len(s) - k : SubSeq(s, k + 1, Len(s))[i] = s[k + i]
<1>1. \A i \in k + 1 .. Len(s) : s[i] \in S
  OBVIOUS
<1>2. QED
  BY <1>1, SubSeqProperties

\* A message is as long as its bytes are many.
LEMMA LineFacts ==
    ASSUME NEW c \in Nat, NEW l \in Nat
    PROVE  /\ Line(c, l) \in Seq(Bytes)
           /\ Len(Line(c, l)) = LineBytes
           /\ \A i \in 1 .. LineBytes :
                 Line(c, l)[i] = [connection |-> c, line |-> l, at |-> i]
<1>1. \A i \in 1 .. LineBytes : [connection |-> c, line |-> l, at |-> i] \in Bytes
  BY DEF Bytes
<1>2. LineBytes \in Nat
  BY SizesAssumption
<1>3. QED
  BY <1>1, <1>2 DEF Line

\* Bytes taken from the wire are only moved.
LEMMA Taken ==
    ASSUME NEW c \in Nat, NEW b \in Nat, NEW n \in Nat, NEW buffer, NEW stream,
           Frame(c, buffer, stream, b, n), NEW k \in 0 .. Len(stream)
    PROVE  Frame(c, buffer \o SubSeq(stream, 1, k),
                 SubSeq(stream, k + 1, Len(stream)), b, n)
<1> DEFINE head == SubSeq(stream, 1, k)
           rest == SubSeq(stream, k + 1, Len(stream))
<1>1. /\ buffer \in Seq(Bytes) /\ stream \in Seq(Bytes)
      /\ Len(buffer) \in Nat /\ Len(stream) \in Nat
  BY DEF Frame
<1>2. \A i \in 1 .. Len(stream) : stream[i] \in Bytes
  BY <1>1
<1>3. /\ head \in Seq(Bytes) /\ Len(head) = k
      /\ \A i \in 1 .. k : head[i] = stream[i]
  BY <1>1, <1>2, SubSeqProperties
<1>4. /\ rest \in Seq(Bytes) /\ Len(rest) = Len(stream) - k
      /\ \A i \in 1 .. Len(stream) - k : rest[i] = stream[k + i]
  BY <1>1, Dropped
<1>5. /\ buffer \o head \in Seq(Bytes) /\ Len(buffer \o head) = Len(buffer) + k
      /\ \A i \in 1 .. Len(buffer) : (buffer \o head)[i] = buffer[i]
      /\ \A i \in 1 .. k : (buffer \o head)[Len(buffer) + i] = stream[i]
  BY <1>1, <1>3, Parts
<1>6. b * LineBytes \in Nat /\ n * LineBytes \in Nat
  BY SizesAssumption
<1>7. \A i \in 1 .. Len(buffer) + k : IsByte((buffer \o head)[i], c, b * LineBytes + i)
  <2> SUFFICES ASSUME NEW i \in 1 .. Len(buffer) + k
               PROVE  IsByte((buffer \o head)[i], c, b * LineBytes + i)
    OBVIOUS
  <2>1. CASE i <= Len(buffer)
    BY <1>1, <1>5, <2>1 DEF Frame
  <2>2. CASE i > Len(buffer)
    <3>1. PICK j \in 1 .. k : i = Len(buffer) + j
      <4>1. i - Len(buffer) \in 1 .. k /\ i = Len(buffer) + (i - Len(buffer))
        BY <1>1, <2>2
      <4>2. QED
        BY <4>1
    <3>2. (buffer \o head)[i] = stream[j] /\ j \in 1 .. Len(stream)
      BY <1>1, <1>5, <3>1
    <3>3. b * LineBytes + i = b * LineBytes + Len(buffer) + j
      BY <1>1, <1>6, <3>1
    <3>4. QED
      BY <3>2, <3>3 DEF Frame
  <2>3. QED
    BY <1>1, <2>1, <2>2
<1>8. \A i \in 1 .. Len(stream) - k :
         IsByte(rest[i], c, b * LineBytes + (Len(buffer) + k) + i)
  <2> SUFFICES ASSUME NEW i \in 1 .. Len(stream) - k
               PROVE  IsByte(rest[i], c, b * LineBytes + (Len(buffer) + k) + i)
    OBVIOUS
  <2>1. rest[i] = stream[k + i] /\ k + i \in 1 .. Len(stream)
    BY <1>1, <1>4
  <2>2. b * LineBytes + (Len(buffer) + k) + i = b * LineBytes + Len(buffer) + (k + i)
    BY <1>1, <1>6
  <2>3. QED
    BY <2>1, <2>2 DEF Frame
<1>9. b * LineBytes + (Len(buffer) + k) + (Len(stream) - k) = n * LineBytes
  BY <1>1, <1>6 DEF Frame
<1>10. QED
  BY <1>4, <1>5, <1>7, <1>8, <1>9 DEF Frame

\* A message more from the peer.
LEMMA Sent ==
    ASSUME NEW c \in Nat, NEW b \in Nat, NEW n \in Nat, NEW buffer, NEW stream,
           Frame(c, buffer, stream, b, n)
    PROVE  Frame(c, buffer, stream \o Line(c, n + 1), b, n + 1)
<1> DEFINE more == Line(c, n + 1)
<1>1. /\ buffer \in Seq(Bytes) /\ stream \in Seq(Bytes)
      /\ Len(buffer) \in Nat /\ Len(stream) \in Nat
      /\ LineBytes \in Nat /\ b * LineBytes \in Nat /\ n * LineBytes \in Nat
  BY SizesAssumption DEF Frame
<1>2. /\ more \in Seq(Bytes) /\ Len(more) = LineBytes
      /\ \A i \in 1 .. LineBytes :
            more[i] = [connection |-> c, line |-> n + 1, at |-> i]
  <2>1. n + 1 \in Nat
    OBVIOUS
  <2>2. QED
    BY <2>1, LineFacts
<1> HIDE DEF more
<1>3. \A i \in 1 .. LineBytes : IsByte(more[i], c, n * LineBytes + i)
  <2> SUFFICES ASSUME NEW i \in 1 .. LineBytes
               PROVE  IsByte(more[i], c, n * LineBytes + i)
    OBVIOUS
  <2>1. more[i] = [connection |-> c, line |-> n + 1, at |-> i]
    BY <1>2
  <2>2. /\ more[i] \in Bytes /\ more[i].connection = c
        /\ more[i].line = n + 1 /\ more[i].at = i
    BY <2>1 DEF Bytes
  <2>3. more[i].line > 0 /\ more[i].line - 1 = n
    BY <2>2
  <2>4. QED
    BY <1>1, <2>2, <2>3 DEF IsByte
<1>4. /\ stream \o more \in Seq(Bytes) /\ Len(stream \o more) = Len(stream) + LineBytes
      /\ \A i \in 1 .. Len(stream) : (stream \o more)[i] = stream[i]
      /\ \A i \in 1 .. LineBytes : (stream \o more)[Len(stream) + i] = more[i]
  <2>1. stream \in Seq(Bytes) /\ more \in Seq(Bytes)
    BY <1>1, <1>2
  <2>2. /\ stream \o more \in Seq(Bytes) /\ Len(stream \o more) = Len(stream) + Len(more)
        /\ \A i \in 1 .. Len(stream) : (stream \o more)[i] = stream[i]
        /\ \A i \in 1 .. Len(more) : (stream \o more)[Len(stream) + i] = more[i]
    BY <2>1, Parts
  <2>3. Len(more) = LineBytes
    BY <1>2
  <2>4. QED
    BY <2>2, <2>3, Zenon
<1>5. (n + 1) * LineBytes = n * LineBytes + LineBytes
  BY <1>1
<1>6. b * LineBytes + Len(buffer) + Len(stream) = n * LineBytes
  BY DEF Frame
<1>7. \A i \in 1 .. Len(stream) + LineBytes :
         IsByte((stream \o more)[i], c, b * LineBytes + Len(buffer) + i)
  <2> SUFFICES ASSUME NEW i \in 1 .. Len(stream) + LineBytes
               PROVE  IsByte((stream \o more)[i], c, b * LineBytes + Len(buffer) + i)
    OBVIOUS
  <2>1. CASE i <= Len(stream)
    BY <1>1, <1>4, <2>1 DEF Frame
  <2>2. CASE i > Len(stream)
    <3>1. PICK j \in 1 .. LineBytes : i = Len(stream) + j
      <4>1. i - Len(stream) \in 1 .. LineBytes /\ i = Len(stream) + (i - Len(stream))
        BY <1>1, <2>2
      <4>2. QED
        BY <4>1
    <3>2. (stream \o more)[i] = more[j]
      BY <1>4, <3>1
    <3>3. b * LineBytes + Len(buffer) + i = n * LineBytes + j
      BY <1>1, <1>6, <3>1
    <3>4. QED
      BY <1>3, <3>2, <3>3
  <2>3. i <= Len(stream) \/ i > Len(stream)
    BY <1>1
  <2>4. QED
    BY <2>1, <2>2, <2>3
<1>8. b * LineBytes + Len(buffer) + (Len(stream) + LineBytes) = (n + 1) * LineBytes
  BY <1>1, <1>5, <1>6
<1>9. QED
  BY <1>1, <1>4, <1>7, <1>8 DEF Frame, more

\* A line popped off the buffer is the next message, whole, and the buffer
\* then starts with the one after it.
LEMMA NextLine ==
    ASSUME NEW c \in Nat, NEW b \in Nat, NEW n \in Nat, NEW buffer, NEW stream,
           Frame(c, buffer, stream, b, n), HasLine(buffer)
    PROVE  /\ Popped(buffer) = Line(c, b + 1)
           /\ b + 1 <= n
           /\ Frame(c, Remainder(buffer), stream, b + 1, n)
<1>1. /\ buffer \in Seq(Bytes) /\ stream \in Seq(Bytes)
      /\ Len(buffer) \in Nat /\ Len(stream) \in Nat
      /\ LineBytes \in Nat /\ LineBytes > 0
      /\ b * LineBytes \in Nat /\ n * LineBytes \in Nat
      /\ (b + 1) * LineBytes = b * LineBytes + LineBytes
      /\ DOMAIN buffer = 1 .. Len(buffer)
  BY SizesAssumption DEF Frame
\* No newline comes before place LineBytes.
<1>2. ASSUME NEW i \in 1 .. Len(buffer)
      PROVE  /\ buffer[i] \in Bytes /\ buffer[i].connection = c
             /\ i < LineBytes => buffer[i].line = b + 1 /\ buffer[i].at = i
             /\ i = LineBytes => buffer[i].line = b + 1 /\ buffer[i].at = i
  <2>1. IsByte(buffer[i], c, b * LineBytes + i)
    BY DEF Frame
  <2>2. /\ buffer[i] \in Bytes /\ buffer[i].line - 1 \in Nat /\ buffer[i].at \in 1 .. LineBytes
        /\ buffer[i].connection = c
    BY <2>1 DEF IsByte, Bytes
  <2>3. CASE i <= LineBytes
    <3>1. i \in 1 .. LineBytes
      BY <1>1, <2>3
    <3>2. buffer[i].line - 1 = b /\ buffer[i].at = i
      BY <2>1, <2>2, <3>1, PlaceUnique DEF IsByte
    <3>3. buffer[i].line = b + 1
      BY <2>1, <3>2 DEF IsByte, Bytes
    <3>4. QED
      BY <2>2, <3>2, <3>3
  <2>4. CASE i > LineBytes
    BY <1>1, <2>2, <2>4
  <2>5. QED
    BY <1>1, <2>3, <2>4
<1>3. LineBytes \in 1 .. Len(buffer)
  <2>1. PICK i \in 1 .. Len(buffer) : IsNewline(buffer[i])
    BY <1>1 DEF HasLine
  <2>2. ~(i < LineBytes)
    BY <1>1, <1>2, <2>1 DEF IsNewline
  <2>3. QED
    BY <1>1, <2>2
<1>4. SelectInSeq(buffer, IsNewline) = LineBytes
  <2> DEFINE I == {i \in 1 .. Len(buffer) : IsNewline(buffer[i])}
  <2>1. LineBytes \in I
    BY <1>1, <1>2, <1>3 DEF IsNewline
  <2>2. \A y \in I : LineBytes <= y
    BY <1>1, <1>2 DEF IsNewline
  <2>3. I \in SUBSET Int
    OBVIOUS
  <2>4. Min(I) = LineBytes
    BY <2>1, <2>2, <2>3, MinIs, Zenon
  <2>5. QED
    BY <2>1, <2>4, Zenon DEF SelectInSeq
<1>5. Popped(buffer) = Line(c, b + 1)
  <2>1. /\ SubSeq(buffer, 1, LineBytes) \in Seq(Bytes)
        /\ Len(SubSeq(buffer, 1, LineBytes)) = LineBytes
        /\ \A i \in 1 .. LineBytes : SubSeq(buffer, 1, LineBytes)[i] = buffer[i]
    BY <1>1, <1>3, SubSeqProperties
  <2>2. \A i \in 1 .. LineBytes :
           SubSeq(buffer, 1, LineBytes)[i] = [connection |-> c, line |-> b + 1, at |-> i]
    <3> SUFFICES ASSUME NEW i \in 1 .. LineBytes
                 PROVE  buffer[i] = [connection |-> c, line |-> b + 1, at |-> i]
      BY <2>1
    <3>1. i \in 1 .. Len(buffer)
      BY <1>1, <1>3
    <3>2. /\ buffer[i] \in Bytes /\ buffer[i].connection = c
          /\ buffer[i].line = b + 1 /\ buffer[i].at = i
      BY <1>1, <1>2, <3>1
    <3>3. QED
      BY <3>2 DEF Bytes
  <2>3. /\ Line(c, b + 1) \in Seq(Bytes)
        /\ Len(Line(c, b + 1)) = LineBytes
        /\ \A i \in 1 .. LineBytes :
              Line(c, b + 1)[i] = [connection |-> c, line |-> b + 1, at |-> i]
    BY LineFacts
  <2>4. SubSeq(buffer, 1, LineBytes) = Line(c, b + 1)
    <3>1. \A i \in 1 .. LineBytes : SubSeq(buffer, 1, LineBytes)[i] = Line(c, b + 1)[i]
      BY <2>2, <2>3, Zenon
    <3>2. Len(SubSeq(buffer, 1, LineBytes)) = Len(Line(c, b + 1))
      BY <2>1, <2>3, Zenon
    <3>3. QED
      BY <2>1, <2>3, <3>1, <3>2, SeqEqual, Zenon
  <2>5. QED
    BY <1>4, <2>4 DEF Popped
<1>6. b + 1 <= n
  <2>1. b * LineBytes + Len(buffer) + Len(stream) = n * LineBytes
    BY DEF Frame
  <2>2. (b + 1) * LineBytes <= n * LineBytes
    BY <1>1, <1>3, <2>1
  <2>3. QED
    BY <1>1, <2>2
<1>7. Frame(c, Remainder(buffer), stream, b + 1, n)
  <2> DEFINE rest == SubSeq(buffer, LineBytes + 1, Len(buffer))
  <2>1. /\ rest \in Seq(Bytes) /\ Len(rest) = Len(buffer) - LineBytes
        /\ \A i \in 1 .. Len(buffer) - LineBytes : rest[i] = buffer[LineBytes + i]
    <3>1. LineBytes \in 0 .. Len(buffer)
      BY <1>3
    <3>2. QED
      BY <1>1, <3>1, Dropped
  <2> HIDE DEF rest
  <2>2. \A i \in 1 .. Len(buffer) - LineBytes :
           IsByte(rest[i], c, (b + 1) * LineBytes + i)
    <3> SUFFICES ASSUME NEW i \in 1 .. Len(buffer) - LineBytes
                 PROVE  IsByte(rest[i], c, (b + 1) * LineBytes + i)
      OBVIOUS
    <3>1. rest[i] = buffer[LineBytes + i]
      BY <2>1
    <3>2. LineBytes + i \in 1 .. Len(buffer)
      BY <1>1
    <3>3. (b + 1) * LineBytes + i = b * LineBytes + (LineBytes + i)
      BY <1>1
    <3>4. QED
      BY <3>1, <3>2, <3>3 DEF Frame
  <2>3. \A i \in 1 .. Len(stream) :
           IsByte(stream[i], c, (b + 1) * LineBytes + (Len(buffer) - LineBytes) + i)
    <3> SUFFICES ASSUME NEW i \in 1 .. Len(stream)
                 PROVE  IsByte(stream[i], c, (b + 1) * LineBytes + (Len(buffer) - LineBytes) + i)
      OBVIOUS
    <3>1. (b + 1) * LineBytes + (Len(buffer) - LineBytes) + i = b * LineBytes + Len(buffer) + i
      BY <1>1
    <3>2. QED
      BY <3>1 DEF Frame
  <2>4. (b + 1) * LineBytes + (Len(buffer) - LineBytes) + Len(stream) = n * LineBytes
    BY <1>1 DEF Frame
  <2>5. Remainder(buffer) = rest
    BY <1>4 DEF Remainder, rest
  <2>6. QED
    BY <1>1, <2>1, <2>2, <2>3, <2>4, <2>5 DEF Frame
<1>8. QED
  BY <1>5, <1>6, <1>7

-------------------------------------------------------------------------------

\* Of an open connection the messages up to b were taken off the buffer; unless
\* a failure was reported that are the ones returned.
TakenUpTo(b) ==
    /\ b \in last .. sent
    /\ ~failed => b = last
    /\ Frame(socket, receive_buffer, wire, b, sent)

\* The bytes of an open connection are its messages in their order; a closed
\* one has left nothing in the buffer.
StreamInv ==
    /\ socket \in Nat /\ opened \in Nat /\ last \in Nat /\ sent \in Nat
    /\ socket = 0 => receive_buffer = <<>>
    /\ socket # 0 => \E b \in Nat : TakenUpTo(b)

\* A line taken off the buffer, be it one kept or one just completed, is
\* returned as the next message.
LEMMA LineReturned ==
    ASSUME StreamInv, socket # 0, NEW b \in Nat, b \in last .. sent, ~failed => b = last,
           NEW buffer, Frame(socket, buffer, wire', b, sent), HasLine(buffer),
           receive_buffer' = Remainder(buffer), last' = Decoded(Popped(buffer)),
           UNCHANGED <<socket, opened, sent, failed>>
    PROVE  StreamInv' /\ Channel!Receive
<1>1. socket \in Nat /\ last \in Nat /\ sent \in Nat /\ opened \in Nat
  BY DEF StreamInv
<1>2. /\ Popped(buffer) = Line(socket, b + 1)
      /\ b + 1 <= sent
      /\ Frame(socket, Remainder(buffer), wire', b + 1, sent)
  BY <1>1, NextLine
<1>3. Popped(buffer)[1].line = b + 1
  <2>1. 1 \in 1 .. LineBytes /\ b + 1 \in Nat
    BY SizesAssumption
  <2>2. Line(socket, b + 1)[1] = [connection |-> socket, line |-> b + 1, at |-> 1]
    BY <1>1, <2>1, LineFacts
  <2>3. Popped(buffer)[1] = [connection |-> socket, line |-> b + 1, at |-> 1]
    BY <1>2, <2>2
  <2>4. QED
    BY <2>3
<1>4. last' = b + 1
  BY <1>2, <1>3 DEF Decoded
<1>5. TakenUpTo(b + 1)'
  BY <1>1, <1>2, <1>4 DEF TakenUpTo
<1>6. StreamInv'
  <2>1. b + 1 \in Nat
    OBVIOUS
  <2>2. (\E k \in Nat : TakenUpTo(k))'
    BY <1>5, <2>1
  <2>3. QED
    BY <1>1, <1>4, <2>1, <2>2 DEF StreamInv
<1>7. Channel!Receive
  BY <1>1, <1>2, <1>4 DEF Channel!Receive
<1>8. QED
  BY <1>6, <1>7

\* Every step keeps the bytes in order, and is one of the channel's or unseen.
LEMMA StreamStep ==
    TimeInv /\ StreamInv /\ [Next]_vars => StreamInv' /\ [Channel!Next]_Channel!vars
<1> SUFFICES ASSUME TimeInv, StreamInv, [Next]_vars
             PROVE  StreamInv' /\ [Channel!Next]_Channel!vars
  OBVIOUS
<1>0. /\ socket \in Nat /\ opened \in Nat /\ last \in Nat /\ sent \in Nat
      /\ receiving => socket # 0
  BY DEF StreamInv, TimeInv, SavedInv
<1>a. ASSUME UNCHANGED <<socket, receive_buffer, wire, opened, sent, last, failed>>
      PROVE  StreamInv' /\ UNCHANGED Channel!vars
  <2>1. \A b \in Nat : TakenUpTo(b) => TakenUpTo(b)'
    BY <1>a DEF TakenUpTo
  <2>2. (\E b \in Nat : TakenUpTo(b)) => (\E b \in Nat : TakenUpTo(b)')
    BY <2>1
  <2>3. QED
    BY <1>a, <2>2 DEF StreamInv, Channel!vars
\* A chunk of k bytes is moved, a failure perhaps reported, nothing returned.
<1>b. ASSUME socket # 0, NEW k \in 0 .. Len(wire),
             wire' = SubSeq(wire, k + 1, Len(wire)),
             receive_buffer' = receive_buffer \o SubSeq(wire, 1, k),
             UNCHANGED <<socket, opened, sent, last>>, failed' = failed \/ failed' = TRUE
      PROVE  StreamInv'
  <2>1. PICK b \in Nat : TakenUpTo(b)
    BY <1>b DEF StreamInv
  <2>2. Frame(socket, receive_buffer', wire', b, sent)
    BY <1>0, <1>b, <2>1, Taken DEF TakenUpTo
  <2>3. TakenUpTo(b)'
    BY <1>b, <2>1, <2>2 DEF TakenUpTo
  <2>4. (\E n \in Nat : TakenUpTo(n))'
    BY <2>3
  <2>5. QED
    BY <1>0, <1>b, <2>4 DEF StreamInv
<1>1. CASE Connect
  <2>1. Frame(socket', receive_buffer', wire', 0, sent')
    BY <1>1, SizesAssumption DEF Connect, StreamInv, Frame
  <2>2. TakenUpTo(0)'
    BY <1>1, <2>1 DEF Connect, TakenUpTo
  <2>3. (\E b \in Nat : TakenUpTo(b))' /\ socket' # 0
    BY <1>0, <1>1, <2>2 DEF Connect
  <2>4. StreamInv'
    BY <1>0, <1>1, <2>3 DEF Connect, StreamInv
  <2>5. Channel!Open
    BY <1>1, <2>3 DEF Connect, Channel!Open
  <2>6. QED
    BY <2>4, <2>5 DEF Channel!Next
<1>2. CASE PeerSends
  <2>1. PICK b \in Nat : TakenUpTo(b)
    BY <1>2 DEF PeerSends, StreamInv
  <2>2. Frame(socket, receive_buffer, wire', b, sent + 1)
    BY <1>0, <1>2, <2>1, Sent DEF PeerSends, TakenUpTo
  <2>3. TakenUpTo(b)'
    BY <1>0, <1>2, <2>1, <2>2 DEF PeerSends, TakenUpTo
  <2>4. (\E n \in Nat : TakenUpTo(n))'
    BY <2>3
  <2>5. StreamInv'
    BY <1>0, <1>2, <2>4 DEF PeerSends, StreamInv
  <2>6. Channel!Send
    BY <1>2 DEF PeerSends, Channel!Send
  <2>7. QED
    BY <2>5, <2>6 DEF Channel!Next
<1>3. CASE PeerCloses
  BY <1>3, <1>a DEF PeerCloses
<1>4. CASE ReceiveBuffered
  <2>1. PICK b \in Nat : TakenUpTo(b)
    BY <1>4 DEF ReceiveBuffered, StreamInv
  <2>2. /\ Frame(socket, receive_buffer, wire', b, sent)
        /\ b \in last .. sent /\ (~failed => b = last)
    BY <1>4, <2>1 DEF ReceiveBuffered, TakenUpTo
  <2>3. StreamInv' /\ Channel!Receive
    BY <1>4, <2>2, LineReturned DEF ReceiveBuffered
  <2>4. QED
    BY <2>3 DEF Channel!Next
<1>5. CASE Receive
  BY <1>5, <1>a DEF Receive, ReceiveBegins
<1>6. CASE Recv
  <2>1. PICK b \in Nat : TakenUpTo(b)
    BY <1>0, <1>6 DEF Recv, StreamInv
  <2>2. PICK k \in 1 .. ChunkBytes :
          /\ k <= Len(wire)
          /\ wire' = SubSeq(wire, k + 1, Len(wire))
          /\ \/ /\ HasLine(receive_buffer \o SubSeq(wire, 1, k))
                /\ last' = Decoded(Popped(receive_buffer \o SubSeq(wire, 1, k)))
                /\ receive_buffer' = Remainder(receive_buffer \o SubSeq(wire, 1, k))
             \/ /\ receive_buffer' = receive_buffer \o SubSeq(wire, 1, k)
                /\ UNCHANGED last
    BY <1>6, Zenon DEF Recv, Kept
  <2>3. socket # 0 /\ UNCHANGED <<socket, opened, sent, failed>>
    BY <1>0, <1>6 DEF Recv
  <2>4. k \in 0 .. Len(wire)
    BY <2>1, <2>2 DEF TakenUpTo, Frame
  <2>5. CASE /\ HasLine(receive_buffer \o SubSeq(wire, 1, k))
             /\ last' = Decoded(Popped(receive_buffer \o SubSeq(wire, 1, k)))
             /\ receive_buffer' = Remainder(receive_buffer \o SubSeq(wire, 1, k))
    <3>1. /\ Frame(socket, receive_buffer \o SubSeq(wire, 1, k), wire', b, sent)
          /\ b \in last .. sent /\ (~failed => b = last)
      BY <1>0, <2>1, <2>2, <2>4, Taken DEF TakenUpTo
    <3>2. StreamInv' /\ Channel!Receive
      BY <2>3, <2>5, <3>1, LineReturned
    <3>3. QED
      BY <3>2 DEF Channel!Next
  <2>6. CASE receive_buffer' = receive_buffer \o SubSeq(wire, 1, k) /\ UNCHANGED last
    <3>1. StreamInv'
      BY <1>b, <2>2, <2>3, <2>4, <2>6
    <3>2. UNCHANGED Channel!vars
      BY <2>3, <2>6 DEF Channel!vars
    <3>3. QED
      BY <3>1, <3>2
  <2>7. QED
    BY <2>2, <2>5, <2>6
<1>7. CASE Tick
  BY <1>7, <1>a DEF Tick
<1>8. CASE RecvTimesOut
  BY <1>8, <1>a DEF RecvTimesOut, Kept
<1>9. CASE RecvFails
  <2>1. socket # 0 /\ failed' = TRUE
        /\ UNCHANGED <<socket, receive_buffer, wire, opened, sent, last>>
    BY <1>0, <1>9 DEF RecvFails
  <2>2. PICK b \in Nat : TakenUpTo(b)
    BY <2>1 DEF StreamInv
  <2>3. TakenUpTo(b)'
    BY <2>1, <2>2 DEF TakenUpTo
  <2>4. (\E n \in Nat : TakenUpTo(n))'
    BY <2>3
  <2>5. StreamInv'
    BY <1>0, <2>1, <2>4 DEF StreamInv
  <2>6. Channel!Fail
    BY <2>1 DEF Channel!Fail
  <2>7. QED
    BY <2>5, <2>6 DEF Channel!Next
<1>10. CASE RestoreFails
  <2>1. socket # 0 /\ failed' = TRUE /\ UNCHANGED <<socket, opened, sent, last>>
    BY <1>0, <1>10 DEF RestoreFails
  <2>2. PICK b \in Nat : TakenUpTo(b)
    BY <2>1 DEF StreamInv
  <2>3. PICK k \in 0 .. ChunkBytes :
          /\ k <= Len(wire)
          /\ wire' = SubSeq(wire, k + 1, Len(wire))
          /\ receive_buffer' = IF HasLine(receive_buffer \o SubSeq(wire, 1, k))
                               THEN Remainder(receive_buffer \o SubSeq(wire, 1, k))
                               ELSE receive_buffer \o SubSeq(wire, 1, k)
    BY <1>10, Zenon DEF RestoreFails
  <2>4. k \in 0 .. Len(wire)
    BY <2>2, <2>3 DEF TakenUpTo, Frame
  <2>5. Frame(socket, receive_buffer \o SubSeq(wire, 1, k), wire', b, sent)
    BY <1>0, <2>2, <2>3, <2>4, Taken DEF TakenUpTo
  <2>6. (\E n \in Nat : TakenUpTo(n))'
    <3>1. CASE HasLine(receive_buffer \o SubSeq(wire, 1, k))
      <4>1. /\ b + 1 \in Nat /\ b + 1 <= sent
            /\ Frame(socket, receive_buffer', wire', b + 1, sent)
        BY <1>0, <2>3, <2>5, <3>1, NextLine
      <4>2. TakenUpTo(b + 1)'
        BY <1>0, <2>1, <2>2, <4>1 DEF TakenUpTo
      <4>3. QED
        BY <4>1, <4>2
    <3>2. CASE ~HasLine(receive_buffer \o SubSeq(wire, 1, k))
      <4>1. TakenUpTo(b)'
        BY <2>1, <2>2, <2>3, <2>5, <3>2 DEF TakenUpTo
      <4>2. QED
        BY <4>1
    <3>3. QED
      BY <3>1, <3>2
  <2>7. StreamInv'
    BY <1>0, <2>1, <2>6 DEF StreamInv
  <2>8. Channel!Fail
    BY <2>1 DEF Channel!Fail
  <2>9. QED
    BY <2>7, <2>8 DEF Channel!Next
<1>11. CASE Close
  <2>1. StreamInv'
    BY <1>0, <1>11 DEF Close, StreamInv
  <2>2. Channel!Close
    BY <1>11 DEF Close, Channel!Close
  <2>3. QED
    BY <2>1, <2>2 DEF Channel!Next
<1>12. CASE UNCHANGED vars
  BY <1>12, <1>a DEF vars
<1>13. QED
  BY <1>1, <1>2, <1>3, <1>4, <1>5, <1>6, <1>7, <1>8, <1>9, <1>10, <1>11, <1>12 DEF Next

\* Whatever chunks the bytes come in and however receives time out, fail or
\* are repeated, the transport implements MessageChannel.
THEOREM ChannelHolds == Spec => ChannelSpec
<1>1. Init => TimeInv /\ StreamInv /\ Channel!Init
  BY TimeInit DEF Init, StreamInv, Channel!Init
<1>2. QED
  BY <1>1, TimeStep, StreamStep, PTL DEF Spec, ChannelSpec, Channel!Spec

===============================================================================
