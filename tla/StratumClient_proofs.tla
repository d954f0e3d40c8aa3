------------------------- MODULE StratumClient_proofs -------------------------
(***************************************************************************)
(* Proofs about StratumClient: the session's state is consistent, a share  *)
(* gets its own verdict and the notifications keep their order, for every  *)
(* number of connections, requests and messages.                           *)
(***************************************************************************)
EXTENDS StratumClient, SequenceTheorems, TLAPS

Kinds == {"notify", "informational", "garbage", "response"}

Messages == [kind : Kinds, number : Nat, result : {"none", "true", "false", "error"}]

Requests == [id : Nat, method : Methods, share : Nat]

Types ==
    /\ state \in {"DISCONNECTED", "CONNECTED", "SUBSCRIBED", "AUTHORIZED"}
    /\ open \in BOOLEAN
    /\ handshaking \in BOOLEAN
    /\ call \in Methods \cup {"none", "poll"}
    /\ next_request_id \in Nat /\ connection \in Nat /\ shares \in Nat /\ pushes \in Nat
    /\ notifications \in Seq(Messages)
    /\ wire \in Seq(Messages)
    /\ announced \in Seq(Messages)
    /\ polled \in Seq(Messages)
    /\ answered \subseteq Messages
    /\ unanswered \subseteq Requests

\* A call is only under way in the state it requires.
CallInv ==
    /\ call \in Methods => state = Required(call) /\ request \in Requests
                           /\ request.method = call
    /\ call = "poll" => state = "AUTHORIZED"

\* What the client can still hear of the pool.
Heard == answered \cup {wire[n] : n \in DOMAIN wire}

\* An answer to the pending request is the pool's answer to that very request.
AnswerSound(m) ==
    /\ m.result \in Results(call)
    /\ call = "submit" => <<request.share, m.result>> \in verdicts
    /\ call = "authorize" /\ m.result = "true" => connection \in granted

AnswersInv ==
    /\ \A r \in unanswered :
          /\ r.id < next_request_id
          /\ call \in Methods /\ r.id = request.id => r = request
    /\ \A m \in Heard : m.kind = "response" =>
          /\ m.number < next_request_id
          /\ call \in Methods /\ m.number = request.id => AnswerSound(m)
    /\ call \in Methods => request.id < next_request_id
    /\ \A m \in answered : m.kind = "response"

\* A poll reads the transport only when nothing is queued.
PollInv == call = "poll" => notifications = <<>>

\* The inductive invariant.
IInv ==
    /\ Types /\ CallInv /\ PollInv /\ SessionConsistent
    /\ AnswersInv /\ ShareGetsOwnVerdict
    /\ NotificationsInOrder

-------------------------------------------------------------------------------
(* What Carries promises about a message put on and taken off the wire      *)

LEMMA CarriesNothing == Carries(<<>>, <<>>)
<1> DEFINE at == [i \in DOMAIN <<>> |-> i]
<1>1. at \in [DOMAIN <<>> -> DOMAIN <<>>]
  OBVIOUS
<1>2. \A i \in DOMAIN <<>> : FALSE
  OBVIOUS
<1>3. QED
  BY <1>1, <1>2 DEF Carries

\* Something else is sent.
LEMMA CarriesMore ==
    ASSUME NEW messages \in Seq(Messages), NEW expected \in Seq(Messages),
           Carries(messages, expected), NEW m \in Messages, ~IsNotification(m)
    PROVE  Carries(Append(messages, m), expected)
<1>1. PICK at \in [DOMAIN expected -> DOMAIN messages] :
        /\ \A i, j \in DOMAIN expected : i < j => at[i] < at[j]
        /\ \A i \in DOMAIN expected : messages[at[i]] = expected[i]
        /\ \A n \in DOMAIN messages :
              IsNotification(messages[n]) <=> \E i \in DOMAIN expected : at[i] = n
  BY DEF Carries
<1> DEFINE after == Append(messages, m)
<1>2. /\ DOMAIN messages = 1 .. Len(messages) /\ Len(messages) \in Nat
      /\ DOMAIN after = 1 .. Len(messages) + 1
      /\ \A n \in DOMAIN messages : n \in DOMAIN after /\ after[n] = messages[n]
      /\ after[Len(messages) + 1] = m
  OBVIOUS
<1> HIDE DEF after
<1>3. at \in [DOMAIN expected -> DOMAIN after]
  BY <1>1, <1>2
<1>4. \A i \in DOMAIN expected : after[at[i]] = expected[i]
  BY <1>1, <1>2
<1>5. ASSUME NEW n \in DOMAIN after
      PROVE  IsNotification(after[n]) <=> \E i \in DOMAIN expected : at[i] = n
  <2>1. CASE n \in DOMAIN messages
    BY <2>1, <1>1, <1>2
  <2>2. CASE n = Len(messages) + 1
    BY <2>2, <1>1, <1>2
  <2>3. QED
    BY <1>2, <2>1, <2>2
<1>6. Carries(after, expected)
  BY <1>1, <1>3, <1>4, <1>5 DEF Carries
<1>7. QED
  BY <1>6 DEF after

\* A notification is sent.
LEMMA CarriesOneMore ==
    ASSUME NEW messages \in Seq(Messages), NEW expected \in Seq(Messages),
           Carries(messages, expected), NEW m \in Messages, IsNotification(m)
    PROVE  Carries(Append(messages, m), Append(expected, m))
<1>1. PICK at \in [DOMAIN expected -> DOMAIN messages] :
        /\ \A i, j \in DOMAIN expected : i < j => at[i] < at[j]
        /\ \A i \in DOMAIN expected : messages[at[i]] = expected[i]
        /\ \A n \in DOMAIN messages :
              IsNotification(messages[n]) <=> \E i \in DOMAIN expected : at[i] = n
  BY DEF Carries
<1> DEFINE after == Append(messages, m)
           awaited == Append(expected, m)
           place == [i \in DOMAIN awaited |->
                       IF i \in DOMAIN expected THEN at[i] ELSE Len(messages) + 1]
<1>2. /\ DOMAIN messages = 1 .. Len(messages) /\ Len(messages) \in Nat
      /\ DOMAIN after = 1 .. Len(messages) + 1
      /\ \A n \in DOMAIN messages : n \in DOMAIN after /\ after[n] = messages[n]
      /\ after[Len(messages) + 1] = m
  OBVIOUS
<1>3. /\ DOMAIN expected = 1 .. Len(expected) /\ Len(expected) \in Nat
      /\ DOMAIN awaited = 1 .. Len(expected) + 1
      /\ \A i \in DOMAIN expected : i \in DOMAIN awaited /\ awaited[i] = expected[i]
      /\ awaited[Len(expected) + 1] = m
  OBVIOUS
<1> HIDE DEF after, awaited
<1>4. /\ \A i \in DOMAIN expected : place[i] = at[i]
      /\ place[Len(expected) + 1] = Len(messages) + 1
  BY <1>3
<1>5. place \in [DOMAIN awaited -> DOMAIN after]
  BY <1>1, <1>2
<1> HIDE DEF place
<1>6. ASSUME NEW i \in DOMAIN awaited, NEW j \in DOMAIN awaited, i < j
      PROVE  place[i] < place[j]
  <2>1. i \in DOMAIN expected /\ at[i] \in 1 .. Len(messages)
    BY <1>6, <1>3, <1>2, <1>1
  <2>2. CASE j \in DOMAIN expected
    BY <2>1, <2>2, <1>1, <1>4, <1>6
  <2>3. CASE j = Len(expected) + 1
    BY <2>1, <2>3, <1>2, <1>4
  <2>4. QED
    BY <2>2, <2>3, <1>3
<1>7. ASSUME NEW i \in DOMAIN awaited
      PROVE  after[place[i]] = awaited[i]
  <2>1. CASE i \in DOMAIN expected
    BY <2>1, <1>1, <1>2, <1>3, <1>4
  <2>2. CASE i = Len(expected) + 1
    BY <2>2, <1>2, <1>3, <1>4
  <2>3. QED
    BY <2>1, <2>2, <1>3
<1>8. ASSUME NEW n \in DOMAIN after
      PROVE  IsNotification(after[n]) <=> \E i \in DOMAIN awaited : place[i] = n
  <2>1. CASE n \in DOMAIN messages
    <3>1. n # Len(messages) + 1
      BY <2>1, <1>2
    <3>2. ASSUME NEW i \in DOMAIN awaited, place[i] = n
          PROVE  i \in DOMAIN expected /\ at[i] = n
      <4>1. i # Len(expected) + 1
        BY <3>1, <3>2, <1>4
      <4>2. i \in DOMAIN expected
        BY <4>1, <1>3
      <4>3. QED
        BY <3>2, <4>2, <1>4
    <3>3. ASSUME NEW i \in DOMAIN expected, at[i] = n
          PROVE  i \in DOMAIN awaited /\ place[i] = n
      BY <3>3, <1>3, <1>4
    <3>4. (\E i \in DOMAIN awaited : place[i] = n)
            <=> \E i \in DOMAIN expected : at[i] = n
      BY <3>2, <3>3
    <3>5. QED
      BY <2>1, <3>4, <1>1, <1>2
  <2>2. CASE n = Len(messages) + 1
    BY <2>2, <1>2, <1>3, <1>4
  <2>3. QED
    BY <1>2, <2>1, <2>2
<1>9. Carries(after, awaited)
  BY <1>5, <1>6, <1>7, <1>8 DEF Carries
<1>10. QED
  BY <1>9 DEF after, awaited

\* Something else is received.
LEMMA CarriesRest ==
    ASSUME NEW messages \in Seq(Messages), NEW expected \in Seq(Messages),
           messages # <<>>, Carries(messages, expected), ~IsNotification(messages[1])
    PROVE  Carries(Tail(messages), expected)
<1>1. PICK at \in [DOMAIN expected -> DOMAIN messages] :
        /\ \A i, j \in DOMAIN expected : i < j => at[i] < at[j]
        /\ \A i \in DOMAIN expected : messages[at[i]] = expected[i]
        /\ \A n \in DOMAIN messages :
              IsNotification(messages[n]) <=> \E i \in DOMAIN expected : at[i] = n
  BY DEF Carries
<1> DEFINE after == Tail(messages)
           place == [i \in DOMAIN expected |-> at[i] - 1]
<1>2. /\ DOMAIN messages = 1 .. Len(messages) /\ Len(messages) \in Nat \ {0}
      /\ DOMAIN after = 1 .. Len(messages) - 1
      /\ \A n \in DOMAIN after : n + 1 \in DOMAIN messages /\ after[n] = messages[n + 1]
  OBVIOUS
<1> HIDE DEF after
<1>3. ASSUME NEW i \in DOMAIN expected
      PROVE  /\ at[i] \in 1 .. Len(messages) /\ at[i] # 1
             /\ place[i] = at[i] - 1 /\ place[i] \in DOMAIN after
  <2>1. at[i] \in 1 .. Len(messages)
    BY <1>1, <1>2
  <2>2. at[i] # 1
    BY <1>1, <1>2
  <2>3. QED
    BY <2>1, <2>2, <1>2
<1>4. place \in [DOMAIN expected -> DOMAIN after]
  BY <1>3
<1> HIDE DEF place
<1>5. \A i, j \in DOMAIN expected : i < j => place[i] < place[j]
  BY <1>1, <1>3
<1>6. \A i \in DOMAIN expected : after[place[i]] = expected[i]
  BY <1>1, <1>2, <1>3
<1>7. ASSUME NEW n \in DOMAIN after
      PROVE  IsNotification(after[n]) <=> \E i \in DOMAIN expected : place[i] = n
  <2>1. n \in Nat /\ n + 1 \in DOMAIN messages /\ after[n] = messages[n + 1]
    BY <1>2
  <2>2. \A i \in DOMAIN expected : place[i] = n <=> at[i] = n + 1
    BY <2>1, <1>3
  <2>3. QED
    BY <2>1, <2>2, <1>1
<1>8. Carries(after, expected)
  BY <1>4, <1>5, <1>6, <1>7 DEF Carries
<1>9. QED
  BY <1>8 DEF after

\* A notification is received: it is the first one expected.
LEMMA CarriesNext ==
    ASSUME NEW messages \in Seq(Messages), NEW expected \in Seq(Messages),
           messages # <<>>, Carries(messages, expected), IsNotification(messages[1])
    PROVE  /\ expected # <<>>
           /\ expected[1] = messages[1]
           /\ Carries(Tail(messages), Tail(expected))
<1>1. PICK at \in [DOMAIN expected -> DOMAIN messages] :
        /\ \A i, j \in DOMAIN expected : i < j => at[i] < at[j]
        /\ \A i \in DOMAIN expected : messages[at[i]] = expected[i]
        /\ \A n \in DOMAIN messages :
              IsNotification(messages[n]) <=> \E i \in DOMAIN expected : at[i] = n
  BY DEF Carries
<1> DEFINE after == Tail(messages)
           awaited == Tail(expected)
           place == [i \in DOMAIN awaited |-> at[i + 1] - 1]
<1>2. /\ DOMAIN messages = 1 .. Len(messages) /\ Len(messages) \in Nat \ {0}
      /\ DOMAIN after = 1 .. Len(messages) - 1
      /\ \A n \in DOMAIN after : n + 1 \in DOMAIN messages /\ after[n] = messages[n + 1]
  OBVIOUS
<1>3. DOMAIN expected = 1 .. Len(expected) /\ Len(expected) \in Nat
  OBVIOUS
<1>4. PICK k \in DOMAIN expected : at[k] = 1
  BY <1>1, <1>2
<1>5. k = 1
  <2>1. SUFFICES ASSUME 1 < k PROVE FALSE
    BY <1>3
  <2>2. 1 \in DOMAIN expected /\ at[1] \in 1 .. Len(messages)
    BY <1>1, <1>2, <1>3
  <2>3. at[1] < at[k]
    BY <1>1, <2>1, <2>2
  <2>4. QED
    BY <1>4, <2>2, <2>3
<1>6. 1 \in DOMAIN expected /\ at[1] = 1 /\ Len(expected) \in Nat \ {0}
  BY <1>3, <1>4, <1>5
<1>7. /\ DOMAIN awaited = 1 .. Len(expected) - 1
      /\ \A i \in DOMAIN awaited : i + 1 \in DOMAIN expected
                                   /\ awaited[i] = expected[i + 1]
  BY <1>3, <1>6
<1> HIDE DEF after, awaited
<1>8. ASSUME NEW i \in DOMAIN awaited
      PROVE  /\ i \in Nat /\ i + 1 \in DOMAIN expected
             /\ at[i + 1] \in 1 .. Len(messages) /\ at[i + 1] # 1
             /\ place[i] = at[i + 1] - 1 /\ place[i] \in DOMAIN after
  <2>1. i \in Nat /\ 1 < i + 1 /\ i + 1 \in DOMAIN expected
    BY <1>7, <1>6
  <2>2. at[i + 1] \in 1 .. Len(messages)
    BY <2>1, <1>1, <1>2
  <2>3. at[1] < at[i + 1]
    BY <2>1, <1>1, <1>6
  <2>4. QED
    BY <2>1, <2>2, <2>3, <1>2, <1>6
<1>9. place \in [DOMAIN awaited -> DOMAIN after]
  BY <1>8
<1> HIDE DEF place
<1>10. ASSUME NEW i \in DOMAIN awaited, NEW j \in DOMAIN awaited, i < j
       PROVE  place[i] < place[j]
  <2>1. at[i + 1] < at[j + 1]
    BY <1>1, <1>8, <1>10
  <2>2. QED
    BY <2>1, <1>8
<1>11. \A i \in DOMAIN awaited : after[place[i]] = awaited[i]
  BY <1>1, <1>2, <1>7, <1>8
<1>12. ASSUME NEW n \in DOMAIN after
       PROVE  IsNotification(after[n]) <=> \E i \in DOMAIN awaited : place[i] = n
  <2>1. n \in 1 .. Len(messages) - 1 /\ n + 1 \in DOMAIN messages
        /\ after[n] = messages[n + 1]
    BY <1>2
  <2>2. ASSUME NEW i \in DOMAIN awaited
        PROVE  place[i] = n <=> at[i + 1] = n + 1
    <3>1. at[i + 1] \in Int /\ place[i] = at[i + 1] - 1 /\ n \in Int
      BY <2>1, <1>2, <1>8
    <3>2. QED
      BY <3>1
  <2>3. ASSUME NEW j \in DOMAIN expected, at[j] = n + 1
        PROVE  \E i \in DOMAIN awaited : at[i + 1] = n + 1
    <3>1. j # 1
      BY <2>1, <2>3, <1>6
    <3>2. j - 1 \in DOMAIN awaited /\ at[(j - 1) + 1] = n + 1
      BY <3>1, <2>3, <1>3, <1>7
    <3>3. QED
      BY <3>2
  <2>4. (\E i \in DOMAIN awaited : place[i] = n)
          <=> \E j \in DOMAIN expected : at[j] = n + 1
    BY <2>2, <2>3, <1>8
  <2>5. QED
    BY <2>1, <2>4, <1>1
<1>13. Carries(after, awaited)
  BY <1>9, <1>10, <1>11, <1>12 DEF Carries
<1>14. expected # <<>> /\ expected[1] = messages[1]
  BY <1>1, <1>6
<1>15. QED
  BY <1>13, <1>14 DEF after, awaited

-------------------------------------------------------------------------------
(* The order of the notifications                                          *)

\* What was taken is a prefix of what was sent; the messages carry the rest.
InOrder(taken, messages, sent) ==
    /\ Len(taken) <= Len(sent)
    /\ taken = SubSeq(sent, 1, Len(taken))
    /\ Carries(messages, SubSeq(sent, Len(taken) + 1, Len(sent)))

LEMMA OrderSent ==
    ASSUME NEW taken \in Seq(Messages), NEW messages \in Seq(Messages),
           NEW sent \in Seq(Messages), InOrder(taken, messages, sent),
           NEW m \in Messages, IsNotification(m)
    PROVE  InOrder(taken, Append(messages, m), Append(sent, m))
<1> DEFINE k == Len(taken)
           rest == SubSeq(sent, k + 1, Len(sent))
           more == Append(sent, m)
<1>1. /\ k \in Nat /\ Len(sent) \in Nat /\ k <= Len(sent)
      /\ taken = SubSeq(sent, 1, k) /\ Carries(messages, rest)
  BY DEF InOrder
<1>2. rest \in Seq(Messages) /\ more \in Seq(Messages) /\ Len(more) = Len(sent) + 1
  BY <1>1
<1>3. SubSeq(more, 1, k) = SubSeq(sent, 1, k)
  BY <1>1, <1>2
<1>4. SubSeq(more, k + 1, Len(more)) = Append(rest, m)
  <2>1. Len(SubSeq(more, k + 1, Len(more))) = Len(Append(rest, m))
    BY <1>1, <1>2
  <2>2. SubSeq(more, k + 1, Len(more)) \in Seq(Messages) /\ Append(rest, m) \in Seq(Messages)
    BY <1>1, <1>2
  <2>3. ASSUME NEW i \in 1 .. Len(Append(rest, m))
        PROVE  SubSeq(more, k + 1, Len(more))[i] = Append(rest, m)[i]
    <3>1. /\ Len(rest) = Len(sent) - k
          /\ i \in 1 .. Len(sent) - k + 1
          /\ SubSeq(more, k + 1, Len(more))[i] = more[k + i]
      BY <1>1, <1>2
    <3>2. CASE i \in 1 .. Len(sent) - k
      <4>1. Append(rest, m)[i] = rest[i] /\ rest[i] = sent[k + i]
        BY <3>1, <3>2, <1>1, <1>2
      <4>2. k + i \in 1 .. Len(sent) /\ more[k + i] = sent[k + i]
        BY <3>1, <3>2, <1>1
      <4>3. QED
        BY <3>1, <4>1, <4>2
    <3>3. CASE i = Len(sent) - k + 1
      <4>1. Append(rest, m)[i] = m
        BY <3>1, <3>3, <1>2
      <4>2. k + i = Len(sent) + 1 /\ more[k + i] = m
        BY <3>3, <1>1
      <4>3. QED
        BY <3>1, <4>1, <4>2
    <3>4. QED
      BY <3>1, <3>2, <3>3, <1>1
  <2>4. QED
    BY <2>1, <2>2, <2>3, SeqEqual
<1>5. Carries(Append(messages, m), Append(rest, m))
  BY <1>1, <1>2, CarriesOneMore
<1> HIDE DEF rest, more
<1>6. InOrder(taken, Append(messages, m), more)
  <2>1. Len(taken) <= Len(more) /\ taken = SubSeq(more, 1, Len(taken))
    BY <1>1, <1>2, <1>3
  <2>2. Carries(Append(messages, m), SubSeq(more, Len(taken) + 1, Len(more)))
    BY <1>4, <1>5
  <2>3. QED
    BY <2>1, <2>2 DEF InOrder
<1>7. QED
  BY <1>6 DEF more

LEMMA OrderReceived ==
    ASSUME NEW taken \in Seq(Messages), NEW messages \in Seq(Messages),
           NEW sent \in Seq(Messages), InOrder(taken, messages, sent),
           messages # <<>>, IsNotification(messages[1])
    PROVE  InOrder(Append(taken, messages[1]), Tail(messages), sent)
<1> DEFINE k == Len(taken)
           rest == SubSeq(sent, k + 1, Len(sent))
           next == Append(taken, messages[1])
<1>1. /\ k \in Nat /\ Len(sent) \in Nat /\ k <= Len(sent)
      /\ taken = SubSeq(sent, 1, k) /\ Carries(messages, rest)
  BY DEF InOrder
<1>2. rest \in Seq(Messages) /\ Len(rest) = Len(sent) - k
  BY <1>1
<1>3. rest # <<>> /\ rest[1] = messages[1] /\ Carries(Tail(messages), Tail(rest))
  BY <1>1, <1>2, CarriesNext
<1>4. k + 1 <= Len(sent) /\ rest[1] = sent[k + 1]
  BY <1>1, <1>2, <1>3
<1>5. next \in Seq(Messages) /\ Len(next) = k + 1
  BY <1>1
<1>6. next = SubSeq(sent, 1, k + 1)
  <2>1. SubSeq(sent, 1, k + 1) \in Seq(Messages) /\ Len(SubSeq(sent, 1, k + 1)) = k + 1
    BY <1>1, <1>4
  <2>2. ASSUME NEW i \in 1 .. k + 1
        PROVE  next[i] = SubSeq(sent, 1, k + 1)[i]
    <3>1. CASE i \in 1 .. k
      BY <3>1, <1>1, <1>4
    <3>2. CASE i = k + 1
      BY <3>2, <1>1, <1>3, <1>4
    <3>3. QED
      BY <1>1, <3>1, <3>2
  <2>3. QED
    BY <1>5, <2>1, <2>2, SeqEqual
<1>7. SubSeq(sent, (k + 1) + 1, Len(sent)) = Tail(rest)
  <2>1. /\ SubSeq(sent, (k + 1) + 1, Len(sent)) \in Seq(Messages)
        /\ Tail(rest) \in Seq(Messages)
        /\ Len(Tail(rest)) = Len(sent) - k - 1
        /\ Len(SubSeq(sent, (k + 1) + 1, Len(sent))) = Len(sent) - k - 1
    <3>1. (k + 1) + 1 \in 1 .. Len(sent) + 1
      BY <1>1, <1>4
    <3>2. /\ SubSeq(sent, (k + 1) + 1, Len(sent)) \in Seq(Messages)
          /\ Len(SubSeq(sent, (k + 1) + 1, Len(sent))) = Len(sent) - k - 1
      BY <3>1, <1>1
    <3>3. Tail(rest) \in Seq(Messages) /\ Len(Tail(rest)) = Len(rest) - 1
      BY <1>2, <1>3
    <3>4. QED
      BY <3>2, <3>3, <1>2, <1>1
  <2>2. ASSUME NEW i \in 1 .. Len(Tail(rest))
        PROVE  SubSeq(sent, (k + 1) + 1, Len(sent))[i] = Tail(rest)[i]
    <3>1. i \in 1 .. Len(sent) - k - 1
      BY <2>1
    <3>2. Tail(rest)[i] = rest[i + 1]
      BY <2>2, <1>2, <1>3
    <3>3. rest[i + 1] = sent[k + (i + 1)]
      BY <3>1, <1>1
    <3>4. SubSeq(sent, (k + 1) + 1, Len(sent))[i] = sent[(k + 1) + i]
      BY <3>1, <1>1
    <3>5. QED
      BY <3>2, <3>3, <3>4, <3>1, <1>1
  <2>3. QED
    BY <2>1, <2>2, SeqEqual
<1>8. QED
  BY <1>3, <1>4, <1>5, <1>6, <1>7 DEF InOrder

\* Something else than a notification changes nothing, sent or received.
LEMMA OrderOther ==
    ASSUME NEW taken \in Seq(Messages), NEW messages \in Seq(Messages),
           NEW sent \in Seq(Messages), InOrder(taken, messages, sent)
    PROVE  /\ \A m \in Messages : ~IsNotification(m) =>
                 InOrder(taken, Append(messages, m), sent)
           /\ messages # <<>> /\ ~IsNotification(messages[1]) =>
                 InOrder(taken, Tail(messages), sent)
<1> DEFINE rest == SubSeq(sent, Len(taken) + 1, Len(sent))
<1>1. rest \in Seq(Messages) /\ Carries(messages, rest)
  BY DEF InOrder
<1> HIDE DEF rest
<1>2. \A m \in Messages : ~IsNotification(m) => Carries(Append(messages, m), rest)
  BY <1>1, CarriesMore
<1>3. messages # <<>> /\ ~IsNotification(messages[1]) => Carries(Tail(messages), rest)
  BY <1>1, CarriesRest
<1>4. QED
  BY <1>2, <1>3 DEF InOrder, rest

-------------------------------------------------------------------------------
(* The steps                                                               *)

\* What a message taken off the wire is, and what it leaves there.
LEMMA TakeFacts ==
    ASSUME Types, NEW kind, Take(kind)
    PROVE  /\ wire # <<>> /\ Head(wire) = wire[1] /\ wire[1] \in Messages
           /\ wire[1].kind = kind
           /\ wire' = Tail(wire) /\ wire' \in Seq(Messages)
           /\ wire[1] \in {wire[n] : n \in DOMAIN wire}
           /\ {wire'[n] : n \in DOMAIN wire'} \subseteq {wire[n] : n \in DOMAIN wire}
<1>1. wire \in Seq(Messages) /\ wire # <<>> /\ Head(wire).kind = kind /\ wire' = Tail(wire)
  BY DEF Types, Take
<1>2. /\ Head(wire) = wire[1] /\ Len(wire) \in Nat \ {0} /\ wire[1] \in Messages
      /\ DOMAIN wire = 1 .. Len(wire)
      /\ wire' \in Seq(Messages) /\ DOMAIN wire' = 1 .. Len(wire) - 1
      /\ \A n \in DOMAIN wire' : wire'[n] = wire[n + 1]
  BY <1>1
<1>3. wire[1] \in {wire[n] : n \in DOMAIN wire}
  BY <1>2
<1>4. ASSUME NEW n \in DOMAIN wire'
      PROVE  wire'[n] \in {wire[k] : k \in DOMAIN wire}
  <2>1. n + 1 \in DOMAIN wire /\ wire'[n] = wire[n + 1]
    BY <1>2
  <2>2. QED
    BY <2>1
<1>5. QED
  BY <1>1, <1>2, <1>3, <1>4

\* What a receive that raises may take off the wire.
LEMMA PolledFacts ==
    ASSUME Types, ReceiveRaises
    PROVE  /\ wire' \in Seq(Messages) /\ polled' \in Seq(Messages)
           /\ {wire'[n] : n \in DOMAIN wire'} \subseteq {wire[n] : n \in DOMAIN wire}
           /\ \/ UNCHANGED <<wire, polled>>
              \/ /\ call = "poll"
                 /\ wire # <<>> /\ wire[1] \in Messages /\ wire' = Tail(wire)
                 /\ polled' = IF IsNotification(wire[1]) THEN Append(polled, wire[1])
                              ELSE polled
<1>1. wire \in Seq(Messages) /\ polled \in Seq(Messages)
  BY DEF Types
<1>2. CASE UNCHANGED <<wire, polled>>
  BY <1>1, <1>2
<1>3. CASE ~UNCHANGED <<wire, polled>>
  <2>1. /\ call = "poll" /\ wire # <<>> /\ wire' = Tail(wire)
        /\ polled' = IF IsNotification(Head(wire)) THEN Append(polled, Head(wire))
                     ELSE polled
    BY <1>3 DEF ReceiveRaises
  <2>2. Take(Head(wire).kind)
    BY <2>1 DEF Take
  <2>3. /\ Head(wire) = wire[1] /\ wire[1] \in Messages /\ wire' \in Seq(Messages)
        /\ {wire'[n] : n \in DOMAIN wire'} \subseteq {wire[n] : n \in DOMAIN wire}
    BY <2>2, TakeFacts
  <2>4. Append(polled, wire[1]) \in Seq(Messages)
    BY <1>1, <2>3
  <2>5. QED
    BY <1>1, <2>1, <2>3, <2>4
<1>4. QED
  BY <1>2, <1>3

\* What a message put on the wire adds to it.
LEMMA PutFacts ==
    ASSUME Types, NEW m \in Messages, wire' = Append(wire, m)
    PROVE  /\ wire' \in Seq(Messages)
           /\ {wire'[n] : n \in DOMAIN wire'} = {wire[n] : n \in DOMAIN wire} \cup {m}
<1>1. wire \in Seq(Messages)
  BY DEF Types
<1>2. /\ wire' \in Seq(Messages) /\ Len(wire) \in Nat
      /\ DOMAIN wire = 1 .. Len(wire) /\ DOMAIN wire' = 1 .. Len(wire) + 1
      /\ \A n \in DOMAIN wire : wire'[n] = wire[n]
      /\ wire'[Len(wire) + 1] = m
  BY <1>1
<1>3. \A n \in DOMAIN wire' : wire'[n] \in {wire[k] : k \in DOMAIN wire} \cup {m}
  BY <1>2
<1>4. \A n \in DOMAIN wire : n \in DOMAIN wire' /\ wire'[n] = wire[n]
  BY <1>2
<1>5. Len(wire) + 1 \in DOMAIN wire' /\ wire'[Len(wire) + 1] = m
  BY <1>2
<1>6. QED
  BY <1>2, <1>3, <1>4, <1>5

\* The messages the pool sends.
LEMMA SentMessages ==
    ASSUME Types
    PROVE  /\ Message("notify", pushes + 1) \in Messages
           /\ Message("informational", 0) \in Messages
           /\ Message("garbage", 0) \in Messages
           /\ \A r \in unanswered : \A result \in Results(r.method) :
                 Response(r.id, result) \in Messages
<1>1. ASSUME NEW r \in unanswered, NEW result \in Results(r.method)
      PROVE  Response(r.id, result) \in Messages
  <2>1. r.id \in Nat
    BY DEF Types, Requests
  <2>2. result \in {"none", "true", "false", "error"}
    BY DEF Results
  <2>3. QED
    BY <2>1, <2>2 DEF Response, Messages, Kinds
<1>2. QED
  BY <1>1 DEF Types, Message, Messages, Kinds

\* An exception leaves the session alone or closes it.
LEMMA RaiseFacts ==
    ASSUME Types, Raise
    PROVE  /\ call' = "none" /\ handshaking' = FALSE
           /\ \/ state' = "DISCONNECTED" /\ open' = FALSE /\ subscribe_result' = 0
                 /\ notifications' = <<>>
              \/ UNCHANGED <<state, open, subscribe_result, notifications>>
           /\ state' \in {"DISCONNECTED", "CONNECTED", "SUBSCRIBED", "AUTHORIZED"}
           /\ open' \in BOOLEAN
           /\ notifications' \in Seq(Messages)
<1>1. /\ state \in {"DISCONNECTED", "CONNECTED", "SUBSCRIBED", "AUTHORIZED"}
      /\ open \in BOOLEAN /\ notifications \in Seq(Messages) /\ <<>> \in Seq(Messages)
  BY DEF Types
<1>2. CASE handshaking
  BY <1>1, <1>2 DEF Raise, CallEnds, Reset
<1>3. CASE ~handshaking
  BY <1>1, <1>3 DEF Raise, CallEnds, session
<1>4. QED
  BY <1>2, <1>3

\* Types.
LEMMA TypesStep ==
    Types /\ [Next]_vars => Types'
<1> SUFFICES ASSUME Types, [Next]_vars
             PROVE  Types'
  OBVIOUS
<1>0. <<>> \in Seq(Messages)
  OBVIOUS
<1> USE DEF Types, vars, session, waiting, pool, returned
<1>1. CASE PoolNotifies
  BY <1>1, SentMessages, PutFacts DEF PoolNotifies, Push
<1>2. CASE PoolDisturbs
  <2>1. PICK m \in {Message("informational", 0), Message("garbage", 0)} \cup answered :
          Push(m)
    BY <1>2 DEF PoolDisturbs
  <2>2. m \in Messages
    BY SentMessages
  <2>3. QED
    BY <1>2, <2>1, <2>2, PutFacts DEF PoolDisturbs, Push
<1>3. CASE PoolAnswers
  <2>1. PICK r \in unanswered : \E result \in Results(r.method) :
          /\ unanswered' = unanswered \ {r}
          /\ answered' = answered \cup {Response(r.id, result)}
          /\ wire' = Append(wire, Response(r.id, result))
    BY <1>3 DEF PoolAnswers
  <2>2. PICK result \in Results(r.method) :
          /\ unanswered' = unanswered \ {r}
          /\ answered' = answered \cup {Response(r.id, result)}
          /\ wire' = Append(wire, Response(r.id, result))
    BY <2>1
  <2>3. Response(r.id, result) \in Messages
    BY SentMessages
  <2>4. wire' \in Seq(Messages)
    BY <2>2, <2>3, PutFacts
  <2>5. QED
    BY <1>3, <2>2, <2>3, <2>4 DEF PoolAnswers
<1>4. CASE Connect
  BY <1>4 DEF Connect, CallEnds, Reset
<1>5. CASE Close
  BY <1>0, <1>5 DEF Close, Reset
<1>6. ASSUME NEW method \in Methods, Request(method)
      PROVE  Types'
  <2>1. shares' \in Nat /\ next_request_id' \in Nat
    BY <1>6 DEF Request, Allocate
  <2>2. request' \in Requests
    BY <1>6, <2>1 DEF Request, Requests
  <2>3. QED
    BY <1>6, <2>1, <2>2 DEF Request
<1>7. ASSUME NEW method \in Methods, RequestNotSent(method)
      PROVE  Types'
  <2>1. shares' \in Nat /\ next_request_id' \in Nat
    BY <1>7 DEF RequestNotSent, Allocate
  <2>2. QED
    BY <1>7, <2>1, RaiseFacts DEF RequestNotSent
<1>8. CASE WaitQueues
  <2>1. Head(wire) \in Messages /\ wire' \in Seq(Messages)
    BY <1>8, TakeFacts DEF WaitQueues
  <2>2. notifications' \in Seq(Messages)
    <3>1. notifications \in Seq(Messages)
      OBVIOUS
    <3>2. notifications' = Append(notifications, Head(wire)) \/ notifications' = notifications
      BY <1>8 DEF WaitQueues, Enqueue
    <3>3. \A m \in Messages : Append(notifications, m) \in Seq(Messages)
      BY <3>1
    <3>4. QED
      BY <2>1, <3>1, <3>2, <3>3
  <2>3. QED
    BY <1>8, <2>1, <2>2 DEF WaitQueues
<1>9. CASE Subscribed
  BY <1>9, TakeFacts DEF Subscribed, CallEnds
<1>10. CASE Authorized
  BY <1>10, TakeFacts DEF Authorized, CallEnds
<1>11. CASE Submitted
  BY <1>11, TakeFacts DEF Submitted, CallEnds
<1>12. CASE ResponseRaises
  <2>1. wire' \in Seq(Messages)
    BY <1>12, TakeFacts DEF ResponseRaises
  <2>2. QED
    BY <1>12, <2>1, RaiseFacts DEF ResponseRaises
<1>13. CASE ReceiveRaises
  <2>1. wire' \in Seq(Messages) /\ polled' \in Seq(Messages)
    BY <1>13, PolledFacts
  <2>2. QED
    BY <1>13, <2>1, RaiseFacts DEF ReceiveRaises
<1>14. ASSUME NEW t \in PollTimeouts \cup {None}, PollBegins(t)
      PROVE  Types'
  BY <1>14 DEF PollBegins, CallEnds, Reset
<1>15. CASE PollQueued
  BY <1>15 DEF PollQueued, CallEnds, Reset
<1>16. CASE PollDelivers
  BY <1>16, TakeFacts DEF PollDelivers, CallEnds
<1>17. CASE PollSkips
  BY <1>17, TakeFacts DEF PollSkips, CallEnds
<1>18. CASE PollRaises
  <2>1. wire' \in Seq(Messages)
    BY <1>18, TakeFacts DEF PollRaises
  <2>2. QED
    BY <1>18, <2>1, RaiseFacts DEF PollRaises
<1>19. CASE PollTick
  BY <1>19 DEF PollTick, CallEnds, Reset
<1>20. CASE PollNone
  BY <1>20 DEF PollNone, CallEnds, Reset
<1>21. CASE UNCHANGED vars
  BY <1>21
<1>22. QED
  BY <1>1, <1>2, <1>3, <1>4, <1>5, <1>6, <1>7, <1>8, <1>9, <1>10, <1>11, 
     <1>12, <1>13, <1>14, <1>15, <1>16, <1>17, <1>18, <1>19, <1>20, <1>21
     DEF Next, Pool, RequestCall, PollCall

\* A call is under way in its state.
LEMMA CallStep ==
    Types /\ CallInv /\ [Next]_vars => CallInv'
<1> SUFFICES ASSUME Types /\ CallInv, [Next]_vars
             PROVE  CallInv'
  OBVIOUS
<1>0. /\ "none" \notin Methods /\ "poll" \notin Methods
      /\ \A method \in Methods : Required(method) # "DISCONNECTED"
  BY DEF Methods, Required
<1> USE DEF CallInv, vars, session, waiting, pool, returned
<1>1. CASE PoolNotifies
  BY <1>1, <1>0 DEF PoolNotifies, Push
<1>2. CASE PoolDisturbs
  BY <1>2, <1>0 DEF PoolDisturbs, Push
<1>3. CASE PoolAnswers
  BY <1>3, <1>0 DEF PoolAnswers
<1>4. CASE Connect
  <2>1. call = "none" \/ state # "DISCONNECTED"
    BY <1>0 DEF Types
  <2>2. QED
    BY <1>4, <1>0, <2>1 DEF Connect
<1>5. CASE Close
  BY <1>5, <1>0 DEF Close
<1>6. ASSUME NEW method \in Methods, Request(method)
      PROVE  CallInv'
  <2>1. method # "none" /\ method # "poll" /\ state = Required(method)
    BY <1>6 DEF Request, Allocate, Methods
  <2>2. request' \in Requests /\ request'.method = method /\ call' = method
    <3>1. shares' \in Nat
      BY <1>6 DEF Request, Allocate, Types
    <3>2. request' = [id |-> next_request_id, method |-> method,
                      share |-> IF method = "submit" THEN shares' ELSE 0]
      BY <1>6 DEF Request
    <3>3. QED
      BY <1>6, <3>1, <3>2 DEF Request, Requests, Types
  <2>3. QED
    BY <1>6, <1>0, <2>1, <2>2 DEF Request
<1>7. ASSUME NEW method \in Methods, RequestNotSent(method)
      PROVE  CallInv'
  BY <1>7, <1>0, RaiseFacts DEF RequestNotSent
<1>8. CASE WaitQueues
  BY <1>8, <1>0 DEF WaitQueues
<1>9. CASE Subscribed
  BY <1>9, <1>0 DEF Subscribed, CallEnds
<1>10. CASE Authorized
  BY <1>10, <1>0 DEF Authorized, CallEnds
<1>11. CASE Submitted
  BY <1>11, <1>0 DEF Submitted, CallEnds
<1>12. CASE ResponseRaises
  BY <1>12, <1>0, RaiseFacts DEF ResponseRaises
<1>13. CASE ReceiveRaises
  BY <1>13, <1>0, RaiseFacts DEF ReceiveRaises
<1>14. ASSUME NEW t \in PollTimeouts \cup {None}, PollBegins(t)
      PROVE  CallInv'
  BY <1>14, <1>0 DEF PollBegins
<1>15. CASE PollQueued
  BY <1>15, <1>0 DEF PollQueued
<1>16. CASE PollDelivers
  BY <1>16, <1>0 DEF PollDelivers, CallEnds
<1>17. CASE PollSkips
  BY <1>17, <1>0 DEF PollSkips
<1>18. CASE PollRaises
  BY <1>18, <1>0, RaiseFacts DEF PollRaises
<1>19. CASE PollTick
  BY <1>19, <1>0 DEF PollTick
<1>20. CASE PollNone
  BY <1>20, <1>0 DEF PollNone, CallEnds
<1>21. CASE UNCHANGED vars
  BY <1>21
<1>22. QED
  BY <1>1, <1>2, <1>3, <1>4, <1>5, <1>6, <1>7, <1>8, <1>9, <1>10, <1>11, 
     <1>12, <1>13, <1>14, <1>15, <1>16, <1>17, <1>18, <1>19, <1>20, <1>21
     DEF Next, Pool, RequestCall, PollCall

\* An exception leaves a consistent session.
LEMMA RaiseConsistent ==
    ASSUME SessionConsistent, Raise, UNCHANGED <<connection, granted>>
    PROVE  SessionConsistent'
<1>1. CASE handshaking
  BY <1>1 DEF Raise, Reset, SessionConsistent
<1>2. CASE ~handshaking
  BY <1>2 DEF Raise, session, SessionConsistent
<1>3. QED
  BY <1>1, <1>2

\* SessionConsistent: only the pool's own answer authorizes a session.
LEMMA SessionStep ==
    Types /\ CallInv /\ SessionConsistent /\ AnswersInv /\ [Next]_vars => SessionConsistent'
<1> SUFFICES ASSUME Types /\ CallInv /\ SessionConsistent /\ AnswersInv, [Next]_vars
             PROVE  SessionConsistent'
  OBVIOUS
<1> USE DEF vars, session, waiting, pool, returned
<1>1. CASE PoolNotifies
  BY <1>1 DEF SessionConsistent, PoolNotifies, Push
<1>2. CASE PoolDisturbs
  BY <1>2 DEF SessionConsistent, PoolDisturbs, Push
<1>3. CASE PoolAnswers
  BY <1>3 DEF SessionConsistent, PoolAnswers
<1>4. CASE Connect
  BY <1>4 DEF SessionConsistent, Connect
<1>5. CASE Close
  BY <1>5 DEF SessionConsistent, Close, Reset
<1>6. ASSUME NEW method \in Methods, Request(method)
      PROVE  SessionConsistent'
  BY <1>6 DEF SessionConsistent, Request
<1>7. ASSUME NEW method \in Methods, RequestNotSent(method)
      PROVE  SessionConsistent'
  BY <1>7, RaiseConsistent DEF RequestNotSent
<1>8. CASE WaitQueues
  BY <1>8 DEF SessionConsistent, WaitQueues
<1>9. CASE Subscribed
  <2>1. state = "CONNECTED" /\ state' = "SUBSCRIBED" /\ subscribe_result' = connection
    BY <1>9 DEF Subscribed, CallInv, Methods, Required
  <2>2. QED
    BY <1>9, <2>1 DEF Subscribed, SessionConsistent
<1>10. CASE Authorized
  <2>1. /\ call \in Methods /\ wire[1] = Head(wire) /\ wire[1].kind = "response"
        /\ wire[1] \in Heard /\ wire[1].number = request.id
        /\ wire[1].result # "error"
    BY <1>10, TakeFacts DEF Authorized, Heard, IsAnswer, Methods
  <2>2. AnswerSound(wire[1])
    BY <2>1 DEF AnswersInv
  <2>3. wire[1].result = "true"
    BY <1>10, <2>1, <2>2 DEF AnswerSound, Results, Authorized
  <2>4. connection \in granted
    BY <1>10, <2>2, <2>3 DEF AnswerSound, Authorized
  <2>5. state = "SUBSCRIBED"
    BY <1>10 DEF Authorized, CallInv, Methods, Required
  <2>6. QED
    BY <1>10, <2>4, <2>5 DEF Authorized, SessionConsistent
<1>11. CASE Submitted
  BY <1>11 DEF SessionConsistent, Submitted
<1>12. CASE ResponseRaises
  BY <1>12, RaiseConsistent DEF ResponseRaises
<1>13. CASE ReceiveRaises
  BY <1>13, RaiseConsistent DEF ReceiveRaises
<1>14. ASSUME NEW t \in PollTimeouts \cup {None}, PollBegins(t)
      PROVE  SessionConsistent'
  BY <1>14 DEF SessionConsistent, PollBegins
<1>15. CASE PollQueued
  BY <1>15 DEF SessionConsistent, PollQueued
<1>16. CASE PollDelivers
  BY <1>16 DEF SessionConsistent, PollDelivers
<1>17. CASE PollSkips
  BY <1>17 DEF SessionConsistent, PollSkips
<1>18. CASE PollRaises
  BY <1>18, RaiseConsistent DEF PollRaises
<1>19. CASE PollTick
  BY <1>19 DEF SessionConsistent, PollTick
<1>20. CASE PollNone
  BY <1>20 DEF SessionConsistent, PollNone
<1>21. CASE UNCHANGED vars
  BY <1>21 DEF SessionConsistent
<1>22. QED
  BY <1>1, <1>2, <1>3, <1>4, <1>5, <1>6, <1>7, <1>8, <1>9, <1>10, <1>11, 
     <1>12, <1>13, <1>14, <1>15, <1>16, <1>17, <1>18, <1>19, <1>20, <1>21
     DEF Next, Pool, RequestCall, PollCall

LEMMA HeardTyped == Types => Heard \subseteq Messages
<1> SUFFICES ASSUME Types PROVE Heard \subseteq Messages
  OBVIOUS
<1>1. wire \in Seq(Messages) /\ answered \subseteq Messages
  BY DEF Types
<1>2. \A n \in DOMAIN wire : wire[n] \in Messages
  BY <1>1
<1>3. QED
  BY <1>1, <1>2 DEF Heard

\* A step that brings no answer, and begins no request, leaves the answers sound.
LEMMA AnswersKept ==
    ASSUME Types, CallInv, AnswersInv,
           \A m \in Heard' : m.kind = "response" => m \in Heard,
           UNCHANGED <<unanswered, answered, verdicts, granted, connection>>,
           next_request_id' \in Nat, next_request_id <= next_request_id',
           call' \notin Methods \/ UNCHANGED <<call, request>>
    PROVE  AnswersInv'
<1>1. \A id \in Nat : id < next_request_id => id < next_request_id'
  BY DEF Types
<1>2. /\ \A r \in unanswered : r.id \in Nat
      /\ \A m \in Heard : m.number \in Nat
  BY HeardTyped DEF Types, Requests, Messages
<1>3. ASSUME NEW r \in unanswered'
      PROVE  /\ r.id < next_request_id'
             /\ call' \in Methods /\ r.id = request'.id => r = request'
  BY <1>1, <1>2 DEF AnswersInv
<1>4. ASSUME NEW m \in Heard', m.kind = "response"
      PROVE  /\ m.number < next_request_id'
             /\ call' \in Methods /\ m.number = request'.id => AnswerSound(m)'
  BY <1>1, <1>2, <1>4 DEF AnswersInv, AnswerSound
<1>5. call' \in Methods => request'.id < next_request_id'
  <2>1. SUFFICES ASSUME call' \in Methods PROVE request'.id < next_request_id'
    OBVIOUS
  <2>2. request' = request /\ request.id < next_request_id
    BY <2>1 DEF AnswersInv
  <2>3. request.id \in Nat
    <3>1. CASE call \in Methods /\ request \in Requests
      BY <3>1 DEF Requests
    <3>2. QED
      BY <2>1, <2>2, <3>1 DEF CallInv
  <2>4. QED
    BY <2>2, <2>3, <1>1
<1>6. \A m \in answered' : m.kind = "response"
  BY DEF AnswersInv
<1>7. QED
  BY <1>3, <1>4, <1>5, <1>6 DEF AnswersInv

\* An answer goes with its request.
LEMMA AnswersStep ==
    Types /\ CallInv /\ AnswersInv /\ [Next]_vars => AnswersInv'
<1> SUFFICES ASSUME Types /\ CallInv /\ AnswersInv, [Next]_vars
             PROVE  AnswersInv'
  OBVIOUS
<1>0. /\ next_request_id \in Nat /\ "none" \notin Methods /\ "poll" \notin Methods
  BY DEF Types, Methods
<1>1. CASE PoolNotifies
  <2>1. PICK m \in Messages : m.kind = "notify" /\ Push(m)
    BY <1>1, SentMessages DEF PoolNotifies, Message
  <2>2. Heard' = Heard \cup {m}
    BY <2>1, PutFacts DEF Push, Heard
  <2>3. QED
    BY <1>0, <2>1, <2>2, AnswersKept DEF Push, waiting, PoolNotifies
<1>2. CASE PoolDisturbs
  <2>1. PICK m \in {Message("informational", 0), Message("garbage", 0)} \cup answered :
          Push(m)
    BY <1>2 DEF PoolDisturbs
  <2>2. m \in Messages /\ (m.kind = "response" => m \in Heard)
    BY SentMessages DEF Message, Heard, Types
  <2>3. Heard' = Heard \cup {m}
    BY <2>1, <2>2, PutFacts DEF Push, Heard
  <2>4. QED
    BY <1>0, <2>1, <2>2, <2>3, AnswersKept DEF Push, waiting
<1>3. CASE PoolAnswers
  <2>1. PICK r \in unanswered : \E result \in Results(r.method) :
          /\ unanswered' = unanswered \ {r}
          /\ answered' = answered \cup {Response(r.id, result)}
          /\ wire' = Append(wire, Response(r.id, result))
          /\ verdicts' = IF r.method = "submit"
                         THEN verdicts \cup {<<r.share, result>>} ELSE verdicts
          /\ granted' = IF r.method = "authorize" /\ result = "true"
                        THEN granted \cup {connection} ELSE granted
    BY <1>3 DEF PoolAnswers
  <2>2. PICK result \in Results(r.method) :
          /\ unanswered' = unanswered \ {r}
          /\ answered' = answered \cup {Response(r.id, result)}
          /\ wire' = Append(wire, Response(r.id, result))
          /\ verdicts' = IF r.method = "submit"
                         THEN verdicts \cup {<<r.share, result>>} ELSE verdicts
          /\ granted' = IF r.method = "authorize" /\ result = "true"
                        THEN granted \cup {connection} ELSE granted
    BY <2>1
  <2> DEFINE answer == Response(r.id, result)
  <2>3. /\ UNCHANGED <<call, request, connection, next_request_id>>
        /\ verdicts \subseteq verdicts' /\ granted \subseteq granted'
    BY <1>3, <2>2 DEF PoolAnswers, waiting
  <2>4. /\ answer \in Messages /\ answer.kind = "response"
        /\ answer.number = r.id /\ answer.result = result
    BY SentMessages DEF Response
  <2>5. Heard' = Heard \cup {answer}
    BY <2>2, <2>4, PutFacts DEF Heard
  <2>6. call \in Methods /\ r.id = request.id => AnswerSound(answer)'
    <3>1. SUFFICES ASSUME call \in Methods, r.id = request.id PROVE AnswerSound(answer)'
      OBVIOUS
    <3>2. r = request /\ r.method = call
      BY <3>1 DEF AnswersInv, CallInv
    <3>3. QED
      BY <2>2, <2>3, <2>4, <3>2 DEF AnswerSound
  <2> HIDE DEF answer
  <2>7. ASSUME NEW m \in Heard', m.kind = "response"
        PROVE  /\ m.number < next_request_id'
               /\ call' \in Methods /\ m.number = request'.id => AnswerSound(m)'
    <3>1. CASE m \in Heard
      BY <3>1, <2>3, <2>7 DEF AnswersInv, AnswerSound
    <3>2. CASE m = answer
      BY <3>2, <2>3, <2>4, <2>6 DEF AnswersInv
    <3>3. QED
      BY <2>5, <3>1, <3>2
  <2>8. answered' = answered \cup {answer}
    BY <2>2 DEF answer
  <2>9. QED
    BY <2>2, <2>3, <2>4, <2>7, <2>8 DEF AnswersInv
<1>4. CASE Connect
  <2>1. call = "none"
    BY <1>4 DEF Connect, CallInv, Types, Methods, Required
  <2>2. Heard' = {} /\ unanswered' = {} /\ answered' = {} /\ call' = call
    BY <1>4 DEF Connect, Heard, waiting
  <2>3. QED
    BY <1>0, <2>1, <2>2 DEF AnswersInv
<1>5. CASE Close
  <2>1. Heard' \subseteq Heard
    BY <1>5 DEF Close, Heard, pool
  <2>2. QED
    BY <1>5, <1>0, <2>1, AnswersKept DEF Close, pool, waiting
<1>6. ASSUME NEW method \in Methods, Request(method)
      PROVE  AnswersInv'
  <2>1. /\ next_request_id' = next_request_id + 1
        /\ request'.id = next_request_id /\ call' = method
        /\ unanswered' = unanswered \cup {request'}
        /\ UNCHANGED <<answered, wire, verdicts, granted, connection>>
    BY <1>6 DEF Request, Allocate
  <2>2. Heard' = Heard
    BY <2>1 DEF Heard
  <2>3. /\ \A r \in unanswered : r.id \in Nat /\ r.id < next_request_id
        /\ \A m \in Heard : m.kind = "response" => m.number \in Nat
                                                    /\ m.number < next_request_id
    BY HeardTyped DEF Types, AnswersInv, Requests, Messages
  <2>4. next_request_id \in Nat
    BY DEF Types
  <2>5. ASSUME NEW r \in unanswered'
        PROVE  r.id < next_request_id' /\ (r.id = request'.id => r = request')
    BY <2>1, <2>3, <2>4
  <2>6. ASSUME NEW m \in Heard', m.kind = "response"
        PROVE  m.number < next_request_id' /\ m.number # request'.id
    BY <2>1, <2>2, <2>3, <2>4, <2>6
  <2>7. request'.id < next_request_id'
    BY <2>1, <2>4
  <2>8. \A m \in answered' : m.kind = "response"
    BY <2>1 DEF AnswersInv
  <2>9. QED
    BY <2>5, <2>6, <2>7, <2>8 DEF AnswersInv
<1>7. ASSUME NEW method \in Methods, RequestNotSent(method)
      PROVE  AnswersInv'
  <2>1. Heard' = Heard /\ next_request_id' = next_request_id + 1
    BY <1>7 DEF RequestNotSent, Allocate, Heard, pool
  <2>2. next_request_id' \in Nat /\ next_request_id <= next_request_id'
    BY <1>0, <2>1
  <2>3. QED
    BY <1>7, <1>0, <2>1, <2>2, AnswersKept DEF RequestNotSent, pool, Raise, CallEnds
<1>8. CASE WaitQueues
  <2>1. Heard' \subseteq Heard
    BY <1>8, TakeFacts DEF WaitQueues, Heard, pool
  <2>2. QED
    BY <1>8, <1>0, <2>1, AnswersKept DEF WaitQueues, pool, waiting
<1>9. CASE Subscribed
  <2>1. Heard' \subseteq Heard
    BY <1>9, TakeFacts DEF Subscribed, Heard, pool
  <2>2. QED
    BY <1>9, <1>0, <2>1, AnswersKept DEF Subscribed, pool, waiting, CallEnds
<1>10. CASE Authorized
  <2>1. Heard' \subseteq Heard
    BY <1>10, TakeFacts DEF Authorized, Heard, pool
  <2>2. QED
    BY <1>10, <1>0, <2>1, AnswersKept DEF Authorized, pool, waiting, CallEnds
<1>11. CASE Submitted
  <2>1. Heard' \subseteq Heard
    BY <1>11, TakeFacts DEF Submitted, Heard, pool
  <2>2. QED
    BY <1>11, <1>0, <2>1, AnswersKept DEF Submitted, pool, waiting, CallEnds
<1>12. CASE ResponseRaises
  <2>1. Heard' \subseteq Heard
    BY <1>12, TakeFacts DEF ResponseRaises, Heard, pool
  <2>2. QED
    BY <1>12, <1>0, <2>1, AnswersKept DEF ResponseRaises, pool, waiting, Raise, CallEnds
<1>13. CASE ReceiveRaises
  <2>1. Heard' \subseteq Heard
    BY <1>13, PolledFacts DEF ReceiveRaises, Heard, pool
  <2>2. QED
    BY <1>13, <1>0, <2>1, AnswersKept DEF ReceiveRaises, pool, waiting, Raise, CallEnds
<1>14. ASSUME NEW t \in PollTimeouts \cup {None}, PollBegins(t)
      PROVE  AnswersInv'
  <2>1. Heard' = Heard
    BY <1>14 DEF PollBegins, Heard, pool
  <2>2. QED
    BY <1>14, <1>0, <2>1, AnswersKept DEF PollBegins, pool, waiting, CallEnds
<1>15. CASE PollQueued
  <2>1. Heard' = Heard
    BY <1>15 DEF PollQueued, Heard, pool
  <2>2. QED
    BY <1>15, <1>0, <2>1, AnswersKept DEF PollQueued, pool, waiting, CallEnds
<1>16. CASE PollDelivers
  <2>1. Heard' \subseteq Heard
    BY <1>16, TakeFacts DEF PollDelivers, Heard, pool
  <2>2. QED
    BY <1>16, <1>0, <2>1, AnswersKept DEF PollDelivers, pool, waiting, CallEnds
<1>17. CASE PollSkips
  <2>1. Heard' \subseteq Heard
    BY <1>17, TakeFacts DEF PollSkips, Heard, pool
  <2>2. QED
    BY <1>17, <1>0, <2>1, AnswersKept DEF PollSkips, pool, waiting, CallEnds
<1>18. CASE PollRaises
  <2>1. Heard' \subseteq Heard
    BY <1>18, TakeFacts DEF PollRaises, Heard, pool
  <2>2. QED
    BY <1>18, <1>0, <2>1, AnswersKept DEF PollRaises, pool, waiting, Raise, CallEnds
<1>19. CASE PollTick
  <2>1. Heard' = Heard
    BY <1>19 DEF PollTick, Heard, pool
  <2>2. QED
    BY <1>19, <1>0, <2>1, AnswersKept DEF PollTick, pool, waiting, CallEnds
<1>20. CASE PollNone
  <2>1. Heard' = Heard
    BY <1>20 DEF PollNone, Heard, pool
  <2>2. QED
    BY <1>20, <1>0, <2>1, AnswersKept DEF PollNone, pool, waiting, CallEnds
<1>21. CASE UNCHANGED vars
  <2>1. Heard' = Heard
    BY <1>21 DEF vars, Heard, pool
  <2>2. QED
    BY <1>21, <1>0, <2>1, AnswersKept DEF vars, pool, waiting, CallEnds
<1>22. QED
  BY <1>1, <1>2, <1>3, <1>4, <1>5, <1>6, <1>7, <1>8, <1>9, <1>10, <1>11, 
     <1>12, <1>13, <1>14, <1>15, <1>16, <1>17, <1>18, <1>19, <1>20, <1>21
     DEF Next, Pool, RequestCall, PollCall

\* ShareGetsOwnVerdict.
LEMMA VerdictStep ==
    Types /\ AnswersInv /\ ShareGetsOwnVerdict /\ [Next]_vars => ShareGetsOwnVerdict'
<1> SUFFICES ASSUME Types /\ AnswersInv /\ ShareGetsOwnVerdict, [Next]_vars
             PROVE  ShareGetsOwnVerdict'
  OBVIOUS
<1> USE DEF ShareGetsOwnVerdict, vars, session, waiting, pool, returned
<1>1. CASE PoolNotifies
  BY <1>1 DEF PoolNotifies, Push
<1>2. CASE PoolDisturbs
  BY <1>2 DEF PoolDisturbs, Push
<1>3. CASE PoolAnswers
  BY <1>3 DEF PoolAnswers
<1>4. CASE Connect
  BY <1>4 DEF Connect
<1>5. CASE Close
  BY <1>5 DEF Close
<1>6. ASSUME NEW method \in Methods, Request(method)
      PROVE  ShareGetsOwnVerdict'
  BY <1>6 DEF Request
<1>7. ASSUME NEW method \in Methods, RequestNotSent(method)
      PROVE  ShareGetsOwnVerdict'
  BY <1>7 DEF RequestNotSent
<1>8. CASE WaitQueues
  BY <1>8 DEF WaitQueues
<1>9. CASE Subscribed
  BY <1>9 DEF Subscribed
<1>10. CASE Authorized
  BY <1>10 DEF Authorized
<1>11. CASE Submitted
  <2>1. /\ call = "submit" /\ wire[1] = Head(wire) /\ wire[1].kind = "response"
        /\ wire[1] \in Heard /\ wire[1].number = request.id
    BY <1>11, TakeFacts DEF Submitted, Heard, IsAnswer
  <2>2. AnswerSound(wire[1])
    BY <2>1 DEF AnswersInv, Methods
  <2>3. <<request.share, wire[1].result>> \in verdicts
    BY <2>1, <2>2 DEF AnswerSound
  <2>4. QED
    BY <1>11, <2>1, <2>3 DEF Submitted
<1>12. CASE ResponseRaises
  BY <1>12 DEF ResponseRaises
<1>13. CASE ReceiveRaises
  BY <1>13 DEF ReceiveRaises
<1>14. ASSUME NEW t \in PollTimeouts \cup {None}, PollBegins(t)
      PROVE  ShareGetsOwnVerdict'
  BY <1>14 DEF PollBegins
<1>15. CASE PollQueued
  BY <1>15 DEF PollQueued
<1>16. CASE PollDelivers
  BY <1>16 DEF PollDelivers
<1>17. CASE PollSkips
  BY <1>17 DEF PollSkips
<1>18. CASE PollRaises
  BY <1>18 DEF PollRaises
<1>19. CASE PollTick
  BY <1>19 DEF PollTick
<1>20. CASE PollNone
  BY <1>20 DEF PollNone
<1>21. CASE UNCHANGED vars
  BY <1>21
<1>22. QED
  BY <1>1, <1>2, <1>3, <1>4, <1>5, <1>6, <1>7, <1>8, <1>9, <1>10, <1>11, 
     <1>12, <1>13, <1>14, <1>15, <1>16, <1>17, <1>18, <1>19, <1>20, <1>21
     DEF Next, Pool, RequestCall, PollCall

\* Nothing is queued while a poll reads the transport.
LEMMA PollStep ==
    Types /\ PollInv /\ [Next]_vars => PollInv'
<1> SUFFICES ASSUME Types /\ PollInv, [Next]_vars
             PROVE  PollInv'
  OBVIOUS
<1> USE DEF PollInv, vars, session, waiting, pool, returned
<1>1. CASE PoolNotifies
  BY <1>1 DEF PoolNotifies, Push
<1>2. CASE PoolDisturbs
  BY <1>2 DEF PoolDisturbs, Push
<1>3. CASE PoolAnswers
  BY <1>3 DEF PoolAnswers, CallEnds
<1>4. CASE Connect
  BY <1>4 DEF Connect, CallEnds
<1>5. CASE Close
  BY <1>5 DEF Close, Reset
<1>6. ASSUME NEW method \in Methods, Request(method)
      PROVE  PollInv'
  BY <1>6 DEF Request, Methods
<1>7. ASSUME NEW method \in Methods, RequestNotSent(method)
      PROVE  PollInv'
  BY <1>7, RaiseFacts DEF RequestNotSent
<1>8. CASE WaitQueues
  BY <1>8 DEF WaitQueues, Methods
<1>9. CASE Subscribed
  BY <1>9 DEF Subscribed, CallEnds
<1>10. CASE Authorized
  BY <1>10 DEF Authorized, CallEnds
<1>11. CASE Submitted
  BY <1>11 DEF Submitted, CallEnds
<1>12. CASE ResponseRaises
  BY <1>12, RaiseFacts DEF ResponseRaises
<1>13. CASE ReceiveRaises
  BY <1>13, RaiseFacts DEF ReceiveRaises
<1>14. ASSUME NEW t \in PollTimeouts \cup {None}, PollBegins(t)
      PROVE  PollInv'
  BY <1>14 DEF PollBegins, CallEnds
<1>15. CASE PollQueued
  BY <1>15 DEF PollQueued, CallEnds
<1>16. CASE PollDelivers
  BY <1>16 DEF PollDelivers, CallEnds
<1>17. CASE PollSkips
  BY <1>17 DEF PollSkips, CallEnds
<1>18. CASE PollRaises
  BY <1>18, RaiseFacts DEF PollRaises
<1>19. CASE PollTick
  BY <1>19 DEF PollTick, CallEnds
<1>20. CASE PollNone
  BY <1>20 DEF PollNone, CallEnds
<1>21. CASE UNCHANGED vars
  BY <1>21
<1>22. QED
  BY <1>1, <1>2, <1>3, <1>4, <1>5, <1>6, <1>7, <1>8, <1>9, <1>10, <1>11, 
     <1>12, <1>13, <1>14, <1>15, <1>16, <1>17, <1>18, <1>19, <1>20, <1>21
     DEF Next, Pool, RequestCall, PollCall

\* What the client has taken of the connection's notifications.
Taken == polled \o notifications

LEMMA OrderForm ==
    NotificationsInOrder <=> IF open THEN InOrder(Taken, wire, announced)
                                     ELSE notifications = <<>>
  BY DEF NotificationsInOrder, InOrder, Taken

LEMMA OrderFormNext ==
    NotificationsInOrder' <=> IF open' THEN InOrder(Taken', wire', announced')
                                       ELSE notifications' = <<>>
  BY DEF NotificationsInOrder, InOrder, Taken

\* An exception leaves the order alone, or ends the connection.
LEMMA RaiseOrder ==
    ASSUME Raise, open \/ notifications = <<>>,
           open => InOrder(Taken, wire', announced), UNCHANGED <<polled, announced>>
    PROVE  NotificationsInOrder'
<1>1. CASE handshaking
  BY <1>1, OrderFormNext DEF Raise, Reset
<1>2. CASE ~handshaking
  <2>1. UNCHANGED <<open, notifications>> /\ Taken' = Taken
    BY <1>2 DEF Raise, session, Taken
  <2>2. QED
    BY <2>1, OrderFormNext
<1>3. QED
  BY <1>1, <1>2

\* NotificationsInOrder.
LEMMA OrderStep ==
    Types /\ CallInv /\ PollInv /\ SessionConsistent /\ AnswersInv
      /\ NotificationsInOrder /\ [Next]_vars => NotificationsInOrder'
<1> SUFFICES ASSUME Types, CallInv, PollInv, SessionConsistent, AnswersInv,
                    NotificationsInOrder, [Next]_vars
             PROVE  NotificationsInOrder'
  OBVIOUS
<1>a. /\ notifications \in Seq(Messages) /\ polled \in Seq(Messages)
      /\ wire \in Seq(Messages) /\ announced \in Seq(Messages) /\ Taken \in Seq(Messages)
  BY DEF Types, Taken
<1>b. IF open THEN InOrder(Taken, wire, announced) ELSE notifications = <<>>
  BY OrderForm
<1>c. state # "DISCONNECTED" => open
  BY DEF SessionConsistent
<1>d. /\ call \in Methods => state # "DISCONNECTED"
      /\ call = "poll" => state # "DISCONNECTED" /\ notifications = <<>>
  BY DEF CallInv, PollInv, Methods, Required
<1>1. CASE PoolNotifies
  <2>1. PICK m \in Messages : /\ IsNotification(m) /\ Push(m)
                              /\ announced' = Append(announced, m)
    BY <1>1, SentMessages DEF PoolNotifies, Message, IsNotification
  <2>2. open /\ wire' = Append(wire, m) /\ UNCHANGED <<open, polled, notifications>>
    BY <2>1 DEF Push, session, returned
  <2>3. InOrder(Taken, wire', announced')
    BY <1>a, <1>b, <2>1, <2>2, OrderSent
  <2>4. QED
    BY <2>2, <2>3, OrderFormNext DEF Taken
<1>2. CASE PoolDisturbs
  <2>1. PICK m \in {Message("informational", 0), Message("garbage", 0)} \cup answered :
          Push(m)
    BY <1>2 DEF PoolDisturbs
  <2>2. m \in Messages /\ ~IsNotification(m)
    BY SentMessages DEF Message, IsNotification, Types, AnswersInv
  <2>3. /\ open /\ wire' = Append(wire, m)
        /\ UNCHANGED <<open, polled, notifications, announced>>
    BY <1>2, <2>1 DEF PoolDisturbs, Push, session, returned
  <2>4. InOrder(Taken, wire', announced)
    BY <1>a, <1>b, <2>2, <2>3, OrderOther
  <2>5. QED
    BY <2>3, <2>4, OrderFormNext DEF Taken
<1>3. CASE PoolAnswers
  <2>1. PICK m \in Messages : ~IsNotification(m) /\ wire' = Append(wire, m)
    <3>1. PICK r \in unanswered : \E result \in Results(r.method) :
            wire' = Append(wire, Response(r.id, result))
      BY <1>3 DEF PoolAnswers
    <3>2. QED
      BY <3>1, SentMessages DEF Response, IsNotification
  <2>2. open /\ UNCHANGED <<open, polled, notifications, announced>>
    BY <1>3 DEF PoolAnswers, session, returned
  <2>3. InOrder(Taken, wire', announced)
    BY <1>a, <1>b, <2>1, <2>2, OrderOther
  <2>4. QED
    BY <2>2, <2>3, OrderFormNext DEF Taken
<1>4. CASE Connect
  <2>1. notifications = <<>>
    BY <1>4, <1>b DEF Connect, SessionConsistent
  <2>2. /\ notifications' = <<>> /\ polled' = <<>> /\ wire' = <<>> /\ announced' = <<>>
        /\ open' = TRUE
    BY <1>4, <2>1 DEF Connect
  <2>3. Taken' = <<>>
    BY <2>2 DEF Taken
  <2>4. InOrder(<<>>, <<>>, <<>>)
    <3>1. PICK e : e = <<>>
      OBVIOUS
    <3>2. Len(e) = 0 /\ SubSeq(e, 1, 0) = e
      BY <3>1, SubSeqEmpty, EmptySeq
    <3>3. Len(e) <= Len(e) /\ SubSeq(e, 1, Len(e)) = e /\ SubSeq(e, Len(e) + 1, Len(e)) = e
      BY <3>1, <3>2, SubSeqEmpty
    <3>4. Carries(e, e)
      BY <3>1, CarriesNothing
    <3>5. InOrder(e, e, e)
      BY <3>3, <3>4 DEF InOrder
    <3>6. QED
      BY <3>1, <3>5
  <2>5. QED
    BY <2>2, <2>3, <2>4, OrderFormNext
<1>5. CASE Close
  BY <1>5, OrderFormNext DEF Close, Reset
<1>6. ASSUME NEW method \in Methods, Request(method)
      PROVE  NotificationsInOrder'
  <2>1. UNCHANGED <<open, polled, notifications, wire, announced>>
    BY <1>6 DEF Request, session, pool, returned
  <2>2. QED
    BY <1>b, <2>1, OrderFormNext DEF Taken
<1>7. ASSUME NEW method \in Methods, RequestNotSent(method)
      PROVE  NotificationsInOrder'
  <2>1. open => InOrder(Taken, wire', announced)
    BY <1>7, <1>b DEF RequestNotSent
  <2>2. QED
    BY <1>7, <1>b, <2>1, RaiseOrder DEF RequestNotSent, pool, returned
<1>8. CASE WaitQueues
  <2>1. open /\ UNCHANGED <<open, polled, announced>>
    BY <1>8, <1>c, <1>d DEF WaitQueues, pool, returned
  <2>2. CASE Take("notify") /\ Enqueue(Head(wire))
    <3>1. /\ wire # <<>> /\ IsNotification(wire[1]) /\ wire[1] \in Messages
          /\ wire' = Tail(wire) /\ notifications' = Append(notifications, wire[1])
      BY <2>2, TakeFacts DEF Enqueue, IsNotification
    <3>2. Taken' = Append(Taken, wire[1])
      BY <1>a, <2>1, <3>1 DEF Taken
    <3>3. InOrder(Taken', wire', announced)
      BY <1>a, <1>b, <2>1, <3>1, <3>2, OrderReceived
    <3>4. QED
      BY <2>1, <3>3, OrderFormNext
  <2>3. CASE Take("informational") /\ UNCHANGED notifications
    <3>1. wire # <<>> /\ ~IsNotification(wire[1]) /\ wire' = Tail(wire)
      BY <2>3, TakeFacts DEF IsNotification
    <3>2. InOrder(Taken, wire', announced)
      BY <1>a, <1>b, <2>1, <3>1, OrderOther
    <3>3. QED
      BY <2>1, <2>3, <3>2, OrderFormNext DEF Taken
  <2>4. QED
    BY <1>8, <2>2, <2>3 DEF WaitQueues
<1>9. CASE Subscribed
  <2>1. wire # <<>> /\ ~IsNotification(wire[1]) /\ wire' = Tail(wire) /\ open
    BY <1>9, <1>c, <1>d, TakeFacts DEF Subscribed, IsNotification, Methods
  <2>2. UNCHANGED <<open, polled, notifications, announced>>
    BY <1>9 DEF Subscribed, session, pool, returned
  <2>3. InOrder(Taken, wire', announced)
    BY <1>a, <1>b, <2>1, OrderOther
  <2>4. QED
    BY <2>1, <2>2, <2>3, OrderFormNext DEF Taken
<1>10. CASE Authorized
  <2>1. wire # <<>> /\ ~IsNotification(wire[1]) /\ wire' = Tail(wire) /\ open
    BY <1>10, <1>c, <1>d, TakeFacts DEF Authorized, IsNotification, Methods
  <2>2. UNCHANGED <<open, polled, notifications, announced>>
    BY <1>10 DEF Authorized, session, pool, returned
  <2>3. InOrder(Taken, wire', announced)
    BY <1>a, <1>b, <2>1, OrderOther
  <2>4. QED
    BY <2>1, <2>2, <2>3, OrderFormNext DEF Taken
<1>11. CASE Submitted
  <2>1. wire # <<>> /\ ~IsNotification(wire[1]) /\ wire' = Tail(wire) /\ open
    BY <1>11, <1>c, <1>d, TakeFacts DEF Submitted, IsNotification, Methods
  <2>2. UNCHANGED <<open, polled, notifications, announced>>
    BY <1>11 DEF Submitted, session, pool, returned
  <2>3. InOrder(Taken, wire', announced)
    BY <1>a, <1>b, <2>1, OrderOther
  <2>4. QED
    BY <2>1, <2>2, <2>3, OrderFormNext DEF Taken
<1>12. CASE ResponseRaises
  <2>1. wire # <<>> /\ ~IsNotification(wire[1]) /\ wire' = Tail(wire)
    BY <1>12, TakeFacts DEF ResponseRaises, IsNotification
  <2>2. open => InOrder(Taken, wire', announced)
    BY <1>a, <1>b, <2>1, OrderOther
  <2>3. QED
    BY <1>12, <1>b, <2>2, RaiseOrder DEF ResponseRaises, pool, returned
<1>13. CASE ReceiveRaises
  <2>1. Raise /\ UNCHANGED announced
    BY <1>13 DEF ReceiveRaises, pool
  <2>2. CASE UNCHANGED <<wire, polled>>
    BY <1>b, <2>1, <2>2, RaiseOrder
  <2>3. CASE /\ call = "poll"
             /\ wire # <<>> /\ wire[1] \in Messages /\ wire' = Tail(wire)
             /\ polled' = IF IsNotification(wire[1]) THEN Append(polled, wire[1])
                          ELSE polled
    <3>1. open /\ notifications = <<>> /\ Taken = polled
      BY <1>a, <1>c, <1>d, <2>3 DEF Taken
    <3>2. InOrder(polled', wire', announced)
      <4>1. CASE IsNotification(wire[1])
        BY <1>a, <1>b, <2>3, <3>1, <4>1, OrderReceived
      <4>2. CASE ~IsNotification(wire[1])
        BY <1>a, <1>b, <2>3, <3>1, <4>2, OrderOther
      <4>3. QED
        BY <4>1, <4>2
    <3>3. notifications' = <<>>
      BY <2>1, <3>1 DEF Raise, Reset, session
    <3>4. polled' \in Seq(Messages) /\ Taken' = polled'
      BY <1>13, <3>3, PolledFacts DEF Taken
    <3>5. QED
      BY <2>1, <3>2, <3>3, <3>4, OrderFormNext
  <2>4. QED
    BY <1>13, <2>2, <2>3, PolledFacts
<1>14. ASSUME NEW t \in PollTimeouts \cup {None}, PollBegins(t)
      PROVE  NotificationsInOrder'
  <2>1. UNCHANGED <<open, polled, notifications, wire, announced>>
    BY <1>14 DEF PollBegins, session, pool, returned
  <2>2. QED
    BY <1>b, <2>1, OrderFormNext DEF Taken
<1>15. CASE PollQueued
  <2>1. /\ notifications # <<>> /\ polled' = Append(polled, notifications[1])
        /\ notifications' = Tail(notifications) /\ UNCHANGED <<open, wire, announced>>
    BY <1>15, <1>a DEF PollQueued, pool
  <2>2. Taken' = Taken
    BY <1>a, <2>1 DEF Taken
  <2>3. open
    BY <1>15, <1>c DEF PollQueued
  <2>4. QED
    BY <1>b, <2>1, <2>2, <2>3, OrderFormNext
<1>16. CASE PollDelivers
  <2>1. /\ wire # <<>> /\ IsNotification(wire[1]) /\ wire[1] \in Messages
        /\ wire' = Tail(wire) /\ polled' = Append(polled, wire[1])
        /\ open /\ notifications = <<>>
    BY <1>16, <1>c, <1>d, TakeFacts DEF PollDelivers, IsNotification
  <2>2. UNCHANGED <<open, notifications, announced>>
    BY <1>16 DEF PollDelivers, session, pool
  <2>3. Taken' = Append(Taken, wire[1])
    BY <1>a, <2>1, <2>2 DEF Taken
  <2>4. InOrder(Taken', wire', announced)
    BY <1>a, <1>b, <2>1, <2>3, OrderReceived
  <2>5. QED
    BY <2>1, <2>2, <2>4, OrderFormNext
<1>17. CASE PollSkips
  <2>1. wire # <<>> /\ ~IsNotification(wire[1]) /\ wire' = Tail(wire) /\ open
    BY <1>17, <1>c, <1>d, TakeFacts DEF PollSkips, IsNotification, Methods
  <2>2. UNCHANGED <<open, polled, notifications, announced>>
    BY <1>17 DEF PollSkips, session, pool, returned
  <2>3. InOrder(Taken, wire', announced)
    BY <1>a, <1>b, <2>1, OrderOther
  <2>4. QED
    BY <2>1, <2>2, <2>3, OrderFormNext DEF Taken
<1>18. CASE PollRaises
  <2>1. wire # <<>> /\ ~IsNotification(wire[1]) /\ wire' = Tail(wire)
    BY <1>18, TakeFacts DEF PollRaises, IsNotification
  <2>2. open => InOrder(Taken, wire', announced)
    BY <1>a, <1>b, <2>1, OrderOther
  <2>3. QED
    BY <1>18, <1>b, <2>2, RaiseOrder DEF PollRaises, pool, returned
<1>19. CASE PollTick
  <2>1. UNCHANGED <<open, polled, notifications, wire, announced>>
    BY <1>19 DEF PollTick, session, pool, returned
  <2>2. QED
    BY <1>b, <2>1, OrderFormNext DEF Taken
<1>20. CASE PollNone
  <2>1. UNCHANGED <<open, polled, notifications, wire, announced>>
    BY <1>20 DEF PollNone, session, pool, returned
  <2>2. QED
    BY <1>b, <2>1, OrderFormNext DEF Taken
<1>21. CASE UNCHANGED vars
  <2>1. UNCHANGED <<open, polled, notifications, wire, announced>>
    BY <1>21 DEF vars, session, pool, returned
  <2>2. QED
    BY <1>b, <2>1, OrderFormNext DEF Taken
<1>22. QED
  BY <1>1, <1>2, <1>3, <1>4, <1>5, <1>6, <1>7, <1>8, <1>9, <1>10, <1>11, 
     <1>12, <1>13, <1>14, <1>15, <1>16, <1>17, <1>18, <1>19, <1>20, <1>21
     DEF Next, Pool, RequestCall, PollCall

-------------------------------------------------------------------------------
(* The theorems                                                            *)

LEMMA InitInv == Init => IInv
<1> SUFFICES ASSUME Init PROVE IInv
  OBVIOUS
<1>1. Types
  <2>1. <<>> \in Seq(Messages)
    OBVIOUS
  <2>2. /\ notifications \in Seq(Messages) /\ wire \in Seq(Messages)
        /\ announced \in Seq(Messages) /\ polled \in Seq(Messages)
    BY <2>1 DEF Init
  <2>3. open \in BOOLEAN /\ handshaking \in BOOLEAN
    BY DEF Init
  <2>4. QED
    BY <2>2, <2>3 DEF Init, Types
<1>2. CallInv /\ PollInv /\ SessionConsistent /\ ShareGetsOwnVerdict
  BY DEF Init, CallInv, PollInv, SessionConsistent, ShareGetsOwnVerdict, Methods
<1>3. AnswersInv
  <2>1. Heard = {} /\ "none" \notin Methods
    BY DEF Init, Heard, Methods
  <2>2. QED
    BY <2>1 DEF Init, AnswersInv
<1>4. NotificationsInOrder
  BY OrderForm DEF Init
<1>5. QED
  BY <1>1, <1>2, <1>3, <1>4 DEF IInv

\* The inductive invariant holds: an answer goes with its request, a call with
\* the state it needs, and the queue with the wire.
THEOREM InductiveInvariant == Spec => []IInv
<1>1. IInv /\ [Next]_vars => IInv'
  BY TypesStep, CallStep, PollStep, SessionStep, AnswersStep, VerdictStep, OrderStep
     DEF IInv
<1>2. QED
  BY InitInv, <1>1, PTL DEF Spec

\* SessionConsistent: state, transport and pool agree, and only a pool that said
\* so has authorized the session, whatever is late, repeated or garbled.
THEOREM SessionConsistentHolds == Spec => []SessionConsistent
<1>1. IInv => SessionConsistent
  BY DEF IInv
<1>2. QED
  BY InductiveInvariant, <1>1, PTL

\* ShareGetsOwnVerdict: what submit_share returns is the pool's answer to that
\* very share.
THEOREM ShareGetsOwnVerdictHolds == Spec => []ShareGetsOwnVerdict
<1>1. IInv => ShareGetsOwnVerdict
  BY DEF IInv
<1>2. QED
  BY InductiveInvariant, <1>1, PTL

\* NotificationsInOrder: no notification of a connection is repeated, overtaken or
\* lost on its way through the wire, a waiting call and the queue, but for one a
\* poll took before it raised.
THEOREM NotificationsInOrderHolds == Spec => []NotificationsInOrder
<1>1. IInv => NotificationsInOrder
  BY DEF IInv
<1>2. QED
  BY InductiveInvariant, <1>1, PTL

===============================================================================
