------------------------- MODULE UpdateStream_proofs -------------------------
(***************************************************************************)
(* What is proved of one UpdateStore call, for every number of messages,   *)
(* every batch size and every channel capacity: types, the inductive       *)
(* invariant, and from it the honesty of the acknowledgements, how far an  *)
(* error is overtaken, that a call that is over begins at most one message *)
(* more, that a stream that ends with OK has answered everything, and that *)
(* the call implements ResponseStream.                                     *)
(***************************************************************************)
EXTENDS UpdateStream, SequenceTheorems, TLAPS

\* Every step of the call is one of these.
LEMMA NextCases ==
    ASSUME [Next]_vars
    PROVE  \/ ClientSend \/ ClientSendBad \/ ClientHalfClose
           \/ ClientRecv \/ ClientSeesEnd \/ ClientCancel
           \/ Read \/ ReadEnd \/ Reject \/ Accept \/ WriteField \/ WriteEnd
           \/ Send \/ SendFails
           \/ UNCHANGED vars
BY Zenon DEF Next, Client, Task, Rest

\* Taking the first of the queued answers.
LEMMA Taken ==
    ASSUME NEW q \in Seq(Messages), q # <<>>
    PROVE  /\ Tail(q) \in Seq(Messages)
           /\ Head(q) \in Messages
           /\ Head(q) = q[1]
           /\ Len(q) > 0
           /\ Len(Tail(q)) = Len(q) - 1
           /\ \A k \in 1 .. Len(q) - 1 : Tail(q)[k] = q[k + 1]
OBVIOUS

\* Adding an answer at the end.
LEMMA Added ==
    ASSUME NEW q \in Seq(Messages), NEW m \in Messages
    PROVE  /\ Append(q, m) \in Seq(Messages)
           /\ Len(Append(q, m)) = Len(q) + 1
           /\ \A k \in 1 .. Len(q) : Append(q, m)[k] = q[k]
           /\ Append(q, m)[Len(q) + 1] = m
BY AppendProperties

-----------------------------------------------------------------------------
(* Types.                                                                  *)

\* Every action of the client and of the task keeps the variables in their
\* sets; that an ok_count is one needs that it never runs ahead of the writes.
LEMMA TypeStep ==
    ASSUME TypeOK, StreamInvariant, [Next]_vars
    PROVE  TypeOK'
<1> USE StreamAssumption DEF StreamAssumption, TypeOK, Messages, clientVars,
                             writeVars
<1>1. CASE ClientSend
      BY <1>1 DEF ClientSend
<1>2. CASE ClientSendBad
      BY <1>2 DEF ClientSendBad
<1>3. CASE ClientHalfClose
      BY <1>3 DEF ClientHalfClose
<1>4. CASE ClientRecv
  <2>1. CASE verdict[Head(outq)] = "ok"
    <3>1. Head(outq) \in Messages /\ Tail(outq) \in Seq(Messages)
          BY <1>4, Taken DEF ClientRecv
    <3>2. Append(received, Head(outq)) \in Seq(Messages)
          BY <3>1, Added
    <3> QED BY <1>4, <2>1, <3>1, <3>2 DEF ClientRecv
  <2>2. CASE verdict[Head(outq)] = "error"
    <3>1. /\ phase' = "failed"
          /\ outq' = <<>>
          /\ left' = taken
          /\ UNCHANGED <<input, sent, bad, taken, task, wrote, count, verdict,
                         received>>
          BY <1>4, <2>2 DEF ClientRecv
    <3>2. outq' \in Seq(Messages)
          BY <3>1
    <3> QED BY <3>1, <3>2
  <2> QED BY <1>4, <2>1, <2>2 DEF ClientRecv
<1>5. CASE ClientSeesEnd
      BY <1>5 DEF ClientSeesEnd
<1>6. CASE ClientCancel
      BY <1>6 DEF ClientCancel
<1>7. CASE Read
  <2>1. taken' \in Messages /\ taken' = taken + 1
        BY <1>7 DEF Read
  <2>2. verdict' \in [Messages -> {"none", "ok", "error"}]
        BY <1>7 DEF Read
  <2>3. task' \in {"look", "send"}
        BY <1>7 DEF Read
  <2> QED BY <1>7, <2>1, <2>2, <2>3 DEF Read
<1>8. CASE ReadEnd
      BY <1>8 DEF ReadEnd
<1>9. CASE Reject
      BY <1>9 DEF Reject
<1>10. CASE Accept
      BY <1>10 DEF Accept
<1>11. CASE WriteField
  <2>1. /\ taken \in Messages
        /\ task = "write"
        /\ wrote[taken] < Batch
        /\ wrote' = [wrote EXCEPT ![taken] = wrote[taken] + 1]
        /\ task' \in {"write", "send"}
        /\ UNCHANGED <<phase, input, sent, bad, taken, outq, received, left>>
        BY <1>11 DEF WriteField
  <2>2. count[taken] = wrote[taken]
        BY <2>1 DEF StreamInvariant, Written
  <2>3. wrote' \in [Messages -> 0 .. Batch]
        BY <2>1
  <2>4. \/ count' = [count EXCEPT ![taken] = count[taken] + 1] /\ verdict' = verdict
        \/ verdict' = [verdict EXCEPT ![taken] = "ok"] /\ count' = count
        BY <1>11 DEF WriteField
  <2>5. /\ count' \in [Messages -> 0 .. Batch]
        /\ verdict' \in [Messages -> {"none", "ok", "error"}]
    <3>1. CASE count' = [count EXCEPT ![taken] = count[taken] + 1] /\ verdict' = verdict
      <4>1. count[taken] + 1 \in 0 .. Batch
            BY <2>1, <2>2
      <4> QED BY <3>1, <4>1
    <3>2. CASE verdict' = [verdict EXCEPT ![taken] = "ok"] /\ count' = count
          BY <3>2
    <3> QED BY <2>4, <3>1, <3>2
  <2> QED BY <2>1, <2>3, <2>5
<1>12. CASE WriteEnd
      BY <1>12 DEF WriteEnd
<1>13. CASE Send
  <2>1. Append(outq, taken) \in Seq(Messages)
        BY <1>13, Added DEF Send
  <2> QED BY <1>13, <2>1 DEF Send
<1>14. CASE SendFails
      BY <1>14 DEF SendFails
<1>15. CASE UNCHANGED vars
      BY <1>15 DEF vars
<1> QED BY <1>1, <1>2, <1>3, <1>4, <1>5, <1>6, <1>7, <1>8, <1>9, <1>10, <1>11,
           <1>12, <1>13, <1>14, <1>15, NextCases

-----------------------------------------------------------------------------
(* The invariant, action by action.                                        *)

\* The arithmetic is about these.
LEMMA Numbers ==
    ASSUME TypeOK
    PROVE  /\ sent \in Nat /\ taken \in Nat /\ left \in Nat
           /\ Len(outq) \in Nat /\ Len(received) \in Nat
           /\ OutCap \in Nat \ {0}
           /\ InHand \in {0, 1}
BY StreamAssumption DEF StreamAssumption, TypeOK, InHand

\* The client's own steps, which move nothing through the channel.
LEMMA SendingSteps ==
    ASSUME TypeOK, TypeOK', StreamInvariant,
           ClientSend \/ ClientSendBad \/ ClientHalfClose
    PROVE  StreamInvariant'
<1>1. /\ RxOpen /\ RxOpen' /\ input = "open"
      /\ sent <= sent'
      /\ UNCHANGED <<phase, taken, task, wrote, count, verdict, outq, received,
                     left>>
      BY Numbers DEF ClientSend, ClientSendBad, ClientHalfClose, RxOpen, writeVars
<1>2. task # "done" /\ input' # "reset"
      BY <1>1 DEF StreamInvariant, EndsInOrder, ClientSend, ClientSendBad,
                  ClientHalfClose
<1>3. HonestAnswers' /\ ErrorOvertaken' /\ Written' /\ Overtaken'
      BY <1>1 DEF StreamInvariant, HonestAnswers, ErrorOvertaken, Written,
                  Overtaken, RxOpen
<1>4. NothingForgotten' /\ OneLateMessage' /\ EndsInOrder'
      BY <1>1, <1>2 DEF NothingForgotten, OneLateMessage, EndsInOrder, RxOpen
<1>5. OneNumbering'
  <2>1. taken <= sent'
        BY <1>1, Numbers DEF StreamInvariant, OneNumbering, TypeOK
  <2> QED BY <1>1, <2>1 DEF StreamInvariant, OneNumbering, RxOpen, InHand
<1> QED BY <1>3, <1>4, <1>5 DEF StreamInvariant

\* An answer is read: it is the next one, or it is an error and the last.
LEMMA RecvStep ==
    ASSUME TypeOK, TypeOK', StreamInvariant, ClientRecv
    PROVE  StreamInvariant'
<1>1. /\ RxOpen
      /\ outq # <<>>
      /\ UNCHANGED <<input, sent, bad, taken, task, wrote, count, verdict>>
      BY DEF ClientRecv, clientVars, writeVars
<1>2. /\ Len(outq) > 0
      /\ Head(outq) = outq[1]
      /\ outq[1] \in Messages
      /\ outq[1] = Len(received) + 1
      BY <1>1, Taken, Numbers DEF TypeOK, StreamInvariant, OneNumbering
<1>3. Written'
      BY <1>1 DEF StreamInvariant, Written
<1>4. CASE verdict[Head(outq)] = "ok" /\ UNCHANGED <<phase, left>>
  <2>1. /\ received' = Append(received, outq[1])
        /\ outq' = Tail(outq)
        /\ RxOpen'
        BY <1>1, <1>2, <1>4 DEF ClientRecv, RxOpen
  <2>2. /\ Len(received') = Len(received) + 1
        /\ \A k \in 1 .. Len(received) : received'[k] = received[k]
        /\ received'[Len(received) + 1] = Len(received) + 1
        BY <2>1, <1>2, Added DEF TypeOK
  <2>3. /\ Len(outq') = Len(outq) - 1
        /\ \A k \in 1 .. Len(outq') : outq'[k] = outq[k + 1]
        BY <2>1, <1>1, Taken DEF TypeOK
  <2>4. HonestAnswers'
    <3> SUFFICES ASSUME NEW k \in 1 .. Len(received) + 1
                 PROVE  /\ received'[k] = k
                        /\ verdict[k] = "ok"
                        /\ count[k] <= wrote[k]
                        /\ wrote[k] <= count[k] + 1
        BY <1>1, <2>2 DEF HonestAnswers
    <3>1. CASE k \in 1 .. Len(received)
          BY <3>1, <2>2 DEF StreamInvariant, HonestAnswers
    <3>2. CASE k = Len(received) + 1
          BY <3>2, <1>2, <1>4, <2>2 DEF StreamInvariant, Written
    <3> QED BY <3>1, <3>2, Numbers
  <2>5. OneNumbering'
    <3>1. /\ taken' <= sent'
          /\ Len(outq') <= OutCap
          /\ \A k \in 1 .. Len(outq') : outq'[k] = Len(received') + k
          BY <1>1, <2>2, <2>3, Numbers DEF StreamInvariant, OneNumbering
    <3>2. /\ Len(received') + Len(outq') + InHand' = taken'
          /\ Len(received') <= taken'
          BY <1>1, <2>2, <2>3, <1>2, Numbers
          DEF StreamInvariant, OneNumbering, InHand
    <3> QED BY <3>1, <3>2 DEF OneNumbering
  <2>6. /\ ErrorOvertaken' /\ OneLateMessage' /\ NothingForgotten' /\ Overtaken'
        /\ EndsInOrder'
        BY <1>1, <1>4, <2>1 DEF StreamInvariant, ErrorOvertaken, OneLateMessage,
                                NothingForgotten, Overtaken, EndsInOrder, RxOpen
  <2> QED BY <1>3, <2>4, <2>5, <2>6 DEF StreamInvariant
<1>5. CASE verdict[Head(outq)] = "error"
  <2>1. /\ phase' = "failed" /\ ~RxOpen'
        /\ outq' = <<>>
        /\ left' = taken
        /\ received' = received
        BY <1>1, <1>5 DEF ClientRecv, RxOpen
  <2>2. HonestAnswers' /\ ErrorOvertaken' /\ NothingForgotten' /\ EndsInOrder'
        BY <1>1, <2>1 DEF StreamInvariant, HonestAnswers, ErrorOvertaken,
                          NothingForgotten, EndsInOrder
  <2>3. OneLateMessage' /\ Overtaken'
        BY <1>1, <2>1, Numbers DEF StreamInvariant, OneLateMessage, Overtaken
  <2>4. OneNumbering'
        BY <1>1, <2>1, Numbers DEF StreamInvariant, OneNumbering
  <2> QED BY <1>3, <2>2, <2>3, <2>4 DEF StreamInvariant
<1> QED BY <1>4, <1>5 DEF ClientRecv

\* The call ends for the client, by the end of its stream or by cancellation.
LEMMA EndSteps ==
    ASSUME TypeOK, TypeOK', StreamInvariant, ClientSeesEnd \/ ClientCancel
    PROVE  StreamInvariant'
<1>1. /\ RxOpen /\ ~RxOpen'
      /\ outq' = <<>>
      /\ left' = taken
      /\ UNCHANGED <<sent, bad, taken, task, wrote, count, verdict, received>>
      BY DEF ClientSeesEnd, ClientCancel, clientVars, writeVars, RxOpen
<1>2. NothingForgotten'
  <2>1. CASE ClientSeesEnd
    <3>1. outq = <<>> /\ task = "done"
          BY <2>1 DEF ClientSeesEnd
    <3>2. Len(outq) = 0 /\ InHand = 0
          BY <3>1 DEF InHand
    <3>3. Len(received) = taken /\ taken = sent
          BY <1>1, <3>1, <3>2, Numbers
          DEF StreamInvariant, OneNumbering, EndsInOrder
    <3> QED BY <1>1, <3>3 DEF NothingForgotten
  <2>2. CASE ClientCancel
        BY <2>2 DEF ClientCancel, NothingForgotten
  <2> QED BY <2>1, <2>2
<1>3. HonestAnswers' /\ ErrorOvertaken' /\ Written' /\ EndsInOrder'
      BY <1>1 DEF StreamInvariant, HonestAnswers, ErrorOvertaken, Written,
                  EndsInOrder
<1>4. OneLateMessage' /\ Overtaken'
      BY <1>1, Numbers DEF StreamInvariant, OneLateMessage, Overtaken
<1>5. OneNumbering'
      BY <1>1, Numbers DEF StreamInvariant, OneNumbering
<1> QED BY <1>2, <1>3, <1>4, <1>5 DEF StreamInvariant

\* A message is read. Before the end the channel bounds how many errors can
\* be queued in front of it, after the end it is the last.
LEMMA ReadStep ==
    ASSUME TypeOK, TypeOK', StreamInvariant, Read
    PROVE  StreamInvariant'
<1>1. /\ task = "read" /\ task' \in {"look", "send"}
      /\ taken < sent
      /\ taken' = taken + 1
      /\ UNCHANGED <<phase, input, sent, bad, wrote, count, outq, received, left>>
      /\ task' = "look" => verdict' = verdict
      /\ task' = "send" => verdict' = [verdict EXCEPT ![taken + 1] = "error"]
      BY DEF Read, clientVars
<1>2. /\ taken + 1 \in Messages
      /\ verdict[taken + 1] = "none"
      /\ wrote[taken + 1] = 0 /\ count[taken + 1] = 0
      BY <1>1, Numbers DEF StreamInvariant, Written, TypeOK, Messages
<1>3. \A m \in Messages : m # taken + 1 => verdict'[m] = verdict[m]
      BY <1>1, <1>2 DEF TypeOK
<1>4. HonestAnswers'
  <2>1. \A k \in 1 .. Len(received) : k # taken + 1 /\ k \in Messages
        BY Numbers, <1>1, StreamAssumption
        DEF StreamInvariant, OneNumbering, TypeOK, Messages, StreamAssumption
  <2> QED BY <2>1, <1>1, <1>3 DEF StreamInvariant, HonestAnswers
<1>5. ErrorOvertaken'
  <2> SUFFICES ASSUME NEW m \in Messages, verdict'[m] = "error"
               PROVE  taken + 1 <= m + OutCap
      BY <1>1 DEF ErrorOvertaken
  <2>1. CASE m = taken + 1
        BY <2>1, Numbers
  <2>2. CASE m # taken + 1
    <3>1. taken < m + OutCap
          BY <1>1, <1>3, <2>2 DEF StreamInvariant, Overtaken
    <3> QED BY <3>1, Numbers DEF Messages
  <2> QED BY <2>1, <2>2
<1>6. OneLateMessage' /\ NothingForgotten' /\ Overtaken' /\ EndsInOrder'
      BY <1>1, Numbers DEF StreamInvariant, OneLateMessage, NothingForgotten,
                           Overtaken, EndsInOrder, RxOpen
<1>7. OneNumbering'
  <2>1. InHand = 0 /\ InHand' = 1
        BY <1>1 DEF InHand
  <2> QED BY <1>1, <2>1, Numbers DEF StreamInvariant, OneNumbering, RxOpen
<1>8. Written'
  <2> SUFFICES ASSUME NEW m \in Messages
               PROVE  /\ m > taken + 1 => verdict'[m] = "none" /\ wrote[m] = 0
                                                             /\ count[m] = 0
                      /\ m = taken + 1 /\ task' \in {"look", "write"} =>
                              verdict'[m] = "none"
                      /\ m = taken + 1 => wrote[m] = 0 /\ count[m] = 0
                      /\ count[m] <= wrote[m]
                      /\ wrote[m] <= count[m] + 1
      BY <1>1 DEF Written
  <2>1. m > taken + 1 => m > taken /\ m # taken + 1
        BY Numbers DEF Messages
  <2> QED BY <2>1, <1>1, <1>2, <1>3 DEF StreamInvariant, Written
<1> QED BY <1>4, <1>5, <1>6, <1>7, <1>8 DEF StreamInvariant

\* The message in hand is looked at or written: only what belongs to it changes,
\* and it stays in hand.
LEMMA WriteSteps ==
    ASSUME TypeOK, TypeOK', StreamInvariant,
           Reject \/ Accept \/ WriteField \/ WriteEnd
    PROVE  StreamInvariant'
<1>1. /\ task \in {"look", "write"} /\ task' \in {"write", "send"}
      /\ taken \in Messages
      /\ UNCHANGED <<phase, input, sent, bad, taken, outq, received, left>>
      BY DEF Reject, Accept, WriteField, WriteEnd, clientVars, TypeOK
<1>2. /\ \A m \in Messages : m # taken => /\ verdict'[m] = verdict[m]
                                          /\ wrote'[m] = wrote[m]
                                          /\ count'[m] = count[m]
      /\ verdict'[taken] = "none" \/ task' = "send"
      /\ count'[taken] <= wrote'[taken] /\ wrote'[taken] <= count'[taken] + 1
      /\ task' = "write" => wrote'[taken] = count'[taken]
  <2>1. /\ verdict[taken] = "none"
        /\ wrote[taken] = count[taken]
        BY <1>1 DEF StreamInvariant, Written, TypeOK
  <2>2. wrote[taken] \in Nat /\ count[taken] \in Nat
        BY <1>1, StreamAssumption DEF TypeOK, StreamAssumption
  <2>3. CASE Reject
        BY <1>1, <2>1, <2>2, <2>3 DEF Reject, TypeOK
  <2>4. CASE Accept
        BY <1>1, <2>1, <2>2, <2>4 DEF Accept, writeVars
  <2>5. CASE WriteField
    <3>1. wrote' = [wrote EXCEPT ![taken] = wrote[taken] + 1]
          BY <2>5 DEF WriteField
    <3>2. CASE /\ count' = [count EXCEPT ![taken] = count[taken] + 1]
               /\ task' = "write" /\ verdict' = verdict
          BY <1>1, <2>1, <2>2, <3>1, <3>2 DEF TypeOK
    <3>3. CASE /\ count' = count /\ task' = "send"
               /\ verdict' = [verdict EXCEPT ![taken] = "ok"]
          BY <1>1, <2>1, <2>2, <3>1, <3>3 DEF TypeOK
    <3> QED BY <2>5, <3>2, <3>3 DEF WriteField
  <2>6. CASE WriteEnd
        BY <1>1, <2>1, <2>2, <2>6 DEF WriteEnd, TypeOK
  <2> QED BY <2>3, <2>4, <2>5, <2>6
<1>3. HonestAnswers'
  <2>1. \A k \in 1 .. Len(received) : k # taken /\ k \in Messages
    <3>1. Len(received) <= taken /\ taken <= MaxMsg
          BY <1>1 DEF StreamInvariant, OneNumbering, Messages
    <3>2. ASSUME NEW k \in 1 .. Len(received), k = taken
          PROVE  FALSE
      <4>1. verdict[k] = "ok"
            BY <3>2 DEF StreamInvariant, HonestAnswers
      <4>2. verdict[taken] = "none"
            BY <1>1 DEF StreamInvariant, Written
      <4> QED BY <3>2, <4>1, <4>2
    <3> QED BY <3>1, <3>2, Numbers, StreamAssumption DEF Messages, StreamAssumption
  <2> QED BY <2>1, <1>1, <1>2 DEF StreamInvariant, HonestAnswers
<1>4. ErrorOvertaken'
  <2> SUFFICES ASSUME NEW m \in Messages, verdict'[m] = "error"
               PROVE  taken <= m + OutCap
      BY <1>1 DEF ErrorOvertaken
  <2>1. CASE m = taken
        BY <2>1, Numbers
  <2>2. CASE m # taken
        BY <1>2, <2>2 DEF StreamInvariant, ErrorOvertaken
  <2> QED BY <2>1, <2>2
<1>5. OneLateMessage' /\ NothingForgotten' /\ Overtaken' /\ EndsInOrder'
      BY <1>1 DEF StreamInvariant, OneLateMessage, NothingForgotten, Overtaken,
                  EndsInOrder, RxOpen
<1>6. OneNumbering'
  <2>1. InHand = 1 /\ InHand' = 1
        BY <1>1 DEF InHand
  <2> QED BY <1>1, <2>1 DEF StreamInvariant, OneNumbering, RxOpen
<1>7. Written'
  <2> SUFFICES ASSUME NEW m \in Messages
               PROVE  /\ m > taken => verdict'[m] = "none" /\ wrote'[m] = 0
                                                           /\ count'[m] = 0
                      /\ m = taken /\ task' = "write" => verdict'[m] = "none"
                      /\ m = taken /\ task' = "write" => wrote'[m] = count'[m]
                      /\ count'[m] <= wrote'[m]
                      /\ wrote'[m] <= count'[m] + 1
      BY <1>1 DEF Written
  <2>1. CASE m = taken
        BY <1>2, <2>1, Numbers
  <2>2. CASE m # taken
        BY <1>1, <1>2, <2>2 DEF StreamInvariant, Written
  <2> QED BY <2>1, <2>2
<1> QED BY <1>3, <1>4, <1>5, <1>6, <1>7 DEF StreamInvariant

\* An answer is queued: an error in hand or before it is now overtaken by no
\* more than the channel holds.
LEMMA SendStep ==
    ASSUME TypeOK, TypeOK', StreamInvariant, Send
    PROVE  StreamInvariant'
<1>1. /\ task = "send" /\ task' = "read"
      /\ RxOpen /\ RxOpen'
      /\ Len(outq) < OutCap
      /\ outq' = Append(outq, taken)
      /\ taken \in Messages
      /\ UNCHANGED <<phase, input, sent, bad, taken, wrote, count, verdict,
                     received, left>>
      BY DEF Send, RxOpen, clientVars, writeVars, TypeOK
<1>2. /\ Len(outq') = Len(outq) + 1
      /\ \A k \in 1 .. Len(outq) : outq'[k] = outq[k]
      /\ outq'[Len(outq) + 1] = taken
      BY <1>1, Added DEF TypeOK
<1>3. Len(received) + Len(outq) + 1 = taken
      BY <1>1 DEF StreamInvariant, OneNumbering, InHand
<1>4. OneNumbering'
  <2>1. ASSUME NEW k \in 1 .. Len(outq) + 1
        PROVE  outq'[k] = Len(received) + k
    <3>1. CASE k \in 1 .. Len(outq)
          BY <3>1, <1>2 DEF StreamInvariant, OneNumbering
    <3>2. CASE k = Len(outq) + 1
          BY <3>2, <1>2, <1>3, Numbers
    <3> QED BY <3>1, <3>2, Numbers
  <2>2. InHand' = 0
        BY <1>1 DEF InHand
  <2> QED BY <1>1, <1>2, <1>3, <2>1, <2>2, Numbers DEF StreamInvariant, OneNumbering
<1>5. Overtaken'
  <2> SUFFICES ASSUME NEW m \in Messages, verdict[m] = "error"
               PROVE  taken < m + OutCap
      BY <1>1 DEF Overtaken
  <2>1. ~(m \in 1 .. Len(received))
        BY DEF StreamInvariant, HonestAnswers
  <2>2. m > Len(received)
        BY <2>1, Numbers DEF Messages
  <2> QED BY <1>1, <1>3, <2>2, Numbers DEF Messages
<1>6. /\ HonestAnswers' /\ ErrorOvertaken' /\ OneLateMessage' /\ NothingForgotten'
      /\ Written' /\ EndsInOrder'
      BY <1>1 DEF StreamInvariant, HonestAnswers, ErrorOvertaken, OneLateMessage,
                  NothingForgotten, Written, EndsInOrder, RxOpen
<1> QED BY <1>4, <1>5, <1>6 DEF StreamInvariant

\* The task leaves its loop.
LEMMA LeaveSteps ==
    ASSUME TypeOK, TypeOK', StreamInvariant, ReadEnd \/ SendFails
    PROVE  StreamInvariant'
<1>1. /\ task' = "done"
      /\ UNCHANGED <<phase, input, sent, bad, taken, wrote, count, verdict, outq,
                     received, left>>
      BY DEF ReadEnd, SendFails, clientVars, writeVars
<1>2. EndsInOrder'
  <2> SUFFICES ASSUME RxOpen
               PROVE  /\ input # "reset"
                      /\ input = "closed" /\ taken = sent
      BY <1>1 DEF EndsInOrder, RxOpen
  <2> QED BY DEF ReadEnd, SendFails, StreamInvariant, EndsInOrder
<1>3. OneNumbering'
  <2>1. RxOpen => ReadEnd
        BY DEF SendFails
  <2>2. ReadEnd => InHand = 0
        BY DEF ReadEnd, InHand
  <2>3. InHand' = 0
        BY <1>1 DEF InHand
  <2> QED BY <1>1, <2>1, <2>2, <2>3 DEF StreamInvariant, OneNumbering, RxOpen
<1>4. /\ HonestAnswers' /\ ErrorOvertaken' /\ OneLateMessage' /\ NothingForgotten'
      /\ Written' /\ Overtaken'
      BY <1>1 DEF StreamInvariant, HonestAnswers, ErrorOvertaken, OneLateMessage,
                  NothingForgotten, Written, Overtaken, RxOpen
<1> QED BY <1>2, <1>3, <1>4 DEF StreamInvariant

-----------------------------------------------------------------------------

\* A call begins within the invariant.
LEMMA InitHolds == Init => TypeOK /\ StreamInvariant
<1> SUFFICES ASSUME Init
             PROVE  TypeOK /\ StreamInvariant
    OBVIOUS
<1> USE StreamAssumption DEF StreamAssumption, Init
<1>1. TypeOK
      BY DEF TypeOK, Messages
<1>2. Len(outq) = 0 /\ Len(received) = 0
      OBVIOUS
<1>3. /\ HonestAnswers /\ ErrorOvertaken /\ OneLateMessage /\ NothingForgotten
      /\ Overtaken /\ EndsInOrder
      BY <1>2 DEF HonestAnswers, ErrorOvertaken, OneLateMessage, NothingForgotten,
                  Overtaken, EndsInOrder, RxOpen, Messages
<1>4. OneNumbering /\ Written
      BY <1>2 DEF OneNumbering, Written, InHand, Messages
<1> QED BY <1>1, <1>3, <1>4 DEF StreamInvariant

\* Every step keeps types and invariant.
LEMMA NextHolds == TypeOK /\ StreamInvariant /\ [Next]_vars
                       => TypeOK' /\ StreamInvariant'
<1> SUFFICES ASSUME TypeOK, StreamInvariant, [Next]_vars
             PROVE  TypeOK' /\ StreamInvariant'
    OBVIOUS
<1>1. TypeOK'
      BY TypeStep
<1>2. CASE UNCHANGED vars
  <2> USE <1>2 DEF vars
  <2>1. /\ HonestAnswers' /\ ErrorOvertaken' /\ OneLateMessage' /\ NothingForgotten'
        /\ Written' /\ Overtaken' /\ EndsInOrder'
        BY DEF StreamInvariant, HonestAnswers, ErrorOvertaken, OneLateMessage,
               NothingForgotten, Written, Overtaken, EndsInOrder, RxOpen
  <2>2. OneNumbering'
        BY DEF StreamInvariant, OneNumbering, RxOpen, InHand
  <2> QED BY <1>1, <2>1, <2>2 DEF StreamInvariant
<1> QED BY <1>1, <1>2, SendingSteps, RecvStep, EndSteps, ReadStep, WriteSteps,
           SendStep, LeaveSteps, NextCases

\* The inductive invariant of an UpdateStore call.
THEOREM UpdateStreams == Spec => []StreamInvariant
<1> QED BY InitHolds, NextHolds, PTL DEF Spec

\* The variables of a call always have their types.
THEOREM StreamTypes == Spec => []TypeOK
<1> QED BY InitHolds, NextHolds, PTL DEF Spec

\* What the client reads as acknowledged is written, in the order of its
\* messages, up to the one field whose answer was lost.
THEOREM Honest == Spec => []HonestAnswers
<1>1. StreamInvariant => HonestAnswers
      BY DEF StreamInvariant
<1> QED BY <1>1, UpdateStreams, PTL

\* An error is overtaken by no more messages than the channel holds answers.
THEOREM Overtaking == Spec => []ErrorOvertaken
<1>1. StreamInvariant => ErrorOvertaken
      BY DEF StreamInvariant
<1> QED BY <1>1, UpdateStreams, PTL

\* At most one message is begun when the call has ended.
THEOREM LateMessage == Spec => []OneLateMessage
<1>1. StreamInvariant => OneLateMessage
      BY DEF StreamInvariant
<1> QED BY <1>1, UpdateStreams, PTL

\* A stream that ends with OK has answered every message sent.
THEOREM NothingLeft == Spec => []NothingForgotten
<1>1. StreamInvariant => NothingForgotten
      BY DEF StreamInvariant
<1> QED BY <1>1, UpdateStreams, PTL

-----------------------------------------------------------------------------
(* Refinement.                                                             *)

\* Every step of the call is a step of the promise or leaves it alone.
LEMMA PromiseStep ==
    ASSUME TypeOK, StreamInvariant, [Next]_vars
    PROVE  [Promise!Next]_(Promise!vars)
<1> USE DEF Promise!Next, Promise!vars, Promise!Ask, Promise!Answer, Promise!End,
            RxOpen
<1>1. CASE ClientSend \/ ClientSendBad
      BY <1>1 DEF ClientSend, ClientSendBad
<1>2. CASE ClientHalfClose
      BY <1>2 DEF ClientHalfClose
<1>3. CASE ClientRecv
  <2>1. CASE verdict[Head(outq)] = "ok" /\ UNCHANGED phase
    <3>1. /\ RxOpen
          /\ outq # <<>>
          /\ received' = Append(received, Head(outq))
          /\ UNCHANGED sent
          BY <1>3, <2>1 DEF ClientRecv, clientVars
    <3>2. Len(outq) > 0 /\ Head(outq) = outq[1]
          BY <3>1, Taken DEF TypeOK
    <3>3. /\ outq[1] = Len(received) + 1
          /\ Len(received) < taken
          /\ taken <= sent
          BY <3>1, <3>2, Numbers DEF StreamInvariant, OneNumbering
    <3>4. Len(received) < sent
          BY <3>3, Numbers
    <3> QED BY <2>1, <3>1, <3>2, <3>3, <3>4
  <2>2. CASE verdict[Head(outq)] = "error"
        BY <1>3, <2>2 DEF ClientRecv, clientVars
  <2> QED BY <1>3, <2>1, <2>2 DEF ClientRecv
<1>4. CASE ClientSeesEnd \/ ClientCancel
      BY <1>4 DEF ClientSeesEnd, ClientCancel, clientVars
<1>5. CASE Read \/ ReadEnd \/ Reject \/ Accept \/ WriteField \/ WriteEnd
           \/ Send \/ SendFails
      BY <1>5 DEF Read, ReadEnd, Reject, Accept, WriteField, WriteEnd, Send,
                  SendFails, clientVars
<1>6. CASE UNCHANGED vars
      BY <1>6 DEF vars
<1> QED BY <1>1, <1>2, <1>3, <1>4, <1>5, <1>6, NextCases

\* An UpdateStore call implements the promise of ResponseStream.
THEOREM StreamImplementation == Spec => Implements
<1>1. Init => Promise!Init
      BY DEF Init, Promise!Init, RxOpen
<1>2. TypeOK /\ StreamInvariant /\ [Next]_vars => [Promise!Next]_(Promise!vars)
      BY PromiseStep
<1> QED BY <1>1, <1>2, StreamTypes, UpdateStreams, PTL
        DEF Spec, Implements, Promise!Spec
=============================================================================
