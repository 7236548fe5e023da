------------------------ MODULE StreamingCall_proofs -------------------------
(***************************************************************************)
(* What is proved of one StreamingRun call, for every number of requests,  *)
(* every "parallel" setting and every channel capacity, whether guests     *)
(* panic or not: type correctness, the inductive invariant of the          *)
(* pipeline, and from it the order of the responses, the bounds on guests  *)
(* in flight and on requests read ahead, that an end of stream without an  *)
(* error is no truncation, and that the pipeline implements the promise of *)
(* the call.                                                               *)
(*                                                                         *)
(* Then of guests on worker threads, for any number of calls, guests and   *)
(* threads: type correctness, and that a guest whose client has gone is    *)
(* resumed at most once more.                                              *)
(*                                                                         *)
(* And of the call together with its guests and those of other calls: the  *)
(* two parts do not disturb one another. Every step of the composition is  *)
(* a step of the pipeline or leaves it alone, and is a step of the guests  *)
(* or leaves them alone, so what is proved of each part holds of the       *)
(* whole.                                                                  *)
(*                                                                         *)
(* That guests end, and with them the fairness the pipeline asks for, is   *)
(* beyond these proofs.                                                    *)
(***************************************************************************)
EXTENDS StreamingCall, SequenceTheorems, FiniteSetTheorems, TLAPS

-----------------------------------------------------------------------------
(* The pipeline.                                                           *)

\* The capacity of the task channel is positive.
LEMMA ParNType == ParN \in Nat \ {0}
BY ConstantsAssumption DEF ConstantsAssumption, ParN

\* Every step of the call is one of these.
LEMMA NextCases ==
    ASSUME Next
    PROVE  \/ Configure \/ Refuse \/ NoConfig
           \/ ClientSend \/ ClientHalfClose \/ ClientCorrupt
           \/ ClientRecv \/ ClientSeesEnd \/ ClientCancel
           \/ DispRead \/ DispEnd \/ DispErr \/ DispSendErr
           \/ DispLaunch \/ DispStop
           \/ CollRecv \/ CollEnd \/ CollJoin \/ CollPanic
           \/ CollSend \/ CollSendClosed
           \/ (\E i \in Requests : TaskReturn(i) \/ TaskPanic(i))
           \/ ClkStop
           \/ UNCHANGED call
BY Zenon DEF Next, Handler, Client, Dispatcher, Collector, Guests, Threads, Rest, vars

-----------------------------------------------------------------------------
(* Types.                                                                  *)

\* TypeOK is inductive: every action of the handler, of its tasks and of the
\* client keeps the variables in their sets.
LEMMA TypeStep == TypeOK /\ [Next]_vars => TypeOK'
<1> SUFFICES ASSUME TypeOK, [Next]_vars
             PROVE  TypeOK'
    OBVIOUS
<1>0. held' \in BOOLEAN
      BY Zenon DEF TypeOK, Next, Handler, Client, Dispatcher, Collector, Guests,
                   TaskReturn, TaskPanic, ClkStop, Threads, Rest, vars
<1> USE ConstantsAssumption DEF ConstantsAssumption, TypeOK, Requests,
                                StatusItem, Phases, RxOpen
<1>1. CASE Configure
      BY <1>0, <1>1 DEF Configure
<1>2. CASE Refuse
      BY <1>0, <1>2 DEF Refuse
<1>3. CASE NoConfig
      BY <1>0, <1>3 DEF NoConfig
<1>4. CASE ClientSend
      BY <1>0, <1>4 DEF ClientSend
<1>5. CASE ClientHalfClose
      BY <1>0, <1>5 DEF ClientHalfClose
<1>6. CASE ClientCorrupt
      BY <1>0, <1>6 DEF ClientCorrupt
<1>7. CASE ClientSeesEnd
      BY <1>0, <1>7 DEF ClientSeesEnd
<1>8. CASE ClientCancel
      BY <1>0, <1>8 DEF ClientCancel
<1>9. CASE DispRead
      BY <1>0, <1>9 DEF DispRead
<1>10. CASE DispEnd
      BY <1>0, <1>10 DEF DispEnd
<1>11. CASE DispErr
      BY <1>0, <1>11 DEF DispErr
<1>12. CASE DispStop
      BY <1>0, <1>12 DEF DispStop
<1>13. CASE DispLaunch
      BY <1>0, <1>13 DEF DispLaunch
<1>14. CASE CollRecv
      BY <1>0, <1>14 DEF CollRecv
<1>15. CASE CollEnd
      BY <1>0, <1>15 DEF CollEnd
<1>16. CASE CollJoin
      BY <1>0, <1>16 DEF CollJoin
<1>17. CASE CollPanic
      BY <1>0, <1>17 DEF CollPanic
<1>18. CASE CollSend
      BY <1>0, <1>18 DEF CollSend
<1>19. CASE CollSendClosed
      BY <1>0, <1>19 DEF CollSendClosed
<1>20. CASE ClkStop
      BY <1>0, <1>20 DEF ClkStop
<1>21. CASE DispSendErr
  <2>1. CASE RxOpen
    <3>1. Append(outq, StatusItem) \in Seq(Requests \cup {StatusItem})
          BY AppendProperties
    <3> QED BY <1>0, <1>21, <2>1, <3>1 DEF DispSendErr
  <2>2. CASE ~RxOpen
        BY <1>0, <1>21, <2>2 DEF DispSendErr
  <2> QED BY <2>1, <2>2
<1>22. CASE ClientRecv
  <2>1. CASE Head(outq) = StatusItem
        BY <1>0, <1>22, <2>1 DEF ClientRecv
  <2>2. CASE Head(outq) # StatusItem
    <3>1. Head(outq) \in Requests /\ Tail(outq) \in Seq(Requests \cup {StatusItem})
          BY <1>22, <2>2 DEF ClientRecv
    <3>2. Append(received, Head(outq)) \in Seq(Requests)
          BY <3>1, AppendProperties
    <3> QED BY <1>0, <1>22, <2>2, <3>1, <3>2 DEF ClientRecv
  <2> QED BY <2>1, <2>2
<1>23. CASE \E i \in Requests : TaskReturn(i) \/ TaskPanic(i)
  <2>1. /\ UNCHANGED <<phase, input, sent, taken, disp, parq, coll, cur, outq,
                       clk, received>>
        /\ task' \in [Requests -> {"none", "running", "returned", "panicked"}]
        BY <1>23 DEF TaskReturn, TaskPanic
  <2> QED BY <1>0, <2>1
<1>24. CASE UNCHANGED call
      BY <1>0, <1>24 DEF call
<1> QED BY <1>1, <1>2, <1>3, <1>4, <1>5, <1>6, <1>7, <1>8, <1>9,
           <1>10, <1>11, <1>12, <1>13, <1>14, <1>15, <1>16, <1>17, <1>18,
           <1>19, <1>20, <1>21, <1>22, <1>23, <1>24, NextCases DEF vars

\* The variables of a call always have their types.
THEOREM TypeCorrect == Spec => []TypeOK
<1>1. Init => TypeOK
      BY ConstantsAssumption
      DEF ConstantsAssumption, Init, TypeOK, Requests, Phases
<1> QED BY <1>1, TypeStep, PTL DEF Spec

-----------------------------------------------------------------------------
(* Taking from and adding to a channel.                                    *)

\* What is left of a channel when its first entry is taken.
LEMMA Taken ==
    ASSUME NEW S, NEW q \in Seq(S), q # <<>>
    PROVE  /\ Tail(q) \in Seq(S)
           /\ Len(q) > 0
           /\ Len(Tail(q)) = Len(q) - 1
           /\ \A k \in 1 .. Len(q) - 1 : Tail(q)[k] = q[k + 1]
           /\ Head(q) = q[1]
           /\ Head(q) \in S
OBVIOUS

\* The arithmetic is about these.
LEMMA Numbers ==
    ASSUME TypeOK
    PROVE  /\ sent \in Nat /\ taken \in Nat /\ cur \in Nat
           /\ Len(parq) \in Nat /\ Len(outq) \in Nat /\ Len(received) \in Nat
           /\ OutCap \in Nat \ {0}
BY ConstantsAssumption DEF ConstantsAssumption, TypeOK

\* What a channel is when an entry is added.
LEMMA Added ==
    ASSUME NEW S, NEW q \in Seq(S), NEW e \in S
    PROVE  /\ Append(q, e) \in Seq(S)
           /\ Len(Append(q, e)) = Len(q) + 1
           /\ \A k \in 1 .. Len(q) : Append(q, e)[k] = q[k]
           /\ Append(q, e)[Len(q) + 1] = e
BY AppendProperties

-----------------------------------------------------------------------------
(* The steps that move something through the channels.                     *)

\* The client takes the next item of the response channel.
LEMMA RecvStep ==
    ASSUME TypeOK, TypeOK', PipelineInvariant, ClientRecv
    PROVE  PipelineInvariant'
<1>1. CASE Head(outq) = StatusItem
  <2>1. /\ phase' = "failed"
        /\ outq' = <<>>
        /\ UNCHANGED <<input, sent, taken, disp, parq, coll, cur, task, clk,
                       received>>
        BY <1>1 DEF ClientRecv
  <2>2. Setup' /\ OrderedResponses' /\ HandlesContinue' /\ NoSilentTruncation'
        BY <2>1 DEF PipelineInvariant, Setup, OrderedResponses, RxOpen, Running,
                    HandlesContinue, NoSilentTruncation, Running
  <2>3. QueueContinues' /\ Backlog'
    <3>1. Len(outq') = 0 /\ ~RxOpen' /\ RxOpen
          BY <2>1 DEF ClientRecv, RxOpen
    <3> QED BY <2>1, <3>1, Numbers DEF PipelineInvariant, QueueContinues, Backlog
  <2>4. RunningWindow'
        BY <2>1 DEF PipelineInvariant, RunningWindow, Running
  <2> QED BY <2>2, <2>3, <2>4 DEF PipelineInvariant
<1>2. CASE Head(outq) # StatusItem
  <2>1. /\ RxOpen /\ RxOpen'
        /\ received' = Append(received, Head(outq))
        /\ outq' = Tail(outq)
        /\ outq # <<>>
        /\ UNCHANGED <<phase, input, sent, taken, disp, parq, coll, cur, task,
                       clk>>
        BY <1>2 DEF ClientRecv, RxOpen
  <2>2. /\ Len(outq) > 0
        /\ Len(outq') = Len(outq) - 1
        /\ \A k \in 1 .. Len(outq') : outq'[k] = outq[k + 1]
        /\ outq[1] # StatusItem
        /\ outq[1] \in Requests
        BY <2>1, <1>2, Taken DEF TypeOK
  <2>3. outq[1] = Len(received) + 1
        BY <2>2 DEF PipelineInvariant, QueueContinues, NoStatusUpTo
  <2>4. /\ Len(received') = Len(received) + 1
        /\ \A k \in 1 .. Len(received) : received'[k] = received[k]
        /\ received'[Len(received) + 1] = Len(received) + 1
        BY <2>1, <2>2, <2>3, Taken, Added
  <2>5. OrderedResponses'
    <3>1. SUFFICES ASSUME NEW k \in 1 .. Len(received) + 1
                   PROVE  received'[k] = k
          BY <2>4 DEF OrderedResponses
    <3>2. k \in 1 .. Len(received) \/ k = Len(received) + 1
          BY Numbers
    <3> QED BY <2>4, <3>2 DEF PipelineInvariant, OrderedResponses
  <2>6. ASSUME NEW k \in 0 .. Len(outq'), NoStatusUpTo(k)'
        PROVE  NoStatusUpTo(k + 1)
    <3>1. SUFFICES ASSUME NEW j \in 1 .. k + 1
                   PROVE  outq[j] # StatusItem
          BY DEF NoStatusUpTo
    <3>2. CASE j = 1
          BY <3>2, <2>2
    <3>3. CASE j # 1
      <4>1. j - 1 \in 1 .. k /\ j - 1 \in 1 .. Len(outq') /\ (j - 1) + 1 = j
            BY <3>3, <2>2, Numbers
      <4>2. outq'[j - 1] # StatusItem
            BY <4>1, <2>6 DEF NoStatusUpTo
      <4> QED BY <4>1, <4>2, <2>2
    <3> QED BY <3>2, <3>3
  <2>7. QueueContinues'
    <3>1. ASSUME NEW k \in 1 .. Len(outq')
          PROVE  /\ outq'[k] <= cur'
                 /\ NoStatusUpTo(k)' => outq'[k] = Len(received') + k
          BY <2>1, <2>2, <2>4, <2>6, <3>1 DEF PipelineInvariant, QueueContinues
    <3>2. NoStatusUpTo(Len(outq))' => NoStatusUpTo(Len(outq))
          BY <2>2, <2>6
    <3>3. /\ Len(outq') \in Nat
          /\ Len(received) + Len(outq) = Len(received') + Len(outq')
          BY <2>2, <2>4
    <3> QED BY <2>1, <3>1, <3>2, <3>3 DEF PipelineInvariant, QueueContinues
  <2>8. Setup' /\ HandlesContinue' /\ NoSilentTruncation'
        BY <2>1, <2>2 DEF PipelineInvariant, Setup, RxOpen, Running,
                    HandlesContinue, NoSilentTruncation
  <2>9. Backlog'
        BY <2>1, <2>2, <2>4, Numbers DEF PipelineInvariant, Backlog
  <2>10. RunningWindow'
        BY <2>1 DEF PipelineInvariant, RunningWindow, Running
  <2> QED BY <2>5, <2>7, <2>8, <2>9, <2>10 DEF PipelineInvariant
<1> QED BY <1>1, <1>2

\* The client goes: the channel is dropped with what it holds.
LEMMA CancelStep ==
    ASSUME TypeOK, TypeOK', PipelineInvariant, ClientCancel
    PROVE  PipelineInvariant'
<1>1. /\ phase' = "cancelled" /\ ~RxOpen' /\ outq' = <<>>
      /\ UNCHANGED <<sent, taken, disp, parq, coll, cur, task, clk, received>>
      BY DEF ClientCancel, RxOpen
<1>2. Setup' /\ OrderedResponses' /\ HandlesContinue' /\ NoSilentTruncation'
      BY <1>1 DEF PipelineInvariant, Setup, OrderedResponses, RxOpen, Running,
                  HandlesContinue, NoSilentTruncation
<1>3. QueueContinues'
      BY <1>1 DEF PipelineInvariant, QueueContinues
<1>4. Backlog'
  <2>1. cur - Len(received) <= OutCap + (IF coll \in {"off", "recv"} THEN 0 ELSE 1)
        BY Numbers DEF PipelineInvariant, Backlog
  <2>2. Len(outq') = 0
        BY <1>1
  <2> QED BY <1>1, <2>1, <2>2, ConstantsAssumption DEF ConstantsAssumption, Backlog
<1>5. RunningWindow'
      BY <1>1 DEF PipelineInvariant, RunningWindow, Running
<1> QED BY <1>2, <1>3, <1>4, <1>5 DEF PipelineInvariant

\* A status is queued.
LEMMA SendErrStep ==
    ASSUME TypeOK, TypeOK', PipelineInvariant, DispSendErr
    PROVE  PipelineInvariant'
<1>1. /\ disp = "fail" /\ disp' \in {"failed", "done"}
      /\ UNCHANGED <<phase, input, sent, taken, parq, coll, cur, task, clk,
                     received>>
      BY DEF DispSendErr
<1>2. Setup' /\ OrderedResponses' /\ HandlesContinue' /\ NoSilentTruncation'
      BY <1>1 DEF PipelineInvariant, Setup, OrderedResponses, RxOpen, Running,
                  HandlesContinue, NoSilentTruncation
<1>3. RunningWindow'
      BY <1>1 DEF PipelineInvariant, RunningWindow, Running
<1>4. QueueContinues' /\ Backlog'
  <2>1. CASE RxOpen
    <3>1. outq' = Append(outq, StatusItem) /\ Len(outq) < OutCap
          BY <2>1 DEF DispSendErr
    <3>2. /\ Len(outq') = Len(outq) + 1
          /\ \A k \in 1 .. Len(outq) : outq'[k] = outq[k]
          /\ outq'[Len(outq) + 1] = StatusItem
          BY <3>1, Added
    <3>3. ASSUME NEW k \in 1 .. Len(outq), NoStatusUpTo(k)'
          PROVE  NoStatusUpTo(k)
      <4>1. SUFFICES ASSUME NEW j \in 1 .. k
                     PROVE  outq[j] # StatusItem
            BY DEF NoStatusUpTo
      <4>2. j \in 1 .. Len(outq)
            BY Numbers
      <4>3. outq'[j] # StatusItem
            BY <3>3 DEF NoStatusUpTo
      <4> QED BY <4>2, <4>3, <3>2
    <3>4. ASSUME NEW k, k = Len(outq) + 1
          PROVE  ~NoStatusUpTo(k)'
          BY <3>2, <3>4, Numbers DEF NoStatusUpTo
    <3>5. ASSUME NEW k \in 1 .. Len(outq) + 1
          PROVE  /\ outq'[k] <= cur'
                 /\ NoStatusUpTo(k)' => outq'[k] = Len(received') + k
      <4>1. CASE k \in 1 .. Len(outq)
            BY <1>1, <3>2, <3>3, <4>1 DEF PipelineInvariant, QueueContinues
      <4>2. CASE k = Len(outq) + 1
            BY <1>1, <3>2, <3>4, <4>2, Numbers DEF StatusItem
      <4> QED BY <4>1, <4>2, Numbers
    <3>6. ~NoStatusUpTo(Len(outq))'
          BY <3>2, <3>4
    <3>7. Backlog'
          BY <1>1, <2>1, <3>1, <3>2, Numbers DEF PipelineInvariant, Backlog, RxOpen
    <3> QED BY <1>1, <3>2, <3>5, <3>6, <3>7 DEF QueueContinues
  <2>2. CASE ~RxOpen
        BY <1>1, <2>2 DEF DispSendErr, PipelineInvariant, QueueContinues, Backlog,
                     NoStatusUpTo, RxOpen
  <2> QED BY <2>1, <2>2
<1> QED BY <1>2, <1>3, <1>4 DEF PipelineInvariant

\* A guest is spawned and its handle queued.
LEMMA LaunchStep ==
    ASSUME TypeOK, TypeOK', PipelineInvariant, DispLaunch
    PROVE  PipelineInvariant'
<1>1. /\ disp = "have" /\ disp' = "read" /\ coll # "done"
      /\ Len(parq) < ParN
      /\ parq' = Append(parq, taken)
      /\ task' = [task EXCEPT ![taken] = "running"]
      /\ UNCHANGED <<phase, input, sent, taken, coll, cur, outq, clk, received>>
      BY DEF DispLaunch
<1>2. taken \in Requests
      BY <1>1 DEF TypeOK
<1>3. /\ Len(parq') = Len(parq) + 1
      /\ \A k \in 1 .. Len(parq) : parq'[k] = parq[k]
      /\ parq'[Len(parq) + 1] = taken
      BY <1>1, <1>2, Added DEF TypeOK
<1>4. taken = cur + Len(parq) + 1
  <2>1. /\ cur + Len(parq) + 1 <= taken
        /\ taken <= cur + Len(parq) + 1
        BY <1>1 DEF PipelineInvariant, HandlesContinue
  <2> QED BY <2>1, Numbers
<1>5. coll # "off"
      BY <1>1 DEF PipelineInvariant, Setup
<1>6. Setup' /\ OrderedResponses' /\ NoSilentTruncation' /\ Backlog'
      BY <1>1, <1>5 DEF PipelineInvariant, Setup, OrderedResponses, RxOpen,
                        NoSilentTruncation, Backlog
<1>7. QueueContinues'
      BY <1>1 DEF PipelineInvariant, QueueContinues, NoStatusUpTo, RxOpen
<1>8. HandlesContinue'
  <2>1. ASSUME NEW k \in 1 .. Len(parq) + 1
        PROVE  parq'[k] = cur + k
    <3>1. CASE k \in 1 .. Len(parq)
          BY <1>3, <3>1 DEF PipelineInvariant, HandlesContinue
    <3>2. CASE k = Len(parq) + 1
          BY <1>3, <1>4, <3>2, Numbers
    <3> QED BY <3>1, <3>2, Numbers
  <2>2. Len(parq') <= ParN
        BY <1>1, <1>3, Numbers, ParNType
  <2>3. cur' + Len(parq') = taken' /\ taken' <= sent'
        BY <1>1, <1>3, <1>4, Numbers DEF PipelineInvariant, HandlesContinue
  <2> QED BY <1>1, <1>3, <2>1, <2>2, <2>3, Numbers DEF HandlesContinue
<1>9. RunningWindow'
  <2>1. SUFFICES ASSUME NEW i \in Requests, task'[i] = "running"
                 PROVE  /\ cur <= i
                        /\ i = cur => coll = "await"
                        /\ i <= cur + ParN
                        /\ i <= cur + Len(parq')
        BY <1>1 DEF RunningWindow, Running
  <2>2. CASE i = taken
        BY <1>1, <1>3, <1>4, <2>2, Numbers, ParNType
  <2>3. CASE i # taken
    <3>1. i \in Running
          BY <1>1, <2>1, <2>3 DEF TypeOK, Running
    <3> QED BY <1>1, <1>3, <3>1, Numbers
            DEF PipelineInvariant, RunningWindow, Requests
  <2> QED BY <2>2, <2>3
<1> QED BY <1>6, <1>7, <1>8, <1>9 DEF PipelineInvariant

\* The collector takes the next handle.
LEMMA CollRecvStep ==
    ASSUME TypeOK, TypeOK', PipelineInvariant, CollRecv
    PROVE  PipelineInvariant'
<1>1. /\ coll = "recv" /\ coll' = "await"
      /\ cur' = Head(parq)
      /\ parq' = Tail(parq)
      /\ parq # <<>>
      /\ UNCHANGED <<phase, input, sent, taken, disp, task, outq, clk, received>>
      BY DEF CollRecv
<1>2. /\ Len(parq) > 0
      /\ Len(parq') = Len(parq) - 1
      /\ \A k \in 1 .. Len(parq) - 1 : parq'[k] = parq[k + 1]
      /\ cur' = parq[1]
      BY <1>1, Taken DEF TypeOK
<1>3. cur' = cur + 1
      BY <1>2, Numbers DEF PipelineInvariant, HandlesContinue
<1>4. Setup' /\ OrderedResponses' /\ NoSilentTruncation'
      BY <1>1 DEF PipelineInvariant, Setup, OrderedResponses, RxOpen,
                  NoSilentTruncation
<1>5. QueueContinues'
  <2>1. ASSUME NEW k \in 1 .. Len(outq)
        PROVE  /\ outq[k] <= cur + 1
               /\ NoStatusUpTo(k) => outq[k] = Len(received) + k
    <3>1. outq[k] \in 0 .. MaxReq
          BY ConstantsAssumption
             DEF ConstantsAssumption, TypeOK, Requests, StatusItem
    <3> QED BY <3>1, Numbers DEF PipelineInvariant, QueueContinues
  <2> QED BY <1>1, <1>3, <2>1, Numbers
          DEF PipelineInvariant, QueueContinues, NoStatusUpTo, RxOpen
<1>6. HandlesContinue'
  <2>1. ASSUME NEW k \in 1 .. Len(parq) - 1
        PROVE  parq'[k] = cur + 1 + k
        BY <1>2, Numbers DEF PipelineInvariant, HandlesContinue
  <2>2. Len(parq') <= ParN
        BY <1>2, Numbers, ParNType DEF PipelineInvariant, HandlesContinue
  <2>3. cur' + Len(parq') = cur + Len(parq)
        BY <1>2, <1>3, Numbers
  <2> QED BY <1>1, <1>2, <1>3, <2>1, <2>2, <2>3, Numbers
          DEF PipelineInvariant, HandlesContinue
<1>7. Backlog'
      BY <1>1, <1>3, Numbers DEF PipelineInvariant, Backlog, RxOpen
<1>8. RunningWindow'
  <2>1. SUFFICES ASSUME NEW i \in Running
                 PROVE  /\ cur + 1 <= i
                        /\ i <= cur + 1 + ParN
                        /\ i <= cur + 1 + Len(parq')
        BY <1>1, <1>3 DEF RunningWindow, Running
  <2>2. /\ cur <= i /\ i # cur
        /\ i <= cur + ParN
        /\ i <= cur + Len(parq)
        BY <1>1 DEF PipelineInvariant, RunningWindow
  <2>3. i \in Int
        BY DEF Running, Requests
  <2> QED BY <1>2, <2>2, <2>3, Numbers, ParNType
<1> QED BY <1>4, <1>5, <1>6, <1>7, <1>8 DEF PipelineInvariant

\* The collector queues the response it has in hand.
LEMMA CollSendStep ==
    ASSUME TypeOK, TypeOK', PipelineInvariant, CollSend
    PROVE  PipelineInvariant'
<1>1. /\ coll = "send" /\ coll' = "recv"
      /\ RxOpen /\ RxOpen'
      /\ Len(outq) < OutCap
      /\ outq' = Append(outq, cur)
      /\ UNCHANGED <<phase, input, sent, taken, disp, parq, cur, task, clk,
                     received>>
      BY DEF CollSend, RxOpen
<1>2. /\ Len(outq') = Len(outq) + 1
      /\ \A k \in 1 .. Len(outq) : outq'[k] = outq[k]
      /\ outq'[Len(outq) + 1] = cur
  <2>1. cur \in Requests \cup {StatusItem}
        BY ConstantsAssumption
           DEF ConstantsAssumption, TypeOK, Requests, StatusItem
  <2> QED BY <1>1, <2>1, Added DEF TypeOK
<1>3. Setup' /\ OrderedResponses' /\ NoSilentTruncation' /\ HandlesContinue'
      BY <1>1 DEF PipelineInvariant, Setup, OrderedResponses, RxOpen, Running,
                  NoSilentTruncation, HandlesContinue
<1>4. QueueContinues'
  <2>1. ASSUME NEW k \in 0 .. Len(outq), NEW n \in k .. Len(outq) + 1,
               NoStatusUpTo(n)'
        PROVE  NoStatusUpTo(k)
    <3>1. SUFFICES ASSUME NEW j \in 1 .. k
                   PROVE  outq[j] # StatusItem
          BY DEF NoStatusUpTo
    <3>2. j \in 1 .. Len(outq) /\ j \in 1 .. n
          BY Numbers
    <3> QED BY <1>2, <2>1, <3>2 DEF NoStatusUpTo
  <2>2. NoStatusUpTo(Len(outq)) => Len(received) + Len(outq) + 1 = cur
        BY <1>1 DEF PipelineInvariant, QueueContinues
  <2>3. ASSUME NEW k \in 1 .. Len(outq) + 1
        PROVE  /\ outq'[k] <= cur'
               /\ NoStatusUpTo(k)' => outq'[k] = Len(received') + k
    <3>1. CASE k \in 1 .. Len(outq)
      <4>1. NoStatusUpTo(k)' => NoStatusUpTo(k)
            BY <2>1, <3>1, Numbers
      <4> QED BY <1>1, <1>2, <3>1, <4>1 DEF PipelineInvariant, QueueContinues
    <3>2. CASE k = Len(outq) + 1
      <4>1. NoStatusUpTo(k)' => NoStatusUpTo(Len(outq))
            BY <2>1, <3>2, Numbers
      <4> QED BY <1>1, <1>2, <2>2, <3>2, <4>1, Numbers
    <3> QED BY <3>1, <3>2, Numbers
  <2>4. NoStatusUpTo(Len(outq))' => Len(received') + Len(outq') = cur'
    <3>1. NoStatusUpTo(Len(outq))' => NoStatusUpTo(Len(outq))
          BY <1>2, <2>1, Numbers
    <3> QED BY <1>1, <1>2, <2>2, <3>1, Numbers
  <2> QED BY <1>1, <1>2, <2>3, <2>4 DEF QueueContinues
<1>5. Backlog'
      BY <1>1, <1>2, Numbers DEF PipelineInvariant, Backlog
<1>6. RunningWindow'
      BY <1>1 DEF PipelineInvariant, RunningWindow, Running
<1> QED BY <1>3, <1>4, <1>5, <1>6 DEF PipelineInvariant

-----------------------------------------------------------------------------
(* The invariant.                                                          *)

\* PipelineInvariant is inductive, relative to the types.
LEMMA PipelineStep ==
    ASSUME TypeOK, TypeOK', PipelineInvariant, [Next]_vars
    PROVE  PipelineInvariant'
<1> USE DEF PipelineInvariant, Setup, OrderedResponses, HandlesContinue, Backlog,
            RunningWindow, NoSilentTruncation, RxOpen, Running, Requests
<1>1. CASE Configure
      BY <1>1, Numbers, ParNType
         DEF TypeOK, QueueContinues, NoStatusUpTo, Configure
<1>2. CASE Refuse
      BY <1>2, Numbers, ParNType
         DEF TypeOK, QueueContinues, NoStatusUpTo, Refuse
<1>3. CASE NoConfig
  <2>1. QueueContinues'
        BY <1>3 DEF QueueContinues, NoStatusUpTo, NoConfig
  <2>2. HandlesContinue'
        BY <1>3, Numbers, ParNType DEF NoConfig
  <2>3. Setup' /\ OrderedResponses' /\ NoSilentTruncation'
        BY <1>3, Numbers DEF NoConfig
  <2>4. Backlog' /\ RunningWindow'
        BY <1>3, Numbers DEF NoConfig
  <2> QED BY <2>1, <2>2, <2>3, <2>4
<1>4. CASE ClientSend
  <2>1. QueueContinues'
        BY <1>4 DEF QueueContinues, NoStatusUpTo, ClientSend
  <2>2. HandlesContinue'
        BY <1>4, Numbers, ParNType DEF ClientSend
  <2>3. Setup' /\ OrderedResponses' /\ NoSilentTruncation'
        BY <1>4, Numbers DEF ClientSend
  <2>4. Backlog' /\ RunningWindow'
        BY <1>4, Numbers DEF ClientSend
  <2> QED BY <2>1, <2>2, <2>3, <2>4
<1>5. CASE ClientHalfClose
      BY <1>5, Numbers, ParNType
         DEF TypeOK, QueueContinues, NoStatusUpTo, ClientHalfClose
<1>6. CASE ClientCorrupt
  <2>1. QueueContinues'
        BY <1>6 DEF QueueContinues, NoStatusUpTo, ClientCorrupt
  <2>2. HandlesContinue'
        BY <1>6, Numbers, ParNType DEF ClientCorrupt
  <2>3. Setup' /\ OrderedResponses' /\ NoSilentTruncation'
        BY <1>6, Numbers DEF ClientCorrupt
  <2>4. Backlog' /\ RunningWindow'
        BY <1>6, Numbers DEF ClientCorrupt
  <2> QED BY <2>1, <2>2, <2>3, <2>4
<1>7. CASE ClientSeesEnd
  <2>1. QueueContinues'
        BY <1>7 DEF QueueContinues, NoStatusUpTo, ClientSeesEnd
  <2>2. HandlesContinue'
        BY <1>7, Numbers, ParNType DEF ClientSeesEnd
  <2>3. Setup' /\ OrderedResponses' /\ NoSilentTruncation'
        BY <1>7, Numbers DEF ClientSeesEnd, SenderHeld
  <2>4. Backlog' /\ RunningWindow'
        BY <1>7, Numbers DEF ClientSeesEnd
  <2> QED BY <2>1, <2>2, <2>3, <2>4
<1>8. CASE DispRead
  <2>1. QueueContinues'
        BY <1>8 DEF QueueContinues, NoStatusUpTo, DispRead
  <2>2. HandlesContinue'
        BY <1>8, Numbers, ParNType DEF DispRead
  <2>3. Setup' /\ OrderedResponses' /\ NoSilentTruncation'
        BY <1>8, Numbers DEF DispRead
  <2>4. Backlog' /\ RunningWindow'
        BY <1>8, Numbers DEF DispRead
  <2> QED BY <2>1, <2>2, <2>3, <2>4
<1>9. CASE DispEnd
  <2>1. QueueContinues'
        BY <1>9 DEF QueueContinues, NoStatusUpTo, DispEnd
  <2>2. HandlesContinue'
        BY <1>9, Numbers, ParNType DEF DispEnd
  <2>3. Setup' /\ OrderedResponses' /\ NoSilentTruncation'
        BY <1>9, Numbers DEF DispEnd
  <2>4. Backlog' /\ RunningWindow'
        BY <1>9, Numbers DEF DispEnd
  <2> QED BY <2>1, <2>2, <2>3, <2>4
<1>10. CASE DispErr
  <2>1. QueueContinues'
        BY <1>10 DEF QueueContinues, NoStatusUpTo, DispErr
  <2>2. HandlesContinue'
        BY <1>10, Numbers, ParNType DEF DispErr
  <2>3. Setup' /\ OrderedResponses' /\ NoSilentTruncation'
        BY <1>10, Numbers DEF DispErr
  <2>4. Backlog' /\ RunningWindow'
        BY <1>10, Numbers DEF DispErr
  <2> QED BY <2>1, <2>2, <2>3, <2>4
<1>11. CASE DispStop
  <2>1. QueueContinues'
        BY <1>11 DEF QueueContinues, NoStatusUpTo, DispStop
  <2>2. HandlesContinue'
        BY <1>11, Numbers, ParNType DEF DispStop
  <2>3. Setup' /\ OrderedResponses' /\ NoSilentTruncation'
        BY <1>11, Numbers DEF DispStop
  <2>4. Backlog' /\ RunningWindow'
        BY <1>11, Numbers DEF DispStop
  <2> QED BY <2>1, <2>2, <2>3, <2>4
<1>12. CASE CollEnd
      BY <1>12, Numbers, ParNType
         DEF TypeOK, QueueContinues, NoStatusUpTo, CollEnd
<1>13. CASE CollJoin
      BY <1>13, Numbers, ParNType
         DEF TypeOK, QueueContinues, NoStatusUpTo, CollJoin
<1>14. CASE CollPanic
      BY <1>14, Numbers, ParNType
         DEF TypeOK, QueueContinues, NoStatusUpTo, CollPanic
<1>15. CASE CollSendClosed
      BY <1>15, Numbers, ParNType
         DEF TypeOK, QueueContinues, NoStatusUpTo, CollSendClosed
<1>16. CASE ClkStop
      BY <1>16, Numbers, ParNType
         DEF TypeOK, QueueContinues, NoStatusUpTo, ClkStop
<1>17. CASE ClientRecv
      BY <1>17, RecvStep
<1>18. CASE ClientCancel
      BY <1>18, CancelStep
<1>19. CASE DispSendErr
      BY <1>19, SendErrStep
<1>20. CASE DispLaunch
      BY <1>20, LaunchStep
<1>21. CASE CollRecv
      BY <1>21, CollRecvStep
<1>22. CASE CollSend
      BY <1>22, CollSendStep
<1>23. CASE \E i \in Requests : TaskReturn(i) \/ TaskPanic(i)
  <2>1. /\ Running' \subseteq Running
        /\ UNCHANGED <<phase, input, sent, taken, disp, parq, coll, cur, outq,
                       clk, received>>
        BY <1>23 DEF TypeOK, TaskReturn, TaskPanic
  <2>2. QueueContinues'
        BY <2>1 DEF QueueContinues, NoStatusUpTo
  <2>3. RunningWindow'
        BY <2>1
  <2> QED BY <2>1, <2>2, <2>3
<1>24. CASE UNCHANGED call
      BY <1>24 DEF call, QueueContinues, NoStatusUpTo
<1> QED BY <1>1, <1>2, <1>3, <1>4, <1>5, <1>6, <1>7, <1>8, <1>9,
           <1>10, <1>11, <1>12, <1>13, <1>14, <1>15, <1>16, <1>17, <1>18,
           <1>19, <1>20, <1>21, <1>22, <1>23, <1>24, NextCases DEF vars

\* PipelineInvariant always holds: what has been read, what is queued and what
\* is in flight are three consecutive stretches of the requests' numbers.
THEOREM Pipeline == Spec => []PipelineInvariant
<1>1. Init => PipelineInvariant
      BY ConstantsAssumption, ParNType
         DEF ConstantsAssumption, Init, PipelineInvariant, Setup,
             OrderedResponses, QueueContinues, HandlesContinue, Backlog,
             RunningWindow, NoSilentTruncation, RxOpen, Running, Requests
<1>2. TypeOK /\ TypeOK' /\ PipelineInvariant /\ [Next]_vars
          => PipelineInvariant'
      BY PipelineStep
<1> QED BY <1>1, <1>2, TypeCorrect, PTL DEF Spec

\* The client reads the responses 1, 2, ..., n, whatever order the guests end
\* in and wherever the pipeline is when a guest panics or the client goes.
THEOREM Order == Spec => []OrderedResponses
<1>1. PipelineInvariant => OrderedResponses
      BY DEF PipelineInvariant
<1> QED BY <1>1, Pipeline, PTL

\* An end of stream without an error is no truncation.
THEOREM NoTruncation == Spec => []NoSilentTruncation
<1>1. PipelineInvariant => NoSilentTruncation
      BY DEF PipelineInvariant
<1> QED BY <1>1, Pipeline, PTL

\* At most one guest more than the session's limit is in flight: the guests
\* that run are within an interval of ParN + 1 numbers.
THEOREM InFlight == Spec => []InFlightBound
<1>1. TypeOK /\ PipelineInvariant => InFlightBound
  <2> SUFFICES ASSUME TypeOK, PipelineInvariant
               PROVE  InFlightBound
      OBVIOUS
  <2>1. Running \subseteq cur .. cur + ParN
        BY Numbers, ParNType
           DEF PipelineInvariant, RunningWindow, Running, Requests
  <2>2. cur \in Int /\ cur + ParN \in Int /\ cur <= cur + ParN
        BY Numbers, ParNType
  <2>3. /\ IsFiniteSet(cur .. cur + ParN)
        /\ Cardinality(cur .. cur + ParN) = ParN + 1
        BY <2>2, FS_Interval, ParNType
  <2>4. Cardinality(Running) <= Cardinality(cur .. cur + ParN)
        BY <2>1, <2>3, FS_Subset
  <2> QED BY <2>3, <2>4 DEF InFlightBound
<1> QED BY <1>1, TypeCorrect, Pipeline, PTL

\* The requests read and not yet answered are at most what the two channels
\* and the two tasks hold, though the client may never read.
THEOREM ReadAhead == Spec => []ReadAheadBound
<1>1. TypeOK /\ PipelineInvariant => ReadAheadBound
  <2> SUFFICES ASSUME TypeOK, PipelineInvariant
               PROVE  ReadAheadBound
      OBVIOUS
  <2>1. taken <= cur + ParN + 1
        BY Numbers, ParNType DEF PipelineInvariant, HandlesContinue
  <2>2. cur <= Len(received) + OutCap + 1
        BY Numbers DEF PipelineInvariant, Backlog
  <2> QED BY <2>1, <2>2, Numbers, ParNType DEF ReadAheadBound
<1> QED BY <1>1, TypeCorrect, Pipeline, PTL

-----------------------------------------------------------------------------
(* The promise of the call.                                                *)

\* Every step of the pipeline is a step of the promise or invisible to it.
LEMMA PromiseStep ==
    ASSUME TypeOK, PipelineInvariant, [Next]_vars
    PROVE  [Promise!Next]_(Promise!vars)
<1> USE DEF Promise!Next, Promise!Ask, Promise!Answer, Promise!End, Promise!vars
<1>1. CASE ClientSend
      BY <1>1 DEF ClientSend, RxOpen
<1>2. CASE ClientRecv
  <2>1. CASE Head(outq) = StatusItem
        BY <1>2, <2>1 DEF ClientRecv, RxOpen
  <2>2. CASE Head(outq) # StatusItem
    <3>1. /\ outq # <<>> /\ phase = "streaming"
          /\ received' = Append(received, Head(outq))
          /\ UNCHANGED <<phase, sent>>
          BY <1>2, <2>2 DEF ClientRecv, RxOpen
    <3>2. Len(outq) > 0 /\ Head(outq) = outq[1]
          BY <3>1, Taken DEF TypeOK
    <3>3. outq[1] = Len(received) + 1 /\ outq[1] <= cur
          BY <2>2, <3>2, Numbers
             DEF PipelineInvariant, QueueContinues, NoStatusUpTo
    <3>4. cur <= sent
          BY Numbers DEF PipelineInvariant, HandlesContinue
    <3>5. Len(received) < sent
          BY <3>3, <3>4, Numbers
    <3> QED BY <3>1, <3>2, <3>3, <3>5
  <2> QED BY <2>1, <2>2
<1>3. CASE Refuse \/ ClientSeesEnd \/ ClientCancel
      BY <1>3 DEF Refuse, ClientSeesEnd, ClientCancel, RxOpen
<1>4. CASE Configure \/ NoConfig
      BY <1>4 DEF Configure, NoConfig
<1>5. CASE ClientHalfClose \/ ClientCorrupt
      BY <1>5 DEF ClientHalfClose, ClientCorrupt
<1>6. CASE DispRead \/ DispEnd \/ DispErr \/ DispSendErr \/ DispLaunch \/ DispStop
      BY <1>6 DEF DispRead, DispEnd, DispErr, DispSendErr, DispLaunch, DispStop
<1>7. CASE CollRecv \/ CollEnd \/ CollJoin \/ CollPanic \/ CollSend \/ CollSendClosed
      BY <1>7 DEF CollRecv, CollEnd, CollJoin, CollPanic, CollSend, CollSendClosed
<1>8. CASE \/ \E i \in Requests : TaskReturn(i) \/ TaskPanic(i)
           \/ ClkStop
      BY <1>8 DEF TaskReturn, TaskPanic, ClkStop
<1>9. CASE UNCHANGED call
      BY <1>9 DEF call
<1> QED BY <1>1, <1>2, <1>3, <1>4, <1>5, <1>6, <1>7, <1>8, <1>9, NextCases DEF vars

\* The pipeline implements the promise of the call: requests are answered in
\* their order, once each, and nothing is delivered after the end.
THEOREM Implementation == Spec => Implements
<1>1. Init => Promise!Init
      BY DEF Init, Promise!Init
<1>2. TypeOK /\ PipelineInvariant /\ [Next]_vars => [Promise!Next]_(Promise!vars)
      BY PromiseStep
<1> QED BY <1>1, <1>2, TypeCorrect, Pipeline, PTL
        DEF Spec, Implements, Promise!Spec

-----------------------------------------------------------------------------
(* The call with its guests.                                               *)

\* A guest that has been polled and has not ended is that of a task that runs, so
\* that its end is the return of its task.
Tied ==
    \A g \in Requests :
        pc[g] \in {"computing", "yielded", "waiting"} => task[g] = "running"

\* The clock runs only once the call is configured and its collector started.
ClockStarted ==
    /\ clk = "on" => coll # "off" /\ phase # "config"
    /\ phase = "config" => coll = "off"

CallInvariant ==
    /\ TypeOK
    /\ pc \in [AllGuests -> G!PCs]
    /\ Tied
    /\ ClockStarted

-----------------------------------------------------------------------------
(* What a step does to a guest.                                            *)

\* A step of a guest changes the place of no other guest.
LEMMA GuestMoves ==
    ASSUME NEW g \in AllGuests, pc \in [AllGuests -> G!PCs],
           \/ G!Poll(g)
           \/ G!EpochYield(g)
           \/ G!CallImport(g)
           \/ G!Finish(g)
    PROVE  \E p \in G!PCs \ {"new"} : pc' = [pc EXCEPT ![g] = p]
BY DEF G!Poll, G!PollReset, G!PollResume, G!PollWaiting, G!EpochYield,
       G!CallImport, G!Finish, G!Leaves, G!PCs

\* A step that leaves the call alone may change what strays hold.
LEMMA ThreadsStep ==
    ASSUME TypeOK, UNCHANGED call, HeldFollows
    PROVE  [Next]_vars
<1>1. held' \in BOOLEAN
      BY DEF HeldFollows, Held
<1>2. CASE held' = held
      BY <1>2 DEF vars
<1>3. CASE held' = ~held
      BY <1>3 DEF Threads, Next
<1> QED BY <1>1, <1>2, <1>3 DEF TypeOK

\* A step of a guest of the call is a step of its task, or leaves the pipeline
\* alone; the tasks of guests that go on still run.
LEMMA GuestStep ==
    ASSUME CallInvariant, NEW g \in AllGuests, UNCHANGED Pipe, Ending(g),
           Own(g) => task[g] = "running",
           NEW p \in G!PCs, pc' = [pc EXCEPT ![g] = p]
    PROVE  /\ [Next]_vars
           /\ pc' \in [AllGuests -> G!PCs] /\ Tied' /\ ClockStarted'
<1> USE DEF CallInvariant
<1>1. pc' \in [AllGuests -> G!PCs] /\ pc'[g] = p
      BY Zenon
<1>2. ClockStarted'
      BY DEF ClockStarted, Pipe
<1>3. CASE Own(g) /\ p = "ended"
  <2>1. TaskReturn(g)
        BY <1>1, <1>3 DEF Ending
  <2>2. task' = [task EXCEPT ![g] = "returned"]
        BY <2>1 DEF TaskReturn
  <2>3. [Next]_vars
        BY <1>3, <2>1 DEF Next, Guests, Own
  <2>4. Tied'
    <3>1. \A h \in Requests : h # g => pc'[h] = pc[h] /\ task'[h] = task[h]
          BY <2>2 DEF TypeOK, AllGuests
    <3> QED BY <1>1, <1>3, <3>1 DEF Tied
  <2> QED BY <1>1, <1>2, <2>3, <2>4
<1>4. CASE ~(Own(g) /\ p = "ended")
  <2>1. task' = task
        BY <1>1, <1>4 DEF Ending
  <2>2. [Next]_vars
        BY <2>1, ThreadsStep DEF call, Pipe, Ending
  <2>3. Tied'
    <3>1. \A h \in Requests : h # g => pc'[h] = pc[h]
          BY DEF AllGuests
    <3> QED BY <2>1, <3>1 DEF Tied, Own
  <2> QED BY <1>1, <1>2, <2>2, <2>3
<1> QED BY <1>3, <1>4

-----------------------------------------------------------------------------
(* What a step of the pipeline is to the guests.                           *)

\* What guests see of the pipeline: nothing, the going of its client, or that
\* its clock stops once the client has gone.
Unseen ==
    /\ phase \in {"config", "streaming"} <=> phase' \in {"config", "streaming"}
    /\ (clk = "on" \/ coll = "off") <=> (clk' = "on" \/ coll' = "off")

ClientGoes ==
    /\ phase \in {"config", "streaming"}
    /\ phase' \notin {"config", "streaming"}
    /\ UNCHANGED <<clk, coll>>

ClockStops ==
    /\ clk = "on" /\ clk' = "off"
    /\ coll # "off"
    /\ phase \notin {"config", "streaming"}
    /\ UNCHANGED <<phase, coll>>

LEMMA WhatGuestsSee ==
    ASSUME CallInvariant, PipelineActs
    PROVE  Unseen \/ ClientGoes \/ ClockStops
<1> USE DEF CallInvariant, ClockStarted, Unseen, ClientGoes, ClockStops
<1>1. CASE Handler
      BY <1>1 DEF Handler, Configure, Refuse, NoConfig, TypeOK
<1>2. CASE Client
      BY <1>2 DEF Client, ClientSend, ClientHalfClose, ClientCorrupt, ClientRecv,
                  ClientSeesEnd, ClientCancel, RxOpen
<1>3. CASE Dispatcher
      BY <1>3 DEF Dispatcher, DispRead, DispEnd, DispErr, DispSendErr, DispLaunch,
                  DispStop
<1>4. CASE Collector
      BY <1>4 DEF Collector, CollRecv, CollEnd, CollJoin, CollPanic, CollSend,
                  CollSendClosed
<1>5. CASE ClkStop
      BY <1>5 DEF ClkStop, RxOpen
<1> QED BY <1>1, <1>2, <1>3, <1>4, <1>5 DEF PipelineActs

\* It is a step of the guests' world, or none.
LEMMA PipelineIsGuestStep ==
    ASSUME CallInvariant, PipelineActs
    PROVE  [G!Next]_(G!vars)
<1>1. UNCHANGED <<guests, other>>
      BY DEF PipelineActs
<1>2. CASE Unseen
      BY <1>1, <1>2 DEF Unseen, guests, other, G!vars
<1>3. CASE ClientGoes
  <2>1. G!Close("own")
        BY <1>1, <1>3 DEF ClientGoes, guests, other, G!Close, Calls
  <2> QED BY <2>1 DEF G!Next, Calls
<1>4. CASE ClockStops
  <2>1. G!ClkStop("own")
        BY <1>1, <1>4 DEF ClockStops, guests, other, G!ClkStop, Calls
  <2> QED BY <2>1 DEF G!Next, Calls
<1> QED BY <1>2, <1>3, <1>4, WhatGuestsSee

\* The pipeline's own steps start guests and never end one.
LEMMA PipelineKeeps ==
    ASSUME CallInvariant, PipelineActs
    PROVE  /\ [Next]_vars
           /\ pc' = pc /\ Tied' /\ ClockStarted'
<1>1. Next
      BY DEF PipelineActs, Next
<1>2. pc' = pc
      BY DEF PipelineActs, guests
<1>3. \A i \in Requests : task[i] = "running" => task'[i] = "running"
  <2>1. CASE DispLaunch
        BY <2>1 DEF DispLaunch, CallInvariant, TypeOK
  <2>2. CASE ~DispLaunch
    <3>1. UNCHANGED task
          BY <2>2 DEF PipelineActs, Handler, Configure, Refuse, NoConfig, Client, ClientSend,
                      ClientHalfClose, ClientCorrupt, ClientRecv, ClientSeesEnd,
                      ClientCancel, Dispatcher, DispRead, DispEnd, DispErr,
                      DispSendErr, DispStop, Collector, CollRecv, CollEnd,
                      CollJoin, CollPanic, CollSend, CollSendClosed, ClkStop
    <3> QED BY <3>1
  <2> QED BY <2>1, <2>2
<1>4. Tied'
      BY <1>2, <1>3 DEF CallInvariant, Tied
<1>5. ClockStarted'
  <2> USE DEF CallInvariant, ClockStarted
  <2>1. CASE Handler
        BY <2>1 DEF Handler, Configure, Refuse, NoConfig
  <2>2. CASE Client
        BY <2>2 DEF Client, ClientSend, ClientHalfClose, ClientCorrupt, ClientRecv,
                    ClientSeesEnd, ClientCancel, RxOpen
  <2>3. CASE Dispatcher
        BY <2>3 DEF Dispatcher, DispRead, DispEnd, DispErr, DispSendErr, DispLaunch,
                    DispStop
  <2>4. CASE Collector
        BY <2>4 DEF Collector, CollRecv, CollEnd, CollJoin, CollPanic, CollSend,
                    CollSendClosed
  <2>5. CASE ClkStop
        BY <2>5 DEF ClkStop
  <2> QED BY <2>1, <2>2, <2>3, <2>4, <2>5 DEF PipelineActs
<1> QED BY <1>1, <1>2, <1>4, <1>5

-----------------------------------------------------------------------------
(* Every step of the composition.                                          *)

\* The invariant is inductive, and a step of the composition is one of each part
\* or leaves that part alone.
LEMMA CallStep ==
    ASSUME CallInvariant, [CallNext]_all
    PROVE  /\ CallInvariant'
           /\ [Next]_vars
           /\ [G!Next]_(G!vars)
<1> SUFFICES /\ [Next]_vars
             /\ pc' \in [AllGuests -> G!PCs] /\ Tied' /\ ClockStarted'
             /\ [G!Next]_(G!vars)
    BY TypeStep DEF CallInvariant
<1>1. CASE PipelineActs
      BY <1>1, PipelineKeeps, PipelineIsGuestStep DEF CallInvariant
<1>2. ASSUME NEW g \in AllGuests, Poll(g)
      PROVE  /\ [Next]_vars
             /\ pc' \in [AllGuests -> G!PCs] /\ Tied' /\ ClockStarted'
             /\ [G!Next]_(G!vars)
  <2>1. PICK p \in G!PCs \ {"new"} : pc' = [pc EXCEPT ![g] = p]
        BY <1>2, GuestMoves DEF Poll, CallInvariant
  <2>2. [Next]_vars /\ pc' \in [AllGuests -> G!PCs] /\ Tied' /\ ClockStarted'
        BY <1>2, <2>1, GuestStep DEF Poll, Spawned
  <2>3. G!Next
        BY <1>2 DEF Poll, G!Next
  <2> QED BY <2>2, <2>3
<1>3. ASSUME NEW g \in AllGuests, EpochYield(g) \/ ImportOrFinish(g)
      PROVE  /\ [Next]_vars
             /\ pc' \in [AllGuests -> G!PCs] /\ Tied' /\ ClockStarted'
             /\ [G!Next]_(G!vars)
  <2>1. PICK p \in G!PCs \ {"new"} : pc' = [pc EXCEPT ![g] = p]
        BY <1>3, GuestMoves DEF EpochYield, ImportOrFinish, CallInvariant
  <2>2. pc[g] = "computing"
        BY <1>3 DEF EpochYield, ImportOrFinish, G!EpochYield, G!CallImport, G!Finish
  <2>3. Own(g) => task[g] = "running"
        BY <2>2 DEF CallInvariant, Tied, Own
  <2>4. [Next]_vars /\ pc' \in [AllGuests -> G!PCs] /\ Tied' /\ ClockStarted'
        BY <1>3, <2>1, <2>3, GuestStep DEF EpochYield, ImportOrFinish
  <2>5. G!Next
        BY <1>3 DEF EpochYield, ImportOrFinish, G!Next, G!Guest
  <2> QED BY <2>4, <2>5
<1>4. ASSUME NEW g \in Requests, Panic(g)
      PROVE  /\ [Next]_vars
             /\ pc' \in [AllGuests -> G!PCs] /\ Tied' /\ ClockStarted'
             /\ [G!Next]_(G!vars)
  <2>1. Next
        BY <1>4 DEF Panic, Next, Guests
  <2>2. g \in AllGuests /\ pc' = [pc EXCEPT ![g] = "ended"]
        BY <1>4 DEF Panic, G!Finish, G!Leaves, AllGuests
  <2>3. pc' \in [AllGuests -> G!PCs]
        BY <2>2 DEF CallInvariant, G!PCs
  <2>4. Tied'
        BY <1>4, <2>2 DEF CallInvariant, TypeOK, Tied, Panic, TaskPanic, AllGuests
  <2>5. ClockStarted'
        BY <1>4 DEF CallInvariant, ClockStarted, Panic, TaskPanic
  <2>6. G!Next
        BY <1>4, <2>2 DEF Panic, G!Next, G!Guest
  <2> QED BY <2>1, <2>3, <2>4, <2>5, <2>6
<1>5. ASSUME UNCHANGED vars, UNCHANGED pc
      PROVE  /\ [Next]_vars
             /\ pc' \in [AllGuests -> G!PCs] /\ Tied' /\ ClockStarted'
      BY <1>5 DEF CallInvariant, Tied, ClockStarted, vars, call
<1>6. CASE \E g \in AllGuests : IoDone(g) \/ Expire(g)
      BY <1>5, <1>6 DEF IoDone, Expire, G!IoDone, G!Expire, G!Next
<1>7. CASE \E s \in Calls : Tick(s)
      BY <1>5, <1>7 DEF Tick, G!Tick, G!Next
<1>8. CASE \E s \in Others : OtherClose(s)
      BY <1>5, <1>8 DEF OtherClose, G!Close, G!Next, Calls
<1>10. CASE \E s \in Others : OtherClkStop(s)
  <2>1. UNCHANGED call /\ UNCHANGED pc /\ HeldFollows /\ G!Next
        BY <1>10 DEF OtherClkStop, G!ClkStop, G!Next, Calls
  <2>2. Tied' /\ ClockStarted'
        BY <2>1 DEF CallInvariant, Tied, ClockStarted, call
  <2> QED BY <2>1, <2>2, ThreadsStep DEF CallInvariant
<1>9. CASE UNCHANGED all
  <2>1. UNCHANGED vars /\ UNCHANGED pc /\ UNCHANGED G!vars
        BY <1>9 DEF all, guests, other, vars, call, G!vars
  <2> QED BY <1>5, <2>1
<1> QED BY <1>1, <1>2, <1>3, <1>4, <1>6, <1>7, <1>8, <1>9, <1>10 DEF CallNext, CallRest

\* It holds at the start, where both parts are at theirs.
LEMMA CallStart == CallInit => CallInvariant /\ Init /\ G!Init
<1> SUFFICES ASSUME CallInit
             PROVE  CallInvariant /\ Init /\ G!Init
    OBVIOUS
<1>1. TypeOK
      BY ConstantsAssumption
      DEF ConstantsAssumption, CallInit, Init, TypeOK, Requests, Phases
<1>2. Init /\ G!Init
      BY DEF CallInit
<1>3. pc \in [AllGuests -> G!PCs] /\ Tied
      BY <1>2 DEF G!Init, G!PCs, Tied, AllGuests
<1>4. ClockStarted
      BY <1>2 DEF Init, ClockStarted
<1> QED BY <1>1, <1>2, <1>3, <1>4 DEF CallInvariant

-----------------------------------------------------------------------------
(* The guests by themselves.                                               *)

\* What guests see of their calls, and the call each belongs to.
Gones == [s \in Calls |-> IF s = "own" THEN phase \notin {"config", "streaming"}
                                       ELSE otherClosed[s]]
Clocks == [s \in Calls |-> IF s = "own" THEN clk = "on" \/ coll = "off"
                                        ELSE otherClk[s]]
Belongs == [g \in AllGuests |-> IF Own(g) THEN "own" ELSE CallOf[g]]

\* The types of the guests' variables, and the bound on late slices together with
\* what a guest in its late slice will look at.
SliceInvariant ==
    /\ pc \in [AllGuests -> G!PCs]
    /\ due \in [AllGuests -> BOOLEAN]
    /\ expired \in [AllGuests -> BOOLEAN]
    /\ ioDone \in [AllGuests -> BOOLEAN]
    /\ sel \in [AllGuests -> {"guest", "closed"}]
    /\ late \in [AllGuests -> 0 .. 2]
    /\ Gones \in [Calls -> BOOLEAN]
    /\ Clocks \in [Calls -> BOOLEAN]
    /\ \A g \in AllGuests :
           /\ late[g] > 0 => Gones[Belongs[g]]
           /\ late[g] = 1 => pc[g] = "computing" /\ sel[g] = "guest"
           /\ late[g] <= 1

\* Every guest belongs to a call.
LEMMA GuestsBelong == Belongs \in [AllGuests -> Calls]
BY CallAssumption DEF CallAssumption, Belongs, AllGuests, Calls, Own

\* This is what GuestExecution says of types and late slices.
LEMMA SlicesAre == SliceInvariant <=> G!TypeOK /\ G!LateSlice
<1>1. \A g \in AllGuests : G!Gone(g) <=> Gones[Belongs[g]]
      BY DEF G!Gone, Gones, Belongs
<1>2. G!LateSlice <=>
          \A g \in AllGuests :
              /\ late[g] > 0 => Gones[Belongs[g]]
              /\ late[g] = 1 => pc[g] = "computing" /\ sel[g] = "guest"
              /\ late[g] <= 1
      BY <1>1 DEF G!LateSlice
<1>3. G!TypeOK <=>
          /\ pc \in [AllGuests -> G!PCs]
          /\ due \in [AllGuests -> BOOLEAN]
          /\ expired \in [AllGuests -> BOOLEAN]
          /\ ioDone \in [AllGuests -> BOOLEAN]
          /\ sel \in [AllGuests -> {"guest", "closed"}]
          /\ late \in [AllGuests -> 0 .. 2]
          /\ Gones \in [Calls -> BOOLEAN]
          /\ Clocks \in [Calls -> BOOLEAN]
      BY Zenon DEF G!TypeOK, Gones, Clocks
<1> QED BY <1>2, <1>3, Zenon DEF SliceInvariant

\* Every step of the guests is one of these.
LEMMA GuestCases ==
    ASSUME G!Next
    PROVE  \/ \E g \in AllGuests : \/ G!PollReset(g) \/ G!PollResume(g) \/ G!PollWaiting(g)
                                   \/ G!EpochYield(g) \/ G!CallImport(g) \/ G!Finish(g)
                                   \/ G!IoDone(g) \/ G!Expire(g)
           \/ \E s \in Calls : G!Tick(s) \/ G!Close(s) \/ G!ClkStop(s)
           \/ UNCHANGED G!vars
BY DEF G!Next, G!Poll, G!Guest, G!AllOver

\* A guest that stops: it has no late slice, or its end has come.
LEMMA LeavesStep ==
    ASSUME SliceInvariant, NEW g \in AllGuests, NEW p \in G!PCs, G!Leaves(g, p),
           late[g] = 0 \/ p = "ended"
    PROVE  SliceInvariant'
<1> USE DEF SliceInvariant
<1>1. /\ pc' = [pc EXCEPT ![g] = p]
      /\ sel' = [sel EXCEPT ![g] = "guest"]
      BY DEF G!Leaves
<1>2. UNCHANGED <<Gones, Clocks>>
      BY DEF G!Leaves, Gones, Clocks
<1>3. /\ pc' \in [AllGuests -> G!PCs]
      /\ sel' \in [AllGuests -> {"guest", "closed"}]
      /\ Gones' \in [Calls -> BOOLEAN] /\ Clocks' \in [Calls -> BOOLEAN]
      /\ \A h \in AllGuests \ {g} : pc'[h] = pc[h] /\ sel'[h] = sel[h]
      /\ \A h \in AllGuests : Gones'[Belongs[h]] = Gones[Belongs[h]]
      BY <1>1, <1>2
<1>4. CASE p = "ended"
  <2>1. /\ due' = [due EXCEPT ![g] = FALSE]
        /\ expired' = [expired EXCEPT ![g] = FALSE]
        /\ ioDone' = [ioDone EXCEPT ![g] = FALSE]
        /\ late' = [late EXCEPT ![g] = 0]
        BY <1>4 DEF G!Leaves
  <2>2. /\ late'[g] = 0
        /\ \A h \in AllGuests \ {g} : late'[h] = late[h]
        BY <2>1
  <2> QED BY <1>3, <2>1, <2>2 DEF Belongs
<1>5. CASE p # "ended"
  <2>1. UNCHANGED <<due, expired, ioDone, late>>
        BY <1>5 DEF G!Leaves
  <2> QED BY <1>3, <1>5, <2>1 DEF Belongs
<1> QED BY <1>4, <1>5

\* A guest that is resumed.
LEMMA ResumeStep ==
    ASSUME SliceInvariant, NEW g \in AllGuests, G!PollResume(g)
    PROVE  SliceInvariant'
<1> USE DEF SliceInvariant
<1> DEFINE gone == Gones[Belongs[g]]
<1>1. G!Gone(g) <=> gone
      BY DEF G!Gone, Gones, Belongs
<1>0. gone \in BOOLEAN
      BY GuestsBelong
<1>2. pc[g] # "computing" /\ pc[g] # "ended"
      BY DEF G!PollResume, G!Ready
<1>3. late[g] = 0
      BY <1>2
<1>4. UNCHANGED <<Gones, Clocks>>
      BY DEF G!PollResume, Gones, Clocks
<1>5. /\ pc' = [pc EXCEPT ![g] = "computing"]
      /\ ioDone' = [ioDone EXCEPT ![g] = FALSE]
      /\ due' = [due EXCEPT ![g] = IF pc[g] = "yielded" THEN FALSE ELSE @]
      /\ UNCHANGED expired
      BY DEF G!PollResume
<1>6. late' = [late EXCEPT ![g] = IF gone THEN 1 ELSE 0]
  <2>1. late' = [late EXCEPT ![g] = IF G!Gone(g) /\ late[g] < 2 THEN late[g] + 1 ELSE late[g]]
        BY Zenon DEF G!PollResume
  <2> HIDE DEF gone
  <2>2. (IF G!Gone(g) /\ late[g] < 2 THEN late[g] + 1 ELSE late[g]) = IF gone THEN 1 ELSE 0
        BY <1>1, <1>3
  <2> QED BY <2>1, <2>2
<1>7. \/ ~gone /\ sel' = [sel EXCEPT ![g] = "closed"]
      \/ sel' = [sel EXCEPT ![g] = "guest"]
  <2> HIDE DEF gone
  <2> QED BY <1>1, Zenon DEF G!PollResume
<1>8. /\ pc' \in [AllGuests -> G!PCs]
      /\ due' \in [AllGuests -> BOOLEAN]
      /\ ioDone' \in [AllGuests -> BOOLEAN]
      /\ \A h \in AllGuests \ {g} : pc'[h] = pc[h]
      /\ pc'[g] = "computing"
      BY <1>5 DEF G!PCs
<1>9. /\ sel' \in [AllGuests -> {"guest", "closed"}]
      /\ \A h \in AllGuests \ {g} : sel'[h] = sel[h]
      /\ gone => sel'[g] = "guest"
  <2>1. CASE ~gone /\ sel' = [sel EXCEPT ![g] = "closed"]
        BY <2>1
  <2>2. CASE sel' = [sel EXCEPT ![g] = "guest"]
        BY <2>2
  <2> QED BY <1>7, <2>1, <2>2
<1>10. /\ late' \in [AllGuests -> 0 .. 2]
       /\ \A h \in AllGuests \ {g} : late'[h] = late[h]
       /\ late'[g] = IF gone THEN 1 ELSE 0
  <2> HIDE DEF gone
  <2> QED BY <1>0, <1>6
<1>11. /\ late'[g] > 0 => Gones'[Belongs'[g]]
       /\ late'[g] = 1 => pc'[g] = "computing" /\ sel'[g] = "guest"
       /\ late'[g] <= 1
  <2>1. Gones'[Belongs'[g]] = gone
        BY <1>4 DEF Belongs
  <2> HIDE DEF gone
  <2> QED BY <1>0, <1>8, <1>9, <1>10, <2>1
<1>12. ASSUME NEW h \in AllGuests, h # g
       PROVE  /\ late'[h] > 0 => Gones'[Belongs'[h]]
              /\ late'[h] = 1 => pc'[h] = "computing" /\ sel'[h] = "guest"
              /\ late'[h] <= 1
  <2>1. Gones'[Belongs'[h]] = Gones[Belongs[h]]
        BY <1>4 DEF Belongs
  <2> QED BY <1>8, <1>9, <1>10, <1>12, <2>1
<1>13. Gones' \in [Calls -> BOOLEAN] /\ Clocks' \in [Calls -> BOOLEAN]
       /\ expired' \in [AllGuests -> BOOLEAN]
      BY <1>4, <1>5
<1> QED BY <1>8, <1>9, <1>10, <1>11, <1>12, <1>13

\* The invariant is inductive.
LEMMA SliceStep ==
    ASSUME SliceInvariant, [G!Next]_(G!vars)
    PROVE  SliceInvariant'
<1> USE DEF SliceInvariant
<1>1. ASSUME NEW g \in AllGuests, G!PollReset(g) \/ G!PollWaiting(g) \/ G!Finish(g)
      PROVE  SliceInvariant'
      BY <1>1, LeavesStep DEF G!PollReset, G!PollWaiting, G!Finish, G!PCs
<1>2. ASSUME NEW g \in AllGuests, G!PollResume(g)
      PROVE  SliceInvariant'
      BY <1>2, ResumeStep
<1>3. ASSUME NEW g \in AllGuests, G!EpochYield(g) \/ G!CallImport(g)
      PROVE  SliceInvariant'
  <2>1. PICK p \in G!PCs : (p = "ended" \/ ~G!Cut(g)) /\ G!Leaves(g, p)
        BY <1>3, Zenon DEF G!EpochYield, G!CallImport, G!PCs
  <2>2. pc[g] = "computing"
        BY <1>3 DEF G!EpochYield, G!CallImport
  <2>3. late[g] = 0 \/ G!Cut(g)
    <3>1. G!Gone(g) <=> Gones[Belongs[g]]
          BY DEF G!Gone, Gones, Belongs
    <3> QED BY <3>1 DEF G!Cut
  <2> QED BY <2>1, <2>3, LeavesStep
<1>4. ASSUME NEW g \in AllGuests, G!IoDone(g)
      PROVE  SliceInvariant'
  <2>1. UNCHANGED <<Gones, Clocks>>
        BY <1>4 DEF G!IoDone, Gones, Clocks
  <2> QED BY <1>4, <2>1 DEF G!IoDone, Belongs
<1>5. ASSUME NEW g \in AllGuests, G!Expire(g)
      PROVE  SliceInvariant'
  <2>1. UNCHANGED <<Gones, Clocks>>
        BY <1>5 DEF G!Expire, Gones, Clocks
  <2> QED BY <1>5, <2>1 DEF G!Expire, Belongs
<1>6. ASSUME NEW s \in Calls, G!Tick(s)
      PROVE  SliceInvariant'
  <2>1. UNCHANGED <<Gones, Clocks>>
        BY <1>6 DEF G!Tick, Gones, Clocks
  <2>2. due' \in [AllGuests -> BOOLEAN]
        BY <1>6 DEF G!Tick
  <2> QED BY <1>6, <2>1, <2>2 DEF G!Tick, Belongs
<1>7. ASSUME NEW s \in Calls, G!Close(s)
      PROVE  SliceInvariant'
  <2>1. Gones' = [Gones EXCEPT ![s] = TRUE] /\ Clocks' = Clocks
        BY <1>7, Zenon DEF G!Close, Gones, Clocks
  <2>2. \A g \in AllGuests : Gones[Belongs[g]] => Gones'[Belongs[g]]
        BY <2>1, GuestsBelong
  <2> QED BY <1>7, <2>1, <2>2 DEF G!Close, Belongs
<1>8. ASSUME NEW s \in Calls, G!ClkStop(s)
      PROVE  SliceInvariant'
  <2>1. Clocks' = [Clocks EXCEPT ![s] = FALSE] /\ Gones' = Gones
        BY <1>8, Zenon DEF G!ClkStop, Gones, Clocks
  <2> QED BY <1>8, <2>1 DEF G!ClkStop, Belongs
<1>9. CASE UNCHANGED G!vars
  <2>1. UNCHANGED <<Gones, Clocks>>
        BY <1>9 DEF G!vars, Gones, Clocks
  <2> QED BY <1>9, <2>1 DEF G!vars, Belongs
<1> QED BY <1>1, <1>2, <1>3, <1>4, <1>5, <1>6, <1>7, <1>8, <1>9, GuestCases

\* It holds at the start.
LEMMA SliceStart == G!Init => SliceInvariant
<1> SUFFICES ASSUME G!Init PROVE SliceInvariant
    OBVIOUS
<1>1. Gones = [s \in Calls |-> FALSE] /\ Clocks = [s \in Calls |-> TRUE]
      BY Zenon DEF G!Init, Gones, Clocks
<1> QED BY <1>1 DEF G!Init, SliceInvariant, G!PCs

-----------------------------------------------------------------------------
(* The theorems.                                                           *)

\* The variables of the guests, their calls and clocks have their types, in any number
\* of calls, with any number of guests and threads.
THEOREM GuestTypes == G!Spec => []G!TypeOK
BY SliceStart, SliceStep, SlicesAre, PTL DEF G!Spec

\* When the client of a call has gone, each of its guests is resumed at most
\* once more, on whatever number of threads, whichever branch select! draws.
THEOREM OneMoreSlice == G!Spec => []G!OneSliceAfterClose
<1>1. SliceInvariant => G!OneSliceAfterClose
      BY DEF SliceInvariant, G!OneSliceAfterClose
<1> QED BY <1>1, SliceStart, SliceStep, PTL DEF G!Spec

\* The invariant of the composition: guests and their tasks, the clock and the
\* pipeline are in step.
THEOREM CallInvariantHolds == CallSpec => []CallInvariant
<1>1. CallInvariant /\ [CallNext]_all => CallInvariant'
      BY CallStep
<1> QED BY CallStart, <1>1, PTL DEF CallSpec

\* With its guests as they are, the pipeline is what StreamingRun says, step by
\* step: nothing a guest does appears to it but that its task runs and ends.
THEOREM CallIsPipeline == CallSpec => Spec
<1>1. CallInvariant /\ [CallNext]_all => [Next]_vars
      BY CallStep
<1> QED BY CallStart, CallInvariantHolds, <1>1, PTL DEF CallSpec, Spec

\* With the pipeline as it is, guests are what GuestExecution says: it closes
\* their channel once, and stops their clock only when the client has gone.
THEOREM CallIsGuests == CallSpec => GuestsHold
<1>1. CallInvariant /\ [CallNext]_all => [G!Next]_(G!vars)
      BY CallStep
<1> QED BY CallStart, CallInvariantHolds, <1>1, PTL DEF CallSpec, GuestsHold, G!Spec

\* So the client of a call with guests reads the responses in the order of its
\* requests, however the guests' slices, yields, time limits and ends fall.
THEOREM CallOrdered == CallSpec => []OrderedResponses
BY CallIsPipeline, Order, PTL

\* With guests as they are, an end of stream without an error is no truncation.
THEOREM CallNotTruncated == CallSpec => []NoSilentTruncation
BY CallIsPipeline, NoTruncation, PTL

\* Of the guests of a call, at most one more than the session's limit are in flight,
\* even those that guests of other calls keep from a thread.
THEOREM CallInFlight == CallSpec => []InFlightBound
BY CallIsPipeline, InFlight, PTL

\* The requests read and not yet answered stay within what channels and tasks hold,
\* though guests loop or wait for ever.
THEOREM CallReadAhead == CallSpec => []ReadAheadBound
BY CallIsPipeline, ReadAhead, PTL

\* A guest of the call is resumed at most once more when the client is gone, though it
\* is the pipeline that closes its channel and stops its clock, and though guests of
\* other calls use its threads.
THEOREM CallOneMoreSlice == CallSpec => []OneSliceAfterClose
BY CallIsGuests, OneMoreSlice, PTL DEF GuestsHold, OneSliceAfterClose
=============================================================================
