---------------------------- MODULE StreamingRun ----------------------------
(***************************************************************************)
(* One StreamingRun call of the worker                                     *)
(* (rpc_server/services/streaming_run/mod.rs): the handler that reads the  *)
(* configuration message, the dispatcher task that turns each argument     *)
(* message into a guest task, the collector that awaits the guest tasks in *)
(* order, the two bounded channels between them, the clock task that keeps *)
(* a sender of the response channel, and the client at the other end of    *)
(* both gRPC streams.                                                      *)
(*                                                                         *)
(* Dispatcher and collector run on the runtime of the guests, whose        *)
(* threads may all be held by strays: guests of this call or of others     *)
(* that compute when the clock of their call has stopped, so that no epoch *)
(* will interrupt them. Handler, clock and the client's streams run on the *)
(* runtime of the server.                                                  *)
(*                                                                         *)
(* The argument messages are numbered in the order in which they are sent. *)
(* A guest task and its response bear the number of their message; item 0  *)
(* of the response channel is the status the dispatcher forwards.          *)
(***************************************************************************)
EXTENDS Integers, Sequences, FiniteSets

CONSTANTS MaxReq,          \* bound: argument messages a client sends
          Par,             \* the session's "parallel" field, a usize
          OutCap,          \* capacity of the response channel, 8 in the code
          GuestsMayPanic   \* whether a guest task may panic

ASSUME ConstantsAssumption ==
    /\ MaxReq \in Nat
    /\ Par \in Nat
    /\ OutCap \in Nat \ {0}
    /\ GuestsMayPanic \in BOOLEAN

Requests == 1 .. MaxReq
StatusItem == 0

\* The capacity of the channel of guest tasks.
ParN == IF Par > 0 THEN Par ELSE 1

VARIABLES phase,     \* the call as its client sees it
          input,     \* the request stream: "open", half-"closed" or "broken"
          sent,      \* argument messages the client has sent
          taken,     \* argument messages the dispatcher has read
          disp,      \* the dispatcher task
          parq,      \* the channel of JoinHandles, by task number
          coll,      \* the collector
          cur,       \* the last task number the collector received
          task,      \* the guest tasks
          outq,      \* the response channel
          clk,       \* the clock task
          received,  \* the responses the client has read
          held       \* strays hold every thread of the guests' runtime

call == <<phase, input, sent, taken, disp, parq, coll, cur, task, outq, clk,
          received>>
vars == <<call, held>>

Phases == {"config", "streaming", "refused", "failed", "completed", "cancelled"}

TypeOK ==
    /\ phase \in Phases
    /\ input \in {"open", "closed", "broken"}
    /\ sent \in 0 .. MaxReq
    /\ taken \in 0 .. MaxReq
    /\ disp \in {"off", "read", "have", "fail", "failed", "done"}
    /\ parq \in Seq(Requests)
    /\ coll \in {"off", "recv", "await", "send", "done"}
    /\ cur \in 0 .. MaxReq
    /\ task \in [Requests -> {"none", "running", "returned", "panicked"}]
    /\ outq \in Seq(Requests \cup {StatusItem})
    /\ clk \in {"off", "on"}
    /\ received \in Seq(Requests)
    /\ held \in BOOLEAN
    /\ disp = "have" => taken \in Requests

Init ==
    /\ phase = "config"
    /\ input = "open"
    /\ sent = 0
    /\ taken = 0
    /\ disp = "off"
    /\ parq = <<>>
    /\ coll = "off"
    /\ cur = 0
    /\ task = [i \in Requests |-> "none"]
    /\ outq = <<>>
    /\ clk = "off"
    /\ received = <<>>
    /\ held \in BOOLEAN

Running == {i \in Requests : task[i] = "running"}

\* The receiving half of the response channel lives as long as the stream.
RxOpen == phase = "streaming"

-----------------------------------------------------------------------------
(* streaming_run_impl: the first message decides what the call becomes.    *)

\* A configuration naming a stored session: the clock, the dispatcher and the
\* collector start, and the stream is handed to the client.
Configure ==
    /\ phase = "config"
    /\ phase' = "streaming"
    /\ disp' = "read"
    /\ coll' = "recv"
    /\ clk' = "on"
    /\ UNCHANGED <<input, sent, taken, parq, cur, task, outq, received>>

\* A broken stream, an empty message, arguments first, or no such session.
Refuse ==
    /\ phase = "config"
    /\ phase' = "refused"
    /\ UNCHANGED <<input, sent, taken, disp, parq, coll, cur, task, outq, clk,
                   received>>

\* The client closes its side without any message: the only sender of the
\* response channel is dropped, the stream is returned all the same.
NoConfig ==
    /\ phase = "config"
    /\ phase' = "streaming"
    /\ input' = "closed"
    /\ UNCHANGED <<sent, taken, disp, parq, coll, cur, task, outq, clk,
                   received>>

-----------------------------------------------------------------------------
(* The client.                                                             *)

ClientSend ==
    /\ RxOpen
    /\ input = "open"
    /\ sent < MaxReq
    /\ sent' = sent + 1
    /\ UNCHANGED <<phase, input, taken, disp, parq, coll, cur, task, outq, clk,
                   received>>

ClientHalfClose ==
    /\ RxOpen
    /\ input = "open"
    /\ input' = "closed"
    /\ UNCHANGED <<phase, sent, taken, disp, parq, coll, cur, task, outq, clk,
                   received>>

\* A message that cannot be decoded: istream.next() yields Some(Err(_)).
ClientCorrupt ==
    /\ RxOpen
    /\ input = "open"
    /\ input' = "broken"
    /\ UNCHANGED <<phase, sent, taken, disp, parq, coll, cur, task, outq, clk,
                   received>>

\* The client reads a response. Reading the status ends the call: the server
\* drops the stream and with it the receiver and what it still holds.
ClientRecv ==
    /\ RxOpen
    /\ outq # <<>>
    /\ IF Head(outq) = StatusItem
       THEN /\ phase' = "failed"
            /\ outq' = <<>>
            /\ UNCHANGED received
       ELSE /\ received' = Append(received, Head(outq))
            /\ outq' = Tail(outq)
            /\ UNCHANGED phase
    /\ UNCHANGED <<input, sent, taken, disp, parq, coll, cur, task, clk>>

\* Variant: a clock that watches the channel without keeping a sender.
SenderHeld_WeakClock ==
    \/ disp \notin {"off", "failed", "done"}
    \/ coll \notin {"off", "done"}
    \/ Running # {}

\* The clock's sig_cls, the dispatcher's bypass_tx and the clones of it in the
\* guest tasks, and the collector's mpsc_tx.
SenderHeld ==
    \/ clk = "on"
    \/ disp \notin {"off", "failed", "done"}
    \/ coll \notin {"off", "done"}
    \/ Running # {}

\* The stream ends with OK when every sender is gone and nothing is queued.
ClientSeesEnd ==
    /\ RxOpen
    /\ outq = <<>>
    /\ ~SenderHeld
    /\ phase' = "completed"
    /\ UNCHANGED <<input, sent, taken, disp, parq, coll, cur, task, outq, clk,
                   received>>

\* The client cancels, or its connection is lost: the receiver is dropped and
\* the request stream is reset.
ClientCancel ==
    /\ phase \in {"config", "streaming"}
    /\ phase' = "cancelled"
    /\ input' = "broken"
    /\ outq' = <<>>
    /\ UNCHANGED <<sent, taken, disp, parq, coll, cur, task, clk, received>>

-----------------------------------------------------------------------------
(* The dispatcher.                                                         *)

DispRead ==
    /\ disp = "read"
    /\ taken < sent
    /\ taken' = taken + 1
    /\ disp' = "have"
    /\ UNCHANGED <<phase, input, sent, parq, coll, cur, task, outq, clk,
                   received>>

\* istream.next() yields None: par_tx is dropped.
DispEnd ==
    /\ disp = "read"
    /\ taken = sent
    /\ input = "closed"
    /\ disp' = "done"
    /\ UNCHANGED <<phase, input, sent, taken, parq, coll, cur, task, outq, clk,
                   received>>

\* Variant: an error of the request stream is passed over.
DispErr_Continue ==
    /\ disp = "read"
    /\ input = "broken"
    /\ UNCHANGED call

\* istream.next() yields an error. A reset may overtake messages not yet read.
DispErr ==
    /\ disp = "read"
    /\ input = "broken"
    /\ taken = sent \/ ~RxOpen
    /\ disp' = "fail"
    /\ UNCHANGED <<phase, input, sent, taken, parq, coll, cur, task, outq, clk,
                   received>>

\* bypass_tx.send(Err(err)), past the responses that are still to come.
DispSendErr ==
    /\ disp = "fail"
    /\ \/ /\ RxOpen
          /\ Len(outq) < OutCap
          /\ outq' = Append(outq, StatusItem)
          /\ disp' = "failed"
       \/ /\ ~RxOpen
          /\ disp' = "done"
          /\ UNCHANGED outq
    /\ UNCHANGED <<phase, input, sent, taken, parq, coll, cur, task, clk,
                   received>>

\* Variant: the guest is spawned before its slot is reserved.
DispLaunch_SpawnFirst ==
    /\ disp = "have"
    /\ coll # "done"
    /\ Len(parq) <= ParN
    /\ task' = [task EXCEPT ![taken] = "running"]
    /\ parq' = Append(parq, taken)
    /\ disp' = "read"
    /\ UNCHANGED <<phase, input, sent, taken, coll, cur, outq, clk, received>>

\* select!: a permit of the task channel is reserved, the guest is spawned and
\* its handle queued.
DispLaunch ==
    /\ disp = "have"
    /\ coll # "done"
    /\ Len(parq) < ParN
    /\ task' = [task EXCEPT ![taken] = "running"]
    /\ parq' = Append(parq, taken)
    /\ disp' = "read"
    /\ UNCHANGED <<phase, input, sent, taken, coll, cur, outq, clk, received>>

\* Variant: reserve() alone, without the select! on the client's going.
DispStop_ReserveOnly ==
    /\ disp = "have"
    /\ coll = "done"
    /\ disp' = "done"
    /\ UNCHANGED <<phase, input, sent, taken, parq, coll, cur, task, outq, clk,
                   received>>

\* select!: reserve() fails because the collector dropped par_rx, or the
\* client is gone. The message in hand is dropped.
DispStop ==
    /\ disp = "have"
    /\ coll = "done" \/ ~RxOpen
    /\ disp' = "done"
    /\ UNCHANGED <<phase, input, sent, taken, parq, coll, cur, task, outq, clk,
                   received>>

-----------------------------------------------------------------------------
(* The guest tasks, as the pipeline sees them: streaming_run_launch ends   *)
(* with Ok or Err, which the collector answers alike, or it panics. The    *)
(* thread on which it ended is free.                                       *)

TaskReturn(i) ==
    /\ task[i] = "running"
    /\ task' = [task EXCEPT ![i] = "returned"]
    /\ UNCHANGED <<phase, input, sent, taken, disp, parq, coll, cur, outq, clk,
                   received>>
    /\ held' = FALSE

TaskPanic(i) ==
    /\ GuestsMayPanic
    /\ task[i] = "running"
    /\ task' = [task EXCEPT ![i] = "panicked"]
    /\ UNCHANGED <<phase, input, sent, taken, disp, parq, coll, cur, outq, clk,
                   received>>
    /\ held' = FALSE

-----------------------------------------------------------------------------
(* The collector.                                                          *)

\* Variant: whichever queued task is ready first is collected.
CollRecv_AnyReady ==
    /\ coll = "recv"
    /\ \E k \in 1 .. Len(parq) :
           /\ task[parq[k]] = "returned"
           /\ cur' = parq[k]
           /\ parq' = SubSeq(parq, 1, k - 1) \o SubSeq(parq, k + 1, Len(parq))
    /\ coll' = "await"
    /\ UNCHANGED <<phase, input, sent, taken, disp, task, outq, clk, received>>

CollRecv ==
    /\ coll = "recv"
    /\ parq # <<>>
    /\ cur' = Head(parq)
    /\ parq' = Tail(parq)
    /\ coll' = "await"
    /\ UNCHANGED <<phase, input, sent, taken, disp, task, outq, clk, received>>

\* Variant: an empty channel is taken for a closed one.
CollEnd_Empty ==
    /\ coll = "recv"
    /\ parq = <<>>
    /\ coll' = "done"
    /\ UNCHANGED <<phase, input, sent, taken, disp, parq, cur, task, outq, clk,
                   received>>

\* par_rx.recv() yields None: the dispatcher is gone and nothing is queued.
CollEnd ==
    /\ coll = "recv"
    /\ parq = <<>>
    /\ disp \in {"failed", "done"}
    /\ coll' = "done"
    /\ UNCHANGED <<phase, input, sent, taken, disp, parq, cur, task, outq, clk,
                   received>>

CollJoin ==
    /\ coll = "await"
    /\ task[cur] = "returned"
    /\ coll' = "send"
    /\ UNCHANGED <<phase, input, sent, taken, disp, parq, cur, task, outq, clk,
                   received>>

\* Variant: a JoinError is skipped, as continue in place of break would do.
CollPanic_Continue ==
    /\ coll = "await"
    /\ task[cur] = "panicked"
    /\ coll' = "recv"
    /\ UNCHANGED <<phase, input, sent, taken, disp, parq, cur, task, outq, clk,
                   received>>

\* A JoinError: the loop is left without a response. The handles still queued
\* are dropped, which detaches their tasks.
CollPanic ==
    /\ coll = "await"
    /\ task[cur] = "panicked"
    /\ coll' = "done"
    /\ parq' = <<>>
    /\ UNCHANGED <<phase, input, sent, taken, disp, cur, task, outq, clk,
                   received>>

\* Variant: an unbounded response channel.
CollSend_Unbounded ==
    /\ coll = "send"
    /\ RxOpen
    /\ outq' = Append(outq, cur)
    /\ coll' = "recv"
    /\ UNCHANGED <<phase, input, sent, taken, disp, parq, cur, task, clk,
                   received>>

CollSend ==
    /\ coll = "send"
    /\ RxOpen
    /\ Len(outq) < OutCap
    /\ outq' = Append(outq, cur)
    /\ coll' = "recv"
    /\ UNCHANGED <<phase, input, sent, taken, disp, parq, cur, task, clk,
                   received>>

\* The send fails because the receiver is gone.
CollSendClosed ==
    /\ coll = "send"
    /\ ~RxOpen
    /\ coll' = "done"
    /\ parq' = <<>>
    /\ UNCHANGED <<phase, input, sent, taken, disp, cur, task, outq, clk,
                   received>>

-----------------------------------------------------------------------------
(* The clock: its signal is sig_cls.closed(). The guests of the call that  *)
(* compute when it stops are strays from then on.                          *)

\* Variant: the clock stops when the client has no more arguments.
ClkStop_HalfClosed ==
    /\ clk = "on"
    /\ input # "open" \/ ~RxOpen
    /\ clk' = "off"
    /\ UNCHANGED <<phase, input, sent, taken, disp, parq, coll, cur, task, outq,
                   received>>
    /\ held' \in BOOLEAN
    /\ held => held'

ClkStop ==
    /\ clk = "on"
    /\ ~RxOpen
    /\ clk' = "off"
    /\ UNCHANGED <<phase, input, sent, taken, disp, parq, coll, cur, task, outq,
                   received>>
    /\ held' \in BOOLEAN
    /\ held => held'

-----------------------------------------------------------------------------

Handler == (Configure \/ Refuse \/ NoConfig) /\ UNCHANGED held

Client == /\ \/ ClientSend \/ ClientHalfClose \/ ClientCorrupt
             \/ ClientRecv \/ ClientSeesEnd \/ ClientCancel
          /\ UNCHANGED held

\* Dispatcher and collector need a thread of the guests' runtime.
Dispatcher == /\ ~held
              /\ \/ DispRead \/ DispEnd \/ DispErr \/ DispSendErr
                 \/ DispLaunch \/ DispStop
              /\ UNCHANGED held

Collector == /\ ~held
             /\ \/ CollRecv \/ CollEnd \/ CollJoin \/ CollPanic
                \/ CollSend \/ CollSendClosed
             /\ UNCHANGED held

Guests == \E i \in Requests : TaskReturn(i) \/ TaskPanic(i)

\* Guests become strays, end or wait, of this call and of others.
Threads == held' = ~held /\ UNCHANGED call

\* Every task of the call is gone.
Quiet == ~RxOpen /\ phase # "config" /\ ~SenderHeld

\* A call that is over stays over.
Rest == Quiet /\ UNCHANGED vars

Next == \/ Handler \/ Client
        \/ Dispatcher \/ Collector \/ Guests
        \/ ClkStop \/ Threads \/ Rest

Spec == Init /\ [][Next]_vars

(***************************************************************************)
(* The run queues of the guests' runtime serve the tasks that are ready    *)
(* when threads become free again and again; nothing is said of the tasks  *)
(* while strays hold every thread. The server's runtime always has a       *)
(* thread for the clock and for the streams, and the client keeps reading. *)
(* While the clock ticks and threads become free, guests end, at the       *)
(* latest when ex_timeout expires: one after the other, so that each does, *)
(* for few run and no more are launched while the collector awaits the     *)
(* first of them. Nothing makes the client send, nothing ends a guest that *)
(* runs when the clock has stopped, and nothing ends a stray.              *)
(***************************************************************************)
Fairness ==
    /\ SF_vars(Dispatcher)
    /\ SF_vars(Collector)
    /\ WF_vars(ClkStop)
    /\ WF_vars(ClientRecv /\ UNCHANGED held)
    /\ WF_vars(ClientSeesEnd /\ UNCHANGED held)
    /\ SF_vars(~held /\ clk = "on" /\ Guests)

FairSpec == Spec /\ Fairness

-----------------------------------------------------------------------------
(* Properties.                                                             *)

\* What the client has read is responses 1, 2, ..., n: none lost in between,
\* none repeated, none overtaking another, whatever order the guests end in,
\* however the bounded channels block and wherever a status is slipped in.
OrderedResponses == \A k \in 1 .. Len(received) : received[k] = k

\* The guests that run are at most one more than the session's limit: receiving
\* a handle frees its slot of the channel before the task is awaited.
InFlightBound == Cardinality(Running) <= ParN + 1

\* A client that does not read is not read from: the requests taken and not
\* yet answered never exceed what the two channels and the two tasks can hold.
ReadAheadBound == taken - Len(received) <= OutCap + ParN + 2

\* An end of stream without an error is never a truncation: whoever sees OK has
\* the response of everything it sent, though the collector gives up silently
\* when a guest panics.
NoSilentTruncation == phase = "completed" => Len(received) = sent

-----------------------------------------------------------------------------
(* The strengthening that makes these invariants inductive.                *)

\* The call before its configuration, and how it is held open after it.
Setup ==
    /\ coll = "off" <=> disp = "off"
    /\ phase = "config" => coll = "off"
    /\ coll = "off" => /\ sent = 0
                       /\ outq = <<>>
                       /\ parq = <<>>
                       /\ received = <<>>
                       /\ Running = {}
                       /\ cur = 0
    /\ RxOpen /\ coll = "off" => input = "closed"
    /\ RxOpen /\ coll # "off" => clk = "on"

\* What is queued continues what the client has read, up to a status; as long
\* as no status is queued, the collector's next response is the one due.
NoStatusUpTo(k) == \A j \in 1 .. k : outq[j] # StatusItem

QueueContinues ==
    /\ \A k \in 1 .. Len(outq) :
           /\ outq[k] <= cur
           /\ NoStatusUpTo(k) => outq[k] = Len(received) + k
    /\ RxOpen /\ NoStatusUpTo(Len(outq)) =>
           /\ coll = "recv" => Len(received) + Len(outq) = cur
           /\ coll \in {"await", "send"} => Len(received) + Len(outq) + 1 = cur

\* The task channel continues what the collector has received, and the
\* dispatcher is at most one message ahead of it.
HandlesContinue ==
    /\ coll = "done" => parq = <<>>
    /\ \A k \in 1 .. Len(parq) : parq[k] = cur + k
    /\ Len(parq) <= ParN
    /\ cur + Len(parq) + (IF disp = "have" THEN 1 ELSE 0) <= taken
    /\ taken <= cur + (IF coll = "done" THEN ParN ELSE Len(parq))
                    + (IF disp = "read" THEN 0 ELSE 1)
    /\ taken <= sent

\* Responses the collector has in hand or has queued and nobody has read.
Backlog ==
    /\ Len(outq) <= OutCap
    /\ cur - Len(received) <= (IF RxOpen THEN Len(outq) ELSE OutCap)
                               + (IF coll \in {"off", "recv"} THEN 0 ELSE 1)

\* The guests that run are a window of consecutive requests that begins with
\* the one in the collector's hand.
RunningWindow ==
    \A i \in Running :
        /\ cur <= i
        /\ i = cur => coll = "await"
        /\ i <= cur + ParN
        /\ coll # "done" => i <= cur + Len(parq)

\* The inductive invariant of the pipeline: the queues of the call are three
\* consecutive stretches of one numbering, read, answered and in flight.
PipelineInvariant ==
    /\ Setup
    /\ OrderedResponses
    /\ QueueContinues
    /\ HandlesContinue
    /\ Backlog
    /\ RunningWindow
    /\ NoSilentTruncation

-----------------------------------------------------------------------------

\* The pipeline implements the promise of the call.
Promise == INSTANCE ResponseStream
             WITH asked <- sent, answers <- received,
                  open <- phase \in {"config", "streaming"}

Implements == Promise!Spec

\* Every request is answered unless the call is over, or strays hold every thread
\* for ever.
EveryRequestAnswered ==
    \A i \in Requests :
        sent >= i ~> (Len(received) >= i \/ phase # "streaming" \/ []held)

\* Two things only can leave a request without an answer while its call goes on: a
\* guest of the call that panics, and strays, of other calls then, that hold every
\* thread for ever. Not the order in which guests end, not a full channel, not the end
\* of the client's messages, not strays that come and go.
AnsweredUnlessPanic ==
    \A i \in Requests :
        sent >= i ~> \/ Len(received) >= i
                     \/ phase # "streaming"
                     \/ \E j \in Requests : task[j] = "panicked"
                     \/ []held

\* When the client is gone, so is soon the clock, and so is the dispatcher, even if a
\* guest is still running and the collector waits for it; unless strays hold every
\* thread for ever, so that the dispatcher is never polled.
Released == phase \in {"failed", "cancelled"} ~>
                (clk = "off" /\ (disp \in {"off", "failed", "done"} \/ []held))
=============================================================================
