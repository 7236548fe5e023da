---------------------------- MODULE UpdateStream ----------------------------
(***************************************************************************)
(* One UpdateStore call of the worker                                      *)
(* (rpc_server/services/update_store/mod.rs): the task that reads the      *)
(* client's messages one after another, writes each of them to Redis field *)
(* by field and queues its answer, the bounded channel of answers, and the *)
(* client at the other end.                                                *)
(*                                                                         *)
(* Messages are numbered in the order in which they are sent and an answer *)
(* bears the number of its message. What the fields hold, and what other   *)
(* calls do to them, is in SessionRegistry.                                *)
(***************************************************************************)
EXTENDS Integers, Sequences

CONSTANTS MaxMsg,    \* bound: messages a client sends
          Batch,     \* bound: fields of a message
          OutCap     \* capacity of the channel of answers, 512 in the code

ASSUME StreamAssumption ==
    /\ MaxMsg \in Nat
    /\ Batch \in Nat
    /\ OutCap \in Nat \ {0}

Messages == 1 .. MaxMsg

VARIABLES phase,     \* the call as its client sees it
          input,     \* the request stream: "open", half-"closed" or "reset"
          sent,      \* messages the client has sent
          bad,       \* the message that does not decode, 0 if there is none
          taken,     \* messages the task has read
          task,      \* where the task is
          wrote,     \* fields of each message written to Redis
          count,     \* the ok_count of each message
          verdict,   \* what each message is answered with
          outq,      \* the channel of answers
          received,  \* the answers the client has read
          left       \* history: messages the task had read when the call ended

vars == <<phase, input, sent, bad, taken, task, wrote, count, verdict, outq,
          received, left>>

clientVars == <<input, sent, bad>>
writeVars  == <<wrote, count, verdict>>

TypeOK ==
    /\ phase \in {"streaming", "failed", "completed", "cancelled"}
    /\ input \in {"open", "closed", "reset"}
    /\ sent \in 0 .. MaxMsg
    /\ bad \in 0 .. MaxMsg
    /\ taken \in 0 .. MaxMsg
    /\ task \in {"read", "look", "write", "send", "done"}
    /\ wrote \in [Messages -> 0 .. Batch]
    /\ count \in [Messages -> 0 .. Batch]
    /\ verdict \in [Messages -> {"none", "ok", "error"}]
    /\ outq \in Seq(Messages)
    /\ received \in Seq(Messages)
    /\ left \in 0 .. MaxMsg
    /\ task \in {"look", "write", "send"} => taken \in Messages

Init ==
    /\ phase = "streaming"
    /\ input = "open"
    /\ sent = 0
    /\ bad = 0
    /\ taken = 0
    /\ task = "read"
    /\ wrote = [m \in Messages |-> 0]
    /\ count = [m \in Messages |-> 0]
    /\ verdict = [m \in Messages |-> "none"]
    /\ outq = <<>>
    /\ received = <<>>
    /\ left = 0

\* The receiver of the answers lives as long as the response stream.
RxOpen == phase = "streaming"

-----------------------------------------------------------------------------
(* The client.                                                             *)

ClientSend ==
    /\ RxOpen
    /\ input = "open"
    /\ sent < MaxMsg
    /\ sent' = sent + 1
    /\ UNCHANGED <<phase, input, bad, taken, task, writeVars, outq, received,
                   left>>

\* A message that does not decode: the request stream yields its error and
\* nothing more.
ClientSendBad ==
    /\ RxOpen
    /\ input = "open"
    /\ sent < MaxMsg
    /\ sent' = sent + 1
    /\ bad' = sent + 1
    /\ input' = "closed"
    /\ UNCHANGED <<phase, taken, task, writeVars, outq, received, left>>

ClientHalfClose ==
    /\ RxOpen
    /\ input = "open"
    /\ input' = "closed"
    /\ UNCHANGED <<phase, sent, bad, taken, task, writeVars, outq, received,
                   left>>

\* The client reads an answer. An error ends the response stream: it is dropped
\* with the receiver and what it still holds.
ClientRecv ==
    /\ RxOpen
    /\ outq # <<>>
    /\ \/ /\ verdict[Head(outq)] = "ok"
          /\ received' = Append(received, Head(outq))
          /\ outq' = Tail(outq)
          /\ UNCHANGED <<phase, left>>
       \/ /\ verdict[Head(outq)] = "error"
          /\ phase' = "failed"
          /\ outq' = <<>>
          /\ left' = taken
          /\ UNCHANGED received
    /\ UNCHANGED <<clientVars, taken, task, writeVars>>

\* The task has dropped its sender and nothing is queued.
ClientSeesEnd ==
    /\ RxOpen
    /\ outq = <<>>
    /\ task = "done"
    /\ phase' = "completed"
    /\ left' = taken
    /\ UNCHANGED <<clientVars, taken, task, writeVars, outq, received>>

\* The client cancels, or its connection is lost.
ClientCancel ==
    /\ RxOpen
    /\ phase' = "cancelled"
    /\ input' = "reset"
    /\ outq' = <<>>
    /\ left' = taken
    /\ UNCHANGED <<sent, bad, taken, task, writeVars, received>>

-----------------------------------------------------------------------------
(* The task: istream.next().                                               *)

\* Variant: the task goes on reading while an answer waits to be sent.
Read_Ahead ==
    /\ task \in {"read", "send"}
    /\ taken < sent
    /\ taken' = taken + 1
    /\ IF taken + 1 = bad
       THEN task' = "send" /\ verdict' = [verdict EXCEPT ![taken + 1] = "error"]
       ELSE task' = "look" /\ UNCHANGED verdict
    /\ UNCHANGED <<phase, clientVars, wrote, count, outq, received, left>>

\* The next message, which may be read even after the client has gone.
Read ==
    /\ task = "read"
    /\ taken < sent
    /\ taken' = taken + 1
    /\ IF taken + 1 = bad
       THEN task' = "send" /\ verdict' = [verdict EXCEPT ![taken + 1] = "error"]
       ELSE task' = "look" /\ UNCHANGED verdict
    /\ UNCHANGED <<phase, clientVars, wrote, count, outq, received, left>>

\* Variant: the end of the client's messages is not noticed.
ReadEnd_ResetOnly ==
    /\ task = "read"
    /\ input = "reset"
    /\ task' = "done"
    /\ UNCHANGED <<phase, clientVars, taken, writeVars, outq, received, left>>

\* Variant: a reset is not noticed.
ReadEnd_ClosedOnly ==
    /\ task = "read"
    /\ taken = sent
    /\ input = "closed"
    /\ task' = "done"
    /\ UNCHANGED <<phase, clientVars, taken, writeVars, outq, received, left>>

\* Variant: the end overtakes messages of a client that only half-closes.
ReadEnd_Early ==
    /\ task = "read"
    /\ input # "open"
    /\ task' = "done"
    /\ UNCHANGED <<phase, clientVars, taken, writeVars, outq, received, left>>

\* The stream is over, or it was reset, which may overtake messages not yet
\* read and whose error cannot be sent any more.
ReadEnd ==
    /\ task = "read"
    /\ \/ taken = sent /\ input = "closed"
       \/ input = "reset"
    /\ task' = "done"
    /\ UNCHANGED <<phase, clientVars, taken, writeVars, outq, received, left>>

-----------------------------------------------------------------------------
(* The task: write_to_redis.                                               *)

\* Without keys, without a connection, without the store or without values the
\* message is answered with an error, and nothing of it is written.
Reject ==
    /\ task = "look"
    /\ task' = "send"
    /\ verdict' = [verdict EXCEPT ![taken] = "error"]
    /\ UNCHANGED <<phase, clientVars, taken, wrote, count, outq, received, left>>

\* The store exists.
Accept ==
    /\ task = "look"
    /\ task' = "write"
    /\ UNCHANGED <<phase, clientVars, taken, writeVars, outq, received, left>>

\* Variant: the field is counted before it is written.
WriteField_CountFirst ==
    /\ task = "write"
    /\ count[taken] < Batch
    /\ count' = [count EXCEPT ![taken] = @ + 1]
    /\ \/ wrote' = [wrote EXCEPT ![taken] = @ + 1] /\ UNCHANGED task
       \/ task' = "send" /\ UNCHANGED wrote
    /\ verdict' = [verdict EXCEPT ![taken] = IF task' = "send" THEN "ok" ELSE @]
    /\ UNCHANGED <<phase, clientVars, taken, outq, received, left>>

\* The next field is written. If Redis' answer to it is lost, the loop is left
\* with the field written and not counted.
WriteField ==
    /\ task = "write"
    /\ wrote[taken] < Batch
    /\ wrote' = [wrote EXCEPT ![taken] = @ + 1]
    /\ \/ /\ count' = [count EXCEPT ![taken] = @ + 1]
          /\ UNCHANGED <<task, verdict>>
       \/ /\ task' = "send"
          /\ verdict' = [verdict EXCEPT ![taken] = "ok"]
          /\ UNCHANGED count
    /\ UNCHANGED <<phase, clientVars, taken, outq, received, left>>

\* Every field is written, or Redis refuses one: what is counted is answered.
WriteEnd ==
    /\ task = "write"
    /\ task' = "send"
    /\ verdict' = [verdict EXCEPT ![taken] = "ok"]
    /\ UNCHANGED <<phase, clientVars, taken, wrote, count, outq, received, left>>

-----------------------------------------------------------------------------
(* The task: mpsc_tx.send().                                               *)

\* Variant: an unbounded channel.
Send_Unbounded ==
    /\ task = "send"
    /\ RxOpen
    /\ outq' = Append(outq, taken)
    /\ task' = "read"
    /\ UNCHANGED <<phase, clientVars, taken, writeVars, received, left>>

Send ==
    /\ task = "send"
    /\ RxOpen
    /\ Len(outq) < OutCap
    /\ outq' = Append(outq, taken)
    /\ task' = "read"
    /\ UNCHANGED <<phase, clientVars, taken, writeVars, received, left>>

\* Variant: a failed send does not end the loop.
SendFails_Continue ==
    /\ task = "send"
    /\ ~RxOpen
    /\ task' = "read"
    /\ UNCHANGED <<phase, clientVars, taken, writeVars, outq, received, left>>

\* The receiver is gone: the loop is left.
SendFails ==
    /\ task = "send"
    /\ ~RxOpen
    /\ task' = "done"
    /\ UNCHANGED <<phase, clientVars, taken, writeVars, outq, received, left>>

-----------------------------------------------------------------------------

Client == \/ ClientSend \/ ClientSendBad \/ ClientHalfClose
          \/ ClientRecv \/ ClientSeesEnd \/ ClientCancel

Task == \/ Read \/ ReadEnd \/ Reject \/ Accept \/ WriteField \/ WriteEnd
        \/ Send \/ SendFails

\* A call that is over stays over, though its task may wait for messages.
Rest == ~RxOpen /\ UNCHANGED vars

Next == Client \/ Task \/ Rest

Spec == Init /\ [][Next]_vars

(***************************************************************************)
(* tokio polls the task when it is ready, Redis answers every command or   *)
(* its connection breaks, and the client reads its answers. Nothing makes  *)
(* the client send or close.                                               *)
(***************************************************************************)
FairSpec == Spec /\ WF_vars(Task) /\ WF_vars(ClientRecv) /\ WF_vars(ClientSeesEnd)

-----------------------------------------------------------------------------
(* Properties.                                                             *)

\* What the client has read acknowledges messages 1, 2, ..., n, each with an
\* ok_count that is true up to the one field whose answer was lost.
HonestAnswers ==
    \A k \in 1 .. Len(received) :
        /\ received[k] = k
        /\ verdict[k] = "ok"
        /\ count[k] <= wrote[k]
        /\ wrote[k] <= count[k] + 1

\* An error does not stop the messages behind it at once: the task goes on
\* writing until it finds the stream closed, and the channel bounds how far.
ErrorOvertaken ==
    \A m \in Messages : verdict[m] = "error" => taken <= m + OutCap

\* When the call has ended, the task begins at most one message more.
OneLateMessage == ~RxOpen => taken <= left + 1

\* A client that sees the stream end with OK has the answer to all it sent.
NothingForgotten == phase = "completed" => Len(received) = sent

-----------------------------------------------------------------------------
(* The strengthening that makes these invariants inductive.                *)

InHand == IF task \in {"look", "write", "send"} THEN 1 ELSE 0

\* The answers read, those queued and the one in hand are one numbering.
OneNumbering ==
    /\ taken <= sent
    /\ Len(outq) <= OutCap
    /\ \A k \in 1 .. Len(outq) : outq[k] = Len(received) + k
    /\ RxOpen => Len(received) + Len(outq) + InHand = taken
    /\ Len(received) <= taken

\* Only what the task has read is written and has a verdict, and a verdict is
\* passed before the answer is sent.
Written ==
    \A m \in Messages :
        /\ m > taken => verdict[m] = "none" /\ wrote[m] = 0 /\ count[m] = 0
        /\ m = taken /\ task \in {"look", "write"} => verdict[m] = "none"
        /\ m = taken /\ task = "look" => wrote[m] = 0 /\ count[m] = 0
        /\ m = taken /\ task = "write" => wrote[m] = count[m]
        /\ count[m] <= wrote[m]
        /\ wrote[m] <= count[m] + 1

\* The bounds, as they are while the task is about to read.
Overtaken ==
    /\ task = "read" =>
           \A m \in Messages : verdict[m] = "error" => taken < m + OutCap
    /\ task = "read" /\ ~RxOpen => taken <= left

\* The task leaves a live stream only at its end.
EndsInOrder ==
    RxOpen => /\ input # "reset"
              /\ task = "done" => input = "closed" /\ taken = sent

StreamInvariant ==
    /\ HonestAnswers
    /\ ErrorOvertaken
    /\ OneLateMessage
    /\ NothingForgotten
    /\ OneNumbering
    /\ Written
    /\ Overtaken
    /\ EndsInOrder

-----------------------------------------------------------------------------

\* The call keeps the promise that StreamingRun keeps as well: answers in the
\* order of the messages, none before its message and none after the end.
Promise == INSTANCE ResponseStream
             WITH asked <- sent, answers <- received, open <- RxOpen

Implements == Promise!Spec

\* A client that closes its side sees the end of the call, as the loop of
\* examples/client.py needs, which reads UpdateStore to the end.
StreamEnds == input = "closed" ~> ~RxOpen

\* When the client is gone the task goes, whatever it was doing.
Stops == phase = "cancelled" ~> task = "done"
=============================================================================
