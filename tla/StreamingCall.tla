---------------------------- MODULE StreamingCall ----------------------------
(***************************************************************************)
(* A StreamingRun call together with its guests: StreamingRun has the      *)
(* pipeline and takes it for granted that guest tasks end, GuestExecution  *)
(* has the guests and takes their beginning for granted. Here a request's  *)
(* guest begins when the dispatcher spawns its task, its end is the return *)
(* that the collector awaits, the clock of the pipeline is the one whose   *)
(* epochs interrupt the guests, and the client whose going closes the      *)
(* response channel is the one that select! watches.                       *)
(*                                                                         *)
(* Guests of other calls use the same worker threads, and so do the        *)
(* dispatcher and the collector; whether strays hold all of them is here   *)
(* no longer the environment's choice.                                     *)
(***************************************************************************)
EXTENDS StreamingRun

CONSTANTS Cores,      \* worker threads of the guest runtime
          Others,     \* other calls
          Strangers,  \* their guests
          CallOf      \* the call each of these belongs to

ASSUME CallAssumption ==
    /\ Cores \in Nat \ {0}
    /\ Requests \cap Strangers = {}
    /\ "own" \notin Others
    /\ CallOf \in [Strangers -> Others]

VARIABLES pc, due, expired, ioDone, sel, late,   \* as in GuestExecution
          otherClosed, otherClk                  \* the other calls' clients and clocks

Calls == {"own"} \cup Others
AllGuests == Requests \cup Strangers
Own(g) == g \in Requests

\* The clock of the call starts with its configuration, before any guest; until
\* then it has not stopped.
G == INSTANCE GuestExecution
       WITH Streams <- Calls,
            Guests <- AllGuests,
            Of <- [g \in AllGuests |-> IF Own(g) THEN "own" ELSE CallOf[g]],
            closed <- [s \in Calls |-> IF s = "own" THEN phase \notin {"config", "streaming"}
                                                   ELSE otherClosed[s]],
            clk <- [s \in Calls |-> IF s = "own" THEN clk = "on" \/ coll = "off"
                                                ELSE otherClk[s]]

\* A thread of the guests' runtime can take up a task.
FreeThread == Cardinality(G!Computing) < Cores

\* Every thread is held by a guest that computes and that no epoch will interrupt.
Held == Cardinality(G!Strays) = Cores

\* A step that changes the guests or a clock says so of the threads.
HeldFollows == held' = Held'

guests == <<pc, due, expired, ioDone, sel, late>>
other == <<otherClosed, otherClk>>
all == <<vars, guests, other>>

CallInit ==
    /\ Init
    /\ otherClosed = [s \in Others |-> FALSE]
    /\ otherClk = [s \in Others |-> TRUE]
    /\ G!Init
    /\ held = Held

-----------------------------------------------------------------------------
(* The call without its guests. A task is spawned with a guest that has    *)
(* not been polled.                                                        *)

PipelineActs ==
    /\ \/ Handler \/ Client
       \/ FreeThread /\ (Dispatcher \/ Collector)
       \/ ClkStop
    /\ UNCHANGED <<guests, other>>
    /\ HeldFollows

-----------------------------------------------------------------------------
(* The guests. Those of the call are there once their task is spawned.     *)

Spawned(g) == Own(g) => task[g] = "running"

Pipe == <<phase, input, sent, taken, disp, parq, coll, cur, outq, clk, received>>

\* The task of a guest returns when the guest ends.
Ending(g) ==
    /\ IF Own(g) /\ pc'[g] = "ended" THEN TaskReturn(g) ELSE UNCHANGED task
    /\ HeldFollows

\* A poll that resumes the guest, finds it cut off, or lets it wait.
Poll(g) ==
    /\ Spawned(g)
    /\ UNCHANGED <<Pipe, other>>
    /\ G!Poll(g)
    /\ Ending(g)

EpochYield(g) ==
    /\ UNCHANGED <<Pipe, other>>
    /\ G!EpochYield(g)
    /\ Ending(g)

ImportOrFinish(g) ==
    /\ UNCHANGED <<Pipe, other>>
    /\ G!CallImport(g) \/ G!Finish(g)
    /\ Ending(g)

\* The import storage_update_kv panics while the guest runs.
Panic(g) ==
    /\ pc[g] = "computing"
    /\ TaskPanic(g)
    /\ UNCHANGED other
    /\ G!Finish(g)
    /\ HeldFollows

IoDone(g) == UNCHANGED <<vars, other>> /\ G!IoDone(g)

Expire(g) == UNCHANGED <<vars, other>> /\ G!Expire(g)

-----------------------------------------------------------------------------
(* The clocks, and the other clients.                                      *)

Tick(s) ==
    /\ s = "own" => clk = "on"
    /\ UNCHANGED <<vars, other>>
    /\ G!Tick(s)

OtherClose(s) ==
    /\ otherClosed' = [otherClosed EXCEPT ![s] = TRUE]
    /\ UNCHANGED <<vars, otherClk>>
    /\ G!Close(s)

OtherClkStop(s) ==
    /\ otherClk' = [otherClk EXCEPT ![s] = FALSE]
    /\ UNCHANGED <<call, otherClosed>>
    /\ G!ClkStop(s)
    /\ HeldFollows

-----------------------------------------------------------------------------

\* A call that is over stays over, with the other guests.
CallRest == Quiet /\ UNCHANGED all

CallNext ==
    \/ PipelineActs
    \/ \E g \in AllGuests : Poll(g) \/ EpochYield(g) \/ ImportOrFinish(g) \/ IoDone(g) \/ Expire(g)
    \/ \E g \in Requests : Panic(g)
    \/ \E s \in Calls : Tick(s)
    \/ \E s \in Others : OtherClose(s) \/ OtherClkStop(s)
    \/ CallRest

\* Of the pipeline, what its own fairness asks of dispatcher, collector, clock and
\* client, where dispatcher and collector wait for a thread as guests do; of the
\* guests, what GuestExecution's asks. That guest tasks return is not assumed.
CallFairness ==
    /\ SF_all(FreeThread /\ Dispatcher /\ UNCHANGED <<guests, other>>)
    /\ SF_all(FreeThread /\ Collector /\ UNCHANGED <<guests, other>>)
    /\ WF_all(ClkStop /\ UNCHANGED <<guests, other>> /\ HeldFollows)
    /\ WF_all(ClientRecv /\ UNCHANGED <<held, guests, other>>)
    /\ WF_all(ClientSeesEnd /\ UNCHANGED <<held, guests, other>>)
    /\ \A g \in AllGuests : SF_all(Poll(g)) /\ WF_all(EpochYield(g)) /\ WF_all(Expire(g))
    /\ \A s \in Calls : WF_all(Tick(s))
    /\ \A s \in Others : WF_all(OtherClkStop(s))

CallSpec == CallInit /\ [][CallNext]_all /\ CallFairness

-----------------------------------------------------------------------------
(* Properties.                                                             *)

\* The pipeline is what StreamingRun says it is, its fairness included. What
\* StreamingRun assumes of its tasks comes true: though guests loop for ever, imports
\* never answer, and guests of other calls compete for the threads, dispatcher and
\* collector get a thread and, while the clock ticks, every guest task returns; unless
\* from some time on strays hold every thread.
PipelineHolds == FairSpec

\* The guests are what GuestExecution says they are.
GuestsHold == G!Spec

\* Once the client of a call has gone, each of its guests is resumed at most once, in
\* the composition, where it is the pipeline that closes the channel and stops the clock.
OneSliceAfterClose == G!OneSliceAfterClose

\* When the client is gone, every task of the call goes, unless a guest of the call
\* computes and no epoch will interrupt it, or its guests wait for threads that
\* such guests hold.
CallGone ==
    phase \in {"failed", "cancelled"} ~>
        Quiet \/ G!Strays \cap Requests # {} \/ Held
=============================================================================
