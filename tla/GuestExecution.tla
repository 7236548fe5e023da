--------------------------- MODULE GuestExecution ---------------------------
(***************************************************************************)
(* How the guest programs of several StreamingRun calls share the worker   *)
(* threads: the tail of streaming_run_launch, which races the guest, its   *)
(* time limit and the going of its client, the clock task of each call     *)
(* (StorageManager::spawn_clk), and the cooperative scheduling that        *)
(* wasmtime's epochs give: a guest that computes is interrupted only when  *)
(* the epoch of its engine has passed its deadline.                        *)
(*                                                                         *)
(* A poll of the guest's future is one slice: it resumes the guest, which  *)
(* holds its worker thread until it ends, yields at an epoch deadline or   *)
(* waits for a host call. The time limit is looked at when the slice ends; *)
(* the client's going before the slice or after it, as select! draws the   *)
(* order of its branches.                                                  *)
(***************************************************************************)
EXTENDS Naturals, FiniteSets

CONSTANTS Streams,   \* StreamingRun calls
          Guests,    \* guest tasks
          Of,        \* the call each guest task belongs to
          Cores      \* num_workers, the worker threads of the guest runtime

ASSUME ConstantsAssumption ==
    /\ Of \in [Guests -> Streams]
    /\ Cores \in Nat \ {0}

VARIABLES pc,       \* where each guest task is
          due,      \* the engine's epoch has reached the guest's deadline
          expired,  \* ex_timeout has passed since the guest's first poll
          ioDone,   \* the answer of the host call it waits for has arrived
          sel,      \* which branch the poll under way took first
          closed,   \* the receiver of the call's response channel is dropped
          clk,      \* the call's clock task runs
          late      \* slices begun since the client went, counted up to two

vars == <<pc, due, expired, ioDone, sel, closed, clk, late>>

PCs == {"new", "computing", "yielded", "waiting", "ended"}

TypeOK ==
    /\ pc \in [Guests -> PCs]
    /\ due \in [Guests -> BOOLEAN]
    /\ expired \in [Guests -> BOOLEAN]
    /\ ioDone \in [Guests -> BOOLEAN]
    /\ sel \in [Guests -> {"guest", "closed"}]
    /\ closed \in [Streams -> BOOLEAN]
    /\ clk \in [Streams -> BOOLEAN]
    /\ late \in [Guests -> 0 .. 2]

\* A store's first deadline is epoch 0, so the first check is already due.
Init ==
    /\ pc = [g \in Guests |-> "new"]
    /\ due = [g \in Guests |-> TRUE]
    /\ expired = [g \in Guests |-> FALSE]
    /\ ioDone = [g \in Guests |-> FALSE]
    /\ sel = [g \in Guests |-> "guest"]
    /\ closed = [s \in Streams |-> FALSE]
    /\ clk = [s \in Streams |-> TRUE]
    /\ late = [g \in Guests |-> 0]

Gone(g) == closed[Of[g]]

Computing == {g \in Guests : pc[g] = "computing"}

\* A guest task its wakers have put on the run queue.
Ready(g) ==
    \/ pc[g] \in {"new", "yielded"}
    \/ pc[g] = "waiting" /\ (ioDone[g] \/ expired[g] \/ Gone(g))

-----------------------------------------------------------------------------
(* One poll of a guest task.                                               *)

\* The poll returns and leaves the guest at p. At the guest's end its sandbox and
\* its delay are dropped, and with them what is remembered of it here.
Leaves(g, p) ==
    /\ pc' = [pc EXCEPT ![g] = p]
    /\ sel' = [sel EXCEPT ![g] = "guest"]
    /\ IF p = "ended"
       THEN /\ due' = [due EXCEPT ![g] = FALSE]
            /\ expired' = [expired EXCEPT ![g] = FALSE]
            /\ ioDone' = [ioDone EXCEPT ![g] = FALSE]
            /\ late' = [late EXCEPT ![g] = 0]
       ELSE UNCHANGED <<due, expired, ioDone, late>>
    /\ UNCHANGED <<closed, clk>>

\* select! polls closed() first and the client is gone: "reset by peer". The
\* sandbox is dropped and the guest is not resumed.
PollReset(g) ==
    /\ Ready(g)
    /\ Cardinality(Computing) < Cores
    /\ Gone(g)
    /\ Leaves(g, "ended")

\* Variant: no branch ever looks at the client once the guest runs.
PollResume_NeverLooks(g) ==
    /\ Ready(g)
    /\ Cardinality(Computing) < Cores
    /\ pc[g] = "waiting" => ioDone[g]
    /\ sel' = [sel EXCEPT ![g] = "closed"]
    /\ late' = [late EXCEPT ![g] = IF Gone(g) THEN @ + 1 ELSE @]
    /\ pc' = [pc EXCEPT ![g] = "computing"]
    /\ due' = [due EXCEPT ![g] = IF pc[g] = "yielded" THEN FALSE ELSE @]
    /\ ioDone' = [ioDone EXCEPT ![g] = FALSE]
    /\ UNCHANGED <<expired, closed, clk>>

\* The guest is resumed on a worker thread. A guest that had yielded sets its
\* next deadline one epoch ahead as it resumes.
PollResume(g) ==
    /\ Ready(g)
    /\ Cardinality(Computing) < Cores
    /\ pc[g] = "waiting" => ioDone[g]
    /\ \/ ~Gone(g) /\ sel' = [sel EXCEPT ![g] = "closed"]
       \/ sel' = [sel EXCEPT ![g] = "guest"]
    /\ late' = [late EXCEPT ![g] = IF Gone(g) /\ @ < 2 THEN @ + 1 ELSE @]
    /\ pc' = [pc EXCEPT ![g] = "computing"]
    /\ due' = [due EXCEPT ![g] = IF pc[g] = "yielded" THEN FALSE ELSE @]
    /\ ioDone' = [ioDone EXCEPT ![g] = FALSE]
    /\ UNCHANGED <<expired, closed, clk>>

\* A poll that finds the answer still missing looks at the time limit and at
\* the client, without resuming the guest.
PollWaiting(g) ==
    /\ pc[g] = "waiting"
    /\ ~ioDone[g]
    /\ Cardinality(Computing) < Cores
    /\ expired[g]
    /\ Leaves(g, "ended")

\* Variant: the guest's future is not wrapped in timeout().
Cut_NoTimeout(g) == sel[g] = "guest" /\ Gone(g)

\* What the poll looks at when the guest has stopped short of its end: the
\* delay of timeout(), and closed() unless it was looked at before.
Cut(g) == expired[g] \/ (sel[g] = "guest" /\ Gone(g))

\* The guest reaches a function entry or a loop's back edge past its deadline.
EpochYield(g) ==
    /\ pc[g] = "computing"
    /\ due[g]
    /\ Leaves(g, IF Cut(g) THEN "ended" ELSE "yielded")

\* The guest calls an import that waits for a connection or an answer.
CallImport(g) ==
    /\ pc[g] = "computing"
    /\ Leaves(g, IF Cut(g) THEN "ended" ELSE "waiting")

\* The guest returns, exits or traps.
Finish(g) ==
    /\ pc[g] = "computing"
    /\ Leaves(g, "ended")

-----------------------------------------------------------------------------
(* The world around the guests.                                            *)

IoDone(g) ==
    /\ pc[g] = "waiting"
    /\ ~ioDone[g]
    /\ ioDone' = [ioDone EXCEPT ![g] = TRUE]
    /\ UNCHANGED <<pc, due, expired, sel, closed, clk, late>>

\* The delay starts with the first poll.
Expire(g) ==
    /\ pc[g] \notin {"new", "ended"}
    /\ ~expired[g]
    /\ expired' = [expired EXCEPT ![g] = TRUE]
    /\ UNCHANGED <<pc, due, ioDone, sel, closed, clk, late>>

\* Variant: the clock of one call ticks on an engine of its own.
Tick_OtherEngine(s) ==
    /\ clk[s]
    /\ UNCHANGED vars

\* The clock task increments the epoch of the call's engine.
Tick(s) ==
    /\ clk[s]
    /\ due' = [g \in Guests |-> due[g] \/ (Of[g] = s /\ pc[g] # "ended")]
    /\ UNCHANGED <<pc, expired, ioDone, sel, closed, clk, late>>

\* The client has what it wants, cancels, or is lost.
Close(s) ==
    /\ ~closed[s]
    /\ closed' = [closed EXCEPT ![s] = TRUE]
    /\ UNCHANGED <<pc, due, expired, ioDone, sel, clk, late>>

\* The clock's signal completes: no epoch will come again.
ClkStop(s) ==
    /\ clk[s]
    /\ closed[s]
    /\ clk' = [clk EXCEPT ![s] = FALSE]
    /\ UNCHANGED <<pc, due, expired, ioDone, sel, closed, late>>

-----------------------------------------------------------------------------

Poll(g) == PollReset(g) \/ PollResume(g) \/ PollWaiting(g)

Guest(g) == EpochYield(g) \/ CallImport(g) \/ Finish(g)

\* Guests that compute and that no epoch will interrupt any more.
Strays == {g \in Computing : ~due[g] /\ ~clk[Of[g]]}

AllOver == /\ \A g \in Guests : pc[g] = "ended"
           /\ \A s \in Streams : closed[s] /\ ~clk[s]
           /\ UNCHANGED vars

Next == \/ \E g \in Guests : Poll(g) \/ Guest(g) \/ IoDone(g) \/ Expire(g)
        \/ \E s \in Streams : Tick(s) \/ Close(s) \/ ClkStop(s)
        \/ AllOver

Spec == Init /\ [][Next]_vars

(***************************************************************************)
(* The run queues of the runtime serve every task that is ready again and  *)
(* again while threads become free; time passes; a guest that computes     *)
(* reaches a check; the clocks run on the runtime of the server, not on    *)
(* the guests' threads. A guest that is not interrupted need never stop,   *)
(* and a host call need never be answered.                                 *)
(***************************************************************************)
Fairness ==
    /\ \A g \in Guests : /\ SF_vars(Poll(g))
                         /\ WF_vars(EpochYield(g))
                         /\ WF_vars(Expire(g))
    /\ \A s \in Streams : WF_vars(Tick(s)) /\ WF_vars(ClkStop(s))

FairSpec == Spec /\ Fairness

-----------------------------------------------------------------------------
(* Properties.                                                             *)

\* Once its client is gone a guest is resumed at most once more, whichever
\* branch select! draws first, and however its yields, its host calls and its
\* time limit fall around that moment.
OneSliceAfterClose == \A g \in Guests : late[g] <= 1

\* The strengthening that makes it inductive: a guest that has begun its slice
\* is still in it, and will look at the client when it stops.
LateSlice ==
    \A g \in Guests :
        /\ late[g] > 0 => Gone(g)
        /\ late[g] = 1 => pc[g] = "computing" /\ sel[g] = "guest"
        /\ late[g] <= 1

\* A guest whose time is over ends, though it loops for ever or waits for an
\* answer that never comes, and though there are more guests than threads;
\* unless its client has gone, or every thread is held by a stray of a call
\* whose clock has stopped.
TimeLimitedWhileOpen ==
    \A g \in Guests :
        expired[g] ~> \/ pc[g] = "ended"
                      \/ Gone(g)
                      \/ Cardinality(Strays) = Cores

\* Every guest gets a thread, though those before it loop for ever, unless
\* strays hold them all.
EveryGuestStarts ==
    \A g \in Guests :
        pc[g] = "new" ~> (pc[g] # "new" \/ Cardinality(Strays) = Cores)

\* The time limit of one sampling run as the client's script explains it,
\* without exceptions.
TimeLimited == \A g \in Guests : expired[g] ~> pc[g] = "ended"
=============================================================================
