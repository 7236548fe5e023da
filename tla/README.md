# wart-servers in TLA+

This directory holds TLA+ models of the worker in `src/wart-worker`, the TLC
configurations that check them on small instances, and proofs, checked by TLAPS,
of what should hold for every instance. Line numbers refer to the sources at the
commit the models were written from; `PROJECT.json` maps every definition of a
model to the lines it stands for.

`tlc -config X.cfg M` checks one run, `tlapm M_proofs.tla` one module of proofs.

## The system

A *worker* runs *guests*: WebAssembly programs that sample a graph. A client
opens a session with a program, streams the arguments of many runs to the
worker, reads one response per run, and closes the session. Sessions live in
Redis; the graph lives behind a storage service of which this repository has only
the protocol.

| component | state it keeps | operations | talks to |
|---|---|---|---|
| StreamingRun pipeline, `rpc_server/services/streaming_run/mod.rs` | two bounded channels, the tasks of a call | read configuration, dispatch, launch, collect, clock | client (two gRPC streams), guest tasks, sessions |
| Guest execution, the same file 137-202, `wasm/sandbox.rs`, `spawn_clk` in `wasm/mod.rs` | a store per guest with its epoch deadline, a clock per call | poll, yield, call an import, time out, reset | tokio's runtime of `num_workers` threads, wasmtime's epochs |
| Session registry, `open_session`, `close_session`, `increment_epoch`, `StorageManager::new` | `wart:session:<token>` and `wart:store:<token>` in Redis | open, close, increment, load | Redis through a pool of 128 connections |
| UpdateStore stream, `rpc_server/services/update_store/mod.rs` | a channel of 512 answers, the reading task | read, write field by field, answer | client, Redis |
| Data frames of a guest, `wasm/mod.rs` 118-309 | the tables of one run | new, push, size, into tables | guest, response |
| Graph queries of a guest, `wasm/mod.rs` 315-489, `wasm/utils.rs` | a counter | choice, fetch node, fetch neighbours | storage service through a pool of 8 |
| Key-value reads of a guest, `wasm/mod.rs` 680-795 | none | query field by field | Redis |
| Connection pools, `backend/*.rs`, `server.rs` | open connections | connect, check (PING) | Redis, storage service |
| Log tracer, `log_tracer/mod.rs` | a list under a lock | append | guest |
| Guest library, `src/wasm/include` (`resources.hpp`, `view.hpp`, `option.hpp`, `utils.hpp`, `log.hpp`) | objects that own memory and handles, inside the guest | open, push, query, move, unwrap, destroy, look up, log | imports |
| Text conversion, `src/wasm/include/conv.hpp` | none | values and vectors to texts, numbers, booleans and back | guest library |
| Bindings of the guest, `src/wasm/capi` | `RET_AREA`, one static buffer of 24 bytes | lower parameters, call the import, lift the answer | guest library, worker |
| Vendored headers, `fast_float.h`, `format.hpp` | none | read a float, format a message | text conversion, log |
| Example program, `src/examples` | the guest's three tables | choose nodes, fetch one, fetch its neighbours | guest library; the client reads the tables |
| Epoch store of older versions, `wasm/atomic_kv.rs` | | not built (`wasm/mod.rs` 10) | |

Where it is hard, and what makes each part correct:

* **Pipeline.** Guests end in any order, answers must be read in the order of the
  requests; bounded channels must stop a client that never reads; an end of stream
  without an error must not hide a missing answer, though which clones of one
  sender are alive decides when the stream ends; a guest that panics ends the
  collector; cancellation must take the tasks with it.
* **Guests.** Guests loop for ever on a fixed number of threads. Epoch interruption,
  `select!` in random order and a clock that stops with the client decide whether a
  guest ends when its time is over or its client has gone.
* **Sessions.** Calls are sequences of Redis commands which other calls, aborts and
  restarts come between. A store must not outlive its session, and a closed
  session must not come back.
* **UpdateStore.** The task writes on behind an error; what is acknowledged must
  have been written, and nothing more may be lost than what a broken connection loses.
* **Key-value reads.** A pooled connection is a queue of answers. A guest cut off
  between a command and its answer must not leave its connection to another one with
  that answer in it; the check of the pool is all there is against it.
* **Guest objects.** Objects that own memory and handles are moved, assigned,
  unwrapped and destroyed in any order, their views copy pointers, and all imports
  answer through one buffer at offsets written as numbers. Each block and each handle
  must be given back once, and an answer must arrive as it was sent.
* **Values and texts.** Conversions narrow integers, read texts that are no numbers and
  search by bisection in answers the storage ordered; the parser of log patterns tells
  parts apart by one or two characters. What aborts, what wraps and what is undefined must be
  known.
* **Data frames.** Rows with missing, foreign, repeated or ill-typed values go into
  columns; a column must stay aligned with its table.

`PROJECT.json` lists the hazards one by one, each at its line, with the properties
that watch it.

## Modules

```
ResponseStream <--refines-- StreamingRun
               <--refines-- UpdateStream    (UpdateStream_proofs)
StreamingRun   <--refines-- StreamingCall   (StreamingCall_proofs, of all three), MCStreamingCall
GuestExecution <--refines-- StreamingCall
SessionLife    <--refines-- SessionRegistry (SessionRegistry_proofs), MCSessionRegistry
                            GuestExecution,                           MCGuestExecution
                            ReturnTables    (ReturnTables_proofs),    MCReturnTables
                            KvReads         (KvReads_proofs),         MCKvReads

CanonicalAbi   <- GuestObjects (GuestObjects_proofs)                 <- MCGuestObjects
TextConversion <- GuestViews <- ExampleProgram (with ReturnTables' operators)
               <- LogFormat
               ExampleProgram, LogFormat <- GuestValues <- MCGuestValues
                                            GuestValues <- GuestValues_proofs <- LogFormat_proofs
```

Below, `<-` is EXTENDS.

### ResponseStream
What a call with two streams promises: answers 1, 2, 3, ... in the order of the
requests, none before its request, none after the end. It says nothing of how, so
that both streaming calls of the worker refine it.

### StreamingRun
One call. The handler's configuration message is `Configure`, `Refuse` and
`NoConfig`. The dispatcher (`disp`) reads a message, spawns a guest task and waits
for a place in the channel of join handles (`parq`, `ParN` places); the collector
(`coll`) receives a handle, awaits its task and sends the answer to the response
channel (`outq`, `OutCap` places, 8 in the code). `DispLaunch` is the `reserve`, the
spawn and the send in one action: the spawn comes after `reserve`
and the send on the permit cannot wait. Requests are numbers; an answer bears the
number of its request, and 0 is the status the dispatcher forwards when the request
stream fails. `SenderHeld` is the disjunction of the tasks that own a clone of the
response sender; the client sees the end of the stream only when it is false. A
panic (`TaskPanic`, the `todo!()` of `storage_update_kv` reaches it) ends the
collector without an answer.

Dispatcher and collector are spawned on `GLOBALS.runtime` (`streaming_run/mod.rs` 46
and 78), whose `num_workers` threads (`server.rs` 79) are the guests'. A guest that
computes when the clock of its call stops meets no further epoch and keeps its thread: a
*stray*. `held` says that strays, of whichever calls, hold all of these threads, and then
neither task takes a step. `Threads` lets that begin and end at any time;
the end of a guest of this call ends it, the stop of the clock does not. Handler,
clock and gRPC streams run on the runtime of the server (`server.rs` 95).

Merged: the transport's own windows are part of the client's read, so `outq` is the
only buffer between worker and client.

### GuestExecution
The guests of several calls on `Cores` threads. A poll of a guest is one slice: it
starts with `PollReset`, `PollResume` or `PollWaiting` and ends with `EpochYield`,
`CallImport` or `Finish`. `sel` remembers which branch `select!` drew first; `due`
says that the engine's epoch has reached the guest's deadline; `expired` that
`ex_timeout` has passed. `Tick` is the clock of a call, which `ClkStop` stops when
the client has gone. A new store's deadline is epoch 0, so its first check is due.
`Leaves` is the end of a poll; at a guest's end its sandbox and its delay are dropped,
and with them its deadline, its time limit and what it waited for.

### StreamingCall
A call together with its guests: `StreamingRun` as it is, and `GuestExecution` as an
instance whose guests are those of the requests and of any number of other calls (`Others`,
`Strangers`, `CallOf`). `closed` and
`clk` of the instance are read off the pipeline's `phase` and `clk`. `Spawned` ties the first poll of a
guest to the dispatcher's spawn, `Ending` its end to the return of the task that the
collector awaits; `Panic` is the end of both in the import that is not implemented.
`PipelineActs` are the steps of `StreamingRun` that are not its guests'; those of
dispatcher and collector need a thread that no guest computes on (`FreeThread`). `Held` is
what `held` stands for: as many strays as threads.

`StreamingRun` assumes that guest tasks return while the clock ticks and strays leave a
thread. Here nothing is assumed of them but what `GuestExecution` assumes, and of dispatcher and
collector that they are polled if a thread is free again and again. `PipelineHolds` says that
what `StreamingRun` assumes comes true.

### SessionLife and SessionRegistry
`SessionLife` says that a session is opened once, that runs start only while it is
open, and that it never opens again. `SessionRegistry` has the calls of the worker,
one action per Redis command (or MULTI block): which command a call sends next is
`at`. `Crash` and `Abort` end calls between any two commands; a command whose answer
is lost has been executed. `PoolSize` bounds the calls that hold a connection. The
store of a session is a hash and exists while it has a field. `Seed` is another
program filling stores, because the worker has no call that creates one; a run that
leaves a session out of `Seeded` shows what this means.

Abstracted: the per-epoch stores that `close_session` sweeps are never created, so
`CloseSweep` changes nothing; `HINCRBY` does not overflow; connections come back to
the pool clean (`KvReads` has what happens when they do not).

### UpdateStream
One `UpdateStore` call as a stream: the task reads a message (`Read`), rejects it or
writes it field by field (`Reject`, `Accept`, `WriteField`, `WriteEnd`), and sends
its answer (`Send`, or `SendFails` when the receiver is gone). `wrote` and `count`
are what Redis has and what `ok_count` says. A request stream that is `"reset"` may
lose messages that were sent, one that is half-closed may not. What the fields mean to
other calls is in `SessionRegistry`, where one message is one call.

### ReturnTables
The tables of one guest run. A row is a sequence of items; `Collected` is the
`HashMap` made of it (the last of a repeated key counts), `Given` takes the default
for an absent key, `Pushed` is the match on the two kinds, which drops a value of
another kind. `IntoTable` leaves the nil columns out, `Return` and `Fail` are the ends
of `streaming_run_launch`. `Shown` is the client's `to_pd`, which shows nothing of a
table that has an empty column. `data_frame_size` changes nothing and is left out (it
returns the number of columns).

### CanonicalAbi and GuestObjects
`CanonicalAbi` is `src/wasm/capi/imports.c`: what each import passes to the worker
word by word, and how it lifts the answer from `RET_AREA` with tags and offsets
written as numbers. The worker's side is not in the repository; it is computed from
the types of `imports.h`, and marked external. A wrong offset makes the two sides
see different things.

`GuestObjects` is a guest program as any sequence of what the classes offer: opening,
pushing, querying (`DataFrameOpen` ... `UpdateKv`), unwrapping, moving to a new
variable (`MoveNew`), assigning (`Assign`, `AssignOption`), leaving a scope (`Leave`).
A call is three steps: the parameters are lowered, the worker answers (`Answers...`,
which allocates in the guest's heap and may run out of memory, `NoMemory`), the
wrapper returns (`Return...`). `Frees` is what a destructor frees, block by block;
`Drops` the handles it drops. `faults` collects what goes wrong: a block freed twice, a handle
dropped that is not held, a call on a handle that is gone. A freed block is never
given out again, so that a stale pointer shows. `OnlyAssignmentsLeak` says
that memory is lost in the move assignments and nowhere else.

### TextConversion, GuestViews, LogFormat
Functions, not processes. `TextConversion` is `conv.hpp` with the part of `fast_float.h`
that scans a number; `LogFormat` is `format.hpp` with `log.hpp`; `GuestViews` is
what the worker makes of a data frame of the storage (`wasm/utils.rs`) and the guest's
views of it (`view.hpp`). A text is a sequence of characters. A conversion yields the
set of its possible outcomes: none or `Abort` where the guest aborts, more than one
where C++ leaves the outcome open (a float too large for an integer, sorting with equal
keys, `-arg` of the least integer). A pattern may also compile and not come back: `Endless`, and
nothing is logged. `MaxText` is the longest text for which the guest has memory; `SizeT` is the
conversion to `std::size_t`, which has 32 bits in a guest.

Abstracted: integers have `W32` and `W64` bits; a float is infinite, not a number, or
a number of hundredths, so that rounding to binary fractions is left out; names are
integers in the order of the names. Digits of a specification are too few to wrap in a
`size_t`, and a width or precision that an argument gives is an integer.

### ExampleProgram and GuestValues
`ExampleProgram` is `a.cpp`, statement by statement, on the views above and on the
operators of `ReturnTables`: what the run returns for each argument and each answer
of the storage. `GuestValues` calls the functions one at a time on the inputs of the
instance and compares each result with a definition written from what the function is
for: a grammar for the parser of specifications, the longest numeral a text begins with
for the reading of numbers, the set of places a key has in an answer for the bisection.

### KvReads
`storage_query_kv` on connections of the pool. `Converted` is what redis makes of an
answer for the kind of the default: a field that is not there is no number and no text, and
the boolean FALSE. `wire` is what was sent on a connection
and not read yet: `Redis` executes it in order, `Answered` takes the oldest
answer for its own, and `Checked` takes it for that of its PING. `Cut` is a guest that
is timed out or whose client goes (`streaming_run/mod.rs` 164): it drops the connection
with the check, but gives it back as it is when it waits for a value. Every answer bears
the command it belongs to; `seen` is what the field has held since the guest asked,
and `behind` the answers that were due when it took the connection.

`AnswersInStep` says exactly what the check does for the next guest: nothing, once an
answer is due. It reads one left-over answer, and its PING leaves another in its place,
so that a connection, once behind, stays behind until it breaks. No line of the
repository promises otherwise, and how a cut-off query leaves a connection is
decided in redis and mobc, which are modelled here as plain queues. The calls of
`SessionRegistry` share the pool; they are modelled with connections in step.

## Runs

| run | instance | states | what it shows |
|---|---|---|---|
| `pipeline` | 7 requests, both channels of 2, panics | 107,332 | `OrderedResponses`, `InFlightBound` (at most `ParN + 1` guests), `ReadAheadBound`, `NoSilentTruncation`, refinement of `ResponseStream`; `Released` (a client that goes takes clock and dispatcher with it), `AnsweredUnlessPanic`, both unless strays hold every thread for ever |
| `lost_answers` | 3 requests, channels of 1, panics | to the violation | finding 1: a request that is never answered |
| `guests` | 3 guests of 2 calls on 1 thread | 57,024 | `TimeLimitedWhileOpen`, `EveryGuestStarts` |
| `time_limit` | 1 guest | to the violation | finding 2: a guest that is never interrupted |
| `call` | 1 request, its guest and one of another call, 1 thread, panics | 49,020 | `PipelineHolds` (refinement of `StreamingRun` with the fairness it asks for), `GuestsHold` (refinement of `GuestExecution`), `OneSliceAfterClose`: a guest whose client has gone is resumed at most once; `CallGone` |
| `sessions` | 1 session, 4 calls, 2 connections, 1 field | 128,711 | `NoOrphanStore`, `ClosedIsClosed`, refinement of `SessionLife`; every call ends |
| `no_session` | 1 session, 2 calls | to the violation | finding 3: "no session" about an open session |
| `updates` | 5 messages of 2 fields, channel of 2 | 352,252 | `HonestAnswers`, `ErrorOvertaken`, `OneLateMessage`, `NothingForgotten`, refinement of `ResponseStream`; `StreamEnds`, `Stops` |
| `tables` | 2 tables of 2 rows, 2 columns, 7 rows to draw from | 478,803 | `RowsStayTogether`, `WellTypedIsShown` |
| `kv_reads` | 3 guests, 2 fields, 1 connection | 570,915 | `AnswersInStep`, `FreshAnswers`; every query ends |
| `objects` | 3 variables, 2 handles, 3 calls of imports | 769,353 | `NothingTwice`, `AnswerArrives`, `OneOwner`, `OnlyAssignmentsLeak`; `ViewsHold` |
| `guest_values` | 39,469 inputs | 78,986 | `TextRoundTrip`, `TextIsRead`, `KeyIsFound`, `SpecIsGrammar`, `LogShowsNumber`, `ExampleRows` |

The type invariants and the inductive strengthenings are proved and not among the runs.

### Bounds
Each bound is chosen past the point where the cases it could cut off have happened.

* `MaxReq = 7` exceeds `OutCap + ParN + 2 = 6`, what the pipeline can hold, so
  that it fills up and blocks back to the client and `ReadAheadBound` is reached. Two is
  the smallest capacity at which an entry can overtake another in a channel. Whether
  something happens at all does not depend on that: with five requests channels of one
  fill up (`1 + 1 + 2 = 4`), every task waits for every other, and a client goes at each
  such moment. For the counterexample three requests and channels of one are enough.
* Two guests of one call and one of another on one thread: guests of one engine,
  of different engines, and more guests than threads. One slice is one state,
  so longer guests add nothing; `late` counts to two because one too many is enough.
* In `call` a guest of the call and one of another compete for one thread, which is
  what the pipeline cannot see of its guests; either may be left to itself on it. The order of
  several requests is not at stake there: that the steps of the composition are those
  of the pipeline is proved for any number (`CallIsPipeline`), and `guests` has guests
  of one call competing.
* Four calls on a session, made in any order after the first: an open, a close, and two
  that are updates, runs or increments, one of which may be a second close
  (`MCSessionRegistry` says which call may be what, in place of trying each order of names).
  Four, because a run that is started after the end takes an open, a close and an
  increment before it. Two connections let two calls interleave command by command while
  others wait, and two calls that leaked theirs starve the rest. Sessions share only the
  connections. The proofs are for any number of sessions, calls and connections.
* `MaxMsg = 5` exceeds `OutCap + 2`, so that a bad message can be overtaken by as
  many messages as the channel allows and by one more if it did not. Two
  fields of a message give none, some and all written.
* Two columns, two kinds and nil, and rows that leave out, repeat and mistype a
  key; two pushes, so that a value can stand in the wrong row.
* Three guests on one connection: two that are cut off one after the other, and one
  that is behind by what both left. Two fields, so that an answer can be taken for that
  of the other field, and a number and a text, so that one converts and one does not; one
  guest asks for texts, one for numbers and one for booleans.
* Three variables let an object be moved and assigned while another of the same memory
  could be left; three calls let an answer lie over an older one and a handle
  be given out again; answers have none, one and two entries, with texts inside and
  without.
* `guest_values` has every integer of 6 and of 9 bits, floats on both sides of each
  limit, every text of up to 4 of six characters and some longer, every specification
  of up to 4 characters over the ones that the parser tells apart, data frames with missing,
  repeated, empty, nil and ill-typed columns.

`MaxCalls` (`objects`) and `late` are the bounds in guards; `epoch` in `SessionRegistry` is bounded by the number of calls; no state
constraint is used anywhere.

### Fairness
* tokio polls a task that is ready: weak fairness of the clock, the session calls and the
  `UpdateStore` task, which run on the runtime of the server, where nothing computes for
  long. The steps that wait for Redis are included: Redis answers or its connection breaks.
* Dispatcher, collector and guests share `num_workers` threads, on which guests compute.
  A ready task may lose a thread to others again and again, so these have strong fairness: when
  threads become free infinitely often, so does its turn come. That is that the run queues of the
  runtime are served in turn; in which order, and tokio's slot for the task woken last, is left
  out. When strays hold all threads for ever, nothing is assumed and nothing
  happens: `Released`, `AnsweredUnlessPanic`, `EveryRequestAnswered` and `CallGone` say so.
* A guest that computes reaches a check (wasmtime compiles one into every function
  and loop), but nothing makes it end, and nothing makes an import's answer come.
* In `StreamingRun`, whose liveness needs guest tasks to end, they do so, one after the
  other, while the clock ticks and strays leave a thread. `StreamingCall` takes this assumption away:
  `PipelineHolds` has it as a consequence of what is assumed of guests.
* Redis answers the commands of a connection or the connection breaks.
* The client reads what has arrived. Nothing makes it send, close or cancel.

TLC looks for deadlocks in every run, but `Threads` is a step that `StreamingRun` can always
take, so that for the pipeline this says nothing; that its tasks do not wait for each other for
ever is what `AnsweredUnlessPanic`, `Released` and `CallGone` say.

### Findings
1. `lost_answers`. A guest task that panics ends the collector
   (`streaming_run/mod.rs` 129) without a message. The clock keeps a sender, so the
   stream stays open and the client, which counts its answers (`client.py` 105), waits for ever.
2. `time_limit`. `ex_timeout` is described as the limit of one sampling run
   (`client.py` 81). The delay is looked at only when the guest yields, it yields
   only when an epoch comes, and the clock stops with the client (`wasm/mod.rs` 107):
   a guest that computes at that moment keeps its thread for as long as it likes.
   `TimeLimitedWhileOpen` and `EveryGuestStarts` name the threads lost in this way.
3. `no_session`. `UpdateStore` looks for `wart:store:<token>`, which nothing in the
   worker creates, and answers "no session" about a session that is open
   (`update_store/mod.rs` 61). That no such message writes anything is proved
   (`UpdatesAreVain`).

Observed while modelling the guest library, where no line promises otherwise; the properties
state what the code does:

* `FALSE` becomes the text `else` (`conv.hpp` 158), which no conversion reads back
  (`TextRoundTrip`).
* The move assignments of rows, vectors, tables, data frames and storages do not give back what
  the left side held (`view.hpp` 255 and its like; `OnlyAssignmentsLeak`).
* The least integer logged in another base may never end: `-arg` is undefined there
  (`format.hpp` 251; `LogShowsNumber`). A width from an argument is taken modulo 2^32
  (`format.hpp` 378, 460), so that a negative one is a huge length for which there is no
  memory. A position left out before `:` is argument 0 and not the next one.
* The example reads past the column of time stamps if it is shorter than that of
  neighbours (`a.cpp` 68; `ExampleRows`).

## Proofs

TLAPS proves, for every value of the constants that satisfies the module's
assumption (capacities at least one, finite keys, and so on):

| module | theorems |
|---|---|
| `StreamingCall_proofs`, of guests by themselves | `GuestTypes`, `OneMoreSlice` |
| `SessionRegistry_proofs` | `SessionTypes`, `Sessions`, `NoOrphans`, `ClosedStaysClosed`, `Implementation`, `UpdatesAreVain` |
| `UpdateStream_proofs` | `StreamTypes`, `UpdateStreams`, `Honest`, `Overtaking`, `LateMessage`, `NothingLeft`, `StreamImplementation` |
| `ReturnTables_proofs` | `TablesTypes`, `TablesHold`, `RowsTogether`, `Purity`, `ShownWhole` |
| `KvReads_proofs` | `KvTypes`, `WiresHold`, `AnswersBelong`, `AnswersAreFresh` |
| `GuestObjects_proofs` | `ObjectsTypes`, `ObjectsHold`, `FreedOnce`, `AnswersLifted`, `OwnedOnce`, `LeaksKnown`, `ViewsGood` |
| `StreamingCall_proofs`, of a call by itself | `TypeCorrect`, `Pipeline`, `Order`, `NoTruncation`, `InFlight`, `ReadAhead`, `Implementation` |
| `StreamingCall_proofs`, with its guests | `CallInvariantHolds`, `CallIsPipeline`, `CallIsGuests`, `CallOrdered`, `CallNotTruncated`, `CallInFlight`, `CallReadAhead`, `CallOneMoreSlice` |
| `GuestValues_proofs` | `Lookup`, `Example`, `RoundTrip`, `TextRead` |
| `LogFormat_proofs` | `SpecGrammar`, `LoggedNumbers` |

The inductive invariants, and why the properties are not inductive alone:

* **`PipelineInvariant`.** That answers are read in order says nothing of what is
  queued. The invariant says that the queues are stretches of one numbering: the
  answers read, then the response channel (up to a status, which may be slipped in
  anywhere), then the request in the collector's hand, then the handles, then the one the
  dispatcher holds. `InFlightBound` follows from `RunningWindow`: the running guests
  lie in an interval of `ParN + 1` numbers. `NoSilentTruncation` needs `Setup`:
  after the configuration the clock holds a sender until the client has gone, so that the
  only call whose client reads an end with OK is one that was never configured and where
  nothing was sent. The theorem says that no configured call ends so.
* **`LateSlice`.** A guest that has had its slice since the client went is still in
  it, and drew the order in which it will look at the client when it stops. With the types
  it is `SliceInvariant`. The theorems are about `GuestExecution` as `StreamingCall` has it
  (`G`), whose calls, guests and threads are any; of the pipeline they use nothing.
* **`SessionInvariant`.** `NoOrphanStore` needs to know what each command of a close
  leaves possible: once a session's hash or store has been dropped there is no
  store and no update past its check, except where one had looked before
  (`StoresGoFirst`). `ClosedIsClosed` needs that hashes of closed sessions are never
  whole (`HashOfOpen`), which needs that a token is opened once (`OpenedOnce`). What it leaves
  open, the code does: an increment answered after the close makes a hash with an epoch and
  nothing else, a close may be repeated, and an update may write to a store that was
  dropped between an earlier update's check and its last write.
* **`StreamInvariant`.** As for the pipeline, the answers read, queued and in hand are
  one numbering; the bounds on overtaking are stated for the moment at which the task is
  about to read, one less than the bound itself.
* **`TablesInvariant`.** `WellTypedIsShown` is about what is returned and follows from
  `RowsStayTogether` at the moment of the return. The lemmas before it show that
  collecting a row yields what the guest says last of each key, by the existence of a
  last place in a finite set.

* **`KvInvariant`.** That answers come in step says nothing of what is still on a
  wire. The invariant says, of a connection a guest holds, that as many answers are to come as
  it was behind and one more, and that they are those of its own last questions
  (`HeldWire`); of an idle one, that its answers belong to queries that are over
  (`IdleWire`). For `FreshAnswers` it adds that what the field held when the command was
  executed is among what it has held since the question (`Asked`).
* **`ObjectsInvariant`.** `OneOwner` and `NothingTwice` say nothing of an answer that is under
  way or of what was lost. The invariant splits all memory and all handles into what each
  variable has, the arrays of the call, the answer and the loss (`Split`), no two of
  which meet; the steps are lemmas about such a split (`SplitMove`, `SplitLose`, ...). What
  an object frees depends on the memory it points into, so it must be shown to stay the
  same while others allocate and free (`SameFrees`), and the memory of an answer of any
  shape to be just what its object frees (`VectorAnswer`, `RowAnswer`, `TableAnswer`).
  For `AnswerArrives` the offsets are computed from the types (`Offsets`).
* **`CallInvariant`.** A guest that has been polled and has not ended is that of a task that
  runs (`Tied`), so that its end is the return of the task; the clock runs only in a
  configured call (`ClockStarted`), so that its stop is one that guests may see. Everything
  proved of `StreamingRun` and of `GuestExecution` then holds of the composition:
  `CallOrdered`, `CallNotTruncated`, `CallInFlight` and `CallReadAhead` with guests that share
  their threads with those of other calls, and `CallOneMoreSlice` where it is the pipeline
  that closes the channel and stops the clock.

`GuestValues` makes one call and is done, so that its theorems need no strengthening
(`InputOf` says only which inputs there are); they are about what the functions compute:

* **`Lookup`, `Example`.** A recursive function over positions is handled by its least
  counterexample, which the natural numbers have (`Least`): the bisection keeps the key
  between its ends, and the tables of the example grow row by row. That sorting yields
  a permutation is shown by counting the smaller items. `AnswersAssumption` is that
  answers are data frames with sequences for columns; of any lengths, and with any of the
  faults the worker lets through.
* **`RoundTrip`, `TextRead`.** The digits of a number and the number of some digits are
  shown to satisfy their recursive equations at every place (`DecimalSteps`, `NumberSteps`),
  from which an integer is read back by its last digit first. For the reading of floats the
  grammar of numerals, which is about prefixes of prefixes, is restated for places of the
  text (`Mantissa`, `Exponent`). `parse_number_string` stops at the last place at which
  a numeral can end, and there is only one way to cut that numeral (`NumeralTo`), so that
  its mantissa, its decimals and its exponent are those the program has counted on the
  way (`NumeralMeans`). Any text, any number of bits. `ConversionsAssumption` is that values
  are of their types: integers in their range, floats finite in their text if they
  are finite.
* **`SpecGrammar`.** `as_spec` knows at each place and for each kind of part that may have
  come before what the rest of the text means (`SpecSteps`: its recursion only looks
  ahead). The readings of the grammar are split the same way, by the first part that is
  there (`FromSign`, `FromWidth`, ..., `FromAlign`). Part by part from the end of the text, the
  value of the parser at a place is shown to stand for the well-formed readings that begin
  there (`TypeStands`, `PrecisionStands`, ..., `AlignStands`): where the first character says that a
  part is there, no reading leaves it out, and where it says that it is not, none has it.
  That also shows that no text has two readings. The hard cases are those a character does
  not decide: `0` is a padding unless a dollar follows, a fill may be any character if
  an alignment follows, and a count ends where its digits do.
* **`LoggedNumbers`.** The pattern that is logged is a specification between `{0:` and `}`. Of
  `format_impl` it is shown what it makes of each place if it knows what it makes of later
  ones (`FormatSteps`), and so of the one placeholder (`FormatIs`); `as_spec` in the middle of a
  pattern does what it does of the specification alone, moved by three places (`SpecThere`),
  so that `SpecGrammar`'s lemmas say what it can ask for (`MeaningUsable`). Digits of any base
  are pushed one behind the other and stand for their number by its least counterexample
  (`InBaseIs`, `DecimalText`); zeros before them add nothing (`ZerosAdd`). Then the text
  is followed through `format.hpp`: the sign and the base before the digits (`PlainText`), a plus
  before those (`PlusText`), the zeros behind both, the fill around all of it
  (`PaddedText`, `AlignedIs`). `ConversionsAssumption` says of what is logged that it is an
  integer in its range with integers for its other arguments, and that its specification
  holds no `}`, which would end it. Nothing is logged for what does not compile (`RefusedText`) and
  for a width without memory (`NoText`); for all else there is a message, and for the least
  integer in another base it may also not come.

The refinements are proved by one lemma per step: it maps to a step of the abstract
module or leaves its variables alone.

Only model-checked: everything about liveness (`Released`, `AnsweredUnlessPanic`,
`TimeLimitedWhileOpen`, `EveryGuestStarts`, `EveryCallEnds`, `StreamEnds`, `Stops`, `EveryQueryEnds`,
`CallGone`, the fairness in `PipelineHolds`), because fairness is out of the prover's reach;
and the three counterexamples. Every invariant of a run is stated by a theorem.

## Not modelled

* The end of a configured StreamingRun by itself: the clock holds the stream open until
  the client goes. No line promises otherwise, and the client of the repository leaves
  when it has counted its answers.
* `UpdateStore` with a client that has received an error and keeps its side
  open: the task waits for messages until the client closes. `Stops` claims only what happens
  after a cancellation.
* A session opened by a call that was cut before its answer stays in Redis; nothing
  cleans it up.
* Compilation of programs, instantiation, WASI and everything inside wasmtime, tonic,
  mobc and redis beyond what the worker's code relies on.
* Requests to the storage service and the service itself; the counter that a run reports.
* Of the guest library: the rounding of decimal digits to binary floats (`fast_float.h`
  740-2880) and hexadecimal floats, `print_impl`, which nothing calls, and the helpers
  of `imports.c` that nothing calls (`imports_string_set`, `imports_string_dup`, the
  clones of handles).
* `src/wasm/imports.c`, bindings of an older interface, which no build file names.
* The disabled `atomic_kv.rs`, the log tracer.

## Plan

Done, in this order: the pipeline, guest execution, the session registry, UpdateStore
as a stream, the tables of a run, key-value reads, the objects of the guest library, each
with its proofs; the library's views, conversions and formats, the example program; the
composition of a call with its guests and those of other calls, with its proofs; what is
proved of the library's views, conversions and formats.

Next: what is left to TLC is liveness, whose temporal part stays there. Of the arguments for
it the steps that are about states could be proved: what a variant function of the pipeline, of
a session call or of an update stream is, and that every step but the other party's lowers it.
