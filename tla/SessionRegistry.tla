-------------------------- MODULE SessionRegistry ---------------------------
(***************************************************************************)
(* The sessions and stores the worker keeps in Redis, and the calls that   *)
(* work on them: OpenSession, CloseSession, IncrementEpoch, the loading of *)
(* a session by StreamingRun (StorageManager::new), and one message of     *)
(* UpdateStore. Every call takes one connection of the bounded pool and    *)
(* sends its commands one by one; Redis executes each of them, and each    *)
(* MULTI block, atomically, and other calls come in between.               *)
(*                                                                         *)
(* A session is the hash wart:session:<token>. Created by OpenSession it   *)
(* has all its fields; HINCRBY on a missing key makes one that has only an *)
(* epoch. The store of a session is the hash wart:store:<token>, which     *)
(* exists while it has a field.                                            *)
(***************************************************************************)
EXTENDS Naturals, Sequences, FiniteSets

CONSTANTS Tokens,     \* session tokens (UUIDs, never handed out twice)
          Calls,      \* calls, each made once
          Fields,     \* fields of a store
          Keys,       \* the keys of an UpdateStore message, in order
          PoolSize,   \* max_open of the Redis pool, 128 in the code
          Seeded      \* sessions whose store someone else has filled

ASSUME ConstantsAssumption ==
    /\ Keys \in Seq(Fields)
    /\ PoolSize \in Nat \ {0}
    /\ Seeded \subseteq Tokens

VARIABLES conf,     \* wart:session:<token>: missing, only an epoch, or whole
          epoch,    \* its field epoch
          store,    \* wart:store:<token>
          op,       \* what each call is
          tok,      \* the token it is about
          at,       \* the command it sends next
          reply,    \* how it ended
          done,     \* keys an UpdateStore call has written: its ok_count
          created,  \* tokens whose hash OpenSession has made
          known,    \* tokens that have been returned to a client
          closed,   \* tokens for which a CloseSession has been answered
          stale,    \* calls made with a token that was closed already
          raced     \* stores dropped between an update's check and its end

vars == <<conf, epoch, store, op, tok, at, reply, done, created, known, closed,
          stale, raced>>

Contents == {"absent", "number", "text"}

\* The messages of UpdateStore as write_to_redis tells them apart: "ignored"
\* stands for a merge type or a value type that no arm handles.
Updates == {"del", "add", "mov number", "mov text", "ignored", "no vals"}

Ops == {"open", "close", "increment", "run"} \cup Updates

Answers == {"ok", "no session", "err", "cut"}

\* The commands, in the order in which the calls send them.
Holding == {"hset", "token", "look", "sweep", "drop", "forget", "bump", "load",
            "exists", "write"}
Stations == {"idle", "wait", "over"} \cup Holding

TypeOK ==
    /\ conf \in [Tokens -> {"none", "bare", "full"}]
    /\ epoch \in [Tokens -> Nat]
    /\ store \in [Tokens -> [Fields -> Contents]]
    /\ op \in [Calls -> Ops \cup {"none"}]
    /\ tok \in [Calls -> Tokens \cup {"none"}]
    /\ at \in [Calls -> Stations]
    /\ reply \in [Calls -> Answers \cup {"none"}]
    /\ done \in [Calls -> 0 .. Len(Keys)]
    /\ created \subseteq Tokens
    /\ known \subseteq Tokens
    /\ closed \subseteq Tokens
    /\ stale \subseteq Calls
    /\ raced \subseteq Tokens

Empty == [f \in Fields |-> "absent"]

Init ==
    /\ conf = [t \in Tokens |-> "none"]
    /\ epoch = [t \in Tokens |-> 0]
    /\ store = [t \in Tokens |-> Empty]
    /\ op = [c \in Calls |-> "none"]
    /\ tok = [c \in Calls |-> "none"]
    /\ at = [c \in Calls |-> "idle"]
    /\ reply = [c \in Calls |-> "none"]
    /\ done = [c \in Calls |-> 0]
    /\ created = {}
    /\ known = {}
    /\ closed = {}
    /\ stale = {}
    /\ raced = {}

IsUpdate(c) == op[c] \in Updates
Active(c) == at[c] \notin {"idle", "over"}
Holders == {c \in Calls : at[c] \in Holding}
Redis == <<conf, epoch, store>>
Ghosts == <<created, known, closed, stale, raced>>

\* The call goes on with its next command.
Goto(c, station) == /\ at' = [at EXCEPT ![c] = station]
                    /\ UNCHANGED reply

\* The call ends; its connection goes back to the pool.
Reply(c, answer) == /\ at' = [at EXCEPT ![c] = "over"]
                    /\ reply' = [reply EXCEPT ![c] = answer]

-----------------------------------------------------------------------------
(* Calls arrive.                                                           *)

\* A client makes a call with a token it was given; the token of OpenSession
\* is one that was never drawn before.
Invoke(c, o, t) ==
    /\ at[c] = "idle"
    /\ IF o = "open" THEN \A d \in Calls : op[d] = "open" => tok[d] # t
                     ELSE t \in known
    /\ op' = [op EXCEPT ![c] = o]
    /\ tok' = [tok EXCEPT ![c] = t]
    /\ at' = [at EXCEPT ![c] = "wait"]
    /\ stale' = IF t \in closed THEN stale \cup {c} ELSE stale
    /\ UNCHANGED <<Redis, reply, done, created, known, closed, raced>>

\* The program does not compile, the message has no keys: an error before any
\* connection is asked for.
Refuse(c) ==
    /\ at[c] = "wait"
    /\ op[c] = "open" \/ IsUpdate(c)
    /\ Reply(c, "err")
    /\ UNCHANGED <<Redis, op, tok, done, Ghosts>>

FirstCommand(c) ==
    CASE op[c] = "open"      -> "hset"
      [] op[c] = "close"     -> "look"
      [] op[c] = "increment" -> "bump"
      [] op[c] = "run"       -> "load"
      [] OTHER               -> "exists"

\* GLOBALS.redis.get(): no timeout.
Acquire(c) ==
    /\ at[c] = "wait"
    /\ Cardinality(Holders) < PoolSize
    /\ Goto(c, FirstCommand(c))
    /\ UNCHANGED <<Redis, op, tok, done, Ghosts>>

-----------------------------------------------------------------------------
(* OpenSession.                                                            *)

OpenSet(c) ==
    /\ at[c] = "hset"
    /\ conf' = [conf EXCEPT ![tok[c]] = "full"]
    /\ epoch' = [epoch EXCEPT ![tok[c]] = 0]
    /\ created' = created \cup {tok[c]}
    /\ Goto(c, "token")
    /\ UNCHANGED <<store, op, tok, done, known, closed, stale, raced>>

OpenReadBack(c) ==
    /\ at[c] = "token"
    /\ Reply(c, "ok")
    /\ known' = known \cup {tok[c]}
    /\ UNCHANGED <<Redis, op, tok, done, created, closed, stale, raced>>

-----------------------------------------------------------------------------
(* CloseSession.                                                           *)

\* Variant: the error path keeps the connection.
CloseLook_Leak(c) ==
    /\ at[c] = "look"
    /\ IF conf[tok[c]] = "none" THEN UNCHANGED <<at, reply>> ELSE Goto(c, "sweep")
    /\ UNCHANGED <<Redis, op, tok, done, Ghosts>>

\* HGET epoch: nil does not convert.
CloseLook(c) ==
    /\ at[c] = "look"
    /\ IF conf[tok[c]] = "none" THEN Reply(c, "err") ELSE Goto(c, "sweep")
    /\ UNCHANGED <<Redis, op, tok, done, Ghosts>>

\* Variant: the session's hash is unlinked before its stores.
CloseSweep_SessionFirst(c) ==
    /\ at[c] = "sweep"
    /\ conf' = [conf EXCEPT ![tok[c]] = "none"]
    /\ Goto(c, "drop")
    /\ UNCHANGED <<epoch, store, op, tok, done, Ghosts>>

\* The stores of the epochs, which nothing creates.
CloseSweep(c) ==
    /\ at[c] = "sweep"
    /\ Goto(c, "drop")
    /\ UNCHANGED <<Redis, op, tok, done, Ghosts>>

CloseDrop(c) ==
    /\ at[c] = "drop"
    /\ store' = [store EXCEPT ![tok[c]] = Empty]
    /\ raced' = IF \E d \in Calls : at[d] = "write" /\ tok[d] = tok[c]
                THEN raced \cup {tok[c]} ELSE raced
    /\ Goto(c, "forget")
    /\ UNCHANGED <<conf, epoch, op, tok, done, created, known, closed, stale>>

CloseForget(c) ==
    /\ at[c] = "forget"
    /\ conf' = [conf EXCEPT ![tok[c]] = "none"]
    /\ \/ Reply(c, "ok") /\ closed' = closed \cup {tok[c]}
       \/ Reply(c, "cut") /\ UNCHANGED closed
    /\ UNCHANGED <<epoch, store, op, tok, done, created, known, stale, raced>>

-----------------------------------------------------------------------------
(* IncrementEpoch.                                                         *)

\* HINCRBY on a missing key starts from nothing. The answer may be lost.
IncrementBump(c) ==
    /\ at[c] = "bump"
    /\ IF conf[tok[c]] = "none"
       THEN /\ conf' = [conf EXCEPT ![tok[c]] = "bare"]
            /\ epoch' = [epoch EXCEPT ![tok[c]] = 1]
       ELSE /\ epoch' = [epoch EXCEPT ![tok[c]] = @ + 1]
            /\ UNCHANGED conf
    /\ Reply(c, "ok") \/ Reply(c, "cut")
    /\ UNCHANGED <<store, op, tok, done, Ghosts>>

-----------------------------------------------------------------------------
(* The session a StreamingRun names.                                       *)

\* Variant: fields that are missing are given defaults.
RunLoad_Lenient(c) ==
    /\ at[c] = "load"
    /\ Reply(c, IF conf[tok[c]] # "none" THEN "ok" ELSE "err")
    /\ UNCHANGED <<Redis, op, tok, done, Ghosts>>

\* One MULTI of five HGETs; a missing field does not convert.
RunLoad(c) ==
    /\ at[c] = "load"
    /\ Reply(c, IF conf[tok[c]] = "full" THEN "ok" ELSE "err")
    /\ UNCHANGED <<Redis, op, tok, done, Ghosts>>

-----------------------------------------------------------------------------
(* One message of UpdateStore.                                             *)

StoreExists(t) == store[t] # Empty

\* EXISTS, and the values that ADD and MOV need. No arm for the message: it is
\* answered with ok_count 0.
UpdateExists(c) ==
    /\ at[c] = "exists"
    /\ \/ /\ ~StoreExists(tok[c])
          /\ Reply(c, "no session")
       \/ /\ StoreExists(tok[c])
          /\ CASE op[c] = "no vals" -> Reply(c, "err")
               [] op[c] = "ignored" -> Reply(c, "ok")
               [] OTHER             -> Goto(c, "write")
    /\ UNCHANGED <<Redis, op, tok, done, Ghosts>>

\* What HDEL, HINCRBY or HSET makes of a field.
Written(c) == CASE op[c] = "del"      -> "absent"
                [] op[c] = "mov text" -> "text"
                [] OTHER              -> "number"

\* The next key is written; HINCRBY fails on a text. The write makes the store
\* again if it has been dropped since the check. If the connection breaks
\* before Redis has answered, the write is done and not counted.
UpdateWrite(c) ==
    LET field == Keys[done[c] + 1]
    IN /\ at[c] = "write"
       /\ done[c] < Len(Keys)
       /\ op[c] = "add" => store[tok[c]][field] # "text"
       /\ store' = [store EXCEPT ![tok[c]][field] = Written(c)]
       /\ \/ done' = [done EXCEPT ![c] = @ + 1] /\ UNCHANGED <<at, reply>>
          \/ Reply(c, "ok") /\ UNCHANGED done
       /\ UNCHANGED <<conf, epoch, op, tok, Ghosts>>

\* Every key with a value is written, or a write has failed; what was written
\* stays and is counted.
UpdateReply(c) ==
    /\ at[c] = "write"
    /\ Reply(c, "ok")
    /\ UNCHANGED <<Redis, op, tok, done, Ghosts>>

-----------------------------------------------------------------------------
(* What goes wrong around the calls.                                       *)

\* The client drops a unary call, whose future is dropped where it stands, or
\* a command fails and the call answers with an error.
Abort(c) ==
    /\ Active(c)
    /\ IsUpdate(c) => at[c] # "write"
    /\ \E answer \in {"err", "cut"} : Reply(c, answer)
    /\ UNCHANGED <<Redis, op, tok, done, Ghosts>>

\* The worker dies and is started again: Redis keeps what it has.
Crash ==
    /\ \E c \in Calls : Active(c)
    /\ at' = [c \in Calls |-> IF Active(c) THEN "over" ELSE at[c]]
    /\ reply' = [c \in Calls |-> IF Active(c) THEN "cut" ELSE reply[c]]
    /\ UNCHANGED <<Redis, op, tok, done, Ghosts>>

\* Someone other than the worker fills the store of an open session, and not
\* while the session is being closed. Nothing in the worker does it.
Seed(t) ==
    /\ t \in Seeded \cap known
    /\ conf[t] = "full"
    /\ \A c \in Calls : ~(op[c] = "close" /\ tok[c] = t /\ Active(c))
    /\ \E f \in Fields, v \in {"number", "text"} :
           store' = [store EXCEPT ![t][f] = v]
    /\ UNCHANGED <<conf, epoch, op, tok, at, reply, done, Ghosts>>

-----------------------------------------------------------------------------

Step(c) == \/ Acquire(c) \/ Refuse(c)
           \/ OpenSet(c) \/ OpenReadBack(c)
           \/ CloseLook(c) \/ CloseSweep(c) \/ CloseDrop(c) \/ CloseForget(c)
           \/ IncrementBump(c)
           \/ RunLoad(c)
           \/ UpdateExists(c) \/ UpdateWrite(c) \/ UpdateReply(c)

\* Nothing is asked of the worker.
Rest == (\A c \in Calls : ~Active(c)) /\ UNCHANGED vars

\* What becomes of the calls made.
Progress == \/ \E c \in Calls : Step(c) \/ Abort(c)
            \/ Crash
            \/ \E t \in Tokens : Seed(t)
            \/ Rest

Next == \/ \E c \in Calls, o \in Ops, t \in Tokens : Invoke(c, o, t)
        \/ Progress

Spec == Init /\ [][Next]_vars

\* Redis answers every command, and the pool serves whoever waits.
Fairness == \A c \in Calls : WF_vars(Step(c))

FairSpec == Spec /\ Fairness

-----------------------------------------------------------------------------
(* Properties.                                                             *)

\* A store does not outlive its session, however a close is cut short, retried
\* or repeated and the worker restarted: the session's hash goes last, so what
\* is left behind can still be closed. The exception is a store dropped while
\* an update was between its check and its last write.
NoOrphanStore ==
    \A t \in Tokens : StoreExists(t) /\ conf[t] = "none" => t \in raced

\* What a token is still good for when CloseSession has been answered: calls made with
\* it are answered "ok" only if they increment its epoch, which leaves a hash of an epoch
\* and nothing else, or close it again, or update a store that was dropped after an
\* earlier update's check, before its last write. No other such call gets to write to a
\* store, and no run is started (CloseSession, StorageManager::new, write_to_redis).
ClosedIsClosed ==
    \A c \in stale :
        /\ reply[c] = "ok" => \/ op[c] \in {"increment", "close"}
                              \/ IsUpdate(c) /\ tok[c] \in raced
        /\ at[c] = "write" => tok[c] \in raced

\* What a call has been let do so far, by the command it sends next.
Stages ==
    \A c \in Calls :
        /\ at[c] = "idle" <=> op[c] = "none"
        /\ at[c] # "idle" => tok[c] \in Tokens
        /\ at[c] # "over" => reply[c] = "none"
        /\ at[c] \in {"hset", "token"} => op[c] = "open"
        /\ at[c] \in {"look", "sweep", "drop", "forget"} => op[c] = "close"
        /\ at[c] = "bump" => op[c] = "increment"
        /\ at[c] = "load" => op[c] = "run"
        /\ at[c] \in {"exists", "write"} => IsUpdate(c)

\* One call opens a session, and the others that name it come later.
OpenedOnce ==
    /\ \A c, d \in Calls :
           op[c] = "open" /\ op[d] = "open" /\ tok[c] = tok[d] => c = d
    /\ \A c \in Calls : at[c] = "hset" \/ (at[c] = "wait" /\ op[c] = "open")
           => tok[c] \notin created
    /\ \A c \in Calls : at[c] = "token" => tok[c] \in created
    /\ \A c \in Calls : op[c] \notin {"none", "open"} => tok[c] \in created
    /\ \A t \in created : \E c \in Calls : op[c] = "open" /\ tok[c] = t
    /\ closed \subseteq created /\ known \subseteq created
    /\ \A c \in stale : tok[c] \in closed /\ op[c] \notin {"none", "open"}

\* The hash of an open session is there, and that of a closed one not whole.
HashOfOpen ==
    \A t \in Tokens : /\ conf[t] = "full" => t \in created
                      /\ conf[t] = "full" => t \notin closed

\* The session's store has been dropped, or its hash, which goes after it.
Dropped(t) == \/ t \in created /\ conf[t] # "full"
              \/ \E c \in Calls : at[c] = "forget" /\ tok[c] = t

\* After that there is no store and nobody who could make it again, except
\* where an update had looked before.
StoresGoFirst ==
    \A t \in Tokens :
        /\ StoreExists(t) => t \in created
        /\ Dropped(t) /\ StoreExists(t) => t \in raced
        /\ \A c \in Calls : Dropped(t) /\ at[c] = "write" /\ tok[c] = t => t \in raced

\* The inductive invariant behind the two properties above and the refinement:
\* stage by stage, what CloseSession's order of commands leaves possible.
SessionInvariant == /\ Stages /\ OpenedOnce /\ HashOfOpen /\ StoresGoFirst
                    /\ NoOrphanStore /\ ClosedIsClosed

\* No UpdateStore message writes anything to a store that nobody else has
\* filled: nothing in the worker creates the hash whose existence it asks.
NothingIsUpdated ==
    \A c \in Calls : IsUpdate(c) /\ tok[c] \notin Seeded =>
        done[c] = 0 /\ reply[c] # "ok"

\* The error "no session" is said of a session that does not exist.
NoSessionIsTrue ==
    [][\A c \in Calls : reply[c] = "none" /\ reply'[c] = "no session" =>
           conf[tok[c]] = "none"]_vars

\* Together the calls keep the promise of a session's life.
Life(t) == IF conf[t] = "full" THEN "open"
           ELSE IF t \in created THEN "gone" ELSE "unopened"

RunsStarted == {c \in Calls : op[c] = "run" /\ reply[c] = "ok"}

Lives == INSTANCE SessionLife
           WITH life <- [t \in Tokens |-> Life(t)],
                runs <- {<<c, tok[c]>> : c \in RunsStarted}

ImplementsLife == Lives!Spec

\* Every call ends, whatever the others hold of the pool.
EveryCallEnds == \A c \in Calls : at[c] = "wait" ~> at[c] = "over"
=============================================================================
