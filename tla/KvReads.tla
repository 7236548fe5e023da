------------------------------- MODULE KvReads -------------------------------
(***************************************************************************)
(* Guests that read the store of their session (storage_query_kv in        *)
(* wasm/mod.rs): a guest takes a connection of the pool, which is checked  *)
(* with a PING (backend/redis.rs), sends one HGET after another, each when *)
(* the one before is answered, and replaces what does not convert by a     *)
(* default. Others write to the store between the HGETs.                   *)
(*                                                                         *)
(* A connection is a wire: commands are executed and answered in the order *)
(* in which they were sent, and whoever reads takes the oldest answer. A   *)
(* guest that is cut off while it waits gives its connection back with an  *)
(* answer still to come; the check that follows reads that answer and is   *)
(* content with any.                                                       *)
(***************************************************************************)
EXTENDS Integers, Sequences

CONSTANTS Sessions,   \* sessions, each with its store
          Fields,     \* fields of a store
          Guests,     \* guest runs that make a query, one each
          Of,         \* the session of each guest
          Wants,      \* the kind of its default: "number", "boolean" or "text"
          Keys,       \* the fields it asks for, in order
          Cons,       \* connections of the pool, at most max_open
          Numbers,    \* contents of a field that are numbers
          Texts       \* and those that are not

Contents == Numbers \cup Texts \cup {"absent"}

\* Answers that are no contents: to a PING, and none yet.
Words == {"PONG", "due"}

ASSUME KvAssumption ==
    /\ Of \in [Guests -> Sessions]
    /\ Wants \in [Guests -> {"number", "boolean", "text"}]
    /\ Keys \in Seq(Fields) /\ Keys # <<>>
    /\ "none" \notin Cons
    /\ Numbers \cap Texts = {}
    /\ (Numbers \cup Texts) \cap ({"absent", "default", "lost", "true", "false"} \cup Words) = {}

VARIABLES store,    \* wart:store:<token> of each session
          con,      \* each connection: "new", "good" or "broken"
          wire,     \* what was sent on it and not read: the answers in order
          at,       \* where each guest is
          has,      \* the connection it holds
          answer,   \* what it has been answered
          seen,     \* history: what the field it waits for held since it asked
          behind    \* history: answers that were due when it took the connection

vars == <<store, con, wire, at, has, answer, seen, behind>>

\* The n-th command of a guest; its PING is number 0.
Command(g, n) == [of |-> <<g, n>>, val |-> "due"]

Commands == [of : Guests \X Nat, val : Contents \cup Words]

Init ==
    /\ store = [t \in Sessions |-> [f \in Fields |-> "absent"]]
    /\ con = [c \in Cons |-> "new"]
    /\ wire = [c \in Cons |-> <<>>]
    /\ at = [g \in Guests |-> "ready"]
    /\ has = [g \in Guests |-> "none"]
    /\ answer = [g \in Guests |-> <<>>]
    /\ seen = [g \in Guests |-> {}]
    /\ behind = [g \in Guests |-> 0]

Free(c) == \A g \in Guests : has[g] # c

Arrived(c) == wire[c] # <<>> /\ wire[c][1].val # "due"

\* The field that a guest's n-th HGET asks for, as it is now.
Field(g, n) == store[Of[g]][Keys[n]]

-----------------------------------------------------------------------------
(* A connection of the pool.                                               *)

\* A connection that is made is not checked.
Connect(g, c) ==
    /\ at[g] = "ready" /\ Free(c)
    /\ con[c] = "new"
    /\ con' = [con EXCEPT ![c] = "good"]
    /\ wire' = [wire EXCEPT ![c] = <<Command(g, 1)>>]
    /\ at' = [at EXCEPT ![g] = "wait"]
    /\ has' = [has EXCEPT ![g] = c]
    /\ seen' = [seen EXCEPT ![g] = {Field(g, 1)}]
    /\ UNCHANGED <<store, answer, behind>>

\* Variant: no check.
Checkout_NoCheck(g, c) ==
    /\ at[g] = "ready" /\ Free(c)
    /\ con[c] # "new"
    /\ wire' = [wire EXCEPT ![c] =
                   IF con[c] = "good" THEN Append(@, Command(g, 1)) ELSE @]
    /\ at' = [at EXCEPT ![g] = "wait"]
    /\ has' = [has EXCEPT ![g] = c]
    /\ seen' = [seen EXCEPT ![g] = {Field(g, 1)}]
    /\ behind' = [behind EXCEPT ![g] = Len(wire[c])]
    /\ UNCHANGED <<store, con, answer>>

\* One that is given back is checked: a PING is sent.
Checkout(g, c) ==
    /\ at[g] = "ready" /\ Free(c)
    /\ con[c] # "new"
    /\ wire' = [wire EXCEPT ![c] =
                   IF con[c] = "good" THEN Append(@, Command(g, 0)) ELSE @]
    /\ at' = [at EXCEPT ![g] = "check"]
    /\ has' = [has EXCEPT ![g] = c]
    /\ behind' = [behind EXCEPT ![g] = Len(wire[c])]
    /\ UNCHANGED <<store, con, answer, seen>>

\* Variant: the check does not wait for the answer.
Checked_Unread(g) ==
    LET c == has[g]
    IN /\ at[g] = "check"
       /\ con[c] = "good"
       /\ wire' = [wire EXCEPT ![c] = Append(@, Command(g, 1))]
       /\ at' = [at EXCEPT ![g] = "wait"]
       /\ seen' = [seen EXCEPT ![g] = {Field(g, 1)}]
       /\ UNCHANGED <<store, con, has, answer, behind>>

\* Any answer will do for the check. The first HGET follows.
Checked(g) ==
    LET c == has[g]
    IN /\ at[g] = "check"
       /\ con[c] = "good" /\ Arrived(c)
       /\ wire' = [wire EXCEPT ![c] = Append(Tail(@), Command(g, 1))]
       /\ at' = [at EXCEPT ![g] = "wait"]
       /\ seen' = [seen EXCEPT ![g] = {Field(g, 1)}]
       /\ UNCHANGED <<store, con, has, answer, behind>>

\* The check fails and the connection is replaced, or cannot be.
CheckFails(g) ==
    LET c == has[g]
    IN /\ at[g] = "check"
       /\ con[c] = "broken"
       /\ \/ /\ con' = [con EXCEPT ![c] = "good"]
             /\ wire' = [wire EXCEPT ![c] = <<Command(g, 1)>>]
             /\ at' = [at EXCEPT ![g] = "wait"]
             /\ seen' = [seen EXCEPT ![g] = {Field(g, 1)}]
             /\ UNCHANGED has
          \/ /\ con' = [con EXCEPT ![c] = "new"]
             /\ at' = [at EXCEPT ![g] = "refused"]
             /\ has' = [has EXCEPT ![g] = "none"]
             /\ UNCHANGED <<wire, seen>>
       /\ behind' = [behind EXCEPT ![g] = 0]
       /\ UNCHANGED <<store, answer>>

\* The pool cannot connect: the guest is answered with none.
NoConnection(g) ==
    /\ at[g] = "ready"
    /\ at' = [at EXCEPT ![g] = "refused"]
    /\ UNCHANGED <<store, con, wire, has, answer, seen, behind>>

-----------------------------------------------------------------------------
(* HGET.                                                                   *)

\* What converts to the kind of the default is taken for it. A field that is not there
\* converts to a boolean, which is false, and to nothing else.
Converted(g, v) ==
    IF Wants[g] = "boolean"
    THEN IF v = "1" THEN "true" ELSE IF v \in {"0", "absent"} THEN "false" ELSE "default"
    ELSE IF v \in Numbers \/ (Wants[g] = "text" /\ v \in Texts \cup {"PONG"})
    THEN v ELSE "default"

\* The next HGET is sent, or the connection is given back after the last.
Follow(g, rest) ==
    LET n == Len(answer[g]) + 2
    IN \/ /\ n <= Len(Keys)
          /\ wire' = [wire EXCEPT ![has[g]] =
                         IF con[has[g]] = "good" THEN Append(rest, Command(g, n))
                                                 ELSE rest]
          /\ seen' = [seen EXCEPT ![g] = {Field(g, n)}]
          /\ UNCHANGED <<at, has>>
       \/ /\ n > Len(Keys)
          /\ wire' = [wire EXCEPT ![has[g]] = rest]
          /\ at' = [at EXCEPT ![g] = "over"]
          /\ has' = [has EXCEPT ![g] = "none"]
          /\ seen' = [seen EXCEPT ![g] = {}]

\* The oldest answer on the wire is taken for that of the HGET.
Answered(g) ==
    LET a == wire[has[g]][1]
    IN /\ at[g] = "wait"
       /\ con[has[g]] = "good" /\ Arrived(has[g])
       /\ answer' = [answer EXCEPT ![g] =
                        Append(@, [of |-> a.of, val |-> Converted(g, a.val)])]
       /\ Follow(g, Tail(wire[has[g]]))
       /\ UNCHANGED <<store, con, behind>>

\* The connection is broken: the default, for this key and those that follow.
Lost(g) ==
    /\ at[g] = "wait"
    /\ con[has[g]] = "broken"
    /\ answer' = [answer EXCEPT ![g] =
                     Append(@, [of |-> <<g, Len(@) + 1>>, val |-> "lost"])]
    /\ Follow(g, <<>>)
    /\ UNCHANGED <<store, con, behind>>

\* Variant: the connection of a guest that is cut off is never given back.
Cut_Leak(g) ==
    /\ at[g] \in {"ready", "check", "wait"}
    /\ at' = [at EXCEPT ![g] = "cut"]
    /\ UNCHANGED <<store, con, wire, has, answer, seen, behind>>

\* The guest is timed out or its client goes, and its answers with it. A
\* connection under check is dropped with the check, any other goes back to the
\* pool as it is.
Cut(g) ==
    /\ at[g] \in {"ready", "check", "wait"}
    /\ at' = [at EXCEPT ![g] = "cut"]
    /\ has' = [has EXCEPT ![g] = "none"]
    /\ IF at[g] = "check"
       THEN /\ con' = [con EXCEPT ![has[g]] = "new"]
            /\ wire' = [wire EXCEPT ![has[g]] = <<>>]
       ELSE UNCHANGED <<con, wire>>
    /\ answer' = [answer EXCEPT ![g] = <<>>]
    /\ seen' = [seen EXCEPT ![g] = {}]
    /\ behind' = [behind EXCEPT ![g] = 0]
    /\ UNCHANGED store

-----------------------------------------------------------------------------
(* The other side.                                                         *)

\* Redis executes the oldest command it has not yet executed.
Redis(c) ==
    \E k \in 1 .. Len(wire[c]) :
        LET g == wire[c][k].of[1]
            n == wire[c][k].of[2]
        IN /\ con[c] = "good"
           /\ wire[c][k].val = "due"
           /\ \A j \in 1 .. k - 1 : wire[c][j].val # "due"
           /\ wire' = [wire EXCEPT ![c][k].val =
                          IF n = 0 THEN "PONG" ELSE Field(g, n)]
           /\ UNCHANGED <<store, con, at, has, answer, seen, behind>>

Break(c) ==
    /\ con[c] = "good"
    /\ con' = [con EXCEPT ![c] = "broken"]
    /\ wire' = [wire EXCEPT ![c] = <<>>]
    /\ UNCHANGED <<store, at, has, answer, seen, behind>>

\* An UpdateStore message writes or deletes a field, or the store is dropped
\* with its session, field by field as far as a guest can tell.
Write(t, f, v) ==
    /\ store' = [store EXCEPT ![t][f] = v]
    /\ seen' = [g \in Guests |->
                   IF /\ at[g] = "wait"
                      /\ Of[g] = t
                      /\ Keys[Len(answer[g]) + 1] = f
                   THEN seen[g] \cup {v} ELSE seen[g]]
    /\ UNCHANGED <<con, wire, at, has, answer, behind>>

-----------------------------------------------------------------------------

Step(g) == \/ \E c \in Cons : Connect(g, c) \/ Checkout(g, c)
           \/ Checked(g) \/ CheckFails(g) \/ Answered(g) \/ Lost(g)

Next == \/ \E g \in Guests : Step(g) \/ NoConnection(g) \/ Cut(g)
        \/ \E c \in Cons : Redis(c) \/ Break(c)
        \/ \E t \in Sessions, f \in Fields, v \in Contents : Write(t, f, v)

Spec == Init /\ [][Next]_vars

\* Redis answers every command or the connection breaks, and tokio polls the
\* guest when the pool or the answer wakes it.
FairSpec == /\ Spec
            /\ \A g \in Guests : WF_vars(Step(g))
            /\ \A c \in Cons : WF_vars(Redis(c) \/ Break(c))

-----------------------------------------------------------------------------
(* Properties.                                                             *)

Over == {"over", "refused", "cut"}
Replies == [of : Guests \X Nat,
            val : Contents \cup {"PONG", "true", "false", "default", "lost"}]

TypeOK ==
    /\ store \in [Sessions -> [Fields -> Contents]]
    /\ con \in [Cons -> {"new", "good", "broken"}]
    /\ wire \in [Cons -> Seq(Commands)]
    /\ at \in [Guests -> {"ready", "check", "wait"} \cup Over]
    /\ has \in [Guests -> Cons \cup {"none"}]
    /\ answer \in [Guests -> Seq(Replies)]
    /\ seen \in [Guests -> SUBSET Contents]
    /\ behind \in [Guests -> Nat]
    /\ \A g \in Guests : /\ has[g] # "none" <=> at[g] \in {"check", "wait"}
                         /\ at[g] = "wait" => Len(answer[g]) < Len(Keys)
                         /\ at[g] = "over" => Len(answer[g]) = Len(Keys)

\* Its query has been answered or cut off: what it left on a wire answers nobody.
Gone(g) == at[g] \in {"cut", "over"}

\* The i-th answer that is read on a connection after the check is one to the
\* guest's own question, or one that was due before.
Belongs(g, i, of) ==
    IF i >= behind[g] THEN of = <<g, i - behind[g]>>
                      ELSE of[1] # g /\ Gone(of[1])

\* A guest whose connection was in step when it took it has the answers to its
\* own questions, in order. Otherwise it is behind by as many answers as were
\* due, for the whole query and in spite of the check: the first are those of
\* queries before it that are over, one is that of its own PING, and the others
\* are those of its earlier questions (storage_query_kv, backend/redis.rs).
InStep(g) ==
    \A i \in 1 .. Len(answer[g]) :
        answer[g][i].val # "lost" => Belongs(g, i, answer[g][i].of)
AnswersInStep == \A g \in Guests : InStep(g)

\* In step, an answer is what the field held at some moment since the guest asked
\* for it, converted; it is never older than the question, though the answers to
\* one query may come from before and after an update.
FreshAnswers ==
    [][\A g \in Guests : Len(answer'[g]) > Len(answer[g]) /\ behind[g] = 0 =>
           LET a == answer'[g][Len(answer'[g])].val
           IN a = "lost" \/ \E v \in seen[g] : a = Converted(g, v)]_vars

\* Every query ends, whoever is cut off before it.
EveryQueryEnds == <>(\A g \in Guests : at[g] \in Over)

-----------------------------------------------------------------------------
(* The inductive invariant: what is on the wires, and who waits for it.     *)

\* Of a connection: its commands are those of a query; when nobody holds it, they
\* are those of queries that are over; nothing comes when it is broken.
KnownCommands(c) == \A j \in 1 .. Len(wire[c]) : wire[c][j].of[2] \in 0 .. Len(Keys)
IdleWire(c) ==
    Free(c) /\ con[c] = "good" => \A j \in 1 .. Len(wire[c]) : Gone(wire[c][j].of[1])
BrokenWire(c) == con[c] = "broken" => wire[c] = <<>>
Connection(c) == KnownCommands(c) /\ IdleWire(c) /\ BrokenWire(c)

OneHolder == \A g, h \in Guests : has[g] # "none" /\ has[g] = has[h] => g = h

\* Of a guest: what it knows before its first question and while it holds a connection.
Started(g) ==
    /\ at[g] \in {"ready", "check"} => answer[g] = <<>>
    /\ at[g] = "ready" => behind[g] = 0
    /\ at[g] \in {"check", "wait"} => con[has[g]] # "new"

\* As many answers are to come as were due, and one for its own last command.
Read(g) == IF at[g] = "check" THEN -1 ELSE Len(answer[g])
HeldWire(g) ==
    at[g] \in {"check", "wait"} /\ con[has[g]] = "good" =>
        /\ Len(wire[has[g]]) = behind[g] + 1
        /\ \A j \in 1 .. behind[g] + 1 : Belongs(g, Read(g) + j, wire[has[g]][j].of)

\* In step, the next answer is what the field held since the question.
Asked(g) ==
    at[g] = "wait" =>
        /\ Field(g, Len(answer[g]) + 1) \in seen[g]
        /\ behind[g] = 0 /\ con[has[g]] = "good" => wire[has[g]][1].val \in seen[g] \cup {"due"}
Query(g) == Started(g) /\ HeldWire(g) /\ Asked(g) /\ InStep(g)

KvInvariant ==
    /\ \A c \in Cons : Connection(c)
    /\ OneHolder
    /\ \A g \in Guests : Query(g)
=============================================================================
