--------------------------- MODULE KvReads_proofs ----------------------------
(***************************************************************************)
(* What is proved of guests that read the stores of their sessions, for    *)
(* every number of guests, connections, keys and contents: types, the      *)
(* inductive invariant about the answers on the wires, and from it whose   *)
(* questions a guest is answered and how old the answers can be.           *)
(***************************************************************************)
EXTENDS KvReads, SequenceTheorems, TLAPS

-----------------------------------------------------------------------------
(* Wires.                                                                  *)

\* Sending a command behind the others.
LEMMA Sent ==
    ASSUME NEW w \in Seq(Commands), NEW m \in Commands
    PROVE  /\ Append(w, m) \in Seq(Commands)
           /\ Len(Append(w, m)) = Len(w) + 1
           /\ \A j \in 1 .. Len(w) : Append(w, m)[j] = w[j]
           /\ Append(w, m)[Len(w) + 1] = m
BY AppendProperties

\* Reading the oldest answer.
LEMMA Received ==
    ASSUME NEW w \in Seq(Commands), w # <<>>
    PROVE  /\ Tail(w) \in Seq(Commands)
           /\ Len(w) > 0
           /\ w[1] \in Commands
           /\ Len(Tail(w)) = Len(w) - 1
           /\ \A j \in 1 .. Len(w) - 1 : Tail(w)[j] = w[j + 1]
OBVIOUS

\* A command on its own.
LEMMA Single ==
    ASSUME NEW m \in Commands
    PROVE  /\ <<m>> \in Seq(Commands)
           /\ Len(<<m>>) = 1
           /\ <<m>>[1] = m
OBVIOUS

LEMMA CommandType ==
    ASSUME NEW g \in Guests, NEW n \in Nat
    PROVE  /\ Command(g, n) \in Commands
           /\ Command(g, n).of = <<g, n>>
           /\ Command(g, n).of[1] = g
           /\ Command(g, n).of[2] = n
           /\ Command(g, n).val = "due"
BY DEF Command, Commands, Words

\* The contents of a field that a guest asks for.
LEMMA FieldType ==
    ASSUME TypeOK, NEW g \in Guests, NEW n \in 1 .. Len(Keys)
    PROVE  Field(g, n) \in Contents
<1>1. Keys[n] \in Fields /\ Of[g] \in Sessions
      BY KvAssumption DEF KvAssumption
<1> QED BY <1>1 DEF TypeOK, Field

LEMMA KeysLen == Len(Keys) \in Nat /\ Len(Keys) >= 1
BY KvAssumption DEF KvAssumption

\* The steps of a guest that have two outcomes.
CheckFailsAnew(g) ==
    /\ at[g] = "check"
    /\ con[has[g]] = "broken"
    /\ con' = [con EXCEPT ![has[g]] = "good"]
    /\ wire' = [wire EXCEPT ![has[g]] = <<Command(g, 1)>>]
    /\ at' = [at EXCEPT ![g] = "wait"]
    /\ seen' = [seen EXCEPT ![g] = {Field(g, 1)}]
    /\ behind' = [behind EXCEPT ![g] = 0]
    /\ UNCHANGED <<has, store, answer>>
CheckFailsRefused(g) ==
    /\ at[g] = "check"
    /\ con[has[g]] = "broken"
    /\ con' = [con EXCEPT ![has[g]] = "new"]
    /\ at' = [at EXCEPT ![g] = "refused"]
    /\ has' = [has EXCEPT ![g] = "none"]
    /\ behind' = [behind EXCEPT ![g] = 0]
    /\ UNCHANGED <<wire, seen, store, answer>>

\* Every step is one of these.
LEMMA NextCases ==
    ASSUME [Next]_vars
    PROVE  \/ \E g \in Guests, c \in Cons : Connect(g, c) \/ Checkout(g, c)
           \/ \E g \in Guests : \/ Checked(g) \/ CheckFailsAnew(g) \/ CheckFailsRefused(g)
                                \/ Answered(g) \/ Lost(g) \/ NoConnection(g) \/ Cut(g)
           \/ \E c \in Cons : Redis(c) \/ Break(c)
           \/ \E t \in Sessions, f \in Fields, v \in Contents : Write(t, f, v)
           \/ UNCHANGED vars
<1>1. ASSUME NEW g \in Guests, CheckFails(g)
      PROVE  CheckFailsAnew(g) \/ CheckFailsRefused(g)
      BY <1>1 DEF CheckFails, CheckFailsAnew, CheckFailsRefused
<1> QED BY <1>1, Zenon DEF Next, Step

-----------------------------------------------------------------------------
(* Types.                                                                  *)

\* A reply for the next key, after which a guest asks again or is over.
LEMMA FollowTypes ==
    ASSUME TypeOK, NEW g \in Guests, NEW rest \in Seq(Commands), NEW r \in Replies,
           at[g] = "wait",
           answer' = [answer EXCEPT ![g] = Append(@, r)],
           Follow(g, rest),
           UNCHANGED <<store, con, behind>>
    PROVE  TypeOK'
<1> DEFINE n == Len(answer[g]) + 2
<1>1. /\ has[g] \in Cons
      /\ answer[g] \in Seq(Replies)
      /\ Len(answer[g]) \in Nat /\ Len(answer[g]) < Len(Keys)
      BY DEF TypeOK
<1>2. /\ answer' \in [Guests -> Seq(Replies)]
      /\ Len(answer'[g]) = Len(answer[g]) + 1
      /\ \A h \in Guests \ {g} : answer'[h] = answer[h]
      BY <1>1, AppendProperties DEF TypeOK
<1>3. CASE n <= Len(Keys)
  <2>1. /\ wire' = [wire EXCEPT ![has[g]] =
                       IF con[has[g]] = "good" THEN Append(rest, Command(g, n)) ELSE rest]
        /\ seen' = [seen EXCEPT ![g] = {Field(g, n)}]
        /\ UNCHANGED <<at, has>>
        BY <1>3 DEF Follow
  <2>2. Append(rest, Command(g, n)) \in Seq(Commands)
        BY <1>1, CommandType, Sent
  <2>3. wire' \in [Cons -> Seq(Commands)]
        BY <1>1, <2>1, <2>2 DEF TypeOK
  <2>4. Field(g, n) \in Contents
        BY <1>1, <1>3, FieldType, KeysLen
  <2>5. seen' \in [Guests -> SUBSET Contents]
        BY <2>1, <2>4 DEF TypeOK
  <2>6. \A h \in Guests : /\ has'[h] # "none" <=> at'[h] \in {"check", "wait"}
                          /\ at'[h] = "wait" => Len(answer'[h]) < Len(Keys)
                          /\ at'[h] = "over" => Len(answer'[h]) = Len(Keys)
        BY <1>1, <1>2, <1>3, <2>1, KeysLen DEF TypeOK
  <2> QED BY <1>2, <2>1, <2>3, <2>5, <2>6 DEF TypeOK
<1>4. CASE n > Len(Keys)
  <2>1. /\ wire' = [wire EXCEPT ![has[g]] = rest]
        /\ at' = [at EXCEPT ![g] = "over"]
        /\ has' = [has EXCEPT ![g] = "none"]
        /\ seen' = [seen EXCEPT ![g] = {}]
        BY <1>1, <1>4, KeysLen DEF Follow
  <2>2. \A h \in Guests : /\ has'[h] # "none" <=> at'[h] \in {"check", "wait"}
                          /\ at'[h] = "wait" => Len(answer'[h]) < Len(Keys)
                          /\ at'[h] = "over" => Len(answer'[h]) = Len(Keys)
        BY <1>1, <1>2, <1>4, <2>1, KeysLen DEF TypeOK
  <2>3. /\ wire' \in [Cons -> Seq(Commands)]
        /\ at' \in [Guests -> {"ready", "check", "wait"} \cup Over]
        /\ has' \in [Guests -> Cons \cup {"none"}]
        /\ seen' \in [Guests -> SUBSET Contents]
        BY <1>1, <2>1 DEF TypeOK, Over
  <2> QED BY <1>2, <2>2, <2>3 DEF TypeOK
<1> QED BY <1>1, <1>3, <1>4, KeysLen

\* What an answer is converted to.
LEMMA ConvertedType ==
    ASSUME NEW g \in Guests, NEW v
    PROVE  Converted(g, v) \in Contents \cup {"PONG", "true", "false", "default"}
BY DEF Converted, Contents

LEMMA TypeStep ==
    ASSUME TypeOK, KvInvariant, [Next]_vars
    PROVE  TypeOK'
<1> DEFINE Held(h) == /\ has[h] # "none" <=> at[h] \in {"check", "wait"}
                      /\ at[h] = "wait" => Len(answer[h]) < Len(Keys)
                      /\ at[h] = "over" => Len(answer[h]) = Len(Keys)
<1>1. ASSUME NEW g \in Guests, NEW c \in Cons, Connect(g, c)
      PROVE  TypeOK'
  <2>1. /\ answer[g] = <<>> /\ Len(answer[g]) = 0
        /\ Field(g, 1) \in Contents
        /\ <<Command(g, 1)>> \in Seq(Commands)
        BY <1>1, FieldType, KeysLen, CommandType, Single DEF KvInvariant, Query, Started, Connect
  <2>2. \A h \in Guests : Held(h)'
        BY <1>1, <2>1, KvAssumption, KeysLen DEF Connect, TypeOK, KvAssumption
  <2>3. /\ con' \in [Cons -> {"new", "good", "broken"}]
        /\ wire' \in [Cons -> Seq(Commands)]
        /\ at' \in [Guests -> {"ready", "check", "wait"} \cup Over]
        /\ has' \in [Guests -> Cons \cup {"none"}]
        /\ seen' \in [Guests -> SUBSET Contents]
        BY <1>1, <2>1 DEF Connect, TypeOK
  <2> QED BY <1>1, <2>2, <2>3 DEF Connect, TypeOK
<1>2. ASSUME NEW g \in Guests, NEW c \in Cons, Checkout(g, c)
      PROVE  TypeOK'
  <2>1. Append(wire[c], Command(g, 0)) \in Seq(Commands) /\ Len(wire[c]) \in Nat
        BY CommandType, Sent DEF TypeOK
  <2>2. \A h \in Guests : Held(h)'
        BY <1>2, KvAssumption DEF Checkout, TypeOK, KvAssumption
  <2>3. /\ wire' \in [Cons -> Seq(Commands)]
        /\ at' \in [Guests -> {"ready", "check", "wait"} \cup Over]
        /\ has' \in [Guests -> Cons \cup {"none"}]
        /\ behind' \in [Guests -> Nat]
        BY <1>2, <2>1 DEF Checkout, TypeOK
  <2> QED BY <1>2, <2>2, <2>3 DEF Checkout, TypeOK
<1>3. ASSUME NEW g \in Guests, Checked(g)
      PROVE  TypeOK'
  <2>1. /\ has[g] \in Cons /\ wire[has[g]] # <<>>
        /\ answer[g] = <<>> /\ Len(answer[g]) = 0
        BY <1>3 DEF Checked, Arrived, TypeOK, KvInvariant, Query, Started
  <2>2. /\ Append(Tail(wire[has[g]]), Command(g, 1)) \in Seq(Commands)
        /\ Field(g, 1) \in Contents
        BY <2>1, Received, CommandType, Sent, FieldType, KeysLen DEF TypeOK
  <2>3. \A h \in Guests : Held(h)'
        BY <1>3, <2>1, KeysLen DEF Checked, TypeOK
  <2>4. /\ wire' \in [Cons -> Seq(Commands)]
        /\ at' \in [Guests -> {"ready", "check", "wait"} \cup Over]
        /\ seen' \in [Guests -> SUBSET Contents]
        BY <1>3, <2>1, <2>2 DEF Checked, TypeOK
  <2> QED BY <1>3, <2>3, <2>4 DEF Checked, TypeOK
<1>4. ASSUME NEW g \in Guests, CheckFailsAnew(g)
      PROVE  TypeOK'
  <2>1. /\ has[g] \in Cons
        /\ answer[g] = <<>> /\ Len(answer[g]) = 0
        /\ <<Command(g, 1)>> \in Seq(Commands)
        /\ Field(g, 1) \in Contents
        BY <1>4, CommandType, Single, FieldType, KeysLen
           DEF CheckFailsAnew, TypeOK, KvInvariant, Query, Started
  <2>2. \A h \in Guests : Held(h)'
        BY <1>4, <2>1, KeysLen DEF CheckFailsAnew, TypeOK
  <2>3. /\ con' \in [Cons -> {"new", "good", "broken"}]
        /\ wire' \in [Cons -> Seq(Commands)]
        /\ at' \in [Guests -> {"ready", "check", "wait"} \cup Over]
        /\ seen' \in [Guests -> SUBSET Contents]
        /\ behind' \in [Guests -> Nat]
        BY <1>4, <2>1 DEF CheckFailsAnew, TypeOK
  <2> QED BY <1>4, <2>2, <2>3 DEF CheckFailsAnew, TypeOK
<1>5. ASSUME NEW g \in Guests, CheckFailsRefused(g)
      PROVE  TypeOK'
      BY <1>5 DEF CheckFailsRefused, TypeOK, Over
<1>6. ASSUME NEW g \in Guests, Answered(g)
      PROVE  TypeOK'
  <2> DEFINE a == wire[has[g]][1]
             r == [of |-> a.of, val |-> Converted(g, a.val)]
  <2>1. has[g] \in Cons /\ wire[has[g]] # <<>>
        BY <1>6 DEF Answered, Arrived, TypeOK
  <2>2. a \in Commands /\ Tail(wire[has[g]]) \in Seq(Commands)
        BY <2>1, Received DEF TypeOK
  <2>3. a.of \in Guests \X Nat
        BY <2>2 DEF Commands
  <2>4. r \in Replies
        BY <2>3, ConvertedType DEF Replies
  <2>5. /\ at[g] = "wait"
        /\ answer' = [answer EXCEPT ![g] = Append(@, r)]
        /\ Follow(g, Tail(wire[has[g]]))
        /\ UNCHANGED <<store, con, behind>>
        BY <1>6 DEF Answered
  <2> HIDE DEF r
  <2> QED BY <2>2, <2>4, <2>5, FollowTypes
<1>7. ASSUME NEW g \in Guests, Lost(g)
      PROVE  TypeOK'
  <2> DEFINE r == [of |-> <<g, Len(answer[g]) + 1>>, val |-> "lost"]
  <2>1. r \in Replies /\ <<>> \in Seq(Commands)
        BY DEF TypeOK, Replies
  <2>2. /\ at[g] = "wait"
        /\ answer' = [answer EXCEPT ![g] = Append(@, r)]
        /\ Follow(g, <<>>)
        /\ UNCHANGED <<store, con, behind>>
        BY <1>7 DEF Lost, TypeOK
  <2> HIDE DEF r
  <2> QED BY <2>1, <2>2, FollowTypes
<1>8. ASSUME NEW g \in Guests, NoConnection(g)
      PROVE  TypeOK'
      BY <1>8 DEF NoConnection, TypeOK, Over
<1>9. ASSUME NEW g \in Guests, Cut(g)
      PROVE  TypeOK'
  <2>1. /\ con' \in [Cons -> {"new", "good", "broken"}]
        /\ wire' \in [Cons -> Seq(Commands)]
    <3>1. CASE at[g] = "check"
      <4>1. /\ con' = [con EXCEPT ![has[g]] = "new"]
            /\ wire' = [wire EXCEPT ![has[g]] = <<>>]
            BY <1>9, <3>1 DEF Cut
      <4>2. /\ con \in [Cons -> {"new", "good", "broken"}]
            /\ wire \in [Cons -> Seq(Commands)]
            BY DEF TypeOK
      <4>3. <<>> \in Seq(Commands)
            OBVIOUS
      <4> QED BY <4>1, <4>2, <4>3
    <3>2. CASE at[g] # "check"
          BY <1>9, <3>2 DEF Cut, TypeOK
    <3> QED BY <3>1, <3>2
  <2>2. \A h \in Guests : Held(h)'
        BY <1>9 DEF Cut, TypeOK
  <2> QED BY <1>9, <2>1, <2>2 DEF Cut, TypeOK, Over
<1>10. ASSUME NEW c \in Cons, Redis(c)
       PROVE  TypeOK'
  <2>1. PICK k \in 1 .. Len(wire[c]) :
            LET g == wire[c][k].of[1]
                n == wire[c][k].of[2]
            IN /\ wire' = [wire EXCEPT ![c][k].val = IF n = 0 THEN "PONG" ELSE Field(g, n)]
               /\ UNCHANGED <<store, con, at, has, answer, seen, behind>>
        BY <1>10 DEF Redis
  <2>2. wire[c] \in Seq(Commands) /\ wire[c][k] \in Commands
        BY DEF TypeOK
  <2>3. wire[c][k].of[1] \in Guests /\ wire[c][k].of[2] \in 0 .. Len(Keys)
        BY <2>2 DEF Commands, KvInvariant, Connection, KnownCommands
  <2> DEFINE v == IF wire[c][k].of[2] = 0 THEN "PONG" ELSE Field(wire[c][k].of[1], wire[c][k].of[2])
  <2>4. v \in Contents \cup Words
        BY <2>3, FieldType, KeysLen DEF Words
  <2>5. wire' = [wire EXCEPT ![c] = [wire[c] EXCEPT ![k] = [wire[c][k] EXCEPT !.val = v]]]
        BY <2>1
  <2>6. [wire[c][k] EXCEPT !.val = v] \in Commands
        BY <2>2, <2>4 DEF Commands
  <2>7. [wire[c] EXCEPT ![k] = [wire[c][k] EXCEPT !.val = v]] \in Seq(Commands)
        BY <2>2, <2>6, ExceptSeq
  <2>8. wire' \in [Cons -> Seq(Commands)]
        BY <2>5, <2>7 DEF TypeOK
  <2> QED BY <2>1, <2>8 DEF TypeOK
<1>11. ASSUME NEW c \in Cons, Break(c)
       PROVE  TypeOK'
       BY <1>11 DEF Break, TypeOK
<1>12. ASSUME NEW t \in Sessions, NEW f \in Fields, NEW v \in Contents, Write(t, f, v)
       PROVE  TypeOK'
       BY <1>12 DEF Write, TypeOK
<1>13. CASE UNCHANGED vars
       BY <1>13 DEF vars, TypeOK
<1> QED BY <1>1, <1>2, <1>3, <1>4, <1>5, <1>6, <1>7, <1>8, <1>9, <1>10, <1>11, <1>12,
           <1>13, NextCases

-----------------------------------------------------------------------------
(* The invariant.                                                          *)

\* A query that is over stays over.
LEMMA GoneStays ==
    ASSUME TypeOK, [Next]_vars, NEW h \in Guests, Gone(h)
    PROVE  Gone(h)'
<1>1. \/ at' = at
      \/ \E g \in Guests : /\ at[g] \in {"ready", "check", "wait"}
                           /\ \E p : at' = [at EXCEPT ![g] = p]
  <2>1. ASSUME NEW g \in Guests, Answered(g) \/ Lost(g)
        PROVE  at' = at \/ (at[g] = "wait" /\ at' = [at EXCEPT ![g] = "over"])
        BY <2>1 DEF Answered, Lost, Follow
  <2> QED BY <2>1, NextCases
          DEF Connect, Checkout, Checked, CheckFailsAnew, CheckFailsRefused, NoConnection,
              Cut, Redis, Break, Write, vars
<1> QED BY <1>1 DEF Gone, TypeOK

\* What belongs to a guest goes on belonging to it.
LEMMA BelongsStays ==
    ASSUME NEW h \in Guests, behind'[h] = behind[h], \A x \in Guests : Gone(x) => Gone(x)'
    PROVE  \A i \in Int, of \in Guests \X Nat :
              Belongs(h, i, of) => /\ i >= behind'[h] => of = <<h, i - behind'[h]>>
                                   /\ ~(i >= behind'[h]) => of[1] # h /\ Gone(of[1])'
BY DEF Belongs

\* What a guest is waiting for on a connection that nobody else touches.
LEMMA QueryStays ==
    ASSUME TypeOK, TypeOK', NEW h \in Guests, Query(h),
           at'[h] = at[h], has'[h] = has[h], answer'[h] = answer[h], behind'[h] = behind[h],
           seen'[h] = seen[h], store' = store,
           has[h] # "none" => con'[has[h]] = con[has[h]] /\ wire'[has[h]] = wire[has[h]],
           \A x \in Guests : Gone(x) => Gone(x)'
    PROVE  Query(h)'
<1>1. /\ has[h] # "none" <=> at[h] \in {"check", "wait"}
      /\ has[h] # "none" => has[h] \in Cons /\ wire[has[h]] \in Seq(Commands)
      /\ answer[h] \in Seq(Replies)
      /\ Len(answer[h]) \in Nat
      /\ behind[h] \in Nat
      BY DEF TypeOK
<1>2. Started(h)'
      BY <1>1 DEF Query, Started
<1>3. HeldWire(h)'
  <2> SUFFICES ASSUME at[h] \in {"check", "wait"}, con[has[h]] = "good"
               PROVE  /\ Len(wire[has[h]]) = behind[h] + 1
                      /\ \A j \in 1 .. behind[h] + 1 :
                             Belongs(h, Read(h) + j, wire[has[h]][j].of)'
      BY <1>1 DEF HeldWire
  <2>1. /\ Len(wire[has[h]]) = behind[h] + 1
        /\ \A j \in 1 .. behind[h] + 1 : Belongs(h, Read(h) + j, wire[has[h]][j].of)
        BY DEF Query, HeldWire
  <2>2. ASSUME NEW j \in 1 .. behind[h] + 1
        PROVE  Belongs(h, Read(h) + j, wire[has[h]][j].of)'
    <3>1. wire[has[h]][j] \in Commands
          BY <1>1, <2>1
    <3>2. wire[has[h]][j].of \in Guests \X Nat
          BY <3>1 DEF Commands
    <3>3. Read(h) \in Int /\ Read(h)' = Read(h)
          BY <1>1 DEF Read
    <3> QED BY <1>1, <2>1, <3>2, <3>3, BelongsStays DEF Belongs
  <2> QED BY <2>1, <2>2
<1>4. Asked(h)'
      BY <1>1 DEF Query, Asked, Field
<1>5. InStep(h)'
  <2> SUFFICES ASSUME NEW i \in 1 .. Len(answer[h]), answer[h][i].val # "lost"
               PROVE  Belongs(h, i, answer[h][i].of)'
      BY DEF InStep
  <2>1. answer[h][i] \in Replies
        BY <1>1
  <2>2. answer[h][i].of \in Guests \X Nat
        BY <2>1 DEF Replies
  <2>3. Belongs(h, i, answer[h][i].of)
        BY DEF Query, InStep
  <2> QED BY <2>2, <2>3, BelongsStays DEF Belongs
<1> QED BY <1>2, <1>3, <1>4, <1>5 DEF Query

\* A step of one guest on one connection: it is enough to look at these two.
LEMMA GuestStep ==
    ASSUME TypeOK, KvInvariant, TypeOK', NEW g \in Guests, NEW c \in Cons \cup {"none"},
           store' = store,
           \A h \in Guests \ {g} : /\ at'[h] = at[h] /\ has'[h] = has[h]
                                   /\ answer'[h] = answer[h] /\ behind'[h] = behind[h]
                                   /\ seen'[h] = seen[h],
           \A d \in Cons \ {c} : con'[d] = con[d] /\ wire'[d] = wire[d],
           \A x \in Guests : Gone(x) => Gone(x)',
           c # "none" => Connection(c)' /\ \A h \in Guests \ {g} : has[h] # c,
           has[g] \in {c, "none"}, has'[g] \in {c, "none"},
           Query(g)'
    PROVE  KvInvariant'
<1>1. ASSUME NEW d \in Cons \ {c}
      PROVE  Connection(d)'
  <2>1. d # "none"
        BY KvAssumption DEF KvAssumption
  <2>2. Free(d)' => Free(d)
        BY <2>1 DEF Free
  <2>3. wire[d] \in Seq(Commands) /\ \A j \in 1 .. Len(wire[d]) : wire[d][j].of[1] \in Guests
    <3>1. wire[d] \in Seq(Commands)
          BY DEF TypeOK
    <3>2. ASSUME NEW j \in 1 .. Len(wire[d])
          PROVE  wire[d][j].of[1] \in Guests
      <4>1. wire[d][j] \in Commands
            BY <3>1
      <4> QED BY <4>1 DEF Commands
    <3> QED BY <3>1, <3>2
  <2>4. Connection(d) /\ con'[d] = con[d] /\ wire'[d] = wire[d]
        BY DEF KvInvariant
  <2> QED BY <2>2, <2>3, <2>4 DEF Connection, KnownCommands, IdleWire, BrokenWire
<1>2. OneHolder'
      BY DEF KvInvariant, OneHolder
<1>3. ASSUME NEW h \in Guests \ {g}
      PROVE  Query(h)'
  <2>1. has[h] # "none" => has[h] \in Cons \ {c}
        BY KvAssumption DEF TypeOK, KvAssumption
  <2>2. Query(h)
        BY DEF KvInvariant
  <2> QED BY <2>1, <2>2, QueryStays
<1>4. \A d \in Cons : Connection(d)'
      BY <1>1, KvAssumption DEF KvAssumption
<1> QED BY <1>2, <1>3, <1>4 DEF KvInvariant

\* What is known of a guest that holds a connection.
LEMMA Holder ==
    ASSUME TypeOK, KvInvariant, NEW g \in Guests, at[g] \in {"check", "wait"}
    PROVE  /\ has[g] \in Cons /\ has[g] # "none"
           /\ \A h \in Guests \ {g} : has[h] # has[g]
           /\ wire[has[g]] \in Seq(Commands)
           /\ Len(wire[has[g]]) \in Nat
           /\ \A j \in 1 .. Len(wire[has[g]]) : /\ wire[has[g]][j] \in Commands
                                                /\ wire[has[g]][j].of \in Guests \X Nat
           /\ behind[g] \in Nat
           /\ answer[g] \in Seq(Replies) /\ Len(answer[g]) \in Nat
           /\ Connection(has[g]) /\ Query(g)
<1>1. has[g] \in Cons /\ has[g] # "none"
      BY KvAssumption DEF KvAssumption, TypeOK
<1>2. wire[has[g]] \in Seq(Commands) /\ Len(wire[has[g]]) \in Nat
      BY <1>1 DEF TypeOK
<1>3. ASSUME NEW j \in 1 .. Len(wire[has[g]])
      PROVE  wire[has[g]][j] \in Commands /\ wire[has[g]][j].of \in Guests \X Nat
  <2>1. wire[has[g]][j] \in Commands
        BY <1>2
  <2> QED BY <2>1 DEF Commands
<1>4. behind[g] \in Nat /\ answer[g] \in Seq(Replies) /\ Len(answer[g]) \in Nat
      BY DEF TypeOK
<1>5. \A h \in Guests \ {g} : has[h] # has[g]
      BY <1>1 DEF KvInvariant, OneHolder
<1> QED BY <1>1, <1>2, <1>3, <1>4, <1>5 DEF KvInvariant

\* A guest that asks its first question on a fresh connection.
LEMMA Fresh ==
    ASSUME TypeOK, NEW g \in Guests, NEW c \in Cons, c # "none",
           answer'[g] = <<>>, behind'[g] = 0, at'[g] = "wait", has'[g] = c, con'[c] = "good",
           wire'[c] = <<Command(g, 1)>>, seen'[g] = {Field(g, 1)}, store' = store
    PROVE  Connection(c)' /\ Query(g)'
<1>1. /\ Len(wire'[c]) = 1
      /\ wire'[c][1].of = <<g, 1>>
      /\ wire'[c][1].of[2] = 1
      /\ wire'[c][1].val = "due"
      BY CommandType, Single
<1>2. Connection(c)'
      BY <1>1, KeysLen DEF Connection, KnownCommands, IdleWire, BrokenWire, Free
<1>3. Len(answer'[g]) = 0
      OBVIOUS
<1>4. HeldWire(g)'
      BY <1>1, <1>3 DEF HeldWire, Read, Belongs
<1>5. Asked(g)' /\ Started(g)' /\ InStep(g)'
      BY <1>1, <1>3 DEF Asked, Started, InStep, Field
<1> QED BY <1>2, <1>4, <1>5 DEF Query

LEMMA ConnectStep ==
    ASSUME TypeOK, KvInvariant, TypeOK', \A x \in Guests : Gone(x) => Gone(x)',
           NEW g \in Guests, NEW c \in Cons, Connect(g, c)
    PROVE  KvInvariant'
<1>1. c # "none" /\ has[g] = "none" /\ at[g] = "ready"
  <2>1. c # "none" /\ at[g] = "ready"
        BY KvAssumption DEF KvAssumption, Connect
  <2> QED BY <2>1 DEF TypeOK
<1>2. answer[g] = <<>> /\ behind[g] = 0
      BY DEF Connect, KvInvariant, Query, Started
<1>3. Connection(c)' /\ Query(g)'
  <2>1. /\ answer'[g] = <<>> /\ behind'[g] = 0 /\ at'[g] = "wait" /\ has'[g] = c
        /\ con'[c] = "good" /\ wire'[c] = <<Command(g, 1)>> /\ seen'[g] = {Field(g, 1)}
        /\ store' = store
        BY <1>2 DEF Connect, TypeOK
  <2> QED BY <1>1, <2>1, Fresh
<1>4. /\ \A h \in Guests \ {g} : /\ at'[h] = at[h] /\ has'[h] = has[h]
                                 /\ answer'[h] = answer[h] /\ behind'[h] = behind[h]
                                 /\ seen'[h] = seen[h]
      /\ \A d \in Cons \ {c} : con'[d] = con[d] /\ wire'[d] = wire[d]
      /\ has'[g] = c
      /\ \A h \in Guests : has[h] # c
      /\ store' = store
      BY DEF Connect, TypeOK, Free
<1> QED BY <1>1, <1>3, <1>4, GuestStep

LEMMA CheckoutStep ==
    ASSUME TypeOK, KvInvariant, TypeOK', \A x \in Guests : Gone(x) => Gone(x)',
           NEW g \in Guests, NEW c \in Cons, Checkout(g, c)
    PROVE  KvInvariant'
<1>1. c # "none" /\ has[g] = "none" /\ at[g] = "ready"
  <2>1. c # "none" /\ at[g] = "ready"
        BY KvAssumption DEF KvAssumption, Checkout
  <2> QED BY <2>1 DEF TypeOK
<1>2. answer[g] = <<>> /\ Len(answer[g]) = 0
      BY <1>1 DEF KvInvariant, Query, Started
<1>3. /\ \A h \in Guests \ {g} : /\ at'[h] = at[h] /\ has'[h] = has[h]
                                 /\ answer'[h] = answer[h] /\ behind'[h] = behind[h]
                                 /\ seen'[h] = seen[h]
      /\ \A d \in Cons \ {c} : con'[d] = con[d] /\ wire'[d] = wire[d]
      /\ has'[g] = c
      /\ \A h \in Guests : has[h] # c
      /\ store' = store
      /\ at'[g] = "check" /\ answer'[g] = answer[g] /\ behind'[g] = Len(wire[c])
      /\ con'[c] = con[c] /\ con[c] # "new"
      BY DEF Checkout, TypeOK, Free
<1>4. wire[c] \in Seq(Commands) /\ Len(wire[c]) \in Nat
      BY DEF TypeOK
<1>5. Connection(c) /\ Free(c)
      BY DEF KvInvariant, Checkout
<1>6. CASE con[c] = "good"
  <2>1. wire'[c] = Append(wire[c], Command(g, 0))
        BY <1>6 DEF Checkout, TypeOK
  <2>2. Command(g, 0) \in Commands /\ Command(g, 0).of = <<g, 0>> /\ Command(g, 0).of[2] = 0
        BY CommandType
  <2>3. /\ Len(wire'[c]) = Len(wire[c]) + 1
        /\ \A j \in 1 .. Len(wire[c]) : wire'[c][j] = wire[c][j]
        /\ wire'[c][Len(wire[c]) + 1] = Command(g, 0)
        BY <1>4, <2>1, <2>2, Sent
  <2>4. Connection(c)'
    <3>1. ~Free(c)'
          BY <1>3 DEF Free
    <3>2. ASSUME NEW j \in 1 .. Len(wire[c]) + 1
          PROVE  wire'[c][j].of[2] \in 0 .. Len(Keys)
      <4>1. CASE j = Len(wire[c]) + 1
            BY <2>2, <2>3, <4>1, KeysLen
      <4>2. CASE j \in 1 .. Len(wire[c])
            BY <1>5, <2>3, <4>2 DEF Connection, KnownCommands
      <4> QED BY <1>4, <4>1, <4>2
    <3> QED BY <1>3, <1>6, <2>3, <3>1, <3>2 DEF Connection, KnownCommands, IdleWire, BrokenWire
  <2>5. ASSUME NEW j \in 1 .. Len(wire[c]) + 1
        PROVE  Belongs(g, -1 + j, wire[c][j].of)'
    <3>1. CASE j = Len(wire[c]) + 1
          BY <1>3, <1>4, <2>2, <2>3, <3>1 DEF Belongs
    <3>2. CASE j # Len(wire[c]) + 1
      <4>1. j \in 1 .. Len(wire[c]) /\ ~(-1 + j >= Len(wire[c]))
            BY <1>4, <3>2
      <4>2. wire[c][j] \in Commands
            BY <1>4, <4>1
      <4>3. wire[c][j].of[1] \in Guests
            BY <4>2 DEF Commands
      <4>4. Gone(wire[c][j].of[1])
            BY <1>5, <1>6, <4>1 DEF Connection, IdleWire
      <4>5. wire[c][j].of[1] # g
            BY <1>1, <4>4 DEF Gone
      <4> QED BY <1>3, <2>3, <4>1, <4>3, <4>4, <4>5 DEF Belongs
    <3> QED BY <3>1, <3>2
  <2>6. HeldWire(g)'
        BY <1>3, <2>3, <2>5 DEF HeldWire, Read
  <2>7. Started(g)' /\ Asked(g)' /\ InStep(g)'
        BY <1>2, <1>3 DEF Started, Asked, InStep
  <2> QED BY <1>1, <1>3, <2>4, <2>6, <2>7, GuestStep DEF Query
<1>7. CASE con[c] = "broken"
  <2>1. wire'[c] = wire[c]
        BY <1>7 DEF Checkout, TypeOK
  <2>2. Connection(c)'
        BY <1>3, <1>5, <1>7, <2>1 DEF Connection, KnownCommands, IdleWire, BrokenWire
  <2>3. Query(g)'
        BY <1>2, <1>3, <1>7 DEF Query, Started, HeldWire, Asked, InStep
  <2> QED BY <1>1, <1>3, <2>2, <2>3, GuestStep
<1> QED BY <1>3, <1>6, <1>7 DEF TypeOK

\* A guest that asks question number n behind what it has just read the first of.
LEMMA NextQuestion ==
    ASSUME TypeOK, KvInvariant, NEW g \in Guests, NEW c \in Cons, has[g] = c,
           NEW n \in 1 .. Len(Keys),
           at[g] \in {"check", "wait"}, con[c] = "good", n = Read(g) + 2,
           wire'[c] = Append(Tail(wire[c]), Command(g, n)),
           at'[g] = "wait", has'[g] = c, behind'[g] = behind[g],
           Len(answer'[g]) = n - 1, seen'[g] = {Field(g, n)},
           con'[c] = "good", store' = store,
           \A x \in Guests : Gone(x) => Gone(x)'
    PROVE  Connection(c)' /\ Started(g)' /\ HeldWire(g)' /\ Asked(g)'
<1>0. behind[g] \in Nat
      BY DEF TypeOK
<1> DEFINE b == behind[g]
           w == wire[c]
           v == wire'[c]
<1>1. /\ w \in Seq(Commands)
      /\ \A j \in 1 .. Len(w) : w[j] \in Commands /\ w[j].of \in Guests \X Nat
      /\ b \in Nat
      /\ \A j \in 1 .. Len(w) : w[j].of[2] \in 0 .. Len(Keys)
      BY Holder DEF Connection, KnownCommands
<1>2. /\ Len(w) = b + 1
      /\ \A j \in 1 .. b + 1 : Belongs(g, Read(g) + j, w[j].of)
      BY Holder DEF Query, HeldWire
<1>3. n \in Nat /\ Read(g) = n - 2
      BY Holder, KeysLen DEF Read
<1>4. /\ Command(g, n) \in Commands
      /\ Command(g, n).of = <<g, n>>
      /\ Command(g, n).of[2] = n
      /\ Command(g, n).val = "due"
      BY <1>3, CommandType
<1>5. /\ Tail(w) \in Seq(Commands)
      /\ Len(Tail(w)) = b
      /\ \A j \in 1 .. b : Tail(w)[j] = w[j + 1]
  <2>1. w # <<>>
        BY <1>1, <1>2
  <2> QED BY <1>1, <1>2, <2>1, Received
<1>6. /\ Len(v) = b + 1
      /\ \A j \in 1 .. b : v[j] = w[j + 1]
      /\ v[b + 1] = Command(g, n)
      BY <1>4, <1>5, Sent
<1>7. Connection(c)'
  <2>1. ~Free(c)'
        BY DEF Free
  <2>2. ASSUME NEW j \in 1 .. b + 1
        PROVE  v[j].of[2] \in 0 .. Len(Keys)
    <3>1. CASE j = b + 1
          BY <1>3, <1>4, <1>6, <3>1
    <3>2. CASE j \in 1 .. b
      <4>1. j + 1 \in 1 .. Len(w)
            BY <1>1, <1>2, <3>2
      <4>2. v[j] = w[j + 1]
            BY <1>6, <3>2
      <4>3. w[j + 1].of[2] \in 0 .. Len(Keys)
            BY <1>1, <4>1
      <4> HIDE DEF v, w
      <4> QED BY <4>2, <4>3
    <3>3. j = b + 1 \/ j \in 1 .. b
          BY <1>0
    <3> QED BY <3>1, <3>2, <3>3
  <2> QED BY <1>6, <2>1, <2>2 DEF Connection, KnownCommands, IdleWire, BrokenWire
<1>8. ASSUME NEW j \in 1 .. b + 1
      PROVE  Belongs(g, n - 1 + j, wire[c][j].of)'
  <2>1. CASE j = b + 1
    <3>1. n - 1 + j >= b /\ (n - 1 + j) - b = n
          BY <1>1, <1>3, <2>1
    <3>2. wire'[c][j].of = <<g, n>>
          BY <1>4, <1>6, <2>1
    <3>3. behind'[g] = b /\ wire[c][j].of' = <<g, n>>
          BY <3>2
    <3> QED BY <3>1, <3>3 DEF Belongs
  <2>2. CASE j \in 1 .. b
    <3>1. /\ j \in Nat
          /\ j + 1 \in 1 .. b + 1
          BY <1>0, <2>2
    <3>2. Read(g) + (j + 1) = n - 1 + j
          BY <1>3, <3>1
    <3>3. Belongs(g, n - 1 + j, w[j + 1].of) /\ w[j + 1].of \in Guests \X Nat
          BY <1>1, <1>2, <3>1, <3>2
    <3>4. n - 1 + j \in Int
          BY <1>3, <2>2
    <3>5. wire'[c][j] = w[j + 1]
          BY <1>6, <2>2
    <3>6. PICK i \in Int : i = n - 1 + j
          BY <3>4
    <3>7. PICK of \in Guests \X Nat : of = w[j + 1].of
          BY <3>3
    <3>8. Belongs(g, i, of)
          BY <3>3, <3>6, <3>7
    <3>9. /\ i >= behind'[g] => of = <<g, i - behind'[g]>>
          /\ ~(i >= behind'[g]) => of[1] # g /\ Gone(of[1])'
          BY <3>8, BelongsStays
    <3> QED BY <3>5, <3>6, <3>7, <3>9 DEF Belongs
  <2>3. j = b + 1 \/ j \in 1 .. b
        BY <1>0
  <2> QED BY <2>1, <2>2, <2>3
<1>9. HeldWire(g)'
      BY <1>6, <1>8 DEF HeldWire, Read
<1>10. Asked(g)'
  <2>1. (n - 1) + 1 = n
        BY <1>3
  <2>2. Field(g, Len(answer[g]) + 1)' \in seen'[g]
        BY <2>1 DEF Field
  <2>3. behind'[g] = 0 => wire'[c][1].val = "due"
        BY <1>4, <1>6
  <2> QED BY <2>2, <2>3 DEF Asked
<1>11. Started(g)'
       BY DEF Started
<1> QED BY <1>7, <1>9, <1>10, <1>11

LEMMA CheckedStep ==
    ASSUME TypeOK, KvInvariant, TypeOK', \A x \in Guests : Gone(x) => Gone(x)',
           NEW g \in Guests, NEW c \in Cons, has[g] = c, Checked(g)
    PROVE  KvInvariant'
<1>1. at[g] = "check" /\ con[c] = "good" /\ store' = store
      BY DEF Checked
<1>2. c # "none" /\ \A h \in Guests \ {g} : has[h] # c
      BY <1>1, Holder
<1>3. answer[g] = <<>>
      BY <1>1 DEF KvInvariant, Query, Started
<1>4. /\ \A h \in Guests \ {g} : /\ at'[h] = at[h] /\ has'[h] = has[h]
                                 /\ answer'[h] = answer[h] /\ behind'[h] = behind[h]
                                 /\ seen'[h] = seen[h]
      /\ \A d \in Cons \ {c} : con'[d] = con[d] /\ wire'[d] = wire[d]
      /\ at'[g] = "wait" /\ has'[g] = c /\ behind'[g] = behind[g] /\ answer'[g] = answer[g]
      /\ con'[c] = "good"
      /\ wire'[c] = Append(Tail(wire[c]), Command(g, 1))
      /\ seen'[g] = {Field(g, 1)}
      BY <1>1, <1>2 DEF Checked, TypeOK
<1>5. Len(answer'[g]) = 0 /\ 1 \in 1 .. Len(Keys) /\ 1 = Read(g) + 2
      BY <1>1, <1>3, <1>4, KeysLen DEF Read
<1>6. Connection(c)' /\ Started(g)' /\ HeldWire(g)' /\ Asked(g)'
  <2>1. Len(answer'[g]) = 1 - 1
        BY <1>5
  <2> QED BY <1>1, <1>4, <1>5, <2>1, NextQuestion
<1>7. InStep(g)'
      BY <1>5 DEF InStep
<1> QED BY <1>1, <1>2, <1>4, <1>6, <1>7, GuestStep DEF Query

LEMMA CheckFailsStep ==
    ASSUME TypeOK, KvInvariant, TypeOK', \A x \in Guests : Gone(x) => Gone(x)',
           NEW g \in Guests, NEW c \in Cons, has[g] = c,
           CheckFailsAnew(g) \/ CheckFailsRefused(g)
    PROVE  KvInvariant'
<1>1. at[g] = "check" /\ con[c] = "broken" /\ store' = store
      BY DEF CheckFailsAnew, CheckFailsRefused
<1>2. /\ c # "none" /\ \A h \in Guests \ {g} : has[h] # c
      /\ Connection(c)
      BY <1>1, Holder
<1>3. answer[g] = <<>> /\ answer'[g] = <<>>
  <2>1. answer[g] = <<>> /\ answer' = answer
        BY <1>1 DEF KvInvariant, Query, Started, CheckFailsAnew, CheckFailsRefused
  <2> QED BY <2>1
<1>4. /\ \A h \in Guests \ {g} : /\ at'[h] = at[h] /\ has'[h] = has[h]
                                 /\ answer'[h] = answer[h] /\ behind'[h] = behind[h]
                                 /\ seen'[h] = seen[h]
      /\ \A d \in Cons \ {c} : con'[d] = con[d] /\ wire'[d] = wire[d]
      BY DEF CheckFailsAnew, CheckFailsRefused, TypeOK
<1>5. CASE CheckFailsAnew(g)
  <2>1. /\ behind'[g] = 0 /\ at'[g] = "wait" /\ has'[g] = c
        /\ con'[c] = "good" /\ wire'[c] = <<Command(g, 1)>> /\ seen'[g] = {Field(g, 1)}
        BY <1>2, <1>5 DEF CheckFailsAnew, TypeOK
  <2>2. Connection(c)' /\ Query(g)'
        BY <1>1, <1>2, <1>3, <2>1, Fresh
  <2> QED BY <1>1, <1>2, <1>4, <2>1, <2>2, GuestStep
<1>6. CASE CheckFailsRefused(g)
  <2>1. at'[g] = "refused" /\ has'[g] = "none" /\ con'[c] = "new" /\ wire'[c] = wire[c]
        BY <1>2, <1>6 DEF CheckFailsRefused, TypeOK
  <2>2. Connection(c)'
        BY <1>2, <2>1 DEF Connection, KnownCommands, IdleWire, BrokenWire
  <2>3. Query(g)'
        BY <1>3, <2>1 DEF Query, Started, HeldWire, Asked, InStep
  <2> QED BY <1>1, <1>2, <1>4, <2>1, <2>2, <2>3, GuestStep
<1> QED BY <1>5, <1>6

\* One more answer, that is none or belongs to the guest.
LEMMA InStepGrows ==
    ASSUME TypeOK, NEW g \in Guests, InStep(g), NEW r \in Replies,
           answer'[g] = Append(answer[g], r), behind'[g] = behind[g],
           r.val # "lost" => Belongs(g, Len(answer[g]) + 1, r.of),
           \A x \in Guests : Gone(x) => Gone(x)'
    PROVE  InStep(g)'
<1>1. answer[g] \in Seq(Replies) /\ Len(answer[g]) \in Nat
      BY DEF TypeOK
<1>2. /\ Len(answer'[g]) = Len(answer[g]) + 1
      /\ \A i \in 1 .. Len(answer[g]) : answer'[g][i] = answer[g][i]
      /\ answer'[g][Len(answer[g]) + 1] = r
      BY <1>1, AppendProperties
<1>3. SUFFICES ASSUME NEW i \in 1 .. Len(answer[g]) + 1, answer'[g][i].val # "lost"
               PROVE  Belongs(g, i, answer[g][i].of)'
      BY <1>2 DEF InStep
<1>4. PICK a \in Replies : a = answer'[g][i] /\ Belongs(g, i, a.of)
  <2>1. CASE i = Len(answer[g]) + 1
        BY <1>2, <1>3, <2>1
  <2>2. CASE i \in 1 .. Len(answer[g])
    <3>1. answer[g][i] \in Replies
          BY <1>1, <2>2
    <3>2. answer[g][i] = answer'[g][i]
          BY <1>2, <2>2
    <3> QED BY <1>3, <2>2, <3>1, <3>2 DEF InStep
  <2> QED BY <1>1, <2>1, <2>2
<1>5. PICK of \in Guests \X Nat : of = a.of
      BY DEF Replies
<1>6. i \in Int /\ Belongs(g, i, of)
      BY <1>1, <1>4, <1>5
<1>7. /\ i >= behind'[g] => of = <<g, i - behind'[g]>>
      /\ ~(i >= behind'[g]) => of[1] # g /\ Gone(of[1])'
      BY <1>6, BelongsStays
<1> QED BY <1>4, <1>5, <1>7 DEF Belongs

LEMMA AnsweredStep ==
    ASSUME TypeOK, KvInvariant, TypeOK', \A x \in Guests : Gone(x) => Gone(x)',
           NEW g \in Guests, NEW c \in Cons, has[g] = c, Answered(g)
    PROVE  KvInvariant'
<1> DEFINE a == wire[c][1]
           r == [of |-> a.of, val |-> Converted(g, a.val)]
           n == Len(answer[g]) + 2
<1>1. /\ at[g] = "wait" /\ con[c] = "good" /\ wire[c] # <<>>
      /\ answer' = [answer EXCEPT ![g] = Append(@, r)]
      /\ Follow(g, Tail(wire[c]))
      /\ UNCHANGED <<store, con, behind>>
      BY DEF Answered, Arrived
<1>2. /\ c # "none" /\ \A h \in Guests \ {g} : has[h] # c
      /\ wire[c] \in Seq(Commands)
      /\ \A j \in 1 .. Len(wire[c]) : /\ wire[c][j] \in Commands
                                      /\ wire[c][j].of \in Guests \X Nat
      /\ behind[g] \in Nat
      /\ Len(answer[g]) \in Nat
      /\ Connection(c) /\ Query(g)
      BY <1>1, Holder
<1>3. /\ Len(wire[c]) = behind[g] + 1
      /\ \A j \in 1 .. behind[g] + 1 : Belongs(g, Len(answer[g]) + j, wire[c][j].of)
      BY <1>1, <1>2 DEF Query, HeldWire, Read
<1>4. r \in Replies
  <2>1. a.of \in Guests \X Nat
        BY <1>2, <1>3
  <2> QED BY <2>1, ConvertedType DEF Replies
<1>5. answer'[g] = Append(answer[g], r) /\ Len(answer'[g]) = Len(answer[g]) + 1
  <2>1. answer[g] \in Seq(Replies)
        BY DEF TypeOK
  <2>2. answer'[g] = Append(answer[g], r)
        BY <1>1 DEF TypeOK
  <2> QED BY <1>4, <2>1, <2>2, AppendProperties
<1>6. InStep(g)'
  <2>1. Belongs(g, Len(answer[g]) + 1, r.of)
        BY <1>2, <1>3
  <2>2. behind'[g] = behind[g]
        BY <1>1
  <2> HIDE DEF r
  <2> QED BY <1>2, <1>4, <1>5, <2>1, <2>2, InStepGrows DEF Query
<1>7. \A h \in Guests \ {g} : answer'[h] = answer[h]
      BY <1>1 DEF TypeOK
<1>8. CASE n <= Len(Keys)
  <2>1. /\ wire' = [wire EXCEPT ![c] = Append(Tail(wire[c]), Command(g, n))]
        /\ seen' = [seen EXCEPT ![g] = {Field(g, n)}]
        /\ UNCHANGED <<at, has>>
        BY <1>1, <1>8 DEF Follow
  <2>2. /\ \A h \in Guests \ {g} : seen'[h] = seen[h]
        /\ \A d \in Cons \ {c} : wire'[d] = wire[d]
        /\ seen'[g] = {Field(g, n)}
        /\ wire'[c] = Append(Tail(wire[c]), Command(g, n))
        BY <2>1 DEF TypeOK
  <2>3. n \in 1 .. Len(Keys) /\ n = Read(g) + 2 /\ Len(answer'[g]) = n - 1
        BY <1>1, <1>2, <1>5, <1>8, KeysLen DEF Read
  <2>4. Connection(c)' /\ Started(g)' /\ HeldWire(g)' /\ Asked(g)'
    <3> HIDE DEF n
    <3> QED BY <1>1, <2>1, <2>2, <2>3, NextQuestion
  <2> QED BY <1>1, <1>2, <1>6, <1>7, <2>1, <2>2, <2>4, GuestStep DEF Query
<1>9. CASE n > Len(Keys)
  <2>1. /\ wire' = [wire EXCEPT ![c] = Tail(wire[c])]
        /\ at' = [at EXCEPT ![g] = "over"]
        /\ has' = [has EXCEPT ![g] = "none"]
        /\ seen' = [seen EXCEPT ![g] = {}]
        BY <1>1, <1>2, <1>9, KeysLen DEF Follow
  <2>2. /\ \A h \in Guests \ {g} : at'[h] = at[h] /\ has'[h] = has[h] /\ seen'[h] = seen[h]
        /\ \A d \in Cons \ {c} : wire'[d] = wire[d]
        /\ at'[g] = "over" /\ has'[g] = "none"
        /\ wire'[c] = Tail(wire[c])
        BY <2>1 DEF TypeOK
  <2>3. /\ Len(wire'[c]) = behind[g]
        /\ \A j \in 1 .. behind[g] : wire'[c][j] = wire[c][j + 1]
        BY SMTT(20), <1>1, <1>2, <1>3, <2>2, Received
  <2>4. ASSUME NEW j \in 1 .. behind[g]
        PROVE  wire'[c][j].of[2] \in 0 .. Len(Keys) /\ Gone(wire[c][j].of[1])'
    <3>1. j + 1 \in 1 .. behind[g] + 1
          BY <1>2
    <3>2. wire[c][j + 1].of[2] \in 0 .. Len(Keys) /\ wire[c][j + 1].of \in Guests \X Nat
          BY <1>2, <1>3, <3>1 DEF Connection, KnownCommands
    <3>3. wire[c][j + 1].of[1] = g \/ Gone(wire[c][j + 1].of[1])
          BY <1>3, <3>1 DEF Belongs
    <3>4. PICK x \in Guests : x = wire[c][j + 1].of[1] /\ (x = g \/ Gone(x))
          BY <3>2, <3>3
    <3>5. Gone(x)'
          BY <2>2, <3>4 DEF Gone
    <3>6. wire'[c][j] = wire[c][j + 1]
          BY <2>3
    <3> QED BY <3>2, <3>4, <3>5, <3>6 DEF Gone
  <2>5. Connection(c)'
        BY <1>1, <2>3, <2>4 DEF Connection, KnownCommands, IdleWire, BrokenWire
  <2>6. Query(g)'
        BY <1>6, <2>2 DEF Query, Started, HeldWire, Asked
  <2> QED BY <1>1, <1>2, <1>7, <2>2, <2>5, <2>6, GuestStep
<1> QED BY <1>2, <1>8, <1>9, KeysLen

LEMMA LostStep ==
    ASSUME TypeOK, KvInvariant, TypeOK', \A x \in Guests : Gone(x) => Gone(x)',
           NEW g \in Guests, NEW c \in Cons, has[g] = c, Lost(g)
    PROVE  KvInvariant'
<1> DEFINE r == [of |-> <<g, Len(answer[g]) + 1>>, val |-> "lost"]
           n == Len(answer[g]) + 2
<1>1. /\ at[g] = "wait" /\ con[c] = "broken"
      /\ answer' = [answer EXCEPT ![g] = Append(@, r)]
      /\ Follow(g, <<>>)
      /\ UNCHANGED <<store, con, behind>>
      BY DEF Lost, TypeOK
<1>2. /\ c # "none" /\ \A h \in Guests \ {g} : has[h] # c
      /\ Len(answer[g]) \in Nat
      /\ Connection(c) /\ Query(g)
      BY <1>1, Holder
<1>3. r \in Replies
      BY <1>2 DEF Replies
<1>4. answer'[g] = Append(answer[g], r) /\ Len(answer'[g]) = Len(answer[g]) + 1
  <2>1. answer[g] \in Seq(Replies)
        BY DEF TypeOK
  <2>2. answer'[g] = Append(answer[g], r)
        BY <1>1 DEF TypeOK
  <2> QED BY <1>3, <2>1, <2>2, AppendProperties
<1>5. InStep(g)'
  <2>1. r.val = "lost" /\ behind'[g] = behind[g]
        BY <1>1
  <2> HIDE DEF r
  <2> QED BY <1>2, <1>3, <1>4, <2>1, InStepGrows DEF Query
<1>6. \A h \in Guests \ {g} : answer'[h] = answer[h]
      BY <1>1 DEF TypeOK
<1>7. ASSUME wire'[c] = <<>>
      PROVE  Connection(c)'
      BY <1>1, <1>7 DEF Connection, KnownCommands, IdleWire, BrokenWire
<1>8. CASE n <= Len(Keys)
  <2>1. /\ wire' = [wire EXCEPT ![c] = <<>>]
        /\ seen' = [seen EXCEPT ![g] = {Field(g, n)}]
        /\ UNCHANGED <<at, has>>
        BY <1>1, <1>8 DEF Follow
  <2>2. /\ \A h \in Guests \ {g} : seen'[h] = seen[h]
        /\ \A d \in Cons \ {c} : wire'[d] = wire[d]
        /\ seen'[g] = {Field(g, n)}
        /\ wire'[c] = <<>>
        BY <2>1 DEF TypeOK
  <2>3. Asked(g)'
    <3>1. Len(answer'[g]) + 1 = n
          BY <1>2, <1>4
    <3>2. Field(g, Len(answer[g]) + 1)' = Field(g, n)
          BY <1>1, <3>1 DEF Field
    <3> QED BY <1>1, <2>1, <2>2, <3>2 DEF Asked
  <2>4. Started(g)' /\ HeldWire(g)'
        BY <1>1, <2>1 DEF Started, HeldWire
  <2> QED BY <1>1, <1>2, <1>5, <1>6, <1>7, <2>1, <2>2, <2>3, <2>4, GuestStep DEF Query
<1>9. CASE n > Len(Keys)
  <2>1. /\ wire' = [wire EXCEPT ![c] = <<>>]
        /\ at' = [at EXCEPT ![g] = "over"]
        /\ has' = [has EXCEPT ![g] = "none"]
        /\ seen' = [seen EXCEPT ![g] = {}]
        BY <1>1, <1>2, <1>9, KeysLen DEF Follow
  <2>2. /\ \A h \in Guests \ {g} : at'[h] = at[h] /\ has'[h] = has[h] /\ seen'[h] = seen[h]
        /\ \A d \in Cons \ {c} : wire'[d] = wire[d]
        /\ at'[g] = "over" /\ has'[g] = "none"
        /\ wire'[c] = <<>>
        BY <2>1 DEF TypeOK
  <2>3. Query(g)'
        BY <1>5, <2>2 DEF Query, Started, HeldWire, Asked
  <2> QED BY <1>1, <1>2, <1>6, <1>7, <2>2, <2>3, GuestStep
<1> QED BY <1>2, <1>8, <1>9, KeysLen

\* A guest that is over, and has nothing.
LEMMA NothingLeft ==
    ASSUME NEW g \in Guests, at'[g] \in {"refused", "cut"}, answer'[g] = <<>>
    PROVE  Query(g)'
<1>1. Len(answer'[g]) = 0
      OBVIOUS
<1> QED BY <1>1 DEF Query, Started, HeldWire, Asked, InStep

LEMMA NoConnectionStep ==
    ASSUME TypeOK, KvInvariant, TypeOK', \A x \in Guests : Gone(x) => Gone(x)',
           NEW g \in Guests, NoConnection(g)
    PROVE  KvInvariant'
<1>1. at[g] = "ready" /\ has[g] = "none" /\ answer[g] = <<>>
      BY DEF NoConnection, TypeOK, KvInvariant, Query, Started
<1>2. /\ \A h \in Guests \ {g} : at'[h] = at[h]
      /\ at'[g] = "refused"
      /\ UNCHANGED <<store, con, wire, has, answer, seen, behind>>
      BY DEF NoConnection, TypeOK
<1>3. Query(g)'
  <2>1. answer'[g] = <<>>
        BY <1>1, <1>2
  <2> QED BY <1>2, <2>1, NothingLeft
<1> QED BY <1>1, <1>2, <1>3, GuestStep

LEMMA CutStep ==
    ASSUME TypeOK, KvInvariant, TypeOK', \A x \in Guests : Gone(x) => Gone(x)',
           NEW g \in Guests, Cut(g)
    PROVE  KvInvariant'
<1>1. /\ \A h \in Guests \ {g} : /\ at'[h] = at[h] /\ has'[h] = has[h]
                                 /\ answer'[h] = answer[h] /\ behind'[h] = behind[h]
                                 /\ seen'[h] = seen[h]
      /\ at[g] \in {"ready", "check", "wait"}
      /\ at'[g] = "cut" /\ has'[g] = "none" /\ answer'[g] = <<>>
      /\ store' = store
      BY DEF Cut, TypeOK
<1>2. Query(g)'
      BY <1>1, NothingLeft
<1>3. CASE at[g] = "ready"
  <2>1. con' = con /\ wire' = wire /\ has[g] = "none"
        BY <1>3 DEF Cut, TypeOK
  <2> QED BY <1>1, <1>2, <2>1, GuestStep
<1>4. CASE at[g] \in {"check", "wait"}
  <2>1. PICK c \in Cons : c = has[g]
        BY <1>4, Holder
  <2>2. /\ c # "none" /\ \A h \in Guests \ {g} : has[h] # c
        /\ \A j \in 1 .. Len(wire[c]) : wire[c][j].of \in Guests \X Nat
        /\ behind[g] \in Nat
        /\ Connection(c) /\ Query(g)
        BY <1>4, <2>1, Holder
  <2>3. /\ \A d \in Cons \ {c} : con'[d] = con[d] /\ wire'[d] = wire[d]
        /\ \/ con'[c] = "new" /\ wire'[c] = <<>>
           \/ con'[c] = con[c] /\ wire'[c] = wire[c]
        BY <2>1 DEF Cut, TypeOK
  <2>4. CASE con'[c] = "new" /\ wire'[c] = <<>>
    <3>1. Connection(c)'
          BY <2>4 DEF Connection, KnownCommands, IdleWire, BrokenWire
    <3> QED BY <1>1, <1>2, <2>1, <2>2, <2>3, <3>1, GuestStep
  <2>5. CASE con'[c] = con[c] /\ wire'[c] = wire[c]
    <3>1. ASSUME con[c] = "good", NEW j \in 1 .. Len(wire[c])
          PROVE  Gone(wire[c][j].of[1])'
      <4>1. j \in 1 .. behind[g] + 1
            BY <1>4, <2>1, <2>2, <3>1 DEF Query, HeldWire
      <4>2. Belongs(g, Read(g) + j, wire[c][j].of)
            BY <1>4, <2>1, <2>2, <3>1, <4>1 DEF Query, HeldWire
      <4>3. PICK x \in Guests : x = wire[c][j].of[1] /\ (x = g \/ Gone(x))
            BY <2>2, <4>2 DEF Belongs
      <4>4. Gone(x)'
            BY <1>1, <4>3 DEF Gone
      <4> QED BY <2>5, <4>3, <4>4 DEF Gone
    <3>2. Connection(c)'
          BY <2>2, <2>5, <3>1 DEF Connection, KnownCommands, IdleWire, BrokenWire
    <3> QED BY <1>1, <1>2, <2>1, <2>2, <2>3, <2>5, <3>2, GuestStep
  <2> QED BY <2>3, <2>4, <2>5
<1> QED BY <1>1, <1>3, <1>4

-----------------------------------------------------------------------------
(* The steps of the others, and the theorems.                              *)

\* Steps that leave the guests and what is on the wires, whatever the answers.
LEMMA WireStep ==
    ASSUME TypeOK, KvInvariant, TypeOK',
           UNCHANGED <<store, con, at, has, answer, seen, behind>>,
           \A d \in Cons : /\ Len(wire'[d]) = Len(wire[d])
                           /\ \A j \in 1 .. Len(wire[d]) : wire'[d][j].of = wire[d][j].of,
           \A h \in Guests : Asked(h)'
    PROVE  KvInvariant'
<1>1. ASSUME NEW d \in Cons
      PROVE  Connection(d)'
  <2>1. Connection(d) /\ wire[d] \in Seq(Commands) /\ wire'[d] \in Seq(Commands)
        BY DEF KvInvariant, TypeOK
  <2>2. wire[d] = <<>> => wire'[d] = <<>>
        BY <2>1
  <2> QED BY <2>1, <2>2 DEF Connection, KnownCommands, IdleWire, BrokenWire, Free, Gone
<1>2. OneHolder'
      BY DEF KvInvariant, OneHolder
<1>3. ASSUME NEW h \in Guests
      PROVE  Query(h)'
  <2>1. Query(h)
        BY DEF KvInvariant
  <2>2. Started(h)' /\ InStep(h)'
        BY <2>1 DEF Query, Started, InStep, Belongs, Gone
  <2>3. ASSUME at[h] \in {"check", "wait"}, con[has[h]] = "good"
        PROVE  HeldWire(h)'
    <3>1. has[h] \in Cons /\ behind[h] \in Nat
          BY <2>3, Holder
    <3>2. /\ Len(wire[has[h]]) = behind[h] + 1
          /\ \A j \in 1 .. behind[h] + 1 : Belongs(h, Read(h) + j, wire[has[h]][j].of)
          BY <2>1, <2>3 DEF Query, HeldWire
    <3>3. \A j \in 1 .. behind[h] + 1 : wire'[has[h]][j].of = wire[has[h]][j].of
          BY <3>1, <3>2
    <3> QED BY <3>1, <3>2, <3>3 DEF HeldWire, Belongs, Read, Gone
  <2>4. HeldWire(h)'
        BY <2>3 DEF HeldWire
  <2> QED BY <2>2, <2>4 DEF Query
<1> QED BY <1>1, <1>2, <1>3 DEF KvInvariant

LEMMA RedisStep ==
    ASSUME TypeOK, KvInvariant, TypeOK', NEW c \in Cons, Redis(c)
    PROVE  KvInvariant'
<1>1. PICK k \in 1 .. Len(wire[c]) :
          LET g == wire[c][k].of[1]
              n == wire[c][k].of[2]
          IN /\ wire' = [wire EXCEPT ![c][k].val = IF n = 0 THEN "PONG" ELSE Field(g, n)]
             /\ UNCHANGED <<store, con, at, has, answer, seen, behind>>
      BY DEF Redis
<1> DEFINE m == wire[c][k]
           v == IF m.of[2] = 0 THEN "PONG" ELSE Field(m.of[1], m.of[2])
<1>2. /\ wire[c] \in Seq(Commands) /\ Len(wire[c]) \in Nat
      /\ \A j \in 1 .. Len(wire[c]) : wire[c][j] \in Commands
      /\ m \in Commands
      BY DEF TypeOK
<1>3. /\ \A d \in Cons \ {c} : wire'[d] = wire[d]
      /\ wire'[c] = [wire[c] EXCEPT ![k] = [m EXCEPT !.val = v]]
      BY <1>1 DEF TypeOK
<1>4. /\ Len(wire'[c]) = Len(wire[c])
      /\ \A j \in 1 .. Len(wire[c]) : j # k => wire'[c][j] = wire[c][j]
      /\ wire'[c][k].of = m.of
      /\ wire'[c][k].val = v
  <2>1. wire'[c][k] = [m EXCEPT !.val = v]
        BY <1>2, <1>3
  <2>2. [m EXCEPT !.val = v].of = m.of /\ [m EXCEPT !.val = v].val = v
        BY <1>2 DEF Commands
  <2> HIDE DEF v, m
  <2>3. /\ Len(wire'[c]) = Len(wire[c])
        /\ \A j \in 1 .. Len(wire[c]) : j # k => wire'[c][j] = wire[c][j]
        BY <1>2, <1>3
  <2> QED BY <2>1, <2>2, <2>3
<1>5. ASSUME NEW h \in Guests
      PROVE  Asked(h)'
  <2>1. SUFFICES ASSUME at[h] = "wait"
                 PROVE  Asked(h)'
        BY <1>1 DEF Asked
  <2>2. Asked(h) /\ Query(h) /\ has[h] \in Cons /\ behind[h] \in Nat /\ Len(answer[h]) \in Nat
        BY <2>1, Holder DEF Query
  <2>3. /\ Field(h, Len(answer[h]) + 1) \in seen[h]
        /\ Field(h, Len(answer[h]) + 1)' = Field(h, Len(answer[h]) + 1)
        BY <1>1, <2>1, <2>2 DEF Asked, Field
  <2>4. ASSUME behind[h] = 0, con[has[h]] = "good"
        PROVE  wire'[has[h]][1].val \in seen[h] \cup {"due"}
    <3>1. wire[has[h]][1].val \in seen[h] \cup {"due"}
          BY <2>1, <2>2, <2>4 DEF Asked
    <3>2. Len(wire[has[h]]) = 1 /\ wire[has[h]][1].of = <<h, Len(answer[h]) + 1>>
      <4>1. /\ Len(wire[has[h]]) = 1
            /\ Belongs(h, Len(answer[h]) + 1, wire[has[h]][1].of)
            BY <2>1, <2>2, <2>4 DEF Query, HeldWire, Read
      <4> QED BY <2>2, <2>4, <4>1 DEF Belongs
    <3>3. CASE has[h] = c /\ k = 1
      <4>1. m.of[1] = h /\ m.of[2] = Len(answer[h]) + 1
            BY <3>2, <3>3
      <4>2. v = Field(h, Len(answer[h]) + 1)
            BY <2>2, <4>1
      <4> HIDE DEF v, m
      <4> QED BY <1>4, <2>3, <3>3, <4>2
    <3>4. CASE has[h] = c /\ k # 1
      <4>1. wire'[c][1] = wire[c][1]
            BY <1>4, <3>2, <3>4
      <4> QED BY <3>1, <3>4, <4>1
    <3>5. CASE has[h] # c
          BY <1>3, <2>2, <3>1, <3>5
    <3> QED BY <3>3, <3>4, <3>5
  <2> QED BY <1>1, <2>1, <2>3, <2>4 DEF Asked
<1>6. \A d \in Cons : /\ Len(wire'[d]) = Len(wire[d])
                      /\ \A j \in 1 .. Len(wire[d]) : wire'[d][j].of = wire[d][j].of
      BY <1>3, <1>4
<1> QED BY <1>1, <1>5, <1>6, WireStep

LEMMA BreakStep ==
    ASSUME TypeOK, KvInvariant, TypeOK', NEW c \in Cons, Break(c)
    PROVE  KvInvariant'
<1>1. /\ UNCHANGED <<store, at, has, answer, seen, behind>>
      /\ \A d \in Cons \ {c} : con'[d] = con[d] /\ wire'[d] = wire[d]
      /\ con[c] = "good" /\ con'[c] = "broken" /\ wire'[c] = <<>>
      BY DEF Break, TypeOK
<1>2. ASSUME NEW d \in Cons
      PROVE  Connection(d)'
  <2>1. CASE d = c
        BY <1>1, <2>1 DEF Connection, KnownCommands, IdleWire, BrokenWire
  <2>2. CASE d # c
        BY <1>1, <2>2 DEF KvInvariant, Connection, KnownCommands, IdleWire, BrokenWire, Free, Gone
  <2> QED BY <2>1, <2>2
<1>3. OneHolder'
      BY <1>1 DEF KvInvariant, OneHolder
<1>4. ASSUME NEW h \in Guests
      PROVE  Query(h)'
  <2>1. Query(h)
        BY DEF KvInvariant
  <2>2. at[h] \in {"check", "wait"} => has[h] \in Cons
        BY Holder
  <2>3. Started(h)'
        BY <1>1, <2>1, <2>2 DEF Query, Started
  <2>4. InStep(h)'
        BY <1>1, <2>1 DEF Query, InStep, Belongs, Gone
  <2>5. HeldWire(h)'
        BY <1>1, <2>1, <2>2 DEF Query, HeldWire, Belongs, Read, Gone
  <2>6. Asked(h)'
        BY <1>1, <2>1, <2>2 DEF Query, Asked, Field
  <2> QED BY <2>3, <2>4, <2>5, <2>6 DEF Query
<1> QED BY <1>2, <1>3, <1>4 DEF KvInvariant

LEMMA WriteStep ==
    ASSUME TypeOK, KvInvariant, TypeOK', NEW t \in Sessions, NEW f \in Fields,
           NEW v \in Contents, Write(t, f, v)
    PROVE  KvInvariant'
<1>1. /\ UNCHANGED <<con, wire, at, has, answer, behind>>
      /\ store' = [store EXCEPT ![t][f] = v]
      /\ \A h \in Guests :
             seen'[h] = IF at[h] = "wait" /\ Of[h] = t /\ Keys[Len(answer[h]) + 1] = f
                        THEN seen[h] \cup {v} ELSE seen[h]
      BY DEF Write
<1>2. ASSUME NEW h \in Guests
      PROVE  Query(h)'
  <2>1. Query(h)
        BY DEF KvInvariant
  <2>2. Started(h)' /\ InStep(h)' /\ HeldWire(h)'
        BY <1>1, <2>1 DEF Query, Started, InStep, HeldWire, Belongs, Read, Gone
  <2>3. Asked(h)'
    <3>1. SUFFICES ASSUME at[h] = "wait"
                   PROVE  Asked(h)'
          BY <1>1 DEF Asked
    <3> DEFINE n == Len(answer[h]) + 1
    <3>2. n \in 1 .. Len(Keys)
          BY <3>1, KeysLen DEF TypeOK
    <3>3. Keys[n] \in Fields /\ Of[h] \in Sessions
          BY <3>2, KvAssumption DEF KvAssumption
    <3>4. Field(h, n) \in seen[h]
          BY <2>1, <3>1 DEF Query, Asked
    <3>5. CASE Of[h] = t /\ Keys[n] = f
      <4>1. store'[Of[h]][Keys[n]] = v
            BY <1>1, <3>3, <3>5 DEF TypeOK
      <4>2. seen'[h] = seen[h] \cup {v}
            BY <1>1, <3>1, <3>5
      <4>3. Field(h, Len(answer[h]) + 1)' \in seen'[h]
            BY <1>1, <4>1, <4>2 DEF Field
      <4> QED BY <1>1, <2>1, <4>2, <4>3 DEF Query, Asked
    <3>6. CASE ~(Of[h] = t /\ Keys[n] = f)
      <4>1. store'[Of[h]][Keys[n]] = store[Of[h]][Keys[n]]
            BY <1>1, <3>3, <3>6 DEF TypeOK
      <4>2. seen'[h] = seen[h]
            BY <1>1, <3>6
      <4>3. Field(h, Len(answer[h]) + 1)' \in seen'[h]
            BY <1>1, <3>4, <4>1, <4>2 DEF Field
      <4> QED BY <1>1, <2>1, <4>2, <4>3 DEF Query, Asked
    <3> QED BY <3>5, <3>6
  <2> QED BY <2>2, <2>3 DEF Query
<1>3. \A d \in Cons : Connection(d)'
      BY <1>1 DEF KvInvariant, Connection, KnownCommands, IdleWire, BrokenWire, Free, Gone
<1>4. OneHolder'
      BY <1>1 DEF KvInvariant, OneHolder
<1> QED BY <1>2, <1>3, <1>4 DEF KvInvariant

LEMMA StutterStep ==
    ASSUME TypeOK, KvInvariant, TypeOK', UNCHANGED vars
    PROVE  KvInvariant'
<1>1. \A h \in Guests : Asked(h)'
      BY DEF vars, KvInvariant, Query, Asked, Field
<1> QED BY <1>1, WireStep DEF vars

\* Every step preserves both invariants.
LEMMA InvariantStep ==
    ASSUME TypeOK, KvInvariant, [Next]_vars
    PROVE  TypeOK' /\ KvInvariant'
<1>1. TypeOK'
      BY TypeStep
<1>2. \A x \in Guests : Gone(x) => Gone(x)'
      BY GoneStays
<1>3. ASSUME NEW g \in Guests, at[g] \in {"check", "wait"}
      PROVE  has[g] \in Cons
      BY <1>3, Holder
<1>4. ASSUME NEW g \in Guests, NEW c \in Cons, Connect(g, c) \/ Checkout(g, c)
      PROVE  KvInvariant'
      BY <1>1, <1>2, <1>4, ConnectStep, CheckoutStep
<1>5. ASSUME NEW g \in Guests,
             Checked(g) \/ CheckFailsAnew(g) \/ CheckFailsRefused(g) \/ Answered(g) \/ Lost(g)
      PROVE  KvInvariant'
  <2>1. at[g] \in {"check", "wait"}
        BY <1>5 DEF Checked, CheckFailsAnew, CheckFailsRefused, Answered, Lost
  <2>2. PICK c \in Cons : has[g] = c
        BY <1>3, <2>1
  <2> QED BY <1>1, <1>2, <1>5, <2>2, CheckedStep, CheckFailsStep, AnsweredStep, LostStep
<1>6. ASSUME NEW g \in Guests, NoConnection(g) \/ Cut(g)
      PROVE  KvInvariant'
      BY <1>1, <1>2, <1>6, NoConnectionStep, CutStep
<1>7. ASSUME NEW c \in Cons, Redis(c) \/ Break(c)
      PROVE  KvInvariant'
      BY <1>1, <1>7, RedisStep, BreakStep
<1>8. ASSUME NEW t \in Sessions, NEW f \in Fields, NEW v \in Contents, Write(t, f, v)
      PROVE  KvInvariant'
      BY <1>1, <1>8, WriteStep
<1>9. CASE UNCHANGED vars
      BY <1>1, <1>9, StutterStep
<1>10. KvInvariant'
       BY <1>4, <1>5, <1>6, <1>7, <1>8, <1>9, NextCases
<1> QED BY <1>1, <1>10

LEMMA Initially ==
    ASSUME Init
    PROVE  TypeOK /\ KvInvariant
<1>1. TypeOK
      BY KvAssumption DEF KvAssumption, Init, TypeOK, Contents
<1>2. \A c \in Cons : Connection(c)
      BY DEF Init, Connection, KnownCommands, IdleWire, BrokenWire
<1>3. OneHolder
      BY DEF Init, OneHolder
<1>4. ASSUME NEW g \in Guests
      PROVE  Query(g)
  <2>1. answer[g] = <<>> /\ Len(answer[g]) = 0 /\ at[g] = "ready" /\ behind[g] = 0
        BY DEF Init
  <2> QED BY <2>1 DEF Query, Started, HeldWire, Asked, InStep
<1> QED BY <1>1, <1>2, <1>3, <1>4 DEF KvInvariant

\* Every state has the types of TypeOK, and a guest holds a connection exactly
\* while it is under check or has a question open (storage_query_kv).
THEOREM KvTypes == Spec => []TypeOK
<1>1. Init => TypeOK /\ KvInvariant
      BY Initially
<1>2. TypeOK /\ KvInvariant /\ [Next]_vars => TypeOK' /\ KvInvariant'
      BY InvariantStep
<1> QED BY <1>1, <1>2, PTL DEF Spec

\* On the wire of a connection that a guest holds are as many answers as were due
\* when it took it, and one to its last command; on one that nobody holds are
\* those of queries that are over.
THEOREM WiresHold == Spec => []KvInvariant
<1>1. Init => TypeOK /\ KvInvariant
      BY Initially
<1>2. TypeOK /\ KvInvariant /\ [Next]_vars => TypeOK' /\ KvInvariant'
      BY InvariantStep
<1> QED BY <1>1, <1>2, PTL DEF Spec

\* The answers that a guest takes for its own are those of its own questions, or
\* all behind by what was due on the connection when the guest took it.
THEOREM AnswersBelong == Spec => []AnswersInStep
<1>1. KvInvariant => AnswersInStep
      BY DEF KvInvariant, Query, AnswersInStep
<1> QED BY <1>1, WiresHold, PTL

\* An answer of its own query is never older than the question.
LEMMA FreshStep ==
    ASSUME TypeOK, KvInvariant, [Next]_vars, NEW g \in Guests,
           Len(answer'[g]) > Len(answer[g]), behind[g] = 0
    PROVE  LET a == answer'[g][Len(answer'[g])].val
           IN a = "lost" \/ \E v \in seen[g] : a = Converted(g, v)
<1> USE DEF TypeOK
<1>1. answer[g] \in Seq(Replies) /\ Len(answer[g]) \in Nat
      OBVIOUS
<1>2. Answered(g) \/ Lost(g)
  <2>1. ASSUME NEW h \in Guests, Cut(h)
        PROVE  FALSE
    <3>1. answer' = [answer EXCEPT ![h] = <<>>]
          BY <2>1 DEF Cut
    <3>2. answer'[g] = answer[g] \/ answer'[g] = <<>>
          BY <3>1
    <3>3. Len(answer'[g]) = Len(answer[g]) \/ Len(answer'[g]) = 0
          BY <3>2
    <3> QED BY <1>1, <3>3
  <2>2. ASSUME answer' = answer
        PROVE  FALSE
        BY <1>1, <2>2
  <2>3. ASSUME NEW h \in Guests, h # g, Answered(h) \/ Lost(h)
        PROVE  FALSE
    <3>1. answer'[g] = answer[g]
          BY <2>3 DEF Answered, Lost
    <3> QED BY <1>1, <3>1
  <2>4. \/ answer' = answer \/ \E h \in Guests : Cut(h) \/ Answered(h) \/ Lost(h)
        BY NextCases DEF Connect, Checkout, Checked, CheckFailsAnew, CheckFailsRefused,
                         NoConnection, Redis, Break, Write, vars
  <2> QED BY <2>1, <2>2, <2>3, <2>4
<1>3. ASSUME NEW r, answer'[g] = Append(answer[g], r)
      PROVE  answer'[g][Len(answer'[g])] = r
      BY <1>1, <1>3
<1>4. CASE Lost(g)
  <2>1. answer'[g] = Append(answer[g], [of |-> <<g, Len(answer[g]) + 1>>, val |-> "lost"])
        BY <1>4 DEF Lost
  <2> QED BY <1>3, <2>1
<1>5. CASE Answered(g)
  <2> DEFINE a == wire[has[g]][1]
             r == [of |-> a.of, val |-> Converted(g, a.val)]
  <2>1. /\ at[g] = "wait" /\ con[has[g]] = "good" /\ a.val # "due"
        /\ answer'[g] = Append(answer[g], r)
        BY <1>5 DEF Answered, Arrived
  <2>2. a.val \in seen[g] \cup {"due"}
        BY <2>1 DEF KvInvariant, Query, Asked
  <2>3. answer'[g][Len(answer'[g])] = r
        BY <1>3, <2>1
  <2>4. answer'[g][Len(answer'[g])].val = Converted(g, a.val)
        BY <2>3
  <2> QED BY <2>1, <2>2, <2>4
<1> QED BY <1>2, <1>4, <1>5

\* In step, an answer is the content of its field at some moment since the
\* question, whatever is written in between (storage_query_kv).
THEOREM AnswersAreFresh == Spec => FreshAnswers
<1>1. ASSUME TypeOK, KvInvariant, [Next]_vars
      PROVE  \A g \in Guests : Len(answer'[g]) > Len(answer[g]) /\ behind[g] = 0 =>
                 LET a == answer'[g][Len(answer'[g])].val
                 IN a = "lost" \/ \E v \in seen[g] : a = Converted(g, v)
      BY <1>1, FreshStep, Zenon
<1> QED BY <1>1, KvTypes, WiresHold, PTL DEF Spec, FreshAnswers
=============================================================================
