------------------------ MODULE SessionRegistry_proofs -----------------------
(***************************************************************************)
(* What is proved of the sessions and their stores, for any number of      *)
(* sessions, calls, fields and connections: types, the inductive invariant *)
(* of the calls, that stores do not outlive their sessions, that a closed  *)
(* session stays closed, and that the calls together implement the life    *)
(* of a session.                                                           *)
(***************************************************************************)
EXTENDS SessionRegistry, TLAPS

\* Every step is one of these.
LEMMA StepCases ==
    ASSUME [Next]_vars
    PROVE  \/ \E c \in Calls, o \in Ops, t \in Tokens : Invoke(c, o, t)
           \/ \E c \in Calls : \/ Refuse(c) \/ Acquire(c) \/ OpenSet(c) \/ OpenReadBack(c)
                              \/ CloseLook(c) \/ CloseSweep(c) \/ CloseDrop(c) \/ CloseForget(c)
                              \/ IncrementBump(c) \/ RunLoad(c) \/ UpdateExists(c) \/ UpdateWrite(c)
                              \/ UpdateReply(c) \/ Abort(c)
           \/ Crash
           \/ \E t \in Tokens : Seed(t)
           \/ UNCHANGED vars
BY DEF Next, Progress, Step, Rest

\* The words the calls and their answers are described with.
LEMMA Words ==
    /\ {"idle", "wait", "over", "hset", "token", "look", "sweep", "drop", "forget",
        "bump", "load", "exists", "write"} \subseteq Stations
    /\ {"ok", "no session", "err", "cut"} \subseteq Answers
    /\ {"absent", "number", "text"} \subseteq Contents
    /\ {"open", "close", "increment", "run"} \subseteq Ops
    /\ Updates \subseteq Ops /\ "none" \notin Ops
    /\ {"open", "close", "increment", "run", "none"} \cap Updates = {}
    /\ Ops \subseteq {"open", "close", "increment", "run"} \cup Updates
BY DEF Stations, Holding, Answers, Contents, Ops, Updates

\* The functions among the variables.
Shapes == /\ at \in [Calls -> Stations]
          /\ reply \in [Calls -> Answers \cup {"none"}]
          /\ op \in [Calls -> Ops \cup {"none"}]
          /\ tok \in [Calls -> Tokens \cup {"none"}]
          /\ conf \in [Tokens -> {"none", "bare", "full"}]
          /\ store \in [Tokens -> [Fields -> Contents]]

\* The type invariant has the shapes.
LEMMA ShapesHold == TypeOK => Shapes
BY DEF TypeOK, Shapes

\* What an answer and a next command do to the calls.
LEMMA ReplyTypes ==
    ASSUME Shapes, NEW c \in Calls, NEW a \in Answers, Reply(c, a)
    PROVE  at' \in [Calls -> Stations] /\ reply' \in [Calls -> Answers \cup {"none"}]
BY Words DEF Shapes, Reply

\* A next command keeps the types of the calls.
LEMMA GotoTypes ==
    ASSUME Shapes, NEW c \in Calls, NEW s \in Stations, Goto(c, s)
    PROVE  at' \in [Calls -> Stations] /\ reply' \in [Calls -> Answers \cup {"none"}]
BY DEF Shapes, Goto

\* An answer leaves every call at a command of its own kind.
LEMMA ReplyStages ==
    ASSUME Shapes, Stages, NEW c \in Calls, NEW a \in Answers, Reply(c, a),
           at[c] # "idle", UNCHANGED <<op, tok>>
    PROVE  Stages'
BY Words DEF Shapes, Reply, Stages, IsUpdate

\* The commands that belong to a call.
Own(c, s) == /\ s \in {"hset", "token"} => op[c] = "open"
             /\ s \in {"look", "sweep", "drop", "forget"} => op[c] = "close"
             /\ s = "bump" => op[c] = "increment"
             /\ s = "load" => op[c] = "run"
             /\ s \in {"exists", "write"} => IsUpdate(c)

\* So does a next command, when it belongs to the call.
LEMMA GotoStages ==
    ASSUME Shapes, Stages, NEW c \in Calls, NEW s \in Stations, Goto(c, s),
           at[c] \notin {"idle", "over"}, s # "idle", Own(c, s),
           UNCHANGED <<op, tok>>
    PROVE  Stages'
BY DEF Shapes, Goto, Stages, IsUpdate, Own

\* The parts of the type invariant that are about calls.
CallTypes == at \in [Calls -> Stations] /\ reply \in [Calls -> Answers \cup {"none"}]

\* A call's first command is its own.
LEMMA FirstOwn ==
    ASSUME TypeOK, Stages, NEW c \in Calls, at[c] = "wait"
    PROVE  FirstCommand(c) \in Stations /\ FirstCommand(c) # "idle" /\ Own(c, FirstCommand(c))
BY Words DEF TypeOK, Stages, FirstCommand, Own, IsUpdate

\* A call is only ever at a command of its own.
LEMMA AtOwn ==
    ASSUME Stages, NEW c \in Calls
    PROVE  Own(c, at[c])
BY DEF Stages, Own

\* Whatever happens, calls stay calls.
LEMMA CallTypesStep ==
    ASSUME TypeOK, Stages, [Next]_vars
    PROVE  CallTypes'
<1> USE ShapesHold, Words, ReplyTypes, GotoTypes DEF CallTypes
<1>1. ASSUME NEW c \in Calls, NEW o \in Ops, NEW t \in Tokens, Invoke(c, o, t)
      PROVE  CallTypes'
      BY <1>1 DEF Invoke, Shapes
<1>2. ASSUME NEW c \in Calls, Refuse(c)
      PROVE  CallTypes'
      BY <1>2 DEF Refuse
<1>3. ASSUME NEW c \in Calls, Acquire(c)
      PROVE  CallTypes'
      BY <1>3, FirstOwn DEF Acquire
<1>4. ASSUME NEW c \in Calls, OpenSet(c)
      PROVE  CallTypes'
      BY <1>4 DEF OpenSet
<1>5. ASSUME NEW c \in Calls, OpenReadBack(c)
      PROVE  CallTypes'
      BY <1>5 DEF OpenReadBack
<1>6. ASSUME NEW c \in Calls, CloseLook(c)
      PROVE  CallTypes'
      BY <1>6 DEF CloseLook
<1>7. ASSUME NEW c \in Calls, CloseSweep(c)
      PROVE  CallTypes'
      BY <1>7 DEF CloseSweep
<1>8. ASSUME NEW c \in Calls, CloseDrop(c)
      PROVE  CallTypes'
      BY <1>8 DEF CloseDrop
<1>9. ASSUME NEW c \in Calls, CloseForget(c)
      PROVE  CallTypes'
      BY <1>9 DEF CloseForget
<1>10. ASSUME NEW c \in Calls, IncrementBump(c)
      PROVE  CallTypes'
      BY <1>10 DEF IncrementBump
<1>11. ASSUME NEW c \in Calls, RunLoad(c)
      PROVE  CallTypes'
      BY <1>11 DEF RunLoad
<1>12. ASSUME NEW c \in Calls, UpdateExists(c)
      PROVE  CallTypes'
      BY <1>12 DEF UpdateExists
<1>13. ASSUME NEW c \in Calls, UpdateWrite(c)
      PROVE  CallTypes'
      BY <1>13 DEF UpdateWrite, Shapes
<1>14. ASSUME NEW c \in Calls, UpdateReply(c)
      PROVE  CallTypes'
      BY <1>14 DEF UpdateReply
<1>15. ASSUME NEW c \in Calls, Abort(c)
      PROVE  CallTypes'
      BY <1>15 DEF Abort
<1>16. CASE Crash
      BY <1>16 DEF Crash, Shapes
<1>17. ASSUME NEW t \in Tokens, Seed(t)
      PROVE  CallTypes'
      BY <1>17 DEF Seed, Shapes
<1>18. CASE UNCHANGED vars
      BY <1>18 DEF vars, Shapes
<1> QED BY <1>1, <1>2, <1>3, <1>4, <1>5, <1>6, <1>7, <1>8, <1>9,
           <1>10, <1>11, <1>12, <1>13, <1>14, <1>15, <1>16, <1>17, <1>18, StepCases

\* Each call sends its own commands.
LEMMA StagesStep ==
    ASSUME TypeOK, Stages, [Next]_vars
    PROVE  Stages'
<1> USE ShapesHold, Words, ReplyStages, GotoStages
<1>1. ASSUME NEW c \in Calls, NEW o \in Ops, NEW t \in Tokens, Invoke(c, o, t)
      PROVE  Stages'
      BY <1>1 DEF Invoke, Shapes, Stages, IsUpdate, Redis, Ghosts
<1>2. ASSUME NEW c \in Calls, Refuse(c)
      PROVE  Stages'
      BY <1>2 DEF Refuse
<1>3. ASSUME NEW c \in Calls, Acquire(c)
      PROVE  Stages'
      BY <1>3, FirstOwn DEF Acquire
<1>4. ASSUME NEW c \in Calls, OpenSet(c)
      PROVE  Stages'
      BY <1>4, AtOwn DEF OpenSet, Own
<1>5. ASSUME NEW c \in Calls, OpenReadBack(c)
      PROVE  Stages'
      BY <1>5 DEF OpenReadBack
<1>6. ASSUME NEW c \in Calls, CloseLook(c)
      PROVE  Stages'
      BY <1>6, AtOwn DEF CloseLook, Own
<1>7. ASSUME NEW c \in Calls, CloseSweep(c)
      PROVE  Stages'
      BY <1>7, AtOwn DEF CloseSweep, Own
<1>8. ASSUME NEW c \in Calls, CloseDrop(c)
      PROVE  Stages'
      BY <1>8, AtOwn DEF CloseDrop, Own
<1>9. ASSUME NEW c \in Calls, CloseForget(c)
      PROVE  Stages'
      BY <1>9 DEF CloseForget
<1>10. ASSUME NEW c \in Calls, IncrementBump(c)
      PROVE  Stages'
      BY <1>10 DEF IncrementBump
<1>11. ASSUME NEW c \in Calls, RunLoad(c)
      PROVE  Stages'
      BY <1>11 DEF RunLoad
<1>12. ASSUME NEW c \in Calls, UpdateExists(c)
      PROVE  Stages'
      BY <1>12, AtOwn DEF UpdateExists, Own
<1>13. ASSUME NEW c \in Calls, UpdateWrite(c)
      PROVE  Stages'
  <2>1. CASE UNCHANGED <<at, reply>>
        BY <1>13, <2>1 DEF UpdateWrite, Stages, IsUpdate
  <2>2. CASE Reply(c, "ok")
        BY <1>13, <2>2 DEF UpdateWrite
  <2> QED BY <1>13, <2>1, <2>2 DEF UpdateWrite
<1>14. ASSUME NEW c \in Calls, UpdateReply(c)
      PROVE  Stages'
      BY <1>14 DEF UpdateReply
<1>15. ASSUME NEW c \in Calls, Abort(c)
      PROVE  Stages'
      BY <1>15 DEF Abort, Active
<1>16. CASE Crash
      BY <1>16 DEF Crash, Shapes, Stages, IsUpdate, Active
<1>17. ASSUME NEW t \in Tokens, Seed(t)
      PROVE  Stages'
      BY <1>17 DEF Seed, Shapes, Stages, IsUpdate, Redis, Ghosts
<1>18. CASE UNCHANGED vars
      BY <1>18 DEF vars, Shapes, Stages, IsUpdate, Redis, Ghosts
<1> QED BY <1>1, <1>2, <1>3, <1>4, <1>5, <1>6, <1>7, <1>8, <1>9,
           <1>10, <1>11, <1>12, <1>13, <1>14, <1>15, <1>16, <1>17, <1>18, StepCases

-----------------------------------------------------------------------------
(* Who may change what.                                                    *)

\* Each variable of Redis and of the history has its few writers.
LEMMA Writers ==
    ASSUME [Next]_vars
    PROVE  /\ \/ UNCHANGED <<op, tok, stale>>
              \/ \E c \in Calls, o \in Ops, t \in Tokens : Invoke(c, o, t)
           /\ UNCHANGED created \/ \E c \in Calls : OpenSet(c)
           /\ UNCHANGED known \/ \E c \in Calls : OpenReadBack(c)
           /\ UNCHANGED closed \/ \E c \in Calls : CloseForget(c)
           /\ \/ UNCHANGED conf
              \/ \E c \in Calls : OpenSet(c) \/ CloseForget(c) \/ IncrementBump(c)
           /\ \/ UNCHANGED store
              \/ \E c \in Calls : CloseDrop(c) \/ UpdateWrite(c)
              \/ \E t \in Tokens : Seed(t)
           /\ raced \subseteq raced'
BY StepCases DEF Refuse, Acquire, OpenSet, OpenReadBack, CloseLook, CloseSweep,
   CloseDrop, CloseForget, IncrementBump, RunLoad, UpdateExists, UpdateWrite,
   UpdateReply, Abort, Crash, Seed, Invoke, vars, Redis, Ghosts

\* A call comes to a command from the one before.
Came(d) ==
    /\ at'[d] = "hset" => at[d] = "hset" \/ (at[d] = "wait" /\ op[d] = "open")
    /\ at'[d] = "wait" => at[d] = "wait"
                          \/ \E o \in Ops, t \in Tokens : Invoke(d, o, t)
    /\ at'[d] = "token" => at[d] = "token" \/ OpenSet(d)
    /\ at'[d] = "forget" => at[d] = "forget" \/ CloseDrop(d)
    /\ at'[d] = "write" => at[d] = "write"
                           \/ (at[d] = "exists" /\ StoreExists(tok[d]))
    /\ at'[d] = "over" /\ at[d] # "over" => at[d] # "idle"

\* An answer, and a next command that is none of those that matter, keep it.
LEMMA CameByReply ==
    ASSUME Shapes, NEW c \in Calls, NEW a \in Answers, Reply(c, a), at[c] # "idle"
    PROVE  \A d \in Calls : Came(d)
BY DEF Shapes, Reply, Came

\* A call that goes on to a command came from the one before it.
LEMMA CameByGoto ==
    ASSUME Shapes, NEW c \in Calls, NEW s \in Stations, Goto(c, s),
           s \notin {"wait", "over"},
           s = "hset" => at[c] = "wait" /\ op[c] = "open",
           s = "token" => OpenSet(c),
           s = "forget" => CloseDrop(c),
           s = "write" => at[c] = "exists" /\ StoreExists(tok[c])
    PROVE  \A d \in Calls : Came(d)
BY DEF Shapes, Goto, Came

\* So it is in every step.
LEMMA CameStep ==
    ASSUME TypeOK, Stages, [Next]_vars
    PROVE  \A d \in Calls : Came(d)
<1> USE ShapesHold, Words, CameByReply, CameByGoto
<1>1. ASSUME NEW c \in Calls, NEW o \in Ops, NEW t \in Tokens, Invoke(c, o, t)
      PROVE  \A d \in Calls : Came(d)
      BY <1>1 DEF Invoke, Shapes, Came
<1>2. ASSUME NEW c \in Calls, Refuse(c)
      PROVE  \A d \in Calls : Came(d)
      BY <1>2 DEF Refuse
<1>3. ASSUME NEW c \in Calls, Acquire(c)
      PROVE  \A d \in Calls : Came(d)
      BY <1>3, FirstOwn DEF Acquire, Own, FirstCommand, IsUpdate, Updates
<1>4. ASSUME NEW c \in Calls, OpenSet(c)
      PROVE  \A d \in Calls : Came(d)
      BY <1>4 DEF OpenSet
<1>5. ASSUME NEW c \in Calls, OpenReadBack(c)
      PROVE  \A d \in Calls : Came(d)
      BY <1>5 DEF OpenReadBack
<1>6. ASSUME NEW c \in Calls, CloseLook(c)
      PROVE  \A d \in Calls : Came(d)
      BY <1>6 DEF CloseLook
<1>7. ASSUME NEW c \in Calls, CloseSweep(c)
      PROVE  \A d \in Calls : Came(d)
      BY <1>7 DEF CloseSweep
<1>8. ASSUME NEW c \in Calls, CloseDrop(c)
      PROVE  \A d \in Calls : Came(d)
      BY <1>8 DEF CloseDrop
<1>9. ASSUME NEW c \in Calls, CloseForget(c)
      PROVE  \A d \in Calls : Came(d)
      BY <1>9 DEF CloseForget
<1>10. ASSUME NEW c \in Calls, IncrementBump(c)
      PROVE  \A d \in Calls : Came(d)
      BY <1>10 DEF IncrementBump
<1>11. ASSUME NEW c \in Calls, RunLoad(c)
      PROVE  \A d \in Calls : Came(d)
      BY <1>11 DEF RunLoad
<1>12. ASSUME NEW c \in Calls, UpdateExists(c)
      PROVE  \A d \in Calls : Came(d)
      BY <1>12 DEF UpdateExists
<1>13. ASSUME NEW c \in Calls, UpdateWrite(c)
      PROVE  \A d \in Calls : Came(d)
  <2>1. CASE UNCHANGED <<at, reply>>
        BY <1>13, <2>1 DEF UpdateWrite, Came
  <2>2. CASE Reply(c, "ok")
        BY <1>13, <2>2 DEF UpdateWrite
  <2> QED BY <1>13, <2>1, <2>2 DEF UpdateWrite
<1>14. ASSUME NEW c \in Calls, UpdateReply(c)
      PROVE  \A d \in Calls : Came(d)
      BY <1>14 DEF UpdateReply
<1>15. ASSUME NEW c \in Calls, Abort(c)
      PROVE  \A d \in Calls : Came(d)
      BY <1>15 DEF Abort, Active
<1>16. CASE Crash
      BY <1>16 DEF Crash, Shapes, Came, Active
<1>17. ASSUME NEW t \in Tokens, Seed(t)
      PROVE  \A d \in Calls : Came(d)
      BY <1>17 DEF Seed, Shapes, Came
<1>18. CASE UNCHANGED vars
      BY <1>18 DEF vars, Shapes, Came
<1> QED BY <1>1, <1>2, <1>3, <1>4, <1>5, <1>6, <1>7, <1>8, <1>9,
           <1>10, <1>11, <1>12, <1>13, <1>14, <1>15, <1>16, <1>17, <1>18, StepCases

-----------------------------------------------------------------------------
(* The parts of the invariant.                                             *)

\* A session is opened by one call, and the others that name it come later.
LEMMA OpenedStep ==
    ASSUME TypeOK, Stages, OpenedOnce, [Next]_vars
    PROVE  OpenedOnce'
<1> USE ShapesHold, Words
<1>1. \A d \in Calls : Came(d)
      BY CameStep
<1>2. created \subseteq created'
      BY Writers DEF OpenSet
<1>3. CASE UNCHANGED <<op, tok, stale>>
  <2>1. \A c, d \in Calls :
            op'[c] = "open" /\ op'[d] = "open" /\ tok'[c] = tok'[d] => c = d
        BY <1>3 DEF OpenedOnce
  <2>2. ASSUME NEW c \in Calls, OpenSet(c)
        PROVE  OpenedOnce'
    <3>1. /\ op[c] = "open" /\ created' = created \cup {tok[c]}
          /\ at'[c] = "token"
          BY <2>2 DEF OpenSet, Stages, Goto, Shapes
    <3>2. UNCHANGED <<known, closed>>
          BY <2>2 DEF OpenSet
    <3>3. \A d \in Calls : at'[d] = "hset" \/ (at'[d] = "wait" /\ op'[d] = "open")
              => tok'[d] \notin created'
      <4>1. SUFFICES ASSUME NEW d \in Calls, at[d] \in {"hset", "wait"}, op[d] = "open",
                            d # c
                     PROVE  tok[d] \notin created'
            BY <2>2, <1>3, <3>1 DEF OpenSet, Goto, Shapes, Stages
      <4>2. tok[d] \notin created
            BY <4>1 DEF OpenedOnce
      <4>3. tok[d] # tok[c]
            BY <4>1, <3>1 DEF OpenedOnce
      <4> QED BY <4>2, <4>3, <3>1
    <3>4. \A d \in Calls : at'[d] = "token" => tok'[d] \in created'
          BY ZenonT(30), <2>2, <1>3, <3>1 DEF OpenedOnce, OpenSet, Goto, Shapes
    <3>5. \A d \in Calls : op'[d] \notin {"none", "open"} => tok'[d] \in created'
          BY <1>3, <3>1 DEF OpenedOnce
    <3>6. \A t \in created' : \E d \in Calls : op'[d] = "open" /\ tok'[d] = t
          BY <1>3, <3>1 DEF OpenedOnce
    <3>7. \A d \in stale' : tok'[d] \in closed' /\ op'[d] \notin {"none", "open"}
          BY <1>3, <3>2 DEF OpenedOnce
    <3>8. closed' \subseteq created' /\ known' \subseteq created'
          BY <3>1, <3>2 DEF OpenedOnce
    <3> QED BY <2>1, <3>3, <3>4, <3>5, <3>6, <3>7, <3>8 DEF OpenedOnce
  <2>3. CASE UNCHANGED created
    <3>1. \A d \in Calls : at'[d] = "hset" \/ (at'[d] = "wait" /\ op'[d] = "open")
              => tok'[d] \notin created'
      <4>1. ASSUME NEW d \in Calls, at'[d] = "wait", op'[d] = "open"
            PROVE  tok'[d] \notin created'
            BY <1>1, <1>3, <2>3, <4>1 DEF OpenedOnce, Came, Invoke, Stages, Shapes
      <4>2. ASSUME NEW d \in Calls, at'[d] = "hset"
            PROVE  tok'[d] \notin created'
            BY <1>1, <1>3, <2>3, <4>2 DEF OpenedOnce, Came
      <4> QED BY <4>1, <4>2
    <3>2. \A d \in Calls : at'[d] = "token" => tok'[d] \in created'
      <4>1. ASSUME NEW d \in Calls, at'[d] = "token"
            PROVE  tok'[d] \in created'
        <5>1. at[d] = "token" \/ OpenSet(d)
              BY <1>1, <4>1 DEF Came
        <5>2. OpenSet(d) => tok[d] \in created'
              BY DEF OpenSet
        <5> QED BY <5>1, <5>2, <1>3, <2>3 DEF OpenedOnce
      <4> QED BY <4>1
    <3>3. \A d \in Calls : op'[d] \notin {"none", "open"} => tok'[d] \in created'
          BY <1>3, <2>3 DEF OpenedOnce
    <3>4. \A t \in created' : \E d \in Calls : op'[d] = "open" /\ tok'[d] = t
          BY <1>3, <2>3 DEF OpenedOnce
    <3>5. known' \subseteq created'
          BY ZenonT(30), Writers, <2>3 DEF OpenedOnce, OpenReadBack
    <3>6. closed' \subseteq created' /\ closed \subseteq closed'
      <4>1. ASSUME NEW c \in Calls, CloseForget(c)
            PROVE  closed' \subseteq closed \cup {tok[c]} /\ tok[c] \in created
                   /\ closed \subseteq closed'
            BY <4>1 DEF CloseForget, Stages, OpenedOnce
      <4> QED BY <4>1, Writers, <2>3 DEF OpenedOnce
    <3>7. \A d \in stale' : tok'[d] \in closed' /\ op'[d] \notin {"none", "open"}
          BY <1>3, <3>6 DEF OpenedOnce
    <3> QED BY <2>1, <3>1, <3>2, <3>3, <3>4, <3>5, <3>6, <3>7 DEF OpenedOnce
  <2> QED BY <2>2, <2>3, Writers
<1>4. ASSUME NEW c \in Calls, NEW o \in Ops, NEW u \in Tokens, Invoke(c, o, u)
      PROVE  OpenedOnce'
  <2>1. /\ op' = [op EXCEPT ![c] = o] /\ tok' = [tok EXCEPT ![c] = u]
        /\ at' = [at EXCEPT ![c] = "wait"] /\ op[c] = "none" /\ at[c] = "idle"
        /\ UNCHANGED <<created, known, closed>>
        BY <1>4 DEF Invoke, Stages
  <2>2. stale' = IF u \in closed THEN stale \cup {c} ELSE stale
        BY <1>4 DEF Invoke
  <2>3. o = "open" => \A d \in Calls : op[d] = "open" => tok[d] # u
        BY <1>4 DEF Invoke
  <2>4. o # "open" => u \in created
        BY <1>4 DEF Invoke, OpenedOnce
  <2>5. o = "open" => u \notin created
        BY <2>3 DEF OpenedOnce
  <2>6. \A d, e \in Calls :
            op'[d] = "open" /\ op'[e] = "open" /\ tok'[d] = tok'[e] => d = e
    <3>1. SUFFICES ASSUME NEW d \in Calls, NEW e \in Calls, op'[d] = "open",
                          op'[e] = "open", tok'[d] = tok'[e], d # e
                   PROVE  FALSE
          OBVIOUS
    <3>2. CASE d = c
          BY <2>1, <2>3, <3>1, <3>2 DEF Shapes
    <3>3. CASE e = c
          BY <2>1, <2>3, <3>1, <3>3 DEF Shapes
    <3>4. CASE d # c /\ e # c
      <4>1. op[d] = "open" /\ op[e] = "open" /\ tok[d] = tok[e]
            BY <2>1, <3>1, <3>4 DEF Shapes
      <4> QED BY <3>1, <4>1 DEF OpenedOnce
    <3> QED BY <3>2, <3>3, <3>4
  <2>7. \A d \in Calls : at'[d] = "hset" \/ (at'[d] = "wait" /\ op'[d] = "open")
              => tok'[d] \notin created'
    <3>1. \A d \in Calls : d # c => at'[d] = at[d] /\ op'[d] = op[d] /\ tok'[d] = tok[d]
          BY <2>1 DEF Shapes
    <3>2. at'[c] = "wait" /\ op'[c] = o /\ tok'[c] = u /\ created' = created
          BY <2>1 DEF Shapes
    <3> QED BY <3>1, <3>2, <2>5 DEF OpenedOnce
  <2>8. \A d \in Calls : at'[d] = "token" => tok'[d] \in created'
    <3>1. \A d \in Calls : d # c => at'[d] = at[d] /\ tok'[d] = tok[d]
          BY <2>1 DEF Shapes
    <3>2. at'[c] = "wait" /\ created' = created
          BY <2>1 DEF Shapes
    <3> QED BY <3>1, <3>2 DEF OpenedOnce
  <2>9. \A d \in Calls : op'[d] \notin {"none", "open"} => tok'[d] \in created'
    <3>1. \A d \in Calls : d # c => op'[d] = op[d] /\ tok'[d] = tok[d]
          BY <2>1 DEF Shapes
    <3>2. op'[c] = o /\ tok'[c] = u /\ created' = created
          BY <2>1 DEF Shapes
    <3> QED BY <3>1, <3>2, <2>4 DEF OpenedOnce
  <2>10. \A t \in created' : \E d \in Calls : op'[d] = "open" /\ tok'[d] = t
        BY <2>1 DEF OpenedOnce, Shapes
  <2>11. ASSUME NEW d \in stale'
         PROVE  tok'[d] \in closed' /\ op'[d] \notin {"none", "open"}
    <3>1. stale \subseteq Calls
          BY DEF TypeOK
    <3>2. c \notin stale
          BY <2>1 DEF OpenedOnce
    <3>3. CASE d = c
      <4>1. u \in closed
            BY <2>2, <2>11, <3>2, <3>3
      <4>2. o # "open"
            BY <2>5, <4>1 DEF OpenedOnce
      <4> QED BY <2>1, <3>3, <4>1, <4>2 DEF Shapes
    <3>4. CASE d # c
          BY <2>1, <2>2, <3>1, <3>4 DEF Shapes, OpenedOnce
    <3> QED BY <3>3, <3>4
  <2>12. closed' \subseteq created' /\ known' \subseteq created'
        BY <2>1 DEF OpenedOnce
  <2> QED BY <2>6, <2>7, <2>8, <2>9, <2>10, <2>11, <2>12 DEF OpenedOnce
<1> QED BY <1>3, <1>4, Writers

\* What is opened once is open only until it is closed.
LEMMA HashStep ==
    ASSUME TypeOK, Stages, OpenedOnce, HashOfOpen, [Next]_vars
    PROVE  HashOfOpen'
<1> USE ShapesHold
<1>1. created \subseteq created'
      BY Writers DEF OpenSet
<1>2. ASSUME NEW c \in Calls, OpenSet(c)
      PROVE  HashOfOpen'
      BY <1>2 DEF OpenSet, HashOfOpen, OpenedOnce, Shapes
<1>3. ASSUME NEW c \in Calls, CloseForget(c)
      PROVE  HashOfOpen'
  <2>1. conf' = [conf EXCEPT ![tok[c]] = "none"] /\ closed' \subseteq closed \cup {tok[c]}
        BY <1>3 DEF CloseForget
  <2> QED BY <1>1, <2>1 DEF HashOfOpen, Shapes
<1>4. ASSUME NEW c \in Calls, IncrementBump(c)
      PROVE  HashOfOpen'
  <2>1. \A t \in Tokens : conf'[t] = "full" => conf[t] = "full"
        BY <1>4 DEF IncrementBump, Shapes
  <2>2. UNCHANGED closed
        BY <1>4 DEF IncrementBump, Ghosts
  <2> QED BY <1>1, <2>1, <2>2 DEF HashOfOpen
<1>5. CASE UNCHANGED <<conf, closed>>
      BY <1>1, <1>5 DEF HashOfOpen
<1> QED BY <1>2, <1>3, <1>4, <1>5, Writers

\* What has been dropped stays dropped, and a session is not dropped by
\* anything but its CloseSession.
LEMMA DroppedStep ==
    ASSUME TypeOK, Stages, OpenedOnce, HashOfOpen, [Next]_vars, NEW t \in Tokens,
           Dropped(t)'
    PROVE  Dropped(t) \/ \E c \in Calls : CloseDrop(c) /\ tok[c] = t
<1> USE ShapesHold
<1>1. CASE \E c \in Calls : at'[c] = "forget" /\ tok'[c] = t
  <2>1. PICK c \in Calls : at'[c] = "forget" /\ tok'[c] = t
        BY <1>1
  <2>2. at[c] = "forget" \/ CloseDrop(c)
        BY <2>1, CameStep DEF Came
  <2>3. tok'[c] = tok[c]
        BY <2>1, <2>2, Writers DEF Invoke, CloseDrop, Shapes
  <2> QED BY <2>1, <2>2, <2>3 DEF Dropped
<1>2. CASE t \in created' /\ conf'[t] # "full"
  <2>1. ASSUME NEW c \in Calls, OpenSet(c)
        PROVE  Dropped(t)
        BY <1>2, <2>1 DEF OpenSet, Dropped, Shapes
  <2>2. CASE UNCHANGED created /\ ~ \E c \in Calls : OpenSet(c)
    <3>1. ASSUME NEW c \in Calls, CloseForget(c)
          PROVE  Dropped(t)
          BY <1>2, <2>2, <3>1 DEF CloseForget, Dropped, Shapes
    <3>2. ASSUME NEW c \in Calls, IncrementBump(c)
          PROVE  Dropped(t)
          BY <1>2, <2>2, <3>2 DEF IncrementBump, Dropped, Shapes
    <3> QED BY <1>2, <2>2, <3>1, <3>2, Writers DEF Dropped
  <2> QED BY <2>1, <2>2, Writers
<1> QED BY <1>1, <1>2 DEF Dropped

\* After the drop there is no store and nobody to make one, race apart.
LEMMA StoresStep ==
    ASSUME TypeOK, Stages, OpenedOnce, HashOfOpen, StoresGoFirst, [Next]_vars
    PROVE  StoresGoFirst'
<1> USE ShapesHold
<1>1. created \subseteq created' /\ raced \subseteq raced'
      BY Writers DEF OpenSet
<1>2. ASSUME NEW t \in Tokens, StoreExists(t)'
      PROVE  t \in created'
  <2>1. ASSUME NEW c \in Calls, CloseDrop(c)
        PROVE  StoreExists(t)
        BY <1>2, <2>1 DEF CloseDrop, StoreExists, Shapes
  <2>2. ASSUME NEW c \in Calls, UpdateWrite(c)
        PROVE  StoreExists(t) \/ t \in created
    <3>1. tok[c] \in created
          BY <2>2, Words DEF UpdateWrite, Stages, OpenedOnce, IsUpdate
    <3>2. t # tok[c] => store'[t] = store[t]
          BY <2>2 DEF UpdateWrite, Shapes
    <3> QED BY <1>2, <3>1, <3>2 DEF StoreExists
  <2>3. ASSUME NEW u \in Tokens, Seed(u)
        PROVE  StoreExists(t) \/ t \in created
    <3>1. u \in created
          BY <2>3 DEF Seed, OpenedOnce
    <3>2. t # u => store'[t] = store[t]
          BY <2>3 DEF Seed, Shapes
    <3> QED BY <1>2, <3>1, <3>2 DEF StoreExists
  <2> QED BY <1>1, <1>2, <2>1, <2>2, <2>3, Writers DEF StoresGoFirst, StoreExists
<1>3. ASSUME NEW t \in Tokens, Dropped(t)', StoreExists(t)'
      PROVE  t \in raced'
  <2>1. ASSUME NEW c \in Calls, CloseDrop(c), tok[c] = t
        PROVE  FALSE
        BY <1>3, <2>1 DEF CloseDrop, StoreExists, Shapes
  <2>2. CASE Dropped(t)
    <3>1. ASSUME NEW c \in Calls, CloseDrop(c)
          PROVE  StoreExists(t)
          BY <1>3, <3>1 DEF CloseDrop, StoreExists, Shapes
    <3>2. ASSUME NEW c \in Calls, UpdateWrite(c)
          PROVE  StoreExists(t) \/ t \in raced
      <4>1. tok[c] = t => t \in raced
            BY <2>2, <3>2 DEF UpdateWrite, StoresGoFirst
      <4>2. t # tok[c] => store'[t] = store[t]
            BY <3>2 DEF UpdateWrite, Shapes
      <4> QED BY <1>3, <4>1, <4>2 DEF StoreExists
    <3>3. ASSUME NEW u \in Tokens, Seed(u)
          PROVE  StoreExists(t)
      <4>1. u # t
        <5>1. conf[u] = "full" /\ ~ \E c \in Calls : at[c] = "forget" /\ tok[c] = u
              BY <3>3 DEF Seed, Active, Stages
        <5> QED BY <5>1, <2>2 DEF Dropped
      <4>2. store'[t] = store[t]
            BY <3>3, <4>1 DEF Seed, Shapes
      <4> QED BY <1>3, <4>2 DEF StoreExists
    <3> QED BY <1>1, <1>3, <2>2, <3>1, <3>2, <3>3, Writers DEF StoresGoFirst, StoreExists
  <2> QED BY <1>3, <2>1, <2>2, DroppedStep
<1>4. ASSUME NEW t \in Tokens, NEW d \in Calls, Dropped(t)', at'[d] = "write",
             tok'[d] = t
      PROVE  t \in raced'
  <2>1. at[d] = "write" \/ (at[d] = "exists" /\ StoreExists(tok[d]))
        BY <1>4, CameStep DEF Came
  <2>2. tok[d] = t
        BY <1>4, <2>1, Writers DEF Invoke, Shapes
  <2>3. ASSUME NEW c \in Calls, CloseDrop(c), tok[c] = t
        PROVE  t \in raced'
    <3>1. at[d] = "write"
          BY <1>4, <2>1, <2>3 DEF CloseDrop, Goto, Shapes
    <3> QED BY <2>2, <2>3, <3>1 DEF CloseDrop
  <2>4. CASE Dropped(t)
        BY <1>1, <2>1, <2>2, <2>4 DEF StoresGoFirst
  <2> QED BY <1>4, <2>3, <2>4, DroppedStep
<1> QED BY <1>2, <1>3, <1>4 DEF StoresGoFirst

\* So no store outlives its session.
LEMMA OrphansFollow ==
    ASSUME StoresGoFirst
    PROVE  NoOrphanStore
BY DEF StoresGoFirst, NoOrphanStore, Dropped

\* A call is answered once, and "ok" where its commands allow it.
Answered(d) ==
    /\ reply[d] # "none" => reply'[d] = reply[d]
    /\ reply'[d] = "ok" =>
          \/ reply[d] = "ok"
          \/ op[d] \in {"open", "close", "increment"}
          \/ RunLoad(d) /\ op[d] = "run" /\ conf[tok[d]] = "full"
          \/ at[d] = "exists" /\ StoreExists(tok[d]) /\ IsUpdate(d)
          \/ at[d] = "write" /\ IsUpdate(d)

\* An answer is given where the code gives it.
LEMMA AnsweredByReply ==
    ASSUME Shapes, Stages, NEW c \in Calls, NEW a \in Answers, Reply(c, a),
           at[c] # "over",
           a = "ok" => \/ op[c] \in {"open", "close", "increment"}
                       \/ RunLoad(c) /\ op[c] = "run" /\ conf[tok[c]] = "full"
                       \/ at[c] = "exists" /\ StoreExists(tok[c]) /\ IsUpdate(c)
                       \/ at[c] = "write" /\ IsUpdate(c)
    PROVE  \A d \in Calls : Answered(d)
BY DEF Shapes, Reply, Answered, Stages

\* A step that answers nobody answers nobody wrongly.
LEMMA AnsweredByNobody ==
    ASSUME UNCHANGED reply
    PROVE  \A d \in Calls : Answered(d)
BY DEF Answered

\* So it is in every step.
LEMMA AnsweredStep ==
    ASSUME TypeOK, Stages, [Next]_vars
    PROVE  \A d \in Calls : Answered(d)
<1> USE ShapesHold, Words, AnsweredByReply, AnsweredByNobody
<1>1. ASSUME NEW c \in Calls, NEW o \in Ops, NEW t \in Tokens, Invoke(c, o, t)
      PROVE  \A d \in Calls : Answered(d)
      BY <1>1 DEF Invoke
<1>2. ASSUME NEW c \in Calls, Refuse(c)
      PROVE  \A d \in Calls : Answered(d)
      BY <1>2 DEF Refuse
<1>3. ASSUME NEW c \in Calls, Acquire(c)
      PROVE  \A d \in Calls : Answered(d)
      BY <1>3 DEF Acquire, Goto
<1>4. ASSUME NEW c \in Calls, OpenSet(c)
      PROVE  \A d \in Calls : Answered(d)
      BY <1>4 DEF OpenSet, Goto
<1>5. ASSUME NEW c \in Calls, OpenReadBack(c)
      PROVE  \A d \in Calls : Answered(d)
      BY <1>5, AtOwn DEF OpenReadBack, Own
<1>6. ASSUME NEW c \in Calls, CloseLook(c)
      PROVE  \A d \in Calls : Answered(d)
      BY <1>6 DEF CloseLook, Goto
<1>7. ASSUME NEW c \in Calls, CloseSweep(c)
      PROVE  \A d \in Calls : Answered(d)
      BY <1>7 DEF CloseSweep, Goto
<1>8. ASSUME NEW c \in Calls, CloseDrop(c)
      PROVE  \A d \in Calls : Answered(d)
      BY <1>8 DEF CloseDrop, Goto
<1>9. ASSUME NEW c \in Calls, CloseForget(c)
      PROVE  \A d \in Calls : Answered(d)
      BY <1>9, AtOwn DEF CloseForget, Own
<1>10. ASSUME NEW c \in Calls, IncrementBump(c)
      PROVE  \A d \in Calls : Answered(d)
      BY <1>10, AtOwn DEF IncrementBump, Own
<1>11. ASSUME NEW c \in Calls, RunLoad(c)
      PROVE  \A d \in Calls : Answered(d)
      BY <1>11, AtOwn DEF RunLoad, Own
<1>12. ASSUME NEW c \in Calls, UpdateExists(c)
      PROVE  \A d \in Calls : Answered(d)
      BY <1>12, AtOwn DEF UpdateExists, Goto, Own
<1>13. ASSUME NEW c \in Calls, UpdateWrite(c)
      PROVE  \A d \in Calls : Answered(d)
  <2>1. CASE UNCHANGED <<at, reply>>
        BY <2>1
  <2>2. CASE Reply(c, "ok")
        BY <1>13, <2>2, AtOwn DEF UpdateWrite, Own
  <2> QED BY <1>13, <2>1, <2>2 DEF UpdateWrite
<1>14. ASSUME NEW c \in Calls, UpdateReply(c)
      PROVE  \A d \in Calls : Answered(d)
      BY <1>14, AtOwn DEF UpdateReply, Own
<1>15. ASSUME NEW c \in Calls, Abort(c)
      PROVE  \A d \in Calls : Answered(d)
      BY <1>15 DEF Abort, Active
<1>16. CASE Crash
      BY <1>16 DEF Crash, Shapes, Answered, Active, Stages
<1>17. ASSUME NEW t \in Tokens, Seed(t)
      PROVE  \A d \in Calls : Answered(d)
      BY <1>17 DEF Seed
<1>18. CASE UNCHANGED vars
      BY <1>18 DEF vars
<1> QED BY <1>1, <1>2, <1>3, <1>4, <1>5, <1>6, <1>7, <1>8, <1>9,
           <1>10, <1>11, <1>12, <1>13, <1>14, <1>15, <1>16, <1>17, <1>18, StepCases

\* Of the calls with a token that was closed, those that can be answered "ok".
LEMMA ClosedStep ==
    ASSUME TypeOK, Stages, OpenedOnce, HashOfOpen, StoresGoFirst, ClosedIsClosed,
           [Next]_vars, TypeOK', OpenedOnce', HashOfOpen', StoresGoFirst'
    PROVE  ClosedIsClosed'
<1> USE ShapesHold
<1>0. ASSUME NEW c \in stale', at'[c] = "write"
      PROVE  tok'[c] \in raced'
  <2>1. c \in Calls /\ tok'[c] \in closed' /\ tok'[c] \in Tokens
        BY <1>0 DEF OpenedOnce, TypeOK
  <2>2. Dropped(tok[c])'
        BY <2>1 DEF HashOfOpen, OpenedOnce, Dropped
  <2> QED BY <1>0, <2>1, <2>2 DEF StoresGoFirst
<1>1. SUFFICES ASSUME NEW c \in stale', reply'[c] = "ok"
               PROVE  \/ op'[c] \in {"increment", "close"}
                      \/ op'[c] \in Updates /\ tok'[c] \in raced'
      BY <1>0 DEF ClosedIsClosed, IsUpdate
<1>2. raced \subseteq raced' /\ stale \subseteq Calls
      BY Writers DEF TypeOK
<1>3. ASSUME NEW d \in Calls, NEW o \in Ops, NEW t \in Tokens, Invoke(d, o, t)
      PROVE  c \in stale /\ UNCHANGED <<op[c], tok[c], reply[c]>>
  <2>1. c # d
        BY <1>1, <1>3 DEF Invoke, Stages
  <2>2. c \in stale
        BY <1>1, <1>3, <2>1 DEF Invoke
  <2>3. c \in Calls
        BY <2>2, <1>2
  <2> QED BY <1>3, <2>1, <2>2, <2>3 DEF Invoke, Shapes
<1>4. c \in stale /\ c \in Calls /\ UNCHANGED <<op[c], tok[c]>>
      BY <1>1, <1>2, <1>3, Writers
<1>5. tok[c] \in closed /\ op[c] \notin {"none", "open"} /\ tok[c] \in Tokens
      BY <1>4 DEF OpenedOnce, TypeOK
<1>6. conf[tok[c]] # "full" /\ Dropped(tok[c])
      BY <1>5 DEF HashOfOpen, OpenedOnce, Dropped
<1>7. Answered(c)
      BY <1>4, AnsweredStep
<1>8. CASE reply[c] = "ok"
      BY <1>2, <1>4, <1>8 DEF ClosedIsClosed, IsUpdate
<1>9. CASE at[c] \in {"exists", "write"} /\ (at[c] = "exists" => StoreExists(tok[c]))
      BY <1>2, <1>4, <1>5, <1>6, <1>9 DEF StoresGoFirst, Stages, IsUpdate
<1> QED BY <1>1, <1>4, <1>5, <1>6, <1>7, <1>8, <1>9 DEF Answered

-----------------------------------------------------------------------------
(* The theorems.                                                           *)

\* The variables keep their types.
LEMMA TypeStep ==
    ASSUME TypeOK, Stages, [Next]_vars
    PROVE  TypeOK'
<1>1. CallTypes'
      BY CallTypesStep
<1>2. op' \in [Calls -> Ops \cup {"none"}] /\ tok' \in [Calls -> Tokens \cup {"none"}]
  <2>1. ASSUME NEW c \in Calls, NEW o \in Ops, NEW t \in Tokens, Invoke(c, o, t)
        PROVE  op' \in [Calls -> Ops \cup {"none"}]
               /\ tok' \in [Calls -> Tokens \cup {"none"}]
        BY <2>1, ShapesHold DEF Shapes, Invoke
  <2>2. CASE UNCHANGED <<op, tok, stale>>
        BY <2>2, ShapesHold DEF Shapes
  <2> QED BY <2>1, <2>2, Writers
<1>3. conf' \in [Tokens -> {"none", "bare", "full"}]
  <2>1. ASSUME NEW c \in Calls, OpenSet(c)
        PROVE  conf' \in [Tokens -> {"none", "bare", "full"}]
        BY <2>1, ShapesHold DEF Shapes, OpenSet
  <2>2. ASSUME NEW c \in Calls, CloseForget(c)
        PROVE  conf' \in [Tokens -> {"none", "bare", "full"}]
        BY <2>2, ShapesHold DEF Shapes, CloseForget
  <2>3. ASSUME NEW c \in Calls, IncrementBump(c)
        PROVE  conf' \in [Tokens -> {"none", "bare", "full"}]
        BY <2>3, ShapesHold DEF Shapes, IncrementBump
  <2>4. CASE UNCHANGED conf
        BY <2>4, ShapesHold DEF Shapes
  <2> QED BY <2>1, <2>2, <2>3, <2>4, Writers
<1>4. epoch' \in [Tokens -> Nat]
  <2>1. ASSUME NEW c \in Calls, OpenSet(c)
        PROVE  epoch' \in [Tokens -> Nat]
        BY <2>1 DEF OpenSet, TypeOK
  <2>2. ASSUME NEW c \in Calls, IncrementBump(c)
        PROVE  epoch' \in [Tokens -> Nat]
    <3>1. epoch \in [Tokens -> Nat]
          BY DEF TypeOK
    <3>2. \/ epoch' = [epoch EXCEPT ![tok[c]] = 1]
          \/ epoch' = [epoch EXCEPT ![tok[c]] = @ + 1]
          BY <2>2 DEF IncrementBump
    <3> QED BY <3>1, <3>2
  <2>3. CASE UNCHANGED epoch
        BY <2>3 DEF TypeOK
  <2> QED BY <2>1, <2>2, <2>3, StepCases DEF Refuse, Acquire, OpenReadBack,
             CloseLook, CloseSweep, CloseDrop, CloseForget, RunLoad, UpdateExists,
             UpdateWrite, UpdateReply, Abort, Crash, Seed, Invoke, vars, Redis
<1>5. done' \in [Calls -> 0 .. Len(Keys)]
  <2>1. ASSUME NEW c \in Calls, UpdateWrite(c)
        PROVE  done' \in [Calls -> 0 .. Len(Keys)]
    <3>1. done \in [Calls -> 0 .. Len(Keys)] /\ done[c] < Len(Keys) /\ Len(Keys) \in Nat
          BY <2>1, ConstantsAssumption DEF ConstantsAssumption, UpdateWrite, TypeOK
    <3>2. done' = [done EXCEPT ![c] = @ + 1] \/ UNCHANGED done
          BY <2>1 DEF UpdateWrite
    <3> QED BY <3>1, <3>2
  <2>2. CASE UNCHANGED done
        BY <2>2 DEF TypeOK
  <2> QED BY <2>1, <2>2, StepCases DEF Refuse, Acquire, OpenSet, OpenReadBack,
             CloseLook, CloseSweep, CloseDrop, CloseForget, IncrementBump, RunLoad,
             UpdateExists, UpdateReply, Abort, Crash, Seed, Invoke, vars
<1>6. store' \in [Tokens -> [Fields -> Contents]]
  <2>1. ASSUME NEW c \in Calls, CloseDrop(c)
        PROVE  store' \in [Tokens -> [Fields -> Contents]]
        BY <2>1, ShapesHold, Words DEF CloseDrop, Shapes, Empty
  <2>2. ASSUME NEW c \in Calls, UpdateWrite(c)
        PROVE  store' \in [Tokens -> [Fields -> Contents]]
    <3>1. Written(c) \in Contents
          BY Words DEF Written
    <3>2. store' = [store EXCEPT ![tok[c]][Keys[done[c] + 1]] = Written(c)]
          BY <2>2 DEF UpdateWrite
    <3> QED BY <3>1, <3>2, ShapesHold DEF Shapes
  <2>3. ASSUME NEW t \in Tokens, Seed(t)
        PROVE  store' \in [Tokens -> [Fields -> Contents]]
    <3>1. PICK f \in Fields, v \in {"number", "text"} : store' = [store EXCEPT ![t][f] = v]
          BY <2>3 DEF Seed
    <3>2. v \in Contents
          BY Words
    <3> QED BY <3>1, <3>2, ShapesHold DEF Shapes
  <2>4. CASE UNCHANGED store
        BY <2>4, ShapesHold DEF Shapes
  <2> QED BY <2>1, <2>2, <2>3, <2>4, Writers
<1>7. created' \subseteq Tokens
  <2>1. ASSUME NEW c \in Calls, OpenSet(c)
        PROVE  created' \subseteq Tokens
        BY <2>1 DEF TypeOK, OpenSet, Stages
  <2> QED BY <2>1, Writers DEF TypeOK
<1>8. known' \subseteq Tokens
  <2>1. ASSUME NEW c \in Calls, OpenReadBack(c)
        PROVE  known' \subseteq Tokens
        BY <2>1 DEF TypeOK, OpenReadBack, Stages
  <2> QED BY <2>1, Writers DEF TypeOK
<1>9. closed' \subseteq Tokens
  <2>1. ASSUME NEW c \in Calls, CloseForget(c)
        PROVE  closed' \subseteq Tokens
        BY <2>1 DEF TypeOK, CloseForget, Stages
  <2> QED BY <2>1, Writers DEF TypeOK
<1>10. stale' \subseteq Calls
      BY Writers DEF TypeOK, Invoke
<1>11. raced' \subseteq Tokens
  <2>1. ASSUME NEW c \in Calls, CloseDrop(c)
        PROVE  raced' \subseteq Tokens
        BY <2>1 DEF CloseDrop, Stages, TypeOK
  <2>2. CASE UNCHANGED raced
        BY <2>2 DEF TypeOK
  <2> QED BY <2>1, <2>2, StepCases DEF Refuse, Acquire, OpenSet, OpenReadBack,
             CloseLook, CloseSweep, CloseForget, IncrementBump, RunLoad,
             UpdateExists, UpdateWrite, UpdateReply, Abort, Crash, Seed, Invoke,
             vars, Ghosts
<1> QED BY <1>1, <1>2, <1>3, <1>4, <1>5, <1>6, <1>7, <1>8, <1>9, <1>10, <1>11
        DEF TypeOK, CallTypes

\* Every call has written none of its fields at first.
LEMMA KeysLength == [c \in Calls |-> 0] \in [Calls -> 0 .. Len(Keys)]
<1>1. Len(Keys) \in Nat
      BY ConstantsAssumption DEF ConstantsAssumption
<1> QED BY <1>1

\* The initial states satisfy the invariant.
LEMMA InitHolds ==
    ASSUME Init
    PROVE  TypeOK /\ SessionInvariant
<1> USE Words DEF Init
<1>1. TypeOK
  <2>1. done \in [Calls -> 0 .. Len(Keys)]
        BY KeysLength
  <2>2. store \in [Tokens -> [Fields -> Contents]]
        BY DEF Empty
  <2> QED BY <2>1, <2>2 DEF TypeOK
<1>2. Stages /\ OpenedOnce /\ HashOfOpen
      BY DEF Stages, OpenedOnce, HashOfOpen
<1>3. StoresGoFirst
      BY DEF StoresGoFirst, Dropped, StoreExists
<1>4. ClosedIsClosed
      BY DEF ClosedIsClosed
<1> QED BY <1>1, <1>2, <1>3, <1>4, OrphansFollow DEF SessionInvariant

\* Every step keeps the invariant: its parts, from the lemmas on each.
LEMMA NextHolds ==
    ASSUME TypeOK, SessionInvariant, [Next]_vars
    PROVE  TypeOK' /\ SessionInvariant'
<1> USE DEF SessionInvariant
<1>1. TypeOK' /\ Stages'
      BY TypeStep, StagesStep
<1>2. OpenedOnce' /\ HashOfOpen' /\ StoresGoFirst'
      BY OpenedStep, HashStep, StoresStep
<1>3. NoOrphanStore'
      BY <1>2 DEF StoresGoFirst, NoOrphanStore, Dropped
<1> QED BY <1>1, <1>2, <1>3, ClosedStep

\* The inductive invariant of the session calls.
THEOREM Sessions == Spec => []SessionInvariant
BY InitHolds, NextHolds, PTL DEF Spec

\* The types of Redis' keys and of the calls.
THEOREM SessionTypes == Spec => []TypeOK
BY InitHolds, NextHolds, PTL DEF Spec

\* However CloseSession is cut short, retried or crossed by other calls, no
\* store outlives its session, but one an update raced for.
THEOREM NoOrphans == Spec => []NoOrphanStore
<1>1. SessionInvariant => NoOrphanStore
      BY DEF SessionInvariant
<1> QED BY <1>1, Sessions, PTL

\* With the token of a closed session no run is started, and nothing is written to a
\* store but one that an update raced for. Its epoch can still be incremented.
THEOREM ClosedStaysClosed == Spec => []ClosedIsClosed
<1>1. SessionInvariant => ClosedIsClosed
      BY DEF SessionInvariant
<1> QED BY <1>1, Sessions, PTL

-----------------------------------------------------------------------------
(* The refinement of SessionLife.                                          *)

\* The lives of the sessions and the runs as SessionLife sees them.
Lived == [t \in Tokens |-> Life(t)]
Started == {<<c, tok[c]>> : c \in RunsStarted}

\* The history of answers grows by runs of open sessions only.
LEMMA StartedStep ==
    ASSUME TypeOK, SessionInvariant, [Next]_vars
    PROVE  \/ UNCHANGED Started
           \/ \E c \in Calls : RunLoad(c) /\ conf[tok[c]] = "full" /\ tok[c] \in Tokens
                               /\ Started' = Started \cup {<<c, tok[c]>>}
<1> USE ShapesHold DEF SessionInvariant, Started, RunsStarted
<1>1. ASSUME NEW d \in Calls, NEW o \in Ops, NEW t \in Tokens, Invoke(d, o, t)
      PROVE  UNCHANGED Started
  <2>1. reply[d] # "ok" /\ UNCHANGED reply
        BY <1>1 DEF Invoke, Stages
  <2>2. \A c \in Calls : c # d => op'[c] = op[c] /\ tok'[c] = tok[c]
        BY <1>1 DEF Invoke, Shapes
  <2>3. UNCHANGED RunsStarted
        BY <2>1, <2>2
  <2> QED BY <2>1, <2>2, <2>3
<1>2. CASE UNCHANGED <<op, tok, stale>>
  <2>1. ASSUME NEW c \in Calls, RunLoad(c), conf[tok[c]] = "full"
        PROVE  Started' = Started \cup {<<c, tok[c]>>} /\ tok[c] \in Tokens
    <3>1. reply' = [reply EXCEPT ![c] = "ok"] /\ op[c] = "run" /\ tok[c] \in Tokens
          BY <2>1 DEF RunLoad, Reply, Stages
    <3>2. RunsStarted' = RunsStarted \cup {c}
          BY <1>2, <3>1 DEF Shapes
    <3> QED BY <1>2, <3>1, <3>2
  <2>2. CASE ~ \E c \in Calls : RunLoad(c) /\ conf[tok[c]] = "full"
    <3>1. ASSUME NEW c \in Calls, op[c] = "run"
          PROVE  reply'[c] = "ok" <=> reply[c] = "ok"
          BY <2>2, <3>1, AnsweredStep, Words DEF Answered, IsUpdate
    <3>2. UNCHANGED RunsStarted
          BY <1>2, <3>1
    <3> QED BY <1>2, <3>2
  <2> QED BY <2>1, <2>2
<1> QED BY <1>1, <1>2, Writers

\* The lives go one way.
LEMMA LivedStep ==
    ASSUME TypeOK, SessionInvariant, [Next]_vars
    PROVE  \/ UNCHANGED Lived
           \/ \E c \in Calls : OpenSet(c) /\ tok[c] \in Tokens /\ Lived[tok[c]] = "unopened"
                               /\ Lived' = [Lived EXCEPT ![tok[c]] = "open"]
           \/ \E c \in Calls : CloseForget(c) /\ tok[c] \in Tokens /\ Lived[tok[c]] = "open"
                               /\ Lived' = [Lived EXCEPT ![tok[c]] = "gone"]
<1> USE ShapesHold DEF SessionInvariant, Lived
<1>1. ASSUME NEW c \in Calls, OpenSet(c)
      PROVE  /\ tok[c] \in Tokens /\ Lived[tok[c]] = "unopened"
             /\ Lived' = [Lived EXCEPT ![tok[c]] = "open"]
  <2>1. /\ tok[c] \in Tokens /\ tok[c] \notin created
        /\ created' = created \cup {tok[c]}
        /\ conf' = [conf EXCEPT ![tok[c]] = "full"]
        BY <1>1 DEF OpenSet, Stages, OpenedOnce
  <2>2. Life(tok[c]) = "unopened"
        BY <2>1 DEF Life, HashOfOpen
  <2>3. \A t \in Tokens : Life(t)' = IF t = tok[c] THEN "open" ELSE Life(t)
        BY <2>1 DEF Life, Shapes
  <2> QED BY <2>1, <2>2, <2>3
<1>2. ASSUME NEW c \in Calls, CloseForget(c)
      PROVE  \/ UNCHANGED Lived
             \/ /\ tok[c] \in Tokens /\ Lived[tok[c]] = "open"
                /\ Lived' = [Lived EXCEPT ![tok[c]] = "gone"]
  <2>1. /\ tok[c] \in Tokens /\ tok[c] \in created /\ UNCHANGED created
        /\ conf' = [conf EXCEPT ![tok[c]] = "none"]
        BY <1>2 DEF CloseForget, Stages, OpenedOnce
  <2>2. \A t \in Tokens : Life(t)' = IF t = tok[c] THEN "gone" ELSE Life(t)
        BY <2>1 DEF Life, Shapes
  <2>3. Life(tok[c]) \in {"open", "gone"}
        BY <2>1 DEF Life
  <2> QED BY <2>1, <2>2, <2>3
<1>3. ASSUME NEW c \in Calls, IncrementBump(c)
      PROVE  UNCHANGED Lived
  <2>1. UNCHANGED created /\ \A t \in Tokens : conf'[t] = "full" <=> conf[t] = "full"
        BY <1>3 DEF IncrementBump, Shapes, Ghosts
  <2> QED BY <2>1 DEF Life
<1>4. CASE UNCHANGED <<conf, created>>
      BY <1>4 DEF Life
<1>5. \/ UNCHANGED <<conf, created>>
      \/ \E c \in Calls : OpenSet(c) \/ CloseForget(c) \/ IncrementBump(c)
      BY Writers
<1> QED BY <1>1, <1>2, <1>3, <1>4, <1>5

\* A run starts in a step that changes no session's life.
LEMMA LifeStep ==
    ASSUME TypeOK, SessionInvariant, [Next]_vars
    PROVE  [Lives!Next]_(Lives!vars)
<1> USE DEF Lives!Next, Lives!vars
<1>1. CASE \E c \in Calls : RunLoad(c) /\ conf[tok[c]] = "full" /\ tok[c] \in Tokens
                            /\ Started' = Started \cup {<<c, tok[c]>>}
  <2>1. PICK c \in Calls : RunLoad(c) /\ conf[tok[c]] = "full" /\ tok[c] \in Tokens
                           /\ Started' = Started \cup {<<c, tok[c]>>}
        BY <1>1
  <2>2. UNCHANGED Lived /\ Lived[tok[c]] = "open"
        BY <2>1 DEF RunLoad, Redis, Ghosts, Lived, Life
  <2>3. PICK t \in Tokens : t = tok[c]
        BY <2>1
  <2>4. Lives!Start(c, t)
        BY <2>1, <2>2, <2>3 DEF Lives!Start, Started, Lived
  <2> QED BY <2>4
<1>2. ASSUME UNCHANGED Started, NEW c \in Calls, OpenSet(c), tok[c] \in Tokens,
             Lived[tok[c]] = "unopened", Lived' = [Lived EXCEPT ![tok[c]] = "open"]
      PROVE  \E t \in Tokens : Lives!Open(t)
      BY <1>2 DEF Lives!Open, Lived, Started
<1>3. ASSUME UNCHANGED Started, NEW c \in Calls, CloseForget(c), tok[c] \in Tokens,
             Lived[tok[c]] = "open", Lived' = [Lived EXCEPT ![tok[c]] = "gone"]
      PROVE  \E t \in Tokens : Lives!Close(t)
      BY <1>3 DEF Lives!Close, Lived, Started
<1>4. CASE UNCHANGED <<Started, Lived>>
      BY <1>4 DEF Started, Lived
<1> QED BY <1>1, <1>2, <1>3, <1>4, StartedStep, LivedStep

\* OpenSession, StreamingRun, IncrementEpoch and CloseSession, a command at a
\* time, interleaved, cut short and retried, implement the life of a session.
THEOREM Implementation == Spec => ImplementsLife
<1>1. Init => Lives!Init
      BY DEF Init, Lives!Init, Life, RunsStarted
<1>2. [](TypeOK /\ SessionInvariant) /\ [][Next]_vars => [][Lives!Next]_(Lives!vars)
      BY LifeStep, PTL
<1> QED BY <1>1, <1>2, SessionTypes, Sessions, PTL DEF Spec, ImplementsLife, Lives!Spec

-----------------------------------------------------------------------------
(* UpdateStore as long as nobody else fills the stores.                    *)

\* No store, so no update that finds one.
NoStores ==
    /\ \A t \in Tokens \ Seeded : ~StoreExists(t)
    /\ \A c \in Calls : at[c] = "write" => tok[c] \in Seeded
    /\ \A c \in Calls : done[c] # 0 => op[c] # "none" /\ tok[c] \in Seeded
    /\ \A c \in Calls : IsUpdate(c) /\ reply[c] = "ok" => tok[c] \in Seeded

\* It is kept by every step: what a call writes, counts and answers it owes to a
\* store that it found.
LEMMA NoStoresStep ==
    ASSUME TypeOK, SessionInvariant, NoStores, [Next]_vars
    PROVE  NoStores'
<1> USE ShapesHold DEF SessionInvariant
<1>1. ASSUME NEW c \in Calls, NEW d \in Calls, NEW o \in Ops, NEW t \in Tokens,
             Invoke(d, o, t), op[c] # "none"
      PROVE  UNCHANGED <<op[c], tok[c], at[c], reply[c]>>
      BY <1>1 DEF Invoke, Shapes, Stages
<1>2. ASSUME NEW c \in Calls, op[c] # "none"
      PROVE  UNCHANGED <<op[c], tok[c]>>
      BY <1>1, <1>2, Writers
<1>3. \A t \in Tokens \ Seeded : ~StoreExists(t)'
  <2>1. ASSUME NEW c \in Calls, CloseDrop(c)
        PROVE  \A t \in Tokens \ Seeded : ~StoreExists(t)'
        BY <2>1 DEF CloseDrop, StoreExists, NoStores, Shapes
  <2>2. ASSUME NEW c \in Calls, UpdateWrite(c)
        PROVE  \A t \in Tokens \ Seeded : ~StoreExists(t)'
        BY <2>2 DEF UpdateWrite, StoreExists, NoStores, Shapes
  <2>3. ASSUME NEW s \in Tokens, Seed(s)
        PROVE  \A t \in Tokens \ Seeded : ~StoreExists(t)'
        BY <2>3 DEF Seed, StoreExists, NoStores, Shapes
  <2>4. CASE UNCHANGED store
        BY <2>4 DEF StoreExists, NoStores
  <2> QED BY <2>1, <2>2, <2>3, <2>4, Writers
<1>4. ASSUME NEW c \in Calls, at'[c] = "write"
      PROVE  tok'[c] \in Seeded
  <2>1. \/ at[c] = "write"
        \/ at[c] = "exists" /\ StoreExists(tok[c])
        BY <1>4, CameStep DEF Came, Stages
  <2>2. tok[c] \in Tokens /\ op[c] # "none"
        BY <2>1 DEF Stages
  <2> QED BY <1>2, <2>1, <2>2 DEF NoStores
<1>5. ASSUME NEW c \in Calls, done'[c] # 0
      PROVE  op'[c] # "none" /\ tok'[c] \in Seeded
  <2>1. \/ UNCHANGED done
        \/ \E d \in Calls : UpdateWrite(d)
        BY StepCases DEF Refuse, Acquire, OpenSet, OpenReadBack, CloseLook,
           CloseSweep, CloseDrop, CloseForget, IncrementBump, RunLoad,
           UpdateExists, UpdateReply, Abort, Crash, Seed, Invoke, vars
  <2>2. op[c] # "none" /\ tok[c] \in Seeded
    <3>1. CASE UNCHANGED done
          BY <1>5, <3>1 DEF NoStores
    <3>2. ASSUME NEW d \in Calls, UpdateWrite(d)
          PROVE  op[c] # "none" /\ tok[c] \in Seeded
      <4>1. at[d] = "write" /\ op[d] # "none" /\ tok[d] \in Seeded
            BY <3>2 DEF UpdateWrite, NoStores, Stages
      <4>2. c # d => done'[c] = done[c]
            BY <3>2 DEF UpdateWrite, TypeOK
      <4> QED BY <1>5, <4>1, <4>2 DEF NoStores
    <3> QED BY <2>1, <3>1, <3>2
  <2> QED BY <1>2, <2>2
<1>6. ASSUME NEW c \in Calls, IsUpdate(c)', reply'[c] = "ok"
      PROVE  tok'[c] \in Seeded
  <2>1. CASE op[c] # "none"
    <3>1. IsUpdate(c) /\ Answered(c) /\ tok'[c] = tok[c]
          BY <1>2, <1>6, <2>1, AnsweredStep DEF IsUpdate
    <3>2. tok[c] \in Tokens /\ op[c] \notin {"open", "close", "increment", "run"}
          BY <2>1, <3>1, Words DEF Stages, IsUpdate
    <3> QED BY <1>6, <3>1, <3>2 DEF Answered, NoStores
  <2>2. CASE op[c] = "none"
    <3>1. at[c] = "idle" /\ reply[c] = "none" /\ ~IsUpdate(c)
          BY <2>2, Words DEF Stages, IsUpdate
    <3>2. ASSUME NEW d \in Calls, NEW o \in Ops, NEW t \in Tokens, Invoke(d, o, t)
          PROVE  FALSE
          BY <1>6, <3>1, <3>2 DEF Invoke
    <3>3. CASE UNCHANGED op
          BY <1>6, <3>1, <3>3 DEF IsUpdate
    <3> QED BY <3>2, <3>3, Writers
  <2> QED BY <2>1, <2>2
<1> QED BY <1>3, <1>4, <1>5, <1>6 DEF NoStores

\* As the worker is built, with nobody else at a session's store, UpdateStore
\* writes nothing to it, whatever is sent and however calls interleave.
THEOREM UpdatesAreVain == Spec => []NothingIsUpdated
<1>1. Init => NoStores
      BY DEF Init, NoStores, StoreExists
<1>2. TypeOK /\ SessionInvariant /\ NoStores /\ [Next]_vars => NoStores'
      BY NoStoresStep
<1>3. NoStores => NothingIsUpdated
      BY DEF NoStores, NothingIsUpdated
<1> QED BY <1>1, <1>2, <1>3, SessionTypes, Sessions, PTL DEF Spec

=============================================================================
