------------------------- MODULE ReturnTables_proofs -------------------------
(***************************************************************************)
(* What is proved of the tables of a guest run, for any names, values and  *)
(* rows and any number of tables and pushes: that a HashMap made of a row  *)
(* holds what the guest says, that a column given only values of its kind  *)
(* keeps its rows together, that columns are pure, and that a well-typed   *)
(* table is shown to the client whole.                                     *)
(***************************************************************************)
EXTENDS ReturnTables, SequenceTheorems, FiniteSetTheorems, TLAPS

-----------------------------------------------------------------------------
(* What collecting a row yields.                                           *)

\* Among the places of a sequence that have a property there is a last one.
LEMMA LastPlace ==
    ASSUME NEW n \in Nat, NEW P, P \subseteq 1 .. n, P # {}
    PROVE  \E j \in P : \A h \in P : h <= j
<1> DEFINE S == 1 .. n
           From(j) == {h \in S : j <= h}
           Tails == {From(j) : j \in P}
<1>1. IsFiniteSet(S)
      BY FS_Interval
<1>2. Tails \subseteq FiniteSubsetsOf(S) /\ Tails # {}
  <2>1. FiniteSubsetsOf(S) = SUBSET S
        BY <1>1, FS_FiniteSubsetsOfFinite
  <2>2. Tails \subseteq SUBSET S /\ Tails # {}
        OBVIOUS
  <2> QED BY <2>1, <2>2
<1>3. PICK x \in Tails : \A y \in Tails : <<y, x>> \notin StrictSubsetOrdering(S)
      BY <1>2, FS_StrictSubsetOrderingWellFounded, WFMin, Zenon
<1>4. PICK j \in P : x = From(j)
      OBVIOUS
<1>5. ASSUME NEW h \in P, h > j
      PROVE  FALSE
  <2>1. From(h) \subseteq From(j) /\ j \in From(j) /\ j \notin From(h)
        BY <1>5
  <2>2. <<From(h), From(j)>> \in StrictSubsetOrdering(S)
        BY <2>1 DEF StrictSubsetOrdering
  <2> QED BY <1>3, <1>4, <2>2
<1> QED BY <1>5

\* The value collected for a key is that of the last item with the key.
LEMMA LastNamed ==
    ASSUME NEW row \in Seq(Items), NEW k \in NamedIn(row)
    PROVE  \E j \in 1 .. Len(row) :
               /\ row[j].key = k
               /\ \A h \in 1 .. Len(row) : row[h].key = k => h <= j
               /\ Collected(row)[k] = row[j].val
<1> DEFINE P == {j \in 1 .. Len(row) : row[j].key = k}
           Last(j) == /\ row[j].key = k
                      /\ \A h \in 1 .. Len(row) : row[h].key = k => h <= j
<1>1. P \subseteq 1 .. Len(row) /\ P # {} /\ Len(row) \in Nat
      BY DEF NamedIn
<1>2. PICK i \in P : \A h \in P : h <= i
      BY <1>1, LastPlace
<1>3. \E j \in 1 .. Len(row) : Last(j)
      BY <1>2
<1>4. (CHOOSE j \in 1 .. Len(row) : Last(j)) \in 1 .. Len(row)
      /\ Last(CHOOSE j \in 1 .. Len(row) : Last(j))
      BY <1>3
<1>5. Collected(row)[k] = row[CHOOSE j \in 1 .. Len(row) : Last(j)].val
      BY DEF Collected
<1> QED BY <1>4, <1>5

\* Collecting keeps names and values.
LEMMA CollectedType ==
    ASSUME NEW row \in Seq(Items)
    PROVE  /\ DOMAIN Collected(row) = NamedIn(row)
           /\ NamedIn(row) \in SUBSET Keys
           /\ Collected(row) \in [NamedIn(row) -> Values]
<1>1. \A j \in 1 .. Len(row) : row[j] \in Items
      OBVIOUS
<1>2. NamedIn(row) \in SUBSET Keys
      BY <1>1 DEF NamedIn, Items
<1>3. \A k \in NamedIn(row) : Collected(row)[k] \in Values
  <2> TAKE k \in NamedIn(row)
  <2>1. PICK j \in 1 .. Len(row) : Collected(row)[k] = row[j].val
        BY LastNamed
  <2> QED BY <1>1, <2>1 DEF Items
<1>4. /\ DOMAIN Collected(row) = NamedIn(row)
      /\ Collected(row) = [k \in NamedIn(row) |-> Collected(row)[k]]
  <2> DEFINE c(k) == row[CHOOSE j \in 1 .. Len(row) :
                            /\ row[j].key = k
                            /\ \A h \in 1 .. Len(row) : row[h].key = k => h <= j].val
  <2>1. Collected(row) = [k \in NamedIn(row) |-> c(k)]
        BY Zenon DEF Collected
  <2> HIDE DEF c
  <2> QED BY <2>1
<1> QED BY <1>2, <1>3, <1>4

\* What a push takes for a column is what the guest says, and the guest says
\* one thing only.
LEMMA Saying ==
    ASSUME NEW row \in Seq(Items), NEW frame, NEW k
    PROVE  /\ Says(row, k, frame.defa[k], Given(frame, Collected(row), k))
           /\ \A v : Says(row, k, frame.defa[k], v) =>
                         v = Given(frame, Collected(row), k)
<1>1. DOMAIN Collected(row) = NamedIn(row)
      BY CollectedType
<1>2. CASE k \in NamedIn(row)
  <2>1. PICK j \in 1 .. Len(row) :
               /\ row[j].key = k
               /\ \A h \in 1 .. Len(row) : row[h].key = k => h <= j
               /\ Collected(row)[k] = row[j].val
        BY <1>2, LastNamed
  <2>2. Given(frame, Collected(row), k) = row[j].val
        BY <1>1, <1>2, <2>1 DEF Given
  <2>3. row[j] = [key |-> k, val |-> row[j].val]
    <3>1. row[j] \in Items
          OBVIOUS
    <3> QED BY <2>1, <3>1 DEF Items
  <2>4. \A h \in j + 1 .. Len(row) : row[h].key # k
        BY <2>1
  <2>5. ASSUME NEW v, Says(row, k, frame.defa[k], v)
        PROVE  v = row[j].val
    <3>1. PICK i \in 1 .. Len(row) :
                 /\ row[i] = [key |-> k, val |-> v]
                 /\ \A h \in i + 1 .. Len(row) : row[h].key # k
          BY <1>2, <2>5 DEF Says
    <3>2. row[i].key = k /\ row[i].val = v
          BY <3>1
    <3>3. i <= j /\ ~(j \in i + 1 .. Len(row))
          BY <2>1, <3>1, <3>2
    <3>4. i = j
          BY <3>3
    <3> QED BY <3>2, <3>4
  <2> QED BY <2>2, <2>3, <2>4, <2>5 DEF Says
<1>3. CASE k \notin NamedIn(row)
  <2>1. Given(frame, Collected(row), k) = frame.defa[k]
        BY <1>1, <1>3 DEF Given
  <2>2. ASSUME NEW j \in 1 .. Len(row), NEW v
        PROVE  row[j] # [key |-> k, val |-> v]
        BY <1>3 DEF NamedIn
  <2> QED BY <1>3, <2>1, <2>2 DEF Says
<1> QED BY <1>2, <1>3

-----------------------------------------------------------------------------
(* The invariant.                                                          *)

\* Once the guest has ended its tables are in the response, until then none.
Delivered ==
    /\ run = "returned" => tables = [i \in 1 .. Len(frames) |-> IntoTable(frames[i])]
    /\ run # "returned" => tables = <<>>

TablesInvariant == RowsStayTogether /\ ColumnsArePure /\ Delivered

\* The tables that are there are sequences with as many histories.
LEMMA Shape ==
    ASSUME TypeOK
    PROVE  /\ Len(frames) \in Nat /\ Len(pushed) = Len(frames)
           /\ \A i \in 1 .. Len(frames) :
                  /\ IsFrame(frames[i])
                  /\ pushed[i] \in Seq(Rows) /\ Len(pushed[i]) \in Nat
           /\ Rows \subseteq Seq(Items)
BY TablesAssumption DEF TypeOK, IsSequence, TablesAssumption

\* The columns of a new table are empty and of the kinds of its defaults.
LEMMA NewFrame ==
    ASSUME NEW row \in Rows,
           NEW f, f = [defa |-> Collected(row),
                       cols |-> [k \in DOMAIN Collected(row) |->
                                    Column(Collected(row)[k])]]
    PROVE  /\ IsFrame(f)
           /\ \A k \in DOMAIN f.cols : f.cols[k].data = <<>>
<1>1. /\ DOMAIN Collected(row) \in SUBSET Keys
      /\ Collected(row) \in [DOMAIN Collected(row) -> Values]
      BY CollectedType, TablesAssumption DEF TablesAssumption
<1>2. \A k \in DOMAIN Collected(row) : Column(Collected(row)[k]) \in Columns
      BY <1>1, TablesAssumption DEF TablesAssumption, Column, Columns
<1> QED BY <1>1, <1>2 DEF IsFrame, Column

\* A push keeps a table a table.
LEMMA PushedFrame ==
    ASSUME NEW f, IsFrame(f), NEW row \in Rows,
           NEW g, g = [f EXCEPT !.cols =
                         [k \in DOMAIN f.cols |->
                             Pushed(f.cols[k], Given(f, Collected(row), k))]]
    PROVE  /\ IsFrame(g)
           /\ g.defa = f.defa
           /\ DOMAIN g.cols = DOMAIN f.cols
           /\ \A k \in DOMAIN f.cols :
                  g.cols[k] = Pushed(f.cols[k], Given(f, Collected(row), k))
<1>1. /\ DOMAIN Collected(row) = NamedIn(row)
      /\ Collected(row) \in [NamedIn(row) -> Values]
      BY CollectedType, TablesAssumption DEF TablesAssumption
<1>2. DOMAIN f.cols = DOMAIN f.defa
      BY DEF IsFrame
<1>3. \A k \in DOMAIN f.defa : Given(f, Collected(row), k) \in Values
      BY <1>1 DEF Given, IsFrame
<1>4. ASSUME NEW k \in DOMAIN f.defa
      PROVE  /\ Pushed(f.cols[k], Given(f, Collected(row), k)) \in Columns
             /\ Pushed(f.cols[k], Given(f, Collected(row), k)).kind = f.cols[k].kind
  <2>1. f.cols[k] \in Columns
        BY DEF IsFrame
  <2>2. Append(f.cols[k].data, Given(f, Collected(row), k)) \in Seq(Values)
        BY <1>3, <2>1, AppendProperties DEF Columns
  <2> QED BY <2>1, <2>2 DEF Pushed, Columns
<1>5. /\ g.defa = f.defa
      /\ g.cols = [k \in DOMAIN f.defa |->
                      Pushed(f.cols[k], Given(f, Collected(row), k))]
      /\ g = [defa |-> g.defa, cols |-> g.cols]
      BY <1>2 DEF IsFrame
<1> QED BY <1>2, <1>4, <1>5 DEF IsFrame

\* A new table keeps its rows together, having none.
LEMMA NewHolds ==
    ASSUME NEW f, \A k \in DOMAIN f.cols : f.cols[k].data = <<>>
    PROVE  Together(f, <<>>) /\ Pure(f, <<>>)
BY DEF Together, Pure

\* A push that a column accepts is the next row of the column, and one that it
\* does not accept is mistyped from then on.
LEMMA PushHolds ==
    ASSUME NEW f, IsFrame(f), NEW rows \in Seq(Rows), NEW row \in Rows,
           Together(f, rows), Pure(f, rows),
           NEW g, g = [f EXCEPT !.cols =
                         [k \in DOMAIN f.cols |->
                             Pushed(f.cols[k], Given(f, Collected(row), k))]]
    PROVE  Together(g, Append(rows, row)) /\ Pure(g, Append(rows, row))
<1> DEFINE more == Append(rows, row)
           said(k) == Given(f, Collected(row), k)
<1>1. /\ IsFrame(g)
      /\ g.defa = f.defa
      /\ DOMAIN g.cols = DOMAIN f.cols
      /\ \A k \in DOMAIN f.cols : g.cols[k] = Pushed(f.cols[k], said(k))
      BY PushedFrame
<1>2. /\ Len(more) = Len(rows) + 1
      /\ Len(rows) \in Nat
      /\ \A n \in 1 .. Len(rows) : more[n] = rows[n]
      /\ more[Len(rows) + 1] = row
      BY AppendProperties
<1>3. ASSUME NEW k \in DOMAIN f.cols
      PROVE  /\ f.cols[k] \in Columns
             /\ said(k) \in Values
             /\ Says(row, k, f.defa[k], said(k))
             /\ \A v : Says(row, k, f.defa[k], v) => v = said(k)
  <2>1. row \in Seq(Items)
        BY TablesAssumption DEF TablesAssumption
  <2>2. f.cols[k] \in Columns /\ f.defa[k] \in Values
        BY DEF IsFrame
  <2>3. said(k) \in Values
        BY <2>1, <2>2, CollectedType DEF Given
  <2> QED BY <2>1, <2>2, <2>3, Saying
<1> HIDE DEF more, said
<1>4. ASSUME NEW k \in DOMAIN f.cols
      PROVE  /\ f.cols[k].data \in Seq(Values)
             /\ Append(f.cols[k].data, said(k)) \in Seq(Values)
             /\ Len(Append(f.cols[k].data, said(k))) = Len(f.cols[k].data) + 1
             /\ \A n \in 1 .. Len(f.cols[k].data) :
                    Append(f.cols[k].data, said(k))[n] = f.cols[k].data[n]
             /\ Append(f.cols[k].data, said(k))[Len(f.cols[k].data) + 1] = said(k)
      BY <1>3, AppendProperties DEF Columns
<1>5. ASSUME NEW k \in DOMAIN f.cols
      PROVE  g.cols[k].kind = f.cols[k].kind
      BY <1>1, <1>3 DEF Pushed, Columns
<1>6. ASSUME NEW k \in DOMAIN f.cols,
             f.cols[k].kind = said(k).kind, f.cols[k].kind # "nil"
      PROVE  g.cols[k].data = Append(f.cols[k].data, said(k))
  <2>1. g.cols[k] = [f.cols[k] EXCEPT !.data = Append(f.cols[k].data, said(k))]
        BY <1>1, <1>6 DEF Pushed
  <2>2. f.cols[k] \in Columns
        BY <1>3
  <2> QED BY <2>1, <2>2 DEF Columns
<1>7. ASSUME NEW k \in DOMAIN f.cols,
             ~(f.cols[k].kind = said(k).kind /\ f.cols[k].kind # "nil")
      PROVE  g.cols[k] = f.cols[k]
      BY <1>1, <1>7 DEF Pushed
<1>8. Pure(g, more)
  <2> SUFFICES ASSUME NEW k \in DOMAIN f.cols
               PROVE  /\ Len(g.cols[k].data) <= Len(rows) + 1
                      /\ \A n \in 1 .. Len(g.cols[k].data) :
                             g.cols[k].data[n].kind = g.cols[k].kind
                      /\ g.cols[k].kind = "nil" => g.cols[k].data = <<>>
      BY <1>1, <1>2 DEF Pure
  <2>1. /\ Len(f.cols[k].data) <= Len(rows)
        /\ Len(f.cols[k].data) \in Nat
        /\ \A n \in 1 .. Len(f.cols[k].data) : f.cols[k].data[n].kind = f.cols[k].kind
        /\ f.cols[k].kind = "nil" => f.cols[k].data = <<>>
        BY <1>4 DEF Pure
  <2>2. CASE f.cols[k].kind = said(k).kind /\ f.cols[k].kind # "nil"
    <3>1. g.cols[k].data = Append(f.cols[k].data, said(k))
          BY <1>6, <2>2
    <3>2. Len(g.cols[k].data) = Len(f.cols[k].data) + 1
          BY <3>1, <1>4
    <3>3. ASSUME NEW n \in 1 .. Len(f.cols[k].data) + 1
          PROVE  g.cols[k].data[n].kind = g.cols[k].kind
      <4>1. CASE n \in 1 .. Len(f.cols[k].data)
            BY <4>1, <3>1, <1>4, <1>5, <2>1
      <4>2. CASE n = Len(f.cols[k].data) + 1
        <5>1. g.cols[k].data[n] = said(k)
              BY <4>2, <3>1, <1>4
        <5> QED BY <5>1, <1>5, <2>2
      <4>3. Len(f.cols[k].data) \in Nat
            BY <2>1
      <4> QED BY <4>1, <4>2, <4>3
    <3>4. Len(g.cols[k].data) <= Len(rows) + 1
          BY <3>2, <2>1, <1>2
    <3>5. g.cols[k].kind # "nil"
          BY <2>2, <1>5
    <3> QED BY <3>2, <3>3, <3>4, <3>5
  <2>3. CASE ~(f.cols[k].kind = said(k).kind /\ f.cols[k].kind # "nil")
    <3>1. g.cols[k] = f.cols[k]
          BY <1>7, <2>3
    <3>2. Len(f.cols[k].data) <= Len(rows) + 1
          BY <2>1, <1>2
    <3> QED BY <3>1, <3>2, <2>1
  <2> QED BY <2>2, <2>3
<1>9. Together(g, more)
  <2> SUFFICES ASSUME NEW k \in DOMAIN f.cols,
                      g.cols[k].kind # "nil", Mistyped(g, more, k) = {}
               PROVE  /\ Len(g.cols[k].data) = Len(rows) + 1
                      /\ \A n \in 1 .. Len(rows) + 1 :
                             Says(more[n], k, f.defa[k], g.cols[k].data[n])
      BY <1>1, <1>2 DEF Together
  <2>1. \A n \in 1 .. Len(rows) + 1 :
            \E v \in Values : /\ Says(more[n], k, f.defa[k], v)
                             /\ v.kind = f.cols[k].kind
        BY <1>1, <1>2, <1>5 DEF Mistyped
  <2>2. Mistyped(f, rows, k) = {}
        BY <2>1, <1>2 DEF Mistyped
  <2>3. /\ Len(f.cols[k].data) = Len(rows)
        /\ \A n \in 1 .. Len(rows) : Says(rows[n], k, f.defa[k], f.cols[k].data[n])
        BY <2>2, <1>5 DEF Together
  <2>4. said(k).kind = f.cols[k].kind
    <3>1. Len(rows) + 1 \in 1 .. Len(rows) + 1
          BY <1>2
    <3>2. PICK v \in Values : /\ Says(more[Len(rows) + 1], k, f.defa[k], v)
                              /\ v.kind = f.cols[k].kind
          BY <2>1, <3>1
    <3>3. Says(row, k, f.defa[k], v)
          BY <1>2, <3>2
    <3> QED BY <1>3, <3>2, <3>3
  <2>5. g.cols[k].data = Append(f.cols[k].data, said(k))
        BY <1>5, <1>6, <2>4
  <2>6. ASSUME NEW n \in 1 .. Len(rows) + 1
        PROVE  Says(more[n], k, f.defa[k], g.cols[k].data[n])
    <3>1. CASE n \in 1 .. Len(rows)
          BY <3>1, <1>2, <1>4, <2>3, <2>5
    <3>2. CASE n = Len(rows) + 1
          BY <3>2, <1>2, <1>3, <1>4, <2>3, <2>5
    <3> QED BY <1>2, <3>1, <3>2
  <2> QED BY <2>3, <2>5, <2>6, <1>4
<1> QED BY <1>8, <1>9 DEF more

-----------------------------------------------------------------------------
(* The steps of a run.                                                     *)

\* A table is added at the end.
LEMMA NewStep ==
    ASSUME TypeOK, TablesInvariant, NEW row \in Rows, DataFrameNew(row)
    PROVE  TypeOK' /\ TablesInvariant'
<1> DEFINE defa == Collected(row)
           f == [defa |-> defa, cols |-> [k \in DOMAIN defa |-> Column(defa[k])]]
           T == {frames[i] : i \in 1 .. Len(frames)} \cup {f}
<1>1. /\ run = "guest"
      /\ frames' = Append(frames, f)
      /\ pushed' = Append(pushed, <<>>)
      /\ UNCHANGED <<run, tables>>
      BY DEF DataFrameNew
<1>2. IsFrame(f) /\ \A k \in DOMAIN f.cols : f.cols[k].data = <<>>
      BY NewFrame
<1> HIDE DEF f
<1>3. frames \in Seq(T) /\ pushed \in Seq(Seq(Rows)) /\ Len(pushed) = Len(frames)
  <2>1. frames \in Seq({frames[i] : i \in 1 .. Len(frames)})
        BY DEF TypeOK, IsSequence
  <2> QED BY <2>1 DEF TypeOK
<1>4. /\ Len(frames) \in Nat
      /\ Len(frames') = Len(frames) + 1
      /\ \A i \in 1 .. Len(frames) : frames'[i] = frames[i]
      /\ frames'[Len(frames) + 1] = f
      BY <1>1, <1>3, AppendProperties
<1>5. /\ pushed' \in Seq(Seq(Rows))
      /\ Len(pushed') = Len(frames')
      /\ \A i \in 1 .. Len(frames) : pushed'[i] = pushed[i]
      /\ pushed'[Len(frames) + 1] = <<>>
  <2>1. <<>> \in Seq(Rows)
        OBVIOUS
  <2> QED BY <2>1, <1>1, <1>3, <1>4, AppendProperties
<1>6. IsSequence(frames)'
  <2>1. Append(frames, f) \in Seq(T)
        BY <1>3, AppendProperties
  <2>2. /\ Len(frames') \in Nat
        /\ frames' \in [1 .. Len(frames') -> T]
        BY <2>1, <1>1, LenProperties
  <2> QED BY <2>2 DEF IsSequence
<1>7. ASSUME NEW i \in 1 .. Len(frames')
      PROVE  IsFrame(frames'[i]) /\ Together(frames'[i], pushed'[i])
                                /\ Pure(frames'[i], pushed'[i])
  <2>1. CASE i \in 1 .. Len(frames)
        BY <2>1, <1>4, <1>5 DEF TypeOK, TablesInvariant, RowsStayTogether,
                                ColumnsArePure
  <2>2. CASE i = Len(frames) + 1
        BY <2>2, <1>2, <1>4, <1>5, NewHolds
  <2> QED BY <1>4, <2>1, <2>2
<1>8. TypeOK'
      BY <1>1, <1>5, <1>6, <1>7 DEF TypeOK
<1> QED BY <1>1, <1>7, <1>8 DEF TablesInvariant, RowsStayTogether, ColumnsArePure,
                                Delivered

\* A table is replaced by itself with one row more.
LEMMA PushStep ==
    ASSUME TypeOK, TablesInvariant, NEW i \in 1 .. Len(frames), NEW row \in Rows,
           DataFramePush(i, row)
    PROVE  TypeOK' /\ TablesInvariant'
<1> DEFINE f == frames[i]
           g == [f EXCEPT !.cols =
                   [k \in DOMAIN f.cols |->
                       Pushed(f.cols[k], Given(f, Collected(row), k))]]
<1>1. /\ run = "guest"
      /\ frames' = [frames EXCEPT ![i] = g]
      /\ pushed' = [pushed EXCEPT ![i] = Append(pushed[i], row)]
      /\ UNCHANGED <<run, tables>>
      BY DEF DataFramePush
<1>2. IsFrame(f) /\ pushed[i] \in Seq(Rows) /\ Together(f, pushed[i])
      /\ Pure(f, pushed[i])
      BY DEF TypeOK, TablesInvariant, RowsStayTogether, ColumnsArePure
<1>3. /\ IsFrame(g)
      /\ Together(g, Append(pushed[i], row))
      /\ Pure(g, Append(pushed[i], row))
      BY <1>2, PushedFrame, PushHolds
<1> HIDE DEF g
<1>4. /\ Len(frames) \in Nat
      /\ frames = [j \in 1 .. Len(frames) |-> frames[j]]
      BY DEF TypeOK, IsSequence
<1>5. /\ Len(frames') = Len(frames)
      /\ frames' = [j \in 1 .. Len(frames) |-> IF j = i THEN g ELSE frames[j]]
  <2> DEFINE T == {frames[j] : j \in 1 .. Len(frames)} \cup {g}
  <2>1. frames \in Seq(T)
    <3>1. frames \in Seq({frames[j] : j \in 1 .. Len(frames)})
          BY DEF TypeOK, IsSequence
    <3> QED BY <3>1
  <2>2. /\ [frames EXCEPT ![i] = g] \in Seq(T)
        /\ Len([frames EXCEPT ![i] = g]) = Len(frames)
        BY <2>1, ExceptSeq
  <2> QED BY <1>1, <1>4, <2>2
<1>6. /\ pushed' \in Seq(Seq(Rows))
      /\ Len(pushed') = Len(frames')
      /\ \A j \in 1 .. Len(frames) :
             pushed'[j] = IF j = i THEN Append(pushed[i], row) ELSE pushed[j]
  <2>1. Append(pushed[i], row) \in Seq(Rows)
        BY <1>2
  <2> QED BY <2>1, <1>1, <1>5, ExceptSeq DEF TypeOK
<1>7. IsSequence(frames)'
      BY <1>4, <1>5 DEF IsSequence
<1>8. ASSUME NEW j \in 1 .. Len(frames')
      PROVE  IsFrame(frames'[j]) /\ Together(frames'[j], pushed'[j])
                                /\ Pure(frames'[j], pushed'[j])
  <2>1. CASE j = i
        BY <2>1, <1>3, <1>5, <1>6
  <2>2. CASE j # i
        BY <2>2, <1>5, <1>6 DEF TypeOK, TablesInvariant, RowsStayTogether,
                                ColumnsArePure
  <2> QED BY <2>1, <2>2
<1>9. TypeOK'
      BY <1>1, <1>6, <1>7, <1>8 DEF TypeOK
<1> QED BY <1>1, <1>8, <1>9 DEF TablesInvariant, RowsStayTogether, ColumnsArePure,
                                Delivered

\* The steps that leave the tables of the guest alone.
LEMMA EndStep ==
    ASSUME TypeOK, TablesInvariant, Return \/ Fail \/ UNCHANGED vars
    PROVE  TypeOK' /\ TablesInvariant'
<1>1. UNCHANGED <<frames, pushed>>
      BY DEF Return, Fail, vars
<1>2. RowsStayTogether' /\ ColumnsArePure'
      BY <1>1 DEF TablesInvariant, RowsStayTogether, ColumnsArePure
<1>3. Delivered' /\ run' \in {"guest", "returned", "failed"}
      BY <1>1 DEF TablesInvariant, Delivered, Return, Fail, vars, TypeOK
<1>4. TypeOK'
      BY <1>1, <1>3 DEF TypeOK, IsSequence, Delivered
<1> QED BY <1>2, <1>3, <1>4 DEF TablesInvariant

\* The types and the invariant of the tables of a run are kept.
THEOREM TablesHold == Spec => [](TypeOK /\ TablesInvariant)
<1>1. Init => TypeOK /\ TablesInvariant
  <2> SUFFICES ASSUME Init
               PROVE  TypeOK /\ TablesInvariant
      OBVIOUS
  <2>1. Len(frames) = 0 /\ Len(pushed) = 0
        BY DEF Init
  <2> QED BY <2>1 DEF Init, TypeOK, IsSequence, TablesInvariant, RowsStayTogether,
                      ColumnsArePure, Delivered
<1>2. TypeOK /\ TablesInvariant /\ [Next]_vars => TypeOK' /\ TablesInvariant'
      BY NewStep, PushStep, EndStep DEF Next, Rest
<1> QED BY <1>1, <1>2, PTL DEF Spec

\* The variables of a run always have their types.
THEOREM TablesTypes == Spec => []TypeOK
<1> QED BY TablesHold, PTL

\* A column given only values of its kind has what the guest says, row by row.
THEOREM RowsTogether == Spec => []RowsStayTogether
<1>1. TablesInvariant => RowsStayTogether
      BY DEF TablesInvariant
<1> QED BY <1>1, TablesHold, PTL

\* A column never holds a value of another kind, nor more values than rows.
THEOREM Purity == Spec => []ColumnsArePure
<1>1. TablesInvariant => ColumnsArePure
      BY DEF TablesInvariant
<1> QED BY <1>1, TablesHold, PTL

\* A table given only values of the right kinds is shown to the client whole.
THEOREM ShownWhole == Spec => []WellTypedIsShown
<1>1. ASSUME TypeOK, TablesInvariant
      PROVE  WellTypedIsShown
  <2> SUFFICES ASSUME NEW i \in 1 .. Len(tables),
                      pushed[i] # <<>>,
                      \A k \in DOMAIN frames[i].cols :
                          \/ frames[i].cols[k].kind = "nil"
                          \/ Mistyped(frames[i], pushed[i], k) = {}
               PROVE  /\ Shown(tables[i])
                      /\ DOMAIN tables[i] = {k \in DOMAIN frames[i].defa :
                                                frames[i].defa[k].kind # "nil"}
                      /\ \A k \in DOMAIN tables[i] :
                             Len(tables[i][k]) = Len(pushed[i])
      BY DEF WellTypedIsShown
  <2>1. run = "returned"
    <3>1. ASSUME run # "returned"
          PROVE  FALSE
          BY <1>1, <3>1 DEF TablesInvariant, Delivered
    <3> QED BY <3>1
  <2>2. /\ tables = [j \in 1 .. Len(frames) |-> IntoTable(frames[j])]
        /\ Len(frames) \in Nat
        BY <1>1, <2>1, Shape DEF TablesInvariant, Delivered
  <2>3. Len(tables) = Len(frames)
        BY <2>2
  <2>4. /\ tables[i] = IntoTable(frames[i])
        /\ IsFrame(frames[i])
        /\ pushed[i] \in Seq(Rows)
        /\ Together(frames[i], pushed[i])
        BY <1>1, <2>2, <2>3, Shape DEF TablesInvariant, RowsStayTogether
  <2>5. /\ DOMAIN tables[i] = {k \in DOMAIN frames[i].cols :
                                   frames[i].cols[k].kind # "nil"}
        /\ \A k \in DOMAIN tables[i] : tables[i][k] = frames[i].cols[k].data
        BY <2>4 DEF IntoTable
  <2>6. DOMAIN tables[i] = {k \in DOMAIN frames[i].defa : frames[i].defa[k].kind # "nil"}
        BY <2>4, <2>5 DEF IsFrame
  <2>7. \A k \in DOMAIN tables[i] : Len(tables[i][k]) = Len(pushed[i])
        BY <2>4, <2>5 DEF Together
  <2>8. Len(pushed[i]) # 0
        BY <2>4, EmptySeq
  <2>9. \A k \in DOMAIN tables[i] : tables[i][k] # <<>>
    <3>1. Len(<<>>) = 0
          OBVIOUS
    <3> QED BY <2>7, <2>8, <3>1
  <2> QED BY <2>6, <2>7, <2>9 DEF Shown
<1> QED BY <1>1, TablesHold, PTL
=============================================================================
