---------------------------- MODULE ReturnTables ----------------------------
(***************************************************************************)
(* The tables one guest run returns to its client (wasm/mod.rs):           *)
(* data_frame_new makes a table from a row of defaults, which fixes its    *)
(* columns and their kinds; data_frame_push appends a row, taking the      *)
(* default where the guest gives no value; into_tables turns the tables    *)
(* into columns when the guest has ended; and the client makes a data      *)
(* frame of each (examples/client.py).                                     *)
(*                                                                         *)
(* A row is the sequence of items a guest hands over, with keys in any     *)
(* order, missing, foreign or repeated. A value is a record of its kind,   *)
(* one of the variants of the interface, and of what it holds.             *)
(***************************************************************************)
EXTENDS Integers, Sequences

CONSTANTS Keys,        \* names a guest gives to columns
          Values,      \* values it gives them: [kind |-> ..., of |-> ...]
          Rows,        \* rows it hands over
          MaxTables,   \* bound: tables of a run
          MaxPushes    \* bound: rows pushed to one table

Kinds == {"nil", "bol", "i32", "i64", "f32", "f64", "txt"}
Items == [key : Keys, val : Values]

ASSUME TablesAssumption ==
    /\ MaxTables \in Nat
    /\ MaxPushes \in Nat
    /\ \A v \in Values : v.kind \in Kinds
    /\ \A row \in Rows : row \in Seq(Items)

VARIABLES frames,    \* return_tables, each with the defaults of its handle
          pushed,    \* history: the rows pushed to each table
          run,       \* the guest's run
          tables     \* the tables of the response

vars == <<frames, pushed, run, tables>>

Init ==
    /\ frames = <<>>
    /\ pushed = <<>>
    /\ run = "guest"
    /\ tables = <<>>

-----------------------------------------------------------------------------

NamedIn(row) == {row[j].key : j \in 1 .. Len(row)}

\* Variant: the first of a repeated key counts.
Collected_First(row) ==
    [k \in NamedIn(row) |->
        row[CHOOSE j \in 1 .. Len(row) :
                /\ row[j].key = k
                /\ \A h \in 1 .. Len(row) : row[h].key = k => h >= j].val]

\* A row collected into a HashMap: the last of a repeated key counts.
Collected(row) ==
    [k \in NamedIn(row) |->
        row[CHOOSE j \in 1 .. Len(row) :
                /\ row[j].key = k
                /\ \A h \in 1 .. Len(row) : row[h].key = k => h <= j].val]

\* An empty column of the default's kind.
Column(v) == [kind |-> v.kind, data |-> <<>>]

\* A new table. Its handle is its index; dropping the handle leaves the table.
DataFrameNew(row) ==
    LET defa == Collected(row)
    IN /\ run = "guest"
       /\ Len(frames) < MaxTables
       /\ frames' = Append(frames, [defa |-> defa,
                                    cols |-> [k \in DOMAIN defa |-> Column(defa[k])]])
       /\ pushed' = Append(pushed, <<>>)
       /\ UNCHANGED <<run, tables>>

\* The row's value for a column, or the column's default.
Given(frame, data, k) == IF k \in DOMAIN data THEN data[k] ELSE frame.defa[k]

\* The arms of the match: kinds that agree, in a column that is not nil. Any
\* other value is dropped without a word.
Pushed(col, v) ==
    IF col.kind = v.kind /\ col.kind # "nil"
    THEN [col EXCEPT !.data = Append(@, v)]
    ELSE col

\* A row goes through the columns of the table; its other keys are ignored.
DataFramePush(i, row) ==
    LET frame == frames[i]
        data  == Collected(row)
    IN /\ run = "guest"
       /\ Len(pushed[i]) < MaxPushes
       /\ frames' = [frames EXCEPT ![i].cols =
              [k \in DOMAIN frame.cols |->
                  Pushed(frame.cols[k], Given(frame, data, k))]]
       /\ pushed' = [pushed EXCEPT ![i] = Append(@, row)]
       /\ UNCHANGED <<run, tables>>

\* Variant: nil columns are returned as empty ones.
IntoTable_WithNil(frame) == [k \in DOMAIN frame.cols |-> frame.cols[k].data]

\* into_tables: the columns that are not nil.
IntoTable(frame) ==
    [k \in {c \in DOMAIN frame.cols : frame.cols[c].kind # "nil"} |->
        frame.cols[k].data]

\* The guest has ended and its tables are returned.
Return ==
    /\ run = "guest"
    /\ run' = "returned"
    /\ tables' = [i \in 1 .. Len(frames) |-> IntoTable(frames[i])]
    /\ UNCHANGED <<frames, pushed>>

\* The guest traps, is timed out or its client goes: no table is returned.
Fail ==
    /\ run = "guest"
    /\ run' = "failed"
    /\ UNCHANGED <<frames, pushed, tables>>

\* A run that is over stays over.
Rest == run # "guest" /\ UNCHANGED vars

Next == \/ \E row \in Rows : DataFrameNew(row)
        \/ \E i \in 1 .. Len(frames), row \in Rows : DataFramePush(i, row)
        \/ Return \/ Fail \/ Rest

Spec == Init /\ [][Next]_vars

\* to_pd: the client shows a table, unless one of its columns is empty.
Shown(table) == \A k \in DOMAIN table : table[k] # <<>>

-----------------------------------------------------------------------------
(* Properties.                                                             *)

Columns == [kind : Kinds, data : Seq(Values)]

\* A table's columns are those of its defaults, and of their kinds.
IsFrame(f) ==
    /\ f = [defa |-> f.defa, cols |-> f.cols]
    /\ DOMAIN f.defa \in SUBSET Keys
    /\ f.defa \in [DOMAIN f.defa -> Values]
    /\ f.cols \in [DOMAIN f.defa -> Columns]
    /\ \A k \in DOMAIN f.defa : f.cols[k].kind = f.defa[k].kind

IsSequence(s) == s \in Seq({s[i] : i \in 1 .. Len(s)})

TypeOK ==
    /\ IsSequence(frames)
    /\ \A i \in 1 .. Len(frames) : IsFrame(frames[i])
    /\ pushed \in Seq(Seq(Rows))
    /\ Len(pushed) = Len(frames)
    /\ run \in {"guest", "returned", "failed"}
    /\ run # "returned" => tables = <<>>

\* What the guest says a column's value is: the last it gives in the row, and
\* the column's default if it gives none.
Says(row, k, default, v) ==
    \/ \E j \in 1 .. Len(row) : /\ row[j] = [key |-> k, val |-> v]
                                /\ \A h \in j + 1 .. Len(row) : row[h].key # k
    \/ k \notin NamedIn(row) /\ v = default

\* The rows of a table whose value for a column is of another kind.
Mistyped(f, rows, k) ==
    {n \in 1 .. Len(rows) :
        ~\E v \in Values : /\ Says(rows[n], k, f.defa[k], v)
                           /\ v.kind = f.cols[k].kind}

Together(f, rows) ==
    \A k \in DOMAIN f.cols :
        f.cols[k].kind # "nil" /\ Mistyped(f, rows, k) = {} =>
            /\ Len(f.cols[k].data) = Len(rows)
            /\ \A n \in 1 .. Len(rows) :
                   Says(rows[n], k, f.defa[k], f.cols[k].data[n])

\* As long as a column is given only values of its kind it has one value per
\* row, in order, and each is what the guest says. One value of another kind,
\* and all that follow stand in the wrong row.
RowsStayTogether == \A i \in 1 .. Len(frames) : Together(frames[i], pushed[i])

Pure(f, rows) ==
    \A k \in DOMAIN f.cols :
        /\ Len(f.cols[k].data) <= Len(rows)
        /\ \A n \in 1 .. Len(f.cols[k].data) :
               f.cols[k].data[n].kind = f.cols[k].kind
        /\ f.cols[k].kind = "nil" => f.cols[k].data = <<>>

\* A column holds values of its own kind, and never more of them than rows.
ColumnsArePure == \A i \in 1 .. Len(frames) : Pure(frames[i], pushed[i])

\* A table that was given only values of the right kinds, and at least one row,
\* is shown to the client whole: every column that is not nil, with all rows.
WellTypedIsShown ==
    \A i \in 1 .. Len(tables) :
        (/\ pushed[i] # <<>>
         /\ \A k \in DOMAIN frames[i].cols :
                \/ frames[i].cols[k].kind = "nil"
                \/ Mistyped(frames[i], pushed[i], k) = {})
        => /\ Shown(tables[i])
           /\ DOMAIN tables[i] = {k \in DOMAIN frames[i].defa :
                                     frames[i].defa[k].kind # "nil"}
           /\ \A k \in DOMAIN tables[i] : Len(tables[i][k]) = Len(pushed[i])

\* What is pushed to one table touches no other, and what a column holds it
\* keeps until it is returned.
ColumnsOnlyGrow ==
    [][\A i \in 1 .. Len(frames) : \A k \in DOMAIN frames[i].cols :
           LET old == frames[i].cols[k].data
               new == frames'[i].cols[k].data
           IN /\ old = SubSeq(new, 1, Len(old))
              /\ pushed'[i] = pushed[i] => new = old]_frames
=============================================================================
