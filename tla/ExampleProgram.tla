--------------------------- MODULE ExampleProgram ---------------------------
(***************************************************************************)
(* The example guest (src/examples/a.cpp) on top of the guest library and  *)
(* of the tables the worker keeps for it (ReturnTables): what it returns   *)
(* to its client, for each argument and for each answer of the storage.    *)
(*                                                                         *)
(* An answer is an option, as the worker hands it over (GuestViews). An    *)
(* outcome has the end of the run, "ok", "abort" or "undefined", and the   *)
(* tables pushed so far, in the order they were opened. That the worker    *)
(* has a handle for each table and for the storage is assumed here.        *)
(***************************************************************************)
EXTENDS GuestViews

CONSTANTS AuthorId, Label, TimeStamp  \* the keys "author.author_id", "author.label"
                                      \* and "coauthor.time_stamp" in the order of names

ASSUME NamesAssumption == {AuthorId, Label, TimeStamp} \subseteq Int

\* The worker's tables. Only its operators are used, never its state.
Worker == INSTANCE ReturnTables
          WITH Keys <- {}, Values <- {}, Rows <- {}, MaxTables <- 3, MaxPushes <- 3,
               frames <- <<>>, pushed <- <<>>, run <- "guest", tables <- <<>>

Item(key, v) == [key |-> key, val |-> [kind |-> v.tag, of |-> v.of]]

\* data_frame::open with a row of defaults.
Opened(row0) ==
    LET defa == Worker!Collected(row0)
    IN  [defa |-> defa, cols |-> [k \in DOMAIN defa |-> Worker!Column(defa[k])]]

\* push of a row to a table.
Pushed(frame, row0) ==
    LET data == Worker!Collected(row0)
    IN  [frame EXCEPT !.cols = [k \in DOMAIN frame.cols |->
             Worker!Pushed(frame.cols[k], Worker!Given(frame, data, k))]]

PushedAll(frame, rows) ==
    LET upto[n \in 0 .. Len(rows)] == IF n = 0 THEN frame ELSE Pushed(upto[n - 1], rows[n])
    IN  upto[Len(rows)]

Outcome(end, frame) == [end |-> end, frame |-> frame]

-----------------------------------------------------------------------------

\* Three nodes at most; a node's id is the first column of the answer.
test_choice_nodes(answer) ==
    LET opened == Opened(<<Item("node_id", Value(I64, -1)), Item("dummy", Value(Bol, FALSE))>>)
    IN  IF answer = None THEN {Outcome("abort", opened)}
        ELSE LET vs == as_vector(I64, answer[1])
             IN  IF vs = NoVector THEN {Outcome("abort", opened)}
                 ELSE {Outcome("ok", PushedAll(opened, [i \in DOMAIN vs.data |->
                           <<Item("node_id", Value(I64, vs.data[i]))>>]))}

\* Variant: the values are pushed as the i64 they are.
test_query_nodes_Wide(answer) ==
    LET opened == Opened(<<Item("author_id", Value(I32, -1)), Item("label", Value(I32, -1))>>)
        Fetched(r, key) == row_view(r, key)[1]
    IN  IF answer = None THEN {Outcome("abort", opened)}
        ELSE {IF row_view(r, AuthorId) = None \/ row_view(r, Label) = None
              THEN Outcome("abort", opened)
              ELSE Outcome("ok", Pushed(opened, <<Item("author_id", Fetched(r, AuthorId)),
                                                  Item("label", Fetched(r, Label))>>)) :
                 r \in row(answer[1])}

\* Both values must be there and be i64; they are cast to the columns' i32.
test_query_nodes(answer) ==
    LET opened == Opened(<<Item("author_id", Value(I32, -1)), Item("label", Value(I32, -1))>>)
        Asserted(r, key) == row_view(r, key) # None /\ is_type(I64, row_view(r, key)[1])
        Cast(r, key) == to_value(I32, row_view(r, key)[1])
    IN  IF answer = None THEN {Outcome("abort", opened)}
        ELSE UNION {IF ~(Asserted(r, AuthorId) /\ Asserted(r, Label)) THEN {Outcome("abort", opened)}
                    ELSE {Outcome("ok", Pushed(opened, <<Item("author_id", a), Item("label", b)>>)) :
                             a \in Cast(r, AuthorId), b \in Cast(r, Label)} :
                       r \in row(answer[1])}

\* A row for each neighbour, whose time stamp is the one at its place in the other
\* column: the length of that column is not looked at.
test_query_neighbors(answer) ==
    LET opened == Opened(<<Item("target", Value(I64, -1)), Item("time_stamp", Value(I64, -1))>>)
        Of(attr, dst) ==
            LET found == table_view(attr, TimeStamp)
            IN  IF found = None THEN Outcome("abort", opened)
                ELSE IF ~is_type(I64, found[1]) THEN Outcome("abort", opened)
                ELSE IF vector_size(dst) = 0 THEN Outcome("ok", opened)
                ELSE IF as_vector(I64, dst) = NoVector THEN Outcome("abort", opened)
                ELSE IF vector_size(dst) > vector_size(found[1]) THEN Outcome("undefined", opened)
                ELSE Outcome("ok", PushedAll(opened, [i \in DOMAIN dst.data |->
                         <<Item("target", Value(I64, dst.data[i])),
                           Item("time_stamp", Value(I64, found[1].data[i]))>>]))
    IN  IF answer = None THEN {Outcome("abort", opened)}
        ELSE {Of(attr, answer[1].dst) : attr \in table(answer[1].attr)}

Text(t) == Value(Txt, t)
Comma == <<"{", "}", ",", "{", "}">>
Info == "info"

\* A call of log: LogFormat has the message it becomes.
Log(level, pattern, args) == <<[level |-> level, pattern |-> pattern, args |-> args]>>

\* The messages of test_log; the second only where the level is enabled.
test_log(log_enabled) ==
    Log("error", Comma, <<Text(<<"h", "e", "l", "l", "o">>), Text(<<"w", "o", "r", "l", "d">>)>>)
    \o IF Info \notin log_enabled THEN <<>>
       ELSE Log(Info, Comma \o <<"!">>, <<Text(<<"l", "o", "g">>), Text(<<"y", "e", "s">>)>>)

ArgsPattern == <<"a", "r", "g", "s", ":", " ", "{", "}">>

\* main: an argument must be an integer, and is logged twice. The three tables are
\* returned if nothing goes wrong, and nothing if the guest aborts.
main(args, log_enabled, choice, nodes, neighbors) ==
    LET a == IF args = <<>> THEN <<>> ELSE <<txt2i32(args[1])>>
        logged == IF a = <<>> THEN <<>>
                  ELSE Log(Info, ArgsPattern, a) \o Log(Info, ArgsPattern, a)
        Ended(x, y, z) ==
            LET ends == <<x.end, y.end, z.end>>
            IN  IF ends = <<"ok", "ok", "ok">>
                THEN [end |-> "ok", log |-> logged \o test_log(log_enabled),
                      tables |-> <<Worker!IntoTable(x.frame), Worker!IntoTable(y.frame),
                                   Worker!IntoTable(z.frame)>>]
                ELSE [end |-> IF "abort" \in {x.end, y.end} THEN "abort" ELSE z.end,
                      log |-> logged, tables |-> <<>>]
    IN  IF a = <<Abort>> THEN {[end |-> "abort", log |-> <<>>, tables |-> <<>>]}
        ELSE {Ended(x, y, z) : x \in test_choice_nodes(choice), y \in test_query_nodes(nodes),
                               z \in test_query_neighbors(neighbors)}
=============================================================================
