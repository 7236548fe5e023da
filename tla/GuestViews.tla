----------------------------- MODULE GuestViews -----------------------------
(***************************************************************************)
(* How an answer of the graph storage reaches a guest program: the worker  *)
(* turns the data frame of the response into a row, a vector or a table    *)
(* (src/wart-worker/src/wasm/utils.rs, mod.rs), the guest library sorts it *)
(* by key and looks keys up by binary search (src/wasm/include/view.hpp).  *)
(*                                                                         *)
(* A data frame has headers and columns; a column without values is a      *)
(* vector with tag Nil. Keys are integers that stand for names in the      *)
(* order of std::string_view. Options are sequences of at most one element.*)
(***************************************************************************)
EXTENDS TextConversion

Some(x) == <<x>>
None == <<>>

-----------------------------------------------------------------------------
(* The worker's side.                                                      *)

\* Headers and columns are zipped: what has no partner is dropped.
Pairs(df) == 1 .. (IF Len(df.headers) < Len(df.columns) THEN Len(df.headers) ELSE Len(df.columns))

FirstValue(column) ==
    IF column.tag = Nil \/ column.data = <<>> THEN Value(Nil, 0)
    ELSE Value(column.tag, column.data[1])

dump_to_imports_row(df) ==
    [i \in Pairs(df) |-> [key |-> df.headers[i], val |-> FirstValue(df.columns[i])]]
dump_to_imports_table(df) ==
    [i \in Pairs(df) |-> [key |-> df.headers[i], val |-> df.columns[i]]]

\* choice_nodes answers with the first column alone.
storage_choice_nodes(df) ==
    LET table == dump_to_imports_table(df)
    IN  IF table = <<>> THEN None ELSE Some(table[1].val)
storage_query_nodes(df) == Some(dump_to_imports_row(df))
\* query_neighbors answers with the first column and the table of the others.
storage_query_neighbors(df) ==
    LET table == dump_to_imports_table(df)
    IN  IF table = <<>> THEN None ELSE Some([dst |-> table[1].val, attr |-> Tail(table)])

-----------------------------------------------------------------------------
(* The guest's side.                                                       *)

lt_imports(x, y) == x.key < y.key
eq_imports(x, y) == x.key = y.key

\* std::sort leaves the order of equal keys open.
Sorted(span) ==
    {[i \in DOMAIN span |-> span[p[i]]] :
        p \in {q \in [DOMAIN span -> DOMAIN span] :
                  /\ \A i, j \in DOMAIN span : i # j => q[i] # q[j]
                  /\ \A i, j \in DOMAIN span : i < j => ~lt_imports(span[q[j]], span[q[i]])}}

\* Variant: a row keeps the order of the answer.
row_Unsorted(span) == {span}
row(span) == Sorted(span)
table(span) == Sorted(span)

\* The places first + 1 .. first + count of a row.
Ranges(span) ==
    {r \in [first : 0 .. Len(span), count : 0 .. Len(span)] : r.first + r.count <= Len(span)}

\* std::lower_bound: the first position, counted from 0, whose key is not smaller.
Bisection(span, x) ==
    LET search[r \in Ranges(span)] ==
            LET half == r.count \div 2
            IN  IF r.count = 0 THEN r.first
                ELSE IF lt_imports(span[r.first + half + 1], x)
                     THEN search[[first |-> r.first + half + 1, count |-> r.count - half - 1]]
                     ELSE search[[first |-> r.first, count |-> half]]
    IN  search
LowerBound(span, x) == Bisection(span, x)[[first |-> 0, count |-> Len(span)]]

\* operator[] (key) of row_view and table_view.
row_view(span, key) ==
    LET item0 == [key |-> key]
        it == LowerBound(span, item0)
    IN  IF it < Len(span) /\ eq_imports(span[it + 1], item0) THEN Some(span[it + 1].val) ELSE None
table_view(span, key) ==
    LET series0 == [key |-> key]
        it == LowerBound(span, series0)
    IN  IF it < Len(span) /\ eq_imports(span[it + 1], series0) THEN Some(span[it + 1].val) ELSE None

\* as_bol ... as_txt and to_bol ... to_txt of a value and of a vector.
is_type(tag, v) == v.tag = tag
as_value(tag, v) == IF is_type(tag, v) THEN v ELSE Abort
to_value(tag, v) == to_type(tag, v)
vector_size(vec) == IF vec.tag = Nil THEN 0 ELSE Len(vec.data)
as_vector(tag, vec) == IF is_type(tag, vec) THEN vec ELSE NoVector
to_vector(tag, vec) == to_type_vector(tag, vec)
=============================================================================
