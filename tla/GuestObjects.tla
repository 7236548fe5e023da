---------------------------- MODULE GuestObjects ----------------------------
(***************************************************************************)
(* Who owns what in a guest (src/wasm/include: resources.hpp, view.hpp,    *)
(* option.hpp and the parameters of utils.hpp, on top of imports.c).       *)
(*                                                                         *)
(* A guest program keeps rows, vectors, tables, data frames and storages   *)
(* in variables and calls the imports. The worker allocates an answer's    *)
(* memory in the guest (canonical_abi_realloc) and hands out handles to    *)
(* what it keeps itself; the library wraps both into objects that can be   *)
(* moved but not copied and that give everything back in their destructor, *)
(* and into options that must be unwrapped. The program is any sequence of *)
(* the operations the classes offer.                                       *)
(*                                                                         *)
(* heap maps the allocated blocks to their cells: items of a row, series   *)
(* of a table, strings of a list of strings, none for characters and       *)
(* numbers. A block once freed does not come back, so that a pointer kept  *)
(* too long is seen; handles do come back.                                 *)
(***************************************************************************)
EXTENDS CanonicalAbi, Sequences

CONSTANTS Vars,          \* variables of the program
          Handles,       \* handles the worker gives out
          VectorShapes,  \* vectors it answers with: [tag |-> ..., len |-> ...]
          RowShapes,     \* rows: the sequence of their values' tags
          TableShapes,   \* tables: the sequence of their vectors' shapes
          MaxLen,        \* length of the longest of these
          MaxCalls       \* bound: calls of imports

ASSUME ObjectsAssumption ==
    /\ MaxLen \in Nat
    /\ MaxCalls \in Nat
    /\ VectorShapes \subseteq [tag : Tags, len : 0 .. MaxLen]
    /\ \A s \in RowShapes : s \in Seq(Tags) /\ Len(s) <= MaxLen
    /\ \A s \in TableShapes : s \in Seq([tag : Tags, len : 0 .. MaxLen]) /\ Len(s) <= MaxLen
    /\ Handles \subseteq Nat
    /\ "none" \notin Vars

VARIABLES heap,     \* allocated blocks and their cells
          next,     \* blocks handed out so far
          area,     \* RET_AREA
          held,     \* the worker's tables: what a handle stands for
          var,      \* the program's variables
          call,     \* the import being called
          calls,    \* imports called so far
          faults,   \* history: what went wrong between program, heap and worker
          lost      \* history: memory and handles overwritten by an assignment

vars == <<heap, next, area, held, var, call, calls, faults, lost>>

-----------------------------------------------------------------------------
(* Objects. One record has the fields of all classes; kind is the class.   *)

NoVector == [tag |-> Nil, ptr |-> Null, len |-> 0]
NoList == [ptr |-> Null, len |-> 0]
Blank == [kind |-> "none", v |-> NoVector, a |-> NoList, h |-> 0, owner |-> FALSE]

RowOf(l) == [Blank EXCEPT !.kind = "row", !.a = l]
VectorOf(v) == [Blank EXCEPT !.kind = "vector", !.v = v]
NeighborsOf(v, l) == [Blank EXCEPT !.kind = "neighbors", !.v = v, !.a = l]
DataFrameOf(h) == [Blank EXCEPT !.kind = "data_frame", !.h = h, !.owner = TRUE]
StorageOf(h) == [Blank EXCEPT !.kind = "storage", !.h = h, !.owner = TRUE]
CountOf(n) == [Blank EXCEPT !.kind = "count", !.h = n]

\* What the imports_..._free functions pass to canonical_abi_free, mem being the
\* memory they look at. Cells that are not there hold no pointer to a block.
Wild == [ptr |-> -1, len |-> 0, key |-> [ptr |-> -1, len |-> 0], val |-> [tag |-> Nil]]
CellAt(mem, b, i) == IF b \in DOMAIN mem /\ i \in DOMAIN mem[b] THEN mem[b][i] ELSE Wild
Cells(mem, l) == {CellAt(mem, l.ptr, i) : i \in 1 .. l.len}
StringFree(s) == {s.ptr}
ValueFree(v) == IF v.tag = Txt THEN StringFree(v) ELSE {}
ListFree(l) == {l.ptr}
ListStringFree(mem, l) == (UNION {StringFree(s) : s \in Cells(mem, l)}) \cup {l.ptr}
VectorFree(mem, v) == CASE v.tag = Nil -> {}
                        [] v.tag = Txt -> ListStringFree(mem, v)
                        [] OTHER -> ListFree(v)
ItemFree(item) == StringFree(item.key) \cup ValueFree(item.val)
SeriesFree(mem, series) == StringFree(series.key) \cup VectorFree(mem, series.val)
\* Variant: a row gives back its array and not what its items hold.
RowFree_Array(mem, l) == {l.ptr}
RowFree(mem, l) == (UNION {ItemFree(item) : item \in Cells(mem, l)}) \cup {l.ptr}
TableFree(mem, l) == (UNION {SeriesFree(mem, series) : series \in Cells(mem, l)}) \cup {l.ptr}

\* What the destructor of an object gives back: memory and handles. free(NULL)
\* does nothing.
Frees(mem, o) ==
    (CASE o.kind = "row" -> RowFree(mem, o.a)
       [] o.kind = "vector" -> VectorFree(mem, o.v)
       [] o.kind = "neighbors" -> VectorFree(mem, o.v) \cup TableFree(mem, o.a)
       [] OTHER -> {}) \ {Null}
DataFrameFree(o) == IF o.kind = "data_frame" /\ o.owner THEN {o.h} ELSE {}
StorageFree(o) == IF o.kind = "storage" /\ o.owner THEN {o.h} ELSE {}
Drops(o) == DataFrameFree(o) \cup StorageFree(o)

\* What a move leaves in the object that was moved from. A vector keeps its
\* pointer and loses its tag, which makes its destructor ignore it.
\* Variant: a moved row keeps its memory.
RowMoved_Kept(o) == o
RowMoved(o) == [o EXCEPT !.a = NoList]
\* Variant: a moved vector loses its pointer and keeps its tag, as a row does.
VectorMoved_Pointer(o) == [o EXCEPT !.v.ptr = Null]
VectorMoved(o) == [o EXCEPT !.v.tag = Nil]
TableMoved(o) == [o EXCEPT !.a = NoList]
\* Variant: a moved data frame stays an owner.
DataFrameMoved_Kept(o) == o
DataFrameMoved(o) == [o EXCEPT !.owner = FALSE]
StorageMoved(o) == [o EXCEPT !.owner = FALSE]
Moved(o) ==
    CASE o.kind = "row" -> RowMoved(o)
      [] o.kind = "vector" -> VectorMoved(o)
      [] o.kind = "neighbors" -> TableMoved(VectorMoved(o))
      [] o.kind = "data_frame" -> DataFrameMoved(o)
      [] o.kind = "storage" -> StorageMoved(o)
      [] OTHER -> o

-----------------------------------------------------------------------------
(* Variables hold nothing, an object, or an option with or without one.    *)

Empty == [is |-> "empty", obj |-> Blank]
NoneOf(kind) == [is |-> "none", obj |-> [Blank EXCEPT !.kind = kind]]
SomeOf(o) == [is |-> "some", obj |-> o]
ObjectOf(o) == [is |-> "object", obj |-> o]

NoCall == [at |-> "idle", fn |-> "none", self |-> 0, into |-> "none",
           param |-> [tag |-> Nil], mem |-> {}, sent |-> Blank]

Init ==
    /\ heap = [b \in {} |-> <<>>]
    /\ next = 0
    /\ area = [at \in RetArea |-> 0]
    /\ held = [h \in Handles |-> "none"]
    /\ var = [x \in Vars |-> Empty]
    /\ call = NoCall
    /\ calls = 0
    /\ faults = {}
    /\ lost = [mem |-> {}, handles |-> {}]

Aborted == call' = [call EXCEPT !.at = "aborted"]

\* Giving memory and handles back. Freeing what is not allocated is undefined,
\* dropping a handle that the worker does not know traps.
GivenBack(mem, handles) ==
    /\ heap' = [b \in DOMAIN heap \ mem |-> heap[b]]
    /\ held' = [h \in Handles |-> IF h \in handles THEN "none" ELSE held[h]]
    /\ faults' = faults \cup
          (IF mem \subseteq DOMAIN heap /\ \A h \in handles : held[h] # "none"
           THEN {} ELSE {"given back twice"})

-----------------------------------------------------------------------------
(* Calling an import: arrays of parameters are allocated for the call and  *)
(* belong to the function that makes it.                                   *)

\* Texts and arrays of the program itself are lent: they are not in heap.
Own == -2
Lent(n) == [ptr |-> Own, len |-> n]
StringParam(s) == s
SpanStringParam(keys) == [i \in DOMAIN keys |-> StringParam(keys[i])]
ValueParam(v) == IF v.tag = Txt THEN [tag |-> Txt, ptr |-> StringParam(v.txt).ptr, len |-> v.txt.len] ELSE v
SpanItemParam(row) ==
    [i \in DOMAIN row |-> [key |-> StringParam(row[i].key), val |-> ValueParam(row[i].val)]]
\* A vector of texts needs an array of them, another one is the program's.
VectorParam(v, at) ==
    IF v.tag = Txt THEN [tag |-> Txt, ptr |-> at, len |-> Len(v.data)]
    ELSE [tag |-> v.tag, ptr |-> v.data.ptr, len |-> v.data.len]
VectorArrays(v) == IF v.tag = Txt THEN <<SpanStringParam(v.data)>> ELSE <<>>

Arrays(cells) == [b \in (next + 1) .. (next + Len(cells)) |-> cells[b - next]]
Over(f, g) == [b \in DOMAIN f \cup DOMAIN g |-> IF b \in DOMAIN g THEN g[b] ELSE f[b]]

Called(fn, self, into, param, arrays) ==
    /\ call.at = "idle"
    /\ calls < MaxCalls
    /\ calls' = calls + 1
    /\ heap' = Over(heap, Arrays(arrays))
    /\ next' = next + Len(arrays)
    /\ call' = [at |-> "host", fn |-> fn, self |-> self, into |-> into, param |-> param,
                mem |-> DOMAIN Arrays(arrays), sent |-> Blank]
    /\ UNCHANGED <<area, held, var, faults, lost>>

Owner(kind, s) == var[s].is = "object" /\ var[s].obj.kind = kind /\ var[s].obj.owner
Free(x) == var[x].is = "empty"
NoParam == [tag |-> Nil]

\* The row of defaults or of data.
SomeRow == SpanItemParam(<<[key |-> Lent(1), val |-> [tag |-> Txt, txt |-> Lent(2)]],
                           [key |-> Lent(3), val |-> [tag |-> I32, bits |-> 5]]>>)
DataFrameOpen(x) == Free(x) /\ Called("data_frame_new", 0, x, NoParam, <<SomeRow>>)
DataFramePush(s) ==
    Owner("data_frame", s) /\ Called("data_frame_push", var[s].obj.h, "none", NoParam, <<SomeRow>>)
DataFrameSize(s) ==
    Owner("data_frame", s) /\ Called("data_frame_size", var[s].obj.h, "none", NoParam, <<>>)
StorageOpen(x) == Free(x) /\ Called("storage_new", 0, x, NoParam, <<>>)
ChoiceNodes(s, x) ==
    Owner("storage", s) /\ Free(x) /\ Called("choice_nodes", var[s].obj.h, x, NoParam, <<>>)

\* The keys are an array, the node or the default is a value.
SomeKeys == SpanStringParam(<<Lent(1), Lent(2)>>)
Ids == {ValueParam([tag |-> I64, bits |-> -1]), ValueParam([tag |-> Txt, txt |-> Lent(2)])}
QueryNodes(s, x) ==
    /\ Owner("storage", s) /\ Free(x)
    /\ \E id \in Ids : Called("query_nodes", var[s].obj.h, x, id, <<SomeKeys>>)
QueryNeighbors(s, x) ==
    /\ Owner("storage", s) /\ Free(x)
    /\ \E id \in Ids : Called("query_neighbors", var[s].obj.h, x, id, <<SomeKeys>>)
QueryKv(s, x) ==
    /\ Owner("storage", s) /\ Free(x)
    /\ Called("query_kv", var[s].obj.h, x, ValueParam([tag |-> Bol, bits |-> 1]), <<SomeKeys>>)
UpdateKv(s) ==
    /\ Owner("storage", s)
    /\ \E v \in {[tag |-> F64, data |-> Lent(3)], [tag |-> Txt, data |-> <<Lent(1), Lent(0)>>]} :
          Called("update_kv", var[s].obj.h, "none", VectorParam(v, next + 2),
                 <<SomeKeys>> \o VectorArrays(v))

\* A method of an object that was moved from.
UseMoved(s) ==
    /\ call.at = "idle"
    /\ var[s].is = "object"
    /\ var[s].obj.kind \in {"data_frame", "storage"}
    /\ ~var[s].obj.owner
    /\ Aborted
    /\ UNCHANGED <<heap, next, area, held, var, calls, faults, lost>>

-----------------------------------------------------------------------------
(* The worker's side: it reads the parameters, allocates what its answer   *)
(* needs, and stores the answer in RET_AREA.                               *)

SelfKind == [data_frame_push |-> "data_frame", data_frame_size |-> "data_frame",
             choice_nodes |-> "storage", query_nodes |-> "storage",
             query_neighbors |-> "storage", query_kv |-> "storage", update_kv |-> "storage"]

ParamArrives ==
    CASE call.fn = "query_nodes" -> Raised(QueryNodesParam(call.param)) = call.param
      [] call.fn = "query_neighbors" -> Raised(QueryNeighborsParam(call.param)) = call.param
      [] call.fn = "query_kv" -> Raised(QueryKvParam(call.param)) = call.param
      [] call.fn = "update_kv" -> RaisedVector(UpdateKvParam(call.param)) = call.param
      [] OTHER -> TRUE
SelfKnown ==
    call.fn \in DOMAIN SelfKind =>
        call.self \in Handles /\ held[call.self] = SelfKind[call.fn]

Answers(some, o, words, blocks, table) ==
    /\ call.at = "host"
    /\ faults' = faults \cup (IF ParamArrives /\ SelfKnown /\ call.mem \subseteq DOMAIN heap
                              THEN {} ELSE {"asked wrongly"})
    /\ area' = Stored(area, {<<0, IF some THEN 1 ELSE 0>>} \cup words)
    /\ heap' = Over(heap, blocks)
    /\ held' = table
    /\ call' = [call EXCEPT !.at = "back", !.sent = o]
    /\ UNCHANGED <<var, calls, lost>>

NoBlocks == [b \in {} |-> <<>>]

\* The array of a vector is the block at, its texts follow.
VectorAt(at, s) ==
    IF s.tag = Nil THEN NoVector ELSE [tag |-> s.tag, ptr |-> at, len |-> s.len]
VectorBlocks(at, s) ==
    CASE s.tag = Nil -> NoBlocks
      [] s.tag = Txt -> [b \in at .. (at + s.len) |->
                            IF b = at THEN [i \in 1 .. s.len |-> [ptr |-> at + i, len |-> 1]]
                            ELSE <<>>]
      [] OTHER -> [b \in {at} |-> <<>>]

\* Of a row, the array is next + 1, the keys and texts of the items follow.
RowBlocks(s) ==
    LET Key(i) == next + 2 * i
        Text(i) == next + 2 * i + 1
        item(i) == [key |-> [ptr |-> Key(i), len |-> 1],
                    val |-> IF s[i] = Txt THEN [tag |-> Txt, ptr |-> Text(i), len |-> 1]
                            ELSE [tag |-> s[i], bits |-> i]]
    IN  [b \in {next + 1} \cup {Key(i) : i \in 1 .. Len(s)} \cup
               {Text(i) : i \in {j \in 1 .. Len(s) : s[j] = Txt}} |->
            IF b = next + 1 THEN [i \in 1 .. Len(s) |-> item(i)] ELSE <<>>]

\* Of a table, the array is at, each series takes a key and a vector after it.
Stride == MaxLen + 2
TableBlocks(at, s) ==
    LET Key(i) == at + Stride * (i - 1) + 1
        series(i) == [key |-> [ptr |-> Key(i), len |-> 1], val |-> VectorAt(Key(i) + 1, s[i])]
        parts == [i \in 1 .. Len(s) |-> VectorBlocks(Key(i) + 1, s[i])]
    IN  [b \in {at} \cup {Key(i) : i \in 1 .. Len(s)} \cup
               UNION {DOMAIN parts[i] : i \in 1 .. Len(s)} |->
            IF b = at THEN [i \in 1 .. Len(s) |-> series(i)]
            ELSE IF \E i \in 1 .. Len(s) : b \in DOMAIN parts[i]
                 THEN parts[CHOOSE i \in 1 .. Len(s) : b \in DOMAIN parts[i]][b]
                 ELSE <<>>]

AnswersNone ==
    /\ Answers(FALSE, Blank, {}, NoBlocks, held)
    /\ UNCHANGED next

AnswersHandle ==
    /\ call.fn \in {"data_frame_new", "storage_new"}
    /\ \E h \in {g \in Handles : held[g] = "none"} :
          LET o == IF call.fn = "storage_new" THEN StorageOf(h) ELSE DataFrameOf(h)
          IN  Answers(TRUE, o, {<<PayloadAt(Handle), h>>}, NoBlocks, [held EXCEPT ![h] = o.kind])
    /\ UNCHANGED next

AnswersCount ==
    /\ call.fn \in {"data_frame_push", "data_frame_size", "update_kv"}
    /\ Answers(TRUE, CountOf(9), {<<PayloadAt(Word64), 9>>}, NoBlocks, held)
    /\ UNCHANGED next

AnswersVector ==
    /\ call.fn \in {"choice_nodes", "query_kv"}
    /\ \E s \in VectorShapes :
          LET v == VectorAt(next + 1, s)
          IN  Answers(TRUE, VectorOf(v), VectorWords(PayloadAt(Vector), v),
                      VectorBlocks(next + 1, s), held)
    /\ next' = next + 1 + MaxLen

AnswersRow ==
    /\ call.fn = "query_nodes"
    /\ \E s \in RowShapes :
          LET l == [ptr |-> next + 1, len |-> Len(s)]
          IN  Answers(TRUE, RowOf(l), ListWords(PayloadAt(List), l), RowBlocks(s), held)
    /\ next' = next + 1 + 2 * MaxLen

AnswersNeighbors ==
    /\ call.fn = "query_neighbors"
    /\ \E s \in VectorShapes, t \in TableShapes :
          LET at == next + 2 + MaxLen
              v == VectorAt(next + 1, s)
              l == [ptr |-> at, len |-> Len(t)]
          IN  Answers(TRUE, NeighborsOf(v, l),
                      VectorWords(PayloadAt(Answer), v)
                          \cup ListWords(PayloadAt(Answer) + SecondAt(Vector, List), l),
                      Over(VectorBlocks(next + 1, s), TableBlocks(at, t)), held)
    /\ next' = next + 2 + MaxLen + Stride * MaxLen

\* canonical_abi_realloc aborts the guest when there is no memory.
NoMemory ==
    /\ call.at = "host"
    /\ Aborted
    /\ UNCHANGED <<heap, next, area, held, var, calls, faults, lost>>

-----------------------------------------------------------------------------
(* The way back: the answer is lifted into an object, which moves into the *)
(* option that is returned, and the arrays of parameters are freed.        *)

Lifted ==
    CASE call.fn = "data_frame_new" -> DataFrameOf(DataFrameNewRet(area))
      [] call.fn = "storage_new" -> StorageOf(StorageNewRet(area))
      [] call.fn = "choice_nodes" -> VectorOf(ChoiceNodesRet(area))
      [] call.fn = "query_kv" -> VectorOf(QueryKvRet(area))
      [] call.fn = "query_nodes" -> RowOf(QueryNodesRet(area))
      [] call.fn = "query_neighbors" -> NeighborsOf(QueryNeighborsRet(area).v,
                                                    QueryNeighborsRet(area).a)
      [] call.fn = "data_frame_push" -> CountOf(DataFramePushRet(area))
      [] call.fn = "data_frame_size" -> CountOf(DataFrameSizeRet(area))
      [] call.fn = "update_kv" -> CountOf(UpdateKvRet(area))

KindOf(fn) ==
    CASE fn = "data_frame_new" -> "data_frame"
      [] fn = "storage_new" -> "storage"
      [] fn \in {"choice_nodes", "query_kv"} -> "vector"
      [] fn = "query_nodes" -> "row"
      [] OTHER -> "neighbors"

\* option::some: the object made from the answer is a temporary, destroyed when
\* the option has what it held.
ReturnSome ==
    /\ call.at = "back"
    /\ IsSome(area)
    /\ GivenBack(call.mem \cup Frees(heap, Moved(Lifted)), Drops(Moved(Lifted)))
    /\ var' = IF call.into \in Vars THEN [var EXCEPT ![call.into] = SomeOf(Lifted)] ELSE var
    /\ call' = NoCall
    /\ UNCHANGED <<next, area, calls, lost>>

ReturnNone ==
    /\ call.at = "back"
    /\ ~IsSome(area)
    /\ call.into \in Vars
    /\ GivenBack(call.mem, {})
    /\ var' = [var EXCEPT ![call.into] = NoneOf(KindOf(call.fn))]
    /\ call' = NoCall
    /\ UNCHANGED <<next, area, calls, lost>>

\* push, size and update_kv do not return without an answer.
ReturnAbort ==
    /\ call.at = "back"
    /\ ~IsSome(area)
    /\ call.into \notin Vars
    /\ Aborted
    /\ UNCHANGED <<heap, next, area, held, var, calls, faults, lost>>

-----------------------------------------------------------------------------
(* What a program does with its variables.                                 *)

\* expect and unwrap: the content moves out of the option into a temporary, which
\* is destroyed when the result has it.
Unwrap(x, y) ==
    /\ call.at = "idle"
    /\ var[x].is = "some"
    /\ Free(y)
    /\ GivenBack(Frees(heap, Moved(var[x].obj)), Drops(Moved(var[x].obj)))
    /\ var' = [var EXCEPT ![y] = ObjectOf(var[x].obj), ![x] = NoneOf(var[x].obj.kind)]
    /\ UNCHANGED <<next, area, call, calls, lost>>

UnwrapNone(x) ==
    /\ call.at = "idle"
    /\ var[x].is = "none"
    /\ Aborted
    /\ UNCHANGED <<heap, next, area, held, var, calls, faults, lost>>

MoveNew(x, y) ==
    /\ call.at = "idle"
    /\ var[x].is \in {"object", "some"}
    /\ Free(y)
    /\ var' = [var EXCEPT ![y] = var[x], ![x].obj = Moved(var[x].obj)]
    /\ UNCHANGED <<heap, next, area, held, call, calls, faults, lost>>

Overwritten(o) == [mem |-> lost.mem \cup Frees(heap, o), handles |-> lost.handles \cup Drops(o)]

\* The assignments take the other object's data and do not give back their own,
\* an assignment to itself not even the data it keeps.
Assign(x, y) ==
    /\ call.at = "idle"
    /\ var[x].is \in {"object", "some"}
    /\ var[y].is = var[x].is
    /\ var[y].obj.kind = var[x].obj.kind
    /\ lost' = Overwritten(var[x].obj)
    /\ var' = IF x = y THEN [var EXCEPT ![x].obj = Moved(var[x].obj)]
              ELSE [var EXCEPT ![x].obj = var[y].obj, ![y].obj = Moved(var[y].obj)]
    /\ UNCHANGED <<heap, next, area, held, call, calls, faults>>

\* Options of which one holds nothing: the content is constructed or destroyed.
AssignOption(x, y) ==
    /\ call.at = "idle"
    /\ {var[x].is, var[y].is} = {"some", "none"}
    /\ var[y].obj.kind = var[x].obj.kind
    /\ IF var[y].is = "some"
       THEN /\ var' = [var EXCEPT ![x] = var[y], ![y].obj = Moved(var[y].obj)]
            /\ GivenBack({}, {})
       ELSE /\ var' = [var EXCEPT ![x] = var[y]]
            /\ GivenBack(Frees(heap, var[x].obj), Drops(var[x].obj))
    /\ UNCHANGED <<next, area, call, calls, lost>>

\* The end of a variable's scope.
Leave(x) ==
    /\ call.at = "idle"
    /\ var[x].is # "empty"
    /\ IF var[x].is = "none" THEN GivenBack({}, {})
       ELSE GivenBack(Frees(heap, var[x].obj), Drops(var[x].obj))
    /\ var' = [var EXCEPT ![x] = Empty]
    /\ UNCHANGED <<next, area, call, calls, lost>>

Next ==
    \/ \E x \in Vars : DataFrameOpen(x) \/ StorageOpen(x)
    \/ \E s \in Vars : DataFramePush(s) \/ DataFrameSize(s) \/ UpdateKv(s) \/ UseMoved(s)
    \/ \E s, x \in Vars : \/ ChoiceNodes(s, x)
                          \/ QueryNodes(s, x)
                          \/ QueryNeighbors(s, x)
                          \/ QueryKv(s, x)
    \/ AnswersNone \/ AnswersHandle \/ AnswersCount
    \/ AnswersVector \/ AnswersRow \/ AnswersNeighbors \/ NoMemory
    \/ ReturnSome \/ ReturnNone \/ ReturnAbort
    \/ \E x, y \in Vars : Unwrap(x, y) \/ MoveNew(x, y) \/ Assign(x, y) \/ AssignOption(x, y)
    \/ \E x \in Vars : UnwrapNone(x) \/ Leave(x)

Spec == Init /\ [][Next]_vars

-----------------------------------------------------------------------------
(* Properties *)

Owned(x) == Frees(heap, var[x].obj)
HandlesOf(x) == Drops(var[x].obj)

\* Classes, and the objects of all of them.
Kinds == {"none", "row", "vector", "neighbors", "data_frame", "storage", "count"}
Objects == [kind : Kinds, v : [tag : Tags, ptr : Int, len : Nat], a : [ptr : Int, len : Nat],
            h : Nat, owner : BOOLEAN]

\* Every variable and the call in progress have the types of their classes.
TypeOK ==
    /\ next \in Nat
    /\ DOMAIN heap \subseteq 1 .. next
    /\ held \in [Handles -> {"none", "data_frame", "storage"}]
    /\ var \in [Vars -> [is : {"empty", "none", "some", "object"}, obj : Objects]]
    /\ call = [at |-> call.at, fn |-> call.fn, self |-> call.self, into |-> call.into,
               param |-> call.param, mem |-> call.mem, sent |-> call.sent]
    /\ call.at \in {"idle", "host", "back", "aborted"}
    /\ call.sent \in Objects
    /\ calls \in 0 .. MaxCalls
    /\ lost = [mem |-> lost.mem, handles |-> lost.handles]

\* Nothing goes wrong at the border: no block is freed and no handle dropped that
\* is not held, whatever is moved, assigned, unwrapped and destroyed in which order
\* (imports.c 66-147, the destructors of view.hpp and resources.hpp), and the
\* worker sees the parameters, the arrays and the object that it was asked about.
NothingTwice == faults = {}

\* What the worker stores in RET_AREA is what the program gets, though the area is
\* shared by all imports and holds the words of earlier answers (imports.c 177-675).
AnswerArrives ==
    call.at = "back" => /\ IsSome(area) <=> call.sent # Blank
                        /\ IsSome(area) => Lifted = call.sent

\* No two variables would give back the same memory or the same handle, and what
\* they would give back is there (the move constructors and assignments of
\* view.hpp 244-319 and resources.hpp).
OneOwner ==
    \A x \in Vars :
        /\ Owned(x) \subseteq DOMAIN heap
        /\ \A h \in HandlesOf(x) : h \in Handles /\ held[h] = var[x].obj.kind
        /\ \A y \in Vars \ {x} :
              Owned(x) \cap Owned(y) = {} /\ HandlesOf(x) \cap HandlesOf(y) = {}

\* All memory and all handles belong to a variable or to the call in progress, but
\* for what was overwritten by an assignment onto an object that still held it
\* (view.hpp 255, 272, 295, 316, resources.hpp 53, 183): nothing else leaks.
OnlyAssignmentsLeak ==
    /\ DOMAIN heap = (UNION {Owned(x) : x \in Vars})
                        \cup call.mem \cup Frees(heap, call.sent) \cup lost.mem
    /\ {h \in Handles : held[h] # "none"}
          = (UNION {HandlesOf(x) : x \in Vars}) \cup Drops(call.sent) \cup lost.handles

\* A whole in parts of which no two meet: what each variable has, and the rest.
Split(all, share, a, b, c) ==
    /\ \A e \in all : (\E x \in Vars : e \in share[x]) \/ e \in a \/ e \in b \/ e \in c
    /\ \A x \in Vars : share[x] \subseteq all \ (a \cup b \cup c)
    /\ \A x, y \in Vars : x # y => share[x] \cap share[y] = {}
    /\ a \subseteq all \ (b \cup c) /\ b \subseteq all \ c /\ c \subseteq all

\* The allocated memory, and the handles given out.
MemoryIsSplit ==
    Split(DOMAIN heap, [x \in Vars |-> Owned(x)], call.mem, Frees(heap, call.sent), lost.mem)
HandlesAreSplit ==
    Split({h \in Handles : held[h] # "none"}, [x \in Vars |-> HandlesOf(x)], {},
          Drops(call.sent), lost.handles)

\* A handle stands for an object of its owner's class.
HandlesAreKnown ==
    /\ \A x \in Vars : \A h \in HandlesOf(x) : held[h] = var[x].obj.kind
    /\ \A h \in Drops(call.sent) : held[h] = call.sent.kind

\* What holds nothing owns nothing.
NothingInside ==
    \A x \in Vars :
        /\ var[x].is = "empty" => var[x].obj = Blank
        /\ var[x].is = "none" => var[x].obj = [Blank EXCEPT !.kind = var[x].obj.kind]

\* The call in progress, by how far it has come.
CallsInto == {"data_frame_new", "storage_new", "choice_nodes", "query_kv", "query_nodes",
              "query_neighbors"}
CallInProgress ==
    /\ call.at = "idle" => call = NoCall
    /\ call.at = "host" => call.sent = Blank /\ ParamArrives /\ SelfKnown
    /\ call.at \in {"host", "back"} =>
          /\ call.fn \in CallsInto \cup {"data_frame_push", "data_frame_size", "update_kv"}
          /\ call.into \in Vars <=> call.fn \in CallsInto
          /\ call.into \in Vars => var[call.into].is = "empty"
          /\ call.into \notin Vars => call.sent \in {Blank, CountOf(9)}

\* The inductive invariant: memory and handles are split among the variables, the
\* call in progress and what has been lost.
ObjectsInvariant ==
    /\ MemoryIsSplit /\ HandlesAreSplit /\ HandlesAreKnown
    /\ NothingInside /\ CallInProgress
    /\ NothingTwice /\ AnswerArrives

\* A view copies pointers (view.hpp 256, 277, 317): it is good until the memory is
\* freed, and that happens only when the object that owns it by then is destroyed,
\* never when it is moved, unwrapped or assigned, and never in a call.
ViewsHold ==
    [][\A b \in DOMAIN heap \ DOMAIN heap' :
          \/ b \in call.mem
          \/ \E x \in Vars : /\ b \in Owned(x)
                             /\ \A y \in Vars : var'[y].obj # var[x].obj]_vars
=============================================================================
