------------------------- MODULE GuestObjects_proofs -------------------------
(***************************************************************************)
(* What is proved of the objects of a guest, for any number of variables,  *)
(* handles and calls and answers of any shape: types, that every block of  *)
(* memory and every handle has one owner or was lost by an assignment,     *)
(* that nothing is given back twice, that answers arrive as the worker     *)
(* gave them, and that views hold as long as their owner.                  *)
(***************************************************************************)
EXTENDS GuestObjects, TLAPS

-----------------------------------------------------------------------------
(* What the steps do to a whole split among the variables.                 *)

\* A call that begins holds what is new.
LEMMA SplitCall ==
    ASSUME NEW all, NEW f, NEW c, NEW N, Split(all, f, {}, {}, c), N \cap all = {}
    PROVE  Split(all \cup N, f, N, {}, c)
BY DEF Split

\* So does its answer.
LEMMA SplitAnswer ==
    ASSUME NEW all, NEW f, NEW a, NEW c, NEW N, Split(all, f, a, {}, c), N \cap all = {}
    PROVE  Split(all \cup N, f, a, N, c)
BY DEF Split

\* At the end of a call its arrays are given back and a variable gets the answer.
LEMMA SplitReturn ==
    ASSUME NEW all, NEW f, NEW a, NEW b, NEW c, Split(all, f, a, b, c),
           NEW x \in Vars, NEW g, f[x] = {},
           \A z \in Vars : g[z] = IF z = x THEN b ELSE f[z]
    PROVE  Split(all \ a, g, {}, {}, c)
BY DEF Split

\* Or nobody gets one.
LEMMA SplitEnd ==
    ASSUME NEW all, NEW f, NEW a, NEW c, Split(all, f, a, {}, c)
    PROVE  Split(all \ a, f, {}, {}, c)
BY DEF Split

\* A move takes the share of one variable to another that has none.
LEMMA SplitMove ==
    ASSUME NEW all, NEW f, NEW a, NEW b, NEW c, Split(all, f, a, b, c),
           NEW x \in Vars, NEW y \in Vars, NEW g, x # y, f[y] = {},
           \A z \in Vars : g[z] = IF z = y THEN f[x] ELSE IF z = x THEN {} ELSE f[z]
    PROVE  Split(all, g, a, b, c)
BY DEF Split

\* What an assignment overwrites is lost.
LEMMA SplitLose ==
    ASSUME NEW all, NEW f, NEW a, NEW b, NEW c, Split(all, f, a, b, c),
           NEW x \in Vars, NEW g,
           \A z \in Vars : g[z] = IF z = x THEN {} ELSE f[z]
    PROVE  Split(all, g, a, b, c \cup f[x])
BY DEF Split

\* What a destructor gives back is no longer there.
LEMMA SplitLeave ==
    ASSUME NEW all, NEW f, NEW a, NEW b, NEW c, Split(all, f, a, b, c),
           NEW x \in Vars, NEW g,
           \A z \in Vars : g[z] = IF z = x THEN {} ELSE f[z]
    PROVE  Split(all \ f[x], g, a, b, c)
BY DEF Split

\* Only the shares matter.
LEMMA SplitSame ==
    ASSUME NEW all, NEW f, NEW a, NEW b, NEW c, Split(all, f, a, b, c), NEW g,
           \A z \in Vars : g[z] = f[z]
    PROVE  Split(all, g, a, b, c)
BY DEF Split

-----------------------------------------------------------------------------
(* Objects and what they give back.                                        *)

\* The objects that calls and variables begin with.
LEMMA ObjectTypes ==
    /\ Blank \in Objects
    /\ \A o \in Objects : Moved(o) \in Objects /\ Moved(o).kind = o.kind
    /\ \A k \in Kinds : [Blank EXCEPT !.kind = k] \in Objects
<1>1. Blank \in Objects
      BY DEF Blank, Objects, NoVector, NoList, Kinds, Tags, Nil, Txt, Null
<1>2. ASSUME NEW o \in Objects
      PROVE  Moved(o) \in Objects /\ Moved(o).kind = o.kind
  <2>1. RowMoved(o) \in Objects /\ TableMoved(o) \in Objects
        /\ RowMoved(o).kind = o.kind /\ TableMoved(o).kind = o.kind
        BY DEF RowMoved, TableMoved, Objects, NoList, Null
  <2>2. VectorMoved(o) \in Objects /\ VectorMoved(o).kind = o.kind
        BY DEF VectorMoved, Objects, Tags, Nil, Txt
  <2>3. TableMoved(VectorMoved(o)) \in Objects /\ TableMoved(VectorMoved(o)).kind = o.kind
        BY <2>2 DEF TableMoved, Objects, NoList, Null
  <2>4. DataFrameMoved(o) \in Objects /\ StorageMoved(o) \in Objects
        /\ DataFrameMoved(o).kind = o.kind /\ StorageMoved(o).kind = o.kind
        BY DEF DataFrameMoved, StorageMoved, Objects
  <2> QED BY <2>1, <2>2, <2>3, <2>4 DEF Moved
<1>3. ASSUME NEW k \in Kinds
      PROVE  [Blank EXCEPT !.kind = k] \in Objects
      BY <1>1 DEF Objects
<1> QED BY <1>1, <1>2, <1>3

\* What an object gives back, class by class.
LEMMA FreesByKind ==
    ASSUME NEW mem, NEW o
    PROVE  /\ o.kind = "row" => Frees(mem, o) = RowFree(mem, o.a) \ {Null}
           /\ o.kind = "vector" => Frees(mem, o) = VectorFree(mem, o.v) \ {Null}
           /\ o.kind = "neighbors" =>
                 Frees(mem, o) = (VectorFree(mem, o.v) \cup TableFree(mem, o.a)) \ {Null}
           /\ o.kind \notin {"row", "vector", "neighbors"} => Frees(mem, o) = {}
BY DEF Frees

\* Freeing an array frees what its cells hold and the array.
LEMMA FreeMembers ==
    ASSUME NEW mem, NEW l
    PROVE  /\ \A e : e \in RowFree(mem, l)
                     <=> e = l.ptr \/ \E item \in Cells(mem, l) : e \in ItemFree(item)
           /\ \A e : e \in TableFree(mem, l)
                     <=> e = l.ptr \/ \E series \in Cells(mem, l) : e \in SeriesFree(mem, series)
           /\ \A e : e \in ListStringFree(mem, l)
                     <=> e = l.ptr \/ \E s \in Cells(mem, l) : e = s.ptr
<1>1. ASSUME NEW e
      PROVE  e \in RowFree(mem, l)
                <=> e = l.ptr \/ \E item \in Cells(mem, l) : e \in ItemFree(item)
  <2> DEFINE parts == {ItemFree(item) : item \in Cells(mem, l)}
  <2>1. ASSUME e \in UNION parts
        PROVE  \E item \in Cells(mem, l) : e \in ItemFree(item)
        BY <2>1, Zenon
  <2>2. ASSUME NEW item \in Cells(mem, l), e \in ItemFree(item)
        PROVE  e \in UNION parts
        BY <2>2, Zenon
  <2>3. RowFree(mem, l) = (UNION parts) \cup {l.ptr}
        BY Zenon DEF RowFree
  <2> HIDE DEF parts
  <2> QED BY <2>1, <2>2, <2>3
<1>2. ASSUME NEW e
      PROVE  e \in TableFree(mem, l)
                <=> e = l.ptr \/ \E series \in Cells(mem, l) : e \in SeriesFree(mem, series)
  <2> DEFINE parts == {SeriesFree(mem, series) : series \in Cells(mem, l)}
  <2>1. ASSUME e \in UNION parts
        PROVE  \E series \in Cells(mem, l) : e \in SeriesFree(mem, series)
        BY <2>1, Zenon
  <2>2. ASSUME NEW series \in Cells(mem, l), e \in SeriesFree(mem, series)
        PROVE  e \in UNION parts
        BY <2>2, Zenon
  <2>3. TableFree(mem, l) = (UNION parts) \cup {l.ptr}
        BY Zenon DEF TableFree
  <2> HIDE DEF parts
  <2> QED BY <2>1, <2>2, <2>3
<1>3. ASSUME NEW e
      PROVE  e \in ListStringFree(mem, l)
                <=> e = l.ptr \/ \E s \in Cells(mem, l) : e \in StringFree(s)
  <2> DEFINE parts == {StringFree(s) : s \in Cells(mem, l)}
  <2>1. ASSUME e \in UNION parts
        PROVE  \E s \in Cells(mem, l) : e \in StringFree(s)
        BY <2>1, Zenon
  <2>2. ASSUME NEW s \in Cells(mem, l), e \in StringFree(s)
        PROVE  e \in UNION parts
        BY <2>2, Zenon
  <2>3. ListStringFree(mem, l) = (UNION parts) \cup {l.ptr}
        BY Zenon DEF ListStringFree
  <2> HIDE DEF parts
  <2> QED BY <2>1, <2>2, <2>3
<1>4. \A s : StringFree(s) = {s.ptr}
      BY DEF StringFree
<1> QED BY <1>1, <1>2, <1>3, <1>4

\* An empty array has no cells.
LEMMA NoListFrees ==
    ASSUME NEW mem, NEW l, l = NoList
    PROVE  RowFree(mem, l) = {Null} /\ TableFree(mem, l) = {Null}
<1>1. l.ptr = Null /\ l.len = 0
      BY DEF NoList
<1>2. Cells(mem, l) = {}
  <2>1. 1 .. l.len = {}
        BY <1>1
  <2> QED BY <2>1, Zenon DEF Cells
<1> QED BY <1>1, <1>2, FreeMembers

\* What an object that was moved from still has.
LEMMA MovedParts ==
    ASSUME NEW o \in Objects
    PROVE  /\ Moved(o).kind = o.kind
           /\ o.kind \in {"row", "neighbors"} => Moved(o).a = NoList
           /\ o.kind \in {"vector", "neighbors"} => Moved(o).v.tag = Nil
           /\ o.kind \in {"data_frame", "storage"} => Moved(o).owner = FALSE
<1>1. CASE o.kind = "row"
      BY <1>1 DEF Moved, RowMoved, Objects
<1>2. CASE o.kind = "vector"
      BY <1>2 DEF Moved, VectorMoved, Objects
<1>3. CASE o.kind = "neighbors"
      BY <1>3 DEF Moved, VectorMoved, TableMoved, Objects
<1>4. CASE o.kind = "data_frame"
      BY <1>4 DEF Moved, DataFrameMoved, Objects
<1>5. CASE o.kind = "storage"
      BY <1>5 DEF Moved, StorageMoved, Objects
<1>6. CASE o.kind \in {"none", "count"}
      BY <1>6 DEF Moved
<1> QED BY <1>1, <1>2, <1>3, <1>4, <1>5, <1>6 DEF Objects, Kinds

\* An object that was moved from gives nothing back.
LEMMA MovedIsEmpty ==
    ASSUME NEW mem, NEW o \in Objects
    PROVE  Frees(mem, Moved(o)) = {} /\ Drops(Moved(o)) = {}
<1>1. Frees(mem, Moved(o)) = {}
  <2>1. \A v : v.tag = Nil => VectorFree(mem, v) = {}
        BY DEF VectorFree, Nil, Txt
  <2>2. o.kind \in {"row", "neighbors"} => /\ RowFree(mem, Moved(o).a) = {Null}
                                           /\ TableFree(mem, Moved(o).a) = {Null}
        BY MovedParts, NoListFrees
  <2>3. Moved(o).kind = o.kind
        BY MovedParts
  <2>4. o.kind \in {"vector", "neighbors"} => VectorFree(mem, Moved(o).v) = {}
        BY <2>1, MovedParts
  <2> QED BY <2>2, <2>3, <2>4, FreesByKind
<1>2. Drops(Moved(o)) = {}
      BY MovedParts DEF Drops, DataFrameFree, StorageFree
<1> QED BY <1>1, <1>2

\* Neither does one that never held anything.
LEMMA BlankIsEmpty ==
    ASSUME NEW mem,
           NEW o, \/ o = Blank
                  \/ o = [Blank EXCEPT !.kind = o.kind]
                  \/ o = CountOf(9)
    PROVE  Frees(mem, o) = {} /\ Drops(o) = {}
<1>1. o.a = NoList /\ o.v.tag = Nil /\ o.owner = FALSE
  <2>1. CASE o = Blank
        BY <2>1 DEF Blank, NoVector
  <2>2. CASE o = [Blank EXCEPT !.kind = o.kind]
    <3>1. PICK k : k = o.kind
          OBVIOUS
    <3> QED BY <2>2, <3>1 DEF Blank, NoVector
  <2>3. CASE o = CountOf(9)
        BY <2>3 DEF Blank, NoVector, CountOf
  <2> QED BY <2>1, <2>2, <2>3
<1>2. VectorFree(mem, o.v) = {}
      BY <1>1 DEF VectorFree, Nil, Txt
<1>3. Frees(mem, o) = {}
      BY <1>1, <1>2, FreesByKind, NoListFrees
<1>4. Drops(o) = {}
      BY <1>1 DEF Drops, DataFrameFree, StorageFree
<1> QED BY <1>3, <1>4

-----------------------------------------------------------------------------
(* Memory that is freed or allocated elsewhere does not matter to an       *)
(* object.                                                                 *)

\* A block is the same in two memories, or there is none.
Alike(m, n, p) == p = Null \/ (p \in DOMAIN m /\ p \in DOMAIN n /\ n[p] = m[p])

\* So are then the cells of an array.
LEMMA SameCells ==
    ASSUME NEW m, NEW n, NEW l, Null \notin DOMAIN m, Null \notin DOMAIN n, Alike(m, n, l.ptr)
    PROVE  Cells(n, l) = Cells(m, l)
<1>1. \A i : CellAt(n, l.ptr, i) = CellAt(m, l.ptr, i)
      BY DEF Alike, CellAt
<1> QED BY <1>1, Zenon DEF Cells

\* A vector's memory.
LEMMA SameVector ==
    ASSUME NEW m, NEW n, NEW v, Null \notin DOMAIN m, Null \notin DOMAIN n,
           \A p \in VectorFree(m, v) : Alike(m, n, p)
    PROVE  VectorFree(n, v) = VectorFree(m, v)
<1>1. CASE v.tag = Txt
  <2>1. VectorFree(m, v) = ListStringFree(m, v) /\ VectorFree(n, v) = ListStringFree(n, v)
        BY <1>1 DEF VectorFree, Nil, Txt
  <2>2. Alike(m, n, v.ptr)
        BY <2>1, FreeMembers
  <2>3. Cells(n, v) = Cells(m, v)
        BY <2>2, SameCells
  <2> QED BY <2>1, <2>3 DEF ListStringFree
<1>2. CASE v.tag # Txt
      BY <1>2 DEF VectorFree
<1> QED BY <1>1, <1>2

\* A row's.
LEMMA SameRow ==
    ASSUME NEW m, NEW n, NEW l, Null \notin DOMAIN m, Null \notin DOMAIN n,
           \A p \in RowFree(m, l) : Alike(m, n, p)
    PROVE  RowFree(n, l) = RowFree(m, l)
<1>1. Alike(m, n, l.ptr)
      BY FreeMembers
<1>2. Cells(n, l) = Cells(m, l)
      BY <1>1, SameCells
<1> QED BY <1>2 DEF RowFree

\* A table's, whose cells have vectors.
LEMMA SameTable ==
    ASSUME NEW m, NEW n, NEW l, Null \notin DOMAIN m, Null \notin DOMAIN n,
           \A p \in TableFree(m, l) : Alike(m, n, p)
    PROVE  TableFree(n, l) = TableFree(m, l)
<1>1. Alike(m, n, l.ptr)
      BY FreeMembers
<1>2. Cells(n, l) = Cells(m, l)
      BY <1>1, SameCells
<1>3. ASSUME NEW series \in Cells(m, l)
      PROVE  SeriesFree(n, series) = SeriesFree(m, series)
  <2>1. \A p \in VectorFree(m, series.val) : p \in TableFree(m, l)
        BY FreeMembers DEF SeriesFree
  <2>2. VectorFree(n, series.val) = VectorFree(m, series.val)
        BY <2>1, SameVector
  <2> QED BY <2>2 DEF SeriesFree
<1>4. \A e : e \in TableFree(n, l) <=> e \in TableFree(m, l)
      BY <1>2, <1>3, FreeMembers
<1> QED BY <1>4

\* An object's.
LEMMA SameFrees ==
    ASSUME NEW m, NEW n, NEW o, Null \notin DOMAIN m, Null \notin DOMAIN n,
           \A p \in Frees(m, o) : p \in DOMAIN m /\ p \in DOMAIN n /\ n[p] = m[p]
    PROVE  Frees(n, o) = Frees(m, o)
<1>1. CASE o.kind = "row"
  <2>1. \A p \in RowFree(m, o.a) : Alike(m, n, p)
        BY <1>1, FreesByKind DEF Alike
  <2> QED BY <1>1, <2>1, FreesByKind, SameRow
<1>2. CASE o.kind = "vector"
  <2>1. \A p \in VectorFree(m, o.v) : Alike(m, n, p)
        BY <1>2, FreesByKind DEF Alike
  <2> QED BY <1>2, <2>1, FreesByKind, SameVector
<1>3. CASE o.kind = "neighbors"
  <2>1. /\ \A p \in VectorFree(m, o.v) : Alike(m, n, p)
        /\ \A p \in TableFree(m, o.a) : Alike(m, n, p)
        BY <1>3, FreesByKind DEF Alike
  <2> QED BY <1>3, <2>1, FreesByKind, SameVector, SameTable
<1>4. CASE o.kind \notin {"row", "vector", "neighbors"}
      BY <1>4, FreesByKind
<1> QED BY <1>1, <1>2, <1>3, <1>4

-----------------------------------------------------------------------------
(* Memory grows by what is allocated and shrinks by what is given back.    *)

\* Adding blocks.
LEMMA OverMembers ==
    ASSUME NEW f, NEW g
    PROVE  /\ DOMAIN Over(f, g) = DOMAIN f \cup DOMAIN g
           /\ \A b \in DOMAIN f : b \notin DOMAIN g => Over(f, g)[b] = f[b]
           /\ \A b \in DOMAIN g : Over(f, g)[b] = g[b]
BY DEF Over

\* New blocks change nothing for an object that is there.
LEMMA Grown ==
    ASSUME NEW m, NEW g, NEW o, Null \notin DOMAIN m, Null \notin DOMAIN g,
           DOMAIN m \cap DOMAIN g = {}, Frees(m, o) \subseteq DOMAIN m
    PROVE  Frees(Over(m, g), o) = Frees(m, o)
<1>1. Null \notin DOMAIN Over(m, g)
      BY OverMembers
<1>2. \A p \in Frees(m, o) : p \in DOMAIN m /\ p \in DOMAIN Over(m, g) /\ Over(m, g)[p] = m[p]
      BY OverMembers
<1> QED BY <1>1, <1>2, SameFrees

\* Nor does it when others give their memory back.
LEMMA Shrunk ==
    ASSUME NEW m, NEW gone, NEW o, Null \notin DOMAIN m,
           Frees(m, o) \subseteq DOMAIN m \ gone
    PROVE  Frees([b \in DOMAIN m \ gone |-> m[b]], o) = Frees(m, o)
<1>1. Null \notin DOMAIN [b \in DOMAIN m \ gone |-> m[b]]
      OBVIOUS
<1>2. \A p \in Frees(m, o) : /\ p \in DOMAIN m /\ p \in DOMAIN [b \in DOMAIN m \ gone |-> m[b]]
                            /\ [b \in DOMAIN m \ gone |-> m[b]][p] = m[p]
      OBVIOUS
<1> QED BY <1>1, <1>2, SameFrees

\* Block 0 is not allocated, and the parts of the memory are in it.
LEMMA Inside ==
    ASSUME TypeOK, ObjectsInvariant
    PROVE  /\ Null \notin DOMAIN heap
           /\ call.mem \subseteq DOMAIN heap
           /\ Frees(heap, call.sent) \subseteq DOMAIN heap \ call.mem
           /\ \A x \in Vars : Owned(x) \subseteq DOMAIN heap \ (call.mem \cup Frees(heap, call.sent))
           /\ \A x, y \in Vars : x # y => Owned(x) \cap Owned(y) = {}
<1>1. Null \notin DOMAIN heap
      BY DEF TypeOK, Null
<1> QED BY <1>1 DEF ObjectsInvariant, MemoryIsSplit, Split

-----------------------------------------------------------------------------
(* The steps.                                                              *)

\* What each variable has of the memory and of the handles.
Shares == [x \in Vars |-> Owned(x)]
HandleShares == [x \in Vars |-> HandlesOf(x)]
Given == {h \in Handles : held[h] # "none"}

\* An import is called.
LEMMA BeginStep ==
    ASSUME TypeOK, ObjectsInvariant,
           NEW fn, NEW self, NEW into, NEW param, NEW arrays,
           Called(fn, self, into, param, arrays), Len(arrays) \in Nat,
           fn \in CallsInto \cup {"data_frame_push", "data_frame_size", "update_kv"},
           into \in Vars <=> fn \in CallsInto,
           into \in Vars => var[into].is = "empty",
           ParamArrives', SelfKnown'
    PROVE  TypeOK' /\ ObjectsInvariant'
<1> DEFINE new == DOMAIN Arrays(arrays)
<1>1. call = NoCall /\ call.mem = {} /\ call.sent = Blank
      BY DEF Called, ObjectsInvariant, CallInProgress, NoCall
<1>2. new = (next + 1) .. (next + Len(arrays))
      BY DEF Arrays
<1>3. DOMAIN heap' = DOMAIN heap \cup new /\ new \cap DOMAIN heap = {} /\ Null \notin new
  <2>1. heap' = Over(heap, Arrays(arrays))
        BY DEF Called
  <2>2. new \cap DOMAIN heap = {} /\ Null \notin new
        BY <1>2 DEF TypeOK, Null
  <2> HIDE DEF new
  <2>3. DOMAIN heap' = DOMAIN heap \cup new
        BY <2>1, OverMembers DEF new
  <2> QED BY <2>2, <2>3
<1>4. call'.mem = new /\ call'.sent = Blank /\ UNCHANGED <<var, held, lost, faults>>
      BY DEF Called
<1>5. \A x \in Vars : Owned(x)' = Owned(x)
      BY <1>3, <1>4, Grown, Inside DEF Owned, Called
<1>6. MemoryIsSplit'
  <2>1. Split(DOMAIN heap, Shares, {}, {}, lost.mem)
        BY <1>1, BlankIsEmpty DEF ObjectsInvariant, MemoryIsSplit, Shares
  <2>2. Split(DOMAIN heap', Shares, new, {}, lost.mem)
        BY <1>3, <2>1, SplitCall
  <2>3. Split(DOMAIN heap', Shares', new, {}, lost.mem)
        BY <1>5, <2>2, SplitSame DEF Shares
  <2> QED BY <1>4, <2>3, BlankIsEmpty DEF MemoryIsSplit, Shares
<1>7. HandlesAreSplit' /\ HandlesAreKnown' /\ NothingInside' /\ NothingTwice'
      BY <1>1, <1>4 DEF ObjectsInvariant, HandlesAreSplit, HandlesAreKnown, NothingInside,
         NothingTwice, HandlesOf
<1>8. CallInProgress' /\ AnswerArrives'
      BY <1>4 DEF CallInProgress, AnswerArrives, Called
<1>9. TypeOK'
  <2>1. next' \in Nat /\ DOMAIN heap' \subseteq 1 .. next'
        BY <1>2, <1>3 DEF TypeOK, Called
  <2>2. calls' \in 0 .. MaxCalls
        BY ObjectsAssumption DEF TypeOK, Called, ObjectsAssumption
  <2>3. /\ call' = [at |-> call'.at, fn |-> call'.fn, self |-> call'.self, into |-> call'.into,
                    param |-> call'.param, mem |-> call'.mem, sent |-> call'.sent]
        /\ call'.at = "host"
        BY DEF Called
  <2> QED BY <1>4, <2>1, <2>2, <2>3, ObjectTypes DEF TypeOK
<1> QED BY <1>6, <1>7, <1>8, <1>9 DEF ObjectsInvariant

\* The worker answers.
LEMMA AnswerStep ==
    ASSUME TypeOK, ObjectsInvariant,
           NEW some \in BOOLEAN, NEW o \in Objects, NEW words, NEW blocks, NEW table,
           Answers(some, o, words, blocks, table),
           next' \in Nat, next' >= next, DOMAIN blocks \subseteq (next + 1) .. next',
           Frees(heap', o) = DOMAIN blocks,
           some <=> o # Blank, IsSome(area') <=> some, some => Lifted' = o,
           table \in [Handles -> {"none", "data_frame", "storage"}],
           \A h \in Drops(o) : h \in Handles /\ held[h] = "none" /\ table[h] = o.kind,
           \A h \in Handles \ Drops(o) : table[h] = held[h],
           call.into \notin Vars => o \in {Blank, CountOf(9)}
    PROVE  TypeOK' /\ ObjectsInvariant'
<1> DEFINE new == DOMAIN blocks
<1>1. call.at = "host" /\ call.sent = Blank /\ Drops(call.sent) = {} /\ Frees(heap, call.sent) = {}
      BY BlankIsEmpty DEF Answers, ObjectsInvariant, CallInProgress
<1>2. /\ call'.at = "back" /\ call'.sent = o
      /\ call'.mem = call.mem /\ call'.fn = call.fn /\ call'.into = call.into
      /\ call' = [at |-> call'.at, fn |-> call'.fn, self |-> call'.self, into |-> call'.into,
                  param |-> call'.param, mem |-> call'.mem, sent |-> call'.sent]
      BY DEF Answers, TypeOK
<1>3. held' = table /\ heap' = Over(heap, blocks) /\ UNCHANGED <<var, calls, lost>>
      BY DEF Answers
<1>4. new \cap DOMAIN heap = {} /\ Null \notin new
      BY DEF TypeOK, Null
<1>5. DOMAIN heap' = DOMAIN heap \cup new
      BY <1>3, OverMembers
<1>6. \A x \in Vars : Owned(x)' = Owned(x)
      BY <1>3, <1>4, Grown, Inside DEF Owned
<1>7. MemoryIsSplit'
  <2> HIDE DEF new
  <2>1. Split(DOMAIN heap, Shares, call.mem, {}, lost.mem)
        BY <1>1 DEF ObjectsInvariant, MemoryIsSplit, Shares
  <2>2. Split(DOMAIN heap', Shares, call.mem, new, lost.mem)
        BY <1>4, <1>5, <2>1, SplitAnswer
  <2>3. Split(DOMAIN heap', Shares', call.mem, new, lost.mem)
        BY <1>6, <2>2, SplitSame DEF Shares
  <2> QED BY <1>2, <1>3, <2>3 DEF MemoryIsSplit, Shares, new
<1>8. HandlesAreSplit'
  <2>1. Given' = Given \cup Drops(o) /\ Drops(o) \cap Given = {}
    <3>1. o.kind # "none" \/ Drops(o) = {}
          BY DEF Drops, DataFrameFree, StorageFree
    <3> QED BY <1>3, <3>1 DEF Given
  <2>2. Split(Given, HandleShares, {}, {}, lost.handles)
        BY <1>1 DEF ObjectsInvariant, HandlesAreSplit, Given, HandleShares
  <2>3. Split(Given', HandleShares, {}, Drops(o), lost.handles)
        BY <2>1, <2>2, SplitAnswer
  <2>4. Split(Given', HandleShares', {}, Drops(o), lost.handles)
        BY <1>3, <2>3 DEF HandleShares, HandlesOf
  <2> QED BY <1>2, <1>3, <2>4 DEF HandlesAreSplit, Given, HandleShares
<1>9. HandlesAreKnown'
  <2>1. ASSUME NEW x \in Vars, NEW h \in HandlesOf(x)
        PROVE  table[h] = var[x].obj.kind
    <3>1. h \in Handles /\ held[h] # "none" /\ held[h] = var[x].obj.kind
          BY <2>1 DEF ObjectsInvariant, HandlesAreSplit, Split, HandlesAreKnown
    <3> QED BY <3>1
  <2> QED BY <1>2, <1>3, <2>1 DEF HandlesAreKnown, HandlesOf
<1>10. NothingInside' /\ NothingTwice'
  <2>1. ParamArrives /\ SelfKnown /\ call.mem \subseteq DOMAIN heap
        BY <1>1, Inside DEF ObjectsInvariant, CallInProgress
  <2> QED BY <1>3, <2>1 DEF Answers, ObjectsInvariant, NothingInside, NothingTwice
<1>11. CallInProgress' /\ AnswerArrives'
      BY <1>1, <1>2, <1>3 DEF CallInProgress, AnswerArrives, ObjectsInvariant
<1>12. TypeOK'
  <2>1. DOMAIN heap' \subseteq 1 .. next'
        BY <1>5 DEF TypeOK
  <2> QED BY <1>2, <1>3, <2>1 DEF TypeOK
<1> QED BY <1>7, <1>8, <1>9, <1>10, <1>11, <1>12 DEF ObjectsInvariant

\* What a variable may hold.
Contents == [is : {"empty", "none", "some", "object"}, obj : Objects]

\* The variable an answer is for holds nothing.
LEMMA EmptyForAnswer ==
    ASSUME ObjectsInvariant, call.at \in {"host", "back"}, call.into \in Vars
    PROVE  var[call.into].obj = Blank
<1>1. var[call.into].is = "empty"
      BY DEF ObjectsInvariant, CallInProgress
<1>2. NothingInside
      BY DEF ObjectsInvariant
<1> QED BY <1>1, <1>2, Zenon DEF NothingInside

\* A call ends: its arrays are given back, and what the worker gave is in a variable,
\* or it was nothing to be owned.
LEMMA ReturnStep ==
    ASSUME TypeOK, ObjectsInvariant, call.at = "back",
           NEW content \in Contents,
           heap' = [b \in DOMAIN heap \ call.mem |-> heap[b]],
           call' = NoCall, UNCHANGED <<next, calls, held, lost, faults>>,
           var' = IF call.into \in Vars THEN [var EXCEPT ![call.into] = content] ELSE var,
           \/ content.is = "some" /\ content.obj = call.sent
           \/ /\ call.sent = Blank
              /\ content.is = "none"
              /\ content.obj = [Blank EXCEPT !.kind = content.obj.kind]
    PROVE  TypeOK' /\ ObjectsInvariant'
<1> DEFINE F == Frees(heap, call.sent)
           D == Drops(call.sent)
<1>1. \A o : Frees(heap, o) \subseteq DOMAIN heap \ call.mem => Frees(heap', o) = Frees(heap, o)
      BY Inside, Shrunk
<1>2. Frees(heap', content.obj) = F /\ Drops(content.obj) = D
  <2>1. CASE content.obj = call.sent
        BY <1>1, <2>1, Inside
  <2>2. CASE call.sent = Blank /\ content.obj = [Blank EXCEPT !.kind = content.obj.kind]
        BY <2>2, BlankIsEmpty
  <2> QED BY <2>1, <2>2
<1>3. \A x \in Vars : Frees(heap', var[x].obj) = Owned(x)
      BY <1>1, Inside DEF Owned
<1>4. call'.mem = {} /\ call'.sent = Blank /\ Frees(heap', call'.sent) = {} /\ Drops(call'.sent) = {}
      BY BlankIsEmpty DEF NoCall
<1>5. DOMAIN heap' = DOMAIN heap \ call.mem
      OBVIOUS
<1>6. CASE call.into \in Vars
  <2>1. var[call.into].obj = Blank
        BY <1>6, EmptyForAnswer
  <2>2. /\ \A z \in Vars : var'[z] = IF z = call.into THEN content ELSE var[z]
        /\ var' \in [Vars -> Contents]
        BY <1>6 DEF TypeOK, Contents
  <2>3. MemoryIsSplit'
    <3>1. Split(DOMAIN heap, Shares, call.mem, F, lost.mem)
          BY DEF ObjectsInvariant, MemoryIsSplit, Shares
    <3>2. Shares[call.into] = {}
          BY <1>6, <2>1, BlankIsEmpty DEF Shares, Owned
    <3>3. \A z \in Vars : Shares'[z] = IF z = call.into THEN F ELSE Shares[z]
          BY <1>2, <1>3, <2>2 DEF Shares, Owned
    <3> HIDE DEF F
    <3> DEFINE all == DOMAIN heap
               g == Shares'
    <3>4. /\ Split(all, Shares, call.mem, F, lost.mem)
          /\ \A z \in Vars : g[z] = IF z = call.into THEN F ELSE Shares[z]
          BY <3>1, <3>3
    <3> HIDE DEF all, g
    <3>5. Split(all \ call.mem, g, {}, {}, lost.mem)
          BY <1>6, <3>2, <3>4 DEF Split
    <3> QED BY <1>4, <1>5, <3>5 DEF MemoryIsSplit, Shares, all, g
  <2>4. HandlesAreSplit'
    <3>1. Split(Given, HandleShares, {}, D, lost.handles)
          BY DEF ObjectsInvariant, HandlesAreSplit, HandleShares, Given
    <3>2. HandleShares[call.into] = {}
          BY <1>6, <2>1, BlankIsEmpty DEF HandleShares, HandlesOf
    <3>3. \A z \in Vars : HandleShares'[z] = IF z = call.into THEN D ELSE HandleShares[z]
          BY <1>2, <2>2 DEF HandleShares, HandlesOf
    <3>4. Split(Given \ {}, HandleShares', {}, {}, lost.handles)
          BY <1>6, <3>1, <3>2, <3>3, SplitReturn
    <3>5. Given \ {} = Given
          OBVIOUS
    <3> QED BY <1>4, <3>4, <3>5 DEF HandlesAreSplit, HandleShares, Given
  <2>5. HandlesAreKnown'
        BY <1>2, <1>4, <2>2, BlankIsEmpty DEF ObjectsInvariant, HandlesAreKnown, HandlesOf
  <2>6. NothingInside'
        BY <2>2 DEF ObjectsInvariant, NothingInside
  <2>7. TypeOK'
        BY <1>5, <2>2, ObjectTypes DEF TypeOK, Contents, NoCall
  <2> QED BY <2>3, <2>4, <2>5, <2>6, <2>7 DEF ObjectsInvariant, CallInProgress, AnswerArrives,
             NothingTwice, NoCall
<1>7. CASE call.into \notin Vars
  <2>1. UNCHANGED var /\ F = {} /\ D = {}
        BY <1>7, BlankIsEmpty DEF ObjectsInvariant, CallInProgress
  <2>2. MemoryIsSplit'
    <3>1. Split(DOMAIN heap, Shares, call.mem, {}, lost.mem)
          BY <2>1 DEF ObjectsInvariant, MemoryIsSplit, Shares
    <3>2. Split(DOMAIN heap \ call.mem, Shares, {}, {}, lost.mem)
          BY <3>1, SplitEnd
    <3>3. Split(DOMAIN heap \ call.mem, Shares', {}, {}, lost.mem)
          BY <1>3, <2>1, <3>2, SplitSame DEF Shares, Owned
    <3> QED BY <1>4, <1>5, <3>3 DEF MemoryIsSplit, Shares
  <2>3. HandlesAreSplit' /\ HandlesAreKnown' /\ NothingInside'
        BY <1>4, <2>1 DEF ObjectsInvariant, HandlesAreSplit, HandlesAreKnown, HandlesOf, NothingInside
  <2>4. TypeOK'
        BY <1>5, <2>1, ObjectTypes DEF TypeOK, NoCall
  <2> QED BY <2>2, <2>3, <2>4 DEF ObjectsInvariant, CallInProgress, AnswerArrives,
             NothingTwice, NoCall
<1> QED BY <1>6, <1>7

\* Between calls everything is the variables', or lost.
LEMMA IdleSplit ==
    ASSUME ObjectsInvariant, call.at = "idle"
    PROVE  /\ Split(DOMAIN heap, Shares, {}, {}, lost.mem)
           /\ Split(Given, HandleShares, {}, {}, lost.handles)
<1>1. call.mem = {} /\ call.sent = Blank
      BY DEF ObjectsInvariant, CallInProgress, NoCall
<1>2. Frees(heap, call.sent) = {} /\ Drops(call.sent) = {}
      BY <1>1, BlankIsEmpty
<1> QED BY <1>1, <1>2 DEF ObjectsInvariant, MemoryIsSplit, HandlesAreSplit, Shares, HandleShares,
           Given

\* Between calls the program moves and destroys its objects.
LEMMA IdleStep ==
    ASSUME TypeOK, ObjectsInvariant, call.at = "idle",
           UNCHANGED <<next, call, calls, faults>>,
           DOMAIN heap' \subseteq DOMAIN heap,
           held' \in [Handles -> {"none", "data_frame", "storage"}],
           var' \in [Vars -> Contents],
           lost' = [mem |-> lost'.mem, handles |-> lost'.handles],
           Split(DOMAIN heap', Shares', {}, {}, lost'.mem),
           Split(Given', HandleShares', {}, {}, lost'.handles),
           \A x \in Vars : \A h \in HandlesOf(x)' : held'[h] = var'[x].obj.kind,
           NothingInside'
    PROVE  TypeOK' /\ ObjectsInvariant'
<1>1. /\ call = NoCall /\ call' = NoCall /\ call'.mem = {} /\ call'.sent = Blank
      /\ Frees(heap', call'.sent) = {} /\ Drops(call'.sent) = {}
      BY BlankIsEmpty DEF ObjectsInvariant, CallInProgress, NoCall
<1>2. MemoryIsSplit' /\ HandlesAreSplit' /\ HandlesAreKnown'
      BY <1>1 DEF MemoryIsSplit, HandlesAreSplit, HandlesAreKnown, Shares, HandleShares, Given
<1>3. CallInProgress' /\ AnswerArrives' /\ NothingTwice'
      BY <1>1 DEF CallInProgress, AnswerArrives, NothingTwice, ObjectsInvariant, NoCall
<1>4. TypeOK'
      BY DEF TypeOK, Contents
<1> QED BY <1>2, <1>3, <1>4 DEF ObjectsInvariant

\* A move, and an assignment: y takes what x has, and what y had is lost.
LEMMA MoveStep ==
    ASSUME TypeOK, ObjectsInvariant, call.at = "idle",
           UNCHANGED <<next, call, calls, faults, held>>,
           NEW x \in Vars, NEW y \in Vars, x # y,
           DOMAIN heap' = DOMAIN heap, \A b \in DOMAIN heap : heap'[b] = heap[b],
           lost' = [mem |-> lost.mem \cup Owned(y), handles |-> lost.handles \cup HandlesOf(y)],
           var' \in [Vars -> Contents], NothingInside',
           var'[y].obj = var[x].obj,
           Frees(heap', var'[x].obj) = {} /\ Drops(var'[x].obj) = {},
           \A z \in Vars \ {x, y} : var'[z].obj = var[z].obj
    PROVE  TypeOK' /\ ObjectsInvariant'
<1>1. /\ Split(DOMAIN heap, Shares, {}, {}, lost.mem)
      /\ Split(Given, HandleShares, {}, {}, lost.handles)
      BY IdleSplit
<1>2. \A z \in Vars : Frees(heap', var[z].obj) = Owned(z)
      BY Inside, SameFrees DEF Owned
<1>3. Split(DOMAIN heap', Shares', {}, {}, lost'.mem)
  <2> DEFINE f == [z \in Vars |-> IF z = y THEN {} ELSE Shares[z]]
  <2>1. Split(DOMAIN heap, f, {}, {}, lost.mem \cup Shares[y])
        BY <1>1, SplitLose
  <2>2. \A z \in Vars : Shares'[z] = IF z = y THEN f[x] ELSE IF z = x THEN {} ELSE f[z]
        BY <1>2 DEF Shares, Owned
  <2>3. f[y] = {}
        OBVIOUS
  <2> HIDE DEF f
  <2>4. Split(DOMAIN heap, Shares', {}, {}, lost.mem \cup Shares[y])
        BY <2>1, <2>2, <2>3, SplitMove
  <2> QED BY <2>4 DEF Shares
<1>4. Split(Given', HandleShares', {}, {}, lost'.handles)
  <2> DEFINE f == [z \in Vars |-> IF z = y THEN {} ELSE HandleShares[z]]
  <2>1. Split(Given, f, {}, {}, lost.handles \cup HandleShares[y])
        BY <1>1, SplitLose
  <2>2. \A z \in Vars : HandleShares'[z] = IF z = y THEN f[x] ELSE IF z = x THEN {} ELSE f[z]
        BY DEF HandleShares, HandlesOf
  <2>3. f[y] = {}
        OBVIOUS
  <2> HIDE DEF f
  <2>4. Split(Given, HandleShares', {}, {}, lost.handles \cup HandleShares[y])
        BY <2>1, <2>2, <2>3, SplitMove
  <2> QED BY <2>4 DEF HandleShares, Given
<1>5. ASSUME NEW z \in Vars, NEW h \in HandlesOf(z)'
      PROVE  held'[h] = var'[z].obj.kind
      BY <1>5 DEF ObjectsInvariant, HandlesAreKnown, HandlesOf
<1> QED BY <1>3, <1>4, <1>5, IdleStep DEF TypeOK

\* An assignment of a variable to itself.
LEMMA LoseStep ==
    ASSUME TypeOK, ObjectsInvariant, call.at = "idle",
           UNCHANGED <<next, call, calls, faults, held, heap>>,
           NEW x \in Vars,
           lost' = [mem |-> lost.mem \cup Owned(x), handles |-> lost.handles \cup HandlesOf(x)],
           var' \in [Vars -> Contents], NothingInside',
           Frees(heap', var'[x].obj) = {} /\ Drops(var'[x].obj) = {},
           \A z \in Vars \ {x} : var'[z].obj = var[z].obj
    PROVE  TypeOK' /\ ObjectsInvariant'
<1>1. /\ Split(DOMAIN heap, Shares, {}, {}, lost.mem)
      /\ Split(Given, HandleShares, {}, {}, lost.handles)
      BY IdleSplit
<1>2. Split(DOMAIN heap', Shares', {}, {}, lost'.mem)
  <2>1. \A z \in Vars : Shares'[z] = IF z = x THEN {} ELSE Shares[z]
        BY DEF Shares, Owned
  <2>2. Split(DOMAIN heap, Shares', {}, {}, lost.mem \cup Shares[x])
        BY <1>1, <2>1, SplitLose
  <2> QED BY <2>2 DEF Shares
<1>3. Split(Given', HandleShares', {}, {}, lost'.handles)
  <2>1. \A z \in Vars : HandleShares'[z] = IF z = x THEN {} ELSE HandleShares[z]
        BY DEF HandleShares, HandlesOf
  <2>2. Split(Given, HandleShares', {}, {}, lost.handles \cup HandleShares[x])
        BY <1>1, <2>1, SplitLose
  <2> QED BY <2>2 DEF HandleShares, Given
<1>4. ASSUME NEW z \in Vars, NEW h \in HandlesOf(z)'
      PROVE  held'[h] = var'[z].obj.kind
      BY <1>4 DEF ObjectsInvariant, HandlesAreKnown, HandlesOf
<1> QED BY <1>2, <1>3, <1>4, IdleStep DEF TypeOK

\* A destructor gives back what its variable has.
LEMMA LeaveStep ==
    ASSUME TypeOK, ObjectsInvariant, call.at = "idle",
           UNCHANGED <<next, call, calls, lost>>,
           NEW x \in Vars,
           GivenBack(Owned(x), HandlesOf(x)),
           var' \in [Vars -> Contents], NothingInside',
           Frees(heap', var'[x].obj) = {} /\ Drops(var'[x].obj) = {},
           \A z \in Vars \ {x} : var'[z].obj = var[z].obj
    PROVE  TypeOK' /\ ObjectsInvariant'
<1>1. /\ Split(DOMAIN heap, Shares, {}, {}, lost.mem)
      /\ Split(Given, HandleShares, {}, {}, lost.handles)
      BY IdleSplit
<1>2. /\ heap' = [b \in DOMAIN heap \ Owned(x) |-> heap[b]]
      /\ held' = [h \in Handles |-> IF h \in HandlesOf(x) THEN "none" ELSE held[h]]
      BY DEF GivenBack
<1>3. \A z \in Vars \ {x} : Owned(z)' = Owned(z)
  <2>1. \A o : Frees(heap, o) \subseteq DOMAIN heap \ Owned(x) => Frees(heap', o) = Frees(heap, o)
        BY <1>2, Inside, Shrunk
  <2> QED BY <2>1, Inside DEF Owned
<1>4. Split(DOMAIN heap', Shares', {}, {}, lost'.mem)
  <2>1. \A z \in Vars : Shares'[z] = IF z = x THEN {} ELSE Shares[z]
        BY <1>3 DEF Shares, Owned
  <2>2. Split(DOMAIN heap \ Shares[x], Shares', {}, {}, lost.mem)
        BY <1>1, <2>1, SplitLeave
  <2> QED BY <1>2, <2>2 DEF Shares
<1>5. Split(Given', HandleShares', {}, {}, lost'.handles)
  <2>1. \A z \in Vars : HandleShares'[z] = IF z = x THEN {} ELSE HandleShares[z]
        BY DEF HandleShares, HandlesOf
  <2>2. Split(Given \ HandleShares[x], HandleShares', {}, {}, lost.handles)
        BY <1>1, <2>1, SplitLeave
  <2>3. Given' = Given \ HandleShares[x]
        BY <1>2 DEF Given, HandleShares
  <2> QED BY <2>2, <2>3
<1>6. ASSUME NEW z \in Vars, NEW h \in HandlesOf(z)'
      PROVE  held'[h] = var'[z].obj.kind
  <2>1. z # x /\ h \in HandlesOf(z)
        BY <1>6 DEF HandlesOf
  <2>2. h \in Handles /\ h \notin HandlesOf(x)
        BY <1>1, <2>1 DEF Split, HandleShares, Given
  <2> QED BY <1>2, <2>1, <2>2 DEF ObjectsInvariant, HandlesAreKnown
<1>7. faults' = faults
  <2>1. Owned(x) \subseteq DOMAIN heap
        BY Inside
  <2>2. \A h \in HandlesOf(x) : held[h] # "none"
        BY <1>1 DEF Split, HandleShares, Given
  <2> QED BY <2>1, <2>2 DEF GivenBack
<1>8. /\ DOMAIN heap' \subseteq DOMAIN heap
      /\ held' \in [Handles -> {"none", "data_frame", "storage"}]
      /\ lost' = [mem |-> lost'.mem, handles |-> lost'.handles]
      BY <1>2 DEF TypeOK
<1> QED BY <1>4, <1>5, <1>6, <1>7, <1>8, IdleStep

-----------------------------------------------------------------------------
(* What a program does with its variables.                                 *)

\* A variable that holds nothing has nothing.
LEMMA HoldsNothing ==
    ASSUME ObjectsInvariant, NEW x \in Vars, var[x].is \in {"empty", "none"}
    PROVE  Owned(x) = {} /\ HandlesOf(x) = {}
<1>1. var[x].obj = Blank \/ var[x].obj = [Blank EXCEPT !.kind = var[x].obj.kind]
      BY DEF ObjectsInvariant, NothingInside
<1> QED BY <1>1, BlankIsEmpty DEF Owned, HandlesOf

\* The temporary that was moved from is destroyed, and gives nothing back.
LEMMA NothingBack ==
    ASSUME TypeOK, GivenBack({}, {})
    PROVE  /\ DOMAIN heap' = DOMAIN heap /\ \A b \in DOMAIN heap : heap'[b] = heap[b]
           /\ UNCHANGED <<held, faults>>
<1>1. heap' = [b \in DOMAIN heap \ {} |-> heap[b]] /\ faults' = faults
      BY DEF GivenBack
<1>2. held' = [h \in Handles |-> held[h]]
      BY DEF GivenBack
<1>3. held' = held
      BY <1>2 DEF TypeOK
<1> QED BY <1>1, <1>3

\* unwrap.
LEMMA UnwrapHolds ==
    ASSUME TypeOK, ObjectsInvariant, NEW x \in Vars, NEW y \in Vars, Unwrap(x, y)
    PROVE  TypeOK' /\ ObjectsInvariant'
<1>1. /\ call.at = "idle" /\ x # y /\ UNCHANGED <<next, call, calls, lost>>
      /\ var[x] \in Contents /\ var[x].obj \in Objects
      BY DEF Unwrap, Free, TypeOK, Contents
<1>2. DOMAIN heap' = DOMAIN heap /\ (\A b \in DOMAIN heap : heap'[b] = heap[b])
      /\ UNCHANGED <<held, faults>>
      BY <1>1, MovedIsEmpty, NothingBack DEF Unwrap
<1>3. Owned(y) = {} /\ HandlesOf(y) = {}
      BY HoldsNothing DEF Unwrap, Free
<1>4. lost' = [mem |-> lost.mem \cup Owned(y), handles |-> lost.handles \cup HandlesOf(y)]
      BY <1>1, <1>3 DEF TypeOK
<1>5. /\ var' = [var EXCEPT ![y] = ObjectOf(var[x].obj), ![x] = NoneOf(var[x].obj.kind)]
      /\ ObjectOf(var[x].obj) \in Contents /\ NoneOf(var[x].obj.kind) \in Contents
      /\ NoneOf(var[x].obj.kind).is = "none"
      /\ NoneOf(var[x].obj.kind).obj = [Blank EXCEPT !.kind = NoneOf(var[x].obj.kind).obj.kind]
  <2>1. var[x].obj.kind \in Kinds
        BY <1>1 DEF Objects
  <2>2. [Blank EXCEPT !.kind = var[x].obj.kind] \in Objects
        BY <2>1, ObjectTypes
  <2> QED BY <1>1, <2>2 DEF Unwrap, ObjectOf, NoneOf, Contents, Blank
<1>6. Frees(heap', NoneOf(var[x].obj.kind).obj) = {} /\ Drops(NoneOf(var[x].obj.kind).obj) = {}
      BY <1>5, BlankIsEmpty
<1>7. /\ var' \in [Vars -> Contents] /\ var'[x] = NoneOf(var[x].obj.kind)
      /\ var'[y] = ObjectOf(var[x].obj) /\ \A z \in Vars \ {x, y} : var'[z] = var[z]
      BY <1>1, <1>5 DEF TypeOK, Contents
<1>8. NothingInside'
      BY <1>5, <1>7 DEF ObjectsInvariant, NothingInside, ObjectOf
<1>9. var'[y].obj = var[x].obj
      BY <1>7 DEF ObjectOf
<1> QED BY <1>1, <1>2, <1>4, <1>6, <1>7, <1>8, <1>9, MoveStep

\* A move into a new variable.
LEMMA MoveNewHolds ==
    ASSUME TypeOK, ObjectsInvariant, NEW x \in Vars, NEW y \in Vars, MoveNew(x, y)
    PROVE  TypeOK' /\ ObjectsInvariant'
<1>1. /\ call.at = "idle" /\ x # y /\ UNCHANGED <<next, call, calls, lost, heap, held, faults>>
      /\ var[x] \in Contents /\ var[x].obj \in Objects /\ var[x].is \in {"object", "some"}
      BY DEF MoveNew, Free, TypeOK, Contents
<1>2. Owned(y) = {} /\ HandlesOf(y) = {}
      BY HoldsNothing DEF MoveNew, Free
<1>3. lost' = [mem |-> lost.mem \cup Owned(y), handles |-> lost.handles \cup HandlesOf(y)]
      BY <1>1, <1>2 DEF TypeOK
<1>4. Moved(var[x].obj) \in Objects
      BY <1>1, ObjectTypes
<1>5. /\ var' \in [Vars -> Contents] /\ var'[x].obj = Moved(var[x].obj) /\ var'[x].is = var[x].is
      /\ var'[y] = var[x] /\ \A z \in Vars \ {x, y} : var'[z] = var[z]
      BY <1>1, <1>4 DEF MoveNew, TypeOK, Contents
<1>6. NothingInside'
      BY <1>1, <1>5 DEF ObjectsInvariant, NothingInside
<1>7. Frees(heap', var'[x].obj) = {} /\ Drops(var'[x].obj) = {}
      BY <1>1, <1>5, MovedIsEmpty
<1> QED BY <1>1, <1>3, <1>5, <1>6, <1>7, MoveStep

\* An assignment.
LEMMA AssignHolds ==
    ASSUME TypeOK, ObjectsInvariant, NEW x \in Vars, NEW y \in Vars, Assign(x, y)
    PROVE  TypeOK' /\ ObjectsInvariant'
<1>1. /\ call.at = "idle" /\ UNCHANGED <<next, call, calls, heap, held, faults>>
      /\ var[x].obj \in Objects /\ var[x].is \in {"object", "some"}
      /\ var[y].obj \in Objects /\ var[y].is \in {"object", "some"}
      BY DEF Assign, TypeOK, Contents
<1>2. lost' = [mem |-> lost.mem \cup Owned(x), handles |-> lost.handles \cup HandlesOf(x)]
      BY DEF Assign, Overwritten, Owned, HandlesOf
<1>3. Moved(var[y].obj) \in Objects /\ Frees(heap', Moved(var[y].obj)) = {} /\ Drops(Moved(var[y].obj)) = {}
      BY <1>1, ObjectTypes, MovedIsEmpty
<1>4. CASE x = y
  <2>1. /\ var' \in [Vars -> Contents] /\ var'[x].obj = Moved(var[x].obj) /\ var'[x].is = var[x].is
        /\ \A z \in Vars \ {x} : var'[z] = var[z]
        BY <1>1, <1>3, <1>4 DEF Assign, TypeOK, Contents
  <2>2. NothingInside'
        BY <1>1, <2>1 DEF ObjectsInvariant, NothingInside
  <2> QED BY <1>1, <1>2, <1>3, <1>4, <2>1, <2>2, LoseStep
<1>5. CASE x # y
  <2>1. /\ var' \in [Vars -> Contents] /\ var'[x].obj = var[y].obj /\ var'[x].is = var[x].is
        /\ var'[y].obj = Moved(var[y].obj) /\ var'[y].is = var[y].is
        /\ \A z \in Vars \ {x, y} : var'[z] = var[z]
        BY <1>1, <1>3, <1>5 DEF Assign, TypeOK, Contents
  <2>2. NothingInside'
        BY <1>1, <2>1 DEF ObjectsInvariant, NothingInside
  <2> QED BY <1>1, <1>2, <1>3, <1>5, <2>1, <2>2, MoveStep
<1> QED BY <1>4, <1>5

\* An assignment between an option with and one without a content.
LEMMA AssignOptionHolds ==
    ASSUME TypeOK, ObjectsInvariant, NEW x \in Vars, NEW y \in Vars, AssignOption(x, y)
    PROVE  TypeOK' /\ ObjectsInvariant'
<1>1. /\ call.at = "idle" /\ UNCHANGED <<next, call, calls, lost>> /\ x # y
      /\ var[x].obj \in Objects /\ var[y].obj \in Objects
      BY DEF AssignOption, TypeOK, Contents
<1>2. CASE var[y].is = "some"
  <2>1. var[x].is = "none" /\ Owned(x) = {} /\ HandlesOf(x) = {}
        BY <1>2, HoldsNothing DEF AssignOption
  <2>2. DOMAIN heap' = DOMAIN heap /\ (\A b \in DOMAIN heap : heap'[b] = heap[b])
        /\ UNCHANGED <<held, faults>>
        BY <1>2, NothingBack DEF AssignOption
  <2>3. lost' = [mem |-> lost.mem \cup Owned(x), handles |-> lost.handles \cup HandlesOf(x)]
        BY <1>1, <2>1 DEF TypeOK
  <2>4. Moved(var[y].obj) \in Objects /\ Frees(heap', Moved(var[y].obj)) = {}
        /\ Drops(Moved(var[y].obj)) = {}
        BY <1>1, ObjectTypes, MovedIsEmpty
  <2>5. /\ var' \in [Vars -> Contents] /\ var'[x] = var[y] /\ var'[y].is = "some"
        /\ var'[y].obj = Moved(var[y].obj) /\ \A z \in Vars \ {x, y} : var'[z] = var[z]
        BY <1>1, <1>2, <2>4 DEF AssignOption, TypeOK, Contents
  <2>6. NothingInside'
        BY <1>2, <2>5 DEF ObjectsInvariant, NothingInside
  <2> QED BY <1>1, <2>2, <2>3, <2>4, <2>5, <2>6, MoveStep
<1>3. CASE var[y].is # "some"
  <2>1. var[y].is = "none" /\ var[y].obj = [Blank EXCEPT !.kind = var[y].obj.kind]
        BY <1>3 DEF AssignOption, ObjectsInvariant, NothingInside
  <2>2. var' = [var EXCEPT ![x] = var[y]] /\ GivenBack(Owned(x), HandlesOf(x))
        BY <1>3 DEF AssignOption, Owned, HandlesOf
  <2>3. /\ var' \in [Vars -> Contents] /\ var'[x] = var[y]
        /\ \A z \in Vars \ {x} : var'[z] = var[z]
        BY <2>2 DEF TypeOK, Contents
  <2>4. NothingInside'
        BY <2>1, <2>3 DEF ObjectsInvariant, NothingInside
  <2>5. Frees(heap', var'[x].obj) = {} /\ Drops(var'[x].obj) = {}
        BY <2>1, <2>3, BlankIsEmpty
  <2> QED BY <1>1, <2>2, <2>3, <2>4, <2>5, LeaveStep
<1> QED BY <1>2, <1>3

\* The end of a scope.
LEMMA LeaveHolds ==
    ASSUME TypeOK, ObjectsInvariant, NEW x \in Vars, Leave(x)
    PROVE  TypeOK' /\ ObjectsInvariant'
<1>1. GivenBack(Owned(x), HandlesOf(x))
      BY HoldsNothing DEF Leave, Owned, HandlesOf
<1>2. /\ var' \in [Vars -> Contents] /\ var'[x] = Empty
      /\ \A z \in Vars \ {x} : var'[z] = var[z]
      BY ObjectTypes DEF Leave, TypeOK, Contents, Empty
<1>3. NothingInside'
      BY <1>2 DEF ObjectsInvariant, NothingInside, Empty
<1>4. Frees(heap', var'[x].obj) = {} /\ Drops(var'[x].obj) = {}
      BY <1>2, BlankIsEmpty DEF Empty
<1> QED BY <1>1, <1>2, <1>3, <1>4, LeaveStep DEF Leave

\* An abort leaves everything where it is.
LEMMA AbortHolds ==
    ASSUME TypeOK, ObjectsInvariant, Aborted,
           UNCHANGED <<heap, next, area, held, var, calls, faults, lost>>
    PROVE  TypeOK' /\ ObjectsInvariant'
<1>1. /\ call'.at = "aborted" /\ call'.mem = call.mem /\ call'.sent = call.sent
      /\ call' = [at |-> call'.at, fn |-> call'.fn, self |-> call'.self, into |-> call'.into,
                  param |-> call'.param, mem |-> call'.mem, sent |-> call'.sent]
      BY DEF Aborted, TypeOK
<1>2. TypeOK'
      BY <1>1 DEF TypeOK
<1>3. MemoryIsSplit' /\ HandlesAreSplit' /\ HandlesAreKnown' /\ NothingInside' /\ NothingTwice'
      BY <1>1 DEF ObjectsInvariant, MemoryIsSplit, HandlesAreSplit, HandlesAreKnown, NothingInside,
         NothingTwice, Owned, HandlesOf
<1>4. CallInProgress' /\ AnswerArrives'
      BY <1>1 DEF CallInProgress, AnswerArrives
<1> QED BY <1>2, <1>3, <1>4 DEF ObjectsInvariant

-----------------------------------------------------------------------------
(* Calls.                                                                  *)

\* An object that can be asked is one the worker holds.
LEMMA OwnerKnown ==
    ASSUME TypeOK, ObjectsInvariant, NEW s \in Vars, NEW kind \in {"data_frame", "storage"},
           Owner(kind, s)
    PROVE  var[s].obj.h \in Handles /\ held[var[s].obj.h] = kind
<1>1. var[s].obj.h \in HandlesOf(s)
      BY DEF Owner, HandlesOf, Drops, DataFrameFree, StorageFree
<1>2. var[s].obj.h \in Handles
      BY <1>1 DEF ObjectsInvariant, HandlesAreSplit, Split
<1> QED BY <1>1, <1>2 DEF ObjectsInvariant, HandlesAreKnown, Owner

\* The worker reads the value and the vector that were lowered.
LEMMA ParamsArrive ==
    /\ \A id \in Ids : Raised(Lowered(id)) = id
    /\ Raised(Lowered(ValueParam([tag |-> Bol, bits |-> 1]))) = ValueParam([tag |-> Bol, bits |-> 1])
    /\ \A p, l : LET v == [tag |-> Txt, ptr |-> p, len |-> l]
                 IN  RaisedVector(UpdateKvParam(v)) = v
    /\ \A p, l : LET v == [tag |-> F64, ptr |-> p, len |-> l]
                 IN  RaisedVector(UpdateKvParam(v)) = v
<1>1. \A t \in {Bol, I64} : \A b : LET v == [tag |-> t, bits |-> b] IN Raised(Lowered(v)) = v
      BY DEF Raised, Lowered, Nil, Bol, I32, I64, F32, F64, Txt
<1>2. \A p, l : LET v == [tag |-> Txt, ptr |-> p, len |-> l] IN Raised(Lowered(v)) = v
      BY DEF Raised, Lowered, Nil, Bol, I32, I64, F32, F64, Txt
<1>3. \A t \in {Bol, I64} : \A b : ValueParam([tag |-> t, bits |-> b]) = [tag |-> t, bits |-> b]
      BY DEF ValueParam, Bol, I64, Txt
<1>4. ValueParam([tag |-> Txt, txt |-> Lent(2)]) = [tag |-> Txt, ptr |-> Own, len |-> 2]
      BY DEF ValueParam, StringParam, Lent
<1>5. \A id \in Ids : Raised(Lowered(id)) = id
      BY <1>1, <1>2, <1>3, <1>4 DEF Ids
<1>6. \A t \in {F64, Txt} : \A p, l : LET v == [tag |-> t, ptr |-> p, len |-> l]
                                         IN  RaisedVector(UpdateKvParam(v)) = v
      BY DEF RaisedVector, UpdateKvParam, Nil, F64, Txt
<1> QED BY <1>1, <1>3, <1>5, <1>6

\* A new object.
LEMMA OpenHolds ==
    ASSUME TypeOK, ObjectsInvariant, NEW x \in Vars, DataFrameOpen(x) \/ StorageOpen(x)
    PROVE  TypeOK' /\ ObjectsInvariant'
<1>1. PICK fn \in {"data_frame_new", "storage_new"}, arrays \in {<<SomeRow>>, <<>>} :
          Called(fn, 0, x, NoParam, arrays) /\ var[x].is = "empty"
      BY DEF DataFrameOpen, StorageOpen, Free
<1>2. call'.fn = fn
      BY <1>1 DEF Called
<1>3. ParamArrives' /\ SelfKnown'
      BY <1>2 DEF ParamArrives, SelfKnown, SelfKind
<1>4. Len(arrays) \in Nat
      OBVIOUS
<1> QED BY <1>1, <1>3, <1>4, BeginStep DEF CallsInto

\* A method that answers with a number.
LEMMA CountHolds ==
    ASSUME TypeOK, ObjectsInvariant, NEW s \in Vars, DataFramePush(s) \/ DataFrameSize(s)
    PROVE  TypeOK' /\ ObjectsInvariant'
<1>1. PICK fn \in {"data_frame_push", "data_frame_size"}, arrays \in {<<SomeRow>>, <<>>} :
          Called(fn, var[s].obj.h, "none", NoParam, arrays) /\ Owner("data_frame", s)
      BY DEF DataFramePush, DataFrameSize
<1>2. call'.fn = fn /\ call'.self = var[s].obj.h /\ UNCHANGED held
      BY <1>1 DEF Called
<1>3. ParamArrives' /\ SelfKnown'
      BY <1>1, <1>2, OwnerKnown DEF ParamArrives, SelfKnown, SelfKind
<1>4. Len(arrays) \in Nat
      OBVIOUS
<1>5. "none" \notin Vars
      BY ObjectsAssumption DEF ObjectsAssumption
<1> QED BY <1>1, <1>3, <1>4, <1>5, BeginStep DEF CallsInto

\* A query.
LEMMA QueryHolds ==
    ASSUME TypeOK, ObjectsInvariant, NEW s \in Vars, NEW x \in Vars,
           ChoiceNodes(s, x) \/ QueryNodes(s, x) \/ QueryNeighbors(s, x) \/ QueryKv(s, x)
    PROVE  TypeOK' /\ ObjectsInvariant'
<1>1. PICK fn \in {"choice_nodes", "query_nodes", "query_neighbors", "query_kv"},
           param \in {NoParam, ValueParam([tag |-> Bol, bits |-> 1])} \cup Ids,
           arrays \in {<<SomeKeys>>, <<>>} :
          /\ Called(fn, var[s].obj.h, x, param, arrays) /\ Owner("storage", s)
          /\ var[x].is = "empty"
          /\ fn # "choice_nodes" => Raised(Lowered(param)) = param
      BY ParamsArrive DEF ChoiceNodes, QueryNodes, QueryNeighbors, QueryKv, Free
<1>2. call'.fn = fn /\ call'.self = var[s].obj.h /\ call'.param = param /\ UNCHANGED held
      BY <1>1 DEF Called
<1>3. ParamArrives'
      BY <1>1, <1>2 DEF ParamArrives, QueryNodesParam, QueryNeighborsParam, QueryKvParam
<1>4. SelfKnown'
      BY <1>1, <1>2, OwnerKnown DEF SelfKnown, SelfKind
<1>5. Len(arrays) \in Nat
      OBVIOUS
<1> QED BY <1>1, <1>3, <1>4, <1>5, BeginStep DEF CallsInto

\* update_kv, whose texts need an array.
LEMMA UpdateKvHolds ==
    ASSUME TypeOK, ObjectsInvariant, NEW s \in Vars, UpdateKv(s)
    PROVE  TypeOK' /\ ObjectsInvariant'
<1>1. PICK v \in {[tag |-> F64, data |-> Lent(3)], [tag |-> Txt, data |-> <<Lent(1), Lent(0)>>]} :
          Called("update_kv", var[s].obj.h, "none", VectorParam(v, next + 2),
                 <<SomeKeys>> \o VectorArrays(v)) /\ Owner("storage", s)
      BY DEF UpdateKv
<1> DEFINE param == VectorParam(v, next + 2)
           arrays == <<SomeKeys>> \o VectorArrays(v)
<1>2. call'.fn = "update_kv" /\ call'.self = var[s].obj.h /\ call'.param = param /\ UNCHANGED held
      BY <1>1 DEF Called
<1>3. RaisedVector(UpdateKvParam(param)) = param
  <2>1. /\ v.tag = Txt => param = [tag |-> Txt, ptr |-> next + 2, len |-> Len(v.data)]
        /\ v.tag # Txt => param = [tag |-> v.tag, ptr |-> v.data.ptr, len |-> v.data.len]
        BY Zenon DEF VectorParam
  <2>2. v.tag = Txt \/ v.tag = F64
        OBVIOUS
  <2> HIDE DEF param
  <2> QED BY <2>1, <2>2, ParamsArrive DEF F64, Txt
<1>4. ParamArrives'
      BY <1>2, <1>3 DEF ParamArrives
<1>5. SelfKnown'
      BY <1>1, <1>2, OwnerKnown DEF SelfKnown, SelfKind
<1>6. Len(arrays) \in Nat
  <2>1. VectorArrays(v) = <<SpanStringParam(v.data)>> \/ VectorArrays(v) = <<>>
        BY DEF VectorArrays
  <2>2. \A a, b : Len(<<a>> \o <<b>>) = 2 /\ Len(<<a>> \o <<>>) = 1
        OBVIOUS
  <2> QED BY <2>1, <2>2
<1>7. "none" \notin Vars
      BY ObjectsAssumption DEF ObjectsAssumption
<1> HIDE DEF param, arrays
<1>8. Called("update_kv", var[s].obj.h, "none", param, arrays)
      BY <1>1 DEF param, arrays
<1> QED BY <1>4, <1>5, <1>6, <1>7, <1>8, BeginStep DEF CallsInto

-----------------------------------------------------------------------------
(* Answers.                                                                *)

\* Where the words of an answer are.
LEMMA Offsets ==
    /\ PayloadAt(Handle) = 4 /\ PayloadAt(Word64) = 8
    /\ PayloadAt(List) = 4 /\ PayloadAt(Vector) = 4 /\ PayloadAt(Answer) = 4
    /\ SecondAt(Vector, List) = 12 /\ SecondAt(Tag, List) = 4
    /\ SecondAt(Scalar(4), Scalar(4)) = 4
<1>1. /\ RoundUp(1, 4) = 4 /\ RoundUp(1, 8) = 8 /\ RoundUp(4, 4) = 4 /\ RoundUp(8, 4) = 8
      /\ RoundUp(12, 4) = 12
      BY DEF RoundUp
<1>2. SecondAt(Scalar(4), Scalar(4)) = 4 /\ List.size = 8 /\ List.align = 4
      BY <1>1 DEF List, Pair, Scalar, SecondAt, Greater
<1>3. SecondAt(Tag, List) = 4 /\ Vector.size = 12 /\ Vector.align = 4
      BY <1>1, <1>2 DEF Vector, Tag, Pair, Scalar, SecondAt, Greater
<1>4. SecondAt(Vector, List) = 12 /\ Answer.align = 4
      BY <1>1, <1>2, <1>3 DEF Answer, Pair, SecondAt, Greater
<1>5. PayloadAt(Handle) = 4 /\ PayloadAt(Word64) = 8
      BY <1>1 DEF PayloadAt, SecondAt, Tag, Handle, Word64, Scalar
<1>6. PayloadAt(List) = 4 /\ PayloadAt(Vector) = 4 /\ PayloadAt(Answer) = 4
      BY <1>1, <1>2, <1>3, <1>4 DEF PayloadAt, SecondAt, Tag, Scalar
<1> QED BY <1>2, <1>3, <1>4, <1>5, <1>6

\* A word that is stored is there.
LEMMA StoredWord ==
    ASSUME NEW words, NEW at \in RetArea, NEW n, <<at, n>> \in words,
           \A w \in words : w[1] = at => w[2] = n
    PROVE  Stored(area, words)[at] = n
BY DEF Stored

\* The words of a list and of a vector, behind the word that there is an answer.
LEMMA VectorStored ==
    ASSUME NEW v \in [tag : Tags, ptr : Int, len : Nat],
           v.tag = Nil => v.ptr = Null /\ v.len = 0,
           NEW more, \A w \in more : w[1] \notin {0, 4, 8, 12},
           NEW to, to = Stored(area, {<<0, 1>>} \cup (VectorWords(4, v) \cup more))
    PROVE  IsSome(to) /\ VectorIn(to, 4, 8, 12) = v
<1> DEFINE tagged == {<<0, 1>>, <<4, v.tag>>}
           words == {<<0, 1>>} \cup (VectorWords(4, v) \cup more)
<1>1. words = IF v.tag = Nil THEN tagged \cup more
              ELSE (tagged \cup {<<8, v.ptr>>, <<12, v.len>>}) \cup more
      BY Offsets DEF VectorWords, ListWords
<1>2. \A a, b : <<a, b>>[1] = a /\ <<a, b>>[2] = b
      OBVIOUS
<1> HIDE DEF words
<1>3. Stored(area, words)[0] = 1
  <2>1. <<0, 1>> \in words /\ \A w \in words : w[1] = 0 => w[2] = 1
        BY <1>1, <1>2
  <2> QED BY <2>1, StoredWord DEF RetArea
<1>4. Stored(area, words)[4] = v.tag
  <2>1. <<4, v.tag>> \in words /\ \A w \in words : w[1] = 4 => w[2] = v.tag
        BY <1>1, <1>2
  <2> QED BY <2>1, StoredWord DEF RetArea
<1>5. v.tag # Nil => Stored(area, words)[8] = v.ptr
  <2>1. v.tag # Nil => <<8, v.ptr>> \in words /\ \A w \in words : w[1] = 8 => w[2] = v.ptr
        BY <1>1, <1>2
  <2> QED BY <2>1, StoredWord DEF RetArea
<1>6. v.tag # Nil => Stored(area, words)[12] = v.len
  <2>1. v.tag # Nil => <<12, v.len>> \in words /\ \A w \in words : w[1] = 12 => w[2] = v.len
        BY <1>1, <1>2
  <2> QED BY <2>1, StoredWord DEF RetArea
<1> QED BY <1>3, <1>4, <1>5, <1>6 DEF IsSome, VectorIn, words

\* A list's words, wherever they are.
LEMMA ListStored ==
    ASSUME NEW l \in [ptr : Int, len : Nat], NEW at \in {4, 16},
           NEW more, \A w \in more : w[1] \notin {at, at + 4},
           NEW to, to = Stored(area, more \cup ListWords(at, l))
    PROVE  to[at] = l.ptr /\ to[at + 4] = l.len
<1>1. ListWords(at, l) = {<<at, l.ptr>>, <<at + 4, l.len>>}
      BY Offsets DEF ListWords
<1>2. at \in RetArea /\ at + 4 \in RetArea
      BY DEF RetArea
<1> DEFINE words == more \cup ListWords(at, l)
<1>3. \A a, b : <<a, b>>[1] = a /\ <<a, b>>[2] = b
      OBVIOUS
<1>4. /\ <<at, l.ptr>> \in words /\ \A w \in words : w[1] = at => w[2] = l.ptr
      /\ <<at + 4, l.len>> \in words /\ \A w \in words : w[1] = at + 4 => w[2] = l.len
      BY <1>1, <1>3
<1> HIDE DEF words
<1>5. Stored(area, words)[at] = l.ptr
      BY <1>2, <1>4, StoredWord
<1>6. Stored(area, words)[at + 4] = l.len
      BY <1>2, <1>4, StoredWord
<1> QED BY <1>5, <1>6 DEF words

\* Blocks that a memory has.
Holds(mem, blocks) == \A b \in DOMAIN blocks : b \in DOMAIN mem /\ mem[b] = blocks[b]

\* Memory has what was added to it.
LEMMA OverHolds ==
    ASSUME NEW f, NEW g
    PROVE  /\ Holds(Over(f, g), g)
           /\ DOMAIN f \cap DOMAIN g = {} => Holds(Over(f, g), f)
<1>1. \A b \in DOMAIN g : b \in DOMAIN Over(f, g) /\ Over(f, g)[b] = g[b]
      BY DEF Over
<1>2. ASSUME DOMAIN f \cap DOMAIN g = {}, NEW b \in DOMAIN f
      PROVE  b \in DOMAIN Over(f, g) /\ Over(f, g)[b] = f[b]
      BY <1>2 DEF Over
<1> QED BY <1>1, <1>2 DEF Holds

\* An array's cells.
LEMMA CellsMembers ==
    ASSUME NEW mem, NEW l
    PROVE  \A c : c \in Cells(mem, l) <=> \E i \in 1 .. l.len : c = CellAt(mem, l.ptr, i)
BY Zenon DEF Cells

\* A vector has its array and the texts behind it.
LEMMA VectorBlocksIn ==
    ASSUME NEW at \in Nat, NEW s \in [tag : Tags, len : 0 .. MaxLen]
    PROVE  DOMAIN VectorBlocks(at, s) \subseteq at .. (at + MaxLen)
<1> MaxLen \in Nat
    BY ObjectsAssumption DEF ObjectsAssumption
<1>1. CASE s.tag = Nil
      BY <1>1 DEF VectorBlocks, NoBlocks
<1>2. CASE s.tag = Txt
      BY <1>2 DEF VectorBlocks, Nil, Txt
<1>3. CASE s.tag \notin {Nil, Txt}
      BY <1>3 DEF VectorBlocks
<1> QED BY <1>1, <1>2, <1>3

\* A vector as it is answered, and its memory.
LEMMA VectorAnswer ==
    ASSUME NEW mem, NEW at \in Nat, at > 0, NEW s \in [tag : Tags, len : 0 .. MaxLen],
           Holds(mem, VectorBlocks(at, s))
    PROVE  /\ VectorFree(mem, VectorAt(at, s)) = DOMAIN VectorBlocks(at, s)
           /\ VectorAt(at, s) \in [tag : Tags, ptr : Int, len : Nat]
           /\ VectorAt(at, s).tag = Nil => VectorAt(at, s).ptr = Null /\ VectorAt(at, s).len = 0
<1> MaxLen \in Nat
    BY ObjectsAssumption DEF ObjectsAssumption
<1>1. CASE s.tag = Nil
      BY <1>1 DEF VectorAt, NoVector, VectorBlocks, VectorFree, Tags, Nil, Txt, Null, NoBlocks
<1>2. CASE s.tag = Txt
  <2> DEFINE v == VectorAt(at, s)
             blocks == VectorBlocks(at, s)
  <2>1. v = [tag |-> Txt, ptr |-> at, len |-> s.len]
        BY <1>2 DEF VectorAt, Nil, Txt
  <2>2. /\ DOMAIN blocks = at .. (at + s.len)
        /\ blocks[at] = [i \in 1 .. s.len |-> [ptr |-> at + i, len |-> 1]]
        BY <1>2 DEF VectorBlocks, Nil, Txt
  <2>3. VectorFree(mem, v) = ListStringFree(mem, v)
        BY <2>1 DEF VectorFree, Nil, Txt
  <2> HIDE DEF v, blocks
  <2>4. at \in DOMAIN mem /\ mem[at] = blocks[at]
        BY <2>2 DEF Holds, blocks
  <2>5. \A i \in 1 .. s.len : CellAt(mem, at, i) = [ptr |-> at + i, len |-> 1]
        BY <2>2, <2>4 DEF CellAt
  <2>6. \A e : e \in ListStringFree(mem, v) <=> e = at \/ \E i \in 1 .. s.len : e = at + i
        BY <2>1, <2>5, FreeMembers, CellsMembers
  <2>7. \A e : e \in at .. (at + s.len) <=> e = at \/ \E i \in 1 .. s.len : e = at + i
    <3>1. ASSUME NEW e \in at .. (at + s.len), e # at
          PROVE  \E i \in 1 .. s.len : e = at + i
      <4> e - at \in 1 .. s.len /\ e = at + (e - at)
          BY <3>1
      <4> QED OBVIOUS
    <3> QED BY <3>1
  <2>8. VectorFree(mem, v) = DOMAIN blocks
        BY <2>2, <2>3, <2>6, <2>7
  <2> QED BY <2>1, <2>2, <2>8 DEF v, blocks, Tags, Nil, Txt
<1>3. CASE s.tag \notin {Nil, Txt}
  <2>1. /\ VectorAt(at, s) = [tag |-> s.tag, ptr |-> at, len |-> s.len]
        /\ DOMAIN VectorBlocks(at, s) = {at}
        BY <1>3 DEF VectorAt, VectorBlocks
  <2>2. VectorFree(mem, VectorAt(at, s)) = {at}
        BY <1>3, <2>1 DEF VectorFree, ListFree
  <2> QED BY <1>3, <2>1, <2>2
<1> QED BY <1>1, <1>2, <1>3

\* A row as it is answered, and its memory.
LEMMA RowAnswer ==
    ASSUME NEW mem, next \in Nat, NEW s \in Seq(Tags), Len(s) <= MaxLen,
           Holds(mem, RowBlocks(s))
    PROVE  /\ RowFree(mem, [ptr |-> next + 1, len |-> Len(s)]) = DOMAIN RowBlocks(s)
           /\ DOMAIN RowBlocks(s) \subseteq (next + 1) .. (next + 1 + 2 * MaxLen)
<1> DEFINE l == [ptr |-> next + 1, len |-> Len(s)]
           blocks == RowBlocks(s)
<1> MaxLen \in Nat /\ Len(s) \in Nat
    BY ObjectsAssumption DEF ObjectsAssumption
<1>1. \A b : b \in DOMAIN blocks <=> \/ b = next + 1
                                     \/ \E i \in 1 .. Len(s) : \/ b = next + 2 * i
                                                               \/ s[i] = Txt /\ b = next + 2 * i + 1
      BY DEF RowBlocks
<1>2. /\ DOMAIN blocks[next + 1] = 1 .. Len(s)
      /\ \A i \in 1 .. Len(s) :
            /\ blocks[next + 1][i].key.ptr = next + 2 * i
            /\ blocks[next + 1][i].val.tag = s[i]
            /\ s[i] = Txt => blocks[next + 1][i].val.ptr = next + 2 * i + 1
      BY <1>1 DEF RowBlocks
<1> HIDE DEF l, blocks
<1>3. next + 1 \in DOMAIN mem /\ mem[next + 1] = blocks[next + 1]
      BY <1>1 DEF Holds, blocks
<1>4. \A i \in 1 .. Len(s) : CellAt(mem, next + 1, i) = blocks[next + 1][i]
      BY <1>2, <1>3 DEF CellAt
<1>5. \A i \in 1 .. Len(s) : \A e : e \in ItemFree(CellAt(mem, next + 1, i))
                                  <=> e = next + 2 * i \/ (s[i] = Txt /\ e = next + 2 * i + 1)
      BY <1>2, <1>4 DEF ItemFree, ValueFree, StringFree
<1>6. \A e : e \in RowFree(mem, l) <=> e \in DOMAIN blocks
      BY <1>1, <1>5, FreeMembers, CellsMembers DEF l
<1>7. RowFree(mem, l) = DOMAIN blocks
  <2>1. \A e : e \in RowFree(mem, l) => e \in DOMAIN blocks
        BY <1>6
  <2> QED BY <1>6, <2>1
<1>8. \A b \in DOMAIN blocks : b \in (next + 1) .. (next + 1 + 2 * MaxLen)
      BY <1>1
<1> QED BY <1>7, <1>8 DEF l, blocks

\* Where a series of the table at at has its key; its vector is behind it.
KeyAt(at, i) == at + Stride * (i - 1) + 1
SeriesBlocks(at, s, i) == VectorBlocks(KeyAt(at, i) + 1, s[i])

\* A series keeps to its stride.
LEMMA Strides ==
    ASSUME NEW at \in Nat, NEW i \in Nat, NEW n \in Nat, 1 <= i, i <= n
    PROVE  /\ KeyAt(at, i) \in Nat /\ KeyAt(at, i) > at /\ Stride * n \in Nat
           /\ KeyAt(at, i) + 1 + MaxLen <= at + Stride * n
           /\ i < n => KeyAt(at, i) + 1 + MaxLen < KeyAt(at, n)
<1>1. Stride \in Nat /\ Stride = MaxLen + 2 /\ MaxLen \in Nat
      BY ObjectsAssumption DEF ObjectsAssumption, Stride
<1>2. \A S, a, c \in Nat : S * a \in Nat /\ S * a + S <= S * (a + 1 + c)
      OBVIOUS
<1> DEFINE p == Stride * (i - 1)
           q == Stride * (n - 1)
           r == Stride * n
<1>3. p \in Nat /\ p + Stride <= r /\ r \in Nat
  <2>1. i - 1 \in Nat /\ n - i \in Nat /\ n = (i - 1) + 1 + (n - i)
        OBVIOUS
  <2> QED BY <1>1, <1>2, <2>1
<1>4. ASSUME i < n
      PROVE  p + Stride <= q /\ q \in Nat
  <2>1. i - 1 \in Nat /\ n - 1 - i \in Nat /\ n - 1 = (i - 1) + 1 + (n - 1 - i) /\ n - 1 \in Nat
        BY <1>4
  <2> QED BY <1>1, <1>2, <2>1
<1>5. KeyAt(at, i) = at + p + 1 /\ KeyAt(at, n) = at + q + 1
      BY DEF KeyAt
<1> HIDE DEF p, q, r
<1>6. /\ KeyAt(at, i) \in Nat /\ KeyAt(at, i) > at /\ r \in Nat
      /\ KeyAt(at, i) + 1 + MaxLen <= at + r
      BY <1>1, <1>3, <1>5
<1>7. i < n => KeyAt(at, i) + 1 + MaxLen < KeyAt(at, n)
      BY <1>1, <1>3, <1>4, <1>5
<1> QED BY <1>6, <1>7 DEF r

\* So another series is behind it.
LEMMA NextKey ==
    ASSUME NEW at \in Nat, NEW i \in Nat, NEW n \in Nat, 1 <= i, i < n
    PROVE  /\ KeyAt(at, i) \in Nat /\ KeyAt(at, i) > at
           /\ KeyAt(at, i) + 1 + MaxLen < KeyAt(at, n)
<1>1. i <= n
      OBVIOUS
<1> QED BY <1>1, Strides

\* Series keep their memory apart.
LEMMA SeriesApart ==
    ASSUME NEW at \in Nat, NEW s \in Seq([tag : Tags, len : 0 .. MaxLen]), Len(s) <= MaxLen,
           NEW i \in 1 .. Len(s)
    PROVE  /\ KeyAt(at, i) \in Nat /\ KeyAt(at, i) > at
           /\ s[i] \in [tag : Tags, len : 0 .. MaxLen]
           /\ DOMAIN SeriesBlocks(at, s, i)
                 \subseteq (KeyAt(at, i) + 1) .. (KeyAt(at, i) + 1 + MaxLen)
           /\ \A j \in 1 .. Len(s) : i < j => KeyAt(at, i) + 1 + MaxLen < KeyAt(at, j)
<1>1. MaxLen \in Nat /\ Len(s) \in Nat /\ i \in Nat /\ 1 <= i /\ i <= MaxLen
      BY ObjectsAssumption DEF ObjectsAssumption
<1>2. KeyAt(at, i) \in Nat /\ KeyAt(at, i) > at
      BY <1>1, Strides
<1>3. ASSUME NEW j \in 1 .. Len(s), i < j
      PROVE  KeyAt(at, i) + 1 + MaxLen < KeyAt(at, j)
  <2>1. j \in Nat
        BY <1>1
  <2> QED BY <1>1, <1>3, <2>1, NextKey
<1>4. s[i] \in [tag : Tags, len : 0 .. MaxLen]
  <2>1. \A S : \A t \in Seq(S) : \A j \in 1 .. Len(t) : t[j] \in S
        OBVIOUS
  <2> QED BY <2>1, Zenon
<1>5. DOMAIN SeriesBlocks(at, s, i) \subseteq (KeyAt(at, i) + 1) .. (KeyAt(at, i) + 1 + MaxLen)
      BY <1>2, <1>4, VectorBlocksIn DEF SeriesBlocks
<1> QED BY <1>2, <1>3, <1>4, <1>5

\* The blocks of a table.
TableHas(at, s, b) ==
    \/ b = at
    \/ \E i \in 1 .. Len(s) : b = KeyAt(at, i) \/ b \in DOMAIN SeriesBlocks(at, s, i)

\* A table's blocks are just these.
LEMMA TableDomain ==
    ASSUME NEW at, NEW s
    PROVE  \A b : b \in DOMAIN TableBlocks(at, s) <=> TableHas(at, s, b)
<1> DEFINE parts == [i \in 1 .. Len(s) |-> SeriesBlocks(at, s, i)]
           all == UNION {DOMAIN parts[i] : i \in 1 .. Len(s)}
<1>1. DOMAIN TableBlocks(at, s) = {at} \cup {KeyAt(at, i) : i \in 1 .. Len(s)} \cup all
      BY DEF TableBlocks, KeyAt, SeriesBlocks
<1>2. \A b : b \in all <=> \E i \in 1 .. Len(s) : b \in DOMAIN SeriesBlocks(at, s, i)
      OBVIOUS
<1> HIDE DEF all
<1> QED BY <1>1, <1>2 DEF TableHas

\* The array of a table.
LEMMA TableCells ==
    ASSUME NEW at, NEW s
    PROVE  TableBlocks(at, s)[at]
              = [i \in 1 .. Len(s) |-> [key |-> [ptr |-> KeyAt(at, i), len |-> 1],
                                        val |-> VectorAt(KeyAt(at, i) + 1, s[i])]]
BY DEF TableBlocks, KeyAt

\* The vectors of a table.
LEMMA TableParts ==
    ASSUME NEW at \in Nat, NEW s \in Seq([tag : Tags, len : 0 .. MaxLen]), Len(s) <= MaxLen,
           NEW i \in 1 .. Len(s), NEW b \in DOMAIN SeriesBlocks(at, s, i)
    PROVE  TableBlocks(at, s)[b] = SeriesBlocks(at, s, i)[b]
<1> DEFINE parts == [j \in 1 .. Len(s) |-> SeriesBlocks(at, s, j)]
           found == CHOOSE j \in 1 .. Len(s) : b \in DOMAIN parts[j]
<1> Len(s) \in Nat /\ MaxLen \in Nat
    BY ObjectsAssumption DEF ObjectsAssumption
<1>1. b # at
  <2>1. /\ b \in (KeyAt(at, i) + 1) .. (KeyAt(at, i) + 1 + MaxLen)
        /\ KeyAt(at, i) \in Nat /\ KeyAt(at, i) > at
        BY SeriesApart
  <2> QED BY <2>1
<1>2. ASSUME NEW j \in 1 .. Len(s), b \in DOMAIN SeriesBlocks(at, s, j)
      PROVE  j = i
  <2>1. /\ b \in (KeyAt(at, j) + 1) .. (KeyAt(at, j) + 1 + MaxLen) /\ KeyAt(at, j) \in Nat
        /\ i < j => KeyAt(at, i) + 1 + MaxLen < KeyAt(at, j)
        BY <1>2, SeriesApart
  <2>2. /\ b \in (KeyAt(at, i) + 1) .. (KeyAt(at, i) + 1 + MaxLen) /\ KeyAt(at, i) \in Nat
        /\ j < i => KeyAt(at, j) + 1 + MaxLen < KeyAt(at, i)
        BY SeriesApart
  <2> QED BY <2>1, <2>2
<1>3. found \in 1 .. Len(s) /\ b \in DOMAIN parts[found]
      OBVIOUS
<1>4. found = i
      BY <1>2, <1>3
<1>5. b \in DOMAIN TableBlocks(at, s)
      BY TableDomain DEF TableHas
<1>6. TableBlocks(at, s)[b] = parts[found][b]
      BY <1>1, <1>5 DEF TableBlocks, KeyAt, SeriesBlocks
<1> QED BY <1>4, <1>6

\* A table as it is answered, and its memory.
LEMMA TableAnswer ==
    ASSUME NEW mem, NEW at \in Nat, at > 0,
           NEW s \in Seq([tag : Tags, len : 0 .. MaxLen]), Len(s) <= MaxLen,
           Holds(mem, TableBlocks(at, s))
    PROVE  TableFree(mem, [ptr |-> at, len |-> Len(s)]) = DOMAIN TableBlocks(at, s)
<1> DEFINE l == [ptr |-> at, len |-> Len(s)]
           blocks == TableBlocks(at, s)
           series(i) == [key |-> [ptr |-> KeyAt(at, i), len |-> 1],
                         val |-> VectorAt(KeyAt(at, i) + 1, s[i])]
<1> MaxLen \in Nat /\ Len(s) \in Nat
    BY ObjectsAssumption DEF ObjectsAssumption
<1>1. \A b : b \in DOMAIN blocks <=> TableHas(at, s, b)
      BY TableDomain
<1>2. at \in DOMAIN mem /\ mem[at] = [i \in 1 .. Len(s) |-> series(i)]
      BY <1>1, TableCells DEF Holds, TableHas
<1>3. \A i \in 1 .. Len(s) : Holds(mem, SeriesBlocks(at, s, i))
  <2>1. ASSUME NEW i \in 1 .. Len(s), NEW b \in DOMAIN SeriesBlocks(at, s, i)
        PROVE  b \in DOMAIN mem /\ mem[b] = SeriesBlocks(at, s, i)[b]
    <3>1. b \in DOMAIN blocks
          BY <1>1 DEF TableHas
    <3>2. blocks[b] = SeriesBlocks(at, s, i)[b]
          BY TableParts
    <3> QED BY <3>1, <3>2 DEF Holds
  <2> QED BY <2>1 DEF Holds
<1>4. \A i \in 1 .. Len(s) :
         VectorFree(mem, VectorAt(KeyAt(at, i) + 1, s[i])) = DOMAIN SeriesBlocks(at, s, i)
  <2>1. ASSUME NEW i \in 1 .. Len(s)
        PROVE  s[i] \in [tag : Tags, len : 0 .. MaxLen] /\ KeyAt(at, i) + 1 \in Nat
               /\ KeyAt(at, i) + 1 > 0
    <3>1. s[i] \in [tag : Tags, len : 0 .. MaxLen] /\ KeyAt(at, i) \in Nat
          BY SeriesApart
    <3> QED BY <3>1
  <2> QED BY <1>3, <2>1, VectorAnswer DEF SeriesBlocks
<1> HIDE DEF blocks, l
<1>5. \A i \in 1 .. Len(s) : CellAt(mem, at, i) = series(i)
      BY <1>2 DEF CellAt
<1>6. \A i \in 1 .. Len(s) : \A e : e \in SeriesFree(mem, series(i))
                                  <=> e = KeyAt(at, i) \/ e \in DOMAIN SeriesBlocks(at, s, i)
      BY <1>4 DEF SeriesFree, StringFree
<1> HIDE DEF series
<1>7. l.ptr = at /\ l.len = Len(s)
      BY DEF l
<1>8. \A c : c \in Cells(mem, l) <=> \E i \in 1 .. Len(s) : c = series(i)
      BY <1>5, <1>7, CellsMembers
<1>9. \A e : e \in TableFree(mem, l)
                <=> e = at \/ \E i \in 1 .. Len(s) : e \in SeriesFree(mem, series(i))
  <2>1. \A e : e \in TableFree(mem, l)
                  <=> e = at \/ \E c \in Cells(mem, l) : e \in SeriesFree(mem, c)
        BY <1>7, FreeMembers
  <2> QED BY <1>8, <2>1
<1>10. \A e : e \in TableFree(mem, l) <=> TableHas(at, s, e)
      BY <1>6, <1>9 DEF TableHas
<1> QED BY <1>1, <1>10 DEF l, blocks

\* The objects that are answered.
LEMMA HandleObject ==
    ASSUME NEW h \in Nat, NEW o \in {DataFrameOf(h), StorageOf(h)}
    PROVE  /\ o \in Objects /\ o # Blank /\ Drops(o) = {h} /\ o.kind \in {"data_frame", "storage"}
           /\ \A mem : Frees(mem, o) = {}
<1>1. Blank \in Objects /\ Blank.kind = "none"
      BY ObjectTypes DEF Blank
<1>2. o \in Objects /\ o.kind \in {"data_frame", "storage"} /\ o.owner = TRUE /\ o.h = h
      BY <1>1 DEF DataFrameOf, StorageOf, Objects, Kinds
<1>3. Drops(o) = {h}
      BY <1>2 DEF Drops, DataFrameFree, StorageFree
<1> QED BY <1>1, <1>2, <1>3, FreesByKind

\* A number owns nothing.
LEMMA CountObject ==
    /\ CountOf(9) \in Objects /\ CountOf(9) # Blank /\ Drops(CountOf(9)) = {}
    /\ \A mem : Frees(mem, CountOf(9)) = {}
<1>1. Blank \in Objects /\ Blank.kind = "none"
      BY ObjectTypes DEF Blank
<1>2. CountOf(9) \in Objects /\ CountOf(9) # Blank
      BY <1>1 DEF CountOf, Objects, Kinds
<1> QED BY <1>2, BlankIsEmpty

\* Memory that is freed as the answer's class says.
LEMMA VectorObject ==
    ASSUME NEW v \in [tag : Tags, ptr : Int, len : Nat], NEW mem,
           Null \notin VectorFree(mem, v)
    PROVE  /\ VectorOf(v) \in Objects /\ VectorOf(v) # Blank /\ Drops(VectorOf(v)) = {}
           /\ Frees(mem, VectorOf(v)) = VectorFree(mem, v)
<1>1. Blank \in Objects /\ Blank.kind = "none"
      BY ObjectTypes DEF Blank
<1> DEFINE o == VectorOf(v)
<1>2. o \in Objects /\ o.kind = "vector" /\ o.v = v
      BY <1>1 DEF VectorOf, Objects, Kinds
<1> HIDE DEF o
<1>3. Drops(o) = {}
      BY <1>2 DEF Drops, DataFrameFree, StorageFree
<1>4. Frees(mem, o) = VectorFree(mem, v)
      BY <1>2, FreesByKind
<1> QED BY <1>1, <1>2, <1>3, <1>4 DEF o

\* A row gives back its array and what the items hold.
LEMMA RowObject ==
    ASSUME NEW l \in [ptr : Int, len : Nat], NEW mem,
           Null \notin RowFree(mem, l)
    PROVE  /\ RowOf(l) \in Objects /\ RowOf(l) # Blank /\ Drops(RowOf(l)) = {}
           /\ Frees(mem, RowOf(l)) = RowFree(mem, l)
<1>1. Blank \in Objects /\ Blank.kind = "none"
      BY ObjectTypes DEF Blank
<1> DEFINE o == RowOf(l)
<1>2. o \in Objects /\ o.kind = "row" /\ o.a = l
      BY <1>1 DEF RowOf, Objects, Kinds
<1> HIDE DEF o
<1>3. Drops(o) = {}
      BY <1>2 DEF Drops, DataFrameFree, StorageFree
<1>4. Frees(mem, o) = RowFree(mem, l)
      BY <1>2, FreesByKind
<1> QED BY <1>1, <1>2, <1>3, <1>4 DEF o

\* Neighbours give back both their vector and their table.
LEMMA NeighborsObject ==
    ASSUME NEW v \in [tag : Tags, ptr : Int, len : Nat], NEW l \in [ptr : Int, len : Nat], NEW mem,
           Null \notin VectorFree(mem, v) \cup TableFree(mem, l)
    PROVE  /\ NeighborsOf(v, l) \in Objects /\ NeighborsOf(v, l) # Blank
           /\ Drops(NeighborsOf(v, l)) = {}
           /\ Frees(mem, NeighborsOf(v, l)) = VectorFree(mem, v) \cup TableFree(mem, l)
<1>1. Blank \in Objects /\ Blank.kind = "none"
      BY ObjectTypes DEF Blank
<1> DEFINE o == NeighborsOf(v, l)
<1>2. o \in Objects /\ o.kind = "neighbors" /\ o.v = v /\ o.a = l
      BY <1>1 DEF NeighborsOf, Objects, Kinds
<1> HIDE DEF o
<1>3. Drops(o) = {}
      BY <1>2 DEF Drops, DataFrameFree, StorageFree
<1>4. Frees(mem, o) = VectorFree(mem, v) \cup TableFree(mem, l)
      BY <1>2, FreesByKind
<1> QED BY <1>1, <1>2, <1>3, <1>4 DEF o

\* No answer.
LEMMA NoneHolds ==
    ASSUME TypeOK, ObjectsInvariant, AnswersNone
    PROVE  TypeOK' /\ ObjectsInvariant'
<1>1. Answers(FALSE, Blank, {}, NoBlocks, held) /\ next' = next /\ next \in Nat
      BY DEF AnswersNone, TypeOK
<1>2. DOMAIN NoBlocks = {} /\ Frees(heap', Blank) = {} /\ Drops(Blank) = {} /\ Blank \in Objects
      BY BlankIsEmpty, ObjectTypes DEF NoBlocks
<1>3. ~IsSome(area')
  <2>1. area' = Stored(area, {<<0, 0>>})
        BY <1>1 DEF Answers
  <2>2. Stored(area, {<<0, 0>>})[0] = 0
    <3> DEFINE words == {<<0, 0>>}
    <3>1. <<0, 0>> \in words /\ \A w \in words : w[1] = 0 => w[2] = 0
          OBVIOUS
    <3> HIDE DEF words
    <3>2. Stored(area, words)[0] = 0
          BY <3>1, StoredWord DEF RetArea
    <3> QED BY <3>2 DEF words
  <2> QED BY <2>1, <2>2 DEF IsSome
<1>4. /\ held \in [Handles -> {"none", "data_frame", "storage"}]
      /\ next' \in Nat /\ next' >= next /\ DOMAIN NoBlocks \subseteq (next + 1) .. next'
      /\ Frees(heap', Blank) = DOMAIN NoBlocks
      /\ \A h \in Drops(Blank) : h \in Handles /\ held[h] = "none" /\ held[h] = Blank.kind
      BY <1>1, <1>2 DEF TypeOK
<1>5. FALSE \in BOOLEAN /\ (FALSE <=> Blank # Blank) /\ (IsSome(area') <=> FALSE)
      /\ (FALSE => Lifted' = Blank) /\ (call.into \notin Vars => Blank \in {Blank, CountOf(9)})
      BY <1>3
<1> QED BY <1>1, <1>2, <1>4, <1>5, AnswerStep

\* A word of an answer, behind the word that there is one.
LEMMA WordStored ==
    ASSUME NEW at \in {4, 8}, NEW n, NEW to, to = Stored(area, {<<0, 1>>} \cup {<<at, n>>})
    PROVE  IsSome(to) /\ to[at] = n
<1> DEFINE words == {<<0, 1>>} \cup {<<at, n>>}
<1>1. /\ <<0, 1>> \in words /\ \A w \in words : w[1] = 0 => w[2] = 1
      /\ <<at, n>> \in words /\ \A w \in words : w[1] = at => w[2] = n
      OBVIOUS
<1>2. at \in RetArea /\ 0 \in RetArea
      BY DEF RetArea
<1> HIDE DEF words
<1>3. Stored(area, words)[0] = 1
      BY <1>1, <1>2, StoredWord
<1>4. Stored(area, words)[at] = n
      BY <1>1, <1>2, StoredWord
<1> QED BY <1>3, <1>4 DEF words, IsSome

\* A new handle.
LEMMA HandleHolds ==
    ASSUME TypeOK, ObjectsInvariant, AnswersHandle
    PROVE  TypeOK' /\ ObjectsInvariant'
<1>1. PICK h \in Handles :
          LET o == IF call.fn = "storage_new" THEN StorageOf(h) ELSE DataFrameOf(h)
          IN  /\ held[h] = "none"
              /\ Answers(TRUE, o, {<<PayloadAt(Handle), h>>}, NoBlocks, [held EXCEPT ![h] = o.kind])
      BY DEF AnswersHandle
<1> DEFINE o == IF call.fn = "storage_new" THEN StorageOf(h) ELSE DataFrameOf(h)
           table == [held EXCEPT ![h] = o.kind]
<1>2. h \in Nat /\ next' = next /\ next \in Nat /\ call.fn \in {"data_frame_new", "storage_new"}
      BY ObjectsAssumption DEF ObjectsAssumption, AnswersHandle, TypeOK
<1>3. /\ o \in Objects /\ o # Blank /\ Drops(o) = {h} /\ o.kind \in {"data_frame", "storage"}
      /\ Frees(heap', o) = {}
      BY <1>2, HandleObject
<1>4. IsSome(area') /\ area'[4] = h
  <2>1. area' = Stored(area, {<<0, 1>>} \cup {<<4, h>>})
        BY <1>1, Offsets DEF Answers
  <2> QED BY <2>1, WordStored
<1>5. Lifted' = o
  <2>1. call'.fn = call.fn
        BY <1>1 DEF Answers, TypeOK
  <2> QED BY <1>2, <1>4, <2>1 DEF Lifted, DataFrameNewRet, StorageNewRet, HandleIn
<1>6. /\ DOMAIN NoBlocks = {} /\ Frees(heap', o) = DOMAIN NoBlocks
      /\ DOMAIN NoBlocks \subseteq (next + 1) .. next' /\ next' \in Nat /\ next' >= next
      BY <1>2, <1>3 DEF NoBlocks
<1>7. /\ table \in [Handles -> {"none", "data_frame", "storage"}]
      /\ table[h] = o.kind /\ \A g \in Handles \ {h} : table[g] = held[g]
      BY <1>3 DEF TypeOK
<1>8. call.into \in Vars
      BY <1>1, <1>2 DEF Answers, ObjectsInvariant, CallInProgress, CallsInto
<1>9. Answers(TRUE, o, {<<PayloadAt(Handle), h>>}, NoBlocks, table) /\ held[h] = "none"
      BY <1>1
<1> HIDE DEF o, table
<1>10. /\ \A g \in Drops(o) : g \in Handles /\ held[g] = "none" /\ table[g] = o.kind
       /\ \A g \in Handles \ Drops(o) : table[g] = held[g]
      BY <1>3, <1>7, <1>9
<1> QED BY <1>3, <1>4, <1>5, <1>6, <1>7, <1>8, <1>9, <1>10, AnswerStep

\* A number.
LEMMA NumberHolds ==
    ASSUME TypeOK, ObjectsInvariant, AnswersCount
    PROVE  TypeOK' /\ ObjectsInvariant'
<1>1. /\ Answers(TRUE, CountOf(9), {<<PayloadAt(Word64), 9>>}, NoBlocks, held)
      /\ next' = next /\ next \in Nat
      /\ call.fn \in {"data_frame_push", "data_frame_size", "update_kv"}
      /\ held \in [Handles -> {"none", "data_frame", "storage"}]
      BY DEF AnswersCount, TypeOK
<1>2. /\ CountOf(9) \in Objects /\ CountOf(9) # Blank /\ Drops(CountOf(9)) = {}
      /\ Frees(heap', CountOf(9)) = {}
      BY CountObject
<1>3. IsSome(area') /\ area'[8] = 9
  <2>1. area' = Stored(area, {<<0, 1>>} \cup {<<8, 9>>})
        BY <1>1, Offsets DEF Answers
  <2> QED BY <2>1, WordStored
<1>4. Lifted' = CountOf(9)
  <2>1. call'.fn = call.fn
        BY <1>1 DEF Answers, TypeOK
  <2> QED BY <1>1, <1>3, <2>1 DEF Lifted, DataFramePushRet, DataFrameSizeRet, UpdateKvRet, CounterIn
<1>5. /\ DOMAIN NoBlocks = {} /\ Frees(heap', CountOf(9)) = DOMAIN NoBlocks
      /\ DOMAIN NoBlocks \subseteq (next + 1) .. next' /\ next' \in Nat /\ next' >= next
      /\ \A h \in Drops(CountOf(9)) : h \in Handles /\ held[h] = "none" /\ held[h] = CountOf(9).kind
      BY <1>1, <1>2 DEF NoBlocks
<1> QED BY <1>1, <1>2, <1>3, <1>4, <1>5, AnswerStep

\* A vector.
LEMMA VectorHolds ==
    ASSUME TypeOK, ObjectsInvariant, AnswersVector
    PROVE  TypeOK' /\ ObjectsInvariant'
<1>1. PICK s \in VectorShapes :
          LET v == VectorAt(next + 1, s)
          IN  Answers(TRUE, VectorOf(v), VectorWords(PayloadAt(Vector), v),
                      VectorBlocks(next + 1, s), held)
      BY DEF AnswersVector
<1> DEFINE v == VectorAt(next + 1, s)
           blocks == VectorBlocks(next + 1, s)
           o == VectorOf(v)
<1>2. /\ s \in [tag : Tags, len : 0 .. MaxLen] /\ MaxLen \in Nat
      /\ next \in Nat /\ next' = next + 1 + MaxLen
      /\ call.fn \in {"choice_nodes", "query_kv"}
      /\ held \in [Handles -> {"none", "data_frame", "storage"}]
      BY ObjectsAssumption DEF ObjectsAssumption, AnswersVector, TypeOK
<1>3. Holds(heap', blocks)
      BY <1>1, OverHolds DEF Answers
<1>4. /\ VectorFree(heap', v) = DOMAIN blocks
      /\ v \in [tag : Tags, ptr : Int, len : Nat]
      /\ v.tag = Nil => v.ptr = Null /\ v.len = 0
      /\ DOMAIN blocks \subseteq (next + 1) .. (next + 1 + MaxLen)
  <2>1. next + 1 \in Nat /\ next + 1 > 0
        BY <1>2
  <2> QED BY <1>2, <1>3, <2>1, VectorAnswer, VectorBlocksIn
<1>5. /\ DOMAIN blocks \subseteq (next + 1) .. next'
      /\ Null \notin DOMAIN blocks /\ next' \in Nat /\ next' >= next
      BY <1>2, <1>4 DEF Null
<1>6. /\ Answers(TRUE, o, VectorWords(4, v), blocks, held)
      BY <1>1, Offsets
<1> HIDE DEF v, blocks
<1>7. o \in Objects /\ o # Blank /\ Drops(o) = {} /\ Frees(heap', o) = DOMAIN blocks
      BY <1>4, <1>5, VectorObject
<1>8. IsSome(area') /\ VectorIn(area', 4, 8, 12) = v
  <2>1. area' = Stored(area, {<<0, 1>>} \cup (VectorWords(4, v) \cup {}))
        BY <1>6 DEF Answers
  <2>2. \A w \in {} : w[1] \notin {0, 4, 8, 12}
        OBVIOUS
  <2> QED BY <1>4, <2>1, <2>2, VectorStored
<1> HIDE DEF o
<1>9. Lifted' = o
  <2>1. call'.fn = call.fn
        BY <1>6 DEF Answers, TypeOK
  <2> QED BY <1>2, <1>8, <2>1 DEF Lifted, ChoiceNodesRet, QueryKvRet, o
<1>10. call.into \in Vars
      BY <1>2, <1>6 DEF Answers, ObjectsInvariant, CallInProgress, CallsInto
<1> QED BY <1>2, <1>5, <1>6, <1>7, <1>8, <1>9, <1>10, AnswerStep

\* A row.
LEMMA RowHolds ==
    ASSUME TypeOK, ObjectsInvariant, AnswersRow
    PROVE  TypeOK' /\ ObjectsInvariant'
<1>1. PICK s \in RowShapes :
          LET l == [ptr |-> next + 1, len |-> Len(s)]
          IN  Answers(TRUE, RowOf(l), ListWords(PayloadAt(List), l), RowBlocks(s), held)
      BY DEF AnswersRow
<1> DEFINE l == [ptr |-> next + 1, len |-> Len(s)]
           blocks == RowBlocks(s)
           o == RowOf(l)
<1>2. /\ s \in Seq(Tags) /\ Len(s) <= MaxLen /\ MaxLen \in Nat
      /\ next \in Nat /\ next' = next + 1 + 2 * MaxLen
      /\ call.fn = "query_nodes"
      /\ held \in [Handles -> {"none", "data_frame", "storage"}]
      BY ObjectsAssumption DEF ObjectsAssumption, AnswersRow, TypeOK
<1>3. Holds(heap', blocks)
      BY <1>1, OverHolds DEF Answers
<1>4. /\ RowFree(heap', l) = DOMAIN blocks
      /\ DOMAIN blocks \subseteq (next + 1) .. (next + 1 + 2 * MaxLen)
      BY <1>2, <1>3, RowAnswer
<1>5. /\ DOMAIN blocks \subseteq (next + 1) .. next'
      /\ Null \notin DOMAIN blocks /\ next' \in Nat /\ next' >= next
      BY <1>2, <1>4 DEF Null
<1>6. Answers(TRUE, o, ListWords(4, l), blocks, held)
      BY <1>1, Offsets
<1>7. l \in [ptr : Int, len : Nat]
      BY <1>2
<1> HIDE DEF l, blocks
<1>8. o \in Objects /\ o # Blank /\ Drops(o) = {} /\ Frees(heap', o) = DOMAIN blocks
      BY <1>4, <1>5, <1>7, RowObject
<1>9. IsSome(area') /\ area'[4] = l.ptr /\ area'[8] = l.len
  <2>1. area' = Stored(area, {<<0, 1>>} \cup ListWords(4, l))
        BY <1>6 DEF Answers
  <2>2. \A w \in {<<0, 1>>} : w[1] \notin {4, 4 + 4}
        OBVIOUS
  <2>3. area'[4] = l.ptr /\ area'[4 + 4] = l.len
        BY <1>7, <2>1, <2>2, ListStored
  <2>4. Stored(area, {<<0, 1>>} \cup ListWords(4, l))[0] = 1
    <3> DEFINE words == {<<0, 1>>} \cup ListWords(4, l)
    <3>1. words = {<<0, 1>>, <<4, l.ptr>>, <<8, l.len>>}
          BY Offsets DEF ListWords
    <3>2. <<0, 1>> \in words /\ \A w \in words : w[1] = 0 => w[2] = 1
          BY <3>1
    <3> HIDE DEF words
    <3>3. Stored(area, words)[0] = 1
          BY <3>2, StoredWord DEF RetArea
    <3> QED BY <3>3 DEF words
  <2> QED BY <2>1, <2>3, <2>4 DEF IsSome
<1> HIDE DEF o
<1>10. Lifted' = o
  <2>1. call'.fn = call.fn
        BY <1>6 DEF Answers, TypeOK
  <2>2. l = [ptr |-> l.ptr, len |-> l.len]
        BY <1>7
  <2> QED BY <1>2, <1>9, <2>1, <2>2 DEF Lifted, QueryNodesRet, o
<1>11. call.into \in Vars
      BY <1>2, <1>6 DEF Answers, ObjectsInvariant, CallInProgress, CallsInto
<1> QED BY <1>2, <1>5, <1>6, <1>8, <1>9, <1>10, <1>11, AnswerStep

\* A table keeps to its own memory.
LEMMA TableBlocksIn ==
    ASSUME NEW at \in Nat, NEW t \in Seq([tag : Tags, len : 0 .. MaxLen]), Len(t) <= MaxLen
    PROVE  \A b \in DOMAIN TableBlocks(at, t) : b \in at .. (at + Stride * MaxLen)
<1> DEFINE m == Stride * MaxLen
<1>1. MaxLen \in Nat /\ Len(t) \in Nat /\ m \in Nat
  <2>1. MaxLen \in Nat /\ Stride \in Nat
        BY ObjectsAssumption DEF ObjectsAssumption, Stride
  <2>2. \A a, b \in Nat : a * b \in Nat
        OBVIOUS
  <2> QED BY <2>1, <2>2
<1>2. ASSUME NEW i \in 1 .. Len(t)
      PROVE  /\ KeyAt(at, i) \in at .. (at + m)
             /\ DOMAIN SeriesBlocks(at, t, i) \subseteq at .. (at + m)
  <2>1. i \in Nat /\ 1 <= i /\ i <= MaxLen
        BY <1>1
  <2>2. /\ KeyAt(at, i) \in Nat /\ KeyAt(at, i) > at
        /\ KeyAt(at, i) + 1 + MaxLen <= at + m
        BY <1>1, <2>1, Strides
  <2>3. DOMAIN SeriesBlocks(at, t, i) \subseteq (KeyAt(at, i) + 1) .. (KeyAt(at, i) + 1 + MaxLen)
        BY SeriesApart
  <2> HIDE DEF m
  <2> QED BY <1>1, <2>2, <2>3
<1> HIDE DEF m
<1>3. \A b \in DOMAIN TableBlocks(at, t) : b \in at .. (at + m)
  <2>1. \A b \in DOMAIN TableBlocks(at, t) : TableHas(at, t, b)
        BY TableDomain
  <2>2. at \in at .. (at + m)
        BY <1>1
  <2> QED BY <1>2, <2>1, <2>2 DEF TableHas
<1> QED BY <1>3 DEF m

\* Neighbours: a vector and a table.
LEMMA NeighborsHolds ==
    ASSUME TypeOK, ObjectsInvariant, AnswersNeighbors
    PROVE  TypeOK' /\ ObjectsInvariant'
<1> DEFINE at == next + 2 + MaxLen
<1>1. PICK s \in VectorShapes, t \in TableShapes :
          LET v == VectorAt(next + 1, s)
              l == [ptr |-> at, len |-> Len(t)]
          IN  Answers(TRUE, NeighborsOf(v, l),
                      VectorWords(PayloadAt(Answer), v)
                          \cup ListWords(PayloadAt(Answer) + SecondAt(Vector, List), l),
                      Over(VectorBlocks(next + 1, s), TableBlocks(at, t)), held)
      BY DEF AnswersNeighbors
<1> DEFINE v == VectorAt(next + 1, s)
           l == [ptr |-> at, len |-> Len(t)]
           vector == VectorBlocks(next + 1, s)
           table == TableBlocks(at, t)
           o == NeighborsOf(v, l)
<1>2. /\ s \in [tag : Tags, len : 0 .. MaxLen] /\ MaxLen \in Nat
      /\ t \in Seq([tag : Tags, len : 0 .. MaxLen]) /\ Len(t) <= MaxLen /\ Len(t) \in Nat
      /\ next \in Nat /\ at \in Nat /\ at > 0 /\ next + 1 \in Nat /\ next + 1 > 0
      /\ call.fn = "query_neighbors"
      /\ held \in [Handles -> {"none", "data_frame", "storage"}]
  <2>1. /\ VectorShapes \subseteq [tag : Tags, len : 0 .. MaxLen] /\ MaxLen \in Nat
        /\ t \in Seq([tag : Tags, len : 0 .. MaxLen]) /\ Len(t) <= MaxLen
        BY ObjectsAssumption, Zenon DEF ObjectsAssumption
  <2>2. \A S : \A q \in Seq(S) : Len(q) \in Nat
        OBVIOUS
  <2>3. next \in Nat /\ held \in [Handles -> {"none", "data_frame", "storage"}]
        BY DEF TypeOK
  <2> QED BY <2>1, <2>2, <2>3 DEF AnswersNeighbors
<1>3. next' = at + Stride * MaxLen /\ Stride * MaxLen \in Nat
  <2>1. MaxLen \in Nat /\ Stride \in Nat
        BY <1>2 DEF Stride
  <2>2. \A a, b \in Nat : a * b \in Nat
        OBVIOUS
  <2> QED BY <2>1, <2>2 DEF AnswersNeighbors
<1>4. /\ DOMAIN vector \subseteq (next + 1) .. (next + 1 + MaxLen)
      /\ \A b \in DOMAIN table : b \in at .. (at + Stride * MaxLen)
      BY <1>2, VectorBlocksIn, TableBlocksIn
<1> DEFINE blocks == Over(vector, table)
<1>5. /\ Answers(TRUE, o, VectorWords(4, v) \cup ListWords(16, l), blocks, held)
  <2>1. PayloadAt(Answer) = 4 /\ PayloadAt(Answer) + SecondAt(Vector, List) = 16
        BY Offsets
  <2>2. Answers(TRUE, o, VectorWords(PayloadAt(Answer), v)
                            \cup ListWords(PayloadAt(Answer) + SecondAt(Vector, List), l), blocks, held)
        BY <1>1
  <2> HIDE DEF v, l, vector, table, o, blocks
  <2> QED BY <2>1, <2>2
<1> HIDE DEF v, l, vector, table, o
<1>6. DOMAIN blocks = DOMAIN vector \cup DOMAIN table
      BY OverMembers
<1>7. Holds(heap', vector) /\ Holds(heap', table)
  <2>1. DOMAIN vector \cap DOMAIN table = {}
        BY <1>2, <1>4
  <2>2. Holds(blocks, vector) /\ Holds(blocks, table)
        BY <2>1, OverHolds
  <2> HIDE DEF blocks
  <2>3. Holds(heap', blocks)
        BY <1>5, OverHolds DEF Answers
  <2> QED BY <2>2, <2>3 DEF Holds
<1>8. /\ VectorFree(heap', v) = DOMAIN vector
      /\ v \in [tag : Tags, ptr : Int, len : Nat]
      /\ v.tag = Nil => v.ptr = Null /\ v.len = 0
      BY <1>2, <1>7, VectorAnswer DEF v, vector
<1>9. TableFree(heap', l) = DOMAIN table /\ l \in [ptr : Int, len : Nat]
  <2> at \in Nat /\ at > 0
      BY <1>2
  <2> HIDE DEF at
  <2>1. TableFree(heap', [ptr |-> at, len |-> Len(t)]) = DOMAIN TableBlocks(at, t)
    <3>1. Holds(heap', TableBlocks(at, t))
          BY <1>7 DEF table
    <3>2. t \in Seq([tag : Tags, len : 0 .. MaxLen]) /\ Len(t) <= MaxLen
          BY <1>2
    <3> QED BY <3>1, <3>2, TableAnswer, Zenon
  <2> QED BY <1>2, <2>1 DEF l, table
<1> HIDE DEF blocks, at
<1>10. /\ DOMAIN blocks \subseteq (next + 1) .. next' /\ Null \notin DOMAIN blocks
       /\ next' \in Nat /\ next' >= next
  <2> DEFINE m == Stride * MaxLen
  <2>1. next' = at + m /\ m \in Nat /\ \A b \in DOMAIN table : b \in at .. (at + m)
        BY <1>3, <1>4
  <2> HIDE DEF m
  <2>2. at = next + 2 + MaxLen
        BY DEF at
  <2> QED BY <1>2, <1>4, <1>6, <2>1, <2>2 DEF Null
<1>11. o \in Objects /\ o # Blank /\ Drops(o) = {} /\ Frees(heap', o) = DOMAIN blocks
      BY <1>6, <1>8, <1>9, <1>10, NeighborsObject DEF o
<1>12. IsSome(area') /\ VectorIn(area', 4, 8, 12) = v /\ area'[16] = l.ptr /\ area'[20] = l.len
  <2> DEFINE words == VectorWords(4, v)
             more == ListWords(16, l)
  <2>1. area' = Stored(area, {<<0, 1>>} \cup (words \cup more))
        BY <1>5 DEF Answers
  <2>2. \A a, b : <<a, b>>[1] = a
        OBVIOUS
  <2>3. \A w \in more : w[1] \notin {0, 4, 8, 12}
    <3>1. more = {<<16, l.ptr>>, <<20, l.len>>}
          BY Offsets DEF ListWords
    <3> QED BY <2>2, <3>1
  <2>4. \A w \in {<<0, 1>>} \cup words : w[1] \notin {16, 16 + 4}
    <3>1. words = {<<4, v.tag>>} \cup (IF v.tag = Nil THEN {} ELSE {<<8, v.ptr>>, <<12, v.len>>})
          BY Offsets DEF VectorWords, ListWords
    <3> QED BY <2>2, <3>1
  <2>5. IsSome(area') /\ VectorIn(area', 4, 8, 12) = v
        BY <1>8, <2>1, <2>3, VectorStored
  <2>6. area'[16] = l.ptr /\ area'[16 + 4] = l.len
    <3> HIDE DEF words
    <3>1. area' = Stored(area, ({<<0, 1>>} \cup words) \cup ListWords(16, l))
          BY <2>1
    <3> QED BY <1>9, <2>4, <3>1, ListStored
  <2> QED BY <2>5, <2>6
<1>13. Lifted' = o
  <2>1. call'.fn = call.fn
        BY <1>5 DEF Answers, TypeOK
  <2>2. l = [ptr |-> l.ptr, len |-> l.len]
        BY <1>9
  <2> QED BY <1>2, <1>12, <2>1, <2>2 DEF Lifted, QueryNeighborsRet, o
<1>14. call.into \in Vars
      BY <1>2, <1>5 DEF Answers, ObjectsInvariant, CallInProgress, CallsInto
<1> QED BY <1>2, <1>5, <1>10, <1>11, <1>12, <1>13, <1>14, AnswerStep

-----------------------------------------------------------------------------
(* The end of a call.                                                      *)

\* The arrays of parameters are there to be freed.
LEMMA ArraysBack ==
    ASSUME TypeOK, ObjectsInvariant, GivenBack(call.mem, {})
    PROVE  heap' = [b \in DOMAIN heap \ call.mem |-> heap[b]] /\ UNCHANGED <<held, faults>>
<1>1. faults' = faults
      BY Inside DEF GivenBack
<1>2. held' = [h \in Handles |-> held[h]]
      BY DEF GivenBack
<1>3. held' = held
      BY <1>2 DEF TypeOK
<1> QED BY <1>1, <1>3 DEF GivenBack

\* What was lifted is what the worker gave, and the temporary has nothing left.
LEMMA SomeHolds ==
    ASSUME TypeOK, ObjectsInvariant, ReturnSome
    PROVE  TypeOK' /\ ObjectsInvariant'
<1>1. /\ call.at = "back" /\ IsSome(area) /\ call' = NoCall /\ UNCHANGED <<next, area, calls, lost>>
      BY DEF ReturnSome
<1>2. Lifted = call.sent /\ call.sent \in Objects
      BY <1>1 DEF ObjectsInvariant, AnswerArrives, TypeOK
<1>3. Frees(heap, Moved(Lifted)) = {} /\ Drops(Moved(Lifted)) = {}
      BY <1>2, MovedIsEmpty
<1>4. GivenBack(call.mem, {})
  <2>1. GivenBack(call.mem \cup {}, {})
        BY <1>3 DEF ReturnSome
  <2>2. call.mem \cup {} = call.mem
        OBVIOUS
  <2> QED BY <2>1, <2>2
<1>5. SomeOf(call.sent) \in Contents /\ SomeOf(call.sent).is = "some" /\ SomeOf(call.sent).obj = call.sent
      BY <1>2 DEF SomeOf, Contents
<1>6. var' = IF call.into \in Vars THEN [var EXCEPT ![call.into] = SomeOf(call.sent)] ELSE var
      BY <1>2 DEF ReturnSome
<1>7. heap' = [b \in DOMAIN heap \ call.mem |-> heap[b]] /\ UNCHANGED <<held, faults>>
      BY <1>4, ArraysBack
<1> QED BY <1>1, <1>5, <1>6, <1>7, ReturnStep

\* Without an answer there is an option without content.
LEMMA ReturnNoneHolds ==
    ASSUME TypeOK, ObjectsInvariant, ReturnNone
    PROVE  TypeOK' /\ ObjectsInvariant'
<1>1. /\ call.at = "back" /\ ~IsSome(area) /\ call' = NoCall /\ UNCHANGED <<next, area, calls, lost>>
      /\ GivenBack(call.mem, {}) /\ call.into \in Vars
      BY DEF ReturnNone
<1>2. call.sent = Blank
      BY <1>1 DEF ObjectsInvariant, AnswerArrives
<1> DEFINE content == NoneOf(KindOf(call.fn))
<1>3. /\ content \in Contents /\ content.is = "none"
      /\ content.obj = [Blank EXCEPT !.kind = content.obj.kind]
  <2>1. KindOf(call.fn) \in Kinds
        BY DEF KindOf, Kinds
  <2> DEFINE k == KindOf(call.fn)
  <2>2. k \in Kinds /\ [Blank EXCEPT !.kind = k] \in Objects
        BY <2>1, ObjectTypes
  <2> HIDE DEF k
  <2>3. /\ NoneOf(k) \in Contents /\ NoneOf(k).is = "none"
        /\ NoneOf(k).obj = [Blank EXCEPT !.kind = NoneOf(k).obj.kind]
        BY <2>2 DEF NoneOf, Contents, Blank
  <2> QED BY <2>3 DEF k
<1>4. heap' = [b \in DOMAIN heap \ call.mem |-> heap[b]] /\ UNCHANGED <<held, faults>>
      BY <1>1, ArraysBack
<1>5. var' = IF call.into \in Vars THEN [var EXCEPT ![call.into] = content] ELSE var
      BY <1>1 DEF ReturnNone
<1> HIDE DEF content
<1> QED BY <1>1, <1>2, <1>3, <1>4, <1>5, ReturnStep

-----------------------------------------------------------------------------
(* The specification.                                                      *)

\* Before the program starts nothing is allocated and nothing is held.
LEMMA InitHolds ==
    ASSUME Init
    PROVE  TypeOK /\ ObjectsInvariant
<1>1. /\ DOMAIN heap = {} /\ next = 0 /\ call = NoCall /\ calls = 0 /\ faults = {}
      /\ lost = [mem |-> {}, handles |-> {}]
      /\ held \in [Handles -> {"none"}] /\ \A x \in Vars : var[x] = Empty
      BY DEF Init
<1>2. call.at = "idle" /\ call.mem = {} /\ call.sent = Blank
      BY <1>1 DEF NoCall
<1>3. \A x \in Vars : Owned(x) = {} /\ HandlesOf(x) = {}
  <2>1. \A x \in Vars : var[x].obj = Blank
        BY <1>1 DEF Empty
  <2>2. Frees(heap, Blank) = {} /\ Drops(Blank) = {}
        BY BlankIsEmpty
  <2> QED BY <2>1, <2>2 DEF Owned, HandlesOf
<1>4. Frees(heap, call.sent) = {} /\ Drops(call.sent) = {}
      BY <1>2, BlankIsEmpty
<1>5. TypeOK
  <2>1. Empty \in [is : {"empty", "none", "some", "object"}, obj : Objects]
        BY ObjectTypes DEF Empty
  <2>2. var \in [Vars -> [is : {"empty", "none", "some", "object"}, obj : Objects]]
        BY <2>1 DEF Init
  <2> QED BY <1>1, <1>2, <2>2, ObjectTypes, ObjectsAssumption DEF TypeOK, NoCall, ObjectsAssumption
<1>6. MemoryIsSplit /\ HandlesAreSplit /\ HandlesAreKnown
      BY <1>1, <1>2, <1>3, <1>4 DEF MemoryIsSplit, HandlesAreSplit, HandlesAreKnown, Split
<1>7. NothingInside /\ CallInProgress /\ NothingTwice /\ AnswerArrives
      BY <1>1, <1>2 DEF NothingInside, CallInProgress, NothingTwice, AnswerArrives, Empty
<1> QED BY <1>5, <1>6, <1>7 DEF ObjectsInvariant

\* Every step keeps the invariant.
LEMMA NextHolds ==
    ASSUME TypeOK, ObjectsInvariant, [Next]_vars
    PROVE  TypeOK' /\ ObjectsInvariant'
<1>1. ASSUME NEW x \in Vars, DataFrameOpen(x) \/ StorageOpen(x)
      PROVE  TypeOK' /\ ObjectsInvariant'
      BY <1>1, OpenHolds
<1>2. ASSUME NEW s \in Vars, DataFramePush(s) \/ DataFrameSize(s)
      PROVE  TypeOK' /\ ObjectsInvariant'
      BY <1>2, CountHolds
<1>3. ASSUME NEW s \in Vars, UpdateKv(s)
      PROVE  TypeOK' /\ ObjectsInvariant'
      BY <1>3, UpdateKvHolds
<1>4. ASSUME NEW s \in Vars, UseMoved(s) \/ UnwrapNone(s)
      PROVE  TypeOK' /\ ObjectsInvariant'
      BY <1>4, AbortHolds DEF UseMoved, UnwrapNone
<1>5. ASSUME NEW s \in Vars, NEW x \in Vars,
             ChoiceNodes(s, x) \/ QueryNodes(s, x) \/ QueryNeighbors(s, x) \/ QueryKv(s, x)
      PROVE  TypeOK' /\ ObjectsInvariant'
      BY <1>5, QueryHolds
<1>6. ASSUME \/ AnswersNone \/ AnswersHandle \/ AnswersCount
             \/ AnswersVector \/ AnswersRow \/ AnswersNeighbors
      PROVE  TypeOK' /\ ObjectsInvariant'
      BY <1>6, NoneHolds, HandleHolds, NumberHolds, VectorHolds, RowHolds, NeighborsHolds
<1>7. ASSUME NoMemory \/ ReturnAbort
      PROVE  TypeOK' /\ ObjectsInvariant'
      BY <1>7, AbortHolds DEF NoMemory, ReturnAbort
<1>8. ASSUME ReturnSome \/ ReturnNone
      PROVE  TypeOK' /\ ObjectsInvariant'
      BY <1>8, SomeHolds, ReturnNoneHolds
<1>9. ASSUME NEW x \in Vars, NEW y \in Vars,
             Unwrap(x, y) \/ MoveNew(x, y) \/ Assign(x, y) \/ AssignOption(x, y)
      PROVE  TypeOK' /\ ObjectsInvariant'
      BY <1>9, UnwrapHolds, MoveNewHolds, AssignHolds, AssignOptionHolds
<1>10. ASSUME NEW x \in Vars, Leave(x)
       PROVE  TypeOK' /\ ObjectsInvariant'
      BY <1>10, LeaveHolds
<1>11. CASE UNCHANGED vars
  <2>1. UNCHANGED <<heap, next, area, held, var, call, calls, faults, lost>>
        BY <1>11 DEF vars
  <2>2. TypeOK'
        BY <2>1 DEF TypeOK
  <2>3. MemoryIsSplit' /\ HandlesAreSplit' /\ HandlesAreKnown' /\ NothingInside' /\ NothingTwice'
        BY <2>1 DEF ObjectsInvariant, MemoryIsSplit, HandlesAreSplit, HandlesAreKnown, NothingInside,
           NothingTwice, Owned, HandlesOf
  <2>4. CallInProgress' /\ AnswerArrives'
        BY <2>1 DEF ObjectsInvariant, CallInProgress, AnswerArrives, ParamArrives, SelfKnown, Lifted
  <2> QED BY <2>2, <2>3, <2>4 DEF ObjectsInvariant
<1> QED BY <1>1, <1>2, <1>3, <1>4, <1>5, <1>6, <1>7, <1>8, <1>9, <1>10, <1>11 DEF Next

\* The object whose memory was freed is nobody's afterwards.
LEMMA NobodysNow ==
    ASSUME TypeOK, ObjectsInvariant, NEW x \in Vars, NEW b \in Owned(x),
           \A z \in Vars \ {x} : var'[z].obj = var[z].obj,
           Frees(heap, var'[x].obj) = {}
    PROVE  \A y \in Vars : var'[y].obj # var[x].obj
<1>1. var'[x].obj # var[x].obj
      BY DEF Owned
<1>2. ASSUME NEW y \in Vars \ {x}
      PROVE  var[y].obj # var[x].obj
      BY Inside DEF Owned
<1> QED BY <1>1, <1>2

\* What a step takes from the memory is the call's, or belonged to an object that
\* is destroyed.
LEMMA StepFrees ==
    ASSUME TypeOK, ObjectsInvariant, Next, NEW b \in DOMAIN heap \ DOMAIN heap'
    PROVE  \/ b \in call.mem
           \/ \E x \in Vars : /\ b \in Owned(x)
                              /\ \A y \in Vars : var'[y].obj # var[x].obj
<1> DEFINE Freed == \/ b \in call.mem
                    \/ \E x \in Vars : /\ b \in Owned(x)
                                       /\ \A y \in Vars : var'[y].obj # var[x].obj
<1>1. \A mem, handles : GivenBack(mem, handles) => b \in mem
      BY DEF GivenBack
<1>2. \A blocks : heap' # Over(heap, blocks)
  <2>1. \A blocks : DOMAIN Over(heap, blocks) = DOMAIN heap \cup DOMAIN blocks
        BY DEF Over
  <2> QED BY <2>1
<1>3. \A x \in Vars : var[x].obj \in Objects
      BY DEF TypeOK
<1>4. CASE \E x, y \in Vars : Unwrap(x, y) \/ MoveNew(x, y) \/ Assign(x, y)
      BY <1>1, <1>3, <1>4, MovedIsEmpty DEF Unwrap, MoveNew, Assign
<1>5. ASSUME NEW x \in Vars, NEW y \in Vars, AssignOption(x, y)
      PROVE  Freed
  <2>1. var[y].is = "none" /\ b \in Owned(x) /\ var' = [var EXCEPT ![x] = var[y]]
        BY <1>1, <1>5 DEF AssignOption, Owned
  <2>2. Frees(heap, var[y].obj) = {}
        BY <2>1, HoldsNothing DEF Owned
  <2>3. var'[x] = var[y] /\ \A z \in Vars \ {x} : var'[z] = var[z]
        BY <2>1 DEF TypeOK
  <2> QED BY <2>1, <2>2, <2>3, NobodysNow
<1>6. ASSUME NEW x \in Vars, Leave(x)
      PROVE  Freed
  <2>1. b \in Owned(x) /\ var' = [var EXCEPT ![x] = Empty]
        BY <1>1, <1>6 DEF Leave, Owned
  <2>2. var'[x].obj = Blank /\ \A z \in Vars \ {x} : var'[z] = var[z]
        BY <2>1 DEF TypeOK, Empty
  <2>3. Frees(heap, Blank) = {}
        BY BlankIsEmpty
  <2> QED BY <2>1, <2>2, <2>3, NobodysNow
<1>7. CASE ReturnSome
  <2>1. Lifted = call.sent /\ call.sent \in Objects
        BY <1>7 DEF ReturnSome, ObjectsInvariant, AnswerArrives, TypeOK
  <2>2. Frees(heap, Moved(Lifted)) = {}
        BY <2>1, MovedIsEmpty
  <2>3. b \in call.mem \cup Frees(heap, Moved(Lifted))
        BY <1>1, <1>7 DEF ReturnSome
  <2> QED BY <2>2, <2>3
<1>8. CASE ReturnNone
      BY <1>1, <1>8 DEF ReturnNone
<1>9. CASE \/ AnswersNone \/ AnswersHandle \/ AnswersCount
           \/ AnswersVector \/ AnswersRow \/ AnswersNeighbors
      BY <1>2, <1>9 DEF AnswersNone, AnswersHandle, AnswersCount, AnswersVector, AnswersRow,
         AnswersNeighbors, Answers
<1>10. \A fn, self, into, param, arrays : ~Called(fn, self, into, param, arrays)
      BY <1>2 DEF Called
<1>11. /\ \A x \in Vars : ~DataFrameOpen(x) /\ ~StorageOpen(x)
       /\ \A s \in Vars : ~DataFramePush(s) /\ ~DataFrameSize(s) /\ ~UpdateKv(s)
       /\ \A s, x \in Vars : /\ ~ChoiceNodes(s, x) /\ ~QueryNodes(s, x)
                             /\ ~QueryNeighbors(s, x) /\ ~QueryKv(s, x)
      BY <1>10, Zenon DEF DataFrameOpen, StorageOpen, DataFramePush, DataFrameSize, UpdateKv, ChoiceNodes,
         QueryNodes, QueryNeighbors, QueryKv
<1>12. ~NoMemory /\ ~ReturnAbort /\ \A x \in Vars : ~UseMoved(x) /\ ~UnwrapNone(x)
      BY DEF NoMemory, ReturnAbort, UseMoved, UnwrapNone
<1> QED BY <1>4, <1>5, <1>6, <1>7, <1>8, <1>9, <1>11, <1>12 DEF Next

-----------------------------------------------------------------------------
(* Theorems.                                                               *)

\* The invariant holds always.
LEMMA Always == Spec => [](TypeOK /\ ObjectsInvariant)
<1>1. Init => TypeOK /\ ObjectsInvariant
      BY InitHolds
<1>2. (TypeOK /\ ObjectsInvariant) /\ [Next]_vars => (TypeOK /\ ObjectsInvariant)'
      BY NextHolds
<1> QED BY <1>1, <1>2, PTL DEF Spec

\* Variables, handles and the call in progress have the types of the library's
\* classes and of imports.h.
THEOREM ObjectsTypes == Spec => []TypeOK
BY Always, PTL

\* Memory and handles are split among the variables, the call in progress and what
\* has been lost, whatever the program does with its objects (view.hpp,
\* resources.hpp, option.hpp) and whatever the worker answers.
THEOREM ObjectsHold == Spec => []ObjectsInvariant
BY Always, PTL

\* No block is freed twice and no handle dropped twice, and what an import is given
\* is there (imports.c 66-147 and 177-675).
THEOREM FreedOnce == Spec => []NothingTwice
<1>1. ObjectsInvariant => NothingTwice
      BY DEF ObjectsInvariant
<1> QED BY <1>1, Always, PTL

\* What imports.c reads from RET_AREA is what the worker stored, for every answer.
THEOREM AnswersLifted == Spec => []AnswerArrives
<1>1. ObjectsInvariant => AnswerArrives
      BY DEF ObjectsInvariant
<1> QED BY <1>1, Always, PTL

\* No two variables own the same memory or the same handle, and what they own is
\* there.
THEOREM OwnedOnce == Spec => []OneOwner
<1>1. ASSUME ObjectsInvariant
      PROVE  OneOwner
  <2>1. ASSUME NEW x \in Vars
        PROVE  /\ Owned(x) \subseteq DOMAIN heap
               /\ \A h \in HandlesOf(x) : h \in Handles /\ held[h] = var[x].obj.kind
        BY <1>1 DEF ObjectsInvariant, MemoryIsSplit, HandlesAreSplit, HandlesAreKnown, Split
  <2>2. ASSUME NEW x \in Vars, NEW y \in Vars \ {x}
        PROVE  Owned(x) \cap Owned(y) = {} /\ HandlesOf(x) \cap HandlesOf(y) = {}
        BY <1>1 DEF ObjectsInvariant, MemoryIsSplit, HandlesAreSplit, Split
  <2> QED BY <2>1, <2>2 DEF OneOwner
<1> QED BY <1>1, Always, PTL

\* Nothing leaks but what an assignment overwrote.
THEOREM LeaksKnown == Spec => []OnlyAssignmentsLeak
<1>1. ASSUME ObjectsInvariant
      PROVE  OnlyAssignmentsLeak
  <2> DEFINE mem == UNION {Owned(x) : x \in Vars}
             handles == UNION {HandlesOf(x) : x \in Vars}
             given == {h \in Handles : held[h] # "none"}
  <2>1. \A b : b \in mem <=> \E x \in Vars : b \in Owned(x)
        OBVIOUS
  <2>2. \A h : h \in handles <=> \E x \in Vars : h \in HandlesOf(x)
        OBVIOUS
  <2> HIDE DEF mem, handles, given
  <2>3. DOMAIN heap = mem \cup call.mem \cup Frees(heap, call.sent) \cup lost.mem
        BY <1>1, <2>1 DEF ObjectsInvariant, MemoryIsSplit, Split
  <2>4. given = handles \cup Drops(call.sent) \cup lost.handles
        BY <1>1, <2>2 DEF ObjectsInvariant, HandlesAreSplit, Split, given
  <2> QED BY <2>3, <2>4 DEF OnlyAssignmentsLeak, mem, handles, given
<1> QED BY <1>1, Always, PTL

\* A view is good until the object that owns its memory is destroyed.
THEOREM ViewsGood == Spec => ViewsHold
<1> DEFINE Kept == \A b \in DOMAIN heap \ DOMAIN heap' :
          \/ b \in call.mem
          \/ \E x \in Vars : /\ b \in Owned(x)
                             /\ \A y \in Vars : var'[y].obj # var[x].obj
<1>1. (TypeOK /\ ObjectsInvariant) /\ [Next]_vars => [Kept]_vars
      BY StepFrees
<1> HIDE DEF Kept
<1>2. Spec => [][Kept]_vars
      BY <1>1, Always, PTL DEF Spec
<1> QED BY <1>2 DEF ViewsHold, Kept
=============================================================================
