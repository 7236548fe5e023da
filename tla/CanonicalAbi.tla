---------------------------- MODULE CanonicalAbi ----------------------------
(***************************************************************************)
(* How values cross the border between a guest and the worker             *)
(* (src/wasm/capi): imports.c lowers parameters to machine words, passes   *)
(* the address of one static buffer, RET_AREA, to every import, and lifts  *)
(* the answer from it, with tags, sizes and offsets written as numbers.    *)
(*                                                                         *)
(* The worker's side is not in this repository. It computes from the types *)
(* where it stores an answer and how it reads a word; here it does so from *)
(* the types of imports.h, so that a number in imports.c that does not fit *)
(* its type makes the two sides see different things.                      *)
(*                                                                         *)
(* A pointer is a number; RET_AREA has a cell for the word that starts at  *)
(* each offset.                                                            *)
(***************************************************************************)
EXTENDS Integers

Null == 0

\* The tags of a value and of a vector.
Nil == 0
Bol == 1
I32 == 2
I64 == 3
F32 == 4
F64 == 5
Txt == 6
Tags == Nil .. Txt

-----------------------------------------------------------------------------
(* The types of imports.h. Each is a scalar, a union, or a pair of fields, *)
(* and C and the canonical ABI lay them out alike.                         *)

Greater(a, b) == IF a >= b THEN a ELSE b
RoundUp(n, align) == ((n + align - 1) \div align) * align

Scalar(n) == [size |-> n, align |-> n]
Union(A, B) == [size |-> Greater(A.size, B.size), align |-> Greater(A.align, B.align)]
SecondAt(A, B) == RoundUp(A.size, B.align)
Pair(A, B) == LET align == Greater(A.align, B.align)
              IN  [size |-> RoundUp(SecondAt(A, B) + B.size, align), align |-> align]

Tag      == Scalar(1)
Handle   == Scalar(4)
Word64   == Scalar(8)
String   == Pair(Scalar(4), Scalar(4))
List     == Pair(Scalar(4), Scalar(4))
Value    == Pair(Tag, Union(Word64, String))
Vector   == Pair(Tag, List)
Item     == Pair(String, Value)
Series   == Pair(String, Vector)
Answer   == Pair(Vector, List)
Option(T) == Pair(Tag, T)

\* Where the worker puts what an option holds, and the words of its parts.
PayloadAt(T) == SecondAt(Tag, T)
ListWords(at, l) == {<<at, l.ptr>>, <<at + SecondAt(Scalar(4), Scalar(4)), l.len>>}
VectorWords(at, v) == {<<at, v.tag>>} \cup
                      (IF v.tag = Nil THEN {} ELSE ListWords(at + SecondAt(Tag, List), v))

-----------------------------------------------------------------------------
(* Parameters. A value becomes a tag and two words, a vector likewise.     *)

\* A float of 32 bits goes as the integer of its bits, and so does one of 64; a
\* value here is that integer already. A text is its address and its length.
Lowered(v) ==
    CASE v.tag = Nil -> <<0, 0, 0>>
      [] v.tag \in {Bol, I32, I64, F32, F64} -> <<v.tag, v.bits, 0>>
      [] v.tag = Txt -> <<v.tag, v.ptr, v.len>>

QueryNodesParam(id) == Lowered(id)
QueryNeighborsParam(id) == Lowered(id)
QueryKvParam(defa) == Lowered(defa)

UpdateKvParam(vals) ==
    IF vals.tag = Nil THEN <<0, 0, 0>> ELSE <<vals.tag, vals.ptr, vals.len>>

\* What the worker takes three words for.
Raised(w) ==
    CASE w[1] = Nil -> [tag |-> Nil]
      [] w[1] \in {Bol, I32, I64, F32, F64} -> [tag |-> w[1], bits |-> w[2]]
      [] w[1] = Txt -> [tag |-> w[1], ptr |-> w[2], len |-> w[3]]
RaisedVector(w) ==
    IF w[1] = Nil THEN [tag |-> Nil] ELSE [tag |-> w[1], ptr |-> w[2], len |-> w[3]]

-----------------------------------------------------------------------------
(* Answers. RET_AREA is aligned to 8 and as large as the largest answer.   *)

RetArea == 0 .. 23

\* The worker stores words; the rest of the area stays as an earlier call left it.
Stored(area, words) ==
    [at \in RetArea |->
        IF \E w \in words : w[1] = at THEN (CHOOSE w \in words : w[1] = at)[2] ELSE area[at]]

IsSome(area) == area[0] = 1

HandleIn(area) == area[4]
CounterIn(area) == area[8]

\* A vector whose tag is nil has no other words.
VectorIn(area, tagAt, ptrAt, lenAt) ==
    [tag |-> area[tagAt],
     ptr |-> IF area[tagAt] = Nil THEN Null ELSE area[ptrAt],
     len |-> IF area[tagAt] = Nil THEN 0 ELSE area[lenAt]]

DataFrameNewRet(area) == HandleIn(area)
DataFramePushRet(area) == CounterIn(area)
DataFrameSizeRet(area) == CounterIn(area)
StorageNewRet(area) == HandleIn(area)
ChoiceNodesRet(area) == VectorIn(area, 4, 8, 12)
QueryNodesRet(area) == [ptr |-> area[4], len |-> area[8]]
QueryKvRet(area) == VectorIn(area, 4, 8, 12)
UpdateKvRet(area) == CounterIn(area)

\* Variant: the table is looked for where the vector is.
QueryNeighborsRet_Same(area) ==
    [v |-> VectorIn(area, 4, 8, 12), a |-> [ptr |-> area[8], len |-> area[12]]]
QueryNeighborsRet(area) ==
    [v |-> VectorIn(area, 4, 8, 12), a |-> [ptr |-> area[16], len |-> area[20]]]
=============================================================================
