--------------------------- MODULE MCGuestObjects ---------------------------
(* An instance of GuestObjects: answers with and without texts. The        *)
(* program's variables are alike.                                          *)
EXTENDS GuestObjects, TLC

AnyVar == Permutations(Vars)

V(t, n) == [tag |-> t, len |-> n]
MCVectorShapes == {V(Nil, 0), V(Txt, 2), V(F32, 1)}
MCRowShapes == {<<>>, <<Txt, I64>>}
MCTableShapes == {<<V(Txt, 1), V(I32, 0)>>}
=============================================================================
