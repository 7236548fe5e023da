--------------------------- MODULE MCReturnTables ---------------------------
(* A guest that names two columns, gives values of two kinds and nil, leaves *)
(* keys out, repeats one with another value, and gives values of a kind the  *)
(* column may not have.                                                      *)
EXTENDS ReturnTables

MCKeys == {"node_id", "dummy"}

I64(n) == [kind |-> "i64", of |-> n]
Bol    == [kind |-> "bol", of |-> 0]
Nil    == [kind |-> "nil", of |-> 0]

MCValues == {I64(1), I64(2), Bol, Nil}

It(k, v) == [key |-> k, val |-> v]

MCRows == {<<>>,
           <<It("node_id", I64(1))>>,
           <<It("node_id", Bol)>>,
           <<It("node_id", I64(1)), It("node_id", I64(2))>>,
           <<It("dummy", Bol)>>,
           <<It("dummy", Bol), It("node_id", I64(2))>>,
           <<It("node_id", I64(1)), It("dummy", Nil)>>}
=============================================================================
