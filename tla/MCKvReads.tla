----------------------------- MODULE MCKvReads ------------------------------
(* Three guests of a session that read its two fields over one connection: *)
(* as texts, numbers and booleans.                                         *)
EXTENDS KvReads

CONSTANTS g1, g2, g3, c1, t1, k1, k2

MCGuests == {g1, g2, g3}
MCOf == [g \in MCGuests |-> t1]
MCWants == [g \in MCGuests |-> CASE g = g1 -> "text" [] g = g2 -> "number" [] g = g3 -> "boolean"]
MCKeys == <<k1, k2>>
=============================================================================
