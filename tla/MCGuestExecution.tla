-------------------------- MODULE MCGuestExecution --------------------------
(* Two calls and the guests that compete for too few worker threads.       *)
EXTENDS GuestExecution

CONSTANTS s1, s2, g1, g2, g3

MCStreams == {s1, s2}

\* Two guests of one call and one of the other, on their two engines.
MCGuests == {g1, g2, g3}
MCOf == [g \in MCGuests |-> IF g # g2 THEN s1 ELSE s2]

\* A single guest, for the counterexample.
MCOneStream == {s1}
MCOne == {g1}
MCOfOne == [g \in MCOne |-> s1]
=============================================================================
