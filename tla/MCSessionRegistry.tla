-------------------------- MODULE MCSessionRegistry -------------------------
(* Few sessions, few calls, one connection or two. The calls of a run are  *)
(* told apart by what they may be, which saves the runs that only differ   *)
(* in which call is which.                                                 *)
EXTENDS SessionRegistry

CONSTANTS t1, c1, c2, c3, c4, k1, k2

MCOneField == {k1}
MCOneKey == <<k1>>

\* One call opens the session, one closes it, and the others are anything else,
\* a second close among them. They are made in any order.
Kinds(c) == CASE c = c1 -> {"open"}
              [] c = c2 -> {"close"}
              [] c = c3 -> Ops \ {"open"}
              [] c = c4 -> Ops \ {"open", "close"}

\* The calls of the worker, as far as they are of these kinds.
MCNext == \/ \E c \in Calls, t \in Tokens : \E o \in Kinds(c) : Invoke(c, o, t)
          \/ Progress

MCSpec == Init /\ [][MCNext]_vars /\ Fairness
=============================================================================
