---------------------------- MODULE SessionLife -----------------------------
(***************************************************************************)
(* What the worker's session calls promise together: a session is opened   *)
(* once, runs are started only while it is open, and what has been closed  *)
(* never opens again.                                                      *)
(***************************************************************************)
CONSTANTS Tokens,   \* session tokens
          Calls     \* the clients' calls

VARIABLES life,   \* the life of each session
          runs    \* the calls that started runs, with their session's token

vars == <<life, runs>>

Init == /\ life = [t \in Tokens |-> "unopened"]
        /\ runs = {}

Open(t) == /\ life[t] = "unopened"
           /\ life' = [life EXCEPT ![t] = "open"]
           /\ UNCHANGED runs

Start(c, t) == /\ life[t] = "open"
               /\ runs' = runs \cup {<<c, t>>}
               /\ UNCHANGED life

Close(t) == /\ life[t] = "open"
            /\ life' = [life EXCEPT ![t] = "gone"]
            /\ UNCHANGED runs

Next == \E t \in Tokens : Open(t) \/ Close(t) \/ \E c \in Calls : Start(c, t)

Spec == Init /\ [][Next]_vars
=============================================================================
