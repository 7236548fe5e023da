--------------------------- MODULE ResponseStream ---------------------------
(***************************************************************************)
(* What one StreamingRun call promises to its client, with no word about   *)
(* how the worker keeps the promise: the requests of the call are answered *)
(* at most once each and in the order in which they were sent, no answer   *)
(* comes before its request, and nothing is delivered after the end.       *)
(***************************************************************************)
EXTENDS Naturals, Sequences

VARIABLES asked,     \* number of argument messages the client has sent
          answers,   \* numbers of the requests whose responses it has read
          open       \* the response stream has not ended

vars == <<asked, answers, open>>

Init == /\ asked = 0
        /\ answers = <<>>
        /\ open = TRUE

Ask == /\ open
       /\ asked' = asked + 1
       /\ UNCHANGED <<answers, open>>

\* The next response to be delivered is that of the first unanswered request.
Answer == /\ open
          /\ Len(answers) < asked
          /\ answers' = Append(answers, Len(answers) + 1)
          /\ UNCHANGED <<asked, open>>

\* Refusal, failure, completion or cancellation: the promise ends there.
End == /\ open
       /\ open' = FALSE
       /\ UNCHANGED <<asked, answers>>

Next == Ask \/ Answer \/ End

Spec == Init /\ [][Next]_vars
=============================================================================
