---------------------------- MODULE FillContract ----------------------------
(***************************************************************************)
(* What transfer.hpp asks of every backend (FillBackendRef): an accepted   *)
(* request gets exactly one terminal answer, never from inside submit, and *)
(* it does get it.  A refused submit leaves no trace.                      *)
(***************************************************************************)
EXTENDS Naturals

CONSTANT Requests      \* the requests issuers may submit

VARIABLES pending,     \* accepted and not answered: the backend may be writing
          answers      \* how many answers each request has had

contractVars == <<pending, answers>>

Init == pending = {} /\ answers = [q \in Requests |-> 0]

Accept(q) ==
  /\ q \notin pending /\ answers[q] = 0
  /\ pending' = pending \union {q}
  /\ UNCHANGED answers

Answer(q) ==
  /\ q \in pending
  /\ pending' = pending \ {q}
  /\ answers' = [answers EXCEPT ![q] = @ + 1]

Next == \E q \in Requests : Accept(q) \/ Answer(q)

\* Every accepted request is answered in the end.
Spec == /\ Init /\ [][Next]_contractVars
        /\ \A q \in Requests : WF_contractVars(Answer(q))

=============================================================================
