------------------------- MODULE CanonicalEnumeration ------------------------
(***************************************************************************)
(* What an enumeration request is promised (src/lib.rs, EnumerationResult  *)
(* and EnumerationCompleteness): one answer, whose results are classes of  *)
(* allowed inputs that take the same selections, unless the program has an *)
(* operation that is not supported.  No candidate, budget or solver        *)
(* appears here.                                                           *)
(***************************************************************************)
EXTENDS FiniteSets

CONSTANTS
  Requests,
  Outcome(_, _),  \* the value and the selections of a request on one input
  Supported(_)    \* whether every operation in a request's program is

VARIABLES
  request,
  response        \* Pending, Refused, or an answer [complete, results]

vars == <<request, response>>

Pending == [at |-> "pending"]
Refused == [at |-> "refused"]

On(x) == Outcome(request, x)

\* The allowed inputs that take the selections that x does.
Class(x) == {y \in request.domain : On(y).trace = On(x).trace}

\* The result for the class that an input is the witness of.
Result(witness) ==
  [trace   |-> On(witness).trace,
   guard   |-> Class(witness),
   value   |-> [y \in Class(witness) |-> On(y).value],
   witness |-> witness]

\* Results are whole classes, once each; a complete answer has every class.
Sound(answer) ==
  /\ answer.at = "answered"
  /\ \A r \in answer.results :
       r.witness \in request.domain /\ r = Result(r.witness)
  /\ \A r, s \in answer.results : r.trace = s.trace => r = s
  /\ answer.complete => \A x \in request.domain : \E r \in answer.results : x \in r.guard

Init == request \in Requests /\ response = Pending

Answer ==
  /\ response = Pending
  /\ Sound(response')
  /\ UNCHANGED request

Refuse ==
  /\ response = Pending
  /\ ~Supported(request)
  /\ response' = Refused
  /\ UNCHANGED request

Next == Answer \/ Refuse

Spec == Init /\ [][Next]_vars

-----------------------------------------------------------------------------
(***************************************************************************)
(* What a caller can read off an answer: an allowed input is under at most *)
(* one result, that result says what the request comes to on the input,    *)
(* and if the answer is complete there is one.                             *)
(***************************************************************************)
AnswerDecidesInputs ==
  response.at = "answered" =>
    \A x \in request.domain :
      /\ \A r, s \in response.results : x \in r.guard /\ x \in s.guard => r = s
      /\ \A r \in response.results :
           x \in r.guard => r.trace = On(x).trace /\ r.value[x] = On(x).value
      /\ response.complete => \E r \in response.results : x \in r.guard

=============================================================================
