----------------------------- MODULE Enumeration -----------------------------
(***************************************************************************)
(* A whole request as enumerate_parsed serves it: the selection evaluator  *)
(* (Enumerator) constructs candidates, solve_candidates (SolveCandidates)  *)
(* prunes them over a solver that may fail at every call.                  *)
(***************************************************************************)
EXTENDS EnumeratorMeaning

CONSTANTS
  Limits,      \* EnumerationOptions::max_results, NoLimit for None
  NoLimit,
  NoModel      \* no model has been read

ASSUME EnumerationAssumption ==
  Limits \subseteq Nat \cup {NoLimit} /\ NoLimit \notin Nat /\ NoModel \notin Inputs

VARIABLES candidates, limit, pc, next, scopes, alive, answer, model,
          seen, results, infeasible, completeness

evaluatorVars == <<request, ctl, stack, syntactic, incomplete>>
pruningVars == <<candidates, limit, pc, next, scopes, alive, answer, model,
                 seen, results, infeasible, completeness>>

\* The evaluator has no bound on traces; every list it hands over is a workload.
Pruning == INSTANCE SolveCandidates WITH Traces <- Nat, Workloads <- {}

EnumerateInit ==
  /\ Init
  /\ candidates = <<>>
  /\ limit \in Limits
  /\ pc = "construct"
  /\ next = 1
  /\ scopes = <<>>
  /\ alive = TRUE
  /\ answer = "none"
  /\ model = NoModel
  /\ seen = {}
  /\ results = {}
  /\ infeasible = {}
  /\ completeness = "Complete"

Construct == Next /\ ~Finished /\ UNCHANGED pruningVars

\* Traces are numbered by the first candidate that has them.
TraceNumber(i) == Min({j \in 1..i : ctl.results[j].state.trace = ctl.results[i].state.trace})

HandedOver ==
  [i \in DOMAIN ctl.results |->
     [trace |-> TraceNumber(i), guard |-> ctl.results[i].state.guard]]

\* Mutant of ReportedCompleteness: the evaluator's reason is not taken.
AlwaysComplete == "Complete"

ReportedCompleteness == IF incomplete = None THEN "Complete" ELSE "ResourceLimit"

HandOver ==
  /\ pc = "construct"
  /\ Finished
  /\ candidates' = HandedOver
  /\ completeness' = ReportedCompleteness
  /\ pc' = "start"
  /\ UNCHANGED evaluatorVars
  /\ UNCHANGED <<limit, next, scopes, alive, answer, model, seen, results, infeasible>>

Prune == pc # "construct" /\ Pruning!Next /\ UNCHANGED evaluatorVars

EnumerateNext == Construct \/ HandOver \/ Prune

\* One thread serves the request from beginning to end.
EnumerateSpec == EnumerateInit /\ [][EnumerateNext]_<<evaluatorVars, pruningVars>>
                               /\ WF_<<evaluatorVars, pruningVars>>(EnumerateNext)

-----------------------------------------------------------------------------
\* A result as the caller reads it, with the residual value on its guard.
Presented(r) ==
  LET candidate == ctl.results[r.trace] IN
  [trace   |-> Entries(candidate.state.trace),
   guard   |-> r.guard,
   value   |-> [x \in r.guard |-> candidate.value.den[x]],
   witness |-> r.witness]

response ==
  CASE pc = "done" -> [at |-> "answered", complete |-> completeness = "Complete",
                       results |-> {Presented(r) : r \in results}]
    [] pc = "error" -> [at |-> "error"]
    [] Failed       -> [at |-> "refused"]
    [] OTHER        -> [at |-> "pending"]

Promised == INSTANCE CanonicalEnumeration WITH
       Outcome <- OutcomeOn, Supported <- IsSupportedProgram

(***************************************************************************)
(* An enumeration keeps its promise: whatever solver calls fail and        *)
(* whatever budget or result limit is met, the one answer has results that *)
(* are exactly the classes of inputs with equal traces, with their values  *)
(* and a witness that takes the trace; one reported complete has every     *)
(* class.  The duplicate-trace error is never raised, and a request is     *)
(* refused only of a program with an operation beyond the evaluator.       *)
(***************************************************************************)
ImplementsCanonicalEnumeration == Promised!Spec

-----------------------------------------------------------------------------
(***************************************************************************)
(* Why the promise is kept: the inductive invariant, over those of the     *)
(* evaluator and of the pruning.  Until the evaluator is done no candidate *)
(* has been handed over; from then on those being solved are the ones it   *)
(* returned, and a reason it gave is never lost.                           *)
(***************************************************************************)
Untouched ==
  /\ candidates = <<>> /\ next = 1 /\ scopes = <<>> /\ alive = TRUE
  /\ answer = "none" /\ model = NoModel
  /\ seen = {} /\ results = {} /\ infeasible = {} /\ completeness = "Complete"

Solving ==
  /\ Finished
  /\ candidates = HandedOver
  /\ Pruning!TypeOK /\ Pruning!PruningInvariant /\ Pruning!OneResultPerTrace
  /\ incomplete # None => completeness # "Complete"

EnumerationInvariant ==
  /\ limit \in Limits
  /\ IF pc = "construct" THEN Untouched ELSE Solving

-----------------------------------------------------------------------------
(***************************************************************************)
(* Every request is answered or refused.                                   *)
(***************************************************************************)
EnumerationAnswers == <>(pc = "done" \/ Failed)

=============================================================================
