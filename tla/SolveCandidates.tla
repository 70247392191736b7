--------------------------- MODULE SolveCandidates --------------------------
(***************************************************************************)
(* Feasibility pruning (src/enumerator.rs, solve_candidates and the end of *)
(* enumerate_parsed) over one incremental solver session (src/solver.rs).  *)
(* Each candidate is checked in a scope of its own: push, assert its       *)
(* guard, check, read a model, pop.  The solver is an external process     *)
(* whose every call may fail, may fail after having taken effect, and may  *)
(* find the process gone; a scope that a failed pop leaves behind stays    *)
(* conjoined with every later guard.                                       *)
(*                                                                         *)
(* A guard is the set of inputs that satisfy it; traces are numbered in    *)
(* the order of SelectionTrace.                                            *)
(***************************************************************************)
EXTENDS Naturals, Sequences, FiniteSets

CONSTANTS
  Inputs,        \* assignments to the symbolic parameters
  Traces,        \* canonical selection traces
  Workloads,     \* the candidate lists the enumerator hands over
  Limits,        \* EnumerationOptions::max_results, NoLimit for None
  NoLimit,
  NoModel        \* no model has been read

ASSUME TracesAssumption == Traces \subseteq Nat

ASSUME NoModelAssumption == NoModel \notin Inputs

ASSUME LimitsAssumption == Limits \subseteq Nat \cup {NoLimit} /\ NoLimit \notin Nat

Candidates == [trace : Traces, guard : SUBSET Inputs]

\* The enumerator's candidates have pairwise different traces.
DistinctTraces(list) ==
  \A i, j \in 1..Len(list) : i # j => list[i].trace # list[j].trace

ASSUME WorkloadsAssumption ==
  \A list \in Workloads : list \in Seq(Candidates) /\ DistinctTraces(list)

VARIABLES
  candidates,    \* the list being solved
  limit,         \* max_results
  pc,            \* where solve_candidates is
  next,          \* the candidate being solved
  scopes,        \* the solver's scope stack: what each scope has asserted
  alive,         \* whether the solver process still answers
  answer,        \* what solve_in_scope made of the candidate
  model,         \* the model it read
  seen,          \* seen_traces
  results,       \* the guarded results
  infeasible,    \* the candidates counted as infeasible
  completeness

vars == <<candidates, limit, pc, next, scopes, alive, answer, model,
          seen, results, infeasible, completeness>>

solverVars == <<scopes, alive>>
tally == <<seen, results, infeasible, completeness>>
given == <<candidates, limit>>

Reasons == {"ResourceLimit", "Solver", "ResultLimit"}

\* The enumeration completeness the evaluator reports before solving.
Reported == {"Complete", "ResourceLimit"}

Init ==
  /\ candidates \in Workloads
  /\ limit \in Limits
  /\ pc = "start"
  /\ next = 1
  /\ scopes = <<>>
  /\ alive = TRUE
  /\ answer = "none"
  /\ model = NoModel
  /\ seen = {}
  /\ results = {}
  /\ infeasible = {}
  /\ completeness \in Reported

guard == candidates[next].guard

(***************************************************************************)
(* The external solver.  What it holds is the conjunction of its scopes.   *)
(***************************************************************************)
Asserted == {x \in Inputs : \A i \in 1..Len(scopes) : x \in scopes[i]}

Pushed == Append(scopes, Inputs)
\* Mutant of Asserting: the guard is never asserted.
AssertingNothing == scopes
Asserting == [scopes EXCEPT ![Len(scopes)] = @ \cap guard]
\* Mutant of Popped: the scope is left behind.
NotPopped == scopes
Popped == SubSeq(scopes, 1, Len(scopes) - 1)

Succeeds(effect) == alive /\ scopes' = effect /\ alive' = alive

\* The call reports an error: with or without its effect, or for good.
Breaks(effect) ==
  \/ alive /\ scopes' \in {scopes, effect} /\ alive' = alive
  \/ scopes' = scopes /\ alive' = FALSE

-----------------------------------------------------------------------------
NothingToSolve ==
  /\ pc = "start"
  /\ candidates = <<>>
  /\ pc' = "solved"
  /\ UNCHANGED <<given, next, solverVars, answer, model, tally>>

SessionFails ==
  /\ pc = "start"
  /\ candidates # <<>>
  /\ completeness' = "Solver"
  /\ pc' = "solved"
  /\ UNCHANGED <<given, next, solverVars, answer, model, seen, results, infeasible>>

SessionStarts ==
  /\ pc = "start"
  /\ candidates # <<>>
  /\ pc' = "push"
  /\ UNCHANGED <<given, next, solverVars, answer, model, tally>>

(***************************************************************************)
(* Turning to the next candidate, and what each answer does to the tally.  *)
(***************************************************************************)
\* Mutant of Advance: the same candidate is solved again.
AdvanceNowhere ==
  /\ next' = next
  /\ pc' = "push"
  /\ answer' = "none"
  /\ model' = NoModel

Advance ==
  /\ next' = next + 1
  /\ pc' = IF next = Len(candidates) THEN "solved" ELSE "push"
  /\ answer' = "none"
  /\ model' = NoModel

\* Mutant of Undecided: the candidate is skipped without a word.
SkippedSilently ==
  /\ Advance
  /\ UNCHANGED <<seen, results, infeasible, completeness>>

Undecided ==
  /\ Advance
  /\ completeness' = "Solver"
  /\ UNCHANGED <<seen, results, infeasible>>

Infeasible ==
  /\ Advance
  /\ infeasible' = infeasible \cup {next}
  /\ UNCHANGED <<seen, results, completeness>>

Feasible ==
  LET c == candidates[next] IN
  IF c.trace \in seen
    THEN /\ pc' = "error"
         /\ UNCHANGED <<next, answer, model, tally>>
    ELSE /\ Advance
         /\ seen' = seen \cup {c.trace}
         /\ results' = results \cup
              {[trace |-> c.trace, guard |-> c.guard, witness |-> model]}
         /\ UNCHANGED <<infeasible, completeness>>

(***************************************************************************)
(* SolverSession::solve.                                                   *)
(***************************************************************************)
Push ==
  /\ pc = "push"
  /\ Succeeds(Pushed)
  /\ pc' = "assert"
  /\ UNCHANGED <<given, next, answer, model, tally>>

PushFails ==
  /\ pc = "push"
  /\ Breaks(Pushed)
  /\ Undecided
  /\ UNCHANGED given

\* solve_in_scope is over: its answer waits for the pop.
Conclude(verdict) ==
  /\ answer' = verdict
  /\ pc' = "pop"
  /\ UNCHANGED <<given, next, model, tally>>

Assert ==
  /\ pc = "assert"
  /\ Succeeds(Asserting)
  /\ pc' = "check"
  /\ UNCHANGED <<given, next, answer, model, tally>>

AssertFails ==
  /\ pc = "assert"
  /\ Breaks(Asserting)
  /\ Conclude("error")

CheckUnsat ==
  /\ pc = "check"
  /\ Succeeds(scopes)
  /\ Asserted = {}
  /\ Conclude("unsat")

\* Unknown, or the per-query timeout.
CheckUnknown ==
  /\ pc = "check"
  /\ Succeeds(scopes)
  /\ Conclude("unknown")

CheckSat ==
  /\ pc = "check"
  /\ Succeeds(scopes)
  /\ Asserted # {}
  /\ pc' = "model"
  /\ UNCHANGED <<given, next, answer, model, tally>>

CheckFails ==
  /\ pc = "check"
  /\ Breaks(scopes)
  /\ Conclude("error")

ReadModel ==
  /\ pc = "model"
  /\ Succeeds(scopes)
  /\ model' \in Asserted
  /\ answer' = "sat"
  /\ pc' = "pop"
  /\ UNCHANGED <<given, next, tally>>

ReadModelFails ==
  /\ pc = "model"
  /\ Breaks(scopes)
  /\ Conclude("error")

Classify ==
  CASE answer = "sat"   -> Feasible
    [] answer = "unsat" -> Infeasible
    [] OTHER            -> Undecided

Pop ==
  /\ pc = "pop"
  /\ Succeeds(Popped)
  /\ Classify
  /\ UNCHANGED given

\* Mutant of PopFails: the error of the pop is ignored.
PopErrorIgnored ==
  /\ pc = "pop"
  /\ Breaks(Popped)
  /\ Classify
  /\ UNCHANGED given

\* A failed pop discards whatever the candidate's answer was.
PopFails ==
  /\ pc = "pop"
  /\ Breaks(Popped)
  /\ Undecided
  /\ UNCHANGED given

(***************************************************************************)
(* The results are sorted by trace and cut to max_results.                 *)
(***************************************************************************)
OverLimit == limit # NoLimit /\ Cardinality(results) > limit

Smallest(kept) ==
  /\ Cardinality(kept) = limit
  /\ \A r \in kept, d \in results \ kept : r.trace < d.trace

\* Mutant of Finish: results within the limit are reported complete.
FinishComplete ==
  /\ pc = "solved"
  /\ pc' = "done"
  /\ IF OverLimit
       THEN /\ results' \in {kept \in SUBSET results : Smallest(kept)}
            /\ completeness' = "ResultLimit"
       ELSE /\ results' = results
            /\ completeness' = "Complete"
  /\ UNCHANGED <<given, next, solverVars, answer, model, seen, infeasible>>

Finish ==
  /\ pc = "solved"
  /\ pc' = "done"
  /\ IF OverLimit
       THEN /\ results' \in {kept \in SUBSET results : Smallest(kept)}
            /\ completeness' = "ResultLimit"
       ELSE UNCHANGED <<results, completeness>>
  /\ UNCHANGED <<given, next, solverVars, answer, model, seen, infeasible>>

Terminated == pc \in {"done", "error"} /\ UNCHANGED vars

Next ==
  \/ NothingToSolve \/ SessionFails \/ SessionStarts
  \/ Push \/ PushFails
  \/ Assert \/ AssertFails
  \/ CheckUnsat \/ CheckUnknown \/ CheckSat \/ CheckFails
  \/ ReadModel \/ ReadModelFails
  \/ Pop \/ PopFails
  \/ Finish
  \/ Terminated

\* One thread runs to its return, and every solver call returns: the solver
\* is started with a per-query timeout.
Spec == Init /\ [][Next]_vars /\ WF_vars(Next)

-----------------------------------------------------------------------------
Results == [trace : Traces, guard : SUBSET Inputs, witness : Inputs]

TypeOK ==
  /\ candidates \in Seq(Candidates)
  /\ limit \in Nat \cup {NoLimit}
  /\ pc \in {"start", "push", "assert", "check", "model", "pop", "solved", "done", "error"}
  /\ next \in 1..(Len(candidates) + 1)
  /\ pc = "start" => next = 1
  /\ pc \in {"push", "assert", "check", "model", "pop", "error"} => next <= Len(candidates)
  /\ scopes \in Seq(SUBSET Inputs)
  /\ pc = "assert" => scopes # <<>>
  /\ alive \in BOOLEAN
  /\ answer \in {"none", "sat", "unsat", "unknown", "error"}
  /\ model \in Inputs \cup {NoModel}
  /\ answer = "sat" => model \in Inputs
  /\ seen \subseteq Traces
  /\ results \subseteq Results
  /\ infeasible \subseteq 1..Len(candidates)
  /\ completeness \in {"Complete"} \cup Reasons

(***************************************************************************)
(* No solver failure and no truncation has been recorded.                  *)
(***************************************************************************)
Trusted == completeness \in Reported

(***************************************************************************)
(* Push and pop balance: until a failure is recorded the solver holds,     *)
(* between candidates, nothing, and in a candidate's scope its guard only. *)
(***************************************************************************)
ScopesBalance ==
  Trusted =>
    /\ pc \in {"start", "push"} => scopes = <<>>
    /\ pc = "assert" => scopes = <<Inputs>>
    /\ pc \in {"check", "model"} => scopes = <<guard>>
    /\ pc = "pop" => Len(scopes) = 1

(***************************************************************************)
(* Every result carries an input that satisfies its own guard, whatever    *)
(* scopes earlier failures left asserted in the solver.                    *)
(***************************************************************************)
WitnessesSatisfyGuards == \A r \in results : r.witness \in r.guard

\* The candidate was returned, or no input reaches it.
Returned(r, c) == r.trace = c.trace /\ r.guard = c.guard
Settled(c) == c.guard = {} \/ \E r \in results : Returned(r, c)

(***************************************************************************)
(* Complete means complete: the results are exactly the feasible           *)
(* candidates, each under its own trace and guard.                         *)
(***************************************************************************)
CompleteIsExhaustive ==
  pc = "done" /\ completeness = "Complete" =>
    /\ \A i \in 1..Len(candidates) : Settled(candidates[i])
    /\ \A r \in results :
         r.guard # {} /\ \E i \in 1..Len(candidates) : Returned(r, candidates[i])

\* Results are told apart by their traces.
OneResultPerTrace == \A r, s \in results : r.trace = s.trace => r = s

\* What the evaluator hands over: no input follows two candidates.
GuardsSplit ==
  \A i, j \in 1..Len(candidates) : i # j => candidates[i].guard \cap candidates[j].guard = {}

(***************************************************************************)
(* Complete means a partition: an input that follows a candidate is under  *)
(* one result, and under one only, so that the results can be read as the  *)
(* cases of one function on the covered domain.                            *)
(***************************************************************************)
CompleteCoversOnce ==
  pc = "done" /\ completeness = "Complete" /\ GuardsSplit =>
    \A i \in 1..Len(candidates) : \A x \in candidates[i].guard :
      \E r \in results : x \in r.guard /\ \A s \in results : x \in s.guard => s = r

(***************************************************************************)
(* A feasible candidate is counted as infeasible only after a solver       *)
(* failure the result reports: a scope left behind by a failed pop makes   *)
(* later verdicts wrong, and never silently so.                            *)
(***************************************************************************)
InfeasibleIsHonest == Trusted => \A i \in infeasible : candidates[i].guard = {}

\* The duplicate-trace error is never raised for the enumerator's candidates.
NoDuplicateTrace == pc # "error"

(***************************************************************************)
(* The inductive invariant behind these properties: what the solver holds  *)
(* while it answers, what its answer means, and that the tally accounts    *)
(* for every candidate before `next`.                                      *)
(***************************************************************************)
CheckedGuard == pc \in {"check", "model"} => Asserted \subseteq guard

AnswerMeans ==
  pc = "pop" =>
    /\ answer = "sat" => model \in guard
    /\ answer = "unsat" /\ Trusted => guard = {}

TallyAccounts ==
  /\ pc # "done" => seen = {r.trace : r \in results}
  /\ \A r \in results : \E i \in 1..(next - 1) : Returned(r, candidates[i])
  /\ Trusted => \A i \in 1..(next - 1) : Settled(candidates[i])
  /\ Trusted /\ pc \in {"solved", "done"} => next = Len(candidates) + 1

PruningInvariant ==
  /\ DistinctTraces(candidates)
  /\ ScopesBalance
  /\ CheckedGuard
  /\ AnswerMeans
  /\ TallyAccounts
  /\ WitnessesSatisfyGuards
  /\ InfeasibleIsHonest
  /\ NoDuplicateTrace

-----------------------------------------------------------------------------
(***************************************************************************)
(* No later candidate, and no truncation, turns an incomplete enumeration  *)
(* back into a complete one.                                               *)
(***************************************************************************)
IncompleteIsFinal == [][completeness # "Complete" => completeness' # "Complete"]_vars

(***************************************************************************)
(* Every request is answered, however many solver calls fail.              *)
(***************************************************************************)
Answered == <>(pc \in {"done", "error"})

(***************************************************************************)
(* lib.rs, EnumerationOptions::max_results: reaching a configured limit    *)
(* always reports Incomplete.  The code reports it only when there is a    *)
(* result more than the limit.                                             *)
(***************************************************************************)
ReachedLimitIsIncomplete ==
  pc = "done" /\ limit # NoLimit /\ Cardinality(results) >= limit => completeness # "Complete"

=============================================================================
