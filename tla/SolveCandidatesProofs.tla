----------------------- MODULE SolveCandidatesProofs ------------------------
(***************************************************************************)
(* Feasibility pruning is sound and honest for every list of candidates,   *)
(* every limit and every pattern of solver failures.                       *)
(***************************************************************************)
EXTENDS SolveCandidates, SequenceTheorems, TLAPS

USE DEF given, solverVars, tally

\* The candidate being solved, and its guard.
LEMMA CurrentCandidate ==
  ASSUME candidates \in Seq(Candidates), next \in 1..Len(candidates)
  PROVE  /\ candidates[next] \in Candidates
         /\ guard \subseteq Inputs
<1>1. candidates[next] \in Candidates
  OBVIOUS
<1> QED BY <1>1 DEF guard, Candidates

\* The scope stack stays a sequence of guards through every call.
LEMMA ScopesStaySequences ==
  ASSUME scopes \in Seq(SUBSET Inputs)
  PROVE  /\ Pushed \in Seq(SUBSET Inputs)
         /\ Pushed # <<>>
         /\ scopes # <<>> /\ guard \subseteq Inputs => Asserting \in Seq(SUBSET Inputs)
         /\ Popped \in Seq(SUBSET Inputs)
<1>1. Pushed \in Seq(SUBSET Inputs) /\ Pushed # <<>>
  BY DEF Pushed
<1>2. ASSUME scopes # <<>>, guard \subseteq Inputs PROVE Asserting \in Seq(SUBSET Inputs)
  <2>1. Len(scopes) \in 1..Len(scopes)
    BY <1>2
  <2>2. scopes[Len(scopes)] \cap guard \in SUBSET Inputs
    BY <1>2
  <2> QED BY <2>1, <2>2, ExceptSeq DEF Asserting
<1>3. Popped \in Seq(SUBSET Inputs)
  BY DEF Popped
<1> QED BY <1>1, <1>2, <1>3

-----------------------------------------------------------------------------
\* A step keeps every variable's type.
LEMMA SolveTypeStep ==
  ASSUME TypeOK, [Next]_vars
  PROVE  TypeOK'
<1> USE DEF TypeOK, Reasons
<1> DEFINE InSession == pc \in {"push", "assert", "check", "model", "pop"}
<1>A. /\ Pushed \in Seq(SUBSET Inputs)
      /\ Pushed # <<>>
      /\ Popped \in Seq(SUBSET Inputs)
      /\ pc = "assert" => Asserting \in Seq(SUBSET Inputs)
  BY CurrentCandidate, ScopesStaySequences
<1>B. ASSUME Advance, InSession, candidates' = candidates
      PROVE  /\ next' \in 1..(Len(candidates') + 1)
             /\ pc' \in {"push", "solved"}
             /\ pc' = "push" => next' <= Len(candidates')
             /\ answer' = "none"
             /\ model' = NoModel
  <2>1. next \in 1..Len(candidates) /\ Len(candidates) \in Nat
    BY <1>B
  <2>2. next' = next + 1
    BY <1>B DEF Advance
  <2>3. Len(candidates') = Len(candidates)
    BY <1>B
  <2>4. next' \in 1..(Len(candidates') + 1)
    BY <2>1, <2>2, <2>3
  <2>5. pc' \in {"push", "solved"} /\ answer' = "none" /\ model' = NoModel
    BY <1>B DEF Advance
  <2>6. ASSUME pc' = "push" PROVE next' <= Len(candidates')
    <3>1. next # Len(candidates)
      BY <1>B, <2>6 DEF Advance
    <3> QED BY <2>1, <2>2, <2>3, <3>1
  <2> QED BY <2>4, <2>5, <2>6
<1>1. CASE NothingToSolve \/ SessionFails \/ SessionStarts
  <2>1. candidates # <<>> => 1 <= Len(candidates)
    OBVIOUS
  <2> QED BY <1>1, <2>1 DEF NothingToSolve, SessionFails, SessionStarts
<1>2. CASE Push \/ PushFails
  <2>1. CASE Push
    BY <1>A, <2>1 DEF Push, Succeeds
  <2>2. CASE PushFails
    BY <1>A, <1>B, <2>2 DEF PushFails, Breaks, Undecided
  <2> QED BY <1>2, <2>1, <2>2
<1>3. CASE Assert \/ AssertFails
  BY <1>3, <1>A DEF Assert, AssertFails, Succeeds, Breaks, Conclude
<1>4. CASE CheckUnsat \/ CheckUnknown \/ CheckSat \/ CheckFails
  BY <1>4 DEF CheckUnsat, CheckUnknown, CheckSat, CheckFails, Succeeds, Breaks, Conclude
<1>5. CASE ReadModel \/ ReadModelFails
  BY <1>5 DEF ReadModel, ReadModelFails, Succeeds, Breaks, Conclude, Asserted
<1>6. CASE Pop
  <2>1. scopes' \in Seq(SUBSET Inputs) /\ alive' \in BOOLEAN
    BY <1>6, <1>A DEF Pop, Succeeds
  <2>2. CASE answer = "sat"
    <3>1. Feasible
      BY <1>6, <2>2 DEF Pop, Classify
    <3>2. candidates[next] \in Candidates
      BY <1>6, CurrentCandidate DEF Pop
    <3>3. [trace |-> candidates[next].trace, guard |-> candidates[next].guard,
           witness |-> model] \in Results
      BY <2>2, <3>2 DEF Candidates, Results
    <3>4. candidates[next].trace \in Traces
      BY <3>2 DEF Candidates
    <3>5. CASE candidates[next].trace \in seen
      BY <1>6, <2>1, <3>1, <3>5 DEF Pop, Feasible
    <3>6. CASE candidates[next].trace \notin seen
      BY <1>6, <1>B, <2>1, <3>1, <3>3, <3>4, <3>6 DEF Pop, Feasible
    <3> QED BY <3>5, <3>6
  <2>3. CASE answer = "unsat"
    BY <1>6, <1>B, <2>1, <2>3 DEF Pop, Classify, Infeasible
  <2>4. CASE answer \notin {"sat", "unsat"}
    BY <1>6, <1>B, <2>1, <2>4 DEF Pop, Classify, Undecided
  <2> QED BY <2>2, <2>3, <2>4
<1>7. CASE PopFails
  BY <1>7, <1>A, <1>B DEF PopFails, Breaks, Undecided
<1>8. CASE Finish
  BY <1>8 DEF Finish
<1>9. CASE Terminated \/ UNCHANGED vars
  <2>1. UNCHANGED vars
    BY <1>9 DEF Terminated
  <2> QED BY <2>1 DEF vars
<1> QED BY <1>1, <1>2, <1>3, <1>4, <1>5, <1>6, <1>7, <1>8, <1>9 DEF Next

\* Every variable keeps its type.
THEOREM SolveTypeCorrect == Spec => []TypeOK
<1>1. Init => TypeOK
  BY WorkloadsAssumption, LimitsAssumption DEF Init, TypeOK, Reported, Reasons
<1>2. TypeOK /\ [Next]_vars => TypeOK'
  BY SolveTypeStep
<1> QED BY <1>1, <1>2, PTL DEF Spec

-----------------------------------------------------------------------------
\* What the scope stack of a trusted session holds after each call.
LEMMA ScopeContents ==
  ASSUME scopes \in Seq(SUBSET Inputs), guard \subseteq Inputs
  PROVE  /\ scopes = <<>> => Pushed = <<Inputs>>
         /\ scopes = <<Inputs>> => Asserting = <<guard>>
         /\ scopes = <<guard>> => Asserted = guard
         /\ Len(scopes) = 1 => Popped = <<>>
<1>1. ASSUME scopes = <<>> PROVE Pushed = <<Inputs>>
  BY <1>1 DEF Pushed
<1>2. ASSUME scopes = <<Inputs>> PROVE Asserting = <<guard>>
  <2>1. Len(scopes) = 1 /\ scopes[1] = Inputs
    BY <1>2
  <2>2. Asserting = [scopes EXCEPT ![1] = guard]
    BY <2>1 DEF Asserting
  <2> QED BY <1>2, <2>2
<1>3. ASSUME scopes = <<guard>> PROVE Asserted = guard
  BY <1>3 DEF Asserted
<1>4. ASSUME Len(scopes) = 1 PROVE Popped = <<>>
  BY <1>4 DEF Popped
<1> QED BY <1>1, <1>2, <1>3, <1>4

\* Whatever else is asserted, a check sees at least the candidate's guard.
LEMMA AssertNarrows ==
  ASSUME scopes \in Seq(SUBSET Inputs), scopes # <<>>, guard \subseteq Inputs,
         scopes' = Asserting
  PROVE  Asserted' \subseteq guard
<1>1. Len(scopes) \in 1..Len(scopes)
  OBVIOUS
<1>2. scopes[Len(scopes)] \cap guard \in SUBSET Inputs
  OBVIOUS
<1>3. /\ Len(scopes') = Len(scopes)
      /\ scopes'[Len(scopes)] = scopes[Len(scopes)] \cap guard
  BY <1>1, <1>2, ExceptSeq DEF Asserting
<1> QED BY <1>1, <1>3 DEF Asserted

\* A step that leaves the tally alone leaves what it accounts for.
LEMMA TallyKept ==
  ASSUME TallyAccounts, WitnessesSatisfyGuards, InfeasibleIsHonest,
         UNCHANGED <<candidates, next, seen, results, infeasible, completeness>>,
         pc \notin {"solved", "done"}, pc' \notin {"solved", "done"}
  PROVE  TallyAccounts' /\ WitnessesSatisfyGuards' /\ InfeasibleIsHonest'
  BY DEF TallyAccounts, WitnessesSatisfyGuards, InfeasibleIsHonest, Trusted, Settled, Returned

\* A candidate that could not be decided, or was infeasible, is passed over.
LEMMA TallyUndecided ==
  ASSUME TypeOK, PruningInvariant, Undecided, UNCHANGED candidates,
         pc \in {"push", "pop"}
  PROVE  PruningInvariant'
<1> USE DEF PruningInvariant, Undecided, Advance
<1>1. ~Trusted'
  BY DEF Trusted, Reported
<1>2. pc' \in {"push", "solved"}
  OBVIOUS
<1>3. DistinctTraces(candidates)'
  BY DEF DistinctTraces
<1>4. ScopesBalance' /\ InfeasibleIsHonest'
  BY <1>1 DEF ScopesBalance, InfeasibleIsHonest
<1>5. CheckedGuard' /\ AnswerMeans' /\ NoDuplicateTrace'
  BY <1>2 DEF CheckedGuard, AnswerMeans, NoDuplicateTrace
<1>6. WitnessesSatisfyGuards'
  BY DEF WitnessesSatisfyGuards
<1>7. TallyAccounts'
  <2>1. next \in Nat /\ next' = next + 1
    BY DEF TypeOK
  <2>2. \A i \in 1..(next - 1) : i \in 1..(next' - 1)
    BY <2>1
  <2> QED BY <1>1, <2>2 DEF TallyAccounts, Returned
<1> QED BY <1>3, <1>4, <1>5, <1>6, <1>7

-----------------------------------------------------------------------------
\* A candidate the solver found infeasible in a balanced scope has no input.
LEMMA TallyInfeasible ==
  ASSUME TypeOK, PruningInvariant, Infeasible, UNCHANGED candidates,
         pc = "pop", answer = "unsat", scopes' = Popped
  PROVE  PruningInvariant'
<1> USE DEF PruningInvariant, Infeasible, Advance
<1>1. pc' \in {"push", "solved"} /\ (Trusted' <=> Trusted)
  BY DEF Trusted
<1>2. Trusted => guard = {}
  BY DEF AnswerMeans
<1>3. DistinctTraces(candidates)'
  BY DEF DistinctTraces
<1>4. ScopesBalance'
  <2>1. Trusted => scopes' = <<>>
    BY ScopeContents, CurrentCandidate DEF ScopesBalance, TypeOK
  <2> QED BY <1>1, <2>1 DEF ScopesBalance
<1>5. CheckedGuard' /\ AnswerMeans' /\ NoDuplicateTrace' /\ WitnessesSatisfyGuards'
  BY <1>1 DEF CheckedGuard, AnswerMeans, NoDuplicateTrace, WitnessesSatisfyGuards
<1>6. InfeasibleIsHonest'
  BY <1>1, <1>2 DEF InfeasibleIsHonest, guard
<1>7. TallyAccounts'
  <2>1. next \in Nat /\ next' = next + 1 /\ Len(candidates) \in Nat
    BY DEF TypeOK
  <2>2. \A i \in 1..(next' - 1) : i \in 1..(next - 1) \/ i = next
    BY <2>1
  <2>3. \A i \in 1..(next - 1) : i \in 1..(next' - 1)
    BY <2>1
  <2>4. pc # "done" /\ pc' # "done"
    BY <1>1
  <2>5. seen' = {r.trace : r \in results'}
    BY <2>4 DEF TallyAccounts
  <2>6. \A r \in results' : \E i \in 1..(next' - 1) : Returned(r, candidates'[i])
    BY <2>3 DEF TallyAccounts
  <2>7. Trusted' => \A i \in 1..(next' - 1) : Settled(candidates[i])'
    BY <1>1, <1>2, <2>2 DEF TallyAccounts, Settled, guard
  <2>8. Trusted' /\ pc' \in {"solved", "done"} => next' = Len(candidates') + 1
    <3>1. pc' \in {"solved", "done"} => next = Len(candidates)
      OBVIOUS
    <3> QED BY <2>1, <3>1
  <2> QED BY <2>5, <2>6, <2>7, <2>8 DEF TallyAccounts
<1> QED BY <1>3, <1>4, <1>5, <1>6, <1>7

\* A feasible candidate's trace is new, so that it becomes a result.
LEMMA TallyFeasible ==
  ASSUME TypeOK, PruningInvariant, Feasible, UNCHANGED candidates,
         pc = "pop", answer = "sat", scopes' = Popped
  PROVE  PruningInvariant'
<1> DEFINE c == candidates[next]
           new == [trace |-> c.trace, guard |-> c.guard, witness |-> model]
<1> USE DEF PruningInvariant
<1>0. next \in 1..Len(candidates) /\ Len(candidates) \in Nat
  BY DEF TypeOK
<1>1. c.trace \notin seen
  <2> SUFFICES ASSUME c.trace \in seen PROVE FALSE
    OBVIOUS
  <2>1. PICK r \in results : r.trace = c.trace
    BY DEF TallyAccounts
  <2>2. PICK i \in 1..(next - 1) : r.trace = candidates[i].trace
    BY DEF TallyAccounts, Returned
  <2>3. i \in 1..Len(candidates) /\ i # next
    BY <1>0
  <2> QED BY <1>0, <2>1, <2>2, <2>3 DEF DistinctTraces
<1>2. /\ Advance
      /\ seen' = seen \cup {c.trace}
      /\ results' = results \cup {new}
      /\ infeasible' = infeasible
      /\ completeness' = completeness
  BY <1>1 DEF Feasible
<1> HIDE DEF c
<1>3. pc' \in {"push", "solved"} /\ (Trusted' <=> Trusted)
  BY <1>2 DEF Advance, Trusted
<1>4. DistinctTraces(candidates)'
  BY DEF DistinctTraces
<1>5. ScopesBalance'
  <2>1. Trusted => scopes' = <<>>
    BY ScopeContents, CurrentCandidate DEF ScopesBalance, TypeOK
  <2> QED BY <1>3, <2>1 DEF ScopesBalance
<1>6. CheckedGuard' /\ AnswerMeans' /\ NoDuplicateTrace' /\ InfeasibleIsHonest'
  BY <1>2, <1>3 DEF CheckedGuard, AnswerMeans, NoDuplicateTrace, InfeasibleIsHonest
<1>7. WitnessesSatisfyGuards'
  <2>1. model \in c.guard
    BY DEF AnswerMeans, guard, c
  <2> QED BY <1>2, <2>1 DEF WitnessesSatisfyGuards
<1>8. TallyAccounts'
  <2>1. next' = next + 1
    BY <1>2 DEF Advance
  <2>2. \A i \in 1..(next' - 1) : i \in 1..(next - 1) \/ i = next
    BY <1>0, <2>1
  <2>3. next \in 1..(next' - 1) /\ \A i \in 1..(next - 1) : i \in 1..(next' - 1)
    BY <1>0, <2>1
  <2>4. seen' = {r.trace : r \in results'}
    <3>1. seen = {r.trace : r \in results}
      BY DEF TallyAccounts
    <3>2. new.trace = c.trace
      OBVIOUS
    <3> HIDE DEF new
    <3> QED BY <1>2, <3>1, <3>2
  <2>5. Returned(new, candidates[next])
    BY DEF Returned, c
  <2>6. \A r \in results' : \E i \in 1..(next' - 1) : Returned(r, candidates'[i])
    <3> SUFFICES ASSUME NEW r \in results'
                 PROVE  \E i \in 1..(next' - 1) : Returned(r, candidates[i])
      OBVIOUS
    <3>1. CASE r \in results
      <4>1. PICK i \in 1..(next - 1) : Returned(r, candidates[i])
        BY <3>1 DEF TallyAccounts
      <4> QED BY <2>3, <4>1
    <3>2. CASE r = new
      BY <2>3, <2>5, <3>2
    <3> QED BY <1>2, <3>1, <3>2
  <2>7. Trusted' => \A i \in 1..(next' - 1) : Settled(candidates[i])'
    BY <1>2, <1>3, <2>2, <2>5 DEF TallyAccounts, Settled
  <2>8. Trusted' /\ pc' \in {"solved", "done"} => next' = Len(candidates') + 1
    BY <1>2, <2>1 DEF Advance
  <2> QED BY <2>4, <2>6, <2>7, <2>8 DEF TallyAccounts
<1> QED BY <1>4, <1>5, <1>6, <1>7, <1>8

-----------------------------------------------------------------------------
\* Every step of the pruning keeps the invariant.
LEMMA PruningStep ==
  ASSUME TypeOK, PruningInvariant, [Next]_vars
  PROVE  PruningInvariant'
<1> USE DEF PruningInvariant
<1>D. candidates' = candidates => DistinctTraces(candidates)'
  BY DEF DistinctTraces
<1>G. pc \in {"push", "assert", "check", "model", "pop"} =>
        guard \subseteq Inputs /\ scopes \in Seq(SUBSET Inputs)
  BY CurrentCandidate DEF TypeOK
<1>1. CASE NothingToSolve
  <2>1. next = 1 /\ candidates' = candidates /\ Len(candidates) = 0 /\ pc' = "solved"
    BY <1>1 DEF NothingToSolve, TypeOK
  <2>2. TallyAccounts'
    BY <1>1, <2>1 DEF NothingToSolve, TallyAccounts, Trusted, Settled, Returned
  <2> QED BY <1>1, <1>D, <2>1, <2>2
          DEF NothingToSolve, ScopesBalance, CheckedGuard, AnswerMeans,
              WitnessesSatisfyGuards, InfeasibleIsHonest, NoDuplicateTrace, Trusted
<1>2. CASE SessionFails
  <2>1. ~Trusted'
    BY <1>2 DEF SessionFails, Trusted, Reported
  <2>2. TallyAccounts'
    BY <1>2, <2>1 DEF SessionFails, TallyAccounts, Returned
  <2> QED BY <1>2, <1>D, <2>1, <2>2
          DEF SessionFails, ScopesBalance, CheckedGuard, AnswerMeans,
              WitnessesSatisfyGuards, InfeasibleIsHonest, NoDuplicateTrace
<1>3. CASE SessionStarts
  BY <1>3, <1>D, TallyKept
     DEF SessionStarts, ScopesBalance, CheckedGuard, AnswerMeans, NoDuplicateTrace, Trusted
<1>4. CASE Push
  <2>1. Trusted => Pushed = <<Inputs>>
    BY <1>4, <1>G, ScopeContents DEF Push, ScopesBalance
  <2> QED BY <1>4, <1>D, <2>1, TallyKept
          DEF Push, Succeeds, ScopesBalance, CheckedGuard, AnswerMeans, NoDuplicateTrace,
              Trusted
<1>5. CASE PushFails
  BY <1>5, TallyUndecided DEF PushFails
<1>6. CASE Assert
  <2>1. scopes # <<>> /\ scopes' = Asserting /\ guard' = guard
    BY <1>6 DEF Assert, Succeeds, TypeOK, guard
  <2>2. Trusted => Asserting = <<guard>>
    BY <1>6, <1>G, ScopeContents DEF Assert, ScopesBalance
  <2>3. Asserted' \subseteq guard
    BY <1>6, <1>G, <2>1, AssertNarrows DEF Assert
  <2> QED BY <1>6, <1>D, <2>1, <2>2, <2>3, TallyKept
          DEF Assert, ScopesBalance, CheckedGuard, AnswerMeans, NoDuplicateTrace, Trusted
<1>7. CASE AssertFails
  <2>1. Trusted => Len(scopes') = 1
    <3>1. Trusted => scopes = <<Inputs>> /\ Asserting = <<guard>>
      BY <1>7, <1>G, ScopeContents DEF AssertFails, ScopesBalance
    <3> QED BY <1>7, <3>1 DEF AssertFails, Breaks
  <2> QED BY <1>7, <1>D, <2>1, TallyKept
          DEF AssertFails, Conclude, ScopesBalance, CheckedGuard, AnswerMeans,
              NoDuplicateTrace, Trusted
<1>8. CASE CheckUnsat \/ CheckUnknown \/ CheckFails \/ ReadModelFails
  <2>1. scopes' = scopes /\ guard' = guard /\ answer' \in {"unsat", "unknown", "error"}
    BY <1>8 DEF CheckUnsat, CheckUnknown, CheckFails, ReadModelFails, Succeeds, Breaks,
                Conclude, guard
  <2>2. Trusted => scopes = <<guard>> /\ Asserted = guard
    BY <1>8, <1>G, ScopeContents
       DEF CheckUnsat, CheckUnknown, CheckFails, ReadModelFails, ScopesBalance
  <2>3. AnswerMeans'
    BY <1>8, <2>1, <2>2
       DEF CheckUnsat, CheckUnknown, CheckFails, ReadModelFails, Conclude, AnswerMeans,
           Trusted
  <2> QED BY <1>8, <1>D, <2>1, <2>2, <2>3, TallyKept
          DEF CheckUnsat, CheckUnknown, CheckFails, ReadModelFails, Conclude,
              ScopesBalance, CheckedGuard, NoDuplicateTrace, Trusted
<1>9. CASE CheckSat
  <2>1. scopes' = scopes /\ guard' = guard /\ Asserted' = Asserted
    BY <1>9 DEF CheckSat, Succeeds, guard, Asserted
  <2> QED BY <1>9, <1>D, <2>1, TallyKept
          DEF CheckSat, ScopesBalance, CheckedGuard, AnswerMeans, NoDuplicateTrace, Trusted
<1>10. CASE ReadModel
  <2>1. scopes' = scopes /\ guard' = guard
    BY <1>10 DEF ReadModel, Succeeds, guard
  <2>2. model' \in guard
    BY <1>10 DEF ReadModel, CheckedGuard
  <2>3. Trusted => Len(scopes) = 1
    BY <1>10 DEF ReadModel, ScopesBalance
  <2> QED BY <1>10, <1>D, <2>1, <2>2, <2>3, TallyKept
          DEF ReadModel, ScopesBalance, CheckedGuard, AnswerMeans, NoDuplicateTrace, Trusted
<1>11. CASE Pop
  <2>1. scopes' = Popped /\ pc = "pop" /\ candidates' = candidates
    BY <1>11 DEF Pop, Succeeds
  <2>2. CASE answer = "sat"
    BY <1>11, <2>1, <2>2, TallyFeasible DEF Pop, Classify
  <2>3. CASE answer = "unsat"
    BY <1>11, <2>1, <2>3, TallyInfeasible DEF Pop, Classify
  <2>4. CASE answer \notin {"sat", "unsat"}
    BY <1>11, <2>1, <2>4, TallyUndecided DEF Pop, Classify
  <2> QED BY <2>2, <2>3, <2>4
<1>12. CASE PopFails
  BY <1>12, TallyUndecided DEF PopFails
<1>13. CASE Finish
  <2>1. /\ pc = "solved" /\ pc' = "done"
        /\ candidates' = candidates /\ next' = next /\ infeasible' = infeasible
    BY <1>13 DEF Finish
  <2>2. /\ results' \subseteq results
        /\ Trusted' => Trusted /\ results' = results
    BY <1>13 DEF Finish, Trusted, Reported
  <2>3. TallyAccounts'
    BY <2>1, <2>2 DEF TallyAccounts, Settled, Returned
  <2> QED BY <1>D, <2>1, <2>2, <2>3
          DEF ScopesBalance, CheckedGuard, AnswerMeans, WitnessesSatisfyGuards,
              InfeasibleIsHonest, NoDuplicateTrace
<1>14. CASE Terminated \/ UNCHANGED vars
  BY <1>14
     DEF Terminated, vars, DistinctTraces, ScopesBalance, CheckedGuard, AnswerMeans,
         TallyAccounts, WitnessesSatisfyGuards, InfeasibleIsHonest, NoDuplicateTrace,
         Trusted, Settled, Returned, guard, Asserted
<1> QED BY <1>1, <1>2, <1>3, <1>4, <1>5, <1>6, <1>7, <1>8, <1>9, <1>10, <1>11, <1>12,
           <1>13, <1>14 DEF Next

\* Pruning is sound and honest: the invariant holds in every state.
THEOREM PruningIsInvariant == Spec => []PruningInvariant
<1> USE DEF PruningInvariant
<1>1. Init => PruningInvariant
  <2> SUFFICES ASSUME Init PROVE PruningInvariant
    OBVIOUS
  <2>1. candidates \in Seq(Candidates) /\ DistinctTraces(candidates)
    BY WorkloadsAssumption DEF Init
  <2>2. TallyAccounts
    BY DEF Init, TallyAccounts
  <2> QED BY <2>1, <2>2
          DEF Init, ScopesBalance, CheckedGuard, AnswerMeans, WitnessesSatisfyGuards,
              InfeasibleIsHonest, NoDuplicateTrace
<1>2. TypeOK /\ PruningInvariant /\ [Next]_vars => PruningInvariant'
  BY PruningStep
<1> QED BY <1>1, <1>2, SolveTypeCorrect, PTL DEF Spec

\* What the invariant says of a complete answer.
LEMMA ExhaustiveWhenDone ==
  ASSUME TypeOK, PruningInvariant
  PROVE  CompleteIsExhaustive
<1> SUFFICES ASSUME TypeOK, PruningInvariant, pc = "done", completeness = "Complete"
             PROVE  /\ \A i \in 1..Len(candidates) : Settled(candidates[i])
                    /\ \A r \in results :
                         /\ r.guard # {}
                         /\ \E i \in 1..Len(candidates) : Returned(r, candidates[i])
  BY DEF CompleteIsExhaustive
<1>1. Trusted /\ next = Len(candidates) + 1 /\ Len(candidates) \in Nat
  BY DEF Trusted, Reported, PruningInvariant, TallyAccounts, TypeOK
<1>2. next - 1 = Len(candidates)
  BY <1>1
<1> QED BY <1>1, <1>2 DEF PruningInvariant, TallyAccounts, WitnessesSatisfyGuards

\* Complete means every feasible candidate was returned, and nothing else.
THEOREM CompleteMeansExhaustive == Spec => []CompleteIsExhaustive
<1>1. TypeOK /\ PruningInvariant => CompleteIsExhaustive
  BY ExhaustiveWhenDone
<1> QED BY <1>1, SolveTypeCorrect, PruningIsInvariant, PTL

\* Every returned witness satisfies the guard it is returned under.
THEOREM WitnessesAreSound == Spec => []WitnessesSatisfyGuards
<1>1. PruningInvariant => WitnessesSatisfyGuards
  BY DEF PruningInvariant
<1> QED BY <1>1, PruningIsInvariant, PTL

\* No candidate of the enumerator is rejected as a duplicate trace.
THEOREM DuplicateTraceIsUnreachable == Spec => []NoDuplicateTrace
<1>1. PruningInvariant => NoDuplicateTrace
  BY DEF PruningInvariant
<1> QED BY <1>1, PruningIsInvariant, PTL

\* A feasible candidate is dropped as infeasible only in a reported failure.
THEOREM InfeasibleCountIsHonest == Spec => []InfeasibleIsHonest
<1>1. PruningInvariant => InfeasibleIsHonest
  BY DEF PruningInvariant
<1> QED BY <1>1, PruningIsInvariant, PTL

\* No step makes an incomplete enumeration complete.
LEMMA IncompleteStays ==
  ASSUME [Next]_vars, completeness # "Complete"
  PROVE  completeness' # "Complete"
BY DEF Next, vars, NothingToSolve, SessionFails, SessionStarts, Push, PushFails, Assert,
       AssertFails, CheckUnsat, CheckUnknown, CheckSat, CheckFails, ReadModel,
       ReadModelFails, Conclude, Pop, PopFails, Classify, Feasible, Infeasible, Undecided,
       Finish, Terminated

\* An incomplete enumeration never becomes complete again.
THEOREM IncompletenessIsFinal == Spec => IncompleteIsFinal
<1>1. [Next]_vars => [completeness # "Complete" => completeness' # "Complete"]_vars
  BY IncompleteStays
<1> QED BY <1>1, PTL DEF Spec, IncompleteIsFinal

-----------------------------------------------------------------------------
\* Only a feasible answer adds a result, and its trace is new.
LEMMA ResultsGrowByNewTraces ==
  ASSUME PruningInvariant, [Next]_vars
  PROVE  \/ results' \subseteq results
         \/ \E new : results' = results \cup {new} /\ \A r \in results : r.trace # new.trace
<1>1. CASE Pop /\ answer = "sat"
  <2> DEFINE new == [trace |-> candidates[next].trace, guard |-> candidates[next].guard,
                     witness |-> model]
  <2>1. Feasible /\ pc = "pop"
    BY <1>1 DEF Pop, Classify
  <2>2. CASE candidates[next].trace \in seen
    BY <2>1, <2>2 DEF Feasible
  <2>3. CASE candidates[next].trace \notin seen
    <3>1. seen = {r.trace : r \in results}
      BY <2>1 DEF PruningInvariant, TallyAccounts
    <3>2. results' = results \cup {new}
      BY <2>1, <2>3 DEF Feasible
    <3>3. \A r \in results : r.trace # new.trace
      BY <2>3, <3>1
    <3> QED BY <3>2, <3>3
  <2> QED BY <2>2, <2>3
<1>2. CASE Pop /\ answer # "sat"
  BY <1>2 DEF Pop, Classify, Infeasible, Undecided
<1>3. CASE Finish
  BY <1>3 DEF Finish
<1>4. CASE PushFails \/ PopFails
  BY <1>4 DEF PushFails, PopFails, Undecided
<1>5. CASE \/ NothingToSolve \/ SessionFails \/ SessionStarts \/ Push \/ Assert \/ AssertFails
           \/ CheckUnsat \/ CheckUnknown \/ CheckSat \/ CheckFails \/ ReadModel \/ ReadModelFails
           \/ Terminated \/ UNCHANGED vars
  BY <1>5 DEF NothingToSolve, SessionFails, SessionStarts, Push, Assert, AssertFails, CheckUnsat,
              CheckUnknown, CheckSat, CheckFails, ReadModel, ReadModelFails, Conclude, Terminated,
              vars
<1> QED BY <1>1, <1>2, <1>3, <1>4, <1>5 DEF Next

\* A step gives no trace a second result.
LEMMA OneResultStep ==
  ASSUME PruningInvariant, OneResultPerTrace, [Next]_vars
  PROVE  OneResultPerTrace'
<1>1. CASE results' \subseteq results
  BY <1>1 DEF OneResultPerTrace
<1>2. CASE \E new : results' = results \cup {new} /\ \A r \in results : r.trace # new.trace
  BY <1>2 DEF OneResultPerTrace
<1> QED BY <1>1, <1>2, ResultsGrowByNewTraces

\* No trace has two results.
THEOREM TracesIdentifyResults == Spec => []OneResultPerTrace
<1>1. Init => OneResultPerTrace
  BY DEF Init, OneResultPerTrace
<1>2. PruningInvariant /\ OneResultPerTrace /\ [Next]_vars => OneResultPerTrace'
  BY OneResultStep
<1> QED BY <1>1, <1>2, PruningIsInvariant, PTL DEF Spec

\* A complete enumeration of candidates that split the inputs covers each once.
THEOREM CompleteMeansPartition == Spec => []CompleteCoversOnce
<1>1. CompleteIsExhaustive /\ OneResultPerTrace => CompleteCoversOnce
  <2> SUFFICES ASSUME CompleteIsExhaustive, OneResultPerTrace, GuardsSplit,
                      pc = "done", completeness = "Complete",
                      NEW i \in 1..Len(candidates), NEW x \in candidates[i].guard
               PROVE  \E r \in results :
                        x \in r.guard /\ \A s \in results : x \in s.guard => s = r
    BY DEF CompleteCoversOnce
  <2>1. PICK r \in results : Returned(r, candidates[i])
    BY DEF CompleteIsExhaustive, Settled
  <2>2. ASSUME NEW s \in results, x \in s.guard PROVE s = r
    <3>1. PICK j \in 1..Len(candidates) : Returned(s, candidates[j])
      BY DEF CompleteIsExhaustive
    <3>2. i = j
      BY <2>2, <3>1 DEF GuardsSplit, Returned
    <3> QED BY <2>1, <3>1, <3>2 DEF Returned, OneResultPerTrace
  <2> QED BY <2>1, <2>2 DEF Returned
<1> QED BY <1>1, CompleteMeansExhaustive, TracesIdentifyResults, PTL

=============================================================================
