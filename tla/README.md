# A TLA+ model of xlsynth-symex

xlsynth-symex symbolically executes functions of the XLS intermediate
representation. It has two evaluators over one expression arena: a *merged*
evaluator that turns a function into one expression, and an *enumerator* that
splits the function at every selection (`sel`, `priority_sel`, `one_hot_sel`)
into candidates, each a guard, a trace of selection outcomes and a residual
value, and then asks an SMT solver which candidates some input reaches.

This directory holds TLA+ modules of the parts where correctness is hard to
test, TLC configurations that check them on small instances, and proofs, checked
by TLAPS, that hold for every value of the constants. Paths and line numbers
below are relative to the repository; `PROJECT.json` maps each definition to the
lines it stands for.

## 1. The system

| Part | Source | State | Operations |
|---|---|---|---|
| Public API | `src/lib.rs` | none | `enumerate`, `evaluate`, options, result types, accessors |
| Request set-up | `src/enumerator.rs` `enumerate_parsed`, `lower_constraint`, `lower_term`; `src/evaluator.rs` `symbolic_input`, `evaluation_input` | the arena, the list of symbolic leaves | build inputs, lower the caller's constraints to the initial guard |
| Selection evaluator | `src/enumerator.rs` `SelectionEvaluator` | per candidate: guard, trace, memo table; per request: syntactic budget, first site that exceeded it, statistics | `eval_node` and one routine per node kind, `branch_state`, `record_selection` |
| Feasibility pruning | `src/enumerator.rs` `solve_candidates` and the end of `enumerate_parsed` | seen traces, results, counts, completeness | solve each candidate, classify, sort, cut to `max_results` |
| Solver session | `src/solver.rs` | a persistent solver process and its scope stack | start, push, assert, check, read model, pop |
| Witness reconstruction | `src/enumerator.rs` `build_witness`, `witness_value` | none | a model of the leaves to a structured input |
| Expression arena | `src/expr.rs` | interned nodes and the table that finds them | one constructor per operator, each simplifying |
| Operation semantics | `src/evaluator.rs` `apply_pure_node` and its helpers | none (adds to the arena) | one per XLS operation |
| Merged evaluator | `src/evaluator.rs` `Evaluator` | memo table per call | `evaluate_parsed`, `evaluate_function` |
| Solver lowering | `src/solver.rs` `SolverSession::new`, `lower_node` | solver term per arena node | translate the arena in index order |
| Parser, Z3 | external (`xlsynth_pir`, `easy_smt`) | | parse and validate IR; decide guards |

How they interact. Everything runs on one thread by synchronous calls. A request
parses the package, builds the inputs and the initial guard in a fresh arena,
runs the selection evaluator from the function's return node, hands the
candidates to `solve_candidates`, which translates the whole arena into one
solver session and solves the candidates one by one in a scope each, and finally
sorts and cuts the results. The state shared between parts is the arena (only
ever extended), the completeness value (written by the evaluator's budget, then
by the solver loop, then by the cut), and the solver's scope stack.

What is hard here. There is no concurrency inside the library; what defies tests
is combination and failure:

* *Nested forks.* Any node may return several candidates, at any depth, and each
  must continue with everything that was left to do, with its own memo table.
* *Identity.* A selection is named by its node and by the chain of calls and
  loop iterations around it. One name for two evaluations, or two names for one,
  is wrong, and only for programs that call or iterate.
* *The budget* is one counter met in the middle of nested forks; every arm
  dropped from then on has to be reported, and what survives has to stay exact.
* *Selector boundaries*: selectors narrower than the case list, without bits,
  folded to constants, or constant without having folded.
* *An external process* that can fail at each call, after having taken effect or
  not, time out, or die; a scope left behind by a failed `pop` corrupts all
  later verdicts.
* *Reporting*: one completeness value is overwritten by three writers.
* *Two evaluators*, two translations of an expression and two traversals of the
  inputs have to agree without sharing code.

What makes each part correct:

* *Selection evaluator*: the candidates' guards partition the inputs that the
  assumptions allow (unless the budget was exceeded); traces tell candidates
  apart; on each input under its guard a candidate has the value and the
  selections of the concrete evaluation; errors arise only on demand; every
  request ends.
* *Pruning*: `Complete` means that every reachable candidate is returned;
  witnesses satisfy guards; "infeasible" is never claimed on the word of a
  corrupted solver without reporting the failure; incompleteness is final.
* *Arena*: interning and simplification preserve meaning; operands precede users.
* *Operations*: each symbolic operation denotes the XLS operation, at width 0, at
  division by zero and at overshift too.
* *Merged evaluator*: agrees with the concrete evaluation, and so with the
  enumerator; fails only for what the result depends on.
* *Rendering*: the text of an expression means what the session lowered.
* *A request end to end*: one answer, of whole classes of inputs that take the
  same selections, each with its values and a witness; all classes if `Complete`.
* *Set-up and witnesses*: flattening an input and rebuilding it from a model are
  inverse; the initial guard holds exactly where the constraints do.

`PROJECT.json` lists the hazards one by one with the lines where they bite and
the properties that would catch them.

## 2. The modules

```
Selections          selection outcomes: concrete arm, symbolic arms, deep or
  SelectionsProofs  arms partition the inputs; folding a selector changes nothing
  Enumerator        the selection evaluator as a machine with an explicit stack
    EnumeratorInvariant   its inductive invariant
      EnumeratorProofs    it is invariant; the evaluator implements SelectionSplit
      EnumeratorMeaning   what its candidates mean, against Reference; invariant
        MCEnumerator      programs and requests for TLC
Numbers, Lists      the bits of a number; sequences of anything
Induction           bits, powers of two and folds over sets and lists, for the proofs
Reference           concrete evaluation of a program on one input, site by site
  ConcreteOutcomes  the sites of a request and their outcomes (TLC only)
Programs            the programs that both evaluators are checked on (TLC only)
SelectionSplit      what selection enumeration promises (abstract)
  SelectionSplitProofs    theorems about it
SolveCandidates     feasibility pruning over the solver session
  MCSolveCandidates       candidate lists and limits for TLC
  SolveCandidatesProofs   its inductive invariant and theorems
CanonicalEnumeration      what a whole request is promised (abstract)
Enumeration         Enumerator and SolveCandidates composed; implements it
  MCEnumeration     requests and limits for TLC
  EnumerationProofs EnumeratorMeaning is invariant and results agree with
                    Reference; the promise; what a caller can conclude from it
Requests            arguments, constraints, session start, witness
  RequestProperties what they mean, from types and inputs alone; properties
    MCRequestSetUp  types, inputs and constraints for TLC
BitVectors          bit-vector operators: SMT-LIB's and the arena's folding
  Terms             arena operators at one assignment; selections made of them
    BitOps          the XLS operations as composed from arena operators
      PureNodes     apply_pure_node as a machine
        MCBitOps    nodes and operands for TLC; comparison with XlsReference
    MergedEvaluator the merged evaluator: calls, loops, dead nodes, selections
      MergedMeaning what its values mean, against Reference; invariant
        MCMergedEvaluator       the same programs for TLC
        MergedEvaluatorProofs   it is invariant; the result agrees with Reference
  ExprArena         the interned, simplifying expression arena
    Lowering        what the solver makes of an arena; meaning
      Rendering     the SMT-LIB text of an expression; its sort and meaning
        MCLowering  variables for TLC
      LoweringProofs    hash-consing, what an arena can hold and mean, that it lowers
XlsReference        the XLS operations from their definition (TLC only)
```

### Abstractions shared by the modules

An expression of the arena is represented by what it denotes: a guard is the set
of inputs that satisfy it, a bits value a function from inputs to numbers. What
an expression has beyond its meaning is whether the arena folded it to a
constant, because the code branches on that: a value carries `lit`
(`ExprArena::bits_value` is `Some`) and a guard carries `never`
(`ExprArena::bool_value` is `Some(false)`). Thus a selector that is always zero
without being folded takes the symbolic path in the model as in the code.

### Selections and Enumerator

The code is a set of mutually recursive functions over `&mut self`; the model is
the same walk with its call stack in a variable.

| Model | Code |
|---|---|
| `ctl` = call / return / run / fail | a call of `eval_node` about to start, its returned vector, a routine in progress, an `Err` |
| an activation on `stack` | one routine: `eval_operands` with its node, `eval_invoke`, `eval_counted_for`, a selection routine, or `eval_deep_or_cases` for one arm |
| `done`, `todo`, `current` | the vector of partial results being built, the one being drained, the partial in hand |
| `stage` | which operand, case or iteration the outer loop is at |
| `arms` | the symbolic outcomes of one selector still to be tried, in the code's order |
| `state` (guard, never, trace, cache) | `State`: path condition, trace, memo table |
| `syntactic`, `incomplete` | `syntactic_candidates`, `resource_incomplete` |
| `Site(frame, node)` | `NodeKey` and `SelectionId`: function, node, chain of frames |

Actions: `CacheHit`, `EvalParam`, `EnterNode` (`eval_node`); `DemandOperand`,
`EnterCallee`, `EnterIteration` (the recursive calls); `Deliver` (their return);
`NextStage` (the outer loops, with the overflow check of the induction value);
`FinishNode`, `FinishArm` (memoize and return, or fail on an unsupported
operation); `ResolveConcrete` (`record_selection`); `ForkSymbolic` (the list of
symbolic outcomes, with the mask cap of `one_hot_sel`); `BranchAtLimit`,
`BranchImpossible`, `BranchTaken` (the three exits of `branch_state`).

`Reference` is written separately, without guards, candidates, memo tables, stack
or order of evaluation: it is what the enumerator's results are compared with. A
site is a node in an invocation context; `OutcomeOfParts` gives the outcome of a
site on one input (its value, the selections it demands with what they resolve to,
and whether everything it demands is supported) in terms of the outcomes of the
sites it demands. The table of all outcomes is a parameter of `EnumeratorMeaning`,
`Outcomes`, of which the theorems assume that equation and nothing else; TLC's
instance is `OutcomesOf` of `ConcreteOutcomes`, the recursive function that the
equation defines, and `OutcomesAreOfParts` checks that it satisfies it.

### SelectionSplit

The promise, independent of programs: a set of candidates that is only ever
*split* at a fresh selection into parts with different outcomes and disjoint
guards that cover the whole, *pruned* of a candidate no input reaches, or *cut*,
once a flag says so. `Enumerator` implements it under the refinement mapping
`live` = all candidates held anywhere (in the call, in the returned vector, in
`todo`, `done` and `arms` of each activation), `cut` = budget exceeded or failed.
Each of them has a place: a depth of the stack, a list and a position counted so
that it stays the same until the candidate moves. Two candidates with the same
guard and trace would be one element of `live`; by place they are still two.

### SolveCandidates

| Model | Code |
|---|---|
| `candidates`, `next` | the vector handed over and the loop of `solve_candidates` |
| `scopes` | the solver's assertion stack, one set of inputs per scope |
| `alive` | whether the solver process still answers |
| `answer`, `model` | what `solve_in_scope` will return |
| `seen`, `results`, `infeasible`, `completeness` | `seen_traces`, `feasible`, the infeasible count (kept as the set of candidates counted), `completeness` |

Each solver call is two actions: it succeeds, or it breaks, and breaking covers
three outcomes: no effect, effect with a lost acknowledgement, and a dead
process. `PopFails` discards the answer as the code does. Traces are numbers in
the order of `SelectionTrace`.

### BitVectors, Terms, BitOps and XlsReference

`apply_pure_node` is a pure function from a node and operand values to a value.
`BitOps` has one operator per routine of `src/evaluator.rs` that it calls, each
composed from the arena's operators as the code composes it. `Terms` has those
operators, and the three selections as compositions of them, which both `BitOps`
(for values of any shape) and `MergedEvaluator` (for bits) use. A term is seen at
one assignment of the leaves: what it denotes there, and whether the arena holds
it as a constant, because a constant operand may take another path through the
code (`constant_shift`, folding by `IrBits`, a literal condition) that must end
at the same number. Where `IrBits` and SMT-LIB differ, `FoldBinary` and
`SmtBinary` differ: for zero divisors. The state machine applies one node to one
choice of operands (`PureNodes`).

`XlsReference` gives each operation from what XLS says it computes, on numbers:
no terms, conditions or working widths.

### MergedEvaluator and MergedMeaning

| Model | Code |
|---|---|
| `package` | the parsed package, from `Start` on without dead nodes (`normalize_functions`) |
| a frame [fn, args, values, loop] | an activation of `evaluate_function`: its arguments, the `values` vector so far, and the iteration and carry of a `counted_for` in progress |
| `frames` | the recursion of `evaluate_function` through calls and loop bodies |
| `outcome` | the returned value, an `Err`, or a panic |

A request is seen at one assignment of its leaves, so that values are the bits
values of `Terms` and a selection is what `apply_pure_node` builds for it. What a
node without control makes of its operands is a parameter, `Apply`: TLC's is the
routines of `BitOps`. `RequestsAssumption` says what a request is after parsing,
validation and the set-up of its arguments (`WellFormed`). The
programs are those of the enumerator, from `Programs`. The two evaluators differ,
as the code has them, in three ways the properties spell out: a selection
evaluates every case here, so an unsupported operation in a case fails the whole
request; a node nothing refers to is removed before evaluation; and an induction
value that does not fit the body's parameter is a panic in `bits_const_u64`
(`src/expr.rs:173`) where the enumerator cuts it to the width
(`src/enumerator.rs:1053`). `FailuresAreLive` says which requests these are: the
set of live nodes is defined there by reachability from the result, not by the
backward pass of `Kept`. Whether the parser admits a loop with so narrow a
parameter is outside this repository.

### Requests and RequestProperties

| Model | Code |
|---|---|
| `step`, `arguments`, `parameters`, `lowered`, `guard` | `enumerate_parsed` from the arity check to the initial guard |
| a name: the numbers after `symex_arg` | the variable of a leaf, built by appending `_index` |
| an `input` [argument, path] | `InputLeaf` |
| a term [width, den] | an expression made by `lower_term`: its value under each model |
| `model` | the map that `solve_in_scope` reads, one value per parameter |
| `outcome` | the error, "infeasible", or the `Witness` |

`SymbolicInput`, `EvaluationInput`, `LiteralValue`, `LowerTerm`, `LowerConstraint`
and `WitnessValue` follow the recursions of the code. `RequestProperties` says
what they are for without them: the values of a type, the inputs that fit a
pattern of concrete and symbolic parts, the truth of a constraint on typed
inputs. The two meet in properties such as `GuardIsAllowedInputs`: a model is in
the guard exactly when the inputs it stands for satisfy the constraints. Only one
candidate is followed, whose guard is the initial one; the others differ in
their guard alone.

### CanonicalEnumeration and Enumeration

`CanonicalEnumeration` is the promise of `EnumerationResult` with no evaluator,
candidate, budget or solver in it: from a pending request one step gives the
answer, any answer that is `Sound`, or refuses a program that has an operation
beyond the evaluator (the `Err` of an unsupported operation or an overflowing
induction value). `Enumeration` runs the actions of `Enumerator`
to the end, hands candidates and completeness over, and runs those of
`SolveCandidates` (an INSTANCE whose variables are the composition's). Its response
is a function of that state; TLC checks that `Enumeration` implements
`CanonicalEnumeration` under it.

### ExprArena, Lowering and Rendering

| Model | Code |
|---|---|
| `nodes`, `interned` | `ExprArena::nodes` and the hash-consing table |
| a node [kind, sort, args, members, data] | `ExprNode`, `ExprKind`; the sorted, deduplicated operand vector of `BoolAnd` and `BoolOr` is a set |
| an arena with an `id` | `&mut self` and the `ExprId` a constructor returns |
| `Call...` actions | a call of one constructor on ids of the arena, with the sorts it asserts |

A constructor that calls others (`bool_to_bit` makes two constants and an `ite`)
is the chain of their effects, so an unused constant it interned on the way stays
in the arena as in the code. `Lowering` adds what `SolverSession::new` makes of
each node: the width of its term, what the solver requires of operands, and its
value under an assignment. The properties look one constructor call beyond each
reachable arena. `Rendering` is the other translation: `to_smtlib` as a parse
tree, and how SMT-LIB reads such a tree, where `Bool` is not `(_ BitVec 1)` and
`and`, `or` and `concat` take two operands.

## 3. What the runs check

| Run | Question | Instance |
|---|---|---|
| `enumerator` | Does the evaluator tell traces apart, resolve no selection twice, agree with concrete evaluation, fail only on demand, and end? | 198 requests, 8 inputs, budget never exhausted |
| `enumerator_budget` | Are the two invariants the proofs rest on true of every reachable stack? Does the evaluator only split, prune and cut (`SelectionSplit`)? When the budget runs out in the middle of nested forks, is every lost arm reported, do candidates ever outnumber it, and does the reported reason stay the first? | 46 requests, budget 4 |
| `solve_candidates` | Whatever calls fail, is the answer exhaustive and a partition when it says complete, sound in its witnesses, honest in what it calls infeasible, final in what it reports, and always given? | all lists of up to 3 candidates with disjoint guards over 2 inputs, limits none, 0, 1, 2 |
| `solve_candidates_limit` | Does reaching `max_results` always report incompleteness, as `src/lib.rs` says? No: see section 6 | the same with limits 1, 2 |
| `enumeration` | Evaluator and pruning together: does every answer keep the promise of `CanonicalEnumeration`, and is one always given? | 13 requests (2 exceed the budget of 8), limits none and 1, failures of any solver call |
| `merged_evaluator` | Has every value in every activation of the merged evaluator the outcome of its site, the result included? Does the evaluator fail exactly for what is live, and end? | 195 requests of the enumerator's programs at 8 inputs each |
| `request_set_up` | Do arguments denote the caller's inputs, parameters name the symbolic leaves once, guards mean the constraints, refusals hit only ill-typed requests, and witnesses come back as allowed inputs? | 1160 requests: types nested two deep, fitting and misfitting inputs, constraints over two 2-bit leaves |
| `bit_ops` | Is each symbolic operation the XLS operation, whether operands folded or not? | all operations, operands of width 0 to 3 (4 for positions), every value, constant and variable |
| `bit_ops_zero_width` | Is `bits[0]` supported where XLS permits it, as the guide says? No: see section 6 | shifts and products with one or two `bits[0]` operands |
| `arena_guards` | Do negation, conjunction and disjunction keep meaning, and make one node of the same conjuncts in any order, grouping and number? Is interning a bijection? Are texts well sorted, with the same meaning? | two Boolean variables, every arena of up to 4 nodes |
| `arena_vectors` | Do constructors keep meaning and fold every constant, can the session lower everything they build, and does the text mean the same? | variables of width 1 and 2, every arena of up to 3 nodes |

Each property of a passing run has a mutant in `PROJECT.json`: a plausible bug
in one definition under which the run must report that property violated.

### Bounds, and why they are enough

* `MCInputs == 0..7`: a `bits[2]` and a `bits[1]` leaf. Two bits give a selector
  with more values than cases (2), as many masks as a two-case `one_hot_sel` has,
  and selectors narrower (1, 0) than a list of 2 or 3 cases.
* Programs: every pair of selection kinds, the second selecting on, or demanding,
  the first, or both, or neither (`Pairs`); selectors that are constant, empty,
  narrow, or constant without having folded, and assumptions that restrict or
  contradict (`Selectors`); unsupported operations in a dead, a live and an
  unreachable case (`Failures`); two calls of one function, and calls nested two
  deep (`Calls`); loops of 0, 2 and 3 iterations that select on an invariant, the
  carried value or the induction value, with and without overflow (`Loops`).
  A fork inside a fork is the case that nests further only by repetition; loops
  reach four forks in a row.
* `Limit`: 100 is above what any program needs, 4 below what most need, so that
  the budget is met at each kind of selection and at each depth. The code's
  limit, `SYNTACTIC_CANDIDATE_SAFETY_LIMIT`, is 1000000.
* `MaxUsize = 7` stands for `usize::MAX`: the loops with stride 4 or 5 reach it.
* `merged_evaluator` has the same programs at every input: sharing, calls and
  loops are the same cases, without candidates.
* `enumeration` crosses each solver failure with each hand-over: programs with two
  to six candidates, of which one or several no input reaches, one request with
  contradicting assumptions, two beyond the budget of 8, four with an
  unsupported operation (dead, live or unreachable), and a limit of 1 that cuts what
  most of them return.
* `request_set_up`: types nest two deep (a tuple in an array, an array in a
  tuple), each with an element of width 0, so that an index path has two steps
  and can skip a leaf; every input fits some type and misfits others, at the top
  or inside. Leaves have 1 or 2 bits: two distinguish signed from unsigned
  comparison and wrap-around in sums. A constraint is one comparison of any two
  terms, or a junction of at most two parts: deeper terms repeat the recursion.
* `BitOps`: width 3 has both signs, a sign bit distinct from the lowest, amounts
  and indices below, at and beyond the width; widths of two operands vary
  independently where XLS lets them. Arrays have up to three elements and two
  dimensions, so that an index is inside, last or beyond in each.
* Arenas: the properties evaluate every constructor on every arena, so that a
  property sees one node more than `MaxNodes` (two for `GuardsAreNormal`). The
  simplifications look at an operand and, for negation and junctions, at the
  operand's operands; three existing nodes reach every pattern of vectors, four
  are needed to nest a junction of two distinct guards under a third. Operators
  are those that folding or simplification treats differently; the ones left out
  take the same path (`BitOps` checks their values). Junctions of the guard run
  take up to three operands (`MaxArgs`), the least for which a text that nests
  from the wrong side differs. The guard run has no bit
  vectors (`MaxWidth = 0`): `bool_to_bit`, `bit_is_one` and comparisons occur in
  the other.
* Pruning: three candidates are one before, at and after a failure; two inputs
  give feasible, infeasible and multi-input guards. The proofs remove this bound.

### Fairness

`Enumerator`, `SolveCandidates`, their composition and `MergedEvaluator` have
`WF_vars(Next)` and nothing stronger. Each models one thread running to its
return: nothing can preempt it for ever, and every call to the solver returns
because the session starts it with a per-query timeout. Nondeterminism in the
outcome of a call is left unconstrained: no property assumes that a call
eventually succeeds. `Requests`, `BitOps` and the arena have no liveness property
and no fairness.

## 4. What is proved

TLAPS checks each proof to its leaves; no fact is assumed but the constants'.

* `SelectionSplitProofs`: `SplitTracesConflict` (any two candidates disagree at a
  selection both have reached) and `SplitPartition` (guards are disjoint, lie in
  the assumptions and cover them until a cut), for every set of inputs. The two
  invariants are inductive as they stand; the split step compares two parts of
  one candidate, a part and a bystander, and two bystanders.
* `SelectionsProofs`: the premise of a split, for every width and number of cases.
  `SelArmsPartition`, `PriorityArmsPartition` and `OneHotArmsPartition`: an input is
  in exactly one arm, arms have different outcomes, and an arm known to be false is
  empty; of the masks of a `one_hot_sel`, however many the cap leaves, all but that
  they cover the inputs. Masks are numbers and cases are bits: that two masks with
  the same bits are equal, and that there are 2^r of them, is `Induction`.
  `ConcreteSelIsAnArm` and `ConcretePriorityIsAnArm`: the arm that holds is the one
  the concrete path resolves to, so that whether the arena folded a selector
  decides how many candidates are tried, not what they mean. The first set bit
  exists because the naturals are well founded.
* `EnumeratorProofs`: what the selection evaluator promises of its candidates
  whatever they compute, for every program, request and budget. `BudgetIsRespected` and
  `ReasonStaysFirst` follow from a case analysis of the actions (`CountingSteps`:
  only `BranchTaken` counts, and only while there is budget). `EvaluatorIsSound`
  is the inductive invariant described below, and from it `EvaluatorIsTyped`
  (`TypeOK`), `SelectionsResolveOnce` (`NoRepeatedSelection`), `CandidatesDisagree`
  (`CandidatesConflict`), `BudgetBoundsCandidates` (`CandidatesWithinBudget`), the
  refinement `EvaluatorSplits` (`ImplementsSelectionSplit`) and, with
  `SplitPartition`, `GuardsPartitionInputs`: the guards of the candidates are
  disjoint and, until one is given up, cover exactly the allowed inputs.
* `SolveCandidatesProofs`: `SolveTypeCorrect` and `PruningIsInvariant`, and from
  them `CompleteMeansExhaustive`, `CompleteMeansPartition`, `WitnessesAreSound`,
  `InfeasibleCountIsHonest`, `TracesIdentifyResults`, `DuplicateTraceIsUnreachable`
  and `IncompletenessIsFinal`, for any number of candidates, inputs and limits.
* `EnumerationProofs`, first part: what the candidates compute. `CandidatesAreRight` and
  `EvaluatorStaysRight` (`EvaluatorIsRight`) are the second inductive invariant
  described below, and from it `ResultsAgreeWithReference` (`ResultsMatchReference`:
  on each input under its guard a returned candidate has the value and exactly the
  selections of the concrete evaluation) and `FailuresAgreeWithReference`
  (`FailuresAreDemanded`: what is in an inactive case never fails a request).
* `EnumerationProofs`, second part: the whole request. `EnumerationIsSound` is the
  invariant of the composition, `EnumerationKeepsItsPromise` the refinement of
  `CanonicalEnumeration` (`ImplementsCanonicalEnumeration`) for every program,
  budget and limit and every failure of the solver. `PromisedAnswersDecide` is what
  a caller may conclude from the promise: an allowed input is under at most one
  result, which has its selections and its value, and under exactly one when the
  answer is complete. `AnswersDecideInputs` says so of the composition.
* `MergedEvaluatorProofs`: what the merged evaluator computes, for every program,
  request, assignment of the leaves and pure operation. `EvaluationStaysRight`
  (`EvaluationIsRight`) is its inductive invariant, described below, and
  `MergedAgreesWithReference` (`MergedMatchesReference`) what it says of the result:
  merging every case gives the value of evaluating what the input selects. With
  `ResultsAgreeWithReference` both evaluators are shown to describe one function.
* `LoweringProofs`: everything the runs check of arenas but the text, for every set
  of variables and operators, every width and every bound. `HashConsing`
  (`InternedIsInverse`: a node has one id), `DependencyOrder` (operands precede
  their users, the order in which the solver session lowers them) and `StableIds`
  (a call changes no id handed out) come from the inductive invariant `Sound`: the
  table holds exactly the nodes, each at its position, and operands are earlier
  positions. Each constructor is a chain of `Intern` steps; one lemma shows that
  interning a node whose operands are in the arena extends it soundly, one lemma
  per constructor that it only interns such nodes, and extension is transitive. On
  top of these, `NothingConstantIsLeft` (`ConstantsFold`), `GuardsDependOnConjuncts`
  (`GuardsAreNormal`), `GuardsKeepTheirMeaning` (`GuardMeaningPreserved`),
  `VectorsKeepTheirMeaning` (`VectorMeaningPreserved`) and `EveryArenaLowers`
  (`LoweringSucceeds`). The argument is described below.

None of the properties of the evaluator is inductive. That two candidates conflict
needs that a selection is fresh when it is forked; that it is fresh needs that a
selection a candidate has resolved is not evaluated again; and that is so because
its value is memoized, or because it is still being evaluated further down the
stack, where the graph of a function, which is acyclic, cannot lead back to it.
`EvaluatorInvariant` says this in five parts, with depths counted from the
outermost activation so that what is below a change keeps its name:

* `Typed`: every activation has the node, operands, stage and lists its routine
  can have, and each partial as many values as its stage (`Arity`).
* `Descending`: each activation evaluates a node `Below` those under it on the
  stack (an earlier node of the same call, or any node of a call made by it), or
  drives the arm of the selection just under it.
* `Remembered`: a selection in a candidate's trace is in its memo table, or an
  activation on the stack at or under the candidate is still evaluating it.
* `Fresh`: a candidate inside the evaluation of a node has no outcome for that node,
  until the node is a selection whose selector is known; then those still waiting
  have none.
* `CandidatesConflict`.

A step is first shown to have one of eleven effects on the stack (`StepCases`):
candidates pass on, are resolved, forked, branched into, dropped, or all given up.
For each effect, every candidate after the step is the `Heir` of one before, with
its trace and memo table extended by at most the selection being resolved, and two
heirs of the same candidate conflict. The conjuncts that speak of candidates, the
count that bounds them and the refinement are all proved from these effects. TLC
checks the invariant in run `enumerator_budget`; it was strengthened where a proof
step failed (what an arm may demand, what an activation may hold).

Nor is it inductive that results are right: the memo table, the arguments of calls
and the partial results on the stack are all read later. `EvaluatorMeaning` compares
each with the outcomes of `Reference`, input by input under the candidate's guard:

* `MemoRight`: what a candidate has memoized is the value of its site, the site is
  supported, and every selection that evaluating it demands is in the trace.
* `TraceRight`: nothing is in the trace that the program does not demand.
* `OthersLeft`: every allowed input outside the guard resolves some selection of the
  trace otherwise. It is what makes the class of a result whole.
* `FrameRight`, `Serves`: an activation's arguments are those its call site passes, a
  candidate driven by it demands its site, and the arm it drives is the one that the
  candidate's inputs select.
* `Progress`: a partial at a stage has the values of the operands, cases or
  iterations it went through, and knows their sites (has memoized them).
* `Linked`: each activation evaluates what the one under it waits for. Without it a
  value could be delivered to the wrong caller.

Each action keeps it by one of few reasons: a candidate passes on unchanged, is
narrowed by an arm (`Narrowed`), memoizes a site all of whose demands it knows
(`SiteKnown`), or records the outcome that its inputs resolve to (`RecordRight`,
with `SymbolicArmChosen` and `ConcreteArmChosen`: an arm holds exactly where
`Reference` resolves to its outcome, and selects the cases that it demands;
`OthersChooseOtherwise`: the other inputs resolve otherwise). That a selection has
not been recorded yet, so that recording overwrites nothing, is `Fresh` of the first
invariant.

The merged evaluator has no candidates, and its invariant, `EvaluationIsRight`, has
one input; but it computes in the order of the nodes, without knowing what will be
selected, so that everything live has to be right and not only what is demanded:

* `ValuesRight`: each live node that an activation has passed has the value and the
  width of its site, and the site has no failure; each removed one has no value.
  That no live node misses an operand is `Kept`: what it refers to is kept and
  precedes it.
* `ArgumentsRight`: an activation has the arguments that `Reference` passes in its
  invocation context.
* `LoopRight`: a `counted_for` at iteration k carries what iteration k - 1 came to,
  and no iteration before failed or overflowed.
* `Waits`: each activation is at the node that entered the one above it, and the
  context of an activation is the list of those nodes (`ContextAt`). A returned value
  is that of the callee's result in that context, which is what `Reference` gives the
  node that waits.

The proof has a part for values, which is an induction over the cases of a selection:
a `sel` built from the last case inwards, a `priority_sel` from its default, and a
`one_hot_sel` that joins the selected cases bit by bit each denote what `Reference`
resolves them to, constant or not, whatever widths selectors and values have. A
second part is about dead nodes, a third shows that each action makes a right
value of right ones, and a fourth that pushing, replacing and popping the innermost
activation leaves the contexts below it alone. That a request fails only with
"unsupported" or "overflow", and never for a missing operand, is in the invariant;
which requests fail is not (`FailuresAreLive`).

The composition needs little more. `EnumerationInvariant`: until the evaluator
returns nothing has been handed over; from then on the candidates being solved are
those it returned, and `PruningInvariant` holds of them. It holds at the hand-over
because the candidates conflict (`CandidatesConflict`), so that their traces are
different, which is all that `SolveCandidatesProofs` assumes of a workload. That an
answer is `Sound` is then read off the two: a result is a candidate returned, its
guard is the class of its witness (`GuardIsClass`: by `TraceRight` and
`ResultsMatchReference` its inputs take the same selections, by `OthersLeft` no
other allowed input does), and a complete answer has every candidate some input
reaches (`CompleteIsExhaustive`), which cover the allowed inputs (`SplitPartition`,
by the refinement of `SelectionSplit`).

What the theorems assume of the constants: `RequestsAssumption` (a request is
`WellFormed`: what parsing, validation and the checks before evaluation leave; TLC
evaluates it for every request of the runs), and, as hypotheses of the theorems
that need them,

* `PureNodesAreTyped`: the parameter `Apply`, which makes the symbolic value of a
  pure node, gives bits of the node's width for bits;
* `PureNodesAreOps`: on each input that value is what `Op`, the same node on numbers,
  gives for the numbers of its operands. It is what the runs `bit_ops` and
  `arena_vectors` and `LoweringProofs` are about;
* `OutcomesAreConcrete`: `Outcomes` satisfies the equation of `Reference` at every
  site of every request. Calls of a validated program form no cycle, and then there
  is exactly one such table.

TLC confirms the first two for the `Apply` and `Op` of the runs on sample operands
(`ApplyIsTyped`, `ApplyIsOp`) and the third for every site (`OutcomesAreOfParts`).
They cannot be assumptions on the constants, because TLC would enumerate all values
and all sites. `MergedEvaluatorProofs` has the same hypotheses in its own terms:
`PureNodesDenote(AllWords)` (on bits values of its operands' widths, `Apply` gives a
bits value of the node's width that is what `Op` gives) and `Answered` (`Outcomes`
satisfies the equation of `Reference`), which `ApplyIsOp` and `OutcomesAreOfParts` of
`MCMergedEvaluator` confirm on sample operands and on every site.

Nor is any property of arenas but the three of `Sound`. `ConstantsFold`
fails to be because a junction may flatten another, and folds only because the
other's members are not constant, and because a guard that is no `bool_const` is
not constant only as long as no constant has width 0 (`src/expr.rs:162`);
`NodeFolded` adds both. The rest needs to know what a node of each kind can be.
`WellShaped` says it (`Shaped`, one definition for each group of kinds): a
`bool_not` is not of a constant or of a `bool_not`; a junction has two operands at
least, none a constant or a junction of its kind; operands have the sorts their
constructor asserts; a `concat` is as wide as its operands together; a constant is
below the power of two of its width. `ShapeInvInductive` proves that every
constructor keeps it. That constants fit needs that every operator of SMT-LIB and
every fold of `IrBits` stays below the power of its width (`SmtBinaryIsWord`,
`FoldBinaryIsWord`, `FromBitsIsWord` for the bitwise ones, `JoinIsWord` for
`concat`).

From there:

* Normal guards: what a junction makes is a function of the set its operands
  flatten to and of whether one of them decides it (`JunctionMakes`), and what it
  contributes to the next junction is that same set (`JunctionContributes`), so
  that three guards joined in any order give the node of their union.
* Meaning: `Lowered` folds over the nodes. `LoweredRuns` unfolds the fold into a
  run, a list of values that grows by one node's value at a time; so each id has
  what its node computes from the values of its operands (`Valued`), and keeps it
  when the arena grows (`ValuesExtend`). Every value is a word of its node's width
  and a guard's is a bit (`ValuesAreWords`). One lemma per constructor then says
  what the id it returned has for a value (`BoolNotDenotes`, `JunctionDenotes`,
  `BitUnaryMeans` and so on): for an interned node by the above, for a constant
  because folding computes what the solver would (`FoldIsSmt`, which needs the
  divisor not to be zero), for an existing id by the identity it was returned for.
* Lowering: a node of one of the shapes has operands of the widths it needs, and two
  variables of one name are one node because equal nodes have one id.

The properties of pruning are not inductive: that a verdict is right depends on
what the solver holds. `PruningInvariant` adds `ScopesBalance` (while no failure
is recorded the stack is empty between candidates and holds exactly the guard
while checking), `CheckedGuard` (failure or not, what is being checked implies
the guard, which is why witnesses stay sound), `AnswerMeans` (what a pending
answer says of the guard) and `TallyAccounts` (every candidate passed is either
returned, empty or covered by a recorded failure; `seen` mirrors `results`).
TLC checks the same invariant in run `solve_candidates`; the theorems about types,
exhaustiveness and duplicate traces follow from it and have no run of their own.

That candidates partition the allowed inputs is not a property of a run either: it
is `GuardsPartitionInputs`, and no two live candidates are the same element of
`live` because they conflict (`CandidatesDisagree`, by place). Its consequence for
a complete answer is `CompleteCoversOnce`.

Assumptions on the constants: `InputsAssumption`, `LimitAssumption`,
`TracesAssumption`, `LimitsAssumption` and `NoModelAssumption` state types;
`WorkloadsAssumption` says candidate lists have pairwise different traces. The
last one is what `CandidatesDisagree` proves of what `Enumerator` hands over; the
lemmas of `SolveCandidatesProofs` about steps do without it, and `EnumerationProofs`
cites those, so that no list has to be given in advance.
`ArenaAssumption` says that a variable name always
comes with the same sort (the code names a leaf by its position in the arguments
and looks up its width there), that constants are at least one bit wide, as
`bits_const` asserts, and that operators are among those of `BitUnaryOp`,
`BitBinaryOp` and `CompareOp` (`src/expr.rs:19-22`, `34-48`, `71-81`), `eq`, which
`bit_is_one` compares with, included.

Only model-checked:

* liveness (`Terminates`, `Answered`, `Completes`, `EnumerationAnswers`), which is out
  of the prover's reach;
* that operations are those of XLS (`BinopsAreXls` and its kin), that the text of an
  expression has its meaning (`RenderedMeansLowered`), and request set-up and
  witnesses: they are recursive over bits, expressions and types, in RECURSIVE
  operators, and what such a definition computes needs an induction over data;
* which requests the merged evaluator fails (`FailuresAreLive`): the reachability
  that it compares with is recursive over the graph of a function.

Where a theorem needs an induction, over numbers or finite sets, it is made with a
set: a subset of the naturals that has 0 and successors has them all
(`SetInduction`), so that no operator is passed to a theorem.

## 5. What is not modelled

* Tuples and arrays as selected values: `deep_or`, the symbolic arms and the
  merging of the merged evaluator's cases treat them element by element; both
  evaluators have bits values here. `BitOps` has aggregates.
* Arrays without elements: whether an `IrValue` can hold one is external.
* Statistics counters: written and never read by the code.
* What surrounds a text: the `declare-const` and `define-fun` lines of
  `result_smtlib`, and `materialize_value`, which renders each leaf of a result.
* The entry points of `src/lib.rs`, which forward, and its accessors and types.
* Errors the parser's validation excludes (a selection without cases, a missing
  default, dangling references), and the parser itself.
* The depth of the thread's stack, the memory used, and the size of a text, which
  repeats shared operands.

## 6. Findings

`solve_candidates_limit`: `src/lib.rs:266-267` says "Reaching a configured limit
always reports `Incomplete`", and line 176 describes the reason as "the caller's
configured result limit was reached". `src/enumerator.rs:171` reports it only
when there are *more* results than the limit. An enumeration with exactly
`max_results` results is reported `Complete`, which is the more useful behaviour
(nothing was cut), but not the documented one.

`bit_ops_zero_width`: `docs/user/guide.md:135-136` says "The supported value
domain is recursive fixed-size bits, tuples, and arrays, including zero-width
bits where XLS permits them". XLS gives the operands of a shift, `umul` and
`smul` independent widths, but `evaluate_binop` (`src/evaluator.rs:1004`) handles
operands without bits before it looks at the operation: one such operand is an
"operand width mismatch" error, two give a `bits[1]` value.

## 7. Plan

Every component that changes state is modelled. The order was: the selection
evaluator and its promise; pruning over a solver that fails; the arena and what
the session makes of it; operations; the merged evaluator; set-up and witnesses;
and the composition, with the promise of a whole answer. What would add most now:

1. That arguments denote inputs and that the initial guard is the constraints, by
   induction on the depth of types.
2. That the merged evaluator fails exactly for what is live (`FailuresAreLive`), with
   reachability as a least set in place of a recursion.
3. Aggregates as selected values in both evaluators.
