----------------------------- MODULE Enumerator -----------------------------
(***************************************************************************)
(* The selection evaluator of src/enumerator.rs: a demand-driven walk over *)
(* the nodes of an XLS function that forks the candidate it is evaluating  *)
(* at every symbolic selection it reaches, with one memo table per         *)
(* candidate and one budget of syntactic candidates for the whole request. *)
(*                                                                         *)
(* The code recurses; here its call stack is a variable.  Every recursive  *)
(* routine has one shape: a list of partial candidates is driven through   *)
(* stages, a stage replaces each partial, in order, by what evaluating one *)
(* more node returned for it, and the partials left at the end are the     *)
(* result.  An activation is one such routine in progress:                 *)
(*                                                                         *)
(*   eval_operands      a stage per operand                                *)
(*   eval_invoke        the operands, then a stage that enters the callee  *)
(*   eval_counted_for   init and invariants, then a stage per iteration    *)
(*   eval_sel, eval_priority_sel, eval_one_hot_sel                         *)
(*                      the selector, then a stage that takes its arms     *)
(*   eval_deep_or_cases (and the one case of the other two selections)     *)
(*                      a stage per demanded case of one arm               *)
(***************************************************************************)
EXTENDS Selections, SequencesExt

CONSTANTS
  Requests,      \* the enumeration requests: a program, its arguments, the assumptions
  Limit,         \* SYNTACTIC_CANDIDATE_SAFETY_LIMIT
  Apply(_, _)    \* apply_pure_node: the value of a pure node on its operands

ASSUME LimitAssumption == Limit \in Nat \ {0}

(***************************************************************************)
(* A request is a program that was parsed and validated, an argument for   *)
(* every parameter of its entry point, and the inputs its assumptions      *)
(* allow.  A function is [params, nodes, ret] and a node [kind, refs,      *)
(* cases, default, callee, trip, stride, width, op, index]; a node         *)
(* reference is a position in the function, and refers back.               *)
(***************************************************************************)
SelectionKinds == {"sel", "priority_sel", "one_hot_sel"}
NodeKinds == SelectionKinds \cup {"param", "pure", "unsupported", "invoke", "counted_for"}

\* What an expression of bits type denotes fits its width, and a constant is one number.
Values ==
  {v \in [width : Nat, den : [Inputs -> Nat], lit : BOOLEAN] :
     /\ \A x \in Inputs : v.den[x] < 2^v.width
     /\ v.lit => \A x, y \in Inputs : v.den[x] = v.den[y]}

WellFormedNode(fns, fn, node) ==
  LET n == fns[fn].nodes[node]
      earlier == 1..(node - 1)
  IN  /\ n.kind \in NodeKinds
      /\ n.refs \in Seq(earlier) /\ n.cases \in Seq(earlier) /\ n.default \in earlier \cup {0}
      /\ n.kind = "param" => n.index \in 1..Len(fns[fn].params)
      /\ n.kind \in {"invoke", "counted_for"} => n.callee \in DOMAIN fns
      /\ n.kind = "invoke" => Len(n.refs) = Len(fns[n.callee].params)
      /\ n.kind = "counted_for" =>
           /\ n.refs # <<>> /\ Len(n.refs) + 1 = Len(fns[n.callee].params)
           /\ n.trip \in Nat /\ n.stride \in Nat
      /\ n.kind \in SelectionKinds => Len(n.refs) = 1 /\ n.width \in Nat
      /\ n.kind = "sel" => n.cases # <<>>
      /\ n.kind = "priority_sel" => n.default # 0

WellFormed(r) ==
  /\ \A fn \in DOMAIN r.fns :
       /\ r.fns[fn].params \in Seq(Nat) /\ Len(r.fns[fn].nodes) \in Nat
       /\ r.fns[fn].ret \in 1..Len(r.fns[fn].nodes)
       /\ \A node \in 1..Len(r.fns[fn].nodes) : WellFormedNode(r.fns, fn, node)
  /\ r.top \in DOMAIN r.fns
  /\ r.args \in Seq(Values) /\ Len(r.args) = Len(r.fns[r.top].params)
  /\ r.domain \subseteq Inputs
  /\ r.never \in BOOLEAN /\ (r.never => r.domain = {})

ASSUME RequestsAssumption == \A r \in Requests : WellFormed(r)

VARIABLES
  request,       \* the request being served
  ctl,           \* what the evaluator does next: call, return, run the top activation
  stack,         \* activations, innermost first
  syntactic,     \* syntactic_candidates
  incomplete     \* None, or the selection that first exceeded the budget

vars == <<request, ctl, stack, syntactic, incomplete>>

None == <<>>

(***************************************************************************)
(* A frame is a function, its arguments and its invocation context.  A     *)
(* candidate state is what the code clones at a fork: guard, trace and     *)
(* memo table.                                                             *)
(***************************************************************************)
NodeOf(frame, node) == request.fns[frame.fn].nodes[node]

\* NodeKey and SelectionId: a node in its dynamic context.
Site(frame, node) == <<frame.fn, node, frame.inv>>

Evaluated(state, value) == [state |-> state, value |-> value]
Partial(state, values)  == [state |-> state, values |-> values]

Call(frame, node, state) == [at |-> "call", frame |-> frame, node |-> node, state |-> state]
Return(results)          == [at |-> "return", results |-> results]
Run                      == [at |-> "run"]
Fail(why, blamed)        == [at |-> "fail", why |-> why, blamed |-> blamed]

NodeActivation(frame, node, state) ==
  [frame |-> frame, node |-> node, arm |-> FALSE,
   refs |-> NodeOf(frame, node).refs, stage |-> 0, todo |-> <<>>,
   current |-> <<>>, done |-> <<Partial(state, <<>>)>>, arms |-> <<>>]

\* One resolved arm; a one-hot arm starts from zero and ORs what it demands.
ArmActivation(frame, node, demand, state) ==
  LET n == NodeOf(frame, node)
      start == IF n.kind = "one_hot_sel" THEN <<ConstantBits(n.width, 0)>> ELSE <<>>
  IN  [frame |-> frame, node |-> node, arm |-> TRUE,
       refs |-> demand, stage |-> 0, todo |-> <<>>,
       current |-> <<>>, done |-> <<Partial(state, start)>>, arms |-> <<>>]

top == Head(stack)
topNode == NodeOf(top.frame, top.node)
topSite == Site(top.frame, top.node)

Stages(act) ==
  LET n == NodeOf(act.frame, act.node)
      extra == CASE ~act.arm /\ n.kind = "counted_for"                  -> n.trip
                 [] ~act.arm /\ n.kind \in SelectionKinds \cup {"invoke"} -> 1
                 [] OTHER                                                   -> 0
  IN  Len(act.refs) + extra

\* The values of a partial once evaluating one more node returned `value`.
Extend(act, value) ==
  LET kind == NodeOf(act.frame, act.node).kind IN
  CASE act.arm -> IF kind = "one_hot_sel" THEN <<DeepOr(act.current[1], value)>> ELSE <<value>>
    [] ~act.arm /\ act.stage <= Len(act.refs) -> Append(act.current, value)
    [] ~act.arm /\ act.stage > Len(act.refs)  ->
         IF kind = "counted_for" THEN <<value>> \o Tail(act.current) ELSE <<value>>

(***************************************************************************)
(* What a node's evaluation returns: every candidate remembers the value.  *)
(***************************************************************************)
\* A map with one entry inserted.
Inserted(map, key, entry) ==
  [k \in DOMAIN map \cup {key} |-> IF k = key THEN entry ELSE map[k]]

\* Mutant of Remember: the memo table is never filled.
RememberNothing(state, site, value) == state

Remember(state, site, value) == [state EXCEPT !.cache = Inserted(@, site, value)]

NodeResults(act) ==
  LET n == NodeOf(act.frame, act.node)
      Result(partial) == IF n.kind = "pure" THEN Apply(n, partial.values) ELSE partial.values[1]
  IN  [i \in 1..Len(act.done) |->
        LET p == act.done[i] IN
        Evaluated(Remember(p.state, Site(act.frame, act.node), Result(p)), Result(p))]

ArmResults(act) ==
  [i \in 1..Len(act.done) |-> Evaluated(act.done[i].state, act.done[i].values[1])]

States(seq) == [i \in 1..Len(seq) |-> seq[i].state]

-----------------------------------------------------------------------------
Init ==
  /\ request \in Requests
  /\ ctl = Call([fn |-> request.top, args |-> request.args, inv |-> <<>>],
                request.fns[request.top].ret,
                [guard |-> request.domain, never |-> request.never,
                 trace |-> <<>>, cache |-> <<>>])
  /\ stack = <<>>
  /\ syntactic = 1
  /\ incomplete = None

(***************************************************************************)
(* eval_node is called.                                                    *)
(***************************************************************************)
calledSite == Site(ctl.frame, ctl.node)

CacheHit ==
  /\ ctl.at = "call"
  /\ calledSite \in DOMAIN ctl.state.cache
  /\ ctl' = Return(<<Evaluated(ctl.state, ctl.state.cache[calledSite])>>)
  /\ UNCHANGED <<request, stack, syntactic, incomplete>>

EvalParam ==
  /\ ctl.at = "call"
  /\ calledSite \notin DOMAIN ctl.state.cache
  /\ NodeOf(ctl.frame, ctl.node).kind = "param"
  /\ LET value == ctl.frame.args[NodeOf(ctl.frame, ctl.node).index] IN
     ctl' = Return(<<Evaluated(Remember(ctl.state, calledSite, value), value)>>)
  /\ UNCHANGED <<request, stack, syntactic, incomplete>>

EnterNode ==
  /\ ctl.at = "call"
  /\ calledSite \notin DOMAIN ctl.state.cache
  /\ NodeOf(ctl.frame, ctl.node).kind # "param"
  /\ stack' = <<NodeActivation(ctl.frame, ctl.node, ctl.state)>> \o stack
  /\ ctl' = Run
  /\ UNCHANGED <<request, syntactic, incomplete>>

(***************************************************************************)
(* The stages of the innermost activation.                                 *)
(***************************************************************************)
Working == ctl.at = "run" /\ top.arms = <<>> /\ top.todo # <<>>
Drained == ctl.at = "run" /\ top.arms = <<>> /\ top.todo = <<>>

\* Takes the next partial and evaluates `node` in `frame` for it.
Evaluate(frame, node) ==
  /\ ctl' = Call(frame, node, Head(top.todo).state)
  /\ stack' = <<[top EXCEPT !.todo = Tail(@), !.current = Head(top.todo).values]>> \o Tail(stack)
  /\ UNCHANGED <<request, syntactic, incomplete>>

DemandOperand ==
  /\ Working
  /\ top.stage <= Len(top.refs)
  /\ Evaluate(top.frame, top.refs[top.stage])

InvokeFrame == <<"Invoke", top.frame.fn, top.node, 0>>

\* Mutant of LoopFrame: iterations share one context.
SharedLoopFrame(iteration) == <<"CountedFor", top.frame.fn, top.node, 0>>

LoopFrame(iteration) == <<"CountedFor", top.frame.fn, top.node, iteration>>

EnterCallee ==
  /\ Working
  /\ top.stage > Len(top.refs)
  /\ topNode.kind = "invoke"
  /\ Evaluate([fn |-> topNode.callee, args |-> Head(top.todo).values,
               inv |-> Append(top.frame.inv, InvokeFrame)],
              request.fns[topNode.callee].ret)

\* induction_value keeps the low bits of iteration * stride.
InductionValue(width, n) == ConstantBits(width, LowBits(n, width))

EnterIteration ==
  /\ Working
  /\ top.stage > Len(top.refs)
  /\ topNode.kind = "counted_for"
  /\ LET iteration == top.stage - Len(top.refs) - 1
         body      == request.fns[topNode.callee]
         induction == InductionValue(body.params[1], iteration * topNode.stride)
     IN  Evaluate([fn |-> topNode.callee, args |-> <<induction>> \o Head(top.todo).values,
                   inv |-> Append(top.frame.inv, LoopFrame(iteration))],
                  body.ret)

\* A nested evaluation returned: its candidates, in order, replace the partial.
Deliver ==
  /\ ctl.at = "return"
  /\ stack # <<>>
  /\ LET more == [i \in 1..Len(ctl.results) |->
                    Partial(ctl.results[i].state, Extend(top, ctl.results[i].value))]
     IN  stack' = <<[top EXCEPT !.done = @ \o more]>> \o Tail(stack)
  /\ ctl' = Run
  /\ UNCHANGED <<request, syntactic, incomplete>>

\* Mutant of InductionOverflows: the next iteration's value is computed early.
OverflowsEarly(iteration) ==
  topNode.kind = "counted_for" /\ ~top.arm /\ (iteration + 1) * topNode.stride > MaxUsize

InductionOverflows(iteration) ==
  topNode.kind = "counted_for" /\ ~top.arm /\ iteration * topNode.stride > MaxUsize

\* The induction value of an iteration is computed before its loop states.
NextStage ==
  /\ Drained
  /\ top.stage < Stages(top)
  /\ IF top.stage >= Len(top.refs) /\ InductionOverflows(top.stage - Len(top.refs))
       THEN /\ ctl' = Fail("overflow", States(top.done))
            /\ stack' = <<>>
       ELSE /\ stack' = <<[top EXCEPT !.stage = @ + 1, !.todo = top.done, !.done = <<>>]>>
                        \o Tail(stack)
            /\ ctl' = ctl
  /\ UNCHANGED <<request, syntactic, incomplete>>

\* An operation the evaluator does not support fails when it is applied.
Unsupported(act) == NodeOf(act.frame, act.node).kind = "unsupported" /\ act.done # <<>>

FinishNode ==
  /\ Drained
  /\ top.stage = Stages(top)
  /\ ~top.arm
  /\ IF Unsupported(top)
       THEN /\ ctl' = Fail("unsupported", States(top.done))
            /\ stack' = <<>>
       ELSE /\ ctl' = Return(NodeResults(top))
            /\ stack' = Tail(stack)
  /\ UNCHANGED <<request, syntactic, incomplete>>

FinishArm ==
  /\ Drained
  /\ top.stage = Stages(top)
  /\ top.arm
  /\ ctl' = Return(ArmResults(top))
  /\ stack' = Tail(stack)
  /\ UNCHANGED <<request, syntactic, incomplete>>

(***************************************************************************)
(* The arms of a selection whose selector has been evaluated.              *)
(***************************************************************************)
Selecting ==
  /\ Working
  /\ ~top.arm
  /\ topNode.kind \in SelectionKinds
  /\ top.stage > Len(top.refs)

selector == Head(top.todo).values[1]

Record(state, site, outcome) == [state EXCEPT !.trace = Inserted(@, site, outcome)]

\* record_selection: a constant selector has one outcome and takes no budget.
ResolveConcrete ==
  /\ Selecting
  /\ IsConcrete(selector)
  /\ LET state == Head(top.todo).state
         arm   == ConcreteArm(topNode, selector)
         rest  == <<[top EXCEPT !.todo = Tail(@)]>> \o Tail(stack)
     IN  IF topSite \in DOMAIN state.trace
           THEN /\ ctl' = Fail("duplicate", <<state>>)
                /\ stack' = <<>>
           ELSE /\ stack' = <<ArmActivation(top.frame, top.node, arm.demand,
                                            Record(state, topSite, arm.outcome))>> \o rest
                /\ ctl' = ctl
  /\ UNCHANGED <<request, syntactic, incomplete>>

\* A one-hot selector tries no more masks than the budget has candidates left.
MaskBudget == Limit - syntactic

SymbolicArms ==
  CASE topNode.kind = "sel"          -> SymbolicSelArms(topNode, selector)
    [] topNode.kind = "priority_sel" -> SymbolicPriorityArms(topNode, selector)
    [] topNode.kind = "one_hot_sel"  ->
         SymbolicOneHotArms(topNode, selector,
                            Min({OneHotCombinations(topNode, selector), MaskBudget}))

\* Mutant of TooManyMasks: masks beyond the budget are dropped silently.
MasksDroppedSilently == FALSE

TooManyMasks ==
  topNode.kind = "one_hot_sel" /\ OneHotCombinations(topNode, selector) > MaskBudget

\* Mutant of FirstExceeded: the last selection to exceed the budget is recorded.
LastExceeded(site) == site

FirstExceeded(site) == IF incomplete = None THEN site ELSE incomplete

ForkSymbolic ==
  /\ Selecting
  /\ ~IsConcrete(selector)
  /\ LET state == Head(top.todo).state
         arms  == SymbolicArms
     IN  stack' = <<[top EXCEPT !.todo = Tail(@),
                                !.arms = [i \in 1..Len(arms) |->
                                            [state |-> state, arm |-> arms[i]]]]>>
                  \o Tail(stack)
  /\ incomplete' = IF TooManyMasks THEN FirstExceeded(topSite) ELSE incomplete
  /\ UNCHANGED <<request, ctl, syntactic>>

(***************************************************************************)
(* branch_state: the next arm is dropped for want of budget, dropped       *)
(* because it contradicts its candidate, or becomes a candidate.           *)
(***************************************************************************)
Branching == ctl.at = "run" /\ top.arms # <<>>
branch == Head(top.arms)

\* Mutant of afterBranch: the arm stays in the list.
branchKept == stack

afterBranch == <<[top EXCEPT !.arms = Tail(@)]>> \o Tail(stack)

\* Mutant of BudgetSpent: off by one.
BudgetOverspent == syntactic > Limit

BudgetSpent == syntactic >= Limit

BranchAtLimit ==
  /\ Branching
  /\ BudgetSpent
  /\ incomplete' = FirstExceeded(topSite)
  /\ stack' = afterBranch
  /\ UNCHANGED <<request, ctl, syntactic>>

\* Mutant of Guarded: an arm widens its candidate's guard.
GuardWidened(state, arm) ==
  [state EXCEPT !.guard = @ \cup arm.when, !.never = @ \/ arm.never]

Guarded(state, arm) ==
  [state EXCEPT !.guard = @ \cap arm.when, !.never = @ \/ arm.never]

Contradicts(state, arm) ==
  topSite \in DOMAIN state.trace \/ Guarded(state, arm).never

BranchImpossible ==
  /\ Branching
  /\ ~BudgetSpent
  /\ Contradicts(branch.state, branch.arm)
  /\ stack' = afterBranch
  /\ UNCHANGED <<request, ctl, syntactic, incomplete>>

BranchTaken ==
  /\ Branching
  /\ ~BudgetSpent
  /\ ~Contradicts(branch.state, branch.arm)
  /\ syntactic' = syntactic + 1
  /\ LET state == Record(Guarded(branch.state, branch.arm), topSite, branch.arm.outcome) IN
     stack' = <<ArmActivation(top.frame, top.node, branch.arm.demand, state)>> \o afterBranch
  /\ UNCHANGED <<request, ctl, incomplete>>

Finished == ctl.at = "return" /\ stack = <<>>
Failed == ctl.at = "fail"
Terminated == (Finished \/ Failed) /\ UNCHANGED vars

Next ==
  \/ CacheHit \/ EvalParam \/ EnterNode
  \/ DemandOperand \/ EnterCallee \/ EnterIteration \/ Deliver
  \/ NextStage \/ FinishNode \/ FinishArm
  \/ ResolveConcrete \/ ForkSymbolic
  \/ BranchAtLimit \/ BranchImpossible \/ BranchTaken
  \/ Terminated

\* One thread runs the evaluator to its return: it never stops in between.
Spec == Init /\ [][Next]_vars /\ WF_vars(Next)

-----------------------------------------------------------------------------
(***************************************************************************)
(* The candidates alive in a state of the evaluator: the one being called  *)
(* or returned, and in every activation the partials still to drive, those *)
(* already driven, and the arms not yet branched into.                     *)
(*                                                                         *)
(* A place is a depth in the call stack, a list and a position in it.      *)
(* Activations are counted from the outermost, partials and arms still to  *)
(* come from the last, so that a candidate keeps its place until it moves. *)
(***************************************************************************)
Candidate(state) == [guard |-> state.guard, trace |-> state.trace]

ActivationAt(depth) == stack[Len(stack) + 1 - depth]
SiteOf(act) == Site(act.frame, act.node)

PendingState(act, i) ==
  Record([act.arms[i].state EXCEPT !.guard = @ \cap act.arms[i].arm.when],
         SiteOf(act), act.arms[i].arm.outcome)

At(place, state) == [place |-> place, state |-> state]

Waiting(d, act) ==
  {At(<<d, "todo", Len(act.todo) - i>>, act.todo[i].state) : i \in 1..Len(act.todo)}
Branches(d, act) ==
  {At(<<d, "arms", Len(act.arms) - i>>, PendingState(act, i)) : i \in 1..Len(act.arms)}
Driven(d, act) ==
  {At(<<d, "done", i>>, act.done[i].state) : i \in 1..Len(act.done)}

Held(d, act) == Waiting(d, act) \cup Branches(d, act) \cup Driven(d, act)

InHand ==
  LET d == Len(stack) + 1 IN
  CASE ctl.at = "call"   -> {At(<<d, "call", 1>>, ctl.state)}
    [] ctl.at = "return" ->
         {At(<<d, "results", i>>, ctl.results[i].state) : i \in 1..Len(ctl.results)}
    [] OTHER             -> {}

Live == InHand \cup UNION {Held(d, ActivationAt(d)) : d \in 1..Len(stack)}

(***************************************************************************)
(* The enumerator implements SelectionSplit: an error gives up everything, *)
(* an exceeded budget gives up arms, and nothing else is ever lost.  With  *)
(* SplitPartition of SelectionSplitProofs, guards partition the inputs.    *)
(***************************************************************************)
Splitting == INSTANCE SelectionSplit WITH
       domain <- request.domain,
       live   <- {Candidate(l.state) : l \in Live},
       cut    <- incomplete # None \/ ctl.at = "fail"

ImplementsSelectionSplit == Splitting!Spec

-----------------------------------------------------------------------------
(***************************************************************************)
(* Types.                                                                  *)
(***************************************************************************)
StateOK(state) ==
  /\ state = [guard |-> state.guard, never |-> state.never,
              trace |-> state.trace, cache |-> state.cache]
  /\ state.guard \subseteq request.domain
  /\ state.never \in BOOLEAN /\ (state.never => state.guard = {})
  /\ \A site \in DOMAIN state.cache : state.cache[site] \in Values

TypeOK ==
  /\ request \in Requests
  /\ ctl.at \in {"call", "return", "run", "fail"}
  /\ ctl.at = "return" => \A i \in 1..Len(ctl.results) : ctl.results[i].value \in Values
  /\ ctl.at = "run" => stack # <<>>
  /\ \A l \in Live : StateOK(l.state)
  /\ \A i \in 1..Len(stack) : stack[i].stage \in 0..Stages(stack[i])
  /\ syntactic \in Nat

(***************************************************************************)
(* Any two candidates in flight, counted with multiplicity, disagree at a  *)
(* selection both reached: no two are the same element of `live`, and      *)
(* solve_candidates never meets its duplicate-trace error.                 *)
(***************************************************************************)
CandidatesConflict ==
  \A l, m \in Live : l.place # m.place => Splitting!Conflict(l.state, m.state)

(***************************************************************************)
(* No candidate reaches a selection it has already resolved: the memo      *)
(* table answers first.  Otherwise record_selection fails the request, and *)
(* branch_state drops the arm without a word.                              *)
(***************************************************************************)
NoRepeatedSelection ==
  /\ ctl.at = "fail" => ctl.why # "duplicate"
  /\ ctl.at = "run" /\ top.arms # <<>> => topSite \notin DOMAIN branch.state.trace

\* The count of candidates starts with one and never passes the limit.
WithinBudget == syntactic \in 1..Limit

(***************************************************************************)
(* The budget bounds the candidates that exist, whatever order forks and   *)
(* drops come in: candidates branched into never outnumber the count, nor  *)
(* the count the limit.                                                    *)
(***************************************************************************)
CandidatesWithinBudget ==
  /\ Cardinality({l \in Live : l.place[2] # "arms"}) <= syntactic
  /\ WithinBudget

(***************************************************************************)
(* The reason reported for an incomplete enumeration is the selection that *)
(* exceeded the budget first: nothing evaluated afterwards, in whatever    *)
(* call, iteration or arm, withdraws or replaces it.                       *)
(***************************************************************************)
ReasonIsFirst == [][incomplete # None => incomplete' = incomplete]_vars

(***************************************************************************)
(* Every request ends, with candidates or with an error.                   *)
(***************************************************************************)
Terminates == <>(Finished \/ Failed)

=============================================================================
