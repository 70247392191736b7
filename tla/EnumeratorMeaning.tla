-------------------------- MODULE EnumeratorMeaning --------------------------
(***************************************************************************)
(* Why the candidates of Enumerator mean what the program does: a second   *)
(* inductive invariant, over EnumeratorInvariant.  It compares every       *)
(* candidate in flight with the outcomes of Reference, input by input.     *)
(***************************************************************************)
EXTENDS EnumeratorInvariant, Reference

CONSTANT Outcomes(_, _)   \* the outcomes of a request's sites on an input

\* What Outcomes is: of a program whose calls form no cycle there is one
\* function that satisfies it at every site.
Evaluates(r, x, site) ==
  IsSiteOf(r, site) => Outcomes(r, x)[site] = OutcomeOfParts(r, x, Outcomes(r, x), site)

\* What a request comes to on an input.
OutcomeOn(r, x) == Outcomes(r, x)[ResultSite(r)]

\* The numbers that values are on an input.
On(values, x) == [i \in 1..Len(values) |-> values[i].den[x]]

\* Apply is Op on each input: TLC checks it of a sample, the theorems assume it of all values.
PureNodesDenote(V) ==
  \A r \in Requests : \A fn \in DOMAIN r.fns : \A i \in 1..Len(r.fns[fn].nodes) :
    LET n == r.fns[fn].nodes[i] IN
    n.kind = "pure" =>
      \A values \in [1..Len(n.refs) -> V] : \A x \in Inputs :
        Apply(n, values).den[x] = Op(n, On(values, x))

Of(x, site) == Outcomes(request, x)[site]
Concrete(x) == OutcomeOn(request, x)

\* A trace as the set of its entries.
Entries(trace) == {<<site, trace[site]>> : site \in DOMAIN trace}

(***************************************************************************)
(* Every candidate returned says, for every input under its guard, what    *)
(* evaluating the program on that input says: the residual value and       *)
(* exactly the selections demanded, with their outcomes and contexts.      *)
(***************************************************************************)
ResultsMatchReference ==
  Finished =>
    \A i \in 1..Len(ctl.results) :
      LET r == ctl.results[i] IN
      \A x \in r.state.guard :
        /\ Concrete(x).ok
        /\ r.value.den[x] = Concrete(x).value
        /\ Entries(r.state.trace) = Concrete(x).trace

(***************************************************************************)
(* A request fails only for what some candidate demands: an unsupported    *)
(* operation or an overflowing induction value that no input under the     *)
(* blamed guards avoids.  Inactive cases never fail a request.             *)
(***************************************************************************)
FailuresAreDemanded ==
  Failed =>
    \A i \in 1..Len(ctl.blamed) :
      \A x \in ctl.blamed[i].guard : ~Concrete(x).ok

-----------------------------------------------------------------------------
(***************************************************************************)
(* A candidate: what its memo table has is right on every input under its  *)
(* guard, with every selection it took recorded; nothing is recorded that  *)
(* those inputs do not demand; and every other input that the assumptions  *)
(* allow resolves one of the recorded selections otherwise.                *)
(***************************************************************************)
MemoRight(state) ==
  \A site \in DOMAIN state.cache : \A x \in state.guard :
    /\ Of(x, site).ok
    /\ state.cache[site].den[x] = Of(x, site).value
    /\ Of(x, site).trace \subseteq Entries(state.trace)

TraceRight(state) == \A x \in state.guard : Entries(state.trace) \subseteq Concrete(x).trace

OthersLeft(state) ==
  \A x \in request.domain \ state.guard : \E entry \in Concrete(x).trace :
    entry[1] \in DOMAIN state.trace /\ state.trace[entry[1]] # entry[2]

StateRight(state) == MemoRight(state) /\ TraceRight(state) /\ OthersLeft(state)

\* A candidate has evaluated a site, to this value.
Knows(state, site)        == site \in DOMAIN state.cache
Has(state, site, value) ==
  Knows(state, site) /\ \A x \in state.guard : value.den[x] = Of(x, site).value

(***************************************************************************)
(* An activation: its arguments are what its call site passes, an input    *)
(* that gets to it demands its site, and an arm is the one that the input  *)
(* selects.                                                                *)
(***************************************************************************)
ProperFrame(frame) == IsContext(request, frame.inv) /\ frame.fn = FunctionIn(request, frame.inv)

FrameRight(frame, x) ==
  \A i \in 1..Len(frame.args) : frame.args[i].den[x] = Passed(request, x, Outcomes(request, x), frame.inv, i)

Demands(x, site) ==
  /\ Of(x, site).trace \subseteq Concrete(x).trace
  /\ Concrete(x).ok => Of(x, site).ok

NodeRef(act, ref)  == RefSite(SiteOf(act), ref)
SelectorSite(act)  == NodeRef(act, NodeOf(act.frame, act.node).refs[1])
Callee(act)        == CalleeSite(request, SiteOf(act))
IterationOf(act, k) == IterationSite(request, SiteOf(act), k)
Choice(x, act)     == Resolution(request, Outcomes(request, x), SiteOf(act))
Elements(list)     == {list[i] : i \in 1..Len(list)}

Resolved(x, act, trace) == <<SiteOf(act), Choice(x, act).outcome>> \in Entries(trace)

Serves(act, state) ==
  \A x \in state.guard :
    /\ FrameRight(act.frame, x)
    /\ Demands(x, SiteOf(act))
    /\ act.arm => Resolved(x, act, state.trace) /\ Elements(act.refs) = Choice(x, act).cases

(***************************************************************************)
(* A partial driven through `stage` stages knows the sites it went         *)
(* through, and its values are theirs.                                     *)
(***************************************************************************)
\* The numbers that the first `count` demanded cases have on an input.
Numbers(x, act, count) == {Of(x, NodeRef(act, act.refs[i])).value : i \in 1..count}

ArmProgress(act, stage, p) ==
  /\ \A i \in 1..stage : Knows(p.state, NodeRef(act, act.refs[i]))
  /\ IF KindOf(act) = "one_hot_sel"
       THEN LET width == NodeOf(act.frame, act.node).width IN
            /\ p.values[1].width = width
            /\ \A x \in p.state.guard : p.values[1].den[x] = OrOf(width, Numbers(x, act, stage))
       ELSE stage = 1 => Has(p.state, NodeRef(act, act.refs[1]), p.values[1])

SelectionProgress(act, p) ==
  \A x \in p.state.guard :
    /\ Resolved(x, act, p.state.trace)
    /\ \A ref \in Choice(x, act).cases : Knows(p.state, NodeRef(act, ref))
    /\ p.values[1].den[x] = SelectionValue(request, Outcomes(request, x), SiteOf(act))

LoopProgress(act, done, p) ==
  /\ \A k \in 0..(done - 1) : Knows(p.state, IterationOf(act, k))
  /\ Has(p.state, IterationOf(act, done - 1), p.values[1])
  /\ \A i \in 2..Len(act.refs) : Has(p.state, NodeRef(act, act.refs[i]), p.values[i])

NodeProgress(act, stage, p) ==
  IF stage <= Len(act.refs)
    THEN \A i \in 1..stage : Has(p.state, NodeRef(act, act.refs[i]), p.values[i])
    ELSE /\ \A i \in 1..Len(act.refs) : Knows(p.state, NodeRef(act, act.refs[i]))
         /\ KindOf(act) = "invoke" => Has(p.state, Callee(act), p.values[1])
         /\ KindOf(act) = "counted_for" => LoopProgress(act, stage - Len(act.refs), p)
         /\ KindOf(act) \in SelectionKinds => SelectionProgress(act, p)

Progress(act, stage, p) ==
  IF act.arm THEN ArmProgress(act, stage, p) ELSE NodeProgress(act, stage, p)

\* No induction value has overflowed in the iterations entered.
InductionFits(act) ==
  ~act.arm /\ KindOf(act) = "counted_for" =>
    \A k \in 0..(act.stage - Len(act.refs) - 1) : k * NodeOf(act.frame, act.node).stride <= MaxUsize

(***************************************************************************)
(* What an activation waits for: the site it called for, or, of a          *)
(* selection, an arm of its own.                                           *)
(***************************************************************************)
AwaitedSite(act) ==
  IF act.stage <= Len(act.refs) THEN NodeRef(act, act.refs[act.stage])
  ELSE IF KindOf(act) = "invoke" THEN Callee(act)
  ELSE IterationOf(act, act.stage - Len(act.refs) - 1)

\* The candidate in hand and the values it had, while the activation waits for more.
Behind(act, state) ==
  IF Resolving(act) THEN Knows(state, SelectorSite(act))
  ELSE Progress(act, act.stage - 1, Partial(state, act.current))

Returns(act, result) ==
  IF Resolving(act) THEN SelectionProgress(act, Partial(result.state, <<result.value>>))
  ELSE Has(result.state, AwaitedSite(act), result.value)

\* A candidate held by an activation, or in hand above it.
Within(depth, state) ==
  /\ StateRight(state)
  /\ \A d \in 1..depth : Serves(ActivationAt(d), state)
  /\ \A d \in 1..(depth - 1) : Behind(ActivationAt(d), state)

InHandOf(depth, state) ==
  Within(depth, state) /\ (depth > 0 => Behind(ActivationAt(depth), state))

PendingAt(act, pending) ==
  Record([pending.state EXCEPT !.guard = @ \cap pending.arm.when], SiteOf(act),
         pending.arm.outcome)

PendingRight(act, pending) ==
  LET state == PendingAt(act, pending) IN
  /\ Knows(state, SelectorSite(act))
  /\ \A x \in state.guard :
       /\ Resolved(x, act, state.trace)
       /\ Elements(pending.arm.demand) = Choice(x, act).cases

ActivationRight(d) ==
  LET act == ActivationAt(d) IN
  /\ ProperFrame(act.frame)
  /\ InductionFits(act)
  /\ \A i \in 1..Len(act.todo) :
       Within(d, act.todo[i].state) /\ Progress(act, act.stage - 1, act.todo[i])
  /\ \A i \in 1..Len(act.done) :
       Within(d, act.done[i].state) /\ Progress(act, act.stage, act.done[i])
  /\ \A i \in 1..Len(act.arms) :
       Within(d, PendingAt(act, act.arms[i])) /\ PendingRight(act, act.arms[i])

Linked ==
  \A d \in 1..Len(stack) :
    LET act == ActivationAt(d) IN
    IF d = 1 THEN ~act.arm /\ SiteOf(act) = ResultSite(request)
    ELSE IF act.arm
      THEN act.frame = ActivationAt(d - 1).frame /\ Resolving(ActivationAt(d - 1))
      ELSE ~Resolving(ActivationAt(d - 1)) /\ SiteOf(act) = AwaitedSite(ActivationAt(d - 1))

CallRight ==
  /\ ProperFrame(ctl.frame)
  /\ InHandOf(Len(stack), ctl.state)
  /\ \A x \in ctl.state.guard : FrameRight(ctl.frame, x) /\ Demands(x, calledSite)
  /\ IF stack = <<>> THEN calledSite = ResultSite(request)
     ELSE ~Resolving(top) /\ calledSite = AwaitedSite(top)

ReturnRight ==
  \A i \in 1..Len(ctl.results) :
    LET r == ctl.results[i] IN
    /\ InHandOf(Len(stack), r.state)
    /\ IF stack = <<>> THEN Has(r.state, ResultSite(request), r.value) ELSE Returns(top, r)

EvaluatorMeaning ==
  /\ \A d \in 1..Len(stack) : ActivationRight(d)
  /\ Linked
  /\ ctl.at = "call" => CallRight
  /\ ctl.at = "return" => ReturnRight
  /\ FailuresAreDemanded

\* What the proofs maintain of the evaluator: its call stack is sound, and it is right.
EvaluatorIsRight == EvaluatorInvariant /\ EvaluatorMeaning

=============================================================================
