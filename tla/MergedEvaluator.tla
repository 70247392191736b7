--------------------------- MODULE MergedEvaluator ---------------------------
(***************************************************************************)
(* The merged evaluator of src/evaluator.rs: evaluates every node that the *)
(* result depends on, in order, and turns each selection into a choice     *)
(* between values, where the enumerator forks.  Calls and loop iterations  *)
(* recurse; here the activations of evaluate_function are a stack.         *)
(*                                                                         *)
(* A request is seen at one assignment of its symbolic leaves, and values  *)
(* are the bits values of Terms; programs are those of Enumerator.         *)
(***************************************************************************)
EXTENDS Terms

CONSTANTS
  Requests,      \* [fns, top, args]: a package, a function and its arguments
  MaxUsize,      \* usize::MAX
  Apply(_, _)    \* what a node that is neither a selection nor control makes of its operands

ASSUME MaxUsizeAssumption == MaxUsize \in Nat

(***************************************************************************)
(* A request is a package that was parsed and validated, and an argument   *)
(* for every parameter of the function it names.  A node refers back, and  *)
(* has the width that its kind gives it.                                   *)
(***************************************************************************)
SelectionKinds == {"sel", "priority_sel", "one_hot_sel"}
NodeKinds == SelectionKinds \cup {"param", "pure", "unsupported", "invoke", "counted_for"}

\* Bits values of a width: what they denote fits it.
Words(width) ==
  {v \in [kind : {"bits"}, width : {width}, n : Nat, lit : BOOLEAN] : v.n < 2^width}

HaveWidths(nodes, refs, widths) ==
  Len(refs) = Len(widths) /\ \A i \in 1..Len(refs) : nodes[refs[i]].width = widths[i]

WellFormedNode(fns, fn, k) ==
  LET nodes   == fns[fn].nodes
      n       == nodes[k]
      callee  == fns[n.callee]
      earlier == 1..(k - 1)
  IN  /\ n.kind \in NodeKinds /\ n.width \in Nat
      /\ n.refs \in Seq(earlier) /\ n.cases \in Seq(earlier) /\ n.default \in earlier \cup {0}
      /\ n.kind = "param" => n.index \in 1..Len(fns[fn].params) /\ n.width = fns[fn].params[n.index]
      /\ n.kind \in {"invoke", "counted_for"} =>
           n.callee \in DOMAIN fns /\ callee.nodes[callee.ret].width = n.width
      /\ n.kind = "invoke" => HaveWidths(nodes, n.refs, callee.params)
      /\ n.kind = "counted_for" =>
           /\ n.trip \in Nat /\ n.stride \in Nat
           /\ n.refs # <<>> /\ callee.params # <<>> /\ nodes[n.refs[1]].width = n.width
           /\ HaveWidths(nodes, n.refs, Tail(callee.params))
      /\ n.kind \in SelectionKinds =>
           /\ Len(n.refs) = 1
           /\ \A i \in 1..Len(n.cases) : nodes[n.cases[i]].width = n.width
           /\ n.default # 0 => nodes[n.default].width = n.width
      /\ n.kind = "sel" => n.cases # <<>>
      /\ n.kind = "priority_sel" => n.default # 0

WellFormed(r) ==
  /\ \A fn \in DOMAIN r.fns :
       /\ r.fns[fn] = [params |-> r.fns[fn].params, nodes |-> r.fns[fn].nodes, ret |-> r.fns[fn].ret]
       /\ r.fns[fn].params \in Seq(Nat) /\ Len(r.fns[fn].nodes) \in Nat
       /\ r.fns[fn].ret \in 1..Len(r.fns[fn].nodes)
       /\ \A k \in 1..Len(r.fns[fn].nodes) : WellFormedNode(r.fns, fn, k)
  /\ r.top \in DOMAIN r.fns
  /\ Len(r.args) = Len(r.fns[r.top].params)
  /\ \A i \in 1..Len(r.args) : r.args[i] \in Words(r.fns[r.top].params[i])

ASSUME RequestsAssumption == \A r \in Requests : WellFormed(r)

VARIABLES
  request,       \* the request being served
  package,       \* its functions, without dead nodes
  frames,        \* activations of evaluate_function, innermost first
  outcome        \* Pending, or how the request ended

vars == <<request, package, frames, outcome>>

Pending == [at |-> "pending"]
Returned(value) == [at |-> "value", value |-> value]
Failed(why)     == [at |-> "error", why |-> why]
Panicked        == [at |-> "panic"]

\* No value: the entry of a removed node.
None == [kind |-> "none"]

\* `loop` is <<>>, or the iteration a counted_for is at and what it carries.
Activation(fn, args) == [fn |-> fn, args |-> args, values |-> <<>>, loop |-> <<>>]

\* ir_utils::operands: every node a node refers to, cases and default included.
OperandRefs(node) ==
  node.refs \o node.cases \o (IF node.default = 0 THEN <<>> ELSE <<node.default>>)

\* The nodes that a function's result depends on; operands precede their users.
Kept(function) ==
  LET n == Len(function.nodes) IN
  FoldLeft(LAMBDA live, k :
             IF n - k + 1 \in live THEN live \cup Range(OperandRefs(function.nodes[n - k + 1]))
             ELSE live,
           {function.ret}, [k \in 1..n |-> k])

\* Mutant of WithoutDeadNodes: the function is left as it is.
WithDeadNodes(function) == function

Removed == [kind |-> "nil"]

WithoutDeadNodes(function) ==
  [function EXCEPT !.nodes = [k \in 1..Len(@) |-> IF k \in Kept(function) THEN @[k] ELSE Removed]]

-----------------------------------------------------------------------------
Init ==
  /\ request \in Requests
  /\ package = request.fns
  /\ frames = <<>>
  /\ outcome = Pending

\* normalize_functions, then evaluate_function is entered.
Start ==
  /\ outcome = Pending
  /\ frames = <<>>
  /\ package' = [name \in DOMAIN package |-> WithoutDeadNodes(package[name])]
  /\ frames' = <<Activation(request.top, request.args)>>
  /\ UNCHANGED <<request, outcome>>

Evaluating == outcome = Pending /\ frames # <<>>

frame    == Head(frames)
function == package[frame.fn]

\* The node whose value comes next, in a frame.
NodeAt(f) == package[f.fn].nodes[Len(f.values) + 1]

AtNode(kinds) ==
  /\ Evaluating
  /\ Len(frame.values) < Len(function.nodes)
  /\ NodeAt(frame).kind \in kinds

node == NodeAt(frame)

Operands(refs) == [i \in 1..Len(refs) |-> frame.values[refs[i]]]

\* get_value finds no value for an operand.
OperandMissing == \E i \in 1..Len(OperandRefs(node)) : frame.values[OperandRefs(node)[i]] = None

With(f, value) == [f EXCEPT !.values = Append(@, value), !.loop = <<>>]

Yields(value) ==
  /\ frames' = <<With(frame, value)>> \o Tail(frames)
  /\ UNCHANGED <<request, package, outcome>>

Ends(how) ==
  /\ outcome' = how
  /\ frames' = <<>>
  /\ UNCHANGED <<request, package>>

Enters(callee, args, caller) ==
  /\ frames' = <<Activation(callee, args), caller>> \o Tail(frames)
  /\ UNCHANGED <<request, package, outcome>>

-----------------------------------------------------------------------------
SkipRemoved == AtNode({"nil"}) /\ Yields(None)

GetParam == AtNode({"param"}) /\ Yields(frame.args[node.index])

FailNode ==
  /\ AtNode({"unsupported", "pure", "invoke", "counted_for"} \cup SelectionKinds)
  /\ node.kind = "unsupported" \/ OperandMissing
  /\ Ends(Failed(IF OperandMissing THEN "operand" ELSE "unsupported"))

ApplyNode ==
  /\ AtNode({"pure"})
  /\ ~OperandMissing
  /\ Yields(Apply(node, Operands(node.refs)))

Merged(nd, selector, cases, default) ==
  CASE nd.kind = "sel"          -> EvaluateSel(selector, cases, default)
    [] nd.kind = "priority_sel" -> FirstSetCase(SelectBits, selector, cases, default[1])
    [] nd.kind = "one_hot_sel"  -> EverySetCase(SelectBits, OrBits, selector, cases, Const(nd.width, 0))

\* Every case has been evaluated, whether or not an input selects it.
MergeCases ==
  /\ AtNode(SelectionKinds)
  /\ ~OperandMissing
  /\ Yields(Merged(node, Operands(node.refs)[1], Operands(node.cases),
                   IF node.default = 0 THEN <<>> ELSE Operands(<<node.default>>)))

EnterCallee ==
  /\ AtNode({"invoke"})
  /\ ~OperandMissing
  /\ Enters(node.callee, Operands(node.refs), frame)

EnterLoop ==
  /\ AtNode({"counted_for"})
  /\ frame.loop = <<>>
  /\ ~OperandMissing
  /\ frames' = <<[frame EXCEPT !.loop = <<0, Operands(node.refs)[1]>>]>> \o Tail(frames)
  /\ UNCHANGED <<request, package, outcome>>

InLoop == AtNode({"counted_for"}) /\ frame.loop # <<>>

induction      == frame.loop[1] * node.stride
inductionWidth == package[node.callee].params[1]

Overflows == induction > MaxUsize

\* bits_const_u64 expects its number to fit; bits[0] has no constant to make.
DoesNotFit == inductionWidth > 0 /\ induction >= 2^inductionWidth

FailOverflow ==
  /\ InLoop
  /\ frame.loop[1] < node.trip
  /\ Overflows
  /\ Ends(Failed("overflow"))

PanicNarrow ==
  /\ InLoop
  /\ frame.loop[1] < node.trip
  /\ ~Overflows
  /\ DoesNotFit
  /\ Ends(Panicked)

InductionValue == IF inductionWidth = 0 THEN NoBits ELSE Const(inductionWidth, induction)

\* Mutant of IterationArguments: the initial value is passed among the invariants.
ArgumentsWithInit == <<InductionValue, frame.loop[2]>> \o Operands(node.refs)

IterationArguments == <<InductionValue, frame.loop[2]>> \o Tail(Operands(node.refs))

EnterIteration ==
  /\ InLoop
  /\ frame.loop[1] < node.trip
  /\ ~Overflows
  /\ ~DoesNotFit
  /\ Enters(node.callee, IterationArguments, frame)

LeaveLoop ==
  /\ InLoop
  /\ frame.loop[1] = node.trip
  /\ Yields(frame.loop[2])

\* Mutant of Resumed: an iteration starts from the initial value.
ResumedFresh(caller, value) ==
  IF NodeAt(caller).kind = "invoke" THEN With(caller, value)
  ELSE [caller EXCEPT !.loop = <<@[1] + 1, caller.values[NodeAt(caller).refs[1]]>>]

\* Mutant of Resumed: the iteration does not advance.
ResumedSameIteration(caller, value) ==
  IF NodeAt(caller).kind = "invoke" THEN With(caller, value)
  ELSE [caller EXCEPT !.loop[2] = value]

\* The caller with the value its callee, or its loop body, returned.
Resumed(caller, value) ==
  IF NodeAt(caller).kind = "invoke" THEN With(caller, value)
  ELSE [caller EXCEPT !.loop = <<@[1] + 1, value>>]

Finishing == Evaluating /\ Len(frame.values) = Len(function.nodes)

Return ==
  /\ Finishing
  /\ Len(frames) > 1
  /\ frames' = <<Resumed(frames[2], frame.values[function.ret])>> \o SubSeq(frames, 3, Len(frames))
  /\ UNCHANGED <<request, package, outcome>>

Finish ==
  /\ Finishing
  /\ Len(frames) = 1
  /\ Ends(Returned(frame.values[function.ret]))

Ended == outcome # Pending
Terminated == Ended /\ UNCHANGED vars

Next ==
  \/ Start
  \/ SkipRemoved \/ GetParam \/ FailNode \/ ApplyNode \/ MergeCases
  \/ EnterCallee \/ EnterLoop \/ FailOverflow \/ PanicNarrow \/ EnterIteration \/ LeaveLoop
  \/ Return \/ Finish
  \/ Terminated

\* One thread runs the evaluator to its return.
Spec == Init /\ [][Next]_vars /\ WF_vars(Next)

-----------------------------------------------------------------------------
(***************************************************************************)
(* Every evaluation ends.                                                  *)
(***************************************************************************)
Completes == <>Ended

=============================================================================
