----------------------------- MODULE MergedMeaning -----------------------------
(***************************************************************************)
(* Why the value that MergedEvaluator returns means what the program does: *)
(* an inductive invariant that compares every value in every activation    *)
(* with the outcome that Reference gives the value's site.                 *)
(***************************************************************************)
EXTENDS MergedEvaluator, Lists

CONSTANTS
  Op(_, _),      \* a pure node on numbers
  Outcomes(_)    \* the outcomes of a request's sites

\* Reference, at the one input that a request is seen at.
R == INSTANCE Reference WITH Inputs <- {1}

asRequest(r) ==
  [fns |-> r.fns, top |-> r.top,
   args |-> [i \in 1..Len(r.args) |-> [den |-> <<r.args[i].n>>]]]

OutcomesOf(r) == Outcomes(asRequest(r))
Of(r, site)   == OutcomesOf(r)[site]

\* What Outcomes is: of a program whose calls form no cycle there is one
\* function that satisfies it at every site.
Evaluates(r, site) ==
  R!IsSiteOf(asRequest(r), site) =>
    Of(r, site) = R!OutcomeOfParts(asRequest(r), 1, OutcomesOf(r), site)

\* Apply is Op, on operands from V that have the widths of the nodes they come
\* from: TLC checks it of a sample, the theorems assume it of all values.
PureNodesDenote(V) ==
  \A r \in Requests : \A fn \in DOMAIN r.fns : \A k \in 1..Len(r.fns[fn].nodes) :
    LET nodes == r.fns[fn].nodes
        n     == nodes[k]
    IN  n.kind = "pure" =>
          \A v \in [1..Len(n.refs) -> V] :
            (\A i \in 1..Len(n.refs) : v[i].width = nodes[n.refs[i]].width) =>
              /\ Apply(n, v) \in Words(n.width)
              /\ Apply(n, v).n = Op(n, [i \in 1..Len(n.refs) |-> v[i].n])

(***************************************************************************)
(* Merging every selection gives, on every input, the value of evaluating  *)
(* only what that input selects: the value that the enumerator's results   *)
(* have too (ResultsMatchReference), so that both describe one function.   *)
(***************************************************************************)
MergedMatchesReference ==
  outcome.at = "value" =>
    LET concrete == Of(request, R!ResultSite(asRequest(request)))
        entry    == request.fns[request.top]
    IN  /\ concrete.ok
        /\ outcome.value.n = concrete.value
        /\ outcome.value.width = entry.nodes[entry.ret].width

-----------------------------------------------------------------------------
(***************************************************************************)
(* An activation in its invocation context, of a request r.  Its arguments *)
(* are what its call site passes; every live node it has passed has the    *)
(* value and width of its site, and no failure, and a removed one has no   *)
(* value; a loop carries what its last iteration came to.                  *)
(***************************************************************************)
Right(r, value, width, site) ==
  value \in Words(width) /\ value.n = Of(r, site).value /\ Of(r, site).ok

\* The node that an activation is at, and its site.
Current(r, f)   == r.fns[f.fn].nodes[Len(f.values) + 1]
Here(f, inv)    == <<f.fn, Len(f.values) + 1, inv>>

IsAtNode(r, f) ==
  Len(f.values) < Len(r.fns[f.fn].nodes) /\ Len(f.values) + 1 \in Kept(r.fns[f.fn])

ArgumentsRight(r, f, inv) ==
  LET params == r.fns[f.fn].params IN
  /\ Len(f.args) = Len(params)
  /\ \A i \in 1..Len(params) :
       /\ f.args[i] \in Words(params[i])
       /\ f.args[i].n = R!Passed(asRequest(r), 1, OutcomesOf(r), inv, i)

ValuesRight(r, f, inv) ==
  /\ IsList(f.values) /\ Len(f.values) <= Len(r.fns[f.fn].nodes)
  /\ \A k \in 1..Len(f.values) :
       IF k \in Kept(r.fns[f.fn])
         THEN Right(r, f.values[k], r.fns[f.fn].nodes[k].width, <<f.fn, k, inv>>)
         ELSE f.values[k] = None

IterationOf(r, f, inv, k) == R!IterationSite(asRequest(r), Here(f, inv), k)

LoopRight(r, f, inv) ==
  f.loop = <<>> \/
    LET n == Current(r, f)
        k == f.loop[1]
    IN  /\ IsAtNode(r, f) /\ n.kind = "counted_for"
        /\ f.loop = <<k, f.loop[2]>> /\ k \in 0..n.trip
        /\ Right(r, f.loop[2], n.width,
                 IF k = 0 THEN R!RefSite(Here(f, inv), n.refs[1]) ELSE IterationOf(r, f, inv, k - 1))
        /\ \A j \in 0..(k - 1) : j * n.stride <= MaxUsize /\ Of(r, IterationOf(r, f, inv, j)).ok

FrameRight(r, f, inv) ==
  /\ f = [fn |-> f.fn, args |-> f.args, values |-> f.values, loop |-> f.loop]
  /\ R!IsContext(asRequest(r), inv) /\ IsList(inv)
  /\ f.fn = R!FunctionIn(asRequest(r), inv) /\ f.fn \in DOMAIN r.fns
  /\ ArgumentsRight(r, f, inv)
  /\ ValuesRight(r, f, inv)
  /\ LoopRight(r, f, inv)

(***************************************************************************)
(* An activation under another is at the node that entered the other.      *)
(***************************************************************************)
Waits(r, f, callee) ==
  LET n == Current(r, f) IN
  /\ IsAtNode(r, f) /\ n.callee = callee
  /\ \/ n.kind = "invoke"
     \/ /\ n.kind = "counted_for" /\ f.loop # <<>>
        /\ f.loop[1] < n.trip /\ f.loop[1] * n.stride <= MaxUsize

KeyOf(r, f) ==
  IF Current(r, f).kind = "invoke" THEN R!InvokeKey(f.fn, Len(f.values) + 1)
  ELSE R!IterationKey(f.fn, Len(f.values) + 1, f.loop[1])

\* Activations counted from the outermost, and the context of each.
At(stack, d)           == stack[Len(stack) + 1 - d]
ContextAt(r, stack, d) == [j \in 1..(d - 1) |-> KeyOf(r, At(stack, j))]

StackRight(r, stack) ==
  /\ IsList(stack)
  /\ \A d \in 1..Len(stack) : FrameRight(r, At(stack, d), ContextAt(r, stack, d))
  /\ \A d \in 1..(Len(stack) - 1) : Waits(r, At(stack, d), At(stack, d + 1).fn)

Pruned(r) == [name \in DOMAIN r.fns |-> WithoutDeadNodes(r.fns[name])]

(***************************************************************************)
(* What the proofs maintain: every value that the evaluator has is right,  *)
(* values go back where they were asked for, no operand is ever missing,   *)
(* and what is returned is right.                                          *)
(***************************************************************************)
EvaluationIsRight ==
  /\ request \in Requests
  /\ package = IF outcome = Pending /\ frames = <<>> THEN request.fns ELSE Pruned(request)
  /\ StackRight(request, frames)
  /\ frames # <<>> => outcome = Pending
  /\ outcome.at \in {"pending", "value", "error", "panic"}
  /\ outcome.at = "error" => outcome.why \in {"unsupported", "overflow"}
  /\ MergedMatchesReference

================================================================================
