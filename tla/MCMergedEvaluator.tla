-------------------------- MODULE MCMergedEvaluator --------------------------
(***************************************************************************)
(* Instances of MergedEvaluator: every program of Programs under every     *)
(* assignment, compared with direct concrete evaluation.                   *)
(***************************************************************************)
EXTENDS MergedMeaning, BitOps, Programs

C == INSTANCE ConcreteOutcomes WITH Inputs <- {1}

\* The leaves a and c of an input, as variables.
Leaves(x) == <<Term(2, ArgumentsOf(x)[1], FALSE), Term(1, ArgumentsOf(x)[2], FALSE)>>

MCMergedRequests ==
  {[fns |-> fns, top |-> "f", args |-> Leaves(x)] :
     fns \in Pairs \cup Selectors \cup Failures \cup Calls \cup Loops, x \in MCInputs}

\* The operations of Programs by the routines that evaluate_function calls.
MCMergedApply(nd, v) ==
  CASE nd.op = "literal" -> Const(nd.width, nd.index)
    [] nd.op \in {"zext", "low"} -> Resize(v[1], nd.width, FALSE)
    [] nd.op = "not" -> EvaluateUnop("not", v[1], nd.width)
    [] nd.op \in {"add", "sub", "eq"} -> EvaluateBinop(nd.op, v[1], v[2], nd.width)

\* What the theorems assume of Apply, of constants and variables up to two bits wide.
SampleValues ==
  UNION {{Term(width, n, lit) : n \in 0..(2^width - 1), lit \in BOOLEAN} : width \in 0..2}

ASSUME ApplyIsOp == PureNodesDenote(SampleValues)

\* Has TLC evaluate the whole of a function at once and keep it.
Whole(f) == IF f = f THEN f ELSE <<>>

MCMergedTable == Whole([r \in {asRequest(r) : r \in Requests} |-> C!OutcomesOf(r, 1)])

MCMergedOutcomes(r) == MCMergedTable[r]

\* What the theorems assume of Outcomes.
ASSUME OutcomesAreOfParts ==
  \A r \in Requests : \A site \in C!SitesOf(asRequest(r)) :
    R!IsSiteOf(asRequest(r), site) /\ Evaluates(r, site)

-----------------------------------------------------------------------------
\* The nodes reached from a node through operands.
RECURSIVE Reached(_, _), LoopFaults(_, _)
Reached(fn, n) == {n} \cup UNION {Reached(fn, m) : m \in Range(OperandRefs(fn.nodes[n]))}

LiveNodes(fn) == {fn.nodes[n] : n \in Reached(fn, fn.ret)}

Induction(nd) == {k * nd.stride : k \in 0..(nd.trip - 1)}

\* What evaluating everything live in a function, and in what it runs, meets.
LoopFaults(fns, name) ==
  LET live == LiveNodes(fns[name])
      runs == {nd \in live : nd.kind = "invoke" \/ (nd.kind = "counted_for" /\ nd.trip > 0)}
      Narrow(nd) == LET width == fns[nd.callee].params[1] IN
                    \E i \in Induction(nd) : i <= MaxUsize /\ width > 0 /\ i >= 2^width
  IN  {"unsupported" : nd \in {l \in live : l.kind = "unsupported"}}
      \cup {"overflow" : nd \in {l \in runs : \E i \in Induction(l) : i > MaxUsize}}
      \cup {"panic" : nd \in {l \in runs : l.kind = "counted_for" /\ Narrow(l)}}
      \cup UNION {LoopFaults(fns, nd.callee) : nd \in runs}

(***************************************************************************)
(* An evaluation fails exactly when something live in a function it runs   *)
(* cannot be evaluated: an operation in an inactive case counts, one in    *)
(* dead code or in the body of a loop of no iterations does not.  An       *)
(* induction value that its parameter cannot hold, which the enumerator    *)
(* truncates, panics; no operand is ever missing.                          *)
(***************************************************************************)
FailuresAreLive ==
  LET faults == LoopFaults(request.fns, request.top) IN
  /\ outcome.at = "value" => faults = {}
  /\ outcome.at = "error" => outcome.why \in faults
  /\ outcome.at = "panic" => "panic" \in faults

=============================================================================
