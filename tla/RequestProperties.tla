-------------------------- MODULE RequestProperties --------------------------
(***************************************************************************)
(* What a request allows, by the structure of types, inputs and            *)
(* constraints alone: no variables, names or models.  Requests is compared *)
(* with it.                                                                *)
(***************************************************************************)
EXTENDS Requests

RECURSIVE ValuesOf(_), Matches(_, _), BitsAt(_, _), SymbolicWidth(_, _, _),
          TermWidth(_), TermValue(_, _), WellTyped(_), Holds(_, _), Denoted(_, _)

\* The sequences that take their i-th element from the i-th set.
Product(sets) ==
  {s \in [DOMAIN sets -> UNION Range(sets)] : \A i \in DOMAIN sets : s[i] \in sets[i]}

\* The values of a type; tokens have none.
ValuesOf(type) ==
  CASE type.kind = "bits" -> {IrBits(type.width, n) : n \in 0..(2^type.width - 1)}
    [] type.kind = "token" -> {}
    [] type.kind \in {"tuple", "array"} ->
         {[kind |-> type.kind, elements |-> elements] :
            elements \in Product([i \in DOMAIN ElementTypes(type) |-> ValuesOf(ElementTypes(type)[i])])}

\* A value is one of those an input stands for.
Matches(value, input) ==
  CASE input.kind = "symbolic" -> TRUE
    [] input.kind = "concrete" -> value = input.value
    [] input.kind \in {"tuple", "array"} ->
         /\ value.kind = input.kind
         /\ Len(value.elements) = Len(input.elements)
         /\ \A i \in DOMAIN input.elements : Matches(value.elements[i], input.elements[i])

\* The inputs of the function that the caller's inputs stand for.
Instances ==
  IF request.given /\ Len(request.inputs) # Len(request.params) THEN {}
  ELSE {values \in Product([i \in DOMAIN request.params |-> ValuesOf(request.params[i])]) :
          \A i \in DOMAIN values : Matches(values[i], InputOf(i))}

BitsAt(value, path) ==
  IF path = <<>> THEN value ELSE BitsAt(value.elements[Head(path) + 1], Tail(path))

\* The width of the symbolic bits leaf at a path, or 0 if there is none there.
SymbolicWidth(type, input, path) ==
  CASE input.kind = "concrete" \/ type.kind = "token" -> 0
    [] input.kind # "concrete" /\ type.kind = "bits" -> IF path = <<>> THEN type.width ELSE 0
    [] input.kind # "concrete" /\ type.kind \in {"tuple", "array"} ->
         IF path = <<>> \/ Head(path) >= Len(ElementTypes(type)) THEN 0
         ELSE SymbolicWidth(ElementTypes(type)[Head(path) + 1],
                IF input.kind = "symbolic" THEN Symbolic ELSE input.elements[Head(path) + 1],
                Tail(path))

LeafWidth(leaf) ==
  IF leaf.argument >= Len(request.params) THEN 0
  ELSE SymbolicWidth(request.params[leaf.argument + 1], InputOf(leaf.argument + 1), leaf.path)

\* The width of a term, or 0 if it is ill-typed.
TermWidth(term) ==
  CASE term.op = "input"    -> LeafWidth(term.leaf)
    [] term.op = "constant" -> IF term.value.kind = "bits" THEN term.value.width ELSE 0
    [] term.op = "not"      -> TermWidth(term.inner)
    [] term.op \in {"add", "sub", "and", "or", "xor"} ->
         IF TermWidth(term.lhs) = TermWidth(term.rhs) THEN TermWidth(term.lhs) ELSE 0

WellTyped(constraint) ==
  CASE constraint.op = "bool" -> TRUE
    [] constraint.op = "not"  -> WellTyped(constraint.inner)
    [] constraint.op \in {"and", "or"} ->
         \A i \in DOMAIN constraint.parts : WellTyped(constraint.parts[i])
    [] constraint.op = "compare" ->
         TermWidth(constraint.lhs) # 0 /\ TermWidth(constraint.lhs) = TermWidth(constraint.rhs)

\* What a term is worth, and whether a constraint holds, on inputs.
TermValue(term, inputs) ==
  LET w == TermWidth(term) IN
  CASE term.op = "input"    -> BitsAt(inputs[term.leaf.argument + 1], term.leaf.path).n
    [] term.op = "constant" -> term.value.n
    [] term.op = "not"      -> SmtUnary("not", w, TermValue(term.inner, inputs))
    [] term.op \in {"add", "sub", "and", "or", "xor"} ->
         SmtBinary(term.op, w, TermValue(term.lhs, inputs), TermValue(term.rhs, inputs))

Compared(operation, w, a, b) ==
  CASE operation = "equal"                  -> a = b
    [] operation = "not_equal"              -> a # b
    [] operation = "unsigned_less_than"     -> a < b
    [] operation = "unsigned_less_or_equal" -> a <= b
    [] operation = "signed_less_than"       -> Signed(w, a) < Signed(w, b)
    [] operation = "signed_less_or_equal"   -> Signed(w, a) <= Signed(w, b)

Holds(constraint, inputs) ==
  CASE constraint.op = "bool" -> constraint.value
    [] constraint.op = "not"  -> ~Holds(constraint.inner, inputs)
    [] constraint.op = "and"  -> \A i \in DOMAIN constraint.parts : Holds(constraint.parts[i], inputs)
    [] constraint.op = "or"   -> \E i \in DOMAIN constraint.parts : Holds(constraint.parts[i], inputs)
    [] constraint.op = "compare" ->
         Compared(constraint.operation, TermWidth(constraint.lhs),
                  TermValue(constraint.lhs, inputs), TermValue(constraint.rhs, inputs))

\* The inputs that the request asks about.
Allowed == {values \in Instances :
              \A i \in DOMAIN request.constraints : Holds(request.constraints[i], values)}

\* The value that an argument denotes under a model, and the inputs all of them do.
Denoted(value, m) ==
  IF value.kind # "bits"
  THEN [kind |-> value.kind, elements |-> [i \in DOMAIN value.elements |-> Denoted(value.elements[i], m)]]
  ELSE IrBits(value.width, IF value.variable = <<>> THEN value.n ELSE m[value.variable])

InputsUnder(m) == [i \in DOMAIN arguments |-> Denoted(arguments[i], m)]

\* From here on neither arguments nor parameters change.
ArgumentsAreBound == step = "constraints"

-----------------------------------------------------------------------------
(***************************************************************************)
(* A request is refused for its inputs exactly when no values of the       *)
(* parameters' types match them; otherwise the arguments denote, each      *)
(* under exactly one model of the parameters, exactly the values that do.  *)
(***************************************************************************)
ArgumentsDenoteInputs ==
  /\ outcome \in {Failed("arity"), Failed("input")} => Instances = {}
  /\ ArgumentsAreBound =>
       /\ {InputsUnder(m) : m \in Models} = Instances
       /\ Cardinality(Models) = Cardinality(Instances)

(***************************************************************************)
(* The parameters reported are the symbolic bits leaves, once each, in     *)
(* signature order, under names of their own; bits[0] leaves and concrete  *)
(* ones have none.                                                         *)
(***************************************************************************)
Before(p, q) ==
  \/ p.argument < q.argument
  \/ /\ p.argument = q.argument
     /\ \E i \in DOMAIN p.path \cap DOMAIN q.path :
          p.path[i] < q.path[i] /\ \A j \in 1..(i - 1) : p.path[j] = q.path[j]

ParametersAreSymbolicLeaves ==
  ArgumentsAreBound =>
    /\ \A i, j \in DOMAIN parameters :
         i < j => /\ Before(parameters[i].input, parameters[j].input)
                  /\ parameters[i].name # parameters[j].name
    /\ \A i \in DOMAIN parameters :
         /\ parameters[i].bit_count = LeafWidth(parameters[i].input)
         /\ parameters[i].bit_count > 0

(***************************************************************************)
(* The constraints are refused exactly when one is ill-typed or names a    *)
(* leaf that is not symbolic.                                              *)
(***************************************************************************)
RefusedConstraintsAreIllTyped ==
  /\ outcome = Failed("constraint") =>
       \E i \in DOMAIN request.constraints : ~WellTyped(request.constraints[i])
  /\ step \in {"session", "solve", "witness"} =>
       \A i \in DOMAIN request.constraints : WellTyped(request.constraints[i])

(***************************************************************************)
(* The initial guard, and so the domain that a complete enumeration        *)
(* covers, holds exactly on the inputs that meet every constraint.         *)
(***************************************************************************)
GuardIsAllowedInputs ==
  step \in {"session", "solve"} =>
    {m \in Models : InputsUnder(m) \in Allowed} = guard

(***************************************************************************)
(* A witness is an allowed input, the one that the arguments denote under  *)
(* the solver's model, and it agrees with the leaves reported beside it.   *)
(***************************************************************************)
WitnessIsAllowed ==
  outcome.at = "witness" =>
    /\ outcome.inputs \in Allowed
    /\ outcome.inputs = InputsUnder(model)
    /\ \A p \in DOMAIN outcome.leaves :
         outcome.leaves[p] = BitsAt(outcome.inputs[p.input.argument + 1], p.input.path)

(***************************************************************************)
(* Once arguments and constraints are accepted, declaring the parameters   *)
(* and rebuilding the inputs succeed, and the answer is infeasible only if *)
(* no input is allowed.                                                    *)
(***************************************************************************)
AcceptedRequestsAreAnswered ==
  /\ outcome \notin {Failed("session"), Failed("witness")}
  /\ outcome = Infeasible => Allowed = {}

=============================================================================
