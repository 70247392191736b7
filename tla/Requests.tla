------------------------------- MODULE Requests ------------------------------
(***************************************************************************)
(* What surrounds an enumeration: src/enumerator.rs binds a function's     *)
(* parameters to symbolic and concrete arguments and lowers the caller's   *)
(* constraints to a guard; src/solver.rs declares the parameters to the    *)
(* solver and reads a model of a guard back; src/enumerator.rs rebuilds    *)
(* typed inputs from the model.                                            *)
(*                                                                         *)
(* Binding and rebuilding traverse types and inputs separately and meet    *)
(* only in the names of the variables.  A name is the sequence of numbers  *)
(* that follows "symex_arg".  A term is [width, den]: its value under      *)
(* every model; a model maps names to numbers.                             *)
(***************************************************************************)
EXTENDS BitVectors, SequencesExt

CONSTANT Requests   \* [params, given, inputs, constraints]

VARIABLES
  request,      \* the function's parameter types and the caller's inputs and constraints
  step,         \* "arguments", "constraints", "session", "solve", "witness" or "ended"
  arguments,    \* the arguments bound so far
  parameters,   \* the symbolic parameters made so far
  lowered,      \* how many constraints have been lowered
  guard,        \* the models that the lowered constraints allow
  model,        \* what the solver answered with
  outcome       \* Pending, or how the request ended

vars == <<request, step, arguments, parameters, lowered, guard, model, outcome>>

Pending     == [at |-> "pending"]
Failed(why) == [at |-> "error", why |-> why]
Infeasible  == [at |-> "infeasible"]
Witness(inputs, leaves) == [at |-> "witness", inputs |-> inputs, leaves |-> leaves]

\* Without inputs, every parameter is symbolic.
Symbolic   == [kind |-> "symbolic"]
InputOf(i) == IF request.given THEN request.inputs[i] ELSE Symbolic

ElementTypes(type) ==
  IF type.kind = "tuple" THEN type.elements ELSE [i \in 1..type.count |-> type.element]

IrBits(width, n) == [kind |-> "bits", width |-> width, n |-> n]

-----------------------------------------------------------------------------
(***************************************************************************)
(* Binding arguments.  A traversal returns a value and the parameters it   *)
(* pushed, or Invalid.                                                     *)
(***************************************************************************)
Invalid == [ok |-> FALSE]
Bound(value, params) == [ok |-> TRUE, value |-> value, params |-> params]

\* An aggregate of the given parts; the first invalid part ends the traversal.
Aggregate(kind, parts) ==
  IF \E i \in DOMAIN parts : ~parts[i].ok THEN Invalid
  ELSE Bound([kind |-> kind, elements |-> [i \in DOMAIN parts |-> parts[i].value]],
             FlattenSeq([i \in DOMAIN parts |-> parts[i].params]))

Constant(width, n)    == [kind |-> "bits", width |-> width, variable |-> <<>>, n |-> n]
Variable(width, name) == [kind |-> "bits", width |-> width, variable |-> name, n |-> 0]
NoBits                == Constant(0, 0)

Element(leaf, index) == [leaf EXCEPT !.path = Append(@, index)]

RECURSIVE SymbolicInput(_, _, _), LiteralValue(_, _), EvaluationInput(_, _, _, _),
          WitnessValue(_, _, _)

\* Mutant of SymbolicInput: elements are named after the aggregate they are in.
SharedNames(type, name, leaf) ==
  CASE type.kind = "bits" /\ type.width = 0 -> Bound(NoBits, <<>>)
    [] type.kind = "bits" /\ type.width > 0 ->
         Bound(Variable(type.width, name),
               <<[input |-> leaf, name |-> name, bit_count |-> type.width]>>)
    [] type.kind \in {"tuple", "array"} ->
         Aggregate(type.kind, [i \in 1..Len(ElementTypes(type)) |->
           SymbolicInput(ElementTypes(type)[i], name, Element(leaf, i - 1))])
    [] type.kind = "token" -> Invalid

SymbolicInput(type, name, leaf) ==
  CASE type.kind = "bits" /\ type.width = 0 -> Bound(NoBits, <<>>)
    [] type.kind = "bits" /\ type.width > 0 ->
         Bound(Variable(type.width, name),
               <<[input |-> leaf, name |-> name, bit_count |-> type.width]>>)
    [] type.kind \in {"tuple", "array"} ->
         Aggregate(type.kind, [i \in 1..Len(ElementTypes(type)) |->
           SymbolicInput(ElementTypes(type)[i], Append(name, i - 1), Element(leaf, i - 1))])
    [] type.kind = "token" -> Invalid

\* Mutant of SameAggregate: the aggregate is not rebuilt.
AnyAggregate(type, value) == type.kind # "bits" /\ value.kind # "bits"

\* Rebuilding the aggregate tells tuples from arrays, whose elements read alike.
SameAggregate(type, value) == type.kind # "bits" /\ value.kind = type.kind

LiteralValue(type, value) ==
  CASE type.kind = "bits" /\ value.kind = "bits" ->
         IF value.width = type.width THEN Bound(Constant(value.width, value.n), <<>>) ELSE Invalid
    [] type.kind \in {"tuple", "array"} /\ SameAggregate(type, value) ->
         IF Len(value.elements) # Len(ElementTypes(type)) THEN Invalid
         ELSE Aggregate(type.kind, [i \in 1..Len(value.elements) |->
                LiteralValue(ElementTypes(type)[i], value.elements[i])])
    [] OTHER -> Invalid

EvaluationInput(type, input, name, leaf) ==
  CASE input.kind = "symbolic" -> SymbolicInput(type, name, leaf)
    [] input.kind = "concrete" -> LiteralValue(type, input.value)
    [] input.kind \in {"tuple", "array"} ->
         IF type.kind # input.kind \/ Len(input.elements) # Len(ElementTypes(type)) THEN Invalid
         ELSE Aggregate(type.kind, [i \in 1..Len(input.elements) |->
                EvaluationInput(ElementTypes(type)[i], input.elements[i],
                                Append(name, i - 1), Element(leaf, i - 1))])

-----------------------------------------------------------------------------
(***************************************************************************)
(* Lowering constraints, over the models of the parameters.                *)
(***************************************************************************)
Names == {parameters[i].name : i \in DOMAIN parameters}

WidestParameter == Max({parameters[i].bit_count : i \in DOMAIN parameters} \cup {0})

Models ==
  {m \in [Names -> 0..(2^WidestParameter - 1)] :
     \A i \in DOMAIN parameters : m[parameters[i].name] < 2^parameters[i].bit_count}

Term(width, den) == [ok |-> TRUE, width |-> width, den |-> den]
Allowing(models) == [ok |-> TRUE, models |-> models]

RECURSIVE LowerTerm(_), LowerConstraint(_)

\* Mutant of SameSort: the widths of operands are not compared.
AnySort(lhs, rhs) == lhs.ok /\ rhs.ok

SameSort(lhs, rhs) == lhs.ok /\ rhs.ok /\ lhs.width = rhs.width

\* The parameter of a leaf, if it has one.
Parameter(leaf) == SelectSeq(parameters, LAMBDA p : p.input = leaf)

LowerTerm(term) ==
  CASE term.op = "input" ->
         LET found == Parameter(term.leaf) IN
         IF found = <<>> THEN Invalid
         ELSE Term(found[1].bit_count, [m \in Models |-> m[found[1].name]])
    [] term.op = "constant" ->
         IF term.value.kind # "bits" \/ term.value.width = 0 THEN Invalid
         ELSE Term(term.value.width, [m \in Models |-> term.value.n])
    [] term.op = "not" ->
         LET inner == LowerTerm(term.inner) IN
         IF ~inner.ok THEN Invalid
         ELSE Term(inner.width, [m \in Models |-> SmtUnary("not", inner.width, inner.den[m])])
    [] term.op \in {"add", "sub", "and", "or", "xor"} ->
         LET lhs == LowerTerm(term.lhs)
             rhs == LowerTerm(term.rhs)
         IN  IF ~SameSort(lhs, rhs) THEN Invalid
             ELSE Term(lhs.width, [m \in Models |->
                    SmtBinary(term.op, lhs.width, lhs.den[m], rhs.den[m])])

\* Mutant of CompareOp: signed comparisons are unsigned.
UnsignedCompareOp(operation) ==
  CASE operation \in {"equal", "not_equal"} -> "eq"
    [] operation \in {"unsigned_less_than", "signed_less_than"} -> "ult"
    [] operation \in {"unsigned_less_or_equal", "signed_less_or_equal"} -> "ule"

CompareOp(operation) ==
  CASE operation \in {"equal", "not_equal"}    -> "eq"
    [] operation = "unsigned_less_than"        -> "ult"
    [] operation = "unsigned_less_or_equal"    -> "ule"
    [] operation = "signed_less_than"          -> "slt"
    [] operation = "signed_less_or_equal"      -> "sle"

\* Mutant of Negated: no comparison is.
NeverNegated(operation) == FALSE

Negated(operation) == operation = "not_equal"

LowerComparison(constraint) ==
  LET lhs == LowerTerm(constraint.lhs)
      rhs == LowerTerm(constraint.rhs)
      Compared(m) == SmtCompare(CompareOp(constraint.operation), lhs.width, lhs.den[m], rhs.den[m])
  IN  IF ~SameSort(lhs, rhs) THEN Invalid
      ELSE Allowing({m \in Models : Compared(m) # Negated(constraint.operation)})

LowerConstraint(constraint) ==
  CASE constraint.op = "bool" -> Allowing(IF constraint.value THEN Models ELSE {})
    [] constraint.op = "not" ->
         LET inner == LowerConstraint(constraint.inner) IN
         IF inner.ok THEN Allowing(Models \ inner.models) ELSE Invalid
    [] constraint.op \in {"and", "or"} ->
         LET parts == {LowerConstraint(constraint.parts[i]) : i \in DOMAIN constraint.parts} IN
         IF \E part \in parts : ~part.ok THEN Invalid
         ELSE Allowing({m \in Models : IF constraint.op = "and"
                                       THEN \A part \in parts : m \in part.models
                                       ELSE \E part \in parts : m \in part.models})
    [] constraint.op = "compare" -> LowerComparison(constraint)

-----------------------------------------------------------------------------
(***************************************************************************)
(* Rebuilding inputs from the solver's model.                              *)
(***************************************************************************)
\* The bits that were read for a parameter's term.
ModelBits(name) ==
  IrBits((CHOOSE p \in Range(parameters) : p.name = name).bit_count, model[name])

\* Mutant of WitnessElements: symbolic elements are numbered from one.
WitnessElementsFromOne(type, input, name) ==
  [i \in 1..Len(ElementTypes(type)) |->
     WitnessValue(ElementTypes(type)[i],
                  IF input.kind = "symbolic" THEN Symbolic ELSE input.elements[i],
                  Append(name, IF input.kind = "symbolic" THEN i ELSE i - 1))]

\* The elements of an aggregate, each with its input.
WitnessElements(type, input, name) ==
  [i \in 1..Len(ElementTypes(type)) |->
     WitnessValue(ElementTypes(type)[i],
                  IF input.kind = "symbolic" THEN Symbolic ELSE input.elements[i],
                  Append(name, i - 1))]

WitnessValue(type, input, name) ==
  CASE input.kind = "concrete" -> Bound(input.value, <<>>)
    [] input.kind # "concrete" /\ type.kind = "bits" ->
         IF type.width = 0 THEN Bound(IrBits(0, 0), <<>>)
         ELSE IF input.kind = "symbolic" /\ name \in DOMAIN model THEN Bound(ModelBits(name), <<>>)
         ELSE Invalid
    [] type.kind \in {"tuple", "array"} /\ input.kind \in {"symbolic", type.kind} ->
         Aggregate(type.kind, WitnessElements(type, input, name))
    [] OTHER -> Invalid

-----------------------------------------------------------------------------
Init ==
  /\ request \in Requests
  /\ step = "arguments"
  /\ arguments = <<>>
  /\ parameters = <<>>
  /\ lowered = 0
  /\ guard = {<<>>}
  /\ model = <<>>
  /\ outcome = Pending

Ends(how) == step' = "ended" /\ outcome' = how

ArityMismatch == request.given /\ Len(request.inputs) # Len(request.params)

RejectArity ==
  /\ step = "arguments"
  /\ ArityMismatch
  /\ Ends(Failed("arity"))
  /\ UNCHANGED <<request, arguments, parameters, lowered, guard, model>>

NextBound ==
  LET i == Len(arguments) + 1 IN
  EvaluationInput(request.params[i], InputOf(i), <<i - 1>>, [argument |-> i - 1, path |-> <<>>])

\* One parameter of the function; until a constraint is lowered every model is allowed.
BindArgument ==
  /\ step = "arguments"
  /\ ~ArityMismatch
  /\ Len(arguments) < Len(request.params)
  /\ NextBound.ok
  /\ arguments' = Append(arguments, NextBound.value)
  /\ parameters' = parameters \o NextBound.params
  /\ guard' = Models'
  /\ UNCHANGED <<request, step, lowered, model, outcome>>

RejectArgument ==
  /\ step = "arguments"
  /\ ~ArityMismatch
  /\ Len(arguments) < Len(request.params)
  /\ ~NextBound.ok
  /\ Ends(Failed("input"))
  /\ UNCHANGED <<request, arguments, parameters, lowered, guard, model>>

ArgumentsBound ==
  /\ step = "arguments"
  /\ ~ArityMismatch
  /\ Len(arguments) = Len(request.params)
  /\ step' = "constraints"
  /\ UNCHANGED <<request, arguments, parameters, lowered, guard, model, outcome>>

LowerNext ==
  /\ step = "constraints"
  /\ lowered < Len(request.constraints)
  /\ LET next == LowerConstraint(request.constraints[lowered + 1]) IN
     IF next.ok
     THEN /\ lowered' = lowered + 1
          /\ guard' = guard \cap next.models
          /\ UNCHANGED <<step, outcome>>
     ELSE Ends(Failed("constraint")) /\ UNCHANGED <<lowered, guard>>
  /\ UNCHANGED <<request, arguments, parameters, model>>

ConstraintsLowered ==
  /\ step = "constraints"
  /\ lowered = Len(request.constraints)
  /\ step' = "session"
  /\ UNCHANGED <<request, arguments, parameters, lowered, guard, model, outcome>>

RECURSIVE VariablesOf(_)
VariablesOf(value) ==
  IF value.kind # "bits" THEN UNION {VariablesOf(value.elements[i]) : i \in DOMAIN value.elements}
  ELSE IF value.variable = <<>> THEN {}
  ELSE {[name |-> value.variable, bit_count |-> value.width]}

\* The variables interned in the arena; constraints intern the same ones again.
Declared == UNION {VariablesOf(arguments[i]) : i \in DOMAIN arguments}

\* No name is declared twice, and every parameter has a variable of its width.
Declarable ==
  /\ \A u, v \in Declared : u.name = v.name => u = v
  /\ \A p \in Range(parameters) : [name |-> p.name, bit_count |-> p.bit_count] \in Declared

StartSession ==
  /\ step = "session"
  /\ IF Declarable THEN step' = "solve" /\ UNCHANGED outcome ELSE Ends(Failed("session"))
  /\ UNCHANGED <<request, arguments, parameters, lowered, guard, model>>

\* Of the candidates of an enumeration, one that demands no selection: its
\* guard is the initial one.  What the solver may fail at is in SolveCandidates.
Solve ==
  /\ step = "solve"
  /\ \/ guard = {} /\ Ends(Infeasible) /\ UNCHANGED model
     \/ model' \in guard /\ step' = "witness" /\ UNCHANGED outcome
  /\ UNCHANGED <<request, arguments, parameters, lowered, guard>>

Rebuilt ==
  [i \in 1..Len(request.params) |-> WitnessValue(request.params[i], InputOf(i), <<i - 1>>)]

BuildWitness ==
  /\ step = "witness"
  /\ Ends(IF \E i \in DOMAIN Rebuilt : ~Rebuilt[i].ok THEN Failed("witness")
          ELSE Witness([i \in DOMAIN Rebuilt |-> Rebuilt[i].value],
                       [p \in Range(parameters) |-> IrBits(p.bit_count, model[p.name])]))
  /\ UNCHANGED <<request, arguments, parameters, lowered, guard, model>>

Terminated == step = "ended" /\ UNCHANGED vars

Next ==
  \/ RejectArity \/ BindArgument \/ RejectArgument \/ ArgumentsBound
  \/ LowerNext \/ ConstraintsLowered
  \/ StartSession \/ Solve \/ BuildWitness
  \/ Terminated

Spec == Init /\ [][Next]_vars

=============================================================================
