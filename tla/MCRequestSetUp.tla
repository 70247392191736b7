--------------------------- MODULE MCRequestSetUp ----------------------------
(***************************************************************************)
(* Instances of Requests: every small shape of type and input, fitting or  *)
(* not, and every comparison of small terms over a fixed signature.        *)
(***************************************************************************)
EXTENDS RequestProperties

B(width)        == [kind |-> "bits", width |-> width]
T(types)        == [kind |-> "tuple", elements |-> types]
A(count, type)  == [kind |-> "array", count |-> count, element |-> type]
Token           == [kind |-> "token"]

Elements(kind, elements) == [kind |-> kind, elements |-> elements]
Concrete(value)          == [kind |-> "concrete", value |-> value]

Request(params, inputs, constraints) ==
  [params |-> params, given |-> TRUE, inputs |-> inputs, constraints |-> constraints]

NoInputs(params, constraints) ==
  [params |-> params, given |-> FALSE, inputs |-> <<>>, constraints |-> constraints]

-----------------------------------------------------------------------------
Types == {B(0), B(1), B(2), T(<<>>), T(<<B(1), B(0)>>), T(<<B(1), A(2, B(1))>>),
          A(2, B(1)), A(2, T(<<B(1), B(0)>>)), Token, T(<<B(1), Token>>)}

IrValues ==
  {IrBits(0, 0), IrBits(1, 1), IrBits(2, 2)}
  \cup {Elements(kind, elements) : kind \in {"tuple", "array"},
          elements \in {<<IrBits(1, 0), IrBits(1, 1)>>, <<IrBits(1, 1)>>}}
  \cup {Elements("tuple", <<IrBits(1, 1), IrBits(0, 0)>>), Elements("tuple", <<>>)}

Parts == {Symbolic, Concrete(IrBits(1, 1)), Concrete(IrBits(0, 0)),
          Elements("tuple", <<Concrete(IrBits(1, 0)), Symbolic>>),
          Elements("array", <<Symbolic, Concrete(IrBits(1, 0))>>)}

Inputs ==
  {Symbolic} \cup {Concrete(value) : value \in IrValues}
  \cup {Elements(kind, parts) : kind \in {"tuple", "array"},
          parts \in {<<>>, <<Symbolic>>, <<Symbolic, Symbolic, Symbolic>>} \cup (Parts \X Parts)}

Shapes == {Request(<<type>>, <<input>>, <<>>) : type \in Types, input \in Inputs}

\* Several parameters, and the wrong number of inputs.
Signatures ==
  {NoInputs(<<>>, <<>>), Request(<<>>, <<>>, <<>>), Request(<<B(1)>>, <<>>, <<>>),
   Request(<<B(1)>>, <<Symbolic, Symbolic>>, <<>>)}
  \cup {NoInputs(<<t, B(2), u>>, <<>>) : t \in Types, u \in Types}
  \cup {Request(<<T(<<B(1), B(0)>>), B(1), A(2, B(1))>>,
                <<Elements("tuple", <<x, y>>), x, Elements("array", <<z, x>>)>>, <<>>) :
          x \in Parts, y \in {Symbolic, Concrete(IrBits(0, 0))}, z \in Parts}

-----------------------------------------------------------------------------
Leaf(argument, path)  == [op |-> "input", leaf |-> [argument |-> argument, path |-> path]]
Const(value)          == [op |-> "constant", value |-> value]
Not(inner)            == [op |-> "not", inner |-> inner]
Binary(op, lhs, rhs)  == [op |-> op, lhs |-> lhs, rhs |-> rhs]
Junction(op, parts)   == [op |-> op, parts |-> parts]
Bool(value)           == [op |-> "bool", value |-> value]
Compare(operation, lhs, rhs) ==
  [op |-> "compare", operation |-> operation, lhs |-> lhs, rhs |-> rhs]

Comparisons == {"equal", "not_equal", "unsigned_less_than", "unsigned_less_or_equal",
                "signed_less_than", "signed_less_or_equal"}

\* f(x: bits[2], y: (bits[2], bits[1], bits[0])), with y's second element concrete.
Params == <<B(2), T(<<B(2), B(1), B(0)>>)>>
Mixed  == <<Symbolic, Elements("tuple", <<Symbolic, Concrete(IrBits(1, 1)), Symbolic>>)>>

X == Leaf(0, <<>>)
Y == Leaf(1, <<0>>)

Terms ==
  {X, Y, Not(Y), Const(IrBits(2, 2))}
  \cup {Binary(op, X, Y) : op \in {"add", "sub", "and", "or", "xor"}}

\* A concrete leaf, an empty one, aggregates, no leaf at all, and ill-typed terms.
OddTerms ==
  {Leaf(1, <<1>>), Leaf(1, <<2>>), Leaf(1, <<>>), Leaf(1, <<3>>), Leaf(2, <<>>), Leaf(0, <<0>>),
   Const(IrBits(1, 1)), Const(IrBits(0, 0)), Const(Elements("tuple", <<>>)),
   Binary("add", X, Const(IrBits(1, 1))), Not(Leaf(1, <<1>>)), Binary("xor", Leaf(1, <<1>>), X)}

P   == Compare("unsigned_less_than", X, Y)
Q   == Compare("not_equal", Y, Const(IrBits(2, 2)))
Bad == Compare("equal", X, Const(IrBits(1, 1)))

ConstraintLists ==
  {<<Compare(operation, lhs, rhs)>> : operation \in Comparisons, lhs \in Terms, rhs \in {X, Y, Const(IrBits(2, 1))}}
  \cup {<<Compare("equal", lhs, rhs)>> : lhs \in OddTerms, rhs \in {X} \cup OddTerms}
  \cup {<<Junction(op, parts)>> : op \in {"and", "or"}, parts \in {<<>>, <<P>>, <<P, Q>>, <<Bad, P>>}}
  \cup {<<Bool(TRUE)>>, <<Bool(FALSE)>>, <<Not(P)>>, <<Not(Bad)>>, <<P, Q>>, <<P, Not(P)>>,
        <<Bool(FALSE), Bad>>, <<Not(Junction("or", <<P, Not(Q)>>)), Not(Q)>>}

Constrained ==
  {Request(Params, Mixed, constraints) : constraints \in ConstraintLists}
  \cup {NoInputs(Params, <<Compare("equal", lhs, Const(IrBits(1, 1)))>>) : lhs \in OddTerms}

MCRequests == Shapes \cup Signatures \cup Constrained

=============================================================================
