------------------------------ MODULE MCBitOps ------------------------------
(***************************************************************************)
(* Instances of BitOps: every operation on every small operand, each bits  *)
(* operand both as a constant and as a variable, compared with XlsReference. *)
(***************************************************************************)
EXTENDS PureNodes

X == INSTANCE XlsReference

Node(op, type, operands) ==
  [op |-> op, type |-> type, operands |-> operands,
   start |-> 0, width |-> 0, count |-> 0, flag |-> FALSE]

B(width) == BitsType(width)

\* A structured type: a bit, a pair of bits[2] and a bits[0].
Nested == TupleType(<<B(1), ArrayType(2, B(2)), B(0)>>)
NestedValue(x, y, z) == Tuple(<<x, Array(<<y, z>>), NoBits>>)

Row(n)  == ArrayType(n, B(2))
Matrix  == ArrayType(3, Row(2))
Rows    == {Array(<<Const(2, 1), Term(2, 2, FALSE)>>), Array(<<Term(2, 3, FALSE), Const(2, 0)>>)}

\* Every bits value, as a constant and as a variable; samples of other types.
MCValuesOf(type) ==
  CASE type = B(0) -> {NoBits}
    [] type.kind = "bits" /\ type # B(0) ->
         {Term(type.width, n, lit) : n \in 0..(2^type.width - 1), lit \in BOOLEAN}
    [] type = Nested -> {NestedValue(Const(1, 1), Term(2, 1, FALSE), Const(2, 2)),
                         NestedValue(Const(1, 0), Const(2, 3), Term(2, 0, FALSE)),
                         NestedValue(Term(1, 1, FALSE), Const(2, 1), Const(2, 2))}
    [] type = Row(1) -> {Array(<<Const(2, 1)>>)}
    [] type = Row(2) -> Rows
    [] type = Row(3) -> {Array(<<Const(2, 3), Term(2, 0, FALSE), Const(2, 2)>>)}
    [] type = Matrix -> {Array(<<Array(<<Const(2, 1), Term(2, 2, FALSE)>>), r, q>>) :
                           r \in Rows, q \in Rows}

-----------------------------------------------------------------------------
(***************************************************************************)
(* The nodes the parser accepts, over small types.                         *)
(***************************************************************************)
SameWidth == Binops \ {"umul", "smul", "shll", "shrl", "shra"}

ResultWidth(op, width) == IF op \in Comparisons \cup {"ne"} THEN 1 ELSE width

BinopNodes ==
  {Node(op, B(ResultWidth(op, w)), <<B(w), B(w)>>) : op \in SameWidth, w \in 0..3}
  \cup {Node(op, B(w), <<B(w), B(v)>>) : op \in {"shll", "shrl", "shra"}, w \in 1..3, v \in 1..3}
  \cup {Node(op, B(r), <<B(w), B(v)>>) : op \in {"umul", "smul"}, w \in 1..2, v \in 1..2, r \in 0..4}
  \cup {Node(op, TupleType(<<B(r), B(r)>>), <<B(2), B(w)>>) :
           op \in {"umulp", "smulp"}, w \in 1..2, r \in 0..6}

Reductions == {"or_reduce", "and_reduce", "xor_reduce"}

UnopNodes ==
  {Node(op, B(IF op \in Reductions THEN 1 ELSE w), <<B(w)>>) : op \in Unops, w \in 0..3}

NaryNodes ==
  {Node(op, B(w), [i \in 1..n |-> B(w)]) : op \in Narys \ {"concat"}, w \in 0..2, n \in 1..2}
  \cup {Node(op, B(1), [i \in 1..3 |-> B(1)]) : op \in Narys \ {"concat"}}
  \cup {Node("concat", B(a + b + c), <<B(a), B(b), B(c)>>) : a \in 0..2, b \in 0..2, c \in 0..2}

SliceNodes ==
  {Node(op, B(w + k), <<B(w)>>) : op \in {"zero_ext", "sign_ext"}, w \in 0..3, k \in 0..2}
  \cup {[Node("bit_slice", B(v), <<B(3)>>) EXCEPT !.start = s, !.width = v] :
           s \in 0..1, v \in 0..2}
  \cup {[Node("dynamic_bit_slice", B(v), <<B(w), B(u)>>) EXCEPT !.width = v] :
           w \in 0..2, u \in 0..4, v \in 0..2}
  \cup {Node("bit_slice_update", B(w), <<B(w), B(u), B(v)>>) : w \in 0..3, u \in 0..2, v \in 0..2}

EncoderNodes ==
  {[Node("one_hot", B(w + 1), <<B(w)>>) EXCEPT !.flag = lsb] : w \in 1..3, lsb \in BOOLEAN}
  \cup {Node("encode", B(IF w <= 1 THEN 0 ELSE IF w = 2 THEN 1 ELSE 2), <<B(w)>>) : w \in 1..4}
  \cup UNION {{[Node("decode", B(v), <<B(w)>>) EXCEPT !.width = v] : v \in 1..2^w} : w \in 0..3}

\* A selection with n cases and perhaps a default.
Selection(op, selector, type, n, default) ==
  [Node(op, type, <<B(selector)>> \o [i \in 1..(n + default) |-> type]) EXCEPT !.count = n]

SelectionNodes ==
  {Selection(op, w, type, n, default) :
     op \in {"sel"}, w \in 0..2, type \in {B(1), Nested}, n \in 1..2, default \in 0..1}
  \cup {Selection("sel", 2, Nested, n, 4 - n) : n \in 3..4}
  \cup {Selection("priority_sel", w, type, n, 1) : w \in 0..2, type \in {B(1), Nested}, n \in 1..2}
  \cup {Selection("priority_sel", 3, Nested, 3, 1)}
  \cup {Selection("one_hot_sel", w, type, n, 0) : w \in 0..3, type \in {B(1), Nested}, n \in 1..3}
  \cup {Node("gate", type, <<B(1), type>>) : type \in {B(0), B(2), Nested}}

AggregateNodes ==
  {Node("array_index", B(2), <<Row(n), B(w)>>) : n \in 1..3, w \in 0..2}
  \cup {Node("array_index", Row(2), <<Matrix, B(w)>>) : w \in 0..2}
  \cup {Node("array_index", B(2), <<Matrix, B(w), B(v)>>) : w \in 0..2, v \in 0..2}
  \cup {Node("array_update", Row(n), <<Row(n), B(2), B(w)>>) : n \in 1..3, w \in 0..2}
  \cup {Node("array_update", Matrix, <<Matrix, Row(2), B(w)>>) : w \in 0..2}
  \cup {Node("array_update", Matrix, <<Matrix, B(2), B(w), B(v)>>) : w \in 0..2, v \in 0..1}
  \cup {[Node("array_slice", Row(k), <<Row(n), B(w)>>) EXCEPT !.width = k] :
           n \in 1..3, w \in 0..2, k \in 1..3}
  \cup {Node("array_concat", Row(m + n), <<Row(m), Row(n)>>) : m \in 1..3, n \in 1..3}
  \cup {Node("array", Matrix, <<Row(2), Row(2), Row(2)>>),
        Node("tuple", TupleType(<<B(2), Row(2)>>), <<B(2), Row(2)>>),
        Node("tuple_index", B(1), <<Nested>>),
        Node("identity", Nested, <<Nested>>)}

MCNodes ==
  BinopNodes \cup UnopNodes \cup NaryNodes \cup SliceNodes
  \cup EncoderNodes \cup SelectionNodes \cup AggregateNodes

\* Shifts and multiplications where one operand has no bits: XLS gives the
\* two operands of these operations independent widths.
MCZeroWidthNodes ==
  {Node(op, B(w), <<B(w), B(0)>>) : op \in {"shll", "shrl", "shra"}, w \in 1..3}
  \cup {Node(op, B(r), <<B(w), B(0)>>) : op \in {"umul", "smul"}, w \in 0..3, r \in 1..3}

-----------------------------------------------------------------------------
RECURSIVE Plain(_), HasType(_, _)

\* A value without its terms.
Plain(v) ==
  IF v.kind = "bits" THEN X!Bits(v.width, v.n)
  ELSE X!Elements(v.kind, [i \in 1..Len(v.elements) |-> Plain(v.elements[i])])

HasType(v, type) ==
  /\ v.kind = type.kind
  /\ IF v.kind = "bits"
       THEN v.width = type.width /\ v.n \in 0..(2^v.width - 1)
       ELSE /\ Len(v.elements) = Len(type.types)
            /\ \A i \in 1..Len(v.elements) : HasType(v.elements[i], type.types[i])

node == request.node
plainArgs == [i \in 1..Len(request.args) |-> Plain(request.args[i])]

Computes(value) == result # Pending => Plain(result[1]) = value

(***************************************************************************)
(* Binary operations are those of XLS: zero divisors and signed extremes   *)
(* (xls_div, xls_mod), amounts beyond the width (shift, constant_shift),   *)
(* operands of different widths, without bits, folded or not.  The two     *)
(* parts of a partial product add up to the product.                       *)
(***************************************************************************)
BinopsAreXls ==
  /\ node.op \in Binops =>
       Computes(X!XlsBinop(node.op, plainArgs[1], plainArgs[2], node.type.width))
  /\ node.op \in {"umulp", "smulp"} /\ result # Pending =>
       LET parts == result[1].elements
           width == node.type.types[1].width
           mul   == IF node.op = "umulp" THEN "umul" ELSE "smul"
       IN  /\ HasType(result[1], node.type)
           /\ (parts[1].n + parts[2].n) % 2^width
                = X!XlsBinop(mul, plainArgs[1], plainArgs[2], width).n

Slices == {"zero_ext", "sign_ext", "bit_slice", "dynamic_bit_slice", "bit_slice_update"}

(***************************************************************************)
(* Reductions, bitwise operations, concatenation, extension and slices     *)
(* keep every bit in its place, for positions inside, across and beyond    *)
(* the end of the operand.  one_hot keeps the bit of its priority order,   *)
(* encode ORs the indices of all set bits, decode sets none for an index   *)
(* beyond its width.                                                       *)
(***************************************************************************)
BitsInPlace ==
  /\ node.op \in Unops => Computes(X!XlsUnop(node.op, plainArgs[1]))
  /\ node.op \in Narys => Computes(X!XlsNary(node.op, plainArgs, node.type.width))
  /\ node.op \in Slices => Computes(X!XlsSlice(node, plainArgs))
  /\ node.op \in {"one_hot", "encode", "decode"} => Computes(X!XlsEncoder(node, plainArgs[1]))

(***************************************************************************)
(* Merged selections choose whole values, leaf by leaf: the case of the    *)
(* selector, the first set bit's, or the OR of all set bits', whatever the *)
(* selector's width is beside the number of cases.                         *)
(***************************************************************************)
SelectionsAreXls ==
  node.op \in {"sel", "priority_sel", "one_hot_sel", "gate"} =>
    Computes(X!XlsSelection(node, plainArgs))

(***************************************************************************)
(* Reads beyond the end of an array give its last element, updates beyond  *)
(* the end change nothing, in every dimension.                             *)
(***************************************************************************)
AggregatesAreXls ==
  node.op \in {"identity", "tuple", "array", "tuple_index", "array_concat", "array_index",
               "array_update", "array_slice"} =>
    Computes(X!XlsAggregate(node, plainArgs))

(***************************************************************************)
(* docs/user/guide.md: the domain of values includes zero-width bits where *)
(* XLS permits them.  evaluate_binop takes a zero-width operand to mean    *)
(* that both are and that the result is a bit.                             *)
(***************************************************************************)
ZeroWidthOperandsAreSupported ==
  result # Pending => result[1] # Error /\ HasType(result[1], node.type)

=============================================================================
