------------------------------- MODULE BitOps -------------------------------
(***************************************************************************)
(* The operations of XLS IR as src/evaluator.rs composes them from the     *)
(* constructors of the expression arena, which Terms has.                  *)
(*                                                                         *)
(* A value is bits[0], which has no term, a term, or a tuple or array of   *)
(* values; Error is an Err.                                                *)
(***************************************************************************)
EXTENDS Terms

Error  == [kind |-> "error"]

Tuple(elements) == [kind |-> "tuple", elements |-> elements]
Array(elements) == [kind |-> "array", elements |-> elements]

BitsType(width)       == [kind |-> "bits", width |-> width]
TupleType(types)      == [kind |-> "tuple", types |-> types]
ArrayType(count, type) == [kind |-> "array", types |-> [i \in 1..count |-> type]]

RECURSIVE ZeroValue(_), SelectCondition(_, _, _), DeepOr(_, _)

ZeroValue(type) ==
  IF type.kind = "bits" THEN Const(type.width, 0)
  ELSE [kind |-> type.kind,
        elements |-> [i \in 1..Len(type.types) |-> ZeroValue(type.types[i])]]

SelectCondition(c, then, else) ==
  IF then.kind = "bits" THEN SelectBits(c, then, else)
  ELSE [then EXCEPT !.elements =
            [i \in 1..Len(@) |-> SelectCondition(c, @[i], else.elements[i])]]

DeepOr(lhs, rhs) ==
  IF lhs.kind = "bits" THEN OrBits(lhs, rhs)
  ELSE [lhs EXCEPT !.elements =
            [i \in 1..Len(@) |-> DeepOr(@[i], rhs.elements[i])]]

Resize(x, width, signed) ==
  CASE x.width = width -> x
    [] width = 0       -> NoBits
    [] x.width = 0 /\ width > 0               -> Const(width, 0)
    [] 0 < x.width /\ x.width < width         -> Extend(x, width, signed)
    [] x.width > width /\ width > 0           -> Extract(x, 0, width)

-----------------------------------------------------------------------------
(***************************************************************************)
(* Binary operations on bits.                                              *)
(***************************************************************************)
Shift(op, x, y) ==
  LET working == Max({x.width, y.width}) IN
  Resize(Binary(op, Resize(x, working, op = "ashr"), Resize(y, working, FALSE)),
         x.width, FALSE)

\* Mutant of DivisionFallback: the value SMT-LIB gives for a zero divisor.
SmtFallback(x, signed) ==
  IF signed THEN Ite(BitIsOne(Extract(x, x.width - 1, 1)), Const(x.width, 1),
                     Const(x.width, AllOnes(x.width)))
  ELSE Const(x.width, AllOnes(x.width))

\* xls_div's result for a zero divisor.
DivisionFallback(x, signed) ==
  IF signed THEN Ite(BitIsOne(Extract(x, x.width - 1, 1)),
                     Const(x.width, SignedMin(x.width)), Const(x.width, SignedMax(x.width)))
  ELSE Const(x.width, AllOnes(x.width))

Divide(x, y, signed) ==
  Ite(Compare("eq", y, Const(y.width, 0)),
      DivisionFallback(x, signed),
      Binary(IF signed THEN "sdiv" ELSE "udiv", x, y))

Modulo(x, y, signed) ==
  Ite(Compare("eq", y, Const(y.width, 0)),
      Const(y.width, 0),
      Binary(IF signed THEN "srem" ELSE "urem", x, y))

Multiply(x, y, width, signed) ==
  Binary("mul", Resize(x, width, signed), Resize(y, width, signed))

Comparisons == {"eq", "ult", "ule", "ugt", "uge", "slt", "sle", "sgt", "sge"}

EvaluateBinop(op, x, y, width) ==
  CASE width = 0 -> NoBits
    [] width > 0 /\ (x.width = 0 \/ y.width = 0) ->
         IF x.width # y.width THEN Error
         ELSE Const(1, IF op \in {"eq", "uge", "ule", "sge", "sle"} THEN 1 ELSE 0)
    [] OTHER ->
         CASE op \in {"add", "sub"}  -> Binary(op, x, y)
           [] op \in {"umul", "smul"} -> Multiply(x, y, width, op = "smul")
           [] op \in {"udiv", "sdiv"} -> Divide(x, y, op = "sdiv")
           [] op \in {"umod", "smod"} -> Modulo(x, y, op = "smod")
           [] op = "ne"              -> BoolToBit(Not(Compare("eq", x, y)))
           [] op \in Comparisons     -> BoolToBit(Compare(op, x, y))
           [] op = "shll"            -> Shift("shl", x, y)
           [] op = "shrl"            -> Shift("lshr", x, y)
           [] op = "shra"            -> Shift("ashr", x, y)

\* The bits of mulp_offset: the low ones, and all but the top of the high ones.
MulpOffset(width) ==
  LET low  == IF width > 2 THEN width - 2 ELSE 0
      skip == Min({3, IF low > 1 THEN low - 1 ELSE 0})
  IN  FromBits(0..(low - skip - 1) \cup low..(width - 2))

PartialMultiply(x, y, width, signed) ==
  LET offset == Const(width, MulpOffset(width)) IN
  IF width = 0 THEN Tuple(<<NoBits, NoBits>>)
  ELSE Tuple(<<offset, Binary("sub", Multiply(x, y, width, signed), offset)>>)

Gate(predicate, value, type) ==
  SelectCondition(BitIsOne(predicate), value, ZeroValue(type))

-----------------------------------------------------------------------------
(***************************************************************************)
(* Unary and n-ary operations on bits.                                     *)
(***************************************************************************)
BitsOf(x) == [i \in 1..x.width |-> Extract(x, i - 1, 1)]

Xor(x, y) == Binary("xor", x, y)

EvaluateUnop(op, x, width) ==
  CASE x.width = 0 -> Const(width, IF op = "and_reduce" THEN 1 ELSE 0)
    [] x.width > 0 /\ op \in {"not", "neg"} -> Unary(op, x)
    [] x.width > 0 /\ op = "or_reduce"  -> BoolToBit(Not(Compare("eq", x, Const(x.width, 0))))
    [] x.width > 0 /\ op = "and_reduce" ->
         BoolToBit(Compare("eq", x, Const(x.width, AllOnes(x.width))))
    [] x.width > 0 /\ op = "xor_reduce" -> FoldLeft(Xor, Head(BitsOf(x)), Tail(BitsOf(x)))
    [] x.width > 0 /\ op = "reverse"    -> Concat(BitsOf(x))

HasBits(x) == x.width > 0

EvaluateNary(op, args, width) ==
  LET parts  == IF op = "concat" THEN SelectSeq(args, HasBits) ELSE args
      base   == CASE op \in {"and", "nand"} -> "and" [] op \in {"or", "nor"} -> "or"
                  [] OTHER -> "xor"
      folded == FoldLeft(LAMBDA x, y : Binary(base, x, y), Head(parts), Tail(parts))
  IN  CASE width = 0 -> NoBits
        [] width > 0 /\ parts = <<>> -> Error
        [] OTHER -> IF op = "concat" THEN Concat(parts)
                    ELSE IF op \in {"nand", "nor"} THEN Unary("not", folded) ELSE folded

BitSlice(x, start, width) == IF width = 0 THEN NoBits ELSE Extract(x, start, width)

\* Mutant of DynamicWorkingWidth: the start is cut to the width of the slice.
NarrowWorkingWidth(x, start, width) == x.width + width

\* The width at which a slice is shifted out: room for its zeros and the start.
DynamicWorkingWidth(x, start, width) == Max({x.width + width, start.width})

DynamicBitSlice(x, start, width) ==
  LET working == DynamicWorkingWidth(x, start, width) IN
  IF width = 0 THEN NoBits
  ELSE Extract(Binary("lshr", Resize(x, working, FALSE), Resize(start, working, FALSE)), 0, width)

\* `x` with `update` written at a known position, cut off at the top of `x`.
WrittenAt(x, update, at) ==
  LET write == Min({update.width, x.width - at})
      high  == at + write
  IN  Concat((IF high < x.width THEN <<Extract(x, high, x.width - high)>> ELSE <<>>)
             \o (IF write > 0 THEN <<Extract(update, 0, write)>> ELSE <<>>)
             \o (IF at > 0 THEN <<Extract(x, 0, at)>> ELSE <<>>))

BitSliceUpdate(x, start, update) ==
  IF x.width = 0 THEN NoBits
  ELSE FoldLeft(LAMBDA otherwise, k :
                  LET at == x.width - k IN
                  Ite(SelectorEquals(start, at), WrittenAt(x, update, at), otherwise),
                x, [k \in 1..x.width |-> k])

-----------------------------------------------------------------------------
(***************************************************************************)
(* One-hot, encode and decode.                                             *)
(***************************************************************************)
Prior(x, index, lsbPrio) == IF lsbPrio THEN 0..(index - 1) ELSE (index + 1)..(x.width - 1)

OneHot(x, lsbPrio) ==
  LET Selected(index) ==
        FoldSet(LAMBDA prior, acc : Binary("and", acc, Unary("not", Extract(x, prior, 1))),
                Extract(x, index, 1), Prior(x, index, lsbPrio))
      none == BoolToBit(Compare("eq", x, Const(x.width, 0)))
  IN  IF x.width = 0 THEN Error
      ELSE Concat(<<none>> \o [k \in 1..x.width |-> Selected(x.width - k)])

Encode(x, width) ==
  IF width = 0 THEN NoBits
  ELSE FoldLeft(LAMBDA acc, k :
                  Ite(BitIsOne(Extract(x, k - 1, 1)), Binary("or", acc, Const(width, k - 1)), acc),
                Const(width, 0), [k \in 1..x.width |-> k])

Decode(x, width) ==
  IF width = 0 THEN NoBits
  ELSE Concat([k \in 1..width |-> BoolToBit(SelectorEquals(x, width - k))])

-----------------------------------------------------------------------------
(***************************************************************************)
(* Selections and arrays, over values of any shape.  `default` is <<>> or  *)
(* <<v>>.                                                                  *)
(***************************************************************************)
RECURSIVE SelectStructural(_, _, _), ArrayUpdate(_, _, _)

SelectStructural(selector, cases, default) ==
  LET Elements(values, i) == [k \in 1..Len(values) |-> values[k].elements[i]] IN
  IF cases[1].kind = "bits" THEN EvaluateSel(selector, cases, default)
  ELSE [cases[1] EXCEPT !.elements =
          [i \in 1..Len(@) |->
             SelectStructural(selector, Elements(cases, i), Elements(default, i))]]

\* Mutant of PrioritySelect: the last set bit wins.
LastBitWins(selector, cases, default) ==
  FoldLeft(LAMBDA otherwise, k :
             IF k > selector.width THEN otherwise
             ELSE SelectCondition(SelectedBit(selector, k - 1), cases[k], otherwise),
           default, [k \in 1..Len(cases) |-> k])

PrioritySelect(selector, cases, default) ==
  FirstSetCase(SelectCondition, selector, cases, default)

OneHotSelect(selector, cases, type) ==
  EverySetCase(SelectCondition, DeepOr, selector, cases, ZeroValue(type))

\* An index beyond the end reads the last element.
ArrayIndex(array, indices) ==
  FoldLeft(LAMBDA value, index :
             SelectStructural(index, value.elements, <<Last(value.elements)>>),
           array, indices)

\* An index beyond the end updates nothing.
ArrayUpdate(array, update, indices) ==
  IF indices = <<>> THEN update
  ELSE Array([i \in 1..Len(array.elements) |->
         SelectCondition(SelectorEquals(indices[1], i - 1),
                         ArrayUpdate(array.elements[i], update, Tail(indices)),
                         array.elements[i])])

\* Mutant of Clamped: positions beyond the end wrap around.
WrappedAround(n, position) == position % n

Clamped(n, position) == Min({position, n - 1})

ArraySlice(array, start, width) ==
  LET n == Len(array.elements)
      Element(offset) ==
        SelectStructural(start,
          [k \in 1..n |-> array.elements[Clamped(n, k - 1 + offset) + 1]],
          <<Last(array.elements)>>)
  IN  Array([k \in 1..width |-> Element(k - 1)])

ArrayConcat(arrays) ==
  Array(FlattenSeq([i \in 1..Len(arrays) |-> arrays[i].elements]))

-----------------------------------------------------------------------------
(***************************************************************************)
(* apply_pure_node.  A node is [op, type, operands, start, width, count,   *)
(* flag]: `operands` are the types of its operands, `count` is how many    *)
(* cases a selection has, `flag` is lsb_prio.                              *)
(***************************************************************************)
Binops == {"add", "sub", "umul", "smul", "udiv", "sdiv", "umod", "smod", "shll", "shrl", "shra",
           "ne"} \cup Comparisons
Unops  == {"not", "neg", "or_reduce", "and_reduce", "xor_reduce", "reverse"}
Narys  == {"and", "nand", "or", "nor", "xor", "concat"}

ApplyPureNode(node, v) ==
  LET cases   == SubSeq(v, 2, 1 + node.count)
      default == SubSeq(v, 2 + node.count, Len(v))
  IN
  CASE node.op \in Binops -> EvaluateBinop(node.op, v[1], v[2], node.type.width)
    [] node.op \in Unops  -> EvaluateUnop(node.op, v[1], node.type.width)
    [] node.op \in Narys  -> EvaluateNary(node.op, v, node.type.width)
    [] node.op \in {"umulp", "smulp"} ->
         PartialMultiply(v[1], v[2], node.type.types[1].width, node.op = "smulp")
    [] node.op = "gate"     -> Gate(v[1], v[2], node.type)
    [] node.op = "identity" -> v[1]
    [] node.op = "zero_ext" -> Resize(v[1], node.type.width, FALSE)
    [] node.op = "sign_ext" -> Resize(v[1], node.type.width, TRUE)
    [] node.op = "bit_slice"         -> BitSlice(v[1], node.start, node.width)
    [] node.op = "dynamic_bit_slice" -> DynamicBitSlice(v[1], v[2], node.width)
    [] node.op = "bit_slice_update"  -> BitSliceUpdate(v[1], v[2], v[3])
    [] node.op = "one_hot" -> OneHot(v[1], node.flag)
    [] node.op = "encode"  -> Encode(v[1], node.type.width)
    [] node.op = "decode"  -> Decode(v[1], node.width)
    [] node.op = "sel"          -> SelectStructural(v[1], cases, default)
    [] node.op = "priority_sel" -> PrioritySelect(v[1], cases, default[1])
    [] node.op = "one_hot_sel"  -> OneHotSelect(v[1], cases, node.type)
    [] node.op = "tuple"        -> Tuple(v)
    [] node.op = "array"        -> Array(v)
    [] node.op = "tuple_index"  -> v[1].elements[node.start + 1]
    [] node.op = "array_concat" -> ArrayConcat(v)
    [] node.op = "array_index"  -> ArrayIndex(v[1], Tail(v))
    [] node.op = "array_update" -> ArrayUpdate(v[1], v[2], SubSeq(v, 3, Len(v)))
    [] node.op = "array_slice"  -> ArraySlice(v[1], v[2], node.width)

=============================================================================
