---------------------------- MODULE XlsReference ----------------------------
(***************************************************************************)
(* The operations of XLS IR defined bit by bit, index by index or by the   *)
(* law a result obeys, on values without terms.  BitOps, which follows the *)
(* code's composition of SMT-LIB operators, is compared with this module.  *)
(*                                                                         *)
(* A value is [kind, width, n] for bits and [kind, elements] otherwise.    *)
(***************************************************************************)
EXTENDS BitVectors, SequencesExt

Bits(width, n) == [kind |-> "bits", width |-> width, n |-> n]

\* The bits value of a width whose bit i is set when IsSet(i).
BitsWhere(width, IsSet(_)) == Bits(width, FromBits({i \in 0..(width - 1) : IsSet(i)}))

Flag(b) == Bits(1, IF b THEN 1 ELSE 0)

SetAt(x, i) == i \in 0..(x.width - 1) /\ Bit(x.n, i) = 1

Sign(k) == IF k < 0 THEN -1 ELSE 1

\* q is the quotient truncated towards zero and r the remainder.
Divides(a, b, q, r) ==
  /\ a = q * b + r
  /\ Abs(r) < Abs(b)
  /\ r = 0 \/ Sign(r) = Sign(a)

Divided(a, b) ==
  CHOOSE p \in (-16..16) \X (-16..16) : Divides(a, b, p[1], p[2])

XlsBinop(op, x, y, width) ==
  LET s == Signed(x.width, x.n)
      t == Signed(y.width, y.n)
  IN
  CASE op = "add"  -> Bits(width, (x.n + y.n) % 2^width)
    [] op = "sub"  -> Bits(width, (x.n - y.n) % 2^width)
    [] op = "umul" -> Bits(width, (x.n * y.n) % 2^width)
    [] op = "smul" -> Bits(width, (s * t) % 2^width)
    [] op = "udiv" /\ y.n # 0 -> Bits(width, x.n \div y.n)
    [] op = "umod" /\ y.n # 0 -> Bits(width, x.n % y.n)
    [] op = "sdiv" /\ y.n # 0 -> Bits(width, Divided(s, t)[1] % 2^width)
    [] op = "smod" /\ y.n # 0 -> Bits(width, Divided(s, t)[2] % 2^width)
    [] op = "udiv" /\ y.n = 0 -> BitsWhere(width, LAMBDA i : TRUE)
    [] op = "sdiv" /\ y.n = 0 -> BitsWhere(width, LAMBDA i : (i = width - 1) = (s < 0))
    [] op \in {"umod", "smod"} /\ y.n = 0 -> Bits(width, 0)
    [] op = "shll" -> BitsWhere(width, LAMBDA i : SetAt(x, i - y.n))
    [] op = "shrl" -> BitsWhere(width, LAMBDA i : SetAt(x, i + y.n))
    [] op = "shra" -> BitsWhere(width, LAMBDA i : SetAt(x, Min({i + y.n, width - 1})))
    [] op = "eq"  -> Flag(x.n = y.n)
    [] op = "ne"  -> Flag(x.n # y.n)
    [] op = "ult" -> Flag(x.n < y.n)
    [] op = "ule" -> Flag(x.n <= y.n)
    [] op = "ugt" -> Flag(x.n > y.n)
    [] op = "uge" -> Flag(x.n >= y.n)
    [] op = "slt" -> Flag(s < t)
    [] op = "sle" -> Flag(s <= t)
    [] op = "sgt" -> Flag(s > t)
    [] op = "sge" -> Flag(s >= t)

XlsUnop(op, x) ==
  LET ones == {i \in 0..(x.width - 1) : SetAt(x, i)} IN
  CASE op = "not" -> BitsWhere(x.width, LAMBDA i : ~SetAt(x, i))
    [] op = "neg" -> Bits(x.width, (2^x.width - x.n) % 2^x.width)
    [] op = "reverse"    -> BitsWhere(x.width, LAMBDA i : SetAt(x, x.width - 1 - i))
    [] op = "or_reduce"  -> Flag(ones # {})
    [] op = "and_reduce" -> Flag(ones = 0..(x.width - 1))
    [] op = "xor_reduce" -> Flag(Cardinality(ones) % 2 = 1)

XlsNary(op, args, width) ==
  LET Set(i)    == {k \in 1..Len(args) : SetAt(args[k], i)}
      Below(k)  == FoldLeft(LAMBDA sum, x : sum + x.width, 0, SubSeq(args, k + 1, Len(args)))
  IN
  CASE op = "and"  -> BitsWhere(width, LAMBDA i : Set(i) = 1..Len(args))
    [] op = "nand" -> BitsWhere(width, LAMBDA i : Set(i) # 1..Len(args))
    [] op = "or"   -> BitsWhere(width, LAMBDA i : Set(i) # {})
    [] op = "nor"  -> BitsWhere(width, LAMBDA i : Set(i) = {})
    [] op = "xor"  -> BitsWhere(width, LAMBDA i : Cardinality(Set(i)) % 2 = 1)
    [] op = "concat" ->
         BitsWhere(width, LAMBDA i : \E k \in 1..Len(args) : SetAt(args[k], i - Below(k)))

XlsSlice(node, v) ==
  LET x == v[1] IN
  CASE node.op = "zero_ext" -> BitsWhere(node.type.width, LAMBDA i : SetAt(x, i))
    [] node.op = "sign_ext" ->
         BitsWhere(node.type.width, LAMBDA i : SetAt(x, Min({i, x.width - 1})))
    [] node.op = "bit_slice" -> BitsWhere(node.width, LAMBDA i : SetAt(x, node.start + i))
    [] node.op = "dynamic_bit_slice" -> BitsWhere(node.width, LAMBDA i : SetAt(x, v[2].n + i))
    [] node.op = "bit_slice_update" ->
         LET Inside(i) == i \in v[2].n..(v[2].n + v[3].width - 1) IN
         BitsWhere(x.width,
           LAMBDA i : IF Inside(i) THEN SetAt(v[3], i - v[2].n) ELSE SetAt(x, i))

XlsEncoder(node, x) ==
  LET ones == {i \in 0..(x.width - 1) : SetAt(x, i)} IN
  CASE node.op = "one_hot" ->
         BitsWhere(x.width + 1,
           LAMBDA i : i = (IF ones = {} THEN x.width
                           ELSE IF node.flag THEN Min(ones) ELSE Max(ones)))
    [] node.op = "encode" ->
         BitsWhere(node.type.width, LAMBDA j : \E i \in ones : Bit(i, j) = 1)
    [] node.op = "decode" -> BitsWhere(node.width, LAMBDA i : i = x.n)

RECURSIVE OrAll(_, _)

\* Leaf by leaf, the OR of the values; zero of the type when there are none.
OrAll(type, values) ==
  IF type.kind = "bits"
    THEN BitsWhere(type.width, LAMBDA i : \E k \in 1..Len(values) : SetAt(values[k], i))
    ELSE [kind |-> type.kind,
          elements |-> [j \in 1..Len(type.types) |->
            OrAll(type.types[j], [k \in 1..Len(values) |-> values[k].elements[j]])]]

XlsSelection(node, v) ==
  LET n    == node.count
      set  == {k \in 1..n : SetAt(v[1], k - 1)}
      pick == SetToSortSeq(set, <)
  IN
  CASE node.op = "sel" -> v[1 + Min({v[1].n + 1, Len(v) - 1})]
    [] node.op = "priority_sel" -> IF set = {} THEN v[n + 2] ELSE v[1 + Min(set)]
    [] node.op = "one_hot_sel" ->
         OrAll(node.type, [k \in 1..Len(pick) |-> v[1 + pick[k]]])
    [] node.op = "gate" -> IF v[1].n = 1 THEN v[2] ELSE OrAll(node.type, <<>>)

Elements(kind, elements) == [kind |-> kind, elements |-> elements]

RECURSIVE ReadAt(_, _), WriteAt(_, _, _)

ReadAt(v, path) ==
  IF path = <<>> THEN v
  ELSE ReadAt(v.elements[Min({Head(path).n + 1, Len(v.elements)})], Tail(path))

WriteAt(v, path, new) ==
  IF path = <<>> THEN new
  ELSE IF Head(path).n >= Len(v.elements) THEN v
  ELSE [v EXCEPT !.elements[Head(path).n + 1] = WriteAt(@, Tail(path), new)]

XlsAggregate(node, v) ==
  CASE node.op = "identity"    -> v[1]
    [] node.op = "tuple"       -> Elements("tuple", v)
    [] node.op = "array"       -> Elements("array", v)
    [] node.op = "tuple_index" -> v[1].elements[node.start + 1]
    [] node.op = "array_concat" ->
         Elements("array", FoldLeft(LAMBDA acc, a : acc \o a.elements, <<>>, v))
    [] node.op = "array_index"  -> ReadAt(v[1], Tail(v))
    [] node.op = "array_update" -> WriteAt(v[1], SubSeq(v, 3, Len(v)), v[2])
    [] node.op = "array_slice"  ->
         Elements("array",
           [k \in 1..node.width |->
              v[1].elements[Min({v[2].n + k, Len(v[1].elements)})]])

=============================================================================
