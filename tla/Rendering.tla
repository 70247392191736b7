------------------------------ MODULE Rendering ------------------------------
(***************************************************************************)
(* The SMT-LIB text that to_smtlib of src/expr.rs makes of an expression:  *)
(* the guards and result expressions that users read.  It is the second    *)
(* translation of an arena, next to the session's (Lowering), and SMT-LIB  *)
(* is stricter: Bool is not (_ BitVec 1), and, or and concat are applied   *)
(* to two terms, and bits are counted from both ends.                      *)
(*                                                                         *)
(* A text is its parse tree [symbol, index, args]: the index holds the     *)
(* digits of a literal, the name of a variable, the numbers of (_ ...).    *)
(***************************************************************************)
EXTENDS Lowering

Text(symbol, index, args) == [symbol |-> symbol, index |-> index, args |-> args]

SmtName(op) == IF op = "eq" THEN "=" ELSE "bv" \o op

\* A bits literal, the most significant bit first.
Digits(w, n) == [k \in 1..w |-> Bit(n, w - k)]

\* Mutant of RenderNary: one application to all operands.
RenderedAtOnce(operator, texts) == Text(operator, <<>>, texts)

RenderNary(operator, texts) ==
  FoldLeft(LAMBDA lhs, rhs : Text(operator, <<>>, <<lhs, rhs>>), Head(texts), Tail(texts))

\* Mutant of LastBit: one beyond the last bit.
BitAfterLast(start, w) == start + w

\* The first index of extract: the most significant bit taken.
LastBit(start, w) == start + w - 1

RECURSIVE ToSmtlib(_, _)
ToSmtlib(ns, x) ==
  LET node  == ns[x]
      texts == [k \in 1..Len(node.args) |-> ToSmtlib(ns, node.args[k])]
      nary  == [k \in 1..Cardinality(node.members) |->
                  ToSmtlib(ns, SetToSortSeq(node.members, <)[k])]
  IN
  CASE node.kind = "bool_const" -> Text(IF node.data[1] = 1 THEN "true" ELSE "false", <<>>, <<>>)
    [] node.kind = "bits_const" -> Text("#b", Digits(node.sort, node.data[1]), <<>>)
    [] node.kind = "variable"   -> Text("const", node.data, <<>>)
    [] node.kind = "bool_not"   -> Text("not", <<>>, texts)
    [] node.kind = "bool_and"   -> RenderNary("and", nary)
    [] node.kind = "bool_or"    -> RenderNary("or", nary)
    [] node.kind = "ite"        -> Text("ite", <<>>, texts)
    [] node.kind = "concat"     -> RenderNary("concat", texts)
    [] node.kind = "extract"    ->
         Text("extract", <<LastBit(node.data[1], node.sort), node.data[1]>>, texts)
    [] node.kind \in {"zero_extend", "sign_extend"} -> Text(node.kind, node.data, texts)
    [] OTHER -> Text(SmtName(node.kind), <<>>, texts)

-----------------------------------------------------------------------------
(***************************************************************************)
(* How SMT-LIB reads a text: its sort, or IllSorted, and its value under   *)
(* an assignment.                                                          *)
(***************************************************************************)
IllSorted == -1

IsBits(sort) == sort > 0

\* The operation that a symbol applies to bit vectors.
OperationOf(ops, symbol) == CHOOSE op \in ops : SmtName(op) = symbol
SymbolsOf(ops) == {SmtName(op) : op \in ops}

RECURSIVE TextSort(_)
TextSort(text) ==
  LET arity   == Len(text.args)
      sort[k \in 1..arity] == TextSort(text.args[k])
      alike   == arity = 2 /\ sort[1] = sort[2]
      only(fits, s) == IF fits THEN s ELSE IllSorted
  IN
  CASE text.symbol \in {"true", "false"} -> Bool
    [] text.symbol = "#b"    -> Len(text.index)
    [] text.symbol = "const" -> SortOf[text.index[1]]
    [] text.symbol = "not"   -> only(arity = 1 /\ sort[1] = Bool, Bool)
    [] text.symbol \in {"and", "or"} -> only(alike /\ sort[1] = Bool, Bool)
    [] text.symbol = "ite"   ->
         only(arity = 3 /\ sort[1] = Bool /\ sort[2] = sort[3], sort[2])
    [] text.symbol = "concat" ->
         only(arity = 2 /\ IsBits(sort[1]) /\ IsBits(sort[2]), sort[1] + sort[2])
    [] text.symbol = "extract" ->
         only(/\ IsBits(sort[1])
              /\ text.index[2] <= text.index[1]
              /\ text.index[1] < sort[1], text.index[1] - text.index[2] + 1)
    [] text.symbol \in {"zero_extend", "sign_extend"} ->
         only(IsBits(sort[1]), sort[1] + text.index[1])
    [] text.symbol \in SymbolsOf(UnaryOps)   -> only(arity = 1 /\ IsBits(sort[1]), sort[1])
    [] text.symbol \in SymbolsOf(BinaryOps)  -> only(alike /\ IsBits(sort[1]), sort[1])
    [] text.symbol \in SymbolsOf(CompareOps) -> only(alike /\ IsBits(sort[1]), Bool)

RECURSIVE TextValue(_, _)
TextValue(text, env) ==
  LET value(k) == TextValue(text.args[k], env)
      width(k) == TextSort(text.args[k])
  IN
  CASE text.symbol = "true"  -> 1
    [] text.symbol = "false" -> 0
    [] text.symbol = "#b"    -> FoldLeft(LAMBDA n, digit : 2 * n + digit, 0, text.index)
    [] text.symbol = "const" -> env[text.index[1]]
    [] text.symbol = "not"   -> 1 - value(1)
    [] text.symbol = "and"   -> Truth(value(1) = 1 /\ value(2) = 1)
    [] text.symbol = "or"    -> Truth(value(1) = 1 \/ value(2) = 1)
    [] text.symbol = "ite"   -> IF value(1) = 1 THEN value(2) ELSE value(3)
    [] text.symbol = "concat"  -> value(1) * 2^width(2) + value(2)
    [] text.symbol = "extract" ->
         FromBits({i \in 0..(text.index[1] - text.index[2]) :
                     Bit(value(1), text.index[2] + i) = 1})
    [] text.symbol = "zero_extend" -> value(1)
    [] text.symbol = "sign_extend" ->
         Wrap(width(1) + text.index[1], Signed(width(1), value(1)))
    [] text.symbol \in SymbolsOf(UnaryOps) ->
         SmtUnary(OperationOf(UnaryOps, text.symbol), width(1), value(1))
    [] text.symbol \in SymbolsOf(BinaryOps) ->
         SmtBinary(OperationOf(BinaryOps, text.symbol), width(1), value(1), value(2))
    [] text.symbol \in SymbolsOf(CompareOps) ->
         Truth(SmtCompare(OperationOf(CompareOps, text.symbol), width(1), value(1), value(2)))

-----------------------------------------------------------------------------
(***************************************************************************)
(* The two translations of an expression agree: its text is well sorted in *)
(* SMT-LIB, of the sort the arena gave it, so that a user can assert every *)
(* guard and define every result, and denotes what the session decided.    *)
(***************************************************************************)
RenderedMeansLowered ==
  \A x \in Ids :
    LET text == ToSmtlib(nodes, x) IN
    /\ TextSort(text) = nodes[x].sort
    /\ \A world \in Worlds : TextValue(text, world.env) = world.values[x]

=============================================================================
