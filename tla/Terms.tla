-------------------------------- MODULE Terms --------------------------------
(***************************************************************************)
(* The constructors of the expression arena, and the selections of XLS IR  *)
(* as src/evaluator.rs composes them from those.                           *)
(*                                                                         *)
(* A term is seen at one assignment of the symbolic leaves: `n` is what it *)
(* denotes there and `lit` whether the arena holds it as a constant.  An   *)
(* operator on constants folds (IrBits); on anything else it stands for    *)
(* the SMT-LIB operator; so that every operation is evaluated the way the  *)
(* code builds it, for every mixture of constants and variables.  What the *)
(* arena simplifies because two operands are the same node is the subject  *)
(* of ExprArena.  bits[0] has no term.                                     *)
(***************************************************************************)
EXTENDS BitVectors, SequencesExt

Term(width, n, lit) == [kind |-> "bits", width |-> width, n |-> n, lit |-> lit]
Const(width, n)     == Term(width, n, TRUE)
Condition(b, lit)   == [b |-> b, lit |-> lit]

Unary(op, x) == Term(x.width, SmtUnary(op, x.width, x.n), x.lit)

Binary(op, x, y) ==
  LET lit == x.lit /\ y.lit IN
  Term(x.width,
       IF lit THEN FoldBinary(op, x.width, x.n, y.n) ELSE SmtBinary(op, x.width, x.n, y.n),
       lit)

Compare(op, x, y) == Condition(SmtCompare(op, x.width, x.n, y.n), x.lit /\ y.lit)

Not(c) == Condition(~c.b, c.lit)

\* A branch of a constant condition, or the constant both branches are.
Ite(c, x, y) ==
  IF c.lit \/ (x.lit /\ x = y) THEN IF c.b THEN x ELSE y
  ELSE Term(x.width, IF c.b THEN x.n ELSE y.n, FALSE)

BoolToBit(c) == Ite(c, Const(1, 1), Const(1, 0))
BitIsOne(x)  == Compare("eq", x, Const(1, 1))

\* The first argument is the most significant.
Join(x, y) == Term(x.width + y.width, x.n * 2^y.width + y.n, x.lit /\ y.lit)
Concat(args) == FoldLeft(Join, Head(args), Tail(args))

Extract(x, start, width) == Term(width, SmtExtract(x.n, start, width), x.lit)
Extend(x, width, signed) == Term(width, SmtExtend(x.width, x.n, width, signed), x.lit)

NoBits == Const(0, 0)

SelectorEquals(selector, index) ==
  CASE selector.width = 0 -> Condition(index = 0, TRUE)
    [] selector.width > 0 /\ index >= 2^selector.width -> Condition(FALSE, TRUE)
    [] OTHER -> Compare("eq", selector, Const(selector.width, index))

-----------------------------------------------------------------------------
(***************************************************************************)
(* Selections.  `default` of a `sel` is <<>> or <<v>>.  The other two have *)
(* values of any shape: how one of two such values is chosen, and how two  *)
(* are merged, are parameters; those for bits values are here.             *)
(***************************************************************************)
EvaluateSel(selector, cases, default) ==
  LET n        == Len(cases)
      fallback == IF default = <<>> THEN cases[n] ELSE default[1]
  IN  IF cases[1].width = 0 THEN NoBits
      ELSE FoldLeft(LAMBDA otherwise, k :
                      Ite(SelectorEquals(selector, n - k), cases[n - k + 1], otherwise),
                    fallback, [k \in 1..n |-> k])

SelectBits(c, then, else) == IF then.width = 0 THEN NoBits ELSE Ite(c, then, else)

OrBits(lhs, rhs) == IF lhs.width = 0 THEN NoBits ELSE Binary("or", lhs, rhs)

SelectedBit(selector, index) == BitIsOne(Extract(selector, index, 1))

\* The cases from the last to the first, so that the first whose bit is set wins.
FirstSetCase(Choose(_, _, _), selector, cases, default) ==
  LET n == Len(cases) IN
  FoldLeft(LAMBDA otherwise, k :
             LET index == n - k IN
             IF index >= selector.width THEN otherwise
             ELSE Choose(SelectedBit(selector, index), cases[index + 1], otherwise),
           default, [k \in 1..n |-> k])

EverySetCase(Choose(_, _, _), Merge(_, _), selector, cases, zero) ==
  FoldLeft(LAMBDA acc, k :
             IF k > selector.width THEN acc
             ELSE Merge(acc, Choose(SelectedBit(selector, k - 1), cases[k], zero)),
           zero, [k \in 1..Len(cases) |-> k])

=============================================================================
