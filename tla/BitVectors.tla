----------------------------- MODULE BitVectors -----------------------------
(***************************************************************************)
(* Bit vectors as numbers, and the two implementations of an operator of   *)
(* the expression arena: the SMT-LIB operator that an interned node stands *)
(* for (src/expr.rs smt_name, src/solver.rs lower_node), and the IrBits    *)
(* function that folds it when its operands are constants.  A bit vector   *)
(* of width w is a number below 2^w; bit 0 is the least significant.       *)
(***************************************************************************)
EXTENDS Integers, Numbers

AllOnes(w)    == 2^w - 1
SignedMin(w)  == 2^(w - 1)
SignedMax(w)  == 2^(w - 1) - 1
Negative(w, n) == w > 0 /\ n >= 2^(w - 1)

\* Two's complement: the integer that n stands for, and back.
Signed(w, n) == IF Negative(w, n) THEN n - 2^w ELSE n
Wrap(w, k)   == k % 2^w

Abs(k) == IF k < 0 THEN -k ELSE k

\* Division that truncates towards zero, and the remainder it leaves.
Quotient(a, b)  == IF (a < 0) = (b < 0) THEN Abs(a) \div Abs(b) ELSE -(Abs(a) \div Abs(b))
Remainder(a, b) == a - b * Quotient(a, b)

\* Arithmetic shift: the quotient rounded down, so that the sign fills in.
ShiftRight(w, n, amount) == Wrap(w, Signed(w, n) \div 2^amount)

(***************************************************************************)
(* SMT-LIB.                                                                *)
(***************************************************************************)
SmtUnary(op, w, a) ==
  CASE op = "not" -> AllOnes(w) - a
    [] op = "neg" -> Wrap(w, -a)

SmtBinary(op, w, a, b) ==
  CASE op = "add"  -> Wrap(w, a + b)
    [] op = "sub"  -> Wrap(w, a - b)
    [] op = "mul"  -> Wrap(w, a * b)
    [] op = "udiv" -> IF b = 0 THEN AllOnes(w) ELSE a \div b
    [] op = "urem" -> IF b = 0 THEN a ELSE a % b
    [] op = "sdiv" -> IF b = 0 THEN (IF Negative(w, a) THEN 1 ELSE AllOnes(w))
                      ELSE Wrap(w, Quotient(Signed(w, a), Signed(w, b)))
    [] op = "srem" -> IF b = 0 THEN a ELSE Wrap(w, Remainder(Signed(w, a), Signed(w, b)))
    [] op = "and"  -> FromBits({i \in 0..(w - 1) : Bit(a, i) = 1 /\ Bit(b, i) = 1})
    [] op = "or"   -> FromBits({i \in 0..(w - 1) : Bit(a, i) = 1 \/ Bit(b, i) = 1})
    [] op = "xor"  -> FromBits({i \in 0..(w - 1) : Bit(a, i) # Bit(b, i)})
    [] op = "shl"  -> IF b >= w THEN 0 ELSE Wrap(w, a * 2^b)
    [] op = "lshr" -> IF b >= w THEN 0 ELSE a \div 2^b
    [] op = "ashr" -> ShiftRight(w, a, IF b >= w THEN w ELSE b)

SmtCompare(op, w, a, b) ==
  LET s == Signed(w, a)
      t == Signed(w, b)
  IN  CASE op = "eq"  -> a = b
        [] op = "ult" -> a < b
        [] op = "ule" -> a <= b
        [] op = "ugt" -> a > b
        [] op = "uge" -> a >= b
        [] op = "slt" -> s < t
        [] op = "sle" -> s <= t
        [] op = "sgt" -> s > t
        [] op = "sge" -> s >= t

SmtExtract(a, start, width) == (a \div 2^start) % 2^width

SmtExtend(w, a, width, signed) == IF signed THEN Wrap(width, Signed(w, a)) ELSE a

(***************************************************************************)
(* Constant folding.  Only division differs from SMT-LIB: IrBits divides   *)
(* by zero as XLS does.  A shift folds through constant_shift, which turns *)
(* an amount beyond the width into the fill.                               *)
(***************************************************************************)
ConstantShift(op, w, a, b) ==
  LET fill == op = "ashr" /\ Negative(w, a) IN
  CASE b >= w              -> IF fill THEN AllOnes(w) ELSE 0
    [] b < w /\ op = "shl"  -> Wrap(w, a * 2^b)
    [] b < w /\ op = "lshr" -> a \div 2^b
    [] b < w /\ op = "ashr" -> ShiftRight(w, a, b)

FoldBinary(op, w, a, b) ==
  CASE op = "udiv" /\ b = 0 -> AllOnes(w)
    [] op = "sdiv" /\ b = 0 -> IF Negative(w, a) THEN SignedMin(w) ELSE SignedMax(w)
    [] op \in {"urem", "srem"} /\ b = 0 -> 0
    [] op \in {"shl", "lshr", "ashr"} -> ConstantShift(op, w, a, b)
    [] OTHER -> SmtBinary(op, w, a, b)

=============================================================================
