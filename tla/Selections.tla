----------------------------- MODULE Selections -----------------------------
(***************************************************************************)
(* The selection operations of XLS IR as the enumerator resolves them:     *)
(* `sel`, `priority_sel` and `one_hot_sel`.  For a selector whose          *)
(* expression folded to a constant there is one outcome; for any other     *)
(* selector there is one arm per outcome, each with the set of inputs      *)
(* under which it applies and the cases it demands.                        *)
(*                                                                         *)
(* A symbolic expression is abstracted to what it denotes: `Inputs` is the *)
(* set of assignments to the symbolic leaves, a guard is a set of inputs   *)
(* and a bits value is a function from inputs to naturals.  The one thing  *)
(* an expression has beyond what it denotes is whether the arena folded it *)
(* to a constant, because the code asks for that: `lit` of a value         *)
(* (ExprArena::bits_value) and `never` of a guard (ExprArena::bool_value   *)
(* is Some(false)).                                                        *)
(***************************************************************************)
EXTENDS Sequences, Numbers

CONSTANTS
  Inputs,     \* assignments to the symbolic leaves of one request
  MaxUsize    \* usize::MAX, the bound of an induction value

ASSUME InputsAssumption == Inputs # {} /\ MaxUsize \in Nat

(***************************************************************************)
(* A bits value: its width, what it denotes, and whether it is a constant  *)
(* of the arena.                                                           *)
(***************************************************************************)
Bits(width, den, lit) == [width |-> width, den |-> den, lit |-> lit]

ConstantBits(width, n) == Bits(width, [x \in Inputs |-> n], TRUE)

\* concrete_bits: bits[0] has no expression and counts as the constant zero.
IsConcrete(v) == v.width = 0 \/ v.lit

ConcreteValue(v) == IF v.width = 0 THEN 0 ELSE v.den[CHOOSE x \in Inputs : TRUE]

LowBits(n, count) == n % 2^count

\* deep_or of two bits values.
DeepOr(a, b) ==
  Bits(a.width,
       [x \in Inputs |->
          FromBits({i \in 0..(a.width - 1) : Bit(a.den[x], i) = 1 \/ Bit(b.den[x], i) = 1})],
       a.lit /\ b.lit)

(***************************************************************************)
(* Outcomes.  A one-hot mask Vec<bool> is written as the number whose bit  *)
(* i is its element i.                                                     *)
(***************************************************************************)
Case(i)        == <<"Case", i>>
Default        == <<"Default", 0>>
OneHotMask(m)  == <<"OneHotMask", m>>

\* The cases a mask selects, in case order.
SelectedCases(cases, mask) ==
  LET Chosen == {i \in 1..Len(cases) : Bit(mask, i - 1) = 1}
      nth[k \in 1..Cardinality(Chosen)] ==
        CHOOSE i \in Chosen : Cardinality({j \in Chosen : j <= i}) = k
  IN  [k \in 1..Cardinality(Chosen) |-> cases[nth[k]]]

\* The value demanded when no case is selected: the default, or the last case
\* of a `sel` that has none.  A node reference of 0 stands for no default.
Fallback(node) ==
  IF node.default # 0 THEN node.default ELSE node.cases[Len(node.cases)]

(***************************************************************************)
(* Concrete selectors: one outcome and the cases it demands.               *)
(***************************************************************************)
ConcreteSel(node, n) ==
  IF n < Len(node.cases)
    THEN [outcome |-> Case(n),  demand |-> <<node.cases[n + 1]>>]
    ELSE [outcome |-> Default, demand |-> <<Fallback(node)>>]

ConcretePriority(node, width, n) ==
  LET Set == {i \in 0..(Len(node.cases) - 1) : i < width /\ Bit(n, i) = 1}
  IN  IF Set = {}
        THEN [outcome |-> Default,        demand |-> <<node.default>>]
        ELSE [outcome |-> Case(Min(Set)), demand |-> <<node.cases[Min(Set) + 1]>>]

ConcreteOneHot(node, width, n) ==
  LET mask == LowBits(n, Min({width, Len(node.cases)}))
  IN  [outcome |-> OneHotMask(mask), demand |-> SelectedCases(node.cases, mask)]

ConcreteArm(node, selector) ==
  LET n == ConcreteValue(selector) IN
  CASE node.kind = "sel"          -> ConcreteSel(node, n)
    [] node.kind = "priority_sel" -> ConcretePriority(node, selector.width, n)
    [] node.kind = "one_hot_sel"  -> ConcreteOneHot(node, selector.width, n)

(***************************************************************************)
(* Symbolic selectors: the arms in the order the code tries them.          *)
(***************************************************************************)
Arm(outcome, when, never, demand) ==
  [outcome |-> outcome, when |-> when, never |-> never, demand |-> demand]

\* selector_equals: an index the selector is too narrow for folds to false.
SelectorEquals(selector, i) == {x \in Inputs : i < 2^selector.width /\ selector.den[x] = i}

BitSet(selector, i) == {x \in Inputs : Bit(selector.den[x], i) = 1}

\* Mutant of SymbolicSelArms: the implicit default is recorded as the last case.
DefaultAsLastCase(node, selector) ==
  LET n == Len(node.cases)
      explicit == [k \in 1..n |->
        Arm(Case(k - 1), SelectorEquals(selector, k - 1),
            k - 1 >= 2^selector.width, <<node.cases[k]>>)]
      fallback == Inputs \ UNION {explicit[k].when : k \in 1..n}
  IN  Append(explicit, Arm(Case(n - 1), fallback, FALSE, <<Fallback(node)>>))

SymbolicSelArms(node, selector) ==
  LET n == Len(node.cases)
      explicit == [k \in 1..n |->
        Arm(Case(k - 1), SelectorEquals(selector, k - 1),
            k - 1 >= 2^selector.width, <<node.cases[k]>>)]
      fallback == Inputs \ UNION {explicit[k].when : k \in 1..n}
  IN  Append(explicit, Arm(Default, fallback, FALSE, <<Fallback(node)>>))

SymbolicPriorityArms(node, selector) ==
  LET relevant == Min({selector.width, Len(node.cases)})
      PriorClear(k) == Inputs \ UNION {BitSet(selector, i) : i \in 0..(k - 1)}
      explicit == [k \in 1..relevant |->
        Arm(Case(k - 1), PriorClear(k - 1) \cap BitSet(selector, k - 1),
            FALSE, <<node.cases[k]>>)]
  IN  Append(explicit, Arm(Default, PriorClear(relevant), FALSE, <<node.default>>))

\* Mutant of OneHotCombinations: the mask of all ones is forgotten.
AllButTheLastMask(node, selector) == 2^Min({selector.width, Len(node.cases)}) - 1

\* How many masks a symbolic one_hot_sel has, and the arms of the first `count`.
OneHotCombinations(node, selector) == 2^Min({selector.width, Len(node.cases)})

SymbolicOneHotArms(node, selector, count) ==
  LET relevant == Min({selector.width, Len(node.cases)})
      MaskGuard(m) == {x \in Inputs :
        \A i \in 0..(relevant - 1) : x \in BitSet(selector, i) <=> Bit(m, i) = 1}
  IN  [k \in 1..count |->
        Arm(OneHotMask(k - 1), MaskGuard(k - 1), FALSE,
            SelectedCases(node.cases, k - 1))]

=============================================================================
