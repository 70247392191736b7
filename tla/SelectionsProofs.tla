--------------------------- MODULE SelectionsProofs ---------------------------
(***************************************************************************)
(* The arms of a selector, for every width, list of cases and set of       *)
(* inputs: they partition the inputs, and a selector that is constant      *)
(* takes the arm that it would have taken symbolically.                    *)
(*                                                                         *)
(* The masks of a `one_hot_sel` differ in a bit, and some mask has the low *)
(* bits of the selector: inductions over numbers, from module Induction.   *)
(***************************************************************************)
EXTENDS Selections, Integers, SequenceTheorems, Induction

(***************************************************************************)
(* What SelectionSplit requires of a split: exactly one arm applies to an  *)
(* input, arms differ in their outcomes, and an arm known to be false      *)
(* applies to none.                                                        *)
(***************************************************************************)
ArmsAreApart(arms) ==
  /\ \A k \in 1..Len(arms) : arms[k].when \subseteq Inputs
  /\ \A j, k \in 1..Len(arms) :
       j # k => arms[j].when \cap arms[k].when = {} /\ arms[j].outcome # arms[k].outcome
  /\ \A k \in 1..Len(arms) : arms[k].never => arms[k].when = {}

ArmsPartition(arms) ==
  /\ ArmsAreApart(arms)
  /\ \A x \in Inputs : \E k \in 1..Len(arms) : x \in arms[k].when

(***************************************************************************)
(* A list of arms for the cases with a last one for the default.           *)
(***************************************************************************)
LEMMA AppendedArm ==
  ASSUME NEW n \in Nat, NEW f, f = [k \in 1..n |-> f[k]], NEW last
  PROVE  /\ Len(Append(f, last)) = n + 1
         /\ \A k \in 1..n : Append(f, last)[k] = f[k]
         /\ Append(f, last)[n + 1] = last
<1> DEFINE S == {f[k] : k \in 1..n} \cup {last}
<1>1. f \in [1..n -> S]
  OBVIOUS
<1>2. f \in Seq(S) /\ Len(f) = n
  BY <1>1, SeqDef, LenProperties
<1> QED
  BY <1>2, AppendProperties

\* A nonempty set of naturals has a least element, which is its Min.
LEMMA LeastElement ==
  ASSUME NEW S, S \subseteq Nat, S # {}
  PROVE  Min(S) \in S /\ \A y \in S : Min(S) <= y
<1>1. \E x \in S : \A y \in S : x <= y
  BY LeastExists
<1> QED
  BY <1>1 DEF Min

\* Min of two naturals.
LEMMA LeastOfTwo ==
  ASSUME NEW m \in Nat, NEW n \in Nat
  PROVE  Min({m, n}) \in Nat /\ Min({m, n}) <= m /\ Min({m, n}) <= n
BY LeastElement

-----------------------------------------------------------------------------
(***************************************************************************)
(* sel.                                                                    *)
(***************************************************************************)
\* An arm per case, and one for the inputs that no case has.
SelArmList(node, selector, n, arms) ==
  /\ Len(arms) = n + 1
  /\ \A k \in 1..n : /\ arms[k].when = SelectorEquals(selector, k - 1)
                     /\ arms[k].outcome = Case(k - 1)
                     /\ arms[k].never = (k - 1 >= 2^selector.width)
                     /\ arms[k].demand = <<node.cases[k]>>
  /\ \A x : x \in arms[n + 1].when <=>
       x \in Inputs /\ \A k \in 1..n : x \notin SelectorEquals(selector, k - 1)
  /\ arms[n + 1].outcome = Default
  /\ arms[n + 1].never = FALSE
  /\ arms[n + 1].demand = <<Fallback(node)>>

\* SymbolicSelArms is such a list.
LEMMA SelArms ==
  ASSUME NEW node, Len(node.cases) \in Nat, NEW selector
  PROVE  SelArmList(node, selector, Len(node.cases), SymbolicSelArms(node, selector))
<1> DEFINE n == Len(node.cases)
           arms == SymbolicSelArms(node, selector)
           f == [k \in 1..n |-> Arm(Case(k - 1), SelectorEquals(selector, k - 1),
                                    k - 1 >= 2^selector.width, <<node.cases[k]>>)]
           last == Arm(Default, Inputs \ UNION {f[k].when : k \in 1..n}, FALSE, <<Fallback(node)>>)
<1>1. arms = Append(f, last)
  BY DEF SymbolicSelArms
<1> HIDE DEF arms
<1>2. \A k \in 1..n : /\ f[k].when = SelectorEquals(selector, k - 1)
                      /\ f[k].outcome = Case(k - 1)
                      /\ f[k].never = (k - 1 >= 2^selector.width)
                      /\ f[k].demand = <<node.cases[k]>>
  BY DEF Arm
<1>3. /\ last.outcome = Default /\ last.never = FALSE /\ last.demand = <<Fallback(node)>>
      /\ last.when = Inputs \ UNION {f[k].when : k \in 1..n}
  BY DEF Arm
<1>4. f = [k \in 1..n |-> f[k]]
  OBVIOUS
<1> HIDE DEF f, last
<1>5. /\ Len(arms) = n + 1
      /\ \A k \in 1..n : arms[k] = f[k]
      /\ arms[n + 1] = last
  BY <1>1, <1>4, AppendedArm
<1>6. \A x : x \in last.when <=>
        x \in Inputs /\ \A k \in 1..n : x \notin SelectorEquals(selector, k - 1)
  BY <1>2, <1>3
<1>7. SelArmList(node, selector, n, arms)
  BY <1>2, <1>3, <1>5, <1>6 DEF SelArmList
<1> QED
  BY <1>7 DEF arms

(***************************************************************************)
(* The arms of a `sel` partition the inputs: an index beyond the cases, or *)
(* that the selector is too narrow for, belongs to the default alone.      *)
(***************************************************************************)
THEOREM SelArmsPartition ==
  ASSUME NEW node, Len(node.cases) \in Nat, NEW selector, selector.width \in Nat
  PROVE  ArmsPartition(SymbolicSelArms(node, selector))
<1> SUFFICES ASSUME NEW arms, NEW n \in Nat, SelArmList(node, selector, n, arms)
             PROVE  ArmsPartition(arms)
  BY SelArms
<1>1. /\ Len(arms) = n + 1
      /\ \A k \in 1..n : /\ arms[k].when = SelectorEquals(selector, k - 1)
                         /\ arms[k].outcome = Case(k - 1)
                         /\ arms[k].never = (k - 1 >= 2^selector.width)
      /\ \A x : x \in arms[n + 1].when <=>
           x \in Inputs /\ \A k \in 1..n : x \notin SelectorEquals(selector, k - 1)
      /\ arms[n + 1].outcome = Default
      /\ arms[n + 1].never = FALSE
  BY DEF SelArmList
<1>2. \A k : k \in 1..Len(arms) <=> k \in 1..n \/ k = n + 1
  BY <1>1
<1>3. \A k \in 1..n : SelectorEquals(selector, k - 1) \subseteq Inputs
  BY DEF SelectorEquals
<1>4. \A j, k \in 1..n : j # k =>
        SelectorEquals(selector, j - 1) \cap SelectorEquals(selector, k - 1) = {}
  BY DEF SelectorEquals
<1>5. /\ \A k \in 1..n : Case(k - 1) # Default
      /\ \A j, k \in 1..n : j # k => Case(j - 1) # Case(k - 1)
  BY DEF Case, Default
<1>6. ASSUME NEW x \in Inputs PROVE \E k \in 1..Len(arms) : x \in arms[k].when
  <2>1. CASE \E k \in 1..n : x \in SelectorEquals(selector, k - 1)
    <3>1. PICK k \in 1..n : x \in SelectorEquals(selector, k - 1)
      BY <2>1
    <3> QED
      BY <1>1, <1>2, <3>1
  <2>2. CASE ~\E k \in 1..n : x \in SelectorEquals(selector, k - 1)
    <3>1. x \in arms[n + 1].when
      BY <1>1, <2>2
    <3> QED
      BY <1>2, <3>1
  <2> QED
    BY <2>1, <2>2
<1>7. \A k \in 1..Len(arms) : arms[k].when \subseteq Inputs
  BY <1>1, <1>2, <1>3
<1>8. ASSUME NEW j \in 1..Len(arms), NEW k \in 1..Len(arms), j # k
      PROVE  arms[j].when \cap arms[k].when = {} /\ arms[j].outcome # arms[k].outcome
  <2>1. CASE j \in 1..n /\ k \in 1..n
    <3>1. SelectorEquals(selector, j - 1) \cap SelectorEquals(selector, k - 1) = {}
      BY <1>4, <1>8, <2>1
    <3> QED
      BY <1>1, <1>5, <1>8, <2>1, <3>1
  <2>2. CASE j = n + 1 /\ k \in 1..n
    BY <1>1, <1>5, <2>2
  <2>3. CASE j \in 1..n /\ k = n + 1
    BY <1>1, <1>5, <2>3
  <2> QED
    BY <1>2, <1>8, <2>1, <2>2, <2>3
<1>9. ASSUME NEW k \in 1..Len(arms), arms[k].never PROVE arms[k].when = {}
  <2>1. k \in 1..n /\ k - 1 >= 2^selector.width
    BY <1>1, <1>2, <1>9
  <2>2. 2^selector.width \in Int
    OBVIOUS
  <2>3. ~(k - 1 < 2^selector.width)
    BY <2>1, <2>2
  <2> QED
    BY <1>1, <2>1, <2>3 DEF SelectorEquals
<1> QED
  BY <1>6, <1>7, <1>8, <1>9 DEF ArmsPartition, ArmsAreApart

(***************************************************************************)
(* A constant selector of a `sel` takes the arm it would take if it had    *)
(* not been folded, with the same outcome and the same demand: folding     *)
(* decides which path of eval_sel runs, never what it resolves to.         *)
(***************************************************************************)
THEOREM ConcreteSelIsAnArm ==
  ASSUME NEW node, Len(node.cases) \in Nat, NEW selector, NEW x \in Inputs,
         NEW value \in Nat, value < 2^selector.width, selector.den[x] = value,
         NEW k \in 1..Len(SymbolicSelArms(node, selector)),
         x \in SymbolicSelArms(node, selector)[k].when
  PROVE  /\ SymbolicSelArms(node, selector)[k].outcome = ConcreteSel(node, value).outcome
         /\ SymbolicSelArms(node, selector)[k].demand = ConcreteSel(node, value).demand
<1> SUFFICES ASSUME NEW arms, NEW n \in Nat, n = Len(node.cases),
                    SelArmList(node, selector, n, arms),
                    k \in 1..Len(arms), x \in arms[k].when
             PROVE  /\ arms[k].outcome = ConcreteSel(node, value).outcome
                    /\ arms[k].demand = ConcreteSel(node, value).demand
  BY SelArms
<1>1. /\ Len(arms) = n + 1
      /\ \A i \in 1..n : /\ arms[i].when = SelectorEquals(selector, i - 1)
                         /\ arms[i].outcome = Case(i - 1)
                         /\ arms[i].demand = <<node.cases[i]>>
      /\ \A y : y \in arms[n + 1].when <=>
           y \in Inputs /\ \A i \in 1..n : y \notin SelectorEquals(selector, i - 1)
      /\ arms[n + 1].outcome = Default
      /\ arms[n + 1].demand = <<Fallback(node)>>
  BY DEF SelArmList
<1>2. \A i \in Nat : x \in SelectorEquals(selector, i) <=> i = value
  BY DEF SelectorEquals
<1>3. CASE k \in 1..n
  <2>1. value = k - 1 /\ value < Len(node.cases) /\ value + 1 = k
    BY <1>1, <1>2, <1>3
  <2>2. ConcreteSel(node, value) = [outcome |-> Case(k - 1), demand |-> <<node.cases[k]>>]
    BY <2>1 DEF ConcreteSel
  <2> QED
    BY <1>1, <1>3, <2>2
<1>4. CASE k = n + 1
  <2>1. \A i \in 1..n : value # i - 1
    BY <1>1, <1>2, <1>4
  <2>2. ~(value < Len(node.cases))
    <3>1. value < n => value + 1 \in 1..n /\ (value + 1) - 1 = value
      OBVIOUS
    <3> QED
      BY <2>1, <3>1
  <2>3. ConcreteSel(node, value) = [outcome |-> Default, demand |-> <<Fallback(node)>>]
    BY <2>2 DEF ConcreteSel
  <2> QED
    BY <1>1, <1>4, <2>3
<1> QED
  BY <1>1, <1>3, <1>4

-----------------------------------------------------------------------------
(***************************************************************************)
(* priority_sel.                                                           *)
(***************************************************************************)
\* How many bits can decide: those of the selector that have a case.
Relevant(node, selector) == Min({selector.width, Len(node.cases)})

\* On input x bit i of the selector is the first that is set.
FirstSet(selector, x, i) ==
  /\ Bit(selector.den[x], i) = 1
  /\ \A j \in 0..(i - 1) : Bit(selector.den[x], j) # 1

\* An arm per deciding bit, and one for the inputs that set none of them.
PriorityArmList(node, selector, n, arms) ==
  /\ Len(arms) = n + 1
  /\ \A k \in 1..n :
       /\ \A x : x \in arms[k].when <=> x \in Inputs /\ FirstSet(selector, x, k - 1)
       /\ arms[k].outcome = Case(k - 1)
       /\ arms[k].never = FALSE
       /\ arms[k].demand = <<node.cases[k]>>
  /\ \A x : x \in arms[n + 1].when <=>
       x \in Inputs /\ \A i \in 0..(n - 1) : Bit(selector.den[x], i) # 1
  /\ arms[n + 1].outcome = Default
  /\ arms[n + 1].never = FALSE
  /\ arms[n + 1].demand = <<node.default>>

\* SymbolicPriorityArms is such a list, of the deciding bits.
LEMMA PriorityArms ==
  ASSUME NEW node, Len(node.cases) \in Nat, NEW selector, selector.width \in Nat
  PROVE  /\ PriorityArmList(node, selector, Relevant(node, selector),
                            SymbolicPriorityArms(node, selector))
         /\ Relevant(node, selector) \in Nat
         /\ Relevant(node, selector) <= selector.width
         /\ Relevant(node, selector) <= Len(node.cases)
<1> DEFINE n == Relevant(node, selector)
           arms == SymbolicPriorityArms(node, selector)
           Clear(k) == Inputs \ UNION {BitSet(selector, i) : i \in 0..(k - 1)}
           f == [k \in 1..n |-> Arm(Case(k - 1), Clear(k - 1) \cap BitSet(selector, k - 1),
                                    FALSE, <<node.cases[k]>>)]
           last == Arm(Default, Clear(n), FALSE, <<node.default>>)
<1>1. n \in Nat /\ n <= selector.width /\ n <= Len(node.cases)
  BY LeastOfTwo DEF Relevant
<1>2. arms = Append(f, last)
  BY DEF SymbolicPriorityArms, Relevant
<1> HIDE DEF arms, n
<1>3. \A k : \A x : x \in Clear(k) <=>
        x \in Inputs /\ \A i \in 0..(k - 1) : Bit(selector.den[x], i) # 1
  BY DEF BitSet
<1>4. \A k \in 1..n : \A x : x \in Clear(k - 1) \cap BitSet(selector, k - 1) <=>
        x \in Inputs /\ FirstSet(selector, x, k - 1)
  BY <1>3 DEF FirstSet, BitSet
<1> HIDE DEF Clear
<1>5. \A k \in 1..n : /\ f[k].when = Clear(k - 1) \cap BitSet(selector, k - 1)
                      /\ f[k].outcome = Case(k - 1)
                      /\ f[k].never = FALSE
                      /\ f[k].demand = <<node.cases[k]>>
  BY DEF Arm
<1>6. /\ last.outcome = Default /\ last.never = FALSE /\ last.demand = <<node.default>>
      /\ last.when = Clear(n)
  BY DEF Arm
<1>7. f = [k \in 1..n |-> f[k]]
  OBVIOUS
<1> HIDE DEF f, last
<1>8. /\ Len(arms) = n + 1
      /\ \A k \in 1..n : arms[k] = f[k]
      /\ arms[n + 1] = last
  BY <1>1, <1>2, <1>7, AppendedArm
<1>9. \A k \in 1..n :
        /\ \A x : x \in arms[k].when <=> x \in Inputs /\ FirstSet(selector, x, k - 1)
        /\ arms[k].outcome = Case(k - 1)
        /\ arms[k].never = FALSE
        /\ arms[k].demand = <<node.cases[k]>>
  BY <1>4, <1>5, <1>8
<1>10. \A x : x \in arms[n + 1].when <=>
         x \in Inputs /\ \A i \in 0..(n - 1) : Bit(selector.den[x], i) # 1
  BY <1>1, <1>3, <1>6, <1>8
<1>11. PriorityArmList(node, selector, n, arms)
  BY <1>6, <1>8, <1>9, <1>10 DEF PriorityArmList
<1> QED
  BY <1>1, <1>11 DEF arms, n

\* A bit that is set has a first one before it or is the first.
LEMMA FirstSetExists ==
  ASSUME NEW selector, NEW x, NEW n \in Nat, NEW i \in 0..(n - 1), Bit(selector.den[x], i) = 1
  PROVE  \E k \in 1..n : FirstSet(selector, x, k - 1)
<1> DEFINE S == {j \in 0..(n - 1) : Bit(selector.den[x], j) = 1}
           least == Min(S)
<1>1. least \in S /\ \A y \in S : least <= y
  BY LeastElement
<1> HIDE DEF least
<1>2. FirstSet(selector, x, least)
  BY <1>1 DEF FirstSet
<1>3. least + 1 \in 1..n /\ (least + 1) - 1 = least
  BY <1>1
<1> QED
  BY <1>2, <1>3

(***************************************************************************)
(* The arms of a `priority_sel` partition the inputs, by the first set bit *)
(* among those that have both a case and a place in the selector.          *)
(***************************************************************************)
THEOREM PriorityArmsPartition ==
  ASSUME NEW node, Len(node.cases) \in Nat, NEW selector, selector.width \in Nat
  PROVE  ArmsPartition(SymbolicPriorityArms(node, selector))
<1> SUFFICES ASSUME NEW arms, NEW n \in Nat, PriorityArmList(node, selector, n, arms)
             PROVE  ArmsPartition(arms)
  BY PriorityArms
<1>1. /\ n \in Nat
      /\ Len(arms) = n + 1
      /\ \A k \in 1..n :
           /\ \A x : x \in arms[k].when <=> x \in Inputs /\ FirstSet(selector, x, k - 1)
           /\ arms[k].outcome = Case(k - 1)
           /\ arms[k].never = FALSE
      /\ \A x : x \in arms[n + 1].when <=>
           x \in Inputs /\ \A i \in 0..(n - 1) : Bit(selector.den[x], i) # 1
      /\ arms[n + 1].outcome = Default
      /\ arms[n + 1].never = FALSE
  BY DEF PriorityArmList
<1>2. \A k : k \in 1..Len(arms) <=> k \in 1..n \/ k = n + 1
  BY <1>1
<1>3. /\ \A k \in 1..n : Case(k - 1) # Default
      /\ \A j, k \in 1..n : j # k => Case(j - 1) # Case(k - 1)
  BY <1>1 DEF Case, Default
<1>4. ASSUME NEW x \in Inputs PROVE \E k \in 1..Len(arms) : x \in arms[k].when
  BY <1>1, <1>2, FirstSetExists
<1>5. \A k \in 1..Len(arms) : arms[k].when \subseteq Inputs /\ ~arms[k].never
  BY <1>1, <1>2
<1>6. \A x : \A j, k \in 1..n :
        j < k => ~(FirstSet(selector, x, j - 1) /\ FirstSet(selector, x, k - 1))
  BY <1>1 DEF FirstSet
<1>7. \A k \in 1..n : arms[k].when \cap arms[n + 1].when = {}
  <2>1. \A x : \A k \in 1..n :
          FirstSet(selector, x, k - 1) => k - 1 \in 0..(n - 1) /\ Bit(selector.den[x], k - 1) = 1
    BY DEF FirstSet
  <2> QED
    BY <1>1, <2>1
<1>8. ASSUME NEW j \in 1..Len(arms), NEW k \in 1..Len(arms), j # k
      PROVE  arms[j].when \cap arms[k].when = {} /\ arms[j].outcome # arms[k].outcome
  <2>1. CASE j \in 1..n /\ k \in 1..n
    <3>1. j < k \/ k < j
      BY <1>8, <2>1
    <3>2. \A x : ~(FirstSet(selector, x, j - 1) /\ FirstSet(selector, x, k - 1))
      BY <1>6, <2>1, <3>1
    <3>3. arms[j].when \cap arms[k].when = {}
      BY <1>1, <2>1, <3>2
    <3> QED
      BY <1>1, <1>3, <1>8, <2>1, <3>3
  <2>2. CASE j = n + 1 /\ k \in 1..n
    BY <1>1, <1>3, <1>7, <2>2
  <2>3. CASE j \in 1..n /\ k = n + 1
    BY <1>1, <1>3, <1>7, <2>3
  <2> QED
    BY <1>2, <1>8, <2>1, <2>2, <2>3
<1> QED
  BY <1>4, <1>5, <1>8 DEF ArmsPartition, ArmsAreApart

(***************************************************************************)
(* A constant selector of a `priority_sel` takes the arm it would take if  *)
(* it had not been folded: eval_priority_sel finds the first set bit among *)
(* the same bits on both paths.                                            *)
(***************************************************************************)
THEOREM ConcretePriorityIsAnArm ==
  ASSUME NEW node, Len(node.cases) \in Nat, NEW selector, selector.width \in Nat,
         NEW x \in Inputs, NEW value, selector.den[x] = value,
         NEW k \in 1..Len(SymbolicPriorityArms(node, selector)),
         x \in SymbolicPriorityArms(node, selector)[k].when
  PROVE  /\ SymbolicPriorityArms(node, selector)[k].outcome
              = ConcretePriority(node, selector.width, value).outcome
         /\ SymbolicPriorityArms(node, selector)[k].demand
              = ConcretePriority(node, selector.width, value).demand
<1> DEFINE concrete == ConcretePriority(node, selector.width, value)
<1> SUFFICES ASSUME NEW arms, NEW n \in Nat, n = Relevant(node, selector),
                    PriorityArmList(node, selector, n, arms),
                    k \in 1..Len(arms), x \in arms[k].when
             PROVE  arms[k].outcome = concrete.outcome /\ arms[k].demand = concrete.demand
  BY PriorityArms
<1> DEFINE S == {i \in 0..(Len(node.cases) - 1) : i < selector.width /\ Bit(value, i) = 1}
<1>1. /\ Len(arms) = n + 1
      /\ \A i \in 1..n :
           /\ \A y : y \in arms[i].when <=> y \in Inputs /\ FirstSet(selector, y, i - 1)
           /\ arms[i].outcome = Case(i - 1)
           /\ arms[i].demand = <<node.cases[i]>>
      /\ \A y : y \in arms[n + 1].when <=>
           y \in Inputs /\ \A i \in 0..(n - 1) : Bit(selector.den[y], i) # 1
      /\ arms[n + 1].outcome = Default
      /\ arms[n + 1].demand = <<node.default>>
  BY DEF PriorityArmList
<1>2. \A i : i \in S <=> i \in 0..(n - 1) /\ Bit(value, i) = 1
  <2>1. \/ n = selector.width /\ n <= Len(node.cases)
        \/ n = Len(node.cases) /\ n <= selector.width
    <3>1. n \in {selector.width, Len(node.cases)} /\ n <= selector.width /\ n <= Len(node.cases)
      BY LeastElement DEF Relevant
    <3> QED
      BY <3>1
  <2> QED
    BY <2>1
<1>3. concrete = IF S = {}
                   THEN [outcome |-> Default, demand |-> <<node.default>>]
                   ELSE [outcome |-> Case(Min(S)), demand |-> <<node.cases[Min(S) + 1]>>]
  BY DEF ConcretePriority
<1> HIDE DEF S, concrete
<1>4. CASE k \in 1..n
  <2>1. FirstSet(selector, x, k - 1) /\ k - 1 \in 0..(n - 1)
    BY <1>1, <1>4
  <2>2. k - 1 \in S /\ \A y \in S : k - 1 <= y
    BY <1>2, <2>1 DEF FirstSet
  <2>3. Min(S) = k - 1 /\ Min(S) + 1 = k
    <3>1. S \subseteq Nat
      BY <1>2
    <3>2. PICK least \in S : least = Min(S) /\ \A y \in S : least <= y
      BY <2>2, <3>1, LeastElement
    <3>3. least \in Nat /\ least <= k - 1 /\ k - 1 <= least
      BY <2>2, <3>1, <3>2
    <3>4. least = k - 1
      BY <1>4, <3>3
    <3> QED
      BY <1>4, <3>2, <3>4
  <2> QED
    BY <1>1, <1>3, <1>4, <2>2, <2>3
<1>5. CASE k = n + 1
  <2>1. S = {}
    BY <1>1, <1>2, <1>5
  <2> QED
    BY <1>1, <1>3, <1>5, <2>1
<1> QED
  BY <1>1, <1>4, <1>5

-----------------------------------------------------------------------------
(***************************************************************************)
(* one_hot_sel.                                                            *)
(***************************************************************************)
\* On input x the deciding bits of the selector are those of mask m.
HasMask(selector, x, r, m) ==
  \A i \in 0..(r - 1) : Bit(selector.den[x], i) = 1 <=> Bit(m, i) = 1

\* An arm per mask, of the first `count` masks.
OneHotArmList(node, selector, r, count, arms) ==
  /\ Len(arms) = count
  /\ \A k \in 1..count :
       /\ \A x : x \in arms[k].when <=> x \in Inputs /\ HasMask(selector, x, r, k - 1)
       /\ arms[k].outcome = OneHotMask(k - 1)
       /\ arms[k].never = FALSE
       /\ arms[k].demand = SelectedCases(node.cases, k - 1)

\* SymbolicOneHotArms is such a list.
LEMMA OneHotArms ==
  ASSUME NEW node, Len(node.cases) \in Nat, NEW selector, selector.width \in Nat,
         NEW count \in Nat
  PROVE  /\ OneHotArmList(node, selector, Relevant(node, selector), count,
                          SymbolicOneHotArms(node, selector, count))
         /\ OneHotCombinations(node, selector) = 2^Relevant(node, selector)
         /\ Relevant(node, selector) \in Nat
<1> DEFINE r == Relevant(node, selector)
           arms == SymbolicOneHotArms(node, selector, count)
           MaskGuard(m) == {x \in Inputs :
             \A i \in 0..(r - 1) : x \in BitSet(selector, i) <=> Bit(m, i) = 1}
<1>1. r \in Nat
  BY LeastOfTwo DEF Relevant
<1>2. arms = [k \in 1..count |-> Arm(OneHotMask(k - 1), MaskGuard(k - 1), FALSE,
                                     SelectedCases(node.cases, k - 1))]
  BY DEF SymbolicOneHotArms, Relevant
<1> HIDE DEF arms, r
<1>3. Len(arms) = count
  BY <1>2
<1>4. \A m : \A x : x \in MaskGuard(m) <=> x \in Inputs /\ HasMask(selector, x, r, m)
  BY DEF HasMask, BitSet
<1> HIDE DEF MaskGuard
<1>5. \A k \in 1..count : /\ arms[k].when = MaskGuard(k - 1)
                          /\ arms[k].outcome = OneHotMask(k - 1)
                          /\ arms[k].never = FALSE
                          /\ arms[k].demand = SelectedCases(node.cases, k - 1)
  BY <1>2 DEF Arm
<1>6. OneHotArmList(node, selector, r, count, arms)
  BY <1>3, <1>4, <1>5 DEF OneHotArmList
<1>7. OneHotCombinations(node, selector) = 2^r
  BY DEF OneHotCombinations, Relevant, r
<1> QED
  BY <1>1, <1>6, <1>7 DEF arms, r

\* Masks are numbers: those with the same deciding bits are the same.
LEMMA MasksDiffer ==
  ASSUME NEW selector, NEW x, NEW r \in Nat,
         NEW m \in 0..(2^r - 1), NEW n \in 0..(2^r - 1),
         HasMask(selector, x, r, m), HasMask(selector, x, r, n)
  PROVE  m = n
<1>1. 2^r \in Nat \ {0}
  BY PowerIsPositive
<1>2. m \in Nat /\ n \in Nat
  BY <1>1
<1>3. \A k \in Nat : \A i \in Nat : (k \div 2^i) % 2 \in 0..1
  BY PowerIsPositive, Division
<1>4. ASSUME NEW i \in 0..(r - 1) PROVE (m \div 2^i) % 2 = (n \div 2^i) % 2
  <2>1. Bit(m, i) = 1 <=> Bit(n, i) = 1
    BY DEF HasMask
  <2>2. Bit(m, i) \in 0..1 /\ Bit(n, i) \in 0..1
    BY <1>2, <1>3 DEF Bit
  <2> QED
    BY <2>1, <2>2 DEF Bit
<1> QED
  BY <1>4, BitsIdentify

\* Every selector value has a mask: its low bits.
LEMMA MaskExists ==
  ASSUME NEW selector, NEW x, selector.den[x] \in Nat, NEW r \in Nat
  PROVE  \E m \in 0..(2^r - 1) : HasMask(selector, x, r, m)
<1> DEFINE m == selector.den[x] % 2^r
<1>1. m \in 0..(2^r - 1) /\ \A i \in 0..(r - 1) : Bit(m, i) = Bit(selector.den[x], i)
  BY LowBitsAgree DEF Bit
<1> QED
  BY <1>1 DEF HasMask

(***************************************************************************)
(* The first masks of a `one_hot_sel` are disjoint and differ in their     *)
(* outcomes, however many of them the budget leaves; all of them partition *)
(* the inputs.                                                             *)
(***************************************************************************)
THEOREM OneHotArmsPartition ==
  ASSUME NEW node, Len(node.cases) \in Nat, NEW selector, selector.width \in Nat,
         \A x \in Inputs : selector.den[x] \in Nat,
         NEW count \in 0..OneHotCombinations(node, selector)
  PROVE  /\ ArmsAreApart(SymbolicOneHotArms(node, selector, count))
         /\ count = OneHotCombinations(node, selector) =>
              ArmsPartition(SymbolicOneHotArms(node, selector, count))
<1>0. Relevant(node, selector) \in Nat /\ OneHotCombinations(node, selector) \in Nat
  BY OneHotArms, PowerIsPositive, LeastOfTwo DEF Relevant, OneHotCombinations
<1> SUFFICES ASSUME NEW arms, NEW r \in Nat, count \in 0..2^r, count \in Nat,
                    OneHotArmList(node, selector, r, count, arms)
             PROVE  ArmsAreApart(arms) /\ (count = 2^r => ArmsPartition(arms))
  BY <1>0, OneHotArms
<1>1. /\ Len(arms) = count
      /\ \A k \in 1..count :
           /\ \A x : x \in arms[k].when <=> x \in Inputs /\ HasMask(selector, x, r, k - 1)
           /\ arms[k].outcome = OneHotMask(k - 1)
           /\ arms[k].never = FALSE
  BY DEF OneHotArmList
<1>2. 2^r \in Nat \ {0}
  BY PowerIsPositive
<1>3. \A k \in 1..count : k - 1 \in 0..(2^r - 1)
  BY <1>2
<1>4. \A k \in 1..Len(arms) : arms[k].when \subseteq Inputs /\ ~arms[k].never
  BY <1>1
<1>5. ASSUME NEW j \in 1..Len(arms), NEW k \in 1..Len(arms), j # k
      PROVE  arms[j].when \cap arms[k].when = {} /\ arms[j].outcome # arms[k].outcome
  <2>1. j \in 1..count /\ k \in 1..count /\ j - 1 # k - 1
    BY <1>1, <1>5
  <2>2. \A x : ~(HasMask(selector, x, r, j - 1) /\ HasMask(selector, x, r, k - 1))
    BY <1>3, <2>1, MasksDiffer
  <2>3. arms[j].when \cap arms[k].when = {}
    BY <1>1, <2>1, <2>2
  <2>4. OneHotMask(j - 1) # OneHotMask(k - 1)
    BY <2>1 DEF OneHotMask
  <2> QED
    BY <1>1, <2>1, <2>3, <2>4
<1>6. ASSUME count = 2^r, NEW x \in Inputs PROVE \E k \in 1..Len(arms) : x \in arms[k].when
  <2>1. PICK m \in 0..(2^r - 1) : HasMask(selector, x, r, m)
    BY MaskExists
  <2>2. m + 1 \in 1..count /\ (m + 1) - 1 = m
    BY <1>2, <1>6
  <2> QED
    BY <1>1, <2>1, <2>2
<1> QED
  BY <1>4, <1>5, <1>6 DEF ArmsPartition, ArmsAreApart

================================================================================
