-------------------------- MODULE EnumerationProofs --------------------------
(***************************************************************************)
(* First the evaluator: symbolic enumeration is sound for every program,   *)
(* request and budget.  The candidates returned say of every input under   *)
(* their guards what evaluating the program on that input says, and a      *)
(* request fails only for what some candidate demands.                     *)
(*                                                                         *)
(* Then an enumeration keeps its promise, for every result limit and every *)
(* failure of the solver: the evaluator and the pruning, composed as       *)
(* enumerate_parsed composes them, implement CanonicalEnumeration.         *)
(*                                                                         *)
(* The argument for the second: the candidates handed over are a workload  *)
(* that the pruning accepts, with different traces, so that its invariant  *)
(* holds from there on; each of them means what evaluating the program     *)
(* means, and has every input that takes its selections; hence a result is *)
(* a whole class, and a complete answer, of candidates that cover the      *)
(* domain, has every class.                                                *)
(***************************************************************************)
EXTENDS Enumeration, EnumeratorProofs

(***************************************************************************)
(* Arms: on every input of its condition an arm has the outcome that the   *)
(* selector's number selects there, and demands what that selects.         *)
(***************************************************************************)
Chosen(n, number, arm) ==
  /\ arm.outcome = Selected(n, number).outcome
  /\ Elements(arm.demand) = Selected(n, number).cases

\* A demand of one node.
LEMMA OneElement == \A ref : Elements(<<ref>>) = {ref}
BY DEF Elements

\* A `sel` takes the case its selector numbers, or what stands for the others.
LEMMA SelChosen ==
  ASSUME NEW n, n.kind = "sel", NEW number
  PROVE  Chosen(n, number, ConcreteSel(n, number))
<1>1. CASE number < Len(n.cases)
  <2>1. ConcreteSel(n, number) = [outcome |-> Case(number), demand |-> <<n.cases[number + 1]>>]
    BY <1>1 DEF ConcreteSel
  <2>2. Selected(n, number) = [outcome |-> Case(number), cases |-> {n.cases[number + 1]}]
    BY <1>1 DEF Selected, NumberedCase, Taking
  <2> QED
    BY <2>1, <2>2, OneElement DEF Chosen, Taking
<1>2. CASE ~(number < Len(n.cases))
  <2>1. ConcreteSel(n, number) = [outcome |-> Default, demand |-> <<Fallback(n)>>]
    BY <1>2 DEF ConcreteSel
  <2>2. Selected(n, number) = [outcome |-> Default, cases |-> {Fallback(n)}]
    BY <1>2 DEF Selected, NumberedCase, Taking, Fallback
  <2> QED
    BY <2>1, <2>2, OneElement DEF Chosen, Taking
<1> QED
  BY <1>1, <1>2

\* A `priority_sel` takes the case of the first bit that is set and has one.
LEMMA PriorityChosen ==
  ASSUME NEW n, n.kind = "priority_sel", Len(n.cases) \in Nat,
         NEW width \in Nat, NEW number \in Nat, number < 2^width
  PROVE  Chosen(n, number, ConcretePriority(n, width, number))
<1> DEFINE count == Len(n.cases)
           set == SetCases(n, number)
           bits == {i \in 0..(count - 1) : i < width /\ Bit(number, i) = 1}
           arm == ConcretePriority(n, width, number)
<1>1. \A i \in Nat : Bit(number, i) = 1 => i < width
  <2>1. \A i \in Nat : i >= width => Bit(number, i) = 0
    BY HighBitsAreClear
  <2> QED
    BY <2>1
<1>2. \A i \in Nat : i \in bits <=> i + 1 \in set
  <2>1. \A i \in Nat : (i + 1) - 1 = i /\ (i \in 0..(count - 1) <=> i + 1 \in 1..count)
    OBVIOUS
  <2> QED
    BY <1>1, <2>1 DEF SetCases
<1>3. bits \subseteq Nat /\ set \subseteq Nat /\ \A k \in set : k - 1 \in Nat /\ (k - 1) + 1 = k
  BY DEF SetCases
<1>4. arm = IF bits = {} THEN [outcome |-> Default, demand |-> <<n.default>>]
            ELSE [outcome |-> Case(Min(bits)), demand |-> <<n.cases[Min(bits) + 1]>>]
  BY DEF ConcretePriority
<1>5. Selected(n, number) = FirstCase(n, number)
  BY DEF Selected
<1> HIDE DEF bits, set, arm
<1>6. CASE bits = {}
  <2>1. set = {}
    BY <1>2, <1>3, <1>6
  <2>2. Selected(n, number) = Taking(Default, {n.default})
    BY <1>5, <2>1 DEF FirstCase, set
  <2> QED
    BY <1>4, <1>6, <2>2, OneElement DEF Chosen, Taking, arm
<1>7. CASE bits # {}
  <2>1. Min(bits) \in bits /\ \A i \in bits : Min(bits) <= i
    BY <1>3, <1>7, LeastElement
  <2>2. Min(bits) + 1 \in set
    BY <1>2, <1>3, <2>1
  <2>3. Min(set) \in set /\ \A k \in set : Min(set) <= k
    BY <1>3, <2>2, LeastElement
  <2>4. Min(set) - 1 \in bits
    BY <1>2, <1>3, <2>3
  <2>5. Min(set) <= Min(bits) + 1 /\ Min(bits) <= Min(set) - 1
    BY <2>1, <2>2, <2>3, <2>4
  <2>6. Min(bits) \in Nat /\ Min(set) \in Nat
    BY <1>3, <2>1, <2>3
  <2>7. Min(set) = Min(bits) + 1 /\ Min(set) - 1 = Min(bits)
    BY <2>5, <2>6
  <2>8. Selected(n, number) = Taking(Case(Min(set) - 1), {n.cases[Min(set)]})
    BY <1>5, <2>2 DEF FirstCase, set
  <2> QED
    BY <1>4, <1>7, <2>7, <2>8, OneElement DEF Chosen, Taking, arm
<1> QED
  BY <1>6, <1>7 DEF arm

\* A `one_hot_sel` takes the mask of the bits that are set and have a case.
LEMMA OneHotChosen ==
  ASSUME NEW n, n.kind = "one_hot_sel", NEW S, n.cases \in Seq(S),
         NEW width \in Nat, NEW number \in Nat, number < 2^width,
         NEW r, r = Min({width, Len(n.cases)}), NEW mask \in Nat, mask < 2^r,
         \A i \in 0..(r - 1) : Bit(number, i) = 1 <=> Bit(mask, i) = 1,
         NEW arm, arm.outcome = OneHotMask(mask), arm.demand = SelectedCases(n.cases, mask)
  PROVE  Chosen(n, number, arm)
<1> DEFINE count == Len(n.cases)
           set == SetCases(n, number)
           bits == {k - 1 : k \in set}
<1>1. count \in Nat
  BY SeqIsList, ListElements
<1>2. r \in Nat /\ r <= width /\ r <= count /\ (r = width \/ r = count)
  <2>1. {width, Len(n.cases)} \subseteq Nat /\ {width, Len(n.cases)} # {}
    BY <1>1
  <2>2. Min({width, Len(n.cases)}) \in {width, Len(n.cases)}
    BY <2>1, LeastElement
  <2> QED
    BY <1>1, <2>2, LeastOfTwo
<1> HIDE DEF count
<1>3. \A i \in Nat : i < count => (Bit(number, i) = 1 <=> i < r /\ Bit(mask, i) = 1)
  <2>1. \A i \in Nat : i >= width => Bit(number, i) = 0
    BY HighBitsAreClear
  <2>2. \A i \in Nat : i < r => (Bit(number, i) = 1 <=> Bit(mask, i) = 1)
    <3>1. \A i \in Nat : i < r => i \in 0..(r - 1)
      BY ONLY <1>2
    <3> QED
      BY <3>1
  <2>3. \A i \in Nat : i < count /\ ~(i < r) => i >= width
    BY <1>1, <1>2
  <2>4. \A i \in Nat : i < count /\ ~(i < r) => Bit(number, i) # 1
    BY ONLY <2>1, <2>3
  <2> QED
    BY ONLY <2>2, <2>4
<1>4. \A i \in Nat : Bit(mask, i) = 1 => i < r
  <2>1. \A i \in Nat : i >= r => Bit(mask, i) = 0
    BY <1>2, HighBitsAreClear
  <2> QED
    BY ONLY <1>2, <2>1
<1>5. \A i \in Nat : i < count => (Bit(number, i) = 1 <=> Bit(mask, i) = 1)
  BY <1>3, <1>4
<1>6. set = {k \in 1..count : Bit(mask, k - 1) = 1}
  <2>1. \A k \in 1..count : k - 1 \in Nat /\ k - 1 < count
    BY <1>1
  <2> QED
    BY <1>5, <2>1 DEF SetCases, count
<1>7. bits \subseteq Nat /\ \A i \in Nat : i \in bits <=> i < r /\ Bit(mask, i) = 1
  <2>1. \A i \in Nat : i < r => i + 1 \in 1..count /\ (i + 1) - 1 = i
    BY <1>1, <1>2
  <2>2. \A k \in 1..count : k - 1 \in Nat
    BY <1>1
  <2> HIDE DEF set
  <2> QED
    BY <1>4, <1>6, <2>1, <2>2
<1>8. FromBits(bits) = mask
  <2> HIDE DEF bits
  <2> QED
    BY <1>2, <1>7, NumberOfBits
<1>9. Selected(n, number) = Taking(OneHotMask(mask), {n.cases[k] : k \in set})
  BY <1>8 DEF Selected, AllSetCases
<1>10. Elements(arm.demand) = {n.cases[k] : k \in set}
  <2>1. Elements(arm.demand) = {n.cases[k] : k \in {k \in 1..count : Bit(mask, k - 1) = 1}}
    <3> DEFINE demand == arm.demand
    <3>1. DemandsMask(n.cases, mask, demand)
      BY SelectedCasesAreCases
    <3> HIDE DEF demand
    <3>2. \A k \in 1..Len(demand) : \E i \in 1..count :
            Bit(mask, i - 1) = 1 /\ demand[k] = n.cases[i]
      BY ONLY <3>1 DEF DemandsMask, count
    <3>3. \A i \in 1..count : Bit(mask, i - 1) = 1 =>
            \E k \in 1..Len(demand) : demand[k] = n.cases[i]
      BY ONLY <3>1 DEF DemandsMask, count
    <3>4. \A c \in Elements(demand) : c \in {n.cases[k] : k \in {k \in 1..count : Bit(mask, k - 1) = 1}}
      BY ONLY <3>2 DEF Elements
    <3>5. \A c \in {n.cases[k] : k \in {k \in 1..count : Bit(mask, k - 1) = 1}} : c \in Elements(demand)
      BY ONLY <3>3 DEF Elements
    <3> QED
      BY <3>4, <3>5 DEF demand
  <2> HIDE DEF set
  <2> QED
    BY <1>6, <2>1
<1> HIDE DEF set
<1> QED
  BY <1>9, <1>10 DEF Chosen, Taking

\* A constant selector has the same number on every input.
LEMMA ConcreteArmChosen ==
  ASSUME NEW n, NEW S, SelectionOK(n, S), NEW value \in Values, IsConcrete(value),
         NEW x \in Inputs
  PROVE  Chosen(n, value.den[x], ConcreteArm(n, value))
<1>1. Len(n.cases) \in Nat /\ n.cases \in Seq(S)
  BY SeqIsList, ListElements DEF SelectionOK
<1> DEFINE number == value.den[x]
<1>2. value.width \in Nat /\ number \in Nat /\ number < 2^value.width
  BY ValueFacts
<1>3. ConcreteValue(value) = number
  <2>1. CASE value.width = 0
    <3>1. number < 1
      BY <1>2, <2>1
    <3>2. number = 0
      BY <1>2, <3>1
    <3> QED
      BY <2>1, <3>2 DEF ConcreteValue
  <2>2. CASE value.width # 0
    <3>1. PICK y \in Inputs : y = CHOOSE z \in Inputs : TRUE
      BY InputsAssumption
    <3>2. value.den[y] = number
      BY <2>2, ValueFacts DEF IsConcrete
    <3> QED
      BY <2>2, <3>1, <3>2 DEF ConcreteValue
  <2> QED
    BY <2>1, <2>2
<1> HIDE DEF number
<1>4. CASE n.kind = "sel"
  <2>1. ConcreteArm(n, value) = ConcreteSel(n, number)
    BY <1>3, <1>4 DEF ConcreteArm
  <2> QED
    BY <1>4, <2>1, SelChosen DEF number
<1>5. CASE n.kind = "priority_sel"
  <2>1. ConcreteArm(n, value) = ConcretePriority(n, value.width, number)
    BY <1>3, <1>5 DEF ConcreteArm
  <2>2. Chosen(n, number, ConcretePriority(n, value.width, number))
    BY <1>1, <1>2, <1>5, PriorityChosen
  <2> QED
    BY <2>1, <2>2 DEF number
<1>6. CASE n.kind = "one_hot_sel"
  <2> DEFINE r == Min({value.width, Len(n.cases)})
             mask == LowBits(number, r)
             arm == ConcreteOneHot(n, value.width, number)
  <2>1. ConcreteArm(n, value) = arm
    BY <1>3, <1>6 DEF ConcreteArm
  <2>2. arm.outcome = OneHotMask(mask) /\ arm.demand = SelectedCases(n.cases, mask)
    BY DEF ConcreteOneHot
  <2>3. r \in Nat
    BY <1>1, <1>2, LeastOfTwo
  <2> HIDE DEF arm
  <2>4. mask \in Nat /\ mask < 2^r /\ \A i \in 0..(r - 1) : Bit(mask, i) = Bit(number, i)
    <3> DEFINE p == 2^r
    <3> HIDE DEF r
    <3>1. /\ number % 2^r \in 0..(2^r - 1)
          /\ \A i \in 0..(r - 1) : ((number % 2^r) \div 2^i) % 2 = (number \div 2^i) % 2
      BY <1>2, <2>3, LowBitsAgree
    <3>2. p \in Nat /\ number % p \in 0..(p - 1)
      BY <2>3, <3>1, PowerIsPositive
    <3> HIDE DEF p
    <3>3. number % p \in Nat /\ number % p < p
      BY <3>2
    <3> QED
      BY <3>1, <3>3 DEF p, LowBits, Bit
  <2>5. \A i \in 0..(r - 1) : Bit(number, i) = 1 <=> Bit(mask, i) = 1
    BY <2>4
  <2>6. r = Min({value.width, Len(n.cases)})
    OBVIOUS
  <2> HIDE DEF r, mask
  <2>7. Chosen(n, number, arm)
    BY ONLY <1>1, <1>2, <1>6, <2>2, <2>4, <2>5, <2>6, OneHotChosen
  <2> QED
    BY <2>1, <2>7 DEF number
<1> QED
  BY <1>4, <1>5, <1>6 DEF SelectionOK, SelectionKinds

\* An arm of a symbolic selector has the outcome of the inputs of its condition.
LEMMA SymbolicArmChosen ==
  ASSUME NEW S, SelectionOK(topNode, S), selector \in Values, WithinBudget,
         NEW k \in 1..Len(SymbolicArms), NEW x, x \in SymbolicArms[k].when
  PROVE  x \in Inputs /\ Chosen(topNode, selector.den[x], SymbolicArms[k])
<1> DEFINE n == topNode
           number == selector.den[x]
           width == selector.width
           arm == SymbolicArms[k]
<1>1. Len(n.cases) \in Nat /\ n.cases \in Seq(S)
  BY SeqIsList, ListElements DEF SelectionOK
<1>2. x \in Inputs
  BY SymbolicArmsFit DEF ArmsAreApart
<1>3. width \in Nat /\ number \in Nat /\ number < 2^width /\ \A y \in Inputs : selector.den[y] \in Nat
  BY <1>2, ValueFacts
<1>4. CASE n.kind = "sel"
  <2>1. SymbolicArms = SymbolicSelArms(n, selector)
    BY <1>4 DEF SymbolicArms
  <2>2. arm.outcome = ConcreteSel(n, number).outcome /\ arm.demand = ConcreteSel(n, number).demand
    <3>1. k \in 1..Len(SymbolicSelArms(n, selector)) /\ x \in SymbolicSelArms(n, selector)[k].when
      BY <2>1
    <3>2. number < 2^selector.width
      BY <1>3
    <3> QED
      BY ONLY <1>1, <1>2, <1>3, <2>1, <3>1, <3>2, ConcreteSelIsAnArm DEF arm, number, n
  <2> QED
    BY <1>2, <1>4, <2>2, SelChosen DEF Chosen
<1>5. CASE n.kind = "priority_sel"
  <2>1. SymbolicArms = SymbolicPriorityArms(n, selector)
    BY <1>5 DEF SymbolicArms
  <2>2. /\ arm.outcome = ConcretePriority(n, width, number).outcome
        /\ arm.demand = ConcretePriority(n, width, number).demand
    BY <1>1, <1>2, <1>3, <2>1, ConcretePriorityIsAnArm
  <2>3. Chosen(n, number, ConcretePriority(n, width, number))
    BY <1>1, <1>3, <1>5, PriorityChosen
  <2> QED
    BY <1>2, <2>2, <2>3 DEF Chosen
<1>6. CASE n.kind = "one_hot_sel"
  <2> DEFINE combinations == OneHotCombinations(n, selector)
             count == Min({combinations, MaskBudget})
             r == Relevant(n, selector)
             mask == k - 1
  <2>1. SymbolicArms = SymbolicOneHotArms(n, selector, count)
    BY <1>6 DEF SymbolicArms
  <2>2. combinations = 2^r /\ r \in Nat /\ combinations \in Nat
    BY <1>1, <1>3, OneHotArms, PowerIsPositive
  <2>3. MaskBudget \in Nat
    BY LimitAssumption DEF MaskBudget, WithinBudget
  <2> HIDE DEF combinations
  <2>4. count \in Nat /\ count <= combinations
    BY <2>2, <2>3, LeastOfTwo
  <2> HIDE DEF count
  <2>5. OneHotArmList(n, selector, r, count, SymbolicArms)
    BY <1>1, <1>3, <2>1, <2>4, OneHotArms
  <2>6. /\ k \in 1..count /\ HasMask(selector, x, r, mask)
        /\ arm.outcome = OneHotMask(mask) /\ arm.demand = SelectedCases(n.cases, mask)
    BY <2>5 DEF OneHotArmList
  <2>7. mask \in Nat /\ mask < 2^r
    BY <2>2, <2>4, <2>6
  <2>8. r = Min({width, Len(n.cases)})
    BY DEF Relevant
  <2>9. \A i \in 0..(r - 1) : Bit(number, i) = 1 <=> Bit(mask, i) = 1
    BY <2>6 DEF HasMask
  <2> HIDE DEF mask, r, n, number, width, arm
  <2>10. Chosen(n, number, arm)
    BY ONLY <1>1, <1>3, <1>6, <2>6, <2>7, <2>8, <2>9, OneHotChosen
  <2> QED
    BY <1>2, <2>10 DEF n, number, arm
<1> QED
  BY <1>4, <1>5, <1>6 DEF SelectionOK, SelectionKinds

\* An input outside the condition of an arm selects another outcome.
LEMMA OthersChooseOtherwise ==
  ASSUME NEW S, SelectionOK(topNode, S), selector \in Values, WithinBudget,
         NEW k \in 1..Len(SymbolicArms), NEW x \in Inputs, x \notin SymbolicArms[k].when
  PROVE  Selected(topNode, selector.den[x]).outcome # SymbolicArms[k].outcome
<1>1. CASE ArmsPartition(SymbolicArms)
  <2>1. PICK j \in 1..Len(SymbolicArms) : x \in SymbolicArms[j].when
    BY <1>1 DEF ArmsPartition
  <2>2. SymbolicArms[j].outcome # SymbolicArms[k].outcome
    BY <1>1, <2>1 DEF ArmsPartition, ArmsAreApart
  <2>3. Selected(topNode, selector.den[x]).outcome = SymbolicArms[j].outcome
    BY <2>1, SymbolicArmChosen DEF Chosen
  <2> QED
    BY <2>2, <2>3
<1>2. CASE ~ArmsPartition(SymbolicArms)
  <2> DEFINE n == topNode
             number == selector.den[x]
             width == selector.width
             combinations == OneHotCombinations(n, selector)
             count == Min({combinations, MaskBudget})
             r == Relevant(n, selector)
  <2>1. n.kind = "one_hot_sel"
    BY <1>2, SymbolicArmsFit DEF TooManyMasks
  <2>2. Len(n.cases) \in Nat /\ n.cases \in Seq(S)
    BY SeqIsList, ListElements DEF SelectionOK
  <2>3. width \in Nat /\ number \in Nat /\ number < 2^width
    BY ValueFacts
  <2>4. SymbolicArms = SymbolicOneHotArms(n, selector, count)
    BY <2>1 DEF SymbolicArms
  <2>5. combinations = 2^r /\ r \in Nat /\ combinations \in Nat
    BY <2>2, <2>3, OneHotArms, PowerIsPositive
  <2>6. MaskBudget \in Nat
    BY LimitAssumption DEF MaskBudget, WithinBudget
  <2> HIDE DEF combinations
  <2>7. count \in Nat
    BY <2>5, <2>6, LeastOfTwo
  <2> HIDE DEF count
  <2>8. OneHotArmList(n, selector, r, count, SymbolicArms)
    BY <2>2, <2>3, <2>4, <2>7, OneHotArms
  <2>9. k \in 1..count /\ ~HasMask(selector, x, r, k - 1) /\ SymbolicArms[k].outcome = OneHotMask(k - 1)
    BY <2>8 DEF OneHotArmList
  <2>10. PICK m \in 0..(2^r - 1) : HasMask(selector, x, r, m)
    BY <2>3, <2>5, MaskExists
  <2>11. m \in Nat /\ m < 2^r /\ m # k - 1
    BY <2>5, <2>9, <2>10
  <2>12. PICK arm : arm = [outcome |-> OneHotMask(m), demand |-> SelectedCases(n.cases, m)]
    OBVIOUS
  <2>13. arm.outcome = OneHotMask(m) /\ arm.demand = SelectedCases(n.cases, m)
    BY <2>12
  <2>14. r = Min({width, Len(n.cases)})
    BY DEF Relevant
  <2>15. \A i \in 0..(r - 1) : Bit(number, i) = 1 <=> Bit(m, i) = 1
    BY <2>10 DEF HasMask
  <2> HIDE DEF r, n, number, width
  <2>16. Chosen(n, number, arm)
    BY ONLY <2>1, <2>2, <2>3, <2>11, <2>13, <2>14, <2>15, OneHotChosen
  <2>17. OneHotMask(m) # OneHotMask(k - 1)
    BY <2>11 DEF OneHotMask
  <2> QED
    BY <2>9, <2>13, <2>16, <2>17 DEF Chosen, n, number
<1> QED
  BY <1>1, <1>2

-----------------------------------------------------------------------------
(***************************************************************************)
(* The disjunction of numbers, one by one.                                 *)
(***************************************************************************)
\* Of no numbers it is zero.
LEMMA OrOfNone == \A width : OrOf(width, {}) = 0
<1>1. FromBits({}) = 0
  <2>1. \A w \in Nat : FromBits({}) \in Nat /\ FromBits({}) < 2^w
    <3>1. \A w \in Nat : {} \subseteq 0..(w - 1)
      OBVIOUS
    <3> QED
      BY <3>1, FromBitsHasBits
  <2> DEFINE n == FromBits({})
             p == 2^0
  <2>2. n \in Nat /\ n < p
    BY <2>1
  <2>3. p = 1
    OBVIOUS
  <2> HIDE DEF n, p
  <2>4. n = 0
    BY <2>2, <2>3
  <2> QED
    BY <2>4 DEF n
<1>2. \A width : {i \in 0..(width - 1) : \E n \in {} : Bit(n, i) = 1} = {}
  OBVIOUS
<1> QED
  BY <1>1, <1>2 DEF OrOf

\* deep_or adds a number.
LEMMA OrOfOneMore ==
  ASSUME NEW a \in Values, NEW b \in Values, NEW x \in Inputs,
         NEW numbers, a.den[x] = OrOf(a.width, numbers)
  PROVE  DeepOr(a, b).den[x] = OrOf(a.width, numbers \cup {b.den[x]})
<1> DEFINE w == a.width
           old == {i \in 0..(w - 1) : \E n \in numbers : Bit(n, i) = 1}
           all == {i \in 0..(w - 1) : \E n \in numbers \cup {b.den[x]} : Bit(n, i) = 1}
           bits == {i \in 0..(w - 1) : Bit(a.den[x], i) = 1 \/ Bit(b.den[x], i) = 1}
<1>1. w \in Nat
  BY ValueFacts
<1>2. \A i \in Nat : Bit(FromBits(old), i) = IF i \in old THEN 1 ELSE 0
  BY <1>1, FromBitsHasBits
<1>3. a.den[x] = FromBits(old)
  BY DEF OrOf
<1>4. \A i \in 0..(w - 1) : Bit(a.den[x], i) = 1 <=> i \in old
  <2> HIDE DEF old, w
  <2> QED
    BY <1>1, <1>2, <1>3
<1>5. bits = all
  BY <1>4
<1>6. DeepOr(a, b).den[x] = FromBits(bits)
  BY DEF DeepOr, Bits
<1>7. OrOf(w, numbers \cup {b.den[x]}) = FromBits(all)
  BY DEF OrOf
<1> HIDE DEF bits, all
<1> QED
  BY <1>5, <1>6, <1>7

-----------------------------------------------------------------------------
(***************************************************************************)
(* Outcomes.                                                               *)
(***************************************************************************)
\* The hypotheses of the theorems: what Apply and Outcomes, parameters, are.
PureNodesAreOps == PureNodesDenote(Values)
OutcomesAreConcrete == \A r \in Requests : \A x \in Inputs : \A site : Evaluates(r, x, site)

\* An outcome of parts: what it has is its own or a part's.
LEMMA OutcomeParts ==
  ASSUME NEW r, NEW x, NEW out, NEW site, out[site] = OutcomeOfParts(r, x, out, site)
  PROVE  /\ out[site].value = NodeValue(r, x, out, site)
         /\ OwnEntries(r, out, site) \subseteq out[site].trace
         /\ \A s \in DemandedSites(r, out, site) : out[s].trace \subseteq out[site].trace
         /\ \A T : /\ OwnEntries(r, out, site) \subseteq T
                   /\ \A s \in DemandedSites(r, out, site) : out[s].trace \subseteq T
                   => out[site].trace \subseteq T
         /\ out[site].ok <=>
              IsSupported(r, site) /\ \A s \in DemandedSites(r, out, site) : out[s].ok
<1> DEFINE D == DemandedSites(r, out, site)
           parts == {out[s] : s \in D}
           own == OwnEntries(r, out, site)
           supported == IsSupported(r, site)
           value == NodeValue(r, x, out, site)
<1>1. out[site] = [value |-> value, trace |-> own \cup UNION {o.trace : o \in parts},
                   ok |-> supported /\ \A o \in parts : o.ok]
  BY DEF OutcomeOfParts
<1>2. out[site].value = value
  BY <1>1
<1>3. out[site].trace = own \cup UNION {o.trace : o \in parts}
  BY <1>1
<1>4. out[site].ok = (supported /\ \A o \in parts : o.ok)
  BY <1>1
<1>5. \A s \in D : out[s] \in parts
  OBVIOUS
<1>6. \A o \in parts : \E s \in D : o = out[s]
  OBVIOUS
<1> HIDE DEF D, own, supported, value
<1>7. \A s \in D : out[s].trace \subseteq out[site].trace
  BY <1>3, <1>5
<1>8. ASSUME NEW T, own \subseteq T, \A s \in D : out[s].trace \subseteq T
      PROVE  out[site].trace \subseteq T
  <2>1. \A o \in parts : o.trace \subseteq T
    BY <1>6, <1>8
  <2> QED
    BY <1>3, <1>8, <2>1
<1>9. out[site].ok <=> supported /\ \A s \in D : out[s].ok
  BY <1>4, <1>5, <1>6
<1> QED
  BY <1>2, <1>3, <1>7, <1>8, <1>9 DEF D, own, supported, value

\* An activation's site is one of the request, with the outcome of its parts.
LEMMA SiteOutcome ==
  ASSUME OutcomesAreConcrete, request \in Requests, NEW frame, NEW node, NodeOK(frame, node),
         ProperFrame(frame), NEW site, site = Site(frame, node)
  PROVE  /\ NodeAt(request, site) = NodeOf(frame, node)
         /\ site[1] = frame.fn /\ site[2] = node /\ site[3] = frame.inv
         /\ \A x \in Inputs : Of(x, site) = OutcomeOfParts(request, x, Outcomes(request, x), site)
<1>1. site[1] = frame.fn /\ site[2] = node /\ site[3] = frame.inv
  BY DEF Site
<1>2. IsSiteOf(request, site)
  BY <1>1 DEF IsSiteOf, NodeOK, ProperFrame
<1>3. NodeAt(request, site) = NodeOf(frame, node)
  BY <1>1 DEF NodeAt, NodeOf
<1> QED
  BY <1>1, <1>2, <1>3 DEF OutcomesAreConcrete, Evaluates, Of

\* What a node demands.
LEMMA NodeDemands ==
  ASSUME NEW r, NEW out, NEW site, NEW nd, nd = NodeAt(r, site)
  PROVE  /\ nd.kind # "param" =>
              \A i \in 1..Len(nd.refs) : RefSite(site, nd.refs[i]) \in DemandedSites(r, out, site)
         /\ nd.kind = "invoke" => CalleeSite(r, site) \in DemandedSites(r, out, site)
         /\ nd.kind = "counted_for" =>
              \A k \in 0..(nd.trip - 1) : IterationSite(r, site, k) \in DemandedSites(r, out, site)
         /\ IsSelection(nd) =>
              \A ref \in Resolution(r, out, site).cases :
                RefSite(site, ref) \in DemandedSites(r, out, site)
         /\ \A s \in DemandedSites(r, out, site) :
              /\ nd.kind # "param"
              /\ \/ \E i \in 1..Len(nd.refs) : s = RefSite(site, nd.refs[i])
                 \/ nd.kind = "invoke" /\ s = CalleeSite(r, site)
                 \/ /\ nd.kind = "counted_for"
                    /\ \E k \in 0..(nd.trip - 1) : s = IterationSite(r, site, k)
                 \/ /\ IsSelection(nd)
                    /\ \E ref \in Resolution(r, out, site).cases : s = RefSite(site, ref)
<1>1. nd.kind # "param" => DemandedSites(r, out, site) =
        OperandSites(r, site) \cup CalledSites(r, site) \cup ChosenCases(r, out, site)
  BY DEF DemandedSites
<1>2. nd.kind = "param" => DemandedSites(r, out, site) = {}
  BY DEF DemandedSites
<1>3. OperandSites(r, site) = {RefSite(site, nd.refs[i]) : i \in 1..Len(nd.refs)}
  BY DEF OperandSites
<1>4. /\ nd.kind = "invoke" => CalledSites(r, site) = {CalleeSite(r, site)}
      /\ nd.kind = "counted_for" =>
           CalledSites(r, site) = {IterationSite(r, site, k) : k \in 0..(nd.trip - 1)}
      /\ nd.kind \notin {"invoke", "counted_for"} => CalledSites(r, site) = {}
  BY DEF CalledSites
<1>5. /\ IsSelection(nd) => ChosenCases(r, out, site) =
                              {RefSite(site, ref) : ref \in Resolution(r, out, site).cases}
      /\ ~IsSelection(nd) => ChosenCases(r, out, site) = {}
  BY DEF ChosenCases
<1>6. IsSelection(nd) => nd.kind # "param"
  BY DEF IsSelection
<1> QED
  BY <1>1, <1>2, <1>3, <1>4, <1>5, <1>6

\* The value of a node of each kind.
LEMMA ValueByKind ==
  ASSUME NEW r, NEW x, NEW out, NEW site, NEW nd, nd = NodeAt(r, site)
  PROVE  /\ nd.kind = "param" => NodeValue(r, x, out, site) = Passed(r, x, out, site[3], nd.index)
         /\ nd.kind = "pure" =>
              NodeValue(r, x, out, site) = Op(nd, OperandValues(r, out, site))
         /\ nd.kind = "invoke" => NodeValue(r, x, out, site) = ValueOf(out, CalleeSite(r, site))
         /\ nd.kind = "counted_for" =>
              NodeValue(r, x, out, site) =
                IF nd.trip = 0 THEN ValueOf(out, RefSite(site, nd.refs[1]))
                ELSE ValueOf(out, IterationSite(r, site, nd.trip - 1))
         /\ IsSelection(nd) => NodeValue(r, x, out, site) = SelectionValue(r, out, site)
<1>1. CASE nd.kind = "param"
  BY <1>1 DEF NodeValue, IsSelection
<1>2. CASE nd.kind = "pure"
  BY <1>2 DEF NodeValue, IsSelection
<1>3. CASE nd.kind = "invoke"
  BY <1>3 DEF NodeValue, IsSelection
<1>4. CASE nd.kind = "counted_for"
  BY <1>4 DEF NodeValue, IsSelection
<1>5. CASE IsSelection(nd)
  BY <1>5 DEF NodeValue, IsSelection
<1> QED
  BY <1>1, <1>2, <1>3, <1>4, <1>5

\* An input that demands a site demands its parts.
LEMMA PartsDemanded ==
  ASSUME OutcomesAreConcrete, request \in Requests, NEW frame, NEW node, NodeOK(frame, node),
         ProperFrame(frame), NEW site, site = Site(frame, node),
         NEW x \in Inputs, Demands(x, site)
  PROVE  /\ \A s \in DemandedSites(request, Outcomes(request, x), site) : Demands(x, s)
         /\ OwnEntries(request, Outcomes(request, x), site) \subseteq Concrete(x).trace
         /\ Concrete(x).ok => IsSupported(request, site)
<1> DEFINE out == Outcomes(request, x)
<1>1. out[site] = OutcomeOfParts(request, x, out, site)
  BY SiteOutcome DEF Of
<1>2. out[site].trace \subseteq Concrete(x).trace /\ (Concrete(x).ok => out[site].ok)
  BY DEF Demands, Of
<1> HIDE DEF out
<1>3. /\ OwnEntries(request, out, site) \subseteq out[site].trace
      /\ \A s \in DemandedSites(request, out, site) : out[s].trace \subseteq out[site].trace
      /\ out[site].ok =>
           IsSupported(request, site) /\ \A s \in DemandedSites(request, out, site) : out[s].ok
  BY <1>1, OutcomeParts
<1>4. \A s \in DemandedSites(request, out, site) :
        out[s].trace \subseteq Concrete(x).trace /\ (Concrete(x).ok => out[s].ok)
  BY <1>2, <1>3
<1> QED
  BY <1>2, <1>3, <1>4 DEF Demands, Of, out

\* A candidate that knows all that a site demands, and has its own selection,
\* has what the site needs.
LEMMA SiteKnown ==
  ASSUME OutcomesAreConcrete, request \in Requests, NEW frame, NEW node, NodeOK(frame, node),
         ProperFrame(frame), NEW site, site = Site(frame, node),
         NEW state, MemoRight(state), NEW x \in state.guard, x \in Inputs,
         \A s \in DemandedSites(request, Outcomes(request, x), site) : Knows(state, s),
         OwnEntries(request, Outcomes(request, x), site) \subseteq Entries(state.trace),
         IsSupported(request, site)
  PROVE  Of(x, site).ok /\ Of(x, site).trace \subseteq Entries(state.trace)
<1> DEFINE out == Outcomes(request, x)
           T == Entries(state.trace)
           D == DemandedSites(request, out, site)
<1>1. out[site] = OutcomeOfParts(request, x, out, site)
  BY SiteOutcome DEF Of
<1>2. \A s \in D : out[s].ok /\ out[s].trace \subseteq T
  BY DEF Knows, MemoRight, Of
<1>3. OwnEntries(request, out, site) \subseteq T
  OBVIOUS
<1> HIDE DEF out, T, D
<1>4. out[site].trace \subseteq T
  BY <1>1, <1>2, <1>3, OutcomeParts DEF D
<1>5. out[site].ok
  BY <1>1, <1>2, OutcomeParts DEF D
<1> QED
  BY <1>4, <1>5 DEF Of, out, T

\* The entry of an invocation context that a node adds.
CallsWith(n, fn, node, key) ==
  \/ n.kind = "invoke" /\ key = InvokeKey(fn, node)
  \/ n.kind = "counted_for" /\ \E k \in 0..(n.trip - 1) : key = IterationKey(fn, node, k)

\* A frame that is entered from a site, and what it is passed.
EnteredFrom(called, site, key) ==
  /\ ProperFrame(called)
  /\ Site(called, request.fns[called.fn].ret) = CalledSite(request, site, key)
  /\ \A x, out, i : Passed(request, x, out, called.inv, i) = PassedBy(request, out, site, key, i)

\* What is called from a node is entered in a context of the request, and is
\* passed what its call site passes.
LEMMA CalledContext ==
  ASSUME request \in Requests, NEW frame, NEW node, NodeOK(frame, node), ProperFrame(frame),
         NEW n, n = NodeOf(frame, node), NEW key, CallsWith(n, frame.fn, node, key),
         NEW called, called.fn = n.callee, called.inv = Append(frame.inv, key)
  PROVE  EnteredFrom(called, Site(frame, node), key)
<1> DEFINE inv == frame.inv
<1>1. key[2] = frame.fn /\ key[3] = node
  BY DEF CallsWith, InvokeKey, IterationKey
<1>2. IsKey(request, key)
  BY <1>1 DEF CallsWith, IsKey, NodeOK, FrameOK, NodeOf, InvokeKey, IterationKey
<1>3. /\ IsList(inv) /\ Len(inv) \in Nat
      /\ Len(called.inv) = Len(inv) + 1 /\ called.inv[Len(inv) + 1] = key
      /\ \A i \in 1..Len(inv) : called.inv[i] = inv[i]
  BY OneMoreFrame, ListElements DEF NodeOK, FrameOK
<1>4. called.inv # <<>>
  BY <1>3
<1>5. CalleeOf(request, key) = n.callee
  BY <1>1 DEF CalleeOf, NodeOf
<1>6. called.fn = FunctionIn(request, called.inv)
  BY <1>3, <1>4, <1>5 DEF FunctionIn
<1>7. frame.fn = FunctionIn(request, inv) /\ IsContext(request, inv)
  BY DEF ProperFrame
<1>8. IsContext(request, called.inv)
  <2> SUFFICES ASSUME NEW i \in 1..(Len(inv) + 1)
               PROVE  /\ IsKey(request, called.inv[i])
                      /\ called.inv[i][2] = IF i = 1 THEN request.top
                                            ELSE CalleeOf(request, called.inv[i - 1])
    BY <1>3 DEF IsContext
  <2>1. CASE i \in 1..Len(inv)
    <3>1. i # 1 => i - 1 \in 1..Len(inv)
      BY <1>3, <2>1
    <3> QED
      BY <1>3, <1>7, <2>1, <3>1 DEF IsContext
  <2>2. CASE i = Len(inv) + 1
    <3>1. key[2] = IF inv = <<>> THEN request.top ELSE CalleeOf(request, inv[Len(inv)])
      BY <1>1, <1>7 DEF FunctionIn
    <3>2. inv = <<>> <=> i = 1
      BY <1>3, <2>2, EmptyList
    <3>3. i # 1 => i - 1 \in 1..Len(inv) /\ i - 1 = Len(inv)
      BY <1>3, <2>2
    <3> QED
      BY <1>2, <1>3, <2>2, <3>1, <3>2, <3>3
  <2> QED
    BY <1>3, <2>1, <2>2
<1>9. Site(called, request.fns[called.fn].ret) = CalledSite(request, Site(frame, node), key)
  BY DEF Site, CalledSite, NodeAt, NodeOf
<1>10. SubSeq(called.inv, 1, Len(called.inv) - 1) = inv
  <2>1. Len(called.inv) - 1 = Len(inv)
    BY <1>3
  <2>2. SubSeq(called.inv, 1, Len(inv)) = [i \in 1..Len(inv) |-> called.inv[i]]
    BY <1>3
  <2> QED
    BY <1>3, <2>1, <2>2, ListElements
<1>11. <<key[2], key[3], SubSeq(called.inv, 1, Len(called.inv) - 1)>> = Site(frame, node)
  BY <1>1, <1>10 DEF Site
<1>12. called.inv[Len(called.inv)] = key
  BY <1>3
<1>13. \A x, out, i : Passed(request, x, out, called.inv, i) =
                      PassedBy(request, out, Site(frame, node), key, i)
  BY <1>4, <1>11, <1>12 DEF Passed
<1> QED
  BY <1>6, <1>8, <1>9, <1>13 DEF ProperFrame, EnteredFrom

-----------------------------------------------------------------------------
(***************************************************************************)
(* Candidates that go on.                                                  *)
(***************************************************************************)
\* Candidate t has what s has, of fewer inputs.
Narrows(s, t) ==
  /\ t.guard \subseteq s.guard
  /\ DOMAIN s.cache \subseteq DOMAIN t.cache
  /\ Entries(s.trace) \subseteq Entries(t.trace)

\* What is said of a candidate's progress stays true of one that narrows it.
LEMMA Narrowed ==
  ASSUME NEW s, NEW t, Narrows(s, t)
  PROVE  /\ \A site : Knows(s, site) => Knows(t, site)
         /\ \A site, value : Has(s, site, value) => Has(t, site, value)
         /\ \A act : Serves(act, s) => Serves(act, t)
<1>1. \A site : Knows(s, site) => Knows(t, site)
  BY DEF Narrows, Knows
<1>2. \A site, value : Has(s, site, value) => Has(t, site, value)
  BY <1>1 DEF Narrows, Has
<1>3. ASSUME NEW act, Serves(act, s)
      PROVE  Serves(act, t)
  <2>1. \A x : Resolved(x, act, s.trace) => Resolved(x, act, t.trace)
    BY DEF Resolved, Narrows
  <2>2. \A x \in t.guard : x \in s.guard
    BY DEF Narrows
  <2> QED
    BY <1>3, <2>1, <2>2 DEF Serves
<1> QED
  BY <1>1, <1>2, <1>3

LEMMA ProgressNarrowed ==
  ASSUME NEW p, NEW q, Narrows(p.state, q.state), q.values = p.values
  PROVE  /\ \A act : SelectionProgress(act, p) => SelectionProgress(act, q)
         /\ \A act, stage : Progress(act, stage, p) => Progress(act, stage, q)
<1>1. /\ \A site : Knows(p.state, site) => Knows(q.state, site)
      /\ \A site, value : Has(p.state, site, value) => Has(q.state, site, value)
  BY Narrowed
<1>2. \A x \in q.state.guard : x \in p.state.guard
  BY DEF Narrows
<1>3. \A x, act : Resolved(x, act, p.state.trace) => Resolved(x, act, q.state.trace)
  BY DEF Resolved, Narrows
<1>4. ASSUME NEW act, SelectionProgress(act, p)
      PROVE  SelectionProgress(act, q)
  BY <1>1, <1>2, <1>3, <1>4 DEF SelectionProgress
<1>5. \A act, done : LoopProgress(act, done, p) => LoopProgress(act, done, q)
  BY <1>1 DEF LoopProgress
<1>6. \A act, stage : NodeProgress(act, stage, p) => NodeProgress(act, stage, q)
  BY <1>1, <1>4, <1>5 DEF NodeProgress
<1>7. \A act, stage : ArmProgress(act, stage, p) => ArmProgress(act, stage, q)
  BY <1>1, <1>2 DEF ArmProgress
<1> QED
  BY <1>4, <1>6, <1>7 DEF Progress

LEMMA BehindNarrowed ==
  ASSUME NEW s, NEW t, Narrows(s, t), NEW act, Behind(act, s)
  PROVE  Behind(act, t)
<1>1. Partial(s, act.current).state = s /\ Partial(t, act.current).state = t
      /\ Partial(s, act.current).values = Partial(t, act.current).values
  BY DEF Partial
<1> QED
  BY <1>1, Narrowed, ProgressNarrowed DEF Behind

\* A candidate that remembers the value a site has.
LEMMA RememberRight ==
  ASSUME NEW state, StateOK(state), StateRight(state), NEW site, NEW value,
         \A x \in state.guard : /\ Of(x, site).ok /\ value.den[x] = Of(x, site).value
                                /\ Of(x, site).trace \subseteq Entries(state.trace),
         NEW new, new = Remember(state, site, value)
  PROVE  StateRight(new) /\ Narrows(state, new) /\ Has(new, site, value)
<1>1. /\ new.guard = state.guard /\ new.trace = state.trace
      /\ DOMAIN state.cache \subseteq DOMAIN new.cache /\ site \in DOMAIN new.cache
  BY RememberedState
<1>2. new.cache = Inserted(state.cache, site, value)
  BY DEF Remember, StateOK
<1>3. /\ DOMAIN new.cache = DOMAIN state.cache \cup {site} /\ new.cache[site] = value
      /\ \A s \in DOMAIN state.cache : s # site => new.cache[s] = state.cache[s]
  <2>1. PICK f : f = state.cache
    OBVIOUS
  <2>2. PICK g : g = Inserted(f, site, value)
    OBVIOUS
  <2>3. /\ DOMAIN g = DOMAIN f \cup {site} /\ g[site] = value
        /\ \A s \in DOMAIN f : s # site => g[s] = f[s]
    BY <2>2 DEF Inserted
  <2> QED
    BY <1>2, <2>1, <2>2, <2>3
<1>4. MemoRight(new)
  BY <1>1, <1>3 DEF MemoRight, StateRight
<1>5. TraceRight(new)
  BY <1>1 DEF TraceRight, StateRight
<1>6. OthersLeft(new)
  BY <1>1 DEF OthersLeft, StateRight
<1> QED
  BY <1>1, <1>4, <1>5, <1>6 DEF StateRight, Narrows, Has, Knows

\* The entries of a trace with one more.
LEMMA OneMoreOutcome ==
  ASSUME NEW trace, NEW site, site \notin DOMAIN trace, NEW outcome
  PROVE  Entries(Inserted(trace, site, outcome)) = Entries(trace) \cup {<<site, outcome>>}
<1>1. PICK new : new = Inserted(trace, site, outcome)
  OBVIOUS
<1>2. /\ DOMAIN new = DOMAIN trace \cup {site} /\ new[site] = outcome
      /\ \A s \in DOMAIN trace : new[s] = trace[s]
  BY <1>1 DEF Inserted
<1>3. Entries(new) = Entries(trace) \cup {<<site, outcome>>}
  BY <1>2 DEF Entries
<1> QED
  BY <1>1, <1>3

\* A candidate that records an outcome that every one of its inputs demands,
\* and leaves the inputs that demand another.
LEMMA RecordRight ==
  ASSUME NEW state, StateRight(state), NEW site, site \notin DOMAIN state.trace, NEW outcome,
         NEW new, new.guard \subseteq state.guard, new.cache = state.cache,
         new.trace = Inserted(state.trace, site, outcome),
         \A x \in new.guard : <<site, outcome>> \in Concrete(x).trace,
         \A x \in state.guard \ new.guard :
           \E other : other # outcome /\ <<site, other>> \in Concrete(x).trace
  PROVE  StateRight(new) /\ Narrows(state, new) /\ <<site, outcome>> \in Entries(new.trace)
<1>1. Entries(new.trace) = Entries(state.trace) \cup {<<site, outcome>>}
  BY OneMoreOutcome
<1>2. MemoRight(new)
  BY <1>1 DEF StateRight, MemoRight
<1>3. TraceRight(new)
  BY <1>1 DEF StateRight, TraceRight
<1>4. OthersLeft(new)
  <2>1. PICK f, g : f = state.trace /\ g = new.trace
    OBVIOUS
  <2>2. /\ DOMAIN g = DOMAIN f \cup {site} /\ g[site] = outcome
        /\ \A s \in DOMAIN f : g[s] = f[s]
    BY <2>1 DEF Inserted
  <2>3. ASSUME NEW x \in request.domain \ new.guard
        PROVE  \E entry \in Concrete(x).trace : entry[1] \in DOMAIN g /\ g[entry[1]] # entry[2]
    <3>1. CASE x \in state.guard
      <4>1. PICK other : other # outcome /\ <<site, other>> \in Concrete(x).trace
        BY <2>3, <3>1
      <4>2. <<site, other>>[1] = site /\ <<site, other>>[2] = other
        OBVIOUS
      <4> QED
        BY <2>2, <4>1, <4>2
    <3>2. CASE x \notin state.guard
      <4>1. PICK entry \in Concrete(x).trace : entry[1] \in DOMAIN f /\ f[entry[1]] # entry[2]
        BY <2>1, <2>3, <3>2 DEF StateRight, OthersLeft
      <4> QED
        BY <2>2, <4>1
    <3> QED
      BY <3>1, <3>2
  <2> QED
    BY <2>1, <2>3 DEF OthersLeft
<1> QED
  BY <1>1, <1>2, <1>3, <1>4 DEF StateRight, Narrows

-----------------------------------------------------------------------------
(***************************************************************************)
(* Candidates on a call stack.                                             *)
(***************************************************************************)
\* What is said of a candidate depends on the request and the activation only.
LEMMA SameOutcomes ==
  ASSUME request' = request
  PROVE  /\ \A x, site : Of(x, site)' = Of(x, site)
         /\ \A x : Concrete(x)' = Concrete(x)
         /\ \A x, site : Demands(x, site)' <=> Demands(x, site)
         /\ \A state : StateRight(state)' <=> StateRight(state)
         /\ \A state, site, value : Has(state, site, value)' <=> Has(state, site, value)
         /\ \A frame : ProperFrame(frame)' <=> ProperFrame(frame)
         /\ \A frame, x : FrameRight(frame, x)' <=> FrameRight(frame, x)
<1>1. \A x, site : Of(x, site)' = Of(x, site)
  BY DEF Of
<1>2. \A x : Concrete(x)' = Concrete(x)
  BY DEF Concrete
<1>3. \A x, site : Demands(x, site)' <=> Demands(x, site)
  BY <1>1, <1>2 DEF Demands
<1>4. \A state : StateRight(state)' <=> StateRight(state)
  BY <1>1, <1>2 DEF StateRight, MemoRight, TraceRight, OthersLeft
<1>5. \A state, site, value : Has(state, site, value)' <=> Has(state, site, value)
  BY <1>1 DEF Has
<1>6. \A frame : ProperFrame(frame)' <=> ProperFrame(frame)
  BY DEF ProperFrame
<1>7. \A frame, x : FrameRight(frame, x)' <=> FrameRight(frame, x)
  BY DEF FrameRight
<1> QED
  BY <1>1, <1>2, <1>3, <1>4, <1>5, <1>6, <1>7

LEMMA SameProgress ==
  ASSUME request' = request
  PROVE  /\ \A x, act : Choice(x, act)' = Choice(x, act)
         /\ \A act, state : Serves(act, state)' <=> Serves(act, state)
         /\ \A act, p : SelectionProgress(act, p)' <=> SelectionProgress(act, p)
         /\ \A act, stage, p : Progress(act, stage, p)' <=> Progress(act, stage, p)
<1>1. \A x, act : Choice(x, act)' = Choice(x, act)
  BY DEF Choice
<1>2. \A x, act, trace : Resolved(x, act, trace)' <=> Resolved(x, act, trace)
  BY <1>1 DEF Resolved
<1>3. \A act, state : Serves(act, state)' <=> Serves(act, state)
  BY <1>1, <1>2, SameOutcomes DEF Serves
<1>4. \A act : Callee(act)' = Callee(act) /\ KindOf(act)' = KindOf(act)
  BY DEF Callee, KindOf, NodeOf
<1>5. \A act, k : IterationOf(act, k)' = IterationOf(act, k)
  BY DEF IterationOf
<1>6. \A act, p : SelectionProgress(act, p)' <=> SelectionProgress(act, p)
  BY <1>1, <1>2 DEF SelectionProgress
<1>7. \A act, done, p : LoopProgress(act, done, p)' <=> LoopProgress(act, done, p)
  BY <1>5, SameOutcomes DEF LoopProgress
<1>8. \A act, stage, p : NodeProgress(act, stage, p)' <=> NodeProgress(act, stage, p)
  BY <1>4, <1>6, <1>7, SameOutcomes DEF NodeProgress
<1>9. \A x, act, count : Numbers(x, act, count)' = Numbers(x, act, count)
  BY SameOutcomes DEF Numbers
<1>10. \A act, stage, p : ArmProgress(act, stage, p)' <=> ArmProgress(act, stage, p)
  BY <1>4, <1>9, SameOutcomes, SameRequest DEF ArmProgress
<1>11. \A act, stage, p : Progress(act, stage, p)' <=> Progress(act, stage, p)
  BY <1>8, <1>10 DEF Progress
<1> QED
  BY <1>1, <1>3, <1>6, <1>11

LEMMA SameWaiting ==
  ASSUME request' = request
  PROVE  /\ \A act : SelectorSite(act)' = SelectorSite(act)
         /\ \A act : AwaitedSite(act)' = AwaitedSite(act)
         /\ \A act : Resolving(act)' <=> Resolving(act)
         /\ \A act, state : Behind(act, state)' <=> Behind(act, state)
         /\ \A act, result : Returns(act, result)' <=> Returns(act, result)
         /\ \A act : InductionFits(act)' <=> InductionFits(act)
         /\ \A act, pending : PendingRight(act, pending)' <=> PendingRight(act, pending)
<1>1. \A act : SelectorSite(act)' = SelectorSite(act)
  BY DEF SelectorSite, NodeOf
<1>2. \A act : AwaitedSite(act)' = AwaitedSite(act)
  BY DEF AwaitedSite, Callee, KindOf, NodeOf, IterationOf
<1>3. \A act : Resolving(act)' <=> Resolving(act)
  BY DEF Resolving, KindOf, NodeOf
<1>4. \A act, state : Behind(act, state)' <=> Behind(act, state)
  BY <1>1, <1>3, SameProgress DEF Behind
<1>5. \A act, result : Returns(act, result)' <=> Returns(act, result)
  BY <1>2, <1>3, SameProgress, SameOutcomes DEF Returns
<1>6. \A act : InductionFits(act)' <=> InductionFits(act)
  BY DEF InductionFits, KindOf, NodeOf
<1>7. \A act, pending : PendingRight(act, pending)' <=> PendingRight(act, pending)
  BY <1>1, SameProgress DEF PendingRight, Resolved
<1> QED
  BY <1>1, <1>2, <1>3, <1>4, <1>5, <1>6, <1>7

\* A candidate inside an activation, and in hand above it.
LEMMA WithinParts ==
  /\ \A state : InHandOf(0, state) <=> StateRight(state)
  /\ \A e \in Nat : \A state : e > 0 =>
       /\ Within(e, state) <=> InHandOf(e - 1, state) /\ Serves(ActivationAt(e), state)
       /\ InHandOf(e, state) <=> Within(e, state) /\ Behind(ActivationAt(e), state)
<1>1. \A state : InHandOf(0, state) <=> StateRight(state)
  BY DEF InHandOf, Within
<1>2. ASSUME NEW d \in Nat, NEW state, d > 0
      PROVE  Within(d, state) <=> InHandOf(d - 1, state) /\ Serves(ActivationAt(d), state)
  <2>1. \A c : c \in 1..d <=> c \in 1..(d - 1) \/ c = d
    BY <1>2
  <2>2. d - 1 > 0 => \A c : c \in 1..(d - 1) <=> c \in 1..((d - 1) - 1) \/ c = d - 1
    BY <1>2
  <2>3. ~(d - 1 > 0) => \A c : c \notin 1..(d - 1)
    BY <1>2
  <2> QED
    BY <2>1, <2>2, <2>3 DEF InHandOf, Within
<1>3. \A d \in Nat : \A state : d > 0 =>
        (InHandOf(d, state) <=> Within(d, state) /\ Behind(ActivationAt(d), state))
  BY DEF InHandOf
<1> QED
  BY <1>1, <1>2, <1>3

\* The same after a step, of an activation that is `act` there.
LEMMA WithinNext ==
  ASSUME request' = request, NEW d \in Nat, d > 0, NEW act, ActivationAt(d)' = act
  PROVE  /\ \A state : Within(d, state)' <=> InHandOf(d - 1, state)' /\ Serves(act, state)
         /\ \A state : InHandOf(d, state)' <=> Within(d, state)' /\ Behind(act, state)
<1>1. (/\ \A state : InHandOf(0, state) <=> StateRight(state)
       /\ \A e \in Nat : \A state : e > 0 =>
            /\ Within(e, state) <=> InHandOf(e - 1, state) /\ Serves(ActivationAt(e), state)
            /\ InHandOf(e, state) <=> Within(e, state) /\ Behind(ActivationAt(e), state))'
  BY WithinParts, PTL
<1>2. \A e \in Nat : \A state : e > 0 =>
        /\ Within(e, state)' <=> InHandOf(e - 1, state)' /\ Serves(ActivationAt(e), state)'
        /\ InHandOf(e, state)' <=> Within(e, state)' /\ Behind(ActivationAt(e), state)'
  BY <1>1
<1>3. \A state : /\ Serves(ActivationAt(d), state)' <=> Serves(act, state)
                 /\ Behind(ActivationAt(d), state)' <=> Behind(act, state)
  BY SameProgress, SameWaiting
<1> QED
  BY <1>2, <1>3

\* A candidate that a step passes on inside activations that it keeps.
LEMMA InHandKept ==
  ASSUME request' = request, NEW n \in Nat, KeepsActivations(n)
  PROVE  /\ \A d \in 0..n : \A state : InHandOf(d, state)' <=> InHandOf(d, state)
         /\ \A d \in 1..n : \A state : Within(d, state)' <=> Within(d, state)
<1>1. \A d \in 1..n : ActivationAt(d)' = ActivationAt(d)
  BY DEF KeepsActivations
<1>2. \A d \in 1..n : \A state :
        /\ Serves(ActivationAt(d), state)' <=> Serves(ActivationAt(d), state)
        /\ Behind(ActivationAt(d), state)' <=> Behind(ActivationAt(d), state)
  BY <1>1, SameProgress, SameWaiting
<1>3. \A state : StateRight(state)' <=> StateRight(state)
  BY SameOutcomes
<1>4. ASSUME NEW d \in 0..n, NEW state
      PROVE  Within(d, state)' <=> Within(d, state)
  <2>1. \A c \in 1..d : c \in 1..n
    OBVIOUS
  <2>2. \A c \in 1..(d - 1) : c \in 1..n
    OBVIOUS
  <2> QED
    BY <1>2, <1>3, <2>1, <2>2 DEF Within
<1>5. ASSUME NEW d \in 0..n, NEW state
      PROVE  InHandOf(d, state)' <=> InHandOf(d, state)
  <2>1. d > 0 => d \in 1..n
    OBVIOUS
  <2> QED
    BY <1>2, <1>4, <2>1 DEF InHandOf
<1> QED
  BY <1>4, <1>5

\* A candidate narrowed inside the same activations.
LEMMA InHandNarrowed ==
  ASSUME NEW s, NEW t, Narrows(s, t), StateRight(t), NEW d \in Nat
  PROVE  /\ Within(d, s) => Within(d, t)
         /\ InHandOf(d, s) => InHandOf(d, t)
BY Narrowed, BehindNarrowed DEF Within, InHandOf

\* What an activation of the next state has to be.
RightAs(d, act) ==
  /\ ProperFrame(act.frame)
  /\ InductionFits(act)
  /\ \A i \in 1..Len(act.todo) :
       Within(d, act.todo[i].state)' /\ Progress(act, act.stage - 1, act.todo[i])
  /\ \A i \in 1..Len(act.done) :
       Within(d, act.done[i].state)' /\ Progress(act, act.stage, act.done[i])
  /\ \A i \in 1..Len(act.arms) :
       Within(d, PendingAt(act, act.arms[i]))' /\ PendingRight(act, act.arms[i])

LEMMA RightNext ==
  ASSUME request' = request, NEW d, NEW act, ActivationAt(d)' = act, RightAs(d, act)
  PROVE  ActivationRight(d)'
<1>1. \A pending : PendingAt(ActivationAt(d), pending)' = PendingAt(act, pending)
  BY DEF PendingAt, SiteOf
<1>2. /\ \A stage, p : Progress(ActivationAt(d), stage, p)' <=> Progress(act, stage, p)
      /\ \A pending : PendingRight(ActivationAt(d), pending)' <=> PendingRight(act, pending)
      /\ InductionFits(ActivationAt(d))' <=> InductionFits(act)
  BY SameProgress, SameWaiting
<1>3. ProperFrame(ActivationAt(d).frame)' <=> ProperFrame(act.frame)
  BY SameOutcomes
<1> QED
  BY <1>1, <1>2, <1>3 DEF ActivationRight, RightAs

\* Activations that a step keeps stay right.
LEMMA KeptRight ==
  ASSUME request' = request, NEW n \in Nat, KeepsActivations(n),
         \A d \in 1..n : ActivationRight(d)
  PROVE  \A d \in 1..n : ActivationRight(d)'
<1> SUFFICES ASSUME NEW d \in 1..n PROVE ActivationRight(d)'
  OBVIOUS
<1> DEFINE act == ActivationAt(d)
<1>1. ActivationAt(d)' = act
  BY DEF KeepsActivations
<1>2. ActivationRight(d)
  OBVIOUS
<1>3. \A state : Within(d, state)' <=> Within(d, state)
  BY InHandKept
<1>4. PICK a : a = act
  OBVIOUS
<1>5. RightAs(d, a)
  BY <1>2, <1>3, <1>4 DEF ActivationRight, RightAs
<1> QED
  BY <1>1, <1>4, <1>5, RightNext

\* How an activation is linked to the one below it.
LinkAs(d, act, below) ==
  IF d = 1 THEN ~act.arm /\ SiteOf(act) = ResultSite(request)
  ELSE IF act.arm THEN act.frame = below.frame /\ Resolving(below)
  ELSE ~Resolving(below) /\ SiteOf(act) = AwaitedSite(below)

LinkedAt(d) == LinkAs(d, ActivationAt(d), ActivationAt(d - 1))

LEMMA LinkedParts == Linked <=> \A d \in 1..Depth : LinkedAt(d)
  BY DEF Linked, LinkedAt, LinkAs, Depth

LEMMA LinkedNext ==
  ASSUME request' = request, NEW d, NEW act, ActivationAt(d)' = act,
         NEW below, d # 1 => ActivationAt(d - 1)' = below, LinkAs(d, act, below)
  PROVE  LinkedAt(d)'
<1>1. /\ Resolving(below)' <=> Resolving(below)
      /\ AwaitedSite(below)' = AwaitedSite(below)
  BY SameWaiting
<1>2. SiteOf(ActivationAt(d))' = SiteOf(act)
  BY DEF SiteOf
<1>3. d # 1 => /\ Resolving(ActivationAt(d - 1))' <=> Resolving(below)
               /\ AwaitedSite(ActivationAt(d - 1))' = AwaitedSite(below)
  BY <1>1, SameWaiting
<1> QED
  BY <1>2, <1>3 DEF LinkedAt, LinkAs

LEMMA KeptLinked ==
  ASSUME request' = request, NEW n \in Nat, KeepsActivations(n), \A d \in 1..n : LinkedAt(d)
  PROVE  \A d \in 1..n : LinkedAt(d)'
<1> SUFFICES ASSUME NEW d \in 1..n PROVE LinkedAt(d)'
  OBVIOUS
<1>1. ActivationAt(d)' = ActivationAt(d)
  BY DEF KeepsActivations
<1>2. d # 1 => ActivationAt(d - 1)' = ActivationAt(d - 1)
  BY DEF KeepsActivations
<1>3. PICK a, b : a = ActivationAt(d) /\ b = ActivationAt(d - 1)
  OBVIOUS
<1>4. LinkAs(d, a, b)
  BY <1>3 DEF LinkedAt
<1> QED
  BY <1>1, <1>2, <1>3, <1>4, LinkedNext

\* The invariant, part by part.
LEMMA MeaningParts ==
  EvaluatorMeaning <=>
    /\ \A d \in 1..Depth : ActivationRight(d) /\ LinkedAt(d)
    /\ ctl.at = "call" => CallRight
    /\ ctl.at = "return" => ReturnRight
    /\ FailuresAreDemanded
BY LinkedParts DEF EvaluatorMeaning, Depth

LEMMA MeaningNext ==
  ASSUME \A d \in 1..Depth' : ActivationRight(d)' /\ LinkedAt(d)',
         ctl'.at = "call" => CallRight', ctl'.at = "return" => ReturnRight',
         FailuresAreDemanded'
  PROVE  EvaluatorMeaning'
<1>1. (EvaluatorMeaning <=>
         /\ \A d \in 1..Depth : ActivationRight(d) /\ LinkedAt(d)
         /\ ctl.at = "call" => CallRight
         /\ ctl.at = "return" => ReturnRight
         /\ FailuresAreDemanded)'
  BY MeaningParts, PTL
<1> QED
  BY <1>1

\* Inputs that a well-formed candidate has are inputs.
LEMMA GuardIsOfInputs ==
  ASSUME request \in Requests, NEW state, StateOK(state)
  PROVE  \A x \in state.guard : x \in Inputs
BY RequestsAssumption DEF StateOK, WellFormed

-----------------------------------------------------------------------------
(***************************************************************************)
(* Calls answered and entered.                                             *)
(***************************************************************************)
\* A call is answered with the value of the site called.
LEMMA AnswerRight ==
  ASSUME Typed, request' = request, EvaluatorMeaning, ctl.at = "call", stack' = stack,
         NEW state, NEW value, InHandOf(Depth, state), Has(state, calledSite, value),
         ctl' = Return(<<Evaluated(state, value)>>)
  PROVE  EvaluatorMeaning'
<1>1. Depth \in Nat /\ IsList(stack)
  BY ListElements DEF Typed, Depth
<1>2. Depth' = Depth /\ KeepsActivations(Depth) /\ top' = top
  BY DEF Depth, KeepsActivations, ActivationAt, top
<1>3. /\ \A d \in 1..Depth : ActivationRight(d) /\ LinkedAt(d)
      /\ CallRight
  BY MeaningParts
<1>4. \A d \in 1..Depth' : ActivationRight(d)' /\ LinkedAt(d)'
  BY <1>1, <1>2, <1>3, KeptRight, KeptLinked
<1>5. ctl'.at = "return" /\ Len(ctl'.results) = 1 /\ ctl'.results[1] = Evaluated(state, value)
  BY DEF Return
<1>6. Evaluated(state, value).state = state /\ Evaluated(state, value).value = value
  BY DEF Evaluated
<1>7. InHandOf(Depth, state)'
  BY <1>1, <1>2, InHandKept
<1>8. CASE stack = <<>>
  <2>1. Has(state, ResultSite(request), value)
    BY <1>3, <1>8 DEF CallRight
  <2>2. Has(state, ResultSite(request), value)'
    BY <2>1, SameOutcomes
  <2>3. ReturnRight'
    BY <1>2, <1>5, <1>6, <1>7, <1>8, <2>2 DEF ReturnRight, Depth
  <2> QED
    BY <1>4, <1>5, <2>3, MeaningNext DEF FailuresAreDemanded, Failed
<1>9. CASE stack # <<>>
  <2>1. Returns(top, Evaluated(state, value))
    BY <1>3, <1>6, <1>9 DEF CallRight, Returns
  <2>2. Returns(top, Evaluated(state, value))'
    BY <1>2, <2>1, SameWaiting
  <2>3. ReturnRight'
    BY <1>2, <1>5, <1>6, <1>7, <1>9, <2>2 DEF ReturnRight, Depth
  <2> QED
    BY <1>4, <1>5, <2>3, MeaningNext DEF FailuresAreDemanded, Failed
<1> QED
  BY <1>8, <1>9

\* The memo table has the values of its sites.
LEMMA HitRight ==
  ASSUME Typed, EvaluatorMeaning, CacheHit
  PROVE  EvaluatorMeaning'
<1>1. InHandOf(Depth, ctl.state)
  BY MeaningParts DEF CacheHit, CallRight, Depth
<1>2. MemoRight(ctl.state)
  BY <1>1 DEF InHandOf, Within, StateRight
<1>3. Has(ctl.state, calledSite, ctl.state.cache[calledSite])
  BY <1>2 DEF CacheHit, MemoRight, Has, Knows
<1>4. PICK state, value : state = ctl.state /\ value = ctl.state.cache[calledSite]
  OBVIOUS
<1> QED
  BY <1>1, <1>3, <1>4, AnswerRight DEF CacheHit

\* A parameter has the argument that its function was passed.
LEMMA ParamRight ==
  ASSUME OutcomesAreConcrete, Typed, EvaluatorMeaning, EvalParam
  PROVE  EvaluatorMeaning'
<1> DEFINE n == NodeOf(ctl.frame, ctl.node)
           state == ctl.state
           value == ctl.frame.args[n.index]
           new == Remember(state, calledSite, value)
<1>1. ctl.at = "call" /\ n.kind = "param" /\ request' = request /\ stack' = stack
      /\ ctl' = Return(<<Evaluated(new, value)>>)
  BY DEF EvalParam
<1>2. NodeOK(ctl.frame, ctl.node) /\ StateOK(state) /\ request \in Requests
  BY <1>1 DEF Typed, ControlOK
<1>3. /\ ProperFrame(ctl.frame) /\ InHandOf(Depth, state)
      /\ \A x \in state.guard : FrameRight(ctl.frame, x)
  BY <1>1, MeaningParts DEF CallRight, Depth
<1>4. StateRight(state) /\ MemoRight(state)
  BY <1>3 DEF InHandOf, Within, StateRight
<1>5. n.index \in 1..Len(ctl.frame.args)
  BY <1>1, <1>2, NodeFacts
<1>6. ASSUME NEW x \in state.guard
      PROVE  /\ Of(x, calledSite).ok /\ value.den[x] = Of(x, calledSite).value
             /\ Of(x, calledSite).trace \subseteq Entries(state.trace)
  <2> DEFINE out == Outcomes(request, x)
  <2>1. x \in Inputs
    BY <1>2, GuardIsOfInputs
  <2>2. /\ NodeAt(request, calledSite) = n /\ calledSite[3] = ctl.frame.inv
        /\ Of(x, calledSite) = OutcomeOfParts(request, x, out, calledSite)
    BY <1>2, <1>3, <2>1, SiteOutcome DEF calledSite
  <2>3. DemandedSites(request, out, calledSite) = {}
    BY <1>1, <2>2 DEF DemandedSites
  <2>4. OwnEntries(request, out, calledSite) = {}
    BY <1>1, <2>2 DEF OwnEntries, IsSelection
  <2>5. IsSupported(request, calledSite)
    BY <1>1, <2>2 DEF IsSupported
  <2>6. Of(x, calledSite).ok /\ Of(x, calledSite).trace \subseteq Entries(state.trace)
    BY <1>2, <1>3, <1>4, <2>1, <2>3, <2>4, <2>5, SiteKnown DEF calledSite
  <2>7. Of(x, calledSite).value = NodeValue(request, x, out, calledSite)
    BY <2>2 DEF OutcomeOfParts
  <2>8. NodeValue(request, x, out, calledSite) = Passed(request, x, out, ctl.frame.inv, n.index)
    BY <1>1, <2>2, ValueByKind
  <2>9. value.den[x] = Passed(request, x, out, ctl.frame.inv, n.index)
    BY <1>3, <1>5 DEF FrameRight
  <2> QED
    BY <2>6, <2>7, <2>8, <2>9
<1> HIDE DEF n, value
<1>7. PICK s, v, t : s = state /\ v = value /\ t = new
  OBVIOUS
<1>8. StateRight(t) /\ Narrows(s, t) /\ Has(t, calledSite, v)
  BY <1>2, <1>4, <1>6, <1>7, RememberRight
<1>9. InHandOf(Depth, t)
  BY <1>3, <1>7, <1>8, InHandNarrowed, ListElements DEF Typed, Depth
<1> QED
  BY <1>1, <1>7, <1>8, <1>9, AnswerRight

\* The innermost activation after a step, counted from the outermost.
LEMMA InnermostNext ==
  ASSUME NEW act, ActivationAt(Depth)' = act, NEW d, d = Depth'
  PROVE  ActivationAt(d)' = act
BY DEF ActivationAt

\* An activation is pushed.
LEMMA PushedRight ==
  ASSUME Typed, EvaluatorMeaning, request' = request, ctl'.at = "run",
         NEW act, stack' = <<act>> \o stack, NEW below, stack # <<>> => below = top,
         NEW d \in Nat, d = Depth + 1, RightAs(d, act), LinkAs(d, act, below)
  PROVE  EvaluatorMeaning'
<1>1. IsList(stack) /\ Depth \in Nat
  BY ListElements DEF Typed, Depth
<1>2. Depth' = d /\ KeepsActivations(Depth) /\ ActivationAt(Depth)' = act
  BY <1>1, Pushed
<1>3. ActivationAt(d)' = act
  BY <1>2, InnermostNext
<1>4. \A e \in 1..Depth : ActivationRight(e)' /\ LinkedAt(e)'
  BY <1>1, <1>2, MeaningParts, KeptRight, KeptLinked
<1>5. ActivationRight(d)'
  BY <1>3, RightNext
<1>6. d # 1 => ActivationAt(d - 1)' = below
  <2> HAVE d # 1
  <2>1. stack # <<>> /\ Depth \in 1..Depth /\ d - 1 = Depth
    BY <1>1, EmptyList DEF Depth
  <2>2. top = ActivationAt(Depth)
    BY <1>1, <2>1, TopActivation
  <2>3. PICK c : c = Depth
    OBVIOUS
  <2>4. ActivationAt(c)' = ActivationAt(c)
    BY <1>2, <2>1, <2>3 DEF KeepsActivations
  <2> QED
    BY <2>1, <2>2, <2>3, <2>4
<1>7. LinkedAt(d)'
  BY <1>3, <1>6, LinkedNext
<1>8. \A e \in 1..Depth' : ActivationRight(e)' /\ LinkedAt(e)'
  BY <1>1, <1>2, <1>4, <1>5, <1>7
<1> QED
  BY <1>8, MeaningNext DEF FailuresAreDemanded, Failed

\* A node is entered with nothing evaluated.
LEMMA EnterRight ==
  ASSUME Typed, EvaluatorMeaning, EnterNode
  PROVE  EvaluatorMeaning'
<1>1. /\ ctl.at = "call" /\ request' = request /\ ctl'.at = "run"
      /\ stack' = <<NodeActivation(ctl.frame, ctl.node, ctl.state)>> \o stack
  BY DEF EnterNode, Run
<1>2. PICK act, state, d, below : /\ act = NodeActivation(ctl.frame, ctl.node, ctl.state)
                                  /\ state = ctl.state /\ d = Depth + 1 /\ below = top
  OBVIOUS
<1>3. /\ act.frame = ctl.frame /\ act.node = ctl.node /\ ~act.arm
      /\ act.refs = NodeOf(ctl.frame, ctl.node).refs /\ act.stage = 0
      /\ act.todo = <<>> /\ act.arms = <<>> /\ act.done = <<Partial(state, <<>>)>>
  BY <1>2 DEF NodeActivation
<1>4. IsList(stack) /\ Depth \in Nat /\ NodeOK(ctl.frame, ctl.node) /\ request \in Requests
  BY <1>1, ListElements DEF Typed, Depth, ControlOK
<1>5. /\ ProperFrame(ctl.frame) /\ InHandOf(Depth, state)
      /\ \A x \in state.guard : FrameRight(ctl.frame, x) /\ Demands(x, calledSite)
      /\ IF stack = <<>> THEN calledSite = ResultSite(request)
         ELSE ~Resolving(top) /\ calledSite = AwaitedSite(top)
  BY <1>1, <1>2, MeaningParts DEF CallRight, Depth
<1>6. SiteOf(act) = calledSite
  BY <1>3 DEF SiteOf, calledSite
<1>7. Len(act.refs) \in Nat
  BY <1>3, <1>4, NodeFacts
<1>8. InductionFits(act)
  <2>1. 0..(act.stage - Len(act.refs) - 1) = {}
    BY <1>3, <1>7
  <2> QED
    BY <2>1 DEF InductionFits
<1>9. Serves(act, state)
  BY <1>3, <1>5, <1>6 DEF Serves
<1>10. Progress(act, 0, Partial(state, <<>>))
  BY <1>3, <1>7 DEF Progress, NodeProgress
<1>11. d \in Nat /\ d > 0 /\ d - 1 = Depth
  BY <1>2, <1>4
<1>12. KeepsActivations(Depth) /\ ActivationAt(d)' = act
  BY <1>1, <1>2, <1>4, Pushed, InnermostNext
<1>13. PICK c \in Nat : c = Depth
  BY <1>4
<1>14. InHandOf(c, state)'
  <2>1. request' = request /\ KeepsActivations(c) /\ InHandOf(c, state) /\ c \in 0..c
    BY <1>1, <1>5, <1>12, <1>13
  <2> QED
    BY ONLY <2>1, <1>13, InHandKept
<1>15. Within(d, state)'
  BY <1>1, <1>9, <1>11, <1>12, <1>13, <1>14, WithinNext
<1>16. Partial(state, <<>>).state = state
  BY DEF Partial
<1>17. RightAs(d, act)
  BY <1>3, <1>5, <1>8, <1>10, <1>15, <1>16, EmptyList DEF RightAs
<1>18. LinkAs(d, act, below)
  <2>1. d = 1 <=> stack = <<>>
    BY <1>4, <1>11, EmptyList DEF Depth
  <2> QED
    BY <1>2, <1>3, <1>5, <1>6, <2>1 DEF LinkAs
<1> QED
  BY <1>1, <1>2, <1>11, <1>17, <1>18, PushedRight

-----------------------------------------------------------------------------
(***************************************************************************)
(* The innermost activation moves on.                                      *)
(***************************************************************************)
\* What is said of an activation's progress depends on what it drives.
LEMMA SameDrive ==
  ASSUME NEW a, NEW b, b.frame = a.frame, b.node = a.node, b.arm = a.arm, b.refs = a.refs
  PROVE  /\ \A state : Serves(b, state) <=> Serves(a, state)
         /\ \A stage, p : Progress(b, stage, p) <=> Progress(a, stage, p)
         /\ \A pending : PendingAt(b, pending) = PendingAt(a, pending)
         /\ \A pending : PendingRight(b, pending) <=> PendingRight(a, pending)
         /\ SelectorSite(b) = SelectorSite(a)
         /\ b.stage = a.stage => /\ InductionFits(b) <=> InductionFits(a)
                                 /\ AwaitedSite(b) = AwaitedSite(a)
<1>1. SiteOf(b) = SiteOf(a) /\ KindOf(b) = KindOf(a)
  BY DEF SiteOf, KindOf
<1>2. /\ \A x : Choice(x, b) = Choice(x, a)
      /\ \A x, trace : Resolved(x, b, trace) <=> Resolved(x, a, trace)
      /\ \A ref : NodeRef(b, ref) = NodeRef(a, ref)
      /\ \A k : IterationOf(b, k) = IterationOf(a, k)
      /\ Callee(b) = Callee(a)
  BY <1>1 DEF Choice, Resolved, NodeRef, IterationOf, Callee
<1>3. \A state : Serves(b, state) <=> Serves(a, state)
  BY <1>1, <1>2 DEF Serves
<1>4. \A p : SelectionProgress(b, p) <=> SelectionProgress(a, p)
  BY <1>1, <1>2 DEF SelectionProgress
<1>5. \A done, p : LoopProgress(b, done, p) <=> LoopProgress(a, done, p)
  BY <1>2 DEF LoopProgress
<1>6. \A stage, p : NodeProgress(b, stage, p) <=> NodeProgress(a, stage, p)
  BY <1>1, <1>2, <1>4, <1>5 DEF NodeProgress
<1>7. \A x, count : Numbers(x, b, count) = Numbers(x, a, count)
  BY <1>2 DEF Numbers
<1>8. \A stage, p : ArmProgress(b, stage, p) <=> ArmProgress(a, stage, p)
  BY <1>1, <1>2, <1>7 DEF ArmProgress
<1>9. \A stage, p : Progress(b, stage, p) <=> Progress(a, stage, p)
  BY <1>6, <1>8 DEF Progress
<1>10. \A pending : PendingAt(b, pending) = PendingAt(a, pending)
  BY <1>1 DEF PendingAt
<1>11. SelectorSite(b) = SelectorSite(a)
  BY <1>2 DEF SelectorSite
<1>12. \A pending : PendingRight(b, pending) <=> PendingRight(a, pending)
  BY <1>2, <1>10, <1>11 DEF PendingRight
<1>13. b.stage = a.stage => /\ InductionFits(b) <=> InductionFits(a)
                            /\ AwaitedSite(b) = AwaitedSite(a)
  BY <1>1, <1>2 DEF InductionFits, AwaitedSite
<1> QED
  BY <1>3, <1>9, <1>10, <1>11, <1>12, <1>13

\* What is known of the innermost activation.
LEMMA TopRight ==
  ASSUME Typed, EvaluatorMeaning, stack # <<>>, NEW d, d = Depth
  PROVE  /\ ProperFrame(top.frame) /\ InductionFits(top)
         /\ \A i \in 1..Len(top.todo) : /\ Within(d, top.todo[i].state)
                                        /\ Progress(top, top.stage - 1, top.todo[i])
         /\ \A i \in 1..Len(top.done) : /\ Within(d, top.done[i].state)
                                        /\ Progress(top, top.stage, top.done[i])
         /\ \A i \in 1..Len(top.arms) : /\ Within(d, PendingAt(top, top.arms[i]))
                                        /\ PendingRight(top, top.arms[i])
         /\ LinkAs(d, top, ActivationAt(d - 1))
         /\ d \in Nat /\ d > 0 /\ d - 1 \in Nat
<1>1. IsList(stack) /\ Depth \in Nat
  BY ListElements DEF Typed, Depth
<1>2. top = ActivationAt(d) /\ d \in 1..Depth /\ d - 1 \in Nat
  BY <1>1, TopActivation
<1>3. ActivationRight(d) /\ LinkedAt(d)
  BY <1>2, MeaningParts
<1> QED
  BY <1>1, <1>2, <1>3 DEF ActivationRight, LinkedAt

\* A candidate within the innermost activation serves it.
LEMMA WithinTop ==
  ASSUME Typed, stack # <<>>, NEW d, d = Depth, NEW state, Within(d, state)
  PROVE  /\ Serves(top, state) /\ StateRight(state) /\ InHandOf(d - 1, state)
         /\ d - 1 > 0 => Behind(ActivationAt(d - 1), state)
<1>1. IsList(stack) /\ Depth \in Nat
  BY ListElements DEF Typed, Depth
<1>2. top = ActivationAt(d) /\ d \in 1..Depth /\ d - 1 \in Nat
  BY <1>1, TopActivation
<1>3. Serves(top, state) /\ InHandOf(d - 1, state)
  BY <1>1, <1>2, WithinParts
<1> QED
  BY <1>2, <1>3 DEF Within, InHandOf

\* Candidates within an activation that moves on are within it still.
LEMMA MovedWithin ==
  ASSUME Typed, request' = request, stack # <<>>, NEW act, NEW d, d = Depth,
         KeepsActivations(Depth - 1), ActivationAt(d)' = act,
         act.frame = top.frame, act.node = top.node, act.arm = top.arm, act.refs = top.refs
  PROVE  /\ \A state : Within(d, state)' <=> Within(d, state)
         /\ d \in Nat /\ d > 0
<1>1. IsList(stack) /\ Depth \in Nat
  BY ListElements DEF Typed, Depth
<1>2. top = ActivationAt(d) /\ d \in Nat /\ d > 0 /\ d - 1 \in Nat
  BY <1>1, TopActivation
<1>3. \A state : InHandOf(d - 1, state)' <=> InHandOf(d - 1, state)
  BY <1>2, InHandKept
<1>4. \A state : Within(d, state)' <=> InHandOf(d - 1, state)' /\ Serves(act, state)
  BY <1>2, WithinNext
<1>5. \A state : Serves(act, state) <=> Serves(top, state)
  BY SameDrive
<1> QED
  BY <1>2, <1>3, <1>4, <1>5, WithinParts

\* The innermost activation moves on.
LEMMA ReplacedRight ==
  ASSUME Typed, EvaluatorMeaning, request' = request, stack # <<>>,
         NEW act, stack' = <<act>> \o Tail(stack), act.frame = top.frame, act.node = top.node,
         act.arm = top.arm, NEW d, d = Depth, RightAs(d, act),
         ctl'.at = "call" => CallRight', ctl'.at \in {"call", "run"}
  PROVE  EvaluatorMeaning'
<1>1. IsList(stack) /\ Depth \in Nat
  BY ListElements DEF Typed, Depth
<1>2. Depth' = Depth /\ KeepsActivations(Depth - 1) /\ ActivationAt(Depth)' = act
  BY <1>1, Replaced
<1>3. ActivationAt(d)' = act
  BY <1>2, InnermostNext
<1>4. top = ActivationAt(d) /\ d - 1 \in Nat /\ d \in 1..Depth
  BY <1>1, TopActivation
<1>5. \A e \in 1..(d - 1) : e \in 1..Depth
  BY <1>1
<1>6. \A e \in 1..(d - 1) : ActivationRight(e)' /\ LinkedAt(e)'
  <2>1. \A e \in 1..(d - 1) : ActivationRight(e) /\ LinkedAt(e)
    BY <1>5, MeaningParts
  <2>2. KeepsActivations(d - 1)
    BY <1>2
  <2> QED
    BY <1>4, <2>1, <2>2, KeptRight, KeptLinked
<1>7. ActivationRight(d)'
  BY <1>3, RightNext
<1>8. PICK below : below = ActivationAt(d - 1)
  OBVIOUS
<1>9. d # 1 => ActivationAt(d - 1)' = below
  BY <1>2, <1>4, <1>8 DEF KeepsActivations
<1>10. LinkAs(d, act, below)
  <2>1. LinkAs(d, top, below)
    BY <1>8, TopRight
  <2>2. SiteOf(act) = SiteOf(top)
    BY DEF SiteOf
  <2> QED
    BY <2>1, <2>2 DEF LinkAs
<1>11. LinkedAt(d)'
  BY <1>3, <1>9, <1>10, LinkedNext
<1>12. \A e \in 1..Depth' : ActivationRight(e)' /\ LinkedAt(e)'
  <2>1. \A e \in 1..Depth' : e \in 1..(d - 1) \/ e = d
    BY <1>1, <1>2
  <2> QED
    BY <1>6, <1>7, <1>11, <2>1
<1> QED
  BY <1>12, MeaningNext DEF FailuresAreDemanded, Failed

\* What a partial knows, it knows as the candidate in hand.
LEMMA InHandProgress ==
  ASSUME NEW p, NEW act, act.current = p.values, ~Resolving(act),
         Progress(act, act.stage - 1, p)
  PROVE  Behind(act, p.state)
<1>1. /\ Partial(p.state, act.current).state = p.state
      /\ Partial(p.state, act.current).values = p.values
  BY DEF Partial
<1>2. Narrows(p.state, p.state)
  BY DEF Narrows
<1>3. Progress(act, act.stage - 1, Partial(p.state, act.current))
  BY <1>1, <1>2, ProgressNarrowed
<1> QED
  BY <1>3 DEF Behind

\* The first partial is taken, and others wait.
LEMMA TodoRest ==
  ASSUME Typed, EvaluatorMeaning, stack # <<>>, top.todo # <<>>, NEW d, d = Depth
  PROVE  /\ Within(d, Head(top.todo).state)
         /\ Progress(top, top.stage - 1, Head(top.todo))
         /\ \A i \in 1..Len(Tail(top.todo)) :
              /\ Within(d, Tail(top.todo)[i].state)
              /\ Progress(top, top.stage - 1, Tail(top.todo)[i])
<1>1. IsList(top.todo) /\ Len(top.todo) \in Nat
  BY TopFacts, ListElements
<1>2. Head(top.todo) = top.todo[1] /\ 1 \in 1..Len(top.todo)
  BY <1>1, HeadOfList
<1>3. \A i \in 1..Len(Tail(top.todo)) :
        Tail(top.todo)[i] = top.todo[i + 1] /\ i + 1 \in 1..Len(top.todo)
  BY <1>1, TailOfList
<1> QED
  BY <1>2, <1>3, TopRight

\* A node is evaluated for the next partial.
LEMMA EvaluateRight ==
  ASSUME Typed, EvaluatorMeaning, stack # <<>>, top.todo # <<>>, top.arms = <<>>,
         ~Resolving(top), NEW frame, NEW node, Evaluate(frame, node),
         ProperFrame(frame), Site(frame, node) = AwaitedSite(top),
         \A x \in Head(top.todo).state.guard :
           FrameRight(frame, x) /\ Demands(x, AwaitedSite(top))
  PROVE  EvaluatorMeaning'
<1>1. /\ stack' = <<Moved(top, top.stage, Tail(top.todo), Head(top.todo).values,
                          top.done, top.arms)>> \o Tail(stack)
      /\ ctl' = Call(frame, node, Head(top.todo).state)
      /\ request' = request
  BY TopIsActivation, EvaluateMoves
<1>2. PICK act, d, p : /\ act = Moved(top, top.stage, Tail(top.todo), Head(top.todo).values,
                                      top.done, top.arms)
                       /\ d = Depth /\ p = Head(top.todo)
  OBVIOUS
<1>3. /\ act.frame = top.frame /\ act.node = top.node /\ act.arm = top.arm
      /\ act.refs = top.refs /\ act.stage = top.stage /\ act.todo = Tail(top.todo)
      /\ act.current = p.values /\ act.done = top.done /\ act.arms = <<>>
  BY <1>2 DEF Moved
<1>4. stack' = <<act>> \o Tail(stack) /\ IsList(stack)
  BY <1>1, <1>2 DEF Typed
<1>5. Depth' = d /\ KeepsActivations(Depth - 1) /\ ActivationAt(d)' = act
  BY <1>2, <1>4, Replaced, InnermostNext
<1>6. (\A state : Within(d, state)' <=> Within(d, state)) /\ d \in Nat /\ d > 0
  BY <1>1, <1>2, <1>3, <1>5, MovedWithin
<1>7. /\ \A stage, q : Progress(act, stage, q) <=> Progress(top, stage, q)
      /\ InductionFits(act) <=> InductionFits(top)
      /\ AwaitedSite(act) = AwaitedSite(top)
  BY <1>3, SameDrive
<1>8. ProperFrame(top.frame) /\ InductionFits(top)
      /\ \A i \in 1..Len(top.done) : /\ Within(d, top.done[i].state)
                                     /\ Progress(top, top.stage, top.done[i])
  BY <1>2, TopRight
<1>9. Within(d, p.state) /\ Progress(top, top.stage - 1, p)
      /\ \A i \in 1..Len(act.todo) : /\ Within(d, act.todo[i].state)
                                     /\ Progress(top, top.stage - 1, act.todo[i])
  BY <1>2, <1>3, TodoRest
<1>10. RightAs(d, act)
  BY <1>3, <1>6, <1>7, <1>8, <1>9, EmptyList DEF RightAs
<1>11. ~Resolving(act)
  BY <1>3 DEF Resolving, KindOf
<1>12. Behind(act, p.state)
  BY <1>3, <1>7, <1>9, <1>11, InHandProgress
<1>13. InHandOf(d, p.state)'
  BY <1>1, <1>5, <1>6, <1>9, <1>12, WithinNext
<1>14. /\ ctl'.at = "call" /\ ctl'.frame = frame /\ ctl'.node = node /\ ctl'.state = p.state
  BY <1>1, <1>2 DEF Call
<1>15. calledSite' = AwaitedSite(top)
  BY <1>14 DEF calledSite, Site
<1>16. top' = act /\ stack' # <<>>
  BY <1>4, TailOfList, OneMoreBefore DEF top
<1>17. CallRight'
  <2>1. ProperFrame(ctl.frame)'
    BY <1>1, <1>14, SameOutcomes
  <2>2. InHandOf(Len(stack), ctl.state)'
    BY <1>5, <1>13, <1>14 DEF Depth
  <2>3. \A x \in ctl'.state.guard : FrameRight(ctl.frame, x)' /\ Demands(x, calledSite)'
    BY <1>1, <1>2, <1>14, <1>15, SameOutcomes
  <2>4. Resolving(top)' <=> Resolving(act)
    BY <1>1, <1>16, SameWaiting
  <2>5. AwaitedSite(top)' = AwaitedSite(act)
    BY <1>1, <1>16, SameWaiting
  <2> QED
    BY <1>7, <1>11, <1>15, <1>16, <2>1, <2>2, <2>3, <2>4, <2>5 DEF CallRight
<1> QED
  BY <1>1, <1>2, <1>3, <1>4, <1>10, <1>14, <1>17, ReplacedRight

\* The operand, or the case, is a node that the input demands.
LEMMA DemandRight ==
  ASSUME OutcomesAreConcrete, Typed, EvaluatorMeaning, DemandOperand
  PROVE  EvaluatorMeaning'
<1> DEFINE ref == top.refs[top.stage]
           state == Head(top.todo).state
<1>1. /\ ctl.at = "run" /\ top.arms = <<>> /\ top.todo # <<>> /\ top.stage <= Len(top.refs)
      /\ Evaluate(top.frame, ref)
  BY DEF DemandOperand, Working
<1>2. stack # <<>>
  BY <1>1 DEF Typed, ControlOK
<1>3. /\ request \in Requests /\ NodeOK(top.frame, top.node)
      /\ topNode = NodeOf(top.frame, top.node) /\ KindOf(top) = topNode.kind
      /\ top.arm \in BOOLEAN /\ RefsOK(top) /\ top.stage \in Nat /\ Len(top.refs) \in Nat
      /\ top.stage > 0
  BY <1>1, <1>2, TopFacts
<1>4. top.stage \in 1..Len(top.refs)
  BY <1>1, <1>3
<1>5. ~Resolving(top) /\ AwaitedSite(top) = NodeRef(top, ref)
  BY <1>1, <1>3 DEF Resolving, AwaitedSite
<1>6. Site(top.frame, ref) = AwaitedSite(top)
  BY <1>5 DEF NodeRef, RefSite, SiteOf, Site
<1>7. ProperFrame(top.frame)
  BY <1>2, TopRight
<1>8. PICK d : d = Depth
  OBVIOUS
<1>9. Serves(top, state)
  BY <1>1, <1>2, <1>8, TodoRest, WithinTop
<1>10. ASSUME NEW x \in state.guard
       PROVE  FrameRight(top.frame, x) /\ Demands(x, AwaitedSite(top))
  <2> DEFINE out == Outcomes(request, x)
             site == SiteOf(top)
  <2>1. x \in Inputs
    BY <1>1, <1>2, <1>3, NextPartial, GuardIsOfInputs DEF PartialOK
  <2>2. FrameRight(top.frame, x) /\ Demands(x, site)
    BY <1>9 DEF Serves
  <2>3. NodeAt(request, site) = topNode
    BY <1>3, <1>7, SiteOutcome DEF SiteOf
  <2>4. NodeRef(top, ref) \in DemandedSites(request, out, site)
    <3>1. CASE top.arm
      <4>1. ref \in Choice(x, top).cases
        BY <1>4, <1>9, <3>1 DEF Serves, Elements
      <4>2. IsSelection(topNode)
        BY <1>3, <3>1 DEF RefsOK, SelectionKinds, IsSelection
      <4> QED
        BY <2>3, <4>1, <4>2, NodeDemands DEF Choice, NodeRef
    <3>2. CASE ~top.arm
      <4>1. top.refs = topNode.refs /\ topNode.kind # "param"
        BY <1>3, <3>2 DEF RefsOK
      <4> QED
        BY <1>4, <2>3, <4>1, NodeDemands DEF NodeRef
    <3> QED
      BY <3>1, <3>2
  <2>5. Demands(x, NodeRef(top, ref))
    BY <1>3, <1>7, <2>1, <2>2, <2>4, PartsDemanded DEF SiteOf
  <2> QED
    BY <1>5, <2>2, <2>5
<1> QED
  BY <1>1, <1>2, <1>5, <1>6, <1>7, <1>10, EvaluateRight

\* The innermost activation calls: what it awaits is a part of its node.
LEMMA TopCalls ==
  ASSUME OutcomesAreConcrete, Typed, EvaluatorMeaning, stack # <<>>, top.todo # <<>>,
         ~top.arm, top.stage > Len(top.refs),
         NEW key,
         \/ topNode.kind = "invoke" /\ key = InvokeKey(top.frame.fn, top.node)
         \/ /\ topNode.kind = "counted_for"
            /\ key = IterationKey(top.frame.fn, top.node, Iteration),
         NEW frame, frame.fn = topNode.callee, frame.inv = Append(top.frame.inv, key)
  PROVE  /\ ~Resolving(top) /\ ProperFrame(frame)
         /\ Site(frame, request.fns[frame.fn].ret) = AwaitedSite(top)
         /\ topNode.kind = "counted_for" => Iteration \in 0..(topNode.trip - 1)
         /\ \A x, i : Passed(request, x, Outcomes(request, x), frame.inv, i) =
                      PassedBy(request, Outcomes(request, x), SiteOf(top), key, i)
         /\ NodeAt(request, SiteOf(top)) = topNode
         /\ \A x \in Head(top.todo).state.guard : x \in Inputs /\ Demands(x, AwaitedSite(top))
<1> DEFINE state == Head(top.todo).state
           site == SiteOf(top)
<1>1. /\ request \in Requests /\ NodeOK(top.frame, top.node)
      /\ topNode = NodeOf(top.frame, top.node) /\ KindOf(top) = topNode.kind
      /\ top.arm \in BOOLEAN /\ RefsOK(top) /\ top.stage \in Nat /\ Len(top.refs) \in Nat
      /\ top.stage <= Stages(top)
  BY TopFacts
<1>2. ProperFrame(top.frame)
  BY TopRight
<1>3. top.refs = topNode.refs
  BY <1>1 DEF RefsOK
<1>4. topNode.kind = "counted_for" => Iteration \in 0..(topNode.trip - 1)
  <2> HAVE topNode.kind = "counted_for"
  <2>1. topNode.trip \in Nat
    BY <1>1, NodeFacts
  <2>2. Stages(top) = Len(top.refs) + topNode.trip
    BY <1>1 DEF Stages, KindOf, SelectionKinds
  <2> QED
    BY <1>1, <2>1, <2>2 DEF Iteration
<1>5. /\ ProperFrame(frame)
      /\ Site(frame, request.fns[frame.fn].ret) = CalledSite(request, site, key)
      /\ \A x, out, i : Passed(request, x, out, frame.inv, i) =
                        PassedBy(request, out, site, key, i)
  <2>1. PICK f, v, n : f = top.frame /\ v = top.node /\ n = topNode
    OBVIOUS
  <2>2. CallsWith(n, f.fn, v, key)
    BY <1>4, <2>1 DEF CallsWith
  <2>3. NodeOK(f, v) /\ ProperFrame(f) /\ n = NodeOf(f, v)
    BY <1>1, <1>2, <2>1
  <2>4. frame.fn = n.callee /\ frame.inv = Append(f.inv, key)
    BY <2>1
  <2>5. EnteredFrom(frame, Site(f, v), key)
    BY <1>1, <2>2, <2>3, <2>4, CalledContext
  <2> QED
    BY <2>1, <2>5 DEF SiteOf, EnteredFrom
<1>6. ~Resolving(top)
  BY <1>1 DEF Resolving, SelectionKinds
<1>7. site[1] = top.frame.fn /\ site[2] = top.node /\ NodeAt(request, site) = topNode
  BY <1>1, <1>2, SiteOutcome DEF SiteOf
<1>8. AwaitedSite(top) = CalledSite(request, site, key)
  <2>1. ~(top.stage <= Len(top.refs))
    BY <1>1
  <2>2. CASE topNode.kind = "invoke"
    BY <1>1, <1>7, <2>1, <2>2 DEF AwaitedSite, Callee, CalleeSite
  <2>3. CASE topNode.kind = "counted_for"
    BY <1>1, <1>7, <2>1, <2>3 DEF AwaitedSite, IterationOf, IterationSite, Iteration
  <2> QED
    BY <2>2, <2>3
<1>9. Serves(top, state)
  BY TodoRest, WithinTop
<1>10. ASSUME NEW x \in state.guard
       PROVE  x \in Inputs /\ Demands(x, AwaitedSite(top))
  <2> DEFINE out == Outcomes(request, x)
  <2>1. x \in Inputs
    BY <1>1, NextPartial, GuardIsOfInputs DEF PartialOK
  <2>2. Demands(x, site)
    BY <1>9 DEF Serves
  <2>3. CalledSite(request, site, key) \in DemandedSites(request, out, site)
    BY <1>4, <1>7, NodeDemands DEF CalleeSite, IterationSite
  <2>4. Demands(x, CalledSite(request, site, key))
    BY <1>1, <1>2, <2>1, <2>2, <2>3, PartsDemanded DEF SiteOf
  <2> QED
    BY <1>8, <2>1, <2>4
<1> QED
  BY <1>4, <1>5, <1>6, <1>7, <1>8, <1>10

\* A call passes the operands.
LEMMA CalleeRight ==
  ASSUME OutcomesAreConcrete, Typed, EvaluatorMeaning, EnterCallee
  PROVE  EvaluatorMeaning'
<1> DEFINE p == Head(top.todo)
           key == InvokeKey(top.frame.fn, top.node)
<1>1. /\ ctl.at = "run" /\ stack # <<>> /\ top.todo # <<>> /\ topNode.kind = "invoke"
      /\ FrameOK(CalledFrame) /\ Evaluate(CalledFrame, request.fns[CalledFrame.fn].ret)
  BY CalleeIsOK
<1>2. top.arms = <<>> /\ top.stage > Len(top.refs)
  BY DEF EnterCallee, Working
<1>3. /\ request \in Requests /\ NodeOK(top.frame, top.node)
      /\ topNode = NodeOf(top.frame, top.node) /\ KindOf(top) = topNode.kind
      /\ top.arm \in BOOLEAN /\ RefsOK(top) /\ top.stage \in Nat /\ Len(top.refs) \in Nat
      /\ top.stage <= Stages(top)
  BY <1>1, TopFacts
<1>4. ~top.arm
  BY <1>1, <1>3 DEF RefsOK, SelectionKinds
<1>5. top.refs = topNode.refs
  BY <1>3, <1>4 DEF RefsOK
<1>6. Stages(top) = Len(top.refs) + 1
  BY <1>1, <1>3, <1>4, StagesOf
<1>7. top.stage - 1 = Len(top.refs)
  BY <1>2, <1>3, <1>6
<1>8. /\ CalledFrame.fn = topNode.callee /\ CalledFrame.args = p.values
      /\ CalledFrame.inv = Append(top.frame.inv, key)
  BY DEF CalledFrame, InvokeFrame, InvokeKey
<1>9. PICK frame : frame = CalledFrame
  OBVIOUS
<1>10. /\ ~Resolving(top) /\ ProperFrame(frame)
       /\ Site(frame, request.fns[frame.fn].ret) = AwaitedSite(top)
       /\ \A x, i : Passed(request, x, Outcomes(request, x), frame.inv, i) =
                    PassedBy(request, Outcomes(request, x), SiteOf(top), key, i)
       /\ NodeAt(request, SiteOf(top)) = topNode
       /\ \A x \in p.state.guard : x \in Inputs /\ Demands(x, AwaitedSite(top))
  BY <1>1, <1>2, <1>4, <1>8, <1>9, TopCalls
<1>11. Len(p.values) = Len(top.refs)
  <2>1. Arity(top, top.stage - 1) = Len(top.refs)
    BY <1>3, <1>4, <1>7 DEF Arity
  <2> QED
    BY <1>1, <2>1, NextPartial DEF PartialOK
<1>12. \A i \in 1..Len(top.refs) : Has(p.state, NodeRef(top, top.refs[i]), p.values[i])
  <2>1. Progress(top, top.stage - 1, p)
    BY <1>1, TodoRest
  <2> QED
    BY <1>3, <1>4, <1>7, <2>1 DEF Progress, NodeProgress
<1>13. ASSUME NEW x \in p.state.guard
       PROVE  FrameRight(frame, x)
  <2>1. ASSUME NEW i \in 1..Len(p.values)
        PROVE  p.values[i].den[x] = Passed(request, x, Outcomes(request, x), frame.inv, i)
    <3>1. p.values[i].den[x] = Of(x, NodeRef(top, top.refs[i])).value
      BY <1>11, <1>12 DEF Has
    <3>2. PassedBy(request, Outcomes(request, x), SiteOf(top), key, i) =
            ValueOf(Outcomes(request, x), RefSite(SiteOf(top), topNode.refs[i]))
      BY <1>10 DEF PassedBy, InvokeKey
    <3> QED
      BY <1>5, <1>10, <3>1, <3>2 DEF NodeRef, ValueOf, Of
  <2> QED
    BY <1>8, <1>9, <2>1 DEF FrameRight
<1>14. PICK ret : ret = request.fns[frame.fn].ret
  OBVIOUS
<1> QED
  BY <1>1, <1>2, <1>9, <1>10, <1>13, <1>14, EvaluateRight

\* An iteration passes its induction value, what is carried and the invariants.
LEMMA IterationRight ==
  ASSUME OutcomesAreConcrete, Typed, EvaluatorMeaning, EnterIteration
  PROVE  EvaluatorMeaning'
<1> DEFINE p == Head(top.todo)
           key == IterationKey(top.frame.fn, top.node, Iteration)
           site == SiteOf(top)
<1>1. /\ ctl.at = "run" /\ stack # <<>> /\ top.todo # <<>> /\ topNode.kind = "counted_for"
      /\ FrameOK(IterationFrame)
      /\ Evaluate(IterationFrame, request.fns[IterationFrame.fn].ret)
  BY BodyIsOK
<1>2. top.arms = <<>> /\ top.stage > Len(top.refs)
  BY DEF EnterIteration, Working
<1>3. /\ request \in Requests /\ NodeOK(top.frame, top.node)
      /\ topNode = NodeOf(top.frame, top.node) /\ KindOf(top) = topNode.kind
      /\ top.arm \in BOOLEAN /\ RefsOK(top) /\ top.stage \in Nat /\ Len(top.refs) \in Nat
  BY <1>1, TopFacts
<1>4. ~top.arm
  BY <1>1, <1>3 DEF RefsOK, SelectionKinds
<1>5. top.refs = topNode.refs
  BY <1>3, <1>4 DEF RefsOK
<1>6. /\ IterationFrame.fn = topNode.callee /\ IterationFrame.args = <<Induction>> \o p.values
      /\ IterationFrame.inv = Append(top.frame.inv, key)
  BY DEF IterationFrame, LoopFrame, IterationKey
<1>7. PICK frame : frame = IterationFrame
  OBVIOUS
<1>8. /\ ~Resolving(top) /\ ProperFrame(frame)
      /\ Site(frame, request.fns[frame.fn].ret) = AwaitedSite(top)
      /\ Iteration \in 0..(topNode.trip - 1)
      /\ \A x, i : Passed(request, x, Outcomes(request, x), frame.inv, i) =
                   PassedBy(request, Outcomes(request, x), site, key, i)
      /\ NodeAt(request, site) = topNode
      /\ \A x \in p.state.guard : x \in Inputs /\ Demands(x, AwaitedSite(top))
  BY <1>1, <1>2, <1>4, <1>6, <1>7, TopCalls
<1>9. Iteration \in Nat /\ top.stage - 1 = Len(top.refs) + Iteration
  BY <1>2, <1>3 DEF Iteration
<1>10. p.values \in Seq(Values) /\ Len(p.values) = Len(top.refs)
  <2>1. Arity(top, top.stage - 1) = Len(top.refs)
    BY <1>1, <1>3, <1>4, <1>9 DEF Arity
  <2> QED
    BY <1>1, <2>1, NextPartial DEF PartialOK
<1>11. /\ Len(frame.args) = Len(top.refs) + 1
       /\ frame.args[1] = Induction
       /\ \A i \in 1..Len(top.refs) : frame.args[i + 1] = p.values[i]
  <2>1. PICK values, one : values = p.values /\ one = Induction
    OBVIOUS
  <2>2. IsList(values)
    BY <1>10, <2>1, SeqIsList
  <2>3. /\ Len(<<one>> \o values) = Len(values) + 1 /\ (<<one>> \o values)[1] = one
        /\ \A i \in 1..Len(values) : (<<one>> \o values)[i + 1] = values[i]
    BY <2>2, OneMoreBefore
  <2> QED
    BY <1>6, <1>7, <1>10, <2>1, <2>3
<1>12. Progress(top, top.stage - 1, p)
  BY <1>1, TodoRest
<1>13. /\ \A i \in 2..Len(top.refs) : Has(p.state, NodeRef(top, top.refs[i]), p.values[i])
       /\ Iteration = 0 => Has(p.state, NodeRef(top, top.refs[1]), p.values[1])
       /\ Iteration # 0 => Has(p.state, IterationOf(top, Iteration - 1), p.values[1])
  <2>1. Len(top.refs) > 0
    BY <1>1, <1>3, <1>5, NodeFacts
  <2>2. CASE Iteration = 0
    <3>1. \A i \in 1..Len(top.refs) : Has(p.state, NodeRef(top, top.refs[i]), p.values[i])
      BY <1>3, <1>4, <1>9, <1>12, <2>2 DEF Progress, NodeProgress
    <3> QED
      BY <1>3, <2>1, <2>2, <3>1
  <2>3. CASE Iteration # 0
    <3>1. ~(top.stage - 1 <= Len(top.refs)) /\ top.stage - 1 - Len(top.refs) = Iteration
      BY <1>3, <1>9, <2>3
    <3>2. LoopProgress(top, top.stage - 1 - Len(top.refs), p)
      BY <1>1, <1>3, <1>4, <1>12, <3>1 DEF Progress, NodeProgress
    <3> QED
      BY <2>3, <3>1, <3>2 DEF LoopProgress
  <2> QED
    BY <2>2, <2>3
<1>14. ASSUME NEW x \in p.state.guard
       PROVE  FrameRight(frame, x)
  <2> DEFINE out == Outcomes(request, x)
             width == request.fns[topNode.callee].params[1]
  <2>1. key[1] # "Invoke" /\ key[4] = Iteration
    BY DEF IterationKey
  <2>2. Induction.den[x] = LowBits(Iteration * topNode.stride, width)
    <3>1. width \in Nat /\ topNode.stride \in Nat
      BY <1>1, <1>3, NodeFacts
    <3>2. PICK n \in Nat : n = Iteration * topNode.stride
      BY <1>9, <3>1
    <3>3. LowBits(n, width) \in Nat /\ LowBits(n, width) < 2^width
      <4>1. PICK w \in Nat : w = width
        BY <3>1
      <4>2. n % 2^w \in 0..(2^w - 1) /\ 2^w \in Nat
        BY LowBitsAgree, PowerIsPositive
      <4> DEFINE q == 2^w
                 l == n % q
      <4>3. l \in Nat /\ l < q
        <5>1. l \in 0..(q - 1) /\ q \in Nat
          BY <4>2
        <5> HIDE DEF q, l
        <5> QED
          BY <5>1
      <4> QED
        BY <4>1, <4>3 DEF LowBits
    <3>4. x \in Inputs
      BY <1>8
    <3>5. ConstantBits(width, LowBits(n, width)).den[x] = LowBits(n, width)
      BY <3>1, <3>3, <3>4, ConstantBitsIsValue
    <3> QED
      BY <3>2, <3>5 DEF Induction, InductionValue
  <2>3. ASSUME NEW i \in 1..(Len(top.refs) + 1)
        PROVE  frame.args[i].den[x] = PassedBy(request, out, site, key, i)
    <3>1. CASE i = 1
      BY <1>8, <1>11, <2>1, <2>2, <3>1 DEF PassedBy
    <3>2. CASE i = 2
      <4>1. frame.args[2] = p.values[1]
        BY <1>3, <1>11, <2>3, <3>2
      <4>2. CASE Iteration = 0
        <5>1. PassedBy(request, out, site, key, 2) = ValueOf(out, RefSite(site, topNode.refs[1]))
          BY <1>8, <2>1, <4>2 DEF PassedBy
        <5>2. p.values[1].den[x] = Of(x, NodeRef(top, top.refs[1])).value
          BY <1>13, <4>2 DEF Has
        <5> QED
          BY <1>5, <3>2, <4>1, <5>1, <5>2 DEF NodeRef, ValueOf, Of
      <4>3. CASE Iteration # 0
        <5>1. PassedBy(request, out, site, key, 2) =
                ValueOf(out, IterationSite(request, site, Iteration - 1))
          BY <1>8, <2>1, <4>3 DEF PassedBy
        <5>2. p.values[1].den[x] = Of(x, IterationOf(top, Iteration - 1)).value
          BY <1>13, <4>3 DEF Has
        <5> QED
          BY <3>2, <4>1, <5>1, <5>2 DEF IterationOf, ValueOf, Of
      <4> QED
        BY <4>2, <4>3
    <3>3. CASE i # 1 /\ i # 2
      <4>1. i - 1 \in 2..Len(top.refs) /\ i - 1 \in 1..Len(top.refs) /\ (i - 1) + 1 = i
        BY <1>3, <3>3
      <4>2. frame.args[i] = p.values[i - 1]
        BY <1>11, <4>1
      <4>3. PassedBy(request, out, site, key, i) =
              ValueOf(out, RefSite(site, topNode.refs[i - 1]))
        BY <1>8, <2>1, <3>3 DEF PassedBy
      <4>4. p.values[i - 1].den[x] = Of(x, NodeRef(top, top.refs[i - 1])).value
        BY <1>13, <4>1 DEF Has
      <4> QED
        BY <1>5, <4>2, <4>3, <4>4 DEF NodeRef, ValueOf, Of
    <3> QED
      BY <3>1, <3>2, <3>3
  <2> QED
    BY <1>8, <1>11, <2>3 DEF FrameRight
<1>15. PICK ret : ret = request.fns[frame.fn].ret
  OBVIOUS
<1> QED
  BY <1>1, <1>2, <1>7, <1>8, <1>14, <1>15, EvaluateRight

-----------------------------------------------------------------------------
(***************************************************************************)
(* Candidates returned to an activation that waits for them.               *)
(***************************************************************************)
\* The numbers of one more case.
LEMMA OneMoreNumber ==
  ASSUME NEW x, NEW act, NEW stage \in Nat, stage > 0
  PROVE  Numbers(x, act, stage) =
           Numbers(x, act, stage - 1) \cup {Of(x, NodeRef(act, act.refs[stage])).value}
<1>1. \A i : i \in 1..stage <=> i \in 1..(stage - 1) \/ i = stage
  OBVIOUS
<1> QED
  BY <1>1 DEF Numbers

\* An arm with one more of its cases.
LEMMA ArmExtended ==
  ASSUME request \in Requests, NEW act, ActivationOK(act), CurrentOK(act), act.arm,
         NEW state, StateOK(state), NEW value \in Values,
         Progress(act, act.stage - 1, Partial(state, act.current)),
         Has(state, AwaitedSite(act), value),
         NEW p, p = Partial(state, Extend(act, value))
  PROVE  Progress(act, act.stage, p)
<1> DEFINE old == Partial(state, act.current)
<1>1. /\ NodeOK(act.frame, act.node) /\ RefsOK(act) /\ act.stage \in 0..Stages(act)
      /\ act.arm \in BOOLEAN
  BY DEF ActivationOK
<1>2. Len(act.refs) \in Nat /\ Stages(act) = Len(act.refs)
  <2>1. Len(act.refs) \in Nat
    BY <1>1, StagesOf
  <2> QED
    BY <2>1 DEF Stages
<1>3. act.stage \in Nat /\ act.stage > 0 /\ act.stage \in 1..Len(act.refs)
  BY <1>1, <1>2 DEF CurrentOK
<1>4. AwaitedSite(act) = NodeRef(act, act.refs[act.stage])
  BY <1>2, <1>3 DEF AwaitedSite
<1>5. /\ p.state = state /\ p.values = Extend(act, value)
      /\ old.state = state /\ old.values = act.current
  BY DEF Partial
<1>6. ArmProgress(act, act.stage - 1, old)
  BY DEF Progress
<1>7. \A i \in 1..act.stage : Knows(p.state, NodeRef(act, act.refs[i]))
  <2> SUFFICES ASSUME NEW i \in 1..act.stage PROVE Knows(p.state, NodeRef(act, act.refs[i]))
    OBVIOUS
  <2>1. CASE i = act.stage
    BY <1>4, <1>5, <2>1 DEF Has
  <2>2. CASE i # act.stage
    <3>1. i \in 1..(act.stage - 1)
      BY <1>3, <2>2
    <3> QED
      BY <1>5, <1>6, <3>1 DEF ArmProgress
  <2> QED
    BY <2>1, <2>2
<1>8. CASE KindOf(act) = "one_hot_sel"
  <2> DEFINE width == NodeOf(act.frame, act.node).width
             or == act.current[1]
  <2>1. or.width = width
        /\ \A x \in state.guard : or.den[x] = OrOf(width, Numbers(x, act, act.stage - 1))
    BY <1>5, <1>6, <1>8 DEF ArmProgress
  <2>2. or \in Values
    <3>1. act.current \in Seq(Values) /\ Len(act.current) = 1
      BY <1>8 DEF CurrentOK, Arity
    <3> QED
      BY <3>1
  <2>3. p.values[1] = DeepOr(or, value)
    BY <1>5, <1>8 DEF Extend, KindOf
  <2>4. p.values[1].width = width
    BY <2>1, <2>3 DEF DeepOr, Bits
  <2>5. ASSUME NEW x \in state.guard
        PROVE  p.values[1].den[x] = OrOf(width, Numbers(x, act, act.stage))
    <3>1. x \in Inputs
      BY GuardIsOfInputs
    <3>2. PICK numbers : numbers = Numbers(x, act, act.stage - 1)
      OBVIOUS
    <3>3. or.den[x] = OrOf(or.width, numbers)
      BY <2>1, <3>2
    <3> HIDE DEF or
    <3>4. DeepOr(or, value).den[x] = OrOf(or.width, numbers \cup {value.den[x]})
      BY <2>2, <3>1, <3>3, OrOfOneMore
    <3>5. value.den[x] = Of(x, NodeRef(act, act.refs[act.stage])).value
      BY <1>4 DEF Has
    <3>6. PICK stage \in Nat : stage = act.stage
      BY <1>3
    <3>7. Numbers(x, act, stage) =
            Numbers(x, act, stage - 1) \cup {Of(x, NodeRef(act, act.refs[stage])).value}
      BY <1>3, <3>6, OneMoreNumber
    <3> QED
      BY <2>1, <2>3, <3>2, <3>4, <3>5, <3>6, <3>7
  <2> QED
    BY <1>5, <1>7, <1>8, <2>4, <2>5 DEF Progress, ArmProgress
<1>9. CASE KindOf(act) # "one_hot_sel"
  <2>1. p.values[1] = value
    BY <1>5, <1>9 DEF Extend, KindOf
  <2>2. act.stage = 1 => Has(p.state, NodeRef(act, act.refs[1]), p.values[1])
    BY <1>4, <1>5, <2>1
  <2> QED
    BY <1>7, <1>9, <2>2 DEF Progress, ArmProgress
<1> QED
  BY <1>8, <1>9

\* A node with one more of its operands.
LEMMA OperandsExtended ==
  ASSUME request \in Requests, NEW act, ActivationOK(act), CurrentOK(act), ~act.arm,
         act.stage <= Len(act.refs), NEW state, NEW value \in Values,
         Progress(act, act.stage - 1, Partial(state, act.current)),
         Has(state, AwaitedSite(act), value),
         NEW p, p = Partial(state, Extend(act, value))
  PROVE  Progress(act, act.stage, p)
<1> DEFINE old == Partial(state, act.current)
<1>1. /\ NodeOK(act.frame, act.node) /\ RefsOK(act) /\ act.stage \in 0..Stages(act)
      /\ act.arm \in BOOLEAN
  BY DEF ActivationOK
<1>2. Len(act.refs) \in Nat /\ Stages(act) \in Nat
  BY <1>1, StagesOf
<1>3. act.stage \in Nat /\ act.stage > 0 /\ act.stage - 1 <= Len(act.refs)
      /\ ~(act.stage > Len(act.refs)) /\ ~(act.stage - 1 > Len(act.refs))
  BY <1>1, <1>2 DEF CurrentOK
<1>4. AwaitedSite(act) = NodeRef(act, act.refs[act.stage])
  BY DEF AwaitedSite
<1>5. /\ p.state = state /\ p.values = Append(act.current, value)
      /\ old.state = state /\ old.values = act.current
  BY <1>3 DEF Partial, Extend
<1>6. \A i \in 1..(act.stage - 1) : Has(state, NodeRef(act, act.refs[i]), act.current[i])
  BY <1>3, <1>5 DEF Progress, NodeProgress
<1>7. act.current \in Seq(Values) /\ Len(act.current) = act.stage - 1
  BY <1>3 DEF CurrentOK, Arity
<1>8. /\ Append(act.current, value)[act.stage] = value
      /\ \A i \in 1..(act.stage - 1) : Append(act.current, value)[i] = act.current[i]
  BY <1>3, <1>7
<1>9. ASSUME NEW i \in 1..act.stage
      PROVE  Has(p.state, NodeRef(act, act.refs[i]), p.values[i])
  <2>1. CASE i = act.stage
    BY <1>4, <1>5, <1>8, <2>1
  <2>2. CASE i # act.stage
    <3>1. i \in 1..(act.stage - 1)
      BY <1>3, <2>2
    <3> QED
      BY <1>5, <1>6, <1>8, <3>1
  <2> QED
    BY <2>1, <2>2
<1> QED
  BY <1>9 DEF Progress, NodeProgress

\* A call has returned.
LEMMA CallExtended ==
  ASSUME request \in Requests, NEW act, ActivationOK(act), ~act.arm,
         act.stage > Len(act.refs), KindOf(act) = "invoke", NEW state, NEW value,
         Progress(act, act.stage - 1, Partial(state, act.current)),
         Has(state, AwaitedSite(act), value),
         NEW p, p = Partial(state, Extend(act, value))
  PROVE  Progress(act, act.stage, p)
<1>1. /\ NodeOK(act.frame, act.node) /\ RefsOK(act) /\ act.stage \in 0..Stages(act)
      /\ act.arm \in BOOLEAN
  BY DEF ActivationOK
<1>2. Len(act.refs) \in Nat /\ Stages(act) = Len(act.refs) + 1
  BY <1>1, StagesOf
<1>3. act.stage \in Nat /\ act.stage - 1 = Len(act.refs) /\ ~(act.stage <= Len(act.refs))
  BY <1>1, <1>2
<1>4. AwaitedSite(act) = Callee(act)
  BY <1>3 DEF AwaitedSite
<1>5. /\ p.state = state /\ p.values = <<value>>
      /\ Partial(state, act.current).state = state
  BY <1>3 DEF Partial, Extend, KindOf
<1>6. \A i \in 1..Len(act.refs) : Knows(state, NodeRef(act, act.refs[i]))
  BY <1>2, <1>3, <1>5 DEF Progress, NodeProgress, Has
<1> QED
  BY <1>3, <1>4, <1>5, <1>6 DEF Progress, NodeProgress, SelectionKinds

\* A selection has the value of one of its arms.
LEMMA SelectionExtended ==
  ASSUME request \in Requests, NEW act, ActivationOK(act), Resolving(act), NEW state, NEW value,
         Knows(state, SelectorSite(act)), SelectionProgress(act, Partial(state, <<value>>)),
         NEW p, p = Partial(state, Extend(act, value))
  PROVE  Progress(act, act.stage, p)
<1>1. NodeOK(act.frame, act.node) /\ RefsOK(act) /\ act.stage \in 0..Stages(act)
      /\ ~act.arm /\ KindOf(act) \in SelectionKinds /\ act.stage > Len(act.refs)
      /\ act.arm \in BOOLEAN
  BY DEF ActivationOK, Resolving
<1>2. Len(act.refs) = 1
  <2>1. ~act.arm /\ KindOf(act) \in SelectionKinds => Len(act.refs) = 1
    BY <1>1, StagesOf
  <2> QED
    BY <1>1, <2>1
<1>3. ~(act.stage <= Len(act.refs))
  BY <1>1, <1>2
<1>4. p = Partial(state, <<value>>) /\ p.state = state
  BY <1>1, <1>3 DEF Partial, Extend, KindOf, SelectionKinds
<1>5. SelectorSite(act) = NodeRef(act, act.refs[1])
  BY <1>1 DEF SelectorSite, RefsOK
<1>6. \A i \in 1..Len(act.refs) : Knows(p.state, NodeRef(act, act.refs[i]))
  BY <1>2, <1>4, <1>5
<1> QED
  BY <1>1, <1>3, <1>4, <1>6 DEF Progress, NodeProgress, SelectionKinds

\* A loop has the state after one more of its iterations.
LEMMA LoopExtended ==
  ASSUME request \in Requests, NEW act, ActivationOK(act), CurrentOK(act), ~act.arm,
         act.stage > Len(act.refs), KindOf(act) = "counted_for", NEW state, NEW value \in Values,
         Progress(act, act.stage - 1, Partial(state, act.current)),
         Has(state, AwaitedSite(act), value),
         NEW p, p = Partial(state, Extend(act, value))
  PROVE  Progress(act, act.stage, p)
<1> DEFINE old == Partial(state, act.current)
           last == act.stage - Len(act.refs) - 1
<1>1. /\ NodeOK(act.frame, act.node) /\ RefsOK(act) /\ act.stage \in 0..Stages(act)
      /\ act.arm \in BOOLEAN
  BY DEF ActivationOK
<1>2. Len(act.refs) \in Nat /\ Stages(act) \in Nat /\ Len(act.refs) > 0
  BY <1>1, StagesOf
<1>3. act.stage \in Nat /\ ~(act.stage <= Len(act.refs)) /\ last \in Nat
      /\ act.stage - 1 - Len(act.refs) = last /\ act.stage - Len(act.refs) = last + 1
  BY <1>1, <1>2
<1>4. AwaitedSite(act) = IterationOf(act, last)
  BY <1>3 DEF AwaitedSite
<1>5. /\ p.state = state /\ p.values = <<value>> \o Tail(act.current)
      /\ old.state = state /\ old.values = act.current
  BY <1>3 DEF Partial, Extend, KindOf
<1>6. act.current \in Seq(Values) /\ Len(act.current) = Len(act.refs)
  <2>1. CASE act.stage - 1 <= Len(act.refs)
    <3>1. act.stage - 1 = Len(act.refs) /\ ~(act.stage - 1 > Len(act.refs))
      BY <1>2, <1>3, <2>1
    <3> QED
      BY <2>1, <3>1 DEF CurrentOK, Arity
  <2>2. CASE ~(act.stage - 1 <= Len(act.refs))
    <3>1. act.stage - 1 > Len(act.refs)
      BY <1>2, <1>3, <2>2
    <3> QED
      BY <2>2, <3>1 DEF CurrentOK, Arity
  <2> QED
    BY <2>1, <2>2
<1>7. /\ p.values[1] = value
      /\ \A i \in 2..Len(act.refs) : p.values[i] = act.current[i]
  <2>1. IsList(act.current) /\ act.current # <<>>
    BY <1>2, <1>6, SeqIsList, EmptyList
  <2>2. PICK rest : rest = Tail(act.current)
    OBVIOUS
  <2>3. /\ IsList(rest) /\ Len(rest) = Len(act.refs) - 1
        /\ \A i \in 1..(Len(act.refs) - 1) : rest[i] = act.current[i + 1]
    BY <1>6, <2>1, <2>2, TailOfList
  <2>4. /\ (<<value>> \o rest)[1] = value
        /\ \A i \in 1..Len(rest) : (<<value>> \o rest)[i + 1] = rest[i]
    BY <2>3, OneMoreBefore
  <2>5. ASSUME NEW i \in 2..Len(act.refs) PROVE p.values[i] = act.current[i]
    <3>1. i - 1 \in 1..(Len(act.refs) - 1) /\ (i - 1) + 1 = i
      BY <1>2
    <3> QED
      BY <1>5, <2>2, <2>3, <2>4, <3>1
  <2> QED
    BY <1>5, <2>2, <2>4, <2>5
<1>8. /\ \A i \in 1..Len(act.refs) : Knows(state, NodeRef(act, act.refs[i]))
      /\ \A k \in 0..(last - 1) : Knows(state, IterationOf(act, k))
      /\ \A i \in 2..Len(act.refs) : Has(state, NodeRef(act, act.refs[i]), act.current[i])
  <2>1. CASE last = 0
    <3>1. act.stage - 1 = Len(act.refs)
      BY <1>2, <1>3, <2>1
    <3>2. \A i \in 1..Len(act.refs) : Has(state, NodeRef(act, act.refs[i]), act.current[i])
      BY <1>2, <1>5, <3>1 DEF Progress, NodeProgress
    <3>3. 0..(last - 1) = {}
      BY <2>1
    <3> QED
      BY <1>2, <3>2, <3>3 DEF Has
  <2>2. CASE last # 0
    <3>1. ~(act.stage - 1 <= Len(act.refs))
      BY <1>2, <1>3, <2>2
    <3>2. /\ \A i \in 1..Len(act.refs) : Knows(state, NodeRef(act, act.refs[i]))
          /\ LoopProgress(act, act.stage - 1 - Len(act.refs), old)
      BY <1>5, <3>1 DEF Progress, NodeProgress
    <3> QED
      BY <1>3, <1>5, <3>2 DEF LoopProgress
  <2> QED
    BY <2>1, <2>2
<1>9. LoopProgress(act, last + 1, p)
  <2>1. ASSUME NEW k \in 0..((last + 1) - 1) PROVE Knows(state, IterationOf(act, k))
    <3>1. CASE k = last
      BY <1>4, <3>1 DEF Has
    <3>2. CASE k # last
      <4>1. k \in 0..(last - 1)
        BY <1>3, <3>2
      <4> QED
        BY <1>8, <4>1
    <3> QED
      BY <3>1, <3>2
  <2>2. (last + 1) - 1 = last
    BY <1>3
  <2>3. \A i \in 2..Len(act.refs) : Has(state, NodeRef(act, act.refs[i]), p.values[i])
    BY <1>7, <1>8
  <2> QED
    BY <1>4, <1>5, <1>7, <2>1, <2>2, <2>3 DEF LoopProgress
<1> QED
  BY <1>3, <1>5, <1>8, <1>9 DEF Progress, NodeProgress, SelectionKinds

\* What an activation does with a candidate returned to it.
LEMMA Extended ==
  ASSUME request \in Requests, NEW act, ActivationOK(act), Awaits(act),
         NEW result, StateOK(result.state), result.value \in Values,
         Behind(act, result.state), Returns(act, result),
         NEW p, p = Partial(result.state, Extend(act, result.value))
  PROVE  Progress(act, act.stage, p)
<1> DEFINE state == result.state
           value == result.value
<1>1. NodeOK(act.frame, act.node) /\ RefsOK(act) /\ act.stage \in 0..Stages(act)
      /\ act.arm \in BOOLEAN
  BY DEF ActivationOK
<1>2. /\ Len(act.refs) \in Nat /\ Stages(act) \in Nat /\ act.stage \in Nat
      /\ act.stage <= Stages(act) /\ KindOf(act) \in NodeKinds
      /\ ~act.arm => KindOf(act) # "param"
  BY <1>1, StagesOf DEF RefsOK
<1>3. CASE Resolving(act)
  <2>1. Knows(state, SelectorSite(act)) /\ SelectionProgress(act, Partial(state, <<value>>))
    BY <1>3 DEF Behind, Returns
  <2> QED
    BY <1>3, <2>1, SelectionExtended
<1>4. CASE ~Resolving(act)
  <2>1. /\ CurrentOK(act) /\ Progress(act, act.stage - 1, Partial(state, act.current))
        /\ Has(state, AwaitedSite(act), value)
    BY <1>4 DEF Awaits, Behind, Returns
  <2> HIDE DEF state, value
  <2>2. CASE act.arm
    BY <2>1, <2>2, ArmExtended DEF state, value
  <2>3. CASE ~act.arm /\ act.stage <= Len(act.refs)
    BY <2>1, <2>3, OperandsExtended DEF state, value
  <2>4. CASE ~act.arm /\ ~(act.stage <= Len(act.refs))
    <3>1. act.stage > Len(act.refs)
      BY <1>2, <2>4
    <3>2. KindOf(act) \notin SelectionKinds
      BY <1>4, <2>4, <3>1 DEF Resolving
    <3>3. ~act.arm /\ KindOf(act) \in {"pure", "unsupported"} => Stages(act) = Len(act.refs)
      BY <1>1, StagesOf
    <3>4. KindOf(act) \notin {"pure", "unsupported"}
      BY <1>2, <2>4, <3>1, <3>3
    <3>5. KindOf(act) \in {"invoke", "counted_for"}
      BY <1>2, <2>4, <3>2, <3>4 DEF NodeKinds
    <3>6. CASE KindOf(act) = "invoke"
      BY <2>1, <2>4, <3>1, <3>6, CallExtended DEF state, value
    <3>7. CASE KindOf(act) = "counted_for"
      BY <2>1, <2>4, <3>1, <3>7, LoopExtended DEF state, value
    <3> QED
      BY <3>5, <3>6, <3>7
  <2> QED
    BY <1>1, <2>2, <2>3, <2>4
<1> QED
  BY <1>3, <1>4

\* Candidates returned are driven one stage further.
LEMMA DeliverRight ==
  ASSUME Typed, EvaluatorMeaning, Deliver
  PROVE  EvaluatorMeaning'
<1>1. stack # <<>> /\ ctl.at = "return"
  BY DEF Deliver
<1>2. PICK act, d : /\ act = Moved(top, top.stage, top.todo, top.current,
                                   top.done \o Delivered, top.arms)
                    /\ d = Depth
  OBVIOUS
<1>3. stack' = <<act>> \o Tail(stack) /\ ctl' = Run /\ request' = request
  BY <1>1, <1>2, TopIsActivation, DeliverMoves
<1>4. /\ act.frame = top.frame /\ act.node = top.node /\ act.arm = top.arm
      /\ act.refs = top.refs /\ act.stage = top.stage /\ act.todo = top.todo
      /\ act.done = top.done \o Delivered /\ act.arms = top.arms
  BY <1>2 DEF Moved
<1>5. IsList(ctl.results) /\ Len(ctl.results) \in Nat
      /\ \A i \in 1..Len(ctl.results) :
           StateOK(ctl.results[i].state) /\ ctl.results[i].value \in Values
  BY <1>1, ListElements DEF Typed, ControlOK
<1>6. request \in Requests /\ ActivationOK(top) /\ Awaits(top)
      /\ IsList(top.done) /\ Len(top.done) \in Nat
  BY <1>1, TopFacts, TopIsActivation, ListElements
<1>7. Depth' = d /\ KeepsActivations(Depth - 1) /\ ActivationAt(d)' = act
  BY <1>1, <1>2, <1>3, Replaced, InnermostNext DEF Typed
<1>8. (\A state : Within(d, state)' <=> Within(d, state)) /\ d \in Nat /\ d > 0
  BY <1>1, <1>2, <1>3, <1>4, <1>7, MovedWithin
<1>9. /\ \A stage, q : Progress(act, stage, q) <=> Progress(top, stage, q)
      /\ \A pending : PendingAt(act, pending) = PendingAt(top, pending)
      /\ \A pending : PendingRight(act, pending) <=> PendingRight(top, pending)
      /\ InductionFits(act) <=> InductionFits(top)
  BY <1>4, SameDrive
<1>10. top = ActivationAt(d)
  BY <1>1, <1>2, TopActivation DEF Typed
<1>11. IsList(Delivered) /\ Len(Delivered) = Len(ctl.results)
  BY <1>5, MakeList DEF Delivered
<1>12. ASSUME NEW i \in 1..Len(Delivered)
       PROVE  Within(d, Delivered[i].state) /\ Progress(top, top.stage, Delivered[i])
  <2>1. PICK result : result = ctl.results[i]
    OBVIOUS
  <2>2. Delivered[i] = Partial(result.state, Extend(top, result.value))
    BY <1>11, <2>1 DEF Delivered
  <2>3. StateOK(result.state) /\ result.value \in Values
    BY <1>5, <1>11, <2>1
  <2>4. InHandOf(d, result.state) /\ Returns(top, result)
    BY <1>1, <1>2, <1>11, <2>1, MeaningParts DEF ReturnRight, Depth
  <2>5. Within(d, result.state) /\ Behind(top, result.state)
    BY <1>8, <1>10, <2>4 DEF InHandOf
  <2>6. Progress(top, top.stage, Delivered[i])
    BY <1>6, <2>2, <2>3, <2>4, <2>5, Extended
  <2> QED
    BY <2>2, <2>5, <2>6 DEF Partial
<1>13. /\ Len(top.done \o Delivered) = Len(top.done) + Len(Delivered)
       /\ \A i \in 1..Len(top.done) : (top.done \o Delivered)[i] = top.done[i]
       /\ \A i \in 1..Len(Delivered) : (top.done \o Delivered)[Len(top.done) + i] = Delivered[i]
  <2>1. IsList(top.done) /\ IsList(Delivered)
    BY <1>6, <1>11
  <2> QED
    BY <2>1, ListsInARow
<1>14. /\ ProperFrame(top.frame) /\ InductionFits(top)
       /\ \A i \in 1..Len(top.todo) : /\ Within(d, top.todo[i].state)
                                      /\ Progress(top, top.stage - 1, top.todo[i])
       /\ \A i \in 1..Len(top.done) : /\ Within(d, top.done[i].state)
                                      /\ Progress(top, top.stage, top.done[i])
       /\ \A i \in 1..Len(top.arms) : /\ Within(d, PendingAt(top, top.arms[i]))
                                      /\ PendingRight(top, top.arms[i])
  BY <1>1, <1>2, TopRight
<1>15. ASSUME NEW i \in 1..Len(act.done)
       PROVE  Within(d, act.done[i].state) /\ Progress(top, top.stage, act.done[i])
  <2>1. CASE i \in 1..Len(top.done)
    BY <1>4, <1>13, <1>14, <2>1
  <2>2. CASE i \notin 1..Len(top.done)
    <3>1. PICK j : j = i - Len(top.done)
      OBVIOUS
    <3>2. j \in 1..Len(Delivered) /\ i = Len(top.done) + j
      <4>1. /\ Len(top.done) \in Nat /\ Len(Delivered) \in Nat
            /\ i \in 1..(Len(top.done) + Len(Delivered))
        BY <1>4, <1>5, <1>6, <1>11, <1>13
      <4> QED
        BY <2>2, <3>1, <4>1
    <3> QED
      BY <1>4, <1>12, <1>13, <3>2
  <2> QED
    BY <2>1, <2>2
<1>16. RightAs(d, act)
  BY <1>4, <1>8, <1>9, <1>14, <1>15 DEF RightAs
<1> QED
  BY <1>1, <1>2, <1>3, <1>4, <1>16, ReplacedRight DEF Run

-----------------------------------------------------------------------------
(***************************************************************************)
(* Stages, and requests that fail.                                         *)
(***************************************************************************)
\* A node beyond the evaluator fails the request of inputs that all demand it.
LEMMA FailRight ==
  ASSUME OutcomesAreConcrete, Typed, EvaluatorMeaning, request' = request, stack # <<>>,
         NEW why, ctl' = Fail(why, States(top.done)), stack' = <<>>,
         ~IsSupported(request, SiteOf(top))
  PROVE  EvaluatorMeaning'
<1>1. request \in Requests /\ NodeOK(top.frame, top.node) /\ Len(top.done) \in Nat
      /\ \A i \in 1..Len(top.done) : StateOK(top.done[i].state)
  BY TopFacts, ListElements DEF PartialOK
<1>2. ProperFrame(top.frame)
  BY TopRight
<1>3. /\ ctl'.at = "fail" /\ Len(ctl'.blamed) = Len(top.done)
      /\ \A i \in 1..Len(top.done) : ctl'.blamed[i] = top.done[i].state
  BY <1>1 DEF Fail, States
<1>4. ASSUME NEW i \in 1..Len(top.done), NEW x \in top.done[i].state.guard
      PROVE  ~Concrete(x).ok
  <2>1. PICK d, state : d = Depth /\ state = top.done[i].state
    OBVIOUS
  <2>2. Within(d, state)
    BY <2>1, TopRight
  <2>3. Serves(top, state)
    BY <2>1, <2>2, WithinTop
  <2>4. Demands(x, SiteOf(top))
    BY <2>1, <2>3 DEF Serves
  <2>5. x \in Inputs
    BY <1>1, GuardIsOfInputs
  <2> QED
    BY <1>1, <1>2, <2>4, <2>5, PartsDemanded DEF SiteOf
<1>5. FailuresAreDemanded'
  <2>1. \A x : Concrete(x)' = Concrete(x)
    BY SameOutcomes
  <2> QED
    BY <1>3, <1>4, <2>1 DEF FailuresAreDemanded
<1>6. Depth' = 0
  BY DEF Depth
<1> QED
  BY <1>3, <1>5, <1>6, MeaningNext

\* What was driven waits for the next stage, unless the loop's induction value
\* has no usize.
LEMMA StageRight ==
  ASSUME OutcomesAreConcrete, Typed, EvaluatorMeaning, NextStage
  PROVE  EvaluatorMeaning'
<1> DEFINE k == top.stage - Len(top.refs)
<1>1. Drained /\ top.stage < Stages(top) /\ ctl.at = "run" /\ stack # <<>> /\ request' = request
      /\ top.todo = <<>> /\ top.arms = <<>>
  BY DEF NextStage, Drained, Typed, ControlOK
<1>2. /\ request \in Requests /\ NodeOK(top.frame, top.node)
      /\ topNode = NodeOf(top.frame, top.node) /\ KindOf(top) = topNode.kind
      /\ top.arm \in BOOLEAN /\ RefsOK(top) /\ top.stage \in Nat /\ Len(top.refs) \in Nat
  BY <1>1, TopFacts
<1>3. ProperFrame(top.frame)
  BY <1>1, TopRight
<1>4. CASE StageOverflows
  <2>1. ctl' = Fail("overflow", States(top.done)) /\ stack' = <<>>
    BY <1>1, <1>4, TopIsActivation, NextStageMoves DEF FailsWith
  <2>2. topNode.kind = "counted_for" /\ ~top.arm /\ k * topNode.stride > MaxUsize
    BY <1>4 DEF StageOverflows, InductionOverflows
  <2>3. k \in 0..(topNode.trip - 1)
    <3>1. topNode.trip \in Nat
      BY <1>2, <2>2, NodeFacts
    <3>2. Stages(top) = Len(top.refs) + topNode.trip
      BY <1>2, <2>2 DEF Stages, KindOf, SelectionKinds
    <3> QED
      BY <1>1, <1>2, <1>4, <3>1, <3>2 DEF StageOverflows
  <2>4. NodeAt(request, SiteOf(top)) = topNode
    BY <1>2 DEF NodeAt, SiteOf, Site, NodeOf
  <2>5. ~(k * topNode.stride <= MaxUsize)
    <3>1. k * topNode.stride \in Nat
      <4>1. topNode.stride \in Nat
        BY <1>2, <2>2, NodeFacts
      <4>2. k \in Nat
        BY <2>3
      <4> HIDE DEF k
      <4> QED
        BY <4>1, <4>2
    <3> HIDE DEF k
    <3> QED
      BY <2>2, <3>1, InputsAssumption
  <2>6. ~IsSupported(request, SiteOf(top))
    BY <2>2, <2>3, <2>4, <2>5 DEF IsSupported
  <2> QED
    BY <1>1, <2>1, <2>6, FailRight
<1>5. CASE ~StageOverflows
  <2>1. PICK act, d : /\ act = Moved(top, top.stage + 1, top.done, top.current, <<>>, top.arms)
                      /\ d = Depth
    OBVIOUS
  <2>2. stack' = <<act>> \o Tail(stack) /\ ctl' = ctl
    BY <1>1, <1>5, <2>1, TopIsActivation, NextStageMoves
  <2>3. /\ act.frame = top.frame /\ act.node = top.node /\ act.arm = top.arm
        /\ act.refs = top.refs /\ act.stage = top.stage + 1 /\ act.todo = top.done
        /\ act.done = <<>> /\ act.arms = <<>>
    BY <1>1, <2>1 DEF Moved
  <2>4. Depth' = d /\ KeepsActivations(Depth - 1) /\ ActivationAt(d)' = act
    BY <1>1, <2>1, <2>2, Replaced, InnermostNext DEF Typed
  <2>5. (\A state : Within(d, state)' <=> Within(d, state)) /\ d \in Nat /\ d > 0
    BY <1>1, <2>1, <2>3, <2>4, MovedWithin
  <2>6. \A stage, q : Progress(act, stage, q) <=> Progress(top, stage, q)
    BY <2>3, SameDrive
  <2>7. /\ InductionFits(top)
        /\ \A i \in 1..Len(top.done) : /\ Within(d, top.done[i].state)
                                       /\ Progress(top, top.stage, top.done[i])
    BY <1>1, <2>1, TopRight
  <2>8. act.stage - 1 = top.stage /\ act.stage - Len(act.refs) - 1 = k
    BY <1>2, <2>3
  <2>9. InductionFits(act)
    <3>1. KindOf(act) = topNode.kind /\ NodeOf(act.frame, act.node) = topNode
      BY <1>2, <2>3 DEF KindOf
    <3>2. SUFFICES ASSUME ~top.arm, topNode.kind = "counted_for", NEW j \in 0..k
                   PROVE  j * topNode.stride <= MaxUsize
      BY <2>3, <2>8, <3>1 DEF InductionFits
    <3>3. CASE j = k
      <4>1. ~(k * topNode.stride > MaxUsize)
        BY <1>2, <1>5, <3>2, <3>3 DEF StageOverflows, InductionOverflows
      <4>2. k * topNode.stride \in Nat
        <5>1. topNode.stride \in Nat
          BY <1>2, <3>2, NodeFacts
        <5>2. k \in Nat
          BY <1>2, <3>2, <3>3
        <5> HIDE DEF k
        <5> QED
          BY <5>1, <5>2
      <4> HIDE DEF k
      <4> QED
        BY <3>3, <4>1, <4>2, InputsAssumption
    <3>4. CASE j # k
      <4>1. j \in 0..(top.stage - Len(top.refs) - 1)
        BY <1>2, <3>2, <3>4
      <4> QED
        BY <1>2, <2>7, <3>2, <4>1 DEF InductionFits
    <3> QED
      BY <3>3, <3>4
  <2>10. RightAs(d, act)
    BY <1>3, <2>3, <2>5, <2>6, <2>7, <2>8, <2>9, EmptyList DEF RightAs
  <2> QED
    BY <1>1, <2>1, <2>2, <2>3, <2>10, ReplacedRight
<1> QED
  BY <1>4, <1>5

-----------------------------------------------------------------------------
(***************************************************************************)
(* Nodes whose last stage has been driven.                                 *)
(***************************************************************************)
\* What a partial of a node that has been driven knows.
LEMMA DrivenNode ==
  ASSUME request \in Requests, NEW act, ActivationOK(act), ~act.arm, act.stage = Stages(act),
         NEW p, Progress(act, act.stage, p), NEW n, n = NodeOf(act.frame, act.node)
  PROVE  /\ act.refs = n.refs /\ Len(n.refs) \in Nat /\ KindOf(act) = n.kind
         /\ n.kind \in NodeKinds /\ n.kind # "param"
         /\ \A i \in 1..Len(n.refs) : Knows(p.state, NodeRef(act, n.refs[i]))
         /\ n.kind = "pure" => \A i \in 1..Len(n.refs) :
                                 Has(p.state, NodeRef(act, n.refs[i]), p.values[i])
         /\ n.kind = "invoke" => Has(p.state, Callee(act), p.values[1])
         /\ n.kind = "counted_for" =>
              /\ n.trip \in Nat /\ act.stage = Len(n.refs) + n.trip
              /\ n.trip = 0 => Has(p.state, NodeRef(act, n.refs[1]), p.values[1])
              /\ n.trip # 0 => LoopProgress(act, n.trip, p)
         /\ n.kind \in SelectionKinds => SelectionProgress(act, p)
<1>1. NodeOK(act.frame, act.node) /\ RefsOK(act) /\ act.arm \in BOOLEAN
  BY DEF ActivationOK
<1>2. act.refs = n.refs /\ KindOf(act) = n.kind /\ n.kind # "param"
  BY <1>1 DEF RefsOK, KindOf
<1>3. Len(n.refs) \in Nat /\ n.kind \in NodeKinds
  BY <1>1, <1>2, StagesOf
<1>4. NodeProgress(act, act.stage, p)
  BY DEF Progress
<1>5. CASE n.kind = "pure" \/ n.kind = "unsupported"
  <2>1. act.stage = Len(n.refs)
    BY <1>2, <1>3, <1>5 DEF Stages, KindOf, SelectionKinds
  <2>2. \A i \in 1..Len(n.refs) : Has(p.state, NodeRef(act, n.refs[i]), p.values[i])
    BY <1>2, <1>3, <1>4, <2>1 DEF NodeProgress
  <2> QED
    BY <1>2, <1>3, <1>5, <2>2 DEF Has, SelectionKinds
<1>6. CASE n.kind = "invoke"
  <2>1. act.stage = Len(n.refs) + 1
    BY <1>2, <1>3, <1>6 DEF Stages, KindOf, SelectionKinds
  <2>2. ~(act.stage <= Len(n.refs))
    BY <1>3, <2>1
  <2> QED
    BY <1>2, <1>3, <1>4, <1>6, <2>2 DEF NodeProgress, SelectionKinds
<1>7. CASE n.kind \in SelectionKinds
  <2>1. act.stage = Len(n.refs) + 1
    BY <1>2, <1>3, <1>7 DEF Stages, KindOf, SelectionKinds
  <2>2. ~(act.stage <= Len(n.refs))
    BY <1>3, <2>1
  <2> QED
    BY <1>2, <1>3, <1>4, <1>7, <2>2 DEF NodeProgress, SelectionKinds
<1>8. CASE n.kind = "counted_for"
  <2>1. n.trip \in Nat /\ Len(n.refs) > 0
    BY <1>1, <1>8, NodeFacts
  <2>2. act.stage = Len(n.refs) + n.trip
    BY <1>2, <1>3, <1>8 DEF Stages, KindOf, SelectionKinds
  <2>3. CASE n.trip = 0
    <3>1. act.stage = Len(n.refs)
      BY <1>3, <2>2, <2>3
    <3>2. \A i \in 1..Len(n.refs) : Has(p.state, NodeRef(act, n.refs[i]), p.values[i])
      BY <1>2, <1>3, <1>4, <3>1 DEF NodeProgress
    <3>3. 1 \in 1..Len(n.refs)
      BY <1>3, <2>1
    <3> QED
      BY <1>2, <1>3, <1>8, <2>1, <2>2, <2>3, <3>2, <3>3 DEF Has, SelectionKinds
  <2>4. CASE n.trip # 0
    <3>1. ~(act.stage <= Len(n.refs)) /\ act.stage - Len(n.refs) = n.trip
      BY <1>3, <2>1, <2>2, <2>4
    <3>2. /\ \A i \in 1..Len(n.refs) : Knows(p.state, NodeRef(act, n.refs[i]))
          /\ LoopProgress(act, act.stage - Len(n.refs), p)
      BY <1>2, <1>4, <1>8, <3>1 DEF NodeProgress
    <3> QED
      BY <1>2, <1>3, <1>8, <2>1, <2>2, <2>4, <3>1, <3>2 DEF SelectionKinds
  <2> QED
    BY <2>3, <2>4
<1> QED
  BY <1>2, <1>3, <1>5, <1>6, <1>7, <1>8 DEF NodeKinds

\* The value of a node that has been driven, of the values a partial has.
ResultOf(n, p) == IF n.kind = "pure" THEN Apply(n, p.values) ELSE p.values[1]

\* A partial of a node that has been driven has what the node's outcome says.
LEMMA NodeKnown ==
  ASSUME OutcomesAreConcrete, PureNodesAreOps, request \in Requests,
         NEW act, ActivationOK(act), ~act.arm, act.stage = Stages(act),
         ProperFrame(act.frame), InductionFits(act),
         NEW p, PartialOK(p, Arity(act, act.stage)), MemoRight(p.state),
         Progress(act, act.stage, p), NEW n, n = NodeOf(act.frame, act.node),
         n.kind # "unsupported", NEW site, site = SiteOf(act), NEW x \in p.state.guard
  PROVE  /\ Of(x, site).ok /\ ResultOf(n, p).den[x] = Of(x, site).value
         /\ Of(x, site).trace \subseteq Entries(p.state.trace)
<1> DEFINE out == Outcomes(request, x)
<1>1. NodeOK(act.frame, act.node) /\ x \in Inputs
  BY GuardIsOfInputs DEF ActivationOK, PartialOK
<1>2. /\ NodeAt(request, site) = n
      /\ Of(x, site) = OutcomeOfParts(request, x, out, site)
  BY <1>1, SiteOutcome DEF SiteOf
<1>3. /\ act.refs = n.refs /\ Len(n.refs) \in Nat /\ KindOf(act) = n.kind
      /\ n.kind \in NodeKinds /\ n.kind # "param"
      /\ \A i \in 1..Len(n.refs) : Knows(p.state, NodeRef(act, n.refs[i]))
      /\ n.kind = "pure" => \A i \in 1..Len(n.refs) :
                              Has(p.state, NodeRef(act, n.refs[i]), p.values[i])
      /\ n.kind = "invoke" => Has(p.state, Callee(act), p.values[1])
      /\ n.kind = "counted_for" =>
           /\ n.trip \in Nat /\ act.stage = Len(n.refs) + n.trip
           /\ n.trip = 0 => Has(p.state, NodeRef(act, n.refs[1]), p.values[1])
           /\ n.trip # 0 => LoopProgress(act, n.trip, p)
      /\ n.kind \in SelectionKinds => SelectionProgress(act, p)
  BY DrivenNode
<1>4. IsSelection(n) <=> n.kind \in SelectionKinds
  BY DEF IsSelection, SelectionKinds
<1>5. ASSUME NEW s \in DemandedSites(request, out, site)
      PROVE  Knows(p.state, s)
  <2>1. \/ \E i \in 1..Len(n.refs) : s = RefSite(site, n.refs[i])
        \/ n.kind = "invoke" /\ s = CalleeSite(request, site)
        \/ /\ n.kind = "counted_for"
           /\ \E k \in 0..(n.trip - 1) : s = IterationSite(request, site, k)
        \/ /\ IsSelection(n)
           /\ \E ref \in Resolution(request, out, site).cases : s = RefSite(site, ref)
    BY <1>2, NodeDemands
  <2>2. CASE \E i \in 1..Len(n.refs) : s = RefSite(site, n.refs[i])
    BY <1>3, <2>2 DEF NodeRef
  <2>3. CASE n.kind = "invoke" /\ s = CalleeSite(request, site)
    BY <1>3, <2>3 DEF Has, Callee
  <2>4. ASSUME n.kind = "counted_for", NEW k \in 0..(n.trip - 1),
               s = IterationSite(request, site, k)
        PROVE  Knows(p.state, s)
    <3>1. n.trip # 0
      BY <1>3, <2>4
    <3> QED
      BY <1>3, <2>4, <3>1 DEF LoopProgress, IterationOf
  <2>5. ASSUME IsSelection(n), NEW ref \in Resolution(request, out, site).cases,
               s = RefSite(site, ref)
        PROVE  Knows(p.state, s)
    BY <1>3, <1>4, <2>5 DEF SelectionProgress, Choice, NodeRef
  <2> QED
    BY <2>1, <2>2, <2>3, <2>4, <2>5
<1>6. OwnEntries(request, out, site) \subseteq Entries(p.state.trace)
  <2>1. CASE IsSelection(n)
    <3>1. Resolved(x, act, p.state.trace)
      BY <1>3, <1>4, <2>1 DEF SelectionProgress
    <3> QED
      BY <1>2, <2>1, <3>1 DEF OwnEntries, Resolved, Choice
  <2>2. CASE ~IsSelection(n)
    BY <1>2, <2>2 DEF OwnEntries
  <2> QED
    BY <2>1, <2>2
<1>7. IsSupported(request, site)
  <2>1. ASSUME n.kind = "counted_for", NEW k \in 0..(n.trip - 1)
        PROVE  k * n.stride <= MaxUsize
    <3>1. k \in 0..(act.stage - Len(act.refs) - 1)
      BY <1>3, <2>1
    <3> QED
      BY <1>3, <2>1, <3>1 DEF InductionFits
  <2> QED
    BY <1>2, <2>1 DEF IsSupported
<1>8. Of(x, site).ok /\ Of(x, site).trace \subseteq Entries(p.state.trace)
  <2>1. PICK state : state = p.state
    OBVIOUS
  <2> QED
    BY <1>1, <1>5, <1>6, <1>7, <2>1, SiteKnown DEF SiteOf
<1>9. Of(x, site).value = NodeValue(request, x, out, site)
  BY <1>2 DEF OutcomeOfParts
<1>10. CASE n.kind = "pure"
  <2> DEFINE values == p.values
  <2>1. values \in Seq(Values) /\ Len(values) = Len(n.refs)
    <3>1. act.stage = Len(act.refs)
      BY <1>3, <1>10 DEF Stages, KindOf, SelectionKinds
    <3>2. Arity(act, act.stage) = Len(n.refs)
      BY <1>3, <3>1 DEF Arity
    <3> QED
      BY <3>2 DEF PartialOK
  <2>2. values \in [1..Len(n.refs) -> Values]
    BY <2>1
  <2>3. Apply(n, values).den[x] = Op(n, On(values, x))
    <3>1. /\ act.frame.fn \in DOMAIN request.fns
          /\ act.node \in 1..Len(request.fns[act.frame.fn].nodes)
          /\ n = request.fns[act.frame.fn].nodes[act.node]
      BY <1>1 DEF NodeOK, FrameOK, NodeOf
    <3> DEFINE Denotes(nd) == \A vs \in [1..Len(nd.refs) -> Values] : \A z \in Inputs :
                                Apply(nd, vs).den[z] = Op(nd, On(vs, z))
    <3>2. \A fn \in DOMAIN request.fns : \A i \in 1..Len(request.fns[fn].nodes) :
            request.fns[fn].nodes[i].kind = "pure" => Denotes(request.fns[fn].nodes[i])
      BY Zenon DEF PureNodesAreOps, PureNodesDenote
    <3> HIDE DEF Denotes
    <3>3. Denotes(n)
      BY <1>10, <3>1, <3>2
    <3> QED
      BY <1>1, <2>2, <3>3, Zenon DEF Denotes
  <2>4. \A k \in 1..Len(n.refs) : values[k].den[x] = ValueOf(out, RefSite(site, n.refs[k]))
    BY <1>3, <1>10 DEF Has, NodeRef, ValueOf, Of
  <2>5. On(values, x) = OperandValues(request, out, site)
    BY <1>2, <2>1, <2>4 DEF On, OperandValues
  <2>6. NodeValue(request, x, out, site) = Op(n, OperandValues(request, out, site))
    BY <1>2, <1>10, ValueByKind
  <2> QED
    BY <1>8, <1>9, <1>10, <2>3, <2>5, <2>6 DEF ResultOf
<1>11. CASE n.kind = "invoke"
  <2>1. NodeValue(request, x, out, site) = ValueOf(out, CalleeSite(request, site))
    BY <1>2, <1>11, ValueByKind
  <2>2. p.values[1].den[x] = Of(x, Callee(act)).value
    BY <1>3, <1>11 DEF Has
  <2> QED
    BY <1>8, <1>9, <1>11, <2>1, <2>2 DEF ResultOf, Callee, ValueOf, Of
<1>12. CASE n.kind = "counted_for"
  <2>1. NodeValue(request, x, out, site) =
          IF n.trip = 0 THEN ValueOf(out, RefSite(site, n.refs[1]))
          ELSE ValueOf(out, IterationSite(request, site, n.trip - 1))
    BY <1>2, <1>12, ValueByKind
  <2>2. n.trip = 0 => p.values[1].den[x] = Of(x, NodeRef(act, n.refs[1])).value
    BY <1>3, <1>12 DEF Has
  <2>3. n.trip # 0 => p.values[1].den[x] = Of(x, IterationOf(act, n.trip - 1)).value
    BY <1>3, <1>12 DEF LoopProgress, Has
  <2> QED
    BY <1>8, <1>9, <1>12, <2>1, <2>2, <2>3
       DEF ResultOf, NodeRef, IterationOf, ValueOf, Of
<1>13. CASE n.kind \in SelectionKinds
  <2>1. NodeValue(request, x, out, site) = SelectionValue(request, out, site)
    BY <1>2, <1>4, <1>13, ValueByKind
  <2>2. p.values[1].den[x] = SelectionValue(request, out, site)
    BY <1>3, <1>13 DEF SelectionProgress
  <2> QED
    BY <1>8, <1>9, <1>13, <2>1, <2>2 DEF ResultOf, SelectionKinds
<1> QED
  BY <1>3, <1>10, <1>11, <1>12, <1>13 DEF NodeKinds

-----------------------------------------------------------------------------
(***************************************************************************)
(* Activations that return.                                                *)
(***************************************************************************)
\* A candidate that an activation hands back to the one below it.
HandsBack(d, below, result) ==
  /\ InHandOf(d - 1, result.state)
  /\ IF d = 1 THEN Has(result.state, ResultSite(request), result.value) ELSE Returns(below, result)

\* The innermost activation returns.
LEMMA PoppedRight ==
  ASSUME Typed, EvaluatorMeaning, request' = request, stack # <<>>, stack' = Tail(stack),
         NEW d, d = Depth, NEW below, below = ActivationAt(d - 1),
         NEW returned, ctl' = Return(returned),
         \A i \in 1..Len(returned) : HandsBack(d, below, returned[i])
  PROVE  EvaluatorMeaning'
<1>1. IsList(stack) /\ d \in Nat /\ d > 0 /\ d - 1 \in Nat
  BY TopRight DEF Typed
<1>2. IsList(stack)' /\ Depth' = d - 1 /\ KeepsActivations(d - 1)
  BY <1>1, Popped
<1>3. \A e \in 1..(d - 1) : ActivationRight(e) /\ LinkedAt(e)
  <2>1. \A e \in 1..(d - 1) : e \in 1..Depth
    BY <1>1
  <2> QED
    BY <2>1, MeaningParts
<1>4. \A e \in 1..Depth' : ActivationRight(e)' /\ LinkedAt(e)'
  BY <1>1, <1>2, <1>3, KeptRight, KeptLinked
<1>5. ctl'.at = "return" /\ ctl'.results = returned
  BY DEF Return
<1>6. ASSUME NEW i \in 1..Len(returned)
      PROVE  InHandOf(d - 1, returned[i].state)'
  <2>1. InHandOf(d - 1, returned[i].state) /\ d - 1 \in 0..(d - 1)
    BY <1>1 DEF HandsBack
  <2> QED
    BY <1>1, <1>2, <2>1, InHandKept
<1>7. CASE d = 1
  <2>1. stack' = <<>>
    <3>1. PICK rest : rest = stack'
      OBVIOUS
    <3>2. IsList(rest) /\ Len(rest) = 0
      BY <1>2, <1>7, <3>1 DEF Depth, IsList
    <3> QED
      BY <3>1, <3>2, EmptyList
  <2>2. \A i \in 1..Len(returned) : Has(returned[i].state, ResultSite(request), returned[i].value)'
    BY <1>7, SameOutcomes DEF HandsBack
  <2>3. ReturnRight'
    BY <1>2, <1>5, <1>6, <2>1, <2>2 DEF ReturnRight, Depth
  <2> QED
    BY <1>4, <1>5, <2>3, MeaningNext DEF FailuresAreDemanded, Failed
<1>8. CASE d # 1
  <2>1. stack' # <<>> /\ d - 1 \in 1..(d - 1)
    BY <1>1, <1>2, <1>8, EmptyList DEF Depth, IsList
  <2>2. top' = below
    <3>1. (IsList(stack) /\ stack # <<>> => top = ActivationAt(Depth))'
      BY TopActivation, PTL
    <3>2. top' = ActivationAt(Depth)'
      BY <1>2, <2>1, <3>1
    <3>3. ActivationAt(d - 1)' = below
      BY <1>2, <2>1 DEF KeepsActivations
    <3> QED
      BY <1>2, <3>2, <3>3 DEF ActivationAt
  <2>3. \A i \in 1..Len(returned) : Returns(below, returned[i])'
    BY <1>8, SameWaiting DEF HandsBack
  <2>4. ReturnRight'
    BY <1>2, <1>5, <1>6, <2>1, <2>2, <2>3 DEF ReturnRight, Depth
  <2> QED
    BY <1>4, <1>5, <2>4, MeaningNext DEF FailuresAreDemanded, Failed
<1> QED
  BY <1>7, <1>8

\* A candidate that a node has been driven for goes back with the node's value.
LEMMA NodeHandsBack ==
  ASSUME OutcomesAreConcrete, PureNodesAreOps, Typed, EvaluatorMeaning, FinishNode,
         ~Unsupported(top), NEW d, d = Depth, NEW below, below = ActivationAt(d - 1),
         NEW i \in 1..Len(top.done), NEW p, p = top.done[i], NEW n, n = topNode,
         NEW value, value = ResultOf(n, p),
         NEW result, result = Evaluated(Remember(p.state, topSite, value), value)
  PROVE  HandsBack(d, below, result)
<1>1. stack # <<>> /\ top.stage = Stages(top) /\ ~top.arm
  BY DEF FinishNode, Drained, Typed, ControlOK
<1>2. PICK act : act = top
  OBVIOUS
<1>3. /\ request \in Requests /\ ActivationOK(act) /\ n = NodeOf(act.frame, act.node)
      /\ PartialOK(p, Arity(act, act.stage)) /\ topSite = SiteOf(act)
  BY <1>1, <1>2, TopFacts, TopIsActivation DEF topSite, SiteOf
<1>4. n.kind # "unsupported"
  <2>1. IsList(top.done) /\ top.done # <<>>
    BY <1>1, TopFacts, EmptyList
  <2> QED
    BY <2>1 DEF Unsupported, topNode
<1>5. /\ ProperFrame(act.frame) /\ InductionFits(act)
      /\ Within(d, p.state) /\ Progress(act, act.stage, p)
      /\ LinkAs(d, act, below) /\ d \in Nat /\ d > 0 /\ d - 1 \in Nat
  BY <1>1, <1>2, TopRight
<1>6. /\ StateRight(p.state) /\ InHandOf(d - 1, p.state) /\ StateOK(p.state)
  BY <1>1, <1>3, <1>5, WithinTop DEF PartialOK
<1>7. PICK site, new : site = SiteOf(act) /\ new = Remember(p.state, site, value)
  OBVIOUS
<1>8. \A x \in p.state.guard : /\ Of(x, site).ok /\ value.den[x] = Of(x, site).value
                               /\ Of(x, site).trace \subseteq Entries(p.state.trace)
  BY <1>1, <1>2, <1>3, <1>4, <1>5, <1>6, <1>7, NodeKnown DEF StateRight
<1>9. StateRight(new) /\ Narrows(p.state, new) /\ Has(new, site, value)
  <2>1. PICK state : state = p.state
    OBVIOUS
  <2> QED
    BY <1>6, <1>7, <1>8, <2>1, RememberRight
<1>10. InHandOf(d - 1, new)
  BY <1>5, <1>6, <1>9, InHandNarrowed
<1>11. result.state = new /\ result.value = value
  BY <1>3, <1>7 DEF Evaluated
<1>12. CASE d = 1
  BY <1>5, <1>7, <1>9, <1>10, <1>11, <1>12 DEF LinkAs, HandsBack
<1>13. CASE d # 1
  <2>1. ~Resolving(below) /\ site = AwaitedSite(below)
    BY <1>1, <1>2, <1>5, <1>7, <1>13 DEF LinkAs
  <2> QED
    BY <1>9, <1>10, <1>11, <1>13, <2>1 DEF HandsBack, Returns
<1> QED
  BY <1>12, <1>13

\* A node is answered for every candidate, or is one the evaluator does not support.
LEMMA FinishNodeRight ==
  ASSUME OutcomesAreConcrete, PureNodesAreOps, Typed, EvaluatorMeaning, FinishNode
  PROVE  EvaluatorMeaning'
<1>1. stack # <<>> /\ request' = request
  BY DEF FinishNode, Drained, Typed, ControlOK
<1>2. CASE Unsupported(top)
  <2>1. NodeOK(top.frame, top.node) /\ request \in Requests /\ ProperFrame(top.frame)
    BY <1>1, TopFacts, TopRight
  <2>2. NodeAt(request, SiteOf(top)).kind = "unsupported"
    BY <1>2, <2>1, SiteOutcome DEF Unsupported, SiteOf
  <2>3. ~IsSupported(request, SiteOf(top))
    BY <2>2 DEF IsSupported
  <2>4. ctl' = Fail("unsupported", States(top.done)) /\ stack' = <<>>
    BY <1>2 DEF FinishNode
  <2> QED
    BY <1>1, <2>3, <2>4, FailRight
<1>3. CASE ~Unsupported(top)
  <2>1. ctl' = Return(NodeResults(top)) /\ stack' = Tail(stack)
    BY <1>3 DEF FinishNode
  <2>2. PICK returned, d, below, n :
          returned = NodeResults(top) /\ d = Depth /\ below = ActivationAt(d - 1) /\ n = topNode
    OBVIOUS
  <2>3. returned = [i \in 1..Len(top.done) |->
          Evaluated(Remember(top.done[i].state, topSite, ResultOf(n, top.done[i])),
                    ResultOf(n, top.done[i]))]
    BY <2>2 DEF NodeResults, topNode, topSite, ResultOf
  <2>4. Len(returned) = Len(top.done)
    <3>1. Len(top.done) \in Nat
      BY <1>1, TopFacts, ListElements
    <3> QED
      BY <2>3, <3>1, MakeList
  <2>5. ASSUME NEW i \in 1..Len(returned)
        PROVE  HandsBack(d, below, returned[i])
    <3>1. PICK p, value, result :
            /\ p = top.done[i] /\ value = ResultOf(n, p)
            /\ result = Evaluated(Remember(p.state, topSite, value), value)
      OBVIOUS
    <3>2. returned[i] = result
      BY <2>3, <2>4, <3>1
    <3> QED
      BY <1>3, <2>2, <2>4, <3>1, <3>2, NodeHandsBack
  <2> QED
    BY <1>1, <2>1, <2>2, <2>5, PoppedRight
<1> QED
  BY <1>2, <1>3

\* An arm that has been driven has the value of its selection.
LEMMA ArmDriven ==
  ASSUME request \in Requests, NEW act, ActivationOK(act), act.arm, act.stage = Stages(act),
         NEW p, Progress(act, act.stage, p), Serves(act, p.state),
         NEW q, q = Partial(p.state, <<p.values[1]>>)
  PROVE  SelectionProgress(act, q)
<1> DEFINE n == NodeOf(act.frame, act.node)
           site == SiteOf(act)
<1>1. act.stage = Len(act.refs) /\ Len(act.refs) \in Nat /\ NodeOK(act.frame, act.node)
      /\ KindOf(act) = n.kind /\ n.kind \in SelectionKinds
      /\ (n.kind # "one_hot_sel" => Len(act.refs) = 1)
  <2>1. act.arm \in BOOLEAN /\ NodeOK(act.frame, act.node) /\ RefsOK(act)
    BY DEF ActivationOK
  <2>2. Len(act.refs) \in Nat
    BY <2>1, StagesOf
  <2>3. Stages(act) = Len(act.refs)
    BY <2>2 DEF Stages
  <2> QED
    BY <2>1, <2>2, <2>3 DEF RefsOK, KindOf
<1>2. NodeAt(request, site) = n
  BY DEF NodeAt, SiteOf, Site, NodeOf
<1>3. ArmProgress(act, Len(act.refs), p)
  BY <1>1 DEF Progress
<1>4. q.state = p.state /\ q.values[1] = p.values[1]
  BY DEF Partial
<1>5. ASSUME NEW x \in p.state.guard
      PROVE  /\ Resolved(x, act, p.state.trace)
             /\ \A ref \in Choice(x, act).cases : Knows(p.state, NodeRef(act, ref))
             /\ p.values[1].den[x] = SelectionValue(request, Outcomes(request, x), site)
  <2> DEFINE out == Outcomes(request, x)
             cases == Resolution(request, out, site).cases
  <2>1. Resolved(x, act, p.state.trace) /\ Elements(act.refs) = Choice(x, act).cases
    BY DEF Serves
  <2>2. Choice(x, act).cases = cases
    BY DEF Choice
  <2>3. \A ref \in cases : \E i \in 1..Len(act.refs) : ref = act.refs[i]
    BY <2>1, <2>2 DEF Elements
  <2>4. \A i \in 1..Len(act.refs) : act.refs[i] \in cases
    BY <2>1, <2>2 DEF Elements
  <2>5. \A ref \in cases : Knows(p.state, NodeRef(act, ref))
    BY <1>3, <2>3 DEF ArmProgress
  <2>6. CASE n.kind = "one_hot_sel"
    <3>1. p.values[1].den[x] = OrOf(n.width, Numbers(x, act, Len(act.refs)))
      BY <1>1, <1>3, <2>6 DEF ArmProgress
    <3>2. Numbers(x, act, Len(act.refs)) = {ValueOf(out, RefSite(site, ref)) : ref \in cases}
      <4>1. ASSUME NEW v \in Numbers(x, act, Len(act.refs))
            PROVE  \E ref \in cases : v = ValueOf(out, RefSite(site, ref))
        <5>1. PICK i \in 1..Len(act.refs) : v = Of(x, NodeRef(act, act.refs[i])).value
          BY <4>1 DEF Numbers
        <5> QED
          BY <2>4, <5>1 DEF ValueOf, Of, NodeRef
      <4>2. ASSUME NEW ref \in cases
            PROVE  ValueOf(out, RefSite(site, ref)) \in Numbers(x, act, Len(act.refs))
        <5>1. PICK i \in 1..Len(act.refs) : ref = act.refs[i]
          BY <2>3
        <5> QED
          BY <5>1 DEF ValueOf, Of, NodeRef, Numbers
      <4> QED
        BY <4>1, <4>2
    <3>3. SelectionValue(request, out, site) =
            OrOf(n.width, {ValueOf(out, RefSite(site, ref)) : ref \in cases})
      BY <1>2, <2>6 DEF SelectionValue
    <3> QED
      BY <2>1, <2>2, <2>5, <3>1, <3>2, <3>3
  <2>7. CASE n.kind # "one_hot_sel"
    <3>1. Len(act.refs) = 1
      BY <1>1, <2>7
    <3>2. p.values[1].den[x] = Of(x, NodeRef(act, act.refs[1])).value
      BY <1>1, <1>3, <2>7, <3>1 DEF ArmProgress, Has
    <3>3. (CHOOSE ref \in cases : TRUE) = act.refs[1]
      BY <2>3, <2>4, <3>1
    <3>4. SelectionValue(request, out, site) =
            ValueOf(out, RefSite(site, CHOOSE ref \in cases : TRUE))
      BY <1>2, <2>7 DEF SelectionValue
    <3> QED
      BY <2>1, <2>2, <2>5, <3>2, <3>3, <3>4 DEF ValueOf, Of, NodeRef
  <2> QED
    BY <2>6, <2>7
<1> QED
  BY <1>4, <1>5 DEF SelectionProgress

\* An arm hands its candidates to its selection.
LEMMA FinishArmRight ==
  ASSUME Typed, Descending, EvaluatorMeaning, FinishArm
  PROVE  EvaluatorMeaning'
<1>1. /\ stack # <<>> /\ request' = request /\ top.arm /\ top.stage = Stages(top)
      /\ ctl' = Return(ArmResults(top)) /\ stack' = Tail(stack)
  BY DEF FinishArm, Drained, Typed, ControlOK
<1>2. PICK act, d, below, returned :
        act = top /\ d = Depth /\ below = ActivationAt(d - 1) /\ returned = ArmResults(top)
  OBVIOUS
<1>3. request \in Requests /\ ActivationOK(act) /\ Len(act.done) \in Nat
  BY <1>1, <1>2, TopFacts, TopIsActivation, ListElements
<1>4. act = ActivationAt(d) /\ d \in 1..Depth
  BY <1>1, <1>2, TopActivation DEF Typed
<1>5. d # 1 /\ SiteOf(act) = SiteOf(below) /\ Resolving(below)
  BY <1>1, <1>2, <1>4 DEF Descending, SiteAt, Depth
<1>6. Len(returned) = Len(act.done)
      /\ \A i \in 1..Len(returned) :
           returned[i] = Evaluated(act.done[i].state, act.done[i].values[1])
  BY <1>2, <1>3 DEF ArmResults
<1>7. ASSUME NEW i \in 1..Len(returned)
      PROVE  HandsBack(d, below, returned[i])
  <2>1. PICK p, q : p = act.done[i] /\ q = Partial(p.state, <<p.values[1]>>)
    OBVIOUS
  <2>2. Within(d, p.state) /\ Progress(act, act.stage, p)
    BY <1>1, <1>2, <1>6, <2>1, TopRight
  <2>3. Serves(act, p.state) /\ InHandOf(d - 1, p.state)
    BY <1>1, <1>2, <2>2, WithinTop
  <2>4. SelectionProgress(act, q)
    BY <1>1, <1>2, <1>3, <2>1, <2>2, <2>3, ArmDriven
  <2>5. SelectionProgress(below, q)
    BY <1>5, <2>4 DEF SelectionProgress, Resolved, Choice, NodeRef
  <2>6. returned[i].state = p.state /\ returned[i].value = p.values[1]
    <3>1. returned[i] = Evaluated(p.state, p.values[1])
      BY <1>6, <2>1
    <3> QED
      BY <3>1 DEF Evaluated
  <2> QED
    BY <1>5, <2>1, <2>3, <2>5, <2>6 DEF HandsBack, Returns
<1> QED
  BY <1>1, <1>2, <1>7, PoppedRight

-----------------------------------------------------------------------------
(***************************************************************************)
(* Selections that take their arms.                                        *)
(***************************************************************************)
\* Partials, and arms, that the innermost activation may have waiting.
WaitRight(d, todo) ==
  \A i \in 1..Len(todo) : Within(d, todo[i].state) /\ Progress(top, top.stage - 1, todo[i])
ArmsRight(d, arms) ==
  \A i \in 1..Len(arms) : Within(d, PendingAt(top, arms[i])) /\ PendingRight(top, arms[i])

\* The innermost activation moves on with other partials or arms waiting.
LEMMA MovedRight ==
  ASSUME Typed, EvaluatorMeaning, request' = request, stack # <<>>, NEW todo, NEW arms,
         NEW act, act = Moved(top, top.stage, todo, top.current, top.done, arms),
         NEW d, d = Depth, KeepsActivations(Depth - 1), ActivationAt(d)' = act,
         WaitRight(d, todo), ArmsRight(d, arms)
  PROVE  RightAs(d, act)
<1>1. /\ act.frame = top.frame /\ act.node = top.node /\ act.arm = top.arm
      /\ act.refs = top.refs /\ act.stage = top.stage /\ act.todo = todo
      /\ act.done = top.done /\ act.arms = arms
  BY DEF Moved
<1>2. \A state : Within(d, state)' <=> Within(d, state)
  BY <1>1, MovedWithin
<1>3. /\ \A stage, q : Progress(act, stage, q) <=> Progress(top, stage, q)
      /\ \A pending : PendingAt(act, pending) = PendingAt(top, pending)
      /\ \A pending : PendingRight(act, pending) <=> PendingRight(top, pending)
      /\ InductionFits(act) <=> InductionFits(top)
  BY <1>1, SameDrive
<1>4. /\ ProperFrame(top.frame) /\ InductionFits(top)
      /\ \A i \in 1..Len(top.done) : /\ Within(d, top.done[i].state)
                                     /\ Progress(top, top.stage, top.done[i])
  BY TopRight
<1> QED
  BY <1>1, <1>2, <1>3, <1>4 DEF RightAs, WaitRight, ArmsRight

\* The innermost activation moves on in place.
LEMMA MovedInPlace ==
  ASSUME Typed, EvaluatorMeaning, request' = request, stack # <<>>, NEW todo, NEW arms,
         NEW d, d = Depth, WaitRight(d, todo), ArmsRight(d, arms), ctl'.at = "run",
         stack' = <<Moved(top, top.stage, todo, top.current, top.done, arms)>> \o Tail(stack)
  PROVE  EvaluatorMeaning'
<1>1. PICK act : act = Moved(top, top.stage, todo, top.current, top.done, arms)
  OBVIOUS
<1>2. stack' = <<act>> \o Tail(stack)
  BY <1>1
<1>3. KeepsActivations(Depth - 1) /\ ActivationAt(d)' = act
  BY <1>2, Replaced, InnermostNext DEF Typed
<1>4. RightAs(d, act)
  BY <1>1, <1>3, MovedRight
<1>5. act.frame = top.frame /\ act.node = top.node /\ act.arm = top.arm
  BY <1>1 DEF Moved
<1> QED
  BY <1>2, <1>4, <1>5, ReplacedRight

\* What a fresh arm is given: the candidate has resolved the selection to it.
ArmGiven(state, demand) ==
  /\ Knows(state, SelectorSite(top))
  /\ \A x \in state.guard :
       Resolved(x, top, state.trace) /\ Elements(demand) = Choice(x, top).cases

\* An arm starts from nothing.
LEMMA ArmStarts ==
  ASSUME Typed, stack # <<>>, Resolving(top), NEW state, NEW demand,
         StateOK(state), ArmGiven(state, demand), Serves(top, state),
         NEW act, act = ArmActivation(top.frame, top.node, demand, state)
  PROVE  /\ act.frame = top.frame /\ act.node = top.node /\ act.arm /\ act.stage = 0
         /\ act.todo = <<>> /\ act.arms = <<>> /\ Len(act.done) = 1
         /\ act.done[1].state = state /\ Progress(act, 0, act.done[1]) /\ Serves(act, state)
         /\ InductionFits(act)
<1>1. /\ request \in Requests /\ NodeOK(top.frame, top.node) /\ KindOf(top) = topNode.kind
      /\ topNode = NodeOf(top.frame, top.node) /\ topNode.kind \in SelectionKinds
  BY TopFacts DEF Resolving
<1> DEFINE start == IF topNode.kind = "one_hot_sel" THEN <<ConstantBits(topNode.width, 0)>>
                    ELSE <<>>
<1>2. /\ act.frame = top.frame /\ act.node = top.node /\ act.arm /\ act.stage = 0
      /\ act.todo = <<>> /\ act.arms = <<>> /\ act.done = <<Partial(state, start)>>
      /\ act.refs = demand
  BY DEF ArmActivation, topNode
<1>3. Len(act.done) = 1 /\ act.done[1] = Partial(state, start)
  BY <1>2
<1>4. act.done[1].state = state /\ act.done[1].values = start
  BY <1>3 DEF Partial
<1>5. NodeOf(act.frame, act.node) = topNode /\ KindOf(act) = topNode.kind
  BY <1>1, <1>2 DEF KindOf
<1>6. Progress(act, 0, act.done[1])
  <2>1. \A i \in 1..0 : Knows(act.done[1].state, NodeRef(act, act.refs[i]))
    OBVIOUS
  <2>2. CASE KindOf(act) = "one_hot_sel"
    <3>1. act.done[1].values[1] = ConstantBits(topNode.width, 0)
      BY <1>4, <1>5, <2>2
    <3>2. topNode.width \in Nat
      BY <1>1, NodeFacts
    <3>3. PICK zero : zero = ConstantBits(topNode.width, 0)
      OBVIOUS
    <3>4. zero.width = topNode.width /\ \A x : x \in Inputs => zero.den[x] = 0
      BY <3>3 DEF ConstantBits, Bits
    <3>5. \A x \in state.guard : x \in Inputs
      BY <1>1, GuardIsOfInputs
    <3>6. \A x : Numbers(x, act, 0) = {}
      BY DEF Numbers
    <3>7. \A x \in state.guard : zero.den[x] = OrOf(topNode.width, Numbers(x, act, 0))
      BY <3>4, <3>5, <3>6, OrOfNone
    <3> QED
      BY <1>2, <1>4, <1>5, <2>1, <2>2, <3>1, <3>3, <3>4, <3>7 DEF Progress, ArmProgress
  <2>3. CASE KindOf(act) # "one_hot_sel"
    BY <1>2, <2>1, <2>3 DEF Progress, ArmProgress
  <2> QED
    BY <2>2, <2>3
<1>7. SiteOf(act) = SiteOf(top)
  BY <1>2 DEF SiteOf
<1>8. Serves(act, state)
  BY <1>2, <1>7 DEF Serves, ArmGiven, Resolved, Choice
<1> QED
  BY <1>2, <1>3, <1>4, <1>6, <1>8 DEF InductionFits

\* The innermost activation moves on and an arm of it is entered.
LEMMA IntoArmRight ==
  ASSUME Typed, EvaluatorMeaning, request' = request, stack # <<>>, Resolving(top),
         NEW todo, NEW arms, NEW under,
         under = Moved(top, top.stage, todo, top.current, top.done, arms),
         NEW d, d = Depth, WaitRight(d, todo), ArmsRight(d, arms), ctl'.at = "run",
         NEW state, NEW demand, StateOK(state), ArmGiven(state, demand), Within(d, state),
         stack' = <<ArmActivation(top.frame, top.node, demand, state)>> \o (<<under>> \o Tail(stack))
  PROVE  EvaluatorMeaning'
<1>1. PICK act, e : act = ArmActivation(top.frame, top.node, demand, state) /\ e = d + 1
  OBVIOUS
<1>2. IsList(stack) /\ d \in Nat /\ d > 0 /\ d - 1 \in Nat /\ e \in Nat /\ e > 0 /\ e - 1 = d
  BY <1>1, TopRight DEF Typed
<1>3. /\ Depth' = e /\ KeepsActivations(d - 1)
      /\ ActivationAt(Depth - 1)' = under /\ ActivationAt(Depth)' = act
  <2>1. stack' = <<act>> \o (<<under>> \o Tail(stack))
    BY <1>1
  <2> QED
    BY <1>1, <1>2, <2>1, ReplacedAndPushed
<1>4. ActivationAt(d)' = under /\ ActivationAt(e)' = act
  BY <1>2, <1>3 DEF ActivationAt
<1>5. /\ under.frame = top.frame /\ under.node = top.node /\ under.arm = top.arm
      /\ under.refs = top.refs /\ under.stage = top.stage
  BY DEF Moved
<1>6. RightAs(d, under)
  BY <1>2, <1>3, <1>4, MovedRight
<1>7. Serves(top, state)
  BY WithinTop
<1>8. /\ act.frame = top.frame /\ act.node = top.node /\ act.arm /\ act.stage = 0
      /\ act.todo = <<>> /\ act.arms = <<>> /\ Len(act.done) = 1
      /\ act.done[1].state = state /\ Progress(act, 0, act.done[1]) /\ Serves(act, state)
      /\ InductionFits(act)
  BY <1>1, <1>7, ArmStarts
<1>9. Resolving(under) /\ SelectorSite(under) = SelectorSite(top)
  BY <1>5, SameShape, SameDrive
<1>10. Within(e, state)'
  <2>1. Within(d, state)'
    BY <1>3, <1>4, <1>5, MovedWithin
  <2>2. Behind(under, state)
    BY <1>9 DEF Behind, ArmGiven
  <2>3. InHandOf(d, state)'
    BY <1>2, <1>4, <2>1, <2>2, WithinNext
  <2>4. InHandOf(e - 1, state)'
    BY <1>2, <2>3
  <2> QED
    BY <1>2, <1>4, <1>8, <2>4, WithinNext
<1>11. RightAs(e, act)
  <2>1. ProperFrame(act.frame)
    BY <1>8, TopRight
  <2>2. \A i \in 1..Len(act.todo) : FALSE
    BY <1>8, EmptyList
  <2>3. \A i \in 1..Len(act.arms) : FALSE
    BY <1>8, EmptyList
  <2>4. \A i \in 1..Len(act.done) : i = 1
    BY <1>8
  <2>5. \A i \in 1..Len(act.done) :
          Within(e, act.done[i].state)' /\ Progress(act, act.stage, act.done[i])
    BY <1>8, <1>10, <2>4
  <2> QED
    BY <1>8, <2>1, <2>2, <2>3, <2>5 DEF RightAs
<1>12. \A c \in 1..(d - 1) : ActivationRight(c)' /\ LinkedAt(c)'
  <2>1. \A c \in 1..(d - 1) : c \in 1..Depth
    BY <1>2
  <2>2. \A c \in 1..(d - 1) : ActivationRight(c) /\ LinkedAt(c)
    BY <2>1, MeaningParts
  <2> QED
    BY <1>2, <1>3, <2>2, KeptRight, KeptLinked
<1>13. ActivationRight(d)' /\ ActivationRight(e)'
  BY <1>4, <1>6, <1>11, RightNext
<1>14. LinkedAt(d)'
  <2>1. PICK below : below = ActivationAt(d - 1)
    OBVIOUS
  <2>2. d # 1 => ActivationAt(d - 1)' = below
    BY <1>2, <1>3, <2>1 DEF KeepsActivations
  <2>3. LinkAs(d, top, below)
    BY <2>1, TopRight
  <2>4. LinkAs(d, under, below)
    BY <1>5, <2>3 DEF LinkAs, SiteOf
  <2> QED
    BY <1>4, <2>2, <2>4, LinkedNext
<1>15. LinkedAt(e)'
  <2>1. LinkAs(e, act, under)
    BY <1>2, <1>5, <1>8, <1>9 DEF LinkAs
  <2>2. e # 1 => ActivationAt(e - 1)' = under
    BY <1>2, <1>4
  <2> QED
    BY <1>4, <2>1, <2>2, LinkedNext
<1>16. \A c \in 1..Depth' : ActivationRight(c)' /\ LinkedAt(c)'
  <2>1. \A c \in 1..Depth' : c \in 1..(d - 1) \/ c = d \/ c = e
    BY <1>2, <1>3
  <2> QED
    BY <1>12, <1>13, <1>14, <1>15, <2>1
<1> QED
  BY <1>16, MeaningNext DEF FailuresAreDemanded, Failed

\* The selector of the next partial is the selection's, and chooses its arm.
LEMMA SelectorKnown ==
  ASSUME OutcomesAreConcrete, Typed, EvaluatorMeaning, Selecting, NEW d, d = Depth,
         NEW state, state = Head(top.todo).state
  PROVE  /\ Within(d, state) /\ Serves(top, state) /\ StateOK(state) /\ StateRight(state)
         /\ Knows(state, SelectorSite(top)) /\ ProperFrame(top.frame)
         /\ \A x \in state.guard : /\ x \in Inputs /\ IsSelection(topNode)
                                   /\ Choice(x, top) = Selected(topNode, selector.den[x])
<1>1. /\ stack # <<>> /\ top.todo # <<>> /\ ~top.arm /\ top.stage > Len(top.refs)
      /\ NodeOK(top.frame, top.node) /\ topNode = NodeOf(top.frame, top.node)
      /\ topNode.kind \in SelectionKinds /\ StateOK(state)
  BY SelectingFacts
<1>2. /\ request \in Requests /\ top.refs = topNode.refs /\ top.stage \in Nat
      /\ Len(top.refs) = 1 /\ Stages(top) = 2 /\ top.stage \in 0..Stages(top)
  <2>1. /\ request \in Requests /\ RefsOK(top) /\ top.arm \in BOOLEAN /\ top.stage \in Nat
        /\ KindOf(top) = topNode.kind /\ top.stage \in 0..Stages(top)
    BY <1>1, TopFacts
  <2>2. Stages(top) = Len(top.refs) + 1 /\ Len(top.refs) = 1
    BY <1>1, <2>1, StagesOf
  <2> QED
    BY <1>1, <2>1, <2>2 DEF RefsOK
<1>3. top.stage - 1 = 1
  BY <1>1, <1>2
<1>4. Within(d, state) /\ Progress(top, top.stage - 1, Head(top.todo))
  BY <1>1, TodoRest
<1>5. Has(state, NodeRef(top, top.refs[1]), selector)
  BY <1>1, <1>2, <1>3, <1>4 DEF Progress, NodeProgress, selector
<1>6. SelectorSite(top) = NodeRef(top, top.refs[1])
  BY <1>1, <1>2 DEF SelectorSite
<1>7. Serves(top, state) /\ StateRight(state)
  BY <1>1, <1>4, WithinTop
<1>8. ProperFrame(top.frame)
  BY <1>1, TopRight
<1>9. ASSUME NEW x \in state.guard
      PROVE  /\ x \in Inputs /\ IsSelection(topNode)
             /\ Choice(x, top) = Selected(topNode, selector.den[x])
  <2>1. x \in Inputs
    BY <1>1, <1>2, GuardIsOfInputs
  <2>2. NodeAt(request, SiteOf(top)) = topNode
    BY <1>1, <1>2, <1>8, SiteOutcome DEF SiteOf
  <2>3. selector.den[x] = ValueOf(Outcomes(request, x), RefSite(SiteOf(top), topNode.refs[1]))
    BY <1>2, <1>5 DEF Has, ValueOf, Of, NodeRef
  <2>4. Choice(x, top) = Selected(topNode, selector.den[x])
    BY <2>2, <2>3 DEF Choice, Resolution
  <2> QED
    BY <1>1, <2>1, <2>4 DEF IsSelection, SelectionKinds
<1> QED
  BY <1>1, <1>4, <1>5, <1>6, <1>7, <1>8, <1>9 DEF Has

\* A candidate that records the arm its inputs choose may enter the arm.
LEMMA ArmRecorded ==
  ASSUME OutcomesAreConcrete, Typed, EvaluatorMeaning, Selecting, NEW d, d = Depth,
         NEW state, state = Head(top.todo).state, topSite \notin DOMAIN state.trace,
         NEW arm, NEW new, new.guard \subseteq state.guard, new.cache = state.cache,
         new.trace = Inserted(state.trace, topSite, arm.outcome),
         \A x \in new.guard : Chosen(topNode, selector.den[x], arm),
         \A x \in state.guard \ new.guard :
           Selected(topNode, selector.den[x]).outcome # arm.outcome
  PROVE  Within(d, new) /\ ArmGiven(new, arm.demand)
<1>1. /\ Within(d, state) /\ Serves(top, state) /\ StateOK(state) /\ StateRight(state)
      /\ Knows(state, SelectorSite(top)) /\ ProperFrame(top.frame)
      /\ \A x \in state.guard : /\ x \in Inputs /\ IsSelection(topNode)
                                /\ Choice(x, top) = Selected(topNode, selector.den[x])
  BY SelectorKnown
<1>2. /\ stack # <<>> /\ NodeOK(top.frame, top.node) /\ topNode = NodeOf(top.frame, top.node)
      /\ request \in Requests /\ topSite = SiteOf(top)
  BY SelectingFacts, TopFacts DEF topSite, SiteOf
<1>3. ASSUME NEW x \in state.guard
      PROVE  <<topSite, Choice(x, top).outcome>> \in Concrete(x).trace
  <2>1. x \in Inputs /\ Demands(x, SiteOf(top))
    BY <1>1 DEF Serves
  <2>2. OwnEntries(request, Outcomes(request, x), SiteOf(top)) \subseteq Concrete(x).trace
    BY <1>1, <1>2, <2>1, PartsDemanded DEF SiteOf
  <2>3. NodeAt(request, SiteOf(top)) = topNode
    BY <1>1, <1>2, SiteOutcome DEF SiteOf
  <2> QED
    BY <1>1, <1>2, <2>2, <2>3 DEF OwnEntries, Choice
<1>4. ASSUME NEW x \in new.guard
      PROVE  Choice(x, top).outcome = arm.outcome /\ Choice(x, top).cases = Elements(arm.demand)
  BY <1>1 DEF Chosen
<1>5. ASSUME NEW x \in state.guard \ new.guard
      PROVE  Choice(x, top).outcome # arm.outcome
  BY <1>1
<1>6. /\ StateRight(new) /\ Narrows(state, new)
      /\ <<topSite, arm.outcome>> \in Entries(new.trace)
  <2>1. \A x \in new.guard : <<topSite, arm.outcome>> \in Concrete(x).trace
    BY <1>3, <1>4
  <2>2. \A x \in state.guard \ new.guard :
          \E other : other # arm.outcome /\ <<topSite, other>> \in Concrete(x).trace
    BY <1>3, <1>5
  <2> QED
    BY <1>1, <2>1, <2>2, RecordRight
<1>7. Within(d, new)
  BY <1>1, <1>2, <1>6, TopRight, InHandNarrowed
<1>8. Knows(new, SelectorSite(top))
  BY <1>1, <1>6 DEF Narrows, Knows
<1> QED
  BY <1>2, <1>4, <1>6, <1>7, <1>8 DEF ArmGiven, Resolved

\* What is left waiting once the next partial is taken.
LEMMA RestWaits ==
  ASSUME Typed, EvaluatorMeaning, stack # <<>>, top.todo # <<>>, NEW d, d = Depth
  PROVE  WaitRight(d, Tail(top.todo))
BY TodoRest DEF WaitRight

\* A selection that takes its arms has no outcome yet in what waits.
LEMMA SelectingIsFresh ==
  ASSUME Typed, Fresh, Selecting, NEW state, state = Head(top.todo).state
  PROVE  topSite \notin DOMAIN state.trace
<1>1. stack # <<>> /\ top.todo # <<>> /\ Resolving(top) /\ ~top.arm
  BY SelectingFacts
<1>2. PICK d : d = Depth
  OBVIOUS
<1>3. top = ActivationAt(d) /\ d \in 1..Depth /\ topSite = SiteAt(d)
  BY <1>1, <1>2, TopActivation DEF Typed
<1>4. IsList(top.todo)
  BY <1>1, TopFacts
<1>5. Unresolved(d) /\ 1 \in 1..Len(top.todo) /\ state = top.todo[1].state
  BY <1>1, <1>3, <1>4, HeadOfList DEF Fresh, Depth
<1> QED
  BY <1>1, <1>3, <1>5 DEF Unresolved

\* A constant selector chooses the same arm on every input.
LEMMA ResolveRight ==
  ASSUME OutcomesAreConcrete, Typed, Fresh, EvaluatorMeaning, ResolveConcrete
  PROVE  EvaluatorMeaning'
<1>1. /\ stack # <<>> /\ top.todo # <<>> /\ ctl.at = "run" /\ top.arms = <<>> /\ Selecting
      /\ Resolving(top) /\ selector \in Values /\ SelectionOK(topNode, 1..(top.node - 1))
      /\ ~top.arm
  BY SelectingFacts DEF ResolveConcrete
<1>2. /\ IsConcrete(selector) /\ request' = request
      /\ \/ topSite \in DOMAIN Head(top.todo).state.trace /\ FailsWith("duplicate")
         \/ /\ topSite \notin DOMAIN Head(top.todo).state.trace
            /\ stack' = <<ResolvedArm>> \o
                  (<<Moved(top, top.stage, Tail(top.todo), top.current, top.done, top.arms)>>
                     \o Tail(stack))
            /\ ctl' = ctl
  BY <1>1, TopIsActivation, ResolveMoves
<1>3. PICK d, state, arm, new, under :
        /\ d = Depth /\ state = Head(top.todo).state /\ arm = ConcreteArm(topNode, selector)
        /\ new = Record(state, topSite, arm.outcome)
        /\ under = Moved(top, top.stage, Tail(top.todo), top.current, top.done, top.arms)
  OBVIOUS
<1>4. topSite \notin DOMAIN state.trace
  BY <1>1, <1>3, SelectingIsFresh
<1>5. /\ StateOK(state)
      /\ \A x \in state.guard : x \in Inputs
  BY <1>1, <1>3, SelectorKnown
<1>6. \A x \in state.guard : Chosen(topNode, selector.den[x], arm)
  BY <1>1, <1>2, <1>3, <1>5, ConcreteArmChosen
<1>7. /\ new.guard = state.guard /\ new.cache = state.cache
      /\ new.trace = Inserted(state.trace, topSite, arm.outcome)
      /\ StateOK(new)
  BY <1>3, <1>5, ChangedStates DEF Record, StateOK
<1>8. Within(d, new) /\ ArmGiven(new, arm.demand)
  BY <1>1, <1>3, <1>4, <1>6, <1>7, ArmRecorded
<1>9. stack' = <<ArmActivation(top.frame, top.node, arm.demand, new)>> \o (<<under>> \o Tail(stack))
      /\ ctl' = ctl
  BY <1>2, <1>3, <1>4 DEF ResolvedArm
<1>10. WaitRight(d, Tail(top.todo)) /\ ArmsRight(d, top.arms)
  <2>1. \A i \in 1..Len(top.arms) : FALSE
    BY <1>1, EmptyList
  <2> QED
    BY <1>1, <1>3, <2>1, RestWaits DEF ArmsRight
<1> QED
  BY <1>1, <1>2, <1>3, <1>7, <1>8, <1>9, <1>10, IntoArmRight

\* Each arm of a symbolic selector waits for the inputs that choose it.
LEMMA ForkRight ==
  ASSUME OutcomesAreConcrete, Typed, Fresh, WithinBudget, EvaluatorMeaning, ForkSymbolic
  PROVE  EvaluatorMeaning'
<1>1. /\ stack # <<>> /\ top.todo # <<>> /\ ctl.at = "run" /\ Selecting
      /\ selector \in Values /\ SelectionOK(topNode, 1..(top.node - 1))
  BY SelectingFacts DEF ForkSymbolic
<1>2. /\ stack' = <<Moved(top, top.stage, Tail(top.todo), top.current, top.done, Forked)>>
                    \o Tail(stack)
      /\ request' = request /\ ctl' = ctl
  BY <1>1, TopIsActivation, ForkMoves
<1>3. PICK d, state : d = Depth /\ state = Head(top.todo).state
  OBVIOUS
<1>4. topSite \notin DOMAIN state.trace /\ StateOK(state)
  BY <1>1, <1>3, SelectingIsFresh, SelectorKnown
<1>5. Len(SymbolicArms) \in Nat /\ Len(Forked) = Len(SymbolicArms)
  <2>1. Len(SymbolicArms) \in Nat
    BY <1>1, SymbolicArmsFit DEF ArmsFit
  <2> QED
    BY <2>1, MakeList DEF Forked
<1>6. ASSUME NEW i \in 1..Len(Forked)
      PROVE  Within(d, PendingAt(top, Forked[i])) /\ PendingRight(top, Forked[i])
  <2>1. PICK pending, arm, new :
          pending = Forked[i] /\ arm = SymbolicArms[i] /\ new = PendingAt(top, pending)
    OBVIOUS
  <2>2. pending = [state |-> state, arm |-> arm]
    BY <1>3, <1>5, <2>1 DEF Forked
  <2>3. pending.state = state /\ pending.arm = arm
    BY <2>2
  <2>4. /\ new.guard = state.guard \cap arm.when /\ new.cache = state.cache
        /\ new.trace = Inserted(state.trace, topSite, arm.outcome)
    BY <1>4, <2>1, <2>3 DEF PendingAt, Record, StateOK, topSite, SiteOf
  <2>5. \A x \in new.guard : Chosen(topNode, selector.den[x], arm)
    BY <1>1, <1>5, <2>1, <2>4, SymbolicArmChosen
  <2>6. \A x \in state.guard \ new.guard :
          Selected(topNode, selector.den[x]).outcome # arm.outcome
    <3>1. \A x \in state.guard : x \in Inputs
      BY <1>1, <1>3, SelectorKnown
    <3> QED
      BY <1>1, <1>5, <2>1, <2>4, <3>1, OthersChooseOtherwise
  <2>7. Within(d, new) /\ ArmGiven(new, arm.demand)
    BY <1>1, <1>3, <1>4, <2>4, <2>5, <2>6, ArmRecorded
  <2>8. PendingRight(top, pending)
    BY <2>1, <2>3, <2>7 DEF PendingRight, ArmGiven
  <2> QED
    BY <2>1, <2>7, <2>8
<1>7. WaitRight(d, Tail(top.todo)) /\ ArmsRight(d, Forked)
  BY <1>1, <1>3, <1>6, RestWaits DEF ArmsRight
<1> QED
  BY <1>1, <1>2, <1>3, <1>7, MovedInPlace

\* What waits in an activation that takes its arms, without the next one.
LEMMA RestOfArms ==
  ASSUME Typed, EvaluatorMeaning, Branching, NEW d, d = Depth
  PROVE  /\ stack # <<>> /\ WaitRight(d, top.todo) /\ ArmsRight(d, Tail(top.arms))
         /\ Within(d, PendingAt(top, branch)) /\ PendingRight(top, branch)
<1>1. stack # <<>> /\ top.arms # <<>> /\ IsList(top.arms)
  BY BranchFacts, TopFacts
<1>2. /\ \A i \in 1..Len(top.todo) : /\ Within(d, top.todo[i].state)
                                     /\ Progress(top, top.stage - 1, top.todo[i])
      /\ \A i \in 1..Len(top.arms) : /\ Within(d, PendingAt(top, top.arms[i]))
                                     /\ PendingRight(top, top.arms[i])
  BY <1>1, TopRight
<1>3. PICK arms : arms = top.arms
  OBVIOUS
<1>4. /\ Len(Tail(arms)) = Len(arms) - 1 /\ Len(arms) - 1 \in Nat /\ 1 \in 1..Len(arms)
      /\ Head(arms) = arms[1]
      /\ \A i \in 1..(Len(arms) - 1) : Tail(arms)[i] = arms[i + 1]
  BY <1>1, <1>3, HeadOfList, TailOfList
<1>5. \A i \in 1..Len(Tail(arms)) : i + 1 \in 1..Len(arms) /\ Tail(arms)[i] = arms[i + 1]
  BY <1>4
<1> QED
  BY <1>1, <1>2, <1>3, <1>4, <1>5 DEF WaitRight, ArmsRight, branch

\* An arm is dropped.
LEMMA DropRight ==
  ASSUME Typed, EvaluatorMeaning, BranchAtLimit \/ BranchImpossible
  PROVE  EvaluatorMeaning'
<1>1. /\ Branching /\ stack' = afterBranch /\ request' = request /\ ctl' = ctl
  BY DEF BranchAtLimit, BranchImpossible
<1>2. PICK d : d = Depth
  OBVIOUS
<1>3. stack # <<>> /\ WaitRight(d, top.todo) /\ ArmsRight(d, Tail(top.arms)) /\ ctl.at = "run"
  BY <1>1, <1>2, RestOfArms, BranchFacts
<1>4. stack' = <<Moved(top, top.stage, top.todo, top.current, top.done, Tail(top.arms))>>
                 \o Tail(stack)
  BY <1>1, <1>3, TopIsActivation, BranchMoves
<1> QED
  BY <1>1, <1>2, <1>3, <1>4, MovedInPlace

\* An arm is entered under its condition.
LEMMA BranchRight ==
  ASSUME OutcomesAreConcrete, Typed, EvaluatorMeaning, BranchTaken
  PROVE  EvaluatorMeaning'
<1>1. /\ Branching /\ request' = request /\ ctl' = ctl /\ stack' = <<BranchedArm>> \o afterBranch
  BY DEF BranchTaken, BranchedArm, BranchedState
<1>2. PICK d, new, pending, under :
        /\ d = Depth /\ new = BranchedState /\ pending = PendingAt(top, branch)
        /\ under = Moved(top, top.stage, top.todo, top.current, top.done, Tail(top.arms))
  OBVIOUS
<1>3. /\ stack # <<>> /\ WaitRight(d, top.todo) /\ ArmsRight(d, Tail(top.arms))
      /\ Within(d, pending) /\ PendingRight(top, branch)
  BY <1>1, <1>2, RestOfArms
<1>4. /\ ctl.at = "run" /\ Resolving(top) /\ PendingOK(branch, top.node, KindOf(top))
  BY <1>1, BranchFacts
<1>5. stack' = <<ArmActivation(top.frame, top.node, branch.arm.demand, new)>>
                 \o (<<under>> \o Tail(stack))
  BY <1>1, <1>2, <1>3, TopIsActivation, BranchMoves DEF BranchedArm
<1>6. StateOK(branch.state) /\ StateOK(new)
  BY <1>2, <1>4, ChangedStates DEF PendingOK, BranchedState
<1>7. new.guard = pending.guard /\ new.cache = pending.cache /\ new.trace = pending.trace
  BY <1>2, <1>6 DEF BranchedState, PendingAt, Record, Guarded, StateOK, topSite, SiteOf
<1>8. StateRight(new) /\ Narrows(pending, new)
  <2>1. StateRight(pending)
    BY <1>3 DEF Within
  <2> QED
    BY <1>7, <2>1 DEF StateRight, MemoRight, TraceRight, OthersLeft, Narrows
<1>9. Within(d, new)
  BY <1>2, <1>3, <1>8, TopRight, InHandNarrowed
<1>10. ArmGiven(new, branch.arm.demand)
  BY <1>2, <1>3, <1>7 DEF PendingRight, ArmGiven, Knows, Resolved
<1> QED
  BY <1>1, <1>2, <1>3, <1>4, <1>5, <1>6, <1>9, <1>10, IntoArmRight

-----------------------------------------------------------------------------
(***************************************************************************)
(* The invariant, from the start and at every step.                        *)
(***************************************************************************)
\* A step that changes nothing.
LEMMA UnchangedRight ==
  ASSUME Typed, EvaluatorMeaning, UNCHANGED vars
  PROVE  EvaluatorMeaning'
<1>1. request' = request /\ ctl' = ctl /\ stack' = stack
  BY DEF vars
<1>2. IsList(stack) /\ Depth \in Nat
  BY ListElements DEF Typed, Depth
<1>3. Depth' = Depth /\ KeepsActivations(Depth) /\ top' = top
  BY <1>1 DEF Depth, KeepsActivations, ActivationAt, top
<1>4. \A d \in 1..Depth' : ActivationRight(d)' /\ LinkedAt(d)'
  BY <1>1, <1>2, <1>3, MeaningParts, KeptRight, KeptLinked
<1>5. \A state : InHandOf(Depth, state)' <=> InHandOf(Depth, state)
  BY <1>1, <1>2, <1>3, InHandKept
<1>6. CASE ctl.at = "call"
  <2>1. CallRight
    BY <1>6, MeaningParts
  <2>2. InHandOf(Depth, ctl.state)'
    BY <1>1, <1>5, <2>1 DEF CallRight, Depth
  <2>3. /\ ProperFrame(ctl.frame)'
        /\ \A x \in ctl.state.guard :
             FrameRight(ctl.frame, x)' /\ Demands(x, calledSite)'
    BY <1>1, <2>1, SameOutcomes DEF CallRight, calledSite
  <2>4. IF stack = <<>> THEN calledSite = ResultSite(request)
        ELSE ~Resolving(top)' /\ calledSite = AwaitedSite(top)'
    BY <1>1, <1>3, <2>1, SameWaiting DEF CallRight
  <2>5. CallRight'
    BY <1>1, <1>3, <2>2, <2>3, <2>4 DEF CallRight, Depth, calledSite
  <2> QED
    BY <1>1, <1>4, <1>6, <2>5, MeaningNext DEF FailuresAreDemanded, Failed
<1>7. CASE ctl.at = "return"
  <2>1. ReturnRight
    BY <1>7, MeaningParts
  <2>2. ASSUME NEW i \in 1..Len(ctl.results)
        PROVE  /\ InHandOf(Depth, ctl.results[i].state)'
               /\ IF stack = <<>>
                    THEN Has(ctl.results[i].state, ResultSite(request), ctl.results[i].value)'
                    ELSE Returns(top, ctl.results[i])'
    <3>1. PICK r : r = ctl.results[i]
      OBVIOUS
    <3>2. InHandOf(Depth, r.state)
          /\ IF stack = <<>> THEN Has(r.state, ResultSite(request), r.value) ELSE Returns(top, r)
      BY <2>1, <3>1 DEF ReturnRight, Depth
    <3>3. IF stack = <<>> THEN Has(r.state, ResultSite(request), r.value)' ELSE Returns(top, r)'
      BY <1>1, <1>3, <3>2, SameOutcomes, SameWaiting
    <3> QED
      BY <1>1, <1>3, <1>5, <3>1, <3>2, <3>3
  <2>3. ReturnRight'
    BY <1>1, <1>3, <2>2 DEF ReturnRight, Depth
  <2> QED
    BY <1>1, <1>4, <1>7, <2>3, MeaningNext DEF FailuresAreDemanded, Failed
<1>8. CASE ctl.at \notin {"call", "return"}
  <2>1. FailuresAreDemanded
    BY MeaningParts
  <2>2. \A x : Concrete(x)' = Concrete(x)
    BY <1>1, SameOutcomes
  <2>3. FailuresAreDemanded'
    BY <1>1, <2>1, <2>2 DEF FailuresAreDemanded, Failed
  <2> QED
    BY <1>1, <1>4, <1>8, <2>3, MeaningNext
<1> QED
  BY <1>6, <1>7, <1>8

\* A request starts with a call for its result, for every input it allows.
LEMMA MeaningInit ==
  ASSUME Init
  PROVE  EvaluatorMeaning
<1> DEFINE frame == [fn |-> request.top, args |-> request.args, inv |-> <<>>]
           state == [guard |-> request.domain, never |-> request.never,
                     trace |-> <<>>, cache |-> <<>>]
<1>1. /\ stack = <<>> /\ ctl = Call(frame, request.fns[request.top].ret, state)
  BY DEF Init
<1>2. Depth = 0 /\ Len(<<>>) = 0 /\ DOMAIN <<>> = {}
  <2>1. IsList(<<>>) /\ Len(<<>>) = 0
    BY EmptyList
  <2>2. DOMAIN <<>> = {}
    BY <2>1, ListElements
  <2> QED
    BY <1>1, <2>1, <2>2 DEF Depth
<1>3. /\ ctl.at = "call" /\ ctl.frame = frame /\ ctl.state = state
      /\ calledSite = ResultSite(request)
  BY <1>1 DEF Call, calledSite, Site, ResultSite
<1>4. frame.fn = request.top /\ frame.args = request.args /\ frame.inv = <<>>
  OBVIOUS
<1>5. state.guard = request.domain /\ state.trace = <<>> /\ state.cache = <<>>
  OBVIOUS
<1> HIDE DEF frame, state
<1>6. ProperFrame(frame)
  BY <1>2, <1>4 DEF ProperFrame, IsContext, FunctionIn
<1>7. Entries(state.trace) = {}
  BY <1>2, <1>5 DEF Entries
<1>8. StateRight(state)
  BY <1>2, <1>5, <1>7 DEF StateRight, MemoRight, TraceRight, OthersLeft
<1>9. InHandOf(0, state)
  BY <1>8, WithinParts
<1>10. \A x : FrameRight(frame, x)
  BY <1>4 DEF FrameRight, Passed
<1>11. \A x : Demands(x, ResultSite(request))
  BY DEF Demands, Concrete, OutcomeOn, Of
<1>12. CallRight
  BY <1>1, <1>2, <1>3, <1>6, <1>9, <1>10, <1>11 DEF CallRight, Depth
<1>13. FailuresAreDemanded
  BY <1>3 DEF FailuresAreDemanded, Failed
<1>14. \A d \in 1..Depth : FALSE
  BY <1>2
<1> QED
  BY <1>3, <1>12, <1>13, <1>14, MeaningParts

\* Every step keeps the candidates right.
LEMMA MeaningStep ==
  ASSUME OutcomesAreConcrete, PureNodesAreOps, EvaluatorInvariant, WithinBudget,
         EvaluatorMeaning, [Next]_vars
  PROVE  EvaluatorMeaning'
<1>1. Typed /\ Descending /\ Fresh
  BY DEF EvaluatorInvariant
<1>2. CASE CacheHit \/ EvalParam \/ EnterNode
  BY <1>1, <1>2, HitRight, ParamRight, EnterRight
<1>3. CASE DemandOperand \/ EnterCallee \/ EnterIteration \/ Deliver
  BY <1>1, <1>3, DemandRight, CalleeRight, IterationRight, DeliverRight
<1>4. CASE NextStage \/ FinishNode \/ FinishArm
  BY <1>1, <1>4, StageRight, FinishNodeRight, FinishArmRight
<1>5. CASE ResolveConcrete \/ ForkSymbolic
  BY <1>1, <1>5, ResolveRight, ForkRight
<1>6. CASE BranchAtLimit \/ BranchImpossible \/ BranchTaken
  BY <1>1, <1>6, DropRight, BranchRight
<1>7. CASE Terminated \/ UNCHANGED vars
  BY <1>1, <1>7, UnchangedRight DEF Terminated
<1> QED
  BY <1>2, <1>3, <1>4, <1>5, <1>6, <1>7 DEF Next

\* What a request returns is what its program does on every input.
LEMMA ResultsAreRight ==
  ASSUME EvaluatorMeaning, Finished
  PROVE  ResultsMatchReference
<1>1. ReturnRight /\ stack = <<>>
  BY MeaningParts DEF Finished
<1>2. ASSUME NEW i \in 1..Len(ctl.results), NEW x \in ctl.results[i].state.guard
      PROVE  /\ Concrete(x).ok /\ ctl.results[i].value.den[x] = Concrete(x).value
             /\ Entries(ctl.results[i].state.trace) = Concrete(x).trace
  <2>1. PICK r : r = ctl.results[i]
    OBVIOUS
  <2>2. InHandOf(0, r.state) /\ Has(r.state, ResultSite(request), r.value)
    BY <1>1, <2>1, EmptyList DEF ReturnRight
  <2>3. MemoRight(r.state) /\ TraceRight(r.state)
    BY <2>2, WithinParts DEF StateRight
  <2>4. Of(x, ResultSite(request)) = Concrete(x)
    BY DEF Of, Concrete, OutcomeOn
  <2> QED
    BY <2>1, <2>2, <2>3, <2>4 DEF Has, Knows, MemoRight, TraceRight
<1> QED
  BY <1>2 DEF ResultsMatchReference

(***************************************************************************)
(* The memo table of every candidate has, for each input under its guard,  *)
(* the values that evaluating the program on that input gives the sites it *)
(* reached, its trace has only selections which that input demands, and    *)
(* every activation works on what its call site passed it.                 *)
(***************************************************************************)
THEOREM CandidatesAreRight ==
  ASSUME PureNodesAreTyped, PureNodesAreOps, OutcomesAreConcrete
  PROVE  Spec => []EvaluatorMeaning
<1>1. Init => EvaluatorMeaning
  BY MeaningInit
<1>2. EvaluatorInvariant /\ WithinBudget /\ EvaluatorMeaning /\ [Next]_vars => EvaluatorMeaning'
  BY MeaningStep
<1> QED
  BY <1>1, <1>2, EvaluatorIsSound, PTL DEF Spec

\* The invariants of the evaluator: its call stack is sound, and what it holds
\* and returns is right.
THEOREM EvaluatorStaysRight ==
  ASSUME PureNodesAreTyped, PureNodesAreOps, OutcomesAreConcrete
  PROVE  Spec => []EvaluatorIsRight
<1>1. EvaluatorInvariant /\ EvaluatorMeaning => EvaluatorIsRight
  BY DEF EvaluatorIsRight
<1> QED
  BY <1>1, EvaluatorIsSound, CandidatesAreRight, PTL

\* Symbolic enumeration agrees with concrete evaluation: every candidate
\* returned has, on each input under its guard, the value and exactly the
\* selections of evaluating the program on that input.
THEOREM ResultsAgreeWithReference ==
  ASSUME PureNodesAreTyped, PureNodesAreOps, OutcomesAreConcrete
  PROVE  Spec => []ResultsMatchReference
<1>1. EvaluatorMeaning => ResultsMatchReference
  BY ResultsAreRight DEF ResultsMatchReference
<1> QED
  BY <1>1, CandidatesAreRight, PTL

\* A request fails only for what it demands: evaluating the program on any input
\* under a blamed guard fails too.
THEOREM FailuresAgreeWithReference ==
  ASSUME PureNodesAreTyped, PureNodesAreOps, OutcomesAreConcrete
  PROVE  Spec => []FailuresAreDemanded
<1>1. EvaluatorMeaning => FailuresAreDemanded
  BY DEF EvaluatorMeaning
<1> QED
  BY <1>1, CandidatesAreRight, PTL

-----------------------------------------------------------------------------
PruningProofs == INSTANCE SolveCandidatesProofs WITH Traces <- Nat, Workloads <- {}

\* The pruning that Enumeration composes is the one whose proofs are cited.
LEMMA SamePruning ==
  /\ Pruning!TypeOK <=> PruningProofs!TypeOK
  /\ Pruning!PruningInvariant <=> PruningProofs!PruningInvariant
  /\ Pruning!OneResultPerTrace <=> PruningProofs!OneResultPerTrace
  /\ Pruning!CompleteIsExhaustive <=> PruningProofs!CompleteIsExhaustive
<1>1. Pruning!TypeOK <=> PruningProofs!TypeOK
  BY DEF Pruning!TypeOK, PruningProofs!TypeOK, Pruning!Candidates, PruningProofs!Candidates,
         Pruning!Results, PruningProofs!Results, Pruning!Reasons, PruningProofs!Reasons
<1>2. Pruning!PruningInvariant <=> PruningProofs!PruningInvariant
  BY DEF Pruning!PruningInvariant, PruningProofs!PruningInvariant,
         Pruning!DistinctTraces, PruningProofs!DistinctTraces,
         Pruning!ScopesBalance, PruningProofs!ScopesBalance,
         Pruning!CheckedGuard, PruningProofs!CheckedGuard,
         Pruning!AnswerMeans, PruningProofs!AnswerMeans,
         Pruning!TallyAccounts, PruningProofs!TallyAccounts,
         Pruning!WitnessesSatisfyGuards, PruningProofs!WitnessesSatisfyGuards,
         Pruning!InfeasibleIsHonest, PruningProofs!InfeasibleIsHonest,
         Pruning!NoDuplicateTrace, PruningProofs!NoDuplicateTrace,
         Pruning!Trusted, PruningProofs!Trusted, Pruning!Reported, PruningProofs!Reported,
         Pruning!Asserted, PruningProofs!Asserted, Pruning!guard, PruningProofs!guard,
         Pruning!Settled, PruningProofs!Settled, Pruning!Returned, PruningProofs!Returned
<1>3. Pruning!OneResultPerTrace <=> PruningProofs!OneResultPerTrace
  BY DEF Pruning!OneResultPerTrace, PruningProofs!OneResultPerTrace
<1>4. Pruning!CompleteIsExhaustive <=> PruningProofs!CompleteIsExhaustive
  BY DEF Pruning!CompleteIsExhaustive, PruningProofs!CompleteIsExhaustive,
         Pruning!Settled, PruningProofs!Settled, Pruning!Returned, PruningProofs!Returned
<1> QED
  BY <1>1, <1>2, <1>3, <1>4

\* And its steps are the same.
LEMMA SamePruningSteps ==
  Pruning!Next <=> PruningProofs!Next
BY DEF Pruning!Next, PruningProofs!Next,
       Pruning!NothingToSolve, PruningProofs!NothingToSolve,
       Pruning!SessionFails, PruningProofs!SessionFails,
       Pruning!SessionStarts, PruningProofs!SessionStarts,
       Pruning!Push, PruningProofs!Push, Pruning!PushFails, PruningProofs!PushFails,
       Pruning!Assert, PruningProofs!Assert,
       Pruning!AssertFails, PruningProofs!AssertFails,
       Pruning!CheckUnsat, PruningProofs!CheckUnsat,
       Pruning!CheckUnknown, PruningProofs!CheckUnknown,
       Pruning!CheckSat, PruningProofs!CheckSat,
       Pruning!CheckFails, PruningProofs!CheckFails,
       Pruning!ReadModel, PruningProofs!ReadModel,
       Pruning!ReadModelFails, PruningProofs!ReadModelFails,
       Pruning!Pop, PruningProofs!Pop, Pruning!PopFails, PruningProofs!PopFails,
       Pruning!Finish, PruningProofs!Finish, Pruning!Terminated, PruningProofs!Terminated,
       Pruning!Succeeds, PruningProofs!Succeeds, Pruning!Breaks, PruningProofs!Breaks,
       Pruning!Pushed, PruningProofs!Pushed, Pruning!Popped, PruningProofs!Popped,
       Pruning!Asserting, PruningProofs!Asserting,
       Pruning!Conclude, PruningProofs!Conclude,
       Pruning!Classify, PruningProofs!Classify,
       Pruning!Feasible, PruningProofs!Feasible,
       Pruning!Infeasible, PruningProofs!Infeasible,
       Pruning!Undecided, PruningProofs!Undecided,
       Pruning!Advance, PruningProofs!Advance,
       Pruning!OverLimit, PruningProofs!OverLimit,
       Pruning!Smallest, PruningProofs!Smallest,
       Pruning!guard, PruningProofs!guard, Pruning!Asserted, PruningProofs!Asserted,
       Pruning!vars, PruningProofs!vars, Pruning!given, PruningProofs!given,
       Pruning!solverVars, PruningProofs!solverVars, Pruning!tally, PruningProofs!tally,
       Pruning!Cardinality, PruningProofs!Cardinality

\* A step of the pruning keeps its types and its invariants.
LEMMA PruneKeeps ==
  ASSUME Pruning!TypeOK, Pruning!PruningInvariant, Pruning!OneResultPerTrace, Pruning!Next
  PROVE  /\ Pruning!TypeOK' /\ Pruning!PruningInvariant' /\ Pruning!OneResultPerTrace'
         /\ completeness # "Complete" => completeness' # "Complete"
         /\ candidates' = candidates /\ limit' = limit
<1>1. /\ PruningProofs!TypeOK /\ PruningProofs!PruningInvariant /\ PruningProofs!OneResultPerTrace
      /\ [PruningProofs!Next]_(PruningProofs!vars)
  BY SamePruning, SamePruningSteps
<1>2. PruningProofs!TypeOK'
  BY <1>1, EnumerationAssumption, PruningProofs!SolveTypeStep
<1>3. PruningProofs!PruningInvariant'
  BY <1>1, EnumerationAssumption, PruningProofs!PruningStep
<1>4. PruningProofs!OneResultPerTrace'
  BY <1>1, EnumerationAssumption, PruningProofs!OneResultStep
<1>5. completeness # "Complete" => completeness' # "Complete"
  BY <1>1, EnumerationAssumption, PruningProofs!IncompleteStays
<1>6. /\ Pruning!TypeOK' <=> PruningProofs!TypeOK'
      /\ Pruning!PruningInvariant' <=> PruningProofs!PruningInvariant'
      /\ Pruning!OneResultPerTrace' <=> PruningProofs!OneResultPerTrace'
  BY SamePruning, PTL
<1>7. candidates' = candidates /\ limit' = limit
  BY DEF Pruning!Next, Pruning!given, Pruning!vars,
         Pruning!NothingToSolve, Pruning!SessionFails, Pruning!SessionStarts,
         Pruning!Push, Pruning!PushFails, Pruning!Assert, Pruning!AssertFails,
         Pruning!CheckUnsat, Pruning!CheckUnknown, Pruning!CheckSat, Pruning!CheckFails,
         Pruning!ReadModel, Pruning!ReadModelFails, Pruning!Conclude,
         Pruning!Pop, Pruning!PopFails, Pruning!Finish, Pruning!Terminated
<1> QED
  BY <1>2, <1>3, <1>4, <1>5, <1>6, <1>7

-----------------------------------------------------------------------------
(***************************************************************************)
(* What is handed over.                                                    *)
(***************************************************************************)
\* No two candidates returned have the same trace, nor the same entries.
LEMMA ReturnedDiffer ==
  ASSUME EvaluatorInvariant, Finished,
         NEW i \in 1..Len(ctl.results), NEW j \in 1..Len(ctl.results), i # j
  PROVE  /\ ctl.results[i].state.trace # ctl.results[j].state.trace
         /\ Entries(ctl.results[i].state.trace) # Entries(ctl.results[j].state.trace)
<1> DEFINE l == At(<<Depth + 1, "results", i>>, ctl.results[i].state)
           m == At(<<Depth + 1, "results", j>>, ctl.results[j].state)
<1>1. InHand = Returned(Depth + 1, ctl.results)
  BY InHandParts DEF Finished
<1>2. l \in InHand /\ m \in InHand
  BY <1>1 DEF Returned
<1>3. l \in Live /\ m \in Live
  BY <1>2 DEF Live
<1>4. l.place # m.place /\ l.state = ctl.results[i].state /\ m.state = ctl.results[j].state
  BY DEF At
<1> HIDE DEF l, m
<1>5. Splitting!Conflict(ctl.results[i].state, ctl.results[j].state)
  BY <1>3, <1>4 DEF EvaluatorInvariant, CandidatesConflict
<1>6. PICK s, t : s = ctl.results[i].state.trace /\ t = ctl.results[j].state.trace
  OBVIOUS
<1>7. PICK site \in DOMAIN s \cap DOMAIN t : s[site] # t[site]
  BY <1>5, <1>6 DEF Splitting!Conflict
<1>8. <<site, s[site]>> \in Entries(s) /\ <<site, s[site]>> \notin Entries(t)
  BY <1>7 DEF Entries
<1> QED
  BY <1>6, <1>8

\* The candidates handed over are those returned, numbered in order.
LEMMA HandedOverFacts ==
  ASSUME EvaluatorInvariant, Finished
  PROVE  /\ HandedOver \in Seq(Pruning!Candidates) /\ Len(HandedOver) = Len(ctl.results)
         /\ \A i \in 1..Len(ctl.results) :
              HandedOver[i] = [trace |-> i, guard |-> ctl.results[i].state.guard]
         /\ Pruning!DistinctTraces(HandedOver)
<1>1. /\ IsList(ctl.results) /\ request \in Requests
      /\ \A i \in 1..Len(ctl.results) : StateOK(ctl.results[i].state)
  BY DEF EvaluatorInvariant, Typed, ControlOK, Finished
<1>2. PICK n \in Nat : n = Len(ctl.results) /\ DOMAIN ctl.results = 1..n
  BY <1>1, ListElements
<1>3. ASSUME NEW i \in 1..n PROVE TraceNumber(i) = i
  <2> DEFINE S == {j \in 1..i : ctl.results[j].state.trace = ctl.results[i].state.trace}
  <2>1. \A j \in 1..i : j \in 1..n /\ j \in Nat
    BY <1>2, <1>3
  <2>2. i \in S /\ \A j \in S : j = i
    BY <1>2, <1>3, <2>1, ReturnedDiffer
  <2>3. S = {i} /\ i \in Nat
    BY <1>3, <2>2
  <2> HIDE DEF S
  <2>4. Min(S) = i
    BY <2>3, LeastElement
  <2> QED
    BY <2>4 DEF TraceNumber, S
<1>4. HandedOver = [i \in 1..n |-> [trace |-> TraceNumber(i), guard |-> ctl.results[i].state.guard]]
  BY <1>2 DEF HandedOver
<1>5. \A i \in 1..n : HandedOver[i] = [trace |-> i, guard |-> ctl.results[i].state.guard]
  BY <1>3, <1>4
<1>6. ASSUME NEW i \in 1..n PROVE HandedOver[i] \in Pruning!Candidates
  <2>1. ctl.results[i].state.guard \in SUBSET Inputs
    BY <1>1, <1>2, GuardIsOfInputs
  <2>2. PICK g : g = ctl.results[i].state.guard
    OBVIOUS
  <2>3. HandedOver[i] = [trace |-> i, guard |-> g] /\ i \in Nat
    BY <1>5, <2>2
  <2> QED
    BY <2>1, <2>2, <2>3 DEF Pruning!Candidates
<1>7. HandedOver \in [1..n -> Pruning!Candidates]
  BY <1>4, <1>6
<1>8. HandedOver \in Seq(Pruning!Candidates) /\ Len(HandedOver) = n
  BY <1>7, SeqDef, LenProperties
<1>9. Pruning!DistinctTraces(HandedOver)
  <2>1. ASSUME NEW i \in 1..n PROVE HandedOver[i].trace = i
    <3>1. PICK g : g = ctl.results[i].state.guard
      OBVIOUS
    <3>2. HandedOver[i] = [trace |-> i, guard |-> g]
      BY <1>5, <3>1
    <3> QED
      BY <3>2
  <2> QED
    BY <1>8, <2>1 DEF Pruning!DistinctTraces
<1> QED
  BY <1>2, <1>5, <1>8, <1>9

\* From the hand-over on, the pruning has a workload that its invariant holds of.
LEMMA HandOverSolves ==
  ASSUME EvaluatorInvariant, EnumerationInvariant, HandOver
  PROVE  Solving'
<1>1. /\ Finished /\ candidates' = HandedOver /\ completeness' = ReportedCompleteness
      /\ pc' = "start" /\ limit' = limit /\ UNCHANGED evaluatorVars
  BY DEF HandOver
<1>2. /\ next' = 1 /\ scopes' = <<>> /\ alive' = TRUE /\ answer' = "none" /\ model' = NoModel
      /\ seen' = {} /\ results' = {} /\ infeasible' = {} /\ limit \in Limits
  BY DEF HandOver, EnumerationInvariant, Untouched
<1>3. Finished' /\ HandedOver' = HandedOver /\ incomplete' = incomplete
  BY <1>1 DEF evaluatorVars, Finished, HandedOver, TraceNumber
<1>4. /\ candidates' \in Seq(Pruning!Candidates) /\ Len(candidates') \in Nat
      /\ Pruning!DistinctTraces(candidates')
  BY <1>1, HandedOverFacts
<1>5. /\ completeness' \in {"Complete", "ResourceLimit"}
      /\ incomplete' # None => completeness' # "Complete"
  BY <1>1, <1>3 DEF ReportedCompleteness
<1>6. scopes' \in Seq(SUBSET Inputs)
  BY <1>2
<1>7. Pruning!TypeOK'
  BY <1>1, <1>2, <1>4, <1>5, <1>6, EnumerationAssumption
     DEF Pruning!TypeOK, Pruning!Reasons, Pruning!Results, Pruning!Candidates
<1>8. 1..(next' - 1) = {}
  BY <1>2
<1>9. Pruning!TallyAccounts'
  BY <1>1, <1>2, <1>8 DEF Pruning!TallyAccounts
<1>10. Pruning!DistinctTraces(candidates)'
  BY <1>4 DEF Pruning!DistinctTraces
<1>11. Pruning!PruningInvariant'
  BY <1>1, <1>2, <1>9, <1>10
     DEF Pruning!PruningInvariant, Pruning!ScopesBalance, Pruning!CheckedGuard,
         Pruning!AnswerMeans, Pruning!WitnessesSatisfyGuards, Pruning!InfeasibleIsHonest,
         Pruning!NoDuplicateTrace
<1>12. Pruning!OneResultPerTrace'
  BY <1>2 DEF Pruning!OneResultPerTrace
<1> QED
  BY <1>1, <1>3, <1>5, <1>7, <1>11, <1>12 DEF Solving

-----------------------------------------------------------------------------
(***************************************************************************)
(* A request that fails.                                                   *)
(***************************************************************************)
\* A node beyond the evaluator makes its program unsupported.
LEMMA UnsupportedNode ==
  ASSUME NEW frame, NEW node, NodeOK(frame, node),
         \/ NodeOf(frame, node).kind = "unsupported"
         \/ /\ NodeOf(frame, node).kind = "counted_for"
            /\ \E k \in 0..(NodeOf(frame, node).trip - 1) :
                 ~(k * NodeOf(frame, node).stride <= MaxUsize)
  PROVE  ~IsSupportedProgram(request)
<1> DEFINE site == <<frame.fn, node, <<>>>>
<1>1. NodeAt(request, site) = NodeOf(frame, node)
  BY DEF NodeAt, NodeOf
<1>2. ~IsSupported(request, site)
  BY <1>1 DEF IsSupported
<1>3. frame.fn \in DOMAIN request.fns /\ node \in 1..Len(request.fns[frame.fn].nodes)
  BY DEF NodeOK, FrameOK
<1> QED
  BY <1>2, <1>3 DEF IsSupportedProgram

\* A request that has failed stays as it is.
LEMMA FailedStays ==
  ASSUME EvaluatorInvariant, Next, Failed
  PROVE  UNCHANGED vars
<1>1. ctl.at = "fail"
  BY DEF Failed
<1> QED
  BY <1>1 DEF Next, CacheHit, EvalParam, EnterNode, DemandOperand, EnterCallee, EnterIteration,
              Deliver, NextStage, FinishNode, FinishArm, ResolveConcrete, ForkSymbolic,
              BranchAtLimit, BranchImpossible, BranchTaken, Terminated, Working, Drained,
              Selecting, Branching

\* The evaluator gives up only on a program it does not support.
LEMMA FailsUnsupported ==
  ASSUME EvaluatorInvariant, [Next]_vars, ~Failed, Failed'
  PROVE  ~IsSupportedProgram(request)
<1>1. Typed /\ Fresh
  BY DEF EvaluatorInvariant
<1>2. CASE NextStage
  <2>1. /\ ctl.at = "run" /\ top.stage < Stages(top)
        /\ top.stage >= Len(top.refs) /\ InductionOverflows(top.stage - Len(top.refs))
    BY <1>2 DEF NextStage, Drained, Failed
  <2>2. stack # <<>>
    BY <1>1, <2>1 DEF Typed, ControlOK
  <2>3. /\ NodeOK(top.frame, top.node) /\ topNode = NodeOf(top.frame, top.node)
        /\ top.stage \in Nat /\ Len(top.refs) \in Nat
    BY <1>1, <2>2, TopFacts
  <2>4. PICK k : k = top.stage - Len(top.refs)
    OBVIOUS
  <2>5. /\ topNode.kind = "counted_for" /\ ~top.arm /\ k * topNode.stride > MaxUsize
    BY <2>1, <2>4 DEF InductionOverflows
  <2>6. Stages(top) = Len(top.refs) + topNode.trip
    BY <2>3, <2>5 DEF Stages, SelectionKinds
  <2>7. topNode.trip \in Nat /\ topNode.stride \in Nat
    BY <1>1, <2>3, <2>5, RequestsAssumption
       DEF Typed, NodeOK, FrameOK, NodeOf, WellFormed, WellFormedNode
  <2>8. k \in 0..(topNode.trip - 1)
    BY <2>1, <2>3, <2>4, <2>6, <2>7
  <2>9. ~(k * topNode.stride <= MaxUsize)
    <3>1. k * topNode.stride \in Nat /\ MaxUsize \in Nat
      BY <2>7, <2>8, InputsAssumption
    <3> QED
      BY <2>5, <3>1
  <2> QED
    BY <2>3, <2>5, <2>8, <2>9, UnsupportedNode
<1>3. CASE FinishNode
  <2>1. ctl.at = "run" /\ Unsupported(top)
    BY <1>3 DEF FinishNode, Drained, Failed, Return
  <2>2. stack # <<>>
    BY <1>1, <2>1 DEF Typed, ControlOK
  <2>3. NodeOK(top.frame, top.node)
    BY <1>1, <2>2, TopFacts
  <2> QED
    BY <2>1, <2>3, UnsupportedNode DEF Unsupported
<1>4. CASE ResolveConcrete
  <2>1. Selecting /\ topSite \in DOMAIN Head(top.todo).state.trace
    BY <1>4 DEF ResolveConcrete, Failed
  <2> QED
    BY <1>1, <2>1, SelectingIsFresh
<1>5. CASE \/ CacheHit \/ EvalParam \/ EnterNode \/ DemandOperand \/ EnterCallee \/ EnterIteration
           \/ Deliver \/ FinishArm
  <2>1. /\ \A list : Return(list).at = "return" /\ Run.at = "run"
        /\ \A frame, node, state : Call(frame, node, state).at = "call"
    BY DEF Return, Run, Call
  <2>2. CASE CacheHit \/ EvalParam \/ FinishArm
    BY <2>1, <2>2 DEF CacheHit, EvalParam, FinishArm, Failed
  <2>3. CASE EnterNode \/ Deliver
    BY <2>1, <2>3 DEF EnterNode, Deliver, Failed
  <2>4. CASE DemandOperand \/ EnterCallee \/ EnterIteration
    <3>1. \E frame, node : Evaluate(frame, node)
      BY <2>4 DEF DemandOperand, EnterCallee, EnterIteration
    <3> QED
      BY <2>1, <3>1 DEF Evaluate, Failed
  <2> QED
    BY <1>5, <2>2, <2>3, <2>4
<1>6. CASE ForkSymbolic \/ BranchAtLimit \/ BranchImpossible \/ BranchTaken \/ Terminated
           \/ UNCHANGED vars
  BY <1>6 DEF ForkSymbolic, BranchAtLimit, BranchImpossible, BranchTaken, Terminated, Failed, vars
<1> QED
  BY <1>2, <1>3, <1>4, <1>5, <1>6 DEF Next

-----------------------------------------------------------------------------
(***************************************************************************)
(* The invariant of an enumeration.                                        *)
(***************************************************************************)
allVars == <<evaluatorVars, pruningVars>>

\* The evaluator moves only until it is done.
LEMMA EvaluatorMoves ==
  ASSUME [EnumerateNext]_allVars
  PROVE  [Next]_vars
BY DEF EnumerateNext, Construct, HandOver, Prune, allVars, evaluatorVars, vars

\* Nothing has been handed over when a request starts.
LEMMA EnumerationInit ==
  ASSUME EnumerateInit
  PROVE  EnumerationInvariant
BY DEF EnumerateInit, EnumerationInvariant, Untouched

\* While the evaluator rests, what was handed over is the same.
LEMMA EvaluatorRests ==
  ASSUME UNCHANGED evaluatorVars
  PROVE  Finished' = Finished /\ HandedOver' = HandedOver /\ incomplete' = incomplete
         /\ Failed' = Failed /\ request' = request
BY DEF evaluatorVars, Finished, Failed, HandedOver, TraceNumber

\* While the pruning rests, its invariants stay.
LEMMA PruningRests ==
  ASSUME UNCHANGED pruningVars
  PROVE  /\ Pruning!TypeOK' <=> Pruning!TypeOK
         /\ Pruning!PruningInvariant' <=> Pruning!PruningInvariant
         /\ Pruning!OneResultPerTrace' <=> Pruning!OneResultPerTrace
<1>1. Pruning!TypeOK' <=> Pruning!TypeOK
  BY DEF pruningVars, Pruning!TypeOK
<1>2. Pruning!PruningInvariant' <=> Pruning!PruningInvariant
  BY DEF pruningVars, Pruning!PruningInvariant, Pruning!DistinctTraces, Pruning!ScopesBalance,
         Pruning!CheckedGuard, Pruning!AnswerMeans, Pruning!TallyAccounts,
         Pruning!WitnessesSatisfyGuards, Pruning!InfeasibleIsHonest, Pruning!NoDuplicateTrace,
         Pruning!Trusted, Pruning!Asserted, Pruning!guard, Pruning!Settled, Pruning!Returned
<1>3. Pruning!OneResultPerTrace' <=> Pruning!OneResultPerTrace
  BY DEF pruningVars, Pruning!OneResultPerTrace
<1> QED
  BY <1>1, <1>2, <1>3

\* Every step keeps the invariant of the enumeration.
LEMMA EnumerationStep ==
  ASSUME EvaluatorInvariant, EnumerationInvariant, [EnumerateNext]_allVars
  PROVE  EnumerationInvariant'
<1>1. limit \in Limits /\ IF pc = "construct" THEN Untouched ELSE Solving
  BY DEF EnumerationInvariant
<1>2. CASE Construct
  <2>1. pc = "construct" /\ Untouched
    BY <1>1, <1>2 DEF Construct, Solving
  <2> QED
    BY <1>1, <1>2, <2>1 DEF Construct, pruningVars, EnumerationInvariant, Untouched
<1>3. CASE HandOver
  <2>1. Solving' /\ pc' = "start" /\ limit' = limit
    BY <1>3, HandOverSolves DEF HandOver
  <2> QED
    BY <1>1, <2>1 DEF EnumerationInvariant
<1>4. CASE Prune
  <2>1. Solving /\ Pruning!Next /\ UNCHANGED evaluatorVars
    BY <1>1, <1>4 DEF Prune
  <2>2. /\ Pruning!TypeOK' /\ Pruning!PruningInvariant' /\ Pruning!OneResultPerTrace'
        /\ completeness # "Complete" => completeness' # "Complete"
        /\ candidates' = candidates /\ limit' = limit
    BY <2>1, PruneKeeps DEF Solving
  <2>3. Solving'
    BY <2>1, <2>2, EvaluatorRests DEF Solving
  <2>4. pc' # "construct"
    BY <2>2 DEF Pruning!TypeOK
  <2> QED
    BY <1>1, <2>2, <2>3, <2>4 DEF EnumerationInvariant
<1>5. CASE UNCHANGED allVars
  <2>1. UNCHANGED evaluatorVars /\ UNCHANGED pruningVars
    BY <1>5 DEF allVars
  <2>2. Untouched' <=> Untouched
    BY <2>1 DEF Untouched, pruningVars
  <2>3. Solving' <=> Solving
    BY <2>1, EvaluatorRests, PruningRests DEF Solving, pruningVars
  <2> QED
    BY <1>1, <2>1, <2>2, <2>3 DEF EnumerationInvariant, pruningVars
<1> QED
  BY <1>2, <1>3, <1>4, <1>5 DEF EnumerateNext

-----------------------------------------------------------------------------
(***************************************************************************)
(* What the answer says.                                                   *)
(***************************************************************************)
\* What the caller has, by where the enumeration is.
LEMMA Responses ==
  /\ pc = "done" /\ ~Failed =>
       response = [at |-> "answered", complete |-> completeness = "Complete",
                   results |-> {Presented(r) : r \in results}]
  /\ pc \notin {"done", "error"} /\ Failed => response = Promised!Refused
  /\ pc \notin {"done", "error"} /\ ~Failed => response = Promised!Pending
BY DEF response, Promised!Refused, Promised!Pending

\* The inputs under a returned candidate's guard are those with its selections.
LEMMA GuardIsClass ==
  ASSUME EvaluatorInvariant, EvaluatorMeaning, Finished, NEW i \in 1..Len(ctl.results),
         NEW w \in ctl.results[i].state.guard
  PROVE  /\ w \in request.domain
         /\ ctl.results[i].state.guard = Promised!Class(w)
         /\ Promised!On(w).trace = Entries(ctl.results[i].state.trace)
         /\ \A x \in ctl.results[i].state.guard :
              ctl.results[i].value.den[x] = Promised!On(x).value
<1>1. PICK r : r = ctl.results[i]
  OBVIOUS
<1>2. \A x \in r.state.guard :
        r.value.den[x] = Concrete(x).value /\ Entries(r.state.trace) = Concrete(x).trace
  BY <1>1, ResultsAreRight DEF ResultsMatchReference
<1>3. OthersLeft(r.state)
  <2>1. ReturnRight /\ Len(stack) = 0
    BY MeaningParts, EmptyList DEF Finished
  <2>2. InHandOf(0, r.state)
    BY <1>1, <2>1 DEF ReturnRight
  <2> QED
    BY <2>2, WithinParts DEF StateRight
<1>4. r.state.guard \subseteq request.domain
  BY <1>1 DEF EvaluatorInvariant, Typed, ControlOK, Finished, StateOK
<1>5. \A x : Promised!On(x) = Concrete(x)
  BY DEF Promised!On, Concrete
<1>6. ASSUME NEW y \in request.domain, Concrete(y).trace = Entries(r.state.trace)
      PROVE  y \in r.state.guard
  <2> SUFFICES ASSUME y \notin r.state.guard PROVE FALSE
    OBVIOUS
  <2>1. PICK entry \in Concrete(y).trace :
          entry[1] \in DOMAIN r.state.trace /\ r.state.trace[entry[1]] # entry[2]
    BY <1>3 DEF OthersLeft
  <2>2. PICK site \in DOMAIN r.state.trace : entry = <<site, r.state.trace[site]>>
    BY <1>6, <2>1 DEF Entries
  <2> QED
    BY <2>1, <2>2
<1>7. Promised!Class(w) = {y \in request.domain : Concrete(y).trace = Concrete(w).trace}
  BY <1>5 DEF Promised!Class
<1>8. Promised!Class(w) = r.state.guard
  BY <1>1, <1>2, <1>4, <1>6, <1>7
<1> QED
  BY <1>1, <1>2, <1>4, <1>5, <1>8

\* A result presented to the caller is the promised one, of its witness.
LEMMA PresentedIsResult ==
  ASSUME EvaluatorInvariant, EvaluatorMeaning, Solving, NEW r \in results
  PROVE  /\ r.trace \in 1..Len(ctl.results)
         /\ r.witness \in request.domain /\ Presented(r) = Promised!Result(r.witness)
         /\ Presented(r).trace = Entries(ctl.results[r.trace].state.trace)
         /\ Presented(r).witness = r.witness /\ Presented(r).guard = r.guard
<1>1. Finished /\ candidates = HandedOver
  BY DEF Solving
<1>2. next \in 1..(Len(candidates) + 1) /\ Len(candidates) \in Nat
  <2>1. candidates \in Seq(Pruning!Candidates)
    BY DEF Solving, Pruning!TypeOK
  <2> QED
    BY <2>1 DEF Solving, Pruning!TypeOK
<1>3. /\ \E i \in 1..(next - 1) : Pruning!Returned(r, candidates[i])
      /\ r.witness \in r.guard
  BY DEF Solving, Pruning!PruningInvariant, Pruning!TallyAccounts, Pruning!WitnessesSatisfyGuards
<1>4. PICK i \in 1..(next - 1) : Pruning!Returned(r, candidates[i])
  BY <1>3
<1>5. Len(candidates) = Len(ctl.results) /\ i \in 1..Len(ctl.results)
  BY <1>1, <1>2, HandedOverFacts
<1>6. PICK c : c = ctl.results[i]
  OBVIOUS
<1>7. candidates[i] = [trace |-> i, guard |-> c.state.guard]
  BY <1>1, <1>5, <1>6, HandedOverFacts
<1>8. r.trace = i /\ r.guard = c.state.guard
  BY <1>4, <1>7 DEF Pruning!Returned
<1>9. PICK w : w = r.witness
  OBVIOUS
<1>10. /\ w \in request.domain /\ c.state.guard = Promised!Class(w)
       /\ Promised!On(w).trace = Entries(c.state.trace)
       /\ \A x \in c.state.guard : c.value.den[x] = Promised!On(x).value
  BY <1>1, <1>3, <1>5, <1>6, <1>8, <1>9, GuardIsClass
<1>11. Presented(r) = [trace |-> Entries(c.state.trace), guard |-> c.state.guard,
                       value |-> [x \in c.state.guard |-> c.value.den[x]], witness |-> w]
  BY <1>6, <1>8, <1>9 DEF Presented
<1>12. [x \in c.state.guard |-> c.value.den[x]] =
         [y \in Promised!Class(w) |-> Promised!On(y).value]
  BY <1>10
<1>13. Presented(r) = Promised!Result(w)
  BY <1>10, <1>11, <1>12 DEF Promised!Result
<1> QED
  BY <1>5, <1>6, <1>8, <1>9, <1>10, <1>11, <1>13

\* Two results presented with the same selections are one.
LEMMA PresentedDiffer ==
  ASSUME EvaluatorInvariant, EvaluatorMeaning, Solving, NEW r \in results, NEW s \in results,
         Presented(r).trace = Presented(s).trace
  PROVE  r = s
<1>1. /\ r.trace \in 1..Len(ctl.results) /\ s.trace \in 1..Len(ctl.results)
      /\ Entries(ctl.results[r.trace].state.trace) = Entries(ctl.results[s.trace].state.trace)
  BY PresentedIsResult
<1>2. r.trace = s.trace
  BY <1>1, ReturnedDiffer DEF Solving
<1> QED
  BY <1>2 DEF Solving, Pruning!OneResultPerTrace

\* Of an answer reported complete, some result has the input.
LEMMA CompleteHasAll ==
  ASSUME EvaluatorInvariant, Splitting!Partition, Solving, pc = "done",
         completeness = "Complete", NEW x \in request.domain
  PROVE  \E r \in results : x \in r.guard
<1>1. Finished /\ candidates = HandedOver /\ incomplete = None
  BY DEF Solving
<1>2. Splitting!Covered = request.domain
  BY <1>1 DEF Splitting!Partition, Finished
<1>3. PICK l \in Live : x \in l.state.guard
  BY <1>2 DEF Splitting!Covered, Candidate
<1>4. Live = InHand
  <2>1. Depth = 0
    BY <1>1, EmptyList DEF Finished, Depth
  <2> QED
    BY <2>1, LiveParts
<1>5. PICK i \in 1..Len(ctl.results) : l.state = ctl.results[i].state
  BY <1>1, <1>3, <1>4, InHandParts DEF Finished, Returned, At
<1>6. PICK g : g = ctl.results[i].state.guard
  OBVIOUS
<1>7. /\ i \in 1..Len(candidates) /\ candidates[i] = [trace |-> i, guard |-> g] /\ x \in g
  BY <1>1, <1>3, <1>5, <1>6, HandedOverFacts
<1>8. Pruning!CompleteIsExhaustive
  BY SamePruning, EnumerationAssumption, PruningProofs!ExhaustiveWhenDone DEF Solving
<1>9. Pruning!Settled(candidates[i])
  BY <1>7, <1>8 DEF Pruning!CompleteIsExhaustive
<1> QED
  BY <1>7, <1>9 DEF Pruning!Settled, Pruning!Returned

\* The answer is sound.
LEMMA AnswerIsSound ==
  ASSUME EvaluatorInvariant, EvaluatorMeaning, Splitting!Partition, Solving, pc = "done"
  PROVE  Promised!Sound(response)
<1>1. /\ response.at = "answered" /\ response.complete = (completeness = "Complete")
      /\ response.results = {Presented(r) : r \in results}
  <2>1. ~Failed
    BY DEF Solving, Finished, Failed
  <2>2. PICK all : all = {Presented(r) : r \in results}
    OBVIOUS
  <2>3. response = [at |-> "answered", complete |-> completeness = "Complete", results |-> all]
    BY <2>1, <2>2, Responses
  <2> QED
    BY <2>2, <2>3
<1>2. ASSUME NEW p \in response.results
      PROVE  p.witness \in request.domain /\ p = Promised!Result(p.witness)
  BY <1>1, PresentedIsResult
<1>3. ASSUME NEW p \in response.results, NEW q \in response.results, p.trace = q.trace
      PROVE  p = q
  BY <1>1, <1>3, PresentedDiffer
<1>4. ASSUME response.complete, NEW x \in request.domain
      PROVE  \E p \in response.results : x \in p.guard
  <2>1. PICK r \in results : x \in r.guard
    BY <1>1, <1>4, CompleteHasAll
  <2>2. Presented(r) \in response.results /\ Presented(r).guard = r.guard
    BY <1>1, PresentedIsResult
  <2> QED
    BY <2>1, <2>2
<1> QED
  BY <1>1, <1>2, <1>3, <1>4 DEF Promised!Sound

-----------------------------------------------------------------------------
(***************************************************************************)
(* Every step is one of the promise's, or a stutter.                       *)
(***************************************************************************)
\* A request starts as promised.
LEMMA PromiseInit ==
  ASSUME EnumerateInit
  PROVE  Promised!Init
<1>1. pc = "construct" /\ ~Failed /\ request \in Requests
  BY DEF EnumerateInit, Init, Call, Failed
<1> QED
  BY <1>1, Responses DEF Promised!Init

\* Once an answer is given it stays.
LEMMA PruningIsDone ==
  ASSUME Pruning!Next, pc = "done"
  PROVE  UNCHANGED pruningVars
BY DEF pruningVars, Pruning!Next, Pruning!vars,
       Pruning!NothingToSolve, Pruning!SessionFails, Pruning!SessionStarts,
       Pruning!Push, Pruning!PushFails, Pruning!Assert, Pruning!AssertFails,
       Pruning!CheckUnsat, Pruning!CheckUnknown, Pruning!CheckSat, Pruning!CheckFails,
       Pruning!ReadModel, Pruning!ReadModelFails,
       Pruning!Pop, Pruning!PopFails, Pruning!Finish, Pruning!Terminated

\* A step in which nothing that the caller has changes.
LEMMA ResponseRests ==
  ASSUME UNCHANGED allVars
  PROVE  request' = request /\ response' = response
BY DEF allVars, evaluatorVars, pruningVars, response, Presented, Entries, Failed

\* The evaluator's steps answer nothing, unless the request is refused.
LEMMA ConstructIsPromised ==
  ASSUME EvaluatorInvariant, EnumerationInvariant, Construct
  PROVE  [Promised!Next]_(Promised!vars)
<1>1. Next /\ pc = "construct" /\ pc' = "construct" /\ UNCHANGED pruningVars
  BY DEF Construct, EnumerationInvariant, Solving, pruningVars
<1>2. request' = request
  BY <1>1, StepCases DEF EvaluatorInvariant
<1>3. CASE Failed
  <2>1. UNCHANGED vars
    BY <1>1, <1>3, FailedStays
  <2> QED
    BY <1>1, <2>1, ResponseRests DEF vars, allVars, evaluatorVars, Promised!vars
<1>4. CASE ~Failed /\ Failed'
  <2>1. response = Promised!Pending /\ response' = Promised!Refused
    <3>1. (pc \notin {"done", "error"} /\ Failed => response = Promised!Refused)'
      BY Responses, PTL
    <3> QED
      BY <1>1, <1>4, <3>1, Responses DEF Promised!Refused
  <2>2. ~IsSupportedProgram(request)
    BY <1>1, <1>4, FailsUnsupported
  <2> QED
    BY <1>2, <2>1, <2>2 DEF Promised!Next, Promised!Refuse
<1>5. CASE ~Failed /\ ~Failed'
  <2>1. (pc \notin {"done", "error"} /\ ~Failed => response = Promised!Pending)'
    BY Responses, PTL
  <2>2. response = Promised!Pending /\ response' = Promised!Pending
    BY <1>1, <1>5, <2>1, Responses DEF Promised!Pending
  <2> QED
    BY <1>2, <2>2 DEF Promised!vars
<1> QED
  BY <1>3, <1>4, <1>5

\* Handing over answers nothing.
LEMMA HandOverIsPromised ==
  ASSUME HandOver
  PROVE  [Promised!Next]_(Promised!vars)
<1>1. /\ pc = "construct" /\ pc' = "start" /\ UNCHANGED evaluatorVars /\ Finished
  BY DEF HandOver
<1>2. ~Failed /\ ~Failed' /\ request' = request
  BY <1>1, EvaluatorRests DEF Finished, Failed
<1>3. (pc \notin {"done", "error"} /\ ~Failed => response = Promised!Pending)'
  BY Responses, PTL
<1>4. response = Promised!Pending /\ response' = Promised!Pending
  BY <1>1, <1>2, <1>3, Responses DEF Promised!Pending
<1> QED
  BY <1>2, <1>4 DEF Promised!vars

\* What is sound does not depend on when it is answered.
LEMMA SoundThen ==
  ASSUME request' = request
  PROVE  Promised!Sound(response)' <=> Promised!Sound(response')
<1>1. \A x : Promised!On(x)' = Promised!On(x)
  BY DEF Promised!On
<1>2. \A x : Promised!Class(x)' = Promised!Class(x)
  BY <1>1 DEF Promised!Class
<1>3. \A x : Promised!Result(x)' = Promised!Result(x)
  BY <1>1, <1>2 DEF Promised!Result
<1> QED
  BY <1>3 DEF Promised!Sound

\* The pruning answers once, soundly.
LEMMA PruneIsPromised ==
  ASSUME EnumerationInvariant, Prune,
         (EvaluatorInvariant /\ EvaluatorMeaning /\ Splitting!Partition /\ EnumerationInvariant)'
  PROVE  [Promised!Next]_(Promised!vars)
<1>1. Solving /\ Pruning!Next /\ UNCHANGED evaluatorVars
  BY DEF EnumerationInvariant, Prune
<1>2. ~Failed /\ ~Failed' /\ request' = request
  BY <1>1, EvaluatorRests DEF Solving, Finished, Failed
<1>3. /\ pc # "error"
      /\ Pruning!TypeOK' /\ Pruning!PruningInvariant'
  BY <1>1, PruneKeeps DEF Solving, Pruning!PruningInvariant, Pruning!NoDuplicateTrace
<1>4. pc' # "error" /\ pc' # "construct"
  BY <1>3 DEF Pruning!TypeOK, Pruning!PruningInvariant, Pruning!NoDuplicateTrace
<1>5. CASE pc = "done"
  <2>1. UNCHANGED allVars
    BY <1>1, <1>5, PruningIsDone DEF allVars
  <2> QED
    BY <2>1, ResponseRests DEF Promised!vars
<1>6. CASE pc # "done" /\ pc' = "done"
  <2>1. response = Promised!Pending
    BY <1>2, <1>3, <1>6, Responses
  <2>2. Solving'
    BY <1>4 DEF EnumerationInvariant
  <2>3. (EvaluatorInvariant /\ EvaluatorMeaning /\ Splitting!Partition /\ Solving /\ pc = "done"
          => Promised!Sound(response))'
    BY AnswerIsSound, PTL
  <2>4. Promised!Sound(response)'
    BY <1>6, <2>2, <2>3
  <2>5. Promised!Sound(response')
    BY <1>2, <2>4, SoundThen
  <2> QED
    BY <1>2, <2>1, <2>5 DEF Promised!Next, Promised!Answer
<1>7. CASE pc # "done" /\ pc' # "done"
  <2>1. (pc \notin {"done", "error"} /\ ~Failed => response = Promised!Pending)'
    BY Responses, PTL
  <2>2. response = Promised!Pending /\ response' = Promised!Pending
    BY <1>2, <1>3, <1>4, <1>7, <2>1, Responses DEF Promised!Pending
  <2> QED
    BY <1>2, <2>2 DEF Promised!vars
<1> QED
  BY <1>5, <1>6, <1>7

\* Every step of an enumeration is one of its promise.
LEMMA StepIsPromised ==
  ASSUME EvaluatorInvariant, EnumerationInvariant, [EnumerateNext]_allVars,
         (EvaluatorInvariant /\ EvaluatorMeaning /\ Splitting!Partition /\ EnumerationInvariant)'
  PROVE  [Promised!Next]_(Promised!vars)
<1>1. CASE UNCHANGED allVars
  BY <1>1, ResponseRests DEF Promised!vars
<1> QED
  BY <1>1, ConstructIsPromised, HandOverIsPromised, PruneIsPromised DEF EnumerateNext

-----------------------------------------------------------------------------
(***************************************************************************)
(* What holds of every enumeration.                                        *)
(***************************************************************************)
\* An enumeration does with its evaluator what the evaluator does.
LEMMA EvaluatorServes ==
  ASSUME PureNodesAreTyped, PureNodesAreOps, OutcomesAreConcrete
  PROVE  EnumerateSpec =>
           [](EvaluatorInvariant /\ WithinBudget /\ EvaluatorMeaning /\ Splitting!Partition)
<1>1. EnumerateInit => /\ EvaluatorInvariant /\ WithinBudget
                       /\ EvaluatorMeaning /\ Splitting!Init
  BY InvariantInit, MeaningInit, InitImplements DEF EnumerateInit
<1>2. /\ EvaluatorInvariant /\ WithinBudget /\ EvaluatorMeaning
      /\ [EnumerateNext]_<<evaluatorVars, pruningVars>>
      => /\ (EvaluatorInvariant /\ WithinBudget /\ EvaluatorMeaning)'
         /\ [Splitting!Next]_(Splitting!vars)
  BY EvaluatorMoves, InvariantStep, MeaningStep, StepImplements DEF allVars
<1>3. Splitting!Init /\ [][Splitting!Next]_(Splitting!vars) => []Splitting!Partition
  BY SplitsPartition DEF Splitting!Spec
<1> QED
  BY <1>1, <1>2, <1>3, PTL DEF EnumerateSpec

\* The inductive invariant of the composition: candidates are handed over once,
\* as the evaluator returned them, and the pruning is sound of them.
THEOREM EnumerationIsSound ==
  ASSUME PureNodesAreTyped, PureNodesAreOps, OutcomesAreConcrete
  PROVE  EnumerateSpec => []EnumerationInvariant
<1>1. EnumerateInit => EnumerationInvariant
  BY EnumerationInit
<1>2. /\ EvaluatorInvariant /\ EnumerationInvariant
      /\ [EnumerateNext]_<<evaluatorVars, pruningVars>>
      => EnumerationInvariant'
  BY EnumerationStep DEF allVars
<1> QED
  BY <1>1, <1>2, EvaluatorServes, PTL DEF EnumerateSpec

\* Whatever solver calls fail and whatever budget or limit is met, the one
\* answer has results that are whole classes of inputs with equal traces, with
\* their values; one reported complete has every class; and only a program with
\* an operation beyond the evaluator is refused.
THEOREM EnumerationKeepsItsPromise ==
  ASSUME PureNodesAreTyped, PureNodesAreOps, OutcomesAreConcrete
  PROVE  EnumerateSpec => ImplementsCanonicalEnumeration
<1>1. EnumerateInit => Promised!Init
  BY PromiseInit
<1>2. /\ EvaluatorInvariant /\ EnumerationInvariant
      /\ (EvaluatorInvariant /\ EvaluatorMeaning /\ Splitting!Partition /\ EnumerationInvariant)'
      /\ [EnumerateNext]_<<evaluatorVars, pruningVars>>
      => [Promised!Next]_(Promised!vars)
  BY StepIsPromised DEF allVars
<1> QED
  BY <1>1, <1>2, EvaluatorServes, EnumerationIsSound, PTL
     DEF EnumerateSpec, ImplementsCanonicalEnumeration, Promised!Spec

-----------------------------------------------------------------------------
(***************************************************************************)
(* What the promise amounts to, for every request and meaning of programs. *)
(***************************************************************************)
\* Nothing has been answered yet, or the answer is sound.
AnswersAreSound == response \in {Promised!Pending, Promised!Refused} \/ Promised!Sound(response)

LEMMA SoundnessIsInvariant == Promised!Spec => []AnswersAreSound
<1>1. Promised!Init => AnswersAreSound
  BY DEF Promised!Init, AnswersAreSound
<1>2. AnswersAreSound /\ [Promised!Next]_(Promised!vars) => AnswersAreSound'
  <2> SUFFICES ASSUME AnswersAreSound, [Promised!Next]_(Promised!vars) PROVE AnswersAreSound'
    OBVIOUS
  <2>1. CASE Promised!Answer
    <3>1. Promised!Sound(response') /\ request' = request
      BY <2>1 DEF Promised!Answer
    <3>2. Promised!Sound(response)'
      BY <3>1 DEF Promised!Sound, Promised!Result, Promised!Class, Promised!On
    <3> QED
      BY <3>2 DEF AnswersAreSound
  <2>2. CASE Promised!Refuse
    BY <2>2 DEF Promised!Refuse, AnswersAreSound, Promised!Refused
  <2>3. CASE UNCHANGED Promised!vars
    <3>1. request' = request /\ response' = response
      BY <2>3 DEF Promised!vars
    <3>2. Promised!Sound(response)' <=> Promised!Sound(response)
      BY <3>1 DEF Promised!Sound, Promised!Result, Promised!Class, Promised!On
    <3> QED
      BY <3>1, <3>2 DEF AnswersAreSound, Promised!Pending, Promised!Refused
  <2> QED
    BY <2>1, <2>2, <2>3 DEF Promised!Next
<1> QED
  BY <1>1, <1>2, PTL DEF Promised!Spec

\* A result is under the guard of exactly the inputs that share its trace.
LEMMA ResultFields ==
  ASSUME NEW w
  PROVE  /\ Promised!Result(w).trace = Promised!On(w).trace
         /\ Promised!Result(w).guard = Promised!Class(w)
         /\ \A x \in Promised!Class(w) :
              /\ Promised!On(x).trace = Promised!On(w).trace
              /\ Promised!Result(w).value[x] = Promised!On(x).value
<1>1. Promised!Result(w).trace = Promised!On(w).trace
      /\ Promised!Result(w).guard = Promised!Class(w)
  BY DEF Promised!Result
<1>2. Promised!Result(w).value = [y \in Promised!Class(w) |-> Promised!On(y).value]
  BY DEF Promised!Result
<1>3. \A x \in Promised!Class(w) : Promised!On(x).trace = Promised!On(w).trace
  BY DEF Promised!Class
<1> QED
  BY <1>1, <1>2, <1>3

\* Promised answers decide inputs: at most one result, the right one, and one
\* if complete.
THEOREM PromisedAnswersDecide == Promised!Spec => []Promised!AnswerDecidesInputs
<1>1. AnswersAreSound => Promised!AnswerDecidesInputs
  <2> SUFFICES ASSUME Promised!Sound(response), NEW x \in request.domain
               PROVE  /\ \A r, s \in response.results : x \in r.guard /\ x \in s.guard => r = s
                      /\ \A r \in response.results :
                           x \in r.guard => /\ r.trace = Promised!On(x).trace
                                            /\ r.value[x] = Promised!On(x).value
                      /\ response.complete => \E r \in response.results : x \in r.guard
    BY DEF AnswersAreSound, Promised!AnswerDecidesInputs, Promised!Pending, Promised!Refused
  <2>1. ASSUME NEW r \in response.results, x \in r.guard
        PROVE  r.trace = Promised!On(x).trace /\ r.value[x] = Promised!On(x).value
    <3>1. r = Promised!Result(r.witness)
      BY DEF Promised!Sound
    <3> QED
      BY <2>1, <3>1, ResultFields
  <2>2. ASSUME NEW r \in response.results, NEW s \in response.results,
               x \in r.guard, x \in s.guard
        PROVE  r = s
    BY <2>1, <2>2 DEF Promised!Sound
  <2>3. response.complete => \E r \in response.results : x \in r.guard
    BY DEF Promised!Sound
  <2> QED
    BY <2>1, <2>2, <2>3
<1> QED
  BY <1>1, SoundnessIsInvariant, PTL

\* What a caller reads off the answer to a request: an allowed input is under
\* at most one result, which has the value and the selections of evaluating the
\* program on it, and under one if the answer is reported complete.
THEOREM AnswersDecideInputs ==
  ASSUME PureNodesAreTyped, PureNodesAreOps, OutcomesAreConcrete
  PROVE  EnumerateSpec => []Promised!AnswerDecidesInputs
BY EnumerationKeepsItsPromise, PromisedAnswersDecide, PTL DEF ImplementsCanonicalEnumeration

=============================================================================
