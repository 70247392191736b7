--------------------------- MODULE EnumeratorProofs --------------------------
(***************************************************************************)
(* The selection evaluator keeps its promises for every program, request   *)
(* and budget: EvaluatorInvariant is inductive, and from it follow the     *)
(* type invariant, that a selection is resolved once along a path, that    *)
(* any two candidates disagree at a selection both reached, that they are  *)
(* no more than the budget counts, and that every step is a step of        *)
(* SelectionSplit, whose guards partition the inputs.                      *)
(*                                                                         *)
(* Each conjunct of the invariant is preserved along its own argument:     *)
(*                                                                         *)
(*   Typed       a lemma for each action, from what the action does to the *)
(*               stack (pushed, replaced, popped);                         *)
(*   Descending  the stack only grows by a site below the innermost one,   *)
(*               or by an arm of it;                                       *)
(*   Remembered, CandidatesConflict                                        *)
(*               every candidate after a step is the Heir of one before    *)
(*               it, and two heirs of one candidate conflict;              *)
(*   Fresh       what is below all that was resolved has no outcome yet.   *)
(*                                                                         *)
(* PureNodesAreTyped, that the pure operations give values of their values,*)
(* is a hypothesis of the theorems that need it.                           *)
(***************************************************************************)
EXTENDS EnumeratorInvariant, SelectionsProofs

-----------------------------------------------------------------------------
(***************************************************************************)
(* The budget and the reason for an incomplete enumeration.                *)
(***************************************************************************)
\* Only branching counts a candidate, and only while there is budget.
LEMMA CountingSteps ==
  ASSUME [Next]_vars
  PROVE  \/ syntactic' = syntactic
         \/ syntactic' = syntactic + 1 /\ ~BudgetSpent
<1>1. CASE BranchTaken
  BY <1>1 DEF BranchTaken
<1>2. CASE BranchAtLimit \/ BranchImpossible \/ ResolveConcrete \/ ForkSymbolic
  BY <1>2 DEF BranchAtLimit, BranchImpossible, ResolveConcrete, ForkSymbolic
<1>3. CASE CacheHit \/ EvalParam \/ EnterNode \/ Deliver \/ NextStage \/ FinishNode \/ FinishArm
  BY <1>3 DEF CacheHit, EvalParam, EnterNode, Deliver, NextStage, FinishNode, FinishArm
<1>4. CASE DemandOperand \/ EnterCallee \/ EnterIteration
  BY <1>4 DEF DemandOperand, EnterCallee, EnterIteration, Evaluate
<1>5. CASE Terminated \/ UNCHANGED vars
  BY <1>5 DEF Terminated, vars
<1> QED BY <1>1, <1>2, <1>3, <1>4, <1>5 DEF Next

\* The candidates counted never outnumber the limit.
THEOREM BudgetIsRespected == Spec => []WithinBudget
<1> USE LimitAssumption DEF WithinBudget
<1>1. Init => WithinBudget
  BY DEF Init
<1>2. WithinBudget /\ [Next]_vars => WithinBudget'
  BY CountingSteps DEF BudgetSpent
<1> QED BY <1>1, <1>2, PTL DEF Spec

\* The first selection to exceed the budget stays the one that is reported.
THEOREM ReasonStaysFirst == Spec => ReasonIsFirst
<1>1. [Next]_vars => [incomplete # None => incomplete' = incomplete]_vars
  <2> SUFFICES ASSUME Next, incomplete # None PROVE incomplete' = incomplete
    BY DEF vars
  <2>1. CASE BranchAtLimit \/ ForkSymbolic
    BY <2>1 DEF BranchAtLimit, ForkSymbolic, FirstExceeded
  <2>2. CASE BranchTaken \/ BranchImpossible \/ ResolveConcrete
    BY <2>2 DEF BranchTaken, BranchImpossible, ResolveConcrete
  <2>3. CASE CacheHit \/ EvalParam \/ EnterNode \/ Deliver \/ NextStage \/ FinishNode \/ FinishArm
    BY <2>3 DEF CacheHit, EvalParam, EnterNode, Deliver, NextStage, FinishNode, FinishArm
  <2>4. CASE DemandOperand \/ EnterCallee \/ EnterIteration
    BY <2>4 DEF DemandOperand, EnterCallee, EnterIteration, Evaluate
  <2>5. CASE Terminated
    BY <2>5 DEF Terminated, vars
  <2> QED BY <2>1, <2>2, <2>3, <2>4, <2>5 DEF Next
<1> QED BY <1>1, PTL DEF Spec, ReasonIsFirst
-----------------------------------------------------------------------------
(***************************************************************************)
(* The request is the same throughout, so that whatever is said of a value *)
(* is still said of it after a step.                                       *)
(***************************************************************************)
LEMMA SameRequest ==
  ASSUME request' = request
  PROVE  /\ \A frame, node : NodeOf(frame, node)' = NodeOf(frame, node)
         /\ \A frame, node : NodeOK(frame, node)' <=> NodeOK(frame, node)
         /\ \A frame : FrameOK(frame)' <=> FrameOK(frame)
         /\ \A state : StateOK(state)' <=> StateOK(state)
         /\ \A partial, count : PartialOK(partial, count)' <=> PartialOK(partial, count)
         /\ \A pending, node, kind :
              PendingOK(pending, node, kind)' <=> PendingOK(pending, node, kind)
<1>1. \A frame, node : NodeOf(frame, node)' = NodeOf(frame, node)
  BY DEF NodeOf
<1>2. \A frame : FrameOK(frame)' <=> FrameOK(frame)
  BY DEF FrameOK
<1>3. \A frame, node : NodeOK(frame, node)' <=> NodeOK(frame, node)
  BY <1>2 DEF NodeOK
<1>4. \A state : StateOK(state)' <=> StateOK(state)
  BY DEF StateOK
<1>5. \A partial, count : PartialOK(partial, count)' <=> PartialOK(partial, count)
  BY <1>4 DEF PartialOK
<1>6. \A pending, node, kind :
              PendingOK(pending, node, kind)' <=> PendingOK(pending, node, kind)
  BY <1>4 DEF PendingOK
<1> QED
  BY <1>1, <1>2, <1>3, <1>4, <1>5, <1>6

\* What is said of an activation depends on the request and the activation only.
LEMMA SameActivation ==
  ASSUME request' = request, NEW act
  PROVE  /\ KindOf(act)' = KindOf(act)
         /\ Resolving(act)' <=> Resolving(act)
         /\ \A stage : Arity(act, stage)' = Arity(act, stage)
         /\ Stages(act)' = Stages(act)
         /\ ActivationOK(act)' <=> ActivationOK(act)
         /\ CurrentOK(act)' <=> CurrentOK(act)
<1>1. NodeOf(act.frame, act.node)' = NodeOf(act.frame, act.node)
  BY SameRequest
<1>2. KindOf(act)' = KindOf(act)
  BY <1>1 DEF KindOf
<1>3. Resolving(act)' <=> Resolving(act)
  BY <1>2 DEF Resolving
<1>4. \A stage : Arity(act, stage)' = Arity(act, stage)
  BY <1>2 DEF Arity
<1>5. Stages(act)' = Stages(act)
  BY <1>1 DEF Stages
<1>6. RefsOK(act)' <=> RefsOK(act)
  BY <1>1, <1>2 DEF RefsOK
<1>7. PartialsOK(act)' <=> PartialsOK(act)
  BY <1>2, <1>3, <1>4, SameRequest DEF PartialsOK
<1>8. NodeOK(act.frame, act.node)' <=> NodeOK(act.frame, act.node)
  BY SameRequest
<1>9. ActivationOK(act)' <=> ActivationOK(act)
  BY <1>5, <1>6, <1>7, <1>8 DEF ActivationOK
<1>10. CurrentOK(act)' <=> CurrentOK(act)
  BY <1>4 DEF CurrentOK
<1> QED
  BY <1>2, <1>3, <1>4, <1>5, <1>9, <1>10

-----------------------------------------------------------------------------
(***************************************************************************)
(* The four ways a step changes the stack.  Activations are counted from   *)
(* the outermost, so that those a step leaves alone keep their number.     *)
(***************************************************************************)
Depth == Len(stack)

KeepsActivations(n) == \A d \in 1..n : ActivationAt(d)' = ActivationAt(d)

\* An activation is pushed.
LEMMA Pushed ==
  ASSUME IsList(stack), NEW act, stack' = <<act>> \o stack
  PROVE  /\ IsList(stack)' /\ Depth' = Depth + 1 /\ KeepsActivations(Depth)
         /\ ActivationAt(Depth)' = act
<1>1. Len(stack) \in Nat
  BY ListElements
<1>2. /\ IsList(stack') /\ Len(stack') = Len(stack) + 1
      /\ stack'[1] = act
      /\ \A i \in 1..Len(stack) : stack'[i + 1] = stack[i]
  BY OneMoreBefore
<1>3. ASSUME NEW d \in 1..Len(stack)
      PROVE  stack'[Len(stack') + 1 - d] = stack[Len(stack) + 1 - d]
  <2>1. Len(stack) + 1 - d \in 1..Len(stack) /\ Len(stack') + 1 - d = (Len(stack) + 1 - d) + 1
    BY <1>1, <1>2
  <2> QED
    BY <1>2, <2>1
<1>4. Len(stack') + 1 - Len(stack') = 1
  BY <1>1, <1>2
<1> QED
  BY <1>2, <1>3, <1>4 DEF Depth, KeepsActivations, ActivationAt, IsList

\* The innermost activation is popped.
LEMMA Popped ==
  ASSUME IsList(stack), stack # <<>>, stack' = Tail(stack)
  PROVE  IsList(stack)' /\ Depth' = Depth - 1 /\ KeepsActivations(Depth - 1)
<1>1. Len(stack) \in Nat
  BY ListElements
<1>2. /\ IsList(stack') /\ Len(stack') = Len(stack) - 1
      /\ \A i \in 1..(Len(stack) - 1) : stack'[i] = stack[i + 1]
  BY TailOfList
<1>3. ASSUME NEW d \in 1..(Len(stack) - 1)
      PROVE  stack'[Len(stack') + 1 - d] = stack[Len(stack) + 1 - d]
  <2>1. /\ Len(stack') + 1 - d \in 1..(Len(stack) - 1)
        /\ (Len(stack') + 1 - d) + 1 = Len(stack) + 1 - d
    BY <1>1, <1>2
  <2> QED
    BY <1>2, <2>1
<1> QED
  BY <1>2, <1>3 DEF Depth, KeepsActivations, ActivationAt, IsList

\* The innermost activation moves on.
LEMMA Replaced ==
  ASSUME IsList(stack), stack # <<>>, NEW act, stack' = <<act>> \o Tail(stack)
  PROVE  /\ IsList(stack)' /\ Depth' = Depth /\ KeepsActivations(Depth - 1)
         /\ ActivationAt(Depth)' = act
<1>1. Len(stack) \in Nat
  BY ListElements
<1>2. /\ IsList(Tail(stack)) /\ Len(Tail(stack)) = Len(stack) - 1
      /\ \A i \in 1..(Len(stack) - 1) : Tail(stack)[i] = stack[i + 1]
  BY TailOfList
<1>3. /\ IsList(stack') /\ Len(stack') = Len(stack)
      /\ stack'[1] = act
      /\ \A i \in 1..(Len(stack) - 1) : stack'[i + 1] = Tail(stack)[i]
  <2>1. (Len(stack) - 1) + 1 = Len(stack)
    BY <1>1
  <2> QED
    BY <1>2, <2>1, OneMoreBefore
<1>4. ASSUME NEW d \in 1..(Len(stack) - 1)
      PROVE  stack'[Len(stack') + 1 - d] = stack[Len(stack) + 1 - d]
  <2>1. Len(stack) - d \in 1..(Len(stack) - 1) /\ (Len(stack) - d) + 1 = Len(stack) + 1 - d
    BY <1>1
  <2> QED
    BY <1>2, <1>3, <2>1
<1>5. Len(stack') + 1 - Len(stack) = 1
  BY <1>1, <1>3
<1> QED
  BY <1>3, <1>4, <1>5 DEF Depth, KeepsActivations, ActivationAt, IsList

\* The innermost activation moves on and another is pushed on top of it.
LEMMA ReplacedAndPushed ==
  ASSUME IsList(stack), stack # <<>>, NEW under, NEW act,
         stack' = <<act>> \o (<<under>> \o Tail(stack))
  PROVE  /\ IsList(stack)' /\ Depth' = Depth + 1 /\ KeepsActivations(Depth - 1)
         /\ ActivationAt(Depth - 1)' = under /\ ActivationAt(Depth)' = act
<1>1. Len(stack) \in Nat
  BY ListElements
<1> DEFINE middle == <<under>> \o Tail(stack)
<1>2. /\ IsList(Tail(stack)) /\ Len(Tail(stack)) = Len(stack) - 1
      /\ \A i \in 1..(Len(stack) - 1) : Tail(stack)[i] = stack[i + 1]
  BY TailOfList
<1>3. /\ IsList(middle) /\ Len(middle) = Len(stack)
      /\ middle[1] = under
      /\ \A i \in 1..(Len(stack) - 1) : middle[i + 1] = Tail(stack)[i]
  <2>1. (Len(stack) - 1) + 1 = Len(stack)
    BY <1>1
  <2> QED
    BY <1>2, <2>1, OneMoreBefore
<1>8. stack' = <<act>> \o middle
  OBVIOUS
<1> HIDE DEF middle
<1>4. /\ IsList(stack') /\ Len(stack') = Len(stack) + 1
      /\ stack'[1] = act
      /\ \A i \in 1..Len(stack) : stack'[i + 1] = middle[i]
  <2>1. /\ IsList(<<act>> \o middle) /\ Len(<<act>> \o middle) = Len(middle) + 1
        /\ (<<act>> \o middle)[1] = act
        /\ \A i \in 1..Len(middle) : (<<act>> \o middle)[i + 1] = middle[i]
    <3>1. IsList(middle)
      BY <1>3
    <3> QED
      BY <3>1, OneMoreBefore
  <2> QED
    BY <1>3, <1>8, <2>1
<1>5. ASSUME NEW d \in 1..(Len(stack) - 1)
      PROVE  stack'[Len(stack') + 1 - d] = stack[Len(stack) + 1 - d]
  <2>1. /\ Len(stack) - d \in 1..(Len(stack) - 1)
        /\ (Len(stack) - d) + 1 = Len(stack) + 1 - d
        /\ Len(stack) + 1 - d \in 1..Len(stack)
        /\ (Len(stack) + 1 - d) + 1 = Len(stack') + 1 - d
    BY <1>1, <1>4
  <2> QED
    BY <1>2, <1>3, <1>4, <2>1
<1>6. stack'[2] = under
  <2>1. 1 \in 1..Len(stack) /\ 1 + 1 = 2
    BY <1>1, HeadOfList
  <2> QED
    BY <1>3, <1>4, <2>1
<1>7. Len(stack') + 1 - (Len(stack') - 1) = 2 /\ Len(stack') + 1 - Len(stack') = 1
  BY <1>1, <1>4
<1> QED
  BY <1>4, <1>5, <1>6, <1>7 DEF Depth, KeepsActivations, ActivationAt, IsList

\* The innermost activation is the last one counted.
LEMMA TopActivation ==
  ASSUME IsList(stack), stack # <<>>
  PROVE  /\ Depth - 1 \in Nat /\ Depth \in 1..Depth
         /\ top = ActivationAt(Depth) /\ topSite = SiteAt(Depth)
<1>1. Len(stack) - 1 \in Nat /\ Head(stack) = stack[1] /\ Len(stack) \in Nat
  BY HeadOfList, ListElements
<1>2. Len(stack) + 1 - Len(stack) = 1
  BY <1>1
<1>3. top = ActivationAt(Depth)
  BY <1>1, <1>2 DEF top, ActivationAt, Depth
<1> QED
  BY <1>1, <1>3 DEF topSite, SiteAt, SiteOf, Depth

-----------------------------------------------------------------------------
(***************************************************************************)
(* Values.                                                                 *)
(***************************************************************************)
\* A constant that fits its width is a value.
LEMMA ConstantBitsIsValue ==
  ASSUME NEW width \in Nat, NEW n \in Nat, n < 2^width
  PROVE  /\ ConstantBits(width, n) \in Values
         /\ ConstantBits(width, n).width = width
         /\ \A x \in Inputs : ConstantBits(width, n).den[x] = n
BY DEF ConstantBits, Bits, Values

\* What is true of a value.
LEMMA ValueFacts ==
  ASSUME NEW v \in Values
  PROVE  /\ v.width \in Nat /\ v.lit \in BOOLEAN
         /\ \A x \in Inputs : v.den[x] \in Nat /\ v.den[x] < 2^v.width
         /\ v.lit => \A x, y \in Inputs : v.den[x] = v.den[y]
BY DEF Values

\* The bitwise or of two values is a value.
LEMMA DeepOrIsValue ==
  ASSUME NEW a \in Values, NEW b \in Values
  PROVE  DeepOr(a, b) \in Values
<1> DEFINE bits(x) == {i \in 0..(a.width - 1) : Bit(a.den[x], i) = 1 \/ Bit(b.den[x], i) = 1}
           lit == a.lit /\ b.lit
           den == [x \in Inputs |-> FromBits(bits(x))]
<1>1. a.width \in Nat /\ lit \in BOOLEAN
  BY ValueFacts
<1>2. ASSUME NEW x \in Inputs PROVE FromBits(bits(x)) \in Nat /\ FromBits(bits(x)) < 2^a.width
  BY <1>1, FromBitsHasBits
<1>3. den \in [Inputs -> Nat] /\ \A x \in Inputs : den[x] < 2^a.width
  BY <1>2
<1>4. ASSUME lit, NEW x \in Inputs, NEW y \in Inputs PROVE den[x] = den[y]
  <2>1. a.den[x] = a.den[y] /\ b.den[x] = b.den[y]
    BY <1>4, ValueFacts
  <2>2. bits(x) = bits(y)
    BY <2>1
  <2> HIDE DEF bits
  <2> QED
    BY <2>2
<1>5. DeepOr(a, b) = [width |-> a.width, den |-> den, lit |-> lit]
  BY DEF DeepOr, Bits
<1> HIDE DEF den, lit
<1> QED
  BY <1>1, <1>3, <1>4, <1>5 DEF Values

\* The induction value of an iteration is a value.
LEMMA InductionValueIsValue ==
  ASSUME NEW width \in Nat, NEW n \in Nat
  PROVE  InductionValue(width, n) \in Values
<1> DEFINE p == 2^width
<1>1. p \in Nat \ {0}
  BY PowerIsPositive
<1> HIDE DEF p
<1>2. n % p \in Nat /\ n % p < p
  BY <1>1, Division
<1> QED
  BY <1>2, ConstantBitsIsValue DEF InductionValue, LowBits, p

-----------------------------------------------------------------------------
(***************************************************************************)
(* Demands.                                                                *)
(***************************************************************************)
\* A demand is of the cases whose bits a mask has, and of all of them.
DemandsMask(cases, mask, demand) ==
  /\ \A k \in 1..Len(demand) : \E i \in 1..Len(cases) :
       Bit(mask, i - 1) = 1 /\ demand[k] = cases[i]
  /\ \A i \in 1..Len(cases) : Bit(mask, i - 1) = 1 =>
       \E k \in 1..Len(demand) : demand[k] = cases[i]

\* The cases that a mask selects are those whose bit is set: every rank
\* belongs to a chosen one, and every chosen one has a rank.
LEMMA SelectedCasesAreCases ==
  ASSUME NEW S, NEW cases \in Seq(S), NEW mask
  PROVE  /\ SelectedCases(cases, mask) \in Seq(S)
         /\ DemandsMask(cases, mask, SelectedCases(cases, mask))
<1> DEFINE Chosen == {i \in 1..Len(cases) : Bit(mask, i - 1) = 1}
           count == Cardinality(Chosen)
           demand == SelectedCases(cases, mask)
           UpTo(i) == {j \in Chosen : j <= i}
           rank == [i \in Chosen |-> Cardinality(UpTo(i))]
           nth == [k \in 1..count |->
                     CHOOSE i \in Chosen : Cardinality({j \in Chosen : j <= i}) = k]
<1>1. Len(cases) \in Nat /\ \A i \in 1..Len(cases) : cases[i] \in S
  BY SeqIsList, ListElements
<1>2. IsFiniteSet(Chosen) /\ count \in Nat
  <2>1. IsFiniteSet(1..Len(cases))
    BY <1>1, FS_Interval
  <2> QED
    BY <2>1, FS_Subset, FS_CardinalityType
<1>3. Chosen \subseteq Nat
  OBVIOUS
<1>4. demand = [k \in 1..count |-> cases[nth[k]]]
  BY DEF SelectedCases
<1> HIDE DEF demand
<1>5. Chosen \subseteq 1..Len(cases)
  OBVIOUS
<1> HIDE DEF Chosen
<1>6. ASSUME NEW i \in Chosen PROVE rank[i] \in 1..count
  <2>1. IsFiniteSet(UpTo(i)) /\ Cardinality(UpTo(i)) <= count
    BY <1>2, FS_Subset
  <2>2. i \in UpTo(i)
    BY <1>3
  <2>3. Cardinality(UpTo(i)) \in Nat /\ Cardinality(UpTo(i)) # 0
    BY <2>1, <2>2, FS_CardinalityType, FS_EmptySet
  <2> QED
    BY <1>2, <2>1, <2>3
<1>7. ASSUME NEW i \in Chosen, NEW j \in Chosen, rank[i] = rank[j] PROVE i = j
  <2>1. ASSUME NEW x \in Chosen, NEW y \in Chosen, x < y PROVE rank[x] # rank[y]
    <3>1. UpTo(x) \in SUBSET UpTo(y) /\ y \in UpTo(y) /\ y \notin UpTo(x)
      <4>1. /\ \A z \in Chosen : z <= x => z <= y
            /\ y <= y /\ ~(y <= x)
        BY <1>3, <2>1
      <4> QED
        BY <4>1
    <3>2. IsFiniteSet(UpTo(y))
      BY <1>2, FS_Subset
    <3>3. Cardinality(UpTo(x)) # Cardinality(UpTo(y))
      BY <3>1, <3>2, FS_Subset
    <3> QED
      BY <3>3
  <2>2. i \in Nat /\ j \in Nat
    BY <1>3
  <2>3. i < j \/ j < i \/ i = j
    BY <2>2
  <2> QED
    BY <1>7, <2>1, <2>3
<1>8. rank \in Injection(Chosen, 1..count)
  <2>1. rank \in [Chosen -> 1..count]
    BY <1>6
  <2> HIDE DEF rank
  <2> QED
    BY <1>7, <2>1, Fun_IsInj
<1>9. rank \in Surjection(Chosen, 1..count)
  <2>1. IsFiniteSet(1..count) /\ Cardinality(1..count) = count
    BY <1>2, FS_Interval
  <2> HIDE DEF rank
  <2> QED
    BY <1>2, <1>8, <2>1, FS_Injection
<1>10. ASSUME NEW k \in 1..count PROVE nth[k] \in Chosen /\ rank[nth[k]] = k
  <2>1. PICK i \in Chosen : rank[i] = k
    BY <1>9 DEF Surjection
  <2>2. Cardinality({j \in Chosen : j <= i}) = k
    BY <2>1
  <2> QED
    BY <2>2
<1> HIDE DEF nth
<1>11. [k \in 1..count |-> cases[nth[k]]] \in [1..count -> S]
  BY <1>1, <1>5, <1>10
<1>12. demand \in Seq(S)
  BY <1>2, <1>4, <1>11, SeqDef
<1> HIDE DEF rank, count
<1>13. Len(demand) = count /\ \A k \in 1..count : demand[k] = cases[nth[k]]
  BY <1>2, <1>4, <1>12
<1>14. \A i \in Chosen : rank[i] \in 1..count /\ nth[rank[i]] = i
  BY <1>6, <1>7, <1>10
<1>15. /\ \A k \in 1..count : \E i \in Chosen : demand[k] = cases[i]
       /\ \A i \in Chosen : \E k \in 1..count : demand[k] = cases[i]
  BY <1>10, <1>13, <1>14
<1> QED
  BY <1>12, <1>13, <1>15 DEF Chosen, count, demand, DemandsMask

\* What validation says of a selection whose cases and default are in S.
SelectionOK(n, S) ==
  /\ n.kind \in SelectionKinds
  /\ n.cases \in Seq(S)
  /\ n.kind = "sel" => n.cases # <<>> /\ n.default \in S \cup {0}
  /\ n.kind = "priority_sel" => n.default \in S

\* An arm demands one node, or any number of cases if it is a mask.
DemandOK(n, S, demand) ==
  demand \in Seq(S) /\ (n.kind # "one_hot_sel" => Len(demand) = 1)

\* A demand of one node.
LEMMA OneDemanded ==
  ASSUME NEW n, NEW S, NEW ref \in S
  PROVE  DemandOK(n, S, <<ref>>)
<1>1. <<ref>> \in Seq(S) /\ Len(<<ref>>) = 1
  OBVIOUS
<1> QED
  BY <1>1 DEF DemandOK

\* The implicit default of a `sel` is its last case.
LEMMA FallbackIsCase ==
  ASSUME NEW S, NEW n, n.cases \in Seq(S), n.cases # <<>>, n.default \in S \cup {0}
  PROVE  Fallback(n) \in S
<1>1. IsList(n.cases) /\ \A i \in 1..Len(n.cases) : n.cases[i] \in S
  BY SeqIsList
<1>2. Len(n.cases) \in 1..Len(n.cases)
  BY <1>1, HeadOfList, ListElements
<1> QED
  BY <1>1, <1>2 DEF Fallback

\* The one arm of a constant selector demands cases of its selection.
LEMMA ConcreteDemand ==
  ASSUME NEW n, NEW S, SelectionOK(n, S), NEW value \in Values
  PROVE  DemandOK(n, S, ConcreteArm(n, value).demand)
<1>1. /\ IsList(n.cases) /\ Len(n.cases) \in Nat
      /\ \A i \in 1..Len(n.cases) : n.cases[i] \in S
  BY SeqIsList, ListElements DEF SelectionOK
<1>2. value.width \in Nat /\ ConcreteValue(value) \in Nat
  <2>1. PICK x \in Inputs : x = CHOOSE y \in Inputs : TRUE
    BY InputsAssumption
  <2>2. value.den[x] \in Nat /\ value.width \in Nat
    BY ValueFacts
  <2> QED
    BY <2>1, <2>2 DEF ConcreteValue
<1> DEFINE number == ConcreteValue(value)
<1>3. CASE n.kind = "sel"
  <2>1. ConcreteArm(n, value) = ConcreteSel(n, number)
    BY <1>3 DEF ConcreteArm
  <2>2. CASE number < Len(n.cases)
    <3>1. number + 1 \in 1..Len(n.cases)
      BY <1>1, <1>2, <2>2
    <3>2. ConcreteArm(n, value).demand = <<n.cases[number + 1]>>
      BY <2>1, <2>2 DEF ConcreteSel
    <3> QED
      BY <1>1, <3>1, <3>2, OneDemanded
  <2>3. CASE ~(number < Len(n.cases))
    <3>1. ConcreteArm(n, value).demand = <<Fallback(n)>>
      BY <2>1, <2>3 DEF ConcreteSel
    <3>2. Fallback(n) \in S
      BY <1>3, FallbackIsCase DEF SelectionOK
    <3> QED
      BY <3>1, <3>2, OneDemanded
  <2> QED
    BY <2>2, <2>3
<1>4. CASE n.kind = "priority_sel"
  <2> DEFINE set == {i \in 0..(Len(n.cases) - 1) : i < value.width /\ Bit(number, i) = 1}
  <2>1. ConcreteArm(n, value) = ConcretePriority(n, value.width, number)
    BY <1>4 DEF ConcreteArm
  <2>2. CASE set = {}
    <3>1. ConcreteArm(n, value).demand = <<n.default>>
      BY <2>1, <2>2 DEF ConcretePriority
    <3>2. n.default \in S
      BY <1>4 DEF SelectionOK
    <3> QED
      BY <3>1, <3>2, OneDemanded
  <2>3. CASE set # {}
    <3>1. ConcreteArm(n, value).demand = <<n.cases[Min(set) + 1]>>
      BY <2>1, <2>3 DEF ConcretePriority
    <3>2. set \subseteq Nat
      OBVIOUS
    <3>3. Min(set) \in set
      BY <2>3, <3>2, LeastElement
    <3>4. Min(set) \in 0..(Len(n.cases) - 1)
      BY <3>3
    <3> HIDE DEF set
    <3>5. Min(set) + 1 \in 1..Len(n.cases)
      BY <1>1, <3>4
    <3> QED
      BY <1>1, <3>1, <3>5, OneDemanded
  <2> QED
    BY <2>2, <2>3
<1>5. CASE n.kind = "one_hot_sel"
  <2>1. ConcreteArm(n, value) = ConcreteOneHot(n, value.width, number)
    BY <1>5 DEF ConcreteArm
  <2>2. \E mask : ConcreteArm(n, value).demand = SelectedCases(n.cases, mask)
    BY <2>1 DEF ConcreteOneHot
  <2> QED
    BY <1>5, <2>2, SelectedCasesAreCases DEF DemandOK, SelectionOK
<1> QED
  BY <1>3, <1>4, <1>5 DEF SelectionOK, SelectionKinds

\* The arms of a symbolic selector are fit to be driven.
ArmsFit(n, S, arms) ==
  /\ Len(arms) \in Nat
  /\ \A k \in 1..Len(arms) : arms[k].never \in BOOLEAN /\ DemandOK(n, S, arms[k].demand)

\* The arms that ForkSymbolic takes are fit, apart and, unless the budget is
\* too small for the masks, complete.
LEMMA SymbolicArmsFit ==
  ASSUME NEW S, SelectionOK(topNode, S), selector \in Values, WithinBudget
  PROVE  /\ ArmsFit(topNode, S, SymbolicArms)
         /\ ArmsAreApart(SymbolicArms)
         /\ ~TooManyMasks => ArmsPartition(SymbolicArms)
<1>1. /\ IsList(topNode.cases) /\ Len(topNode.cases) \in Nat
      /\ \A i \in 1..Len(topNode.cases) : topNode.cases[i] \in S
  BY SeqIsList, ListElements DEF SelectionOK
<1>2. selector.width \in Nat /\ \A x \in Inputs : selector.den[x] \in Nat
  BY ValueFacts
<1>3. CASE topNode.kind = "sel"
  <2> DEFINE n == Len(topNode.cases)
             arms == SymbolicSelArms(topNode, selector)
  <2>1. SymbolicArms = arms
    BY <1>3 DEF SymbolicArms
  <2>2. SelArmList(topNode, selector, n, arms)
    BY <1>1, SelArms
  <2>3. ArmsPartition(arms)
    BY <1>1, <1>2, SelArmsPartition
  <2>4. Fallback(topNode) \in S
    BY <1>3, FallbackIsCase DEF SelectionOK
  <2> HIDE DEF arms
  <2>5. /\ Len(arms) = n + 1
        /\ \A k \in 1..n : arms[k].never = (k - 1 >= 2^selector.width)
                           /\ arms[k].demand = <<topNode.cases[k]>>
        /\ arms[n + 1].never = FALSE
        /\ arms[n + 1].demand = <<Fallback(topNode)>>
    BY <2>2 DEF SelArmList
  <2>6. \A k \in 1..n : arms[k].never \in BOOLEAN /\ DemandOK(topNode, S, arms[k].demand)
    <3>1. ASSUME NEW k \in 1..n PROVE arms[k].never \in BOOLEAN
      <4> DEFINE indices == 2^selector.width
      <4>1. arms[k].never = (k - 1 >= indices) /\ indices \in Nat
        BY <1>2, <2>5, PowerIsPositive
      <4> HIDE DEF indices
      <4>2. (k - 1 >= indices) \in BOOLEAN
        BY <4>1
      <4> QED
        BY <4>1, <4>2
    <3>2. \A k \in 1..n : DemandOK(topNode, S, arms[k].demand)
      BY <1>1, <2>5, OneDemanded
    <3> QED
      BY <3>1, <3>2
  <2>7. arms[n + 1].never \in BOOLEAN /\ DemandOK(topNode, S, arms[n + 1].demand)
    BY <2>4, <2>5, OneDemanded
  <2>8. \A k \in 1..Len(arms) : k \in 1..n \/ k = n + 1
    BY <1>1, <2>5
  <2>9. Len(arms) \in Nat
    BY <1>1, <2>5
  <2>10. ArmsFit(topNode, S, arms)
    BY <2>6, <2>7, <2>8, <2>9 DEF ArmsFit
  <2> QED
    BY <2>1, <2>3, <2>10 DEF ArmsPartition
<1>4. CASE topNode.kind = "priority_sel"
  <2> DEFINE n == Relevant(topNode, selector)
             arms == SymbolicPriorityArms(topNode, selector)
  <2>1. SymbolicArms = arms
    BY <1>4 DEF SymbolicArms
  <2>2. /\ PriorityArmList(topNode, selector, n, arms)
        /\ n \in Nat /\ n <= Len(topNode.cases)
    BY <1>1, <1>2, PriorityArms
  <2>3. ArmsPartition(arms)
    BY <1>1, <1>2, PriorityArmsPartition
  <2>4. topNode.default \in S
    BY <1>4 DEF SelectionOK
  <2> HIDE DEF arms, n
  <2>5. /\ Len(arms) = n + 1
        /\ \A k \in 1..n : arms[k].never = FALSE /\ arms[k].demand = <<topNode.cases[k]>>
        /\ arms[n + 1].never = FALSE
        /\ arms[n + 1].demand = <<topNode.default>>
    BY <2>2 DEF PriorityArmList
  <2>6. \A k \in 1..n : topNode.cases[k] \in S
    BY <1>1, <2>2
  <2>7. \A k \in 1..n : arms[k].never \in BOOLEAN /\ DemandOK(topNode, S, arms[k].demand)
    BY <2>5, <2>6, OneDemanded
  <2>8. arms[n + 1].never \in BOOLEAN /\ DemandOK(topNode, S, arms[n + 1].demand)
    BY <2>4, <2>5, OneDemanded
  <2>9. Len(arms) \in Nat /\ \A k \in 1..Len(arms) : k \in 1..n \/ k = n + 1
    BY <2>2, <2>5
  <2>10. ArmsFit(topNode, S, arms)
    BY <2>7, <2>8, <2>9 DEF ArmsFit
  <2> QED
    BY <2>1, <2>3, <2>10 DEF ArmsPartition
<1>5. CASE topNode.kind = "one_hot_sel"
  <2> DEFINE combinations == OneHotCombinations(topNode, selector)
             count == Min({combinations, MaskBudget})
             arms == SymbolicOneHotArms(topNode, selector, count)
  <2>1. SymbolicArms = arms
    BY <1>5 DEF SymbolicArms
  <2>2. combinations \in Nat
    BY <1>1, <1>2, OneHotArms, PowerIsPositive
  <2>3. MaskBudget \in Nat
    BY LimitAssumption DEF MaskBudget, WithinBudget
  <2> HIDE DEF combinations
  <2>4. /\ count \in Nat /\ count \in 0..combinations
        /\ combinations <= MaskBudget => count = combinations
    <3>1. count \in {combinations, MaskBudget} /\ count <= combinations /\ count <= MaskBudget
      BY <2>2, <2>3, LeastElement
    <3> QED
      BY <2>2, <2>3, <3>1
  <2> HIDE DEF count
  <2>5. /\ ArmsAreApart(arms)
        /\ count = combinations => ArmsPartition(arms)
    BY <1>1, <1>2, <2>4, OneHotArmsPartition DEF combinations
  <2>6. OneHotArmList(topNode, selector, Relevant(topNode, selector), count, arms)
    BY <1>1, <1>2, <2>4, OneHotArms
  <2> HIDE DEF arms
  <2>7. ArmsFit(topNode, S, arms)
    <3>1. /\ Len(arms) = count
          /\ \A k \in 1..count : arms[k].never = FALSE
                                 /\ arms[k].demand = SelectedCases(topNode.cases, k - 1)
      BY <2>6 DEF OneHotArmList
    <3>2. \A k \in 1..count : arms[k].demand \in Seq(S)
      BY <3>1, SelectedCasesAreCases DEF SelectionOK
    <3> QED
      BY <1>5, <2>4, <3>1, <3>2 DEF ArmsFit, DemandOK
  <2>8. ~TooManyMasks => combinations <= MaskBudget
    BY <1>5, <2>2, <2>3 DEF TooManyMasks, combinations
  <2> QED
    BY <2>1, <2>4, <2>5, <2>7, <2>8
<1> QED
  BY <1>3, <1>4, <1>5 DEF SelectionOK, SelectionKinds

-----------------------------------------------------------------------------
(***************************************************************************)
(* Types.                                                                  *)
(***************************************************************************)
\* The hypothesis of the theorems: Apply, a parameter, gives values of values.
PureNodesAreTyped == PureNodesGive(Values)

\* Validation, of a node of the request that is served.
LEMMA NodeFacts ==
  ASSUME request \in Requests, NEW frame, NEW node, NodeOK(frame, node), NEW n,
         n = NodeOf(frame, node)
  PROVE  /\ node \in Nat
         /\ n.kind \in NodeKinds
         /\ n.refs \in Seq(1..(node - 1)) /\ Len(n.refs) \in Nat
         /\ n.kind = "param" => n.index \in 1..Len(frame.args)
         /\ n.kind \in {"invoke", "counted_for"} =>
              n.callee \in DOMAIN request.fns
              /\ request.fns[n.callee].ret \in 1..Len(request.fns[n.callee].nodes)
         /\ n.kind = "invoke" => Len(n.refs) = Len(request.fns[n.callee].params)
         /\ n.kind = "counted_for" =>
              /\ Len(n.refs) > 0 /\ Len(n.refs) + 1 = Len(request.fns[n.callee].params)
              /\ request.fns[n.callee].params[1] \in Nat
              /\ n.trip \in Nat /\ n.stride \in Nat
         /\ n.kind \in SelectionKinds =>
              Len(n.refs) = 1 /\ n.width \in Nat /\ SelectionOK(n, 1..(node - 1))
         /\ n.kind = "pure" /\ PureNodesAreTyped =>
              \A values \in Seq(Values) :
                Len(values) = Len(n.refs) => Apply(n, values) \in Values
<1> DEFINE fns == request.fns
           earlier == 1..(node - 1)
<1>1. /\ frame.fn \in DOMAIN fns /\ node \in 1..Len(fns[frame.fn].nodes)
      /\ Len(frame.args) = Len(fns[frame.fn].params)
      /\ n = fns[frame.fn].nodes[node]
  BY DEF NodeOK, FrameOK, NodeOf
<1>2. WellFormed(request)
  BY RequestsAssumption
<1>3. WellFormedNode(fns, frame.fn, node) /\ node \in Nat
  BY <1>1, <1>2 DEF WellFormed
<1>4. \A fn \in DOMAIN fns : fns[fn].params \in Seq(Nat) /\ fns[fn].ret \in 1..Len(fns[fn].nodes)
  BY <1>2 DEF WellFormed
<1>5. n.kind = "pure" /\ PureNodesAreTyped =>
        \A values \in Seq(Values) : Len(values) = Len(n.refs) => Apply(n, values) \in Values
  <2>1. \A values \in Seq(Values) : values \in [1..Len(values) -> Values]
    BY LenProperties
  <2>2. n.kind = "pure" /\ PureNodesAreTyped =>
          \A values \in [1..Len(n.refs) -> Values] : Apply(n, values) \in Values
    BY <1>1 DEF PureNodesAreTyped, PureNodesGive
  <2> QED
    BY <2>1, <2>2
<1> HIDE DEF fns
<1>6. /\ n.kind \in NodeKinds
      /\ n.refs \in Seq(earlier) /\ n.cases \in Seq(earlier) /\ n.default \in earlier \cup {0}
      /\ n.kind = "param" => n.index \in 1..Len(frame.args)
      /\ n.kind \in {"invoke", "counted_for"} => n.callee \in DOMAIN fns
      /\ n.kind = "invoke" => Len(n.refs) = Len(fns[n.callee].params)
      /\ n.kind = "counted_for" =>
           /\ n.refs # <<>> /\ Len(n.refs) + 1 = Len(fns[n.callee].params)
           /\ n.trip \in Nat /\ n.stride \in Nat
      /\ n.kind \in SelectionKinds => Len(n.refs) = 1 /\ n.width \in Nat
      /\ n.kind = "sel" => n.cases # <<>>
      /\ n.kind = "priority_sel" => n.default # 0
  BY <1>1, <1>3 DEF WellFormedNode
<1>7. IsList(n.refs) /\ Len(n.refs) \in Nat
  BY <1>6, SeqIsList, ListElements
<1>8. n.kind \in SelectionKinds => SelectionOK(n, earlier)
  BY <1>6 DEF SelectionOK
<1>9. n.kind = "counted_for" => Len(n.refs) > 0 /\ fns[n.callee].params[1] \in Nat
  <2> SUFFICES ASSUME n.kind = "counted_for"
               PROVE  Len(n.refs) > 0 /\ fns[n.callee].params[1] \in Nat
    OBVIOUS
  <2>1. Len(n.refs) > 0
    BY <1>6, <1>7, EmptyList
  <2>2. n.callee \in DOMAIN fns
    BY <1>6
  <2>3. 1 \in 1..Len(fns[n.callee].params) /\ fns[n.callee].params \in Seq(Nat)
    BY <1>4, <1>6, <1>7, <2>1, <2>2
  <2> QED
    BY <2>1, <2>3, SeqIsList
<1>10. n.kind \in {"invoke", "counted_for"} => fns[n.callee].ret \in 1..Len(fns[n.callee].nodes)
  BY <1>4, <1>6
<1> QED
  BY <1>3, <1>5, <1>6, <1>7, <1>8, <1>9, <1>10 DEF fns

\* An earlier node of the same function, and what a call returns.
LEMMA OtherNodes ==
  ASSUME request \in Requests, NEW frame, NEW node, NodeOK(frame, node), NEW n,
         n = NodeOf(frame, node)
  PROVE  /\ \A ref \in 1..(node - 1) : NodeOK(frame, ref)
         /\ \A called : FrameOK(called) => NodeOK(called, request.fns[called.fn].ret)
<1> DEFINE last(f) == Len(request.fns[f].nodes)
<1>1. \A f \in DOMAIN request.fns : last(f) \in Nat /\ request.fns[f].ret \in 1..last(f)
  BY RequestsAssumption DEF WellFormed
<1>2. node \in 1..last(frame.fn) /\ FrameOK(frame) /\ frame.fn \in DOMAIN request.fns
  BY DEF NodeOK, FrameOK
<1>3. \A called : FrameOK(called) => called.fn \in DOMAIN request.fns
  BY DEF FrameOK
<1>4. \A m \in Nat : \A i \in 1..m : \A j \in 1..(i - 1) : j \in 1..m
  OBVIOUS
<1>5. \A ref \in 1..(node - 1) : ref \in 1..last(frame.fn)
  BY <1>1, <1>2, <1>4
<1> QED
  BY <1>1, <1>2, <1>3, <1>5 DEF NodeOK

\* A map with one entry inserted.
LEMMA OneMoreEntry ==
  ASSUME NEW f, NEW x, NEW v
  PROVE  /\ DOMAIN Inserted(f, x, v) = DOMAIN f \cup {x}
         /\ Inserted(f, x, v)[x] = v
         /\ \A y \in DOMAIN f : y # x => Inserted(f, x, v)[y] = f[y]
BY DEF Inserted

\* Steps that change a candidate's state leave it well typed.
LEMMA ChangedStates ==
  ASSUME NEW state, StateOK(state)
  PROVE  /\ \A site, value : value \in Values => StateOK(Remember(state, site, value))
         /\ \A site, outcome : StateOK(Record(state, site, outcome))
         /\ \A arm : arm.never \in BOOLEAN /\ (arm.never => arm.when = {}) =>
                       StateOK(Guarded(state, arm))
<1>1. ASSUME NEW site, NEW value \in Values PROVE StateOK(Remember(state, site, value))
  <2> DEFINE new == Remember(state, site, value)
  <2>1. /\ new = [guard |-> state.guard, never |-> state.never, trace |-> state.trace,
                  cache |-> Inserted(state.cache, site, value)]
    BY DEF Remember, StateOK
  <2>2. \A t \in DOMAIN new.cache : new.cache[t] \in Values
    <3>1. new.cache = Inserted(state.cache, site, value)
      BY <2>1
    <3>2. \A t \in DOMAIN state.cache : state.cache[t] \in Values
      BY DEF StateOK
    <3> HIDE DEF new
    <3> QED
      BY <3>1, <3>2 DEF Inserted
  <2> QED
    BY <2>1, <2>2 DEF StateOK
<1>2. ASSUME NEW site, NEW outcome PROVE StateOK(Record(state, site, outcome))
  <2>1. Record(state, site, outcome) = [guard |-> state.guard, never |-> state.never,
          trace |-> Inserted(state.trace, site, outcome), cache |-> state.cache]
    BY DEF Record, StateOK
  <2> QED
    BY <2>1 DEF StateOK
<1>3. ASSUME NEW arm, arm.never \in BOOLEAN, arm.never => arm.when = {}
      PROVE  StateOK(Guarded(state, arm))
  <2> DEFINE never == state.never \/ arm.never
  <2>1. never \in BOOLEAN
    OBVIOUS
  <2>2. never => state.guard \cap arm.when = {}
    BY <1>3 DEF StateOK
  <2>3. Guarded(state, arm) = [state EXCEPT !.guard = @ \cap arm.when, !.never = never]
    BY DEF Guarded
  <2> HIDE DEF never
  <2>4. Guarded(state, arm) = [guard |-> state.guard \cap arm.when,
          never |-> never, trace |-> state.trace, cache |-> state.cache]
    BY <2>3 DEF StateOK
  <2> QED
    BY <2>1, <2>2, <2>4 DEF StateOK
<1> QED
  BY <1>1, <1>2, <1>3

\* Activations that agree on these fields drive the same stages.
LEMMA SameShape ==
  ASSUME NEW a, NEW b, b.frame = a.frame, b.node = a.node, b.arm = a.arm, b.refs = a.refs
  PROVE  /\ KindOf(b) = KindOf(a) /\ Stages(b) = Stages(a) /\ SiteOf(b) = SiteOf(a)
         /\ RefsOK(b) <=> RefsOK(a)
         /\ \A stage : Arity(b, stage) = Arity(a, stage)
         /\ b.stage = a.stage => (Resolving(b) <=> Resolving(a))
<1>1. KindOf(b) = KindOf(a)
  BY DEF KindOf
<1>2. Stages(b) = Stages(a)
  BY DEF Stages
<1>3. RefsOK(b) <=> RefsOK(a)
  BY <1>1 DEF RefsOK
<1>4. \A stage : Arity(b, stage) = Arity(a, stage)
  BY <1>1 DEF Arity
<1>5. b.stage = a.stage => (Resolving(b) <=> Resolving(a))
  BY <1>1 DEF Resolving
<1>6. SiteOf(b) = SiteOf(a)
  BY DEF SiteOf
<1> QED
  BY <1>1, <1>2, <1>3, <1>4, <1>5, <1>6

\* What an activation drives, and for how many stages.
LEMMA StagesOf ==
  ASSUME request \in Requests, NEW act, act.arm \in BOOLEAN, NodeOK(act.frame, act.node),
         RefsOK(act)
  PROVE  /\ act.node \in Nat
         /\ act.refs \in Seq(1..(act.node - 1)) /\ Len(act.refs) \in Nat
         /\ Stages(act) \in Nat /\ Stages(act) >= Len(act.refs)
         /\ act.arm => Stages(act) = Len(act.refs)
         /\ ~act.arm /\ KindOf(act) \in SelectionKinds =>
              Stages(act) = Len(act.refs) + 1 /\ Len(act.refs) = 1
         /\ ~act.arm /\ KindOf(act) = "invoke" => Stages(act) = Len(act.refs) + 1
         /\ ~act.arm /\ KindOf(act) \in {"pure", "unsupported"} => Stages(act) = Len(act.refs)
         /\ ~act.arm /\ KindOf(act) = "counted_for" => Len(act.refs) > 0
         /\ KindOf(act) \in NodeKinds
<1> DEFINE n == NodeOf(act.frame, act.node)
<1>1. KindOf(act) = n.kind
  BY DEF KindOf
<1>2. /\ act.node \in Nat /\ n.kind \in NodeKinds
      /\ n.refs \in Seq(1..(act.node - 1)) /\ Len(n.refs) \in Nat
      /\ n.kind = "counted_for" => Len(n.refs) > 0 /\ n.trip \in Nat
      /\ n.kind \in SelectionKinds => Len(n.refs) = 1
  BY NodeFacts
<1>3. act.refs \in Seq(1..(act.node - 1)) /\ Len(act.refs) \in Nat
  BY <1>2, SeqIsList, ListElements DEF RefsOK
<1>4. ~act.arm => act.refs = n.refs
  BY DEF RefsOK
<1> HIDE DEF n
<1>5. /\ act.arm => Stages(act) = Len(act.refs) + 0
      /\ ~act.arm /\ n.kind = "invoke" => Stages(act) = Len(act.refs) + 1
      /\ ~act.arm /\ n.kind = "counted_for" => Stages(act) = Len(act.refs) + n.trip
      /\ ~act.arm /\ n.kind \in SelectionKinds => Stages(act) = Len(act.refs) + 1
      /\ ~act.arm /\ n.kind \in {"param", "pure", "unsupported"} => Stages(act) = Len(act.refs) + 0
  BY DEF Stages, n, SelectionKinds
<1> QED
  BY <1>1, <1>2, <1>3, <1>4, <1>5 DEF NodeKinds, SelectionKinds


-----------------------------------------------------------------------------
(***************************************************************************)
(* An activation that moved on: what it drives is the same, how far it got *)
(* is not.                                                                 *)
(***************************************************************************)
Moved(act, stage, todo, current, done, arms) ==
  [frame |-> act.frame, node |-> act.node, arm |-> act.arm, refs |-> act.refs,
   stage |-> stage, todo |-> todo, current |-> current, done |-> done, arms |-> arms]

\* The fields of an activation with other lists.
LEMMA MovedShape ==
  ASSUME NEW act, NEW stage, NEW todo, NEW current, NEW done, NEW arms,
         NEW new, new = Moved(act, stage, todo, current, done, arms)
  PROVE  /\ new.frame = act.frame /\ new.node = act.node /\ new.arm = act.arm
         /\ new.refs = act.refs /\ new.stage = stage /\ new.todo = todo
         /\ new.current = current /\ new.done = done /\ new.arms = arms
BY DEF Moved

\* An activation with other lists of the right shape is well typed.
LEMMA MovedIsOK ==
  ASSUME NEW act, ActivationOK(act), NEW stage \in 0..Stages(act),
         NEW todo, NEW current, NEW done, NEW arms,
         IsList(todo), IsList(done), IsList(arms),
         \A i \in 1..Len(todo) : PartialOK(todo[i], Arity(act, stage - 1)),
         \A i \in 1..Len(done) : PartialOK(done[i], Arity(act, stage)),
         \A i \in 1..Len(arms) : PendingOK(arms[i], act.node, KindOf(act)),
         todo # <<>> => stage > 0,
         NEW new, new = Moved(act, stage, todo, current, done, arms),
         arms # <<>> => Resolving(new)
  PROVE  /\ ActivationOK(new)
         /\ CurrentOK(new) <=>
              stage > 0 /\ current \in Seq(Values) /\ Len(current) = Arity(act, stage - 1)
<1>1. /\ new.frame = act.frame /\ new.node = act.node /\ new.arm = act.arm
      /\ new.refs = act.refs /\ new.stage = stage /\ new.todo = todo
      /\ new.current = current /\ new.done = done /\ new.arms = arms
  BY DEF Moved
<1>2. /\ KindOf(new) = KindOf(act) /\ Stages(new) = Stages(act)
      /\ RefsOK(new) <=> RefsOK(act)
      /\ \A s : Arity(new, s) = Arity(act, s)
  BY <1>1, SameShape
<1>3. PartialsOK(new)
  BY <1>1, <1>2 DEF PartialsOK
<1>4. new = [frame |-> new.frame, node |-> new.node, arm |-> new.arm,
             refs |-> new.refs, stage |-> new.stage, todo |-> new.todo,
             current |-> new.current, done |-> new.done, arms |-> new.arms]
  BY DEF Moved
<1>5. ActivationOK(new)
  BY <1>1, <1>2, <1>3, <1>4 DEF ActivationOK
<1>6. CurrentOK(new) <=>
        stage > 0 /\ current \in Seq(Values) /\ Len(current) = Arity(act, stage - 1)
  BY <1>1, <1>2 DEF CurrentOK
<1> QED
  BY <1>5, <1>6

-----------------------------------------------------------------------------
(***************************************************************************)
(* What each step does to the innermost activation.                        *)
(***************************************************************************)
IsActivation(act) ==
  act = Moved(act, act.stage, act.todo, act.current, act.done, act.arms)

WithStage(act, x)   == [act EXCEPT !.stage = x]
WithTodo(act, x)    == [act EXCEPT !.todo = x]
WithCurrent(act, x) == [act EXCEPT !.current = x]
WithDone(act, x)    == [act EXCEPT !.done = x]
WithArms(act, x)    == [act EXCEPT !.arms = x]

\* Assigning one field of an activation.
LEMMA OneUpdate ==
  ASSUME NEW act, NEW s, NEW t, NEW c, NEW d, NEW a, NEW x,
         NEW m, m = Moved(act, s, t, c, d, a)
  PROVE  /\ WithStage(m, x) = Moved(act, x, t, c, d, a)
         /\ WithTodo(m, x) = Moved(act, s, x, c, d, a)
         /\ WithCurrent(m, x) = Moved(act, s, t, x, d, a)
         /\ WithDone(m, x) = Moved(act, s, t, c, x, a)
         /\ WithArms(m, x) = Moved(act, s, t, c, d, x)
<1>1. WithStage(m, x) = Moved(act, x, t, c, d, a)
  BY DEF Moved, WithStage
<1>2. WithTodo(m, x) = Moved(act, s, x, c, d, a)
  BY DEF Moved, WithTodo
<1>3. WithCurrent(m, x) = Moved(act, s, t, x, d, a)
  BY DEF Moved, WithCurrent
<1>4. WithDone(m, x) = Moved(act, s, t, c, x, a)
  BY DEF Moved, WithDone
<1>5. WithArms(m, x) = Moved(act, s, t, c, d, x)
  BY DEF Moved, WithArms
<1> QED
  BY <1>1, <1>2, <1>3, <1>4, <1>5

\* The innermost activation is one.
LEMMA TopIsActivation ==
  ASSUME Typed, stack # <<>>
  PROVE  IsActivation(top) /\ ActivationOK(top)
<1>1. Depth \in 1..Depth /\ top = ActivationAt(Depth)
  BY TopActivation DEF Typed
<1>2. ActivationOK(top)
  BY <1>1 DEF Typed, Depth
<1> QED
  BY <1>2 DEF ActivationOK, IsActivation, Moved

\* DemandOperand, EnterCallee, EnterIteration: the next partial waits for a node's results.
LEMMA EvaluateMoves ==
  ASSUME IsActivation(top), NEW frame, NEW node, Evaluate(frame, node)
  PROVE  /\ stack' = <<Moved(top, top.stage, Tail(top.todo), Head(top.todo).values,
                             top.done, top.arms)>> \o Tail(stack)
         /\ ctl' = Call(frame, node, Head(top.todo).state)
         /\ request' = request /\ syntactic' = syntactic /\ incomplete' = incomplete
<1> DEFINE one == WithTodo(top, Tail(top.todo))
           two == WithCurrent(one, Head(top.todo).values)
<1>1. stack' = <<two>> \o Tail(stack)
  BY DEF Evaluate, WithTodo, WithCurrent
<1>2. top = Moved(top, top.stage, top.todo, top.current, top.done, top.arms)
  BY DEF IsActivation
<1>3. one = Moved(top, top.stage, Tail(top.todo), top.current, top.done, top.arms)
  BY <1>2, OneUpdate
<1> HIDE DEF one
<1>4. two = Moved(top, top.stage, Tail(top.todo), Head(top.todo).values, top.done, top.arms)
  BY <1>3, OneUpdate
<1> HIDE DEF two
<1>5. /\ ctl' = Call(frame, node, Head(top.todo).state)
      /\ request' = request /\ syntactic' = syntactic /\ incomplete' = incomplete
  BY DEF Evaluate
<1> QED
  BY <1>1, <1>4, <1>5

\* The partials that the candidates a nested evaluation returned become.
Delivered == [i \in 1..Len(ctl.results) |->
                Partial(ctl.results[i].state, Extend(top, ctl.results[i].value))]

\* Deliver, in the words of this module.
LEMMA DeliverMoves ==
  ASSUME IsActivation(top), Deliver
  PROVE  /\ stack' = <<Moved(top, top.stage, top.todo, top.current,
                             top.done \o Delivered, top.arms)>> \o Tail(stack)
         /\ ctl.at = "return" /\ ctl' = Run /\ stack # <<>>
         /\ request' = request /\ syntactic' = syntactic /\ incomplete' = incomplete
<1> DEFINE one == WithDone(top, top.done \o Delivered)
<1>1. stack' = <<one>> \o Tail(stack)
  BY DEF Deliver, Delivered, WithDone
<1>2. top = Moved(top, top.stage, top.todo, top.current, top.done, top.arms)
  BY DEF IsActivation
<1>3. one = Moved(top, top.stage, top.todo, top.current, top.done \o Delivered, top.arms)
  BY <1>2, OneUpdate
<1> HIDE DEF one
<1>4. /\ ctl.at = "return" /\ ctl' = Run /\ stack # <<>>
      /\ request' = request /\ syntactic' = syntactic /\ incomplete' = incomplete
  BY DEF Deliver
<1> QED
  BY <1>1, <1>3, <1>4

\* A step that fails the request, for no reason of the selections'.
FailsWith(why) == \E blamed : ctl' = Fail(why, blamed) /\ stack' = <<>>

\* The next stage is an iteration whose induction value has no usize.
StageOverflows ==
  top.stage >= Len(top.refs) /\ InductionOverflows(top.stage - Len(top.refs))

\* NextStage, in the words of this module: it may also refuse an overflowing loop.
LEMMA NextStageMoves ==
  ASSUME IsActivation(top), NextStage
  PROVE  /\ Drained /\ top.stage < Stages(top)
         /\ request' = request /\ syntactic' = syntactic /\ incomplete' = incomplete
         /\ \/ /\ StageOverflows /\ FailsWith("overflow")
               /\ ctl' = Fail("overflow", States(top.done))
            \/ /\ ~StageOverflows /\ ctl' = ctl
               /\ stack' = <<Moved(top, top.stage + 1, top.done, top.current, <<>>, top.arms)>>
                             \o Tail(stack)
<1> DEFINE one == WithStage(top, top.stage + 1)
           two == WithTodo(one, top.done)
           three == WithDone(two, <<>>)
<1>1. /\ Drained /\ top.stage < Stages(top)
      /\ request' = request /\ syntactic' = syntactic /\ incomplete' = incomplete
  BY DEF NextStage
<1>2. StageOverflows => FailsWith("overflow") /\ ctl' = Fail("overflow", States(top.done))
  BY DEF NextStage, FailsWith, StageOverflows
<1>3. ~StageOverflows => stack' = <<three>> \o Tail(stack) /\ ctl' = ctl
  BY DEF NextStage, StageOverflows, WithStage, WithTodo, WithDone
<1>4. top = Moved(top, top.stage, top.todo, top.current, top.done, top.arms)
  BY DEF IsActivation
<1>5. one = Moved(top, top.stage + 1, top.todo, top.current, top.done, top.arms)
  BY <1>4, OneUpdate
<1> HIDE DEF one
<1>6. two = Moved(top, top.stage + 1, top.done, top.current, top.done, top.arms)
  BY <1>5, OneUpdate
<1> HIDE DEF two
<1>7. three = Moved(top, top.stage + 1, top.done, top.current, <<>>, top.arms)
  BY <1>6, OneUpdate
<1> HIDE DEF three
<1> QED
  BY <1>1, <1>2, <1>3, <1>7

ResolvedArm == ArmActivation(top.frame, top.node, ConcreteArm(topNode, selector).demand,
                             Record(Head(top.todo).state, topSite,
                                    ConcreteArm(topNode, selector).outcome))

\* ResolveConcrete, in the words of this module.
LEMMA ResolveMoves ==
  ASSUME IsActivation(top), ResolveConcrete
  PROVE  /\ Selecting /\ IsConcrete(selector)
         /\ request' = request /\ syntactic' = syntactic /\ incomplete' = incomplete
         /\ \/ topSite \in DOMAIN Head(top.todo).state.trace /\ FailsWith("duplicate")
            \/ /\ topSite \notin DOMAIN Head(top.todo).state.trace
               /\ stack' = <<ResolvedArm>> \o
                     (<<Moved(top, top.stage, Tail(top.todo), top.current, top.done, top.arms)>>
                        \o Tail(stack))
               /\ ctl' = ctl
<1> DEFINE one == WithTodo(top, Tail(top.todo))
<1>1. /\ Selecting /\ IsConcrete(selector)
      /\ request' = request /\ syntactic' = syntactic /\ incomplete' = incomplete
  BY DEF ResolveConcrete
<1>2. topSite \in DOMAIN Head(top.todo).state.trace => FailsWith("duplicate")
  BY DEF ResolveConcrete, FailsWith
<1>3. topSite \notin DOMAIN Head(top.todo).state.trace =>
        stack' = <<ResolvedArm>> \o (<<one>> \o Tail(stack)) /\ ctl' = ctl
  BY DEF ResolveConcrete, ResolvedArm, WithTodo
<1>4. top = Moved(top, top.stage, top.todo, top.current, top.done, top.arms)
  BY DEF IsActivation
<1>5. one = Moved(top, top.stage, Tail(top.todo), top.current, top.done, top.arms)
  BY <1>4, OneUpdate
<1> HIDE DEF one
<1> QED
  BY <1>1, <1>2, <1>3, <1>5

\* The arms a fork leaves to branch into, each with its candidate's state.
Forked == [i \in 1..Len(SymbolicArms) |->
             [state |-> Head(top.todo).state, arm |-> SymbolicArms[i]]]

\* ForkSymbolic, in the words of this module: it may also refuse a repeated selection.
LEMMA ForkMoves ==
  ASSUME IsActivation(top), ForkSymbolic
  PROVE  /\ Selecting /\ ~IsConcrete(selector)
         /\ stack' = <<Moved(top, top.stage, Tail(top.todo), top.current, top.done, Forked)>>
                       \o Tail(stack)
         /\ incomplete' = IF TooManyMasks THEN FirstExceeded(topSite) ELSE incomplete
         /\ request' = request /\ ctl' = ctl /\ syntactic' = syntactic
<1> DEFINE one == WithTodo(top, Tail(top.todo))
           two == WithArms(one, Forked)
<1>1. stack' = <<two>> \o Tail(stack)
  BY DEF ForkSymbolic, Forked, WithTodo, WithArms
<1>2. top = Moved(top, top.stage, top.todo, top.current, top.done, top.arms)
  BY DEF IsActivation
<1>3. one = Moved(top, top.stage, Tail(top.todo), top.current, top.done, top.arms)
  BY <1>2, OneUpdate
<1> HIDE DEF one
<1>4. two = Moved(top, top.stage, Tail(top.todo), top.current, top.done, Forked)
  BY <1>3, OneUpdate
<1> HIDE DEF two
<1>5. /\ Selecting /\ ~IsConcrete(selector)
      /\ incomplete' = IF TooManyMasks THEN FirstExceeded(topSite) ELSE incomplete
      /\ request' = request /\ ctl' = ctl /\ syntactic' = syntactic
  BY DEF ForkSymbolic
<1> QED
  BY <1>1, <1>4, <1>5

\* The three ways of a branch: taken, at the limit, impossible.
LEMMA BranchMoves ==
  ASSUME IsActivation(top)
  PROVE  afterBranch = <<Moved(top, top.stage, top.todo, top.current, top.done, Tail(top.arms))>>
                        \o Tail(stack)
<1> DEFINE one == WithArms(top, Tail(top.arms))
<1>1. afterBranch = <<one>> \o Tail(stack)
  BY DEF afterBranch, WithArms
<1>2. top = Moved(top, top.stage, top.todo, top.current, top.done, top.arms)
  BY DEF IsActivation
<1>3. one = Moved(top, top.stage, top.todo, top.current, top.done, Tail(top.arms))
  BY <1>2, OneUpdate
<1> HIDE DEF one
<1> QED
  BY <1>1, <1>3

-----------------------------------------------------------------------------
(***************************************************************************)
(* Types are preserved by each way of changing the stack.                  *)
(***************************************************************************)
Awaits(act) == Resolving(act) \/ CurrentOK(act)

\* Whether an activation awaits results depends on the request and the activation only.
LEMMA SameAwaits ==
  ASSUME request' = request, NEW act
  PROVE  Awaits(act)' <=> Awaits(act)
BY SameActivation DEF Awaits

\* Typed, in the words of this module.
LEMMA TypedParts ==
  Typed <=> /\ request \in Requests /\ IsList(stack) /\ ControlOK
            /\ \A d \in 1..Depth : ActivationOK(ActivationAt(d))
            /\ \A d \in 1..Depth :
                 d < Depth \/ ctl.at \in {"call", "return"} => Awaits(ActivationAt(d))
BY DEF Typed, Depth, Awaits

\* The type invariant after a step.
LEMMA TypedNext ==
  ASSUME (request \in Requests)', IsList(stack)', ControlOK',
         \A d \in 1..Depth' : ActivationOK(ActivationAt(d))',
         \A d \in 1..Depth' :
           d < Depth' \/ ctl'.at \in {"call", "return"} => Awaits(ActivationAt(d))'
  PROVE  Typed'
BY DEF Typed, Depth, Awaits

\* Activations that are kept stay well typed.
LEMMA KeptAreTyped ==
  ASSUME request' = request, Typed, NEW n \in Nat, n <= Depth, KeepsActivations(n)
  PROVE  /\ \A d \in 1..n : ActivationOK(ActivationAt(d))'
         /\ \A d \in 1..n : d < Depth \/ ctl.at \in {"call", "return"} =>
                              Awaits(ActivationAt(d))'
<1>1. Depth \in Nat
  BY ListElements DEF Typed, Depth
<1>2. ASSUME NEW d \in 1..n
      PROVE  /\ ActivationOK(ActivationAt(d))'
             /\ d < Depth \/ ctl.at \in {"call", "return"} => Awaits(ActivationAt(d))'
  <2>1. d \in 1..Depth
    BY <1>1
  <2>2. ActivationAt(d)' = ActivationAt(d)
    BY DEF KeepsActivations
  <2>3. ActivationOK(ActivationAt(d)) /\
        (d < Depth \/ ctl.at \in {"call", "return"} => Awaits(ActivationAt(d)))
    BY <2>1, TypedParts
  <2> QED
    BY <2>2, <2>3, SameActivation, SameAwaits
<1> QED
  BY <1>2

-----------------------------------------------------------------------------
(***************************************************************************)
(* Types survive each way of changing the stack.                           *)
(***************************************************************************)
LEMMA TypedReplaced ==
  ASSUME Typed, request' = request, stack # <<>>,
         NEW act, stack' = <<act>> \o Tail(stack), ActivationOK(act), ControlOK',
         ctl'.at \in {"call", "return"} => Awaits(act)
  PROVE  Typed'
<1>1. /\ IsList(stack)' /\ Depth' = Depth /\ KeepsActivations(Depth - 1)
      /\ ActivationAt(Depth)' = act
  BY Replaced DEF Typed
<1>2. Depth - 1 \in Nat /\ Depth \in Nat
  BY TopActivation DEF Typed
<1>3. /\ \A d \in 1..(Depth - 1) : ActivationOK(ActivationAt(d))'
      /\ \A d \in 1..(Depth - 1) : Awaits(ActivationAt(d))'
  BY <1>1, <1>2, KeptAreTyped
<1>4. ActivationOK(ActivationAt(Depth))'
  BY <1>1, SameActivation
<1>5. ctl'.at \in {"call", "return"} => Awaits(ActivationAt(Depth))'
  BY <1>1, SameAwaits
<1>6. \A d \in 1..Depth : d \in 1..(Depth - 1) \/ d = Depth
  BY <1>2
<1>7. \A d \in 1..Depth' : ActivationOK(ActivationAt(d))'
  BY <1>1, <1>3, <1>4, <1>6
<1>8. \A d \in 1..Depth' :
        d < Depth' \/ ctl'.at \in {"call", "return"} => Awaits(ActivationAt(d))'
  BY <1>1, <1>2, <1>3, <1>5, <1>6
<1>9. (request \in Requests)'
  BY DEF Typed
<1> QED
  BY <1>1, <1>7, <1>8, <1>9, TypedNext

\* An activation is pushed.
LEMMA TypedPushed ==
  ASSUME Typed, request' = request, ctl.at = "call", ctl'.at = "run",
         NEW act, stack' = <<act>> \o stack, ActivationOK(act)
  PROVE  Typed'
<1>1. /\ IsList(stack)' /\ Depth' = Depth + 1 /\ KeepsActivations(Depth)
      /\ ActivationAt(Depth)' = act
  BY Pushed DEF Typed
<1>2. Depth \in Nat
  BY ListElements DEF Typed, Depth
<1>3. /\ \A d \in 1..Depth : ActivationOK(ActivationAt(d))'
      /\ \A d \in 1..Depth : Awaits(ActivationAt(d))'
  BY <1>1, <1>2, KeptAreTyped
<1>4. ActivationOK(ActivationAt(Depth))'
  BY <1>1, SameActivation
<1>5. \A d \in 1..(Depth + 1) : d \in 1..Depth \/ d = Depth + 1
  BY <1>2
<1>6. \A d \in 1..Depth' : ActivationOK(ActivationAt(d))'
  BY <1>1, <1>3, <1>4, <1>5
<1>7. \A d \in 1..Depth' : d < Depth' => Awaits(ActivationAt(d))'
  BY <1>1, <1>2, <1>3, <1>5
<1>8. (request \in Requests)'
  BY DEF Typed
<1>9. ControlOK'
  <2>1. stack' # <<>>
    BY <1>1, <1>2, EmptyList DEF Depth
  <2> QED
    BY <2>1 DEF ControlOK
<1> QED
  BY <1>1, <1>6, <1>7, <1>8, <1>9, TypedNext

\* The innermost activation moves on and an arm is pushed on top of it.
LEMMA TypedReplacedAndPushed ==
  ASSUME Typed, request' = request, stack # <<>>, ctl'.at = "run",
         NEW under, NEW act, stack' = <<act>> \o (<<under>> \o Tail(stack)),
         ActivationOK(under), Resolving(under), ActivationOK(act)
  PROVE  Typed'
<1>1. /\ IsList(stack)' /\ Depth' = Depth + 1 /\ KeepsActivations(Depth - 1)
      /\ ActivationAt(Depth - 1)' = under /\ ActivationAt(Depth)' = act
  BY ReplacedAndPushed DEF Typed
<1>2. Depth - 1 \in Nat /\ Depth \in Nat /\ (Depth + 1) - 1 = Depth
  BY TopActivation DEF Typed
<1>3. /\ \A d \in 1..(Depth - 1) : ActivationOK(ActivationAt(d))'
      /\ \A d \in 1..(Depth - 1) : Awaits(ActivationAt(d))'
  BY <1>1, <1>2, KeptAreTyped
<1>4. /\ ActivationOK(ActivationAt(Depth))' /\ ActivationOK(ActivationAt(Depth - 1))'
      /\ Awaits(ActivationAt(Depth - 1))'
  BY <1>1, SameActivation, SameAwaits DEF Awaits
<1>5. \A d \in 1..(Depth + 1) : d \in 1..(Depth - 1) \/ d = Depth \/ d = Depth + 1
  BY <1>2
<1>6. ASSUME NEW d \in 1..Depth'
      PROVE  ActivationOK(ActivationAt(d))' /\ (d < Depth' => Awaits(ActivationAt(d))')
  <2>1. CASE d \in 1..(Depth - 1)
    BY <1>3, <2>1
  <2>2. CASE d = Depth
    <3>1. d = Depth' - 1
      BY <1>1, <1>2, <2>2
    <3> QED
      BY <1>4, <3>1
  <2>3. CASE d = Depth + 1
    <3>1. d = Depth' /\ ~(d < Depth')
      BY <1>1, <1>2, <2>3
    <3> QED
      BY <1>4, <3>1
  <2> QED
    BY <1>1, <1>5, <2>1, <2>2, <2>3
<1>8. (request \in Requests)'
  BY DEF Typed
<1>9. ControlOK'
  <2>1. stack' # <<>>
    BY <1>1, <1>2, EmptyList DEF Depth
  <2> QED
    BY <2>1 DEF ControlOK
<1> QED
  BY <1>1, <1>6, <1>8, <1>9, TypedNext

\* The innermost activation is popped.
LEMMA TypedPopped ==
  ASSUME Typed, request' = request, stack # <<>>, stack' = Tail(stack), ControlOK'
  PROVE  Typed'
<1>1. IsList(stack)' /\ Depth' = Depth - 1 /\ KeepsActivations(Depth - 1)
  BY Popped DEF Typed
<1>2. Depth - 1 \in Nat /\ Depth \in Nat
  BY TopActivation DEF Typed
<1>3. /\ \A d \in 1..(Depth - 1) : ActivationOK(ActivationAt(d))'
      /\ \A d \in 1..(Depth - 1) : Awaits(ActivationAt(d))'
  BY <1>1, <1>2, KeptAreTyped
<1>4. (request \in Requests)'
  BY DEF Typed
<1> QED
  BY <1>1, <1>3, <1>4, TypedNext

\* A call is answered, the stack as it was.
LEMMA TypedReturned ==
  ASSUME Typed, request' = request, stack' = stack, ctl.at = "call", ControlOK'
  PROVE  Typed'
<1>1. IsList(stack)' /\ Depth' = Depth /\ Depth \in Nat
  BY ListElements DEF Depth, IsList, Typed
<1>2. KeepsActivations(Depth)
  BY DEF KeepsActivations, ActivationAt
<1>3. /\ \A d \in 1..Depth : ActivationOK(ActivationAt(d))'
      /\ \A d \in 1..Depth : Awaits(ActivationAt(d))'
  BY <1>1, <1>2, KeptAreTyped
<1>4. (request \in Requests)'
  BY DEF Typed
<1> QED
  BY <1>1, <1>3, <1>4, TypedNext

\* The request fails and its stack is dropped.
LEMMA TypedFailed ==
  ASSUME Typed, request' = request, NEW why, FailsWith(why)
  PROVE  Typed'
<1>1. ctl'.at = "fail" /\ stack' = <<>>
  BY DEF FailsWith, Fail
<1>2. Depth' = 0 /\ IsList(stack)'
  BY <1>1, EmptyList DEF Depth, IsList
<1>3. ControlOK'
  BY <1>1 DEF ControlOK
<1>4. (request \in Requests)'
  BY DEF Typed
<1>5. \A d : d \notin 1..0
  OBVIOUS
<1> QED
  BY <1>2, <1>3, <1>4, <1>5, TypedNext

-----------------------------------------------------------------------------
(***************************************************************************)
(* Types survive every step.                                               *)
(***************************************************************************)
\* What is known of the innermost activation.
LEMMA TopFacts ==
  ASSUME Typed, stack # <<>>
  PROVE  /\ request \in Requests
         /\ NodeOK(top.frame, top.node) /\ topNode = NodeOf(top.frame, top.node)
         /\ KindOf(top) = topNode.kind
         /\ top.arm \in BOOLEAN /\ RefsOK(top) /\ top.stage \in 0..Stages(top) /\ top.stage \in Nat
         /\ top.node \in Nat /\ top.refs \in Seq(1..(top.node - 1)) /\ Len(top.refs) \in Nat
         /\ Stages(top) \in Nat
         /\ IsList(top.todo) /\ IsList(top.done) /\ IsList(top.arms)
         /\ \A i \in 1..Len(top.todo) : PartialOK(top.todo[i], Arity(top, top.stage - 1))
         /\ \A i \in 1..Len(top.done) : PartialOK(top.done[i], Arity(top, top.stage))
         /\ \A i \in 1..Len(top.arms) : PendingOK(top.arms[i], top.node, KindOf(top))
         /\ top.todo # <<>> => top.stage > 0
         /\ top.arms # <<>> => Resolving(top)
         /\ ctl.at = "return" => Awaits(top)
<1>1. ActivationOK(top) /\ Depth \in 1..Depth /\ top = ActivationAt(Depth)
  BY TopIsActivation, TopActivation DEF Typed
<1>2. /\ NodeOK(top.frame, top.node) /\ top.arm \in BOOLEAN /\ RefsOK(top)
      /\ top.stage \in 0..Stages(top) /\ PartialsOK(top)
  BY <1>1 DEF ActivationOK
<1>3. request \in Requests
  BY DEF Typed
<1>4. /\ top.node \in Nat /\ top.refs \in Seq(1..(top.node - 1)) /\ Len(top.refs) \in Nat
      /\ Stages(top) \in Nat
  BY <1>2, <1>3, StagesOf
<1>5. top.stage \in Nat
  BY <1>2, <1>4
<1>6. ctl.at = "return" => Awaits(top)
  BY <1>1, TypedParts
<1>7. topNode = NodeOf(top.frame, top.node) /\ KindOf(top) = topNode.kind
  BY DEF topNode, KindOf
<1> QED
  BY <1>2, <1>3, <1>4, <1>5, <1>6, <1>7 DEF PartialsOK

\* What Moved keeps fit, given that its lists are.
LEMMA TopMoves ==
  ASSUME Typed, stack # <<>>, NEW stage \in 0..Stages(top),
         NEW todo, NEW current, NEW done, NEW arms,
         IsList(todo), IsList(done), IsList(arms),
         \A i \in 1..Len(todo) : PartialOK(todo[i], Arity(top, stage - 1)),
         \A i \in 1..Len(done) : PartialOK(done[i], Arity(top, stage)),
         \A i \in 1..Len(arms) : PendingOK(arms[i], top.node, KindOf(top)),
         todo # <<>> => stage > 0,
         arms # <<>> => Resolving(top) /\ stage = top.stage
  PROVE  /\ ActivationOK(Moved(top, stage, todo, current, done, arms))
         /\ CurrentOK(Moved(top, stage, todo, current, done, arms)) <=>
              stage > 0 /\ current \in Seq(Values) /\ Len(current) = Arity(top, stage - 1)
         /\ stage = top.stage =>
              (Resolving(Moved(top, stage, todo, current, done, arms)) <=> Resolving(top))
<1> DEFINE new == Moved(top, stage, todo, current, done, arms)
<1>1. ActivationOK(top)
  BY TopIsActivation
<1>2. /\ new.frame = top.frame /\ new.node = top.node /\ new.arm = top.arm
      /\ new.refs = top.refs /\ new.stage = stage
  BY MovedShape
<1>3. new = Moved(top, stage, todo, current, done, arms)
  OBVIOUS
<1> HIDE DEF new
<1>4. stage = top.stage => (Resolving(new) <=> Resolving(top))
  BY <1>2, SameShape
<1>5. /\ ActivationOK(new)
      /\ CurrentOK(new) <=>
              stage > 0 /\ current \in Seq(Values) /\ Len(current) = Arity(top, stage - 1)
  BY <1>1, <1>3, <1>4, MovedIsOK
<1> QED
  BY <1>3, <1>4, <1>5

\* The next partial to drive.
LEMMA NextPartial ==
  ASSUME Typed, stack # <<>>, top.todo # <<>>
  PROVE  /\ top.stage > 0
         /\ PartialOK(Head(top.todo), Arity(top, top.stage - 1))
         /\ IsList(Tail(top.todo))
         /\ \A i \in 1..Len(Tail(top.todo)) :
              PartialOK(Tail(top.todo)[i], Arity(top, top.stage - 1))
<1>1. /\ IsList(top.todo) /\ top.stage > 0
      /\ \A i \in 1..Len(top.todo) : PartialOK(top.todo[i], Arity(top, top.stage - 1))
  BY TopFacts
<1>2. Len(top.todo) - 1 \in Nat /\ 1 \in 1..Len(top.todo) /\ Head(top.todo) = top.todo[1]
  BY <1>1, HeadOfList
<1>3. /\ IsList(Tail(top.todo)) /\ Len(Tail(top.todo)) = Len(top.todo) - 1
      /\ \A i \in 1..(Len(top.todo) - 1) : Tail(top.todo)[i] = top.todo[i + 1]
  BY <1>1, TailOfList
<1>4. \A i \in 1..(Len(top.todo) - 1) : i + 1 \in 1..Len(top.todo)
  BY <1>2
<1> QED
  BY <1>1, <1>2, <1>3, <1>4

\* Evaluating a node that may be evaluated in a frame is well typed.
LEMMA TypedEvaluate ==
  ASSUME Typed, stack # <<>>, top.todo # <<>>, NEW frame, NEW node, NodeOK(frame, node),
         Evaluate(frame, node)
  PROVE  Typed'
<1> DEFINE new == Moved(top, top.stage, Tail(top.todo), Head(top.todo).values,
                        top.done, top.arms)
<1>1. /\ stack' = <<new>> \o Tail(stack)
      /\ ctl' = Call(frame, node, Head(top.todo).state) /\ request' = request
  BY TopIsActivation, EvaluateMoves
<1>2. /\ StateOK(Head(top.todo).state) /\ Head(top.todo).values \in Seq(Values)
      /\ Len(Head(top.todo).values) = Arity(top, top.stage - 1)
  BY NextPartial DEF PartialOK
<1>3. ActivationOK(new) /\ CurrentOK(new)
  BY <1>2, TopFacts, NextPartial, TopMoves
<1>4. ControlOK'
  <2>1. ctl'.at = "call" /\ ctl'.frame = frame /\ ctl'.node = node
        /\ ctl'.state = Head(top.todo).state
    BY <1>1 DEF Call
  <2>2. NodeOK(frame, node)' /\ StateOK(Head(top.todo).state)
    BY <1>1, <1>2, SameRequest
  <2>3. NodeOK(ctl.frame, ctl.node)' /\ StateOK(ctl.state)'
    BY <1>1, <1>2, <2>1, SameRequest
  <2> QED
    BY <2>1, <2>3 DEF ControlOK
<1> HIDE DEF new
<1> QED
  BY <1>1, <1>3, <1>4, TypedReplaced DEF Awaits

\* DemandOperand demands an operand of the node or of the arm.
LEMMA TypedDemand ==
  ASSUME Typed, DemandOperand
  PROVE  Typed'
<1>1. /\ ctl.at = "run" /\ top.todo # <<>> /\ top.stage <= Len(top.refs)
      /\ Evaluate(top.frame, top.refs[top.stage])
  BY DEF DemandOperand, Working
<1>2. stack # <<>>
  BY <1>1 DEF Typed, ControlOK
<1>3. /\ request \in Requests /\ NodeOK(top.frame, top.node)
      /\ top.refs \in Seq(1..(top.node - 1)) /\ Len(top.refs) \in Nat /\ top.stage \in Nat
  BY <1>2, TopFacts
<1>4. top.stage > 0
  BY <1>1, <1>2, NextPartial
<1>5. top.stage \in 1..Len(top.refs)
  BY <1>1, <1>3, <1>4
<1>6. top.refs[top.stage] \in 1..(top.node - 1)
  BY <1>3, <1>5, SeqIsList
<1>7. NodeOK(top.frame, top.refs[top.stage])
  BY <1>3, <1>6, OtherNodes
<1> QED
  BY <1>1, <1>2, <1>7, TypedEvaluate

\* The invocation context of a call is one frame longer.
LEMMA OneMoreFrame ==
  ASSUME NEW s, IsList(s), NEW x
  PROVE  /\ IsList(Append(s, x)) /\ Len(Append(s, x)) = Len(s) + 1
         /\ \A i \in 1..Len(s) : Append(s, x)[i] = s[i]
         /\ Append(s, x)[Len(s) + 1] = x
<1> DEFINE S == {s[i] : i \in 1..Len(s)} \cup {x}
<1>1. s \in Seq(S) /\ x \in S
  BY ListIsSeq
<1>2. Len(s) \in Nat
  BY ListElements
<1> HIDE DEF S
<1>3. Append(s, x) \in Seq(S)
  BY <1>1, AppendProperties
<1>4. /\ Len(Append(s, x)) = Len(s) + 1
      /\ \A i \in 1..Len(s) : Append(s, x)[i] = s[i]
      /\ Append(s, x)[Len(s) + 1] = x
  BY <1>1, <1>2, AppendProperties
<1> QED
  BY <1>3, <1>4, SeqIsList

\* Sequences of one value.
LEMMA OneValue ==
  ASSUME NEW value \in Values
  PROVE  <<value>> \in Seq(Values) /\ Len(<<value>>) = 1
OBVIOUS

\* A value before a sequence of values.
LEMMA OneValueBefore ==
  ASSUME NEW value \in Values, NEW values \in Seq(Values)
  PROVE  <<value>> \o values \in Seq(Values) /\ Len(<<value>> \o values) = Len(values) + 1
<1>1. IsList(values) /\ \A i \in 1..Len(values) : values[i] \in Values
  BY SeqIsList
<1>2. Len(values) \in Nat
  BY <1>1, ListElements
<1>3. <<value>> \in Seq(Values) /\ Len(<<value>>) = 1
  BY OneValue
<1> QED
  BY <1>2, <1>3, ConcatProperties

CalledFrame == [fn |-> topNode.callee, args |-> Head(top.todo).values,
                inv |-> Append(top.frame.inv, InvokeFrame)]

\* A call has an argument for every parameter.
LEMMA CalleeIsOK ==
  ASSUME Typed, EnterCallee
  PROVE  /\ FrameOK(CalledFrame) /\ NodeOK(CalledFrame, request.fns[CalledFrame.fn].ret)
         /\ ctl.at = "run" /\ stack # <<>> /\ top.todo # <<>> /\ topNode.kind = "invoke"
         /\ Evaluate(CalledFrame, request.fns[CalledFrame.fn].ret)
<1>1. /\ ctl.at = "run" /\ top.todo # <<>> /\ top.stage > Len(top.refs)
      /\ topNode.kind = "invoke"
      /\ Evaluate(CalledFrame, request.fns[CalledFrame.fn].ret)
  BY DEF EnterCallee, Working, CalledFrame
<1>2. stack # <<>>
  BY <1>1 DEF Typed, ControlOK
<1>3. /\ request \in Requests /\ NodeOK(top.frame, top.node) /\ RefsOK(top)
      /\ Len(top.refs) \in Nat /\ top.stage \in 0..Stages(top) /\ top.arm \in BOOLEAN
      /\ topNode = NodeOf(top.frame, top.node) /\ KindOf(top) = "invoke"
  BY <1>1, <1>2, TopFacts
<1>4. ~top.arm /\ top.refs = topNode.refs
  BY <1>1, <1>3 DEF RefsOK, SelectionKinds
<1>5. Stages(top) = Len(top.refs) + 1
  BY <1>3, <1>4, StagesOf
<1>6. top.stage - 1 = Len(top.refs) /\ top.stage - 1 <= Len(top.refs)
  BY <1>1, <1>3, <1>5
<1>7. Arity(top, top.stage - 1) = Len(top.refs)
  BY <1>4, <1>6 DEF Arity
<1>8. Head(top.todo).values \in Seq(Values) /\ Len(Head(top.todo).values) = Len(top.refs)
  BY <1>1, <1>2, <1>7, NextPartial DEF PartialOK
<1>9. topNode.callee \in DOMAIN request.fns
      /\ Len(topNode.refs) = Len(request.fns[topNode.callee].params)
  BY <1>1, <1>3, NodeFacts
<1>10. IsList(Append(top.frame.inv, InvokeFrame))
  BY <1>3, OneMoreFrame DEF NodeOK, FrameOK
<1>11. FrameOK(CalledFrame)
  BY <1>4, <1>8, <1>9, <1>10 DEF FrameOK, CalledFrame
<1>12. NodeOK(CalledFrame, request.fns[CalledFrame.fn].ret)
  BY <1>3, <1>11, OtherNodes
<1> QED
  BY <1>1, <1>2, <1>11, <1>12

\* EnterCallee enters a function of the request with as many arguments as it takes.
LEMMA TypedCall ==
  ASSUME Typed, EnterCallee
  PROVE  Typed'
BY CalleeIsOK, TypedEvaluate

Iteration == top.stage - Len(top.refs) - 1
Induction == InductionValue(request.fns[topNode.callee].params[1], Iteration * topNode.stride)
IterationFrame == [fn |-> topNode.callee, args |-> <<Induction>> \o Head(top.todo).values,
                   inv |-> Append(top.frame.inv, LoopFrame(Iteration))]

\* An iteration has its induction value, the loop states and the invariants.
LEMMA BodyIsOK ==
  ASSUME Typed, EnterIteration
  PROVE  /\ FrameOK(IterationFrame)
         /\ NodeOK(IterationFrame, request.fns[IterationFrame.fn].ret)
         /\ ctl.at = "run" /\ stack # <<>> /\ top.todo # <<>> /\ topNode.kind = "counted_for"
         /\ Evaluate(IterationFrame, request.fns[IterationFrame.fn].ret)
<1>1. /\ ctl.at = "run" /\ top.todo # <<>> /\ top.stage > Len(top.refs)
      /\ topNode.kind = "counted_for"
      /\ Evaluate(IterationFrame, request.fns[IterationFrame.fn].ret)
  BY DEF EnterIteration, Working, IterationFrame, Induction, Iteration
<1>2. stack # <<>>
  BY <1>1 DEF Typed, ControlOK
<1>3. /\ request \in Requests /\ NodeOK(top.frame, top.node) /\ RefsOK(top)
      /\ Len(top.refs) \in Nat /\ top.stage \in Nat /\ top.arm \in BOOLEAN
      /\ topNode = NodeOf(top.frame, top.node) /\ KindOf(top) = "counted_for"
  BY <1>1, <1>2, TopFacts
<1>4. ~top.arm /\ top.refs = topNode.refs
  BY <1>1, <1>3 DEF RefsOK, SelectionKinds
<1>5. Arity(top, top.stage - 1) = Len(top.refs)
  <2>1. CASE top.stage - 1 <= Len(top.refs)
    <3>1. top.stage - 1 = Len(top.refs)
      BY <1>1, <1>3, <2>1
    <3> QED
      BY <1>4, <2>1, <3>1 DEF Arity
  <2>2. CASE ~(top.stage - 1 <= Len(top.refs))
    <3>1. top.stage - 1 > Len(top.refs)
      BY <1>3, <2>2
    <3> QED
      BY <1>3, <1>4, <2>2, <3>1 DEF Arity
  <2> QED
    BY <2>1, <2>2
<1>6. Head(top.todo).values \in Seq(Values) /\ Len(Head(top.todo).values) = Len(top.refs)
  BY <1>1, <1>2, <1>5, NextPartial DEF PartialOK
<1>7. /\ topNode.callee \in DOMAIN request.fns
      /\ Len(topNode.refs) + 1 = Len(request.fns[topNode.callee].params)
      /\ request.fns[topNode.callee].params[1] \in Nat /\ topNode.stride \in Nat
  <2>1. topNode.kind \in {"invoke", "counted_for"} /\ topNode.kind = "counted_for"
    BY <1>1
  <2>2. NodeOK(top.frame, top.node) /\ topNode = NodeOf(top.frame, top.node)
    BY <1>3
  <2>6. request \in Requests
    BY <1>3
  <2>3. topNode.callee \in DOMAIN request.fns
    BY <2>1, <2>2, <2>6, NodeFacts
  <2>4. /\ Len(topNode.refs) + 1 = Len(request.fns[topNode.callee].params)
        /\ request.fns[topNode.callee].params[1] \in Nat
    BY <2>1, <2>2, <2>6, NodeFacts
  <2>5. topNode.stride \in Nat
    BY <2>1, <2>2, <2>6, NodeFacts
  <2> QED
    BY <2>3, <2>4, <2>5
<1>8. Iteration \in Nat
  BY <1>1, <1>3 DEF Iteration
<1>9. Iteration * topNode.stride \in Nat
  BY <1>7, <1>8
<1>10. Induction \in Values
  BY <1>7, <1>9, InductionValueIsValue DEF Induction
<1>11. IsList(Append(top.frame.inv, LoopFrame(Iteration)))
  BY <1>3, OneMoreFrame DEF NodeOK, FrameOK
<1>12. /\ <<Induction>> \o Head(top.todo).values \in Seq(Values)
       /\ Len(<<Induction>> \o Head(top.todo).values) = Len(top.refs) + 1
  BY <1>6, <1>10, OneValueBefore
<1>13. FrameOK(IterationFrame)
  BY <1>4, <1>7, <1>11, <1>12 DEF FrameOK, IterationFrame
<1>14. NodeOK(IterationFrame, request.fns[IterationFrame.fn].ret)
  BY <1>3, <1>13, OtherNodes
<1> QED
  BY <1>1, <1>2, <1>13, <1>14

\* EnterIteration enters the body with the induction value, the state and the invariants.
LEMMA TypedIteration ==
  ASSUME Typed, EnterIteration
  PROVE  Typed'
BY BodyIsOK, TypedEvaluate

-----------------------------------------------------------------------------
\* Extending the partial in hand gives it one stage more of values.
LEMMA ExtendFits ==
  ASSUME request \in Requests, NEW act, ActivationOK(act), Awaits(act), NEW value \in Values
  PROVE  Extend(act, value) \in Seq(Values) /\ Len(Extend(act, value)) = Arity(act, act.stage)
<1> DEFINE kind == KindOf(act)
<1>1. /\ act.arm \in BOOLEAN /\ NodeOK(act.frame, act.node) /\ RefsOK(act)
      /\ act.stage \in 0..Stages(act)
  BY DEF ActivationOK
<1>2. /\ Len(act.refs) \in Nat /\ Stages(act) \in Nat
      /\ act.arm => Stages(act) = Len(act.refs)
      /\ ~act.arm /\ kind = "counted_for" => Len(act.refs) > 0
  BY <1>1, StagesOf
<1>3. act.stage \in Nat /\ act.stage <= Stages(act)
  BY <1>1, <1>2
<1>4. kind = NodeOf(act.frame, act.node).kind
  BY DEF KindOf
<1>5. ~Resolving(act) => /\ act.stage > 0 /\ act.current \in Seq(Values)
                         /\ Len(act.current) = Arity(act, act.stage - 1)
  BY DEF Awaits, CurrentOK
<1>6. CASE act.arm
  <2>1. act.stage > 0 /\ act.current \in Seq(Values)
        /\ Len(act.current) = Arity(act, act.stage - 1)
    BY <1>5, <1>6 DEF Resolving
  <2>2. CASE kind = "one_hot_sel"
    <3>1. Extend(act, value) = <<DeepOr(act.current[1], value)>>
      BY <1>4, <1>6, <2>2 DEF Extend
    <3>2. Arity(act, act.stage) = 1 /\ Arity(act, act.stage - 1) = 1
      BY <1>6, <2>2 DEF Arity
    <3>3. act.current[1] \in Values
      BY <2>1, <3>2, SeqIsList
    <3>4. DeepOr(act.current[1], value) \in Values
      BY <3>3, DeepOrIsValue
    <3> QED
      BY <3>1, <3>2, <3>4, OneValue
  <2>3. CASE kind # "one_hot_sel"
    <3>1. Extend(act, value) = <<value>>
      BY <1>4, <1>6, <2>3 DEF Extend
    <3>2. Len(act.refs) = 1
      BY <1>1, <1>6, <2>3 DEF RefsOK
    <3>3. act.stage = 1
      BY <1>2, <1>3, <1>6, <2>1, <3>2
    <3>4. Arity(act, act.stage) = 1
      BY <1>6, <2>3, <3>3 DEF Arity
    <3> QED
      BY <3>1, <3>4, OneValue
  <2> QED
    BY <2>2, <2>3
<1>7. CASE ~act.arm /\ act.stage <= Len(act.refs)
  <2>0. ~(act.stage > Len(act.refs))
    BY <1>2, <1>3, <1>7
  <2>1. act.stage > 0 /\ act.current \in Seq(Values)
        /\ Len(act.current) = Arity(act, act.stage - 1)
    BY <1>5, <1>7, <2>0 DEF Resolving
  <2>2. act.stage - 1 <= Len(act.refs)
    BY <1>2, <1>3, <1>7
  <2>3. Arity(act, act.stage - 1) = act.stage - 1 /\ Arity(act, act.stage) = act.stage
    <3>1. ~(act.stage - 1 > Len(act.refs))
      BY <1>2, <1>3, <2>2
    <3>2. Arity(act, act.stage - 1) = act.stage - 1
      BY <1>7, <2>2, <3>1 DEF Arity
    <3>3. Arity(act, act.stage) = act.stage
      BY <1>7, <2>0 DEF Arity
    <3> QED
      BY <3>2, <3>3
  <2>4. Extend(act, value) = Append(act.current, value)
    BY <1>7, <2>0 DEF Extend
  <2>5. Append(act.current, value) \in Seq(Values)
        /\ Len(Append(act.current, value)) = (act.stage - 1) + 1
    BY <2>1, <2>3, OneMoreAfter
  <2> QED
    BY <1>3, <2>3, <2>4, <2>5
<1>8. CASE ~act.arm /\ ~(act.stage <= Len(act.refs)) /\ kind = "counted_for"
  <2>0. act.stage > Len(act.refs)
    BY <1>2, <1>3, <1>8
  <2>1. act.stage > 0 /\ act.current \in Seq(Values)
        /\ Len(act.current) = Arity(act, act.stage - 1)
    BY <1>5, <1>8 DEF Resolving, SelectionKinds
  <2>2. Arity(act, act.stage) = Len(act.refs)
    BY <1>8, <2>0 DEF Arity
  <2>3. Arity(act, act.stage - 1) = Len(act.refs)
    <3>1. CASE act.stage - 1 <= Len(act.refs)
      <4>1. act.stage - 1 = Len(act.refs)
        BY <1>2, <1>3, <2>0, <3>1
      <4> QED
        BY <1>8, <3>1, <4>1 DEF Arity
    <3>2. CASE ~(act.stage - 1 <= Len(act.refs))
      <4>1. act.stage - 1 > Len(act.refs)
        BY <1>2, <1>3, <3>2
      <4> QED
        BY <1>8, <3>2, <4>1 DEF Arity
    <3> QED
      BY <3>1, <3>2
  <2>4. Extend(act, value) = <<value>> \o Tail(act.current)
    BY <1>4, <1>8, <2>0 DEF Extend
  <2>5. act.current # <<>>
    BY <1>2, <1>8, <2>1, <2>3, EmptyList
  <2>6. Tail(act.current) \in Seq(Values) /\ Len(Tail(act.current)) = Len(act.current) - 1
    BY <2>1, <2>5, HeadTailProperties
  <2>7. /\ <<value>> \o Tail(act.current) \in Seq(Values)
        /\ Len(<<value>> \o Tail(act.current)) = (Len(act.refs) - 1) + 1
    BY <2>1, <2>3, <2>6, OneValueBefore
  <2> QED
    BY <1>2, <2>2, <2>4, <2>7
<1>9. CASE ~act.arm /\ ~(act.stage <= Len(act.refs)) /\ kind # "counted_for"
  <2>0. act.stage > Len(act.refs)
    BY <1>2, <1>3, <1>9
  <2>1. Extend(act, value) = <<value>>
    BY <1>4, <1>9, <2>0 DEF Extend
  <2>2. Arity(act, act.stage) = 1
    BY <1>9, <2>0 DEF Arity
  <2> QED
    BY <2>1, <2>2, OneValue
<1> QED
  BY <1>1, <1>6, <1>7, <1>8, <1>9

\* Deliver extends the partial it evaluated for.
LEMMA TypedDeliver ==
  ASSUME Typed, Deliver
  PROVE  Typed'
<1> DEFINE new == Moved(top, top.stage, top.todo, top.current, top.done \o Delivered, top.arms)
<1>1. /\ stack # <<>> /\ ctl.at = "return"
  BY DEF Deliver
<1>2. /\ stack' = <<new>> \o Tail(stack) /\ ctl' = Run /\ request' = request
  BY <1>1, TopIsActivation, DeliverMoves
<1>3. IsList(ctl.results) /\ Len(ctl.results) \in Nat
      /\ \A i \in 1..Len(ctl.results) :
           StateOK(ctl.results[i].state) /\ ctl.results[i].value \in Values
  BY <1>1, ListElements DEF Typed, ControlOK
<1>4. request \in Requests /\ ActivationOK(top) /\ Awaits(top)
  BY <1>1, TopFacts, TopIsActivation
<1>5. IsList(Delivered) /\ Len(Delivered) = Len(ctl.results)
  BY <1>3, MakeList DEF Delivered
<1>6. ASSUME NEW i \in 1..Len(Delivered)
      PROVE  PartialOK(Delivered[i], Arity(top, top.stage))
  <2>1. Delivered[i] = Partial(ctl.results[i].state, Extend(top, ctl.results[i].value))
    BY <1>5 DEF Delivered
  <2>2. StateOK(ctl.results[i].state) /\ ctl.results[i].value \in Values
    BY <1>3, <1>5
  <2>3. /\ Extend(top, ctl.results[i].value) \in Seq(Values)
        /\ Len(Extend(top, ctl.results[i].value)) = Arity(top, top.stage)
    BY <1>4, <2>2, ExtendFits
  <2> QED
    BY <2>1, <2>2, <2>3 DEF PartialOK, Partial
<1>7. IsList(top.done) /\ Len(top.done) \in Nat
      /\ \A i \in 1..Len(top.done) : PartialOK(top.done[i], Arity(top, top.stage))
  BY <1>1, TopFacts, ListElements
<1>8. /\ IsList(top.done \o Delivered)
      /\ Len(top.done \o Delivered) = Len(top.done) + Len(Delivered)
      /\ \A i \in 1..Len(top.done) : (top.done \o Delivered)[i] = top.done[i]
      /\ \A i \in 1..Len(Delivered) : (top.done \o Delivered)[Len(top.done) + i] = Delivered[i]
  <2>1. IsList(top.done) /\ IsList(Delivered)
    BY <1>5, <1>7
  <2> QED
    BY <2>1, ListsInARow
<1>9. ASSUME NEW i \in 1..Len(top.done \o Delivered)
      PROVE  PartialOK((top.done \o Delivered)[i], Arity(top, top.stage))
  <2>1. CASE i \in 1..Len(top.done)
    BY <1>7, <1>8, <2>1
  <2>2. CASE i \notin 1..Len(top.done)
    <3> DEFINE j == i - Len(top.done)
    <3>1. j \in 1..Len(Delivered) /\ i = Len(top.done) + j
      <4>1. /\ Len(top.done) \in Nat /\ Len(Delivered) \in Nat
            /\ i \in 1..(Len(top.done) + Len(Delivered))
        BY <1>3, <1>5, <1>7, <1>8
      <4> QED
        BY <2>2, <4>1
    <3> HIDE DEF j
    <3> QED
      BY <1>6, <1>8, <3>1
  <2> QED
    BY <2>1, <2>2
<1>10. ActivationOK(new)
  BY <1>1, <1>8, <1>9, TopFacts, TopMoves
<1>11. ControlOK' /\ ctl'.at = "run"
  <2>1. ctl'.at = "run"
    BY <1>2 DEF Run
  <2>2. stack' # <<>>
    BY <1>1, <1>2, OneMoreBefore, TailOfList DEF Typed
  <2> QED
    BY <2>1, <2>2 DEF ControlOK
<1> HIDE DEF new
<1> QED
  BY <1>1, <1>2, <1>10, <1>11, TypedReplaced

\* NextStage makes what was driven wait for the next operand.
LEMMA TypedNextStage ==
  ASSUME Typed, NextStage
  PROVE  Typed'
<1> DEFINE new == Moved(top, top.stage + 1, top.done, top.current, <<>>, top.arms)
<1>1. /\ ctl.at = "run" /\ stack # <<>> /\ top.arms = <<>>
  BY DEF NextStage, Drained, Typed, ControlOK
<1>2. /\ top.stage < Stages(top) /\ request' = request
      /\ FailsWith("overflow") \/ (stack' = <<new>> \o Tail(stack) /\ ctl' = ctl)
  BY <1>1, TopIsActivation, NextStageMoves
<1>3. /\ top.stage \in Nat /\ Stages(top) \in Nat
      /\ IsList(top.done)
      /\ \A i \in 1..Len(top.done) : PartialOK(top.done[i], Arity(top, top.stage))
  BY <1>1, TopFacts
<1>4. top.stage + 1 \in 0..Stages(top) /\ (top.stage + 1) - 1 = top.stage /\ top.stage + 1 > 0
  BY <1>2, <1>3
<1>5. IsList(<<>>) /\ \A i : i \notin 1..Len(<<>>)
  BY EmptyList
<1>6. ActivationOK(new)
  <2> DEFINE stage == top.stage + 1
             done == <<>>
  <2>1. /\ stage \in 0..Stages(top) /\ stage - 1 = top.stage /\ stage > 0
        /\ IsList(done) /\ \A i : i \notin 1..Len(done)
    BY <1>4, <1>5
  <2>2. new = Moved(top, stage, top.done, top.current, done, top.arms)
    OBVIOUS
  <2> HIDE DEF stage, done, new
  <2>3. /\ IsList(top.arms)
        /\ \A i \in 1..Len(top.arms) : PendingOK(top.arms[i], top.node, KindOf(top))
    BY <1>1, TopFacts
  <2>4. \A i \in 1..Len(top.done) : PartialOK(top.done[i], Arity(top, stage - 1))
    BY <1>3, <2>1
  <2>5. \A i \in 1..Len(done) : PartialOK(done[i], Arity(top, stage))
    BY <2>1
  <2> QED
    BY <1>1, <1>3, <2>1, <2>2, <2>3, <2>4, <2>5, TopMoves
<1>7. CASE FailsWith("overflow")
  BY <1>2, <1>7, TypedFailed
<1>8. CASE stack' = <<new>> \o Tail(stack) /\ ctl' = ctl
  <2> HIDE DEF new
  <2>1. stack' # <<>>
    BY <1>1, <1>8, OneMoreBefore, TailOfList DEF Typed
  <2>2. ControlOK'
    BY <1>1, <1>8, <2>1 DEF ControlOK
  <2> QED
    BY <1>1, <1>2, <1>6, <1>8, <2>2, TypedReplaced
<1> QED
  BY <1>2, <1>7, <1>8

\* The activation of an arm starts with nothing driven.
LEMMA ArmIsOK ==
  ASSUME NEW frame, NEW node, NodeOK(frame, node), request \in Requests,
         NodeOf(frame, node).kind \in SelectionKinds,
         NEW demand, DemandOK(NodeOf(frame, node), 1..(node - 1), demand),
         NEW state, StateOK(state),
         NEW new, new = ArmActivation(frame, node, demand, state)
  PROVE  /\ ActivationOK(new) /\ new.arm /\ ~Resolving(new) /\ SiteOf(new) = Site(frame, node)
         /\ new.todo = <<>> /\ new.arms = <<>> /\ new.stage = 0 /\ Len(new.done) = 1
         /\ new.done[1].state = state
<1> DEFINE n == NodeOf(frame, node)
           start == IF n.kind = "one_hot_sel" THEN <<ConstantBits(n.width, 0)>> ELSE <<>>
           done == <<Partial(state, start)>>
<1>1. /\ new = [frame |-> frame, node |-> node, arm |-> TRUE,
                refs |-> demand, stage |-> 0, todo |-> <<>>,
                current |-> <<>>, done |-> done, arms |-> <<>>]
  BY DEF ArmActivation
<1>2. node \in Nat /\ n.width \in Nat
  BY NodeFacts
<1>3. /\ start \in Seq(Values)
      /\ n.kind = "one_hot_sel" => Len(start) = 1
      /\ n.kind # "one_hot_sel" => Len(start) = 0
  <2>1. CASE n.kind = "one_hot_sel"
    <3>1. ConstantBits(n.width, 0) \in Values
      BY <1>2, ConstantBitsIsValue, PowerIsPositive
    <3>2. start = <<ConstantBits(n.width, 0)>>
      BY <2>1
    <3> HIDE DEF start
    <3> QED
      BY <2>1, <3>1, <3>2, OneValue
  <2>2. CASE n.kind # "one_hot_sel"
    <3>1. start = <<>>
      BY <2>2
    <3> QED
      BY <2>2, <3>1, EmptySeq
  <2> QED
    BY <2>1, <2>2
<1> HIDE DEF start
<1>4. /\ done = [i \in 1..1 |-> Partial(state, start)]
      /\ Partial(state, start).state = state /\ Partial(state, start).values = start
  BY DEF Partial
<1>5. IsList(done) /\ Len(done) = 1
  BY <1>4, MakeList
<1>6. done[1].state = state /\ done[1].values = start
  BY DEF Partial
<1> HIDE DEF done
<1>7. /\ new.frame = frame /\ new.node = node /\ new.arm = TRUE /\ new.refs = demand
      /\ new.stage = 0 /\ new.todo = <<>> /\ new.current = <<>> /\ new.done = done
      /\ new.arms = <<>>
  BY <1>1
<1>8. new = [frame |-> new.frame, node |-> new.node, arm |-> new.arm,
             refs |-> new.refs, stage |-> new.stage, todo |-> new.todo,
             current |-> new.current, done |-> new.done, arms |-> new.arms]
  BY <1>1
<1> HIDE <1>1
<1>9. KindOf(new) = n.kind
  BY <1>7 DEF KindOf
<1>10. demand \in Seq(1..(node - 1)) /\ (n.kind # "one_hot_sel" => Len(demand) = 1)
  BY DEF DemandOK
<1> HIDE DEF n
<1>11. RefsOK(new)
  BY <1>7, <1>9, <1>10 DEF RefsOK, n
<1>12. Stages(new) \in Nat
  <2>1. NodeOK(new.frame, new.node) /\ new.arm \in BOOLEAN
    BY <1>7
  <2> QED
    BY <1>11, <2>1, StagesOf
<1>13. \A i \in 1..Len(new.done) : PartialOK(new.done[i], Arity(new, new.stage))
  <2>1. Arity(new, new.stage) = Len(start)
    BY <1>3, <1>7, <1>9 DEF Arity
  <2>2. PartialOK(done[1], Len(start))
    BY <1>3, <1>6 DEF PartialOK
  <2>3. \A i \in 1..1 : i = 1
    OBVIOUS
  <2> QED
    BY <1>5, <1>7, <2>1, <2>2, <2>3
<1>14. PartialsOK(new)
  <2>1. IsList(<<>>) /\ \A i : i \notin 1..Len(<<>>)
    BY EmptyList
  <2> QED
    BY <1>5, <1>7, <1>13, <2>1 DEF PartialsOK
<1>15. ActivationOK(new)
  <2>1. new.stage \in 0..Stages(new)
    BY <1>7, <1>12
  <2>2. NodeOK(new.frame, new.node) /\ new.arm \in BOOLEAN
    BY <1>7
  <2> QED
    BY <1>8, <1>11, <1>14, <2>1, <2>2 DEF ActivationOK
<1>16. SiteOf(new) = Site(frame, node) /\ ~Resolving(new)
  BY <1>7 DEF SiteOf, Resolving
<1> QED
  BY <1>5, <1>6, <1>7, <1>15, <1>16

\* The activation of a node starts with nothing driven.
LEMMA NodeIsOK ==
  ASSUME NEW frame, NEW node, NodeOK(frame, node), request \in Requests,
         NodeOf(frame, node).kind # "param", NEW state, StateOK(state),
         NEW new, new = NodeActivation(frame, node, state)
  PROVE  /\ ActivationOK(new) /\ ~new.arm /\ ~Resolving(new) /\ SiteOf(new) = Site(frame, node)
         /\ new.todo = <<>> /\ new.arms = <<>> /\ new.stage = 0 /\ Len(new.done) = 1
         /\ new.done[1].state = state
<1> DEFINE n == NodeOf(frame, node)
           done == <<Partial(state, <<>>)>>
<1>1. /\ new = [frame |-> frame, node |-> node, arm |-> FALSE,
                refs |-> n.refs, stage |-> 0, todo |-> <<>>,
                current |-> <<>>, done |-> done, arms |-> <<>>]
  BY DEF NodeActivation
<1>2. /\ node \in Nat /\ Len(n.refs) \in Nat
  BY NodeFacts
<1>4. done = [i \in 1..1 |-> Partial(state, <<>>)]
  OBVIOUS
<1>5. IsList(done) /\ Len(done) = 1
  BY <1>4, MakeList
<1>6. done[1].state = state /\ done[1].values = <<>>
  BY DEF Partial
<1> HIDE DEF done
<1>7. /\ new.frame = frame /\ new.node = node /\ new.arm = FALSE /\ new.refs = n.refs
      /\ new.stage = 0 /\ new.todo = <<>> /\ new.current = <<>> /\ new.done = done
      /\ new.arms = <<>>
  BY <1>1
<1>8. new = [frame |-> new.frame, node |-> new.node, arm |-> new.arm,
             refs |-> new.refs, stage |-> new.stage, todo |-> new.todo,
             current |-> new.current, done |-> new.done, arms |-> new.arms]
  BY <1>1
<1> HIDE <1>1
<1>9. KindOf(new) = n.kind
  BY <1>7 DEF KindOf
<1>11. RefsOK(new)
  BY <1>7, <1>9 DEF RefsOK
<1> HIDE DEF n
<1>12. Stages(new) \in Nat
  <2>1. NodeOK(new.frame, new.node) /\ new.arm \in BOOLEAN
    BY <1>7
  <2> QED
    BY <1>11, <2>1, StagesOf
<1>13. \A i \in 1..Len(new.done) : PartialOK(new.done[i], Arity(new, new.stage))
  <2>0. 0 <= Len(new.refs) /\ ~(0 > Len(new.refs))
    BY <1>2, <1>7
  <2>1. Arity(new, new.stage) = 0
    BY <1>7, <2>0 DEF Arity
  <2>2. PartialOK(done[1], 0)
    BY <1>6, EmptySeq DEF PartialOK
  <2>3. \A i \in 1..1 : i = 1
    OBVIOUS
  <2> QED
    BY <1>5, <1>7, <2>1, <2>2, <2>3
<1>14. PartialsOK(new)
  <2>1. IsList(<<>>) /\ \A i : i \notin 1..Len(<<>>)
    BY EmptyList
  <2> QED
    BY <1>5, <1>7, <1>13, <2>1 DEF PartialsOK
<1>15. ActivationOK(new)
  <2>1. new.stage \in 0..Stages(new)
    BY <1>7, <1>12
  <2>2. NodeOK(new.frame, new.node) /\ new.arm \in BOOLEAN
    BY <1>7
  <2> QED
    BY <1>8, <1>11, <1>14, <2>1, <2>2 DEF ActivationOK
<1>16. SiteOf(new) = Site(frame, node) /\ ~Resolving(new)
  <2>1. ~(0 > Len(new.refs))
    BY <1>2, <1>7
  <2> QED
    BY <1>7, <2>1 DEF SiteOf, Resolving
<1> QED
  BY <1>5, <1>6, <1>7, <1>15, <1>16

\* EnterNode pushes the activation of the node called.
LEMMA TypedEnter ==
  ASSUME Typed, EnterNode
  PROVE  Typed'
<1> DEFINE new == NodeActivation(ctl.frame, ctl.node, ctl.state)
<1>1. /\ ctl.at = "call" /\ NodeOf(ctl.frame, ctl.node).kind # "param"
      /\ stack' = <<new>> \o stack /\ ctl' = Run /\ request' = request
  BY DEF EnterNode
<1>2. NodeOK(ctl.frame, ctl.node) /\ StateOK(ctl.state) /\ request \in Requests
  BY <1>1 DEF Typed, ControlOK
<1>3. new = NodeActivation(ctl.frame, ctl.node, ctl.state)
  OBVIOUS
<1> HIDE DEF new
<1>4. ActivationOK(new)
  BY <1>1, <1>2, <1>3, NodeIsOK
<1>5. ctl'.at = "run"
  BY <1>1 DEF Run
<1> QED
  BY <1>1, <1>4, <1>5, TypedPushed

\* One candidate returned.
LEMMA OneResult ==
  ASSUME request' = request, NEW state, StateOK(state), NEW value \in Values,
         ctl' = Return(<<Evaluated(state, value)>>)
  PROVE  ControlOK' /\ ctl'.at = "return" /\ Len(ctl'.results) = 1
         /\ ctl'.results[1].state = state
<1> DEFINE results == <<Evaluated(state, value)>>
<1>1. results = [i \in 1..1 |-> Evaluated(state, value)]
  OBVIOUS
<1>2. IsList(results) /\ Len(results) = 1
  BY <1>1, MakeList
<1>3. results[1].state = state /\ results[1].value = value
  BY DEF Evaluated
<1>4. ctl'.at = "return" /\ ctl'.results = results
  BY DEF Return
<1> HIDE DEF results
<1>5. StateOK(state)'
  BY SameRequest
<1>6. \A i \in 1..1 : i = 1
  OBVIOUS
<1>7. IsList(ctl.results)'
  BY <1>2, <1>4 DEF IsList
<1>8. \A i \in 1..Len(ctl'.results) :
        StateOK(ctl.results[i].state)' /\ ctl'.results[i].value \in Values
  BY <1>2, <1>3, <1>4, <1>6, SameRequest
<1> QED
  BY <1>2, <1>3, <1>4, <1>7, <1>8 DEF ControlOK

\* CacheHit returns a value the memo table has.
LEMMA TypedHit ==
  ASSUME Typed, CacheHit
  PROVE  Typed'
<1>1. /\ ctl.at = "call" /\ calledSite \in DOMAIN ctl.state.cache
      /\ ctl' = Return(<<Evaluated(ctl.state, ctl.state.cache[calledSite])>>)
      /\ stack' = stack /\ request' = request
  BY DEF CacheHit
<1>2. StateOK(ctl.state)
  BY <1>1 DEF Typed, ControlOK
<1>3. ctl.state.cache[calledSite] \in Values
  BY <1>1, <1>2 DEF StateOK
<1>4. ControlOK'
  BY <1>1, <1>2, <1>3, OneResult
<1> QED
  BY <1>1, <1>4, TypedReturned

\* EvalParam returns an argument of the frame.
LEMMA TypedParam ==
  ASSUME Typed, EvalParam
  PROVE  Typed'
<1> DEFINE value == ctl.frame.args[NodeOf(ctl.frame, ctl.node).index]
<1>1. /\ ctl.at = "call" /\ NodeOf(ctl.frame, ctl.node).kind = "param"
      /\ ctl' = Return(<<Evaluated(Remember(ctl.state, calledSite, value), value)>>)
      /\ stack' = stack /\ request' = request
  BY DEF EvalParam
<1>2. /\ NodeOK(ctl.frame, ctl.node) /\ StateOK(ctl.state) /\ request \in Requests
      /\ ctl.frame.args \in Seq(Values)
  BY <1>1 DEF Typed, ControlOK, NodeOK, FrameOK
<1>3. NodeOf(ctl.frame, ctl.node).index \in 1..Len(ctl.frame.args)
  BY <1>1, <1>2, NodeFacts
<1>4. value \in Values
  BY <1>2, <1>3, SeqIsList
<1> HIDE DEF value
<1>5. StateOK(Remember(ctl.state, calledSite, value))
  BY <1>2, <1>4, ChangedStates
<1>6. ControlOK'
  BY <1>1, <1>4, <1>5, OneResult
<1> QED
  BY <1>1, <1>6, TypedReturned

\* Candidates returned.
LEMMA Results ==
  ASSUME request' = request, NEW results, IsList(results),
         \A i \in 1..Len(results) : StateOK(results[i].state) /\ results[i].value \in Values,
         ctl' = Return(results)
  PROVE  ControlOK' /\ ctl'.at = "return" /\ ctl'.results = results
<1>1. ctl'.at = "return" /\ ctl'.results = results
  BY DEF Return
<1>2. IsList(ctl.results)'
  BY <1>1 DEF IsList
<1>3. \A i \in 1..Len(ctl'.results) :
        StateOK(ctl.results[i].state)' /\ ctl'.results[i].value \in Values
  BY <1>1, SameRequest
<1> QED
  BY <1>1, <1>2, <1>3 DEF ControlOK

\* When the last stage has been driven, a node has the values its result needs.
LEMMA LastArity ==
  ASSUME Typed, stack # <<>>, top.stage = Stages(top)
  PROVE  /\ topNode.kind # "pure" => Arity(top, top.stage) \in Nat
         /\ ~top.arm /\ topNode.kind = "pure" => Arity(top, top.stage) = Len(topNode.refs)
         /\ (top.arm \/ topNode.kind \notin {"pure", "unsupported"}) =>
              Arity(top, top.stage) > 0 /\ Arity(top, top.stage) \in Nat
<1>1. /\ request \in Requests /\ NodeOK(top.frame, top.node) /\ RefsOK(top)
      /\ Len(top.refs) \in Nat /\ top.stage \in Nat /\ top.arm \in BOOLEAN
      /\ topNode = NodeOf(top.frame, top.node) /\ KindOf(top) = topNode.kind
  BY TopFacts
<1>2. /\ Stages(top) >= Len(top.refs)
      /\ top.arm => Stages(top) = Len(top.refs)
      /\ ~top.arm /\ KindOf(top) \in SelectionKinds =>
           Stages(top) = Len(top.refs) + 1 /\ Len(top.refs) = 1
      /\ ~top.arm /\ KindOf(top) = "invoke" => Stages(top) = Len(top.refs) + 1
      /\ ~top.arm /\ KindOf(top) \in {"pure", "unsupported"} => Stages(top) = Len(top.refs)
      /\ ~top.arm /\ KindOf(top) = "counted_for" => Len(top.refs) > 0
      /\ KindOf(top) \in NodeKinds
  BY <1>1, StagesOf
<1> DEFINE kind == topNode.kind
<1>3. CASE top.arm
  <2>1. CASE kind = "one_hot_sel"
    <3>1. Arity(top, top.stage) = 1
      BY <1>1, <1>3, <2>1 DEF Arity
    <3> QED
      BY <1>3, <2>1, <3>1
  <2>2. CASE kind # "one_hot_sel"
    <3>1. Arity(top, top.stage) = top.stage
      BY <1>1, <1>3, <2>2 DEF Arity
    <3>2. top.stage = 1
      BY <1>1, <1>2, <1>3, <2>2 DEF RefsOK
    <3> QED
      BY <1>3, <3>1, <3>2
  <2> QED
    BY <2>1, <2>2
<1>4. CASE ~top.arm /\ kind \in {"pure", "unsupported"}
  <2>1. top.stage = Len(top.refs) /\ top.refs = topNode.refs
    BY <1>1, <1>2, <1>4 DEF RefsOK
  <2>2. top.stage <= Len(top.refs) /\ ~(top.stage > Len(top.refs))
    BY <1>1, <2>1
  <2>3. Arity(top, top.stage) = top.stage
    BY <1>4, <2>2 DEF Arity
  <2> QED
    BY <1>1, <1>4, <2>1, <2>3
<1>5. CASE ~top.arm /\ kind = "counted_for"
  <2>1. CASE top.stage <= Len(top.refs)
    <3>1. top.stage = Len(top.refs) /\ ~(top.stage > Len(top.refs))
      BY <1>1, <1>2, <2>1
    <3>2. Arity(top, top.stage) = top.stage
      BY <1>5, <2>1, <3>1 DEF Arity
    <3> QED
      BY <1>1, <1>2, <1>5, <3>1, <3>2
  <2>2. CASE ~(top.stage <= Len(top.refs))
    <3>1. top.stage > Len(top.refs)
      BY <1>1, <2>2
    <3>2. Arity(top, top.stage) = Len(top.refs)
      BY <1>1, <1>5, <2>2, <3>1 DEF Arity
    <3> QED
      BY <1>1, <1>2, <1>5, <3>2
  <2> QED
    BY <2>1, <2>2
<1>6. CASE ~top.arm /\ kind \in SelectionKinds \cup {"invoke"}
  <2>1. top.stage = Len(top.refs) + 1 /\ kind # "counted_for"
    BY <1>1, <1>2, <1>6 DEF SelectionKinds
  <2>2. ~(top.stage <= Len(top.refs)) /\ top.stage > Len(top.refs)
    BY <1>1, <2>1
  <2>3. Arity(top, top.stage) = 1
    BY <1>1, <1>6, <2>1, <2>2 DEF Arity
  <2> QED
    BY <1>6, <2>3 DEF SelectionKinds
<1>7. ~top.arm => kind \in SelectionKinds \cup {"invoke", "counted_for", "pure", "unsupported"}
  BY <1>1, <1>2 DEF RefsOK, NodeKinds
<1> QED
  BY <1>1, <1>3, <1>4, <1>5, <1>6, <1>7

-----------------------------------------------------------------------------
\* FinishNode returns what the node means of its operands' values.
LEMMA TypedFinishNode ==
  ASSUME Typed, FinishNode, PureNodesAreTyped
  PROVE  Typed'
<1>1. /\ ctl.at = "run" /\ stack # <<>> /\ top.stage = Stages(top) /\ ~top.arm
      /\ request' = request
  BY DEF FinishNode, Drained, Typed, ControlOK
<1>2. CASE Unsupported(top)
  <2>1. FailsWith("unsupported")
    BY <1>2 DEF FinishNode, FailsWith
  <2> QED
    BY <1>1, <2>1, TypedFailed
<1>3. CASE ~Unsupported(top)
  <2> DEFINE Result(p) == IF topNode.kind = "pure" THEN Apply(topNode, p.values) ELSE p.values[1]
  <2>1. ctl' = Return(NodeResults(top)) /\ stack' = Tail(stack)
    BY <1>3 DEF FinishNode
  <2>2. NodeResults(top) = [i \in 1..Len(top.done) |->
          Evaluated(Remember(top.done[i].state, topSite, Result(top.done[i])),
                    Result(top.done[i]))]
    BY DEF NodeResults, topNode, topSite
  <2>3. /\ request \in Requests /\ NodeOK(top.frame, top.node)
        /\ topNode = NodeOf(top.frame, top.node) /\ KindOf(top) = topNode.kind
        /\ IsList(top.done)
        /\ \A i \in 1..Len(top.done) : PartialOK(top.done[i], Arity(top, top.stage))
    BY <1>1, TopFacts
  <2>4. topNode.kind = "unsupported" => Len(top.done) = 0
    BY <1>3, EmptyList DEF Unsupported, topNode
  <2>5. ASSUME NEW i \in 1..Len(top.done)
        PROVE  StateOK(top.done[i].state) /\ Result(top.done[i]) \in Values
    <3>1. /\ StateOK(top.done[i].state) /\ top.done[i].values \in Seq(Values)
          /\ Len(top.done[i].values) = Arity(top, top.stage)
      BY <2>3 DEF PartialOK
    <3>2. CASE topNode.kind = "pure"
      <4>1. Len(top.done[i].values) = Len(topNode.refs)
        BY <1>1, <3>1, <3>2, LastArity
      <4>2. Apply(topNode, top.done[i].values) \in Values
        BY <2>3, <3>1, <3>2, <4>1, NodeFacts
      <4> QED
        BY <3>1, <3>2, <4>2
    <3>3. CASE topNode.kind # "pure"
      <4>1. topNode.kind # "unsupported"
        BY <2>4
      <4>2. Arity(top, top.stage) > 0 /\ Arity(top, top.stage) \in Nat
        BY <1>1, <3>3, <4>1, LastArity
      <4>3. 1 \in 1..Len(top.done[i].values)
        BY <3>1, <4>2
      <4>4. top.done[i].values[1] \in Values
        BY <3>1, <4>3, SeqIsList
      <4> QED
        BY <3>1, <3>3, <4>4
    <3> QED
      BY <3>2, <3>3
  <2> HIDE DEF Result
  <2>6. IsList(NodeResults(top)) /\ Len(NodeResults(top)) = Len(top.done)
    <3>1. Len(top.done) \in Nat
      BY <2>3, ListElements
    <3> QED
      BY <2>2, <3>1, MakeList
  <2>7. ASSUME NEW i \in 1..Len(NodeResults(top))
        PROVE  /\ StateOK(NodeResults(top)[i].state)
               /\ NodeResults(top)[i].value \in Values
    <3>1. NodeResults(top)[i] =
            Evaluated(Remember(top.done[i].state, topSite, Result(top.done[i])),
                      Result(top.done[i]))
      BY <2>2, <2>6
    <3>2. StateOK(Remember(top.done[i].state, topSite, Result(top.done[i])))
      BY <2>5, <2>6, ChangedStates
    <3> QED
      BY <2>5, <2>6, <3>1, <3>2 DEF Evaluated
  <2>8. ControlOK'
    BY <1>1, <2>1, <2>6, <2>7, Results
  <2> QED
    BY <1>1, <2>1, <2>8, TypedPopped
<1> QED
  BY <1>2, <1>3

\* FinishArm hands the values of an arm back to its selection.
LEMMA TypedFinishArm ==
  ASSUME Typed, FinishArm
  PROVE  Typed'
<1>1. /\ ctl.at = "run" /\ stack # <<>> /\ top.stage = Stages(top) /\ top.arm
      /\ request' = request /\ ctl' = Return(ArmResults(top)) /\ stack' = Tail(stack)
  BY DEF FinishArm, Drained, Typed, ControlOK
<1>2. /\ IsList(top.done)
      /\ \A i \in 1..Len(top.done) : PartialOK(top.done[i], Arity(top, top.stage))
  BY <1>1, TopFacts
<1>3. ArmResults(top) =
        [i \in 1..Len(top.done) |-> Evaluated(top.done[i].state, top.done[i].values[1])]
  BY DEF ArmResults
<1>4. IsList(ArmResults(top)) /\ Len(ArmResults(top)) = Len(top.done)
  <2>1. Len(top.done) \in Nat
    BY <1>2, ListElements
  <2> QED
    BY <1>3, <2>1, MakeList
<1>5. ASSUME NEW i \in 1..Len(ArmResults(top))
      PROVE  StateOK(ArmResults(top)[i].state) /\ ArmResults(top)[i].value \in Values
  <2>1. /\ StateOK(top.done[i].state) /\ top.done[i].values \in Seq(Values)
        /\ Len(top.done[i].values) = Arity(top, top.stage)
    BY <1>2, <1>4 DEF PartialOK
  <2>2. Arity(top, top.stage) > 0 /\ Arity(top, top.stage) \in Nat
    BY <1>1, LastArity
  <2>3. 1 \in 1..Len(top.done[i].values)
    BY <2>1, <2>2
  <2>4. top.done[i].values[1] \in Values
    BY <2>1, <2>3, SeqIsList
  <2>5. ArmResults(top)[i] = Evaluated(top.done[i].state, top.done[i].values[1])
    BY <1>3, <1>4
  <2> QED
    BY <2>1, <2>4, <2>5 DEF Evaluated
<1>6. ControlOK'
  BY <1>1, <1>4, <1>5, Results
<1> QED
  BY <1>1, <1>6, TypedPopped

\* A selection that takes its arms has a selector, and its next partial is just that.
LEMMA SelectingFacts ==
  ASSUME Typed, Selecting
  PROVE  /\ ctl.at = "run" /\ stack # <<>> /\ top.todo # <<>> /\ top.arms = <<>>
         /\ ~top.arm /\ Resolving(top) /\ top.stage > Len(top.refs)
         /\ NodeOK(top.frame, top.node) /\ topNode = NodeOf(top.frame, top.node)
         /\ topNode.kind \in SelectionKinds
         /\ SelectionOK(topNode, 1..(top.node - 1))
         /\ StateOK(Head(top.todo).state)
         /\ selector \in Values
<1>1. /\ ctl.at = "run" /\ top.todo # <<>> /\ top.arms = <<>> /\ ~top.arm
      /\ topNode.kind \in SelectionKinds /\ top.stage > Len(top.refs)
  BY DEF Selecting, Working
<1>2. stack # <<>>
  BY <1>1 DEF Typed, ControlOK
<1>3. /\ request \in Requests /\ NodeOK(top.frame, top.node) /\ RefsOK(top)
      /\ Len(top.refs) \in Nat /\ top.stage \in 0..Stages(top)
      /\ topNode = NodeOf(top.frame, top.node) /\ KindOf(top) = topNode.kind
      /\ top.arm \in BOOLEAN
  BY <1>2, TopFacts
<1>4. Stages(top) = Len(top.refs) + 1 /\ Len(top.refs) = 1
  BY <1>1, <1>3, StagesOf
<1>5. top.stage - 1 = 1 /\ top.stage - 1 <= Len(top.refs) /\ ~(top.stage - 1 > Len(top.refs))
  BY <1>1, <1>3, <1>4
<1>6. Arity(top, top.stage - 1) = 1
  BY <1>1, <1>5 DEF Arity
<1>7. /\ StateOK(Head(top.todo).state) /\ Head(top.todo).values \in Seq(Values)
      /\ Len(Head(top.todo).values) = 1
  BY <1>1, <1>2, <1>6, NextPartial DEF PartialOK
<1>8. selector \in Values
  BY <1>7, SeqIsList DEF selector
<1>9. SelectionOK(topNode, 1..(top.node - 1))
  BY <1>1, <1>3, NodeFacts
<1>10. Resolving(top)
  BY <1>1, <1>3 DEF Resolving
<1> QED
  BY <1>1, <1>2, <1>3, <1>7, <1>8, <1>9, <1>10

\* ResolveConcrete drives the arm a constant selector picks.
LEMMA TypedResolve ==
  ASSUME Typed, ResolveConcrete
  PROVE  Typed'
<1> DEFINE under == Moved(top, top.stage, Tail(top.todo), top.current, top.done, top.arms)
<1>1. stack # <<>> /\ Selecting
  BY SelectingFacts DEF ResolveConcrete
<1>2. /\ request' = request
      /\ \/ FailsWith("duplicate")
         \/ stack' = <<ResolvedArm>> \o (<<under>> \o Tail(stack)) /\ ctl' = ctl
  BY <1>1, TopIsActivation, ResolveMoves
<1>3. CASE FailsWith("duplicate")
  BY <1>2, <1>3, TypedFailed
<1>4. CASE stack' = <<ResolvedArm>> \o (<<under>> \o Tail(stack)) /\ ctl' = ctl
  <2>1. /\ Resolving(top) /\ ctl.at = "run" /\ top.todo # <<>>
        /\ NodeOK(top.frame, top.node) /\ topNode = NodeOf(top.frame, top.node)
        /\ topNode.kind \in SelectionKinds
        /\ SelectionOK(topNode, 1..(top.node - 1))
        /\ StateOK(Head(top.todo).state) /\ selector \in Values
    BY <1>1, SelectingFacts
  <2>2. ActivationOK(under) /\ Resolving(under)
    BY <1>1, <2>1, TopFacts, NextPartial, TopMoves
  <2>3. DemandOK(topNode, 1..(top.node - 1), ConcreteArm(topNode, selector).demand)
    BY <2>1, ConcreteDemand
  <2>4. StateOK(Record(Head(top.todo).state, topSite, ConcreteArm(topNode, selector).outcome))
    BY <2>1, ChangedStates
  <2>5. ActivationOK(ResolvedArm)
    BY <2>1, <2>3, <2>4, ArmIsOK DEF ResolvedArm, Typed
  <2> HIDE DEF under
  <2> QED
    BY <1>1, <1>2, <1>4, <2>1, <2>2, <2>5, TypedReplacedAndPushed
<1> QED
  BY <1>2, <1>3, <1>4

\* ForkSymbolic puts the arms a symbolic selector can pick on the list.
LEMMA TypedFork ==
  ASSUME Typed, WithinBudget, ForkSymbolic
  PROVE  Typed'
<1> DEFINE new == Moved(top, top.stage, Tail(top.todo), top.current, top.done, Forked)
<1>1. stack # <<>> /\ Selecting
  BY SelectingFacts DEF ForkSymbolic
<1>2. stack' = <<new>> \o Tail(stack) /\ request' = request /\ ctl' = ctl
  BY <1>1, TopIsActivation, ForkMoves
<1>3. /\ Resolving(top) /\ ctl.at = "run" /\ top.todo # <<>>
      /\ SelectionOK(topNode, 1..(top.node - 1))
      /\ StateOK(Head(top.todo).state) /\ selector \in Values
  BY <1>1, SelectingFacts
<1>4. ArmsFit(topNode, 1..(top.node - 1), SymbolicArms) /\ ArmsAreApart(SymbolicArms)
  BY <1>3, SymbolicArmsFit
<1>5. IsList(Forked) /\ Len(Forked) = Len(SymbolicArms)
  BY <1>4, MakeList DEF Forked, ArmsFit
<1>6. ASSUME NEW i \in 1..Len(Forked)
      PROVE  PendingOK(Forked[i], top.node, KindOf(top))
  <2>1. Forked[i] = [state |-> Head(top.todo).state, arm |-> SymbolicArms[i]]
    BY <1>5 DEF Forked
  <2> DEFINE arm == SymbolicArms[i]
  <2>2. /\ arm.never \in BOOLEAN /\ DemandOK(topNode, 1..(top.node - 1), arm.demand)
        /\ arm.when \subseteq Inputs /\ (arm.never => arm.when = {})
    BY <1>4, <1>5 DEF ArmsFit, ArmsAreApart
  <2>3. Forked[i].state = Head(top.todo).state /\ Forked[i].arm = arm
    BY <2>1
  <2> HIDE DEF arm
  <2>4. KindOf(top) = topNode.kind
    BY <1>1, TopFacts
  <2>5. /\ arm.demand \in Seq(1..(top.node - 1))
        /\ (KindOf(top) # "one_hot_sel" => Len(arm.demand) = 1)
    BY <2>2, <2>4 DEF DemandOK
  <2> QED
    BY <1>3, <2>2, <2>3, <2>5 DEF PendingOK
<1>7. ActivationOK(new)
  BY <1>1, <1>3, <1>5, <1>6, TopFacts, NextPartial, TopMoves
<1> HIDE DEF new
<1>8. ControlOK'
  <2>1. stack' # <<>>
    BY <1>1, <1>2, OneMoreBefore, TailOfList DEF Typed
  <2> QED
    BY <1>2, <1>3, <2>1 DEF ControlOK
<1> QED
  BY <1>1, <1>2, <1>3, <1>7, <1>8, TypedReplaced

\* The next arm to branch into.
LEMMA BranchFacts ==
  ASSUME Typed, Branching
  PROVE  /\ ctl.at = "run" /\ stack # <<>> /\ top.arms # <<>>
         /\ Resolving(top) /\ ~top.arm /\ topNode.kind \in SelectionKinds
         /\ NodeOK(top.frame, top.node) /\ topNode = NodeOf(top.frame, top.node)
         /\ PendingOK(branch, top.node, KindOf(top))
         /\ DemandOK(topNode, 1..(top.node - 1), branch.arm.demand)
         /\ IsList(Tail(top.arms))
         /\ \A i \in 1..Len(Tail(top.arms)) : PendingOK(Tail(top.arms)[i], top.node, KindOf(top))
<1>1. ctl.at = "run" /\ top.arms # <<>>
  BY DEF Branching
<1>2. stack # <<>>
  BY <1>1 DEF Typed, ControlOK
<1>3. /\ IsList(top.arms) /\ Resolving(top)
      /\ NodeOK(top.frame, top.node) /\ topNode = NodeOf(top.frame, top.node)
      /\ KindOf(top) = topNode.kind
      /\ \A i \in 1..Len(top.arms) : PendingOK(top.arms[i], top.node, KindOf(top))
  BY <1>1, <1>2, TopFacts
<1>4. Len(top.arms) - 1 \in Nat /\ 1 \in 1..Len(top.arms) /\ Head(top.arms) = top.arms[1]
  BY <1>1, <1>3, HeadOfList
<1>5. /\ IsList(Tail(top.arms)) /\ Len(Tail(top.arms)) = Len(top.arms) - 1
      /\ \A i \in 1..(Len(top.arms) - 1) : Tail(top.arms)[i] = top.arms[i + 1]
  BY <1>1, <1>3, TailOfList
<1>6. \A i \in 1..(Len(top.arms) - 1) : i + 1 \in 1..Len(top.arms)
  BY <1>4
<1>7. PendingOK(branch, top.node, KindOf(top))
  BY <1>3, <1>4 DEF branch
<1>8. DemandOK(topNode, 1..(top.node - 1), branch.arm.demand)
  BY <1>3, <1>7 DEF PendingOK, DemandOK
<1>9. ~top.arm /\ topNode.kind \in SelectionKinds
  BY <1>3 DEF Resolving
<1>10. \A i \in 1..Len(Tail(top.arms)) : PendingOK(Tail(top.arms)[i], top.node, KindOf(top))
  BY <1>3, <1>5, <1>6
<1> QED
  BY <1>1, <1>2, <1>3, <1>5, <1>7, <1>8, <1>9, <1>10

\* What is left once an arm has been dropped or branched into.
LEMMA AfterBranch ==
  ASSUME Typed, Branching,
         NEW new, new = Moved(top, top.stage, top.todo, top.current, top.done, Tail(top.arms))
  PROVE  afterBranch = <<new>> \o Tail(stack) /\ ActivationOK(new) /\ Resolving(new)
<1>1. /\ stack # <<>> /\ Resolving(top) /\ IsList(Tail(top.arms))
      /\ \A i \in 1..Len(Tail(top.arms)) : PendingOK(Tail(top.arms)[i], top.node, KindOf(top))
  BY BranchFacts
<1>2. afterBranch = <<new>> \o Tail(stack)
  BY <1>1, TopIsActivation, BranchMoves
<1>3. ActivationOK(new) /\ Resolving(new)
  BY <1>1, TopFacts, TopMoves
<1> QED
  BY <1>2, <1>3

\* BranchAtLimit and BranchImpossible drop an arm.
LEMMA TypedDrop ==
  ASSUME Typed, BranchAtLimit \/ BranchImpossible
  PROVE  Typed'
<1> DEFINE new == Moved(top, top.stage, top.todo, top.current, top.done, Tail(top.arms))
<1>1. Branching /\ stack' = afterBranch /\ request' = request /\ ctl' = ctl
  BY DEF BranchAtLimit, BranchImpossible
<1>2. stack # <<>> /\ ctl.at = "run"
  BY <1>1, BranchFacts
<1>3. stack' = <<new>> \o Tail(stack) /\ ActivationOK(new)
  BY <1>1, AfterBranch
<1> HIDE DEF new
<1>4. ControlOK'
  <2>1. stack' # <<>>
    BY <1>2, <1>3, OneMoreBefore, TailOfList DEF Typed
  <2> QED
    BY <1>1, <1>2, <2>1 DEF ControlOK
<1> QED
  BY <1>1, <1>2, <1>3, <1>4, TypedReplaced

BranchedState == Record(Guarded(branch.state, branch.arm), topSite, branch.arm.outcome)
BranchedArm == ArmActivation(top.frame, top.node, branch.arm.demand, BranchedState)

\* BranchTaken drives an arm under its condition.
LEMMA TypedBranch ==
  ASSUME Typed, BranchTaken
  PROVE  Typed'
<1> DEFINE under == Moved(top, top.stage, top.todo, top.current, top.done, Tail(top.arms))
<1>1. /\ Branching /\ request' = request /\ ctl' = ctl
      /\ stack' = <<BranchedArm>> \o afterBranch
  BY DEF BranchTaken, BranchedArm, BranchedState
<1>2. /\ stack # <<>> /\ ctl.at = "run"
      /\ NodeOK(top.frame, top.node) /\ topNode = NodeOf(top.frame, top.node)
      /\ topNode.kind \in SelectionKinds
      /\ PendingOK(branch, top.node, KindOf(top))
      /\ DemandOK(topNode, 1..(top.node - 1), branch.arm.demand)
  BY <1>1, BranchFacts
<1>3. afterBranch = <<under>> \o Tail(stack) /\ ActivationOK(under) /\ Resolving(under)
  BY <1>1, AfterBranch
<1>4. StateOK(Guarded(branch.state, branch.arm))
  BY <1>2, ChangedStates DEF PendingOK
<1>5. StateOK(BranchedState)
  BY <1>4, ChangedStates DEF BranchedState
<1>6. ActivationOK(BranchedArm)
  BY <1>2, <1>5, ArmIsOK DEF BranchedArm, Typed
<1> HIDE DEF under
<1>7. stack' = <<BranchedArm>> \o (<<under>> \o Tail(stack))
  BY <1>1, <1>3
<1> QED
  BY <1>1, <1>2, <1>3, <1>6, <1>7, TypedReplacedAndPushed

\* A step that changes nothing.
LEMMA TypedUnchanged ==
  ASSUME Typed, UNCHANGED vars
  PROVE  Typed'
<1>1. /\ request' = request /\ ctl' = ctl /\ stack' = stack
  BY DEF vars
<1>2. IsList(stack)' /\ Depth' = Depth /\ Depth \in Nat
  BY <1>1, ListElements DEF Depth, IsList, Typed
<1>3. KeepsActivations(Depth)
  BY <1>1 DEF KeepsActivations, ActivationAt
<1>4. /\ \A d \in 1..Depth : ActivationOK(ActivationAt(d))'
      /\ \A d \in 1..Depth : d < Depth \/ ctl.at \in {"call", "return"} => Awaits(ActivationAt(d))'
  BY <1>1, <1>2, <1>3, KeptAreTyped
<1>5. (request \in Requests)'
  BY <1>1 DEF Typed
<1>6. ControlOK'
  BY <1>1, SameRequest DEF ControlOK, Typed, IsList
<1> QED
  BY <1>1, <1>2, <1>4, <1>5, <1>6, TypedNext

\* Every step leaves the state of the evaluator well typed.
LEMMA TypedStep ==
  ASSUME Typed, WithinBudget, PureNodesAreTyped, [Next]_vars
  PROVE  Typed'
<1>1. CASE CacheHit \/ EvalParam \/ EnterNode
  BY <1>1, TypedHit, TypedParam, TypedEnter
<1>2. CASE DemandOperand \/ EnterCallee \/ EnterIteration \/ Deliver
  BY <1>2, TypedDemand, TypedCall, TypedIteration, TypedDeliver
<1>3. CASE NextStage \/ FinishNode \/ FinishArm
  BY <1>3, TypedNextStage, TypedFinishNode, TypedFinishArm
<1>4. CASE ResolveConcrete \/ ForkSymbolic
  BY <1>4, TypedResolve, TypedFork
<1>5. CASE BranchAtLimit \/ BranchImpossible \/ BranchTaken
  BY <1>5, TypedDrop, TypedBranch
<1>6. CASE Terminated \/ UNCHANGED vars
  BY <1>6, TypedUnchanged DEF Terminated
<1> QED
  BY <1>1, <1>2, <1>3, <1>4, <1>5, <1>6 DEF Next

\* A request starts with one call, for its result.
LEMMA TypedInit ==
  ASSUME Init
  PROVE  Typed
<1> DEFINE frame == [fn |-> request.top, args |-> request.args, inv |-> <<>>]
           state == [guard |-> request.domain, never |-> request.never,
                     trace |-> <<>>, cache |-> <<>>]
<1>1. /\ request \in Requests /\ stack = <<>>
      /\ ctl = Call(frame, request.fns[request.top].ret, state)
  BY DEF Init
<1>2. WellFormed(request)
  BY <1>1, RequestsAssumption
<1>3. IsList(<<>>) /\ Len(<<>>) = 0
  BY EmptyList
<1>4. FrameOK(frame)
  BY <1>2, <1>3 DEF FrameOK, WellFormed
<1>5. NodeOK(frame, request.fns[request.top].ret)
  BY <1>2, <1>4 DEF NodeOK, WellFormed
<1>6. StateOK(state)
  <2>1. DOMAIN <<>> = {}
    BY <1>3, ListElements
  <2> QED
    BY <1>2, <2>1 DEF StateOK, WellFormed
<1> HIDE DEF frame, state
<1>7. ControlOK
  BY <1>1, <1>5, <1>6 DEF ControlOK, Call
<1>8. \A d : d \notin 1..0
  OBVIOUS
<1> QED
  BY <1>1, <1>3, <1>7, <1>8 DEF Typed

-----------------------------------------------------------------------------
(***************************************************************************)
(* Calls descend.                                                          *)
(***************************************************************************)
IsSite(s) == s[2] \in Nat /\ IsList(s[3])

\* Being below is a strict order on sites.
LEMMA BelowIsAnOrder ==
  /\ \A s : IsSite(s) => ~Below(s, s)
  /\ \A s, t, u : IsSite(s) /\ IsSite(t) /\ IsSite(u) /\ Below(s, t) /\ Below(t, u) => Below(s, u)
<1>1. ASSUME NEW s, IsSite(s) PROVE ~Below(s, s)
  <2>1. s[2] \in Nat /\ Len(s[3]) \in Nat
    BY <1>1, ListElements DEF IsSite
  <2>2. ~(s[2] < s[2]) /\ ~(Len(s[3]) > Len(s[3]))
    BY <2>1
  <2> QED
    BY <2>2 DEF Below
<1>2. ASSUME NEW s, NEW t, NEW u, IsSite(s), IsSite(t), IsSite(u), Below(s, t), Below(t, u)
      PROVE  Below(s, u)
  <2>1. /\ s[2] \in Nat /\ Len(s[3]) \in Nat /\ t[2] \in Nat /\ Len(t[3]) \in Nat
        /\ u[2] \in Nat /\ Len(u[3]) \in Nat
    BY <1>2, ListElements DEF IsSite
  <2> DEFINE Sibling(a, b) == a[1] = b[1] /\ a[3] = b[3] /\ a[2] < b[2]
             Inside(a, b) == /\ Len(a[3]) > Len(b[3])
                             /\ \A i \in 1..Len(b[3]) : a[3][i] = b[3][i]
                             /\ a[3][Len(b[3]) + 1][2] = b[1]
                             /\ a[3][Len(b[3]) + 1][3] \in 1..b[2]
  <2>2. \A a, b : Below(a, b) <=> Sibling(a, b) \/ Inside(a, b)
    BY DEF Below
  <2>3. CASE Sibling(s, t) /\ Sibling(t, u)
    <3>1. Sibling(s, u)
      BY <2>1, <2>3
    <3> QED
      BY <2>2, <3>1
  <2>4. CASE Sibling(s, t) /\ Inside(t, u)
    <3>1. Inside(s, u)
      BY <2>4
    <3> QED
      BY <2>2, <3>1
  <2>5. CASE Inside(s, t) /\ Sibling(t, u)
    <3>1. \A x \in 1..t[2] : x \in 1..u[2]
      BY <2>1, <2>5
    <3>2. Inside(s, u)
      BY <2>5, <3>1
    <3> QED
      BY <2>2, <3>2
  <2>6. CASE Inside(s, t) /\ Inside(t, u)
    <3>0. /\ Len(s[3]) > Len(t[3]) /\ Len(t[3]) > Len(u[3])
          /\ Len(s[3]) \in Nat /\ Len(t[3]) \in Nat /\ Len(u[3]) \in Nat
      BY <2>1, <2>6
    <3>1. /\ Len(s[3]) > Len(u[3]) /\ Len(u[3]) + 1 \in 1..Len(t[3])
          /\ \A i \in 1..Len(u[3]) : i \in 1..Len(t[3])
      BY <3>0
    <3>2. \A i \in 1..Len(t[3]) : s[3][i] = t[3][i]
      BY <2>6
    <3>3. s[3][Len(u[3]) + 1] = t[3][Len(u[3]) + 1]
      BY <3>1, <3>2
    <3>4. Inside(s, u)
      BY <2>6, <3>1, <3>2, <3>3
    <3> QED
      BY <2>2, <3>4
  <2> QED
    BY <1>2, <2>2, <2>3, <2>4, <2>5, <2>6
<1> QED
  BY <1>1, <1>2

\* A node's operands and its callees are below it.
LEMMA DemandedAreBelow ==
  ASSUME NEW frame, NEW node, NodeOK(frame, node)
  PROVE  /\ IsSite(Site(frame, node)) /\ node \in Nat /\ node > 0
         /\ \A ref \in 1..(node - 1) : Below(Site(frame, ref), Site(frame, node))
         /\ \A called, ref, key :
              called.inv = Append(frame.inv, key) /\ key[2] = frame.fn /\ key[3] = node =>
                Below(Site(called, ref), Site(frame, node))
<1>1. node \in Nat /\ node > 0 /\ IsList(frame.inv) /\ Len(frame.inv) \in Nat
  BY ListElements DEF NodeOK, FrameOK
<1>2. \A f, n : Site(f, n)[1] = f.fn /\ Site(f, n)[2] = n /\ Site(f, n)[3] = f.inv
  BY DEF Site
<1>3. IsSite(Site(frame, node))
  BY <1>1, <1>2 DEF IsSite
<1>4. \A ref \in 1..(node - 1) : Below(Site(frame, ref), Site(frame, node))
  <2>1. \A ref \in 1..(node - 1) : ref < node
    BY <1>1
  <2> QED
    BY <1>2, <2>1 DEF Below
<1>5. ASSUME NEW called, NEW ref, NEW key,
             called.inv = Append(frame.inv, key), key[2] = frame.fn, key[3] = node
      PROVE  Below(Site(called, ref), Site(frame, node))
  <2> DEFINE s == Site(called, ref)
             t == Site(frame, node)
  <2>1. s[3] = Append(frame.inv, key) /\ t[1] = frame.fn /\ t[2] = node /\ t[3] = frame.inv
    BY <1>2, <1>5
  <2> HIDE DEF s, t
  <2>2. /\ Len(s[3]) = Len(t[3]) + 1
        /\ \A i \in 1..Len(t[3]) : s[3][i] = t[3][i]
        /\ s[3][Len(t[3]) + 1] = key
    BY <1>1, <2>1, OneMoreFrame
  <2>3. Len(s[3]) > Len(t[3]) /\ node \in 1..node
    BY <1>1, <2>1, <2>2
  <2>4. Below(s, t)
    BY <1>5, <2>1, <2>2, <2>3 DEF Below
  <2> QED
    BY <2>4 DEF s, t
<1> QED
  BY <1>1, <1>3, <1>4, <1>5

\* The sites of the activations are sites.
LEMMA SitesAreSites ==
  ASSUME Typed
  PROVE  \A d \in 1..Depth : IsSite(SiteAt(d))
BY DemandedAreBelow DEF Typed, ActivationOK, SiteAt, SiteOf, Depth

\* The sites of the activations a step keeps.
LEMMA KeptSites ==
  ASSUME request' = request, NEW n \in Nat, KeepsActivations(n)
  PROVE  \A d \in 1..n :
           /\ SiteAt(d)' = SiteAt(d) /\ ActivationAt(d)'.arm = ActivationAt(d).arm
           /\ Resolving(ActivationAt(d))' <=> Resolving(ActivationAt(d))
<1> SUFFICES ASSUME NEW d \in 1..n
             PROVE  /\ SiteAt(d)' = SiteAt(d) /\ ActivationAt(d)'.arm = ActivationAt(d).arm
                    /\ Resolving(ActivationAt(d))' <=> Resolving(ActivationAt(d))
  OBVIOUS
<1>1. ActivationAt(d)' = ActivationAt(d)
  BY DEF KeepsActivations
<1>2. SiteAt(d)' = SiteAt(d)
  BY <1>1 DEF SiteAt, SiteOf, Site
<1> QED
  BY <1>1, <1>2, SameActivation

\* Descending, for the state after a step.
LEMMA DescendingNext ==
  ASSUME \A c, d \in 1..Depth' : c < d => Below(SiteAt(d)', SiteAt(c)') \/ DrivesArmOf(d, c)',
         ctl'.at = "call" => \A d \in 1..Depth' : Below(calledSite', SiteAt(d)'),
         \A d \in 1..Depth' : ActivationAt(d)'.arm =>
           d > 1 /\ SiteAt(d)' = SiteAt(d - 1)' /\ Resolving(ActivationAt(d - 1))'
  PROVE  Descending'
BY DEF Descending, Depth, Below

\* The innermost activation moves on, and perhaps calls.
LEMMA DescendingReplaced ==
  ASSUME Typed, Descending, request' = request, stack # <<>>,
         NEW act, stack' = <<act>> \o Tail(stack),
         SiteOf(act) = topSite, act.arm = top.arm,
         ctl'.at = "call" => Below(calledSite', topSite) /\ IsSite(calledSite')
  PROVE  Descending'
<1>1. /\ IsList(stack)' /\ Depth' = Depth /\ KeepsActivations(Depth - 1)
      /\ ActivationAt(Depth)' = act
  BY Replaced DEF Typed
<1>2. /\ Depth - 1 \in Nat /\ Depth \in Nat /\ Depth \in 1..Depth
      /\ top = ActivationAt(Depth) /\ topSite = SiteAt(Depth)
  BY TopActivation DEF Typed
<1>3. /\ \A d \in 1..(Depth - 1) : /\ SiteAt(d)' = SiteAt(d)
                                   /\ ActivationAt(d)'.arm = ActivationAt(d).arm
      /\ \A d \in 1..(Depth - 1) : Resolving(ActivationAt(d))' <=> Resolving(ActivationAt(d))
  BY <1>1, <1>2, KeptSites
<1>4. SiteAt(Depth)' = SiteAt(Depth) /\ ActivationAt(Depth)'.arm = ActivationAt(Depth).arm
  <2>1. SiteAt(Depth)' = SiteOf(act)
    BY <1>1 DEF SiteAt, SiteOf, Site
  <2> QED
    BY <1>1, <1>2, <2>1
<1>5. \A d \in 1..Depth : d \in 1..(Depth - 1) \/ d = Depth
  BY <1>2
<1>6. \A d \in 1..Depth : SiteAt(d)' = SiteAt(d) /\ ActivationAt(d)'.arm = ActivationAt(d).arm
  BY <1>1, <1>3, <1>4, <1>5
<1>7. \A c, d \in 1..Depth : c < d => Below(SiteAt(d), SiteAt(c)) \/ DrivesArmOf(d, c)
  BY DEF Descending, Depth
<1>8. \A c, d \in 1..Depth : DrivesArmOf(d, c)' <=> DrivesArmOf(d, c)
  BY <1>6 DEF DrivesArmOf
<1>9. \A c, d \in 1..Depth' : c < d => Below(SiteAt(d)', SiteAt(c)') \/ DrivesArmOf(d, c)'
  BY <1>1, <1>6, <1>7, <1>8
<1>10. ASSUME ctl'.at = "call", NEW d \in 1..Depth' PROVE Below(calledSite', SiteAt(d)')
  <2>1. Below(calledSite', topSite) /\ IsSite(calledSite') /\ IsSite(topSite) /\ IsSite(SiteAt(d))
    BY <1>1, <1>2, <1>10, SitesAreSites
  <2>2. CASE d = Depth
    BY <1>1, <1>2, <1>4, <2>1, <2>2
  <2>3. CASE d # Depth
    <3>1. d < Depth /\ d \in 1..Depth
      BY <1>1, <1>2, <2>3
    <3>2. Below(topSite, SiteAt(d)) \/ SiteAt(d) = topSite
      BY <1>2, <1>7, <3>1 DEF DrivesArmOf
    <3>3. Below(calledSite', SiteAt(d))
      BY <2>1, <3>2, BelowIsAnOrder
    <3> QED
      BY <1>6, <3>1, <3>3
  <2> QED
    BY <2>2, <2>3
<1>11. ASSUME NEW d \in 1..Depth', ActivationAt(d)'.arm
       PROVE  d > 1 /\ SiteAt(d)' = SiteAt(d - 1)' /\ Resolving(ActivationAt(d - 1))'
  <2>1. ActivationAt(d).arm /\ d \in 1..Depth
    BY <1>1, <1>6, <1>11
  <2>2. d > 1 /\ SiteAt(d) = SiteAt(d - 1) /\ Resolving(ActivationAt(d - 1))
    BY <2>1 DEF Descending, Depth
  <2>3. d - 1 \in 1..(Depth - 1) /\ d - 1 \in 1..Depth
    BY <1>2, <2>1, <2>2
  <2> QED
    BY <1>3, <1>6, <2>1, <2>2, <2>3
<1> QED
  BY <1>9, <1>10, <1>11, DescendingNext

\* A node is entered.
LEMMA DescendingPushed ==
  ASSUME Typed, Descending, request' = request, ctl.at = "call", ctl'.at = "run",
         NEW act, stack' = <<act>> \o stack, SiteOf(act) = calledSite, ~act.arm
  PROVE  Descending'
<1>1. /\ IsList(stack)' /\ Depth' = Depth + 1 /\ KeepsActivations(Depth)
      /\ ActivationAt(Depth)' = act
  BY Pushed DEF Typed
<1>2. Depth \in Nat
  BY ListElements DEF Typed, Depth
<1>3. /\ \A d \in 1..Depth : /\ SiteAt(d)' = SiteAt(d)
                             /\ ActivationAt(d)'.arm = ActivationAt(d).arm
      /\ \A d \in 1..Depth : Resolving(ActivationAt(d))' <=> Resolving(ActivationAt(d))
  BY <1>1, <1>2, KeptSites
<1>4. SiteAt(Depth)' = calledSite
  BY <1>1 DEF SiteAt, SiteOf, Site
<1>5. \A d \in 1..Depth' : d \in 1..Depth \/ d = Depth'
  BY <1>1, <1>2
<1>6. /\ \A c, d \in 1..Depth : c < d => Below(SiteAt(d), SiteAt(c)) \/ DrivesArmOf(d, c)
      /\ \A d \in 1..Depth : Below(calledSite, SiteAt(d))
  BY DEF Descending, Depth
<1>7. \A c, d \in 1..Depth : DrivesArmOf(d, c)' <=> DrivesArmOf(d, c)
  BY <1>3 DEF DrivesArmOf
<1>8. ASSUME NEW c \in 1..Depth', NEW d \in 1..Depth', c < d
      PROVE  Below(SiteAt(d)', SiteAt(c)') \/ DrivesArmOf(d, c)'
  <2>1. c \in 1..Depth
    BY <1>1, <1>2, <1>8
  <2>2. CASE d = Depth'
    BY <1>3, <1>4, <1>6, <2>1, <2>2
  <2>3. CASE d \in 1..Depth
    BY <1>3, <1>6, <1>7, <1>8, <2>1, <2>3
  <2> QED
    BY <1>5, <2>2, <2>3
<1>9. ASSUME NEW d \in 1..Depth', ActivationAt(d)'.arm
      PROVE  d > 1 /\ SiteAt(d)' = SiteAt(d - 1)' /\ Resolving(ActivationAt(d - 1))'
  <2>1. d \in 1..Depth /\ ActivationAt(d).arm
    BY <1>1, <1>3, <1>5, <1>9
  <2>2. d > 1 /\ SiteAt(d) = SiteAt(d - 1) /\ Resolving(ActivationAt(d - 1))
    BY <2>1 DEF Descending, Depth
  <2>3. d - 1 \in 1..Depth
    BY <1>2, <2>1, <2>2
  <2> QED
    BY <1>3, <2>1, <2>2, <2>3
<1> QED
  BY <1>8, <1>9, DescendingNext

\* An arm is entered.
LEMMA DescendingIntoArm ==
  ASSUME Typed, Descending, request' = request, stack # <<>>, ctl'.at = "run",
         NEW under, NEW act, stack' = <<act>> \o (<<under>> \o Tail(stack)),
         ~top.arm, ~under.arm, SiteOf(under) = topSite, Resolving(under),
         SiteOf(act) = topSite, act.arm
  PROVE  Descending'
<1>1. /\ IsList(stack)' /\ Depth' = Depth + 1 /\ KeepsActivations(Depth - 1)
      /\ ActivationAt(Depth - 1)' = under /\ ActivationAt(Depth)' = act
  BY ReplacedAndPushed DEF Typed
<1>2. /\ Depth - 1 \in Nat /\ Depth \in Nat /\ Depth \in 1..Depth
      /\ top = ActivationAt(Depth) /\ topSite = SiteAt(Depth) /\ (Depth + 1) - 1 = Depth
  BY TopActivation DEF Typed
<1>3. /\ \A d \in 1..(Depth - 1) : /\ SiteAt(d)' = SiteAt(d)
                                   /\ ActivationAt(d)'.arm = ActivationAt(d).arm
      /\ \A d \in 1..(Depth - 1) : Resolving(ActivationAt(d))' <=> Resolving(ActivationAt(d))
  BY <1>1, <1>2, KeptSites
<1>4. /\ SiteAt(Depth)' = topSite /\ ActivationAt(Depth)'.arm
      /\ SiteAt(Depth - 1)' = topSite /\ ~ActivationAt(Depth - 1)'.arm
      /\ Resolving(ActivationAt(Depth - 1))'
  <2>1. SiteAt(Depth)' = SiteOf(act) /\ SiteAt(Depth - 1)' = SiteOf(under)
    BY <1>1 DEF SiteAt, SiteOf, Site
  <2> QED
    BY <1>1, <2>1, SameActivation
<1>5. \A d \in 1..Depth' : d \in 1..(Depth - 1) \/ d = Depth' - 1 \/ d = Depth'
  BY <1>1, <1>2
<1>6. \A c, d \in 1..Depth : c < d => Below(SiteAt(d), SiteAt(c)) \/ DrivesArmOf(d, c)
  BY DEF Descending, Depth
<1>7. \A c, d \in 1..(Depth - 1) : DrivesArmOf(d, c)' <=> DrivesArmOf(d, c)
  BY <1>3 DEF DrivesArmOf
<1>8. \A c \in 1..(Depth - 1) : Below(topSite, SiteAt(c)')
  <2>1. \A c \in 1..(Depth - 1) : c < Depth /\ c \in 1..Depth
    BY <1>2
  <2>2. \A c : ~DrivesArmOf(Depth, c)
    BY <1>2 DEF DrivesArmOf
  <2> QED
    BY <1>2, <1>3, <1>6, <2>1, <2>2
<1>9. ASSUME NEW c \in 1..Depth', NEW d \in 1..Depth', c < d
      PROVE  Below(SiteAt(d)', SiteAt(c)') \/ DrivesArmOf(d, c)'
  <2>1. CASE d = Depth' /\ c = Depth' - 1
    <3>1. SiteAt(d)' = SiteAt(c)' /\ ActivationAt(d)'.arm /\ d = c + 1
      BY <1>1, <1>2, <1>4, <2>1
    <3> QED
      BY <3>1 DEF DrivesArmOf
  <2>2. CASE d \in {Depth', Depth' - 1} /\ c \in 1..(Depth - 1)
    <3>1. SiteAt(d)' = topSite
      BY <1>4, <2>2
    <3> QED
      BY <1>8, <2>2, <3>1
  <2>3. CASE d \in 1..(Depth - 1) /\ c \in 1..(Depth - 1)
    <3>1. d \in 1..Depth /\ c \in 1..Depth
      BY <1>2, <2>3
    <3> QED
      BY <1>3, <1>6, <1>7, <1>9, <2>3, <3>1
  <2>4. c # Depth' /\ (c = Depth' - 1 => d = Depth')
    BY <1>1, <1>2, <1>9
  <2>5. c \in 1..(Depth - 1) \/ c = Depth' - 1
    BY <1>5, <2>4
  <2>6. d \in 1..(Depth - 1) \/ d \in {Depth', Depth' - 1}
    BY <1>5
  <2> QED
    BY <2>1, <2>2, <2>3, <2>4, <2>5, <2>6
<1>10. ASSUME NEW d \in 1..Depth', ActivationAt(d)'.arm
       PROVE  d > 1 /\ SiteAt(d)' = SiteAt(d - 1)' /\ Resolving(ActivationAt(d - 1))'
  <2>1. CASE d = Depth'
    <3>1. d > 1
      BY <1>1, <1>2, <2>1
    <3> QED
      BY <1>4, <2>1, <3>1
  <2>2. CASE d \in 1..(Depth - 1)
    <3>1. ActivationAt(d).arm /\ d \in 1..Depth
      BY <1>2, <1>3, <1>10, <2>2
    <3>2. d > 1 /\ SiteAt(d) = SiteAt(d - 1) /\ Resolving(ActivationAt(d - 1))
      BY <3>1 DEF Descending, Depth
    <3>3. d - 1 \in 1..(Depth - 1)
      BY <1>2, <2>2, <3>2
    <3> QED
      BY <1>3, <2>2, <3>2, <3>3
  <2> QED
    BY <1>4, <1>5, <1>10, <2>1, <2>2
<1> QED
  BY <1>9, <1>10, DescendingNext

\* Activations are left alone or popped.
LEMMA DescendingKept ==
  ASSUME Typed, Descending, request' = request, Depth' \in Nat, Depth' <= Depth,
         KeepsActivations(Depth'), ctl'.at = "call" => ctl' = ctl
  PROVE  Descending'
<1> DEFINE n == Depth'
<1>1. n \in Nat /\ Depth \in Nat /\ n <= Depth /\ KeepsActivations(Depth')
  BY ListElements DEF Typed, Depth
<1>2. ASSUME NEW d \in 1..n PROVE ActivationAt(d)' = ActivationAt(d)
  BY <1>1 DEF KeepsActivations
<1>3. \A d \in 1..n : /\ SiteAt(d)' = SiteAt(d)
                      /\ ActivationAt(d)'.arm = ActivationAt(d).arm
                      /\ Resolving(ActivationAt(d))' <=> Resolving(ActivationAt(d))
  <2> SUFFICES ASSUME NEW d \in 1..n
               PROVE  /\ SiteAt(d)' = SiteAt(d) /\ ActivationAt(d)'.arm = ActivationAt(d).arm
                      /\ Resolving(ActivationAt(d))' <=> Resolving(ActivationAt(d))
    OBVIOUS
  <2>1. ActivationAt(d)' = ActivationAt(d)
    BY <1>2
  <2> QED
    BY <2>1, SameActivation DEF SiteAt, SiteOf, Site
<1>4. \A d \in 1..n : d \in 1..Depth
  BY <1>1
<1>5. \A c, d \in 1..Depth : c < d => Below(SiteAt(d), SiteAt(c)) \/ DrivesArmOf(d, c)
  BY DEF Descending, Depth
<1>6. \A c, d \in 1..n : DrivesArmOf(d, c)' <=> DrivesArmOf(d, c)
  BY <1>3 DEF DrivesArmOf
<1>7. \A c, d \in 1..n : c < d => Below(SiteAt(d)', SiteAt(c)') \/ DrivesArmOf(d, c)'
  BY <1>3, <1>4, <1>5, <1>6
<1>8. ASSUME NEW d \in 1..n, ActivationAt(d)'.arm
      PROVE  d > 1 /\ SiteAt(d)' = SiteAt(d - 1)' /\ Resolving(ActivationAt(d - 1))'
  <2>1. ActivationAt(d).arm /\ d \in 1..Depth
    BY <1>3, <1>4, <1>8
  <2>2. d > 1 /\ SiteAt(d) = SiteAt(d - 1) /\ Resolving(ActivationAt(d - 1))
    BY <2>1 DEF Descending, Depth
  <2>3. d - 1 \in 1..n
    BY <1>1, <2>2
  <2> QED
    BY <1>3, <2>2, <2>3
<1>9. ASSUME ctl'.at = "call", NEW d \in 1..n PROVE Below(calledSite', SiteAt(d)')
  <2>1. ctl' = ctl /\ calledSite' = calledSite
    BY <1>9 DEF calledSite, Site
  <2>2. Below(calledSite, SiteAt(d))
    BY <1>4, <1>9, <2>1 DEF Descending, Depth
  <2> QED
    BY <1>3, <2>1, <2>2
<1> QED
  BY <1>7, <1>8, <1>9, DescendingNext

-----------------------------------------------------------------------------
(***************************************************************************)
(* Where the candidates are.                                               *)
(***************************************************************************)
PendingOf(pending, site) ==
  Record([pending.state EXCEPT !.guard = @ \cap pending.arm.when], site, pending.arm.outcome)

Todo(d, list) == {At(<<d, "todo", Len(list) - i>>, list[i].state) : i \in 1..Len(list)}
Done(d, list) == {At(<<d, "done", i>>, list[i].state) : i \in 1..Len(list)}
Arms(d, site, list) ==
  {At(<<d, "arms", Len(list) - i>>, PendingOf(list[i], site)) : i \in 1..Len(list)}

HeldTo(n) == UNION {Held(d, ActivationAt(d)) : d \in 1..n}

\* What an activation holds, list by list.
LEMMA HeldParts ==
  ASSUME NEW d, NEW act
  PROVE  Held(d, act) =
           Todo(d, act.todo) \cup Arms(d, SiteOf(act), act.arms) \cup Done(d, act.done)
<1>1. Waiting(d, act) = Todo(d, act.todo) /\ Driven(d, act) = Done(d, act.done)
  BY DEF Waiting, Todo, Driven, Done
<1>2. Branches(d, act) = Arms(d, SiteOf(act), act.arms)
  BY DEF Branches, Arms, PendingState, PendingOf
<1> QED
  BY <1>1, <1>2 DEF Held

\* Where an activation's candidates are.
LEMMA HeldPlaces ==
  /\ \A d, list : \A l \in Todo(d, list) : l.place[1] = d /\ l.place[2] = "todo"
  /\ \A d, list : \A l \in Done(d, list) : l.place[1] = d /\ l.place[2] = "done"
  /\ \A d, site, list : \A l \in Arms(d, site, list) : l.place[1] = d /\ l.place[2] = "arms"
  /\ \A d, act : \A l \in Held(d, act) : l.place[1] = d
  /\ \A n : \A l \in HeldTo(n) : l.place[1] \in 1..n
<1>1. \A d, list : \A l \in Todo(d, list) : l.place[1] = d /\ l.place[2] = "todo"
  BY DEF Todo, At
<1>2. \A d, list : \A l \in Done(d, list) : l.place[1] = d /\ l.place[2] = "done"
  BY DEF Done, At
<1>3. \A d, site, list : \A l \in Arms(d, site, list) : l.place[1] = d /\ l.place[2] = "arms"
  BY DEF Arms, At
<1>4. \A d, act : \A l \in Held(d, act) : l.place[1] = d
  BY <1>1, <1>2, <1>3, HeldParts
<1>5. \A n : \A l \in HeldTo(n) : l.place[1] \in 1..n
  BY <1>4 DEF HeldTo
<1> QED
  BY <1>1, <1>2, <1>3, <1>4, <1>5

\* The candidates below a depth, and at it.
LEMMA HeldUpTo ==
  ASSUME NEW n \in Nat
  PROVE  HeldTo(n + 1) = HeldTo(n) \cup Held(n + 1, ActivationAt(n + 1))
<1>1. 1..(n + 1) = (1..n) \cup {n + 1}
  OBVIOUS
<1> QED
  BY <1>1 DEF HeldTo

\* The candidates are those in hand and those the activations hold.
LEMMA LiveParts ==
  ASSUME Depth \in Nat
  PROVE  /\ Live = InHand \cup HeldTo(Depth)
         /\ Depth > 0 => Live = InHand \cup HeldTo(Depth - 1) \cup Held(Depth, ActivationAt(Depth))
         /\ HeldTo(0) = {}
<1>1. Live = InHand \cup HeldTo(Depth)
  BY DEF Live, HeldTo, Depth
<1>2. Depth > 0 => HeldTo(Depth) = HeldTo(Depth - 1) \cup Held(Depth, ActivationAt(Depth))
  <2> SUFFICES ASSUME Depth > 0
               PROVE  HeldTo(Depth) = HeldTo(Depth - 1) \cup Held(Depth, ActivationAt(Depth))
    OBVIOUS
  <2>1. Depth - 1 \in Nat /\ (Depth - 1) + 1 = Depth
    OBVIOUS
  <2>2. HeldTo((Depth - 1) + 1) =
          HeldTo(Depth - 1) \cup Held((Depth - 1) + 1, ActivationAt((Depth - 1) + 1))
    BY <2>1, HeldUpTo
  <2> QED
    BY <2>1, <2>2
<1>3. HeldTo(0) = {}
  <2>1. 1..0 = {}
    OBVIOUS
  <2> QED
    BY <2>1 DEF HeldTo
<1> QED
  BY <1>1, <1>2, <1>3

\* The same of the state after a step.
LEMMA LivePartsNext ==
  ASSUME Depth' \in Nat
  PROVE  /\ Live' = InHand' \cup HeldTo(Depth)'
         /\ Depth' > 0 => Live' = InHand' \cup HeldTo(Depth - 1)'
                                    \cup Held(Depth', ActivationAt(Depth)')
         /\ HeldTo(0)' = {}
<1>1. Live' = InHand' \cup HeldTo(Depth)'
  BY DEF Live, HeldTo, Depth
<1>2. Depth' > 0 => HeldTo(Depth)' = HeldTo(Depth - 1)' \cup Held(Depth', ActivationAt(Depth)')
  <2> SUFFICES ASSUME Depth' > 0
               PROVE  HeldTo(Depth)' = HeldTo(Depth - 1)' \cup Held(Depth', ActivationAt(Depth)')
    OBVIOUS
  <2>1. PICK n \in Nat : Depth' = n + 1
    <3>1. \A m \in Nat : m > 0 => \E k \in Nat : m = k + 1
      <4>1. ASSUME NEW m \in Nat, m > 0 PROVE m - 1 \in Nat /\ m = (m - 1) + 1
        BY <4>1
      <4> QED
        BY <4>1
    <3> QED
      BY <3>1
  <2>2. 1..(n + 1) = (1..n) \cup {n + 1}
    OBVIOUS
  <2>3. HeldTo(n + 1)' = HeldTo(n)' \cup Held(n + 1, ActivationAt(n + 1)')
    BY <2>2 DEF HeldTo
  <2>4. HeldTo(Depth)' = HeldTo(n + 1)'
    BY <2>1 DEF HeldTo
  <2>5. HeldTo(Depth - 1)' = HeldTo(n)'
    BY <2>1 DEF HeldTo
  <2>6. Held(Depth', ActivationAt(Depth)') = Held(n + 1, ActivationAt(n + 1)')
    BY <2>1 DEF ActivationAt
  <2> QED
    BY <2>3, <2>4, <2>5, <2>6
<1>3. HeldTo(0)' = {}
  <2>1. 1..0 = {}
    OBVIOUS
  <2> QED
    BY <2>1 DEF HeldTo
<1> QED
  BY <1>1, <1>2, <1>3

\* Activations that are kept hold what they held.
LEMMA KeptHold ==
  ASSUME NEW n, KeepsActivations(n)
  PROVE  HeldTo(n)' = HeldTo(n)
<1>1. \A d \in 1..n : ActivationAt(d)' = ActivationAt(d)
  BY DEF KeepsActivations
<1> QED
  BY <1>1 DEF HeldTo

\* The next partial, and the others that wait.
LEMMA TodoParts ==
  ASSUME NEW d, NEW list, IsList(list), list # <<>>
  PROVE  LET first == At(<<d, "todo", Len(list) - 1>>, Head(list).state) IN
         /\ Todo(d, list) = {first} \cup Todo(d, Tail(list))
         /\ \A l \in Todo(d, Tail(list)) : l.place # first.place
<1> DEFINE first == At(<<d, "todo", Len(list) - 1>>, Head(list).state)
           rest == Tail(list)
           n == Len(list)
<1>1. n - 1 \in Nat /\ n \in Nat /\ Head(list) = list[1]
  BY HeadOfList, ListElements
<1>2. Len(rest) = n - 1 /\ \A i \in 1..(n - 1) : rest[i] = list[i + 1]
  BY TailOfList
<1> HIDE DEF rest, n
<1>3. \A i \in 1..(n - 1) : (n - 1) - i = n - (i + 1) /\ i + 1 \in 1..n /\ (n - 1) - i # n - 1
  BY <1>1
<1>4. \A i \in 1..n : i = 1 \/ (i - 1 \in 1..(n - 1) /\ (i - 1) + 1 = i)
  BY <1>1
<1>5. 1 \in 1..n
  BY <1>1
<1>6. Todo(d, rest) = {At(<<d, "todo", (n - 1) - i>>, rest[i].state) : i \in 1..(n - 1)}
  BY <1>2 DEF Todo
<1>7. Todo(d, rest) = {At(<<d, "todo", n - (i + 1)>>, list[i + 1].state) : i \in 1..(n - 1)}
  <2>1. \A i \in 1..(n - 1) : At(<<d, "todo", (n - 1) - i>>, rest[i].state) =
                              At(<<d, "todo", n - (i + 1)>>, list[i + 1].state)
    BY <1>2, <1>3
  <2> QED
    BY <1>6, <2>1
<1>8. Todo(d, list) = {At(<<d, "todo", n - i>>, list[i].state) : i \in 1..n}
  BY DEF Todo, n
<1>9. first = At(<<d, "todo", n - 1>>, list[1].state)
  BY <1>1 DEF n
<1>10. Todo(d, list) = {first} \cup Todo(d, rest)
  <2>1. ASSUME NEW l \in Todo(d, list) PROVE l \in {first} \cup Todo(d, rest)
    <3>1. PICK i \in 1..n : l = At(<<d, "todo", n - i>>, list[i].state)
      BY <1>8
    <3>2. CASE i = 1
      BY <1>9, <3>1, <3>2
    <3>3. CASE i # 1
      BY <1>4, <1>7, <3>1, <3>3
    <3> QED
      BY <3>2, <3>3
  <2>2. ASSUME NEW l \in Todo(d, rest) PROVE l \in Todo(d, list)
    BY <1>3, <1>7, <1>8
  <2>3. first \in Todo(d, list)
    BY <1>5, <1>8, <1>9
  <2> QED
    BY <2>1, <2>2, <2>3
<1>11. \A l \in Todo(d, rest) : l.place # first.place
  BY <1>3, <1>6, <1>9 DEF At
<1> QED
  BY <1>10, <1>11 DEF rest

\* The next arm, and the others not yet branched into.
LEMMA ArmsParts ==
  ASSUME NEW d, NEW site, NEW list, IsList(list), list # <<>>
  PROVE  LET first == At(<<d, "arms", Len(list) - 1>>, PendingOf(Head(list), site)) IN
         /\ Arms(d, site, list) = {first} \cup Arms(d, site, Tail(list))
         /\ \A l \in Arms(d, site, Tail(list)) : l.place # first.place
<1> DEFINE first == At(<<d, "arms", Len(list) - 1>>, PendingOf(Head(list), site))
           rest == Tail(list)
           n == Len(list)
<1>1. n - 1 \in Nat /\ n \in Nat /\ Head(list) = list[1]
  BY HeadOfList, ListElements
<1>2. Len(rest) = n - 1 /\ \A i \in 1..(n - 1) : rest[i] = list[i + 1]
  BY TailOfList
<1> HIDE DEF rest, n
<1>3. \A i \in 1..(n - 1) : (n - 1) - i = n - (i + 1) /\ i + 1 \in 1..n /\ (n - 1) - i # n - 1
  BY <1>1
<1>4. \A i \in 1..n : i = 1 \/ (i - 1 \in 1..(n - 1) /\ (i - 1) + 1 = i)
  BY <1>1
<1>5. 1 \in 1..n
  BY <1>1
<1>6. Arms(d, site, rest) =
        {At(<<d, "arms", (n - 1) - i>>, PendingOf(rest[i], site)) : i \in 1..(n - 1)}
  BY <1>2 DEF Arms
<1>7. Arms(d, site, rest) =
        {At(<<d, "arms", n - (i + 1)>>, PendingOf(list[i + 1], site)) : i \in 1..(n - 1)}
  <2>1. \A i \in 1..(n - 1) : At(<<d, "arms", (n - 1) - i>>, PendingOf(rest[i], site)) =
                              At(<<d, "arms", n - (i + 1)>>, PendingOf(list[i + 1], site))
    BY <1>2, <1>3
  <2> QED
    BY <1>6, <2>1
<1>8. Arms(d, site, list) = {At(<<d, "arms", n - i>>, PendingOf(list[i], site)) : i \in 1..n}
  BY DEF Arms, n
<1>9. first = At(<<d, "arms", n - 1>>, PendingOf(list[1], site))
  BY <1>1 DEF n
<1>10. Arms(d, site, list) = {first} \cup Arms(d, site, rest)
  <2>1. ASSUME NEW l \in Arms(d, site, list) PROVE l \in {first} \cup Arms(d, site, rest)
    <3>1. PICK i \in 1..n : l = At(<<d, "arms", n - i>>, PendingOf(list[i], site))
      BY <1>8
    <3>2. CASE i = 1
      BY <1>9, <3>1, <3>2
    <3>3. CASE i # 1
      BY <1>4, <1>7, <3>1, <3>3
    <3> QED
      BY <3>2, <3>3
  <2>2. ASSUME NEW l \in Arms(d, site, rest) PROVE l \in Arms(d, site, list)
    BY <1>3, <1>7, <1>8
  <2>3. first \in Arms(d, site, list)
    BY <1>5, <1>8, <1>9
  <2> QED
    BY <2>1, <2>2, <2>3
<1>11. \A l \in Arms(d, site, rest) : l.place # first.place
  BY <1>3, <1>6, <1>9 DEF At
<1> QED
  BY <1>10, <1>11 DEF rest

\* Partials driven, and some more.
LEMMA DoneParts ==
  ASSUME NEW d, NEW list, NEW more, IsList(list), IsList(more)
  PROVE  Done(d, list \o more) =
           Done(d, list) \cup {At(<<d, "done", Len(list) + i>>, more[i].state) : i \in 1..Len(more)}
<1> DEFINE both == list \o more
           a == Len(list)
           b == Len(more)
<1>1. a \in Nat /\ b \in Nat
  BY ListElements
<1>2. /\ Len(both) = a + b
      /\ \A i \in 1..a : both[i] = list[i]
      /\ \A i \in 1..b : both[a + i] = more[i]
  BY ListsInARow
<1>3. Done(d, list) = {At(<<d, "done", i>>, list[i].state) : i \in 1..a}
  BY DEF Done
<1> HIDE DEF both, a, b
<1>4. Done(d, both) = {At(<<d, "done", i>>, both[i].state) : i \in 1..(a + b)}
  BY <1>2 DEF Done
<1>5. /\ \A i \in 1..(a + b) : i \in 1..a \/ (i - a \in 1..b /\ a + (i - a) = i)
      /\ \A i \in 1..a : i \in 1..(a + b)
      /\ \A i \in 1..b : a + i \in 1..(a + b)
  BY <1>1
<1> DEFINE New == {At(<<d, "done", a + i>>, more[i].state) : i \in 1..b}
<1>6. ASSUME NEW l \in Done(d, both) PROVE l \in Done(d, list) \cup New
  <2>1. PICK i \in 1..(a + b) : l = At(<<d, "done", i>>, both[i].state)
    BY <1>4
  <2>2. CASE i \in 1..a
    BY <1>2, <1>3, <2>1, <2>2
  <2>3. CASE i \notin 1..a
    <3> DEFINE j == i - a
    <3>1. j \in 1..b /\ i = a + j
      BY <1>5, <2>3
    <3> HIDE DEF j
    <3> QED
      BY <1>2, <2>1, <3>1
  <2> QED
    BY <2>2, <2>3
<1>7. ASSUME NEW l \in Done(d, list) PROVE l \in Done(d, both)
  BY <1>2, <1>3, <1>4, <1>5
<1>8. ASSUME NEW l \in New PROVE l \in Done(d, both)
  BY <1>2, <1>4, <1>5
<1>9. Done(d, both) = Done(d, list) \cup New
  BY <1>6, <1>7, <1>8
<1> QED
  BY <1>9 DEF both, a, b

\* Nothing waits in an empty list.
LEMMA EmptyParts ==
  /\ \A d : Todo(d, <<>>) = {} /\ Done(d, <<>>) = {}
  /\ \A d, site : Arms(d, site, <<>>) = {}
<1>1. \A i : i \notin 1..Len(<<>>)
  BY EmptyList
<1> QED
  BY <1>1 DEF Todo, Done, Arms

-----------------------------------------------------------------------------
(***************************************************************************)
(* The steps, by what they do to the candidates.                           *)
(***************************************************************************)
\* A call is answered at once: CacheHit, EvalParam.
Answers ==
  /\ ctl.at = "call" /\ stack' = stack
  /\ ctl'.at = "return" /\ Len(ctl'.results) = 1
  /\ ctl'.results[1].state.guard = ctl.state.guard
  /\ ctl'.results[1].state.trace = ctl.state.trace
  /\ DOMAIN ctl.state.cache \subseteq DOMAIN ctl'.results[1].state.cache

\* A call enters its node: EnterNode.
Entered == NodeActivation(ctl.frame, ctl.node, ctl.state)

Enters ==
  /\ ctl.at = "call" /\ calledSite \notin DOMAIN ctl.state.cache
  /\ stack' = <<Entered>> \o stack /\ ctl'.at = "run"
  /\ ActivationOK(Entered) /\ ~Entered.arm /\ ~Resolving(Entered) /\ SiteOf(Entered) = calledSite
  /\ Entered.todo = <<>> /\ Entered.arms = <<>>
  /\ Len(Entered.done) = 1 /\ Entered.done[1].state = ctl.state

\* A partial is taken and a node evaluated: DemandOperand, EnterCallee, EnterIteration.
Calls ==
  /\ ctl.at = "run" /\ stack # <<>> /\ top.todo # <<>> /\ top.arms = <<>> /\ ~Resolving(top)
  /\ stack' = <<Moved(top, top.stage, Tail(top.todo), Head(top.todo).values,
                      top.done, top.arms)>> \o Tail(stack)
  /\ ctl'.at = "call" /\ ctl'.state = Head(top.todo).state
  /\ IsSite(calledSite') /\ Below(calledSite', topSite)

\* What was evaluated replaces the partial: Deliver.
Delivers ==
  /\ ctl.at = "return" /\ ctl'.at = "run" /\ stack # <<>>
  /\ stack' = <<Moved(top, top.stage, top.todo, top.current,
                      top.done \o Delivered, top.arms)>> \o Tail(stack)

\* The next stage takes what the last one left: NextStage.
Advances ==
  /\ ctl.at = "run" /\ ctl' = ctl /\ stack # <<>> /\ top.todo = <<>> /\ top.arms = <<>>
  /\ top.stage < Stages(top)
  /\ stack' = <<Moved(top, top.stage + 1, top.done, top.current, <<>>, top.arms)>> \o Tail(stack)

\* What was left is returned: FinishNode, FinishArm.
Keeps(old, new) ==
  /\ new.guard = old.guard /\ new.trace = old.trace
  /\ DOMAIN old.cache \subseteq DOMAIN new.cache
  /\ top.arm \/ topSite \in DOMAIN new.cache

Finishes ==
  /\ ctl.at = "run" /\ stack # <<>> /\ top.todo = <<>> /\ top.arms = <<>>
  /\ stack' = Tail(stack)
  /\ ctl'.at = "return" /\ Len(ctl'.results) = Len(top.done)
  /\ \A i \in 1..Len(top.done) : Keeps(top.done[i].state, ctl'.results[i].state)

\* A selection whose selector is constant is resolved: ResolveConcrete.
Resolves ==
  /\ Selecting /\ topSite \notin DOMAIN Head(top.todo).state.trace
  /\ stack' = <<ResolvedArm>> \o
       (<<Moved(top, top.stage, Tail(top.todo), top.current, top.done, top.arms)>> \o Tail(stack))
  /\ ctl' = ctl

\* A selection whose selector is not has its arms tried: ForkSymbolic.
Forks ==
  /\ Selecting
  /\ stack' = <<Moved(top, top.stage, Tail(top.todo), top.current, top.done, Forked)>>
                \o Tail(stack)
  /\ ctl' = ctl

\* An arm is dropped: BranchAtLimit, BranchImpossible.
Drops ==
  /\ Branching
  /\ stack' = <<Moved(top, top.stage, top.todo, top.current, top.done, Tail(top.arms))>>
                \o Tail(stack)
  /\ ctl' = ctl

\* An arm becomes a candidate: BranchTaken.
Branched ==
  /\ Branching
  /\ stack' = <<BranchedArm>> \o
       (<<Moved(top, top.stage, top.todo, top.current, top.done, Tail(top.arms))>> \o Tail(stack))
  /\ ctl' = ctl

\* The request fails: NextStage, FinishNode, ResolveConcrete.
GivesUp ==
  /\ ctl'.at = "fail" /\ stack' = <<>>
  /\ ctl'.why = "duplicate" => Selecting /\ topSite \in DOMAIN Head(top.todo).state.trace

\* What remembering a value changes of a candidate.
LEMMA RememberedState ==
  ASSUME NEW state, StateOK(state), NEW site, NEW value,
         NEW new, new = Remember(state, site, value)
  PROVE  /\ new.guard = state.guard /\ new.trace = state.trace
         /\ DOMAIN state.cache \subseteq DOMAIN new.cache /\ site \in DOMAIN new.cache
<1>1. new = [guard |-> state.guard, never |-> state.never, trace |-> state.trace,
             cache |-> Inserted(state.cache, site, value)]
  BY DEF Remember, StateOK
<1>2. new.cache = Inserted(state.cache, site, value)
  BY <1>1
<1>3. DOMAIN Inserted(state.cache, site, value) = DOMAIN state.cache \cup {site}
  BY OneMoreEntry
<1> QED
  BY <1>1, <1>2, <1>3

\* A call is answered with the same candidate.
LEMMA AnswersStep ==
  ASSUME Typed, CacheHit \/ EvalParam
  PROVE  Answers /\ request' = request /\ UNCHANGED <<syntactic, incomplete>>
<1>1. ctl.at = "call" /\ stack' = stack /\ request' = request /\ UNCHANGED <<syntactic, incomplete>>
  BY DEF CacheHit, EvalParam
<1>2. StateOK(ctl.state)
  BY <1>1 DEF Typed, ControlOK
<1>3. PICK state, value :
        /\ ctl' = Return(<<Evaluated(state, value)>>)
        /\ state.guard = ctl.state.guard /\ state.trace = ctl.state.trace
        /\ DOMAIN ctl.state.cache \subseteq DOMAIN state.cache
  <2>1. CASE CacheHit
    BY <2>1 DEF CacheHit
  <2>2. CASE EvalParam
    <3> DEFINE value == ctl.frame.args[NodeOf(ctl.frame, ctl.node).index]
               state == Remember(ctl.state, calledSite, value)
    <3>1. ctl' = Return(<<Evaluated(state, value)>>)
      BY <2>2 DEF EvalParam
    <3>2. /\ state.guard = ctl.state.guard /\ state.trace = ctl.state.trace
          /\ DOMAIN ctl.state.cache \subseteq DOMAIN state.cache
      BY <1>2, RememberedState
    <3> QED
      BY <3>1, <3>2
  <2> QED
    BY <2>1, <2>2
<1>4. /\ ctl'.at = "return" /\ ctl'.results = <<Evaluated(state, value)>>
  BY <1>3 DEF Return
<1>5. Len(ctl'.results) = 1 /\ ctl'.results[1].state = state
  BY <1>4 DEF Evaluated
<1> QED
  BY <1>1, <1>3, <1>4, <1>5 DEF Answers

\* A node is entered with the candidate it was called for.
LEMMA EntersStep ==
  ASSUME Typed, EnterNode
  PROVE  Enters /\ request' = request /\ UNCHANGED <<syntactic, incomplete>>
<1>1. /\ ctl.at = "call" /\ calledSite \notin DOMAIN ctl.state.cache
      /\ NodeOf(ctl.frame, ctl.node).kind # "param"
      /\ stack' = <<Entered>> \o stack /\ ctl' = Run
      /\ request' = request /\ UNCHANGED <<syntactic, incomplete>>
  BY DEF EnterNode, Entered
<1>2. NodeOK(ctl.frame, ctl.node) /\ StateOK(ctl.state) /\ request \in Requests
  BY <1>1 DEF Typed, ControlOK
<1>3. Entered = NodeActivation(ctl.frame, ctl.node, ctl.state)
  BY DEF Entered
<1>4. /\ ActivationOK(Entered) /\ ~Entered.arm /\ ~Resolving(Entered)
      /\ SiteOf(Entered) = Site(ctl.frame, ctl.node)
      /\ Entered.todo = <<>> /\ Entered.arms = <<>>
      /\ Len(Entered.done) = 1 /\ Entered.done[1].state = ctl.state
  BY <1>1, <1>2, <1>3, NodeIsOK
<1>5. ctl'.at = "run"
  BY <1>1 DEF Run
<1> QED
  BY <1>1, <1>4, <1>5 DEF Enters, calledSite

\* A node is evaluated for the next partial.
LEMMA EvaluateStep ==
  ASSUME Typed, Working, ~Resolving(top), NEW frame, NEW node, Evaluate(frame, node),
         NodeOK(frame, node), Below(Site(frame, node), topSite)
  PROVE  Calls /\ request' = request /\ UNCHANGED <<syntactic, incomplete>>
<1>1. ctl.at = "run" /\ top.todo # <<>> /\ top.arms = <<>> /\ stack # <<>>
  BY DEF Working, Typed, ControlOK
<1>2. /\ stack' = <<Moved(top, top.stage, Tail(top.todo), Head(top.todo).values,
                          top.done, top.arms)>> \o Tail(stack)
      /\ ctl' = Call(frame, node, Head(top.todo).state)
      /\ request' = request /\ syntactic' = syntactic /\ incomplete' = incomplete
  BY <1>1, TopIsActivation, EvaluateMoves
<1>3. /\ ctl'.at = "call" /\ ctl'.frame = frame /\ ctl'.node = node
      /\ ctl'.state = Head(top.todo).state
  BY <1>2 DEF Call
<1>4. calledSite' = Site(frame, node)
  BY <1>3 DEF calledSite, Site
<1>5. IsSite(Site(frame, node))
  BY DemandedAreBelow
<1> QED
  BY <1>1, <1>2, <1>3, <1>4, <1>5 DEF Calls

\* The operand, the callee's result or the body's result is below its user.
LEMMA CallsStep ==
  ASSUME Typed, DemandOperand \/ EnterCallee \/ EnterIteration
  PROVE  Calls /\ request' = request /\ UNCHANGED <<syntactic, incomplete>>
<1>1. Working /\ ctl.at = "run" /\ stack # <<>> /\ top.todo # <<>>
  BY DEF DemandOperand, EnterCallee, EnterIteration, Working, Typed, ControlOK
<1>2. /\ request \in Requests /\ NodeOK(top.frame, top.node) /\ KindOf(top) = topNode.kind
      /\ top.refs \in Seq(1..(top.node - 1)) /\ Len(top.refs) \in Nat /\ top.stage \in Nat
      /\ top.stage > 0
  BY <1>1, TopFacts, NextPartial
<1>3. topSite = Site(top.frame, top.node)
  BY DEF topSite
<1>4. CASE DemandOperand
  <2> DEFINE ref == top.refs[top.stage]
  <2>1. top.stage <= Len(top.refs) /\ Evaluate(top.frame, ref)
    BY <1>4 DEF DemandOperand
  <2>2. top.stage \in 1..Len(top.refs) /\ ~(top.stage > Len(top.refs))
    BY <1>2, <2>1
  <2>3. ref \in 1..(top.node - 1)
    BY <1>2, <2>2, SeqIsList
  <2> HIDE DEF ref
  <2>4. NodeOK(top.frame, ref) /\ Below(Site(top.frame, ref), topSite)
    BY <1>2, <1>3, <2>3, OtherNodes, DemandedAreBelow
  <2>5. ~Resolving(top)
    BY <2>2 DEF Resolving
  <2> QED
    BY <1>1, <2>1, <2>4, <2>5, EvaluateStep
<1>5. ASSUME NEW called, NEW key, FrameOK(called), called.inv = Append(top.frame.inv, key),
             key[2] = top.frame.fn, key[3] = top.node, ~Resolving(top),
             Evaluate(called, request.fns[called.fn].ret)
      PROVE  Calls /\ request' = request /\ UNCHANGED <<syntactic, incomplete>>
  <2>1. NodeOK(called, request.fns[called.fn].ret)
    BY <1>2, <1>5, OtherNodes
  <2>2. Below(Site(called, request.fns[called.fn].ret), topSite)
    BY <1>2, <1>3, <1>5, DemandedAreBelow
  <2> QED
    BY <1>1, <1>5, <2>1, <2>2, EvaluateStep
<1>6. CASE EnterCallee
  <2>1. /\ FrameOK(CalledFrame) /\ topNode.kind = "invoke"
        /\ Evaluate(CalledFrame, request.fns[CalledFrame.fn].ret)
    BY <1>6, CalleeIsOK
  <2>3. InvokeFrame[2] = top.frame.fn /\ InvokeFrame[3] = top.node
    BY DEF InvokeFrame
  <2>4. ~Resolving(top)
    BY <1>2, <2>1 DEF Resolving, SelectionKinds
  <2>5. CalledFrame.inv = Append(top.frame.inv, InvokeFrame)
    BY DEF CalledFrame
  <2> QED
    BY <1>5, <2>1, <2>3, <2>4, <2>5
<1>7. CASE EnterIteration
  <2>1. /\ FrameOK(IterationFrame) /\ topNode.kind = "counted_for"
        /\ Evaluate(IterationFrame, request.fns[IterationFrame.fn].ret)
    BY <1>7, BodyIsOK
  <2>3. LoopFrame(Iteration)[2] = top.frame.fn /\ LoopFrame(Iteration)[3] = top.node
    BY DEF LoopFrame
  <2>4. ~Resolving(top)
    BY <1>2, <2>1 DEF Resolving, SelectionKinds
  <2>5. IterationFrame.inv = Append(top.frame.inv, LoopFrame(Iteration))
    BY DEF IterationFrame
  <2> QED
    BY <1>5, <2>1, <2>3, <2>4, <2>5
<1> QED
  BY <1>4, <1>6, <1>7

\* What a nested evaluation returned is driven.
LEMMA DeliversStep ==
  ASSUME Typed, Deliver
  PROVE  Delivers /\ request' = request /\ UNCHANGED <<syntactic, incomplete>>
<1>1. stack # <<>>
  BY DEF Deliver
<1>2. /\ stack' = <<Moved(top, top.stage, top.todo, top.current,
                          top.done \o Delivered, top.arms)>> \o Tail(stack)
      /\ ctl.at = "return" /\ ctl' = Run
      /\ request' = request /\ syntactic' = syntactic /\ incomplete' = incomplete
  BY <1>1, TopIsActivation, DeliverMoves
<1>3. ctl'.at = "run"
  BY <1>2 DEF Run
<1> QED
  BY <1>1, <1>2, <1>3 DEF Delivers

\* A failure that is not of the selections'.
LEMMA OtherFailure ==
  ASSUME NEW why, FailsWith(why), why # "duplicate"
  PROVE  GivesUp
<1>1. PICK blamed : ctl' = Fail(why, blamed) /\ stack' = <<>>
  BY DEF FailsWith
<1>2. ctl'.at = "fail" /\ ctl'.why = why
  BY <1>1 DEF Fail
<1> QED
  BY <1>1, <1>2 DEF GivesUp

\* A stage follows.
LEMMA AdvancesStep ==
  ASSUME Typed, NextStage
  PROVE  (Advances \/ GivesUp) /\ request' = request /\ UNCHANGED <<syntactic, incomplete>>
<1>1. ctl.at = "run" /\ stack # <<>> /\ top.todo = <<>> /\ top.arms = <<>>
  BY DEF NextStage, Drained, Typed, ControlOK
<1>2. /\ top.stage < Stages(top)
      /\ request' = request /\ syntactic' = syntactic /\ incomplete' = incomplete
      /\ \/ FailsWith("overflow")
         \/ /\ stack' = <<Moved(top, top.stage + 1, top.done, top.current, <<>>, top.arms)>>
                             \o Tail(stack)
            /\ ctl' = ctl
  BY <1>1, TopIsActivation, NextStageMoves
<1>3. FailsWith("overflow") => GivesUp
  BY OtherFailure
<1> QED
  BY <1>1, <1>2, <1>3 DEF Advances

\* An activation returns what it drove.
LEMMA FinishesStep ==
  ASSUME Typed, FinishNode \/ FinishArm
  PROVE  (Finishes \/ GivesUp) /\ request' = request /\ UNCHANGED <<syntactic, incomplete>>
<1>1. /\ ctl.at = "run" /\ stack # <<>> /\ top.todo = <<>> /\ top.arms = <<>>
      /\ request' = request /\ UNCHANGED <<syntactic, incomplete>>
  BY DEF FinishNode, FinishArm, Drained, Typed, ControlOK
<1>2. /\ IsList(top.done) /\ Len(top.done) \in Nat
      /\ \A i \in 1..Len(top.done) : StateOK(top.done[i].state)
  BY <1>1, TopFacts, ListElements DEF PartialOK
<1>3. CASE FinishNode /\ Unsupported(top)
  <2>1. FailsWith("unsupported")
    BY <1>3 DEF FinishNode, FailsWith
  <2> QED
    BY <1>1, <2>1, OtherFailure
<1>4. CASE FinishNode /\ ~Unsupported(top)
  <2> DEFINE Result(p) == IF topNode.kind = "pure" THEN Apply(topNode, p.values) ELSE p.values[1]
             results == NodeResults(top)
  <2>1. ctl' = Return(results) /\ stack' = Tail(stack)
    BY <1>4 DEF FinishNode
  <2>2. results = [i \in 1..Len(top.done) |->
          Evaluated(Remember(top.done[i].state, topSite, Result(top.done[i])),
                    Result(top.done[i]))]
    BY DEF NodeResults, topNode, topSite
  <2> HIDE DEF Result, results
  <2>3. ctl'.at = "return" /\ ctl'.results = results
    BY <2>1 DEF Return
  <2>4. Len(results) = Len(top.done)
    BY <1>2, <2>2, MakeList
  <2>5. ASSUME NEW i \in 1..Len(top.done)
        PROVE  Keeps(top.done[i].state, results[i].state)
    <3>1. results[i].state = Remember(top.done[i].state, topSite, Result(top.done[i]))
      BY <2>2 DEF Evaluated
    <3>2. StateOK(top.done[i].state)
      BY <1>2
    <3> QED
      BY <3>1, <3>2, RememberedState DEF Keeps
  <2> QED
    BY <1>1, <2>1, <2>3, <2>4, <2>5 DEF Finishes
<1>5. CASE FinishArm
  <2> DEFINE results == ArmResults(top)
  <2>1. ctl' = Return(results) /\ stack' = Tail(stack) /\ top.arm
    BY <1>5 DEF FinishArm
  <2>2. results =
          [i \in 1..Len(top.done) |-> Evaluated(top.done[i].state, top.done[i].values[1])]
    BY DEF ArmResults
  <2> HIDE DEF results
  <2>3. ctl'.at = "return" /\ ctl'.results = results
    BY <2>1 DEF Return
  <2>4. Len(results) = Len(top.done)
    BY <1>2, <2>2, MakeList
  <2>5. ASSUME NEW i \in 1..Len(top.done)
        PROVE  Keeps(top.done[i].state, results[i].state)
    <3>1. results[i].state = top.done[i].state
      BY <2>2 DEF Evaluated
    <3> QED
      BY <2>1, <3>1 DEF Keeps
  <2> QED
    BY <1>1, <2>1, <2>3, <2>4, <2>5 DEF Finishes
<1> QED
  BY <1>3, <1>4, <1>5

\* A selection with a constant selector takes its one arm.
LEMMA ResolvesStep ==
  ASSUME Typed, ResolveConcrete
  PROVE  (Resolves \/ GivesUp) /\ request' = request /\ UNCHANGED <<syntactic, incomplete>>
<1>1. Selecting /\ stack # <<>>
  BY SelectingFacts DEF ResolveConcrete
<1>2. /\ request' = request /\ syntactic' = syntactic /\ incomplete' = incomplete
      /\ \/ topSite \in DOMAIN Head(top.todo).state.trace /\ FailsWith("duplicate")
         \/ /\ topSite \notin DOMAIN Head(top.todo).state.trace
            /\ stack' = <<ResolvedArm>> \o
                 (<<Moved(top, top.stage, Tail(top.todo), top.current, top.done, top.arms)>>
                    \o Tail(stack))
            /\ ctl' = ctl
  BY <1>1, TopIsActivation, ResolveMoves
<1>3. topSite \in DOMAIN Head(top.todo).state.trace /\ FailsWith("duplicate") => GivesUp
  BY <1>1 DEF FailsWith, Fail, GivesUp
<1> QED
  BY <1>1, <1>2, <1>3 DEF Resolves

\* A selection with a symbolic selector has its arms tried.
LEMMA ForksStep ==
  ASSUME Typed, ForkSymbolic
  PROVE  /\ Forks /\ request' = request /\ syntactic' = syntactic
         /\ incomplete' = IF TooManyMasks THEN FirstExceeded(topSite) ELSE incomplete
<1>1. Selecting /\ stack # <<>>
  BY SelectingFacts DEF ForkSymbolic
<1>2. /\ stack' = <<Moved(top, top.stage, Tail(top.todo), top.current, top.done, Forked)>>
                    \o Tail(stack)
      /\ incomplete' = IF TooManyMasks THEN FirstExceeded(topSite) ELSE incomplete
      /\ request' = request /\ ctl' = ctl /\ syntactic' = syntactic
  BY <1>1, TopIsActivation, ForkMoves
<1> QED
  BY <1>1, <1>2 DEF Forks

\* An arm is dropped, for want of budget or because it contradicts its candidate.
LEMMA DropsStep ==
  ASSUME Typed, BranchAtLimit \/ BranchImpossible
  PROVE  /\ Drops /\ request' = request /\ syntactic' = syntactic
         /\ \/ incomplete' = FirstExceeded(topSite)
            \/ incomplete' = incomplete /\ Contradicts(branch.state, branch.arm)
<1>1. /\ Branching /\ stack' = afterBranch /\ request' = request /\ ctl' = ctl
      /\ syntactic' = syntactic
      /\ \/ incomplete' = FirstExceeded(topSite)
         \/ incomplete' = incomplete /\ Contradicts(branch.state, branch.arm)
  BY DEF BranchAtLimit, BranchImpossible
<1>2. stack # <<>>
  BY <1>1, BranchFacts
<1>3. afterBranch = <<Moved(top, top.stage, top.todo, top.current, top.done, Tail(top.arms))>>
                      \o Tail(stack)
  BY <1>2, TopIsActivation, BranchMoves
<1> QED
  BY <1>1, <1>3 DEF Drops

\* An arm becomes a candidate.
LEMMA BranchedStep ==
  ASSUME Typed, BranchTaken
  PROVE  /\ Branched /\ request' = request /\ incomplete' = incomplete
         /\ syntactic' = syntactic + 1 /\ ~BudgetSpent
         /\ ~Contradicts(branch.state, branch.arm)
<1>1. /\ Branching /\ request' = request /\ ctl' = ctl /\ incomplete' = incomplete
      /\ syntactic' = syntactic + 1 /\ ~BudgetSpent
      /\ ~Contradicts(branch.state, branch.arm)
      /\ stack' = <<BranchedArm>> \o afterBranch
  BY DEF BranchTaken, BranchedArm, BranchedState
<1>2. stack # <<>>
  BY <1>1, BranchFacts
<1>3. afterBranch = <<Moved(top, top.stage, top.todo, top.current, top.done, Tail(top.arms))>>
                      \o Tail(stack)
  BY <1>2, TopIsActivation, BranchMoves
<1> QED
  BY <1>1, <1>3 DEF Branched

\* Every step is one of these.
LEMMA StepCases ==
  ASSUME Typed, [Next]_vars
  PROVE  /\ request' = request
         /\ \/ Answers \/ Enters \/ Calls \/ Delivers \/ Advances \/ Finishes
            \/ Resolves \/ Forks \/ Drops \/ Branched \/ GivesUp
            \/ UNCHANGED vars
<1>1. CASE CacheHit \/ EvalParam \/ EnterNode
  BY <1>1, AnswersStep, EntersStep
<1>2. CASE DemandOperand \/ EnterCallee \/ EnterIteration \/ Deliver
  BY <1>2, CallsStep, DeliversStep
<1>3. CASE NextStage \/ FinishNode \/ FinishArm
  BY <1>3, AdvancesStep, FinishesStep
<1>4. CASE ResolveConcrete \/ ForkSymbolic
  BY <1>4, ResolvesStep, ForksStep
<1>5. CASE BranchAtLimit \/ BranchImpossible \/ BranchTaken
  BY <1>5, DropsStep, BranchedStep
<1>6. CASE Terminated \/ UNCHANGED vars
  BY <1>6 DEF Terminated, vars
<1> QED
  BY <1>1, <1>2, <1>3, <1>4, <1>5, <1>6 DEF Next

-----------------------------------------------------------------------------
(***************************************************************************)
(* Calls descend, in every step.                                           *)
(***************************************************************************)
\* An activation that moved on drives the same site.
LEMMA MovedSite ==
  ASSUME NEW stage, NEW todo, NEW current, NEW done, NEW arms,
         NEW new, new = Moved(top, stage, todo, current, done, arms)
  PROVE  /\ SiteOf(new) = topSite /\ new.arm = top.arm
         /\ new.todo = todo /\ new.done = done /\ new.arms = arms
         /\ stage = top.stage => (Resolving(new) <=> Resolving(top))
<1>1. /\ new.frame = top.frame /\ new.node = top.node /\ new.arm = top.arm
      /\ new.refs = top.refs /\ new.stage = stage
      /\ new.todo = todo /\ new.done = done /\ new.arms = arms
  BY MovedShape
<1>2. SiteOf(new) = SiteOf(top) /\ (stage = top.stage => (Resolving(new) <=> Resolving(top)))
  BY <1>1, SameShape
<1> QED
  BY <1>1, <1>2 DEF topSite, SiteOf

\* An arm is driven for the site of its selection, from one candidate.
LEMMA ArmSite ==
  ASSUME NEW demand, NEW state, NEW new, new = ArmActivation(top.frame, top.node, demand, state)
  PROVE  /\ SiteOf(new) = topSite /\ new.arm /\ ~Resolving(new)
         /\ new.todo = <<>> /\ new.arms = <<>>
         /\ Len(new.done) = 1 /\ new.done[1].state = state
<1> DEFINE n == NodeOf(top.frame, top.node)
           start == IF n.kind = "one_hot_sel" THEN <<ConstantBits(n.width, 0)>> ELSE <<>>
           done == <<Partial(state, start)>>
<1>1. new = [frame |-> top.frame, node |-> top.node, arm |-> TRUE,
             refs |-> demand, stage |-> 0, todo |-> <<>>,
             current |-> <<>>, done |-> done, arms |-> <<>>]
  BY DEF ArmActivation
<1>2. Len(done) = 1 /\ done[1].state = state
  BY DEF Partial
<1> HIDE DEF done
<1>3. /\ new.frame = top.frame /\ new.node = top.node /\ new.arm
      /\ new.todo = <<>> /\ new.arms = <<>> /\ new.done = done
  BY <1>1
<1>4. SiteOf(new) = topSite /\ ~Resolving(new)
  BY <1>3 DEF SiteOf, topSite, Resolving
<1> QED
  BY <1>2, <1>3, <1>4

\* How the stack changes leaves what is below it in place.
LEMMA DescendingStep ==
  ASSUME Typed, Descending, [Next]_vars
  PROVE  Descending'
<1>1. request' = request
  BY StepCases
<1>2. IsList(stack) /\ Depth \in Nat
  BY ListElements DEF Typed, Depth
<1>3. CASE Answers \/ UNCHANGED vars
  <2>1. stack' = stack
    BY <1>3 DEF Answers, vars
  <2>2. Depth' = Depth /\ KeepsActivations(Depth')
    BY <2>1 DEF Depth, KeepsActivations, ActivationAt
  <2>3. ctl'.at = "call" => ctl' = ctl
    BY <1>3 DEF Answers, vars
  <2> QED
    BY <1>1, <1>2, <2>2, <2>3, DescendingKept
<1>4. CASE Enters
  <2>1. /\ ctl.at = "call" /\ ctl'.at = "run" /\ stack' = <<Entered>> \o stack
        /\ SiteOf(Entered) = calledSite /\ ~Entered.arm
    BY <1>4 DEF Enters
  <2> QED
    BY <1>1, <2>1, DescendingPushed
<1>5. CASE Calls \/ Delivers \/ Advances \/ Forks \/ Drops
  <2>1. PICK stage, todo, current, done, arms :
          stack' = <<Moved(top, stage, todo, current, done, arms)>> \o Tail(stack)
    BY <1>5 DEF Calls, Delivers, Advances, Forks, Drops
  <2> DEFINE new == Moved(top, stage, todo, current, done, arms)
  <2>2. SiteOf(new) = topSite /\ new.arm = top.arm
    BY MovedSite
  <2>3. stack # <<>>
    BY <1>5, SelectingFacts, BranchFacts DEF Calls, Delivers, Advances, Forks, Drops
  <2>4. ctl'.at = "call" => IsSite(calledSite') /\ Below(calledSite', topSite)
    <3>1. CASE Calls
      BY <3>1 DEF Calls
    <3>2. CASE Delivers
      BY <3>2 DEF Delivers
    <3>3. CASE Advances \/ Forks \/ Drops
      BY <3>3, SelectingFacts, BranchFacts DEF Advances, Forks, Drops
    <3> QED
      BY <1>5, <3>1, <3>2, <3>3
  <2>5. stack' = <<new>> \o Tail(stack)
    BY <2>1
  <2> HIDE DEF new
  <2> QED
    BY <1>1, <2>2, <2>3, <2>4, <2>5, DescendingReplaced
<1>6. CASE Finishes
  <2>1. stack # <<>> /\ stack' = Tail(stack) /\ ctl'.at # "call"
    BY <1>6 DEF Finishes
  <2>2. Depth' = Depth - 1 /\ KeepsActivations(Depth - 1)
    BY <1>2, <2>1, Popped
  <2>3. Depth - 1 \in Nat /\ Depth' <= Depth /\ Depth' \in Nat
    BY <1>2, <2>1, <2>2, TopActivation
  <2>4. KeepsActivations(Depth')
    BY <2>2 DEF KeepsActivations
  <2> QED
    BY <1>1, <2>1, <2>3, <2>4, DescendingKept
<1>7. CASE Resolves \/ Branched
  <2>1. PICK todo, arms, act :
          /\ stack' = <<act>> \o
               (<<Moved(top, top.stage, todo, top.current, top.done, arms)>> \o Tail(stack))
          /\ SiteOf(act) = topSite /\ act.arm
    <3>1. CASE Resolves
      <4>1. ResolvedArm.arm /\ SiteOf(ResolvedArm) = topSite
        BY ArmSite DEF ResolvedArm
      <4> QED
        BY <3>1, <4>1 DEF Resolves
    <3>2. CASE Branched
      <4>1. BranchedArm.arm /\ SiteOf(BranchedArm) = topSite
        BY ArmSite DEF BranchedArm
      <4> QED
        BY <3>2, <4>1 DEF Branched
    <3> QED
      BY <1>7, <3>1, <3>2
  <2>2. stack # <<>> /\ ctl.at = "run" /\ ctl' = ctl /\ ~top.arm /\ Resolving(top)
    BY <1>7, SelectingFacts, BranchFacts DEF Resolves, Branched
  <2> DEFINE under == Moved(top, top.stage, todo, top.current, top.done, arms)
  <2>3. SiteOf(under) = topSite /\ ~under.arm /\ Resolving(under)
    BY <2>2, MovedSite
  <2>4. stack' = <<act>> \o (<<under>> \o Tail(stack))
    BY <2>1
  <2> HIDE DEF under
  <2> QED
    BY <1>1, <2>1, <2>2, <2>3, <2>4, DescendingIntoArm
<1>8. CASE GivesUp
  <2>1. stack' = <<>> /\ ctl'.at # "call"
    BY <1>8 DEF GivesUp
  <2>2. Depth' = 0
    BY <2>1, EmptyList DEF Depth
  <2>3. KeepsActivations(0)
    BY DEF KeepsActivations
  <2>4. KeepsActivations(Depth')
    BY <2>2 DEF KeepsActivations
  <2> QED
    BY <1>1, <1>2, <2>1, <2>2, <2>4, DescendingKept
<1> QED
  BY <1>3, <1>4, <1>5, <1>6, <1>7, <1>8, StepCases

-----------------------------------------------------------------------------
(***************************************************************************)
(* The candidates before and after each way of changing the stack.         *)
(***************************************************************************)
Returned(d, list) == {At(<<d, "results", i>>, list[i].state) : i \in 1..Len(list)}

\* What an activation holds, for the site it drives.
HeldAt(d, site, act) == Todo(d, act.todo) \cup Arms(d, site, act.arms) \cup Done(d, act.done)

\* The candidate being called for, or those being returned.
LEMMA InHandParts ==
  /\ ctl.at = "call" => InHand = {At(<<Depth + 1, "call", 1>>, ctl.state)}
  /\ ctl.at = "return" => InHand = Returned(Depth + 1, ctl.results)
  /\ ctl.at \in {"run", "fail"} => InHand = {}
BY DEF InHand, Depth, Returned

\* The same after a step.
LEMMA InHandNext ==
  ASSUME NEW n, Depth' = n
  PROVE  /\ ctl'.at = "call" => InHand' = {At(<<n + 1, "call", 1>>, ctl'.state)}
         /\ ctl'.at = "return" => InHand' = Returned(n + 1, ctl'.results)
         /\ ctl'.at \in {"run", "fail"} => InHand' = {}
BY DEF InHand, Depth, Returned

\* The candidates, with those of the innermost activation list by list.
LEMMA LiveHere ==
  ASSUME Typed
  PROVE  /\ Live = InHand \cup HeldTo(Depth)
         /\ stack # <<>> => Live = InHand \cup HeldTo(Depth - 1) \cup HeldAt(Depth, topSite, top)
<1>1. Depth \in Nat
  BY ListElements DEF Typed, Depth
<1>2. ASSUME stack # <<>>
      PROVE  Live = InHand \cup HeldTo(Depth - 1) \cup HeldAt(Depth, topSite, top)
  <2>1. /\ Depth - 1 \in Nat /\ top = ActivationAt(Depth) /\ topSite = SiteOf(top)
    BY <1>2, TopActivation DEF Typed, topSite, SiteOf
  <2>2. Depth > 0
    BY <1>1, <2>1
  <2>3. Held(Depth, top) = HeldAt(Depth, topSite, top)
    BY <2>1, HeldParts DEF HeldAt
  <2> QED
    BY <1>1, <2>1, <2>2, <2>3, LiveParts
<1> QED
  BY <1>1, <1>2, LiveParts

\* The candidates after a step, given how deep the stack is.
LEMMA LiveNext ==
  ASSUME NEW n \in Nat
  PROVE  /\ Depth' = n => Live' = InHand' \cup HeldTo(n)'
         /\ Depth' = n + 1 => Live' = InHand' \cup HeldTo(n)' \cup Held(n + 1, ActivationAt(n + 1)')
<1>1. Depth' = n => Live' = InHand' \cup HeldTo(n)'
  BY DEF Live, HeldTo, Depth
<1>2. ASSUME Depth' = n + 1
      PROVE  Live' = InHand' \cup HeldTo(n)' \cup Held(n + 1, ActivationAt(n + 1)')
  <2>1. 1..(n + 1) = (1..n) \cup {n + 1}
    OBVIOUS
  <2>2. Live' = InHand' \cup UNION {Held(d, ActivationAt(d)') : d \in 1..(n + 1)}
    BY <1>2 DEF Live, Depth, Held, Waiting, Branches, Driven, PendingState, SiteOf, Site, Record,
                Inserted, At
  <2>3. HeldTo(n)' = UNION {Held(d, ActivationAt(d)') : d \in 1..n}
    BY DEF HeldTo, Held, Waiting, Branches, Driven, PendingState, SiteOf, Site, Record,
           Inserted, At
  <2> QED
    BY <2>1, <2>2, <2>3
<1> QED
  BY <1>1, <1>2

\* The innermost activation moved on.
LEMMA LiveReplaced ==
  ASSUME Typed, stack # <<>>, NEW act, stack' = <<act>> \o Tail(stack), SiteOf(act) = topSite
  PROVE  /\ Depth' = Depth
         /\ Live' = InHand' \cup HeldTo(Depth - 1) \cup HeldAt(Depth, topSite, act)
<1>1. /\ Depth' = Depth /\ KeepsActivations(Depth - 1) /\ ActivationAt(Depth)' = act
  BY Replaced DEF Typed
<1>2. PICK n \in Nat : n = Depth - 1 /\ Depth = n + 1
  <2>1. Depth - 1 \in Nat /\ Depth \in Nat
    BY TopActivation, ListElements DEF Typed, Depth
  <2>2. Depth = (Depth - 1) + 1
    BY <2>1
  <2> QED
    BY <2>1, <2>2
<1>3. HeldTo(n)' = HeldTo(n)
  BY <1>1, <1>2, KeptHold
<1>4. ActivationAt(n + 1)' = act
  BY <1>1, <1>2 DEF ActivationAt
<1>5. Live' = InHand' \cup HeldTo(n)' \cup Held(n + 1, act)
  BY <1>1, <1>2, <1>4, LiveNext
<1>6. Held(n + 1, act) = HeldAt(n + 1, topSite, act)
  BY HeldParts DEF HeldAt
<1> QED
  BY <1>1, <1>2, <1>3, <1>5, <1>6

\* An activation was pushed.
LEMMA LivePushed ==
  ASSUME Typed, NEW act, stack' = <<act>> \o stack
  PROVE  /\ Depth' = Depth + 1
         /\ Live' = InHand' \cup HeldTo(Depth) \cup HeldAt(Depth + 1, SiteOf(act), act)
<1>1. Depth' = Depth + 1 /\ KeepsActivations(Depth) /\ ActivationAt(Depth)' = act
  BY Pushed DEF Typed
<1>2. PICK n \in Nat : n = Depth
  BY ListElements DEF Typed, Depth
<1>3. HeldTo(n)' = HeldTo(n)
  BY <1>1, <1>2, KeptHold
<1>4. ActivationAt(n + 1)' = act
  BY <1>1, <1>2 DEF ActivationAt
<1>5. Live' = InHand' \cup HeldTo(n)' \cup Held(n + 1, act)
  BY <1>1, <1>2, <1>4, LiveNext
<1>6. Held(n + 1, act) = HeldAt(n + 1, SiteOf(act), act)
  BY HeldParts DEF HeldAt
<1> QED
  BY <1>1, <1>2, <1>3, <1>5, <1>6

\* The innermost activation was popped.
LEMMA LivePopped ==
  ASSUME Typed, stack # <<>>, stack' = Tail(stack)
  PROVE  Depth' = Depth - 1 /\ Live' = InHand' \cup HeldTo(Depth - 1)
<1>1. Depth' = Depth - 1 /\ KeepsActivations(Depth - 1)
  BY Popped DEF Typed
<1>2. PICK n \in Nat : n = Depth - 1
  BY TopActivation DEF Typed
<1>3. HeldTo(n)' = HeldTo(n)
  BY <1>1, <1>2, KeptHold
<1> QED
  BY <1>1, <1>2, <1>3, LiveNext

\* The stack is the same.
LEMMA LiveSame ==
  ASSUME Typed, stack' = stack
  PROVE  Depth' = Depth /\ Live' = InHand' \cup HeldTo(Depth)
<1>1. Depth' = Depth /\ KeepsActivations(Depth)
  BY DEF Depth, KeepsActivations, ActivationAt
<1>2. PICK n \in Nat : n = Depth
  BY ListElements DEF Typed, Depth
<1>3. HeldTo(n)' = HeldTo(n)
  BY <1>1, <1>2, KeptHold
<1> QED
  BY <1>1, <1>2, <1>3, LiveNext

\* The innermost activation moved on and an arm of it was pushed.
LEMMA LiveIntoArm ==
  ASSUME Typed, stack # <<>>, NEW under, NEW act,
         stack' = <<act>> \o (<<under>> \o Tail(stack)),
         SiteOf(under) = topSite, SiteOf(act) = topSite
  PROVE  /\ Depth' = Depth + 1
         /\ Live' = InHand' \cup HeldTo(Depth - 1) \cup HeldAt(Depth, topSite, under)
                      \cup HeldAt(Depth + 1, topSite, act)
<1>1. /\ Depth' = Depth + 1 /\ KeepsActivations(Depth - 1)
      /\ ActivationAt(Depth - 1)' = under /\ ActivationAt(Depth)' = act
  BY ReplacedAndPushed DEF Typed
<1>2. PICK n \in Nat : n = Depth - 1 /\ Depth = n + 1 /\ Depth + 1 = (n + 1) + 1
  <2>1. Depth - 1 \in Nat /\ Depth \in Nat
    BY TopActivation, ListElements DEF Typed, Depth
  <2>2. Depth = (Depth - 1) + 1
    BY <2>1
  <2> QED
    BY <2>1, <2>2
<1>3. HeldTo(n)' = HeldTo(n)
  BY <1>1, <1>2, KeptHold
<1>4. ActivationAt((n + 1) + 1)' = act /\ ActivationAt(n + 1)' = under
  <2>1. Depth' = (n + 1) + 1 /\ Depth' - 1 = n + 1
    BY <1>1, <1>2
  <2> QED
    BY <1>1, <2>1 DEF ActivationAt
<1>5. Live' = InHand' \cup HeldTo(n + 1)' \cup Held((n + 1) + 1, act)
  <2>1. n + 1 \in Nat /\ Depth' = (n + 1) + 1
    BY <1>1, <1>2
  <2>2. Live' = InHand' \cup HeldTo(n + 1)' \cup Held((n + 1) + 1, ActivationAt((n + 1) + 1)')
    BY <2>1, LiveNext
  <2> QED
    BY <1>4, <2>2
<1>6. HeldTo(n + 1)' = HeldTo(n)' \cup Held(n + 1, under)
  <2>1. 1..(n + 1) = (1..n) \cup {n + 1}
    OBVIOUS
  <2>2. /\ HeldTo(n)' = UNION {Held(d, ActivationAt(d)') : d \in 1..n}
        /\ HeldTo(n + 1)' = UNION {Held(d, ActivationAt(d)') : d \in 1..(n + 1)}
    BY DEF HeldTo, Held, Waiting, Branches, Driven, PendingState, SiteOf, Site, Record,
           Inserted, At
  <2> QED
    BY <1>4, <2>1, <2>2
<1>7. /\ Held((n + 1) + 1, act) = HeldAt((n + 1) + 1, topSite, act)
      /\ Held(n + 1, under) = HeldAt(n + 1, topSite, under)
  BY HeldParts DEF HeldAt
<1> QED
  BY <1>1, <1>2, <1>3, <1>5, <1>6, <1>7

-----------------------------------------------------------------------------
(***************************************************************************)
(* Every candidate after a step is the heir of one before it.              *)
(***************************************************************************)
\* The site of an activation that is gone, of which an heir remembers the outcome.
Settled(k, site) ==
  \/ site \in DOMAIN k.state.cache
  \/ \E e \in 1..Depth' : e <= k.place[1] /\ SiteAt(e)' = site

\* Candidate l of the state before lives on as candidate k.
Heir(k, l) ==
  /\ \A s \in DOMAIN l.state.trace :
       s \in DOMAIN k.state.trace /\ k.state.trace[s] = l.state.trace[s]
  /\ \A s \in DOMAIN k.state.trace :
       \/ s \in DOMAIN l.state.trace
       \/ Selecting /\ s = topSite /\ Depth <= k.place[1] /\ Depth <= Depth'
  /\ DOMAIN l.state.cache \subseteq DOMAIN k.state.cache
  /\ \A d \in 1..Depth : d <= k.place[1] => d <= l.place[1]
  /\ \A d \in 1..Depth : d <= l.place[1] =>
       IF d <= Depth' THEN d <= k.place[1] ELSE Settled(k, SiteAt(d))

\* Candidates that moved, and those that stayed where they were.
Moves(rest, o, n) ==
  /\ DOMAIN n = DOMAIN o
  /\ Live = rest \cup {o[i] : i \in DOMAIN o}
  /\ Live' = rest \cup {n[i] : i \in DOMAIN o}
  /\ \A i \in DOMAIN o : \A r \in rest : r.place # o[i].place
  /\ \A i, j \in DOMAIN o : i # j => o[i].place # o[j].place
  /\ \A r \in rest : Heir(r, r)
  /\ \A i \in DOMAIN o : Heir(n[i], o[i])

\* Whom each candidate is the heir of: two heirs of one candidate conflict.
Inherits(from) ==
  /\ \A k \in Live' : from[k] \in Live /\ Heir(k, from[k])
  /\ \A k, l \in Live' : k.place # l.place =>
       from[k].place # from[l].place \/ Splitting!Conflict(k.state, l.state)

\* When candidates move, each is the heir of one, and of different ones.
LEMMA MovesInherit ==
  ASSUME NEW rest, NEW o, NEW n, Moves(rest, o, n)
  PROVE  \E from : Inherits(from)
<1> DEFINE New(k) == \E i \in DOMAIN o : n[i] = k
           which(k) == CHOOSE i \in DOMAIN o : n[i] = k
           from == [k \in Live' |-> IF New(k) THEN o[which(k)] ELSE k]
<1>1. ASSUME NEW k \in Live'
      PROVE  \/ /\ k \in rest /\ from[k] = k
             \/ \E i \in DOMAIN o : k = n[i] /\ from[k] = o[i]
  <2>1. CASE New(k)
    <3>1. which(k) \in DOMAIN o /\ n[which(k)] = k
      BY <2>1
    <3>2. from[k] = o[which(k)]
      BY <2>1
    <3> QED
      BY <3>1, <3>2
  <2>2. CASE ~New(k)
    <3>1. k \in rest
      BY <2>2 DEF Moves
    <3>2. from[k] = k
      BY <2>2
    <3> QED
      BY <3>1, <3>2
  <2> QED
    BY <2>1, <2>2
<1> HIDE DEF from
<1>2. ASSUME NEW k \in Live' PROVE from[k] \in Live /\ Heir(k, from[k])
  BY <1>1 DEF Moves
<1>3. ASSUME NEW k \in Live', NEW l \in Live', k.place # l.place
      PROVE  from[k].place # from[l].place
  <2>1. CASE \E i \in DOMAIN o : k = n[i] /\ from[k] = o[i]
    <3>1. PICK i \in DOMAIN o : k = n[i] /\ from[k] = o[i]
      BY <2>1
    <3>2. CASE l \in rest /\ from[l] = l
      BY <3>1, <3>2 DEF Moves
    <3>3. CASE \E j \in DOMAIN o : l = n[j] /\ from[l] = o[j]
      BY <1>3, <3>1, <3>3 DEF Moves
    <3> QED
      BY <1>1, <3>2, <3>3
  <2>2. CASE k \in rest /\ from[k] = k
    <3>2. CASE l \in rest /\ from[l] = l
      BY <1>3, <2>2, <3>2
    <3>3. CASE \E j \in DOMAIN o : l = n[j] /\ from[l] = o[j]
      BY <2>2, <3>3 DEF Moves
    <3> QED
      BY <1>1, <3>2, <3>3
  <2> QED
    BY <1>1, <2>1, <2>2
<1> QED
  BY <1>2, <1>3 DEF Inherits

\* One candidate moved.
LEMMA OneMoves ==
  ASSUME NEW rest, NEW l, NEW k, Live = rest \cup {l}, Live' = rest \cup {k},
         \A r \in rest : r.place # l.place /\ Heir(r, r), Heir(k, l)
  PROVE  Moves(rest, [i \in {1} |-> l], [i \in {1} |-> k])
BY DEF Moves

\* A candidate that neither moves nor changes, below what a step takes away.
LEMMA StayedHeir ==
  ASSUME Depth \in Nat, NEW k, \A d \in 1..Depth : d <= k.place[1] => d <= Depth'
  PROVE  Heir(k, k)
BY DEF Heir

\* A candidate that moves with the selections it has.
LEMMA MovedHeir ==
  ASSUME NEW k, NEW l, k.state.trace = l.state.trace,
         DOMAIN l.state.cache \subseteq DOMAIN k.state.cache,
         \A d \in 1..Depth : d <= k.place[1] => d <= l.place[1],
         \A d \in 1..Depth : d <= l.place[1] =>
           (d <= Depth' /\ d <= k.place[1]) \/ (~(d <= Depth') /\ Settled(k, SiteAt(d)))
  PROVE  Heir(k, l)
BY DEF Heir

\* Two heirs conflict where those they are the heirs of do.
LEMMA HeirsConflict ==
  ASSUME NEW k, NEW l, NEW k0, NEW l0, Heir(k, k0), Heir(l, l0),
         Splitting!Conflict(k0.state, l0.state)
  PROVE  Splitting!Conflict(k.state, l.state)
<1>1. PICK s \in DOMAIN k0.state.trace \cap DOMAIN l0.state.trace :
        k0.state.trace[s] # l0.state.trace[s]
  BY DEF Splitting!Conflict
<1>2. /\ s \in DOMAIN k.state.trace /\ k.state.trace[s] = k0.state.trace[s]
      /\ s \in DOMAIN l.state.trace /\ l.state.trace[s] = l0.state.trace[s]
  BY <1>1 DEF Heir
<1> QED
  BY <1>1, <1>2 DEF Splitting!Conflict

\* Any two candidates still conflict.
LEMMA ConflictInherited ==
  ASSUME CandidatesConflict, NEW from, Inherits(from)
  PROVE  CandidatesConflict'
<1>1. ASSUME NEW k \in Live', NEW l \in Live', k.place # l.place
      PROVE  Splitting!Conflict(k.state, l.state)
  <2>1. /\ from[k] \in Live /\ Heir(k, from[k]) /\ from[l] \in Live /\ Heir(l, from[l])
        /\ from[k].place # from[l].place \/ Splitting!Conflict(k.state, l.state)
    BY <1>1 DEF Inherits
  <2>2. CASE from[k].place # from[l].place
    <3>1. Splitting!Conflict(from[k].state, from[l].state)
      BY <2>1, <2>2 DEF CandidatesConflict
    <3> QED
      BY <2>1, <3>1, HeirsConflict
  <2> QED
    BY <2>1, <2>2
<1> QED
  BY <1>1 DEF CandidatesConflict, Splitting!Conflict

\* The sites of the activations that a step keeps.
SitesStay == \A d \in 1..Depth : d <= Depth' => SiteAt(d)' = SiteAt(d)

\* What a candidate has selected is still remembered or driven.
LEMMA RememberedInherited ==
  ASSUME Typed, Remembered, Depth' \in Nat, SitesStay, NEW from, Inherits(from)
  PROVE  Remembered'
<1>1. ASSUME NEW k \in Live', NEW site \in DOMAIN k.state.trace
      PROVE  Settled(k, site)
  <2> DEFINE l == from[k]
  <2>1. l \in Live /\ Heir(k, l)
    BY DEF Inherits
  <2> HIDE DEF l
  <2>2. CASE site \notin DOMAIN l.state.trace
    <3>1. Selecting /\ site = topSite /\ Depth <= k.place[1] /\ Depth <= Depth'
      BY <2>1, <2>2 DEF Heir
    <3>2. stack # <<>>
      BY <3>1, SelectingFacts
    <3>3. Depth \in 1..Depth /\ topSite = SiteAt(Depth) /\ Depth \in Nat /\ Depth >= 1
      BY <3>2, TopActivation DEF Typed
    <3>4. \E e \in 1..Depth' : e <= k.place[1] /\ SiteAt(e)' = site
      <4>1. PICK e : e = Depth
        OBVIOUS
      <4>2. e \in 1..Depth /\ e <= Depth' /\ e <= k.place[1] /\ SiteAt(e) = site
        BY <3>1, <3>3, <4>1
      <4>3. SiteAt(e)' = site /\ e \in 1..Depth'
        BY <4>2 DEF SitesStay
      <4> QED
        BY <4>2, <4>3
    <3> QED
      BY <3>4 DEF Settled
  <2>3. CASE site \in DOMAIN l.state.cache
    BY <2>1, <2>3 DEF Heir, Settled
  <2>4. ASSUME NEW d \in 1..Depth, d <= l.place[1], SiteAt(d) = site
        PROVE  Settled(k, site)
    <3>1. CASE d <= Depth'
      <4>1. d <= k.place[1] /\ SiteAt(d)' = site /\ d \in 1..Depth'
        BY <2>1, <2>4, <3>1 DEF Heir, SitesStay
      <4> QED
        BY <4>1 DEF Settled
    <3>2. CASE ~(d <= Depth')
      BY <2>1, <2>4, <3>2 DEF Heir
    <3> QED
      BY <3>1, <3>2
  <2> QED
    BY <2>1, <2>2, <2>3, <2>4 DEF Remembered, Depth
<1> QED
  BY <1>1 DEF Remembered, Settled, Depth

-----------------------------------------------------------------------------
(***************************************************************************)
(* Steps that pass candidates on with the guards and traces they have.     *)
(***************************************************************************)
Passes(rest, o, n) ==
  /\ Moves(rest, o, n)
  /\ \A i \in DOMAIN o : Candidate(n[i].state) = Candidate(o[i].state) /\ o[i].place[2] # "arms"

\* One candidate is passed on.
LEMMA OnePasses ==
  ASSUME NEW rest, NEW l, NEW k, Live = rest \cup {l}, Live' = rest \cup {k},
         \A r \in rest : r.place # l.place /\ Heir(r, r), Heir(k, l),
         k.state.guard = l.state.guard, k.state.trace = l.state.trace, l.place[2] # "arms"
  PROVE  \E r, o, n : Passes(r, o, n)
<1> DEFINE o == [i \in {1} |-> l]
           n == [i \in {1} |-> k]
<1>1. Moves(rest, o, n)
  BY OneMoves
<1>2. \A i \in DOMAIN o : Candidate(n[i].state) = Candidate(o[i].state) /\ o[i].place[2] # "arms"
  BY DEF Candidate
<1> HIDE DEF o, n
<1> QED
  BY <1>1, <1>2 DEF Passes

\* The places of what an activation holds, and of the rest.
LEMMA RestPlaces ==
  ASSUME Depth \in Nat, NEW m \in Nat, NEW r, r \in HeldTo(m)
  PROVE  r.place[1] \in Nat /\ r.place[1] <= m
BY HeldPlaces

\* Where the candidates of an activation are.
LEMMA HeldAtPlaces ==
  ASSUME NEW d, NEW site, NEW act, NEW r, r \in HeldAt(d, site, act)
  PROVE  r.place[1] = d /\ r.place[2] \in {"todo", "arms", "done"}
BY HeldPlaces DEF HeldAt

\* One candidate, returned or driven.
LEMMA OneAlone ==
  ASSUME NEW d, NEW list, Len(list) = 1
  PROVE  /\ Returned(d, list) = {At(<<d, "results", 1>>, list[1].state)}
         /\ Done(d, list) = {At(<<d, "done", 1>>, list[1].state)}
<1>1. 1..1 = {1}
  OBVIOUS
<1> QED
  BY <1>1 DEF Returned, Done

\* A call is answered.
LEMMA AnswersPass ==
  ASSUME Typed, Answers
  PROVE  (\E r, o, n : Passes(r, o, n)) /\ Depth' = Depth
<1> DEFINE rest == HeldTo(Depth)
           l == At(<<Depth + 1, "call", 1>>, ctl.state)
           k == At(<<Depth + 1, "results", 1>>, ctl'.results[1].state)
<1>1. Depth \in Nat
  BY ListElements DEF Typed, Depth
<1>2. /\ ctl.at = "call" /\ ctl'.at = "return" /\ Len(ctl'.results) = 1 /\ stack' = stack
      /\ ctl'.results[1].state.guard = ctl.state.guard
      /\ ctl'.results[1].state.trace = ctl.state.trace
      /\ DOMAIN ctl.state.cache \subseteq DOMAIN ctl'.results[1].state.cache
  BY DEF Answers
<1>3. Live = rest \cup {l}
  BY <1>2, InHandParts, LiveHere
<1>4. Depth' = Depth /\ Live' = InHand' \cup rest
  BY <1>2, LiveSame
<1>5. InHand' = Returned(Depth + 1, ctl'.results)
  BY <1>2, <1>4, InHandNext
<1>6. Live' = rest \cup {k}
  BY <1>2, <1>4, <1>5, OneAlone
<1>7. ASSUME NEW r \in rest PROVE r.place # l.place /\ Heir(r, r)
  <2>1. r.place[1] \in Nat /\ r.place[1] <= Depth
    BY <1>1, <1>7, RestPlaces
  <2>2. r.place[1] # l.place[1]
    BY <1>1, <2>1 DEF At
  <2>3. \A d \in 1..Depth : d <= Depth'
    BY <1>1, <1>4
  <2> QED
    BY <1>1, <2>2, <2>3, StayedHeir
<1>8. /\ k.state = ctl'.results[1].state /\ l.state = ctl.state
      /\ k.place[1] = Depth + 1 /\ l.place[1] = Depth + 1 /\ l.place[2] = "call"
  BY DEF At
<1>9. Heir(k, l)
  <2>1. \A d \in 1..Depth : d <= Depth' /\ d <= k.place[1] /\ d <= l.place[1]
    BY <1>1, <1>4, <1>8
  <2> HIDE DEF k, l
  <2> QED
    BY <1>2, <1>8, <2>1, MovedHeir
<1> HIDE DEF rest, k, l
<1> QED
  BY <1>2, <1>3, <1>4, <1>6, <1>7, <1>8, <1>9, OnePasses

\* A node is entered.
LEMMA EntersPass ==
  ASSUME Typed, Enters
  PROVE  (\E r, o, n : Passes(r, o, n)) /\ Depth' = Depth + 1
<1> DEFINE rest == HeldTo(Depth)
           l == At(<<Depth + 1, "call", 1>>, ctl.state)
           k == At(<<Depth + 1, "done", 1>>, Entered.done[1].state)
<1>1. Depth \in Nat
  BY ListElements DEF Typed, Depth
<1>2. /\ ctl.at = "call" /\ ctl'.at = "run" /\ stack' = <<Entered>> \o stack
      /\ Entered.todo = <<>> /\ Entered.arms = <<>>
      /\ Len(Entered.done) = 1 /\ Entered.done[1].state = ctl.state
  BY DEF Enters
<1>3. Live = rest \cup {l}
  BY <1>2, InHandParts, LiveHere
<1>4. /\ Depth' = Depth + 1
      /\ Live' = InHand' \cup rest \cup HeldAt(Depth + 1, SiteOf(Entered), Entered)
  BY <1>2, LivePushed
<1>5. InHand' = {}
  BY <1>2, <1>4, InHandNext
<1>6. HeldAt(Depth + 1, SiteOf(Entered), Entered) = {k}
  BY <1>2, OneAlone, EmptyParts DEF HeldAt
<1>7. Live' = rest \cup {k}
  BY <1>4, <1>5, <1>6
<1>8. ASSUME NEW r \in rest PROVE r.place # l.place /\ Heir(r, r)
  <2>1. r.place[1] \in Nat /\ r.place[1] <= Depth
    BY <1>1, <1>8, RestPlaces
  <2>2. r.place[1] # l.place[1]
    BY <1>1, <2>1 DEF At
  <2>3. \A d \in 1..Depth : d <= Depth'
    BY <1>1, <1>4
  <2> QED
    BY <1>1, <2>2, <2>3, StayedHeir
<1>9. /\ k.state = ctl.state /\ l.state = ctl.state
      /\ k.place[1] = Depth + 1 /\ l.place[1] = Depth + 1 /\ l.place[2] = "call"
  BY <1>2 DEF At
<1>10. Heir(k, l)
  <2>1. \A d \in 1..Depth : d <= Depth' /\ d <= k.place[1] /\ d <= l.place[1]
    BY <1>1, <1>4, <1>9
  <2> HIDE DEF k, l
  <2> QED
    BY <1>9, <2>1, MovedHeir
<1> HIDE DEF rest, k, l
<1> QED
  BY <1>3, <1>4, <1>7, <1>8, <1>9, <1>10, OnePasses

\* A partial is taken.
LEMMA CallsPass ==
  ASSUME Typed, Calls
  PROVE  (\E r, o, n : Passes(r, o, n)) /\ Depth' = Depth
<1> DEFINE new == Moved(top, top.stage, Tail(top.todo), Head(top.todo).values,
                        top.done, top.arms)
           rest == HeldTo(Depth - 1) \cup HeldAt(Depth, topSite, new)
           l == At(<<Depth, "todo", Len(top.todo) - 1>>, Head(top.todo).state)
           k == At(<<Depth + 1, "call", 1>>, ctl'.state)
<1>1. /\ ctl.at = "run" /\ stack # <<>> /\ top.todo # <<>> /\ ctl'.at = "call"
      /\ ctl'.state = Head(top.todo).state /\ stack' = <<new>> \o Tail(stack)
  BY DEF Calls
<1>2. Depth - 1 \in Nat /\ Depth \in Nat
  BY <1>1, TopActivation, ListElements DEF Typed, Depth
<1>3. /\ SiteOf(new) = topSite /\ new.todo = Tail(top.todo)
      /\ new.done = top.done /\ new.arms = top.arms
  BY MovedSite
<1>4. /\ Todo(Depth, top.todo) = {l} \cup Todo(Depth, Tail(top.todo))
      /\ \A r \in Todo(Depth, Tail(top.todo)) : r.place # l.place
  <2>1. IsList(top.todo) /\ top.todo # <<>>
    BY <1>1, TopFacts
  <2> QED
    BY <2>1, TodoParts
<1>5. l.state = Head(top.todo).state /\ l.place[1] = Depth /\ l.place[2] = "todo"
      /\ k.state = Head(top.todo).state /\ k.place[1] = Depth + 1
  BY <1>1 DEF At
<1> HIDE DEF new, l
<1>6. Live = rest \cup {l}
  BY <1>1, <1>3, <1>4, InHandParts, LiveHere DEF HeldAt
<1>7. Depth' = Depth /\ Live' = InHand' \cup rest
  BY <1>1, <1>3, LiveReplaced
<1>8. Live' = rest \cup {k}
  BY <1>1, <1>7, InHandNext
<1>9. ASSUME NEW r \in rest PROVE r.place # l.place /\ Heir(r, r)
  <2>1. ASSUME r \in HeldTo(Depth - 1) PROVE r.place # l.place
    <3>1. r.place[1] \in Nat /\ r.place[1] <= Depth - 1
      BY <1>2, <2>1, RestPlaces
    <3> QED
      BY <1>2, <1>5, <3>1
  <2>2. ASSUME r \in HeldAt(Depth, topSite, new) PROVE r.place # l.place
    <3>1. r \in Todo(Depth, Tail(top.todo)) \/ r.place[2] # "todo"
      BY <1>3, <2>2, HeldPlaces DEF HeldAt
    <3> QED
      BY <1>4, <1>5, <3>1
  <2>3. \A d \in 1..Depth : d <= Depth'
    BY <1>2, <1>7
  <2>4. Heir(r, r)
    BY <1>2, <2>3, StayedHeir
  <2> QED
    BY <1>9, <2>1, <2>2, <2>4
<1>10. Heir(k, l)
  <2>1. \A d \in 1..Depth : d <= Depth' /\ d <= k.place[1] /\ d <= l.place[1]
    BY <1>2, <1>5, <1>7
  <2> HIDE DEF k
  <2> QED
    BY <1>5, <2>1, MovedHeir
<1> HIDE DEF rest, k
<1> QED
  BY <1>5, <1>6, <1>7, <1>8, <1>9, <1>10, OnePasses

\* What was evaluated is driven.
LEMMA DeliversPass ==
  ASSUME Typed, Delivers
  PROVE  (\E r, o, n : Passes(r, o, n)) /\ Depth' = Depth
<1> DEFINE new == Moved(top, top.stage, top.todo, top.current,
                        top.done \o Delivered, top.arms)
           rest == HeldTo(Depth)
           count == Len(ctl.results)
           o == [i \in 1..count |-> At(<<Depth + 1, "results", i>>, ctl.results[i].state)]
           n == [i \in 1..count |->
                   At(<<Depth, "done", Len(top.done) + i>>, Delivered[i].state)]
<1>1. /\ ctl.at = "return" /\ stack # <<>> /\ ctl'.at = "run" /\ stack' = <<new>> \o Tail(stack)
  BY DEF Delivers
<1>2. Depth - 1 \in Nat /\ Depth \in Nat /\ count \in Nat
  BY <1>1, TopActivation, ListElements DEF Typed, ControlOK, Depth
<1>3. /\ SiteOf(new) = topSite /\ new.todo = top.todo /\ new.arms = top.arms
      /\ new.done = top.done \o Delivered
  <2>1. PICK done : done = top.done \o Delivered
    OBVIOUS
  <2>2. new = Moved(top, top.stage, top.todo, top.current, done, top.arms)
    BY <2>1
  <2> HIDE DEF new
  <2>3. SiteOf(new) = topSite /\ new.todo = top.todo /\ new.arms = top.arms /\ new.done = done
    BY <2>2, MovedSite
  <2> QED
    BY <2>1, <2>3
<1>4. /\ Len(Delivered) = count /\ IsList(Delivered)
      /\ \A i \in 1..count : Delivered[i].state = ctl.results[i].state
  <2>1. Delivered = [i \in 1..count |->
                       Partial(ctl.results[i].state, Extend(top, ctl.results[i].value))]
    BY DEF Delivered
  <2> HIDE DEF count
  <2>2. Len(Delivered) = count /\ IsList(Delivered)
    BY <1>2, <2>1, MakeList
  <2>3. \A i \in 1..count : Delivered[i].state = ctl.results[i].state
    BY <2>1 DEF Partial
  <2> QED
    BY <2>2, <2>3
<1> HIDE DEF new
<1>5. Done(Depth, new.done) = Done(Depth, top.done) \cup {n[i] : i \in DOMAIN o}
  <2>1. IsList(top.done)
    BY <1>1, TopFacts
  <2>2. Done(Depth, top.done \o Delivered) = Done(Depth, top.done) \cup
          {At(<<Depth, "done", Len(top.done) + i>>, Delivered[i].state) : i \in 1..Len(Delivered)}
    <3>1. PICK more : more = Delivered
      OBVIOUS
    <3>2. PICK list : list = top.done
      OBVIOUS
    <3>3. IsList(list) /\ IsList(more)
      BY <1>4, <2>1, <3>1, <3>2
    <3>4. Done(Depth, list \o more) = Done(Depth, list) \cup
            {At(<<Depth, "done", Len(list) + i>>, more[i].state) : i \in 1..Len(more)}
      BY <3>3, DoneParts
    <3> QED
      BY <3>1, <3>2, <3>4
  <2> QED
    BY <1>3, <1>4, <2>2
<1>6. Live = rest \cup {o[i] : i \in DOMAIN o}
  <2>1. InHand = {o[i] : i \in DOMAIN o}
    BY <1>1, InHandParts DEF Returned
  <2> QED
    BY <2>1, LiveHere
<1>7. rest = HeldTo(Depth - 1) \cup HeldAt(Depth, topSite, top)
  <2>1. /\ Depth > 0 /\ (Depth - 1) + 1 = Depth
        /\ top = ActivationAt(Depth) /\ topSite = SiteOf(top)
    BY <1>1, <1>2, TopActivation DEF Typed, topSite, SiteOf
  <2>2. HeldTo((Depth - 1) + 1) =
          HeldTo(Depth - 1) \cup Held((Depth - 1) + 1, ActivationAt((Depth - 1) + 1))
    BY <1>2, HeldUpTo
  <2>3. HeldTo(Depth) = HeldTo(Depth - 1) \cup Held(Depth, top)
    BY <2>1, <2>2
  <2> QED
    BY <2>1, <2>3, HeldParts DEF HeldAt
<1>8. /\ Depth' = Depth
      /\ Live' = InHand' \cup HeldTo(Depth - 1) \cup HeldAt(Depth, topSite, new)
  BY <1>1, <1>3, LiveReplaced
<1>9. InHand' = {}
  BY <1>1, <1>8, InHandNext
<1>10. Live' = rest \cup {n[i] : i \in DOMAIN o}
  <2> HIDE DEF o, n, rest
  <2> QED
    BY <1>3, <1>5, <1>7, <1>8, <1>9 DEF HeldAt
<1>11. DOMAIN o = 1..count /\ DOMAIN n = 1..count
  OBVIOUS
<1>12. ASSUME NEW i \in 1..count
       PROVE  /\ o[i].place = <<Depth + 1, "results", i>> /\ o[i].state = ctl.results[i].state
              /\ n[i].place = <<Depth, "done", Len(top.done) + i>>
              /\ n[i].state = ctl.results[i].state
  BY <1>4 DEF At
<1> HIDE DEF o, n
<1>13. ASSUME NEW i \in 1..count PROVE Heir(n[i], o[i])
  <2>1. n[i].state = o[i].state /\ n[i].place[1] = Depth /\ o[i].place[1] = Depth + 1
    BY <1>12
  <2>2. \A d \in 1..Depth : d <= Depth' /\ d <= n[i].place[1] /\ d <= o[i].place[1]
    BY <1>2, <1>8, <2>1
  <2> QED
    BY <2>1, <2>2, MovedHeir
<1>14. ASSUME NEW r \in rest PROVE Heir(r, r) /\ \A i \in 1..count : r.place # o[i].place
  <2>1. r.place[1] \in Nat /\ r.place[1] <= Depth
    BY <1>2, <1>14, RestPlaces
  <2>2. \A d \in 1..Depth : d <= Depth'
    BY <1>2, <1>8
  <2>3. Heir(r, r)
    BY <1>2, <2>2, StayedHeir
  <2>4. ASSUME NEW i \in 1..count PROVE r.place # o[i].place
    <3>1. o[i].place[1] = Depth + 1
      BY <1>12
    <3> QED
      BY <1>2, <2>1, <3>1
  <2> QED
    BY <2>3, <2>4
<1>15. \A i, j \in 1..count : i # j => o[i].place # o[j].place
  BY <1>12
<1> HIDE DEF rest, count
<1>16. Moves(rest, o, n)
  BY <1>6, <1>10, <1>11, <1>13, <1>14, <1>15 DEF Moves
<1>17. \A i \in DOMAIN o : Candidate(n[i].state) = Candidate(o[i].state) /\ o[i].place[2] # "arms"
  BY <1>11, <1>12
<1> QED
  BY <1>8, <1>16, <1>17 DEF Passes

\* The candidates of a list that is driven next.
LEMMA AdvancesPass ==
  ASSUME Typed, Advances
  PROVE  (\E r, o, n : Passes(r, o, n)) /\ Depth' = Depth
<1> DEFINE new == Moved(top, top.stage + 1, top.done, top.current, <<>>, top.arms)
           rest == HeldTo(Depth - 1)
           count == Len(top.done)
           o == [i \in 1..count |-> At(<<Depth, "done", i>>, top.done[i].state)]
           n == [i \in 1..count |-> At(<<Depth, "todo", count - i>>, top.done[i].state)]
<1>1. /\ ctl.at = "run" /\ ctl'.at = "run" /\ stack # <<>> /\ stack' = <<new>> \o Tail(stack)
      /\ top.todo = <<>> /\ top.arms = <<>>
  BY DEF Advances
<1>2. Depth - 1 \in Nat /\ Depth \in Nat /\ count \in Nat
  BY <1>1, TopActivation, ListElements, TopFacts DEF Typed, Depth
<1>3. /\ SiteOf(new) = topSite /\ new.todo = top.done /\ new.arms = <<>> /\ new.done = <<>>
  BY <1>1, MovedSite
<1> HIDE DEF new
<1>4. HeldAt(Depth, topSite, top) = {o[i] : i \in DOMAIN o}
  <2>1. HeldAt(Depth, topSite, top) = Done(Depth, top.done)
    BY <1>1, EmptyParts DEF HeldAt
  <2> QED
    BY <2>1 DEF Done
<1>5. HeldAt(Depth, topSite, new) = {n[i] : i \in DOMAIN o}
  <2>1. HeldAt(Depth, topSite, new) = Todo(Depth, top.done)
    BY <1>3, EmptyParts DEF HeldAt
  <2> QED
    BY <2>1 DEF Todo
<1>6. Live = rest \cup {o[i] : i \in DOMAIN o}
  BY <1>1, <1>4, InHandParts, LiveHere
<1>7. /\ Depth' = Depth
      /\ Live' = InHand' \cup HeldTo(Depth - 1) \cup HeldAt(Depth, topSite, new)
  BY <1>1, <1>3, LiveReplaced
<1>8. InHand' = {}
  BY <1>1, <1>7, InHandNext
<1>9. Live' = rest \cup {n[i] : i \in DOMAIN o}
  BY <1>5, <1>7, <1>8
<1>10. DOMAIN o = 1..count /\ DOMAIN n = 1..count
  OBVIOUS
<1>11. ASSUME NEW i \in 1..count
       PROVE  /\ o[i].place = <<Depth, "done", i>> /\ o[i].state = top.done[i].state
              /\ n[i].place = <<Depth, "todo", count - i>> /\ n[i].state = top.done[i].state
  BY DEF At
<1> HIDE DEF o, n
<1>12. ASSUME NEW i \in 1..count PROVE Heir(n[i], o[i])
  <2>1. n[i].state = o[i].state /\ n[i].place[1] = Depth /\ o[i].place[1] = Depth
    BY <1>11
  <2>2. \A d \in 1..Depth : d <= Depth' /\ d <= n[i].place[1] /\ d <= o[i].place[1]
    BY <1>2, <1>7, <2>1
  <2> QED
    BY <2>1, <2>2, MovedHeir
<1>13. ASSUME NEW r \in rest PROVE Heir(r, r) /\ \A i \in 1..count : r.place # o[i].place
  <2>1. r.place[1] \in Nat /\ r.place[1] <= Depth - 1
    BY <1>2, <1>13, RestPlaces
  <2>2. \A d \in 1..Depth : d <= Depth'
    BY <1>2, <1>7
  <2>3. Heir(r, r)
    BY <1>2, <2>2, StayedHeir
  <2>4. ASSUME NEW i \in 1..count PROVE r.place # o[i].place
    <3>1. o[i].place[1] = Depth
      BY <1>11
    <3> QED
      BY <1>2, <2>1, <3>1
  <2> QED
    BY <2>3, <2>4
<1>14. \A i, j \in 1..count : i # j => o[i].place # o[j].place
  BY <1>11
<1> HIDE DEF rest, count
<1>15. Moves(rest, o, n)
  BY <1>6, <1>9, <1>10, <1>12, <1>13, <1>14 DEF Moves
<1>16. \A i \in DOMAIN o : Candidate(n[i].state) = Candidate(o[i].state) /\ o[i].place[2] # "arms"
  BY <1>10, <1>11
<1> QED
  BY <1>7, <1>15, <1>16 DEF Passes

\* What was driven is returned: the site is in every memo table, or its selection's.
LEMMA FinishesPass ==
  ASSUME Typed, Descending, Finishes
  PROVE  (\E r, o, n : Passes(r, o, n)) /\ Depth' = Depth - 1
<1> DEFINE rest == HeldTo(Depth - 1)
           count == Len(top.done)
           o == [i \in 1..count |-> At(<<Depth, "done", i>>, top.done[i].state)]
           n == [i \in 1..count |-> At(<<Depth, "results", i>>, ctl'.results[i].state)]
<1>1. /\ ctl.at = "run" /\ ctl'.at = "return" /\ stack # <<>> /\ stack' = Tail(stack)
      /\ top.todo = <<>> /\ top.arms = <<>> /\ Len(ctl'.results) = count
      /\ \A i \in 1..count : Keeps(top.done[i].state, ctl'.results[i].state)
  BY DEF Finishes
<1>2. Depth - 1 \in Nat /\ Depth \in Nat /\ count \in Nat /\ (Depth - 1) + 1 = Depth
  BY <1>1, TopActivation, ListElements, TopFacts DEF Typed, Depth
<1>3. HeldAt(Depth, topSite, top) = {o[i] : i \in DOMAIN o}
  <2>1. HeldAt(Depth, topSite, top) = Done(Depth, top.done)
    BY <1>1, EmptyParts DEF HeldAt
  <2> QED
    BY <2>1 DEF Done
<1>4. Live = rest \cup {o[i] : i \in DOMAIN o}
  BY <1>1, <1>3, InHandParts, LiveHere
<1>5. Depth' = Depth - 1 /\ Live' = InHand' \cup HeldTo(Depth - 1)
  BY <1>1, LivePopped
<1>6. InHand' = {n[i] : i \in DOMAIN o}
  <2>1. InHand' = Returned((Depth - 1) + 1, ctl'.results)
    BY <1>1, <1>5, InHandNext
  <2>2. InHand' = Returned(Depth, ctl'.results)
    BY <1>2, <2>1
  <2> QED
    BY <1>1, <2>2 DEF Returned
<1>7. Live' = rest \cup {n[i] : i \in DOMAIN o}
  BY <1>5, <1>6
<1>8. DOMAIN o = 1..count /\ DOMAIN n = 1..count
  OBVIOUS
<1>9. ASSUME NEW i \in 1..count
      PROVE  /\ o[i].place = <<Depth, "done", i>> /\ o[i].state = top.done[i].state
             /\ n[i].place = <<Depth, "results", i>> /\ n[i].state = ctl'.results[i].state
  BY DEF At
<1> HIDE DEF o, n
<1>10. ASSUME NEW i \in 1..count PROVE Settled(n[i], topSite)
  <2>1. CASE top.arm
    <3>1. Depth \in 1..Depth /\ top = ActivationAt(Depth) /\ topSite = SiteAt(Depth)
      BY <1>1, TopActivation DEF Typed
    <3>2. Depth > 1 /\ SiteAt(Depth) = SiteAt(Depth - 1)
      BY <2>1, <3>1 DEF Descending, Depth
    <3>3. PICK e : e = Depth - 1
      OBVIOUS
    <3>4. KeepsActivations(Depth - 1)
      BY <1>1, Popped DEF Typed
    <3>5. e \in 1..(Depth - 1) /\ e \in 1..Depth'
      BY <1>2, <1>5, <3>2, <3>3
    <3>6. SiteAt(e)' = SiteAt(e)
      <4>1. ActivationAt(e)' = ActivationAt(e)
        BY <3>4, <3>5 DEF KeepsActivations
      <4> QED
        BY <4>1 DEF SiteAt, SiteOf, Site
    <3>7. SiteAt(e)' = topSite
      BY <3>1, <3>2, <3>3, <3>6
    <3>8. e <= n[i].place[1]
      <4>1. n[i].place[1] = Depth
        BY <1>9
      <4> QED
        BY <1>2, <3>3, <4>1
    <3> QED
      BY <3>5, <3>7, <3>8 DEF Settled
  <2>2. CASE ~top.arm
    <3>1. topSite \in DOMAIN n[i].state.cache
      BY <1>1, <1>9, <2>2 DEF Keeps
    <3> QED
      BY <3>1 DEF Settled
  <2> QED
    BY <2>1, <2>2
<1>11. ASSUME NEW i \in 1..count PROVE Heir(n[i], o[i])
  <2>1. /\ n[i].state.trace = o[i].state.trace
        /\ DOMAIN o[i].state.cache \subseteq DOMAIN n[i].state.cache
        /\ n[i].place[1] = Depth /\ o[i].place[1] = Depth
    <3>1. /\ o[i].place = <<Depth, "done", i>> /\ o[i].state = top.done[i].state
          /\ n[i].place = <<Depth, "results", i>> /\ n[i].state = ctl'.results[i].state
      BY <1>9
    <3>2. /\ ctl'.results[i].state.trace = top.done[i].state.trace
          /\ DOMAIN top.done[i].state.cache \subseteq DOMAIN ctl'.results[i].state.cache
      BY <1>1 DEF Keeps
    <3> QED
      BY <3>1, <3>2
  <2>2. topSite = SiteAt(Depth)
    BY <1>1, TopActivation DEF Typed
  <2>3. Settled(n[i], SiteAt(Depth))
    BY <1>10, <2>2
  <2>4. \A d \in 1..Depth : /\ d <= n[i].place[1] /\ d <= o[i].place[1]
                            /\ d <= Depth' \/ (~(d <= Depth') /\ d = Depth)
    BY <1>2, <1>5, <2>1
  <2> QED
    BY <2>1, <2>3, <2>4, MovedHeir
<1>12. ASSUME NEW r \in rest PROVE Heir(r, r) /\ \A i \in 1..count : r.place # o[i].place
  <2>1. r.place[1] \in Nat /\ r.place[1] <= Depth - 1
    BY <1>2, <1>12, RestPlaces
  <2>2. \A d \in 1..Depth : d <= r.place[1] => d <= Depth'
    BY <1>2, <1>5, <2>1
  <2>3. Heir(r, r)
    BY <1>2, <2>2, StayedHeir
  <2>4. ASSUME NEW i \in 1..count PROVE r.place # o[i].place
    <3>1. o[i].place[1] = Depth
      BY <1>9
    <3> QED
      BY <1>2, <2>1, <3>1
  <2> QED
    BY <2>3, <2>4
<1>13. \A i, j \in 1..count : i # j => o[i].place # o[j].place
  BY <1>9
<1>14. ASSUME NEW i \in 1..count
       PROVE  Candidate(n[i].state) = Candidate(o[i].state) /\ o[i].place[2] # "arms"
  <2>1. /\ o[i].place = <<Depth, "done", i>> /\ o[i].state = top.done[i].state
        /\ n[i].state = ctl'.results[i].state
    BY <1>9
  <2>2. /\ ctl'.results[i].state.trace = top.done[i].state.trace
        /\ ctl'.results[i].state.guard = top.done[i].state.guard
    BY <1>1 DEF Keeps
  <2>3. o[i].place[2] = "done"
    BY <2>1
  <2> QED
    BY <2>1, <2>2, <2>3 DEF Candidate
<1> HIDE DEF rest, count
<1>15. Moves(rest, o, n)
  BY <1>4, <1>7, <1>8, <1>11, <1>12, <1>13 DEF Moves
<1>16. \A i \in DOMAIN o : Candidate(n[i].state) = Candidate(o[i].state) /\ o[i].place[2] # "arms"
  BY <1>8, <1>14
<1> HIDE DEF o, n
<1>17. Passes(rest, o, n)
  BY <1>15, <1>16 DEF Passes
<1> QED
  BY <1>5, <1>17

-----------------------------------------------------------------------------
(***************************************************************************)
(* Steps that resolve a selection for a candidate.                         *)
(***************************************************************************)
\* What recording an outcome changes of a candidate.
LEMMA RecordedState ==
  ASSUME NEW state, StateOK(state), NEW site, NEW outcome,
         NEW new, new = Record(state, site, outcome)
  PROVE  /\ new.guard = state.guard /\ new.never = state.never /\ new.cache = state.cache
         /\ DOMAIN new.trace = DOMAIN state.trace \cup {site} /\ new.trace[site] = outcome
         /\ \A s \in DOMAIN state.trace : s # site => new.trace[s] = state.trace[s]
         /\ new.trace = Inserted(state.trace, site, outcome)
<1>1. new = [guard |-> state.guard, never |-> state.never,
             trace |-> Inserted(state.trace, site, outcome), cache |-> state.cache]
  BY DEF Record, StateOK
<1>2. new.trace = Inserted(state.trace, site, outcome)
  BY <1>1
<1>3. /\ DOMAIN new.trace = DOMAIN state.trace \cup {site} /\ new.trace[site] = outcome
      /\ \A s \in DOMAIN state.trace : s # site => new.trace[s] = state.trace[s]
  <2>1. PICK f : f = state.trace
    OBVIOUS
  <2>2. PICK g : g = Inserted(f, site, outcome)
    OBVIOUS
  <2>3. /\ DOMAIN g = DOMAIN f \cup {site} /\ g[site] = outcome
        /\ \A s \in DOMAIN f : s # site => g[s] = f[s]
    BY <2>2 DEF Inserted
  <2>4. new.trace = g
    BY <1>2, <2>1, <2>2
  <2> QED
    BY <2>1, <2>3, <2>4
<1> QED
  BY <1>1, <1>2, <1>3

\* What guarding a candidate changes of it.
LEMMA GuardedState ==
  ASSUME NEW state, StateOK(state), NEW arm, arm.never \in BOOLEAN, arm.never => arm.when = {},
         NEW new, new = Guarded(state, arm)
  PROVE  /\ StateOK(new)
         /\ new.guard = state.guard \cap arm.when /\ new.never = (state.never \/ arm.never)
         /\ new.trace = state.trace /\ new.cache = state.cache
<1> DEFINE never == state.never \/ arm.never
<1>1. new = [state EXCEPT !.guard = @ \cap arm.when, !.never = never]
  BY DEF Guarded
<1> HIDE DEF never
<1>2. new = [guard |-> state.guard \cap arm.when, never |-> never,
             trace |-> state.trace, cache |-> state.cache]
  BY <1>1 DEF StateOK
<1>3. StateOK(new)
  BY ChangedStates
<1> QED
  BY <1>2, <1>3 DEF never

\* The candidate that an arm waiting to be branched into stands for.
LEMMA PendingParts ==
  ASSUME NEW pending, StateOK(pending.state), NEW site, NEW new, new = PendingOf(pending, site)
  PROVE  /\ new.guard = pending.state.guard \cap pending.arm.when
         /\ new.cache = pending.state.cache
         /\ DOMAIN new.trace = DOMAIN pending.state.trace \cup {site}
         /\ new.trace[site] = pending.arm.outcome
         /\ \A s \in DOMAIN pending.state.trace : s # site => new.trace[s] = pending.state.trace[s]
         /\ new.trace = Inserted(pending.state.trace, site, pending.arm.outcome)
         /\ StateOK(new)
<1> DEFINE narrowed == [pending.state EXCEPT !.guard = @ \cap pending.arm.when]
<1>1. narrowed = [guard |-> pending.state.guard \cap pending.arm.when,
                  never |-> pending.state.never, trace |-> pending.state.trace,
                  cache |-> pending.state.cache]
  <2>1. PICK state : state = pending.state
    OBVIOUS
  <2>2. state = [guard |-> state.guard, never |-> state.never, trace |-> state.trace,
                 cache |-> state.cache]
    BY <2>1 DEF StateOK
  <2>3. [state EXCEPT !.guard = @ \cap pending.arm.when] =
          [guard |-> state.guard \cap pending.arm.when, never |-> state.never,
           trace |-> state.trace, cache |-> state.cache]
    BY <2>2
  <2> QED
    BY <2>1, <2>3
<1>2. StateOK(narrowed)
  BY <1>1 DEF StateOK
<1>3. new = Record(narrowed, site, pending.arm.outcome)
  BY DEF PendingOf
<1>4. /\ narrowed.guard = pending.state.guard \cap pending.arm.when
      /\ narrowed.trace = pending.state.trace /\ narrowed.cache = pending.state.cache
  BY <1>1
<1> HIDE DEF narrowed
<1>5. StateOK(new)
  BY <1>2, <1>3, ChangedStates
<1>6. /\ new.guard = narrowed.guard /\ new.never = narrowed.never /\ new.cache = narrowed.cache
      /\ DOMAIN new.trace = DOMAIN narrowed.trace \cup {site}
      /\ new.trace[site] = pending.arm.outcome
      /\ \A s \in DOMAIN narrowed.trace : s # site => new.trace[s] = narrowed.trace[s]
      /\ new.trace = Inserted(narrowed.trace, site, pending.arm.outcome)
  BY <1>2, <1>3, RecordedState
<1> QED
  BY <1>4, <1>5, <1>6

\* One candidate gives way to its refinements at the selection being driven.
Splits(rest, l, kids) ==
  /\ Live = rest \cup {l} /\ Live' = rest \cup kids
  /\ \A r \in rest : r.place # l.place /\ Heir(r, r)
  /\ l.place[2] # "arms" /\ topSite \notin DOMAIN l.state.trace
  /\ \A k \in kids :
       /\ Heir(k, l)
       /\ k.state.guard \subseteq l.state.guard
       /\ DOMAIN k.state.trace = DOMAIN l.state.trace \cup {topSite}
  /\ \A j, k \in kids : j # k =>
       /\ j.state.guard \cap k.state.guard = {}
       /\ j.state.trace[topSite] # k.state.trace[topSite]

\* The refinements of a candidate are its heirs, and conflict with one another.
LEMMA SplitsInherit ==
  ASSUME NEW rest, NEW l, NEW kids, Splits(rest, l, kids)
  PROVE  \E from : Inherits(from)
<1> DEFINE from == [k \in Live' |-> IF k \in kids THEN l ELSE k]
<1>1. ASSUME NEW k \in Live'
      PROVE  (k \in kids /\ from[k] = l) \/ (k \in rest /\ from[k] = k)
  BY DEF Splits
<1> HIDE DEF from
<1>2. ASSUME NEW k \in Live' PROVE from[k] \in Live /\ Heir(k, from[k])
  BY <1>1 DEF Splits
<1>3. ASSUME NEW j \in Live', NEW k \in Live', j.place # k.place
      PROVE  from[j].place # from[k].place \/ Splitting!Conflict(j.state, k.state)
  <2>1. CASE j \in kids /\ k \in kids
    <3>1. /\ topSite \in DOMAIN j.state.trace \cap DOMAIN k.state.trace
          /\ j.state.trace[topSite] # k.state.trace[topSite]
      BY <1>3, <2>1 DEF Splits
    <3> QED
      BY <3>1 DEF Splitting!Conflict
  <2>2. CASE (j \in rest /\ from[j] = j) /\ (k \in rest /\ from[k] = k)
    BY <1>3, <2>2
  <2>3. CASE (j \in kids /\ from[j] = l) /\ (k \in rest /\ from[k] = k)
    BY <2>3 DEF Splits
  <2>4. CASE (j \in rest /\ from[j] = j) /\ (k \in kids /\ from[k] = l)
    BY <2>4 DEF Splits
  <2> QED
    BY <1>1, <2>1, <2>2, <2>3, <2>4
<1> QED
  BY <1>2, <1>3 DEF Inherits

\* The partials that wait and those driven once the first partial is taken.
LEMMA NextTaken ==
  ASSUME Typed, stack # <<>>, top.todo # <<>>, top.arms = <<>>, ctl.at = "run",
         NEW l, l = At(<<Depth, "todo", Len(top.todo) - 1>>, Head(top.todo).state)
  PROVE  LET rest == HeldTo(Depth - 1) \cup Todo(Depth, Tail(top.todo))
                       \cup Done(Depth, top.done) IN
         /\ Live = rest \cup {l}
         /\ \A r \in rest : r.place # l.place /\ r.place[1] \in Nat /\ r.place[1] <= Depth
         /\ l.place[1] = Depth /\ l.place[2] = "todo" /\ l.state = Head(top.todo).state
<1> DEFINE rest == HeldTo(Depth - 1) \cup Todo(Depth, Tail(top.todo)) \cup Done(Depth, top.done)
<1>1. Depth - 1 \in Nat /\ Depth \in Nat
  BY TopActivation, ListElements DEF Typed, Depth
<1>2. /\ Todo(Depth, top.todo) = {l} \cup Todo(Depth, Tail(top.todo))
      /\ \A r \in Todo(Depth, Tail(top.todo)) : r.place # l.place
  BY TopFacts, TodoParts
<1>3. l.place[1] = Depth /\ l.place[2] = "todo" /\ l.state = Head(top.todo).state
  BY DEF At
<1>4. Live = rest \cup {l}
  BY <1>2, InHandParts, LiveHere, EmptyParts DEF HeldAt
<1>5. ASSUME NEW r \in rest
      PROVE  r.place # l.place /\ r.place[1] \in Nat /\ r.place[1] <= Depth
  <2>1. CASE r \in HeldTo(Depth - 1)
    <3>1. r.place[1] \in Nat /\ r.place[1] <= Depth - 1
      BY <1>1, <2>1, RestPlaces
    <3> QED
      BY <1>1, <1>3, <3>1
  <2>2. CASE r \in Todo(Depth, Tail(top.todo))
    BY <1>1, <1>2, <2>2, HeldPlaces
  <2>3. CASE r \in Done(Depth, top.done)
    <3>1. r.place[1] = Depth /\ r.place[2] = "done"
      BY <2>3, HeldPlaces
    <3> QED
      BY <1>1, <1>3, <3>1
  <2> QED
    BY <1>5, <2>1, <2>2, <2>3
<1> QED
  BY <1>3, <1>4, <1>5

\* A constant selector has one refinement.
LEMMA ResolvesSplit ==
  ASSUME Typed, Resolves
  PROVE  /\ \E rest, l, k : /\ Splits(rest, l, {k})
                            /\ k.place[2] # "arms" /\ k.state.guard = l.state.guard
         /\ Depth' = Depth + 1
<1> DEFINE under == Moved(top, top.stage, Tail(top.todo), top.current, top.done, top.arms)
           state == Head(top.todo).state
           new == Record(state, topSite, ConcreteArm(topNode, selector).outcome)
           l == At(<<Depth, "todo", Len(top.todo) - 1>>, state)
           k == At(<<Depth + 1, "done", 1>>, new)
           rest == HeldTo(Depth - 1) \cup Todo(Depth, Tail(top.todo)) \cup Done(Depth, top.done)
<1>1. /\ Selecting /\ topSite \notin DOMAIN state.trace /\ ctl' = ctl
      /\ stack' = <<ResolvedArm>> \o (<<under>> \o Tail(stack))
  BY DEF Resolves
<1>2. /\ ctl.at = "run" /\ stack # <<>> /\ top.todo # <<>> /\ top.arms = <<>> /\ StateOK(state)
  BY <1>1, SelectingFacts
<1>3. Depth - 1 \in Nat /\ Depth \in Nat
  BY <1>2, TopActivation, ListElements DEF Typed, Depth
<1>4. /\ SiteOf(under) = topSite /\ under.todo = Tail(top.todo) /\ under.done = top.done
      /\ under.arms = <<>>
  BY <1>2, MovedSite
<1>5. /\ SiteOf(ResolvedArm) = topSite /\ ResolvedArm.todo = <<>> /\ ResolvedArm.arms = <<>>
      /\ Len(ResolvedArm.done) = 1 /\ ResolvedArm.done[1].state = new
  BY ArmSite DEF ResolvedArm
<1>6. /\ new.guard = state.guard /\ new.cache = state.cache
      /\ DOMAIN new.trace = DOMAIN state.trace \cup {topSite}
      /\ \A s \in DOMAIN state.trace : s # topSite => new.trace[s] = state.trace[s]
  BY <1>2, RecordedState
<1>7. /\ l.state = state /\ k.state = new /\ k.place[1] = Depth + 1 /\ k.place[2] = "done"
      /\ k = At(<<Depth + 1, "done", 1>>, new)
      /\ l = At(<<Depth, "todo", Len(top.todo) - 1>>, Head(top.todo).state)
  BY DEF At
<1> HIDE DEF under, new, l, k
<1>8. /\ Live = rest \cup {l}
      /\ \A r \in rest : r.place # l.place /\ r.place[1] \in Nat /\ r.place[1] <= Depth
      /\ l.place[1] = Depth /\ l.place[2] = "todo"
  BY <1>2, <1>7, NextTaken
<1>9. /\ Depth' = Depth + 1
      /\ Live' = InHand' \cup HeldTo(Depth - 1) \cup HeldAt(Depth, topSite, under)
                   \cup HeldAt(Depth + 1, topSite, ResolvedArm)
  BY <1>1, <1>2, <1>4, <1>5, LiveIntoArm
<1>10. InHand' = {}
  BY <1>1, <1>2, <1>9, InHandNext
<1>11. HeldAt(Depth, topSite, under) = Todo(Depth, Tail(top.todo)) \cup Done(Depth, top.done)
  BY <1>4, EmptyParts DEF HeldAt
<1>12. HeldAt(Depth + 1, topSite, ResolvedArm) = {k}
  <2>1. Done(Depth + 1, ResolvedArm.done) = {k}
    <3>1. Done(Depth + 1, ResolvedArm.done)
            = {At(<<Depth + 1, "done", 1>>, ResolvedArm.done[1].state)}
      BY <1>5, OneAlone
    <3> QED
      BY <1>5, <1>7, <3>1
  <2>2. Todo(Depth + 1, ResolvedArm.todo) = {} /\ Arms(Depth + 1, topSite, ResolvedArm.arms) = {}
    BY <1>5, EmptyParts
  <2> QED
    BY <2>1, <2>2 DEF HeldAt
<1>13. Live' = rest \cup {k}
  BY <1>9, <1>10, <1>11, <1>12
<1> HIDE DEF state, rest
<1>14. \A d \in 1..Depth : d <= Depth'
  BY <1>3, <1>9
<1>15. ASSUME NEW r \in rest PROVE Heir(r, r)
  BY <1>3, <1>14, StayedHeir
<1>16. Heir(k, l)
  <2>1. \A s \in DOMAIN l.state.trace :
          s \in DOMAIN k.state.trace /\ k.state.trace[s] = l.state.trace[s]
    BY <1>1, <1>6, <1>7
  <2>2. Depth <= k.place[1] /\ Depth <= Depth'
    BY <1>3, <1>7, <1>9
  <2>3. \A s \in DOMAIN k.state.trace : s \in DOMAIN l.state.trace \/ s = topSite
    BY <1>6, <1>7
  <2>4. \A d \in 1..Depth : d <= k.place[1] /\ d <= l.place[1]
    BY <1>3, <1>7, <1>8
  <2> QED
    BY <1>1, <1>6, <1>7, <1>14, <2>1, <2>2, <2>3, <2>4 DEF Heir
<1>17. Splits(rest, l, {k})
  <2>1. k.state.guard \subseteq l.state.guard
    BY <1>6, <1>7
  <2> QED
    BY <1>1, <1>6, <1>7, <1>8, <1>13, <1>15, <1>16, <2>1 DEF Splits
<1>18. k.place[2] # "arms" /\ k.state.guard = l.state.guard
  BY <1>6, <1>7
<1>19. \E r, m, j : Splits(r, m, {j}) /\ j.place[2] # "arms" /\ j.state.guard = m.state.guard
  BY <1>17, <1>18
<1> QED
  BY <1>9, <1>19

\* A selection taking its arms has partials and arms that have not resolved it.
LEMMA NoOutcomeYet ==
  ASSUME Typed, Fresh, stack # <<>>, ~top.arm, Resolving(top)
  PROVE  /\ \A i \in 1..Len(top.todo) : topSite \notin DOMAIN top.todo[i].state.trace
         /\ \A i \in 1..Len(top.arms) : topSite \notin DOMAIN top.arms[i].state.trace
<1>1. top = ActivationAt(Depth) /\ topSite = SiteAt(Depth) /\ Depth \in 1..Len(stack)
  BY TopActivation DEF Typed, Depth
<1>2. PICK d \in 1..Len(stack) : d = Depth
  BY <1>1
<1>3. Unresolved(d)
  BY <1>1, <1>2 DEF Fresh
<1>4. Resolving(ActivationAt(d))
  BY <1>1, <1>2
<1>5. /\ \A i \in 1..Len(ActivationAt(d).todo) :
           SiteAt(d) \notin DOMAIN ActivationAt(d).todo[i].state.trace
      /\ \A i \in 1..Len(ActivationAt(d).arms) :
           SiteAt(d) \notin DOMAIN ActivationAt(d).arms[i].state.trace
  BY <1>3, <1>4 DEF Unresolved
<1> QED
  BY <1>1, <1>2, <1>5

\* The arms of a selection, as the list the evaluator keeps.
LEMMA ForkedArms ==
  ASSUME Typed, WithinBudget, Selecting
  PROVE  /\ IsList(Forked) /\ Len(Forked) = Len(SymbolicArms)
         /\ \A i \in 1..Len(Forked) :
              Forked[i].state = Head(top.todo).state /\ Forked[i].arm = SymbolicArms[i]
         /\ ArmsAreApart(SymbolicArms)
         /\ ~TooManyMasks => ArmsPartition(SymbolicArms)
<1>1. SelectionOK(topNode, 1..(top.node - 1)) /\ selector \in Values
  BY SelectingFacts
<1>2. /\ ArmsFit(topNode, 1..(top.node - 1), SymbolicArms)
      /\ ArmsAreApart(SymbolicArms)
      /\ ~TooManyMasks => ArmsPartition(SymbolicArms)
  BY <1>1, SymbolicArmsFit
<1>3. Len(SymbolicArms) \in Nat
  BY <1>2 DEF ArmsFit
<1>4. Forked = [i \in 1..Len(SymbolicArms) |-> Forked[i]]
  BY DEF Forked
<1>5. IsList(Forked) /\ Len(Forked) = Len(SymbolicArms)
  BY <1>3, <1>4, MakeList
<1>6. \A i \in 1..Len(SymbolicArms) :
        Forked[i].state = Head(top.todo).state /\ Forked[i].arm = SymbolicArms[i]
  BY DEF Forked
<1> QED
  BY <1>2, <1>5, <1>6

\* A symbolic selector has a refinement per arm, and they lose no input
\* unless there were more masks than the budget had candidates left.
LEMMA ForksSplit ==
  ASSUME Typed, WithinBudget, Fresh, Forks
  PROVE  /\ \E rest, l, kids :
              /\ Splits(rest, l, kids)
              /\ \A k \in kids : k.place[2] = "arms"
              /\ ~TooManyMasks => UNION {k.state.guard : k \in kids} = l.state.guard
         /\ Depth' = Depth
<1> DEFINE new == Moved(top, top.stage, Tail(top.todo), top.current, top.done, Forked)
           state == Head(top.todo).state
           l == At(<<Depth, "todo", Len(top.todo) - 1>>, state)
           count == Len(Forked)
           kid == [i \in 1..count |->
                     At(<<Depth, "arms", count - i>>, PendingOf(Forked[i], topSite))]
           kids == Arms(Depth, topSite, Forked)
           rest == HeldTo(Depth - 1) \cup Todo(Depth, Tail(top.todo)) \cup Done(Depth, top.done)
<1>1. Selecting /\ ctl' = ctl /\ stack' = <<new>> \o Tail(stack)
  BY DEF Forks
<1>2. /\ ctl.at = "run" /\ stack # <<>> /\ top.todo # <<>> /\ top.arms = <<>> /\ StateOK(state)
      /\ ~top.arm /\ Resolving(top)
  BY <1>1, SelectingFacts
<1>3. Depth - 1 \in Nat /\ Depth \in Nat
  BY <1>2, TopActivation, ListElements DEF Typed, Depth
<1>4. topSite \notin DOMAIN state.trace
  <2>1. 1 \in 1..Len(top.todo) /\ Head(top.todo) = top.todo[1]
    BY <1>2, TopFacts, HeadOfList
  <2> QED
    BY <1>2, <2>1, NoOutcomeYet
<1>5. /\ SiteOf(new) = topSite /\ new.todo = Tail(top.todo) /\ new.done = top.done
      /\ new.arms = Forked
  BY <1>2, MovedSite
<1>6. /\ IsList(Forked) /\ count = Len(SymbolicArms)
      /\ \A i \in 1..count : Forked[i].state = state /\ Forked[i].arm = SymbolicArms[i]
      /\ ArmsAreApart(SymbolicArms)
      /\ ~TooManyMasks => ArmsPartition(SymbolicArms)
  BY <1>1, ForkedArms
<1>7. count \in Nat
  BY <1>6, ListElements
<1>8. kids = {kid[i] : i \in 1..count}
  BY DEF Arms
<1>9. /\ l.state = state /\ l = At(<<Depth, "todo", Len(top.todo) - 1>>, Head(top.todo).state)
      /\ \A i \in 1..count : /\ kid[i].place = <<Depth, "arms", count - i>>
                             /\ kid[i].state = PendingOf(Forked[i], topSite)
  BY DEF At
<1> HIDE DEF new, l, kid, count
<1>10. /\ Live = rest \cup {l}
       /\ \A r \in rest : r.place # l.place /\ r.place[1] \in Nat /\ r.place[1] <= Depth
       /\ l.place[1] = Depth /\ l.place[2] = "todo"
  BY <1>2, <1>9, NextTaken
<1>11. /\ Depth' = Depth
       /\ Live' = InHand' \cup HeldTo(Depth - 1) \cup HeldAt(Depth, topSite, new)
  BY <1>1, <1>2, <1>5, LiveReplaced
<1>12. InHand' = {}
  BY <1>1, <1>2, <1>11, InHandNext
<1>13. HeldAt(Depth, topSite, new) =
         Todo(Depth, Tail(top.todo)) \cup kids \cup Done(Depth, top.done)
  BY <1>5 DEF HeldAt
<1>14. Live' = rest \cup kids
  BY <1>11, <1>12, <1>13
<1> HIDE DEF rest, kids
<1>15. ASSUME NEW i \in 1..count
       PROVE  /\ kid[i].state.guard = state.guard \cap SymbolicArms[i].when
              /\ kid[i].state.cache = state.cache
              /\ DOMAIN kid[i].state.trace = DOMAIN state.trace \cup {topSite}
              /\ kid[i].state.trace[topSite] = SymbolicArms[i].outcome
              /\ \A s \in DOMAIN state.trace :
                   s # topSite => kid[i].state.trace[s] = state.trace[s]
              /\ kid[i].place[1] = Depth /\ kid[i].place[2] = "arms"
  <2> DEFINE pending == Forked[i]
  <2>1. StateOK(pending.state) /\ pending.state = state /\ pending.arm = SymbolicArms[i]
    BY <1>2, <1>6
  <2>2. kid[i].state = PendingOf(pending, topSite)
    BY <1>9
  <2> HIDE DEF pending, state
  <2>3. /\ kid[i].state.guard = pending.state.guard \cap pending.arm.when
        /\ kid[i].state.cache = pending.state.cache
        /\ DOMAIN kid[i].state.trace = DOMAIN pending.state.trace \cup {topSite}
        /\ kid[i].state.trace[topSite] = pending.arm.outcome
        /\ \A s \in DOMAIN pending.state.trace :
             s # topSite => kid[i].state.trace[s] = pending.state.trace[s]
    BY <2>1, <2>2, PendingParts
  <2> QED
    BY <1>9, <2>1, <2>3
<1> HIDE DEF state
<1>16. \A d \in 1..Depth : d <= Depth'
  BY <1>3, <1>11
<1>17. \A r \in rest : Heir(r, r)
  BY <1>3, <1>16, StayedHeir
<1>18. ASSUME NEW k \in kids
       PROVE  /\ Heir(k, l) /\ k.state.guard \subseteq l.state.guard
              /\ DOMAIN k.state.trace = DOMAIN l.state.trace \cup {topSite}
              /\ k.place[2] = "arms"
  <2>1. PICK i \in 1..count : k = kid[i]
    BY <1>8
  <2>2. \A s \in DOMAIN l.state.trace :
          s \in DOMAIN k.state.trace /\ k.state.trace[s] = l.state.trace[s]
    BY <1>4, <1>9, <1>15, <2>1
  <2>3. Depth <= k.place[1] /\ Depth <= Depth'
    BY <1>3, <1>11, <1>15, <2>1
  <2>4. \A s \in DOMAIN k.state.trace : s \in DOMAIN l.state.trace \/ s = topSite
    BY <1>9, <1>15, <2>1
  <2>5. \A d \in 1..Depth : d <= k.place[1] /\ d <= l.place[1]
    BY <1>3, <1>10, <1>15, <2>1
  <2>6. DOMAIN l.state.cache \subseteq DOMAIN k.state.cache
    BY <1>9, <1>15, <2>1
  <2>7. Heir(k, l)
    BY <1>1, <1>16, <2>2, <2>3, <2>4, <2>5, <2>6 DEF Heir
  <2> QED
    BY <1>9, <1>15, <2>1, <2>7
<1>19. ASSUME NEW j \in kids, NEW k \in kids, j # k
       PROVE  /\ j.state.guard \cap k.state.guard = {}
              /\ j.state.trace[topSite] # k.state.trace[topSite]
  <2>1. PICK a \in 1..count : j = kid[a]
    BY <1>8
  <2>2. PICK b \in 1..count : k = kid[b]
    BY <1>8
  <2>3. a # b
    BY <1>19, <2>1, <2>2
  <2>4. /\ SymbolicArms[a].when \cap SymbolicArms[b].when = {}
        /\ SymbolicArms[a].outcome # SymbolicArms[b].outcome
    BY <1>6, <2>3 DEF ArmsAreApart
  <2> QED
    BY <1>15, <2>1, <2>2, <2>4
<1>20. ASSUME ~TooManyMasks PROVE UNION {k.state.guard : k \in kids} = l.state.guard
  <2>1. \A x \in Inputs : \E i \in 1..count : x \in SymbolicArms[i].when
    BY <1>6, <1>20 DEF ArmsPartition
  <2>2. state.guard \subseteq Inputs
    <3>1. state.guard \subseteq request.domain
      BY <1>2 DEF StateOK
    <3>2. request.domain \subseteq Inputs
      BY RequestsAssumption DEF Typed, WellFormed
    <3> QED
      BY <3>1, <3>2
  <2>3. ASSUME NEW x \in l.state.guard PROVE \E k \in kids : x \in k.state.guard
    <3>1. PICK i \in 1..count : x \in SymbolicArms[i].when
      BY <1>9, <2>1, <2>2, <2>3
    <3>2. x \in kid[i].state.guard /\ kid[i] \in kids
      BY <1>8, <1>9, <1>15, <2>3, <3>1
    <3> QED
      BY <3>2
  <2> QED
    BY <1>18, <2>3
<1>21. Splits(rest, l, kids)
  BY <1>4, <1>9, <1>10, <1>14, <1>17, <1>18, <1>19 DEF Splits
<1> QED
  BY <1>11, <1>18, <1>20, <1>21

-----------------------------------------------------------------------------
(***************************************************************************)
(* Steps that branch into an arm, drop it, or give everything up.          *)
(***************************************************************************)
\* The candidates other than that of the next arm.
OtherThanBranch ==
  HeldTo(Depth - 1) \cup (Todo(Depth, top.todo) \cup Arms(Depth, topSite, Tail(top.arms))
                           \cup Done(Depth, top.done))

\* The next arm, and the other candidates.
LEMMA BranchParts ==
  ASSUME Typed, Branching,
         NEW l, l = At(<<Depth, "arms", Len(top.arms) - 1>>, PendingOf(branch, topSite))
  PROVE  /\ Live = OtherThanBranch \cup {l}
         /\ \A r \in OtherThanBranch :
              r.place # l.place /\ r.place[1] \in Nat /\ r.place[1] <= Depth
         /\ l.place[1] = Depth /\ l.place[2] = "arms" /\ l.state = PendingOf(branch, topSite)
<1>1. ctl.at = "run" /\ stack # <<>> /\ top.arms # <<>>
  BY BranchFacts
<1>2. Depth - 1 \in Nat /\ Depth \in Nat
  BY <1>1, TopActivation, ListElements DEF Typed, Depth
<1>3. /\ Arms(Depth, topSite, top.arms) = {l} \cup Arms(Depth, topSite, Tail(top.arms))
      /\ \A r \in Arms(Depth, topSite, Tail(top.arms)) : r.place # l.place
  BY <1>1, TopFacts, ArmsParts DEF branch
<1>4. l.place[1] = Depth /\ l.place[2] = "arms" /\ l.state = PendingOf(branch, topSite)
  BY DEF At
<1>5. Live = OtherThanBranch \cup {l}
  BY <1>1, <1>3, InHandParts, LiveHere DEF HeldAt, OtherThanBranch
<1>6. ASSUME NEW r \in OtherThanBranch
      PROVE  r.place # l.place /\ r.place[1] \in Nat /\ r.place[1] <= Depth
  <2>1. CASE r \in HeldTo(Depth - 1)
    <3>1. r.place[1] \in Nat /\ r.place[1] <= Depth - 1
      BY <1>2, <2>1, RestPlaces
    <3> QED
      BY <1>2, <1>4, <3>1
  <2>2. CASE r \in Arms(Depth, topSite, Tail(top.arms))
    BY <1>2, <1>3, <2>2, HeldPlaces
  <2>3. CASE r \in Todo(Depth, top.todo) \cup Done(Depth, top.done)
    <3>1. r.place[1] = Depth /\ r.place[2] # "arms"
      BY <2>3, HeldPlaces
    <3> QED
      BY <1>2, <1>4, <3>1
  <2> QED
    BY <1>6, <2>1, <2>2, <2>3 DEF OtherThanBranch
<1> QED
  BY <1>4, <1>5, <1>6

\* The arm that is branched into is the candidate it stood for.
LEMMA BranchedIsPending ==
  ASSUME Typed, Branching, NEW old, old = PendingOf(branch, topSite)
  PROVE  /\ BranchedState.guard = old.guard /\ BranchedState.trace = old.trace
         /\ BranchedState.cache = old.cache
         /\ old.guard = branch.state.guard \cap branch.arm.when
         /\ BranchedArm.done[1].state = BranchedState /\ Len(BranchedArm.done) = 1
<1>1. /\ StateOK(branch.state) /\ branch.arm.never \in BOOLEAN
      /\ branch.arm.never => branch.arm.when = {}
  BY BranchFacts DEF PendingOK
<1>2. /\ old.guard = branch.state.guard \cap branch.arm.when
      /\ old.cache = branch.state.cache
      /\ old.trace = Inserted(branch.state.trace, topSite, branch.arm.outcome)
  BY <1>1, PendingParts
<1>3. PICK narrowed : narrowed = Guarded(branch.state, branch.arm)
  OBVIOUS
<1>4. /\ StateOK(narrowed)
      /\ narrowed.guard = branch.state.guard \cap branch.arm.when
      /\ narrowed.trace = branch.state.trace /\ narrowed.cache = branch.state.cache
  BY <1>1, <1>3, GuardedState
<1>5. BranchedState = Record(narrowed, topSite, branch.arm.outcome)
  BY <1>3 DEF BranchedState
<1>6. /\ BranchedState.guard = narrowed.guard /\ BranchedState.cache = narrowed.cache
      /\ BranchedState.trace = Inserted(narrowed.trace, topSite, branch.arm.outcome)
  BY <1>4, <1>5, RecordedState
<1>7. Len(BranchedArm.done) = 1 /\ BranchedArm.done[1].state = BranchedState
  BY ArmSite DEF BranchedArm
<1> QED
  BY <1>2, <1>4, <1>6, <1>7

\* An arm that becomes a candidate.
Admits(rest, l, k) ==
  /\ Live = rest \cup {l} /\ Live' = rest \cup {k}
  /\ \A r \in rest : r.place # l.place /\ Heir(r, r)
  /\ Heir(k, l) /\ Candidate(k.state) = Candidate(l.state)
  /\ l.place[2] = "arms" /\ k.place[2] # "arms"

\* BranchTaken turns an arm that waits into a candidate.
LEMMA BranchedAdmits ==
  ASSUME Typed, Branched
  PROVE  (\E rest, l, k : Admits(rest, l, k)) /\ Depth' = Depth + 1
<1> DEFINE under == Moved(top, top.stage, top.todo, top.current, top.done, Tail(top.arms))
           l == At(<<Depth, "arms", Len(top.arms) - 1>>, PendingOf(branch, topSite))
           k == At(<<Depth + 1, "done", 1>>, BranchedState)
           rest == OtherThanBranch
<1>1. /\ Branching /\ ctl' = ctl
      /\ stack' = <<BranchedArm>> \o (<<under>> \o Tail(stack))
  BY DEF Branched
<1>2. ctl.at = "run" /\ stack # <<>>
  BY <1>1, BranchFacts
<1>3. Depth - 1 \in Nat /\ Depth \in Nat
  BY <1>2, TopActivation, ListElements DEF Typed, Depth
<1>4. /\ SiteOf(under) = topSite /\ under.todo = top.todo /\ under.done = top.done
      /\ under.arms = Tail(top.arms)
  BY <1>2, MovedSite
<1>5. /\ SiteOf(BranchedArm) = topSite /\ BranchedArm.todo = <<>> /\ BranchedArm.arms = <<>>
      /\ Len(BranchedArm.done) = 1 /\ BranchedArm.done[1].state = BranchedState
  BY ArmSite DEF BranchedArm
<1>6. /\ k.state = BranchedState /\ k.place[1] = Depth + 1 /\ k.place[2] = "done"
      /\ k = At(<<Depth + 1, "done", 1>>, BranchedState)
      /\ l = At(<<Depth, "arms", Len(top.arms) - 1>>, PendingOf(branch, topSite))
  BY DEF At
<1> HIDE DEF under, k, l
<1>7. /\ Live = rest \cup {l}
      /\ \A r \in rest : r.place # l.place /\ r.place[1] \in Nat /\ r.place[1] <= Depth
      /\ l.place[1] = Depth /\ l.place[2] = "arms" /\ l.state = PendingOf(branch, topSite)
  BY <1>1, <1>6, BranchParts
<1>8. /\ k.state.guard = l.state.guard /\ k.state.trace = l.state.trace
      /\ k.state.cache = l.state.cache
  BY <1>1, <1>6, <1>7, BranchedIsPending
<1>9. /\ Depth' = Depth + 1
      /\ Live' = InHand' \cup HeldTo(Depth - 1) \cup HeldAt(Depth, topSite, under)
                   \cup HeldAt(Depth + 1, topSite, BranchedArm)
  BY <1>1, <1>2, <1>4, <1>5, LiveIntoArm
<1>10. InHand' = {}
  BY <1>1, <1>2, <1>9, InHandNext
<1>11. HeldAt(Depth, topSite, under) =
         Todo(Depth, top.todo) \cup Arms(Depth, topSite, Tail(top.arms)) \cup Done(Depth, top.done)
  BY <1>4 DEF HeldAt
<1>12. HeldAt(Depth + 1, topSite, BranchedArm) = {k}
  BY <1>5, <1>6, OneAlone, EmptyParts DEF HeldAt
<1>13. Live' = rest \cup {k}
  BY <1>9, <1>10, <1>11, <1>12 DEF OtherThanBranch
<1> HIDE DEF rest
<1>14. \A d \in 1..Depth : d <= Depth'
  BY <1>3, <1>9
<1>15. \A r \in rest : Heir(r, r)
  BY <1>3, <1>14, StayedHeir
<1>16. Heir(k, l)
  <2>1. \A d \in 1..Depth : d <= Depth' /\ d <= k.place[1] /\ d <= l.place[1]
    BY <1>3, <1>6, <1>7, <1>14
  <2> QED
    BY <1>8, <2>1, MovedHeir
<1>17. Candidate(k.state) = Candidate(l.state)
  BY <1>8 DEF Candidate
<1> QED
  BY <1>6, <1>7, <1>9, <1>13, <1>15, <1>16, <1>17 DEF Admits

\* An arm that is dropped.
LEMMA DropsShrink ==
  ASSUME Typed, Drops
  PROVE  /\ \E rest, l :
              /\ Live = rest \cup {l} /\ Live' = rest
              /\ \A r \in rest : Heir(r, r)
              /\ l.state.guard = branch.state.guard \cap branch.arm.when
              /\ \A r \in rest : r.place # l.place
         /\ Depth' = Depth
<1> DEFINE new == Moved(top, top.stage, top.todo, top.current, top.done, Tail(top.arms))
           l == At(<<Depth, "arms", Len(top.arms) - 1>>, PendingOf(branch, topSite))
           rest == OtherThanBranch
<1>1. Branching /\ ctl' = ctl /\ stack' = <<new>> \o Tail(stack)
  BY DEF Drops
<1>2. ctl.at = "run" /\ stack # <<>>
  BY <1>1, BranchFacts
<1>3. Depth - 1 \in Nat /\ Depth \in Nat
  BY <1>2, TopActivation, ListElements DEF Typed, Depth
<1>4. /\ SiteOf(new) = topSite /\ new.todo = top.todo /\ new.done = top.done
      /\ new.arms = Tail(top.arms)
  BY <1>2, MovedSite
<1>5. l = At(<<Depth, "arms", Len(top.arms) - 1>>, PendingOf(branch, topSite))
  OBVIOUS
<1> HIDE DEF new, l
<1>6. /\ Live = rest \cup {l}
      /\ \A r \in rest : r.place # l.place /\ r.place[1] \in Nat /\ r.place[1] <= Depth
      /\ l.state = PendingOf(branch, topSite)
  BY <1>1, <1>5, BranchParts
<1>7. l.state.guard = branch.state.guard \cap branch.arm.when
  BY <1>1, <1>6, BranchedIsPending
<1>8. Depth' = Depth /\ Live' = InHand' \cup HeldTo(Depth - 1) \cup HeldAt(Depth, topSite, new)
  BY <1>1, <1>2, <1>4, LiveReplaced
<1>9. InHand' = {}
  BY <1>1, <1>2, <1>8, InHandNext
<1>10. HeldAt(Depth, topSite, new) =
         Todo(Depth, top.todo) \cup Arms(Depth, topSite, Tail(top.arms)) \cup Done(Depth, top.done)
  BY <1>4 DEF HeldAt
<1>11. Live' = rest
  BY <1>8, <1>9, <1>10 DEF OtherThanBranch
<1> HIDE DEF rest
<1>12. \A d \in 1..Depth : d <= Depth'
  BY <1>3, <1>8
<1>13. \A r \in rest : Heir(r, r)
  BY <1>3, <1>12, StayedHeir
<1> QED
  BY <1>6, <1>7, <1>8, <1>11, <1>13

\* A failure leaves no candidate.
LEMMA GivesUpAll ==
  ASSUME GivesUp
  PROVE  Live' = {} /\ Depth' = 0
<1>1. Depth' = 0
  BY EmptyList DEF GivesUp, Depth
<1>2. Live' = InHand' \cup HeldTo(0)'
  BY <1>1, LivePartsNext
<1>3. InHand' = {}
  BY <1>1, InHandNext DEF GivesUp
<1> QED
  BY <1>1, <1>2, <1>3, LivePartsNext

\* A step that changes nothing keeps every candidate.
LEMMA UnchangedLive ==
  ASSUME UNCHANGED vars
  PROVE  Live' = Live /\ Depth' = Depth
BY DEF vars, Live, InHand, Held, Waiting, Branches, Driven, ActivationAt, PendingState, SiteOf,
       Site, Record, Inserted, At, Depth

-----------------------------------------------------------------------------
(***************************************************************************)
(* Every step hands its candidates on.                                     *)
(***************************************************************************)
\* Activations that a step keeps drive the sites they drove.
LEMMA KeptSitesStay ==
  ASSUME Typed, request' = request, NEW n \in Nat, KeepsActivations(n), Depth' = n
  PROVE  Depth' \in Nat /\ SitesStay
<1>1. \A d \in 1..n : SiteAt(d)' = SiteAt(d)
  BY KeptSites
<1>2. \A d \in 1..Depth : d <= n => d \in 1..n
  OBVIOUS
<1> QED
  BY <1>1, <1>2 DEF SitesStay

\* So does one on top that moved on.
LEMMA ReplacedSitesStay ==
  ASSUME Typed, request' = request, stack # <<>>, NEW act,
         KeepsActivations(Depth - 1), SiteOf(act) = topSite,
         \A d : d = Depth => SiteAt(d)' = SiteOf(act)
  PROVE  SitesStay
<1>1. PICK n \in Nat : n = Depth - 1 /\ Depth = n + 1
  <2>1. Depth - 1 \in Nat /\ Depth \in Nat
    BY TopActivation, ListElements DEF Typed, Depth
  <2>2. Depth = (Depth - 1) + 1
    BY <2>1
  <2> QED
    BY <2>1, <2>2
<1>2. \A d \in 1..n : SiteAt(d)' = SiteAt(d)
  BY <1>1, KeptSites
<1>3. \A d \in 1..Depth : d \in 1..n \/ d = Depth
  BY <1>1
<1>4. topSite = SiteAt(Depth)
  BY TopActivation DEF Typed
<1> QED
  BY <1>2, <1>3, <1>4 DEF SitesStay

\* The sites of a step, and the depth of its stack.
LEMMA StepSites ==
  ASSUME Typed, [Next]_vars
  PROVE  Depth' \in Nat /\ SitesStay
<1>1. request' = request /\ Depth \in Nat
  BY StepCases, ListElements DEF Typed, Depth
<1>2. ASSUME stack' = stack PROVE Depth' \in Nat /\ SitesStay
  <2>1. Depth' = Depth /\ KeepsActivations(Depth)
    BY <1>2 DEF Depth, KeepsActivations, ActivationAt
  <2>2. PICK n \in Nat : n = Depth
    BY <1>1
  <2> QED
    BY <1>1, <2>1, <2>2, KeptSitesStay
<1>3. ASSUME stack # <<>>, NEW act, stack' = <<act>> \o Tail(stack), SiteOf(act) = topSite
      PROVE  Depth' \in Nat /\ SitesStay
  <2>1. Depth' = Depth /\ KeepsActivations(Depth - 1) /\ ActivationAt(Depth)' = act
    BY <1>3, Replaced DEF Typed
  <2>2. ASSUME NEW d, d = Depth PROVE SiteAt(d)' = SiteOf(act)
    <3>1. ActivationAt(d)' = act
      BY <2>1, <2>2 DEF ActivationAt
    <3> QED
      BY <3>1 DEF SiteAt, SiteOf, Site
  <2>3. SitesStay
    BY <1>1, <1>3, <2>1, <2>2, ReplacedSitesStay
  <2> QED
    BY <1>1, <2>1, <2>3
<1>4. ASSUME stack # <<>>, NEW under, NEW act, stack' = <<act>> \o (<<under>> \o Tail(stack)),
             SiteOf(under) = topSite
      PROVE  Depth' \in Nat /\ SitesStay
  <2>1. /\ Depth' = Depth + 1 /\ KeepsActivations(Depth - 1)
        /\ ActivationAt(Depth - 1)' = under
    BY <1>4, ReplacedAndPushed DEF Typed
  <2>2. ASSUME NEW d, d = Depth PROVE SiteAt(d)' = SiteOf(under)
    <3>1. Depth' - 1 = d
      BY <1>1, <2>1, <2>2
    <3>2. ActivationAt(d)' = under
      BY <2>1, <3>1 DEF ActivationAt
    <3> QED
      BY <3>2 DEF SiteAt, SiteOf, Site
  <2>3. SitesStay
    BY <1>1, <1>4, <2>1, <2>2, ReplacedSitesStay
  <2> QED
    BY <1>1, <2>1, <2>3
<1>5. CASE Answers
  BY <1>2, <1>5 DEF Answers
<1>6. CASE Enters
  <2>1. Depth' = Depth + 1 /\ KeepsActivations(Depth)
    BY <1>6, Pushed DEF Typed, Enters
  <2>2. PICK n \in Nat : n = Depth
    BY <1>1
  <2>3. \A d \in 1..n : SiteAt(d)' = SiteAt(d)
    BY <1>1, <2>1, <2>2, KeptSites
  <2> QED
    BY <1>1, <2>1, <2>2, <2>3 DEF SitesStay
<1>7. CASE Calls
  <2>1. PICK act : act = Moved(top, top.stage, Tail(top.todo), Head(top.todo).values,
                               top.done, top.arms)
    OBVIOUS
  <2> QED
    BY <1>3, <1>7, <2>1, MovedSite DEF Calls
<1>8. CASE Delivers
  <2>1. PICK act : act = Moved(top, top.stage, top.todo, top.current,
                               top.done \o Delivered, top.arms)
    OBVIOUS
  <2> QED
    BY <1>3, <1>8, <2>1, MovedSite DEF Delivers
<1>9. CASE Advances
  <2>1. PICK act : act = Moved(top, top.stage + 1, top.done, top.current, <<>>, top.arms)
    OBVIOUS
  <2> QED
    BY <1>3, <1>9, <2>1, MovedSite DEF Advances
<1>10. CASE Finishes
  <2>1. stack # <<>> /\ stack' = Tail(stack)
    BY <1>10 DEF Finishes
  <2>2. Depth' = Depth - 1 /\ KeepsActivations(Depth - 1)
    BY <2>1, Popped DEF Typed
  <2>3. PICK n \in Nat : n = Depth - 1
    BY <2>1, TopActivation DEF Typed
  <2> QED
    BY <1>1, <2>2, <2>3, KeptSitesStay
<1>11. CASE Resolves
  <2>1. PICK under : under = Moved(top, top.stage, Tail(top.todo), top.current, top.done, top.arms)
    OBVIOUS
  <2>2. Selecting /\ stack' = <<ResolvedArm>> \o (<<under>> \o Tail(stack))
    BY <1>11, <2>1 DEF Resolves
  <2>3. stack # <<>>
    BY <2>2, SelectingFacts
  <2> QED
    BY <1>4, <2>1, <2>2, <2>3, MovedSite
<1>12. CASE Forks
  <2>1. PICK act : act = Moved(top, top.stage, Tail(top.todo), top.current, top.done, Forked)
    OBVIOUS
  <2>2. Selecting /\ stack' = <<act>> \o Tail(stack)
    BY <1>12, <2>1 DEF Forks
  <2>3. stack # <<>>
    BY <2>2, SelectingFacts
  <2> QED
    BY <1>3, <2>1, <2>2, <2>3, MovedSite
<1>13. CASE Drops
  <2>1. PICK act : act = Moved(top, top.stage, top.todo, top.current, top.done, Tail(top.arms))
    OBVIOUS
  <2>2. Branching /\ stack' = <<act>> \o Tail(stack)
    BY <1>13, <2>1 DEF Drops
  <2>3. stack # <<>>
    BY <2>2, BranchFacts
  <2> QED
    BY <1>3, <2>1, <2>2, <2>3, MovedSite
<1>14. CASE Branched
  <2>1. PICK under : under = Moved(top, top.stage, top.todo, top.current, top.done, Tail(top.arms))
    OBVIOUS
  <2>2. Branching /\ stack' = <<BranchedArm>> \o (<<under>> \o Tail(stack))
    BY <1>14, <2>1 DEF Branched
  <2>3. stack # <<>>
    BY <2>2, BranchFacts
  <2> QED
    BY <1>4, <2>1, <2>2, <2>3, MovedSite
<1>15. CASE GivesUp
  <2>1. Depth' = 0
    BY <1>15, GivesUpAll
  <2>2. \A d \in 1..Depth : ~(d <= 0)
    OBVIOUS
  <2> QED
    BY <2>1, <2>2 DEF SitesStay
<1>16. CASE UNCHANGED vars
  BY <1>2, <1>16 DEF vars
<1> QED
  BY <1>5, <1>6, <1>7, <1>8, <1>9, <1>10, <1>11, <1>12, <1>13, <1>14, <1>15, <1>16, StepCases

\* Candidates that are only dropped inherit from themselves.
LEMMA SubsetInherits ==
  ASSUME Live' \subseteq Live, \A k \in Live' : Heir(k, k)
  PROVE  \E from : Inherits(from)
<1> DEFINE from == [k \in Live' |-> k]
<1>1. \A k \in Live' : from[k] = k
  OBVIOUS
<1> HIDE DEF from
<1>2. Inherits(from)
  BY <1>1 DEF Inherits
<1> QED
  BY <1>2

\* Every candidate after a step is the heir of one before it.
LEMMA StepInherits ==
  ASSUME Typed, Descending, Fresh, WithinBudget, [Next]_vars
  PROVE  \E from : Inherits(from)
<1>1. ASSUME \E r, o, n : Passes(r, o, n) PROVE \E from : Inherits(from)
  BY <1>1, MovesInherit DEF Passes
<1>2. CASE Answers
  BY <1>1, <1>2, AnswersPass
<1>3. CASE Enters
  BY <1>1, <1>3, EntersPass
<1>4. CASE Calls
  BY <1>1, <1>4, CallsPass
<1>5. CASE Delivers
  BY <1>1, <1>5, DeliversPass
<1>6. CASE Advances
  BY <1>1, <1>6, AdvancesPass
<1>7. CASE Finishes
  BY <1>1, <1>7, FinishesPass
<1>8. CASE Resolves
  BY <1>8, ResolvesSplit, SplitsInherit
<1>9. CASE Forks
  BY <1>9, ForksSplit, SplitsInherit
<1>10. CASE Drops
  BY <1>10, DropsShrink, SubsetInherits
<1>11. CASE Branched
  <2>1. PICK rest, l, k : Admits(rest, l, k)
    BY <1>11, BranchedAdmits
  <2>2. PICK o, n : Moves(rest, o, n)
    BY <2>1, OneMoves DEF Admits
  <2> QED
    BY <2>2, MovesInherit
<1>12. CASE GivesUp
  BY <1>12, GivesUpAll, SubsetInherits
<1>13. CASE UNCHANGED vars
  <2>1. Live' = Live /\ Depth' = Depth
    BY <1>13, UnchangedLive
  <2>2. Depth \in Nat
    BY ListElements DEF Typed, Depth
  <2>3. \A k \in Live' : Heir(k, k)
    BY <2>1, <2>2, StayedHeir
  <2> QED
    BY <2>1, <2>3, SubsetInherits
<1> QED
  BY <1>2, <1>3, <1>4, <1>5, <1>6, <1>7, <1>8, <1>9, <1>10, <1>11, <1>12, <1>13, StepCases

-----------------------------------------------------------------------------
(***************************************************************************)
(* No candidate has an outcome for a selection it has yet to resolve.      *)
(***************************************************************************)
\* What is inside the evaluation of a node stays without an outcome for it.
LEMMA StaysUnresolved ==
  ASSUME Typed, Descending, Fresh, NEW from, Inherits(from),
         NEW d \in 1..Depth, ~ActivationAt(d).arm, ~Resolving(ActivationAt(d)),
         NEW k \in Live', d <= k.place[1]
  PROVE  SiteAt(d) \notin DOMAIN k.state.trace
<1> DEFINE l == from[k]
<1>1. l \in Live /\ Heir(k, l)
  BY DEF Inherits
<1> HIDE DEF l
<1>2. d <= l.place[1] /\ l.place[1] >= d
  <2>1. d <= l.place[1]
    BY <1>1 DEF Heir
  <2>2. d \in Int /\ l.place[1] \in Int
    <3>1. Depth \in Nat
      BY ListElements DEF Typed, Depth
    <3>2. l \in InHand \cup HeldTo(Depth)
      BY <1>1, <3>1, LiveParts
    <3>3. CASE l \in InHand
      <4>1. l.place[1] = Depth + 1
        BY <3>3 DEF InHand, At, Depth
      <4> QED
        BY <3>1, <4>1
    <3>4. CASE l \in HeldTo(Depth)
      BY <3>1, <3>4, RestPlaces
    <3> QED
      BY <3>2, <3>3, <3>4
  <2> QED
    BY <2>1, <2>2
<1>3. SiteAt(d) \notin DOMAIN l.state.trace
  <2>1. Unresolved(d)
    BY DEF Fresh, Depth
  <2> QED
    BY <1>1, <1>2, <2>1 DEF Unresolved
<1>4. ~(Selecting /\ SiteAt(d) = topSite)
  <2> SUFFICES ASSUME Selecting, SiteAt(d) = topSite PROVE FALSE
    OBVIOUS
  <2>1. stack # <<>> /\ Resolving(top) /\ ~top.arm
    BY SelectingFacts
  <2>2. Depth \in 1..Depth /\ top = ActivationAt(Depth) /\ topSite = SiteAt(Depth)
    BY <2>1, TopActivation DEF Typed
  <2>3. Depth \in Nat /\ d # Depth
    BY <2>1, <2>2, ListElements DEF Typed, Depth
  <2>4. d < Depth
    BY <2>3
  <2>5. PICK c : c = Depth
    OBVIOUS
  <2>6. Below(SiteAt(c), SiteAt(d)) \/ DrivesArmOf(c, d)
    BY <2>2, <2>4, <2>5 DEF Descending, Depth
  <2>7. ~DrivesArmOf(c, d)
    BY <2>1, <2>2, <2>5 DEF DrivesArmOf
  <2>8. Below(SiteAt(d), SiteAt(d)) /\ IsSite(SiteAt(d))
    BY <2>2, <2>5, <2>6, <2>7, SitesAreSites
  <2> QED
    BY <2>8, BelowIsAnOrder
<1> QED
  BY <1>1, <1>3, <1>4 DEF Heir

\* When an activation of the next state has its candidates unresolved.
LEMMA UnresolvedNext ==
  ASSUME request' = request, NEW d, NEW act, ActivationAt(d)' = act,
         Resolving(act) =>
           /\ \A i \in 1..Len(act.todo) : SiteOf(act) \notin DOMAIN act.todo[i].state.trace
           /\ \A i \in 1..Len(act.arms) : SiteOf(act) \notin DOMAIN act.arms[i].state.trace,
         ~Resolving(act) =>
           \A k \in Live' : k.place[1] >= d => SiteOf(act) \notin DOMAIN k.state.trace
  PROVE  Unresolved(d)'
<1>1. SiteAt(d)' = SiteOf(act)
  BY DEF SiteAt, SiteOf, Site
<1>2. Resolving(act)' <=> Resolving(act)
  BY SameActivation
<1>3. Resolving(ActivationAt(d))' <=> Resolving(act)'
  BY DEF Resolving, KindOf, NodeOf
<1> QED
  BY <1>1, <1>2, <1>3 DEF Unresolved

\* An activation that the step keeps.
LEMMA KeptFresh ==
  ASSUME Typed, Descending, Fresh, request' = request, NEW from, Inherits(from),
         NEW d \in 1..Depth, ActivationAt(d)' = ActivationAt(d)
  PROVE  ActivationAt(d)'.arm \/ Unresolved(d)'
<1>1. PICK act : act = ActivationAt(d)
  OBVIOUS
<1>2. SiteAt(d) = SiteOf(act)
  BY <1>1 DEF SiteAt
<1>3. CASE act.arm
  BY <1>1, <1>3
<1>4. CASE ~act.arm /\ Resolving(act)
  <2>1. Unresolved(d)
    BY <1>1, <1>4 DEF Fresh, Depth
  <2>2. /\ \A i \in 1..Len(act.todo) : SiteOf(act) \notin DOMAIN act.todo[i].state.trace
        /\ \A i \in 1..Len(act.arms) : SiteOf(act) \notin DOMAIN act.arms[i].state.trace
    BY <1>1, <1>2, <1>4, <2>1 DEF Unresolved
  <2>3. ActivationAt(d)' = act
    BY <1>1
  <2> QED
    BY <1>4, <2>2, <2>3, UnresolvedNext
<1>5. CASE ~act.arm /\ ~Resolving(act)
  <2>1. ASSUME NEW k \in Live', k.place[1] >= d PROVE SiteOf(act) \notin DOMAIN k.state.trace
    BY <1>1, <1>2, <1>5, <2>1, StaysUnresolved
  <2>2. ActivationAt(d)' = act
    BY <1>1
  <2> QED
    BY <1>5, <2>1, <2>2, UnresolvedNext
<1> QED
  BY <1>3, <1>4, <1>5

\* An activation that the step moved on.
LEMMA MovedFresh ==
  ASSUME Typed, Descending, Fresh, request' = request, NEW from, Inherits(from), stack # <<>>,
         NEW d, d = Depth, NEW act, ActivationAt(d)' = act, SiteOf(act) = topSite,
         act.arm = top.arm, ~Resolving(act) => ~Resolving(top),
         ~act.arm /\ Resolving(act) =>
           /\ \A i \in 1..Len(act.todo) : topSite \notin DOMAIN act.todo[i].state.trace
           /\ \A i \in 1..Len(act.arms) : topSite \notin DOMAIN act.arms[i].state.trace
  PROVE  ActivationAt(d)'.arm \/ Unresolved(d)'
<1>1. Depth \in 1..Depth /\ top = ActivationAt(Depth) /\ topSite = SiteAt(Depth)
  BY TopActivation DEF Typed
<1>2. CASE act.arm
  BY <1>2
<1>3. CASE ~act.arm /\ Resolving(act)
  BY <1>3, UnresolvedNext
<1>4. CASE ~act.arm /\ ~Resolving(act)
  <2>1. d \in 1..Depth /\ ~ActivationAt(d).arm /\ ~Resolving(ActivationAt(d))
    BY <1>1, <1>4
  <2>2. SiteAt(d) = topSite
    BY <1>1
  <2>3. ASSUME NEW k \in Live', k.place[1] >= d PROVE SiteOf(act) \notin DOMAIN k.state.trace
    BY <2>1, <2>2, <2>3, StaysUnresolved
  <2> QED
    BY <1>4, <2>3, UnresolvedNext
<1> QED
  BY <1>2, <1>3, <1>4

\* When the next state is fresh.
LEMMA FreshNext ==
  ASSUME \A d \in 1..Depth' : ActivationAt(d)'.arm \/ Unresolved(d)',
         ctl'.at = "fail" => ctl'.why # "duplicate"
  PROVE  Fresh'
BY DEF Fresh, Depth

\* Activations of which the step changed the innermost.
LEMMA FreshReplaced ==
  ASSUME Typed, Descending, Fresh, request' = request, NEW from, Inherits(from), stack # <<>>,
         NEW act, stack' = <<act>> \o Tail(stack), SiteOf(act) = topSite,
         act.arm = top.arm, ~Resolving(act) => ~Resolving(top),
         ~act.arm /\ Resolving(act) =>
           /\ \A i \in 1..Len(act.todo) : topSite \notin DOMAIN act.todo[i].state.trace
           /\ \A i \in 1..Len(act.arms) : topSite \notin DOMAIN act.arms[i].state.trace,
         ctl'.at # "fail"
  PROVE  Fresh'
<1>1. Depth' = Depth /\ KeepsActivations(Depth - 1) /\ ActivationAt(Depth)' = act
  BY Replaced DEF Typed
<1>2. Depth \in Nat /\ Depth - 1 \in Nat
  BY TopActivation, ListElements DEF Typed, Depth
<1>3. ASSUME NEW d \in 1..Depth' PROVE ActivationAt(d)'.arm \/ Unresolved(d)'
  <2>1. CASE d = Depth
    <3>1. ActivationAt(d)' = act
      BY <1>1, <2>1 DEF ActivationAt
    <3> QED
      BY <2>1, <3>1, MovedFresh
  <2>2. CASE d # Depth
    <3>1. d \in 1..(Depth - 1) /\ d \in 1..Depth
      BY <1>1, <1>2, <1>3, <2>2
    <3>2. ActivationAt(d)' = ActivationAt(d)
      BY <1>1, <3>1 DEF KeepsActivations
    <3> QED
      BY <3>1, <3>2, KeptFresh
  <2> QED
    BY <2>1, <2>2
<1> QED
  BY <1>3, FreshNext

\* The innermost activation, taking arms, moved on and an arm was pushed on it.
LEMMA FreshIntoArm ==
  ASSUME Typed, Descending, Fresh, request' = request, NEW from, Inherits(from), stack # <<>>,
         NEW under, NEW act, stack' = <<act>> \o (<<under>> \o Tail(stack)),
         SiteOf(under) = topSite, under.arm = top.arm, Resolving(under), act.arm,
         /\ \A i \in 1..Len(under.todo) : topSite \notin DOMAIN under.todo[i].state.trace
         /\ \A i \in 1..Len(under.arms) : topSite \notin DOMAIN under.arms[i].state.trace,
         ctl'.at # "fail"
  PROVE  Fresh'
<1>1. /\ Depth' = Depth + 1 /\ KeepsActivations(Depth - 1)
      /\ ActivationAt(Depth - 1)' = under /\ ActivationAt(Depth)' = act
  BY ReplacedAndPushed DEF Typed
<1>2. Depth \in Nat /\ Depth - 1 \in Nat
  BY TopActivation, ListElements DEF Typed, Depth
<1>3. ASSUME NEW d \in 1..Depth' PROVE ActivationAt(d)'.arm \/ Unresolved(d)'
  <2>1. CASE d = Depth + 1
    <3>1. ActivationAt(d)' = act
      BY <1>1, <2>1 DEF ActivationAt
    <3> QED
      BY <3>1
  <2>2. CASE d = Depth
    <3>1. Depth' - 1 = d
      BY <1>1, <1>2, <2>2
    <3>2. ActivationAt(d)' = under
      BY <1>1, <3>1 DEF ActivationAt
    <3> QED
      BY <2>2, <3>2, MovedFresh
  <2>3. CASE d # Depth /\ d # Depth + 1
    <3>1. d \in 1..(Depth - 1) /\ d \in 1..Depth
      BY <1>1, <1>2, <1>3, <2>3
    <3>2. ActivationAt(d)' = ActivationAt(d)
      BY <1>1, <3>1 DEF KeepsActivations
    <3> QED
      BY <3>1, <3>2, KeptFresh
  <2> QED
    BY <2>1, <2>2, <2>3
<1> QED
  BY <1>3, FreshNext

\* Activations that the step only keeps.
LEMMA FreshKept ==
  ASSUME Typed, Descending, Fresh, request' = request, NEW from, Inherits(from),
         Depth' \in Nat, Depth' <= Depth, KeepsActivations(Depth'),
         ctl'.at = "fail" => ctl'.why # "duplicate"
  PROVE  Fresh'
<1>1. Depth \in Nat
  BY ListElements DEF Typed, Depth
<1>2. ASSUME NEW d \in 1..Depth' PROVE ActivationAt(d)'.arm \/ Unresolved(d)'
  <2>1. d \in 1..Depth
    BY <1>1, <1>2
  <2>2. ActivationAt(d)' = ActivationAt(d)
    BY <1>2 DEF KeepsActivations
  <2> QED
    BY <2>1, <2>2, KeptFresh
<1> QED
  BY <1>2, FreshNext

\* A candidate that is called for has no outcome for the node it enters.
LEMMA CalledIsFresh ==
  ASSUME Typed, Descending, Remembered, Enters
  PROVE  calledSite \notin DOMAIN ctl.state.trace
<1> DEFINE l == At(<<Depth + 1, "call", 1>>, ctl.state)
<1>1. ctl.at = "call" /\ calledSite \notin DOMAIN ctl.state.cache
  BY DEF Enters
<1>2. l \in Live /\ l.state = ctl.state
  <2>1. Depth \in Nat
    BY ListElements DEF Typed, Depth
  <2>2. l \in InHand
    BY <1>1, InHandParts
  <2>3. Live = InHand \cup HeldTo(Depth)
    BY <2>1, LiveParts
  <2> QED
    BY <2>2, <2>3 DEF At
<1> HIDE DEF l
<1>3. IsSite(calledSite)
  <2>1. NodeOK(ctl.frame, ctl.node)
    BY <1>1 DEF Typed, ControlOK
  <2> QED
    BY <2>1, DemandedAreBelow DEF calledSite
<1>4. \A d \in 1..Len(stack) : SiteAt(d) # calledSite
  <2> SUFFICES ASSUME NEW d \in 1..Len(stack), SiteAt(d) = calledSite PROVE FALSE
    OBVIOUS
  <2>1. Below(calledSite, calledSite)
    BY <1>1 DEF Descending
  <2> QED
    BY <1>3, <2>1, BelowIsAnOrder
<1> QED
  BY <1>1, <1>2, <1>4 DEF Remembered

\* Entering a node.
LEMMA FreshEnters ==
  ASSUME Typed, Descending, Remembered, Fresh, request' = request,
         NEW from, Inherits(from), Enters
  PROVE  Fresh'
<1> DEFINE k == At(<<Depth + 1, "done", 1>>, Entered.done[1].state)
<1>1. /\ ctl.at = "call" /\ ctl'.at = "run" /\ stack' = <<Entered>> \o stack
      /\ ~Entered.arm /\ ~Resolving(Entered) /\ SiteOf(Entered) = calledSite
      /\ Entered.todo = <<>> /\ Entered.arms = <<>>
      /\ Len(Entered.done) = 1 /\ Entered.done[1].state = ctl.state
  BY DEF Enters
<1>2. Depth \in Nat
  BY ListElements DEF Typed, Depth
<1>3. Depth' = Depth + 1 /\ KeepsActivations(Depth) /\ ActivationAt(Depth)' = Entered
  BY <1>1, Pushed DEF Typed
<1>4. Live' = InHand' \cup HeldTo(Depth) \cup HeldAt(Depth + 1, SiteOf(Entered), Entered)
  BY <1>1, LivePushed
<1>5. InHand' = {} /\ HeldAt(Depth + 1, SiteOf(Entered), Entered) = {k}
  BY <1>1, <1>3, InHandNext, OneAlone, EmptyParts DEF HeldAt
<1>6. k.state = ctl.state
  BY <1>1 DEF At
<1> HIDE DEF k
<1>7. calledSite \notin DOMAIN ctl.state.trace
  BY CalledIsFresh
<1>8. ASSUME NEW d \in 1..Depth' PROVE ActivationAt(d)'.arm \/ Unresolved(d)'
  <2>1. CASE d = Depth + 1
    <3>1. ActivationAt(d)' = Entered
      BY <1>3, <2>1 DEF ActivationAt
    <3>2. ASSUME NEW l \in Live', l.place[1] >= d PROVE SiteOf(Entered) \notin DOMAIN l.state.trace
      <4>1. l \notin HeldTo(Depth)
        <5> SUFFICES ASSUME l \in HeldTo(Depth) PROVE FALSE
          OBVIOUS
        <5>1. l.place[1] \in Nat /\ l.place[1] <= Depth
          BY <1>2, RestPlaces
        <5> QED
          BY <1>2, <2>1, <3>2, <5>1
      <4>2. l = k
        BY <1>4, <1>5, <4>1
      <4> QED
        BY <1>1, <1>6, <1>7, <4>2
    <3> QED
      BY <1>1, <3>1, <3>2, UnresolvedNext
  <2>2. CASE d # Depth + 1
    <3>1. d \in 1..Depth
      BY <1>2, <1>3, <1>8, <2>2
    <3>2. ActivationAt(d)' = ActivationAt(d)
      BY <1>3, <3>1 DEF KeepsActivations
    <3> QED
      BY <3>1, <3>2, KeptFresh
  <2> QED
    BY <2>1, <2>2
<1> QED
  BY <1>1, <1>8, FreshNext

\* Taking a partial, and driving what was returned for it.
LEMMA FreshInPlace ==
  ASSUME Typed, Descending, Fresh, request' = request, NEW from, Inherits(from),
         Calls \/ Delivers
  PROVE  Fresh'
<1>1. CASE Calls
  <2>1. PICK act : act = Moved(top, top.stage, Tail(top.todo), Head(top.todo).values,
                               top.done, top.arms)
    OBVIOUS
  <2>2. /\ stack # <<>> /\ stack' = <<act>> \o Tail(stack) /\ ~Resolving(top) /\ ctl'.at = "call"
    BY <1>1, <2>1 DEF Calls
  <2>3. SiteOf(act) = topSite /\ act.arm = top.arm /\ ~Resolving(act)
    BY <2>1, <2>2, MovedSite
  <2> QED
    BY <2>2, <2>3, FreshReplaced
<1>2. CASE Delivers
  <2>1. PICK act : act = Moved(top, top.stage, top.todo, top.current,
                               top.done \o Delivered, top.arms)
    OBVIOUS
  <2>2. /\ stack # <<>> /\ stack' = <<act>> \o Tail(stack) /\ ctl'.at = "run"
    BY <1>2, <2>1 DEF Delivers
  <2>3. /\ SiteOf(act) = topSite /\ act.arm = top.arm /\ (Resolving(act) <=> Resolving(top))
        /\ act.todo = top.todo /\ act.arms = top.arms
    BY <2>1, MovedSite
  <2>4. ~act.arm /\ Resolving(act) =>
           /\ \A i \in 1..Len(act.todo) : topSite \notin DOMAIN act.todo[i].state.trace
           /\ \A i \in 1..Len(act.arms) : topSite \notin DOMAIN act.arms[i].state.trace
    BY <2>2, <2>3, NoOutcomeYet
  <2> QED
    BY <2>2, <2>3, <2>4, FreshReplaced
<1> QED
  BY <1>1, <1>2

\* A selection begins to take its arms: what its selector left has no outcome for it.
LEMMA FreshAdvances ==
  ASSUME Typed, Descending, Fresh, request' = request, NEW from, Inherits(from), Advances
  PROVE  Fresh'
<1>1. PICK act : act = Moved(top, top.stage + 1, top.done, top.current, <<>>, top.arms)
  OBVIOUS
<1>2. /\ stack # <<>> /\ stack' = <<act>> \o Tail(stack) /\ ctl.at = "run" /\ ctl' = ctl
      /\ top.stage < Stages(top) /\ top.arms = <<>>
  BY <1>1 DEF Advances
<1>3. /\ SiteOf(act) = topSite /\ act.arm = top.arm /\ act.todo = top.done /\ act.arms = top.arms
  BY <1>1, MovedSite
<1>4. ~Resolving(top)
  <2> SUFFICES ASSUME Resolving(top) PROVE FALSE
    OBVIOUS
  <2>1. Stages(top) = Len(top.refs) + 1 /\ Len(top.refs) = 1
    BY <1>2, TopFacts, StagesOf DEF Resolving
  <2> QED
    BY <1>2, <2>1, TopFacts DEF Resolving
<1>5. ASSUME ~act.arm, NEW i \in 1..Len(act.todo)
      PROVE  topSite \notin DOMAIN act.todo[i].state.trace
  <2>1. Depth \in 1..Depth /\ top = ActivationAt(Depth) /\ topSite = SiteAt(Depth)
    BY <1>2, TopActivation DEF Typed
  <2>2. PICK d \in 1..Len(stack) : d = Depth
    BY <2>1 DEF Depth
  <2>3. ~ActivationAt(d).arm /\ ~Resolving(ActivationAt(d))
    BY <1>3, <1>4, <1>5, <2>1, <2>2
  <2>4. Unresolved(d)
    BY <2>3 DEF Fresh
  <2>5. \A l \in Live : l.place[1] >= d => SiteAt(d) \notin DOMAIN l.state.trace
    BY <2>3, <2>4 DEF Unresolved
  <2>6. PICK l : l = At(<<Depth, "done", i>>, top.done[i].state)
    OBVIOUS
  <2>7. l \in Done(Depth, top.done) /\ l.place[1] = Depth /\ l.state = top.done[i].state
    BY <1>3, <1>5, <2>6 DEF Done, At
  <2>8. l \in Live
    <3>1. Done(Depth, top.done) \subseteq Live
      BY <1>2, LiveHere DEF HeldAt
    <3> QED
      BY <2>7, <3>1
  <2>9. l.place[1] >= d
    BY <2>2, <2>7
  <2>10. SiteAt(d) \notin DOMAIN l.state.trace
    BY <2>5, <2>8, <2>9
  <2> QED
    BY <1>3, <2>1, <2>2, <2>7, <2>10
<1>6. \A i : i \notin 1..Len(<<>>)
  BY EmptyList
<1>7. ~act.arm /\ Resolving(act) =>
           /\ \A i \in 1..Len(act.todo) : topSite \notin DOMAIN act.todo[i].state.trace
           /\ \A i \in 1..Len(act.arms) : topSite \notin DOMAIN act.arms[i].state.trace
  BY <1>2, <1>3, <1>5, <1>6
<1>8. ctl'.at # "fail"
  BY <1>2
<1> QED
  BY <1>2, <1>3, <1>4, <1>7, <1>8, FreshReplaced

\* The first partial or arm is taken away.
LEMMA TakenFromList ==
  ASSUME NEW site, NEW list, IsList(list), list # <<>>,
         \A i \in 1..Len(list) : site \notin DOMAIN list[i].state.trace
  PROVE  /\ \A i \in 1..Len(Tail(list)) : site \notin DOMAIN Tail(list)[i].state.trace
         /\ site \notin DOMAIN Head(list).state.trace
<1>1. /\ Len(list) \in Nat /\ 1 \in 1..Len(list) /\ Head(list) = list[1]
      /\ Len(Tail(list)) = Len(list) - 1
      /\ \A i \in 1..(Len(list) - 1) : Tail(list)[i] = list[i + 1]
  BY HeadOfList, TailOfList, ListElements
<1>2. \A i \in 1..(Len(list) - 1) : i + 1 \in 1..Len(list)
  BY <1>1
<1> QED
  BY <1>1, <1>2

\* The arms of a selection.
LEMMA FreshArms ==
  ASSUME Typed, Descending, Fresh, WithinBudget, request' = request, NEW from, Inherits(from),
         Forks \/ Drops
  PROVE  Fresh'
<1>1. CASE Forks
  <2>1. PICK act : act = Moved(top, top.stage, Tail(top.todo), top.current, top.done, Forked)
    OBVIOUS
  <2>2. Selecting /\ stack' = <<act>> \o Tail(stack) /\ ctl' = ctl
    BY <1>1, <2>1 DEF Forks
  <2>3. ctl.at = "run" /\ stack # <<>> /\ top.todo # <<>> /\ ~top.arm /\ Resolving(top)
    BY <2>2, SelectingFacts
  <2>4. /\ SiteOf(act) = topSite /\ act.arm = top.arm /\ (Resolving(act) <=> Resolving(top))
        /\ act.todo = Tail(top.todo) /\ act.arms = Forked
    BY <2>1, MovedSite
  <2>5. /\ \A i \in 1..Len(Tail(top.todo)) : topSite \notin DOMAIN Tail(top.todo)[i].state.trace
        /\ topSite \notin DOMAIN Head(top.todo).state.trace
    <3>1. \A i \in 1..Len(top.todo) : topSite \notin DOMAIN top.todo[i].state.trace
      BY <2>3, NoOutcomeYet
    <3>2. IsList(top.todo)
      BY <2>3, TopFacts
    <3> QED
      BY <2>3, <3>1, <3>2, TakenFromList
  <2>6. \A i \in 1..Len(Forked) : Forked[i].state = Head(top.todo).state
    BY <2>2, ForkedArms
  <2>7. /\ \A i \in 1..Len(act.todo) : topSite \notin DOMAIN act.todo[i].state.trace
        /\ \A i \in 1..Len(act.arms) : topSite \notin DOMAIN act.arms[i].state.trace
    BY <2>4, <2>5, <2>6
  <2>8. ctl'.at # "fail"
    BY <2>2, <2>3
  <2> QED
    BY <2>2, <2>3, <2>4, <2>7, <2>8, FreshReplaced
<1>2. CASE Drops
  <2>1. PICK act : act = Moved(top, top.stage, top.todo, top.current, top.done, Tail(top.arms))
    OBVIOUS
  <2>2. Branching /\ stack' = <<act>> \o Tail(stack) /\ ctl' = ctl
    BY <1>2, <2>1 DEF Drops
  <2>3. ctl.at = "run" /\ stack # <<>> /\ top.arms # <<>> /\ ~top.arm /\ Resolving(top)
    BY <2>2, BranchFacts
  <2>4. /\ SiteOf(act) = topSite /\ act.arm = top.arm /\ (Resolving(act) <=> Resolving(top))
        /\ act.todo = top.todo /\ act.arms = Tail(top.arms)
    BY <2>1, MovedSite
  <2>5. /\ \A i \in 1..Len(top.todo) : topSite \notin DOMAIN top.todo[i].state.trace
        /\ \A i \in 1..Len(top.arms) : topSite \notin DOMAIN top.arms[i].state.trace
    BY <2>3, NoOutcomeYet
  <2>6. \A i \in 1..Len(Tail(top.arms)) : topSite \notin DOMAIN Tail(top.arms)[i].state.trace
    <3>1. IsList(top.arms)
      BY <2>3, TopFacts
    <3> QED
      BY <2>3, <2>5, <3>1, TakenFromList
  <2>7. ctl'.at # "fail"
    BY <2>2, <2>3
  <2> QED
    BY <2>2, <2>3, <2>4, <2>5, <2>6, <2>7, FreshReplaced
<1> QED
  BY <1>1, <1>2

\* An arm is entered.
LEMMA FreshInArm ==
  ASSUME Typed, Descending, Fresh, request' = request, NEW from, Inherits(from),
         Resolves \/ Branched
  PROVE  Fresh'
<1>1. CASE Resolves
  <2>1. PICK under : under = Moved(top, top.stage, Tail(top.todo), top.current, top.done, top.arms)
    OBVIOUS
  <2>2. Selecting /\ stack' = <<ResolvedArm>> \o (<<under>> \o Tail(stack)) /\ ctl' = ctl
    BY <1>1, <2>1 DEF Resolves
  <2>3. ctl.at = "run" /\ stack # <<>> /\ top.todo # <<>> /\ ~top.arm /\ Resolving(top)
    BY <2>2, SelectingFacts
  <2>4. /\ SiteOf(under) = topSite /\ under.arm = top.arm /\ (Resolving(under) <=> Resolving(top))
        /\ under.todo = Tail(top.todo) /\ under.arms = top.arms
    BY <2>1, MovedSite
  <2>5. /\ \A i \in 1..Len(top.todo) : topSite \notin DOMAIN top.todo[i].state.trace
        /\ \A i \in 1..Len(top.arms) : topSite \notin DOMAIN top.arms[i].state.trace
    BY <2>3, NoOutcomeYet
  <2>6. \A i \in 1..Len(Tail(top.todo)) : topSite \notin DOMAIN Tail(top.todo)[i].state.trace
    <3>1. IsList(top.todo)
      BY <2>3, TopFacts
    <3> QED
      BY <2>3, <2>5, <3>1, TakenFromList
  <2>7. ResolvedArm.arm /\ ctl'.at # "fail"
    BY <2>2, <2>3, ArmSite DEF ResolvedArm
  <2>8. PICK act : act = ResolvedArm
    OBVIOUS
  <2> QED
    BY <2>2, <2>3, <2>4, <2>5, <2>6, <2>7, <2>8, FreshIntoArm
<1>2. CASE Branched
  <2>1. PICK under : under = Moved(top, top.stage, top.todo, top.current, top.done, Tail(top.arms))
    OBVIOUS
  <2>2. Branching /\ stack' = <<BranchedArm>> \o (<<under>> \o Tail(stack)) /\ ctl' = ctl
    BY <1>2, <2>1 DEF Branched
  <2>3. ctl.at = "run" /\ stack # <<>> /\ top.arms # <<>> /\ ~top.arm /\ Resolving(top)
    BY <2>2, BranchFacts
  <2>4. /\ SiteOf(under) = topSite /\ under.arm = top.arm /\ (Resolving(under) <=> Resolving(top))
        /\ under.todo = top.todo /\ under.arms = Tail(top.arms)
    BY <2>1, MovedSite
  <2>5. /\ \A i \in 1..Len(top.todo) : topSite \notin DOMAIN top.todo[i].state.trace
        /\ \A i \in 1..Len(top.arms) : topSite \notin DOMAIN top.arms[i].state.trace
    BY <2>3, NoOutcomeYet
  <2>6. \A i \in 1..Len(Tail(top.arms)) : topSite \notin DOMAIN Tail(top.arms)[i].state.trace
    <3>1. IsList(top.arms)
      BY <2>3, TopFacts
    <3> QED
      BY <2>3, <2>5, <3>1, TakenFromList
  <2>7. BranchedArm.arm /\ ctl'.at # "fail"
    BY <2>2, <2>3, ArmSite DEF BranchedArm
  <2>8. PICK act : act = BranchedArm
    OBVIOUS
  <2> QED
    BY <2>2, <2>3, <2>4, <2>5, <2>6, <2>7, <2>8, FreshIntoArm
<1> QED
  BY <1>1, <1>2

\* Every step keeps the candidates fresh.
LEMMA FreshStep ==
  ASSUME Typed, Descending, Remembered, Fresh, WithinBudget, [Next]_vars
  PROVE  Fresh'
<1>1. request' = request /\ Depth \in Nat
  BY StepCases, ListElements DEF Typed, Depth
<1>2. PICK from : Inherits(from)
  BY StepInherits
<1>3. ASSUME stack' = stack, ctl'.at = "fail" => ctl'.why # "duplicate" PROVE Fresh'
  <2>1. Depth' = Depth /\ KeepsActivations(Depth)
    BY <1>3 DEF Depth, KeepsActivations, ActivationAt
  <2>2. Depth' \in Nat /\ Depth' <= Depth /\ KeepsActivations(Depth')
    BY <1>1, <2>1
  <2> QED
    BY <1>1, <1>2, <1>3, <2>2, FreshKept
<1>4. CASE Answers
  BY <1>3, <1>4 DEF Answers
<1>5. CASE Finishes
  <2>1. stack # <<>> /\ stack' = Tail(stack) /\ ctl'.at = "return"
    BY <1>5 DEF Finishes
  <2>2. Depth' = Depth - 1 /\ KeepsActivations(Depth - 1)
    BY <2>1, Popped DEF Typed
  <2>3. Depth - 1 \in Nat
    BY <2>1, TopActivation DEF Typed
  <2>4. Depth' \in Nat /\ Depth' <= Depth /\ KeepsActivations(Depth')
    BY <1>1, <2>2, <2>3
  <2> QED
    BY <1>1, <1>2, <2>1, <2>4, FreshKept
<1>6. CASE GivesUp
  <2>1. Depth' = 0
    BY <1>6, GivesUpAll
  <2>2. ctl'.why # "duplicate"
    <3> SUFFICES ASSUME ctl'.why = "duplicate" PROVE FALSE
      OBVIOUS
    <3>1. Selecting /\ topSite \in DOMAIN Head(top.todo).state.trace
      BY <1>6 DEF GivesUp
    <3>2. stack # <<>> /\ top.todo # <<>> /\ ~top.arm /\ Resolving(top)
      BY <3>1, SelectingFacts
    <3>3. \A i \in 1..Len(top.todo) : topSite \notin DOMAIN top.todo[i].state.trace
      BY <3>2, NoOutcomeYet
    <3>4. IsList(top.todo)
      BY <3>2, TopFacts
    <3> QED
      BY <3>1, <3>2, <3>3, <3>4, TakenFromList
  <2>3. KeepsActivations(0)
    BY DEF KeepsActivations
  <2>4. Depth' \in Nat /\ Depth' <= Depth /\ KeepsActivations(Depth')
    BY <1>1, <2>1, <2>3
  <2> QED
    BY <1>1, <1>2, <2>2, <2>4, FreshKept
<1>7. CASE UNCHANGED vars
  <2>1. stack' = stack /\ ctl' = ctl
    BY <1>7 DEF vars
  <2>2. ctl'.at = "fail" => ctl'.why # "duplicate"
    BY <2>1 DEF Fresh
  <2> QED
    BY <1>3, <2>1, <2>2
<1> QED
  BY <1>1, <1>2, <1>4, <1>5, <1>6, <1>7, StepCases, FreshEnters, FreshInPlace, FreshAdvances,
     FreshArms, FreshInArm

-----------------------------------------------------------------------------
(***************************************************************************)
(* The invariant of the evaluator.                                         *)
(***************************************************************************)
\* A request starts with one candidate, that has reached nothing.
LEMMA LiveInit ==
  ASSUME Init
  PROVE  \E k : /\ Live = {k} /\ k.state = ctl.state /\ k.place[2] = "call"
                /\ k.state.guard = request.domain /\ k.state.trace = <<>>
<1> DEFINE k == At(<<Depth + 1, "call", 1>>, ctl.state)
<1>1. ctl.at = "call" /\ stack = <<>>
  BY DEF Init, Call
<1>2. ctl.state = [guard |-> request.domain, never |-> request.never,
                   trace |-> <<>>, cache |-> <<>>]
  BY DEF Init, Call
<1>3. k.state = ctl.state /\ k.place[2] = "call"
  BY DEF At
<1>4. Depth = 0
  BY <1>1, EmptyList DEF Depth
<1>5. Live = InHand \cup HeldTo(0) /\ HeldTo(0) = {}
  BY <1>4, LiveParts
<1>6. InHand = {k}
  BY <1>1, InHandParts
<1> HIDE DEF k
<1>7. ctl.state.guard = request.domain /\ ctl.state.trace = <<>>
  BY <1>2
<1> QED
  BY <1>3, <1>5, <1>6, <1>7

\* The evaluator's invariant holds of a request that starts.
LEMMA InvariantInit ==
  ASSUME Init
  PROVE  EvaluatorInvariant /\ WithinBudget
<1>1. Typed
  BY TypedInit
<1>2. WithinBudget
  BY LimitAssumption DEF Init, WithinBudget
<1>3. PICK k : Live = {k} /\ k.state.trace = <<>>
  BY LiveInit
<1>4. \A d : d \notin 1..Len(stack)
  <2>1. Len(stack) = 0
    BY EmptyList DEF Init
  <2> QED
    BY <2>1
<1>5. Descending
  BY <1>4 DEF Descending
<1>6. DOMAIN k.state.trace = {}
  BY <1>3
<1>7. Remembered
  BY <1>3, <1>6 DEF Remembered
<1>8. Fresh
  <2>1. ctl.at = "call"
    BY DEF Init, Call
  <2> QED
    BY <1>4, <2>1 DEF Fresh
<1>9. CandidatesConflict
  BY <1>3 DEF CandidatesConflict
<1> QED
  BY <1>1, <1>2, <1>5, <1>7, <1>8, <1>9 DEF EvaluatorInvariant

\* Every step keeps the evaluator's invariant and the budget.
LEMMA InvariantStep ==
  ASSUME EvaluatorInvariant, WithinBudget, PureNodesAreTyped, [Next]_vars
  PROVE  EvaluatorInvariant' /\ WithinBudget'
<1>1. Typed /\ Descending /\ Remembered /\ Fresh /\ CandidatesConflict
  BY DEF EvaluatorInvariant
<1>2. Typed'
  BY <1>1, TypedStep
<1>3. Descending'
  BY <1>1, DescendingStep
<1>4. PICK from : Inherits(from)
  BY <1>1, StepInherits
<1>5. Depth' \in Nat /\ SitesStay
  BY <1>1, StepSites
<1>6. Remembered'
  BY <1>1, <1>4, <1>5, RememberedInherited
<1>7. Fresh'
  BY <1>1, FreshStep
<1>8. CandidatesConflict'
  BY <1>1, <1>4, ConflictInherited
<1>9. WithinBudget'
  BY CountingSteps, LimitAssumption DEF WithinBudget, BudgetSpent
<1> QED
  BY <1>2, <1>3, <1>6, <1>7, <1>8, <1>9 DEF EvaluatorInvariant

-----------------------------------------------------------------------------
(***************************************************************************)
(* The steps, with what they count and record.                             *)
(***************************************************************************)
PassesOn == Answers \/ Enters \/ Calls \/ Delivers \/ Advances \/ Finishes

\* Every step, by its effect on the candidates, the count and the reason.
LEMMA StepEffects ==
  ASSUME Typed, [Next]_vars
  PROVE  /\ request' = request
         /\ \/ /\ PassesOn \/ Resolves \/ GivesUp
               /\ syntactic' = syntactic /\ incomplete' = incomplete
            \/ /\ Forks /\ syntactic' = syntactic
               /\ incomplete' = IF TooManyMasks THEN FirstExceeded(topSite) ELSE incomplete
            \/ /\ Drops /\ syntactic' = syntactic
               /\ \/ incomplete' = FirstExceeded(topSite)
                  \/ incomplete' = incomplete /\ Contradicts(branch.state, branch.arm)
            \/ /\ Branched /\ syntactic' = syntactic + 1 /\ incomplete' = incomplete
               /\ ~Contradicts(branch.state, branch.arm)
            \/ UNCHANGED vars
<1>1. CASE CacheHit \/ EvalParam
  BY <1>1, AnswersStep DEF PassesOn
<1>2. CASE EnterNode
  BY <1>2, EntersStep DEF PassesOn
<1>3. CASE DemandOperand \/ EnterCallee \/ EnterIteration
  BY <1>3, CallsStep DEF PassesOn
<1>4. CASE Deliver
  BY <1>4, DeliversStep DEF PassesOn
<1>5. CASE NextStage
  BY <1>5, AdvancesStep DEF PassesOn
<1>6. CASE FinishNode \/ FinishArm
  BY <1>6, FinishesStep DEF PassesOn
<1>7. CASE ResolveConcrete
  BY <1>7, ResolvesStep
<1>8. CASE ForkSymbolic
  BY <1>8, ForksStep
<1>9. CASE BranchAtLimit \/ BranchImpossible
  BY <1>9, DropsStep
<1>10. CASE BranchTaken
  BY <1>10, BranchedStep
<1>11. CASE Terminated \/ UNCHANGED vars
  <2>1. UNCHANGED vars
    BY <1>11 DEF Terminated
  <2>2. request' = request
    BY <2>1 DEF vars
  <2> QED
    BY <2>1, <2>2
<1> QED
  BY <1>1, <1>2, <1>3, <1>4, <1>5, <1>6, <1>7, <1>8, <1>9, <1>10, <1>11 DEF Next

\* The steps that pass candidates on.
LEMMA PassesOnStep ==
  ASSUME Typed, Descending, PassesOn
  PROVE  /\ \E r, o, n : Passes(r, o, n)
         /\ ctl.at # "fail" /\ ctl'.at # "fail"
<1>1. CASE Answers
  BY <1>1, AnswersPass DEF Answers
<1>2. CASE Enters
  BY <1>2, EntersPass DEF Enters
<1>3. CASE Calls
  BY <1>3, CallsPass DEF Calls
<1>4. CASE Delivers
  BY <1>4, DeliversPass DEF Delivers
<1>5. CASE Advances
  <2>1. ctl.at = "run" /\ ctl'.at = "run"
    BY <1>5 DEF Advances
  <2> QED
    BY <1>5, <2>1, AdvancesPass
<1>6. CASE Finishes
  BY <1>6, FinishesPass DEF Finishes
<1> QED
  BY <1>1, <1>2, <1>3, <1>4, <1>5, <1>6 DEF PassesOn

-----------------------------------------------------------------------------
(***************************************************************************)
(* The candidates that exist are at most those counted.                    *)
(***************************************************************************)
\* The candidates branched into.
Counted == {l \in Live : l.place[2] # "arms"}

Enough == IsFiniteSet(Counted) /\ Cardinality(Counted) <= syntactic

\* Candidates that make room for as many others.
Replaces(rest, o, n) ==
  Live = rest \cup {o[i] : i \in DOMAIN o} /\ Live' = rest \cup {n[i] : i \in DOMAIN o}

\* Candidates that are replaced one for one are not more than before.
LEMMA OneForOne ==
  ASSUME Enough, syntactic' = syntactic, syntactic \in Nat, NEW rest, NEW o, NEW n,
         Replaces(rest, o, n),
         \A i \in DOMAIN o : \A r \in rest : r.place # o[i].place,
         \A i, j \in DOMAIN o : i # j => o[i].place # o[j].place,
         \A i \in DOMAIN o : o[i].place[2] # "arms"
  PROVE  Enough'
<1> DEFINE Old(l) == \E i \in DOMAIN o : o[i] = l
           which(l) == CHOOSE i \in DOMAIN o : o[i] = l
           f == [l \in Counted |-> IF Old(l) THEN n[which(l)] ELSE l]
           T == {f[l] : l \in Counted}
<1>1. ASSUME NEW i \in DOMAIN o PROVE o[i] \in Counted /\ f[o[i]] = n[i]
  <2>1. o[i] \in Counted /\ Old(o[i])
    BY DEF Counted, Replaces
  <2>2. which(o[i]) \in DOMAIN o /\ o[which(o[i])] = o[i]
    BY <2>1
  <2>3. which(o[i]) = i
    BY <2>2
  <2> QED
    BY <2>1, <2>3
<1>2. ASSUME NEW r \in rest, r.place[2] # "arms" PROVE r \in Counted /\ f[r] = r
  <2>1. r \in Counted /\ ~Old(r)
    BY <1>2 DEF Counted, Replaces
  <2> QED
    BY <2>1
<1>3. f \in [Counted -> T] /\ \A t \in T : \E l \in Counted : f[l] = t
  OBVIOUS
<1> HIDE DEF f
<1>4. f \in Surjection(Counted, T)
  BY <1>3 DEF Surjection
<1>5. IsFiniteSet(T) /\ Cardinality(T) <= Cardinality(Counted)
  BY <1>4, FS_Surjection DEF Enough
<1>6. Counted' \subseteq T
  <2> SUFFICES ASSUME NEW k \in Live', k.place[2] # "arms" PROVE k \in T
    BY DEF Counted
  <2>1. CASE k \in rest
    BY <1>2, <2>1
  <2>2. CASE k \notin rest
    <3>1. PICK i \in DOMAIN o : k = n[i]
      BY <2>2 DEF Replaces
    <3> QED
      BY <1>1, <3>1
  <2> QED
    BY <2>1, <2>2
<1> HIDE DEF T
<1>7. /\ IsFiniteSet(Counted') /\ Cardinality(Counted') <= Cardinality(T)
      /\ Cardinality(Counted') \in Nat /\ Cardinality(T) \in Nat /\ Cardinality(Counted) \in Nat
  BY <1>5, <1>6, FS_Subset, FS_CardinalityType DEF Enough
<1>8. IsFiniteSet(Counted') /\ Cardinality(Counted') <= syntactic'
  BY <1>5, <1>7 DEF Enough
<1> QED
  BY <1>8 DEF Enough

\* Candidates that are only dropped are not more than before.
LEMMA NoneAdded ==
  ASSUME Enough, syntactic' = syntactic, syntactic \in Nat, Counted' \subseteq Counted
  PROVE  Enough'
<1>1. /\ IsFiniteSet(Counted') /\ Cardinality(Counted') <= Cardinality(Counted)
      /\ Cardinality(Counted') \in Nat /\ Cardinality(Counted) \in Nat
  BY FS_Subset, FS_CardinalityType DEF Enough
<1>2. IsFiniteSet(Counted') /\ Cardinality(Counted') <= syntactic'
  BY <1>1 DEF Enough
<1> QED
  BY <1>2 DEF Enough

\* Every step keeps the count ahead of the candidates.
LEMMA EnoughStep ==
  ASSUME EvaluatorInvariant, WithinBudget, Enough, [Next]_vars
  PROVE  Enough'
<1>1. Typed /\ Descending /\ Fresh /\ syntactic \in Nat
  BY DEF EvaluatorInvariant, WithinBudget
<1>2. CASE PassesOn /\ syntactic' = syntactic
  <2>1. PICK r, o, n : Passes(r, o, n)
    BY <1>1, <1>2, PassesOnStep
  <2>2. /\ Replaces(r, o, n)
        /\ \A i \in DOMAIN o : \A l \in r : l.place # o[i].place
        /\ \A i, j \in DOMAIN o : i # j => o[i].place # o[j].place
        /\ \A i \in DOMAIN o : o[i].place[2] # "arms"
    BY <2>1 DEF Passes, Moves, Replaces
  <2> QED
    BY <1>1, <1>2, <2>2, OneForOne
<1>3. CASE Resolves /\ syntactic' = syntactic
  <2>1. PICK rest, l, k : Splits(rest, l, {k})
    BY <1>1, <1>3, ResolvesSplit
  <2> DEFINE o == [i \in {1} |-> l]
             n == [i \in {1} |-> k]
  <2>2. /\ {o[i] : i \in DOMAIN o} = {l} /\ {n[i] : i \in DOMAIN o} = {k}
        /\ \A i, j \in DOMAIN o : i = j
        /\ \A i \in DOMAIN o : o[i] = l
    OBVIOUS
  <2> HIDE DEF o, n
  <2>3. /\ Replaces(rest, o, n)
        /\ \A i \in DOMAIN o : \A r \in rest : r.place # o[i].place
        /\ \A i, j \in DOMAIN o : i # j => o[i].place # o[j].place
        /\ \A i \in DOMAIN o : o[i].place[2] # "arms"
    BY <2>1, <2>2 DEF Splits, Replaces
  <2> QED
    BY <1>1, <1>3, <2>3, OneForOne
<1>4. CASE Forks /\ syntactic' = syntactic
  <2>1. PICK rest, l, kids : Splits(rest, l, kids) /\ \A k \in kids : k.place[2] = "arms"
    BY <1>1, <1>4, ForksSplit
  <2>2. Counted' \subseteq Counted
    BY <2>1 DEF Splits, Counted
  <2> QED
    BY <1>1, <1>4, <2>2, NoneAdded
<1>5. CASE Drops /\ syntactic' = syntactic
  <2>1. Live' \subseteq Live
    BY <1>1, <1>5, DropsShrink
  <2>2. Counted' \subseteq Counted
    BY <2>1 DEF Counted
  <2> QED
    BY <1>1, <1>5, <2>2, NoneAdded
<1>6. CASE GivesUp /\ syntactic' = syntactic
  <2>1. Counted' \subseteq Counted
    BY <1>6, GivesUpAll DEF Counted
  <2> QED
    BY <1>1, <1>6, <2>1, NoneAdded
<1>7. CASE Branched /\ syntactic' = syntactic + 1
  <2>1. PICK rest, l, k : Admits(rest, l, k)
    BY <1>1, <1>7, BranchedAdmits
  <2>2. Counted' \subseteq Counted \cup {k}
    BY <2>1 DEF Admits, Counted
  <2>3. /\ IsFiniteSet(Counted \cup {k}) /\ Cardinality(Counted) \in Nat
        /\ Cardinality(Counted \cup {k}) \in Nat
        /\ Cardinality(Counted \cup {k}) <= Cardinality(Counted) + 1
    BY FS_AddElement, FS_CardinalityType DEF Enough
  <2>4. /\ IsFiniteSet(Counted') /\ Cardinality(Counted') <= Cardinality(Counted \cup {k})
        /\ Cardinality(Counted') \in Nat
    BY <2>2, <2>3, FS_Subset, FS_CardinalityType
  <2>5. IsFiniteSet(Counted') /\ Cardinality(Counted') <= syntactic'
    BY <1>1, <1>7, <2>3, <2>4 DEF Enough
  <2> QED
    BY <2>5 DEF Enough
<1>8. CASE UNCHANGED vars
  <2>1. Live' = Live /\ syntactic' = syntactic
    BY <1>8, UnchangedLive DEF vars
  <2>2. Counted' \subseteq Counted
    BY <2>1 DEF Counted
  <2> QED
    BY <1>1, <2>1, <2>2, NoneAdded
<1> QED
  BY <1>1, <1>2, <1>3, <1>4, <1>5, <1>6, <1>7, <1>8, StepEffects

\* A request starts with one candidate, and counts it.
LEMMA EnoughInit ==
  ASSUME Init
  PROVE  Enough
<1>1. PICK k : Live = {k} /\ k.place[2] = "call"
  BY LiveInit
<1>2. Counted = {k}
  BY <1>1 DEF Counted
<1>3. IsFiniteSet(Counted) /\ Cardinality(Counted) = 1
  BY <1>2, FS_Singleton
<1> QED
  BY <1>3 DEF Enough, Init

-----------------------------------------------------------------------------
(***************************************************************************)
(* The evaluator implements SelectionSplit.                                *)
(***************************************************************************)
Candidates == {Candidate(l.state) : l \in Live}
GivenUp == incomplete # None \/ ctl.at = "fail"

\* Candidate c is replaced by kids, which resolve selection s differently.
SplitsInto(c, kids, s) ==
  /\ Candidates' = (Candidates \ {c}) \cup kids
  /\ s \in (UNION {DOMAIN kid.trace : kid \in kids}) \ DOMAIN c.trace
  /\ \A kid \in kids :
       /\ kid.guard \subseteq c.guard /\ DOMAIN kid.trace = DOMAIN c.trace \cup {s}
       /\ \A t \in DOMAIN c.trace : kid.trace[t] = c.trace[t]
  /\ \A j, k \in kids :
       j # k => j.guard \cap k.guard = {} /\ j.trace[s] # k.trace[s]
  /\ \/ GivenUp' = GivenUp /\ UNION {kid.guard : kid \in kids} = c.guard
     \/ GivenUp'
  /\ request' = request

\* GivenUp is true or false, before and after a step.
LEMMA GivenUpIsBoolean == GivenUp \in BOOLEAN /\ GivenUp' \in BOOLEAN
  BY DEF GivenUp

\* Such a replacement is a Split of SelectionSplit.
LEMMA SplitStep ==
  ASSUME NEW c, NEW kids, NEW s, SplitsInto(c, kids, s)
  PROVE  Splitting!Split(c, kids)
<1>1. /\ {Candidate(l.state) : l \in Live}' = ({Candidate(l.state) : l \in Live} \ {c}) \cup kids
      /\ request.domain' = request.domain
  BY DEF Candidates, SplitsInto
<1>2. \A kid \in kids : Splitting!Refines(kid, c, s)
  BY DEF Splitting!Refines, SplitsInto
<1>3. \A j, k \in kids : j # k => Splitting!Disjoint(j, k) /\ j.trace[s] # k.trace[s]
  BY DEF Splitting!Disjoint, SplitsInto
<1>4. \/ /\ (incomplete # None \/ ctl.at = "fail")' = (incomplete # None \/ ctl.at = "fail")
         /\ UNION {kid.guard : kid \in kids} = c.guard
      \/ (incomplete # None \/ ctl.at = "fail")' = TRUE
  BY GivenUpIsBoolean DEF GivenUp, SplitsInto
<1>5. s \in (UNION {DOMAIN kid.trace : kid \in kids}) \ DOMAIN c.trace
  BY DEF SplitsInto
<1> QED
  BY <1>1, <1>2, <1>3, <1>4, <1>5 DEF Splitting!Split

\* Removing a candidate no input reaches is a Prune.
LEMMA PruneStep ==
  ASSUME NEW c, c.guard = {}, Candidates' = Candidates \ {c}, request' = request,
         GivenUp' = GivenUp
  PROVE  Splitting!Prune(c)
<1>1. /\ {Candidate(l.state) : l \in Live}' = {Candidate(l.state) : l \in Live} \ {c}
      /\ request.domain' = request.domain
      /\ (incomplete # None \/ ctl.at = "fail")' = (incomplete # None \/ ctl.at = "fail")
  BY DEF Candidates, GivenUp
<1> QED
  BY <1>1 DEF Splitting!Prune

\* Losing candidates while giving up is a Cut.
LEMMA CutStep ==
  ASSUME Candidates' \subseteq Candidates, GivenUp', request' = request
  PROVE  Splitting!Cut
<1>1. /\ {Candidate(l.state) : l \in Live}' \in SUBSET {Candidate(l.state) : l \in Live}
      /\ request.domain' = request.domain
      /\ (incomplete # None \/ ctl.at = "fail")' = TRUE
  BY GivenUpIsBoolean DEF Candidates, GivenUp
<1> QED
  BY <1>1 DEF Splitting!Cut

\* A step that changes no candidate is a stutter of SelectionSplit.
LEMMA StutterStep ==
  ASSUME Candidates' = Candidates, GivenUp' = GivenUp, request' = request
  PROVE  UNCHANGED Splitting!vars
<1>1. /\ {Candidate(l.state) : l \in Live}' = {Candidate(l.state) : l \in Live}
      /\ request.domain' = request.domain
      /\ (incomplete # None \/ ctl.at = "fail")' = (incomplete # None \/ ctl.at = "fail")
  BY DEF Candidates, GivenUp
<1> QED
  BY <1>1 DEF Splitting!vars

\* Conflicting candidates are different.
LEMMA ConflictingDiffer ==
  ASSUME CandidatesConflict, NEW l \in Live, NEW m \in Live, l.place # m.place
  PROVE  Candidate(l.state) # Candidate(m.state)
<1>1. PICK s \in DOMAIN l.state.trace \cap DOMAIN m.state.trace :
        l.state.trace[s] # m.state.trace[s]
  BY DEF CandidatesConflict, Splitting!Conflict
<1>2. l.state.trace # m.state.trace
  BY <1>1
<1>3. Candidate(l.state).trace = l.state.trace /\ Candidate(m.state).trace = m.state.trace
  BY DEF Candidate
<1> QED
  BY <1>2, <1>3

\* A candidate that gives way to refinements is split, if there are any.
LEMMA SplitsImplement ==
  ASSUME EvaluatorInvariant, request' = request, NEW rest, NEW l, NEW kids,
         Splits(rest, l, kids),
         \/ GivenUp' = GivenUp /\ UNION {k.state.guard : k \in kids} = l.state.guard
         \/ GivenUp'
  PROVE  [Splitting!Next]_(Splitting!vars)
<1> DEFINE c == Candidate(l.state)
           new == {Candidate(k.state) : k \in kids}
           others == {Candidate(r.state) : r \in rest}
<1>1. CandidatesConflict
  BY DEF EvaluatorInvariant
<1>2. /\ c.guard = l.state.guard /\ c.trace = l.state.trace
      /\ \A k : Candidate(k.state).guard = k.state.guard /\ Candidate(k.state).trace = k.state.trace
  BY DEF Candidate
<1>3. Candidates = others \cup {c} /\ Candidates' = others \cup new
  <2>1. Live = rest \cup {l} /\ Live' = rest \cup kids
    BY DEF Splits
  <2> QED
    BY <2>1 DEF Candidates, Candidate
<1>4. c \notin others
  <2> SUFFICES ASSUME NEW r \in rest, c = Candidate(r.state) PROVE FALSE
    OBVIOUS
  <2>1. r \in Live /\ l \in Live /\ r.place # l.place
    BY DEF Splits
  <2> QED
    BY <1>1, <2>1, ConflictingDiffer
<1>5. ASSUME NEW k \in kids
      PROVE  /\ Candidate(k.state).guard \subseteq c.guard
             /\ DOMAIN Candidate(k.state).trace = DOMAIN c.trace \cup {topSite}
             /\ \A t \in DOMAIN c.trace : Candidate(k.state).trace[t] = c.trace[t]
             /\ topSite \notin DOMAIN c.trace
             /\ Candidate(k.state) # c
             /\ Candidate(k.state) \notin others
  <2>1. /\ k.state.guard \subseteq l.state.guard
        /\ DOMAIN k.state.trace = DOMAIN l.state.trace \cup {topSite}
        /\ topSite \notin DOMAIN l.state.trace
        /\ \A t \in DOMAIN l.state.trace : k.state.trace[t] = l.state.trace[t]
    BY DEF Splits, Heir
  <2>2. Candidate(k.state).trace = k.state.trace /\ Candidate(k.state).guard = k.state.guard
    BY <1>2
  <2>3. Candidate(k.state) # c
    BY <1>2, <2>1, <2>2
  <2>4. ASSUME NEW r \in rest PROVE Candidate(k.state) # Candidate(r.state)
    <3>1. r \in Live /\ l \in Live /\ r.place # l.place
      BY DEF Splits
    <3>2. PICK s \in DOMAIN l.state.trace \cap DOMAIN r.state.trace :
            l.state.trace[s] # r.state.trace[s]
      BY <1>1, <3>1 DEF CandidatesConflict, Splitting!Conflict
    <3>3. k.state.trace # r.state.trace
      BY <2>1, <3>2
    <3> QED
      BY <1>2, <3>3
  <2> QED
    BY <1>2, <2>1, <2>2, <2>3, <2>4
<1>6. CASE kids = {} /\ GivenUp'
  <2>1. Candidates' \subseteq Candidates
    BY <1>3, <1>6
  <2>2. Splitting!Cut
    BY <1>6, <2>1, CutStep
  <2> QED
    BY <2>2 DEF Splitting!Next
<1>7. CASE kids = {} /\ GivenUp' = GivenUp /\ UNION {k.state.guard : k \in kids} = l.state.guard
  <2>1. c.guard = {} /\ Candidates' = Candidates \ {c} /\ c \in Candidates
    BY <1>2, <1>3, <1>4, <1>7
  <2> HIDE DEF c
  <2>2. Splitting!Prune(c)
    BY <1>7, <2>1, PruneStep
  <2>3. \E d \in {Candidate(m.state) : m \in Live} : Splitting!Prune(d)
    BY <2>1, <2>2 DEF Candidates
  <2> QED
    BY <2>3 DEF Splitting!Next
<1>8. CASE kids # {}
  <2>1. Candidates' = (Candidates \ {c}) \cup new
    BY <1>3, <1>4, <1>5
  <2>2. c \in Candidates \ Candidates'
    BY <1>3, <1>4, <1>5
  <2>3. new = Candidates' \ Candidates
    BY <1>3, <1>5
  <2>4. topSite \in (UNION {DOMAIN kid.trace : kid \in new}) \ DOMAIN c.trace
    <3>1. PICK k \in kids : TRUE
      BY <1>8
    <3>2. Candidate(k.state) \in new /\ topSite \in DOMAIN Candidate(k.state).trace
      BY <1>5
    <3>3. topSite \notin DOMAIN c.trace
      BY <1>5, <3>1
    <3> HIDE DEF c, new
    <3> QED
      BY <3>2, <3>3
  <2>5. \A kid \in new :
          /\ kid.guard \subseteq c.guard /\ DOMAIN kid.trace = DOMAIN c.trace \cup {topSite}
          /\ \A t \in DOMAIN c.trace : kid.trace[t] = c.trace[t]
    BY <1>5
  <2>6. ASSUME NEW a \in new, NEW b \in new, a # b
        PROVE  a.guard \cap b.guard = {} /\ a.trace[topSite] # b.trace[topSite]
    <3>1. PICK j \in kids : a = Candidate(j.state)
      OBVIOUS
    <3>2. PICK k \in kids : b = Candidate(k.state)
      OBVIOUS
    <3>3. j # k
      BY <2>6, <3>1, <3>2
    <3>4. /\ j.state.guard \cap k.state.guard = {}
          /\ j.state.trace[topSite] # k.state.trace[topSite]
      BY <3>3 DEF Splits
    <3> QED
      BY <1>2, <3>1, <3>2, <3>4
  <2>7. UNION {kid.guard : kid \in new} = UNION {k.state.guard : k \in kids}
    BY <1>2
  <2>8. \/ GivenUp' = GivenUp /\ UNION {kid.guard : kid \in new} = c.guard
        \/ GivenUp'
    BY <1>2, <2>7
  <2> HIDE DEF c, new, others
  <2>9. SplitsInto(c, new, topSite)
    BY <2>1, <2>4, <2>5, <2>6, <2>8 DEF SplitsInto
  <2>10. Splitting!Split(c, new)
    BY <2>9, SplitStep
  <2>11. /\ c \in {Candidate(m.state) : m \in Live} \ {Candidate(m.state) : m \in Live}'
         /\ new \in {{Candidate(m.state) : m \in Live}' \ {Candidate(m.state) : m \in Live}}
    BY <2>2, <2>3 DEF Candidates
  <2> QED
    BY <2>10, <2>11 DEF Splitting!Next
<1> QED
  BY <1>6, <1>7, <1>8

\* Candidates that are only moved are a stutter.
LEMMA MovesImplement ==
  ASSUME NEW rest, NEW o, NEW n,
         Replaces(rest, o, n),
         \A i \in DOMAIN o : Candidate(n[i].state) = Candidate(o[i].state)
  PROVE  Candidates' = Candidates
<1>1. Candidates = {Candidate(r.state) : r \in rest} \cup {Candidate(o[i].state) : i \in DOMAIN o}
  BY DEF Candidates, Replaces
<1>2. Candidates' = {Candidate(r.state) : r \in rest} \cup {Candidate(n[i].state) : i \in DOMAIN o}
  BY DEF Candidates, Candidate, Replaces
<1> QED
  BY <1>1, <1>2

\* An arm is dropped for want of budget, or because no input reaches it.
LEMMA DropsImplement ==
  ASSUME EvaluatorInvariant, request' = request, Drops,
         \/ incomplete' = FirstExceeded(topSite)
         \/ incomplete' = incomplete /\ Contradicts(branch.state, branch.arm)
  PROVE  [Splitting!Next]_(Splitting!vars)
<1>1. Typed /\ Fresh /\ CandidatesConflict /\ Branching /\ ctl' = ctl
  BY DEF EvaluatorInvariant, Drops
<1>2. PICK rest, l :
        /\ Live = rest \cup {l} /\ Live' = rest
        /\ l.state.guard = branch.state.guard \cap branch.arm.when
        /\ \A r \in rest : r.place # l.place
  BY <1>1, DropsShrink
<1> DEFINE c == Candidate(l.state)
           others == {Candidate(r.state) : r \in rest}
<1>3. Candidates = others \cup {c} /\ Candidates' = others
  BY <1>2 DEF Candidates, Candidate
<1>4. c.guard = l.state.guard
  BY DEF Candidate
<1>5. CASE incomplete' = FirstExceeded(topSite)
  <2>1. topSite # None
    BY DEF topSite, Site, None
  <2>2. GivenUp'
    BY <1>5, <2>1 DEF GivenUp, FirstExceeded
  <2>3. Splitting!Cut
    BY <1>3, <2>2, CutStep
  <2> QED
    BY <2>3 DEF Splitting!Next
<1>6. CASE incomplete' = incomplete /\ Contradicts(branch.state, branch.arm)
  <2>1. /\ stack # <<>> /\ top.arms # <<>> /\ ~top.arm /\ Resolving(top)
        /\ PendingOK(branch, top.node, KindOf(top))
    BY <1>1, BranchFacts
  <2>2. topSite \notin DOMAIN branch.state.trace
    <3>1. \A i \in 1..Len(top.arms) : topSite \notin DOMAIN top.arms[i].state.trace
      BY <1>1, <2>1, NoOutcomeYet
    <3>2. IsList(top.arms)
      BY <1>1, <2>1, TopFacts
    <3> QED
      BY <2>1, <3>1, <3>2, TakenFromList DEF branch
  <2>3. Guarded(branch.state, branch.arm).never
    BY <1>6, <2>2 DEF Contradicts
  <2>4. PICK narrowed : narrowed = Guarded(branch.state, branch.arm)
    OBVIOUS
  <2>5. narrowed.never = (branch.state.never \/ branch.arm.never)
    BY <2>1, <2>4, GuardedState DEF PendingOK
  <2>6. branch.state.never \/ branch.arm.never
    BY <2>3, <2>4, <2>5
  <2>7. c.guard = {}
    BY <1>2, <1>4, <2>1, <2>6 DEF PendingOK, StateOK
  <2>8. c \notin others
    <3> SUFFICES ASSUME NEW r \in rest, c = Candidate(r.state) PROVE FALSE
      OBVIOUS
    <3>1. r \in Live /\ l \in Live /\ l.place # r.place
      BY <1>2
    <3> QED
      BY <1>1, <3>1, ConflictingDiffer
  <2>9. Candidates' = Candidates \ {c} /\ c \in Candidates /\ GivenUp' = GivenUp
    BY <1>1, <1>3, <1>6, <2>8 DEF GivenUp
  <2> HIDE DEF c
  <2>10. Splitting!Prune(c)
    BY <2>7, <2>9, PruneStep
  <2>11. \E d \in {Candidate(m.state) : m \in Live} : Splitting!Prune(d)
    BY <2>9, <2>10 DEF Candidates
  <2> QED
    BY <2>11 DEF Splitting!Next
<1> QED
  BY <1>5, <1>6

\* Every step of the evaluator is one of SelectionSplit, or a stutter.
LEMMA StepImplements ==
  ASSUME EvaluatorInvariant, WithinBudget, [Next]_vars
  PROVE  [Splitting!Next]_(Splitting!vars)
<1>1. Typed /\ Descending /\ Fresh /\ CandidatesConflict /\ request' = request
  BY StepCases DEF EvaluatorInvariant
<1>2. CASE PassesOn /\ incomplete' = incomplete
  <2>1. PICK r, o, n : Passes(r, o, n)
    BY <1>1, <1>2, PassesOnStep
  <2>2. Candidates' = Candidates
    <3>1. /\ Replaces(r, o, n)
          /\ \A i \in DOMAIN o : Candidate(n[i].state) = Candidate(o[i].state)
      BY <2>1 DEF Passes, Moves, Replaces
    <3> QED
      BY <3>1, MovesImplement
  <2>3. GivenUp' = GivenUp
    BY <1>1, <1>2, PassesOnStep DEF GivenUp
  <2> QED
    BY <1>1, <2>2, <2>3, StutterStep
<1>3. CASE Resolves /\ incomplete' = incomplete
  <2>1. PICK rest, l, k : Splits(rest, l, {k}) /\ k.state.guard = l.state.guard
    BY <1>1, <1>3, ResolvesSplit
  <2>2. GivenUp' = GivenUp
    BY <1>3 DEF GivenUp, Resolves
  <2>3. UNION {j.state.guard : j \in {k}} = l.state.guard
    BY <2>1
  <2>4. PICK kids : kids = {k}
    OBVIOUS
  <2> QED
    BY <1>1, <2>1, <2>2, <2>3, <2>4, SplitsImplement
<1>4. CASE Forks /\ incomplete' = IF TooManyMasks THEN FirstExceeded(topSite) ELSE incomplete
  <2>1. PICK rest, l, kids :
          /\ Splits(rest, l, kids)
          /\ ~TooManyMasks => UNION {k.state.guard : k \in kids} = l.state.guard
    BY <1>1, <1>4, ForksSplit
  <2>2. CASE TooManyMasks
    <3>1. topSite # None
      BY DEF topSite, Site, None
    <3>2. GivenUp'
      BY <1>4, <2>2, <3>1 DEF GivenUp, FirstExceeded
    <3> QED
      BY <1>1, <2>1, <3>2, SplitsImplement
  <2>3. CASE ~TooManyMasks
    <3>1. GivenUp' = GivenUp
      BY <1>4, <2>3 DEF GivenUp, Forks
    <3> QED
      BY <1>1, <2>1, <2>3, <3>1, SplitsImplement
  <2> QED
    BY <2>2, <2>3
<1>5. ASSUME Drops,
             \/ incomplete' = FirstExceeded(topSite)
             \/ incomplete' = incomplete /\ Contradicts(branch.state, branch.arm)
      PROVE  [Splitting!Next]_(Splitting!vars)
  BY <1>1, <1>5, DropsImplement
<1>6. CASE Branched /\ incomplete' = incomplete
  <2>1. PICK rest, l, k : Admits(rest, l, k)
    BY <1>1, <1>6, BranchedAdmits
  <2> DEFINE o == [i \in {1} |-> l]
             n == [i \in {1} |-> k]
  <2>2. /\ {o[i] : i \in DOMAIN o} = {l} /\ {n[i] : i \in DOMAIN o} = {k}
        /\ \A i \in DOMAIN o : o[i] = l /\ n[i] = k
    OBVIOUS
  <2> HIDE DEF o, n
  <2>3. Candidates' = Candidates
    <3>1. /\ Replaces(rest, o, n)
          /\ \A i \in DOMAIN o : Candidate(n[i].state) = Candidate(o[i].state)
      BY <2>1, <2>2 DEF Admits, Replaces
    <3> QED
      BY <3>1, MovesImplement
  <2>4. GivenUp' = GivenUp
    BY <1>6 DEF GivenUp, Branched
  <2> QED
    BY <1>1, <2>3, <2>4, StutterStep
<1>7. CASE GivesUp
  <2>1. Candidates' \subseteq Candidates
    BY <1>7, GivesUpAll DEF Candidates
  <2>2. GivenUp'
    BY <1>7 DEF GivenUp, GivesUp
  <2>3. Splitting!Cut
    BY <1>1, <2>1, <2>2, CutStep
  <2> QED
    BY <2>3 DEF Splitting!Next
<1>8. CASE UNCHANGED vars
  <2>1. Live' = Live
    BY <1>8, UnchangedLive
  <2>2. Candidates' = Candidates /\ GivenUp' = GivenUp
    BY <1>8, <2>1 DEF Candidates, Candidate, GivenUp, vars
  <2> QED
    BY <1>1, <2>2, StutterStep
<1> QED
  BY <1>1, <1>2, <1>3, <1>4, <1>5, <1>6, <1>7, <1>8, StepEffects

\* A request starts as SelectionSplit does.
LEMMA InitImplements ==
  ASSUME Init
  PROVE  Splitting!Init
<1>1. PICK k : /\ Live = {k} /\ k.state.guard = request.domain /\ k.state.trace = <<>>
  BY LiveInit
<1>2. {Candidate(l.state) : l \in Live} = {[guard |-> request.domain, trace |-> <<>>]}
  BY <1>1 DEF Candidate
<1>3. request.domain \in SUBSET Inputs
  BY RequestsAssumption DEF Init, WellFormed
<1>4. (incomplete # None \/ ctl.at = "fail") = FALSE
  BY DEF Init, Call
<1> QED
  BY <1>2, <1>3, <1>4 DEF Splitting!Init

-----------------------------------------------------------------------------
(***************************************************************************)
(* What holds of every behaviour.  A pure operation is an operator of the  *)
(* model: it is assumed to give a value for operands that are values.      *)
(***************************************************************************)
\* The candidates of one activation are well formed.
LEMMA HeldStatesOK ==
  ASSUME NEW d, NEW act, ActivationOK(act), NEW l \in Held(d, act)
  PROVE  StateOK(l.state)
<1>1. PartialsOK(act)
  BY DEF ActivationOK
<1>2. CASE l \in Todo(d, act.todo) \cup Done(d, act.done)
  BY <1>1, <1>2 DEF PartialsOK, PartialOK, Todo, Done, At
<1>3. CASE l \in Arms(d, SiteOf(act), act.arms)
  <2>1. PICK i \in 1..Len(act.arms) : l.state = PendingOf(act.arms[i], SiteOf(act))
    BY <1>3 DEF Arms, At
  <2>2. StateOK(act.arms[i].state)
    BY <1>1, <2>1 DEF PartialsOK, PendingOK
  <2> QED
    BY <2>1, <2>2, PendingParts
<1> QED
  BY <1>2, <1>3, HeldParts

\* The invariant keeps the types.
LEMMA InvariantTypes ==
  ASSUME EvaluatorInvariant, WithinBudget
  PROVE  TypeOK
<1>1. Typed
  BY DEF EvaluatorInvariant
<1>2. Depth \in Nat
  BY <1>1, ListElements DEF Typed, Depth
<1>3. ASSUME NEW l \in Live PROVE StateOK(l.state)
  <2>1. CASE l \in InHand
    <3>1. CASE ctl.at = "call"
      BY <1>1, <2>1, <3>1, InHandParts DEF Typed, ControlOK, At
    <3>2. CASE ctl.at = "return"
      BY <1>1, <2>1, <3>2, InHandParts DEF Typed, ControlOK, Returned, At
    <3>3. CASE ctl.at \in {"run", "fail"}
      BY <2>1, <3>3, InHandParts
    <3> QED
      BY <1>1, <3>1, <3>2, <3>3 DEF Typed, ControlOK
  <2>2. CASE l \in HeldTo(Depth)
    <3>1. PICK d \in 1..Depth : l \in Held(d, ActivationAt(d))
      BY <2>2 DEF HeldTo
    <3>2. ActivationOK(ActivationAt(d))
      BY <1>1 DEF Typed, Depth
    <3> QED
      BY <3>1, <3>2, HeldStatesOK
  <2> QED
    BY <1>2, <2>1, <2>2, LiveParts
<1>4. ASSUME NEW i \in 1..Len(stack) PROVE stack[i].stage \in 0..Stages(stack[i])
  <2>1. PICK d \in 1..Len(stack) : Len(stack) + 1 - d = i
    <3>1. Len(stack) \in Nat
      BY <1>2 DEF Depth
    <3>2. PICK d : d = Len(stack) + 1 - i
      OBVIOUS
    <3>3. d \in 1..Len(stack) /\ Len(stack) + 1 - d = i
      BY <3>1, <3>2
    <3> QED
      BY <3>3
  <2>2. ActivationAt(d) = stack[i]
    BY <2>1 DEF ActivationAt
  <2>3. ActivationOK(ActivationAt(d))
    BY <1>1 DEF Typed
  <2> QED
    BY <2>2, <2>3 DEF ActivationOK
<1>5. /\ ctl.at \in {"call", "return", "run", "fail"}
      /\ ctl.at = "return" => \A i \in 1..Len(ctl.results) : ctl.results[i].value \in Values
      /\ ctl.at = "run" => stack # <<>>
      /\ request \in Requests
  BY <1>1 DEF Typed, ControlOK
<1>6. syntactic \in Nat
  BY LimitAssumption DEF WithinBudget
<1> QED
  BY <1>3, <1>4, <1>5, <1>6 DEF TypeOK

\* The invariant has no selection resolved twice.
LEMMA InvariantResolvesOnce ==
  ASSUME EvaluatorInvariant
  PROVE  NoRepeatedSelection
<1>1. Typed /\ Fresh
  BY DEF EvaluatorInvariant
<1>2. ctl.at = "fail" => ctl.why # "duplicate"
  BY <1>1 DEF Fresh
<1>3. ASSUME ctl.at = "run", top.arms # <<>> PROVE topSite \notin DOMAIN branch.state.trace
  <2>1. Branching
    BY <1>3 DEF Branching
  <2>2. stack # <<>> /\ ~top.arm /\ Resolving(top)
    BY <1>1, <2>1, BranchFacts
  <2>3. \A i \in 1..Len(top.arms) : topSite \notin DOMAIN top.arms[i].state.trace
    BY <1>1, <2>2, NoOutcomeYet
  <2>4. IsList(top.arms)
    BY <1>1, <2>2, TopFacts
  <2> QED
    BY <1>3, <2>3, <2>4, TakenFromList DEF branch
<1> QED
  BY <1>2, <1>3 DEF NoRepeatedSelection

\* The inductive invariant of the evaluator: what its call stack, its memo
\* tables and its candidates' traces have to do with one another.
THEOREM EvaluatorIsSound ==
  ASSUME PureNodesAreTyped
  PROVE  Spec => [](EvaluatorInvariant /\ WithinBudget)
<1>1. Init => EvaluatorInvariant /\ WithinBudget
  BY InvariantInit
<1>2. EvaluatorInvariant /\ WithinBudget /\ [Next]_vars
        => (EvaluatorInvariant /\ WithinBudget)'
  BY InvariantStep
<1> QED
  BY <1>1, <1>2, PTL DEF Spec

\* Every candidate in flight is well formed and inside the assumptions, and
\* every value remembered or returned is a value.
THEOREM EvaluatorIsTyped ==
  ASSUME PureNodesAreTyped
  PROVE  Spec => []TypeOK
<1>1. EvaluatorInvariant /\ WithinBudget => TypeOK
  BY InvariantTypes
<1> QED
  BY <1>1, EvaluatorIsSound, PTL

\* No candidate reaches a selection it has resolved: record_selection never
\* meets its duplicate error and branch_state never drops an arm for one.
THEOREM SelectionsResolveOnce ==
  ASSUME PureNodesAreTyped
  PROVE  Spec => []NoRepeatedSelection
<1>1. EvaluatorInvariant => NoRepeatedSelection
  BY InvariantResolvesOnce
<1> QED
  BY <1>1, EvaluatorIsSound, PTL

\* Any two candidates in flight disagree at a selection both reached, so that
\* the traces handed to solve_candidates are different.
THEOREM CandidatesDisagree ==
  ASSUME PureNodesAreTyped
  PROVE  Spec => []CandidatesConflict
<1>1. EvaluatorInvariant => CandidatesConflict
  BY DEF EvaluatorInvariant
<1> QED
  BY <1>1, EvaluatorIsSound, PTL

\* Candidates branched into never outnumber the count, nor the count the limit.
THEOREM BudgetBoundsCandidates ==
  ASSUME PureNodesAreTyped
  PROVE  Spec => []CandidatesWithinBudget
<1>1. Init => Enough
  BY EnoughInit
<1>2. EvaluatorInvariant /\ WithinBudget /\ Enough /\ [Next]_vars => Enough'
  BY EnoughStep
<1>3. Enough /\ WithinBudget => CandidatesWithinBudget
  BY DEF Enough, Counted, CandidatesWithinBudget
<1> QED
  BY <1>1, <1>2, <1>3, EvaluatorIsSound, PTL DEF Spec

\* The evaluator implements SelectionSplit: it only ever splits a candidate
\* at a selection, prunes one that no input reaches, or cuts and says so.
THEOREM EvaluatorSplits ==
  ASSUME PureNodesAreTyped
  PROVE  Spec => ImplementsSelectionSplit
<1>1. Init => Splitting!Init
  BY InitImplements
<1>2. EvaluatorInvariant /\ WithinBudget /\ [Next]_vars => [Splitting!Next]_(Splitting!vars)
  BY StepImplements
<1> QED
  BY <1>1, <1>2, EvaluatorIsSound, PTL DEF Spec, ImplementsSelectionSplit, Splitting!Spec

SplittingProofs == INSTANCE SelectionSplitProofs WITH
       domain <- request.domain,
       live   <- {Candidate(l.state) : l \in Live},
       cut    <- incomplete # None \/ ctl.at = "fail"

\* The promise of SelectionSplit, of the candidates of the evaluator.
LEMMA SplitsPartition == Splitting!Spec => []Splitting!Partition
<1>1. SplittingProofs!Spec => []SplittingProofs!Partition
  BY SplittingProofs!SplitPartition
<1>2. Splitting!Spec <=> SplittingProofs!Spec
  BY DEF Splitting!Spec, SplittingProofs!Spec, Splitting!Init, SplittingProofs!Init,
         Splitting!Next, SplittingProofs!Next, Splitting!vars, SplittingProofs!vars,
         Splitting!Split, SplittingProofs!Split, Splitting!Prune, SplittingProofs!Prune,
         Splitting!Cut, SplittingProofs!Cut, Splitting!Refines, SplittingProofs!Refines,
         Splitting!Disjoint, SplittingProofs!Disjoint
<1>3. Splitting!Partition <=> SplittingProofs!Partition
  BY DEF Splitting!Partition, SplittingProofs!Partition, Splitting!Covered,
         SplittingProofs!Covered, Splitting!Disjoint, SplittingProofs!Disjoint
<1> QED
  BY <1>1, <1>2, <1>3, PTL

\* The guards of the candidates in flight are disjoint and, until something is
\* given up, cover exactly the inputs that the assumptions allow.
THEOREM GuardsPartitionInputs ==
  ASSUME PureNodesAreTyped
  PROVE  Spec => []Splitting!Partition
BY EvaluatorSplits, SplitsPartition, PTL DEF ImplementsSelectionSplit

=============================================================================
