-------------------------- MODULE MergedEvaluatorProofs -------------------------
(***************************************************************************)
(* The merged evaluator returns what the program means, for every program, *)
(* request and assignment of its leaves: EvaluationIsRight is inductive.   *)
(* The argument has four parts.                                            *)
(*                                                                         *)
(*   Values       a choice between bits values, and each of the three      *)
(*                selections composed of choices, denotes what Reference   *)
(*                resolves the selection to;                               *)
(*   Dead nodes   what a live node refers to is live and precedes it;      *)
(*   Nodes        what each action makes of a node has the outcome of the  *)
(*                node's site;                                             *)
(*   Activations  pushing, replacing and popping the innermost activation  *)
(*                leaves every context below it as it was.                 *)
(*                                                                         *)
(* That the pure operations denote Op and that Outcomes satisfies          *)
(* Reference at every site are hypotheses of the theorems.                 *)
(***************************************************************************)
EXTENDS MergedMeaning, Induction

(***************************************************************************)
(* Bits values.                                                            *)
(***************************************************************************)
LEMMA WordFacts ==
  ASSUME NEW w \in Nat, NEW v \in Words(w)
  PROVE  /\ v = [kind |-> "bits", width |-> w, n |-> v.n, lit |-> v.lit]
         /\ v.width = w /\ v.n \in Nat /\ v.n < 2^w /\ v.lit \in BOOLEAN
         /\ v # None
         /\ (w = 0 => v.n = 0)
<1>1. v \in [kind : {"bits"}, width : {w}, n : Nat, lit : BOOLEAN] /\ v.n < 2^w
  BY DEF Words
<1>2. v.kind = "bits" /\ None.kind = "none"
  BY <1>1 DEF None
<1>3. w = 0 => v.n = 0
  <2> SUFFICES ASSUME w = 0 PROVE v.n = 0
    OBVIOUS
  <2>1. v.n \in Nat /\ v.n < 2^0 /\ 2^0 = 1
    BY <1>1
  <2> QED
    BY <2>1
<1> QED
  BY <1>1, <1>2, <1>3

LEMMA TermIsWord ==
  ASSUME NEW w \in Nat, NEW n \in Nat, n < 2^w, NEW lit \in BOOLEAN
  PROVE  Term(w, n, lit) \in Words(w) /\ Term(w, n, lit).n = n
BY DEF Term, Words

LEMMA NoBitsIsWord == NoBits \in Words(0) /\ NoBits.n = 0
<1>1. 0 \in Nat /\ 0 < 2^0 /\ TRUE \in BOOLEAN
  OBVIOUS
<1> QED
  BY <1>1, TermIsWord DEF NoBits, Const

IsCondition(c, b) == c.b \in BOOLEAN /\ c.lit \in BOOLEAN /\ (c.b <=> b)

LEMMA ConditionMeans ==
  ASSUME NEW b \in BOOLEAN, NEW lit \in BOOLEAN
  PROVE  IsCondition(Condition(b, lit), b)
BY DEF IsCondition, Condition

\* Comparing a selector with an index it cannot hold is false, as Reference takes it.
LEMMA SelectorEqualsMeans ==
  ASSUME NEW w \in Nat, NEW selector \in Words(w), NEW index \in Nat
  PROVE  IsCondition(SelectorEquals(selector, index), selector.n = index)
<1> DEFINE b == selector.n = index
<1>1. /\ selector.width = w /\ selector.n \in Nat /\ selector.n < 2^w /\ selector.lit \in BOOLEAN
      /\ (w = 0 => selector.n = 0)
  BY WordFacts
<1>2. 2^w \in Nat /\ b \in BOOLEAN
  BY PowerIsPositive
<1>3. \E lit \in BOOLEAN : SelectorEquals(selector, index) = Condition(b, lit)
  <2>1. CASE w = 0
    <3>1. SelectorEquals(selector, index) = Condition(index = 0, TRUE)
      BY <1>1, <2>1 DEF SelectorEquals
    <3>2. b = (index = 0)
      BY <1>1, <2>1
    <3> HIDE DEF b
    <3> QED
      BY <3>1, <3>2
  <2>2. CASE w # 0 /\ index >= 2^w
    <3>1. SelectorEquals(selector, index) = Condition(FALSE, TRUE)
      <4>1. selector.width # 0 /\ selector.width > 0 /\ index >= 2^selector.width
        BY <1>1, <2>2
      <4> QED
        BY <4>1 DEF SelectorEquals
    <3>2. b = FALSE
      BY <1>1, <1>2, <2>2
    <3> HIDE DEF b
    <3> QED
      BY <3>1, <3>2
  <2>3. CASE w # 0 /\ ~(index >= 2^w)
    <3>1. SelectorEquals(selector, index) = Compare("eq", selector, Const(w, index))
      BY <1>1, <2>3 DEF SelectorEquals
    <3>2. Compare("eq", selector, Const(w, index)) = Condition(b, selector.lit /\ TRUE)
      BY <1>1 DEF Compare, Const, Term, SmtCompare
    <3> HIDE DEF b
    <3>3. (selector.lit /\ TRUE) \in BOOLEAN
      OBVIOUS
    <3> QED
      BY <3>1, <3>2, <3>3
  <2> QED
    BY <2>1, <2>2, <2>3
<1> HIDE DEF b
<1>4. IsCondition(SelectorEquals(selector, index), b)
  BY <1>2, <1>3, ConditionMeans
<1> QED
  BY <1>4 DEF b

LEMMA SelectedBitMeans ==
  ASSUME NEW w \in Nat, NEW selector \in Words(w), NEW index \in Nat
  PROVE  IsCondition(SelectedBit(selector, index), Bit(selector.n, index) = 1)
<1> DEFINE b == Bit(selector.n, index) = 1
<1>1. selector.n \in Nat /\ selector.lit \in BOOLEAN
  BY WordFacts
<1>2. 2^1 = 2
  OBVIOUS
<1>3. SelectedBit(selector, index)
        = Compare("eq", Term(1, Bit(selector.n, index), selector.lit), Const(1, 1))
  BY <1>2 DEF SelectedBit, BitIsOne, Extract, SmtExtract, Bit
<1>4. @ = Condition(b, selector.lit /\ TRUE)
  BY <1>1 DEF Compare, Const, Term, SmtCompare
<1>5. b \in BOOLEAN /\ (selector.lit /\ TRUE) \in BOOLEAN
  OBVIOUS
<1> HIDE DEF b
<1>6. IsCondition(SelectedBit(selector, index), b)
  BY <1>3, <1>4, <1>5, ConditionMeans
<1> QED
  BY <1>6 DEF b

LEMMA IteMeans ==
  ASSUME NEW w \in Nat, NEW x \in Words(w), NEW y \in Words(w),
         NEW c, NEW b, IsCondition(c, b)
  PROVE  /\ Ite(c, x, y) \in Words(w) /\ Ite(c, x, y).n = IF b THEN x.n ELSE y.n
         /\ SelectBits(c, x, y) \in Words(w) /\ SelectBits(c, x, y).n = IF b THEN x.n ELSE y.n
<1>1. /\ x.width = w /\ x.n \in Nat /\ x.n < 2^w /\ (w = 0 => x.n = 0)
      /\ y.width = w /\ y.n \in Nat /\ y.n < 2^w /\ (w = 0 => y.n = 0)
  BY WordFacts
<1>2. Ite(c, x, y) \in Words(w) /\ Ite(c, x, y).n = IF b THEN x.n ELSE y.n
  <2>1. CASE c.lit \/ (x.lit /\ x = y)
    BY <2>1 DEF Ite, IsCondition
  <2>2. CASE ~(c.lit \/ (x.lit /\ x = y))
    <3>1. PICK e : e = IF b THEN x.n ELSE y.n
      OBVIOUS
    <3>2. Ite(c, x, y) = Term(w, e, FALSE)
      BY <1>1, <2>2, <3>1 DEF Ite, IsCondition
    <3>3. e \in Nat /\ e < 2^w /\ FALSE \in BOOLEAN
      BY <1>1, <3>1
    <3>4. Term(w, e, FALSE) \in Words(w) /\ Term(w, e, FALSE).n = e
      BY <3>3, TermIsWord
    <3> QED
      BY <3>1, <3>2, <3>4
  <2> QED
    BY <2>1, <2>2
<1>3. CASE w = 0
  BY <1>1, <1>2, <1>3, NoBitsIsWord DEF SelectBits
<1>4. CASE w # 0
  BY <1>1, <1>2, <1>4 DEF SelectBits
<1> QED
  BY <1>2, <1>3, <1>4

\* A merge has the bits that either value has.
LEMMA OrBitsMeans ==
  ASSUME NEW w \in Nat, NEW x \in Words(w), NEW y \in Words(w)
  PROVE  /\ OrBits(x, y) \in Words(w)
         /\ \A i \in Nat : Bit(OrBits(x, y).n, i) = 1 <=> Bit(x.n, i) = 1 \/ Bit(y.n, i) = 1
<1> DEFINE S == {i \in 0..(w - 1) : Bit(x.n, i) = 1 \/ Bit(y.n, i) = 1}
<1>1. /\ x.width = w /\ x.n \in Nat /\ x.n < 2^w /\ x.lit \in BOOLEAN /\ (w = 0 => x.n = 0)
      /\ y.width = w /\ y.n \in Nat /\ y.n < 2^w /\ y.lit \in BOOLEAN /\ (w = 0 => y.n = 0)
  BY WordFacts
<1>2. CASE w = 0
  <2>1. OrBits(x, y) = NoBits /\ NoBits.n = 0 /\ x.n = 0 /\ y.n = 0
    BY <1>1, <1>2, NoBitsIsWord DEF OrBits
  <2> QED
    BY <1>2, <2>1, NoBitsIsWord
<1>3. CASE w # 0
  <2>1. FoldBinary("or", w, x.n, y.n) = SmtBinary("or", w, x.n, y.n)
    BY DEF FoldBinary
  <2>2. SmtBinary("or", w, x.n, y.n) = FromBits(S)
    BY DEF SmtBinary
  <2>3. OrBits(x, y) = Term(w, FromBits(S), x.lit /\ y.lit)
    BY <1>1, <1>3, <2>1, <2>2 DEF OrBits, Binary
  <2>4. /\ FromBits(S) \in Nat /\ FromBits(S) < 2^w
        /\ \A i \in Nat : Bit(FromBits(S), i) = IF i \in S THEN 1 ELSE 0
    BY FromBitsHasBits
  <2>5. OrBits(x, y) \in Words(w) /\ OrBits(x, y).n = FromBits(S)
    BY <1>1, <2>3, <2>4, TermIsWord
  <2>6. \A i \in Nat : i \in S <=> Bit(x.n, i) = 1 \/ Bit(y.n, i) = 1
    <3> SUFFICES ASSUME NEW i \in Nat, ~(i < w) PROVE Bit(x.n, i) # 1 /\ Bit(y.n, i) # 1
      OBVIOUS
    <3>1. Bit(x.n, i) = 0 /\ Bit(y.n, i) = 0
      BY <1>1, HighBitsAreClear
    <3> QED
      BY <3>1
  <2> QED
    BY <2>4, <2>5, <2>6
<1> QED
  BY <1>2, <1>3

-----------------------------------------------------------------------------
(***************************************************************************)
(* Selections.  Each is a fold over the places of its cases.               *)
(***************************************************************************)
\* A `sel` chooses the case that its selector numbers.
LEMMA SelMeans ==
  ASSUME NEW w \in Nat, NEW sw \in Nat, NEW selector \in Words(sw),
         NEW cases, IsList(cases), cases # <<>>, \A i \in 1..Len(cases) : cases[i] \in Words(w),
         NEW default, default = <<>> \/ (default = <<default[1]>> /\ default[1] \in Words(w))
  PROVE  LET n == Len(cases)
             v == EvaluateSel(selector, cases, default)
         IN  /\ v \in Words(w)
             /\ v.n = IF selector.n < n THEN cases[selector.n + 1].n
                      ELSE IF default = <<>> THEN cases[n].n ELSE default[1].n
<1> DEFINE n == Len(cases)
           m == selector.n
           fallback == IF default = <<>> THEN cases[n] ELSE default[1]
           Pick(k, otherwise) == Ite(SelectorEquals(selector, n - k), cases[n - k + 1], otherwise)
           S == 1..n
           V == Words(w)
           Steps(h) == h = [s \in SUBSET S |-> IF s = {} THEN fallback
                                              ELSE Pick([k \in 1..n |-> k][Max(s)], h[s \ {Max(s)}])]
           iter == CHOOSE h : Steps(h)
           step == [p \in S \X V |-> Pick(p[1], p[2])]
<1>1. n \in Nat /\ 1 \in 1..n /\ n \in 1..n /\ m \in Nat
  BY ListElements, HeadOfList, WordFacts
<1>2. cases[1].width = w /\ fallback \in V
  BY <1>1, WordFacts
<1>3. ASSUME NEW k \in S, NEW v \in V
      PROVE  /\ Pick(k, v) \in V
             /\ Pick(k, v).n = IF m = n - k THEN cases[n - k + 1].n ELSE v.n
  <2>1. n - k \in Nat /\ n - k + 1 \in 1..n
    BY <1>1
  <2>2. IsCondition(SelectorEquals(selector, n - k), m = n - k)
    BY <2>1, SelectorEqualsMeans
  <2>3. cases[n - k + 1] \in V
    BY <2>1
  <2> DEFINE b == m = n - k
             c == SelectorEquals(selector, n - k)
             x == cases[n - k + 1]
  <2>4. IsCondition(c, b) /\ x \in V
    BY <2>2, <2>3
  <2> HIDE DEF b, c, x
  <2>5. Ite(c, x, v) \in V /\ Ite(c, x, v).n = IF b THEN x.n ELSE v.n
    BY <2>4, IteMeans
  <2> QED
    BY <2>5 DEF b, c, x
<1>4. \A k \in S : \A v \in V : step[<<k, v>>] = Pick(k, v)
  OBVIOUS
<1> HIDE DEF Pick
<1>18. StaysIn(n, V, fallback, step)
  BY <1>1, <1>2, <1>3, <1>4 DEF StaysIn
<1> HIDE DEF V, step, fallback, n
<1>5. PICK g : FoldsPlaces(g, n, V, fallback, step)
  BY <1>18, PlacesRecursion
<1>6. \A s \in SUBSET S : s # {} => Max(s) \in S /\ s \ {Max(s)} \in SUBSET S
  BY <1>1, GreatestExists
<1>7. Steps(g)
  BY <1>4, <1>5, <1>6 DEF FoldsPlaces
<1>8. Steps(iter)
  BY <1>7
<1> HIDE DEF iter
<1>9. MayFold(iter, n, V, fallback, step)
  BY <1>4, <1>6, <1>8 DEF MayFold
<1>10. PICK u : Runs(u, n, V, fallback, step) /\ u[n] = iter[1..n]
  BY <1>9, <1>18, PlacesRun
<1>11. w = 0 => EvaluateSel(selector, cases, default) = NoBits
  BY <1>2 DEF EvaluateSel
<1>12. w # 0 => EvaluateSel(selector, cases, default) = u[n]
  <2> SUFFICES ASSUME w # 0 PROVE EvaluateSel(selector, cases, default) = u[n]
    OBVIOUS
  <2>1. EvaluateSel(selector, cases, default) = iter[1..n]
    <3>1. DOMAIN [k \in 1..n |-> k] = 1..n
      OBVIOUS
    <3> QED
      BY <1>2, <3>1 DEF EvaluateSel, FoldLeft, MapThenFoldSet, Pick, iter, fallback, n
  <2> QED
    BY <1>10, <2>1
<1> DEFINE Chosen(k) == IF n - k <= m /\ m < n THEN cases[m + 1].n ELSE fallback.n
           N == {k \in Nat : k <= n => u[k] \in V /\ u[k].n = Chosen(k)}
<1>13. 0 \in N
  BY <1>1, <1>2, <1>10 DEF Runs
<1>14. ASSUME NEW k \in Nat, k \in N PROVE k + 1 \in N
  <2> SUFFICES ASSUME k + 1 <= n PROVE u[k + 1] \in V /\ u[k + 1].n = Chosen(k + 1)
    OBVIOUS
  <2>1. k \in 0..(n - 1) /\ k + 1 \in S /\ u[k] \in V /\ u[k].n = Chosen(k)
    BY <1>1, <1>14
  <2>2. u[k + 1] = step[<<k + 1, u[k]>>]
    BY <1>10, <2>1 DEF Runs
  <2>3. u[k + 1] \in V /\ u[k + 1].n = IF m = n - (k + 1) THEN cases[n - (k + 1) + 1].n ELSE u[k].n
    BY <1>3, <1>4, <2>1, <2>2
  <2> QED
    BY <1>1, <2>1, <2>3
<1> HIDE DEF N
<1>15. n \in N
  BY <1>1, <1>13, <1>14, SetInduction
<1>16. u[n] \in V /\ u[n].n = IF m < n THEN cases[m + 1].n ELSE fallback.n
  BY <1>1, <1>15 DEF N
<1>17. w = 0 => (IF m < n THEN cases[m + 1].n ELSE fallback.n) = 0
  <2> SUFFICES ASSUME w = 0, m < n PROVE cases[m + 1].n = 0
    BY <1>2, WordFacts DEF V
  <2>1. m + 1 \in 1..n
    BY <1>1
  <2> QED
    BY <2>1, WordFacts DEF n
<1> QED
  BY <1>11, <1>12, <1>16, <1>17, NoBitsIsWord DEF V, fallback, n

\* The bits of a selector that number a case.
SetBits(m, n) == {k \in 1..n : Bit(m, k - 1) = 1}

\* A `priority_sel` chooses the first case whose bit is set.
LEMMA PriorityMeans ==
  ASSUME NEW w \in Nat, NEW sw \in Nat, NEW selector \in Words(sw),
         NEW cases, IsList(cases), \A i \in 1..Len(cases) : cases[i] \in Words(w),
         NEW default \in Words(w)
  PROVE  LET set == SetBits(selector.n, Len(cases))
             v   == FirstSetCase(SelectBits, selector, cases, default)
         IN  /\ v \in Words(w)
             /\ set = {} => v.n = default.n
             /\ \A i \in set : (\A j \in set : i <= j) => v.n = cases[i].n
<1> DEFINE n == Len(cases)
           m == selector.n
           Pick(k, otherwise) ==
             IF n - k >= selector.width THEN otherwise
             ELSE SelectBits(SelectedBit(selector, n - k), cases[n - k + 1], otherwise)
           S == 1..n
           V == Words(w)
           Steps(h) == h = [s \in SUBSET S |-> IF s = {} THEN default
                                              ELSE Pick([k \in 1..n |-> k][Max(s)], h[s \ {Max(s)}])]
           iter == CHOOSE h : Steps(h)
           step == [p \in S \X V |-> Pick(p[1], p[2])]
<1>1. n \in Nat /\ m \in Nat /\ m < 2^sw /\ selector.width = sw
  BY ListElements, WordFacts
<1>2. ASSUME NEW k \in S, NEW v \in V
      PROVE  /\ Pick(k, v) \in V
             /\ Pick(k, v).n = IF Bit(m, n - k) = 1 THEN cases[n - k + 1].n ELSE v.n
  <2>1. n - k \in Nat /\ n - k + 1 \in 1..n
    BY <1>1
  <2>2. CASE n - k >= sw
    <3>1. Pick(k, v) = v
      BY <1>1, <2>2
    <3>2. Bit(m, n - k) = 0
      BY <1>1, <2>1, <2>2, HighBitsAreClear
    <3> HIDE DEF Pick
    <3> QED
      BY <3>1, <3>2
  <2>3. CASE ~(n - k >= sw)
    <3> DEFINE b == Bit(m, n - k) = 1
               c == SelectedBit(selector, n - k)
               x == cases[n - k + 1]
    <3>1. Pick(k, v) = SelectBits(c, x, v)
      BY <1>1, <2>3
    <3>2. IsCondition(c, b) /\ x \in V
      BY <2>1, SelectedBitMeans
    <3> HIDE DEF b, c, x, Pick
    <3>3. SelectBits(c, x, v) \in V /\ SelectBits(c, x, v).n = IF b THEN x.n ELSE v.n
      BY <3>2, IteMeans
    <3> QED
      BY <3>1, <3>3 DEF b, c, x
  <2> QED
    BY <2>2, <2>3
<1>3. \A k \in S : \A v \in V : step[<<k, v>>] = Pick(k, v)
  OBVIOUS
<1> HIDE DEF Pick
<1>4. StaysIn(n, V, default, step)
  BY <1>1, <1>2, <1>3 DEF StaysIn
<1> HIDE DEF V, step, n
<1>5. PICK g : FoldsPlaces(g, n, V, default, step)
  BY <1>4, PlacesRecursion
<1>6. \A s \in SUBSET S : s # {} => Max(s) \in S /\ s \ {Max(s)} \in SUBSET S
  BY <1>1, GreatestExists
<1>7. Steps(g)
  BY <1>3, <1>5, <1>6 DEF FoldsPlaces
<1>8. Steps(iter)
  BY <1>7
<1> HIDE DEF iter
<1>9. MayFold(iter, n, V, default, step)
  BY <1>3, <1>6, <1>8 DEF MayFold
<1>10. PICK u : Runs(u, n, V, default, step) /\ u[n] = iter[1..n]
  BY <1>4, <1>9, PlacesRun
<1>11. FirstSetCase(SelectBits, selector, cases, default) = u[n]
  <2>1. DOMAIN [k \in 1..n |-> k] = 1..n
    OBVIOUS
  <2>2. FirstSetCase(SelectBits, selector, cases, default) = iter[1..n]
    BY <2>1 DEF FirstSetCase, FoldLeft, MapThenFoldSet, Pick, iter, n
  <2> QED
    BY <1>10, <2>2
<1> DEFINE Set(k) == {j \in (n - k + 1)..n : Bit(m, j - 1) = 1}
           Chosen(v, k) == /\ Set(k) = {} => v.n = default.n
                           /\ \A i \in Set(k) : (\A j \in Set(k) : i <= j) => v.n = cases[i].n
           N == {k \in Nat : k <= n => u[k] \in V /\ Chosen(u[k], k)}
<1>12. 0 \in N
  <2>1. Set(0) = {}
    BY <1>1
  <2>2. u[0] = default /\ default \in V
    BY <1>10 DEF Runs, V
  <2> QED
    BY <2>1, <2>2
<1>13. ASSUME NEW k \in Nat, k \in N PROVE k + 1 \in N
  <2> SUFFICES ASSUME k + 1 <= n PROVE u[k + 1] \in V /\ Chosen(u[k + 1], k + 1)
    OBVIOUS
  <2> DEFINE i == n - k
  <2>1. k \in 0..(n - 1) /\ k + 1 \in S /\ u[k] \in V /\ Chosen(u[k], k)
    BY <1>1, <1>13
  <2>2. u[k + 1] = step[<<k + 1, u[k]>>]
    BY <1>10, <2>1 DEF Runs
  <2>3. n - (k + 1) = i - 1 /\ i - 1 + 1 = i /\ i \in 1..n /\ n - (k + 1) + 1 = i
    BY <1>1, <2>1
  <2>4. u[k + 1] \in V /\ u[k + 1].n = IF Bit(m, i - 1) = 1 THEN cases[i].n ELSE u[k].n
    BY <1>2, <1>3, <2>1, <2>2, <2>3
  <2>5. Set(k + 1) = IF Bit(m, i - 1) = 1 THEN Set(k) \cup {i} ELSE Set(k)
    <3>1. n - (k + 1) + 1 = i /\ n - k + 1 = i + 1 /\ i \in Nat /\ i <= n
      BY <1>1, <2>1
    <3>2. \A l \in Nat : l <= n => l..n = ((l + 1)..n) \cup {l}
      BY <1>1
    <3>3. (n - (k + 1) + 1)..n = ((n - k + 1)..n) \cup {i}
      BY <3>1, <3>2
    <3> QED
      BY <3>3
  <2>6. \A j \in Set(k) : j > i
    BY <1>1, <2>1
  <2>7. i \in Nat /\ Set(k) \subseteq Nat
    BY <1>1, <2>1
  <2> HIDE DEF Set, i
  <2>8. CASE Bit(m, i - 1) = 1
    <3>1. Set(k + 1) = Set(k) \cup {i} /\ u[k + 1].n = cases[i].n
      BY <2>4, <2>5, <2>8
    <3>2. ASSUME NEW a \in Set(k + 1), \A j \in Set(k + 1) : a <= j PROVE a = i
      <4>1. a <= i /\ (a = i \/ (a \in Set(k) /\ a \in Nat /\ a > i))
        BY <2>6, <2>7, <3>1, <3>2
      <4> QED
        BY <2>7, <4>1
    <3> QED
      BY <2>4, <3>1, <3>2
  <2>9. CASE Bit(m, i - 1) # 1
    BY <2>1, <2>4, <2>5, <2>9
  <2> QED
    BY <2>8, <2>9
<1> HIDE DEF N
<1>14. n \in N
  BY <1>1, <1>12, <1>13, SetInduction
<1>15. u[n] \in V /\ Chosen(u[n], n)
  BY <1>1, <1>14 DEF N
<1>16. Set(n) = SetBits(m, n)
  BY <1>1 DEF SetBits
<1> QED
  BY <1>11, <1>15, <1>16 DEF V, n

\* A `one_hot_sel` has the bits of every case whose bit is set.
LEMMA OneHotMeans ==
  ASSUME NEW w \in Nat, NEW sw \in Nat, NEW selector \in Words(sw),
         NEW cases, IsList(cases), \A i \in 1..Len(cases) : cases[i] \in Words(w)
  PROVE  LET v == EverySetCase(SelectBits, OrBits, selector, cases, Const(w, 0)) IN
         /\ v \in Words(w)
         /\ \A i \in Nat : Bit(v.n, i) = 1 <=>
              \E j \in SetBits(selector.n, Len(cases)) : Bit(cases[j].n, i) = 1
<1> DEFINE n == Len(cases)
           m == selector.n
           zero == Const(w, 0)
           Pick(k, acc) ==
             IF k > selector.width THEN acc
             ELSE OrBits(acc, SelectBits(SelectedBit(selector, k - 1), cases[k], zero))
           S == 1..n
           V == Words(w)
           Steps(h) == h = [s \in SUBSET S |-> IF s = {} THEN zero
                                              ELSE Pick([k \in 1..n |-> k][Max(s)], h[s \ {Max(s)}])]
           iter == CHOOSE h : Steps(h)
           step == [p \in S \X V |-> Pick(p[1], p[2])]
<1>1. n \in Nat /\ m \in Nat /\ m < 2^sw /\ selector.width = sw
  BY ListElements, WordFacts
<1>2. zero \in V /\ zero.n = 0 /\ \A i \in Nat : Bit(0, i) = 0
  <2>1. 0 \in Nat /\ 0 < 2^w /\ TRUE \in BOOLEAN
    BY PowerIsPositive
  <2>2. zero \in V /\ zero.n = 0
    BY <2>1, TermIsWord DEF Const
  <2>3. ASSUME NEW i \in Nat PROVE Bit(0, i) = 0
    <3>1. 0 \in Nat /\ 0 < 2^0 /\ i >= 0
      OBVIOUS
    <3> QED
      BY <3>1, HighBitsAreClear
  <2> QED
    BY <2>2, <2>3
<1>3. ASSUME NEW k \in S, NEW v \in V
      PROVE  /\ Pick(k, v) \in V
             /\ \A i \in Nat : Bit(Pick(k, v).n, i) = 1 <=>
                  Bit(v.n, i) = 1 \/ (Bit(m, k - 1) = 1 /\ Bit(cases[k].n, i) = 1)
  <2>1. k - 1 \in Nat /\ k \in 1..n
    BY <1>1
  <2>2. CASE k > sw
    <3>1. Pick(k, v) = v
      BY <1>1, <2>2
    <3>2. Bit(m, k - 1) = 0
      BY <1>1, <2>1, <2>2, HighBitsAreClear
    <3> HIDE DEF Pick
    <3> QED
      BY <3>1, <3>2
  <2>3. CASE ~(k > sw)
    <3> DEFINE b == Bit(m, k - 1) = 1
               c == SelectedBit(selector, k - 1)
               x == cases[k]
               y == SelectBits(c, x, zero)
    <3>1. Pick(k, v) = OrBits(v, y)
      BY <1>1, <2>3
    <3>2. IsCondition(c, b) /\ x \in V
      BY <2>1, SelectedBitMeans
    <3> HIDE DEF b, c, x, Pick, zero
    <3>3. y \in V /\ y.n = IF b THEN x.n ELSE zero.n
      <4>1. zero \in V
        BY <1>2
      <4> QED
        BY <3>2, <4>1, IteMeans
    <3>4. \A i \in Nat : Bit(y.n, i) = 1 <=> b /\ Bit(x.n, i) = 1
      BY <1>2, <3>3
    <3> HIDE DEF y
    <3>5. /\ OrBits(v, y) \in V
          /\ \A i \in Nat : Bit(OrBits(v, y).n, i) = 1 <=> Bit(v.n, i) = 1 \/ Bit(y.n, i) = 1
      BY <3>3, OrBitsMeans
    <3> QED
      BY <3>1, <3>4, <3>5 DEF b, x
  <2> QED
    BY <2>2, <2>3
<1>4. \A k \in S : \A v \in V : step[<<k, v>>] = Pick(k, v)
  OBVIOUS
<1> HIDE DEF Pick
<1>5. StaysIn(n, V, zero, step)
  BY <1>1, <1>2, <1>3, <1>4 DEF StaysIn
<1> HIDE DEF V, step, n, zero
<1>6. PICK g : FoldsPlaces(g, n, V, zero, step)
  BY <1>5, PlacesRecursion
<1>7. \A s \in SUBSET S : s # {} => Max(s) \in S /\ s \ {Max(s)} \in SUBSET S
  BY <1>1, GreatestExists
<1>8. Steps(g)
  BY <1>4, <1>6, <1>7 DEF FoldsPlaces
<1>9. Steps(iter)
  BY <1>8
<1> HIDE DEF iter
<1>10. MayFold(iter, n, V, zero, step)
  BY <1>4, <1>7, <1>9 DEF MayFold
<1>11. PICK u : Runs(u, n, V, zero, step) /\ u[n] = iter[1..n]
  BY <1>5, <1>10, PlacesRun
<1>12. EverySetCase(SelectBits, OrBits, selector, cases, zero) = u[n]
  <2>1. DOMAIN [k \in 1..n |-> k] = 1..n
    OBVIOUS
  <2>2. EverySetCase(SelectBits, OrBits, selector, cases, zero) = iter[1..n]
    BY <2>1 DEF EverySetCase, FoldLeft, MapThenFoldSet, Pick, iter, n
  <2> QED
    BY <1>11, <2>2
<1> DEFINE Has(v, k) == \A i \in Nat : Bit(v.n, i) = 1 <=>
                          \E j \in SetBits(m, k) : Bit(cases[j].n, i) = 1
           N == {k \in Nat : k <= n => u[k] \in V /\ Has(u[k], k)}
<1>13. 0 \in N
  <2>1. SetBits(m, 0) = {}
    BY DEF SetBits
  <2>2. u[0] = zero
    BY <1>11 DEF Runs
  <2>3. \A i \in Nat : Bit(zero.n, i) # 1
    BY <1>2
  <2> QED
    BY <1>2, <2>1, <2>2, <2>3
<1>14. ASSUME NEW k \in Nat, k \in N PROVE k + 1 \in N
  <2> SUFFICES ASSUME k + 1 <= n PROVE u[k + 1] \in V /\ Has(u[k + 1], k + 1)
    OBVIOUS
  <2>1. k \in 0..(n - 1) /\ k + 1 \in S /\ u[k] \in V /\ Has(u[k], k)
    BY <1>1, <1>14
  <2>2. u[k + 1] = step[<<k + 1, u[k]>>]
    BY <1>11, <2>1 DEF Runs
  <2>3. /\ u[k + 1] \in V
        /\ \A i \in Nat : Bit(u[k + 1].n, i) = 1 <=>
             Bit(u[k].n, i) = 1 \/ (Bit(m, k) = 1 /\ Bit(cases[k + 1].n, i) = 1)
    <3>1. (k + 1) - 1 = k
      OBVIOUS
    <3> QED
      BY <1>3, <1>4, <2>1, <2>2, <3>1
  <2>4. SetBits(m, k + 1) = IF Bit(m, k) = 1 THEN SetBits(m, k) \cup {k + 1} ELSE SetBits(m, k)
    <3>1. 1..(k + 1) = (1..k) \cup {k + 1} /\ (k + 1) - 1 = k
      OBVIOUS
    <3> QED
      BY <3>1 DEF SetBits
  <2> QED
    BY <2>1, <2>3, <2>4
<1> HIDE DEF N
<1>15. n \in N
  BY <1>1, <1>13, <1>14, SetInduction
<1>16. u[n] \in V /\ Has(u[n], n)
  BY <1>1, <1>15 DEF N
<1> QED
  BY <1>12, <1>16 DEF V, n, zero

-----------------------------------------------------------------------------
(***************************************************************************)
(* Dead nodes.                                                             *)
(***************************************************************************)
\* The nodes that a node refers to.
Refers(nd, k) ==
  \/ \E i \in 1..Len(nd.refs) : k = nd.refs[i]
  \/ \E i \in 1..Len(nd.cases) : k = nd.cases[i]
  \/ nd.default # 0 /\ k = nd.default

LEMMA OneElement ==
  ASSUME NEW x
  PROVE  IsList(<<x>>) /\ Len(<<x>>) = 1 /\ <<x>>[1] = x
<1>1. <<x>> \in Seq({x}) /\ Len(<<x>>) = 1 /\ <<x>>[1] = x
  OBVIOUS
<1> QED
  BY <1>1, SeqIsList

LEMMA OperandRefsAre ==
  ASSUME NEW E, NEW nd,
         nd.refs \in Seq(E), nd.cases \in Seq(E), nd.default \in E \cup {0}
  PROVE  /\ IsList(OperandRefs(nd)) /\ Range(OperandRefs(nd)) \subseteq E
         /\ \A k : k \in Range(OperandRefs(nd)) <=> Refers(nd, k)
<1> DEFINE a == nd.refs
           b == nd.cases
           c == IF nd.default = 0 THEN <<>> ELSE <<nd.default>>
           all == a \o b \o c
<1>1. /\ IsList(a) /\ Len(a) \in Nat /\ \A i \in 1..Len(a) : a[i] \in E
      /\ IsList(b) /\ Len(b) \in Nat /\ \A i \in 1..Len(b) : b[i] \in E
  BY SeqIsList, ListElements
<1>2. /\ IsList(c) /\ Len(c) \in Nat
      /\ \A k : (\E i \in 1..Len(c) : k = c[i]) <=> nd.default # 0 /\ k = nd.default
  <2>1. CASE nd.default = 0
    BY <2>1, EmptyList
  <2>2. CASE nd.default # 0
    <3> DEFINE d == nd.default
    <3>1. c = <<d>>
      BY <2>2
    <3> HIDE DEF c, d
    <3>2. IsList(c) /\ Len(c) = 1 /\ c[1] = d /\ 1..1 = {1}
      BY <3>1, OneElement
    <3>3. \A k : (\E i \in 1..Len(c) : k = c[i]) <=> k = d
      BY <3>2
    <3> QED
      BY <2>2, <3>2, <3>3 DEF d
  <2> QED
    BY <2>1, <2>2
<1> HIDE DEF a, b, c
<1>3. /\ IsList(a \o b) /\ Len(a \o b) = Len(a) + Len(b)
      /\ \A i \in 1..Len(a) : (a \o b)[i] = a[i]
      /\ \A i \in 1..Len(b) : (a \o b)[Len(a) + i] = b[i]
  BY <1>1, ListsInARow
<1> DEFINE ab == a \o b
<1>4. /\ IsList(ab \o c) /\ Len(ab \o c) = Len(ab) + Len(c)
      /\ \A i \in 1..Len(ab) : (ab \o c)[i] = ab[i]
      /\ \A i \in 1..Len(c) : (ab \o c)[Len(ab) + i] = c[i]
  BY <1>2, <1>3, ListsInARow
<1>5. all = ab \o c /\ OperandRefs(nd) = all
  BY DEF OperandRefs, a, b, c
<1> HIDE DEF all
<1>6. DOMAIN all = 1..Len(all) /\ Len(all) = Len(ab) + Len(c)
  BY <1>4, <1>5, ListElements
<1>7. ASSUME NEW k
      PROVE  k \in Range(all) <=> \/ \E i \in 1..Len(a) : k = a[i]
                                  \/ \E i \in 1..Len(b) : k = b[i]
                                  \/ \E i \in 1..Len(c) : k = c[i]
  <2>1. k \in Range(all) <=> \E i \in 1..Len(all) : k = all[i]
    BY <1>6 DEF Range
  <2>2. ASSUME NEW i \in 1..Len(a)
        PROVE  i \in 1..Len(all) /\ all[i] = a[i]
    BY <1>1, <1>2, <1>3, <1>4, <1>5, <1>6
  <2>3. ASSUME NEW i \in 1..Len(b)
        PROVE  Len(a) + i \in 1..Len(all) /\ all[Len(a) + i] = b[i]
    BY <1>1, <1>2, <1>3, <1>4, <1>5, <1>6
  <2>4. ASSUME NEW i \in 1..Len(c)
        PROVE  Len(ab) + i \in 1..Len(all) /\ all[Len(ab) + i] = c[i]
    BY <1>1, <1>2, <1>3, <1>4, <1>5, <1>6
  <2>5. ASSUME NEW i \in 1..Len(all)
        PROVE  \/ i \in 1..Len(a)
               \/ i - Len(a) \in 1..Len(b) /\ i = Len(a) + (i - Len(a))
               \/ i - Len(ab) \in 1..Len(c) /\ i = Len(ab) + (i - Len(ab))
    BY <1>1, <1>2, <1>3, <1>6
  <2>6. \A i \in 1..Len(all) : \/ \E j \in 1..Len(a) : all[i] = a[j]
                               \/ \E j \in 1..Len(b) : all[i] = b[j]
                               \/ \E j \in 1..Len(c) : all[i] = c[j]
    <3> SUFFICES ASSUME NEW i \in 1..Len(all)
                 PROVE  \/ \E j \in 1..Len(a) : all[i] = a[j]
                        \/ \E j \in 1..Len(b) : all[i] = b[j]
                        \/ \E j \in 1..Len(c) : all[i] = c[j]
      OBVIOUS
    <3>1. CASE i \in 1..Len(a)
      BY <2>2, <3>1
    <3>2. CASE i - Len(a) \in 1..Len(b) /\ i = Len(a) + (i - Len(a))
      BY <2>3, <3>2
    <3>3. CASE i - Len(ab) \in 1..Len(c) /\ i = Len(ab) + (i - Len(ab))
      BY <2>4, <3>3
    <3> QED
      BY <2>5, <3>1, <3>2, <3>3
  <2>7. /\ \A j \in 1..Len(a) : \E i \in 1..Len(all) : a[j] = all[i]
        /\ \A j \in 1..Len(b) : \E i \in 1..Len(all) : b[j] = all[i]
        /\ \A j \in 1..Len(c) : \E i \in 1..Len(all) : c[j] = all[i]
    BY <2>2, <2>3, <2>4
  <2>8. ASSUME k \in Range(all)
        PROVE  \/ \E i \in 1..Len(a) : k = a[i]
               \/ \E i \in 1..Len(b) : k = b[i]
               \/ \E i \in 1..Len(c) : k = c[i]
    <3>1. PICK i \in 1..Len(all) : k = all[i]
      BY <2>1, <2>8
    <3> QED
      BY <2>6, <3>1
  <2>9. ASSUME \/ \E i \in 1..Len(a) : k = a[i]
               \/ \E i \in 1..Len(b) : k = b[i]
               \/ \E i \in 1..Len(c) : k = c[i]
        PROVE  \E i \in 1..Len(all) : k = all[i]
    <3>1. CASE \E i \in 1..Len(a) : k = a[i]
      BY <2>7, <3>1
    <3>2. CASE \E i \in 1..Len(b) : k = b[i]
      BY <2>7, <3>2
    <3>3. CASE \E i \in 1..Len(c) : k = c[i]
      BY <2>7, <3>3
    <3> QED
      BY <2>9, <3>1, <3>2, <3>3
  <2> QED
    BY <2>1, <2>8, <2>9
<1>8. \A k : k \in Range(all) <=> Refers(nd, k)
  BY <1>2, <1>7 DEF Refers, a, b
<1>9. Range(all) \subseteq E
  BY <1>1, <1>8 DEF Refers, a, b
<1> QED
  BY <1>4, <1>5, <1>8, <1>9

\* What is true of the functions of a request.
IsFunction(fn) ==
  /\ Len(fn.nodes) \in Nat /\ fn.ret \in 1..Len(fn.nodes)
  /\ \A k \in 1..Len(fn.nodes) :
       /\ fn.nodes[k].refs \in Seq(1..(k - 1)) /\ fn.nodes[k].cases \in Seq(1..(k - 1))
       /\ fn.nodes[k].default \in 1..(k - 1) \cup {0}

\* The result is live, and what a live node refers to is live and precedes it.
LEMMA KeptIsClosed ==
  ASSUME NEW fn, IsFunction(fn)
  PROVE  /\ Kept(fn) \subseteq 1..Len(fn.nodes) /\ fn.ret \in Kept(fn)
         /\ \A k \in Kept(fn) : \A j : Refers(fn.nodes[k], j) => j \in Kept(fn) /\ j \in 1..(k - 1)
<1> DEFINE n == Len(fn.nodes)
           refs(k) == Range(OperandRefs(fn.nodes[k]))
           Grow(k, live) == IF n - k + 1 \in live THEN live \cup refs(n - k + 1) ELSE live
           S == 1..n
           V == SUBSET (1..n)
           base == {fn.ret}
           Steps(h) == h = [s \in SUBSET S |-> IF s = {} THEN base
                                              ELSE Grow([k \in 1..n |-> k][Max(s)], h[s \ {Max(s)}])]
           iter == CHOOSE h : Steps(h)
           step == [p \in S \X V |-> Grow(p[1], p[2])]
<1>1. n \in Nat /\ fn.ret \in 1..n
  BY DEF IsFunction
<1>2. \A k \in 1..n : /\ refs(k) \subseteq 1..(k - 1)
                      /\ \A j : j \in refs(k) <=> Refers(fn.nodes[k], j)
  <2> SUFFICES ASSUME NEW k \in 1..n
               PROVE  refs(k) \subseteq 1..(k - 1) /\ \A j : j \in refs(k) <=> Refers(fn.nodes[k], j)
    OBVIOUS
  <2>1. PICK E, nd : E = 1..(k - 1) /\ nd = fn.nodes[k]
    OBVIOUS
  <2>2. nd.refs \in Seq(E) /\ nd.cases \in Seq(E) /\ nd.default \in E \cup {0}
    BY <2>1 DEF IsFunction
  <2>3. Range(OperandRefs(nd)) \subseteq E /\ \A j : j \in Range(OperandRefs(nd)) <=> Refers(nd, j)
    BY <2>2, OperandRefsAre
  <2> QED
    BY <2>1, <2>3
<1> HIDE DEF refs
<1>3. \A k \in S : \A v \in V : step[<<k, v>>] = Grow(k, v)
  OBVIOUS
<1>4. ASSUME NEW k \in S, NEW v \in V PROVE Grow(k, v) \in V
  <2>1. n - k + 1 \in 1..n
    BY <1>1
  <2>2. refs(n - k + 1) \subseteq 1..n
    BY <1>1, <1>2, <2>1
  <2> QED
    BY <2>2
<1>5. StaysIn(n, V, base, step)
  BY <1>1, <1>3, <1>4 DEF StaysIn
<1> HIDE DEF V, step, n, base, Grow
<1>6. PICK g : FoldsPlaces(g, n, V, base, step)
  BY <1>5, PlacesRecursion
<1>7. \A s \in SUBSET S : s # {} => Max(s) \in S /\ s \ {Max(s)} \in SUBSET S
  BY <1>1, GreatestExists
<1>8. Steps(g)
  BY <1>3, <1>6, <1>7 DEF FoldsPlaces
<1>9. Steps(iter)
  BY <1>8
<1> HIDE DEF iter
<1>10. MayFold(iter, n, V, base, step)
  BY <1>3, <1>7, <1>9 DEF MayFold
<1>11. PICK u : Runs(u, n, V, base, step) /\ u[n] = iter[1..n]
  BY <1>5, <1>10, PlacesRun
<1>12. Kept(fn) = u[n]
  <2>1. DOMAIN [k \in 1..n |-> k] = 1..n
    OBVIOUS
  <2>2. Kept(fn) = iter[1..n]
    BY <2>1 DEF Kept, FoldLeft, MapThenFoldSet, Grow, iter, n, refs, base
  <2> QED
    BY <1>11, <2>2
<1> DEFINE Closed(v, k) == fn.ret \in v /\ \A i \in 1..n : i > n - k /\ i \in v => refs(i) \subseteq v
           N == {k \in Nat : k <= n => u[k] \in V /\ Closed(u[k], k)}
<1>13. 0 \in N
  <2>1. u[0] = base /\ base \in V
    BY <1>5, <1>11 DEF Runs, StaysIn
  <2>2. \A i \in 1..n : ~(i > n - 0)
    BY <1>1
  <2> QED
    BY <2>1, <2>2 DEF base
<1>14. ASSUME NEW k \in Nat, k \in N PROVE k + 1 \in N
  <2> SUFFICES ASSUME k + 1 <= n PROVE u[k + 1] \in V /\ Closed(u[k + 1], k + 1)
    OBVIOUS
  <2> DEFINE i == n - k
  <2>1. k \in 0..(n - 1) /\ k + 1 \in S /\ u[k] \in V /\ Closed(u[k], k)
    BY <1>1, <1>14
  <2>2. u[k + 1] = step[<<k + 1, u[k]>>]
    BY <1>11, <2>1 DEF Runs
  <2>3. n - (k + 1) + 1 = i /\ i \in 1..n /\ n - (k + 1) = i - 1
    BY <1>1, <2>1
  <2>4. u[k + 1] = IF i \in u[k] THEN u[k] \cup refs(i) ELSE u[k]
    BY <1>3, <2>1, <2>2, <2>3 DEF Grow
  <2>5. u[k + 1] \in V
    BY <1>3, <1>4, <2>1, <2>2
  <2>6. ASSUME NEW j \in 1..n, j > n - (k + 1), j \in u[k + 1] PROVE refs(j) \subseteq u[k + 1]
    <3>1. j = i \/ j > i
      BY <1>1, <2>3, <2>6
    <3>2. refs(i) \subseteq 1..(i - 1)
      BY <1>2, <2>3
    <3>3. j \notin refs(i)
      BY <1>1, <2>3, <3>1, <3>2
    <3>4. j \in u[k] /\ u[k] \subseteq u[k + 1]
      BY <2>4, <2>6, <3>3
    <3>5. CASE j = i
      BY <2>4, <3>4, <3>5
    <3>6. CASE j > i
      BY <2>1, <3>4, <3>6
    <3> QED
      BY <3>1, <3>5, <3>6
  <2>7. fn.ret \in u[k + 1]
    BY <2>1, <2>4
  <2> QED
    BY <2>5, <2>6, <2>7
<1> HIDE DEF N
<1>15. n \in N
  BY <1>1, <1>13, <1>14, SetInduction
<1>16. u[n] \in V /\ Closed(u[n], n)
  BY <1>1, <1>15 DEF N
<1>17. u[n] \subseteq 1..n /\ \A k \in u[n] : refs(k) \subseteq u[n]
  BY <1>1, <1>16 DEF V
<1>18. \A k \in u[n] : \A j : Refers(fn.nodes[k], j) => j \in u[n] /\ j \in 1..(k - 1)
  BY <1>2, <1>17
<1> QED
  BY <1>12, <1>16, <1>17, <1>18 DEF n

-----------------------------------------------------------------------------
(***************************************************************************)
(* Requests.                                                               *)
(***************************************************************************)
LEMMA RequestFacts ==
  ASSUME NEW r \in Requests
  PROVE  /\ r.top \in DOMAIN r.fns /\ Len(r.args) = Len(r.fns[r.top].params)
         /\ \A i \in 1..Len(r.args) : r.args[i] \in Words(r.fns[r.top].params[i])
         /\ \A fn \in DOMAIN r.fns :
              /\ IsFunction(r.fns[fn]) /\ r.fns[fn].params \in Seq(Nat)
              /\ r.fns[fn] = [params |-> r.fns[fn].params, nodes |-> r.fns[fn].nodes,
                              ret |-> r.fns[fn].ret]
              /\ \A k \in 1..Len(r.fns[fn].nodes) :
                   WellFormedNode(r.fns, fn, k) /\ r.fns[fn].nodes[k].width \in Nat
<1>1. WellFormed(r)
  BY RequestsAssumption
<1> SUFFICES ASSUME NEW fn \in DOMAIN r.fns
             PROVE  /\ IsFunction(r.fns[fn]) /\ r.fns[fn].params \in Seq(Nat)
                    /\ r.fns[fn] = [params |-> r.fns[fn].params, nodes |-> r.fns[fn].nodes,
                                    ret |-> r.fns[fn].ret]
                    /\ \A k \in 1..Len(r.fns[fn].nodes) :
                         WellFormedNode(r.fns, fn, k) /\ r.fns[fn].nodes[k].width \in Nat
  BY <1>1 DEF WellFormed
<1>2. /\ r.fns[fn] = [params |-> r.fns[fn].params, nodes |-> r.fns[fn].nodes, ret |-> r.fns[fn].ret]
      /\ r.fns[fn].params \in Seq(Nat) /\ Len(r.fns[fn].nodes) \in Nat
      /\ r.fns[fn].ret \in 1..Len(r.fns[fn].nodes)
      /\ \A k \in 1..Len(r.fns[fn].nodes) : WellFormedNode(r.fns, fn, k)
  BY <1>1 DEF WellFormed
<1>3. \A k \in 1..Len(r.fns[fn].nodes) :
        /\ r.fns[fn].nodes[k].refs \in Seq(1..(k - 1)) /\ r.fns[fn].nodes[k].cases \in Seq(1..(k - 1))
        /\ r.fns[fn].nodes[k].default \in 1..(k - 1) \cup {0}
        /\ r.fns[fn].nodes[k].width \in Nat
  BY <1>2 DEF WellFormedNode
<1> QED
  BY <1>2, <1>3 DEF IsFunction

\* Removing dead nodes leaves the others.
LEMMA PrunedFacts ==
  ASSUME NEW r \in Requests, NEW fn \in DOMAIN r.fns
  PROVE  LET was == r.fns[fn]
             now == Pruned(r)[fn]
         IN  /\ now.params = was.params /\ now.ret = was.ret /\ Len(now.nodes) = Len(was.nodes)
             /\ \A k \in 1..Len(was.nodes) :
                  now.nodes[k] = IF k \in Kept(was) THEN was.nodes[k] ELSE Removed
<1> DEFINE was == r.fns[fn]
           kept == Kept(was)
           nodes == [k \in 1..Len(was.nodes) |-> IF k \in kept THEN was.nodes[k] ELSE Removed]
<1>1. was = [params |-> was.params, nodes |-> was.nodes, ret |-> was.ret] /\ Len(was.nodes) \in Nat
  BY RequestFacts DEF IsFunction
<1>2. Pruned(r)[fn] = [was EXCEPT !.nodes = nodes]
  BY DEF Pruned, WithoutDeadNodes
<1>3. Len(nodes) = Len(was.nodes)
  <2> DEFINE n == Len(was.nodes)
  <2>1. n \in Nat /\ nodes = [i \in 1..n |-> nodes[i]]
    BY <1>1
  <2> HIDE DEF nodes, n
  <2>2. Len(nodes) = n
    BY <2>1, MakeList
  <2> QED
    BY <2>2 DEF n
<1> HIDE DEF was, kept
<1>4. /\ Pruned(r)[fn].params = was.params /\ Pruned(r)[fn].ret = was.ret
      /\ Pruned(r)[fn].nodes = nodes
  BY <1>1, <1>2
<1> QED
  BY <1>3, <1>4 DEF was, kept

\* Whose requests' outcomes are what Reference makes of them.
Answered == \A r \in Requests : \A site : Evaluates(r, site)

-----------------------------------------------------------------------------
(***************************************************************************)
(* Nodes.  The site of the node that an activation is at, and those of the *)
(* nodes that it refers to.                                                *)
(***************************************************************************)
\* An activation at a node that has not been removed.
AtLive(r, f, inv) == r \in Requests /\ FrameRight(r, f, inv) /\ IsAtNode(r, f)

LEMMA LiveNode ==
  ASSUME NEW r, NEW f, NEW inv, AtLive(r, f, inv)
  PROVE  LET k     == Len(f.values) + 1
             nodes == r.fns[f.fn].nodes
         IN  /\ f.fn \in DOMAIN r.fns /\ Len(f.values) \in Nat /\ k \in 1..Len(nodes)
             /\ Current(r, f) = nodes[k] /\ WellFormedNode(r.fns, f.fn, k)
             /\ nodes[k].width \in Nat
             /\ \A j : Refers(nodes[k], j) =>
                  /\ j \in 1..Len(f.values) /\ nodes[j].width \in Nat
                  /\ Right(r, f.values[j], nodes[j].width, R!RefSite(Here(f, inv), j))
<1> DEFINE k == Len(f.values) + 1
           fn == r.fns[f.fn]
           nodes == fn.nodes
<1>1. /\ f.fn \in DOMAIN r.fns /\ ValuesRight(r, f, inv) /\ r \in Requests
      /\ Len(f.values) < Len(nodes) /\ k \in Kept(fn)
  BY DEF AtLive, FrameRight, IsAtNode
<1>2. IsFunction(fn) /\ \A j \in 1..Len(nodes) : WellFormedNode(r.fns, f.fn, j) /\ nodes[j].width \in Nat
  BY <1>1, RequestFacts
<1>3. Len(f.values) \in Nat /\ Len(nodes) \in Nat
  BY <1>1, <1>2, ListElements DEF ValuesRight, IsFunction
<1>4. k \in 1..Len(nodes)
  BY <1>1, <1>3
<1>5. ASSUME NEW j, Refers(nodes[k], j)
      PROVE  /\ j \in 1..Len(f.values) /\ nodes[j].width \in Nat
             /\ Right(r, f.values[j], nodes[j].width, R!RefSite(Here(f, inv), j))
  <2>1. j \in Kept(fn) /\ j \in 1..(k - 1)
    BY <1>1, <1>2, <1>5, KeptIsClosed
  <2>2. j \in 1..Len(f.values) /\ j \in 1..Len(nodes)
    BY <1>1, <1>3, <2>1
  <2>3. Right(r, f.values[j], nodes[j].width, <<f.fn, j, inv>>)
    BY <1>1, <2>1, <2>2 DEF ValuesRight
  <2>4. R!RefSite(Here(f, inv), j) = <<f.fn, j, inv>>
    BY DEF R!RefSite, Here
  <2> QED
    BY <1>2, <2>2, <2>3, <2>4
<1>6. Current(r, f) = nodes[k]
  BY DEF Current
<1> QED
  BY <1>1, <1>2, <1>3, <1>4, <1>5, <1>6

\* The outcome of that site.
LEMMA LiveOutcome ==
  ASSUME NEW r, NEW f, NEW inv, AtLive(r, f, inv), Answered
  PROVE  LET q    == asRequest(r)
             site == Here(f, inv)
             out  == OutcomesOf(r)
         IN  /\ R!NodeAt(q, site) = Current(r, f)
             /\ Of(r, site).value = R!NodeValue(q, 1, out, site)
             /\ R!IsSupported(q, site) /\ (\A s \in R!DemandedSites(q, out, site) : Of(r, s).ok) =>
                  Of(r, site).ok
<1> DEFINE q == asRequest(r)
           site == Here(f, inv)
           out == OutcomesOf(r)
<1>1. q.fns = r.fns /\ q.top = r.top /\ site[1] = f.fn /\ site[2] = Len(f.values) + 1 /\ site[3] = inv
  BY DEF asRequest, Here
<1>2. /\ R!IsContext(q, inv) /\ f.fn = R!FunctionIn(q, inv)
      /\ Len(f.values) + 1 \in 1..Len(r.fns[f.fn].nodes) /\ r \in Requests
  BY LiveNode DEF AtLive, FrameRight
<1>3. R!IsSiteOf(q, site)
  BY <1>1, <1>2 DEF R!IsSiteOf
<1>4. Of(r, site) = R!OutcomeOfParts(q, 1, out, site)
  BY <1>2, <1>3 DEF Answered, Evaluates
<1>5. R!NodeAt(q, site) = Current(r, f)
  BY <1>1 DEF R!NodeAt, Current
<1>6. Of(r, site).value = R!NodeValue(q, 1, out, site)
  BY <1>4 DEF R!OutcomeOfParts
<1>7. Of(r, site).ok = (R!IsSupported(q, site) /\
                        \A o \in {out[s] : s \in R!DemandedSites(q, out, site)} : o.ok)
  BY <1>4 DEF R!OutcomeOfParts
<1>8. ASSUME R!IsSupported(q, site), \A s \in R!DemandedSites(q, out, site) : Of(r, s).ok
      PROVE  Of(r, site).ok
  BY <1>7, <1>8 DEF Of
<1> QED
  BY <1>5, <1>6, <1>8

\* A node that has been given its value.
LEMMA ValueGiven ==
  ASSUME NEW r \in Requests, NEW f, NEW inv, FrameRight(r, f, inv),
         Len(f.values) < Len(r.fns[f.fn].nodes), NEW value,
         IF Len(f.values) + 1 \in Kept(r.fns[f.fn])
           THEN Right(r, value, Current(r, f).width, Here(f, inv)) ELSE value = None
  PROVE  FrameRight(r, With(f, value), inv) /\ With(f, value).fn = f.fn
<1> DEFINE g == With(f, value)
           n == Len(f.values)
           fn == r.fns[f.fn]
<1>1. /\ f = [fn |-> f.fn, args |-> f.args, values |-> f.values, loop |-> f.loop]
      /\ f.fn \in DOMAIN r.fns /\ ValuesRight(r, f, inv) /\ ArgumentsRight(r, f, inv)
      /\ R!IsContext(asRequest(r), inv) /\ IsList(inv) /\ f.fn = R!FunctionIn(asRequest(r), inv)
  BY DEF FrameRight
<1>2. /\ g = [fn |-> g.fn, args |-> g.args, values |-> g.values, loop |-> g.loop]
      /\ g.fn = f.fn /\ g.args = f.args /\ g.values = Append(f.values, value) /\ g.loop = <<>>
  <2> DEFINE a == Append(f.values, value)
             h == [fn |-> f.fn, args |-> f.args, values |-> a, loop |-> f.loop]
  <2>1. [f EXCEPT !.values = a] = h
    BY <1>1
  <2>2. [h EXCEPT !.loop = <<>>] = [fn |-> f.fn, args |-> f.args, values |-> a, loop |-> <<>>]
    <3>1. PICK b, c, d, e : b = f.fn /\ c = f.args /\ d = a /\ e = f.loop
      OBVIOUS
    <3>2. [[fn |-> b, args |-> c, values |-> d, loop |-> e] EXCEPT !.loop = <<>>]
            = [fn |-> b, args |-> c, values |-> d, loop |-> <<>>]
      BY ONLY SMTT(20)
    <3> QED
      BY <3>1, <3>2
  <2>3. g = [[f EXCEPT !.values = a] EXCEPT !.loop = <<>>]
    BY DEF With
  <2>4. g = [fn |-> f.fn, args |-> f.args, values |-> a, loop |-> <<>>]
    BY <2>1, <2>2, <2>3
  <2> HIDE DEF g
  <2> QED
    BY <2>4
<1> HIDE DEF g
<1>3. /\ IsList(g.values) /\ Len(g.values) = n + 1 /\ g.values[n + 1] = value
      /\ \A i \in 1..n : g.values[i] = f.values[i]
      /\ n \in Nat
  <2> DEFINE S == {f.values[i] : i \in 1..n} \cup {value}
  <2>1. IsList(f.values) /\ n \in Nat
    BY <1>1, ListElements DEF ValuesRight
  <2>2. f.values \in Seq(S) /\ value \in S
    BY <2>1, ListIsSeq
  <2> HIDE DEF S
  <2>3. /\ Append(f.values, value) \in Seq(S) /\ Len(Append(f.values, value)) = n + 1
        /\ \A i \in 1..n : Append(f.values, value)[i] = f.values[i]
        /\ Append(f.values, value)[n + 1] = value
    BY <2>2, AppendProperties
  <2> QED
    BY <1>2, <2>1, <2>3, SeqIsList
<1>4. Len(fn.nodes) \in Nat
  BY <1>1, RequestFacts DEF IsFunction
<1>5. ASSUME NEW k \in 1..Len(g.values)
      PROVE  IF k \in Kept(fn) THEN Right(r, g.values[k], fn.nodes[k].width, <<g.fn, k, inv>>)
             ELSE g.values[k] = None
  <2>1. CASE k \in 1..n
    BY <1>1, <1>2, <1>3, <2>1 DEF ValuesRight
  <2>2. CASE k = n + 1
    BY <1>2, <1>3, <2>2 DEF Current, Here
  <2> QED
    BY <1>3, <2>1, <2>2
<1>6. ValuesRight(r, g, inv)
  BY <1>2, <1>3, <1>4, <1>5 DEF ValuesRight
<1>7. ArgumentsRight(r, g, inv) /\ LoopRight(r, g, inv)
  BY <1>1, <1>2 DEF ArgumentsRight, LoopRight
<1> QED
  BY <1>1, <1>2, <1>6, <1>7 DEF FrameRight, g

\* A parameter has the argument that the call passed.
LEMMA ParamIsRight ==
  ASSUME NEW r, NEW f, NEW inv, AtLive(r, f, inv), Answered, Current(r, f).kind = "param"
  PROVE  Right(r, f.args[Current(r, f).index], Current(r, f).width, Here(f, inv))
<1> DEFINE nd == Current(r, f)
           q == asRequest(r)
           out == OutcomesOf(r)
           site == Here(f, inv)
           params == r.fns[f.fn].params
<1>1. WellFormedNode(r.fns, f.fn, Len(f.values) + 1) /\ nd = r.fns[f.fn].nodes[Len(f.values) + 1]
  BY LiveNode
<1>2. nd.index \in 1..Len(params) /\ nd.width = params[nd.index]
  BY <1>1 DEF WellFormedNode
<1>3. f.args[nd.index] \in Words(nd.width) /\ f.args[nd.index].n = R!Passed(q, 1, out, inv, nd.index)
  BY <1>2 DEF AtLive, FrameRight, ArgumentsRight
<1>4. site[3] = inv
  BY DEF Here
<1>5. R!NodeAt(q, site) = nd
  BY LiveOutcome
<1>6. R!NodeValue(q, 1, out, site) = R!Passed(q, 1, out, inv, nd.index)
  BY <1>4, <1>5 DEF R!NodeValue, R!IsSelection
<1>7. R!IsSupported(q, site) /\ R!DemandedSites(q, out, site) = {}
  BY <1>5 DEF R!IsSupported, R!DemandedSites
<1>8. Of(r, site).value = R!Passed(q, 1, out, inv, nd.index) /\ Of(r, site).ok
  BY <1>6, <1>7, LiveOutcome
<1> QED
  BY <1>3, <1>8 DEF Right

\* What an activation has for the nodes of a list of references.
OperandsOf(f, refs) == [i \in 1..Len(refs) |-> f.values[refs[i]]]

\* What every node that refers to others has in common.
LEMMA OperandsAreRight ==
  ASSUME NEW r, NEW f, NEW inv, AtLive(r, f, inv)
  PROVE  LET nd    == Current(r, f)
             nodes == r.fns[f.fn].nodes
             q     == asRequest(r)
             site  == Here(f, inv)
         IN  /\ IsList(nd.refs) /\ Len(nd.refs) \in Nat
             /\ \A i \in 1..Len(nd.refs) :
                  /\ nodes[nd.refs[i]].width \in Nat
                  /\ Right(r, f.values[nd.refs[i]], nodes[nd.refs[i]].width,
                           R!RefSite(site, nd.refs[i]))
             /\ \A s \in R!OperandSites(q, site) : Of(r, s).ok
<1> DEFINE nd == Current(r, f)
           site == Here(f, inv)
<1>1. WellFormedNode(r.fns, f.fn, Len(f.values) + 1) /\ nd = r.fns[f.fn].nodes[Len(f.values) + 1]
  BY LiveNode
<1>2. nd.refs \in Seq(1..((Len(f.values) + 1) - 1))
  BY <1>1 DEF WellFormedNode
<1>3. IsList(nd.refs) /\ Len(nd.refs) \in Nat
  BY <1>2, SeqIsList, ListElements
<1>4. \A i \in 1..Len(nd.refs) : Refers(nd, nd.refs[i])
  BY DEF Refers
<1>5. \A i \in 1..Len(nd.refs) :
        /\ r.fns[f.fn].nodes[nd.refs[i]].width \in Nat
        /\ Right(r, f.values[nd.refs[i]], r.fns[f.fn].nodes[nd.refs[i]].width,
                 R!RefSite(site, nd.refs[i]))
  BY <1>1, <1>4, LiveNode
<1>6. R!NodeAt(asRequest(r), site) = nd
  BY <1>1 DEF R!NodeAt, Here, asRequest
<1>7. \A s \in R!OperandSites(asRequest(r), site) : Of(r, s).ok
  BY <1>5, <1>6 DEF R!OperandSites, Right
<1> QED
  BY <1>3, <1>5, <1>7

AllWords == UNION {Words(w) : w \in Nat}

\* A pure operation has the value that Op has on the values of its operands.
LEMMA PureIsRight ==
  ASSUME NEW r, NEW f, NEW inv, AtLive(r, f, inv), Answered, PureNodesDenote(AllWords),
         Current(r, f).kind = "pure"
  PROVE  Right(r, Apply(Current(r, f), OperandsOf(f, Current(r, f).refs)), Current(r, f).width,
               Here(f, inv))
<1> DEFINE nd == Current(r, f)
           nodes == r.fns[f.fn].nodes
           q == asRequest(r)
           out == OutcomesOf(r)
           site == Here(f, inv)
           v == OperandsOf(f, nd.refs)
           k == Len(f.values) + 1
<1>1. /\ f.fn \in DOMAIN r.fns /\ k \in 1..Len(nodes) /\ nd = nodes[k] /\ r \in Requests
  BY LiveNode DEF AtLive
<1>2. ASSUME NEW i \in 1..Len(nd.refs)
      PROVE  /\ v[i] \in AllWords /\ v[i].width = nodes[nd.refs[i]].width
             /\ v[i].n = Of(r, R!RefSite(site, nd.refs[i])).value
  <2> DEFINE w == nodes[nd.refs[i]].width
  <2>1. w \in Nat /\ Right(r, v[i], w, R!RefSite(site, nd.refs[i]))
    BY OperandsAreRight DEF OperandsOf
  <2> HIDE DEF w, v
  <2>2. v[i] \in Words(w) /\ v[i].n = Of(r, R!RefSite(site, nd.refs[i])).value
    BY <2>1 DEF Right
  <2>3. v[i].width = w /\ v[i] \in AllWords
    BY <2>1, <2>2, WordFacts DEF AllWords
  <2> QED
    BY <2>2, <2>3 DEF w
<1>3. v = [i \in 1..Len(nd.refs) |-> v[i]]
  BY DEF OperandsOf
<1>4. v \in [1..Len(nd.refs) -> AllWords] /\ \A i \in 1..Len(nd.refs) : v[i].width = nodes[nd.refs[i]].width
  <2> HIDE DEF v
  <2> QED
    BY <1>2, <1>3
<1>5. /\ Apply(nd, v) \in Words(nd.width)
      /\ Apply(nd, v).n = Op(nd, [i \in 1..Len(nd.refs) |-> v[i].n])
  <2>1. nodes[k].kind = "pure"
    BY <1>1
  <2>2. \A t \in [1..Len(nodes[k].refs) -> AllWords] :
          (\A i \in 1..Len(nodes[k].refs) : t[i].width = nodes[nodes[k].refs[i]].width) =>
            /\ Apply(nodes[k], t) \in Words(nodes[k].width)
            /\ Apply(nodes[k], t).n = Op(nodes[k], [i \in 1..Len(nodes[k].refs) |-> t[i].n])
    BY <1>1, <2>1 DEF PureNodesDenote
  <2> HIDE DEF v, nd, nodes, k
  <2> QED
    BY <1>1, <1>4, <2>2
<1>6. R!NodeAt(q, site) = nd
  BY LiveOutcome
<1>7. R!NodeValue(q, 1, out, site) = Op(nd, [i \in 1..Len(nd.refs) |-> v[i].n])
  <2>1. R!OperandValues(q, out, site)
          = [i \in 1..Len(nd.refs) |-> Of(r, R!RefSite(site, nd.refs[i])).value]
    BY <1>6 DEF R!OperandValues, R!ValueOf, Of
  <2>2. R!OperandValues(q, out, site) = [i \in 1..Len(nd.refs) |-> v[i].n]
    <3> HIDE DEF v
    <3> QED
      BY <1>2, <2>1
  <2> QED
    BY <1>6, <2>2 DEF R!NodeValue, R!IsSelection
<1>8. R!IsSupported(q, site) /\ R!DemandedSites(q, out, site) = R!OperandSites(q, site)
  BY <1>6 DEF R!IsSupported, R!DemandedSites, R!CalledSites, R!ChosenCases, R!IsSelection
<1>9. Of(r, site).value = Op(nd, [i \in 1..Len(nd.refs) |-> v[i].n]) /\ Of(r, site).ok
  BY <1>7, <1>8, LiveOutcome, OperandsAreRight
<1> QED
  BY <1>5, <1>9 DEF Right

\* What an activation has for the cases and the default of a selection.
CasesOf(f, nd)   == OperandsOf(f, nd.cases)
DefaultOf(f, nd) == IF nd.default = 0 THEN <<>> ELSE OperandsOf(f, <<nd.default>>)

\* An activation's value for a node that the one it is at refers to.
Holds(r, f, inv, value, ref, width) ==
  /\ value \in Words(width) /\ value.n = Of(r, R!RefSite(Here(f, inv), ref)).value
  /\ Of(r, R!RefSite(Here(f, inv), ref)).ok

LEMMA SelectionOperands ==
  ASSUME NEW r, NEW f, NEW inv, AtLive(r, f, inv), Current(r, f).kind \in SelectionKinds
  PROVE  LET nd == Current(r, f)
             cs == CasesOf(f, nd)
             ds == DefaultOf(f, nd)
         IN  /\ nd.width \in Nat
             /\ \E sw \in Nat : Holds(r, f, inv, f.values[nd.refs[1]], nd.refs[1], sw)
             /\ IsList(cs) /\ Len(cs) = Len(nd.cases) /\ Len(nd.cases) \in Nat
             /\ \A i \in 1..Len(nd.cases) : Holds(r, f, inv, cs[i], nd.cases[i], nd.width)
             /\ IF nd.default = 0 THEN ds = <<>>
                ELSE ds = <<ds[1]>> /\ ds # <<>> /\ Holds(r, f, inv, ds[1], nd.default, nd.width)
             /\ nd.kind = "sel" => nd.cases # <<>> /\ Len(nd.cases) # 0
             /\ nd.kind = "priority_sel" => nd.default # 0
<1> DEFINE nd == Current(r, f)
           nodes == r.fns[f.fn].nodes
           cs == CasesOf(f, nd)
           ds == DefaultOf(f, nd)
           d == nd.default
<1>1. WellFormedNode(r.fns, f.fn, Len(f.values) + 1) /\ nd = nodes[Len(f.values) + 1] /\ nd.width \in Nat
  BY LiveNode
<1>2. /\ nd.cases \in Seq(1..((Len(f.values) + 1) - 1)) /\ Len(nd.refs) = 1
      /\ \A i \in 1..Len(nd.cases) : nodes[nd.cases[i]].width = nd.width
      /\ d # 0 => nodes[d].width = nd.width
      /\ nd.kind = "sel" => nd.cases # <<>>
      /\ nd.kind = "priority_sel" => d # 0
  BY <1>1 DEF WellFormedNode
<1>3. IsList(nd.cases) /\ Len(nd.cases) \in Nat
  BY <1>2, SeqIsList, ListElements
<1>4. ASSUME NEW j, Refers(nd, j)
      PROVE  nodes[j].width \in Nat /\ Holds(r, f, inv, f.values[j], j, nodes[j].width)
  BY <1>1, <1>4, LiveNode DEF Right, Holds
<1>5. Refers(nd, nd.refs[1])
  BY <1>2 DEF Refers
<1>6. \E sw \in Nat : Holds(r, f, inv, f.values[nd.refs[1]], nd.refs[1], sw)
  BY <1>4, <1>5
<1>7. IsList(cs) /\ Len(cs) = Len(nd.cases)
  <2>1. cs = [i \in 1..Len(nd.cases) |-> cs[i]]
    BY DEF CasesOf, OperandsOf
  <2> HIDE DEF cs
  <2> QED
    BY <1>3, <2>1, MakeList
<1>8. ASSUME NEW i \in 1..Len(nd.cases) PROVE Holds(r, f, inv, cs[i], nd.cases[i], nd.width)
  <2>1. cs[i] = f.values[nd.cases[i]]
    BY DEF CasesOf, OperandsOf
  <2>2. Refers(nd, nd.cases[i])
    BY DEF Refers
  <2> QED
    BY <1>2, <1>4, <2>1, <2>2
<1>9. IF d = 0 THEN ds = <<>> ELSE ds = <<ds[1]>> /\ ds # <<>> /\ Holds(r, f, inv, ds[1], d, nd.width)
  <2>1. CASE d = 0
    BY <2>1 DEF DefaultOf
  <2>2. CASE d # 0
    <3>1. ds = OperandsOf(f, <<d>>)
      BY <2>2 DEF DefaultOf
    <3>2. ds = <<f.values[d]>>
      <4> HIDE DEF d, ds
      <4> QED
        BY <3>1 DEF OperandsOf
    <3>3. Refers(nd, d)
      BY <2>2 DEF Refers
    <3>4. Holds(r, f, inv, f.values[d], d, nd.width)
      BY <1>2, <1>4, <2>2, <3>3
    <3> HIDE DEF ds, d
    <3>5. ds # <<>> /\ ds[1] = f.values[d]
      BY <3>2
    <3> QED
      BY <2>2, <3>2, <3>4, <3>5
  <2> QED
    BY <2>1, <2>2
<1>10. nd.kind = "sel" => nd.cases # <<>> /\ Len(nd.cases) # 0
  BY <1>2, <1>3, EmptyList
<1> QED
  BY <1>1, <1>2, <1>3, <1>6, <1>7, <1>8, <1>9, <1>10

\* Numbers are the same in Reference.
LEMMA SameNumbers ==
  /\ \A n, i : R!Bit(n, i) = Bit(n, i)
  /\ \A S : R!FromBits(S) = FromBits(S)
<1>1. \A n, i : R!Bit(n, i) = Bit(n, i)
  BY DEF R!Bit, Bit
<1>2. ASSUME NEW S PROVE R!FromBits(S) = FromBits(S)
  BY DEF R!FromBits, FromBits, R!MapThenSumSet, MapThenSumSet, R!MapThenFoldSet, MapThenFoldSet
<1> QED
  BY <1>1, <1>2

\* The outcome of a selection, from the case that it resolves to.
LEMMA SelectionOutcome ==
  ASSUME NEW r, NEW f, NEW inv, AtLive(r, f, inv), Answered, Current(r, f).kind \in SelectionKinds
  PROVE  LET nd    == Current(r, f)
             q     == asRequest(r)
             site  == Here(f, inv)
             cases == R!Selected(nd, f.values[nd.refs[1]].n).cases
         IN  /\ Of(r, site).value = R!SelectionValue(q, OutcomesOf(r), site)
             /\ R!NodeAt(q, site) = nd
             /\ R!Resolution(q, OutcomesOf(r), site).cases = cases
             /\ (\A ref \in cases : Of(r, R!RefSite(site, ref)).ok) => Of(r, site).ok
<1> DEFINE nd == Current(r, f)
           q == asRequest(r)
           out == OutcomesOf(r)
           site == Here(f, inv)
           cases == R!Selected(nd, f.values[nd.refs[1]].n).cases
<1>1. /\ R!NodeAt(q, site) = nd
      /\ Of(r, site).value = R!NodeValue(q, 1, out, site)
      /\ R!IsSupported(q, site) /\ (\A s \in R!DemandedSites(q, out, site) : Of(r, s).ok) =>
           Of(r, site).ok
  BY LiveOutcome
<1>2. nd.kind \in {"sel", "priority_sel", "one_hot_sel"}
  BY DEF SelectionKinds
<1>3. R!NodeValue(q, 1, out, site) = R!SelectionValue(q, out, site)
  BY <1>1, <1>2 DEF R!NodeValue, R!IsSelection
<1>4. R!IsSupported(q, site)
  BY <1>1, <1>2 DEF R!IsSupported
<1>5. out[R!RefSite(site, nd.refs[1])].value = f.values[nd.refs[1]].n
  BY SelectionOperands DEF Holds, Of
<1>6. R!Resolution(q, out, site).cases = cases
  BY <1>1, <1>5 DEF R!Resolution, R!ValueOf
<1>7. R!DemandedSites(q, out, site) = R!OperandSites(q, site) \cup {R!RefSite(site, ref) : ref \in cases}
  <2>1. R!CalledSites(q, site) = {}
    BY <1>1, <1>2 DEF R!CalledSites
  <2>2. R!ChosenCases(q, out, site) = {R!RefSite(site, ref) : ref \in cases}
    <3>1. R!IsSelection(R!NodeAt(q, site))
      BY <1>1, <1>2 DEF R!IsSelection
    <3> QED
      BY <1>6, <3>1 DEF R!ChosenCases
  <2>3. R!NodeAt(q, site).kind # "param"
    BY <1>1, <1>2
  <2> HIDE DEF cases
  <2> QED
    BY <2>1, <2>2, <2>3 DEF R!DemandedSites
<1>8. \A s \in R!OperandSites(q, site) : Of(r, s).ok
  BY OperandsAreRight
<1> HIDE DEF cases
<1>9. (\A ref \in cases : Of(r, R!RefSite(site, ref)).ok) => Of(r, site).ok
  BY <1>1, <1>4, <1>7, <1>8
<1> QED
  BY <1>1, <1>3, <1>6, <1>9 DEF cases

\* The value of a selection of one case.
LEMMA OneCaseIsRight ==
  ASSUME NEW r, NEW f, NEW inv, AtLive(r, f, inv), Answered, Current(r, f).kind \in SelectionKinds,
         Current(r, f).kind # "one_hot_sel", NEW ref,
         R!Selected(Current(r, f), f.values[Current(r, f).refs[1]].n).cases = {ref},
         NEW given, Holds(r, f, inv, given, ref, Current(r, f).width),
         NEW value \in Words(Current(r, f).width), value.n = given.n
  PROVE  Right(r, value, Current(r, f).width, Here(f, inv))
<1> DEFINE nd == Current(r, f)
           q == asRequest(r)
           out == OutcomesOf(r)
           site == Here(f, inv)
           cases == R!Selected(nd, f.values[nd.refs[1]].n).cases
<1>1. /\ Of(r, site).value = R!SelectionValue(q, out, site)
      /\ R!NodeAt(q, site) = nd
      /\ R!Resolution(q, out, site).cases = {ref}
      /\ (\A j \in {ref} : Of(r, R!RefSite(site, j)).ok) => Of(r, site).ok
  BY SelectionOutcome
<1>2. R!SelectionValue(q, out, site) = Of(r, R!RefSite(site, ref)).value
  <2>1. (CHOOSE j \in {ref} : TRUE) = ref
    OBVIOUS
  <2> QED
    BY <1>1, <2>1 DEF R!SelectionValue, R!ValueOf, Of
<1> QED
  BY <1>1, <1>2 DEF Right, Holds

\* A `sel`, a `priority_sel` and a `one_hot_sel` have the value that Reference gives them.
LEMMA SelIsRight ==
  ASSUME NEW r, NEW f, NEW inv, AtLive(r, f, inv), Answered, Current(r, f).kind = "sel"
  PROVE  LET nd == Current(r, f) IN
         Right(r, EvaluateSel(f.values[nd.refs[1]], CasesOf(f, nd), DefaultOf(f, nd)), nd.width,
               Here(f, inv))
<1> DEFINE nd == Current(r, f)
           selector == f.values[nd.refs[1]]
           m == selector.n
           cs == CasesOf(f, nd)
           ds == DefaultOf(f, nd)
           n == Len(nd.cases)
           value == EvaluateSel(selector, cs, ds)
<1>1. nd.kind \in SelectionKinds /\ nd.kind # "one_hot_sel"
  BY DEF SelectionKinds
<1>2. /\ nd.width \in Nat
      /\ \E sw \in Nat : selector \in Words(sw)
      /\ IsList(cs) /\ Len(cs) = n /\ n \in Nat /\ n # 0
      /\ \A i \in 1..n : Holds(r, f, inv, cs[i], nd.cases[i], nd.width)
      /\ IF nd.default = 0 THEN ds = <<>>
         ELSE ds = <<ds[1]>> /\ ds # <<>> /\ Holds(r, f, inv, ds[1], nd.default, nd.width)
  BY <1>1, SelectionOperands DEF Holds
<1>3. m \in Nat
  BY <1>2, WordFacts
<1>4. R!Selected(nd, m) = R!NumberedCase(nd, m)
  BY DEF R!Selected
<1> HIDE DEF selector, cs, ds, n, m
<1>5. /\ \A i \in 1..n : cs[i] \in Words(nd.width)
      /\ cs # <<>>
      /\ ds = <<>> \/ (ds = <<ds[1]>> /\ ds[1] \in Words(nd.width))
  BY <1>2, EmptyList DEF Holds
<1>6. /\ value \in Words(nd.width)
      /\ value.n = IF m < n THEN cs[m + 1].n ELSE IF ds = <<>> THEN cs[n].n ELSE ds[1].n
  BY <1>2, <1>5, SelMeans DEF m
<1> HIDE DEF value
<1> DEFINE ref == IF m < n THEN nd.cases[m + 1] ELSE IF nd.default = 0 THEN nd.cases[n] ELSE nd.default
           given == IF m < n THEN cs[m + 1] ELSE IF ds = <<>> THEN cs[n] ELSE ds[1]
<1>7. R!NumberedCase(nd, m).cases = {ref}
  BY DEF R!NumberedCase, R!Taking, n
<1>8. Holds(r, f, inv, given, ref, nd.width) /\ value.n = given.n
  <2>1. CASE m < n
    <3>1. m + 1 \in 1..n
      BY <1>2, <1>3, <2>1
    <3> QED
      BY <1>2, <1>6, <2>1, <3>1
  <2>2. CASE ~(m < n) /\ nd.default = 0
    <3>1. n \in 1..n
      BY <1>2
    <3> QED
      BY <1>2, <1>6, <2>2, <3>1
  <2>3. CASE ~(m < n) /\ nd.default # 0
    BY <1>2, <1>6, <2>3
  <2> QED
    BY <2>1, <2>2, <2>3
<1> HIDE DEF ref, given
<1>9. R!Selected(nd, f.values[nd.refs[1]].n).cases = {ref}
  BY <1>4, <1>7 DEF m, selector
<1>10. Right(r, value, nd.width, Here(f, inv))
  BY <1>1, <1>6, <1>8, <1>9, OneCaseIsRight
<1> QED
  BY <1>10 DEF value, selector, cs, ds

LEMMA PriorityIsRight ==
  ASSUME NEW r, NEW f, NEW inv, AtLive(r, f, inv), Answered, Current(r, f).kind = "priority_sel"
  PROVE  LET nd == Current(r, f) IN
         Right(r, FirstSetCase(SelectBits, f.values[nd.refs[1]], CasesOf(f, nd), DefaultOf(f, nd)[1]),
               nd.width, Here(f, inv))
<1> DEFINE nd == Current(r, f)
           selector == f.values[nd.refs[1]]
           m == selector.n
           cs == CasesOf(f, nd)
           d == DefaultOf(f, nd)[1]
           n == Len(nd.cases)
           value == FirstSetCase(SelectBits, selector, cs, d)
           set == SetBits(m, n)
<1>1. nd.kind \in SelectionKinds /\ nd.kind # "one_hot_sel"
  BY DEF SelectionKinds
<1>2. /\ nd.width \in Nat
      /\ \E sw \in Nat : selector \in Words(sw)
      /\ IsList(cs) /\ Len(cs) = n /\ n \in Nat
      /\ \A i \in 1..n : Holds(r, f, inv, cs[i], nd.cases[i], nd.width)
      /\ Holds(r, f, inv, d, nd.default, nd.width)
  BY <1>1, SelectionOperands DEF Holds
<1>3. R!Selected(nd, m) = R!FirstCase(nd, m)
  BY DEF R!Selected
<1>4. R!SetCases(nd, m) = set
  BY SameNumbers DEF R!SetCases, SetBits
<1> HIDE DEF selector, cs, d, n, m
<1>5. d \in Words(nd.width) /\ \A i \in 1..n : cs[i] \in Words(nd.width)
  BY <1>2 DEF Holds
<1>6. /\ value \in Words(nd.width)
      /\ set = {} => value.n = d.n
      /\ \A i \in set : (\A j \in set : i <= j) => value.n = cs[i].n
  BY <1>2, <1>5, PriorityMeans DEF m
<1> HIDE DEF value
<1>7. set \subseteq 1..n
  BY DEF SetBits
<1> HIDE DEF set
<1>8. \E ref, given : /\ R!FirstCase(nd, m).cases = {ref}
                      /\ Holds(r, f, inv, given, ref, nd.width) /\ value.n = given.n
  <2>1. CASE set = {}
    <3>1. R!FirstCase(nd, m).cases = {nd.default}
      BY <1>4, <2>1 DEF R!FirstCase, R!Taking
    <3> QED
      BY <1>2, <1>6, <2>1, <3>1
  <2>2. CASE set # {}
    <3>1. \E x \in set : \A y \in set : x <= y
      <4>1. set \subseteq Nat
        BY <1>2, <1>7
      <4> QED
        BY <2>2, <4>1, LeastExists
    <3> DEFINE first == R!Min(set)
    <3>2. first \in set /\ \A y \in set : first <= y
      BY <3>1 DEF R!Min
    <3>3. R!FirstCase(nd, m).cases = {nd.cases[first]}
      BY <1>4, <2>2 DEF R!FirstCase, R!Taking
    <3> HIDE DEF first
    <3>4. Holds(r, f, inv, cs[first], nd.cases[first], nd.width) /\ value.n = cs[first].n
      BY <1>2, <1>6, <1>7, <3>2
    <3> QED
      BY <3>3, <3>4
  <2> QED
    BY <2>1, <2>2
<1>9. \E ref, given : /\ R!Selected(nd, f.values[nd.refs[1]].n).cases = {ref}
                      /\ Holds(r, f, inv, given, ref, nd.width) /\ value.n = given.n
  BY <1>3, <1>8 DEF m, selector
<1>10. Right(r, value, nd.width, Here(f, inv))
  BY <1>1, <1>6, <1>9, OneCaseIsRight
<1> QED
  BY <1>10 DEF value, selector, cs, d

LEMMA OneHotIsRight ==
  ASSUME NEW r, NEW f, NEW inv, AtLive(r, f, inv), Answered, Current(r, f).kind = "one_hot_sel"
  PROVE  LET nd == Current(r, f) IN
         Right(r, EverySetCase(SelectBits, OrBits, f.values[nd.refs[1]], CasesOf(f, nd),
                               Const(nd.width, 0)),
               nd.width, Here(f, inv))
<1> DEFINE nd == Current(r, f)
           q == asRequest(r)
           out == OutcomesOf(r)
           site == Here(f, inv)
           w == nd.width
           selector == f.values[nd.refs[1]]
           m == selector.n
           cs == CasesOf(f, nd)
           n == Len(nd.cases)
           value == EverySetCase(SelectBits, OrBits, selector, cs, Const(w, 0))
           set == SetBits(m, n)
           cases == {nd.cases[k] : k \in set}
           numbers == {Of(r, R!RefSite(site, ref)).value : ref \in cases}
<1>1. nd.kind \in SelectionKinds
  BY DEF SelectionKinds
<1>2. /\ w \in Nat
      /\ \E sw \in Nat : selector \in Words(sw)
      /\ IsList(cs) /\ Len(cs) = n /\ n \in Nat
      /\ \A i \in 1..n : Holds(r, f, inv, cs[i], nd.cases[i], w)
  BY <1>1, SelectionOperands DEF Holds
<1>3. R!Selected(nd, m).cases = cases
  <2>1. R!Selected(nd, m) = R!AllSetCases(nd, m)
    BY DEF R!Selected
  <2>2. R!SetCases(nd, m) = set
    BY SameNumbers DEF R!SetCases, SetBits
  <2> QED
    BY <2>1, <2>2 DEF R!AllSetCases, R!Taking
<1>4. /\ Of(r, site).value = R!SelectionValue(q, out, site)
      /\ R!NodeAt(q, site) = nd
      /\ R!Resolution(q, out, site).cases = cases
      /\ (\A ref \in cases : Of(r, R!RefSite(site, ref)).ok) => Of(r, site).ok
  BY <1>1, <1>3, SelectionOutcome
<1>5. set \subseteq 1..n
  BY DEF SetBits
<1> HIDE DEF selector, cs, n, m
<1>6. \A i \in 1..n : cs[i] \in Words(w)
  BY <1>2 DEF Holds
<1>7. /\ value \in Words(w)
      /\ \A i \in Nat : Bit(value.n, i) = 1 <=> \E j \in set : Bit(cs[j].n, i) = 1
  <2>1. PICK sw \in Nat : selector \in Words(sw)
    BY <1>2
  <2>2. /\ EverySetCase(SelectBits, OrBits, selector, cs, Const(w, 0)) \in Words(w)
        /\ \A i \in Nat : Bit(EverySetCase(SelectBits, OrBits, selector, cs, Const(w, 0)).n, i) = 1 <=>
             \E j \in SetBits(selector.n, Len(cs)) : Bit(cs[j].n, i) = 1
    <3> HIDE DEF w
    <3>1. \A i \in 1..Len(cs) : cs[i] \in Words(w)
      BY <1>2, <1>6
    <3>2. w \in Nat /\ IsList(cs)
      BY <1>2
    <3> QED
      BY <2>1, <3>1, <3>2, OneHotMeans
  <2> QED
    BY <1>2, <2>2 DEF m
<1> HIDE DEF value, set
<1>8. \A k \in set : /\ Of(r, R!RefSite(site, nd.cases[k])).value = cs[k].n
                     /\ Of(r, R!RefSite(site, nd.cases[k])).ok
  BY <1>2, <1>5 DEF Holds
<1>9. Of(r, site).ok
  <2>1. \A ref \in cases : Of(r, R!RefSite(site, ref)).ok
    BY <1>8
  <2> HIDE DEF cases
  <2> QED
    BY <1>4, <2>1
<1>10. Of(r, site).value = R!OrOf(w, numbers)
  BY <1>4 DEF R!SelectionValue, R!ValueOf, Of
<1>11. R!OrOf(w, numbers) = value.n
  <2> DEFINE S == {i \in 0..(w - 1) : \E a \in numbers : Bit(a, i) = 1}
  <2>1. R!OrOf(w, numbers) = FromBits(S)
    BY SameNumbers DEF R!OrOf
  <2>2. \A i : (\E a \in numbers : Bit(a, i) = 1) <=> \E j \in set : Bit(cs[j].n, i) = 1
    BY <1>8
  <2> HIDE DEF numbers
  <2>3. value.n \in Nat /\ value.n < 2^w
    BY <1>2, <1>7, WordFacts
  <2>4. S \subseteq Nat /\ \A i \in Nat : i \in S <=> i < w /\ Bit(value.n, i) = 1
    BY <1>2, <1>7, <2>2
  <2> HIDE DEF S
  <2>5. FromBits(S) = value.n
    BY <1>2, <2>3, <2>4, NumberOfBits
  <2> QED
    BY <2>1, <2>5
<1>12. Right(r, value, w, site)
  BY <1>7, <1>9, <1>10, <1>11 DEF Right
<1> QED
  BY <1>12 DEF value, selector, cs

\* Merging the cases of a selection gives what Reference makes of it.
LEMMA SelectionIsRight ==
  ASSUME NEW r, NEW f, NEW inv, AtLive(r, f, inv), Answered, Current(r, f).kind \in SelectionKinds
  PROVE  LET nd == Current(r, f) IN
         Right(r, Merged(nd, f.values[nd.refs[1]], CasesOf(f, nd), DefaultOf(f, nd)), nd.width,
               Here(f, inv))
<1> DEFINE nd == Current(r, f)
<1>1. CASE nd.kind = "sel"
  BY <1>1, SelIsRight DEF Merged
<1>2. CASE nd.kind = "priority_sel"
  BY <1>2, PriorityIsRight DEF Merged
<1>3. CASE nd.kind = "one_hot_sel"
  BY <1>3, OneHotIsRight DEF Merged
<1> QED
  BY <1>1, <1>2, <1>3 DEF SelectionKinds

-----------------------------------------------------------------------------
(***************************************************************************)
(* Calls and loops.  A new activation has the context of its caller and    *)
(* one entry more, and the arguments that Reference says its call passes.  *)
(***************************************************************************)
\* A live activation that makes a call: it is about to, or has and waits for it.
Calling(r, f, inv) == AtLive(r, f, inv) /\ Waits(r, f, Current(r, f).callee)

Within(r, f, inv) == Append(inv, KeyOf(r, f))

LEMMA KeyIs ==
  ASSUME NEW r, NEW f, NEW inv, Calling(r, f, inv)
  PROVE  LET q   == asRequest(r)
             nd  == Current(r, f)
             key == KeyOf(r, f)
         IN  /\ nd.kind \in {"invoke", "counted_for"}
             /\ key[2] = f.fn /\ key[3] = Len(f.values) + 1
             /\ R!IsKey(q, key) /\ R!CalleeOf(q, key) = nd.callee
             /\ nd.kind = "invoke" => key = R!InvokeKey(f.fn, Len(f.values) + 1) /\ key[1] = "Invoke"
             /\ nd.kind = "counted_for" =>
                  /\ key = R!IterationKey(f.fn, Len(f.values) + 1, f.loop[1])
                  /\ key[1] # "Invoke" /\ key[4] = f.loop[1]
                  /\ f.loop[1] \in Nat /\ f.loop[1] + 1 \in 0..nd.trip
<1> DEFINE q == asRequest(r)
           nd == Current(r, f)
           k == Len(f.values) + 1
           fn == f.fn
           key == KeyOf(r, f)
           j == f.loop[1]
<1>1. /\ fn \in DOMAIN r.fns /\ k \in 1..Len(r.fns[fn].nodes) /\ nd = r.fns[fn].nodes[k]
      /\ WellFormedNode(r.fns, fn, k) /\ LoopRight(r, f, inv)
  BY LiveNode DEF Calling, AtLive, FrameRight
<1>2. q.fns = r.fns
  BY DEF asRequest
<1>3. nd.kind = "invoke" \/ nd.kind = "counted_for"
  BY DEF Calling, Waits
<1>4. CASE nd.kind = "invoke"
  <2>1. key = <<"Invoke", fn, k, 0>>
    BY <1>4 DEF KeyOf, R!InvokeKey
  <2> HIDE DEF key, k, fn, j
  <2>2. key[1] = "Invoke" /\ key[2] = fn /\ key[3] = k
    BY <2>1
  <2> HIDE DEF nd
  <2>3. R!IsKey(q, key) /\ R!CalleeOf(q, key) = nd.callee /\ key = R!InvokeKey(fn, k)
    BY <1>1, <1>2, <1>4, <2>1, <2>2 DEF R!IsKey, R!InvokeKey, R!CalleeOf
  <2> QED
    BY <1>4, <2>2, <2>3 DEF key, k, fn, nd
<1>5. CASE nd.kind = "counted_for"
  <2>1. key = <<"CountedFor", fn, k, j>>
    BY <1>5 DEF KeyOf, R!IterationKey
  <2>2. nd.trip \in Nat
    BY <1>1, <1>5 DEF WellFormedNode
  <2>3. j \in 0..nd.trip /\ j < nd.trip
    BY <1>1, <1>5 DEF Calling, Waits, LoopRight
  <2>4. j \in Nat /\ j + 1 \in 0..nd.trip /\ j \in 0..(nd.trip - 1)
    BY <2>2, <2>3
  <2> HIDE DEF key, k, fn, j
  <2>5. key[1] = "CountedFor" /\ key[2] = fn /\ key[3] = k /\ key[4] = j /\ key[1] # "Invoke"
    BY <2>1
  <2> HIDE DEF nd
  <2>6. key = R!IterationKey(fn, k, j) /\ R!CalleeOf(q, key) = nd.callee
    BY <1>1, <1>2, <2>1, <2>5 DEF R!IterationKey, R!CalleeOf
  <2>7. R!IsKey(q, key)
    BY <1>1, <1>2, <1>5, <2>4, <2>5, <2>6 DEF R!IsKey
  <2> QED
    BY <1>5, <2>4, <2>5, <2>6, <2>7 DEF key, k, fn, nd, j
<1> QED
  BY <1>3, <1>4, <1>5

LEMMA ContextWithin ==
  ASSUME NEW r, NEW f, NEW inv, Calling(r, f, inv)
  PROVE  LET q      == asRequest(r)
             within == Within(r, f, inv)
             callee == Current(r, f).callee
         IN  /\ R!IsContext(q, within) /\ IsList(within)
             /\ callee \in DOMAIN r.fns /\ callee = R!FunctionIn(q, within)
             /\ r.fns[callee].nodes[r.fns[callee].ret].width = Current(r, f).width
             /\ \A i : R!Passed(q, 1, OutcomesOf(r), within, i)
                         = R!PassedBy(q, OutcomesOf(r), Here(f, inv), KeyOf(r, f), i)
             /\ R!CalledSite(q, Here(f, inv), KeyOf(r, f)) = <<callee, r.fns[callee].ret, within>>
<1> DEFINE q == asRequest(r)
           within == Within(r, f, inv)
           n == Len(inv)
           key == KeyOf(r, f)
           callee == Current(r, f).callee
           out == OutcomesOf(r)
<1>1. /\ R!IsContext(q, inv) /\ IsList(inv) /\ f.fn = R!FunctionIn(q, inv)
      /\ WellFormedNode(r.fns, f.fn, Len(f.values) + 1)
      /\ Current(r, f) = r.fns[f.fn].nodes[Len(f.values) + 1]
  BY LiveNode DEF Calling, AtLive, FrameRight
<1>2. /\ key[2] = f.fn /\ key[3] = Len(f.values) + 1 /\ R!IsKey(q, key)
      /\ R!CalleeOf(q, key) = callee /\ Current(r, f).kind \in {"invoke", "counted_for"}
  BY KeyIs
<1>3. callee \in DOMAIN r.fns /\ r.fns[callee].nodes[r.fns[callee].ret].width = Current(r, f).width
  BY <1>1, <1>2 DEF WellFormedNode
<1> HIDE DEF key, callee
<1>4. within = Append(inv, key)
  BY DEF Within, key
<1> HIDE DEF within
<1>5. /\ IsList(within) /\ Len(within) = n + 1 /\ within # <<>> /\ within[n + 1] = key
      /\ \A i \in 1..n : within[i] = inv[i]
      /\ SubSeq(within, 1, n) = inv /\ n \in Nat
  BY <1>1, <1>4, ListExtended, ListElements
<1>6. inv = <<>> <=> n = 0
  BY <1>1, EmptyList
<1>7. R!IsContext(q, within)
  <2> SUFFICES ASSUME NEW i \in 1..(n + 1)
               PROVE  /\ R!IsKey(q, within[i])
                      /\ within[i][2] = IF i = 1 THEN q.top ELSE R!CalleeOf(q, within[i - 1])
    BY <1>5 DEF R!IsContext
  <2>1. CASE i \in 1..n
    <3>1. i # 1 => i - 1 \in 1..n
      BY <1>5, <2>1
    <3> QED
      BY <1>1, <1>5, <2>1, <3>1 DEF R!IsContext
  <2>2. CASE i = n + 1
    <3>1. n = 0 => R!FunctionIn(q, inv) = q.top
      BY <1>6 DEF R!FunctionIn
    <3>2. n # 0 => R!FunctionIn(q, inv) = R!CalleeOf(q, inv[n]) /\ n \in 1..n /\ i - 1 = n /\ i # 1
      BY <1>5, <1>6, <2>2 DEF R!FunctionIn
    <3> QED
      BY <1>1, <1>2, <1>5, <2>2, <3>1, <3>2
  <2> QED
    BY <2>1, <2>2
<1>8. (n + 1) - 1 = n
  BY <1>5
<1>9. callee = R!FunctionIn(q, within)
  BY <1>2, <1>5 DEF R!FunctionIn
<1>10. \A i : R!Passed(q, 1, out, within, i) = R!PassedBy(q, out, Here(f, inv), key, i)
  <2>1. Here(f, inv) = <<key[2], key[3], SubSeq(within, 1, Len(within) - 1)>>
    BY <1>2, <1>5, <1>8 DEF Here
  <2> QED
    BY <1>5, <2>1 DEF R!Passed
<1>11. R!CalledSite(q, Here(f, inv), key) = <<callee, r.fns[callee].ret, within>>
  BY <1>1, <1>4 DEF R!CalledSite, R!NodeAt, Here, asRequest, callee
<1> QED
  BY <1>3, <1>5, <1>7, <1>9, <1>10, <1>11 DEF within, key, callee

\* An activation that has just been entered.
LEMMA EnteredIsRight ==
  ASSUME NEW r, NEW f, NEW inv, Calling(r, f, inv), NEW args,
         Len(args) = Len(r.fns[Current(r, f).callee].params),
         \A i \in 1..Len(args) :
           /\ args[i] \in Words(r.fns[Current(r, f).callee].params[i])
           /\ args[i].n = R!PassedBy(asRequest(r), OutcomesOf(r), Here(f, inv), KeyOf(r, f), i)
  PROVE  /\ FrameRight(r, Activation(Current(r, f).callee, args), Within(r, f, inv))
         /\ Activation(Current(r, f).callee, args).fn = Current(r, f).callee
<1> DEFINE callee == Current(r, f).callee
           g == Activation(callee, args)
           within == Within(r, f, inv)
<1>1. /\ g = [fn |-> g.fn, args |-> g.args, values |-> g.values, loop |-> g.loop]
      /\ g.fn = callee /\ g.args = args /\ g.values = <<>> /\ g.loop = <<>>
  BY DEF Activation
<1>2. /\ R!IsContext(asRequest(r), within) /\ IsList(within)
      /\ callee \in DOMAIN r.fns /\ callee = R!FunctionIn(asRequest(r), within)
      /\ \A i : R!Passed(asRequest(r), 1, OutcomesOf(r), within, i)
                  = R!PassedBy(asRequest(r), OutcomesOf(r), Here(f, inv), KeyOf(r, f), i)
  BY ContextWithin
<1>3. r \in Requests /\ Len(r.fns[callee].nodes) \in Nat
  BY <1>2, RequestFacts DEF Calling, AtLive, IsFunction
<1> HIDE DEF callee, g, within
<1>4. ArgumentsRight(r, g, within)
  BY <1>1, <1>2 DEF ArgumentsRight, callee
<1>5. ValuesRight(r, g, within)
  <2>1. IsList(g.values) /\ Len(g.values) = 0
    BY <1>1, EmptyList
  <2> QED
    BY <1>1, <1>3, <2>1 DEF ValuesRight
<1>6. LoopRight(r, g, within)
  BY <1>1 DEF LoopRight
<1> QED
  BY <1>1, <1>2, <1>4, <1>5, <1>6 DEF FrameRight, g, callee, within

\* What the operands of a call, and of a loop, are.
LEMMA OperandsList ==
  ASSUME NEW r, NEW f, NEW inv, AtLive(r, f, inv)
  PROVE  LET nd  == Current(r, f)
             ops == OperandsOf(f, nd.refs)
         IN  /\ IsList(ops) /\ Len(ops) = Len(nd.refs) /\ Len(nd.refs) \in Nat
             /\ \A i \in 1..Len(nd.refs) :
                  Holds(r, f, inv, ops[i], nd.refs[i], r.fns[f.fn].nodes[nd.refs[i]].width)
<1> DEFINE nd == Current(r, f)
           ops == OperandsOf(f, nd.refs)
<1>1. /\ IsList(nd.refs) /\ Len(nd.refs) \in Nat
      /\ \A i \in 1..Len(nd.refs) :
           Right(r, f.values[nd.refs[i]], r.fns[f.fn].nodes[nd.refs[i]].width,
                 R!RefSite(Here(f, inv), nd.refs[i]))
  BY OperandsAreRight
<1>2. ops = [i \in 1..Len(nd.refs) |-> ops[i]] /\ \A i \in 1..Len(nd.refs) : ops[i] = f.values[nd.refs[i]]
  BY DEF OperandsOf
<1> HIDE DEF ops
<1>3. IsList(ops) /\ Len(ops) = Len(nd.refs)
  BY <1>1, <1>2, MakeList
<1>4. \A i \in 1..Len(nd.refs) :
        Holds(r, f, inv, ops[i], nd.refs[i], r.fns[f.fn].nodes[nd.refs[i]].width)
  BY <1>1, <1>2 DEF Right, Holds
<1> QED
  BY <1>1, <1>3, <1>4 DEF ops

\* A callee is given the operands of the call.
LEMMA CalleeIsRight ==
  ASSUME NEW r, NEW f, NEW inv, Calling(r, f, inv), Current(r, f).kind = "invoke"
  PROVE  LET nd == Current(r, f)
             g  == Activation(nd.callee, OperandsOf(f, nd.refs))
         IN  FrameRight(r, g, Within(r, f, inv)) /\ g.fn = nd.callee
<1> DEFINE nd == Current(r, f)
           nodes == r.fns[f.fn].nodes
           q == asRequest(r)
           out == OutcomesOf(r)
           site == Here(f, inv)
           key == KeyOf(r, f)
           ops == OperandsOf(f, nd.refs)
           params == r.fns[nd.callee].params
<1>1. AtLive(r, f, inv)
  BY DEF Calling
<1>2. WellFormedNode(r.fns, f.fn, Len(f.values) + 1) /\ nd = nodes[Len(f.values) + 1]
  BY <1>1, LiveNode
<1>3. Len(nd.refs) = Len(params) /\ \A i \in 1..Len(nd.refs) : nodes[nd.refs[i]].width = params[i]
  BY <1>2 DEF WellFormedNode, HaveWidths
<1>4. /\ IsList(ops) /\ Len(ops) = Len(nd.refs) /\ Len(nd.refs) \in Nat
      /\ \A i \in 1..Len(nd.refs) : Holds(r, f, inv, ops[i], nd.refs[i], nodes[nd.refs[i]].width)
  BY <1>1, OperandsList
<1>5. key[1] = "Invoke"
  BY KeyIs
<1>6. R!NodeAt(q, site) = nd
  BY <1>2 DEF R!NodeAt, Here, asRequest
<1>7. \A i : R!PassedBy(q, out, site, key, i) = Of(r, R!RefSite(site, nd.refs[i])).value
  BY <1>5, <1>6 DEF R!PassedBy, R!ValueOf, Of
<1> HIDE DEF ops
<1>8. \A i \in 1..Len(ops) : /\ ops[i] \in Words(params[i])
                             /\ ops[i].n = R!PassedBy(q, out, site, key, i)
  BY <1>3, <1>4, <1>7 DEF Holds
<1>9. Len(ops) = Len(params)
  BY <1>3, <1>4
<1>10. FrameRight(r, Activation(nd.callee, ops), Within(r, f, inv)) /\ Activation(nd.callee, ops).fn = nd.callee
  BY <1>8, <1>9, EnteredIsRight
<1> QED
  BY <1>10 DEF ops

\* The induction value of an iteration, where it fits its parameter.
InductionOf(w, i) == IF w = 0 THEN NoBits ELSE Const(w, i)

LEMMA InductionIsRight ==
  ASSUME NEW w \in Nat, NEW i \in Nat, ~(w > 0 /\ i >= 2^w)
  PROVE  InductionOf(w, i) \in Words(w) /\ InductionOf(w, i).n = R!LowBits(i, w)
<1>1. CASE w = 0
  <2>1. InductionOf(w, i) = NoBits
    BY <1>1 DEF InductionOf
  <2>2. 2^0 = 1 /\ i % 1 = 0
    OBVIOUS
  <2> QED
    BY <1>1, <2>1, <2>2, NoBitsIsWord DEF R!LowBits
<1>2. CASE w # 0
  <2> DEFINE p == 2^w
  <2>1. p \in Nat \ {0} /\ i < p
    BY <1>2, PowerIsPositive
  <2>2. InductionOf(w, i) = Term(w, i, TRUE)
    BY <1>2 DEF InductionOf, Const
  <2>3. InductionOf(w, i) \in Words(w) /\ InductionOf(w, i).n = i
    BY <2>1, <2>2, TermIsWord
  <2> HIDE DEF p
  <2>4. i % p = i
    <3>1. i = p * 0 + i /\ i \in 0..(p - 1) /\ 0 \in Nat
      BY <2>1
    <3> QED
      BY <2>1, <3>1, DivisionIsUnique
  <2> QED
    BY <2>3, <2>4 DEF R!LowBits, p
<1> QED
  BY <1>1, <1>2

\* A loop body is given the induction value, what the loop carries and the invariants.
LEMMA IterationIsRight ==
  ASSUME NEW r, NEW f, NEW inv, Calling(r, f, inv), Current(r, f).kind = "counted_for",
         LET w == r.fns[Current(r, f).callee].params[1]
         IN  ~(w > 0 /\ f.loop[1] * Current(r, f).stride >= 2^w)
  PROVE  LET nd   == Current(r, f)
             w    == r.fns[nd.callee].params[1]
             args == <<InductionOf(w, f.loop[1] * nd.stride), f.loop[2]>>
                       \o Tail(OperandsOf(f, nd.refs))
             g    == Activation(nd.callee, args)
         IN  FrameRight(r, g, Within(r, f, inv)) /\ g.fn = nd.callee
<1> DEFINE nd == Current(r, f)
           nodes == r.fns[f.fn].nodes
           q == asRequest(r)
           out == OutcomesOf(r)
           site == Here(f, inv)
           key == KeyOf(r, f)
           j == f.loop[1]
           x == f.loop[2]
           ops == OperandsOf(f, nd.refs)
           params == r.fns[nd.callee].params
           w == params[1]
           v == InductionOf(w, j * nd.stride)
           args == <<v, x>> \o Tail(ops)
           m == Len(nd.refs)
<1>1. AtLive(r, f, inv) /\ f.loop # <<>> /\ LoopRight(r, f, inv) /\ r \in Requests
  BY DEF Calling, Waits, AtLive, FrameRight
<1>2. WellFormedNode(r.fns, f.fn, Len(f.values) + 1) /\ nd = nodes[Len(f.values) + 1]
  BY <1>1, LiveNode
<1>3. /\ nd.stride \in Nat /\ nd.refs # <<>> /\ params # <<>> /\ nodes[nd.refs[1]].width = nd.width
      /\ m = Len(Tail(params)) /\ \A i \in 1..m : nodes[nd.refs[i]].width = Tail(params)[i]
      /\ nd.callee \in DOMAIN r.fns
  BY <1>2 DEF WellFormedNode, HaveWidths
<1>4. /\ IsList(ops) /\ Len(ops) = m /\ m \in Nat
      /\ \A i \in 1..m : Holds(r, f, inv, ops[i], nd.refs[i], nodes[nd.refs[i]].width)
  BY <1>1, OperandsList
<1>5. /\ params \in Seq(Nat) /\ IsList(params) /\ Len(params) \in Nat
      /\ \A i \in 1..Len(params) : params[i] \in Nat
  BY <1>1, <1>3, RequestFacts, SeqIsList, ListElements
<1>6. /\ Len(params) = m + 1 /\ \A i \in 1..m : Tail(params)[i] = params[i + 1]
      /\ 1 \in 1..Len(params) /\ w \in Nat
  <2>1. params # <<>> /\ m = Len(Tail(params))
    BY <1>3
  <2> HIDE DEF params, m
  <2>2. IsList(params) /\ params # <<>>
    BY <1>5, <2>1
  <2>3. /\ Len(Tail(params)) = Len(params) - 1
        /\ \A i \in 1..(Len(params) - 1) : Tail(params)[i] = params[i + 1]
        /\ 1 \in 1..Len(params)
    BY <2>2, TailOfList, HeadOfList
  <2>4. Len(params) = m + 1 /\ Len(params) - 1 = m
    BY <1>5, <2>1, <2>3
  <2> QED
    BY <1>5, <2>3, <2>4
<1>7. m # 0 /\ 1 \in 1..m
  <2> DEFINE refs == nd.refs
  <2>1. IsList(refs) /\ refs # <<>> /\ m = Len(refs)
    BY <1>1, <1>3, OperandsAreRight
  <2> HIDE DEF refs, m
  <2>2. m # 0
    BY <2>1, EmptyList
  <2>3. m \in Nat
    BY <1>4 DEF m
  <2> QED
    BY <2>2, <2>3
<1>8. key[1] # "Invoke" /\ key[4] = j /\ j \in Nat
  BY KeyIs
<1>9. R!NodeAt(q, site) = nd /\ q.fns = r.fns
  BY <1>2 DEF R!NodeAt, Here, asRequest
<1>10. \A i : R!PassedBy(q, out, site, key, i) =
               CASE i = 1 -> R!LowBits(j * nd.stride, w)
                 [] i = 2 -> IF j = 0 THEN Of(r, R!RefSite(site, nd.refs[1])).value
                             ELSE Of(r, IterationOf(r, f, inv, j - 1)).value
                 [] OTHER -> Of(r, R!RefSite(site, nd.refs[i - 1])).value
  BY <1>8, <1>9 DEF R!PassedBy, R!ValueOf, Of, IterationOf
<1>11. v \in Words(w) /\ v.n = R!LowBits(j * nd.stride, w)
  <2>1. j * nd.stride \in Nat
    <3> DEFINE s == nd.stride
    <3>1. s \in Nat /\ j \in Nat
      BY <1>3, <1>8
    <3> HIDE DEF s, j
    <3> QED
      BY <3>1 DEF s
  <2> QED
    BY <1>6, <2>1, InductionIsRight
<1>12. /\ x \in Words(nd.width)
       /\ x.n = IF j = 0 THEN Of(r, R!RefSite(site, nd.refs[1])).value
                ELSE Of(r, IterationOf(r, f, inv, j - 1)).value
  BY <1>1 DEF LoopRight, Right
<1>13. /\ IsList(Tail(ops)) /\ Len(Tail(ops)) = m - 1
       /\ \A i \in 1..(m - 1) : Tail(ops)[i] = ops[i + 1]
  <2>1. ops # <<>>
    BY <1>4, <1>7, EmptyList
  <2> QED
    BY <1>4, <2>1, TailOfList
<1> HIDE DEF ops, v, x
<1>14. IsList(<<v, x>>) /\ Len(<<v, x>>) = 2 /\ <<v, x>>[1] = v /\ <<v, x>>[2] = x
  <2>1. <<v, x>> \in Seq({v, x}) /\ Len(<<v, x>>) = 2 /\ <<v, x>>[1] = v /\ <<v, x>>[2] = x
    OBVIOUS
  <2> QED
    BY <2>1, SeqIsList
<1>15. /\ Len(args) = 2 + (m - 1)
       /\ \A i \in 1..2 : args[i] = <<v, x>>[i]
       /\ \A i \in 1..(m - 1) : args[2 + i] = Tail(ops)[i]
  BY <1>13, <1>14, ListsInARow
<1> HIDE DEF args
<1>16. Len(args) = Len(params)
  <2> HIDE DEF m, params
  <2>1. m \in Nat /\ Len(args) = 2 + (m - 1) /\ Len(params) = m + 1
    BY <1>4, <1>6, <1>15
  <2> QED
    BY <2>1
<1>17. ASSUME NEW i \in 1..Len(args)
       PROVE  args[i] \in Words(params[i]) /\ args[i].n = R!PassedBy(q, out, site, key, i)
  <2>1. CASE i = 1
    <3>1. args[i] = v
      <4>1. args[1] = <<v, x>>[1]
        BY <1>15
      <4> QED
        BY <1>14, <2>1, <4>1
    <3> QED
      BY <1>10, <1>11, <2>1, <3>1
  <2>2. CASE i = 2
    <3>1. args[i] = x
      <4>1. args[2] = <<v, x>>[2]
        BY <1>15
      <4> QED
        BY <1>14, <2>2, <4>1
    <3>2. params[2] = nd.width
      <4>1. 1 + 1 = 2
        OBVIOUS
      <4> QED
        BY <1>3, <1>6, <1>7, <4>1
    <3> QED
      BY <1>10, <1>12, <2>2, <3>1, <3>2
  <2>3. CASE i # 1 /\ i # 2
    <3>1. /\ i - 2 \in 1..(m - 1) /\ i = 2 + (i - 2) /\ (i - 2) + 1 = i - 1
          /\ i - 1 \in 1..m /\ (i - 1) + 1 = i
      <4> HIDE DEF m
      <4>1. m \in Nat /\ Len(args) = 2 + (m - 1) /\ i \in 1..Len(args)
        BY <1>4, <1>15
      <4> QED
        BY <2>3, <4>1
    <3>2. args[i] = ops[i - 1]
      <4>1. args[i] = args[2 + (i - 2)]
        BY <3>1
      <4>2. args[2 + (i - 2)] = Tail(ops)[i - 2]
        BY <1>15, <3>1
      <4>3. Tail(ops)[i - 2] = ops[(i - 2) + 1] /\ (i - 2) + 1 = i - 1
        BY <1>13, <3>1
      <4> QED
        BY <4>1, <4>2, <4>3
    <3>3. nodes[nd.refs[i - 1]].width = params[i]
      BY <1>3, <1>6, <3>1
    <3>4. Holds(r, f, inv, ops[i - 1], nd.refs[i - 1], params[i])
      BY <1>4, <3>1, <3>3
    <3> QED
      BY <1>10, <2>3, <3>2, <3>4 DEF Holds
  <2> QED
    BY <2>1, <2>2, <2>3
<1>18. FrameRight(r, Activation(nd.callee, args), Within(r, f, inv)) /\ Activation(nd.callee, args).fn = nd.callee
  BY <1>16, <1>17, EnteredIsRight
<1> QED
  BY <1>18 DEF args, v, x, ops

\* A loop at an iteration.
LoopAt(f, k, value) == [f EXCEPT !.loop = <<k, value>>]

LEMMA LoopAtIsRight ==
  ASSUME NEW r, NEW f, NEW inv, AtLive(r, f, inv), Current(r, f).kind = "counted_for",
         NEW k \in 0..Current(r, f).trip, NEW value,
         Right(r, value, Current(r, f).width,
               IF k = 0 THEN R!RefSite(Here(f, inv), Current(r, f).refs[1])
               ELSE IterationOf(r, f, inv, k - 1)),
         \A j \in 0..(k - 1) : /\ j * Current(r, f).stride <= MaxUsize
                               /\ Of(r, IterationOf(r, f, inv, j)).ok
  PROVE  FrameRight(r, LoopAt(f, k, value), inv) /\ LoopAt(f, k, value).fn = f.fn
<1> DEFINE g == LoopAt(f, k, value)
<1>1. /\ f = [fn |-> f.fn, args |-> f.args, values |-> f.values, loop |-> f.loop]
      /\ R!IsContext(asRequest(r), inv) /\ IsList(inv)
      /\ f.fn = R!FunctionIn(asRequest(r), inv) /\ f.fn \in DOMAIN r.fns
      /\ ArgumentsRight(r, f, inv) /\ ValuesRight(r, f, inv) /\ IsAtNode(r, f)
  BY DEF AtLive, FrameRight
<1>2. /\ g = [fn |-> g.fn, args |-> g.args, values |-> g.values, loop |-> g.loop]
      /\ g.fn = f.fn /\ g.args = f.args /\ g.values = f.values /\ g.loop = <<k, value>>
  <2> DEFINE l == <<k, value>>
  <2> HIDE DEF l
  <2>1. [f EXCEPT !.loop = l] = [fn |-> f.fn, args |-> f.args, values |-> f.values, loop |-> l]
    BY <1>1
  <2>2. g = [f EXCEPT !.loop = l]
    BY DEF LoopAt, l
  <2>3. g = [fn |-> f.fn, args |-> f.args, values |-> f.values, loop |-> l]
    BY <2>1, <2>2
  <2> HIDE DEF g
  <2>4. /\ g = [fn |-> g.fn, args |-> g.args, values |-> g.values, loop |-> g.loop]
        /\ g.fn = f.fn /\ g.args = f.args /\ g.values = f.values /\ g.loop = l
    BY <2>3
  <2> QED
    BY <2>4 DEF l
<1> HIDE DEF g
<1>3. g.loop[1] = k /\ g.loop[2] = value
  BY <1>2
<1>4. Current(r, g) = Current(r, f) /\ Here(g, inv) = Here(f, inv) /\ IsAtNode(r, g)
  BY <1>1, <1>2 DEF Current, Here, IsAtNode
<1>5. \A j : IterationOf(r, g, inv, j) = IterationOf(r, f, inv, j)
  BY <1>4 DEF IterationOf
<1>6. ArgumentsRight(r, g, inv) /\ ValuesRight(r, g, inv)
  BY <1>1, <1>2 DEF ArgumentsRight, ValuesRight
<1>7. LoopRight(r, g, inv)
  BY <1>2, <1>3, <1>4, <1>5 DEF LoopRight
<1> QED
  BY <1>1, <1>2, <1>6, <1>7 DEF FrameRight, g

\* A loop starts with its first operand.
LEMMA LoopEntered ==
  ASSUME NEW r, NEW f, NEW inv, AtLive(r, f, inv), Current(r, f).kind = "counted_for"
  PROVE  LET g == LoopAt(f, 0, OperandsOf(f, Current(r, f).refs)[1]) IN
         FrameRight(r, g, inv) /\ g.fn = f.fn
<1> DEFINE nd == Current(r, f)
           nodes == r.fns[f.fn].nodes
           x == OperandsOf(f, nd.refs)[1]
           m == Len(nd.refs)
<1>1. WellFormedNode(r.fns, f.fn, Len(f.values) + 1) /\ nd = nodes[Len(f.values) + 1]
  BY LiveNode
<1>2. nd.trip \in Nat /\ nd.refs # <<>> /\ nodes[nd.refs[1]].width = nd.width
  BY <1>1 DEF WellFormedNode
<1>3. /\ IsList(nd.refs) /\ m \in Nat
      /\ \A i \in 1..m : Holds(r, f, inv, OperandsOf(f, nd.refs)[i], nd.refs[i], nodes[nd.refs[i]].width)
  BY OperandsAreRight, OperandsList
<1>4. 1 \in 1..m
  <2> DEFINE refs == nd.refs
  <2>1. IsList(refs) /\ refs # <<>> /\ m = Len(refs)
    BY <1>2, <1>3
  <2> HIDE DEF refs, m
  <2>2. m # 0 /\ m \in Nat
    BY <1>3, <2>1, EmptyList
  <2> QED
    BY <2>2
<1>5. Right(r, x, nd.width, R!RefSite(Here(f, inv), nd.refs[1]))
  BY <1>2, <1>3, <1>4 DEF Holds, Right
<1>6. 0 \in 0..nd.trip /\ ~(\E j \in 0..(0 - 1) : TRUE)
  BY <1>2
<1> HIDE DEF x
<1>7. FrameRight(r, LoopAt(f, 0, x), inv) /\ LoopAt(f, 0, x).fn = f.fn
  BY <1>5, <1>6, LoopAtIsRight
<1> QED
  BY <1>7 DEF x

\* What a callee, or a loop body, that has evaluated its nodes returns.
LEMMA ReturnedIsRight ==
  ASSUME NEW r, NEW f, NEW inv, Calling(r, f, inv), NEW g,
         FrameRight(r, g, Within(r, f, inv)), g.fn = Current(r, f).callee,
         Len(g.values) = Len(r.fns[g.fn].nodes)
  PROVE  Right(r, g.values[r.fns[g.fn].ret], Current(r, f).width,
               R!CalledSite(asRequest(r), Here(f, inv), KeyOf(r, f)))
<1> DEFINE fn == r.fns[g.fn]
           ret == fn.ret
<1>1. g.fn \in DOMAIN r.fns /\ ValuesRight(r, g, Within(r, f, inv)) /\ r \in Requests
  BY DEF FrameRight, Calling, AtLive
<1>2. IsFunction(fn)
  BY <1>1, RequestFacts
<1>3. ret \in Kept(fn) /\ ret \in 1..Len(g.values)
  BY <1>2, KeptIsClosed DEF IsFunction
<1>4. Right(r, g.values[ret], fn.nodes[ret].width, <<g.fn, ret, Within(r, f, inv)>>)
  BY <1>1, <1>3 DEF ValuesRight
<1> QED
  BY <1>4, ContextWithin

\* A call has the value that its callee returned.
LEMMA InvokeIsRight ==
  ASSUME NEW r, NEW f, NEW inv, Calling(r, f, inv), Answered, Current(r, f).kind = "invoke",
         NEW value, Right(r, value, Current(r, f).width,
                          R!CalledSite(asRequest(r), Here(f, inv), KeyOf(r, f)))
  PROVE  Right(r, value, Current(r, f).width, Here(f, inv))
<1> DEFINE nd == Current(r, f)
           q == asRequest(r)
           out == OutcomesOf(r)
           site == Here(f, inv)
           called == R!CalleeSite(q, site)
<1>1. AtLive(r, f, inv)
  BY DEF Calling
<1>2. R!CalledSite(q, site, KeyOf(r, f)) = called
  BY DEF R!CalleeSite, Here, KeyOf
<1>3. /\ R!NodeAt(q, site) = nd
      /\ Of(r, site).value = R!NodeValue(q, 1, out, site)
      /\ R!IsSupported(q, site) /\ (\A s \in R!DemandedSites(q, out, site) : Of(r, s).ok) =>
           Of(r, site).ok
  BY <1>1, LiveOutcome
<1>4. R!NodeValue(q, 1, out, site) = Of(r, called).value
  BY <1>3 DEF R!NodeValue, R!IsSelection, R!ValueOf, Of
<1>5. R!IsSupported(q, site)
  BY <1>3 DEF R!IsSupported
<1>6. R!DemandedSites(q, out, site) = R!OperandSites(q, site) \cup {called}
  BY <1>3 DEF R!DemandedSites, R!CalledSites, R!ChosenCases, R!IsSelection
<1>7. \A s \in R!OperandSites(q, site) : Of(r, s).ok
  BY <1>1, OperandsAreRight
<1> HIDE DEF called
<1> QED
  BY <1>2, <1>3, <1>4, <1>5, <1>6, <1>7 DEF Right

\* A loop goes on with what its body returned.
LEMMA LoopAdvanced ==
  ASSUME NEW r, NEW f, NEW inv, Calling(r, f, inv), Current(r, f).kind = "counted_for",
         NEW value, Right(r, value, Current(r, f).width,
                          R!CalledSite(asRequest(r), Here(f, inv), KeyOf(r, f)))
  PROVE  LET g == LoopAt(f, f.loop[1] + 1, value) IN FrameRight(r, g, inv) /\ g.fn = f.fn
<1> DEFINE nd == Current(r, f)
           k == f.loop[1]
           called == R!CalledSite(asRequest(r), Here(f, inv), KeyOf(r, f))
<1>1. /\ AtLive(r, f, inv) /\ LoopRight(r, f, inv) /\ f.loop # <<>> /\ k * nd.stride <= MaxUsize
  BY DEF Calling, AtLive, FrameRight, Waits
<1>2. /\ KeyOf(r, f) = R!IterationKey(f.fn, Len(f.values) + 1, k)
      /\ k \in Nat /\ k + 1 \in 0..nd.trip
  BY KeyIs
<1>3. called = IterationOf(r, f, inv, k)
  BY <1>2 DEF IterationOf, R!IterationSite, Here
<1> HIDE DEF called
<1>4. Right(r, value, nd.width, called)
  BY DEF called
<1>5. \A j \in 0..(k - 1) : j * nd.stride <= MaxUsize /\ Of(r, IterationOf(r, f, inv, j)).ok
  BY <1>1 DEF LoopRight
<1>6. Of(r, IterationOf(r, f, inv, k)).ok
  BY <1>3, <1>4 DEF Right
<1> HIDE DEF k
<1>7. k + 1 # 0 /\ (k + 1) - 1 = k /\ \A j \in 0..k : j = k \/ j \in 0..(k - 1)
  BY <1>2
<1>8. \A j \in 0..((k + 1) - 1) : j * nd.stride <= MaxUsize /\ Of(r, IterationOf(r, f, inv, j)).ok
  BY <1>1, <1>5, <1>6, <1>7 DEF k
<1>9. Right(r, value, nd.width, IF k + 1 = 0 THEN R!RefSite(Here(f, inv), nd.refs[1])
                                ELSE IterationOf(r, f, inv, (k + 1) - 1))
  BY <1>3, <1>4, <1>7
<1>10. FrameRight(r, LoopAt(f, k + 1, value), inv) /\ LoopAt(f, k + 1, value).fn = f.fn
  BY <1>1, <1>2, <1>8, <1>9, LoopAtIsRight
<1> QED
  BY <1>10 DEF k

\* A loop that has run its iterations has the value that the last of them came to.
LEMMA LoopIsRight ==
  ASSUME NEW r, NEW f, NEW inv, AtLive(r, f, inv), Answered, Current(r, f).kind = "counted_for",
         f.loop # <<>>, f.loop[1] = Current(r, f).trip
  PROVE  Right(r, f.loop[2], Current(r, f).width, Here(f, inv))
<1> DEFINE nd == Current(r, f)
           q == asRequest(r)
           out == OutcomesOf(r)
           site == Here(f, inv)
           n == nd.trip
           last == IF n = 0 THEN R!RefSite(site, nd.refs[1]) ELSE R!IterationSite(q, site, n - 1)
<1>1. /\ Right(r, f.loop[2], nd.width, last)
      /\ \A j \in 0..(n - 1) : j * nd.stride <= MaxUsize /\ Of(r, R!IterationSite(q, site, j)).ok
  BY DEF AtLive, FrameRight, LoopRight, IterationOf
<1>2. /\ R!NodeAt(q, site) = nd
      /\ Of(r, site).value = R!NodeValue(q, 1, out, site)
      /\ R!IsSupported(q, site) /\ (\A s \in R!DemandedSites(q, out, site) : Of(r, s).ok) =>
           Of(r, site).ok
  BY LiveOutcome
<1>3. R!NodeValue(q, 1, out, site) = Of(r, last).value
  BY <1>2 DEF R!NodeValue, R!IsSelection, R!ValueOf, Of
<1>4. R!IsSupported(q, site)
  BY <1>1, <1>2 DEF R!IsSupported
<1>5. R!DemandedSites(q, out, site)
        = R!OperandSites(q, site) \cup {R!IterationSite(q, site, j) : j \in 0..(n - 1)}
  BY <1>2 DEF R!DemandedSites, R!CalledSites, R!ChosenCases, R!IsSelection
<1>6. \A s \in R!OperandSites(q, site) : Of(r, s).ok
  BY OperandsAreRight
<1> HIDE DEF last
<1>7. Of(r, site).ok
  BY <1>1, <1>2, <1>4, <1>5, <1>6
<1> QED
  BY <1>1, <1>2, <1>3, <1>7 DEF Right

-----------------------------------------------------------------------------
(***************************************************************************)
(* Activations.  The innermost is at the head of the stack.                *)
(***************************************************************************)
\* The context of the activations called from the m outermost ones.
ContextBelow(r, stack, m) == [j \in 1..m |-> KeyOf(r, At(stack, j))]

\* A stack that keeps the m outermost activations of another, with one on top.
LEMMA Restacked ==
  ASSUME NEW r, NEW s, StackRight(r, s), NEW t, IsList(t), NEW m \in Nat, m <= Len(s),
         Len(t) = m + 1, \A d \in 1..m : At(t, d) = At(s, d), NEW g, At(t, m + 1) = g,
         FrameRight(r, g, ContextBelow(r, s, m)),
         m # 0 => Waits(r, At(s, m), g.fn)
  PROVE  StackRight(r, t)
<1>1. /\ \A d \in 1..Len(s) : FrameRight(r, At(s, d), ContextAt(r, s, d))
      /\ \A d \in 1..(Len(s) - 1) : Waits(r, At(s, d), At(s, d + 1).fn)
      /\ Len(s) \in Nat
  BY ListElements DEF StackRight
<1>2. ASSUME NEW d \in 1..(m + 1) PROVE ContextAt(r, t, d) = [j \in 1..(d - 1) |-> KeyOf(r, At(s, j))]
  <2>1. \A j \in 1..(d - 1) : At(t, j) = At(s, j)
    OBVIOUS
  <2> QED
    BY <2>1 DEF ContextAt
<1>3. ASSUME NEW d \in 1..(m + 1) PROVE FrameRight(r, At(t, d), ContextAt(r, t, d))
  <2>1. CASE d = m + 1
    <3>1. (m + 1) - 1 = m
      OBVIOUS
    <3>2. ContextAt(r, t, d) = ContextBelow(r, s, m)
      BY <1>2, <2>1, <3>1 DEF ContextBelow
    <3> QED
      BY <2>1, <3>2
  <2>2. CASE d # m + 1
    <3>1. d \in 1..m /\ d \in 1..Len(s)
      BY <1>1, <2>2
    <3>2. ContextAt(r, t, d) = ContextAt(r, s, d)
      BY <1>2 DEF ContextAt
    <3> QED
      BY <1>1, <3>1, <3>2
  <2> QED
    BY <2>1, <2>2
<1>4. ASSUME NEW d \in 1..m PROVE Waits(r, At(t, d), At(t, d + 1).fn)
  <2>1. CASE d = m
    BY <2>1
  <2>2. CASE d # m
    <3>1. d \in 1..m /\ d + 1 \in 1..m /\ d \in 1..(Len(s) - 1)
      BY <1>1, <2>2
    <3> QED
      BY <1>1, <3>1
  <2> QED
    BY <2>1, <2>2
<1>5. (m + 1) - 1 = m
  OBVIOUS
<1> QED
  BY <1>3, <1>4, <1>5 DEF StackRight

\* The activation that is evaluating.
LEMMA TopIsRight ==
  ASSUME NEW r, NEW s, StackRight(r, s), s # <<>>
  PROVE  /\ Len(s) \in Nat /\ Len(s) # 0 /\ 1 \in 1..Len(s)
         /\ Head(s) = At(s, Len(s)) /\ FrameRight(r, Head(s), ContextAt(r, s, Len(s)))
<1>1. IsList(s) /\ \A d \in 1..Len(s) : FrameRight(r, At(s, d), ContextAt(r, s, d))
  BY DEF StackRight
<1>2. Len(s) \in Nat /\ 1 \in 1..Len(s) /\ Head(s) = s[1]
  BY <1>1, ListElements, HeadOfList
<1>3. Len(s) \in 1..Len(s) /\ Len(s) + 1 - Len(s) = 1 /\ Len(s) # 0
  BY <1>2
<1> QED
  BY <1>1, <1>2, <1>3 DEF At

\* It may change, as long as it stays in its function.
LEMMA TopReplaced ==
  ASSUME NEW r, NEW s, StackRight(r, s), s # <<>>, NEW g,
         FrameRight(r, g, ContextAt(r, s, Len(s))), g.fn = Head(s).fn
  PROVE  StackRight(r, <<g>> \o Tail(s))
<1> DEFINE n == Len(s)
           t == <<g>> \o Tail(s)
<1>1. /\ IsList(s) /\ n \in Nat /\ n # 0 /\ Head(s) = At(s, n)
      /\ \A d \in 1..(n - 1) : Waits(r, At(s, d), At(s, d + 1).fn)
  BY TopIsRight DEF StackRight
<1>2. IsList(Tail(s)) /\ Len(Tail(s)) = n - 1 /\ \A i \in 1..(n - 1) : Tail(s)[i] = s[i + 1]
  BY <1>1, TailOfList
<1>3. /\ IsList(t) /\ Len(t) = (n - 1) + 1 /\ t[1] = g
      /\ \A i \in 1..(n - 1) : t[i + 1] = s[i + 1]
  BY <1>2, OneMoreBefore
<1> HIDE DEF t
<1>4. n - 1 \in Nat /\ n - 1 <= n /\ (n - 1) + 1 = n /\ Len(t) = n /\ n + 1 - n = 1
  BY <1>1, <1>3
<1>5. At(t, (n - 1) + 1) = g
  BY <1>3, <1>4 DEF At
<1>6. ASSUME NEW d \in 1..(n - 1) PROVE At(t, d) = At(s, d)
  <2>1. n - d \in 1..(n - 1) /\ n + 1 - d = (n - d) + 1
    BY <1>1
  <2> QED
    BY <1>3, <1>4, <2>1 DEF At
<1>7. FrameRight(r, g, ContextBelow(r, s, n - 1))
  BY DEF ContextBelow, ContextAt
<1>8. n - 1 # 0 => Waits(r, At(s, n - 1), g.fn)
  <2> SUFFICES ASSUME n - 1 # 0 PROVE Waits(r, At(s, n - 1), g.fn)
    OBVIOUS
  <2>1. n - 1 \in 1..(n - 1)
    <3>1. n \in Nat /\ n # 0 /\ n - 1 # 0
      BY <1>1
    <3> HIDE DEF n
    <3> QED
      BY <3>1
  <2> QED
    BY <1>1, <1>4, <2>1
<1>9. StackRight(r, t)
  <2> HIDE DEF n
  <2> QED
    BY <1>3, <1>4, <1>5, <1>6, <1>7, <1>8, Restacked DEF n
<1> QED
  BY <1>9 DEF t

\* It may call.
LEMMA TopCalls ==
  ASSUME NEW r, NEW s, StackRight(r, s), s # <<>>, NEW a,
         Waits(r, Head(s), a.fn), FrameRight(r, a, Within(r, Head(s), ContextAt(r, s, Len(s))))
  PROVE  StackRight(r, <<a, Head(s)>> \o Tail(s))
<1> DEFINE n == Len(s)
           t == <<a, Head(s)>> \o Tail(s)
           inv == ContextAt(r, s, n)
           top == Head(s)
<1>1. IsList(s) /\ n \in Nat /\ n # 0 /\ top = At(s, n) /\ top = s[1]
  BY TopIsRight, HeadOfList DEF StackRight
<1>2. IsList(Tail(s)) /\ Len(Tail(s)) = n - 1 /\ \A i \in 1..(n - 1) : Tail(s)[i] = s[i + 1]
  BY <1>1, TailOfList
<1> HIDE DEF top
<1>3. /\ IsList(<<a, top>>) /\ Len(<<a, top>>) = 2
      /\ <<a, top>>[1] = a /\ <<a, top>>[2] = top
  <2>1. <<a, top>> \in Seq({a, top}) /\ Len(<<a, top>>) = 2 /\ <<a, top>>[1] = a /\ <<a, top>>[2] = top
    OBVIOUS
  <2> QED
    BY <2>1, SeqIsList
<1>4. t = <<a, top>> \o Tail(s)
  BY DEF top
<1> HIDE DEF t
<1>5. /\ IsList(t) /\ Len(t) = 2 + (n - 1)
      /\ \A i \in 1..2 : t[i] = <<a, top>>[i]
      /\ \A i \in 1..(n - 1) : t[2 + i] = Tail(s)[i]
  BY <1>2, <1>3, <1>4, ListsInARow
<1>6. Len(t) = n + 1 /\ n <= n /\ (n + 1) + 1 - (n + 1) = 1 /\ 1 \in 1..2 /\ 2 \in 1..2
  BY <1>1, <1>5
<1>7. At(t, n + 1) = a
  BY <1>3, <1>5, <1>6 DEF At
<1>8. ASSUME NEW d \in 1..n PROVE At(t, d) = At(s, d)
  <2>1. CASE d = n
    <3>1. (n + 1) + 1 - n = 2
      BY <1>1
    <3> QED
      BY <1>1, <1>3, <1>5, <1>6, <2>1, <3>1 DEF At
  <2>2. CASE d # n
    <3>1. n - d \in 1..(n - 1) /\ (n + 1) + 1 - d = 2 + (n - d) /\ n + 1 - d = (n - d) + 1
      BY <1>1, <2>2
    <3>2. At(t, d) = t[2 + (n - d)]
      BY <1>6, <3>1 DEF At
    <3>3. t[2 + (n - d)] = Tail(s)[n - d]
      BY <1>5, <3>1
    <3>4. Tail(s)[n - d] = s[(n - d) + 1]
      BY <1>2, <3>1
    <3>5. At(s, d) = s[(n - d) + 1]
      BY <3>1 DEF At
    <3> QED
      BY <3>2, <3>3, <3>4, <3>5
  <2> QED
    BY <2>1, <2>2
<1>9. Within(r, top, inv) = ContextBelow(r, s, n)
  <2> DEFINE below == ContextBelow(r, s, n)
             within == Within(r, top, inv)
  <2>1. inv = [j \in 1..(n - 1) |-> KeyOf(r, At(s, j))] /\ n - 1 \in Nat
    BY <1>1 DEF ContextAt
  <2> HIDE DEF inv
  <2>2. IsList(inv) /\ Len(inv) = n - 1
    <3>1. inv = [j \in 1..(n - 1) |-> inv[j]]
      BY <2>1
    <3> QED
      BY <2>1, <3>1, MakeList
  <2>3. within = Append(inv, KeyOf(r, top))
    BY DEF Within
  <2> HIDE DEF within
  <2>4. /\ IsList(within) /\ Len(within) = (n - 1) + 1 /\ within[(n - 1) + 1] = KeyOf(r, top)
        /\ \A j \in 1..(n - 1) : within[j] = inv[j]
    BY <2>2, <2>3, ListExtended
  <2>5. (n - 1) + 1 = n /\ \A j \in 1..n : j = n \/ j \in 1..(n - 1)
    BY <1>1
  <2>6. \A j \in 1..n : within[j] = KeyOf(r, At(s, j))
    BY <1>1, <2>1, <2>4, <2>5
  <2>7. within = [j \in 1..n |-> within[j]]
    BY <2>4, <2>5, ListElements
  <2> HIDE DEF n
  <2>8. within = [j \in 1..n |-> KeyOf(r, At(s, j))]
    BY <2>6, <2>7
  <2> QED
    BY <2>8 DEF ContextBelow, within
<1>10. FrameRight(r, a, ContextBelow(r, s, n)) /\ Waits(r, At(s, n), a.fn)
  BY <1>1, <1>9 DEF top
<1>11. StackRight(r, t)
  <2> HIDE DEF n
  <2> QED
    BY <1>1, <1>5, <1>6, <1>7, <1>8, <1>10, Restacked DEF n
<1> QED
  BY <1>11 DEF t

\* One that has been called has a caller that waits for it.
LEMMA CallerIsRight ==
  ASSUME NEW r, NEW s, StackRight(r, s), Len(s) > 1
  PROVE  LET inv == ContextAt(r, s, Len(s) - 1) IN
         /\ s # <<>>
         /\ FrameRight(r, s[2], inv) /\ Waits(r, s[2], Head(s).fn)
         /\ FrameRight(r, Head(s), Within(r, s[2], inv))
<1> DEFINE n == Len(s)
           inv == ContextAt(r, s, n - 1)
           caller == s[2]
<1>1. /\ IsList(s) /\ n \in Nat
      /\ \A d \in 1..n : FrameRight(r, At(s, d), ContextAt(r, s, d))
      /\ \A d \in 1..(n - 1) : Waits(r, At(s, d), At(s, d + 1).fn)
  BY ListElements DEF StackRight
<1>2. s # <<>>
  <2>1. n # 0
    BY <1>1
  <2> QED
    BY <2>1, EmptyList
<1>3. Head(s) = At(s, n) /\ FrameRight(r, Head(s), ContextAt(r, s, n))
  BY <1>2, TopIsRight
<1>4. /\ n - 1 \in Nat /\ n - 1 \in 1..n /\ n - 1 \in 1..(n - 1) /\ n + 1 - (n - 1) = 2 /\ (n - 1) + 1 = n
      /\ (n - 1) - 1 \in Nat
  BY <1>1
<1>5. caller = At(s, n - 1)
  BY <1>4 DEF At
<1> HIDE DEF caller
<1>6. ContextAt(r, s, n) = Within(r, caller, inv)
  <2> DEFINE m == n - 1
             whole == ContextAt(r, s, n)
             within == Within(r, caller, inv)
  <2>1. m \in Nat /\ m - 1 \in Nat /\ (m - 1) + 1 = m /\ \A j \in 1..m : j = m \/ j \in 1..(m - 1)
    <3>1. m \in Nat /\ m - 1 \in Nat
      BY <1>4
    <3> HIDE DEF m
    <3> QED
      BY <3>1
  <2>2. inv = [j \in 1..(m - 1) |-> KeyOf(r, At(s, j))]
    BY DEF ContextAt
  <2>3. whole = [j \in 1..m |-> KeyOf(r, At(s, j))]
    BY DEF ContextAt
  <2>4. At(s, m) = caller
    BY <1>5
  <2> HIDE DEF inv, whole, m
  <2>5. IsList(inv) /\ Len(inv) = m - 1
    <3>1. inv = [j \in 1..(m - 1) |-> inv[j]]
      BY <2>2
    <3> QED
      BY <2>1, <3>1, MakeList
  <2>6. within = Append(inv, KeyOf(r, caller))
    BY DEF Within
  <2> HIDE DEF within
  <2>7. /\ IsList(within) /\ Len(within) = (m - 1) + 1 /\ within[(m - 1) + 1] = KeyOf(r, caller)
        /\ \A j \in 1..(m - 1) : within[j] = inv[j]
    BY <2>5, <2>6, ListExtended
  <2>8. \A j \in 1..m : within[j] = KeyOf(r, At(s, j))
    BY <2>1, <2>2, <2>4, <2>7
  <2>9. within = [j \in 1..m |-> within[j]]
    BY <2>1, <2>7, ListElements
  <2>10. within = whole
    BY <2>3, <2>8, <2>9
  <2> QED
    BY <2>10 DEF within, whole
<1>7. FrameRight(r, caller, inv) /\ Waits(r, caller, Head(s).fn)
  BY <1>1, <1>3, <1>4, <1>5
<1> QED
  BY <1>2, <1>3, <1>6, <1>7 DEF caller

\* It may return, to a caller that goes on in its function.
LEMMA TopReturns ==
  ASSUME NEW r, NEW s, StackRight(r, s), Len(s) > 1, NEW h,
         FrameRight(r, h, ContextAt(r, s, Len(s) - 1)), h.fn = s[2].fn
  PROVE  StackRight(r, <<h>> \o SubSeq(s, 3, Len(s)))
<1> DEFINE n == Len(s)
           rest == SubSeq(s, 3, n)
           t == <<h>> \o rest
           m == n - 2
           S == {s[i] : i \in 1..n}
<1>1. /\ IsList(s) /\ n \in Nat
      /\ \A d \in 1..(n - 1) : Waits(r, At(s, d), At(s, d + 1).fn)
  BY ListElements DEF StackRight
<1>2. m \in Nat /\ m + 1 = n - 1 /\ m <= n /\ 3 \in Int /\ n \in Int
  BY <1>1
<1>3. \A i \in 3..n : s[i] \in S
  BY <1>1
<1>4. /\ rest \in Seq(S) /\ Len(rest) = m
      /\ \A i \in 1..m : rest[i] = s[i + 2]
  <2>1. /\ rest \in Seq(S) /\ Len(rest) = IF 3 <= n THEN n - 3 + 1 ELSE 0
        /\ \A i \in 1..(n - 3 + 1) : rest[i] = s[3 + i - 1]
    <3> HIDE DEF S
    <3> QED
      BY <1>2, <1>3, SubSeqProperties
  <2>2. n - 3 + 1 = m /\ (~(3 <= n) => m = 0) /\ \A i \in 1..m : 3 + i - 1 = i + 2
    <3>1. n \in Nat /\ n > 1
      BY <1>1
    <3> HIDE DEF n
    <3> QED
      BY <3>1
  <2> HIDE DEF rest, S
  <2>3. Len(rest) = m
    BY <1>1, <2>1, <2>2
  <2>4. \A i \in 1..m : rest[i] = s[i + 2]
    BY <2>1, <2>2
  <2> QED
    BY <2>1, <2>3, <2>4
<1> HIDE DEF rest, S
<1>5. IsList(rest)
  BY <1>4, SeqIsList
<1>6. /\ IsList(t) /\ Len(t) = m + 1 /\ t[1] = h /\ \A i \in 1..m : t[i + 1] = s[i + 2]
  BY <1>4, <1>5, OneMoreBefore
<1> HIDE DEF t
<1>7. At(t, m + 1) = h
  <2>1. (m + 1) + 1 - (m + 1) = 1
    BY <1>2
  <2> QED
    BY <1>6, <2>1 DEF At
<1>8. ASSUME NEW d \in 1..m PROVE At(t, d) = At(s, d)
  <2>1. m + 1 - d \in 1..m /\ (m + 1) + 1 - d = (m + 1 - d) + 1 /\ n + 1 - d = (m + 1 - d) + 2
    BY <1>2
  <2> QED
    BY <1>6, <2>1 DEF At
<1>9. (n - 1) - 1 = m /\ n + 1 - (n - 1) = 2
  BY <1>1
<1>10. FrameRight(r, h, ContextBelow(r, s, m))
  <2>1. ContextAt(r, s, n - 1) = ContextBelow(r, s, m)
    BY <1>9 DEF ContextAt, ContextBelow
  <2> QED
    BY <2>1
<1>11. m # 0 => Waits(r, At(s, m), h.fn)
  <2> SUFFICES ASSUME m # 0 PROVE Waits(r, At(s, m), h.fn)
    OBVIOUS
  <2>1. m \in 1..(n - 1)
    BY <1>1, <1>2
  <2>2. At(s, m + 1) = s[2]
    BY <1>2, <1>9 DEF At
  <2> QED
    BY <1>1, <2>1, <2>2
<1>12. StackRight(r, t)
  <2> HIDE DEF n, m
  <2> QED
    BY <1>2, <1>6, <1>7, <1>8, <1>10, <1>11, Restacked DEF n
<1> QED
  BY <1>12 DEF t, rest, n

-----------------------------------------------------------------------------
(***************************************************************************)
(* Steps.                                                                  *)
(***************************************************************************)
\* The context of the activation that is evaluating.
Context == ContextAt(request, frames, Len(frames))

LEMMA NodeIs ==
  ASSUME request \in Requests, package = Pruned(request), NEW f, NEW inv, FrameRight(request, f, inv)
  PROVE  /\ f.fn \in DOMAIN request.fns
         /\ package[f.fn].ret = request.fns[f.fn].ret
         /\ Len(package[f.fn].nodes) = Len(request.fns[f.fn].nodes)
         /\ Len(f.values) < Len(package[f.fn].nodes) =>
              NodeAt(f) = IF IsAtNode(request, f) THEN Current(request, f) ELSE Removed
<1> DEFINE fn == request.fns[f.fn]
           k == Len(f.values) + 1
<1>1. f.fn \in DOMAIN request.fns /\ ValuesRight(request, f, inv)
  BY DEF FrameRight
<1>2. /\ package[f.fn].ret = fn.ret /\ Len(package[f.fn].nodes) = Len(fn.nodes)
      /\ \A i \in 1..Len(fn.nodes) :
           package[f.fn].nodes[i] = IF i \in Kept(fn) THEN fn.nodes[i] ELSE Removed
  BY <1>1, PrunedFacts
<1>3. ASSUME Len(f.values) < Len(fn.nodes) PROVE k \in 1..Len(fn.nodes)
  <2>1. Len(f.values) \in Nat /\ Len(fn.nodes) \in Nat
    BY <1>1, ListElements, RequestFacts DEF ValuesRight, IsFunction
  <2> DEFINE a == Len(f.values)
             b == Len(fn.nodes)
  <2>2. a \in Nat /\ b \in Nat /\ a < b
    BY <1>3, <2>1
  <2> HIDE DEF a, b
  <2>3. a + 1 \in 1..b
    BY <2>2
  <2> QED
    BY <2>3 DEF a, b
<1> QED
  BY <1>1, <1>2, <1>3 DEF NodeAt, Current, IsAtNode

\* What an activation of the evaluation is.
LEMMA TopFacts ==
  ASSUME EvaluationIsRight, Evaluating
  PROVE  /\ request \in Requests /\ package = Pruned(request)
         /\ StackRight(request, frames) /\ frames # <<>>
         /\ FrameRight(request, frame, Context)
<1>1. /\ request \in Requests /\ StackRight(request, frames) /\ frames # <<>>
      /\ package = Pruned(request)
  BY DEF EvaluationIsRight, Evaluating
<1> QED
  BY <1>1, TopIsRight DEF frame, Context

\* A node that is evaluated is live, and has its operands.
LEMMA AtNodeFacts ==
  ASSUME EvaluationIsRight, NEW kinds, AtNode(kinds), "nil" \notin kinds
  PROVE  /\ Evaluating /\ AtLive(request, frame, Context)
         /\ node = Current(request, frame) /\ node.kind \in kinds
         /\ ~OperandMissing
         /\ \A refs : Operands(refs) = OperandsOf(frame, refs)
<1> DEFINE nd == Current(request, frame)
<1>1. Evaluating /\ Len(frame.values) < Len(function.nodes) /\ node.kind \in kinds
  BY DEF AtNode, node
<1>2. request \in Requests /\ package = Pruned(request) /\ FrameRight(request, frame, Context)
  BY <1>1, TopFacts
<1>3. node = IF IsAtNode(request, frame) THEN nd ELSE Removed
  BY <1>1, <1>2, NodeIs DEF node, function
<1>4. Removed.kind = "nil"
  BY DEF Removed
<1>5. IsAtNode(request, frame) /\ node = nd
  BY <1>1, <1>3, <1>4
<1>6. AtLive(request, frame, Context)
  BY <1>2, <1>5 DEF AtLive
<1>7. \A refs : Operands(refs) = OperandsOf(frame, refs)
  BY DEF Operands, OperandsOf
<1>8. ~OperandMissing
  <2> SUFFICES ASSUME NEW i \in 1..Len(OperandRefs(nd)) PROVE frame.values[OperandRefs(nd)[i]] # None
    BY <1>5 DEF OperandMissing
  <2> DEFINE E == 1..((Len(frame.values) + 1) - 1)
             refs == OperandRefs(nd)
             ref == refs[i]
  <2>1. /\ WellFormedNode(request.fns, frame.fn, Len(frame.values) + 1)
        /\ nd = request.fns[frame.fn].nodes[Len(frame.values) + 1]
    BY <1>6, LiveNode
  <2>2. nd.refs \in Seq(E) /\ nd.cases \in Seq(E) /\ nd.default \in E \cup {0}
    BY <2>1 DEF WellFormedNode
  <2>3. IsList(refs) /\ \A j : j \in Range(refs) <=> Refers(nd, j)
    <3> HIDE DEF E
    <3> QED
      BY <2>2, OperandRefsAre
  <2>4. ref \in Range(refs)
    BY <2>3, ListElements DEF Range
  <2> HIDE DEF ref
  <2>5. Refers(nd, ref)
    BY <2>3, <2>4
  <2> DEFINE w == request.fns[frame.fn].nodes[ref].width
  <2>6. w \in Nat /\ Right(request, frame.values[ref], w, R!RefSite(Here(frame, Context), ref))
    BY <1>6, <2>1, <2>5, LiveNode
  <2> HIDE DEF w
  <2>7. frame.values[ref] # None
    BY <2>6, WordFacts DEF Right
  <2> QED
    BY <2>7 DEF ref
<1> QED
  BY <1>1, <1>5, <1>6, <1>7, <1>8

\* A step that goes on evaluating.
LEMMA GoesOn ==
  ASSUME EvaluationIsRight, Evaluating, StackRight(request, frames'), frames' # <<>>,
         UNCHANGED <<request, package, outcome>>
  PROVE  EvaluationIsRight'
<1>1. /\ request \in Requests /\ package = Pruned(request)
      /\ outcome = Pending /\ Pending.at = "pending"
  BY TopFacts DEF Evaluating, Pending
<1>2. request' = request /\ package' = package /\ outcome' = outcome /\ outcome'.at = "pending"
  BY <1>1
<1>3. MergedMatchesReference'
  BY <1>2 DEF MergedMatchesReference
<1> QED
  BY <1>1, <1>2, <1>3 DEF EvaluationIsRight

\* A step that ends the evaluation.
LEMMA Stops ==
  ASSUME EvaluationIsRight, Evaluating, NEW how, Ends(how),
         how.at \in {"value", "error", "panic"},
         how.at = "error" => how.why \in {"unsupported", "overflow"},
         how.at = "value" =>
           LET concrete == Of(request, R!ResultSite(asRequest(request)))
               entry    == request.fns[request.top]
           IN  /\ concrete.ok
               /\ how.value.n = concrete.value
               /\ how.value.width = entry.nodes[entry.ret].width
  PROVE  EvaluationIsRight'
<1>1. request \in Requests /\ package = Pruned(request) /\ Pending.at = "pending"
  BY TopFacts DEF Pending
<1>2. /\ request' = request /\ package' = package /\ outcome' = how /\ frames' = <<>>
      /\ outcome' # Pending
  BY <1>1 DEF Ends
<1>3. StackRight(request, <<>>)
  BY EmptyList DEF StackRight
<1>4. MergedMatchesReference'
  BY <1>2 DEF MergedMatchesReference
<1> QED
  BY <1>1, <1>2, <1>3, <1>4 DEF EvaluationIsRight

\* A node is given a value that is right.
LEMMA YieldsRight ==
  ASSUME EvaluationIsRight, Evaluating, AtLive(request, frame, Context), NEW value,
         Right(request, value, Current(request, frame).width, Here(frame, Context)), Yields(value)
  PROVE  EvaluationIsRight'
<1> DEFINE g == With(frame, value)
<1>1. /\ request \in Requests /\ FrameRight(request, frame, Context) /\ IsAtNode(request, frame)
      /\ StackRight(request, frames) /\ frames # <<>>
  BY TopFacts DEF AtLive
<1>2. FrameRight(request, g, Context) /\ g.fn = frame.fn
  BY <1>1, ValueGiven DEF IsAtNode
<1> HIDE DEF g
<1>3. StackRight(request, <<g>> \o Tail(frames)) /\ <<g>> \o Tail(frames) # <<>>
  BY <1>1, <1>2, TopReplaced, TailOfList, OneMoreBefore DEF Context, frame, StackRight
<1>4. frames' = <<g>> \o Tail(frames) /\ UNCHANGED <<request, package, outcome>>
  BY DEF Yields, g
<1> QED
  BY <1>3, <1>4, GoesOn

\* A call, or an iteration, is entered with arguments that are right.
LEMMA EntersRight ==
  ASSUME EvaluationIsRight, Evaluating, Calling(request, frame, Context), NEW args,
         LET g == Activation(Current(request, frame).callee, args) IN
         FrameRight(request, g, Within(request, frame, Context)) /\ g.fn = Current(request, frame).callee,
         Enters(Current(request, frame).callee, args, frame)
  PROVE  EvaluationIsRight'
<1> DEFINE a == Activation(Current(request, frame).callee, args)
           t == <<a, frame>> \o Tail(frames)
<1>1. StackRight(request, frames) /\ frames # <<>>
  BY TopFacts
<1>2. Waits(request, frame, a.fn) /\ FrameRight(request, a, Within(request, frame, Context))
  BY DEF Calling
<1> HIDE DEF a
<1>3. StackRight(request, t)
  BY <1>1, <1>2, TopCalls DEF Context, frame
<1>4. t # <<>>
  <2>1. t[1] = a /\ Len(t) # 0
    BY <1>1, TailOfList DEF StackRight
  <2> QED
    BY <2>1, EmptyList
<1>5. frames' = t /\ UNCHANGED <<request, package, outcome>>
  BY DEF Enters, a
<1> QED
  BY <1>3, <1>4, <1>5, GoesOn

\* The evaluation starts with the arguments of the request.
LEMMA StartKeeps ==
  ASSUME EvaluationIsRight, Start
  PROVE  EvaluationIsRight'
<1> DEFINE r == request
           q == asRequest(r)
           a == Activation(r.top, r.args)
           t == <<a>>
           params == r.fns[r.top].params
           C == ContextBelow(r, <<>>, 0)
<1>1. /\ r \in Requests /\ package = r.fns /\ StackRight(r, <<>>)
      /\ request' = request /\ outcome' = outcome /\ outcome = Pending
      /\ package' = [name \in DOMAIN package |-> WithoutDeadNodes(package[name])]
      /\ frames' = t
  BY DEF EvaluationIsRight, Start
<1>2. package' = Pruned(r)
  BY <1>1 DEF Pruned
<1>3. /\ r.top \in DOMAIN r.fns /\ Len(r.args) = Len(params)
      /\ \A i \in 1..Len(r.args) : r.args[i] \in Words(params[i])
      /\ Len(r.fns[r.top].nodes) \in Nat
  BY <1>1, RequestFacts DEF IsFunction
<1>4. IsList(C) /\ Len(C) = 0 /\ C = <<>> /\ 0 \in Nat
  <2>1. C = [j \in 1..0 |-> C[j]]
    BY DEF ContextBelow
  <2> HIDE DEF C
  <2>2. IsList(C) /\ Len(C) = 0 /\ 0 \in Nat
    BY <2>1, MakeList
  <2> QED
    BY <2>2, EmptyList
<1> HIDE DEF C
<1>5. /\ a = [fn |-> a.fn, args |-> a.args, values |-> a.values, loop |-> a.loop]
      /\ a.fn = r.top /\ a.args = r.args /\ a.values = <<>> /\ a.loop = <<>>
  BY DEF Activation
<1> HIDE DEF a
<1>6. FrameRight(r, a, C)
  <2>1. R!IsContext(q, C)
    BY <1>4 DEF R!IsContext
  <2>2. a.fn = R!FunctionIn(q, C)
    BY <1>4, <1>5 DEF R!FunctionIn, asRequest
  <2>3. ArgumentsRight(r, a, C)
    <3>1. \A i \in 1..Len(params) : R!Passed(q, 1, OutcomesOf(r), C, i) = r.args[i].n
      <4> SUFFICES ASSUME NEW i \in 1..Len(params)
                   PROVE  R!Passed(q, 1, OutcomesOf(r), C, i) = r.args[i].n
        OBVIOUS
      <4>1. R!Passed(q, 1, OutcomesOf(r), C, i) = q.args[i].den[1]
        BY <1>4 DEF R!Passed
      <4>2. q.args[i] = [den |-> <<r.args[i].n>>]
        BY <1>3 DEF asRequest
      <4> QED
        BY <4>1, <4>2
    <3> QED
      BY <1>3, <1>5, <3>1 DEF ArgumentsRight
  <2>4. ValuesRight(r, a, C)
    <3>1. IsList(a.values) /\ Len(a.values) = 0
      BY <1>5, EmptyList
    <3> QED
      BY <1>3, <1>5, <3>1 DEF ValuesRight
  <2>5. LoopRight(r, a, C)
    BY <1>5 DEF LoopRight
  <2> QED
    BY <1>3, <1>4, <1>5, <2>1, <2>2, <2>3, <2>4, <2>5 DEF FrameRight
<1>7. /\ IsList(t) /\ Len(t) = 0 + 1 /\ At(t, 0 + 1) = a /\ t # <<>>
  <2>1. IsList(t) /\ Len(t) = 1 /\ t[1] = a
    BY OneElement
  <2>2. Len(t) + 1 - (0 + 1) = 1
    BY <2>1
  <2> QED
    BY <2>1, <2>2, EmptyList DEF At
<1>8. StackRight(r, t)
  <2>1. Len(<<>>) = 0 /\ 0 <= 0 /\ \A d \in 1..0 : At(t, d) = At(<<>>, d)
    BY EmptyList
  <2>2. FrameRight(r, a, ContextBelow(r, <<>>, 0))
    BY <1>6 DEF C
  <2> HIDE DEF t
  <2> QED
    BY <1>1, <1>7, <2>1, <2>2, Restacked
<1>9. outcome'.at = "pending"
  BY <1>1 DEF Pending
<1>10. MergedMatchesReference'
  BY <1>9 DEF MergedMatchesReference
<1> QED
  BY <1>1, <1>2, <1>7, <1>8, <1>9, <1>10 DEF EvaluationIsRight

\* A removed node has no value.
LEMMA SkipRemovedKeeps ==
  ASSUME EvaluationIsRight, SkipRemoved
  PROVE  EvaluationIsRight'
<1> DEFINE r == request
           g == With(frame, None)
<1>1. Evaluating /\ Len(frame.values) < Len(function.nodes) /\ node.kind = "nil" /\ Yields(None)
  BY DEF SkipRemoved, AtNode, node
<1>2. /\ r \in Requests /\ package = Pruned(r) /\ StackRight(r, frames) /\ frames # <<>>
      /\ FrameRight(r, frame, Context)
  BY <1>1, TopFacts
<1>3. /\ Len(frame.values) < Len(r.fns[frame.fn].nodes)
      /\ node = IF IsAtNode(r, frame) THEN Current(r, frame) ELSE Removed
  BY <1>1, <1>2, NodeIs DEF node, function
<1>4. ~IsAtNode(r, frame)
  <2> SUFFICES ASSUME IsAtNode(r, frame) PROVE FALSE
    OBVIOUS
  <2>1. AtLive(r, frame, Context) /\ Current(r, frame).kind = "nil"
    BY <1>1, <1>2, <1>3 DEF AtLive
  <2>2. Current(r, frame).kind \in NodeKinds
    BY <2>1, LiveNode DEF WellFormedNode
  <2> QED
    BY <2>1, <2>2 DEF NodeKinds, SelectionKinds
<1>5. FrameRight(r, g, Context) /\ g.fn = frame.fn
  BY <1>2, <1>3, <1>4, ValueGiven DEF IsAtNode
<1> HIDE DEF g
<1>6. StackRight(r, <<g>> \o Tail(frames)) /\ <<g>> \o Tail(frames) # <<>>
  BY <1>2, <1>5, TopReplaced, TailOfList, OneMoreBefore DEF Context, frame, StackRight
<1>7. frames' = <<g>> \o Tail(frames) /\ UNCHANGED <<request, package, outcome>>
  BY <1>1 DEF Yields, g
<1> QED
  BY <1>1, <1>6, <1>7, GoesOn

LEMMA GetParamKeeps ==
  ASSUME EvaluationIsRight, Answered, GetParam
  PROVE  EvaluationIsRight'
<1>1. AtNode({"param"}) /\ Yields(frame.args[node.index]) /\ "nil" \notin {"param"}
  BY DEF GetParam
<1>2. /\ Evaluating /\ AtLive(request, frame, Context)
      /\ node = Current(request, frame) /\ node.kind = "param"
  BY <1>1, AtNodeFacts
<1>3. Right(request, frame.args[node.index], node.width, Here(frame, Context))
  BY <1>2, ParamIsRight
<1> QED
  BY <1>1, <1>2, <1>3, YieldsRight

LEMMA FailNodeKeeps ==
  ASSUME EvaluationIsRight, FailNode
  PROVE  EvaluationIsRight'
<1> DEFINE kinds == {"unsupported", "pure", "invoke", "counted_for"} \cup SelectionKinds
           how == Failed("unsupported")
<1>1. AtNode(kinds) /\ "nil" \notin kinds
  BY DEF FailNode, SelectionKinds
<1>2. Evaluating /\ ~OperandMissing
  <2> HIDE DEF kinds
  <2> QED
    BY <1>1, AtNodeFacts
<1>3. Ends(how)
  BY <1>2 DEF FailNode
<1>4. how.at = "error" /\ how.why = "unsupported"
  BY DEF Failed
<1> HIDE DEF how
<1> QED
  BY <1>2, <1>3, <1>4, Stops

LEMMA ApplyNodeKeeps ==
  ASSUME EvaluationIsRight, Answered, PureNodesDenote(AllWords), ApplyNode
  PROVE  EvaluationIsRight'
<1>1. AtNode({"pure"}) /\ Yields(Apply(node, Operands(node.refs))) /\ "nil" \notin {"pure"}
  BY DEF ApplyNode
<1>2. /\ Evaluating /\ AtLive(request, frame, Context)
      /\ node = Current(request, frame) /\ node.kind = "pure"
      /\ Operands(node.refs) = OperandsOf(frame, node.refs)
  BY <1>1, AtNodeFacts
<1>3. Right(request, Apply(node, Operands(node.refs)), node.width, Here(frame, Context))
  BY <1>2, PureIsRight
<1> QED
  BY <1>1, <1>2, <1>3, YieldsRight

LEMMA MergeCasesKeeps ==
  ASSUME EvaluationIsRight, Answered, MergeCases
  PROVE  EvaluationIsRight'
<1> DEFINE value == Merged(node, Operands(node.refs)[1], Operands(node.cases),
                           IF node.default = 0 THEN <<>> ELSE Operands(<<node.default>>))
           right == Merged(node, frame.values[node.refs[1]], CasesOf(frame, node), DefaultOf(frame, node))
<1>1. AtNode(SelectionKinds) /\ Yields(value) /\ "nil" \notin SelectionKinds
  BY DEF MergeCases, SelectionKinds
<1>2. /\ Evaluating /\ AtLive(request, frame, Context)
      /\ node = Current(request, frame) /\ node.kind \in SelectionKinds
      /\ \A refs : Operands(refs) = OperandsOf(frame, refs)
  BY <1>1, AtNodeFacts
<1>3. Right(request, right, node.width, Here(frame, Context))
  BY <1>2, SelectionIsRight
<1>4. Len(node.refs) = 1
  <2>1. WellFormedNode(request.fns, frame.fn, Len(frame.values) + 1)
        /\ node = request.fns[frame.fn].nodes[Len(frame.values) + 1]
    BY <1>2, LiveNode
  <2> QED
    BY <1>2, <2>1 DEF WellFormedNode
<1>5. value = right
  <2>1. Operands(node.refs)[1] = frame.values[node.refs[1]]
    BY <1>4 DEF Operands
  <2> QED
    BY <1>2, <2>1 DEF CasesOf, DefaultOf
<1> HIDE DEF value, right
<1> QED
  BY <1>1, <1>2, <1>3, <1>5, YieldsRight

LEMMA EnterCalleeKeeps ==
  ASSUME EvaluationIsRight, EnterCallee
  PROVE  EvaluationIsRight'
<1> DEFINE nd == Current(request, frame)
           args == OperandsOf(frame, nd.refs)
<1>1. AtNode({"invoke"}) /\ Enters(node.callee, Operands(node.refs), frame) /\ "nil" \notin {"invoke"}
  BY DEF EnterCallee
<1>2. /\ Evaluating /\ AtLive(request, frame, Context)
      /\ node = nd /\ node.kind = "invoke" /\ Operands(node.refs) = args
  BY <1>1, AtNodeFacts
<1>3. Calling(request, frame, Context)
  BY <1>2 DEF Calling, Waits, AtLive
<1>4. /\ FrameRight(request, Activation(nd.callee, args), Within(request, frame, Context))
      /\ Activation(nd.callee, args).fn = nd.callee
  BY <1>2, <1>3, CalleeIsRight
<1>5. Enters(nd.callee, args, frame)
  BY <1>1, <1>2
<1> HIDE DEF args
<1> QED
  BY <1>2, <1>3, <1>4, <1>5, EntersRight

LEMMA EnterLoopKeeps ==
  ASSUME EvaluationIsRight, EnterLoop
  PROVE  EvaluationIsRight'
<1> DEFINE nd == Current(request, frame)
           x == OperandsOf(frame, nd.refs)[1]
           g == LoopAt(frame, 0, x)
<1>1. AtNode({"counted_for"}) /\ "nil" \notin {"counted_for"}
  BY DEF EnterLoop
<1>2. /\ Evaluating /\ AtLive(request, frame, Context)
      /\ node = nd /\ node.kind = "counted_for" /\ Operands(node.refs)[1] = x
  BY <1>1, AtNodeFacts
<1>3. frames' = <<g>> \o Tail(frames) /\ UNCHANGED <<request, package, outcome>>
  BY <1>2 DEF EnterLoop, LoopAt
<1>4. FrameRight(request, g, Context) /\ g.fn = frame.fn
  BY <1>2, LoopEntered
<1> HIDE DEF g
<1>5. StackRight(request, <<g>> \o Tail(frames)) /\ <<g>> \o Tail(frames) # <<>>
  BY <1>2, <1>4, TopFacts, TopReplaced, TailOfList, OneMoreBefore DEF Context, frame, StackRight
<1> QED
  BY <1>2, <1>3, <1>5, GoesOn

\* What an activation in a loop is at.
LEMMA InLoopFacts ==
  ASSUME EvaluationIsRight, InLoop
  PROVE  LET nd == Current(request, frame) IN
         /\ Evaluating /\ AtLive(request, frame, Context)
         /\ node = nd /\ nd.kind = "counted_for" /\ frame.loop # <<>>
         /\ frame.loop[1] \in Nat /\ nd.trip \in Nat /\ nd.stride \in Nat
         /\ frame.loop[1] * nd.stride \in Nat
         /\ inductionWidth = request.fns[nd.callee].params[1]
         /\ \A refs : Operands(refs) = OperandsOf(frame, refs)
<1> DEFINE nd == Current(request, frame)
<1>1. AtNode({"counted_for"}) /\ "nil" \notin {"counted_for"} /\ frame.loop # <<>>
  BY DEF InLoop
<1>2. /\ Evaluating /\ AtLive(request, frame, Context)
      /\ node = nd /\ node.kind = "counted_for"
      /\ \A refs : Operands(refs) = OperandsOf(frame, refs)
  BY <1>1, AtNodeFacts
<1>3. WellFormedNode(request.fns, frame.fn, Len(frame.values) + 1)
      /\ nd = request.fns[frame.fn].nodes[Len(frame.values) + 1]
  BY <1>2, LiveNode
<1>4. nd.trip \in Nat /\ nd.stride \in Nat /\ nd.callee \in DOMAIN request.fns
  BY <1>2, <1>3 DEF WellFormedNode
<1>5. frame.loop[1] \in 0..nd.trip
  BY <1>1, <1>2 DEF AtLive, FrameRight, LoopRight
<1> DEFINE i == frame.loop[1]
           s == nd.stride
<1>6. i \in Nat /\ s \in Nat
  BY <1>4, <1>5
<1>7. i * s \in Nat
  <2> HIDE DEF i, s
  <2> QED
    BY <1>6
<1>8. inductionWidth = request.fns[nd.callee].params[1]
  <2>1. request \in Requests /\ package = Pruned(request)
    BY <1>2, TopFacts
  <2>2. package[nd.callee].params = request.fns[nd.callee].params
    BY <1>4, <2>1, PrunedFacts
  <2> QED
    BY <1>2, <2>2 DEF inductionWidth
<1> QED
  BY <1>1, <1>2, <1>4, <1>6, <1>7, <1>8

LEMMA FailOverflowKeeps ==
  ASSUME EvaluationIsRight, FailOverflow
  PROVE  EvaluationIsRight'
<1> DEFINE how == Failed("overflow")
<1>1. Evaluating /\ Ends(how)
  BY InLoopFacts DEF FailOverflow
<1>2. how.at = "error" /\ how.why = "overflow"
  BY DEF Failed
<1> HIDE DEF how
<1> QED
  BY <1>1, <1>2, Stops

LEMMA PanicNarrowKeeps ==
  ASSUME EvaluationIsRight, PanicNarrow
  PROVE  EvaluationIsRight'
<1>1. Evaluating /\ Ends(Panicked)
  BY InLoopFacts DEF PanicNarrow
<1>2. Panicked.at = "panic"
  BY DEF Panicked
<1> QED
  BY <1>1, <1>2, Stops

LEMMA EnterIterationKeeps ==
  ASSUME EvaluationIsRight, EnterIteration
  PROVE  EvaluationIsRight'
<1> DEFINE nd == Current(request, frame)
           i == frame.loop[1] * nd.stride
           w == request.fns[nd.callee].params[1]
           args == <<InductionOf(w, i), frame.loop[2]>> \o Tail(OperandsOf(frame, nd.refs))
<1>1. InLoop /\ frame.loop[1] < node.trip /\ ~Overflows /\ ~DoesNotFit
      /\ Enters(node.callee, IterationArguments, frame)
  BY DEF EnterIteration
<1>2. /\ Evaluating /\ AtLive(request, frame, Context)
      /\ node = nd /\ nd.kind = "counted_for" /\ frame.loop # <<>>
      /\ i \in Nat /\ inductionWidth = w
      /\ Operands(nd.refs) = OperandsOf(frame, nd.refs)
  BY <1>1, InLoopFacts
<1>3. induction = i
  BY <1>2 DEF induction
<1>4. i <= MaxUsize
  <2>1. ~(i > MaxUsize) /\ i \in Nat /\ MaxUsize \in Nat
    BY <1>1, <1>2, <1>3, MaxUsizeAssumption DEF Overflows
  <2> HIDE DEF i
  <2> QED
    BY <2>1
<1>5. ~(w > 0 /\ i >= 2^w)
  BY <1>1, <1>2, <1>3 DEF DoesNotFit
<1>6. Calling(request, frame, Context)
  BY <1>1, <1>2, <1>4 DEF Calling, Waits, AtLive
<1>7. /\ FrameRight(request, Activation(nd.callee, args), Within(request, frame, Context))
      /\ Activation(nd.callee, args).fn = nd.callee
  BY <1>2, <1>5, <1>6, IterationIsRight
<1>8. IterationArguments = args
  BY <1>2, <1>3 DEF IterationArguments, InductionValue, InductionOf
<1>9. Enters(nd.callee, args, frame)
  BY <1>1, <1>2, <1>8
<1> HIDE DEF args
<1> QED
  BY <1>2, <1>6, <1>7, <1>9, EntersRight

LEMMA LeaveLoopKeeps ==
  ASSUME EvaluationIsRight, Answered, LeaveLoop
  PROVE  EvaluationIsRight'
<1>1. InLoop /\ frame.loop[1] = node.trip /\ Yields(frame.loop[2])
  BY DEF LeaveLoop
<1>2. /\ Evaluating /\ AtLive(request, frame, Context)
      /\ node = Current(request, frame) /\ node.kind = "counted_for" /\ frame.loop # <<>>
  BY <1>1, InLoopFacts
<1>3. Right(request, frame.loop[2], node.width, Here(frame, Context))
  BY <1>1, <1>2, LoopIsRight
<1> QED
  BY <1>1, <1>2, <1>3, YieldsRight

\* A value goes back to the node that asked for it.
LEMMA ReturnKeeps ==
  ASSUME EvaluationIsRight, Answered, Return
  PROVE  EvaluationIsRight'
<1> DEFINE r == request
           caller == frames[2]
           inv == ContextAt(r, frames, Len(frames) - 1)
           nd == Current(r, caller)
           value == frame.values[function.ret]
           h == Resumed(caller, value)
           t == <<h>> \o SubSeq(frames, 3, Len(frames))
<1>1. /\ Evaluating /\ Len(frame.values) = Len(function.nodes) /\ Len(frames) > 1
      /\ frames' = t /\ UNCHANGED <<request, package, outcome>>
  BY DEF Return, Finishing
<1>2. /\ r \in Requests /\ package = Pruned(r) /\ StackRight(r, frames)
      /\ FrameRight(r, frame, Context)
  BY <1>1, TopFacts
<1>3. /\ FrameRight(r, caller, inv) /\ Waits(r, caller, frame.fn)
      /\ FrameRight(r, frame, Within(r, caller, inv))
  BY <1>1, <1>2, CallerIsRight DEF frame
<1>4. function.ret = r.fns[frame.fn].ret /\ Len(function.nodes) = Len(r.fns[frame.fn].nodes)
  BY <1>2, NodeIs DEF function
<1>5. IsAtNode(r, caller) /\ nd.callee = frame.fn /\ nd.kind \in {"invoke", "counted_for"}
  BY <1>3 DEF Waits
<1>6. Calling(r, caller, inv)
  BY <1>2, <1>3, <1>5 DEF Calling, AtLive
<1>7. NodeAt(caller) = nd
  <2>1. /\ Len(caller.values) < Len(package[caller.fn].nodes) =>
             NodeAt(caller) = IF IsAtNode(r, caller) THEN nd ELSE Removed
        /\ Len(package[caller.fn].nodes) = Len(r.fns[caller.fn].nodes)
    BY <1>2, <1>3, NodeIs
  <2> QED
    BY <1>5, <2>1 DEF IsAtNode
<1>8. Right(r, value, nd.width, R!CalledSite(asRequest(r), Here(caller, inv), KeyOf(r, caller)))
  BY <1>1, <1>3, <1>4, <1>5, <1>6, ReturnedIsRight
<1> HIDE DEF value, caller
<1>9. FrameRight(r, h, inv) /\ h.fn = caller.fn
  <2>1. CASE nd.kind = "invoke"
    <3>1. h = With(caller, value)
      BY <1>7, <2>1 DEF Resumed
    <3>2. Right(r, value, nd.width, Here(caller, inv))
      BY <1>6, <1>8, <2>1, InvokeIsRight
    <3> QED
      BY <1>2, <1>3, <1>5, <3>1, <3>2, ValueGiven DEF IsAtNode
  <2>2. CASE nd.kind = "counted_for"
    <3>1. h = LoopAt(caller, caller.loop[1] + 1, value)
      BY <1>7, <2>2 DEF Resumed, LoopAt
    <3> QED
      BY <1>6, <1>8, <2>2, <3>1, LoopAdvanced
  <2> QED
    BY <1>5, <2>1, <2>2
<1> HIDE DEF h
<1>10. StackRight(r, t)
  BY <1>1, <1>2, <1>9, TopReturns DEF caller
<1>11. t # <<>>
  <2> DEFINE rest == SubSeq(frames, 3, Len(frames))
             S == {frames[i] : i \in 1..Len(frames)}
  <2>1. frames \in Seq(S) /\ Len(frames) \in Nat
    BY <1>2, ListElements DEF StackRight, IsList
  <2>2. \A i \in 3..Len(frames) : frames[i] \in S
    BY <2>1
  <2> HIDE DEF S
  <2>3. rest \in Seq(S)
    BY <2>1, <2>2, SubSeqProperties
  <2> HIDE DEF rest
  <2>4. <<h>> \o rest # <<>>
    BY <2>3, SeqIsList, OneMoreBefore
  <2> QED
    BY <2>4 DEF rest
<1> QED
  BY <1>1, <1>10, <1>11, GoesOn

\* What the outermost activation returns is the result.
LEMMA FinishKeeps ==
  ASSUME EvaluationIsRight, Finish
  PROVE  EvaluationIsRight'
<1> DEFINE r == request
           entry == r.fns[r.top]
           value == frame.values[function.ret]
           how == Returned(value)
<1>1. /\ Evaluating /\ Len(frame.values) = Len(function.nodes) /\ Len(frames) = 1 /\ Ends(how)
  BY DEF Finish, Finishing
<1>2. /\ r \in Requests /\ package = Pruned(r) /\ FrameRight(r, frame, Context)
  BY <1>1, TopFacts
<1>3. function.ret = r.fns[frame.fn].ret /\ Len(function.nodes) = Len(r.fns[frame.fn].nodes)
  BY <1>2, NodeIs DEF function
<1>4. Context = <<>>
  <2> DEFINE C == Context
  <2>1. C = [j \in 1..0 |-> KeyOf(r, At(frames, j))]
    BY <1>1 DEF Context, ContextAt
  <2>2. C = [j \in 1..0 |-> C[j]] /\ 0 \in Nat
    BY <2>1
  <2> HIDE DEF C
  <2>3. C = <<>>
    BY <2>2, MakeList, EmptyList
  <2> QED
    BY <2>3 DEF C
<1>5. frame.fn = r.top /\ r.top \in DOMAIN r.fns /\ ValuesRight(r, frame, <<>>)
  BY <1>2, <1>4 DEF FrameRight, R!FunctionIn, asRequest
<1>6. entry.ret \in Kept(entry) /\ entry.ret \in 1..Len(frame.values) /\ entry.nodes[entry.ret].width \in Nat
  <2>1. IsFunction(entry) /\ \A k \in 1..Len(entry.nodes) : entry.nodes[k].width \in Nat
    BY <1>2, <1>5, RequestFacts
  <2>2. entry.ret \in 1..Len(entry.nodes)
    BY <2>1 DEF IsFunction
  <2> QED
    BY <1>1, <1>3, <1>5, <2>1, <2>2, KeptIsClosed
<1>7. Right(r, value, entry.nodes[entry.ret].width, <<r.top, entry.ret, <<>>>>)
  BY <1>3, <1>5, <1>6 DEF ValuesRight
<1>8. R!ResultSite(asRequest(r)) = <<r.top, entry.ret, <<>>>>
  BY DEF R!ResultSite, asRequest
<1>9. how.at = "value" /\ how.value = value
  BY DEF Returned
<1>10. value.width = entry.nodes[entry.ret].width
  BY <1>6, <1>7, WordFacts DEF Right
<1> HIDE DEF how, value
<1>11. LET concrete == Of(r, R!ResultSite(asRequest(r))) IN
       concrete.ok /\ how.value.n = concrete.value /\ how.value.width = entry.nodes[entry.ret].width
  BY <1>7, <1>8, <1>9, <1>10 DEF Right
<1> QED
  BY <1>1, <1>9, <1>11, Stops

LEMMA InitIsRight ==
  ASSUME Init
  PROVE  EvaluationIsRight
<1>1. request \in Requests /\ package = request.fns /\ frames = <<>> /\ outcome = Pending
  BY DEF Init
<1>2. StackRight(request, <<>>)
  BY EmptyList DEF StackRight
<1>3. outcome.at = "pending"
  BY <1>1 DEF Pending
<1>4. MergedMatchesReference
  BY <1>3 DEF MergedMatchesReference
<1> QED
  BY <1>1, <1>2, <1>3, <1>4 DEF EvaluationIsRight

LEMMA NextKeeps ==
  ASSUME EvaluationIsRight, Answered, PureNodesDenote(AllWords), [Next]_vars
  PROVE  EvaluationIsRight'
<1>1. CASE Start
  BY <1>1, StartKeeps
<1>2. CASE SkipRemoved
  BY <1>2, SkipRemovedKeeps
<1>3. CASE GetParam
  BY <1>3, GetParamKeeps
<1>4. CASE FailNode
  BY <1>4, FailNodeKeeps
<1>5. CASE ApplyNode
  BY <1>5, ApplyNodeKeeps
<1>6. CASE MergeCases
  BY <1>6, MergeCasesKeeps
<1>7. CASE EnterCallee
  BY <1>7, EnterCalleeKeeps
<1>8. CASE EnterLoop
  BY <1>8, EnterLoopKeeps
<1>9. CASE FailOverflow
  BY <1>9, FailOverflowKeeps
<1>10. CASE PanicNarrow
  BY <1>10, PanicNarrowKeeps
<1>11. CASE EnterIteration
  BY <1>11, EnterIterationKeeps
<1>12. CASE LeaveLoop
  BY <1>12, LeaveLoopKeeps
<1>13. CASE Return
  BY <1>13, ReturnKeeps
<1>14. CASE Finish
  BY <1>14, FinishKeeps
<1>15. CASE UNCHANGED vars
  BY <1>15 DEF vars, EvaluationIsRight, MergedMatchesReference
<1>16. CASE Terminated
  BY <1>15, <1>16 DEF Terminated
<1> QED
  BY <1>1, <1>2, <1>3, <1>4, <1>5, <1>6, <1>7, <1>8, <1>9, <1>10, <1>11, <1>12, <1>13, <1>14, <1>15,
     <1>16 DEF Next

-----------------------------------------------------------------------------
(***************************************************************************)
(* The invariant, and what it says of the value that is returned.          *)
(***************************************************************************)
\* Throughout an evaluation, every value that any activation has for a node has
\* the outcome that the program gives the node in that activation's context.
THEOREM EvaluationStaysRight ==
  ASSUME Answered, PureNodesDenote(AllWords)
  PROVE  Spec => []EvaluationIsRight
<1>1. Init => EvaluationIsRight
  BY InitIsRight
<1>2. EvaluationIsRight /\ [Next]_vars => EvaluationIsRight'
  BY NextKeeps
<1> QED
  BY <1>1, <1>2, PTL DEF Spec

\* What evaluate_parsed returns for an assignment of the leaves is what
\* the program computes for it, evaluating only what the assignment selects.
THEOREM MergedAgreesWithReference ==
  ASSUME Answered, PureNodesDenote(AllWords)
  PROVE  Spec => []MergedMatchesReference
<1>1. Spec => []EvaluationIsRight
  BY EvaluationStaysRight
<1>2. EvaluationIsRight => MergedMatchesReference
  BY DEF EvaluationIsRight
<1> QED
  BY <1>1, <1>2, PTL

================================================================================
