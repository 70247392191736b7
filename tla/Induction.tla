------------------------------- MODULE Induction -------------------------------
(***************************************************************************)
(* Induction over the naturals for provers that reason about sets: a set   *)
(* of naturals that contains 0 and is closed under successor contains all  *)
(* of them.  From it, what the models need of numbers that no prover knows *)
(* by itself: powers of two, the bits of a number, and the values of a     *)
(* recursive function; and what they need of lists.                        *)
(***************************************************************************)
EXTENDS Numbers, Lists, Integers, FiniteSets, FunctionTheorems, FiniteSetTheorems,
        SequenceTheorems, WellFoundedInduction, TLAPS

\* Every nonempty set of naturals has a least element.
LEMMA LeastExists ==
  ASSUME NEW S, S \subseteq Nat, S # {}
  PROVE  \E least \in S : \A y \in S : least <= y
<1>1. PICK x \in S : \A y \in S : ~(<<y, x>> \in OpToRel(<, Nat))
  BY NatLessThanWellFounded, WFMin
<1>2. \A y \in S : ~(y < x)
  BY <1>1 DEF OpToRel
<1>3. \A y \in S : x <= y
  BY <1>2
<1> QED
  BY <1>3

\* A set that contains 0 and the successor of each of its naturals contains every natural.
LEMMA SetInduction ==
  ASSUME NEW S, 0 \in S, \A n \in Nat : n \in S => n + 1 \in S
  PROVE  Nat \subseteq S
<1> SUFFICES ASSUME Nat \ S # {} PROVE FALSE
  OBVIOUS
<1>1. PICK least \in Nat \ S : \A y \in Nat \ S : least <= y
  BY LeastExists
<1>2. least # 0
  BY <1>1
<1>3. least - 1 \in Nat /\ ~(least <= least - 1) /\ (least - 1) + 1 = least
  BY <1>2
<1>4. least - 1 \in S
  BY <1>1, <1>3
<1> QED
  BY <1>1, <1>3, <1>4

-----------------------------------------------------------------------------
(***************************************************************************)
(* Powers of two count subsets.                                            *)
(***************************************************************************)
LEMMA PowerCountsSubsets ==
  ASSUME NEW n \in Nat
  PROVE  IsFiniteSet(SUBSET (1..n)) /\ Cardinality(SUBSET (1..n)) = 2^n /\ 2^n \in Nat
<1>1. IsFiniteSet(1..n) /\ Cardinality(1..n) = n
  BY FS_Interval
<1>2. IsFiniteSet(SUBSET (1..n)) /\ Cardinality(SUBSET (1..n)) = 2^Cardinality(1..n)
  BY <1>1, FS_SUBSET
<1> QED
  BY <1>1, <1>2, FS_CardinalityType

\* Half of the subsets of 1..n+1 contain n + 1.
LEMMA PowerDoubles ==
  ASSUME NEW n \in Nat
  PROVE  2^(n + 1) = 2^n + 2^n
<1> DEFINE Without == SUBSET (1..n)
           With == {s \in SUBSET (1..(n + 1)) : n + 1 \in s}
           Add == [s \in Without |-> s \cup {n + 1}]
<1>1. n + 1 \in Nat /\ n + 1 \notin 1..n /\ 1..(n + 1) = 1..n \cup {n + 1}
  OBVIOUS
<1>2. /\ IsFiniteSet(Without) /\ Cardinality(Without) = 2^n /\ 2^n \in Nat
      /\ Cardinality(SUBSET (1..(n + 1))) = 2^(n + 1)
  BY <1>1, PowerCountsSubsets
<1>3. Add \in Bijection(Without, With)
  <2>1. Add \in [Without -> With]
    BY <1>1
  <2>2. \A s, t \in Without : Add[s] = Add[t] => s = t
    BY <1>1
  <2>3. \A s \in With : s \ {n + 1} \in Without /\ Add[s \ {n + 1}] = s
    BY <1>1
  <2> HIDE DEF Add, With, Without
  <2>4. Add \in Injection(Without, With)
    BY <2>1, <2>2, Fun_IsInj
  <2>5. Add \in Surjection(Without, With)
    BY <2>1, <2>3, Fun_IsSurj
  <2> QED
    BY <2>4, <2>5 DEF Bijection
<1>4. IsFiniteSet(With) /\ Cardinality(With) = 2^n
  <2> HIDE DEF Add, With, Without
  <2>1. ExistsBijection(Without, With)
    BY <1>3 DEF ExistsBijection
  <2> QED
    BY <1>2, <1>3, <2>1, FS_Bijection
<1>5. Without \cap With = {} /\ Without \cup With = SUBSET (1..(n + 1))
  BY <1>1
<1> HIDE DEF With, Without
<1>6. Cardinality(Without \cup With) = 2^n + 2^n
  BY <1>2, <1>4, <1>5, FS_Union, FS_EmptySet
<1> QED
  BY <1>2, <1>5, <1>6

\* A power of two is a positive natural, and no less than one.
LEMMA PowerIsPositive ==
  ASSUME NEW n \in Nat
  PROVE  2^n \in Nat \ {0}
<1> DEFINE S == {k \in Nat : 2^k \in Nat \ {0}}
<1>1. 0 \in S
  OBVIOUS
<1>2. ASSUME NEW k \in Nat, k \in S PROVE k + 1 \in S
  BY <1>2, PowerDoubles
<1> HIDE DEF S
<1>3. n \in S
  BY <1>1, <1>2, SetInduction
<1> QED
  BY <1>3 DEF S

-----------------------------------------------------------------------------
(***************************************************************************)
(* Division by a positive natural, and the bits of a number: bit 0 is its  *)
(* remainder by two, the other bits are those of its half.                 *)
(***************************************************************************)
LEMMA Division ==
  ASSUME NEW n \in Nat, NEW p \in Nat \ {0}
  PROVE  n = p * (n \div p) + (n % p) /\ n % p \in 0..(p - 1) /\ n \div p \in Nat
OBVIOUS

LEMMA DivisionIsUnique ==
  ASSUME NEW p \in Nat \ {0}, NEW q \in Nat, NEW r \in 0..(p - 1),
         NEW n, n = p * q + r
  PROVE  n \div p = q /\ n % p = r
OBVIOUS

LEMMA BitsOfHalf ==
  ASSUME NEW n \in Nat, NEW i \in Nat
  PROVE  /\ (n \div 2^0) % 2 = n % 2
         /\ (n \div 2^(i + 1)) % 2 = ((n \div 2) \div 2^i) % 2
<1> DEFINE p == 2^i
           m == n \div 2
           b == n % 2
           q == m \div p
           r == m % p
<1>1. p \in Nat \ {0} /\ 2^(i + 1) = p + p /\ 2^0 = 1
  BY PowerIsPositive, PowerDoubles
<1> HIDE DEF p
<1>2. n = 2 * m + b /\ b \in 0..1 /\ m \in Nat
  BY Division
<1> HIDE DEF m, b
<1>3. m = p * q + r /\ r \in 0..(p - 1) /\ q \in Nat
  BY <1>1, <1>2, Division
<1> HIDE DEF q, r
<1>4. n = (p + p) * q + (2 * r + b) /\ 2 * r + b \in 0..((p + p) - 1) /\ p + p \in Nat \ {0}
  BY <1>1, <1>2, <1>3
<1>5. n \div (p + p) = q
  BY <1>3, <1>4, DivisionIsUnique
<1>6. n \div 1 = n
  OBVIOUS
<1> QED
  BY <1>1, <1>5, <1>6 DEF p, m, q

\* Halving what is left of a number below 2^(r+1).
LEMMA HalfOfLowBits ==
  ASSUME NEW n \in Nat, NEW r \in Nat
  PROVE  /\ n % 2^(r + 1) \in Nat
         /\ (n % 2^(r + 1)) \div 2 = (n \div 2) % 2^r
         /\ (n % 2^(r + 1)) % 2 = n % 2
<1> DEFINE p == 2^r
           m == n \div 2
           b == n % 2
           q == m \div p
           l == m % p
<1>1. p \in Nat \ {0} /\ 2^(r + 1) = p + p
  BY PowerIsPositive, PowerDoubles
<1> HIDE DEF p
<1>2. n = 2 * m + b /\ b \in 0..1 /\ m \in Nat
  BY Division
<1> HIDE DEF m, b
<1>3. m = p * q + l /\ l \in 0..(p - 1) /\ q \in Nat
  BY <1>1, <1>2, Division
<1> HIDE DEF q, l
<1>4. n = (p + p) * q + (2 * l + b) /\ 2 * l + b \in 0..((p + p) - 1) /\ p + p \in Nat \ {0}
  BY <1>1, <1>2, <1>3
<1>5. n % (p + p) = 2 * l + b
  BY <1>3, <1>4, DivisionIsUnique
<1>6. (2 * l + b) \div 2 = l /\ (2 * l + b) % 2 = b
  <2>1. l \in Nat /\ b \in 0..(2 - 1) /\ 2 \in Nat \ {0}
    BY <1>1, <1>2, <1>3
  <2> QED
    BY <2>1, DivisionIsUnique
<1>7. n % 2^(r + 1) = 2 * l + b /\ 2 * l + b \in Nat
  BY <1>1, <1>4, <1>5
<1> QED
  BY <1>6, <1>7 DEF p, m, b, l

\* The low bits of a number are its bits.
LEMMA LowBitsAgree ==
  ASSUME NEW r \in Nat
  PROVE  \A n \in Nat : /\ n % 2^r \in 0..(2^r - 1)
                        /\ \A i \in 0..(r - 1) : ((n % 2^r) \div 2^i) % 2 = (n \div 2^i) % 2
<1> DEFINE Agree(k) == \A n \in Nat : \A i \in 0..(k - 1) :
                         ((n % 2^k) \div 2^i) % 2 = (n \div 2^i) % 2
           S == {k \in Nat : Agree(k)}
<1>1. 0 \in S
  OBVIOUS
<1>2. ASSUME NEW k \in Nat, k \in S PROVE k + 1 \in S
  <2>1. ASSUME NEW n \in Nat, NEW i \in 0..((k + 1) - 1)
        PROVE  ((n % 2^(k + 1)) \div 2^i) % 2 = (n \div 2^i) % 2
    <3> DEFINE low == n % 2^(k + 1)
    <3>1. /\ low \in Nat
          /\ low \div 2 = (n \div 2) % 2^k
          /\ low % 2 = n % 2
      BY HalfOfLowBits
    <3> HIDE DEF low
    <3>2. CASE i = 0
      BY <3>1, <3>2, BitsOfHalf DEF low
    <3>3. CASE i # 0
      <4>1. i - 1 \in Nat /\ (i - 1) + 1 = i /\ i - 1 \in 0..(k - 1)
        BY <2>1, <3>3
      <4>2. n \div 2 \in Nat
        BY Division
      <4>3. (((n \div 2) % 2^k) \div 2^(i - 1)) % 2 = ((n \div 2) \div 2^(i - 1)) % 2
        BY <1>2, <4>1, <4>2
      <4>4. /\ (n \div 2^i) % 2 = ((n \div 2) \div 2^(i - 1)) % 2
            /\ (low \div 2^i) % 2 = ((low \div 2) \div 2^(i - 1)) % 2
        BY <3>1, <4>1, BitsOfHalf
      <4> QED
        BY <3>1, <4>3, <4>4 DEF low
    <3> QED
      BY <3>2, <3>3 DEF low
  <2> QED
    BY <2>1
<1> HIDE DEF S
<1>3. r \in S
  BY <1>1, <1>2, SetInduction
<1>4. \A n \in Nat : n % 2^r \in 0..(2^r - 1)
  BY PowerIsPositive, Division
<1> QED
  BY <1>3, <1>4 DEF S

\* Numbers below 2^r with the same r bits are the same number.
LEMMA BitsIdentify ==
  ASSUME NEW r \in Nat
  PROVE  \A m, n \in 0..(2^r - 1) :
           (\A i \in 0..(r - 1) : (m \div 2^i) % 2 = (n \div 2^i) % 2) => m = n
<1> DEFINE Same(k, m, n) == \A i \in 0..(k - 1) : (m \div 2^i) % 2 = (n \div 2^i) % 2
           S == {k \in Nat : \A m, n \in 0..(2^k - 1) : Same(k, m, n) => m = n}
<1>1. 0 \in S
  OBVIOUS
<1>2. ASSUME NEW k \in Nat, k \in S PROVE k + 1 \in S
  <2>1. ASSUME NEW m \in 0..(2^(k + 1) - 1), NEW n \in 0..(2^(k + 1) - 1), Same(k + 1, m, n)
        PROVE  m = n
    <3>1. 2^k \in Nat \ {0} /\ 2^(k + 1) = 2^k + 2^k
      BY PowerIsPositive, PowerDoubles
    <3>2. m \in Nat /\ n \in Nat
      BY <3>1
    <3>3. /\ m = 2 * (m \div 2) + (m % 2) /\ m % 2 \in 0..1
          /\ n = 2 * (n \div 2) + (n % 2) /\ n % 2 \in 0..1
          /\ m \div 2 \in Nat /\ n \div 2 \in Nat
      BY <3>2, Division
    <3>4. m \div 2 \in 0..(2^k - 1) /\ n \div 2 \in 0..(2^k - 1)
      BY <3>1, <3>3
    <3>5. ASSUME NEW i \in 0..(k - 1)
          PROVE  ((m \div 2) \div 2^i) % 2 = ((n \div 2) \div 2^i) % 2
      <4>1. i \in Nat /\ i + 1 \in 0..((k + 1) - 1)
        OBVIOUS
      <4>2. (m \div 2^(i + 1)) % 2 = (n \div 2^(i + 1)) % 2
        BY <2>1, <4>1
      <4> QED
        BY <3>2, <4>1, <4>2, BitsOfHalf
    <3>6. m \div 2 = n \div 2
      BY <1>2, <3>4, <3>5
    <3>7. m % 2 = n % 2
      <4>1. 0 \in 0..((k + 1) - 1)
        OBVIOUS
      <4>2. (m \div 2^0) % 2 = (n \div 2^0) % 2
        BY <2>1, <4>1
      <4> QED
        BY <3>2, <4>2, BitsOfHalf
    <3> QED
      BY <3>3, <3>6, <3>7
  <2> QED
    BY <2>1
<1> HIDE DEF S
<1>3. r \in S
  BY <1>1, <1>2, SetInduction
<1> QED
  BY <1>3 DEF S

-----------------------------------------------------------------------------
\* Setting bit i of a number that does not have it adds 2^i, and leaves the number below 2^w.
LEMMA BitAdded ==
  ASSUME NEW i \in Nat
  PROVE  \A n \in Nat : (n \div 2^i) % 2 = 0 =>
           /\ \A j \in Nat :
                ((n + 2^i) \div 2^j) % 2 = IF j = i THEN 1 ELSE (n \div 2^j) % 2
           /\ \A w \in Nat : i < w /\ n < 2^w => n + 2^i < 2^w
<1> DEFINE Adds(k, n) ==
             /\ \A j \in Nat : ((n + 2^k) \div 2^j) % 2 = IF j = k THEN 1 ELSE (n \div 2^j) % 2
             /\ \A w \in Nat : k < w /\ n < 2^w => n + 2^k < 2^w
           N == {k \in Nat : \A n \in Nat : (n \div 2^k) % 2 = 0 => Adds(k, n)}
<1>1. \A k \in Nat : 2^k \in Nat /\ 2^(k + 1) = 2^k + 2^k
  BY PowerIsPositive, PowerDoubles
<1>2. 2^0 = 1
  OBVIOUS
<1>3. 0 \in N
  <2> SUFFICES ASSUME NEW n \in Nat, (n \div 2^0) % 2 = 0 PROVE Adds(0, n)
    OBVIOUS
  <2> DEFINE h == n \div 2
  <2>1. h \in Nat /\ n = 2 * h /\ n + 1 = 2 * h + 1 /\ n % 2 = 0
    BY BitsOfHalf, Division
  <2> HIDE DEF h
  <2>2. (n + 1) \div 2 = h /\ (n + 1) % 2 = 1 /\ n \div 2 = h
    BY <2>1, DivisionIsUnique
  <2>3. ASSUME NEW j \in Nat
        PROVE  ((n + 1) \div 2^j) % 2 = IF j = 0 THEN 1 ELSE (n \div 2^j) % 2
    <3>1. CASE j = 0
      BY <2>2, <3>1, BitsOfHalf
    <3>2. CASE j # 0
      <4>1. PICK l \in Nat : j = l + 1
        BY <3>2
      <4> DEFINE m == n + 1
      <4>2. m \in Nat /\ m \div 2 = h /\ n \div 2 = h
        BY <2>2
      <4> HIDE DEF m
      <4>3. \A a \in Nat : (a \div 2^(l + 1)) % 2 = ((a \div 2) \div 2^l) % 2
        BY BitsOfHalf
      <4>4. (m \div 2^(l + 1)) % 2 = (h \div 2^l) % 2
        BY <4>2, <4>3
      <4>5. (n \div 2^(l + 1)) % 2 = (h \div 2^l) % 2
        BY <4>2, <4>3
      <4> QED
        BY <4>1, <4>4, <4>5 DEF m
    <3> QED
      BY <3>1, <3>2
  <2>4. ASSUME NEW w \in Nat, 0 < w, n < 2^w PROVE n + 1 < 2^w
    <3>1. PICK v \in Nat : w = v + 1
      BY <2>4
    <3> DEFINE p == 2^v
    <3>2. p \in Nat /\ 2^w = p + p
      BY <1>1, <3>1
    <3> HIDE DEF p
    <3> QED
      BY <2>1, <2>4, <3>2
  <2> QED
    BY <1>2, <2>3, <2>4
<1>4. ASSUME NEW k \in Nat, k \in N PROVE k + 1 \in N
  <2> SUFFICES ASSUME NEW n \in Nat, (n \div 2^(k + 1)) % 2 = 0 PROVE Adds(k + 1, n)
    OBVIOUS
  <2> DEFINE h == n \div 2
             c == 2^k
             r == n % 2
             m == n + 2^(k + 1)
  <2>1. h \in Nat /\ r \in {0, 1} /\ n = 2 * h + r /\ c \in Nat /\ 2^(k + 1) = c + c
    BY <1>1, Division
  <2>2. (h \div 2^k) % 2 = 0
    BY BitsOfHalf
  <2>3. Adds(k, h)
    BY <1>4, <2>1, <2>2
  <2> HIDE DEF h, r, c, Adds
  <2>4. m = 2 * (h + c) + r /\ m \in Nat
    BY <2>1
  <2>5. /\ \A l \in Nat : ((h + c) \div 2^l) % 2 = IF l = k THEN 1 ELSE (h \div 2^l) % 2
        /\ \A v \in Nat : k < v /\ h < 2^v => h + c < 2^v
    BY <2>3 DEF Adds, c
  <2> HIDE DEF m
  <2>6. n \div 2 = h /\ n % 2 = r /\ m \div 2 = h + c /\ m % 2 = r
    BY <2>1, <2>4, DivisionIsUnique
  <2>7. ASSUME NEW j \in Nat
        PROVE  (m \div 2^j) % 2 = IF j = k + 1 THEN 1 ELSE (n \div 2^j) % 2
    <3>1. CASE j = 0
      BY <2>4, <2>6, <3>1, BitsOfHalf
    <3>2. CASE j # 0
      <4>1. PICK l \in Nat : j = l + 1
        BY <3>2
      <4>2. \A a \in Nat : (a \div 2^(l + 1)) % 2 = ((a \div 2) \div 2^l) % 2
        BY BitsOfHalf
      <4>3. (m \div 2^(l + 1)) % 2 = ((h + c) \div 2^l) % 2
        BY <2>4, <2>6, <4>2
      <4>4. (n \div 2^(l + 1)) % 2 = (h \div 2^l) % 2
        BY <2>6, <4>2
      <4> QED
        BY <2>5, <4>1, <4>3, <4>4
    <3> QED
      BY <3>1, <3>2
  <2>8. ASSUME NEW w \in Nat, k + 1 < w, n < 2^w PROVE m < 2^w
    <3>1. PICK v \in Nat : w = v + 1
      BY <2>8
    <3> DEFINE p == 2^v
    <3>2. p \in Nat /\ 2^w = p + p /\ k < v
      BY <1>1, <2>8, <3>1
    <3>3. h < p => h + c < p
      BY <2>5, <3>2
    <3> HIDE DEF p
    <3> QED
      BY <2>1, <2>4, <2>8, <3>2, <3>3
  <2> QED
    BY <2>7, <2>8 DEF Adds, m
<1> HIDE DEF N, Adds
<1>5. i \in N
  BY <1>3, <1>4, SetInduction
<1> QED
  BY <1>5 DEF N, Adds

(***************************************************************************)
(* Folds.  A fold over a finite set is a recursive function on its         *)
(* subsets: the value of a subset is a step from the element picked from   *)
(* it and the value of the others.                                         *)
(***************************************************************************)
FoldsSubsets(g, subsets, base, pick, step) ==
  \A s \in subsets :
    g[s] = IF s = {} THEN base ELSE step[<<pick[s], g[s \ {pick[s]}]>>]

\* There is such a function, and only one, when steps stay in a set V.
LEMMA SubsetRecursion ==
  ASSUME NEW S, IsFiniteSet(S), NEW V, NEW base \in V,
         NEW pick, \A s \in SUBSET S : s # {} => pick[s] \in s,
         NEW step, \A x \in S : \A v \in V : step[<<x, v>>] \in V
  PROVE  \E g \in [SUBSET S -> V] :
           /\ FoldsSubsets(g, SUBSET S, base, pick, step)
           /\ \A h : FoldsSubsets(h, SUBSET S, base, pick, step) =>
                      \A s \in SUBSET S : h[s] = g[s]
<1> DEFINE Small(n) == {s \in SUBSET S : Cardinality(s) <= n}
           Good(n, g) == g \in [Small(n) -> V] /\ FoldsSubsets(g, Small(n), base, pick, step)
           N == {n \in Nat : \E g : Good(n, g)}
<1>1. \A s \in SUBSET S : /\ IsFiniteSet(s) /\ Cardinality(s) \in Nat
                          /\ Cardinality(s) <= Cardinality(S)
                          /\ (Cardinality(s) = 0 <=> s = {})
  BY FS_Subset, FS_CardinalityType, FS_EmptySet
<1>2. \A s \in SUBSET S : s # {} => /\ s \ {pick[s]} \in SUBSET S
                                    /\ Cardinality(s \ {pick[s]}) = Cardinality(s) - 1
  BY <1>1, FS_RemoveElement
<1>3. 0 \in N
  <2> DEFINE g == [s \in Small(0) |-> base]
  <2>1. \A s \in Small(0) : s = {}
    BY <1>1
  <2>2. Good(0, g)
    BY <2>1 DEF FoldsSubsets
  <2> QED
    BY <2>2
<1>4. ASSUME NEW n \in Nat, n \in N PROVE n + 1 \in N
  <2>1. PICK g : Good(n, g)
    BY <1>4
  <2> DEFINE h == [s \in Small(n + 1) |->
                     IF s = {} THEN base ELSE step[<<pick[s], g[s \ {pick[s]}]>>]]
  <2>2. \A s \in Small(n + 1) : s # {} => s \ {pick[s]} \in Small(n) /\ pick[s] \in S
    BY <1>1, <1>2
  <2>3. h \in [Small(n + 1) -> V]
    BY <2>1, <2>2
  <2>4. Small(n) \subseteq Small(n + 1)
    BY <1>1
  <2>5. \A s \in Small(n) : h[s] = g[s]
    BY <2>1, <2>4 DEF FoldsSubsets
  <2>6. FoldsSubsets(h, Small(n + 1), base, pick, step)
    BY <2>2, <2>5 DEF FoldsSubsets
  <2>7. Good(n + 1, h)
    BY <2>3, <2>6
  <2> HIDE DEF Good
  <2> QED
    BY <2>7
<1>5. Cardinality(S) \in N
  <2> HIDE DEF N
  <2> QED
    BY <1>1, <1>3, <1>4, SetInduction
<1>6. PICK g : Good(Cardinality(S), g)
  BY <1>5
<1>7. Small(Cardinality(S)) = SUBSET S
  BY <1>1
<1>8. ASSUME NEW h, FoldsSubsets(h, SUBSET S, base, pick, step)
      PROVE  \A s \in SUBSET S : h[s] = g[s]
  <2> DEFINE M == {n \in Nat : \A s \in SUBSET S : Cardinality(s) = n => h[s] = g[s]}
  <2>1. 0 \in M
    BY <1>1, <1>6, <1>7, <1>8 DEF FoldsSubsets
  <2>2. ASSUME NEW n \in Nat, n \in M PROVE n + 1 \in M
    <3> SUFFICES ASSUME NEW s \in SUBSET S, Cardinality(s) = n + 1 PROVE h[s] = g[s]
      OBVIOUS
    <3>1. s # {} /\ s \ {pick[s]} \in SUBSET S /\ Cardinality(s \ {pick[s]}) = n
      BY <1>1, <1>2
    <3>2. h[s \ {pick[s]}] = g[s \ {pick[s]}]
      BY <2>2, <3>1
    <3> QED
      BY <1>6, <1>7, <1>8, <3>1, <3>2 DEF FoldsSubsets
  <2> HIDE DEF M
  <2>3. Nat \subseteq M
    BY <2>1, <2>2, SetInduction
  <2> QED
    BY <1>1, <2>3 DEF M
<1> QED
  BY <1>6, <1>7, <1>8

\* The greatest member of a set of numbers up to n is one of them.
LEMMA GreatestExists ==
  ASSUME NEW n \in Nat, NEW s, s \subseteq 1..n, s # {}
  PROVE  Max(s) \in s /\ \A y \in s : Max(s) >= y
<1> DEFINE mirror == {n - x : x \in s}
<1>1. mirror \subseteq Nat /\ mirror # {}
  <2>1. \A x \in s : n - x \in Nat
    OBVIOUS
  <2>2. PICK x : x \in s
    OBVIOUS
  <2>3. n - x \in mirror
    BY <2>2
  <2> QED
    BY <2>1, <2>3
<1>2. PICK least \in mirror : \A y \in mirror : least <= y
  BY <1>1, LeastExists
<1>3. PICK x \in s : least = n - x
  BY <1>2
<1>4. \A y \in s : x >= y
  <2> SUFFICES ASSUME NEW y \in s PROVE x >= y
    OBVIOUS
  <2>1. n - y \in mirror
    OBVIOUS
  <2>2. n - x <= n - y
    BY <1>2, <1>3, <2>1
  <2> QED
    BY <1>3, <2>2
<1>5. \E z \in s : \A y \in s : z >= y
  BY <1>3, <1>4
<1> QED
  BY <1>5 DEF Max

\* The set of the first k places, from which the greatest is taken away.
LEMMA FirstPlaces ==
  ASSUME NEW n \in Nat, NEW k \in 0..(n - 1)
  PROVE  /\ 1..(k + 1) \in SUBSET (1..n) /\ 1..(k + 1) # {}
         /\ Max(1..(k + 1)) = k + 1 /\ (1..(k + 1)) \ {k + 1} = 1..k
<1>1. /\ 1..(k + 1) \in SUBSET (1..n) /\ k + 1 \in 1..(k + 1) /\ (1..(k + 1)) \ {k + 1} = 1..k
      /\ k + 1 \in Nat
  OBVIOUS
<1>2. Max(1..(k + 1)) \in 1..(k + 1) /\ \A y \in 1..(k + 1) : Max(1..(k + 1)) >= y
  BY <1>1, GreatestExists
<1>3. Max(1..(k + 1)) = k + 1
  BY <1>1, <1>2
<1> QED
  BY <1>1, <1>3

\* A fold over the places 1..n whose steps stay in V has a recursive function.
StaysIn(n, V, base, step) ==
  n \in Nat /\ base \in V /\ \A k \in 1..n : \A v \in V : step[<<k, v>>] \in V

FoldsPlaces(g, n, V, base, step) ==
  /\ g = [s \in SUBSET (1..n) |-> g[s]]
  /\ \A s \in SUBSET (1..n) :
       g[s] \in V /\ g[s] = IF s = {} THEN base ELSE step[<<Max(s), g[s \ {Max(s)}]>>]

LEMMA PlacesRecursion ==
  ASSUME NEW n, NEW V, NEW base, NEW step, StaysIn(n, V, base, step)
  PROVE  \E g : FoldsPlaces(g, n, V, base, step)
<1>0. n \in Nat /\ base \in V /\ \A k \in 1..n : \A v \in V : step[<<k, v>>] \in V
  BY DEF StaysIn
<1> DEFINE S == 1..n
           pick == [s \in SUBSET S |-> Max(s)]
<1>1. IsFiniteSet(S)
  BY <1>0, FS_Interval
<1>2. \A s \in SUBSET S : s # {} => pick[s] \in s /\ pick[s] = Max(s)
  BY <1>0, GreatestExists
<1> HIDE DEF pick
<1>3. PICK g \in [SUBSET S -> V] : FoldsSubsets(g, SUBSET S, base, pick, step)
  BY <1>0, <1>1, <1>2, SubsetRecursion
<1>4. \A s \in SUBSET S : g[s] = IF s = {} THEN base ELSE step[<<Max(s), g[s \ {Max(s)}]>>]
  BY <1>2, <1>3 DEF FoldsSubsets
<1> QED
  BY <1>3, <1>4 DEF FoldsPlaces

\* What a function that is such a fold comes to, one place after the other.
Runs(u, n, V, base, step) ==
  /\ u \in [0..n -> V] /\ u[0] = base
  /\ \A k \in 0..(n - 1) : u[k + 1] = step[<<k + 1, u[k]>>]

\* What is known of such a function that need not stay in V.
MayFold(iter, n, V, base, step) ==
  /\ iter[{}] = base
  /\ \A s \in SUBSET (1..n) :
       s # {} /\ iter[s \ {Max(s)}] \in V => iter[s] = step[<<Max(s), iter[s \ {Max(s)}]>>]

LEMMA PlacesRun ==
  ASSUME NEW n, NEW V, NEW base, NEW step, StaysIn(n, V, base, step),
         NEW iter, MayFold(iter, n, V, base, step)
  PROVE  \E u : Runs(u, n, V, base, step) /\ u[n] = iter[1..n]
<1>0. /\ n \in Nat /\ base \in V /\ \A k \in 1..n : \A v \in V : step[<<k, v>>] \in V
      /\ iter[{}] = base
      /\ \A s \in SUBSET (1..n) :
           s # {} /\ iter[s \ {Max(s)}] \in V => iter[s] = step[<<Max(s), iter[s \ {Max(s)}]>>]
  BY DEF StaysIn, MayFold
<1> DEFINE N == {k \in Nat : k <= n => iter[1..k] \in V}
           u == [k \in 0..n |-> iter[1..k]]
<1>1. 1..0 = {}
  OBVIOUS
<1>2. ASSUME NEW k \in 0..(n - 1), iter[1..k] \in V
      PROVE  iter[1..(k + 1)] = step[<<k + 1, iter[1..k]>>] /\ iter[1..(k + 1)] \in V
  <2>1. /\ 1..(k + 1) \in SUBSET (1..n) /\ 1..(k + 1) # {} /\ k + 1 \in 1..n
        /\ Max(1..(k + 1)) = k + 1 /\ (1..(k + 1)) \ {k + 1} = 1..k
    <3>1. n \in Nat
      BY <1>0
    <3>2. k + 1 \in 1..n
      BY <3>1
    <3> QED
      BY <3>1, <3>2, FirstPlaces
  <2>2. iter[1..(k + 1)] = step[<<k + 1, iter[1..k]>>]
    BY <1>0, <1>2, <2>1
  <2> QED
    BY <1>0, <1>2, <2>1, <2>2
<1>3. 0 \in N
  BY <1>0, <1>1
<1>4. ASSUME NEW k \in Nat, k \in N PROVE k + 1 \in N
  <2> SUFFICES ASSUME k + 1 <= n PROVE iter[1..(k + 1)] \in V
    OBVIOUS
  <2>1. k \in 0..(n - 1) /\ iter[1..k] \in V
    BY <1>0, <1>4
  <2> QED
    BY <1>2, <2>1
<1> HIDE DEF N
<1>5. \A k \in 0..n : iter[1..k] \in V
  <2>1. Nat \subseteq N
    BY <1>3, <1>4, SetInduction
  <2> QED
    BY <1>0, <2>1 DEF N
<1>6. Runs(u, n, V, base, step)
  <2>1. u \in [0..n -> V] /\ u[0] = base
    BY <1>0, <1>1, <1>5
  <2>2. ASSUME NEW k \in 0..(n - 1) PROVE u[k + 1] = step[<<k + 1, u[k]>>]
    <3>1. k \in 0..n /\ k + 1 \in 0..n
      BY <1>0
    <3> QED
      BY <1>2, <1>5, <3>1
  <2> QED
    BY <2>1, <2>2 DEF Runs
<1> QED
  BY <1>0, <1>6

-----------------------------------------------------------------------------
(***************************************************************************)
(* The number made of a set of bits.                                       *)
(***************************************************************************)
\* The number with given bits has these and no others.
LEMMA FromBitsHasBits ==
  ASSUME NEW w \in Nat, NEW S, S \subseteq 0..(w - 1)
  PROVE  /\ FromBits(S) \in Nat /\ FromBits(S) < 2^w
         /\ \A i \in Nat : Bit(FromBits(S), i) = IF i \in S THEN 1 ELSE 0
<1>0. IsFiniteSet(S) /\ S \subseteq Nat
  <2>1. IsFiniteSet(0..(w - 1)) /\ 0..(w - 1) \subseteq Nat
    BY FS_Interval
  <2>2. S \in SUBSET (0..(w - 1))
    OBVIOUS
  <2>3. IsFiniteSet(S)
    BY <2>1, <2>2, FS_Subset
  <2> QED
    BY <2>1, <2>2, <2>3
<1> DEFINE some == [s \in SUBSET S |-> CHOOSE x \in s : TRUE]
           step == [p \in S \X Nat |-> 2^p[1] + p[2]]
           Steps(h) == h = [s \in SUBSET S |->
                              IF s = {} THEN 0
                              ELSE 2^(CHOOSE x \in s : TRUE) + h[s \ {CHOOSE x \in s : TRUE}]]
           iter == CHOOSE h : Steps(h)
           Has(n, s) == /\ n \in Nat /\ n < 2^w
                        /\ \A i \in Nat : Bit(n, i) = IF i \in s THEN 1 ELSE 0
<1>1. FromBits(S) = iter[S]
  BY DEF FromBits, MapThenSumSet, MapThenFoldSet
<1>2. \A s \in SUBSET S : s # {} => some[s] \in s
  OBVIOUS
<1>3. \A x \in S : \A v \in Nat : step[<<x, v>>] = 2^x + v /\ step[<<x, v>>] \in Nat
  BY <1>0, PowerIsPositive
<1>4. \A h : Steps(h) <=> h = [s \in SUBSET S |->
                               IF s = {} THEN 0 ELSE 2^some[s] + h[s \ {some[s]}]]
  OBVIOUS
<1> HIDE DEF some, step, Steps
<1>5. PICK g \in [SUBSET S -> Nat] : FoldsSubsets(g, SUBSET S, 0, some, step)
  <2>1. 0 \in Nat /\ \A x \in S : \A v \in Nat : step[<<x, v>>] \in Nat
    BY <1>3
  <2> HIDE <1>3
  <2> QED
    BY <1>0, <1>2, <2>1, SubsetRecursion
<1>6. \A s \in SUBSET S : s # {} => some[s] \in S /\ s \ {some[s]} \in SUBSET S
  BY <1>2
<1>7. \A s \in SUBSET S : s # {} =>
        step[<<some[s], g[s \ {some[s]}]>>] = 2^some[s] + g[s \ {some[s]}]
  BY <1>3, <1>6
<1>8. Steps(g)
  BY <1>4, <1>5, <1>7 DEF FoldsSubsets
<1>9. Steps(iter)
  BY <1>8
<1> HIDE DEF iter
<1>10. \A s \in SUBSET S : iter[s] = IF s = {} THEN 0 ELSE 2^some[s] + iter[s \ {some[s]}]
  BY <1>4, <1>9
<1>11. \A s \in SUBSET S : /\ IsFiniteSet(s) /\ Cardinality(s) \in Nat
                           /\ (Cardinality(s) = 0 <=> s = {})
  BY <1>0, FS_Subset, FS_CardinalityType, FS_EmptySet
<1> DEFINE N == {n \in Nat : \A s \in SUBSET S : Cardinality(s) = n => Has(iter[s], s)}
<1>12. 0 \in N
  <2>1. \A s \in SUBSET S : Cardinality(s) = 0 => iter[s] = 0
    BY <1>10, <1>11
  <2>2. Has(0, {})
    <3>1. ASSUME NEW i \in Nat PROVE (0 \div 2^i) % 2 = 0
      <4> DEFINE p == 2^i
      <4>1. p \in Nat \ {0} /\ 0 = p * 0 + 0 /\ 0 \in 0..(p - 1)
        BY PowerIsPositive
      <4> HIDE DEF p
      <4>2. 0 \div p = 0
        BY <4>1, DivisionIsUnique
      <4>3. 0 % 2 = 0
        OBVIOUS
      <4> QED
        BY <4>2, <4>3 DEF p
    <3>2. 0 < 2^w
      BY PowerIsPositive
    <3> QED
      BY <3>1, <3>2 DEF Bit
  <2> HIDE DEF Has
  <2> QED
    BY <1>11, <2>1, <2>2
<1>13. ASSUME NEW n \in Nat, n \in N PROVE n + 1 \in N
  <2>0. n + 1 \in Nat
    OBVIOUS
  <2> HIDE DEF Has
  <2> SUFFICES \A s \in SUBSET S : Cardinality(s) = n + 1 => Has(iter[s], s)
    BY <2>0
  <2> SUFFICES ASSUME NEW s \in SUBSET S, Cardinality(s) = n + 1 PROVE Has(iter[s], s)
    OBVIOUS
  <2> DEFINE x == some[s]
  <2>1. s # {} /\ x \in s /\ x \in S
    <3>1. Cardinality(s) # 0
      OBVIOUS
    <3>2. s # {}
      BY <1>11, <3>1
    <3> QED
      BY <1>2, <3>2
  <2> HIDE DEF x
  <2>2. s \ {x} \in SUBSET S /\ Cardinality(s \ {x}) = n
    <3>1. Cardinality(s \ {x}) = Cardinality(s) - 1
      BY <1>11, <2>1, FS_RemoveElement
    <3>2. Cardinality(s) - 1 = n
      OBVIOUS
    <3>3. s \ {x} \in SUBSET S
      OBVIOUS
    <3> QED
      BY <3>1, <3>2, <3>3
  <2> DEFINE rest == s \ {x}
             t == iter[rest]
  <2>3. Has(t, rest)
    BY <1>13, <2>2
  <2>4. x \in Nat /\ x < w /\ x \in s /\ x \notin rest
    BY <1>0, <2>1
  <2>5. iter[s] = 2^x + t
    BY <1>10, <2>1 DEF x
  <2>6. \A i \in Nat : i \in s <=> i = x \/ i \in rest
    BY <2>1
  <2> HIDE DEF t, rest
  <2>7. t \in Nat /\ t < 2^w /\ \A i \in Nat : (t \div 2^i) % 2 = IF i \in rest THEN 1 ELSE 0
    BY <2>3 DEF Has, Bit
  <2>8. /\ \A j \in Nat : ((t + 2^x) \div 2^j) % 2 = IF j = x THEN 1 ELSE (t \div 2^j) % 2
        /\ t + 2^x < 2^w
    BY <2>4, <2>7, BitAdded
  <2>9. iter[s] = t + 2^x /\ t + 2^x \in Nat
    BY <2>4, <2>5, <2>7, PowerIsPositive
  <2>10. \A i \in Nat : Bit(t + 2^x, i) = IF i \in s THEN 1 ELSE 0
    BY <2>6, <2>7, <2>8 DEF Bit
  <2> QED
    BY <2>8, <2>9, <2>10 DEF Has
<1> HIDE DEF N, Has
<1>14. Cardinality(S) \in N
  BY <1>11, <1>12, <1>13, SetInduction
<1> QED
  BY <1>1, <1>14 DEF N, Has

\* The bits of a number that fits a width are within the width.
LEMMA HighBitsAreClear ==
  ASSUME NEW w \in Nat, NEW n \in Nat, n < 2^w, NEW i \in Nat, i >= w
  PROVE  Bit(n, i) = 0
<1> DEFINE S == {k \in Nat : 2^w <= 2^(w + k)}
<1>1. 0 \in S
  BY PowerIsPositive
<1>2. ASSUME NEW k \in Nat, k \in S PROVE k + 1 \in S
  <2>1. w + k \in Nat /\ w + (k + 1) = (w + k) + 1
    OBVIOUS
  <2>2. 2^((w + k) + 1) = 2^(w + k) + 2^(w + k) /\ 2^(w + k) \in Nat /\ 2^w \in Nat
    BY <2>1, PowerDoubles, PowerIsPositive
  <2> QED
    BY <1>2, <2>1, <2>2
<1>3. i - w \in S
  <2> HIDE DEF S
  <2> QED
    BY <1>1, <1>2, SetInduction
<1> DEFINE p == 2^i
           q == 2^w
<1>4. w + (i - w) = i
  OBVIOUS
<1>5. p \in Nat \ {0} /\ q \in Nat /\ q <= p
  BY <1>3, <1>4, PowerIsPositive
<1>6. n < q
  OBVIOUS
<1> HIDE DEF p, q
<1>7. n = p * 0 + n /\ n \in 0..(p - 1)
  BY <1>5, <1>6
<1>8. n \div p = 0
  BY <1>5, <1>7, DivisionIsUnique
<1>9. 0 % 2 = 0
  OBVIOUS
<1> QED
  BY <1>8, <1>9 DEF p, Bit

\* A number is the one with its bits.
LEMMA NumberOfBits ==
  ASSUME NEW w \in Nat, NEW n \in Nat, n < 2^w, NEW S,
         \A i \in Nat : i \in S <=> i < w /\ Bit(n, i) = 1, S \subseteq Nat
  PROVE  FromBits(S) = n
<1>1. S \subseteq 0..(w - 1)
  OBVIOUS
<1>2. /\ FromBits(S) \in Nat /\ FromBits(S) < 2^w
      /\ \A i \in Nat : Bit(FromBits(S), i) = IF i \in S THEN 1 ELSE 0
  BY <1>1, FromBitsHasBits
<1>3. \A i \in 0..(w - 1) : Bit(n, i) \in {0, 1}
  <2> SUFFICES ASSUME NEW i \in 0..(w - 1) PROVE (n \div 2^i) % 2 \in {0, 1}
    BY DEF Bit
  <2>1. n \div 2^i \in Nat
    BY PowerIsPositive, Division
  <2> QED
    BY <2>1
<1>4. \A i \in 0..(w - 1) : Bit(FromBits(S), i) = Bit(n, i)
  BY <1>2, <1>3
<1> DEFINE m == FromBits(S)
           p == 2^w
<1>5. p \in Nat /\ m \in Nat /\ m < p /\ n < p
  BY <1>2, PowerIsPositive
<1> HIDE DEF m, p
<1>6. m \in 0..(p - 1) /\ n \in 0..(p - 1)
  BY <1>5
<1>7. \A i \in 0..(w - 1) : (m \div 2^i) % 2 = (n \div 2^i) % 2
  BY <1>4 DEF Bit, m
<1> QED
  BY <1>6, <1>7, BitsIdentify DEF m, p

-----------------------------------------------------------------------------
(***************************************************************************)
(* Lists.                                                                  *)
(***************************************************************************)
\* A list is the function of its elements.
LEMMA ListElements ==
  ASSUME NEW s, IsList(s)
  PROVE  Len(s) \in Nat /\ DOMAIN s = 1..Len(s) /\ s = [i \in 1..Len(s) |-> s[i]]
<1>1. s \in Seq({s[i] : i \in 1..Len(s)})
  BY DEF IsList
<1> QED
  BY <1>1, LenProperties

\* A function on 1..n is a list of n elements.
LEMMA MakeList ==
  ASSUME NEW n \in Nat, NEW s, s = [i \in 1..n |-> s[i]]
  PROVE  IsList(s) /\ Len(s) = n
<1> DEFINE S == {s[i] : i \in 1..n}
<1>1. s \in [1..n -> S]
  OBVIOUS
<1>2. s \in Seq(S) /\ Len(s) = n
  BY <1>1, SeqDef, LenProperties
<1> QED
  BY <1>2 DEF IsList

\* A sequence of a set is a list, whose elements are in the set.
LEMMA SeqIsList ==
  ASSUME NEW S, NEW s \in Seq(S)
  PROVE  IsList(s) /\ \A i \in 1..Len(s) : s[i] \in S
<1>1. Len(s) \in Nat /\ s = [i \in 1..Len(s) |-> s[i]] /\ \A i \in 1..Len(s) : s[i] \in S
  BY LenProperties, ElementOfSeq
<1> QED
  BY <1>1, MakeList

\* A list whose elements are in a set is a sequence of the set.
LEMMA ListIsSeq ==
  ASSUME NEW S, NEW s, IsList(s), \A i \in 1..Len(s) : s[i] \in S
  PROVE  s \in Seq(S)
<1>1. Len(s) \in Nat /\ s \in [1..Len(s) -> S]
  BY ListElements
<1> QED
  BY <1>1, SeqDef

\* Only the empty list has no elements.
LEMMA EmptyList ==
  /\ IsList(<<>>) /\ Len(<<>>) = 0
  /\ \A s : IsList(s) => (s = <<>> <=> Len(s) = 0)
<1>1. IsList(<<>>) /\ Len(<<>>) = 0
  BY MakeList, EmptySeq DEF IsList
<1>2. ASSUME NEW s, IsList(s), Len(s) = 0 PROVE s = <<>>
  BY <1>2, EmptySeq DEF IsList
<1> QED
  BY <1>1, <1>2

\* A list is empty or has a head.
LEMMA HeadOfList ==
  ASSUME NEW s, IsList(s), s # <<>>
  PROVE  Len(s) - 1 \in Nat /\ 1 \in 1..Len(s) /\ Head(s) = s[1]
<1>1. Len(s) \in Nat /\ Len(s) # 0
  BY ListElements, EmptyList
<1>2. Head(s) = s[1]
  BY HeadTailProperties DEF IsList
<1> QED
  BY <1>1, <1>2

\* The tail of a list.
LEMMA TailOfList ==
  ASSUME NEW s, IsList(s), s # <<>>
  PROVE  /\ IsList(Tail(s)) /\ Len(Tail(s)) = Len(s) - 1
         /\ \A i \in 1..(Len(s) - 1) : Tail(s)[i] = s[i + 1]
<1> DEFINE S == {s[i] : i \in 1..Len(s)}
<1>1. s \in Seq(S)
  BY DEF IsList
<1> HIDE DEF S
<1>2. Tail(s) \in Seq(S) /\ Len(Tail(s)) = Len(s) - 1
  BY <1>1, HeadTailProperties
<1>3. \A i \in 1..Len(Tail(s)) : Tail(s)[i] = s[i + 1]
  BY <1>1, HeadTailProperties
<1> QED
  BY <1>2, <1>3, SeqIsList

\* Two lists one after the other.
LEMMA ListsInARow ==
  ASSUME NEW s, NEW t, IsList(s), IsList(t)
  PROVE  /\ IsList(s \o t) /\ Len(s \o t) = Len(s) + Len(t)
         /\ \A i \in 1..Len(s) : (s \o t)[i] = s[i]
         /\ \A i \in 1..Len(t) : (s \o t)[Len(s) + i] = t[i]
<1> DEFINE S == {s[i] : i \in 1..Len(s)} \cup {t[i] : i \in 1..Len(t)}
<1>1. s \in Seq(S) /\ t \in Seq(S)
  BY ListIsSeq
<1>2. Len(s) \in Nat /\ Len(t) \in Nat
  BY ListElements
<1> HIDE DEF S
<1>3. s \o t \in Seq(S) /\ Len(s \o t) = Len(s) + Len(t)
  BY <1>1, ConcatProperties
<1>4. \A i \in 1..(Len(s) + Len(t)) :
        (s \o t)[i] = IF i <= Len(s) THEN s[i] ELSE t[i - Len(s)]
  BY <1>1, ConcatProperties
<1>5. \A i \in 1..Len(s) : (s \o t)[i] = s[i]
  BY <1>2, <1>4
<1>6. ASSUME NEW i \in 1..Len(t) PROVE (s \o t)[Len(s) + i] = t[i]
  <2>1. Len(s) + i \in 1..(Len(s) + Len(t)) /\ ~(Len(s) + i <= Len(s)) /\ (Len(s) + i) - Len(s) = i
    BY <1>2
  <2> QED
    BY <1>4, <2>1
<1> QED
  BY <1>3, <1>5, <1>6, SeqIsList

\* A list with one more element before it.
LEMMA OneMoreBefore ==
  ASSUME NEW s, IsList(s), NEW x
  PROVE  /\ IsList(<<x>> \o s) /\ Len(<<x>> \o s) = Len(s) + 1 /\ <<x>> \o s # <<>>
         /\ (<<x>> \o s)[1] = x
         /\ \A i \in 1..Len(s) : (<<x>> \o s)[i + 1] = s[i]
         /\ Head(<<x>> \o s) = x
<1>1. <<x>> \in Seq({x}) /\ Len(<<x>>) = 1 /\ <<x>>[1] = x /\ 1 \in 1..Len(<<x>>)
  OBVIOUS
<1>2. Len(s) \in Nat
  BY ListElements
<1>3. IsList(<<x>>)
  BY <1>1, SeqIsList
<1>4. /\ IsList(<<x>> \o s) /\ Len(<<x>> \o s) = 1 + Len(s)
      /\ (<<x>> \o s)[1] = x
      /\ \A i \in 1..Len(s) : (<<x>> \o s)[1 + i] = s[i]
  BY <1>1, <1>3, ListsInARow
<1>5. <<x>> \o s # <<>>
  BY <1>2, <1>4, EmptyList
<1>6. Head(<<x>> \o s) = x
  BY <1>4, <1>5, HeadOfList
<1>7. \A i \in 1..Len(s) : 1 + i = i + 1
  OBVIOUS
<1> QED
  BY <1>2, <1>4, <1>5, <1>6, <1>7

\* A sequence with one more element after it.
LEMMA OneMoreAfter ==
  ASSUME NEW S, NEW s \in Seq(S), NEW x \in S
  PROVE  Append(s, x) \in Seq(S) /\ Len(Append(s, x)) = Len(s) + 1
BY AppendProperties

\* A list with one more element after it, and the list that it was.
LEMMA ListExtended ==
  ASSUME NEW s, IsList(s), NEW x
  PROVE  LET t == Append(s, x) IN
         /\ IsList(t) /\ Len(t) = Len(s) + 1 /\ t # <<>> /\ t[Len(s) + 1] = x
         /\ \A i \in 1..Len(s) : t[i] = s[i]
         /\ SubSeq(t, 1, Len(s)) = s
<1> DEFINE S == {s[i] : i \in 1..Len(s)} \cup {x}
           t == Append(s, x)
           u == SubSeq(t, 1, Len(s))
<1>1. s \in Seq(S) /\ x \in S /\ Len(s) \in Nat
  BY ListIsSeq, ListElements
<1> HIDE DEF S
<1>2. /\ t \in Seq(S) /\ Len(t) = Len(s) + 1 /\ t[Len(s) + 1] = x
      /\ \A i \in 1..Len(s) : t[i] = s[i]
  BY <1>1, AppendProperties
<1> HIDE DEF t
<1>3. IsList(t) /\ t # <<>>
  <2>1. Len(t) # 0
    BY <1>1, <1>2
  <2> QED
    BY <1>2, <2>1, SeqIsList, EmptyList
<1>4. u = [i \in 1..Len(s) |-> t[i]]
  BY <1>1, <1>2
<1>5. s = [i \in 1..Len(s) |-> s[i]]
  BY ListElements
<1>6. u = s
  BY <1>2, <1>4, <1>5
<1> QED
  BY <1>2, <1>3, <1>6 DEF t, u

================================================================================
