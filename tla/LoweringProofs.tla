-------------------------- MODULE LoweringProofs --------------------------
(***************************************************************************)
(* The expression arena and what the solver makes of it, for every set of  *)
(* variables and operators, every width and every bound:                   *)
(*                                                                         *)
(*   HashConsing              a node has one id                            *)
(*   DependencyOrder          operands come before it                      *)
(*   StableIds                an id keeps its node                         *)
(*   NothingConstantIsLeft    no node is computed from constants alone     *)
(*   GuardsDependOnConjuncts  a junction does not depend on order or       *)
(*                            grouping; negation is its own inverse        *)
(*   GuardsKeepTheirMeaning   guard and bit vector constructors return     *)
(*   VectorsKeepTheirMeaning  what they were called for                    *)
(*   EveryArenaLowers         a solver session can be opened on any arena  *)
(*                                                                         *)
(* Every constructor is a chain of Intern steps, so the argument for the   *)
(* first three is one lemma about Intern and, per constructor, that the    *)
(* nodes it interns use ids of the arena it interns them into.             *)
(*                                                                         *)
(* The others are not inductive.  Folded adds what folding a junction      *)
(* relies on; WellShaped adds what each kind of node can be: whatever a    *)
(* constructor would have simplified is not there, operands have the sorts *)
(* it asserts, and constants are below the power of two of their width.    *)
(* Values come from a fold over the nodes, which is unfolded into a run.   *)
(***************************************************************************)
EXTENDS Lowering, SequenceTheorems, Induction

Elements(s) == {s[i] : i \in 1..Len(s)}

\* The inductive invariant, of an arena given as a record.
Sound(a) ==
  /\ a.nodes \in Seq(Elements(a.nodes))
  /\ DOMAIN a.interned = Elements(a.nodes)
  /\ \A i \in 1..Len(a.nodes) : a.interned[a.nodes[i]] = i
  /\ \A i \in 1..Len(a.nodes) : OperandsWithin(a.nodes[i], i - 1)

\* `b` is a sound arena that extends `a`.
Extends(a, b) ==
  /\ Sound(b)
  /\ Len(a.nodes) <= Len(b.nodes)
  /\ \A i \in 1..Len(a.nodes) : b.nodes[i] = a.nodes[i]

IsId(a, x) == x \in 1..Len(a.nodes)

(***************************************************************************)
(* Interning a node whose operands are in the arena extends the arena.     *)
(***************************************************************************)
LEMMA InternExtends ==
  ASSUME NEW a, Sound(a), NEW node, OperandsWithin(node, Len(a.nodes))
  PROVE  Extends(a, Intern(a, node)) /\ IsId(Intern(a, node), Intern(a, node).id)
<1> DEFINE E == Elements(a.nodes)
           b == Intern(a, node)
           new == Len(a.nodes) + 1
<1>0. a.nodes \in Seq(E) /\ Len(a.nodes) \in Nat
  BY DEF Sound
<1>1. CASE node \in DOMAIN a.interned
  <2>1. b = Existing(a, a.interned[node])
    BY <1>1 DEF Intern
  <2>2. b.nodes = a.nodes /\ b.interned = a.interned /\ b.id = a.interned[node]
    BY <2>1 DEF Existing
  <2>3. PICK i \in 1..Len(a.nodes) : node = a.nodes[i]
    BY <1>1 DEF Sound, Elements
  <2>4. b.id = i
    BY <2>2, <2>3 DEF Sound
  <2> QED
    BY <1>0, <2>2, <2>3, <2>4 DEF Extends, IsId, Sound
<1>2. CASE node \notin DOMAIN a.interned
  <2>1. /\ b.nodes = Append(a.nodes, node)
        /\ b.id = new
        /\ b.interned = [n \in DOMAIN a.interned \cup {node} |->
                           IF n = node THEN new ELSE a.interned[n]]
    BY <1>2 DEF Intern
  <2>2. /\ Len(b.nodes) = new
        /\ b.nodes[new] = node
        /\ \A i \in 1..Len(a.nodes) : b.nodes[i] = a.nodes[i]
        /\ b.nodes \in Seq(E \cup {node})
    <3>1. a.nodes \in Seq(E \cup {node})
      BY <1>0
    <3> QED
      BY <1>0, <2>1, <3>1, AppendProperties
  <2>3. Elements(b.nodes) = E \cup {node}
    <3>1. 1..Len(b.nodes) = 1..Len(a.nodes) \cup {new}
      BY <1>0, <2>2
    <3>2. Elements(b.nodes) = {b.nodes[i] : i \in 1..Len(a.nodes)} \cup {b.nodes[new]}
      BY <3>1 DEF Elements
    <3> QED
      BY <2>2, <3>2 DEF Elements
  <2>4. node \notin E
    BY <1>2 DEF Sound
  <2>5. \A i \in 1..Len(b.nodes) : b.interned[b.nodes[i]] = i
    <3> SUFFICES ASSUME NEW i \in 1..Len(b.nodes) PROVE b.interned[b.nodes[i]] = i
      OBVIOUS
    <3>1. CASE i = new
      BY <2>1, <2>2, <3>1
    <3>2. CASE i \in 1..Len(a.nodes)
      <4>1. b.nodes[i] = a.nodes[i] /\ a.nodes[i] \in E
        BY <2>2, <3>2 DEF Elements
      <4>2. a.nodes[i] # node /\ a.nodes[i] \in DOMAIN a.interned
        BY <2>4, <4>1 DEF Sound
      <4> QED
        BY <2>1, <3>2, <4>1, <4>2 DEF Sound
    <3> QED
      BY <1>0, <2>2, <3>1, <3>2
  <2>6. \A i \in 1..Len(b.nodes) : OperandsWithin(b.nodes[i], i - 1)
    <3> SUFFICES ASSUME NEW i \in 1..Len(b.nodes) PROVE OperandsWithin(b.nodes[i], i - 1)
      OBVIOUS
    <3>1. CASE i = new
      <4>1. i - 1 = Len(a.nodes)
        BY <1>0, <3>1
      <4> QED
        BY <2>2, <3>1, <4>1
    <3>2. CASE i \in 1..Len(a.nodes)
      BY <2>2, <3>2 DEF Sound
    <3> QED
      BY <1>0, <2>2, <3>1, <3>2
  <2>7. DOMAIN b.interned = Elements(b.nodes)
    BY <2>1, <2>3 DEF Sound
  <2>8. Sound(b)
    BY <2>2, <2>3, <2>5, <2>6, <2>7 DEF Sound
  <2> QED
    BY <1>0, <2>1, <2>2, <2>8 DEF Extends, IsId
<1> QED
  BY <1>1, <1>2

\* Returning an id the arena has, or had, extends it by nothing.
LEMMA ExistingExtends ==
  ASSUME NEW a, Sound(a), NEW id
  PROVE  Extends(a, Existing(a, id))
BY DEF Extends, Existing, Sound

LEMMA ExtendsTransitive ==
  ASSUME NEW a, NEW b, NEW c, Sound(a), Sound(b), Extends(a, b), Extends(b, c)
  PROVE  Extends(a, c)
<1>1. Len(a.nodes) \in Nat /\ Len(b.nodes) \in Nat /\ Len(c.nodes) \in Nat
  BY DEF Extends, Sound
<1> QED
  BY <1>1 DEF Extends

\* A list of ids.
LEMMA ListsAreIds ==
  ASSUME NEW ids, NEW args \in Lists(ids)
  PROVE  \A k \in 1..Len(args) : args[k] \in ids
<1>1. PICK n \in 1..MaxArgs : args \in [1..n -> ids]
  BY DEF Lists
<1>2. args \in Seq(ids)
  BY <1>1, ArenaAssumption, SeqDef
<1> QED
  BY <1>2, ElementOfSeq

-----------------------------------------------------------------------------
(***************************************************************************)
(* The constructors.                                                       *)
(***************************************************************************)
LEMMA LeavesExtend ==
  ASSUME NEW a, Sound(a), NEW w, NEW n, NEW name
  PROVE  /\ Extends(a, BoolConst(a, n))
         /\ Extends(a, BitsConst(a, w, n))
         /\ IsId(BitsConst(a, w, n), BitsConst(a, w, n).id)
         /\ Extends(a, Variable(a, name))
<1>1. \A kind, sort, data : OperandsWithin(Node(kind, sort, <<>>, data), Len(a.nodes))
  BY DEF OperandsWithin, Node
<1>2. \A kind, sort, data : LET b == Intern(a, Node(kind, sort, <<>>, data)) IN
                            Extends(a, b) /\ IsId(b, b.id)
  BY <1>1, InternExtends
<1> QED
  BY <1>2 DEF BoolConst, BitsConst, Variable

LEMMA OneOperand ==
  ASSUME NEW a, Sound(a), NEW x, IsId(a, x), NEW kind, NEW sort, NEW data
  PROVE  Extends(a, Intern(a, Node(kind, sort, <<x>>, data)))
<1>1. OperandsWithin(Node(kind, sort, <<x>>, data), Len(a.nodes))
  BY DEF OperandsWithin, Node, IsId
<1> QED
  BY <1>1, InternExtends

LEMMA TwoOperands ==
  ASSUME NEW a, Sound(a), NEW x, IsId(a, x), NEW y, IsId(a, y), NEW kind, NEW sort
  PROVE  Extends(a, Intern(a, Node(kind, sort, <<x, y>>, <<>>)))
<1>1. OperandsWithin(Node(kind, sort, <<x, y>>, <<>>), Len(a.nodes))
  BY DEF OperandsWithin, Node, IsId
<1> QED
  BY <1>1, InternExtends

LEMMA BoolNotExtends ==
  ASSUME NEW a, Sound(a), NEW x, IsId(a, x)
  PROVE  Extends(a, BoolNot(a, x))
BY LeavesExtend, ExistingExtends, OneOperand DEF BoolNot

LEMMA JunctionExtends ==
  ASSUME NEW a, Sound(a), NEW kind, NEW identity, NEW args,
         \A i \in 1..Len(args) : IsId(a, args[i])
  PROVE  Extends(a, Junction(a, kind, identity, args))
<1> DEFINE flattened == UNION {Operands(a, kind, args[i]) : i \in 1..Len(args)}
<1>1. \A i \in 1..Len(args) : Operands(a, kind, args[i]) \subseteq 1..Len(a.nodes)
  <2> SUFFICES ASSUME NEW i \in 1..Len(args)
               PROVE  Operands(a, kind, args[i]) \subseteq 1..Len(a.nodes)
    OBVIOUS
  <2> DEFINE x == args[i]
  <2>1. x \in 1..Len(a.nodes) /\ Len(a.nodes) \in Nat
    BY DEF IsId, Sound
  <2>2. a.nodes[x].members \subseteq 1..(x - 1)
    BY <2>1 DEF Sound, OperandsWithin
  <2>3. a.nodes[x].members \subseteq 1..Len(a.nodes)
    BY <2>1, <2>2
  <2> QED
    BY <2>1, <2>3 DEF Operands
<1>2. flattened \subseteq 1..Len(a.nodes)
  BY <1>1
<1>3. OperandsWithin(GuardNode(kind, flattened), Len(a.nodes))
  BY <1>2 DEF OperandsWithin, GuardNode
<1>4. Extends(a, Intern(a, GuardNode(kind, flattened)))
  BY <1>3, InternExtends
<1> HIDE DEF flattened
<1>5. \A n : Extends(a, BoolConst(a, n))
  BY LeavesExtend
<1>6. \A id : Extends(a, Existing(a, id))
  BY ExistingExtends
<1> QED
  BY <1>4, <1>5, <1>6, Zenon DEF Junction, flattened

LEMMA BitUnaryExtends ==
  ASSUME NEW a, Sound(a), NEW x, IsId(a, x), NEW op
  PROVE  Extends(a, BitUnary(a, op, x))
BY LeavesExtend, OneOperand DEF BitUnary

LEMMA BitBinaryExtends ==
  ASSUME NEW a, Sound(a), NEW x, IsId(a, x), NEW y, IsId(a, y), NEW op
  PROVE  Extends(a, BitBinary(a, op, x, y))
BY LeavesExtend, TwoOperands DEF BitBinary

LEMMA CompareExtends ==
  ASSUME NEW a, Sound(a), NEW x, IsId(a, x), NEW y, IsId(a, y), NEW op
  PROVE  Extends(a, Compare(a, op, x, y))
<1>1. \A n : Extends(a, BoolConst(a, n))
  BY LeavesExtend
<1>2. Extends(a, Intern(a, Node(op, Bool, <<x, y>>, <<>>)))
  BY TwoOperands
<1> QED
  BY <1>1, <1>2 DEF Compare

LEMMA IteExtends ==
  ASSUME NEW a, Sound(a), NEW c, IsId(a, c), NEW x, IsId(a, x), NEW y, IsId(a, y)
  PROVE  Extends(a, Ite(a, c, x, y))
<1>1. OperandsWithin(Node("ite", Sort(a, x), <<c, x, y>>, <<>>), Len(a.nodes))
  BY DEF OperandsWithin, Node, IsId
<1>2. Extends(a, Intern(a, Node("ite", Sort(a, x), <<c, x, y>>, <<>>)))
  BY <1>1, InternExtends
<1> QED
  BY <1>2, ExistingExtends DEF Ite

\* Ids of an arena are ids of the arenas that extend it.
LEMMA IdsKept ==
  ASSUME NEW a, Sound(a), NEW b, Extends(a, b), NEW x, IsId(a, x)
  PROVE  IsId(b, x)
BY DEF Extends, Sound, IsId

LEMMA BoolToBitExtends ==
  ASSUME NEW a, Sound(a), NEW c, IsId(a, c)
  PROVE  Extends(a, BoolToBit(a, c))
<1> DEFINE one  == BitsConst(a, 1, 1)
           zero == BitsConst(one, 1, 0)
<1>1. Extends(a, one) /\ Sound(one) /\ IsId(one, one.id)
  BY LeavesExtend DEF Extends
<1>2. Extends(one, zero) /\ Sound(zero) /\ IsId(zero, zero.id)
  BY <1>1, LeavesExtend DEF Extends
<1>3. IsId(one, c) /\ IsId(zero, one.id)
  BY <1>1, <1>2, IdsKept
<1>4. IsId(zero, c)
  BY <1>1, <1>2, <1>3, IdsKept
<1>5. Extends(zero, Ite(zero, c, one.id, zero.id))
  BY <1>2, <1>3, <1>4, IteExtends
<1>6. Extends(a, zero)
  BY <1>1, <1>2, ExtendsTransitive
<1> QED
  BY <1>2, <1>5, <1>6, ExtendsTransitive DEF BoolToBit

LEMMA BitIsOneExtends ==
  ASSUME NEW a, Sound(a), NEW x, IsId(a, x)
  PROVE  Extends(a, BitIsOne(a, x))
<1> DEFINE one == BitsConst(a, 1, 1)
<1>1. Extends(a, one) /\ Sound(one) /\ IsId(one, one.id)
  BY LeavesExtend DEF Extends
<1>2. IsId(one, x)
  BY <1>1, IdsKept
<1>3. Extends(one, Compare(one, "eq", x, one.id))
  BY <1>1, <1>2, CompareExtends
<1> QED
  BY <1>1, <1>3, ExtendsTransitive DEF BitIsOne

LEMMA ConcatExtends ==
  ASSUME NEW a, Sound(a), NEW args, \A i \in 1..Len(args) : IsId(a, args[i])
  PROVE  Extends(a, Concat(a, args))
<1>1. \A w : OperandsWithin(Node("concat", w, args, <<>>), Len(a.nodes))
  BY DEF OperandsWithin, Node, IsId
<1>2. \A w : Extends(a, Intern(a, Node("concat", w, args, <<>>)))
  BY <1>1, InternExtends
<1>3. \A w, n : Extends(a, BitsConst(a, w, n))
  BY LeavesExtend
<1>4. \A id : Extends(a, Existing(a, id))
  BY ExistingExtends
<1> QED
  BY <1>2, <1>3, <1>4, Zenon DEF Concat

LEMMA ExtractExtends ==
  ASSUME NEW a, Sound(a), NEW x, IsId(a, x), NEW start, NEW w
  PROVE  Extends(a, Extract(a, x, start, w))
BY LeavesExtend, ExistingExtends, OneOperand DEF Extract

LEMMA ExtendExtends ==
  ASSUME NEW a, Sound(a), NEW x, IsId(a, x), NEW w, NEW signed
  PROVE  Extends(a, Extend(a, x, w, signed))
BY LeavesExtend, ExistingExtends, OneOperand DEF Extend

-----------------------------------------------------------------------------
(***************************************************************************)
(* The invariant, and every constructor called on the arena of a state.    *)
(***************************************************************************)
Inv == Sound(Arena)

LEMMA InitSound == Init => Inv
<1> SUFFICES ASSUME Init PROVE Inv
  OBVIOUS
<1>1. Arena.nodes = <<>> /\ Arena.interned = <<>> /\ Len(Arena.nodes) = 0
  BY DEF Init, Arena
<1>2. 1..Len(Arena.nodes) = {}
  BY <1>1
<1>3. Elements(Arena.nodes) = {}
  BY <1>2 DEF Elements
<1>4. DOMAIN Arena.interned = {}
  BY <1>1
<1>5. Arena.nodes \in Seq(Elements(Arena.nodes))
  BY <1>1, EmptySeq
<1> QED
  BY <1>2, <1>3, <1>4, <1>5 DEF Inv, Sound

\* What a call has to give: an arena that extends the state's.
LEMMA CallExtends ==
  ASSUME Inv, Next
  PROVE  \E b : Extends(Arena, b) /\ nodes' = b.nodes /\ interned' = b.interned
<1> USE DEF Inv
<1> DEFINE Good(b) == Extends(Arena, b) /\ nodes' = b.nodes /\ interned' = b.interned
<1>0. \A x : x \in Ids => IsId(Arena, x)
  BY DEF Ids, IsId, Arena
<1>00. /\ \A x \in Guards \cup Vectors : x \in Ids
       /\ \A x, y : y \in Like(x) => y \in Ids
  BY DEF Guards, Vectors, Like
<1>01. \A b : Extends(Arena, b) /\ Became(b) => Good(b)
  BY DEF Became
<1> HIDE DEF Good
<1>1. CASE CallBoolConst \/ CallBitsConst \/ CallVariable
  BY <1>1, <1>01, LeavesExtend DEF CallBoolConst, CallBitsConst, CallVariable, Good
<1>2. CASE CallBoolNot
  BY <1>2, <1>0, <1>00, <1>01, BoolNotExtends DEF CallBoolNot, Good
<1>3. CASE CallBoolAnd \/ CallBoolOr
  <2>1. \A args \in Lists(Guards) \cup {<<>>} : \A i \in 1..Len(args) : IsId(Arena, args[i])
    BY <1>0, <1>00, ListsAreIds
  <2>2. \A args \in Lists(Guards) \cup {<<>>} :
          Extends(Arena, BoolAnd(Arena, args)) /\ Extends(Arena, BoolOr(Arena, args))
    BY <2>1, JunctionExtends DEF BoolAnd, BoolOr
  <2> QED
    BY <1>3, <1>01, <2>2 DEF CallBoolAnd, CallBoolOr, Good
<1>4. CASE CallBitUnary
  BY <1>4, <1>0, <1>00, <1>01, BitUnaryExtends DEF CallBitUnary, Good
<1>5. CASE CallBitBinary
  BY <1>5, <1>0, <1>00, <1>01, BitBinaryExtends DEF CallBitBinary, Good
<1>6. CASE CallCompare
  BY <1>6, <1>0, <1>00, <1>01, CompareExtends DEF CallCompare, Good
<1>7. CASE CallIte
  BY <1>7, <1>0, <1>00, <1>01, IteExtends DEF CallIte, Good
<1>8. CASE CallBoolToBit
  BY <1>8, <1>0, <1>00, <1>01, BoolToBitExtends DEF CallBoolToBit, Good
<1>9. CASE CallBitIsOne
  BY <1>9, <1>0, <1>00, <1>01, BitIsOneExtends DEF CallBitIsOne, Good
<1>10. CASE CallConcat
  <2>1. \A args \in Lists(Vectors) : \A i \in 1..Len(args) : IsId(Arena, args[i])
    BY <1>0, <1>00, ListsAreIds
  <2>2. \A args \in Lists(Vectors) : Extends(Arena, Concat(Arena, args))
    BY <2>1, ConcatExtends
  <2> QED
    BY <1>10, <1>01, <2>2 DEF CallConcat, Good
<1>11. CASE CallExtract
  BY <1>11, <1>0, <1>00, <1>01, ExtractExtends DEF CallExtract, Good
<1>12. CASE CallExtend
  BY <1>12, <1>0, <1>00, <1>01, ExtendExtends DEF CallExtend, Good
<1> QED
  BY <1>1, <1>2, <1>3, <1>4, <1>5, <1>6, <1>7, <1>8, <1>9, <1>10, <1>11, <1>12 DEF Next

\* A step gives a sound arena, and keeps every id.
LEMMA StepSound ==
  ASSUME Inv, [Next]_vars
  PROVE  Inv' /\ IdKeepsNode
<1>1. CASE Next
  <2>1. PICK b : Extends(Arena, b) /\ nodes' = b.nodes /\ interned' = b.interned
    BY <1>1, CallExtends
  <2>2. Arena'.nodes = b.nodes /\ Arena'.interned = b.interned
    BY <2>1 DEF Arena
  <2>3. Sound(b)
    BY <2>1 DEF Extends
  <2>4. Inv'
    BY <2>2, <2>3 DEF Inv, Sound
  <2>5. Len(nodes) \in Nat /\ Len(b.nodes) \in Nat
    BY <2>3 DEF Inv, Sound, Arena
  <2>6. IdKeepsNode
    BY <2>1, <2>5 DEF Extends, IdKeepsNode, Ids, Arena
  <2> QED
    BY <2>4, <2>6
<1>2. CASE UNCHANGED vars
  <2>1. Inv'
    BY <1>2 DEF Inv, vars, Sound, Arena
  <2>2. Len(nodes) \in Nat
    BY DEF Inv, Sound, Arena
  <2> QED
    BY <1>2, <2>1, <2>2 DEF vars, IdKeepsNode, Ids
<1> QED
  BY <1>1, <1>2

LEMMA InvImplies == Inv => InternedIsInverse /\ OperandsPrecede
BY DEF Inv, Sound, Arena, Elements, InternedIsInverse, OperandsPrecede, Ids

(***************************************************************************)
(* In every reachable arena a node has exactly one id (ExprArena::intern), *)
(* so that comparing ids compares expressions.                             *)
(***************************************************************************)
THEOREM HashConsing == Spec => []InternedIsInverse
<1>1. Init => Inv
  BY InitSound
<1>2. Inv /\ [Next]_vars => Inv'
  BY StepSound
<1>3. Inv => InternedIsInverse
  BY InvImplies
<1> QED
  BY <1>1, <1>2, <1>3, PTL DEF Spec

(***************************************************************************)
(* In every reachable arena operands come before their users, so that the  *)
(* one pass of SolverSession::new finds a term for every operand.          *)
(***************************************************************************)
THEOREM DependencyOrder == Spec => []OperandsPrecede
<1>1. Init => Inv
  BY InitSound
<1>2. Inv /\ [Next]_vars => Inv'
  BY StepSound
<1>3. Inv => OperandsPrecede
  BY InvImplies
<1> QED
  BY <1>1, <1>2, <1>3, PTL DEF Spec

(***************************************************************************)
(* No call changes the node of an id handed out earlier.                   *)
(***************************************************************************)
THEOREM StableIds == Spec => IdsAreStable
<1>1. Init => Inv
  BY InitSound
<1>2. Inv /\ [Next]_vars => Inv' /\ [IdKeepsNode]_vars
  BY StepSound
<1> QED
  BY <1>1, <1>2, PTL DEF Spec, IdsAreStable

-----------------------------------------------------------------------------

\* The kinds of nodes that are no operator on bit vectors of one width.
OtherKinds == {"bool_const", "bits_const", "variable", "bool_not", "bool_and", "bool_or",
               "ite", "concat", "extract", "zero_extend", "sign_extend"}

\* A kind is one of these, or an operator of one sort.
LEMMA KindsAreDistinct ==
  /\ (UnaryOps \cup BinaryOps \cup CompareOps) \cap OtherKinds = {}
  /\ UnaryOps \cap BinaryOps = {} /\ CompareOps \cap (UnaryOps \cup BinaryOps) = {}
  /\ "eq" \in CompareOps
<1>1. (BitUnaryOp \cup BitBinaryOp \cup CompareOp) \cap OtherKinds = {}
  BY DEF BitUnaryOp, BitBinaryOp, CompareOp, OtherKinds
<1>2. BitUnaryOp \cap BitBinaryOp = {} /\ CompareOp \cap (BitUnaryOp \cup BitBinaryOp) = {}
  BY DEF BitUnaryOp, BitBinaryOp, CompareOp
<1> QED
  BY <1>1, <1>2, ArenaAssumption

\* A node that is no operator on bit vectors of one width, and one that is.
LEMMA KindApart ==
  ASSUME NEW kind
  PROVE  /\ kind \in OtherKinds => kind \notin UnaryOps \cup BinaryOps \cup CompareOps
         /\ kind \in UnaryOps => kind \notin OtherKinds \cup BinaryOps \cup CompareOps
         /\ kind \in BinaryOps => kind \notin OtherKinds \cup UnaryOps \cup CompareOps
         /\ kind \in CompareOps => kind \notin OtherKinds \cup UnaryOps \cup BinaryOps
BY KindsAreDistinct

\* The inductive invariant, of one node of an arena.
NodeFolded(a, node) ==
  /\ node.sort \in Nat
  /\ node.kind = "bits_const" => node.sort # Bool
  /\ DOMAIN node.args = 1..Len(node.args)
  /\ OperandsOf(node) # {} => \E x \in OperandsOf(node) : ~IsConst(a, x)
  /\ \A x \in node.members : ~IsConst(a, x)

Folded(a) == Sound(a) /\ \A i \in 1..Len(a.nodes) : NodeFolded(a, a.nodes[i])

\* The operands of a node, listed or not, are among the ids it may use.
LEMMA OperandsAreWithin ==
  ASSUME NEW a, NEW node, NodeFolded(a, node), NEW n, OperandsWithin(node, n)
  PROVE  OperandsOf(node) \subseteq 1..n
<1>1. Range(node.args) = {node.args[k] : k \in 1..Len(node.args)}
  BY DEF NodeFolded, Range
<1> QED
  BY <1>1 DEF OperandsOf, OperandsWithin

(***************************************************************************)
(* Interning a folded node, returning an id, and what both leave behind.   *)
(***************************************************************************)
LEMMA InternFolds ==
  ASSUME NEW a, Folded(a), NEW node, OperandsWithin(node, Len(a.nodes)), NodeFolded(a, node)
  PROVE  Folded(Intern(a, node))
<1> DEFINE b == Intern(a, node)
<1>1. Sound(a)
  BY DEF Folded
<1>2. Extends(a, b)
  BY <1>1, InternExtends
<1>3. Sound(b) /\ \A i \in 1..Len(a.nodes) : b.nodes[i] = a.nodes[i]
  BY <1>2 DEF Extends
<1>4. \A x \in 1..Len(a.nodes) : IsConst(b, x) <=> IsConst(a, x)
  BY <1>3 DEF IsConst
<1>5. \A i \in 1..Len(b.nodes) : i \in 1..Len(a.nodes) \/ b.nodes[i] = node
  <2>1. Len(a.nodes) \in Nat /\ a.nodes \in Seq(Elements(a.nodes) \cup {node})
    BY <1>1 DEF Sound
  <2>2. b.nodes = a.nodes \/ b.nodes = Append(a.nodes, node)
    BY DEF Intern, Existing
  <2> QED
    BY <2>1, <2>2, AppendProperties
<1> HIDE DEF b
<1>6. ASSUME NEW i \in 1..Len(b.nodes) PROVE NodeFolded(b, b.nodes[i])
  <2>1. NodeFolded(a, b.nodes[i]) /\ OperandsOf(b.nodes[i]) \subseteq 1..Len(a.nodes)
    <3>1. CASE i \in 1..Len(a.nodes)
      <4>1. b.nodes[i] = a.nodes[i] /\ NodeFolded(a, a.nodes[i])
        BY <1>3, <3>1 DEF Folded
      <4>2. Len(a.nodes) \in Nat /\ OperandsWithin(a.nodes[i], i - 1)
        BY <1>1, <3>1 DEF Sound
      <4>3. 1..(i - 1) \subseteq 1..Len(a.nodes)
        BY <3>1, <4>2
      <4> QED
        BY <4>1, <4>2, <4>3, OperandsAreWithin
    <3>2. CASE b.nodes[i] = node
      BY <3>2, OperandsAreWithin
    <3> QED
      BY <1>5, <3>1, <3>2
  <2> QED
    BY <1>4, <2>1 DEF NodeFolded, OperandsOf
<1> QED
  BY <1>3, <1>6 DEF Folded, b

\* Returning an id adds no node.
LEMMA ExistingFolds ==
  ASSUME NEW a, Folded(a), NEW id
  PROVE  Folded(Existing(a, id))
<1>1. Sound(Existing(a, id))
  BY ExistingExtends DEF Folded, Extends
<1> QED
  BY <1>1 DEF Folded, Existing, NodeFolded, IsConst

\* A node without operands is folded, unless it is a constant of width 0.
LEMMA LeavesFold ==
  ASSUME NEW a, Folded(a), NEW n
  PROVE  /\ Folded(BoolConst(a, n))
         /\ \A w \in Nat \ {0} : Folded(BitsConst(a, w, n))
         /\ \A name \in Names : Folded(Variable(a, name))
<1>1. ASSUME NEW kind, NEW sort \in Nat, NEW data, kind = "bits_const" => sort # Bool
      PROVE  Folded(Intern(a, Node(kind, sort, <<>>, data)))
  <2>1. OperandsWithin(Node(kind, sort, <<>>, data), Len(a.nodes))
    BY DEF OperandsWithin, Node
  <2>2. NodeFolded(a, Node(kind, sort, <<>>, data))
    BY <1>1 DEF NodeFolded, Node, OperandsOf, Range
  <2> QED
    BY <2>1, <2>2, InternFolds
<1> QED
  BY <1>1, ArenaAssumption DEF BoolConst, BitsConst, Variable, Bool

\* A node with an operand that is not constant is folded, unless it is a constant itself.
LEMMA OperatorFolds ==
  ASSUME NEW a, Folded(a), NEW kind, NEW sort \in Nat, NEW args, NEW data,
         kind # "bits_const", args \in Seq(1..Len(a.nodes)),
         NEW k \in 1..Len(args), ~IsConst(a, args[k])
  PROVE  Folded(Intern(a, Node(kind, sort, args, data)))
<1> DEFINE node == Node(kind, sort, args, data)
<1>1. node.args = args /\ node.members = {} /\ node.kind = kind /\ node.sort = sort
  BY DEF Node
<1>2. DOMAIN args = 1..Len(args) /\ \A i \in 1..Len(args) : args[i] \in 1..Len(a.nodes)
  BY ElementOfSeq, LenProperties
<1>3. args[k] \in OperandsOf(node)
  BY <1>1, <1>2 DEF OperandsOf, Range
<1> HIDE DEF node
<1>4. OperandsWithin(node, Len(a.nodes))
  BY <1>1, <1>2 DEF OperandsWithin
<1>5. NodeFolded(a, node)
  BY <1>1, <1>2, <1>3 DEF NodeFolded
<1> QED
  BY <1>4, <1>5, InternFolds DEF node

\* The sort of an id, and what a guard can be.
LEMMA SortOfId ==
  ASSUME NEW a, Folded(a), NEW x, IsId(a, x)
  PROVE  /\ Sort(a, x) \in Nat
         /\ Sort(a, x) = Bool /\ IsConst(a, x) => a.nodes[x].kind = "bool_const"
BY DEF Folded, NodeFolded, IsId, Sort, IsConst

-----------------------------------------------------------------------------
(***************************************************************************)
(* The constructors.                                                       *)
(***************************************************************************)
\* One operand, which is not constant.
LEMMA OneOperandFolds ==
  ASSUME NEW a, Folded(a), NEW x, IsId(a, x), ~IsConst(a, x),
         NEW kind, kind # "bits_const", NEW sort \in Nat, NEW data
  PROVE  Folded(Intern(a, Node(kind, sort, <<x>>, data)))
<1>1. <<x>> \in Seq(1..Len(a.nodes)) /\ 1 \in 1..Len(<<x>>) /\ <<x>>[1] = x
  BY DEF IsId
<1> QED
  BY <1>1, OperatorFolds

\* Two operands, of which one is not constant.
LEMMA TwoOperandsFold ==
  ASSUME NEW a, Folded(a), NEW x, IsId(a, x), NEW y, IsId(a, y), ~(IsConst(a, x) /\ IsConst(a, y)),
         NEW kind, kind # "bits_const", NEW sort \in Nat
  PROVE  Folded(Intern(a, Node(kind, sort, <<x, y>>, <<>>)))
<1>1. /\ <<x, y>> \in Seq(1..Len(a.nodes))
      /\ 1 \in 1..Len(<<x, y>>) /\ <<x, y>>[1] = x
      /\ 2 \in 1..Len(<<x, y>>) /\ <<x, y>>[2] = y
  BY DEF IsId
<1>2. CASE ~IsConst(a, x)
  BY <1>1, <1>2, OperatorFolds
<1>3. CASE ~IsConst(a, y)
  BY <1>1, <1>3, OperatorFolds
<1> QED
  BY <1>2, <1>3

\* bool_not.
LEMMA BoolNotFolds ==
  ASSUME NEW a, Folded(a), NEW x, IsId(a, x), Sort(a, x) = Bool
  PROVE  Folded(BoolNot(a, x))
<1>1. CASE a.nodes[x].kind = "bool_const" \/ a.nodes[x].kind = "bool_not"
  BY <1>1, LeavesFold, ExistingFolds DEF BoolNot
<1>2. CASE a.nodes[x].kind \notin {"bool_const", "bool_not"}
  <2>1. ~IsConst(a, x)
    BY <1>2, SortOfId
  <2>2. Folded(Intern(a, Node("bool_not", Bool, <<x>>, <<>>)))
    BY <2>1, OneOperandFolds DEF Bool
  <2> QED
    BY <1>2, <2>2 DEF BoolNot
<1> QED
  BY <1>1, <1>2

\* bool_and and bool_or: what is absorbed or flattened was folded before.
LEMMA JunctionFolds ==
  ASSUME NEW a, Folded(a), NEW kind \in {"bool_and", "bool_or"}, NEW identity, NEW args,
         \A i \in 1..Len(args) : IsId(a, args[i]) /\ Sort(a, args[i]) = Bool
  PROVE  Folded(Junction(a, kind, identity, args))
<1> DEFINE flattened == UNION {Operands(a, kind, args[i]) : i \in 1..Len(args)}
<1>1. ASSUME NEW i \in 1..Len(args)
      PROVE  /\ Operands(a, kind, args[i]) \subseteq 1..Len(a.nodes)
             /\ \A x \in Operands(a, kind, args[i]) : ~IsConst(a, x)
  <2> DEFINE x == args[i]
  <2>1. x \in 1..Len(a.nodes) /\ Len(a.nodes) \in Nat
    BY DEF IsId, Folded, Sound
  <2>2. a.nodes[x].members \subseteq 1..(x - 1)
    BY <2>1 DEF Folded, Sound, OperandsWithin
  <2>3. a.nodes[x].members \subseteq 1..Len(a.nodes)
    BY <2>1, <2>2
  <2>4. \A y \in a.nodes[x].members : ~IsConst(a, y)
    BY <2>1 DEF Folded, NodeFolded
  <2>5. a.nodes[x].kind # "bool_const" => ~IsConst(a, x)
    BY SortOfId
  <2> QED
    BY <2>1, <2>3, <2>4, <2>5 DEF Operands
<1>2. flattened \subseteq 1..Len(a.nodes) /\ \A x \in flattened : ~IsConst(a, x)
  BY <1>1
<1> HIDE DEF flattened
<1>3. flattened # {} => Folded(Intern(a, GuardNode(kind, flattened)))
  <2>1. OperandsWithin(GuardNode(kind, flattened), Len(a.nodes))
    BY <1>2 DEF OperandsWithin, GuardNode
  <2>2. OperandsOf(GuardNode(kind, flattened)) = flattened
    BY DEF OperandsOf, GuardNode, Range
  <2>3. /\ GuardNode(kind, flattened).sort \in Nat
        /\ GuardNode(kind, flattened).kind # "bits_const"
        /\ GuardNode(kind, flattened).args = <<>>
        /\ GuardNode(kind, flattened).members = flattened
    BY DEF GuardNode, Bool
  <2>4. flattened # {} => NodeFolded(a, GuardNode(kind, flattened))
    BY <1>2, <2>2, <2>3 DEF NodeFolded
  <2> QED
    BY <2>1, <2>4, InternFolds
<1>4. (\A n : Folded(BoolConst(a, n))) /\ (\A id : Folded(Existing(a, id)))
  BY LeavesFold, ExistingFolds
<1> QED
  BY <1>3, <1>4, Zenon DEF Junction, flattened

\* Unary operators.
LEMMA BitUnaryFolds ==
  ASSUME NEW a, Folded(a), NEW x, IsId(a, x), Sort(a, x) # Bool, NEW op \in UnaryOps
  PROVE  Folded(BitUnary(a, op, x))
<1>1. Sort(a, x) \in Nat \ {0} /\ op # "bits_const"
  BY SortOfId, KindsAreDistinct DEF Bool, OtherKinds
<1>2. ~IsConst(a, x) => Folded(Intern(a, Node(op, Sort(a, x), <<x>>, <<>>)))
  BY <1>1, OneOperandFolds
<1>3. \A n : Folded(BitsConst(a, Sort(a, x), n))
  BY <1>1, LeavesFold
<1> QED
  BY <1>2, <1>3 DEF BitUnary

\* Binary operators.
LEMMA BitBinaryFolds ==
  ASSUME NEW a, Folded(a), NEW x, IsId(a, x), NEW y, IsId(a, y), Sort(a, x) # Bool,
         NEW op \in BinaryOps
  PROVE  Folded(BitBinary(a, op, x, y))
<1>1. Sort(a, x) \in Nat \ {0} /\ op # "bits_const"
  BY SortOfId, KindsAreDistinct DEF Bool, OtherKinds
<1>2. ~(IsConst(a, x) /\ IsConst(a, y)) =>
        Folded(Intern(a, Node(op, Sort(a, x), <<x, y>>, <<>>)))
  BY <1>1, TwoOperandsFold
<1>3. \A n : Folded(BitsConst(a, Sort(a, x), n))
  BY <1>1, LeavesFold
<1> QED
  BY <1>2, <1>3 DEF BitBinary

\* Comparisons.
LEMMA CompareFolds ==
  ASSUME NEW a, Folded(a), NEW x, IsId(a, x), NEW y, IsId(a, y), NEW op, op # "bits_const"
  PROVE  Folded(Compare(a, op, x, y))
<1>1. ~(IsConst(a, x) /\ IsConst(a, y)) => Folded(Intern(a, Node(op, Bool, <<x, y>>, <<>>)))
  BY TwoOperandsFold DEF Bool
<1>2. \A n : Folded(BoolConst(a, n))
  BY LeavesFold
<1> QED
  BY <1>1, <1>2 DEF Compare

\* ite.
LEMMA IteFolds ==
  ASSUME NEW a, Folded(a), NEW c, IsId(a, c), NEW x, IsId(a, x), NEW y, IsId(a, y)
  PROVE  Folded(Ite(a, c, x, y))
<1>1. /\ <<c, x, y>> \in Seq(1..Len(a.nodes))
      /\ 1 \in 1..Len(<<c, x, y>>) /\ <<c, x, y>>[1] = c
  BY DEF IsId
<1>2. Sort(a, x) \in Nat
  BY SortOfId
<1>3. ~IsConst(a, c) => Folded(Intern(a, Node("ite", Sort(a, x), <<c, x, y>>, <<>>)))
  BY <1>1, <1>2, OperatorFolds
<1>4. \A id : Folded(Existing(a, id))
  BY ExistingFolds
<1> QED
  BY <1>3, <1>4 DEF Ite

\* bool_to_bit: its two constants, and an ite of them.
LEMMA BoolToBitFolds ==
  ASSUME NEW a, Folded(a), NEW c, IsId(a, c)
  PROVE  Folded(BoolToBit(a, c))
<1> DEFINE one  == BitsConst(a, 1, 1)
           zero == BitsConst(one, 1, 0)
<1>1. Folded(one) /\ Folded(zero)
  BY LeavesFold
<1>2. Sound(a) /\ Sound(one) /\ Sound(zero)
  BY <1>1 DEF Folded
<1>3. Extends(a, one) /\ IsId(one, one.id) /\ Extends(one, zero) /\ IsId(zero, zero.id)
  BY <1>2, LeavesExtend
<1>4. IsId(one, c) /\ IsId(zero, one.id)
  BY <1>2, <1>3, IdsKept
<1>5. IsId(zero, c)
  BY <1>2, <1>3, <1>4, IdsKept
<1> QED
  BY <1>1, <1>3, <1>4, <1>5, IteFolds DEF BoolToBit

\* bit_is_one: a constant, and a comparison with it.
LEMMA BitIsOneFolds ==
  ASSUME NEW a, Folded(a), NEW x, IsId(a, x)
  PROVE  Folded(BitIsOne(a, x))
<1> DEFINE one == BitsConst(a, 1, 1)
<1>1. Folded(one)
  <2>1. 1 \in Nat \ {0}
    OBVIOUS
  <2> QED
    BY <2>1, LeavesFold
<1>2. Sound(a)
  BY DEF Folded
<1>3. Extends(a, one) /\ IsId(one, one.id)
  BY <1>2, LeavesExtend
<1>4. IsId(one, x)
  BY <1>2, <1>3, IdsKept
<1> QED
  BY <1>1, <1>3, <1>4, CompareFolds DEF BitIsOne

\* concat.
LEMMA ConcatFolds ==
  ASSUME NEW a, Folded(a), NEW args \in Seq(1..Len(a.nodes)), TotalWidth(a, args) \in Nat \ {0}
  PROVE  Folded(Concat(a, args))
<1>1. (\E k \in 1..Len(args) : ~IsConst(a, args[k])) =>
        Folded(Intern(a, Node("concat", TotalWidth(a, args), args, <<>>)))
  BY OperatorFolds
<1>2. \A n : Folded(BitsConst(a, TotalWidth(a, args), n))
  BY LeavesFold
<1>3. \A id : Folded(Existing(a, id))
  BY ExistingFolds
<1> QED
  BY <1>1, <1>2, <1>3, Zenon DEF Concat

\* extract.
LEMMA ExtractFolds ==
  ASSUME NEW a, Folded(a), NEW x, IsId(a, x), NEW w \in Nat \ {0}, NEW start \in Nat,
         start + w <= Sort(a, x)
  PROVE  Folded(Extract(a, x, start, w))
<1>1. ~IsConst(a, x) => Folded(Intern(a, Node("extract", w, <<x>>, <<start>>)))
  BY OneOperandFolds
<1>2. \A n : Folded(BitsConst(a, w, n)) /\ Folded(Existing(a, n))
  BY LeavesFold, ExistingFolds
<1>3. w = Sort(a, x) => start = 0
  BY SortOfId
<1> QED
  BY <1>1, <1>2, <1>3, Zenon DEF Extract

\* zero_extend and sign_extend.
LEMMA ExtendFolds ==
  ASSUME NEW a, Folded(a), NEW x, IsId(a, x), NEW w \in Nat \ {0}, NEW signed
  PROVE  Folded(Extend(a, x, w, signed))
<1>1. (IF signed THEN "sign_extend" ELSE "zero_extend") # "bits_const"
  OBVIOUS
<1>2. ~IsConst(a, x) =>
        Folded(Intern(a, Node(IF signed THEN "sign_extend" ELSE "zero_extend", w,
                              <<x>>, <<ExtendAmount(a, x, w)>>)))
  BY <1>1, OneOperandFolds
<1>3. \A n : Folded(BitsConst(a, w, n)) /\ Folded(Existing(a, n))
  BY LeavesFold, ExistingFolds
<1> QED
  BY <1>2, <1>3, Zenon DEF Extend

-----------------------------------------------------------------------------
(***************************************************************************)
(* The invariant, and every constructor called on the arena of a state.    *)
(***************************************************************************)
FoldInv == Folded(Arena)

\* The empty arena is folded.
LEMMA InitFolded == Init => FoldInv
<1> SUFFICES ASSUME Init PROVE FoldInv
  OBVIOUS
<1>1. Sound(Arena)
  BY InitSound DEF Inv
<1>2. Len(Arena.nodes) = 0
  BY DEF Init, Arena
<1> QED
  BY <1>1, <1>2 DEF FoldInv, Folded

\* What a call has to give: a folded arena.
LEMMA CallFolds ==
  ASSUME FoldInv, Next
  PROVE  \E b : Folded(b) /\ nodes' = b.nodes /\ interned' = b.interned
<1> DEFINE Good(b) == Folded(b) /\ nodes' = b.nodes /\ interned' = b.interned
<1> SUFFICES \E b : Good(b)
  OBVIOUS
<1>0. Folded(Arena)
  BY DEF FoldInv
<1>1. \A b : Folded(b) /\ Became(b) => Good(b)
  BY DEF Became
<1>2. /\ \A x \in Guards : IsId(Arena, x) /\ Sort(Arena, x) = Bool
      /\ \A x \in Vectors : IsId(Arena, x) /\ Sort(Arena, x) # Bool
      /\ \A x : \A y \in Like(x) : IsId(Arena, y)
      /\ \A x \in Ids : IsId(Arena, x)
  BY DEF Guards, Vectors, Like, Ids, IsId, Sort, Arena
<1>3. \A x \in Vectors : nodes[x].sort = Sort(Arena, x) /\ Sort(Arena, x) \in Nat \ {0}
  BY <1>0, <1>2, SortOfId DEF Sort, Arena, Bool
<1> HIDE DEF Good
<1>4. CASE CallBoolConst
  BY <1>0, <1>1, <1>4, LeavesFold DEF CallBoolConst
<1>5. CASE CallBitsConst
  BY <1>0, <1>1, <1>5, LeavesFold, ArenaAssumption DEF CallBitsConst
<1>6. CASE CallVariable
  BY <1>0, <1>1, <1>6, LeavesFold DEF CallVariable
<1>7. CASE CallBoolNot
  BY <1>0, <1>1, <1>2, <1>7, BoolNotFolds DEF CallBoolNot
<1>8. CASE CallBoolAnd \/ CallBoolOr
  <2>1. \A args \in Lists(Guards) \cup {<<>>} : \A i \in 1..Len(args) :
          IsId(Arena, args[i]) /\ Sort(Arena, args[i]) = Bool
    BY <1>2, ListsAreIds
  <2>2. \A args \in Lists(Guards) \cup {<<>>} :
          Folded(BoolAnd(Arena, args)) /\ Folded(BoolOr(Arena, args))
    BY <1>0, <2>1, JunctionFolds DEF BoolAnd, BoolOr
  <2> QED
    BY <1>1, <1>8, <2>2 DEF CallBoolAnd, CallBoolOr
<1>9. CASE CallBitUnary
  BY <1>0, <1>1, <1>2, <1>9, BitUnaryFolds DEF CallBitUnary
<1>10. CASE CallBitBinary
  BY <1>0, <1>1, <1>2, <1>10, BitBinaryFolds DEF CallBitBinary
<1>11. CASE CallCompare
  BY <1>0, <1>1, <1>2, <1>11, CompareFolds, KindsAreDistinct DEF CallCompare, OtherKinds
<1>12. CASE CallIte
  BY <1>0, <1>1, <1>2, <1>12, IteFolds DEF CallIte
<1>13. CASE CallBoolToBit
  BY <1>0, <1>1, <1>2, <1>13, BoolToBitFolds DEF CallBoolToBit
<1>14. CASE CallBitIsOne
  BY <1>0, <1>1, <1>2, <1>14, BitIsOneFolds DEF CallBitIsOne
<1>15. CASE CallConcat
  <2>1. PICK args \in Lists(Vectors) :
          TotalWidth(Arena, args) \in 1..MaxWidth /\ Became(Concat(Arena, args))
    BY <1>15 DEF CallConcat
  <2>2. PICK n \in 1..MaxArgs : args \in [1..n -> Vectors]
    BY <2>1 DEF Lists
  <2>3. Vectors \subseteq 1..Len(Arena.nodes)
    BY <1>2 DEF IsId
  <2>4. args \in Seq(1..Len(Arena.nodes))
    <3>1. n \in Nat
      BY <2>2, ArenaAssumption
    <3>2. args \in [1..n -> 1..Len(Arena.nodes)]
      <4>1. args = [i \in 1..n |-> args[i]] /\ \A i \in 1..n : args[i] \in Vectors
        BY <2>2
      <4> QED
        BY <2>3, <4>1
    <3> QED
      BY <3>1, <3>2, SeqDef
  <2>5. Folded(Concat(Arena, args))
    BY <1>0, <2>1, <2>4, ConcatFolds
  <2> QED
    BY <1>1, <2>1, <2>5
<1>16. CASE CallExtract
  <2>1. PICK x \in Vectors : \E w \in 1..nodes[x].sort : \E start \in 0..(nodes[x].sort - w) :
          Became(Extract(Arena, x, start, w))
    BY <1>16 DEF CallExtract
  <2>2. PICK w \in 1..nodes[x].sort : \E start \in 0..(nodes[x].sort - w) :
          Became(Extract(Arena, x, start, w))
    BY <2>1
  <2>3. PICK start \in 0..(nodes[x].sort - w) : Became(Extract(Arena, x, start, w))
    BY <2>2
  <2>4. w \in Nat \ {0} /\ start \in Nat /\ start + w <= Sort(Arena, x)
    BY <1>3, <2>2, <2>3
  <2> QED
    BY <1>0, <1>1, <1>2, <2>3, <2>4, ExtractFolds
<1>17. CASE CallExtend
  <2>1. PICK x \in Vectors, signed \in BOOLEAN : \E w \in nodes[x].sort..MaxWidth :
          Became(Extend(Arena, x, w, signed))
    BY <1>17 DEF CallExtend
  <2>2. PICK w \in nodes[x].sort..MaxWidth : Became(Extend(Arena, x, w, signed))
    BY <2>1
  <2>3. w \in Nat \ {0}
    BY <1>3, <2>2
  <2> QED
    BY <1>0, <1>1, <1>2, <2>2, <2>3, ExtendFolds
<1> QED
  BY <1>4, <1>5, <1>6, <1>7, <1>8, <1>9, <1>10, <1>11, <1>12, <1>13, <1>14, <1>15, <1>16, <1>17
  DEF Next

\* Every step leaves a folded arena.
LEMMA StepFolded ==
  ASSUME FoldInv, [Next]_vars
  PROVE  FoldInv'
<1>1. CASE Next
  <2>1. PICK b : Folded(b) /\ nodes' = b.nodes /\ interned' = b.interned
    BY <1>1, CallFolds
  <2>2. Arena'.nodes = b.nodes /\ Arena'.interned = b.interned
    BY <2>1 DEF Arena
  <2> QED
    BY <2>1, <2>2 DEF FoldInv, Folded, Sound, NodeFolded, IsConst
<1>2. CASE UNCHANGED vars
  <2>1. Arena' = Arena
    BY <1>2 DEF vars, Arena
  <2> QED
    BY <2>1 DEF FoldInv, Folded, Sound, NodeFolded, IsConst
<1> QED
  BY <1>1, <1>2

(***************************************************************************)
(* In every reachable arena a node that has operands has one that is not   *)
(* constant: the constructors of src/expr.rs leave nothing computed from   *)
(* constants to the solver.                                                *)
(***************************************************************************)
THEOREM NothingConstantIsLeft == Spec => []ConstantsFold
<1>1. Init => FoldInv
  BY InitFolded
<1>2. FoldInv /\ [Next]_vars => FoldInv'
  BY StepFolded
<1>3. FoldInv => ConstantsFold
  BY DEF FoldInv, Folded, NodeFolded, ConstantsFold, Ids, Arena, IsConst
<1> QED
  BY <1>1, <1>2, <1>3, PTL DEF Spec


-----------------------------------------------------------------------------
(***************************************************************************)
(* Numbers of a width.  Every operator on bit vectors, and its folding,    *)
(* stays below the power of two of its width.                              *)
(***************************************************************************)
Words(w) == 0..AllOnes(w)

\* The power of a sum is the product of the powers.
LEMMA PowerAdds ==
  ASSUME NEW w \in Nat, NEW u \in Nat
  PROVE  2^(w + u) = 2^w * 2^u
<1> DEFINE N == {k \in Nat : 2^(w + k) = 2^w * 2^k}
<1>1. 0 \in N
  <2>1. 2^0 = 1 /\ w + 0 = w /\ 2^w \in Nat
    BY PowerIsPositive
  <2>2. \A p \in Nat : p * 1 = p
    OBVIOUS
  <2> QED
    BY <2>1, <2>2
<1>2. ASSUME NEW k \in Nat, k \in N PROVE k + 1 \in N
  <2>1. 2^(k + 1) = 2^k + 2^k /\ 2^((w + k) + 1) = 2^(w + k) + 2^(w + k)
    BY PowerDoubles
  <2>2. w + (k + 1) = (w + k) + 1
    OBVIOUS
  <2>3. PICK p \in Nat, q \in Nat : p = 2^w /\ q = 2^k
    BY PowerIsPositive
  <2>4. p * (q + q) = p * q + p * q
    OBVIOUS
  <2> QED
    BY <1>2, <2>1, <2>2, <2>3, <2>4
<1> HIDE DEF N
<1>3. u \in N
  BY <1>1, <1>2, SetInduction
<1> QED
  BY <1>3 DEF N

\* There are no fewer words of a greater width.
LEMMA WordsGrow ==
  ASSUME NEW w \in Nat, NEW u \in Nat, w <= u
  PROVE  2^w <= 2^u /\ Words(w) \subseteq Words(u)
<1>1. PICK k \in Nat : u = w + k
  <2>1. u - w \in Nat /\ u = w + (u - w)
    OBVIOUS
  <2> QED
    BY <2>1
<1>2. PICK p \in Nat \ {0}, q \in Nat \ {0} : p = 2^w /\ q = 2^k
  BY PowerIsPositive
<1>3. 2^u = p * q
  BY <1>1, <1>2, PowerAdds
<1>4. p * q >= p
  BY <1>2
<1> QED
  BY <1>2, <1>3, <1>4 DEF Words, AllOnes

\* Wrapping gives a word, and the least and the greatest are words.
LEMMA WrapIsWord ==
  ASSUME NEW w \in Nat, NEW k \in Int
  PROVE  Wrap(w, k) \in Words(w) /\ 0 \in Words(w) /\ AllOnes(w) \in Words(w)
<1>1. PICK p \in Nat \ {0} : p = 2^w
  BY PowerIsPositive
<1>2. k % p \in 0..(p - 1)
  OBVIOUS
<1> QED
  BY <1>1, <1>2 DEF Wrap, Words, AllOnes

\* Words are naturals, and stand for integers.
LEMMA SignedIsInteger ==
  ASSUME NEW w \in Nat, NEW n \in Words(w)
  PROVE  Signed(w, n) \in Int /\ n \in Nat
<1>1. 2^w \in Nat
  BY PowerIsPositive
<1> QED
  BY <1>1 DEF Signed, Words, AllOnes

\* Dividing does not increase a word, and there are products, quotients and remainders.
LEMMA QuotientIsWord ==
  ASSUME NEW w \in Nat, NEW n \in Words(w), NEW p \in Nat \ {0}
  PROVE  n \div p \in Words(w)
<1>1. n \in Nat /\ 2^w \in Nat
  BY SignedIsInteger, PowerIsPositive
<1>2. n \div p \in Nat /\ n \div p <= n
  <2>1. PICK q \in Nat : q = n \div p
    BY <1>1, Division
  <2>2. PICK r \in Nat : n = p * q + r
    <3>1. n = p * (n \div p) + (n % p) /\ n % p \in Nat
      BY <1>1, Division
    <3> QED
      BY <2>1, <3>1
  <2>3. p * q >= q
    OBVIOUS
  <2> QED
    BY <1>1, <2>1, <2>2, <2>3
<1> QED
  BY <1>1, <1>2 DEF Words, AllOnes

\* Quotients that truncate are integers, and so are their remainders.
LEMMA QuotientIsInteger ==
  ASSUME NEW m \in Int, NEW n \in Int, n # 0
  PROVE  Quotient(m, n) \in Int /\ Remainder(m, n) \in Int
<1>1. Abs(m) \in Nat /\ Abs(n) \in Nat \ {0}
  BY DEF Abs
<1>2. Abs(m) \div Abs(n) \in Nat
  BY <1>1, Division
<1>3. PICK q \in Int : q = Quotient(m, n)
  BY <1>2 DEF Quotient
<1>4. m - n * q \in Int
  OBVIOUS
<1> QED
  BY <1>3, <1>4 DEF Remainder

\* A number made of bits below w is a word.
LEMMA FromBitsIsWord ==
  ASSUME NEW w \in Nat, NEW B, B \subseteq 0..(w - 1)
  PROVE  FromBits(B) \in Words(w)
<1>1. FromBits(B) \in Nat /\ FromBits(B) < 2^w /\ 2^w \in Nat
  BY FromBitsHasBits, PowerIsPositive
<1> QED
  BY <1>1 DEF Words, AllOnes

\* Shifts of words are words.
LEMMA ShiftIsWord ==
  ASSUME NEW w \in Nat, NEW x \in Words(w), NEW n \in Nat
  PROVE  /\ Wrap(w, x * 2^n) \in Words(w)
         /\ x \div 2^n \in Words(w)
         /\ ShiftRight(w, x, n) \in Words(w)
<1>1. PICK p \in Nat \ {0} : p = 2^n
  BY PowerIsPositive
<1>2. x \in Nat /\ Signed(w, x) \in Int
  BY SignedIsInteger
<1>3. x * p \in Int /\ Signed(w, x) \div p \in Int
  BY <1>2
<1>4. Wrap(w, x * p) \in Words(w) /\ Wrap(w, Signed(w, x) \div p) \in Words(w)
  BY <1>3, WrapIsWord
<1>5. x \div p \in Words(w)
  BY QuotientIsWord
<1> QED
  BY <1>1, <1>4, <1>5 DEF ShiftRight

\* Unary operators give words.
LEMMA SmtUnaryIsWord ==
  ASSUME NEW op \in BitUnaryOp, NEW w \in Nat, NEW x \in Words(w)
  PROVE  SmtUnary(op, w, x) \in Words(w)
<1>1. 2^w \in Nat /\ x \in Nat
  BY PowerIsPositive, SignedIsInteger
<1>2. CASE op = "not"
  <2>1. AllOnes(w) - x \in Words(w)
    BY <1>1 DEF Words, AllOnes
  <2> QED
    BY <1>2, <2>1 DEF SmtUnary
<1>3. CASE op = "neg"
  <2>1. -x \in Int
    BY <1>1
  <2>2. Wrap(w, -x) \in Words(w)
    BY <2>1, WrapIsWord
  <2> QED
    BY <1>3, <2>2 DEF SmtUnary
<1> QED
  BY <1>2, <1>3 DEF BitUnaryOp

\* Binary operators give words, a division by zero included.
LEMMA SmtBinaryIsWord ==
  ASSUME NEW op \in BitBinaryOp, NEW w \in Nat \ {0}, NEW x \in Words(w), NEW y \in Words(w)
  PROVE  SmtBinary(op, w, x, y) \in Words(w)
<1>1. x \in Nat /\ y \in Nat /\ Signed(w, x) \in Int /\ Signed(w, y) \in Int /\ 2^w \in Nat
  BY SignedIsInteger, PowerIsPositive
<1>2. /\ 0 \in Words(w) /\ AllOnes(w) \in Words(w)
      /\ \A k \in Int : Wrap(w, k) \in Words(w)
  BY WrapIsWord
<1>3. \A n \in Nat : /\ Wrap(w, x * 2^n) \in Words(w) /\ x \div 2^n \in Words(w)
                     /\ ShiftRight(w, x, n) \in Words(w)
  BY ShiftIsWord
<1>4. CASE op \in {"add", "sub", "mul"}
  <2>1. x + y \in Int /\ x - y \in Int /\ x * y \in Int
    BY <1>1
  <2>2. /\ Wrap(w, x + y) \in Words(w) /\ Wrap(w, x - y) \in Words(w)
        /\ Wrap(w, x * y) \in Words(w)
    BY <1>2, <2>1
  <2> QED
    BY <1>4, <2>2 DEF SmtBinary
<1>5. CASE op \in {"udiv", "urem"}
  <2>1. y # 0 => x \div y \in Words(w)
    BY <1>1, QuotientIsWord
  <2>2. y # 0 => x % y \in Words(w)
    BY <1>1 DEF Words, AllOnes
  <2> QED
    BY <1>2, <1>5, <2>1, <2>2 DEF SmtBinary
<1>6. CASE op \in {"sdiv", "srem"}
  <2>1. 1 \in Words(w)
    <3>1. 2^1 = 2
      OBVIOUS
    <3>2. 1 \in Nat /\ w \in Nat /\ 1 <= w
      OBVIOUS
    <3>3. 2^1 <= 2^w
      BY <3>2, WordsGrow
    <3> QED
      BY <1>1, <3>1, <3>3 DEF Words, AllOnes
  <2>2. y # 0 => Signed(w, y) # 0
    BY <1>1 DEF Signed, Words, AllOnes
  <2>3. y # 0 => /\ Quotient(Signed(w, x), Signed(w, y)) \in Int
                 /\ Remainder(Signed(w, x), Signed(w, y)) \in Int
    BY <1>1, <2>2, QuotientIsInteger
  <2>4. y # 0 => /\ Wrap(w, Quotient(Signed(w, x), Signed(w, y))) \in Words(w)
                 /\ Wrap(w, Remainder(Signed(w, x), Signed(w, y))) \in Words(w)
    BY <1>2, <2>3
  <2> QED
    BY <1>2, <1>6, <2>1, <2>4 DEF SmtBinary
<1>7. CASE op \in {"and", "or", "xor"}
  <2>1. /\ FromBits({i \in 0..(w - 1) : Bit(x, i) = 1 /\ Bit(y, i) = 1}) \in Words(w)
        /\ FromBits({i \in 0..(w - 1) : Bit(x, i) = 1 \/ Bit(y, i) = 1}) \in Words(w)
        /\ FromBits({i \in 0..(w - 1) : Bit(x, i) # Bit(y, i)}) \in Words(w)
    BY FromBitsIsWord
  <2> QED
    BY <1>7, <2>1 DEF SmtBinary
<1>8. CASE op \in {"shl", "lshr"}
  BY <1>1, <1>2, <1>3, <1>8 DEF SmtBinary
<1>9. CASE op = "ashr"
  <2>1. ShiftRight(w, x, IF y >= w THEN w ELSE y) \in Words(w)
    BY <1>1, <1>3
  <2> QED
    BY <1>9, <2>1 DEF SmtBinary
<1> QED
  BY <1>4, <1>5, <1>6, <1>7, <1>8, <1>9 DEF BitBinaryOp

Divides(op) == op \in {"udiv", "sdiv", "urem", "srem"}

\* Folding computes what the solver would, except for a zero divisor.
LEMMA FoldIsSmt ==
  ASSUME NEW op \in BitBinaryOp, NEW w \in Nat \ {0}, NEW x \in Words(w), NEW y \in Words(w),
         Divides(op) => y # 0
  PROVE  FoldBinary(op, w, x, y) = SmtBinary(op, w, x, y)
<1>1. x \in Nat /\ y \in Nat
  BY SignedIsInteger
<1>2. CASE op \in {"udiv", "sdiv", "urem", "srem"}
  <2>1. y # 0
    BY <1>2 DEF Divides
  <2> QED
    BY <1>2, <2>1 DEF FoldBinary
<1>3. CASE op \in {"add", "sub", "mul", "and", "or", "xor"}
  BY <1>3 DEF FoldBinary
<1>4. CASE op \in {"shl", "lshr"}
  <2>1. FoldBinary(op, w, x, y) = ConstantShift(op, w, x, y)
    BY <1>4 DEF FoldBinary
  <2> QED
    BY <1>1, <1>4, <2>1 DEF ConstantShift, SmtBinary
<1>5. CASE op = "ashr"
  <2>1. FoldBinary(op, w, x, y) = ConstantShift(op, w, x, y)
    BY <1>5 DEF FoldBinary
  <2>2. CASE y < w
    BY <1>1, <1>5, <2>1, <2>2 DEF ConstantShift, SmtBinary
  <2>3. CASE y >= w
    <3>1. PICK p \in Nat \ {0} : p = 2^w
      BY PowerIsPositive
    <3>2. x < p
      BY <1>1, <3>1 DEF Words, AllOnes
    <3>3. (x - p) \div p = -1 \/ x = 0
      BY <1>1, <3>2
    <3>4. x \div p = 0 /\ 0 % p = 0 /\ (-1) % p = p - 1
      BY <1>1, <3>2
    <3>5. SmtBinary(op, w, x, y) = Wrap(w, Signed(w, x) \div 2^w)
      BY <1>5, <2>3 DEF SmtBinary, ShiftRight
    <3>a. ~(y < w)
      BY <1>1, <2>3
    <3>6. CASE Negative(w, x)
      <4>1. x # 0
        <5>1. w - 1 \in Nat
          OBVIOUS
        <5>2. 2^(w - 1) \in Nat \ {0}
          BY <5>1, PowerIsPositive
        <5> QED
          BY <3>6, <5>2 DEF Negative
      <4>2. Signed(w, x) \div 2^w = -1
        BY <3>1, <3>3, <3>6, <4>1 DEF Signed
      <4>3. SmtBinary(op, w, x, y) = AllOnes(w)
        BY <3>1, <3>4, <3>5, <4>2 DEF Wrap, AllOnes
      <4> QED
        BY <1>5, <2>1, <2>3, <3>6, <3>a, <4>3 DEF ConstantShift
    <3>7. CASE ~Negative(w, x)
      <4>1. SmtBinary(op, w, x, y) = 0
        BY <3>1, <3>4, <3>5, <3>7 DEF Signed, Wrap
      <4> QED
        BY <1>5, <2>1, <2>3, <3>7, <3>a, <4>1 DEF ConstantShift
    <3> QED
      BY <3>6, <3>7
  <2> QED
    BY <1>1, <2>2, <2>3
<1> QED
  BY <1>2, <1>3, <1>4, <1>5 DEF BitBinaryOp

\* Folding gives words.
LEMMA FoldBinaryIsWord ==
  ASSUME NEW op \in BitBinaryOp, NEW w \in Nat \ {0}, NEW x \in Words(w), NEW y \in Words(w)
  PROVE  FoldBinary(op, w, x, y) \in Words(w)
<1>1. CASE Divides(op) => y # 0
  BY <1>1, FoldIsSmt, SmtBinaryIsWord
<1>2. CASE Divides(op) /\ y = 0
  <2>1. PICK h \in Nat \ {0} : h = 2^(w - 1) /\ 2^w = h + h
    <3>1. w - 1 \in Nat /\ (w - 1) + 1 = w
      OBVIOUS
    <3>2. 2^(w - 1) \in Nat \ {0} /\ 2^((w - 1) + 1) = 2^(w - 1) + 2^(w - 1)
      BY <3>1, PowerIsPositive, PowerDoubles
    <3> QED
      BY <3>1, <3>2
  <2>2. SignedMin(w) \in Words(w) /\ SignedMax(w) \in Words(w)
    BY <2>1 DEF SignedMin, SignedMax, Words, AllOnes
  <2>3. 0 \in Words(w) /\ AllOnes(w) \in Words(w)
    BY WrapIsWord
  <2> QED
    BY <1>2, <2>2, <2>3 DEF FoldBinary, Divides
<1> QED
  BY <1>1, <1>2

\* An extract is a word of its width.
LEMMA ExtractIsWord ==
  ASSUME NEW w \in Nat, NEW x \in Nat, NEW start \in Nat
  PROVE  SmtExtract(x, start, w) \in Words(w)
<1>1. PICK p \in Nat \ {0} : p = 2^start
  BY PowerIsPositive
<1>2. x \div p \in Nat
  BY Division
<1>3. Wrap(w, x \div p) \in Words(w)
  BY <1>2, WrapIsWord
<1> QED
  BY <1>1, <1>3 DEF SmtExtract, Wrap

\* An extension is a word of its width.
LEMMA ExtendIsWord ==
  ASSUME NEW w \in Nat, NEW x \in Words(w), NEW u \in Nat, w <= u, NEW signed \in BOOLEAN
  PROVE  SmtExtend(w, x, u, signed) \in Words(u)
<1>1. Signed(w, x) \in Int
  BY SignedIsInteger
<1>2. Wrap(u, Signed(w, x)) \in Words(u)
  BY <1>1, WrapIsWord
<1>3. x \in Words(u)
  BY WordsGrow
<1> QED
  BY <1>2, <1>3 DEF SmtExtend

-----------------------------------------------------------------------------
(***************************************************************************)
(* Concatenation: the sum of the widths of a list, and the number that     *)
(* joins its members, most significant first.                              *)
(***************************************************************************)
SumOf(widths, args) == FoldLeft(LAMBDA m, x : m + widths[x], 0, args)
JoinOf(widths, numbers, args) == FoldLeft(LAMBDA m, x : m * 2^widths[x] + numbers[x], 0, args)

\* The sum of the widths of the first members, one after the other.
Sums(u, widths, args, n) ==
  u[0] = 0 /\ \A k \in 0..(n - 1) : u[k + 1] = u[k] + widths[args[k + 1]]

\* The numbers that join the first members.
Joins(u, widths, numbers, args, n) ==
  u[0] = 0 /\ \A k \in 0..(n - 1) :
                u[k + 1] = u[k] * 2^widths[args[k + 1]] + numbers[args[k + 1]]

\* The sum of a list is reached by adding one width after the other.
LEMMA SumRuns ==
  ASSUME NEW args, NEW n \in Nat, DOMAIN args = 1..n, NEW widths,
         \A k \in 1..n : widths[args[k]] \in Nat
  PROVE  \E u : Sums(u, widths, args, n) /\ SumOf(widths, args) = u[n]
<1> DEFINE S == 1..n
           Steps(h) == h = [s \in SUBSET S |->
                              IF s = {} THEN 0 ELSE h[s \ {Max(s)}] + widths[args[Max(s)]]]
           iter == CHOOSE h : Steps(h)
           pick == [s \in SUBSET S |-> Max(s)]
           step == [p \in S \X Nat |-> p[2] + widths[args[p[1]]]]
<1>1. SumOf(widths, args) = iter[S]
  BY DEF SumOf, FoldLeft, MapThenFoldSet
<1>2. IsFiniteSet(S)
  BY FS_Interval
<1>3. \A s \in SUBSET S : s # {} => pick[s] \in s /\ pick[s] = Max(s)
  BY GreatestExists
<1>4. \A x \in S : \A v \in Nat : /\ step[<<x, v>>] = v + widths[args[x]]
                                 /\ step[<<x, v>>] \in Nat
  OBVIOUS
<1> HIDE DEF step, pick
<1>5. PICK g \in [SUBSET S -> Nat] : FoldsSubsets(g, SUBSET S, 0, pick, step)
  BY <1>2, <1>3, <1>4, SubsetRecursion
<1>6. ASSUME NEW s \in SUBSET S
      PROVE  g[s] = IF s = {} THEN 0 ELSE g[s \ {Max(s)}] + widths[args[Max(s)]]
  <2>1. CASE s = {}
    BY <1>5, <2>1 DEF FoldsSubsets
  <2>2. CASE s # {}
    <3>1. g[s] = step[<<pick[s], g[s \ {pick[s]}]>>] /\ pick[s] = Max(s) /\ Max(s) \in S
      BY <1>3, <1>5, <2>2 DEF FoldsSubsets
    <3>2. g[s \ {Max(s)}] \in Nat
      BY <1>5
    <3> QED
      BY <1>4, <2>2, <3>1, <3>2
  <2> QED
    BY <2>1, <2>2
<1>7. Steps(g)
  BY <1>5, <1>6
<1>8. Steps(iter)
  BY <1>7
<1> HIDE DEF iter
<1> DEFINE u == [k \in 0..n |-> iter[1..k]]
<1>9. u[0] = 0
  <2>1. 1..0 = {} /\ {} \in SUBSET S /\ 0 \in 0..n
    OBVIOUS
  <2>2. iter[{}] = 0
    BY <1>8, <2>1
  <2> QED
    BY <2>1, <2>2
<1>10. ASSUME NEW k \in 0..(n - 1) PROVE u[k + 1] = u[k] + widths[args[k + 1]]
  <2>1. /\ 1..(k + 1) \in SUBSET S /\ 1..(k + 1) # {}
        /\ Max(1..(k + 1)) = k + 1 /\ (1..(k + 1)) \ {k + 1} = 1..k
    BY FirstPlaces
  <2>2. iter[1..(k + 1)] = iter[1..k] + widths[args[k + 1]]
    <3>1. ASSUME NEW s \in SUBSET S, s # {}
          PROVE  iter[s] = iter[s \ {Max(s)}] + widths[args[Max(s)]]
      BY <1>8, <3>1
    <3> QED
      BY <2>1, <3>1
  <2> QED
    BY <2>2
<1>11. Sums(u, widths, args, n) /\ u[n] = iter[S]
  BY <1>9, <1>10 DEF Sums
<1> QED
  BY <1>1, <1>11

\* The number that joins a list is reached by appending one number after the other.
LEMMA JoinRuns ==
  ASSUME NEW args, NEW n \in Nat, DOMAIN args = 1..n, NEW widths, NEW numbers,
         \A k \in 1..n : widths[args[k]] \in Nat /\ numbers[args[k]] \in Nat
  PROVE  \E u : Joins(u, widths, numbers, args, n) /\ JoinOf(widths, numbers, args) = u[n]
<1> DEFINE S == 1..n
           Steps(h) == h = [s \in SUBSET S |->
                              IF s = {} THEN 0
                              ELSE h[s \ {Max(s)}] * 2^widths[args[Max(s)]]
                                     + numbers[args[Max(s)]]]
           iter == CHOOSE h : Steps(h)
           pick == [s \in SUBSET S |-> Max(s)]
           step == [p \in S \X Nat |-> p[2] * 2^widths[args[p[1]]] + numbers[args[p[1]]]]
<1>1. JoinOf(widths, numbers, args) = iter[S]
  BY DEF JoinOf, FoldLeft, MapThenFoldSet
<1>2. IsFiniteSet(S)
  BY FS_Interval
<1>3. \A s \in SUBSET S : s # {} => pick[s] \in s /\ pick[s] = Max(s)
  BY GreatestExists
<1>4. \A x \in S : \A v \in Nat : /\ step[<<x, v>>] = v * 2^widths[args[x]] + numbers[args[x]]
                                 /\ step[<<x, v>>] \in Nat
  <2> SUFFICES ASSUME NEW x \in S, NEW v \in Nat
               PROVE  v * 2^widths[args[x]] + numbers[args[x]] \in Nat
    OBVIOUS
  <2>1. PICK p \in Nat, y \in Nat : p = 2^widths[args[x]] /\ y = numbers[args[x]]
    BY PowerIsPositive
  <2>2. v * p + y \in Nat
    OBVIOUS
  <2> QED
    BY <2>1, <2>2
<1> HIDE DEF step, pick
<1>5. PICK g \in [SUBSET S -> Nat] : FoldsSubsets(g, SUBSET S, 0, pick, step)
  BY <1>2, <1>3, <1>4, SubsetRecursion
<1>6. ASSUME NEW s \in SUBSET S
      PROVE  g[s] = IF s = {} THEN 0 
                    ELSE g[s \ {Max(s)}] * 2^widths[args[Max(s)]] + numbers[args[Max(s)]]
  <2>1. CASE s = {}
    BY <1>5, <2>1 DEF FoldsSubsets
  <2>2. CASE s # {}
    <3>1. g[s] = step[<<pick[s], g[s \ {pick[s]}]>>] /\ pick[s] = Max(s) /\ Max(s) \in S
      BY <1>3, <1>5, <2>2 DEF FoldsSubsets
    <3>2. g[s \ {Max(s)}] \in Nat
      BY <1>5
    <3> QED
      BY <1>4, <2>2, <3>1, <3>2
  <2> QED
    BY <2>1, <2>2
<1>7. Steps(g)
  BY <1>5, <1>6
<1>8. Steps(iter)
  BY <1>7
<1> HIDE DEF iter
<1> DEFINE u == [k \in 0..n |-> iter[1..k]]
<1>9. u[0] = 0
  <2>1. 1..0 = {} /\ {} \in SUBSET S /\ 0 \in 0..n
    OBVIOUS
  <2>2. iter[{}] = 0
    BY <1>8, <2>1
  <2> QED
    BY <2>1, <2>2
<1>10. ASSUME NEW k \in 0..(n - 1)
       PROVE  u[k + 1] = u[k] * 2^widths[args[k + 1]] + numbers[args[k + 1]]
  <2>1. /\ 1..(k + 1) \in SUBSET S /\ 1..(k + 1) # {}
        /\ Max(1..(k + 1)) = k + 1 /\ (1..(k + 1)) \ {k + 1} = 1..k
    BY FirstPlaces
  <2>2. iter[1..(k + 1)] = iter[1..k] * 2^widths[args[k + 1]] + numbers[args[k + 1]]
    <3>1. ASSUME NEW s \in SUBSET S, s # {} 
          PROVE  iter[s] = iter[s \ {Max(s)}] * 2^widths[args[Max(s)]] + numbers[args[Max(s)]]
      BY <1>8, <3>1
    <3> QED
      BY <2>1, <3>1
  <2> QED
    BY <2>2
<1>11. Joins(u, widths, numbers, args, n) /\ u[n] = iter[S]
  BY <1>9, <1>10 DEF Joins
<1> QED
  BY <1>1, <1>11

\* Numbers of the widths of a list join to a number of the sum of the widths.
LEMMA JoinIsWord ==
  ASSUME NEW args, NEW n \in Nat, DOMAIN args = 1..n, NEW widths, NEW numbers,
         \A k \in 1..n : widths[args[k]] \in Nat /\ numbers[args[k]] \in Words(widths[args[k]])
  PROVE  /\ SumOf(widths, args) \in Nat
         /\ JoinOf(widths, numbers, args) \in Words(SumOf(widths, args))
<1>1. \A k \in 1..n : widths[args[k]] \in Nat /\ numbers[args[k]] \in Nat
  <2> SUFFICES ASSUME NEW k \in 1..n PROVE widths[args[k]] \in Nat /\ numbers[args[k]] \in Nat
    OBVIOUS
  <2> QED
    BY SignedIsInteger
<1>2. PICK s : Sums(s, widths, args, n) /\ SumOf(widths, args) = s[n]
  BY <1>1, SumRuns
<1>3. PICK j : Joins(j, widths, numbers, args, n) /\ JoinOf(widths, numbers, args) = j[n]
  BY <1>1, JoinRuns, SMTT(30)
<1> DEFINE N == {k \in Nat : k <= n => s[k] \in Nat /\ j[k] \in Words(s[k])}
<1>4. 0 \in N
  <2>1. s[0] = 0 /\ j[0] = 0 /\ 0 \in Words(0)
    BY <1>2, <1>3, WrapIsWord DEF Sums, Joins
  <2> QED
    BY <2>1
<1>5. ASSUME NEW k \in Nat, k \in N PROVE k + 1 \in N
  <2> SUFFICES ASSUME k + 1 <= n PROVE s[k + 1] \in Nat /\ j[k + 1] \in Words(s[k + 1])
    OBVIOUS
  <2>1. s[k] \in Nat /\ j[k] \in Words(s[k]) /\ k \in 0..(n - 1) /\ k + 1 \in 1..n
    BY <1>5
  <2>a. PICK w \in Nat : w = widths[args[k + 1]]
    BY <2>1
  <2>2. PICK v \in Words(w) : w = widths[args[k + 1]] /\ v = numbers[args[k + 1]]
    BY <2>1, <2>a
  <2>3. s[k + 1] = s[k] + w /\ j[k + 1] = j[k] * 2^w + v
    BY <1>2, <1>3, <2>1, <2>2 DEF Sums, Joins
  <2>4. PICK p \in Nat \ {0}, q \in Nat \ {0} : p = 2^s[k] /\ q = 2^w
    BY <2>1, PowerIsPositive
  <2>5. 2^(s[k] + w) = p * q
    BY <2>1, <2>4, PowerAdds
  <2>6. j[k] \in Nat /\ j[k] <= p - 1 /\ v \in Nat /\ v <= q - 1
    BY <2>1, <2>2, <2>4 DEF Words, AllOnes
  <2>7. PICK m \in Nat : m = j[k]
    BY <2>6
  <2>8. m * q \in Nat /\ m * q <= (p - 1) * q
    <3>1. PICK d \in Nat : p - 1 = m + d
      <4>1. p - 1 - m \in Nat /\ p - 1 = m + (p - 1 - m)
        BY <2>6, <2>7
      <4> QED
        BY <4>1
    <3>2. (m + d) * q = m * q + d * q /\ m * q \in Nat /\ d * q \in Nat
      OBVIOUS
    <3> QED
      BY <3>1, <3>2
  <2>9. (p - 1) * q = p * q - q /\ p * q \in Nat
    OBVIOUS
  <2>10. m * q + v \in 0..(p * q - 1)
    BY <2>6, <2>8, <2>9
  <2>11. j[k + 1] = m * q + v
    BY <2>3, <2>4, <2>7
  <2>12. 2^(s[k + 1]) = p * q
    BY <2>3, <2>5
  <2>13. Words(s[k + 1]) = 0..(p * q - 1)
    BY <2>12 DEF Words, AllOnes
  <2>14. s[k + 1] \in Nat
    BY <2>1, <2>3
  <2> QED
    BY <2>10, <2>11, <2>13, <2>14
<1> HIDE DEF N
<1>6. n \in N
  BY <1>4, <1>5, SetInduction
<1> QED
  BY <1>2, <1>3, <1>6 DEF N

\* The width of a concatenation is such a sum.
LEMMA TotalIsSum ==
  ASSUME NEW a, NEW args, NEW n \in Nat, DOMAIN args = 1..n, NEW widths,
         \A k \in 1..n : widths[args[k]] = Sort(a, args[k])
  PROVE  TotalWidth(a, args) =
           SumOf(widths, args)
<1> DEFINE S == 1..n
           Left(h, s) == IF s = {} THEN 0 ELSE h[s \ {Max(s)}] + Sort(a, args[Max(s)])
           Right(h, s) == IF s = {} THEN 0 ELSE h[s \ {Max(s)}] + widths[args[Max(s)]]
           Lefts(h) == h = [s \in SUBSET S |-> Left(h, s)]
           Rights(h) == h = [s \in SUBSET S |-> Right(h, s)]
<1>1. /\ TotalWidth(a, args) = (CHOOSE h : Lefts(h))[S]
      /\ SumOf(widths, args) = (CHOOSE h : Rights(h))[S]
  BY DEF TotalWidth, SumOf, FoldLeft, MapThenFoldSet
<1>2. \A h : \A s \in SUBSET S : Left(h, s) = Right(h, s)
  <2> SUFFICES ASSUME NEW h, NEW s \in SUBSET S PROVE Left(h, s) = Right(h, s)
    OBVIOUS
  <2>1. s # {} => Max(s) \in S
    BY GreatestExists
  <2> QED
    BY <2>1
<1> HIDE DEF Left, Right
<1>3. \A h : Lefts(h) <=> Rights(h)
  BY <1>2
<1> HIDE DEF Lefts, Rights
<1>4. (CHOOSE h : Lefts(h)) = (CHOOSE h : Rights(h))
  BY <1>3, Zenon
<1> QED
  BY <1>1, <1>4

\* The number a concatenation folds to is such a number.
LEMMA NumbersJoin ==
  ASSUME NEW a, NEW args, NEW n \in Nat, DOMAIN args = 1..n, NEW widths, NEW numbers,
         \A k \in 1..n : /\ widths[args[k]] = Sort(a, args[k])
                          /\ numbers[args[k]] = Number(a, args[k])
  PROVE  JoinedNumbers(a, args) =
           JoinOf(widths, numbers, args)
<1> DEFINE S == 1..n
           Left(h, s) == IF s = {} THEN 0
                         ELSE h[s \ {Max(s)}] * 2^Sort(a, args[Max(s)]) + Number(a, args[Max(s)])
           Right(h, s) == IF s = {} THEN 0
                          ELSE h[s \ {Max(s)}] * 2^widths[args[Max(s)]] + numbers[args[Max(s)]]
           Lefts(h) == h = [s \in SUBSET S |-> Left(h, s)]
           Rights(h) == h = [s \in SUBSET S |-> Right(h, s)]
<1>1. /\ JoinedNumbers(a, args) = (CHOOSE h : Lefts(h))[S]
      /\ JoinOf(widths, numbers, args) = (CHOOSE h : Rights(h))[S]
  BY DEF JoinedNumbers, JoinOf, FoldLeft, MapThenFoldSet
<1>2. \A h : \A s \in SUBSET S : Left(h, s) = Right(h, s)
  <2> SUFFICES ASSUME NEW h, NEW s \in SUBSET S PROVE Left(h, s) = Right(h, s)
    OBVIOUS
  <2>1. s # {} => Max(s) \in S
    BY GreatestExists
  <2> QED
    BY <2>1
<1> HIDE DEF Left, Right
<1>3. \A h : Lefts(h) <=> Rights(h)
  BY <1>2
<1> HIDE DEF Lefts, Rights
<1>4. (CHOOSE h : Lefts(h)) = (CHOOSE h : Rights(h))
  BY <1>3, Zenon
<1> QED
  BY <1>1, <1>4

\* The value of a concatenation in the solver is such a number.
ValuesJoined(ns, values, args) ==
  FoldLeft(LAMBDA m, x : m * 2^TermWidth(ns[x].sort) + values[x], 0, args)

\* Only the values and widths of the operands count.
LEMMA ValuesJoin ==
  ASSUME NEW ns, NEW values, NEW args, NEW n \in Nat, DOMAIN args = 1..n, NEW widths, NEW numbers,
         \A k \in 1..n : /\ widths[args[k]] = TermWidth(ns[args[k]].sort)
                          /\ numbers[args[k]] = values[args[k]]
  PROVE  ValuesJoined(ns, values, args) = JoinOf(widths, numbers, args)
<1> DEFINE S == 1..n
           Left(h, s) == IF s = {} THEN 0
                         ELSE h[s \ {Max(s)}] * 2^TermWidth(ns[args[Max(s)]].sort)
                                + values[args[Max(s)]]
           Right(h, s) == IF s = {} THEN 0
                          ELSE h[s \ {Max(s)}] * 2^widths[args[Max(s)]] + numbers[args[Max(s)]]
           Lefts(h) == h = [s \in SUBSET S |-> Left(h, s)]
           Rights(h) == h = [s \in SUBSET S |-> Right(h, s)]
<1>1. /\ ValuesJoined(ns, values, args) = (CHOOSE h : Lefts(h))[S]
      /\ JoinOf(widths, numbers, args) = (CHOOSE h : Rights(h))[S]
  BY DEF ValuesJoined, JoinOf, FoldLeft, MapThenFoldSet
<1>2. \A h : \A s \in SUBSET S : Left(h, s) = Right(h, s)
  <2> SUFFICES ASSUME NEW h, NEW s \in SUBSET S PROVE Left(h, s) = Right(h, s)
    OBVIOUS
  <2>1. s # {} => Max(s) \in S
    BY GreatestExists
  <2> QED
    BY <2>1
<1> HIDE DEF Left, Right
<1>3. \A h : Lefts(h) <=> Rights(h)
  BY <1>2
<1> HIDE DEF Lefts, Rights
<1>4. (CHOOSE h : Lefts(h)) = (CHOOSE h : Rights(h))
  BY <1>3, Zenon
<1> QED
  BY <1>1, <1>4

\* The width of a concatenation in the solver is such a sum.
LEMMA TermsSum ==
  ASSUME NEW args, NEW n \in Nat, DOMAIN args = 1..n, NEW widths,
         \A k \in 1..n : widths[args[k]] = TermWidth(nodes[args[k]].sort)
  PROVE  FoldLeft(LAMBDA m, x : m + TermWidth(nodes[x].sort), 0, args) =
           SumOf(widths, args)
<1> DEFINE S == 1..n
           Left(h, s) == IF s = {} THEN 0 ELSE h[s \ {Max(s)}] + TermWidth(nodes[args[Max(s)]].sort)
           Right(h, s) == IF s = {} THEN 0 ELSE h[s \ {Max(s)}] + widths[args[Max(s)]]
           Lefts(h) == h = [s \in SUBSET S |-> Left(h, s)]
           Rights(h) == h = [s \in SUBSET S |-> Right(h, s)]
<1>1. /\ FoldLeft(LAMBDA m, x : m + TermWidth(nodes[x].sort), 0, args) = (CHOOSE h : Lefts(h))[S]
      /\ SumOf(widths, args) = (CHOOSE h : Rights(h))[S]
  BY DEF SumOf, FoldLeft, MapThenFoldSet
<1>2. \A h : \A s \in SUBSET S : Left(h, s) = Right(h, s)
  <2> SUFFICES ASSUME NEW h, NEW s \in SUBSET S PROVE Left(h, s) = Right(h, s)
    OBVIOUS
  <2>1. s # {} => Max(s) \in S
    BY GreatestExists
  <2> QED
    BY <2>1
<1> HIDE DEF Left, Right
<1>3. \A h : Lefts(h) <=> Rights(h)
  BY <1>2
<1> HIDE DEF Lefts, Rights
<1>4. (CHOOSE h : Lefts(h)) = (CHOOSE h : Rights(h))
  BY <1>3, Zenon
<1> QED
  BY <1>1, <1>4
-----------------------------------------------------------------------------
(***************************************************************************)
(* The shapes of nodes.  A constructor that interns a node has looked at   *)
(* its operands first, so what it would have simplified is not there: a    *)
(* bool_not is not of a constant or of a bool_not, and the operands of a   *)
(* junction are two at least, not constant, and no junction of its kind.   *)
(***************************************************************************)
GuardIds(a)  == {x \in 1..Len(a.nodes) : Sort(a, x) = Bool}
VectorIds(a) == {x \in 1..Len(a.nodes) : Sort(a, x) # Bool}

LeafShape(node) ==
  \/ \E n \in {0, 1} : node = Node("bool_const", Bool, <<>>, <<n>>)
  \/ /\ node.sort \in Nat \ {0}
     /\ \E n \in Words(node.sort) : node = Node("bits_const", node.sort, <<>>, <<n>>)
  \/ \E name \in Names : node = Node("variable", SortOf[name], <<>>, <<name>>)

NotShape(a, node) ==
  \E x \in GuardIds(a) : /\ a.nodes[x].kind \notin {"bool_const", "bool_not"}
                         /\ node = Node("bool_not", Bool, <<x>>, <<>>)

\* The operands of a junction of a kind.
NormalIds(a, kind, ids) ==
  /\ ids \subseteq GuardIds(a)
  /\ \A x \in ids : a.nodes[x].kind \notin {"bool_const", kind}

JunctionShape(a, node) ==
  \E kind \in {"bool_and", "bool_or"} :
    /\ node = GuardNode(kind, node.members)
    /\ NormalIds(a, kind, node.members)
    /\ node.members # {} /\ \A x \in node.members : node.members # {x}

OperatorShape(a, node) ==
  \/ \E op \in UnaryOps, x \in VectorIds(a) : node = Node(op, Sort(a, x), <<x>>, <<>>)
  \/ \E op \in BinaryOps, x \in VectorIds(a), y \in VectorIds(a) :
       Sort(a, y) = Sort(a, x) /\ node = Node(op, Sort(a, x), <<x, y>>, <<>>)
  \/ \E op \in CompareOps, x \in VectorIds(a), y \in VectorIds(a) :
       Sort(a, y) = Sort(a, x) /\ node = Node(op, Bool, <<x, y>>, <<>>)

IteShape(a, node) ==
  \E c \in GuardIds(a), x \in 1..Len(a.nodes), y \in 1..Len(a.nodes) :
    Sort(a, y) = Sort(a, x) /\ node = Node("ite", Sort(a, x), <<c, x, y>>, <<>>)

PartShape(a, node) ==
  /\ node.sort \in Nat \ {0}
  /\ \/ /\ node = Node("concat", node.sort, node.args, <<>>)
        /\ node.args \in Seq(VectorIds(a)) /\ node.sort = TotalWidth(a, node.args)
     \/ \E x \in VectorIds(a) : \E start \in 0..(Sort(a, x) - node.sort) :
          node = Node("extract", node.sort, <<x>>, <<start>>)
     \/ \E x \in VectorIds(a), kind \in {"zero_extend", "sign_extend"} :
          /\ node.sort >= Sort(a, x)
          /\ node = Node(kind, node.sort, <<x>>, <<node.sort - Sort(a, x)>>)

Shaped(a, node) ==
  \/ LeafShape(node)
  \/ NotShape(a, node)
  \/ JunctionShape(a, node)
  \/ OperatorShape(a, node)
  \/ IteShape(a, node)
  \/ PartShape(a, node)

WellShaped(a) == Folded(a) /\ \A i \in 1..Len(a.nodes) : Shaped(a, a.nodes[i])

\* Ids keep their sorts and kinds when an arena is extended.
LEMMA IdsExtend ==
  ASSUME NEW a, Sound(a), NEW b, Extends(a, b)
  PROVE  /\ 1..Len(a.nodes) \subseteq 1..Len(b.nodes)
         /\ \A x \in 1..Len(a.nodes) : b.nodes[x] = a.nodes[x] /\ Sort(b, x) = Sort(a, x)
         /\ GuardIds(a) \subseteq GuardIds(b) /\ VectorIds(a) \subseteq VectorIds(b)
<1>1. Len(a.nodes) \in Nat /\ Len(b.nodes) \in Nat /\ Len(a.nodes) <= Len(b.nodes)
  BY DEF Sound, Extends
<1>2. 1..Len(a.nodes) \subseteq 1..Len(b.nodes)
  BY <1>1
<1>3. \A x \in 1..Len(a.nodes) : b.nodes[x] = a.nodes[x] /\ Sort(b, x) = Sort(a, x)
  BY DEF Extends, Sort
<1> QED
  BY <1>2, <1>3 DEF GuardIds, VectorIds

\* The sum of the widths of a list of vectors, and that it stays the same.
LEMMA WidthOfVectors ==
  ASSUME NEW a, NEW args \in Seq(VectorIds(a)), NEW widths,
         \A k \in 1..Len(args) : widths[args[k]] = Sort(a, args[k])
  PROVE  TotalWidth(a, args) = SumOf(widths, args)
<1>1. Len(args) \in Nat /\ DOMAIN args = 1..Len(args)
  OBVIOUS
<1> QED
  BY <1>1, TotalIsSum

\* A list of vectors is one, of the same width, in an arena that has their sorts.
LEMMA WidthKept ==
  ASSUME NEW a, NEW b, VectorIds(a) \subseteq VectorIds(b),
         \A x \in VectorIds(a) : Sort(b, x) = Sort(a, x),
         NEW args \in Seq(VectorIds(a))
  PROVE  args \in Seq(VectorIds(b)) /\ TotalWidth(b, args) = TotalWidth(a, args)
<1>1. PICK widths : widths = [x \in VectorIds(a) |-> Sort(a, x)]
  OBVIOUS
<1>2. \A k \in 1..Len(args) : args[k] \in VectorIds(a)
  BY ElementOfSeq
<1>3. args \in Seq(VectorIds(b))
  OBVIOUS
<1>4. \A k \in 1..Len(args) : widths[args[k]] = Sort(a, args[k])
  BY <1>1, <1>2
<1>5. \A k \in 1..Len(args) : widths[args[k]] = Sort(b, args[k])
  BY <1>2, <1>4
<1>6. TotalWidth(a, args) = SumOf(widths, args)
  BY <1>4, WidthOfVectors
<1>7. TotalWidth(b, args) = SumOf(widths, args)
  BY <1>3, <1>5, WidthOfVectors
<1> QED
  BY <1>3, <1>6, <1>7

\* A shape stays a shape when the arena is extended.
LEMMA ShapeKept ==
  ASSUME NEW a, Sound(a), NEW b, Extends(a, b), NEW node, Shaped(a, node)
  PROVE  Shaped(b, node)
<1>1. /\ 1..Len(a.nodes) \subseteq 1..Len(b.nodes)
      /\ \A x \in 1..Len(a.nodes) : b.nodes[x] = a.nodes[x] /\ Sort(b, x) = Sort(a, x)
      /\ GuardIds(a) \subseteq GuardIds(b) /\ VectorIds(a) \subseteq VectorIds(b)
  BY IdsExtend
<1>2. GuardIds(a) \subseteq 1..Len(a.nodes) /\ VectorIds(a) \subseteq 1..Len(a.nodes)
  BY DEF GuardIds, VectorIds
<1>3. CASE LeafShape(node)
  BY <1>3 DEF Shaped
<1>4. CASE NotShape(a, node)
  BY <1>1, <1>2, <1>4 DEF Shaped, NotShape
<1>5. CASE JunctionShape(a, node)
  <2>1. \A kind : NormalIds(a, kind, node.members) => NormalIds(b, kind, node.members)
    BY <1>1, <1>2 DEF NormalIds
  <2>2. JunctionShape(b, node)
    BY <1>5, <2>1 DEF JunctionShape
  <2> QED
    BY <2>2 DEF Shaped
<1>6. CASE OperatorShape(a, node)
  <2>1. OperatorShape(b, node)
    BY <1>1, <1>2, <1>6 DEF OperatorShape
  <2> QED
    BY <2>1 DEF Shaped
<1>7. CASE IteShape(a, node)
  <2>1. IteShape(b, node)
    BY <1>1, <1>2, <1>7 DEF IteShape
  <2> QED
    BY <2>1 DEF Shaped
<1>8. CASE PartShape(a, node)
  <2>1. node.args \in Seq(VectorIds(a)) => /\ node.args \in Seq(VectorIds(b))
                                           /\ TotalWidth(b, node.args) = TotalWidth(a, node.args)
    BY <1>1, <1>2, WidthKept
  <2>2. PartShape(b, node)
    BY <1>1, <1>2, <1>8, <2>1 DEF PartShape
  <2> QED
    BY <2>2 DEF Shaped
<1> QED
  BY <1>3, <1>4, <1>5, <1>6, <1>7, <1>8 DEF Shaped

\* The nodes of an arena into which a node is interned.
LEMMA InternedNodes ==
  ASSUME NEW a, Sound(a), NEW node
  PROVE  LET b == Intern(a, node) IN
         /\ \A i \in 1..Len(b.nodes) : i \in 1..Len(a.nodes) \/ b.nodes[i] = node
         /\ b.nodes[b.id] = node
<1> DEFINE b == Intern(a, node)
<1>1. Len(a.nodes) \in Nat /\ a.nodes \in Seq(Elements(a.nodes) \cup {node})
  BY DEF Sound
<1>2. CASE node \in DOMAIN a.interned
  <2>1. b.nodes = a.nodes /\ b.id = a.interned[node]
    BY <1>2 DEF Intern, Existing
  <2>2. PICK i \in 1..Len(a.nodes) : node = a.nodes[i]
    BY <1>2 DEF Sound, Elements
  <2>3. b.id = i
    BY <2>1, <2>2 DEF Sound
  <2> QED
    BY <2>1, <2>2, <2>3
<1>3. CASE node \notin DOMAIN a.interned
  <2>1. b.nodes = Append(a.nodes, node) /\ b.id = Len(a.nodes) + 1
    BY <1>3 DEF Intern
  <2> HIDE DEF b
  <2>2. /\ Len(b.nodes) = Len(a.nodes) + 1 /\ b.nodes[Len(a.nodes) + 1] = node
    BY <1>1, <2>1, AppendProperties
  <2> QED
    BY <1>1, <2>1, <2>2 DEF b
<1> QED
  BY <1>2, <1>3

\* Interning a node of a shape.
LEMMA InternShapes ==
  ASSUME NEW a, WellShaped(a), NEW node, OperandsWithin(node, Len(a.nodes)),
         Shaped(a, node), Folded(Intern(a, node))
  PROVE  WellShaped(Intern(a, node))
<1> DEFINE b == Intern(a, node)
<1>1. Sound(a) /\ Extends(a, b)
  BY InternExtends DEF WellShaped, Folded
<1>2. \A i \in 1..Len(b.nodes) : i \in 1..Len(a.nodes) \/ b.nodes[i] = node
  BY <1>1, InternedNodes
<1> HIDE DEF b
<1>3. \A i \in 1..Len(a.nodes) : b.nodes[i] = a.nodes[i] /\ Shaped(b, a.nodes[i])
  BY <1>1, IdsExtend, ShapeKept DEF WellShaped
<1>4. Shaped(b, node)
  BY <1>1, ShapeKept
<1> QED
  BY <1>2, <1>3, <1>4 DEF WellShaped, b

\* Returning an id.
LEMMA ExistingShapes ==
  ASSUME NEW a, WellShaped(a), NEW id
  PROVE  WellShaped(Existing(a, id))
<1>1. Folded(Existing(a, id))
  BY ExistingFolds DEF WellShaped
<1>2. Sound(a) /\ Extends(a, Existing(a, id))
  BY ExistingExtends DEF WellShaped, Folded
<1>3. Existing(a, id).nodes = a.nodes
  BY DEF Existing
<1>4. \A i \in 1..Len(a.nodes) : Shaped(Existing(a, id), a.nodes[i])
  BY <1>2, ShapeKept DEF WellShaped
<1> QED
  BY <1>1, <1>3, <1>4 DEF WellShaped

\* Constants and variables.
LEMMA LeavesShape ==
  ASSUME NEW a, WellShaped(a)
  PROVE  /\ \A n \in {0, 1} : WellShaped(BoolConst(a, n))
         /\ \A w \in Nat \ {0} : \A n \in Words(w) : WellShaped(BitsConst(a, w, n))
         /\ \A name \in Names : WellShaped(Variable(a, name))
<1>1. Folded(a)
  BY DEF WellShaped
<1>2. ASSUME NEW node, LeafShape(node), Folded(Intern(a, node))
      PROVE  WellShaped(Intern(a, node))
  <2>1. node.args = <<>> /\ node.members = {}
    BY <1>2 DEF LeafShape, Node
  <2>2. OperandsWithin(node, Len(a.nodes))
    BY <2>1 DEF OperandsWithin
  <2> QED
    BY <1>2, <2>2, InternShapes DEF Shaped
<1>3. \A n \in {0, 1} : WellShaped(BoolConst(a, n))
  <2> SUFFICES ASSUME NEW n \in {0, 1} PROVE WellShaped(BoolConst(a, n))
    OBVIOUS
  <2>1. LeafShape(Node("bool_const", Bool, <<>>, <<n>>))
    BY DEF LeafShape
  <2> QED
    BY <1>1, <1>2, <2>1, LeavesFold DEF BoolConst
<1>4. ASSUME NEW w \in Nat \ {0}, NEW n \in Words(w) PROVE WellShaped(BitsConst(a, w, n))
  <2>1. LeafShape(Node("bits_const", w, <<>>, <<n>>))
    BY DEF LeafShape, Node
  <2> QED
    BY <1>1, <1>2, <2>1, LeavesFold DEF BitsConst
<1>5. ASSUME NEW name \in Names PROVE WellShaped(Variable(a, name))
  <2>1. LeafShape(Node("variable", SortOf[name], <<>>, <<name>>))
    BY DEF LeafShape
  <2> QED
    BY <1>1, <1>2, <2>1, LeavesFold DEF Variable
<1> QED
  BY <1>3, <1>4, <1>5

\* What a kind says of the shape.
LEMMA ShapeOfKind ==
  ASSUME NEW a, NEW node, Shaped(a, node)
  PROVE  /\ node.kind = "bool_const" =>
              \E n \in {0, 1} : node = Node("bool_const", Bool, <<>>, <<n>>)
         /\ node.kind = "bits_const" =>
              \E n \in Words(node.sort) : node = Node("bits_const", node.sort, <<>>, <<n>>)
         /\ node.kind = "bool_not" => NotShape(a, node)
         /\ node.kind \in {"bool_and", "bool_or"} => JunctionShape(a, node)
         /\ node.sort = Bool => node.kind # "bits_const"
<1>1. LeafShape(node) =>
        /\ node.kind \in {"bool_const", "bits_const", "variable"}
        /\ node.kind = "bool_const" =>
             \E n \in {0, 1} : node = Node("bool_const", Bool, <<>>, <<n>>)
        /\ node.kind = "bits_const" =>
             \E n \in Words(node.sort) : node = Node("bits_const", node.sort, <<>>, <<n>>)
        /\ node.sort = Bool => node.kind # "bits_const"
  BY DEF LeafShape, Node, Bool
<1>2. NotShape(a, node) => node.kind = "bool_not"
  BY DEF NotShape, Node
<1>3. JunctionShape(a, node) => node.kind \in {"bool_and", "bool_or"}
  BY DEF JunctionShape, GuardNode
<1>4. OperatorShape(a, node) => node.kind \in UnaryOps \cup BinaryOps \cup CompareOps
  BY DEF OperatorShape, Node
<1>5. UnaryOps \cup BinaryOps \cup CompareOps \subseteq
        {k \in UnaryOps \cup BinaryOps \cup CompareOps :
           k \notin {"bool_const", "bits_const", "variable", "bool_not", "bool_and", "bool_or"}}
  BY KindsAreDistinct DEF OtherKinds
<1>6. IteShape(a, node) => node.kind = "ite"
  BY DEF IteShape, Node
<1>7. PartShape(a, node) => node.kind \in {"concat", "extract", "zero_extend", "sign_extend"}
  BY DEF PartShape, Node
<1> QED
  BY <1>1, <1>2, <1>3, <1>4, <1>5, <1>6, <1>7 DEF Shaped

\* A guard that is constant.
LEMMA ConstantGuard ==
  ASSUME NEW a, WellShaped(a), NEW x \in GuardIds(a)
  PROVE  /\ IsConst(a, x) <=> a.nodes[x].kind = "bool_const"
         /\ IsConst(a, x) => /\ Number(a, x) \in {0, 1}
                             /\ a.nodes[x] = Node("bool_const", Bool, <<>>, <<Number(a, x)>>)
<1>1. x \in 1..Len(a.nodes) /\ a.nodes[x].sort = Bool /\ Shaped(a, a.nodes[x])
  BY DEF GuardIds, WellShaped, Sort
<1>2. IsConst(a, x) <=> a.nodes[x].kind = "bool_const"
  BY <1>1, ShapeOfKind DEF IsConst
<1>3. ASSUME IsConst(a, x)
      PROVE  /\ Number(a, x) \in {0, 1}
             /\ a.nodes[x] = Node("bool_const", Bool, <<>>, <<Number(a, x)>>)
  <2>1. PICK n \in {0, 1} : a.nodes[x] = Node("bool_const", Bool, <<>>, <<n>>)
    BY <1>1, <1>2, <1>3, ShapeOfKind
  <2>2. Number(a, x) = n
    BY <2>1 DEF Number, Node
  <2> QED
    BY <2>1, <2>2
<1> QED
  BY <1>2, <1>3

\* bool_not.
LEMMA BoolNotShapes ==
  ASSUME NEW a, WellShaped(a), NEW x \in GuardIds(a)
  PROVE  WellShaped(BoolNot(a, x))
<1>1. IsId(a, x) /\ Sort(a, x) = Bool /\ Folded(a)
  BY DEF GuardIds, IsId, WellShaped
<1>2. CASE a.nodes[x].kind = "bool_const"
  <2>1. Number(a, x) \in {0, 1}
    BY <1>2, ConstantGuard
  <2>2. 1 - Number(a, x) \in {0, 1}
    BY <2>1
  <2> QED
    BY <1>2, <2>2, LeavesShape DEF BoolNot
<1>3. CASE a.nodes[x].kind = "bool_not"
  BY <1>3, ExistingShapes DEF BoolNot
<1>4. CASE a.nodes[x].kind \notin {"bool_const", "bool_not"}
  <2> DEFINE node == Node("bool_not", Bool, <<x>>, <<>>)
  <2>1. Shaped(a, node)
    BY <1>4 DEF Shaped, NotShape
  <2>2. OperandsWithin(node, Len(a.nodes))
    BY <1>1 DEF OperandsWithin, Node, IsId
  <2>3. BoolNot(a, x) = Intern(a, node)
    BY <1>4 DEF BoolNot
  <2>4. Folded(Intern(a, node))
    BY <1>1, <2>3, BoolNotFolds
  <2> QED
    BY <2>1, <2>2, <2>3, <2>4, InternShapes
<1> QED
  BY <1>2, <1>3, <1>4

\* What a list of guards contributes to a junction, and whether one of them decides it.
Flattened(a, kind, args) == UNION {Operands(a, kind, args[i]) : i \in 1..Len(args)}
Absorbed(a, identity, args) ==
  \E i \in 1..Len(args) : a.nodes[args[i]].kind = "bool_const" /\ Number(a, args[i]) # identity

\* The operands that a guard contributes to a junction.
LEMMA OperandsAreNormal ==
  ASSUME NEW a, WellShaped(a), NEW kind \in {"bool_and", "bool_or"}, NEW x \in GuardIds(a)
  PROVE  NormalIds(a, kind, Operands(a, kind, x))
<1>1. CASE a.nodes[x].kind = kind
  <2>1. x \in 1..Len(a.nodes) /\ Shaped(a, a.nodes[x])
    BY DEF GuardIds, WellShaped
  <2>2. JunctionShape(a, a.nodes[x])
    BY <1>1, <2>1, ShapeOfKind
  <2>3. NormalIds(a, kind, a.nodes[x].members)
    BY <1>1, <2>2 DEF JunctionShape, GuardNode
  <2> QED
    BY <1>1, <2>3 DEF Operands
<1>2. CASE a.nodes[x].kind # kind /\ a.nodes[x].kind = "bool_const"
  BY <1>2 DEF Operands, NormalIds
<1>3. CASE a.nodes[x].kind # kind /\ a.nodes[x].kind # "bool_const"
  BY <1>3 DEF Operands, NormalIds
<1> QED
  BY <1>1, <1>2, <1>3

\* The operands that a list of guards contributes.
LEMMA FlattenedIsNormal ==
  ASSUME NEW a, WellShaped(a), NEW kind \in {"bool_and", "bool_or"}, NEW args,
         \A i \in 1..Len(args) : args[i] \in GuardIds(a)
  PROVE  NormalIds(a, kind, Flattened(a, kind, args))
<1>1. \A i \in 1..Len(args) : NormalIds(a, kind, Operands(a, kind, args[i]))
  BY OperandsAreNormal
<1> QED
  BY <1>1 DEF Flattened, NormalIds

\* bool_and and bool_or.
LEMMA JunctionShapes ==
  ASSUME NEW a, WellShaped(a), NEW kind \in {"bool_and", "bool_or"}, NEW identity \in {0, 1},
         NEW args, \A i \in 1..Len(args) : args[i] \in GuardIds(a)
  PROVE  WellShaped(Junction(a, kind, identity, args))
<1> DEFINE flattened == UNION {Operands(a, kind, args[i]) : i \in 1..Len(args)}
           absorbed  == \E i \in 1..Len(args) : /\ a.nodes[args[i]].kind = "bool_const"
                                                /\ Number(a, args[i]) # identity
           node == GuardNode(kind, flattened)
<1>1. NormalIds(a, kind, flattened)
  BY FlattenedIsNormal DEF Flattened
<1>2. Folded(Junction(a, kind, identity, args))
  BY JunctionFolds DEF GuardIds, IsId, WellShaped
<1>3. node.members = flattened /\ node = GuardNode(kind, node.members) /\ node.args = <<>>
  BY DEF GuardNode
<1>4. Junction(a, kind, identity, args) =
        CASE absorbed -> BoolConst(a, 1 - identity)
          [] ~absorbed /\ flattened = {} -> BoolConst(a, identity)
          [] ~absorbed /\ \E only \in flattened : flattened = {only} ->
               Existing(a, CHOOSE only \in flattened : TRUE)
          [] OTHER -> Intern(a, node)
  BY DEF Junction
<1>5. 1 - identity \in {0, 1}
  OBVIOUS
<1> HIDE DEF flattened, absorbed
<1>6. CASE absorbed
  BY <1>4, <1>5, <1>6, LeavesShape
<1>7. CASE ~absorbed /\ flattened = {}
  BY <1>4, <1>7, LeavesShape
<1>8. CASE ~absorbed /\ \E only \in flattened : flattened = {only}
  BY <1>4, <1>8, ExistingShapes
<1>9. CASE ~absorbed /\ flattened # {} /\ ~\E only \in flattened : flattened = {only}
  <2>1. Junction(a, kind, identity, args) = Intern(a, node)
    BY <1>4, <1>9, Zenon
  <2>2. JunctionShape(a, node)
    BY <1>1, <1>3, <1>9 DEF JunctionShape
  <2>3. Shaped(a, node)
    BY <2>2 DEF Shaped
  <2>4. OperandsWithin(node, Len(a.nodes))
    BY <1>1, <1>3 DEF OperandsWithin, NormalIds, GuardIds
  <2> QED
    BY <1>2, <2>1, <2>3, <2>4, InternShapes
<1> QED
  BY <1>6, <1>7, <1>8, <1>9

\* Vectors have a positive width, and those that are constant a number of that width.
LEMMA VectorSort ==
  ASSUME NEW a, WellShaped(a), NEW x \in VectorIds(a)
  PROVE  IsId(a, x) /\ Folded(a) /\ Sort(a, x) # Bool /\ Sort(a, x) \in Nat \ {0}
<1>1. IsId(a, x) /\ Folded(a) /\ Sort(a, x) # Bool
  BY DEF VectorIds, IsId, WellShaped
<1> QED
  BY <1>1, SortOfId DEF Bool

\* A constant vector is a bits_const that holds a word of its width.
LEMMA ConstantVector ==
  ASSUME NEW a, WellShaped(a), NEW x \in VectorIds(a), IsConst(a, x)
  PROVE  /\ Number(a, x) \in Words(Sort(a, x)) /\ a.nodes[x].kind = "bits_const"
         /\ a.nodes[x] = Node("bits_const", Sort(a, x), <<>>, <<Number(a, x)>>)
<1> DEFINE node == a.nodes[x]
<1>1. Shaped(a, node) /\ node.sort = Sort(a, x) /\ Sort(a, x) # Bool
  BY DEF VectorIds, WellShaped, Sort
<1>2. node.kind # "bool_const"
  <2>1. node.kind = "bool_const" => \E n \in {0, 1} : node = Node("bool_const", Bool, <<>>, <<n>>)
    BY <1>1, ShapeOfKind
  <2> QED
    BY <1>1, <2>1 DEF Node
<1>3. node.kind = "bits_const"
  BY <1>2 DEF IsConst
<1>4. PICK n \in Words(Sort(a, x)) : node = Node("bits_const", Sort(a, x), <<>>, <<n>>)
  BY <1>1, <1>3, ShapeOfKind
<1>5. Number(a, x) = n
  BY <1>4 DEF Number, Node
<1> QED
  BY <1>3, <1>4, <1>5

\* Unary operators.
LEMMA BitUnaryShapes ==
  ASSUME NEW a, WellShaped(a), NEW x \in VectorIds(a), NEW op \in UnaryOps
  PROVE  WellShaped(BitUnary(a, op, x))
<1> DEFINE node == Node(op, Sort(a, x), <<x>>, <<>>)
<1>1. IsId(a, x) /\ Folded(a) /\ Sort(a, x) # Bool /\ Sort(a, x) \in Nat \ {0}
  BY VectorSort
<1>2. Folded(BitUnary(a, op, x))
  BY <1>1, BitUnaryFolds
<1>3. OperandsWithin(node, Len(a.nodes))
  BY <1>1 DEF OperandsWithin, Node, IsId
<1>4. Shaped(a, node)
  BY DEF Shaped, OperatorShape
<1>5. CASE IsConst(a, x)
  <2>1. SmtUnary(op, Sort(a, x), Number(a, x)) \in Words(Sort(a, x))
    BY <1>1, <1>5, ConstantVector, SmtUnaryIsWord, ArenaAssumption
  <2> QED
    BY <1>1, <1>5, <2>1, LeavesShape DEF BitUnary
<1>6. CASE ~IsConst(a, x)
  <2>1. BitUnary(a, op, x) = Intern(a, node)
    BY <1>6 DEF BitUnary
  <2> QED
    BY <1>2, <1>3, <1>4, <2>1, InternShapes
<1> QED
  BY <1>5, <1>6

\* Binary operators.
LEMMA BitBinaryShapes ==
  ASSUME NEW a, WellShaped(a), NEW x \in VectorIds(a), NEW y \in VectorIds(a),
         Sort(a, y) = Sort(a, x), NEW op \in BinaryOps
  PROVE  WellShaped(BitBinary(a, op, x, y))
<1> DEFINE node == Node(op, Sort(a, x), <<x, y>>, <<>>)
<1>1. IsId(a, x) /\ IsId(a, y) /\ Folded(a) /\ Sort(a, x) # Bool /\ Sort(a, x) \in Nat \ {0}
  BY VectorSort
<1>2. Folded(BitBinary(a, op, x, y))
  BY <1>1, BitBinaryFolds
<1>3. OperandsWithin(node, Len(a.nodes))
  BY <1>1 DEF OperandsWithin, Node, IsId
<1>4. Shaped(a, node)
  BY DEF Shaped, OperatorShape
<1>5. CASE IsConst(a, x) /\ IsConst(a, y)
  <2>1. Number(a, x) \in Words(Sort(a, x)) /\ Number(a, y) \in Words(Sort(a, x))
    BY <1>5, ConstantVector
  <2>2. FoldBinary(op, Sort(a, x), Number(a, x), Number(a, y)) \in Words(Sort(a, x))
    BY <1>1, <2>1, FoldBinaryIsWord, ArenaAssumption
  <2> QED
    BY <1>1, <1>5, <2>2, LeavesShape DEF BitBinary
<1>6. CASE ~(IsConst(a, x) /\ IsConst(a, y))
  <2>1. BitBinary(a, op, x, y) = Intern(a, node)
    BY <1>6 DEF BitBinary
  <2> QED
    BY <1>2, <1>3, <1>4, <2>1, InternShapes
<1> QED
  BY <1>5, <1>6

\* Comparisons.
LEMMA CompareShapes ==
  ASSUME NEW a, WellShaped(a), NEW x \in VectorIds(a), NEW y \in VectorIds(a),
         Sort(a, y) = Sort(a, x), NEW op \in CompareOps
  PROVE  WellShaped(Compare(a, op, x, y))
<1> DEFINE node == Node(op, Bool, <<x, y>>, <<>>)
<1>1. IsId(a, x) /\ IsId(a, y) /\ Folded(a)
  BY VectorSort
<1>2. Folded(Compare(a, op, x, y))
  <2>1. op # "bits_const"
    BY KindsAreDistinct DEF OtherKinds
  <2> QED
    BY <1>1, <2>1, CompareFolds
<1>3. OperandsWithin(node, Len(a.nodes))
  BY <1>1 DEF OperandsWithin, Node, IsId
<1>4. Shaped(a, node)
  BY DEF Shaped, OperatorShape
<1>5. \A t : WellShaped(BoolConst(a, Truth(t)))
  BY LeavesShape DEF Truth
<1>6. CASE x = y \/ (IsConst(a, x) /\ IsConst(a, y))
  BY <1>5, <1>6 DEF Compare
<1>7. CASE x # y /\ ~(IsConst(a, x) /\ IsConst(a, y))
  <2>1. Compare(a, op, x, y) = Intern(a, node)
    BY <1>7 DEF Compare
  <2> QED
    BY <1>2, <1>3, <1>4, <2>1, InternShapes
<1> QED
  BY <1>6, <1>7

\* ite.
LEMMA IteShapes ==
  ASSUME NEW a, WellShaped(a), NEW c \in GuardIds(a), NEW x, IsId(a, x), NEW y, IsId(a, y),
         Sort(a, y) = Sort(a, x)
  PROVE  WellShaped(Ite(a, c, x, y))
<1> DEFINE node == Node("ite", Sort(a, x), <<c, x, y>>, <<>>)
<1>1. IsId(a, c) /\ Folded(a)
  BY DEF GuardIds, IsId, WellShaped
<1>2. Folded(Ite(a, c, x, y))
  BY <1>1, IteFolds
<1>3. OperandsWithin(node, Len(a.nodes))
  BY <1>1 DEF OperandsWithin, Node, IsId
<1>4. Shaped(a, node)
  BY DEF Shaped, IteShape, IsId
<1>5. CASE x = y \/ IsConst(a, c)
  BY <1>5, ExistingShapes DEF Ite
<1>6. CASE x # y /\ ~IsConst(a, c)
  <2>1. Ite(a, c, x, y) = Intern(a, node)
    BY <1>6 DEF Ite
  <2> QED
    BY <1>2, <1>3, <1>4, <2>1, InternShapes
<1> QED
  BY <1>5, <1>6

\* The words of width one, of which bool_to_bit and bit_is_one make constants.
LEMMA WordsOfOneBit == Words(1) = {0, 1}
<1>1. 2^1 = 2
  OBVIOUS
<1> QED
  BY <1>1 DEF Words, AllOnes

\* A constant of width one is a vector of the arena that it leaves.
LEMMA OneBit ==
  ASSUME NEW a, WellShaped(a), NEW n \in Words(1), NEW b, b = BitsConst(a, 1, n)
  PROVE  /\ WellShaped(b) /\ Extends(a, b)
         /\ b.id \in VectorIds(b) /\ Sort(b, b.id) = 1
<1>1. Sound(a) /\ 1 \in Nat \ {0}
  BY DEF WellShaped, Folded
<1>2. WellShaped(b) /\ Extends(a, b) /\ IsId(b, b.id)
  BY <1>1, LeavesShape, LeavesExtend
<1>3. b.nodes[b.id] = Node("bits_const", 1, <<>>, <<n>>)
  BY <1>1, InternedNodes DEF BitsConst
<1>4. Sort(b, b.id) = 1
  BY <1>3 DEF Sort, Node
<1> QED
  BY <1>2, <1>4 DEF VectorIds, IsId, Bool

\* bool_to_bit.
LEMMA BoolToBitShapes ==
  ASSUME NEW a, WellShaped(a), NEW c \in GuardIds(a)
  PROVE  WellShaped(BoolToBit(a, c))
<1>1. PICK one : one = BitsConst(a, 1, 1)
  OBVIOUS
<1>2. PICK zero : zero = BitsConst(one, 1, 0)
  OBVIOUS
<1>3. WellShaped(one) /\ Extends(a, one) /\ one.id \in VectorIds(one) /\ Sort(one, one.id) = 1
  BY <1>1, OneBit, WordsOfOneBit
<1>4. WellShaped(zero) /\ Extends(one, zero) /\ zero.id \in VectorIds(zero)
      /\ Sort(zero, zero.id) = 1
  BY <1>2, <1>3, OneBit, WordsOfOneBit
<1>5. Sound(a) /\ Sound(one)
  BY <1>3 DEF WellShaped, Folded
<1>6. c \in GuardIds(one)
  BY <1>3, <1>5, IdsExtend
<1>7. c \in GuardIds(zero) /\ one.id \in VectorIds(zero) /\ Sort(zero, one.id) = 1
  BY <1>3, <1>4, <1>5, <1>6, IdsExtend DEF VectorIds
<1>8. BoolToBit(a, c) = Ite(zero, c, one.id, zero.id)
  BY <1>1, <1>2 DEF BoolToBit
<1> QED
  BY <1>4, <1>7, <1>8, VectorSort, IteShapes

\* bit_is_one.
LEMMA BitIsOneShapes ==
  ASSUME NEW a, WellShaped(a), NEW x \in VectorIds(a), Sort(a, x) = 1
  PROVE  WellShaped(BitIsOne(a, x))
<1>1. PICK one : one = BitsConst(a, 1, 1)
  OBVIOUS
<1>2. WellShaped(one) /\ Extends(a, one) /\ one.id \in VectorIds(one) /\ Sort(one, one.id) = 1
  BY <1>1, OneBit, WordsOfOneBit
<1>3. Sound(a)
  BY DEF WellShaped, Folded
<1>4. x \in VectorIds(one) /\ Sort(one, x) = 1
  BY <1>2, <1>3, IdsExtend DEF VectorIds
<1>5. BitIsOne(a, x) = Compare(one, "eq", x, one.id)
  BY <1>1 DEF BitIsOne
<1> QED
  BY <1>2, <1>4, <1>5, CompareShapes, KindsAreDistinct

\* Constants join to a number of the width of their concatenation.
LEMMA JoinedIsWord ==
  ASSUME NEW a, WellShaped(a), NEW args \in Seq(VectorIds(a)),
         \A i \in 1..Len(args) : IsConst(a, args[i])
  PROVE  JoinedNumbers(a, args) \in Words(TotalWidth(a, args))
<1>1. PICK widths : widths = [x \in VectorIds(a) |-> Sort(a, x)]
  OBVIOUS
<1>2. PICK numbers : numbers = [x \in VectorIds(a) |-> Number(a, x)]
  OBVIOUS
<1>3. Len(args) \in Nat /\ DOMAIN args = 1..Len(args)
  OBVIOUS
<1>4. \A k \in 1..Len(args) : args[k] \in VectorIds(a)
  BY ElementOfSeq
<1>5. \A k \in 1..Len(args) : /\ widths[args[k]] = Sort(a, args[k])
                              /\ numbers[args[k]] = Number(a, args[k])
  BY <1>1, <1>2, <1>4
<1>6. \A k \in 1..Len(args) : /\ Sort(a, args[k]) \in Nat
                              /\ Number(a, args[k]) \in Words(Sort(a, args[k]))
  BY <1>4, VectorSort, ConstantVector
<1>7. TotalWidth(a, args) = SumOf(widths, args)
  BY <1>3, <1>5, TotalIsSum
<1>8. JoinedNumbers(a, args) = JoinOf(widths, numbers, args)
  BY <1>3, <1>5, NumbersJoin
<1>9. \A k \in 1..Len(args) : widths[args[k]] \in Nat /\ numbers[args[k]] \in Words(widths[args[k]])
  BY <1>5, <1>6
<1>10. JoinOf(widths, numbers, args) \in Words(SumOf(widths, args))
  BY <1>3, <1>9, JoinIsWord
<1> QED
  BY <1>7, <1>8, <1>10

\* concat.
LEMMA ConcatShapes ==
  ASSUME NEW a, WellShaped(a), NEW args \in Seq(VectorIds(a)), TotalWidth(a, args) \in Nat \ {0}
  PROVE  WellShaped(Concat(a, args))
<1> DEFINE width == TotalWidth(a, args)
           node == Node("concat", width, args, <<>>)
<1>1. \A k \in 1..Len(args) : args[k] \in VectorIds(a)
  BY ElementOfSeq
<1>2. Folded(Concat(a, args))
  <2>1. VectorIds(a) \subseteq 1..Len(a.nodes) /\ Folded(a)
    BY DEF VectorIds, WellShaped
  <2>2. args \in Seq(1..Len(a.nodes))
    BY <2>1
  <2> QED
    BY <2>1, <2>2, ConcatFolds
<1> HIDE DEF width
<1>3. OperandsWithin(node, Len(a.nodes))
  BY <1>1 DEF OperandsWithin, Node, VectorIds
<1>4. Shaped(a, node)
  BY <1>1 DEF Shaped, PartShape, Node, width
<1>5. CASE Len(args) = 1
  BY <1>5, ExistingShapes, Zenon DEF Concat, width
<1>6. CASE Len(args) # 1 /\ \A i \in 1..Len(args) : IsConst(a, args[i])
  <2>1. JoinedNumbers(a, args) \in Words(width)
    BY <1>6, JoinedIsWord DEF width
  <2>2. WellShaped(BitsConst(a, width, JoinedNumbers(a, args)))
    BY <2>1, LeavesShape DEF width
  <2> QED
    BY <1>6, <2>2, Zenon DEF Concat, width
<1>7. CASE Len(args) # 1 /\ ~\A i \in 1..Len(args) : IsConst(a, args[i])
  <2>1. Concat(a, args) = Intern(a, node)
    BY <1>7, Zenon DEF Concat, width
  <2> QED
    BY <1>2, <1>3, <1>4, <2>1, InternShapes
<1> QED
  BY <1>5, <1>6, <1>7

\* extract.
LEMMA ExtractShapes ==
  ASSUME NEW a, WellShaped(a), NEW x \in VectorIds(a), NEW w \in Nat \ {0}, NEW start \in Nat,
         start + w <= Sort(a, x)
  PROVE  WellShaped(Extract(a, x, start, w))
<1> DEFINE node == Node("extract", w, <<x>>, <<start>>)
<1>1. IsId(a, x) /\ Folded(a) /\ Sort(a, x) \in Nat \ {0}
  BY VectorSort
<1>2. Folded(Extract(a, x, start, w))
  BY <1>1, ExtractFolds
<1>3. OperandsWithin(node, Len(a.nodes))
  BY <1>1 DEF OperandsWithin, Node, IsId
<1>4. Shaped(a, node)
  <2>1. start \in 0..(Sort(a, x) - w)
    BY <1>1
  <2>2. PartShape(a, node)
    BY <2>1 DEF PartShape, Node
  <2> QED
    BY <2>2 DEF Shaped
<1>5. w = Sort(a, x) => start = 0
  BY <1>1
<1>6. CASE w = Sort(a, x)
  BY <1>5, <1>6, ExistingShapes, Zenon DEF Extract
<1>7. CASE w # Sort(a, x) /\ IsConst(a, x)
  <2>1. Number(a, x) \in Nat
    BY <1>1, <1>7, ConstantVector, SignedIsInteger
  <2>2. SmtExtract(Number(a, x), start, w) \in Words(w)
    BY <2>1, ExtractIsWord
  <2>3. WellShaped(BitsConst(a, w, SmtExtract(Number(a, x), start, w)))
    BY <2>2, LeavesShape
  <2> QED
    BY <1>7, <2>3, Zenon DEF Extract
<1>8. CASE w # Sort(a, x) /\ ~IsConst(a, x)
  <2>1. Extract(a, x, start, w) = Intern(a, node)
    BY <1>8, Zenon DEF Extract
  <2> QED
    BY <1>2, <1>3, <1>4, <2>1, InternShapes
<1> QED
  BY <1>6, <1>7, <1>8

\* zero_extend and sign_extend.
LEMMA ExtendShapes ==
  ASSUME NEW a, WellShaped(a), NEW x \in VectorIds(a), NEW w \in Nat \ {0}, w >= Sort(a, x),
         NEW signed \in BOOLEAN
  PROVE  WellShaped(Extend(a, x, w, signed))
<1> DEFINE kind == IF signed THEN "sign_extend" ELSE "zero_extend"
           node == Node(kind, w, <<x>>, <<ExtendAmount(a, x, w)>>)
<1>1. IsId(a, x) /\ Folded(a)
  BY VectorSort
<1>2. Folded(Extend(a, x, w, signed))
  BY <1>1, ExtendFolds
<1>3. kind \in {"zero_extend", "sign_extend"}
  OBVIOUS
<1> HIDE DEF kind
<1>4. OperandsWithin(node, Len(a.nodes))
  BY <1>1 DEF OperandsWithin, Node, IsId
<1>5. Shaped(a, node)
  <2>1. PartShape(a, node)
    BY <1>3 DEF PartShape, Node, ExtendAmount
  <2> QED
    BY <2>1 DEF Shaped
<1>6. CASE w = Sort(a, x)
  BY <1>6, ExistingShapes, Zenon DEF Extend
<1>7. CASE w # Sort(a, x) /\ IsConst(a, x)
  <2>1. Number(a, x) \in Words(Sort(a, x)) /\ Sort(a, x) \in Nat
    BY <1>7, VectorSort, ConstantVector
  <2>2. SmtExtend(Sort(a, x), Number(a, x), w, signed) \in Words(w)
    BY <2>1, ExtendIsWord
  <2>3. WellShaped(BitsConst(a, w, SmtExtend(Sort(a, x), Number(a, x), w, signed)))
    BY <2>2, LeavesShape
  <2> QED
    BY <1>7, <2>3, Zenon DEF Extend
<1>8. CASE w # Sort(a, x) /\ ~IsConst(a, x)
  <2>1. Extend(a, x, w, signed) = Intern(a, node)
    BY <1>8, Zenon DEF Extend, kind
  <2> QED
    BY <1>2, <1>4, <1>5, <2>1, InternShapes
<1> QED
  BY <1>6, <1>7, <1>8

\* What a call has to give: a well-shaped arena.
ShapeInv == WellShaped(Arena)

\* One case per constructor that may be called.
LEMMA CallShapes ==
  ASSUME ShapeInv, Next
  PROVE  \E b : WellShaped(b) /\ nodes' = b.nodes /\ interned' = b.interned
<1> DEFINE Good(b) == WellShaped(b) /\ nodes' = b.nodes /\ interned' = b.interned
<1> SUFFICES \E b : Good(b)
  OBVIOUS
<1>0. WellShaped(Arena)
  BY DEF ShapeInv
<1>1. \A b : WellShaped(b) /\ Became(b) => Good(b)
  BY DEF Became
<1>2. /\ Guards = GuardIds(Arena) /\ Vectors = VectorIds(Arena) /\ Ids = 1..Len(Arena.nodes)
      /\ \A x \in Ids : Like(x) = {y \in Ids : Sort(Arena, y) = Sort(Arena, x)}
      /\ \A x \in Ids : IsId(Arena, x) /\ nodes[x].sort = Sort(Arena, x)
  BY DEF Guards, Vectors, Like, Ids, GuardIds, VectorIds, IsId, Sort, Arena
<1>3. \A x \in VectorIds(Arena) : x \in Ids /\ Sort(Arena, x) \in Nat \ {0}
  BY <1>0, <1>2, VectorSort DEF VectorIds
<1>4. \A x \in VectorIds(Arena) : \A y \in Like(x) :
        y \in VectorIds(Arena) /\ Sort(Arena, y) = Sort(Arena, x)
  BY <1>2, <1>3 DEF VectorIds
<1> HIDE DEF Good
<1>5. CASE CallBoolConst
  BY <1>0, <1>1, <1>5, LeavesShape DEF CallBoolConst
<1>6. CASE CallBitsConst
  BY <1>0, <1>1, <1>6, LeavesShape, ArenaAssumption DEF CallBitsConst, Words
<1>7. CASE CallVariable
  BY <1>0, <1>1, <1>7, LeavesShape DEF CallVariable
<1>8. CASE CallBoolNot
  BY <1>0, <1>1, <1>2, <1>8, BoolNotShapes DEF CallBoolNot
<1>9. CASE CallBoolAnd \/ CallBoolOr
  <2>1. \A args \in Lists(Guards) \cup {<<>>} : \A i \in 1..Len(args) : args[i] \in GuardIds(Arena)
    BY <1>2, ListsAreIds
  <2>2. \A args \in Lists(Guards) \cup {<<>>} :
          WellShaped(BoolAnd(Arena, args)) /\ WellShaped(BoolOr(Arena, args))
    BY <1>0, <2>1, JunctionShapes DEF BoolAnd, BoolOr
  <2> QED
    BY <1>1, <1>9, <2>2 DEF CallBoolAnd, CallBoolOr
<1>10. CASE CallBitUnary
  BY <1>0, <1>1, <1>2, <1>10, BitUnaryShapes DEF CallBitUnary
<1>11. CASE CallBitBinary
  BY <1>0, <1>1, <1>2, <1>4, <1>11, BitBinaryShapes DEF CallBitBinary
<1>12. CASE CallCompare
  BY <1>0, <1>1, <1>2, <1>4, <1>12, CompareShapes DEF CallCompare
<1>13. CASE CallIte
  BY <1>0, <1>1, <1>2, <1>13, IteShapes DEF CallIte
<1>14. CASE CallBoolToBit
  BY <1>0, <1>1, <1>2, <1>14, BoolToBitShapes DEF CallBoolToBit
<1>15. CASE CallBitIsOne
  BY <1>0, <1>1, <1>2, <1>3, <1>15, BitIsOneShapes DEF CallBitIsOne
<1>16. CASE CallConcat
  <2>1. PICK args \in Lists(Vectors) :
          TotalWidth(Arena, args) \in 1..MaxWidth /\ Became(Concat(Arena, args))
    BY <1>16 DEF CallConcat
  <2>2. PICK n \in 1..MaxArgs : args \in [1..n -> Vectors]
    BY <2>1 DEF Lists
  <2>3. args \in Seq(VectorIds(Arena))
    BY <1>2, <2>2, ArenaAssumption, SeqDef
  <2>4. WellShaped(Concat(Arena, args))
    BY <1>0, <2>1, <2>3, ConcatShapes
  <2> QED
    BY <1>1, <2>1, <2>4
<1>17. CASE CallExtract
  <2>1. PICK x \in Vectors : \E w \in 1..nodes[x].sort : \E start \in 0..(nodes[x].sort - w) :
          Became(Extract(Arena, x, start, w))
    BY <1>17 DEF CallExtract
  <2>2. PICK w \in 1..nodes[x].sort : \E start \in 0..(nodes[x].sort - w) :
          Became(Extract(Arena, x, start, w))
    BY <2>1
  <2>3. PICK start \in 0..(nodes[x].sort - w) : Became(Extract(Arena, x, start, w))
    BY <2>2
  <2>4. Sort(Arena, x) \in Nat \ {0} /\ nodes[x].sort = Sort(Arena, x) /\ x \in VectorIds(Arena)
    BY <1>2, <1>3
  <2>5. w \in Nat \ {0} /\ start \in Nat /\ start + w <= Sort(Arena, x)
    BY <2>2, <2>3, <2>4
  <2>6. WellShaped(Extract(Arena, x, start, w))
    BY <1>0, <2>4, <2>5, ExtractShapes
  <2> QED
    BY <1>1, <2>3, <2>6
<1>18. CASE CallExtend
  <2>1. PICK x \in Vectors, signed \in BOOLEAN : \E w \in nodes[x].sort..MaxWidth :
          Became(Extend(Arena, x, w, signed))
    BY <1>18 DEF CallExtend
  <2>2. PICK w \in nodes[x].sort..MaxWidth : Became(Extend(Arena, x, w, signed))
    BY <2>1
  <2>3. Sort(Arena, x) \in Nat \ {0} /\ nodes[x].sort = Sort(Arena, x) /\ x \in VectorIds(Arena)
    BY <1>2, <1>3
  <2>4. w \in Nat \ {0} /\ w >= Sort(Arena, x)
    BY <2>2, <2>3
  <2>5. WellShaped(Extend(Arena, x, w, signed))
    BY <1>0, <2>3, <2>4, ExtendShapes
  <2> QED
    BY <1>1, <2>2, <2>5
<1> QED
  BY <1>5, <1>6, <1>7, <1>8, <1>9, <1>10, <1>11, <1>12, <1>13, <1>14, <1>15, <1>16, <1>17, <1>18
  DEF Next

\* An arena's properties are of its nodes and its table.
LEMMA SameArena ==
  ASSUME NEW a, NEW b, a.nodes = b.nodes, a.interned = b.interned, WellShaped(b)
  PROVE  WellShaped(a)
<1>1. Folded(a)
  BY DEF WellShaped, Folded, Sound, NodeFolded, IsConst
<1>2. Extends(b, a)
  BY <1>1 DEF Folded, Extends, WellShaped, Sound
<1>3. Sound(b) /\ \A i \in 1..Len(b.nodes) : Shaped(b, b.nodes[i])
  BY DEF WellShaped, Folded
<1>4. \A i \in 1..Len(a.nodes) : Shaped(a, a.nodes[i])
  BY <1>2, <1>3, ShapeKept
<1> QED
  BY <1>1, <1>4 DEF WellShaped

\* The invariant holds at the start and is kept by every step.
LEMMA ShapeInvInductive == (Init => ShapeInv) /\ (ShapeInv /\ [Next]_vars => ShapeInv')
<1>1. ASSUME Init PROVE ShapeInv
  <2>1. Folded(Arena) /\ Len(Arena.nodes) = 0
    BY <1>1, InitFolded DEF FoldInv, Init, Arena
  <2> QED
    BY <2>1 DEF ShapeInv, WellShaped
<1>2. ASSUME ShapeInv, Next PROVE ShapeInv'
  <2>1. PICK b : WellShaped(b) /\ nodes' = b.nodes /\ interned' = b.interned
    BY <1>2, CallShapes
  <2> DEFINE c == [nodes |-> nodes', interned |-> interned', id |-> 0]
  <2>2. WellShaped(c)
    BY <2>1, SameArena
  <2> QED
    BY <2>2 DEF ShapeInv, Arena
<1>3. ASSUME ShapeInv, UNCHANGED vars PROVE ShapeInv'
  <2>1. Arena' = Arena
    BY <1>3 DEF vars, Arena
  <2> QED
    BY <1>3, <2>1 DEF ShapeInv
<1> QED
  BY <1>1, <1>2, <1>3

-----------------------------------------------------------------------------
(***************************************************************************)
(* The node that a junction makes: it depends on what its operands are,    *)
(* not on how they were listed.                                            *)
(***************************************************************************)
Decides(a, identity, x) == a.nodes[x].kind = "bool_const" /\ Number(a, x) # identity

Constant(n) == Node("bool_const", Bool, <<>>, <<n>>)

\* The node of operands of which none decides.
JoinedNode(a, kind, identity, ids) ==
  CASE ids = {} -> Constant(identity)
    [] ids # {} /\ \E only \in ids : ids = {only} -> a.nodes[CHOOSE only \in ids : TRUE]
    [] OTHER -> GuardNode(kind, ids)

IsOnly(ids, id) == \A only : ids = {only} => id = only

GuardList(a, args) == \A i \in 1..Len(args) : args[i] \in GuardIds(a)

\* The id that Intern returns is the node's.
LEMMA InternMakes ==
  ASSUME NEW a, Sound(a), NEW node, OperandsWithin(node, Len(a.nodes))
  PROVE  /\ Made(Intern(a, node)) = node
         /\ IsId(Intern(a, node), Intern(a, node).id)
BY InternExtends, InternedNodes DEF Made

\* The node that a junction makes or finds.
LEMMA JunctionMakes ==
  ASSUME NEW a, WellShaped(a), NEW kind \in {"bool_and", "bool_or"}, NEW identity \in {0, 1},
         NEW args, GuardList(a, args), NEW b, b = Junction(a, kind, identity, args)
  PROVE  /\ WellShaped(b) /\ Extends(a, b) /\ b.id \in GuardIds(b)
         /\ Absorbed(a, identity, args) => Made(b) = Constant(1 - identity)
         /\ ~Absorbed(a, identity, args) =>
              Made(b) = JoinedNode(a, kind, identity, Flattened(a, kind, args))
         /\ ~Absorbed(a, identity, args) =>
              IsOnly(Flattened(a, kind, args), b.id)
<1> DEFINE node == GuardNode(kind, Flattened(a, kind, args))
           absorbed == Absorbed(a, identity, args)
           flattened == Flattened(a, kind, args)
<1>1. WellShaped(b) /\ Sound(a)
  BY JunctionShapes DEF WellShaped, Folded, GuardList
<1>2. Extends(a, b)
  BY <1>1, JunctionExtends DEF GuardIds, IsId, GuardList
<1>3. NormalIds(a, kind, flattened)
  BY FlattenedIsNormal DEF GuardList
<1>4. b = CASE absorbed -> BoolConst(a, 1 - identity)
            [] ~absorbed /\ flattened = {} -> BoolConst(a, identity)
            [] ~absorbed /\ \E only \in flattened : flattened = {only} ->
                 Existing(a, CHOOSE only \in flattened : TRUE)
            [] OTHER -> Intern(a, node)
  BY DEF Junction, Flattened, Absorbed
<1>5. \A n : /\ Made(BoolConst(a, n)) = Constant(n)
             /\ IsId(BoolConst(a, n), BoolConst(a, n).id)
  <2>1. \A n : OperandsWithin(Node("bool_const", Bool, <<>>, <<n>>), Len(a.nodes))
    BY DEF OperandsWithin, Node
  <2> QED
    BY <1>1, <2>1, InternMakes DEF BoolConst, Constant
<1>6. Made(Intern(a, node)) = node /\ IsId(Intern(a, node), Intern(a, node).id)
  <2>1. OperandsWithin(node, Len(a.nodes))
    BY <1>3 DEF OperandsWithin, GuardNode, NormalIds, GuardIds
  <2> QED
    BY <1>1, <2>1, InternMakes
<1> HIDE DEF absorbed, flattened
<1>7. CASE absorbed
  <2>1. b = BoolConst(a, 1 - identity)
    BY <1>4, <1>7
  <2>2. Made(b) = Constant(1 - identity) /\ IsId(b, b.id)
    BY <1>5, <2>1
  <2>3. b.id \in GuardIds(b)
    BY <2>2 DEF GuardIds, IsId, Sort, Made, Node, Constant
  <2> QED
    BY <1>1, <1>2, <1>7, <2>2, <2>3 DEF absorbed, flattened, JoinedNode, IsOnly
<1>8. CASE ~absorbed /\ flattened = {}
  <2>1. b = BoolConst(a, identity)
    BY <1>4, <1>8
  <2>2. Made(b) = Constant(identity) /\ IsId(b, b.id)
    BY <1>5, <2>1
  <2>3. b.id \in GuardIds(b)
    BY <2>2 DEF GuardIds, IsId, Sort, Made, Node, Constant
  <2> QED
    BY <1>1, <1>2, <1>8, <2>2, <2>3 DEF absorbed, flattened, JoinedNode, IsOnly
<1>9. CASE ~absorbed /\ \E only \in flattened : flattened = {only}
  <2>1. PICK only \in flattened : flattened = {only}
    BY <1>9
  <2>2. (CHOOSE o \in flattened : TRUE) = only
    BY <2>1
  <2>3. b = Existing(a, only)
    BY <1>4, <1>9, <2>1, <2>2
  <2>4. b.nodes = a.nodes /\ b.id = only
    BY <2>3 DEF Existing
  <2>5. b.id \in GuardIds(b)
    BY <1>3, <2>1, <2>4 DEF NormalIds, GuardIds, Sort
  <2>6. Made(b) = a.nodes[CHOOSE o \in flattened : TRUE]
    BY <2>2, <2>4 DEF Made
  <2>7. flattened # {}
    BY <2>1
  <2>8. Made(b) = JoinedNode(a, kind, identity, flattened)
    BY <1>9, <2>6, <2>7, Zenon DEF JoinedNode
  <2> QED
    BY <1>1, <1>2, <1>9, <2>1, <2>4, <2>5, <2>8 DEF absorbed, flattened, IsOnly
<1>10. CASE ~absorbed /\ flattened # {} /\ ~\E only \in flattened : flattened = {only}
  <2>1. b = Intern(a, node)
    BY <1>4, <1>10, Zenon
  <2>2. Made(b) = node /\ IsId(b, b.id)
    BY <1>6, <2>1
  <2>3. b.id \in GuardIds(b)
    BY <2>2 DEF GuardIds, IsId, Sort, Made, GuardNode
  <2>4. JoinedNode(a, kind, identity, flattened) = GuardNode(kind, flattened)
    BY <1>10, Zenon DEF JoinedNode
  <2>5. \A only : flattened # {only}
    BY <1>10
  <2> QED
    BY <1>1, <1>2, <1>10, <2>2, <2>3, <2>4, <2>5 DEF absorbed, flattened, IsOnly
<1> QED
  BY <1>7, <1>8, <1>9, <1>10

\* What a junction contributes to another of its kind: its own operands, or its decision.
LEMMA JunctionContributes ==
  ASSUME NEW a, WellShaped(a), NEW kind \in {"bool_and", "bool_or"}, NEW identity \in {0, 1},
         NEW args, GuardList(a, args), NEW b, b = Junction(a, kind, identity, args)
  PROVE  /\ Decides(b, identity, b.id) <=> Absorbed(a, identity, args)
         /\ ~Absorbed(a, identity, args) =>
              Operands(b, kind, b.id) = Flattened(a, kind, args)
<1> DEFINE absorbed == Absorbed(a, identity, args)
           flattened == Flattened(a, kind, args)
<1>1. /\ Extends(a, b)
      /\ absorbed => Made(b) = Constant(1 - identity)
      /\ ~absorbed => Made(b) = JoinedNode(a, kind, identity, flattened)
      /\ ~absorbed => IsOnly(flattened, b.id)
  BY JunctionMakes
<1>2. NormalIds(a, kind, flattened)
  BY FlattenedIsNormal DEF GuardList
<1>3. 1 - identity # identity /\ kind # "bool_const"
  OBVIOUS
<1> HIDE DEF absorbed, flattened
<1>4. CASE absorbed
  <2>1. b.nodes[b.id] = Constant(1 - identity)
    BY <1>1, <1>4 DEF Made
  <2>2. b.nodes[b.id].kind = "bool_const" /\ Number(b, b.id) = 1 - identity
    BY <2>1 DEF Node, Number, Constant
  <2> QED
    BY <1>3, <1>4, <2>2 DEF Decides, absorbed
<1>5. CASE ~absorbed /\ flattened = {}
  <2>1. b.nodes[b.id] = Constant(identity)
    BY <1>1, <1>5 DEF Made, JoinedNode
  <2>2. b.nodes[b.id].kind = "bool_const" /\ Number(b, b.id) = identity
    BY <2>1 DEF Node, Number, Constant
  <2> QED
    BY <1>3, <1>5, <2>2 DEF Decides, Operands, absorbed, flattened
<1>6. CASE ~absorbed /\ \E only \in flattened : flattened = {only}
  <2>1. PICK only \in flattened : flattened = {only}
    BY <1>6
  <2>2. b.id = only /\ only \in 1..Len(a.nodes) /\ a.nodes[only].kind \notin {"bool_const", kind}
    BY <1>1, <1>2, <1>6, <2>1 DEF NormalIds, GuardIds, IsOnly
  <2>3. b.nodes[b.id].kind \notin {"bool_const", kind}
    BY <1>1, <2>2 DEF Extends
  <2> QED
    BY <1>6, <2>1, <2>2, <2>3 DEF Decides, Operands, absorbed, flattened
<1>7. CASE ~absorbed /\ flattened # {} /\ ~\E only \in flattened : flattened = {only}
  <2>1. b.nodes[b.id] = GuardNode(kind, flattened)
    BY <1>1, <1>7, Zenon DEF Made, JoinedNode
  <2>2. b.nodes[b.id].kind = kind /\ b.nodes[b.id].members = flattened
    BY <2>1 DEF GuardNode
  <2> QED
    BY <1>3, <1>7, <2>2 DEF Decides, Operands, absorbed, flattened
<1> QED
  BY <1>4, <1>5, <1>6, <1>7

\* Two guards, in a list of two or more.
LEMMA TwoGuards ==
  ASSUME NEW a, NEW kind, NEW identity, NEW x, NEW y
  PROVE  /\ Flattened(a, kind, <<x, y>>) = Operands(a, kind, x) \cup Operands(a, kind, y)
         /\ Absorbed(a, identity, <<x, y>>) <=>
              Decides(a, identity, x) \/ Decides(a, identity, y)
         /\ Flattened(a, kind, <<y, x, y>>) = Operands(a, kind, x) \cup Operands(a, kind, y)
         /\ Absorbed(a, identity, <<y, x, y>>) <=>
              Decides(a, identity, x) \/ Decides(a, identity, y)
<1>1. /\ Len(<<x, y>>) = 2 /\ <<x, y>>[1] = x /\ <<x, y>>[2] = y
      /\ 1..2 = {1, 2}
  OBVIOUS
<1>2. /\ Len(<<y, x, y>>) = 3 /\ <<y, x, y>>[1] = y /\ <<y, x, y>>[2] = x /\ <<y, x, y>>[3] = y
      /\ 1..3 = {1, 2, 3}
  OBVIOUS
<1>3. Flattened(a, kind, <<x, y>>) = Operands(a, kind, x) \cup Operands(a, kind, y)
  BY <1>1 DEF Flattened
<1>4. Flattened(a, kind, <<y, x, y>>) = Operands(a, kind, x) \cup Operands(a, kind, y)
  BY <1>2 DEF Flattened
<1>5. Absorbed(a, identity, <<x, y>>) <=> Decides(a, identity, x) \/ Decides(a, identity, y)
  BY <1>1 DEF Absorbed, Decides
<1>6. Absorbed(a, identity, <<y, x, y>>) <=> Decides(a, identity, x) \/ Decides(a, identity, y)
  BY <1>2 DEF Absorbed, Decides
<1> QED
  BY <1>3, <1>4, <1>5, <1>6

\* Three guards.
OneDecides(a, identity, x, y, z) ==
  Decides(a, identity, x) \/ Decides(a, identity, y) \/ Decides(a, identity, z)

AllOperands(a, kind, x, y, z) ==
  Operands(a, kind, x) \cup Operands(a, kind, y) \cup Operands(a, kind, z)

\* Joining x and y, and then z, makes the node of all three.
LEMMA FurtherMakes ==
  ASSUME NEW a, WellShaped(a), NEW kind \in {"bool_and", "bool_or"}, NEW identity \in {0, 1},
         NEW x \in GuardIds(a), NEW y \in GuardIds(a), NEW z \in GuardIds(a),
         NEW b, b = Junction(a, kind, identity, <<x, y>>),
         NEW c, c = Junction(b, kind, identity, <<b.id, z>>)
  PROVE  /\ OneDecides(a, identity, x, y, z) => Made(c) = Constant(1 - identity)
         /\ ~OneDecides(a, identity, x, y, z) =>
              Made(c) = JoinedNode(a, kind, identity, AllOperands(a, kind, x, y, z))
<1> DEFINE decided == Decides(a, identity, x) \/ Decides(a, identity, y)
           ids == Operands(a, kind, x) \cup Operands(a, kind, y)
           all == Operands(a, kind, x) \cup Operands(a, kind, y) \cup Operands(a, kind, z)
<1>1. PICK xy : xy = <<x, y>>
  OBVIOUS
<1>2. PICK bz : bz = <<b.id, z>>
  OBVIOUS
<1>3. GuardList(a, xy)
  BY <1>1 DEF GuardList
<1>4. WellShaped(b) /\ Extends(a, b) /\ b.id \in GuardIds(b) /\ Sound(a)
  BY <1>1, <1>3, JunctionMakes DEF WellShaped, Folded
<1>5. /\ Absorbed(a, identity, xy) <=> decided
      /\ Flattened(a, kind, xy) = ids
  BY <1>1, TwoGuards
<1>6. /\ Decides(b, identity, b.id) <=> decided
      /\ ~decided => Operands(b, kind, b.id) = ids
  BY <1>1, <1>3, <1>5, JunctionContributes
<1>7. /\ \A i \in 1..Len(a.nodes) : b.nodes[i] = a.nodes[i]
      /\ z \in GuardIds(b) /\ z \in 1..Len(a.nodes)
  BY <1>4, IdsExtend DEF GuardIds
<1>8. /\ Decides(b, identity, z) <=> Decides(a, identity, z)
      /\ Operands(b, kind, z) = Operands(a, kind, z)
  BY <1>7 DEF Decides, Operands, Number
<1>9. GuardList(b, bz)
  BY <1>2, <1>4, <1>7 DEF GuardList
<1>10. /\ Absorbed(b, identity, bz) => Made(c) = Constant(1 - identity)
       /\ ~Absorbed(b, identity, bz) =>
            Made(c) = JoinedNode(b, kind, identity, Flattened(b, kind, bz))
  BY <1>2, <1>4, <1>9, JunctionMakes
<1>11. /\ Absorbed(b, identity, bz) <=> Decides(b, identity, b.id) \/ Decides(b, identity, z)
       /\ Flattened(b, kind, bz) = Operands(b, kind, b.id) \cup Operands(b, kind, z)
  BY <1>2, TwoGuards
<1>12. /\ Absorbed(b, identity, bz) <=> decided \/ Decides(a, identity, z)
       /\ ~decided => Flattened(b, kind, bz) = all
  BY <1>6, <1>8, <1>11
<1>13. \A i \in all : b.nodes[i] = a.nodes[i]
  <2>1. all \subseteq GuardIds(a)
    BY OperandsAreNormal DEF NormalIds
  <2> QED
    BY <1>7, <2>1 DEF GuardIds
<1>14. JoinedNode(b, kind, identity, all) = JoinedNode(a, kind, identity, all)
  <2> HIDE DEF all
  <2> QED
    BY <1>13 DEF JoinedNode
<1> QED
  BY <1>10, <1>12, <1>14 DEF OneDecides, AllOperands

\* A node that is in the arena is found under its id.
LEMMA InternFinds ==
  ASSUME NEW a, Sound(a), NEW x \in 1..Len(a.nodes), NEW node, node = a.nodes[x]
  PROVE  Intern(a, node).id = x
<1>1. node \in DOMAIN a.interned /\ a.interned[node] = x
  BY DEF Sound, Elements
<1> QED
  BY <1>1 DEF Intern, Existing

\* Negating a negation gives back what was negated.
LEMMA NegationTwice ==
  ASSUME NEW a, WellShaped(a), NEW x \in GuardIds(a), NEW b, b = BoolNot(a, x)
  PROVE  BoolNot(b, b.id).id = x
<1>1. x \in 1..Len(a.nodes) /\ Shaped(a, a.nodes[x]) /\ Sound(a) /\ IsId(a, x)
  BY DEF GuardIds, WellShaped, Folded, IsId
<1>2. Extends(a, b)
  BY <1>1, BoolNotExtends
<1>3. Sound(b) /\ x \in 1..Len(b.nodes) /\ \A y \in 1..Len(a.nodes) : b.nodes[y] = a.nodes[y]
  BY <1>1, <1>2, IdsExtend DEF Extends
<1>4. CASE a.nodes[x].kind = "bool_const"
  <2>1. PICK n \in {0, 1} : a.nodes[x] = Constant(n)
    BY <1>1, <1>4, ShapeOfKind DEF Constant
  <2>2. Number(a, x) = n
    BY <2>1 DEF Number, Constant, Node
  <2>3. b = Intern(a, Constant(1 - n))
    BY <1>4, <2>2 DEF BoolNot, BoolConst, Constant
  <2>4. b.nodes[b.id] = Constant(1 - n)
    BY <1>1, <2>3, InternedNodes
  <2>5. b.nodes[b.id].kind = "bool_const" /\ Number(b, b.id) = 1 - n
    BY <2>4 DEF Number, Constant, Node
  <2>6. 1 - (1 - n) = n
    BY <2>1
  <2>7. BoolNot(b, b.id) = Intern(b, Constant(n))
    BY <2>5, <2>6 DEF BoolNot, BoolConst, Constant
  <2>8. Constant(n) = b.nodes[x]
    BY <1>1, <1>3, <2>1
  <2> QED
    BY <1>3, <2>7, <2>8, InternFinds
<1>5. CASE a.nodes[x].kind = "bool_not"
  <2>1. PICK y \in GuardIds(a) : /\ a.nodes[y].kind \notin {"bool_const", "bool_not"}
                                 /\ a.nodes[x] = Node("bool_not", Bool, <<y>>, <<>>)
    BY <1>1, <1>5, ShapeOfKind DEF NotShape
  <2>2. b = Existing(a, y)
    BY <1>5, <2>1 DEF BoolNot, Node
  <2>3. b.id = y /\ b.nodes = a.nodes
    BY <2>2 DEF Existing
  <2>4. BoolNot(b, b.id) = Intern(b, Node("bool_not", Bool, <<y>>, <<>>))
    BY <2>1, <2>3 DEF BoolNot
  <2>5. Node("bool_not", Bool, <<y>>, <<>>) = b.nodes[x]
    BY <2>1, <2>3
  <2> QED
    BY <1>3, <2>4, <2>5, InternFinds
<1>6. CASE a.nodes[x].kind \notin {"bool_const", "bool_not"}
  <2>1. b = Intern(a, Node("bool_not", Bool, <<x>>, <<>>))
    BY <1>6 DEF BoolNot
  <2>2. b.nodes[b.id] = Node("bool_not", Bool, <<x>>, <<>>)
    BY <1>1, <2>1, InternedNodes
  <2>3. b.nodes[b.id].kind = "bool_not" /\ b.nodes[b.id].args[1] = x
    BY <2>2 DEF Node
  <2>4. BoolNot(b, b.id) = Existing(b, x)
    BY <2>3 DEF BoolNot
  <2> QED
    BY <2>4 DEF Existing
<1> QED
  BY <1>4, <1>5, <1>6

\* Repetition, order and grouping of the operands of one kind of junction.
OrderIrrelevant(a, kind, identity, x, y, z) ==
  LET xy == Junction(a, kind, identity, <<x, y>>)
      yz == Junction(a, kind, identity, <<y, z>>)
  IN  /\ Made(xy) = Made(Junction(a, kind, identity, <<y, x, y>>))
      /\ Made(Junction(xy, kind, identity, <<xy.id, z>>)) =
           Made(Junction(yz, kind, identity, <<yz.id, x>>))

\* A junction of two guards, and of a third with it, in either order.
LEMMA JunctionIsNormal ==
  ASSUME NEW a, WellShaped(a), NEW kind \in {"bool_and", "bool_or"}, NEW identity \in {0, 1},
         NEW x \in GuardIds(a), NEW y \in GuardIds(a), NEW z \in GuardIds(a)
  PROVE  OrderIrrelevant(a, kind, identity, x, y, z)
<1>0. PICK xy : xy = Junction(a, kind, identity, <<x, y>>)
  OBVIOUS
<1>a. PICK yz : yz = Junction(a, kind, identity, <<y, z>>)
  OBVIOUS
<1>1. Made(xy) = Made(Junction(a, kind, identity, <<y, x, y>>))
  <2>1. PICK two : two = <<x, y>>
    OBVIOUS
  <2>2. PICK three : three = <<y, x, y>>
    OBVIOUS
  <2>3. GuardList(a, two) /\ GuardList(a, three)
    BY <2>1, <2>2 DEF GuardList
  <2>4. /\ Absorbed(a, identity, two) <=> Absorbed(a, identity, three)
        /\ Flattened(a, kind, two) = Flattened(a, kind, three)
    <3>1. /\ Flattened(a, kind, two) = Operands(a, kind, x) \cup Operands(a, kind, y)
          /\ Absorbed(a, identity, two) <=> Decides(a, identity, x) \/ Decides(a, identity, y)
      BY <2>1, TwoGuards
    <3>2. /\ Flattened(a, kind, three) = Operands(a, kind, x) \cup Operands(a, kind, y)
          /\ Absorbed(a, identity, three) <=> Decides(a, identity, x) \/ Decides(a, identity, y)
      BY <2>2, TwoGuards
    <3> QED
      BY <3>1, <3>2
  <2>5. PICK c : c = Junction(a, kind, identity, three)
    OBVIOUS
  <2>6. /\ Absorbed(a, identity, two) => Made(xy) = Constant(1 - identity)
        /\ ~Absorbed(a, identity, two) =>
              Made(xy) = JoinedNode(a, kind, identity, Flattened(a, kind, two))
    BY <1>0, <2>1, <2>3, JunctionMakes
  <2>7. /\ Absorbed(a, identity, three) => Made(c) = Constant(1 - identity)
        /\ ~Absorbed(a, identity, three) =>
              Made(c) = JoinedNode(a, kind, identity, Flattened(a, kind, three))
    BY <2>3, <2>5, JunctionMakes
  <2> QED
    BY <2>2, <2>4, <2>5, <2>6, <2>7
<1>2. PICK c : c = Junction(xy, kind, identity, <<xy.id, z>>)
  OBVIOUS
<1>3. PICK d : d = Junction(yz, kind, identity, <<yz.id, x>>)
  OBVIOUS
<1>4. /\ OneDecides(a, identity, x, y, z) => Made(c) = Constant(1 - identity)
      /\ ~OneDecides(a, identity, x, y, z) =>
           Made(c) = JoinedNode(a, kind, identity, AllOperands(a, kind, x, y, z))
  BY <1>0, <1>2, FurtherMakes
<1>5. /\ OneDecides(a, identity, y, z, x) => Made(d) = Constant(1 - identity)
      /\ ~OneDecides(a, identity, y, z, x) =>
           Made(d) = JoinedNode(a, kind, identity, AllOperands(a, kind, y, z, x))
  BY <1>a, <1>3, FurtherMakes
<1>6. /\ OneDecides(a, identity, x, y, z) <=> OneDecides(a, identity, y, z, x)
      /\ AllOperands(a, kind, x, y, z) = AllOperands(a, kind, y, z, x)
  BY DEF OneDecides, AllOperands
<1>7. Made(c) = Made(d)
  BY <1>4, <1>5, <1>6
<1> QED
  BY <1>0, <1>a, <1>1, <1>2, <1>3, <1>7 DEF OrderIrrelevant

(***************************************************************************)
(* In every reachable arena, ExprArena::bool_and and bool_or return one    *)
(* node for the same operands, in whatever order, grouping or number they  *)
(* are joined, and bool_not undoes itself: a guard that branch_state       *)
(* extends conjunct by conjunct depends on the conjuncts only.             *)
(***************************************************************************)
THEOREM GuardsDependOnConjuncts == Spec => []GuardsAreNormal
<1>1. ShapeInv => GuardsAreNormal
  <2> SUFFICES ASSUME ShapeInv, NEW x \in Guards, NEW y \in Guards, NEW z \in Guards
               PROVE  /\ Made(BoolAnd(Arena, <<x, y>>)) = Made(BoolAnd(Arena, <<y, x, y>>))
                      /\ Made(BoolOr(Arena, <<x, y>>)) = Made(BoolOr(Arena, <<y, x, y>>))
                      /\ Further(BoolAnd, BoolAnd(Arena, <<x, y>>), z) =
                           Further(BoolAnd, BoolAnd(Arena, <<y, z>>), x)
                      /\ Further(BoolOr, BoolOr(Arena, <<x, y>>), z) =
                           Further(BoolOr, BoolOr(Arena, <<y, z>>), x)
                      /\ LET negated == BoolNot(Arena, x) IN BoolNot(negated, negated.id).id = x
    BY DEF GuardsAreNormal
  <2>1. WellShaped(Arena) /\ Guards = GuardIds(Arena)
    BY DEF ShapeInv, Guards, GuardIds, Ids, Sort, Arena
  <2>2. \A kind \in {"bool_and", "bool_or"}, identity \in {0, 1} :
          OrderIrrelevant(Arena, kind, identity, x, y, z)
    BY <2>1, JunctionIsNormal
  <2>3. LET negated == BoolNot(Arena, x) IN BoolNot(negated, negated.id).id = x
    BY <2>1, NegationTwice
  <2> QED
    BY <2>2, <2>3 DEF BoolAnd, BoolOr, Further, OrderIrrelevant
<1> QED
  BY <1>1, ShapeInvInductive, PTL DEF Spec

-----------------------------------------------------------------------------
(***************************************************************************)
(* Lowering, one node after the other.                                     *)
(***************************************************************************)
\* The values of the first nodes of ns, and of the next.
NextValues(ns, env, values, node) == Append(values, LoweredValue(ns, node, env, values))

\* A function that gives the values after each set of further nodes sq.
Folds(h, ns, env, known, sq, sets) ==
  \A s \in sets : h[s] = IF s = {} THEN known ELSE NextValues(ns, env, h[s \ {Max(s)}], sq[Max(s)])

\* The fold of Lowered, unfolded one node at a time.
LEMMA LoweringRecursion ==
  ASSUME NEW ns, NEW env, NEW known, NEW sq, NEW m \in Nat
  PROVE  \E g : /\ g = [s \in SUBSET (1..m) |-> g[s]]
                /\ Folds(g, ns, env, known, sq, SUBSET (1..m))
<1> DEFINE S == 1..m
           Small(n) == {s \in SUBSET S : Cardinality(s) <= n}
           Good(n, g) == /\ g = [s \in Small(n) |-> g[s]]
                         /\ Folds(g, ns, env, known, sq, Small(n))
           N == {n \in Nat : \E g : Good(n, g)}
<1>0. IsFiniteSet(S) /\ Cardinality(S) = m
  BY FS_Interval
<1>1. \A s \in SUBSET S : /\ IsFiniteSet(s) /\ Cardinality(s) \in Nat
                          /\ Cardinality(s) <= Cardinality(S)
                          /\ (Cardinality(s) = 0 <=> s = {})
  BY <1>0, FS_Subset, FS_CardinalityType, FS_EmptySet
<1>2. \A s \in SUBSET S : s # {} => /\ s \ {Max(s)} \in SUBSET S
                                    /\ Cardinality(s \ {Max(s)}) = Cardinality(s) - 1
  BY <1>1, FS_RemoveElement, GreatestExists
<1>3. 0 \in N
  <2> DEFINE g == [s \in Small(0) |-> known]
  <2>1. \A s \in Small(0) : s = {}
    BY <1>1
  <2>2. Good(0, g)
    BY <2>1 DEF Folds
  <2> QED
    BY <2>2
<1>4. ASSUME NEW n \in Nat, n \in N PROVE n + 1 \in N
  <2>1. PICK g : Good(n, g)
    BY <1>4
  <2> DEFINE h == [s \in Small(n + 1) |->
                     IF s = {} THEN known ELSE NextValues(ns, env, g[s \ {Max(s)}], sq[Max(s)])]
  <2>2. \A s \in Small(n + 1) : s # {} => s \ {Max(s)} \in Small(n)
    BY <1>1, <1>2
  <2>3. h = [s \in Small(n + 1) |-> h[s]]
    OBVIOUS
  <2>4. Small(n) \subseteq Small(n + 1)
    BY <1>1
  <2>5. \A s \in Small(n) : h[s] = g[s]
    BY <2>1, <2>4 DEF Folds
  <2>6. Folds(h, ns, env, known, sq, Small(n + 1))
    BY <2>2, <2>5 DEF Folds
  <2>7. Good(n + 1, h)
    BY <2>3, <2>6
  <2> HIDE DEF Good
  <2> QED
    BY <2>7
<1>5. Cardinality(S) \in N
  <2> HIDE DEF N
  <2> QED
    BY <1>0, <1>3, <1>4, SetInduction
<1>6. PICK g : Good(Cardinality(S), g)
  BY <1>5
<1>7. Small(Cardinality(S)) = SUBSET S
  BY <1>1
<1> QED
  BY <1>6, <1>7

\* Lowering is a run of such steps, from the values known to those of all nodes.
Run(u, ns, env, known, m) ==
  /\ u[0] = known
  /\ \A k \in 0..(m - 1) : u[k + 1] = NextValues(ns, env, u[k], ns[Len(known) + k + 1])

\* Lowering is a run: a list of values that grows by one node's value.
LEMMA LoweredRuns ==
  ASSUME NEW T, NEW ns \in Seq(T), NEW env, NEW known, NEW m \in Nat,
         Len(known) \in Nat, Len(ns) = Len(known) + m
  PROVE  \E u : Run(u, ns, env, known, m) /\ Lowered(ns, env, known) = u[m]
<1> DEFINE sq == SubSeq(ns, Len(known) + 1, Len(ns))
           S == 1..m
           Steps(h) == h = [s \in SUBSET S |->
                              IF s = {} THEN known
                              ELSE Append(h[s \ {Max(s)}],
                                          LoweredValue(ns, sq[Max(s)], env, h[s \ {Max(s)}]))]
           iter == CHOOSE h : Steps(h)
<1>1. DOMAIN sq = S /\ \A i \in S : sq[i] = ns[Len(known) + i]
  <2>1. Len(ns) \in Nat /\ Len(known) + 1 \in Nat
    OBVIOUS
  <2>2. DOMAIN sq = 1..(Len(ns) - (Len(known) + 1) + 1)
    BY <2>1
  <2>3. 1..(Len(ns) - (Len(known) + 1) + 1) = S
    OBVIOUS
  <2>4. \A i \in S : sq[i] = ns[(Len(known) + 1) + i - 1]
    BY <2>1, <2>2, <2>3
  <2>5. \A i \in S : (Len(known) + 1) + i - 1 = Len(known) + i
    OBVIOUS
  <2> QED
    BY <2>2, <2>3, <2>4, <2>5
<1> HIDE DEF sq
<1>2. Lowered(ns, env, known) = iter[S]
  <2>1. Lowered(ns, env, known) =
          FoldLeft(LAMBDA values, node : Append(values, LoweredValue(ns, node, env, values)),
                   known, sq)
    BY DEF Lowered, sq
  <2> QED
    BY <1>1, <2>1 DEF FoldLeft, MapThenFoldSet
<1>3. PICK g : /\ g = [s \in SUBSET S |-> g[s]]
               /\ Folds(g, ns, env, known, sq, SUBSET S)
  BY LoweringRecursion
<1>4. Steps(g)
  BY <1>3 DEF Folds, NextValues
<1>5. Steps(iter)
  BY <1>4
<1> HIDE DEF iter
<1>6. \A s \in SUBSET S : iter[s] = IF s = {} THEN known
                                   ELSE NextValues(ns, env, iter[s \ {Max(s)}], sq[Max(s)])
  BY <1>5 DEF NextValues
<1> DEFINE u == [k \in 0..m |-> iter[1..k]]
<1>7. u[0] = known
  <2>1. 1..0 = {} /\ {} \in SUBSET S /\ 0 \in 0..m
    OBVIOUS
  <2>2. iter[{}] = known
    BY <1>6, <2>1
  <2> QED
    BY <2>1, <2>2
<1>8. ASSUME NEW k \in 0..(m - 1)
      PROVE  u[k + 1] = NextValues(ns, env, u[k], ns[Len(known) + k + 1])
  <2>1. /\ 1..(k + 1) \in SUBSET S /\ k + 1 \in 1..(k + 1) /\ (1..(k + 1)) \ {k + 1} = 1..k
        /\ k + 1 \in S /\ k + 1 \in Nat
    OBVIOUS
  <2>2. Max(1..(k + 1)) = k + 1
    <3>1. Max(1..(k + 1)) \in 1..(k + 1) /\ \A y \in 1..(k + 1) : Max(1..(k + 1)) >= y
      BY <2>1, GreatestExists
    <3> QED
      BY <2>1, <3>1
  <2>3. iter[1..(k + 1)] = NextValues(ns, env, iter[1..k], sq[k + 1])
    BY <1>6, <2>1, <2>2
  <2>4. sq[k + 1] = ns[Len(known) + k + 1]
    <3>1. Len(known) + (k + 1) = Len(known) + k + 1
      OBVIOUS
    <3> QED
      BY <1>1, <2>1, <3>1
  <2> QED
    BY <2>3, <2>4
<1>9. Run(u, ns, env, known, m)
  BY <1>7, <1>8 DEF Run
<1>10. u[m] = iter[S]
  OBVIOUS
<1> QED
  BY <1>2, <1>9, <1>10

\* What a run has appended stays.
Grows(u, known, m, V) ==
  \A k \in 0..m :
    /\ u[k] \in Seq(V) /\ Len(u[k]) = Len(known) + k
    /\ \A j \in 0..k : \A i \in 1..(Len(known) + j) : u[k][i] = u[j][i]

\* Induction over the length of the run.
LEMMA RunGrows ==
  ASSUME NEW u, NEW ns, NEW env, NEW K, NEW known \in Seq(K), NEW m \in Nat,
         Run(u, ns, env, known, m)
  PROVE  \E V : Grows(u, known, m, V)
<1> DEFINE V == K \cup {LoweredValue(ns, ns[Len(known) + k + 1], env, u[k]) : k \in 0..(m - 1)}
           Grown(k) == /\ u[k] \in Seq(V) /\ Len(u[k]) = Len(known) + k
                       /\ \A j \in 0..k : \A i \in 1..(Len(known) + j) : u[k][i] = u[j][i]
           N == {k \in Nat : k <= m => Grown(k)}
<1>1. Len(known) \in Nat /\ known \in Seq(V)
  OBVIOUS
<1>2. 0 \in N
  BY <1>1 DEF Run
<1>3. ASSUME NEW k \in Nat, k \in N PROVE k + 1 \in N
  <2> SUFFICES ASSUME k + 1 <= m PROVE Grown(k + 1)
    OBVIOUS
  <2>1. Grown(k) /\ k \in 0..(m - 1)
    BY <1>3
  <2> DEFINE x == LoweredValue(ns, ns[Len(known) + k + 1], env, u[k])
  <2>2. u[k + 1] = Append(u[k], x) /\ x \in V
    BY <2>1 DEF Run, NextValues
  <2> HIDE DEF V, x
  <2>3. /\ u[k + 1] \in Seq(V) /\ Len(u[k + 1]) = Len(known) + (k + 1)
        /\ \A i \in 1..(Len(known) + k) : u[k + 1][i] = u[k][i]
    BY <1>1, <2>1, <2>2, AppendProperties
  <2>4. ASSUME NEW j \in 0..(k + 1), NEW i \in 1..(Len(known) + j)
        PROVE  u[k + 1][i] = u[j][i]
    <3>1. CASE j = k + 1
      BY <3>1
    <3>2. CASE j \in 0..k
      <4>1. u[k][i] = u[j][i] /\ i \in 1..(Len(known) + k)
        BY <1>1, <2>1, <3>2
      <4> QED
        BY <2>3, <4>1
    <3> QED
      BY <3>1, <3>2
  <2> QED
    BY <2>3, <2>4
<1> HIDE DEF N, Grown, V
<1>4. Nat \subseteq N
  BY <1>2, <1>3, SetInduction
<1>5. \A k \in 0..m : Grown(k)
  <2> SUFFICES ASSUME NEW k \in 0..m PROVE Grown(k)
    OBVIOUS
  <2>1. k \in N /\ k <= m
    BY <1>4
  <2> QED
    BY <2>1 DEF N
<1>6. Grows(u, known, m, V)
  BY <1>5 DEF Grown, Grows
<1> QED
  BY <1>6

\* Two lists of values agree up to a node.
Agree(v, w, n) == \A j \in 1..n : v[j] = w[j]

\* v are the values of nodes of which the first are known: each is computed from those before.
ValuesOf(ns, env, known, v) ==
  /\ \E V : v \in Seq(V)
  /\ Len(v) = Len(ns) /\ Agree(v, known, Len(known))
  /\ \A i \in (Len(known) + 1)..Len(ns) :
       \E w : Agree(w, v, i - 1) /\ v[i] = LoweredValue(ns, ns[i], env, w)

\* What is lowered are values: each is its node's, of the values before it.
LEMMA LoweredValues ==
  ASSUME NEW T, NEW ns \in Seq(T), NEW env, NEW K, NEW known \in Seq(K),
         Len(known) <= Len(ns), NEW v, v = Lowered(ns, env, known)
  PROVE  ValuesOf(ns, env, known, v)
<1> DEFINE m == Len(ns) - Len(known)
<1>1. m \in Nat /\ Len(known) \in Nat /\ Len(ns) = Len(known) + m
  OBVIOUS
<1> HIDE DEF m
<1>2. PICK u : Run(u, ns, env, known, m) /\ v = u[m]
  BY <1>1, LoweredRuns
<1>3. PICK V : Grows(u, known, m, V)
  BY <1>1, <1>2, RunGrows
<1>4. v \in Seq(V) /\ Len(v) = Len(ns)
  BY <1>1, <1>2, <1>3 DEF Grows
<1>5. \A j \in 0..m : \A i \in 1..(Len(known) + j) : v[i] = u[j][i]
  <2>1. m \in 0..m
    BY <1>1
  <2> QED
    BY <1>2, <1>3, <2>1 DEF Grows
<1>6. Agree(v, known, Len(known))
  <2>1. 0 \in 0..m /\ Len(known) + 0 = Len(known)
    BY <1>1
  <2> QED
    BY <1>2, <1>5, <2>1 DEF Run, Agree
<1>7. ASSUME NEW i \in (Len(known) + 1)..Len(ns)
      PROVE  \E w : Agree(w, v, i - 1) /\ v[i] = LoweredValue(ns, ns[i], env, w)
  <2> DEFINE k == i - Len(known) - 1
  <2>1. k \in 0..(m - 1) /\ k \in 0..m /\ k + 1 \in 0..m /\ Len(known) + k = i - 1
        /\ Len(known) + k + 1 = i /\ i \in 1..(Len(known) + (k + 1))
    BY <1>1
  <2> HIDE DEF k
  <2>2. u[k + 1] = Append(u[k], LoweredValue(ns, ns[i], env, u[k]))
    BY <1>2, <2>1 DEF Run, NextValues
  <2>3. u[k] \in Seq(V) /\ Len(u[k]) = i - 1
    BY <1>3, <2>1 DEF Grows
  <2>4. u[k + 1][i] = LoweredValue(ns, ns[i], env, u[k])
    <3> DEFINE x == LoweredValue(ns, ns[i], env, u[k])
    <3>1. u[k + 1] = Append(u[k], x) /\ u[k] \in Seq(V \cup {x}) /\ x \in V \cup {x}
      BY <2>2, <2>3
    <3> HIDE DEF x
    <3>2. Append(u[k], x)[Len(u[k]) + 1] = x
      BY <3>1, AppendProperties
    <3>3. Len(u[k]) + 1 = i
      BY <1>1, <2>3
    <3> QED
      BY <3>1, <3>2, <3>3 DEF x
  <2>5. v[i] = u[k + 1][i]
    BY <1>5, <2>1
  <2>6. Agree(u[k], v, i - 1)
    BY <1>5, <2>1 DEF Agree
  <2> QED
    BY <2>4, <2>5, <2>6
<1> QED
  BY <1>4, <1>6, <1>7 DEF ValuesOf

-----------------------------------------------------------------------------
(***************************************************************************)
(* The values of an arena's ids.  Each is its node's, computed from values *)
(* of the operands; what is computed does not change when the arena grows. *)
(***************************************************************************)
\* r is what a node computes when the ids of an arena have the values v.
Evaluates(a, node, env, v, r) ==
  \E m \in 0..Len(a.nodes) : \E ns, w :
    /\ OperandsWithin(node, m) /\ Agree(w, v, m) /\ \A j \in 1..m : ns[j] = a.nodes[j]
    /\ r = LoweredValue(ns, node, env, w)

Valued(a, env, v) ==
  /\ \E V : v \in Seq(V)
  /\ Len(v) = Len(a.nodes)
  /\ \A i \in 1..Len(a.nodes) : Evaluates(a, a.nodes[i], env, v, v[i])

\* The values of a world of a state.
LEMMA WorldIsValued ==
  ASSUME ShapeInv, NEW world \in Worlds
  PROVE  Valued(Arena, world.env, world.values) /\ world.env \in Assignments
<1>1. PICK env \in Assignments : world = [env |-> env, values |-> Lowered(nodes, env, <<>>)]
  BY DEF Worlds
<1>2. world.env = env /\ world.values = Lowered(nodes, env, <<>>)
  BY <1>1
<1>3. PICK v : v = world.values
  OBVIOUS
<1>4. /\ nodes \in Seq(Elements(nodes)) /\ Arena.nodes = nodes /\ Len(nodes) \in Nat
      /\ \A i \in 1..Len(nodes) : OperandsWithin(nodes[i], i - 1)
  BY DEF ShapeInv, WellShaped, Folded, Sound, Arena
<1>5. <<>> \in Seq({}) /\ Len(<<>>) = 0 /\ Len(<<>>) <= Len(nodes)
  BY <1>4
<1>6. ValuesOf(nodes, env, <<>>, v)
  BY <1>2, <1>3, <1>4, <1>5, LoweredValues
<1>7. ASSUME NEW i \in 1..Len(nodes) PROVE Evaluates(Arena, nodes[i], env, v, v[i])
  <2>1. i \in (Len(<<>>) + 1)..Len(nodes) /\ i - 1 \in 0..Len(nodes)
    BY <1>4
  <2>2. PICK w : Agree(w, v, i - 1) /\ v[i] = LoweredValue(nodes, nodes[i], env, w)
    BY <1>6, <2>1 DEF ValuesOf
  <2> QED
    BY <1>4, <2>1, <2>2 DEF Evaluates
<1>8. (\E V : v \in Seq(V)) /\ Len(v) = Len(nodes)
  BY <1>6 DEF ValuesOf
<1> QED
  BY <1>2, <1>3, <1>4, <1>7, <1>8 DEF Valued

\* What a node with operands in a smaller arena computes, it computes there.
LEMMA EvaluatesThere ==
  ASSUME NEW a, Sound(a), NEW b, Extends(a, b), NEW v, NEW u, Agree(u, v, Len(a.nodes)),
         NEW node, OperandsWithin(node, Len(a.nodes)), NEW env, NEW r
  PROVE  Evaluates(b, node, env, u, r) <=> Evaluates(a, node, env, v, r)
<1>1. /\ Len(a.nodes) \in Nat /\ Len(b.nodes) \in Nat /\ Len(a.nodes) <= Len(b.nodes)
      /\ \A j \in 1..Len(a.nodes) : b.nodes[j] = a.nodes[j] /\ u[j] = v[j]
  <2>1. Len(a.nodes) \in Nat /\ Len(b.nodes) \in Nat /\ Len(a.nodes) <= Len(b.nodes)
    BY DEF Sound, Extends
  <2>2. \A j \in 1..Len(a.nodes) : b.nodes[j] = a.nodes[j]
    BY DEF Extends
  <2> QED
    BY <2>1, <2>2 DEF Agree
<1>2. ASSUME Evaluates(a, node, env, v, r) PROVE Evaluates(b, node, env, u, r)
  <2>1. PICK m \in 0..Len(a.nodes) : \E ns, w :
          /\ OperandsWithin(node, m) /\ Agree(w, v, m) /\ \A j \in 1..m : ns[j] = a.nodes[j]
          /\ r = LoweredValue(ns, node, env, w)
    BY <1>2 DEF Evaluates
  <2>2. PICK ns, w : /\ OperandsWithin(node, m) /\ Agree(w, v, m)
                     /\ \A j \in 1..m : ns[j] = a.nodes[j]
                     /\ r = LoweredValue(ns, node, env, w)
    BY <2>1
  <2>3. m \in 0..Len(b.nodes) /\ \A j \in 1..m : j \in 1..Len(a.nodes)
    BY <1>1
  <2>4. Agree(w, u, m) /\ \A j \in 1..m : ns[j] = b.nodes[j]
    BY <1>1, <2>2, <2>3 DEF Agree
  <2> QED
    BY <2>2, <2>3, <2>4 DEF Evaluates
<1>3. ASSUME Evaluates(b, node, env, u, r) PROVE Evaluates(a, node, env, v, r)
  <2>1. PICK m \in 0..Len(b.nodes) : \E ns, w :
          /\ OperandsWithin(node, m) /\ Agree(w, u, m) /\ \A j \in 1..m : ns[j] = b.nodes[j]
          /\ r = LoweredValue(ns, node, env, w)
    BY <1>3 DEF Evaluates
  <2>2. PICK ns, w : /\ OperandsWithin(node, m) /\ Agree(w, u, m)
                     /\ \A j \in 1..m : ns[j] = b.nodes[j]
                     /\ r = LoweredValue(ns, node, env, w)
    BY <2>1
  <2>3. PICK k \in 0..Len(a.nodes) : k <= m /\ 1..k = 1..m \cap 1..Len(a.nodes)
    <3>1. CASE m <= Len(a.nodes)
      BY <1>1, <3>1
    <3>2. CASE m > Len(a.nodes)
      BY <1>1, <3>2
    <3> QED
      BY <1>1, <3>1, <3>2
  <2>4. OperandsWithin(node, k)
    BY <2>2, <2>3 DEF OperandsWithin
  <2>5. Agree(w, v, k) /\ \A j \in 1..k : ns[j] = a.nodes[j]
    BY <1>1, <2>2, <2>3 DEF Agree
  <2> QED
    BY <2>2, <2>4, <2>5 DEF Evaluates
<1> QED
  BY <1>2, <1>3

\* The values of an arena go on to those of one that extends it.
LEMMA ValuesExtend ==
  ASSUME NEW a, Sound(a), NEW env, NEW v, Valued(a, env, v), NEW b, Sound(b), Extends(a, b),
         NEW u, u = Lowered(b.nodes, env, v)
  PROVE  Valued(b, env, u) /\ Agree(u, v, Len(a.nodes))
<1>1. PICK V : v \in Seq(V) /\ Len(v) = Len(a.nodes)
  BY DEF Valued
<1>2. /\ b.nodes \in Seq(Elements(b.nodes)) /\ Len(v) <= Len(b.nodes)
      /\ Len(a.nodes) \in Nat /\ Len(b.nodes) \in Nat
      /\ \A i \in 1..Len(a.nodes) : b.nodes[i] = a.nodes[i]
  BY <1>1 DEF Sound, Extends
<1>3. ValuesOf(b.nodes, env, v, u)
  BY <1>1, <1>2, LoweredValues
<1>4. Agree(u, v, Len(a.nodes))
  BY <1>1, <1>3 DEF ValuesOf
<1>5. ASSUME NEW i \in 1..Len(b.nodes) PROVE Evaluates(b, b.nodes[i], env, u, u[i])
  <2>1. CASE i \in 1..Len(a.nodes)
    <3>1. Evaluates(a, a.nodes[i], env, v, v[i]) /\ OperandsWithin(a.nodes[i], i - 1)
      BY <2>1 DEF Valued, Sound
    <3>2. OperandsWithin(a.nodes[i], Len(a.nodes))
      BY <1>2, <2>1, <3>1 DEF OperandsWithin
    <3>3. u[i] = v[i] /\ b.nodes[i] = a.nodes[i]
      BY <1>2, <1>4, <2>1 DEF Agree
    <3> QED
      BY <1>4, <3>1, <3>2, <3>3, EvaluatesThere
  <2>2. CASE i \notin 1..Len(a.nodes)
    <3>1. i \in (Len(v) + 1)..Len(b.nodes) /\ i - 1 \in 0..Len(b.nodes)
      BY <1>1, <1>2, <2>2
    <3>2. PICK w : Agree(w, u, i - 1) /\ u[i] = LoweredValue(b.nodes, b.nodes[i], env, w)
      BY <1>3, <3>1 DEF ValuesOf
    <3>3. OperandsWithin(b.nodes[i], i - 1)
      BY DEF Sound
    <3> QED
      BY <3>1, <3>2, <3>3 DEF Evaluates
  <2> QED
    BY <2>1, <2>2
<1>6. (\E T : u \in Seq(T)) /\ Len(u) = Len(b.nodes)
  BY <1>3 DEF ValuesOf
<1> QED
  BY <1>4, <1>5, <1>6 DEF Valued

\* A node computes what it lowers to.
LEMMA EvaluatesItself ==
  ASSUME NEW a, Sound(a), NEW env, NEW v, NEW node, OperandsWithin(node, Len(a.nodes)),
         NEW r, r = LoweredValue(a.nodes, node, env, v)
  PROVE  Evaluates(a, node, env, v, r)
<1>1. Len(a.nodes) \in 0..Len(a.nodes) /\ Agree(v, v, Len(a.nodes))
  BY DEF Sound, Agree
<1> QED
  BY <1>1 DEF Evaluates

(***************************************************************************)
(* What nodes of each kind compute from the values of their operands.      *)
(***************************************************************************)
GuardKinds == {"bool_const", "bool_not", "bool_and", "bool_or"}

\* The value of a guard's node.
GuardValue(node, env, v) ==
  CASE node.kind = "bool_const" -> node.data[1]
    [] node.kind = "bool_not"   -> 1 - v[node.args[1]]
    [] node.kind = "bool_and"   -> Truth(\A x \in node.members : v[x] = 1)
    [] node.kind = "bool_or"    -> Truth(\E x \in node.members : v[x] = 1)

\* Constants, negations and junctions.
LEMMA GuardComputes ==
  ASSUME NEW a, NEW node, NEW env, NEW v, NEW r, Evaluates(a, node, env, v, r),
         node.kind \in GuardKinds, node.kind = "bool_not" => Len(node.args) = 1
  PROVE  r = GuardValue(node, env, v)
<1>1. PICK m \in 0..Len(a.nodes) : \E ns, w :
        /\ OperandsWithin(node, m) /\ Agree(w, v, m)
        /\ r = LoweredValue(ns, node, env, w)
  BY DEF Evaluates
<1>2. PICK ns, w : OperandsWithin(node, m) /\ Agree(w, v, m) /\ r = LoweredValue(ns, node, env, w)
  BY <1>1
<1>3. \A x \in node.members : w[x] = v[x]
  BY <1>2 DEF Agree, OperandsWithin
<1>4. node.kind \notin UnaryOps \cup BinaryOps \cup CompareOps
  BY KindsAreDistinct DEF GuardKinds, OtherKinds
<1>5. CASE node.kind = "bool_const"
  BY <1>2, <1>4, <1>5 DEF LoweredValue, GuardValue
<1>6. CASE node.kind = "bool_not"
  <2>1. w[node.args[1]] = v[node.args[1]]
    BY <1>2, <1>6 DEF Agree, OperandsWithin
  <2> QED
    BY <1>2, <1>4, <1>6, <2>1 DEF LoweredValue, GuardValue
<1>7. CASE node.kind = "bool_and"
  <2>1. (\A x \in node.members : w[x] = 1) <=> (\A x \in node.members : v[x] = 1)
    BY <1>3
  <2> QED
    BY <1>2, <1>4, <1>7, <2>1 DEF LoweredValue, GuardValue, Truth
<1>8. CASE node.kind = "bool_or"
  <2>1. (\E x \in node.members : w[x] = 1) <=> (\E x \in node.members : v[x] = 1)
    BY <1>3
  <2> QED
    BY <1>2, <1>4, <1>8, <2>1 DEF LoweredValue, GuardValue, Truth
<1> QED
  BY <1>5, <1>6, <1>7, <1>8 DEF GuardKinds

\* The width of an id's term.
Width(a, x) == TermWidth(Sort(a, x))

\* An operand has in w the value it has in v, and in ns the width it has in a.
LEMMA OperandsSeen ==
  ASSUME NEW a, NEW node, NEW env, NEW v, NEW r, Evaluates(a, node, env, v, r)
  PROVE  \E ns, w : /\ \A k \in 1..Len(node.args) :
                         /\ w[node.args[k]] = v[node.args[k]]
                         /\ TermWidth(ns[node.args[k]].sort) = Width(a, node.args[k])
                    /\ r = LoweredValue(ns, node, env, w)
<1>1. PICK m \in 0..Len(a.nodes) : \E ns, w :
        /\ OperandsWithin(node, m) /\ Agree(w, v, m) /\ \A j \in 1..m : ns[j] = a.nodes[j]
        /\ r = LoweredValue(ns, node, env, w)
  BY DEF Evaluates
<1>2. PICK ns, w : /\ OperandsWithin(node, m) /\ Agree(w, v, m)
                   /\ \A j \in 1..m : ns[j] = a.nodes[j]
                   /\ r = LoweredValue(ns, node, env, w)
  BY <1>1
<1>3. \A k \in 1..Len(node.args) : w[node.args[k]] = v[node.args[k]]
                                   /\ ns[node.args[k]] = a.nodes[node.args[k]]
  BY <1>2 DEF OperandsWithin, Agree
<1> QED
  BY <1>2, <1>3 DEF Width, Sort

\* Constants and variables.
LEMMA LeafComputes ==
  ASSUME NEW a, NEW node, NEW env, NEW v, NEW r, Evaluates(a, node, env, v, r)
  PROVE  /\ node.kind \in {"bool_const", "bits_const"} => r = node.data[1]
         /\ node.kind = "variable" => r = env[node.data[1]]
<1>1. PICK ns, w : r = LoweredValue(ns, node, env, w)
  BY OperandsSeen
<1>2. node.kind \in {"bool_const", "bits_const", "variable"} =>
        node.kind \notin UnaryOps \cup BinaryOps \cup CompareOps
  BY KindApart DEF OtherKinds
<1> QED
  BY <1>1, <1>2 DEF LoweredValue

\* Unary operators.
LEMMA UnaryComputes ==
  ASSUME NEW a, NEW node, NEW env, NEW v, NEW r, Evaluates(a, node, env, v, r),
         NEW x, NEW op \in UnaryOps, node.kind = op, node.args = <<x>>
  PROVE  r = SmtUnary(op, Width(a, x), v[x])
<1>1. op \notin OtherKinds \cup BinaryOps \cup CompareOps
  BY KindApart
<1>2. Len(node.args) = 1 /\ node.args[1] = x
  OBVIOUS
<1>3. PICK ns, w : /\ \A k \in 1..Len(node.args) :
                        /\ w[node.args[k]] = v[node.args[k]]
                        /\ TermWidth(ns[node.args[k]].sort) = Width(a, node.args[k])
                   /\ r = LoweredValue(ns, node, env, w)
  BY OperandsSeen
<1>4. w[node.args[1]] = v[x] /\ TermWidth(ns[node.args[1]].sort) = Width(a, x)
  BY <1>2, <1>3
<1>5. LoweredValue(ns, node, env, w) =
        SmtUnary(op, TermWidth(ns[node.args[1]].sort), w[node.args[1]])
  BY <1>1 DEF LoweredValue, OtherKinds
<1> QED
  BY <1>3, <1>4, <1>5

\* Binary operators and comparisons.
LEMMA BinaryComputes ==
  ASSUME NEW a, NEW node, NEW env, NEW v, NEW r, Evaluates(a, node, env, v, r),
         NEW x, NEW y, NEW op, node.kind = op, node.args = <<x, y>>
  PROVE  /\ op \in BinaryOps => r = SmtBinary(op, Width(a, x), v[x], v[y])
         /\ op \in CompareOps => r = Truth(SmtCompare(op, Width(a, x), v[x], v[y]))
<1>1. /\ op \in BinaryOps => op \notin OtherKinds \cup UnaryOps \cup CompareOps
      /\ op \in CompareOps => op \notin OtherKinds \cup UnaryOps \cup BinaryOps
  BY KindApart
<1>2. Len(node.args) = 2 /\ node.args[1] = x /\ node.args[2] = y
  OBVIOUS
<1>3. PICK ns, w : /\ \A k \in 1..Len(node.args) :
                        /\ w[node.args[k]] = v[node.args[k]]
                        /\ TermWidth(ns[node.args[k]].sort) = Width(a, node.args[k])
                   /\ r = LoweredValue(ns, node, env, w)
  BY OperandsSeen
<1>4. /\ w[node.args[1]] = v[x] /\ w[node.args[2]] = v[y]
      /\ TermWidth(ns[node.args[1]].sort) = Width(a, x)
  BY <1>2, <1>3
<1>5. op \in BinaryOps => LoweredValue(ns, node, env, w) =
        SmtBinary(op, TermWidth(ns[node.args[1]].sort), w[node.args[1]], w[node.args[2]])
  BY <1>1 DEF LoweredValue, OtherKinds
<1>6. op \in CompareOps => LoweredValue(ns, node, env, w) =
        Truth(SmtCompare(op, TermWidth(ns[node.args[1]].sort), w[node.args[1]], w[node.args[2]]))
  BY <1>1 DEF LoweredValue, OtherKinds
<1> QED
  BY <1>3, <1>4, <1>5, <1>6

\* ite.
LEMMA IteComputes ==
  ASSUME NEW a, NEW node, NEW env, NEW v, NEW r, Evaluates(a, node, env, v, r),
         NEW c, NEW x, NEW y, node.kind = "ite", node.args = <<c, x, y>>
  PROVE  r = IF v[c] = 1 THEN v[x] ELSE v[y]
<1>1. node.kind \notin UnaryOps \cup BinaryOps \cup CompareOps
  BY KindApart DEF OtherKinds
<1>2. Len(node.args) = 3 /\ node.args[1] = c /\ node.args[2] = x /\ node.args[3] = y
  OBVIOUS
<1>3. PICK ns, w : /\ \A k \in 1..Len(node.args) : w[node.args[k]] = v[node.args[k]]
                   /\ r = LoweredValue(ns, node, env, w)
  BY OperandsSeen
<1>4. w[node.args[1]] = v[c] /\ w[node.args[2]] = v[x] /\ w[node.args[3]] = v[y]
  BY <1>2, <1>3
<1>5. LoweredValue(ns, node, env, w) =
        IF w[node.args[1]] = 1 THEN w[node.args[2]] ELSE w[node.args[3]]
  BY <1>1 DEF LoweredValue
<1> QED
  BY <1>3, <1>4, <1>5

\* extract, zero_extend and sign_extend.
LEMMA SliceComputes ==
  ASSUME NEW a, NEW node, NEW env, NEW v, NEW r, Evaluates(a, node, env, v, r),
         NEW x, NEW n, node.args = <<x>>, node.data = <<n>>
  PROVE  /\ node.kind = "extract" => r = SmtExtract(v[x], n, node.sort)
         /\ node.kind \in {"zero_extend", "sign_extend"} =>
              r = SmtExtend(Width(a, x), v[x], Width(a, x) + n, node.kind = "sign_extend")
<1>1. node.kind \in {"extract", "zero_extend", "sign_extend"} =>
        node.kind \notin UnaryOps \cup BinaryOps \cup CompareOps
  BY KindApart DEF OtherKinds
<1>2. Len(node.args) = 1 /\ node.args[1] = x /\ node.data[1] = n
  OBVIOUS
<1>3. PICK ns, w : /\ \A k \in 1..Len(node.args) :
                        /\ w[node.args[k]] = v[node.args[k]]
                        /\ TermWidth(ns[node.args[k]].sort) = Width(a, node.args[k])
                   /\ r = LoweredValue(ns, node, env, w)
  BY OperandsSeen
<1>4. w[node.args[1]] = v[x] /\ TermWidth(ns[node.args[1]].sort) = Width(a, x)
  BY <1>2, <1>3
<1>5. node.kind = "extract" =>
        LoweredValue(ns, node, env, w) = SmtExtract(w[node.args[1]], node.data[1], node.sort)
  BY <1>1 DEF LoweredValue
<1>6. CASE node.kind \in {"zero_extend", "sign_extend"}
  <2>1. LoweredValue(ns, node, env, w) =
          SmtExtend(TermWidth(ns[node.args[1]].sort), w[node.args[1]],
                    TermWidth(ns[node.args[1]].sort) + node.data[1], node.kind = "sign_extend")
    BY <1>1, <1>6, Zenon DEF LoweredValue
  <2> QED
    BY <1>2, <1>3, <1>4, <1>6, <2>1
<1> QED
  BY <1>2, <1>3, <1>4, <1>5, <1>6

\* The widths and the values of the ids of a list.
Listed(a, v, args, widths, numbers) ==
  /\ Len(args) \in Nat /\ DOMAIN args = 1..Len(args)
  /\ \A k \in 1..Len(args) : /\ widths[args[k]] = Width(a, args[k])
                             /\ numbers[args[k]] = v[args[k]]

\* concat.
LEMMA ConcatComputes ==
  ASSUME NEW a, NEW node, NEW env, NEW v, NEW r, Evaluates(a, node, env, v, r),
         node.kind = "concat", NEW args, args = node.args,
         NEW widths, NEW numbers, Listed(a, v, args, widths, numbers)
  PROVE  r = JoinOf(widths, numbers, args)
<1>1. node.kind \notin UnaryOps \cup BinaryOps \cup CompareOps
  BY KindApart DEF OtherKinds
<1>2. PICK ns, w : /\ \A k \in 1..Len(node.args) :
                        /\ w[node.args[k]] = v[node.args[k]]
                        /\ TermWidth(ns[node.args[k]].sort) = Width(a, node.args[k])
                   /\ r = LoweredValue(ns, node, env, w)
  BY OperandsSeen
<1>3. LoweredValue(ns, node, env, w) = ValuesJoined(ns, w, args)
  BY <1>1 DEF LoweredValue, ValuesJoined
<1>4. /\ Len(args) \in Nat /\ DOMAIN args = 1..Len(args)
      /\ \A k \in 1..Len(args) : /\ widths[args[k]] = TermWidth(ns[args[k]].sort)
                                 /\ numbers[args[k]] = w[args[k]]
  BY <1>2 DEF Listed
<1>5. ValuesJoined(ns, w, args) = JoinOf(widths, numbers, args)
  BY <1>4, ValuesJoin
<1> QED
  BY <1>2, <1>3, <1>5

-----------------------------------------------------------------------------
(***************************************************************************)
(* Every value is a number of its width, and a guard's a bit.              *)
(***************************************************************************)
\* A constant fits its width.
LEMMA ConstantFits ==
  ASSUME NEW a, NEW node, Shaped(a, node), node.kind \in {"bool_const", "bits_const"}
  PROVE  node.data[1] \in 0..AllOnes(TermWidth(node.sort))
<1>1. CASE node.kind = "bool_const"
  <2>1. PICK n \in {0, 1} : node = Node("bool_const", Bool, <<>>, <<n>>)
    BY <1>1, ShapeOfKind
  <2>2. node.data[1] = n /\ TermWidth(node.sort) = 1
    BY <2>1 DEF Node, TermWidth
  <2> QED
    BY <2>2, WordsOfOneBit DEF Words
<1>2. CASE node.kind = "bits_const"
  <2>1. PICK n \in Words(node.sort) : node = Node("bits_const", node.sort, <<>>, <<n>>)
    BY <1>2, ShapeOfKind
  <2>2. node.data[1] = n /\ TermWidth(node.sort) = node.sort
    BY <1>2, <2>1, ShapeOfKind DEF Node, TermWidth
  <2> QED
    BY <2>2 DEF Words
<1> QED
  BY <1>1, <1>2

\* A variable's value is a word of its width.
LEMMA VariableFits ==
  ASSUME NEW env \in Assignments, NEW name \in Names
  PROVE  env[name] \in Words(TermWidth(SortOf[name]))
<1>1. env[name] \in 0..AllOnes(TermWidth(MaxWidth)) /\ env[name] <= AllOnes(TermWidth(SortOf[name]))
  BY DEF Assignments
<1>2. env[name] \in Int /\ 0 <= env[name]
  BY <1>1
<1>3. AllOnes(TermWidth(SortOf[name])) \in Int
  <2>1. TermWidth(SortOf[name]) \in Nat
    BY ArenaAssumption DEF TermWidth, Bool
  <2>2. PICK p : p = 2^TermWidth(SortOf[name])
    OBVIOUS
  <2>3. p \in Nat
    BY <2>1, <2>2, PowerIsPositive
  <2> QED
    BY <2>2, <2>3 DEF AllOnes
<1> QED
  BY <1>1, <1>2, <1>3 DEF Words

\* A guard's width is 1, a vector's is its sort, and an id is one or the other.
LEMMA WidthOfId ==
  ASSUME NEW a, WellShaped(a)
  PROVE  /\ \A x \in GuardIds(a) : Width(a, x) = 1
         /\ \A x \in VectorIds(a) : Width(a, x) = Sort(a, x) /\ Sort(a, x) \in Nat \ {0}
         /\ \A x \in 1..Len(a.nodes) : x \in GuardIds(a) \/ x \in VectorIds(a)
<1>1. \A x \in GuardIds(a) : Width(a, x) = 1
  BY DEF Width, TermWidth, GuardIds
<1>2. \A x \in VectorIds(a) : Width(a, x) = Sort(a, x) /\ Sort(a, x) \in Nat \ {0}
  BY VectorSort DEF Width, TermWidth, VectorIds
<1> QED
  BY <1>1, <1>2 DEF GuardIds, VectorIds

\* A value is a number of its width when the values before it are.
WordsBefore(a, v, i) == \A x \in 1..(i - 1) : v[x] \in Words(Width(a, x))

\* Constants and variables.
LEMMA LeafIsWord ==
  ASSUME NEW a, NEW env \in Assignments, NEW v, NEW node, NEW r, Evaluates(a, node, env, v, r),
         LeafShape(node)
  PROVE  r \in Words(TermWidth(node.sort))
<1>1. CASE node.kind \in {"bool_const", "bits_const"}
  BY <1>1, ConstantFits, LeafComputes DEF Shaped, Words
<1>2. CASE node.kind \notin {"bool_const", "bits_const"}
  <2>1. PICK name \in Names : node = Node("variable", SortOf[name], <<>>, <<name>>)
    BY <1>2 DEF LeafShape, Node
  <2>2. node.kind = "variable" /\ node.data[1] = name /\ node.sort = SortOf[name]
    BY <2>1 DEF Node
  <2>3. r = env[name]
    BY <2>2, LeafComputes
  <2> QED
    BY <2>2, <2>3, VariableFits
<1> QED
  BY <1>1, <1>2

\* Negations and junctions.
LEMMA GuardIsWord ==
  ASSUME NEW a, WellShaped(a), NEW v, NEW env, NEW i \in Nat, WordsBefore(a, v, i),
         NEW node, NEW r, Evaluates(a, node, env, v, r), OperandsWithin(node, i - 1),
         NotShape(a, node) \/ JunctionShape(a, node)
  PROVE  r \in Words(TermWidth(node.sort))
<1>1. CASE NotShape(a, node)
  <2>1. PICK x \in GuardIds(a) : node = Node("bool_not", Bool, <<x>>, <<>>)
    BY <1>1 DEF NotShape
  <2>2. /\ node.kind = "bool_not" /\ node.args[1] = x /\ Len(node.args) = 1
        /\ TermWidth(node.sort) = 1
    BY <2>1 DEF Node, TermWidth
  <2>3. x \in 1..(i - 1) /\ Width(a, x) = 1
    BY <2>2, WidthOfId DEF OperandsWithin
  <2>4. v[x] \in {0, 1}
    BY <2>3, WordsOfOneBit DEF WordsBefore
  <2>5. r = 1 - v[x]
    <3>1. r = GuardValue(node, env, v)
      BY <2>2, GuardComputes DEF GuardKinds
    <3> QED
      BY <2>2, <3>1 DEF GuardValue
  <2> QED
    BY <2>2, <2>4, <2>5, WordsOfOneBit
<1>2. CASE JunctionShape(a, node)
  <2>1. node.kind \in {"bool_and", "bool_or"} /\ TermWidth(node.sort) = 1
    BY <1>2 DEF JunctionShape, GuardNode, TermWidth
  <2>2. r = GuardValue(node, env, v)
    BY <2>1, GuardComputes DEF GuardKinds
  <2> QED
    BY <2>1, <2>2, WordsOfOneBit DEF GuardValue, Truth
<1> QED
  BY <1>1, <1>2

\* Operators and comparisons.
LEMMA OperatorIsWord ==
  ASSUME NEW a, WellShaped(a), NEW v, NEW env, NEW i \in Nat, WordsBefore(a, v, i),
         NEW node, NEW r, Evaluates(a, node, env, v, r), OperandsWithin(node, i - 1),
         OperatorShape(a, node)
  PROVE  r \in Words(TermWidth(node.sort))
<1>1. ASSUME NEW x \in VectorIds(a), x \in 1..(i - 1), Sort(a, x) = node.sort
      PROVE  /\ Width(a, x) = Sort(a, x) /\ Sort(a, x) \in Nat \ {0}
             /\ TermWidth(node.sort) = Sort(a, x) /\ v[x] \in Words(Sort(a, x))
  BY <1>1, WidthOfId DEF WordsBefore, Width
<1>2. CASE \E op \in UnaryOps, x \in VectorIds(a) : node = Node(op, Sort(a, x), <<x>>, <<>>)
  <2>1. PICK op \in UnaryOps, x \in VectorIds(a) : node = Node(op, Sort(a, x), <<x>>, <<>>)
    BY <1>2
  <2>2. node.kind = op /\ node.args = <<x>> /\ Len(node.args) = 1 /\ node.sort = Sort(a, x)
    BY <2>1 DEF Node
  <2>3. x \in 1..(i - 1)
    BY <2>2 DEF OperandsWithin
  <2>4. r = SmtUnary(op, Width(a, x), v[x])
    BY <2>2, UnaryComputes
  <2> QED
    BY <1>1, <2>2, <2>3, <2>4, SmtUnaryIsWord, ArenaAssumption
<1>3. CASE \E op \in BinaryOps, x \in VectorIds(a), y \in VectorIds(a) :
             Sort(a, y) = Sort(a, x) /\ node = Node(op, Sort(a, x), <<x, y>>, <<>>)
  <2>1. PICK op \in BinaryOps, x \in VectorIds(a), y \in VectorIds(a) :
          Sort(a, y) = Sort(a, x) /\ node = Node(op, Sort(a, x), <<x, y>>, <<>>)
    BY <1>3
  <2>2. node.kind = op /\ node.args = <<x, y>> /\ Len(node.args) = 2 /\ node.sort = Sort(a, x)
    BY <2>1 DEF Node
  <2>3. x \in 1..(i - 1) /\ y \in 1..(i - 1)
    BY <2>2 DEF OperandsWithin
  <2>4. r = SmtBinary(op, Width(a, x), v[x], v[y])
    BY <2>2, BinaryComputes
  <2>5. v[x] \in Words(Sort(a, x)) /\ v[y] \in Words(Sort(a, x))
    BY <1>1, <2>1, <2>2, <2>3
  <2> QED
    BY <1>1, <2>2, <2>3, <2>4, <2>5, SmtBinaryIsWord, ArenaAssumption
<1>4. CASE \E op \in CompareOps, x \in VectorIds(a), y \in VectorIds(a) :
             Sort(a, y) = Sort(a, x) /\ node = Node(op, Bool, <<x, y>>, <<>>)
  <2>1. PICK op \in CompareOps, x \in VectorIds(a), y \in VectorIds(a) :
          Sort(a, y) = Sort(a, x) /\ node = Node(op, Bool, <<x, y>>, <<>>)
    BY <1>4
  <2>2. node.kind = op /\ node.args = <<x, y>> /\ TermWidth(node.sort) = 1
    BY <2>1 DEF Node, TermWidth
  <2>3. PICK t : r = Truth(t)
    BY <2>2, BinaryComputes
  <2> QED
    BY <2>2, <2>3, WordsOfOneBit DEF Truth
<1> QED
  BY <1>2, <1>3, <1>4 DEF OperatorShape

\* ite.
LEMMA IteIsWord ==
  ASSUME NEW a, WellShaped(a), NEW v, NEW env, NEW i \in Nat, WordsBefore(a, v, i),
         NEW node, NEW r, Evaluates(a, node, env, v, r), OperandsWithin(node, i - 1),
         IteShape(a, node)
  PROVE  r \in Words(TermWidth(node.sort))
<1>1. PICK c \in GuardIds(a), x \in 1..Len(a.nodes), y \in 1..Len(a.nodes) :
        Sort(a, y) = Sort(a, x) /\ node = Node("ite", Sort(a, x), <<c, x, y>>, <<>>)
  BY DEF IteShape
<1>2. /\ node.kind = "ite" /\ node.args = <<c, x, y>> /\ Len(node.args) = 3
      /\ node.args[2] = x /\ node.args[3] = y /\ node.sort = Sort(a, x)
  BY <1>1 DEF Node
<1>3. x \in 1..(i - 1) /\ y \in 1..(i - 1)
  BY <1>2 DEF OperandsWithin
<1>4. v[x] \in Words(TermWidth(node.sort)) /\ v[y] \in Words(TermWidth(node.sort))
  BY <1>1, <1>2, <1>3 DEF WordsBefore, Width
<1>5. r = v[x] \/ r = v[y]
  BY <1>2, IteComputes
<1> QED
  BY <1>4, <1>5

\* concat, extract, zero_extend and sign_extend.
LEMMA PartIsWord ==
  ASSUME NEW a, WellShaped(a), NEW v, NEW env, NEW i \in Nat, WordsBefore(a, v, i),
         NEW node, NEW r, Evaluates(a, node, env, v, r), OperandsWithin(node, i - 1),
         PartShape(a, node)
  PROVE  r \in Words(TermWidth(node.sort))
<1>1. node.sort \in Nat \ {0} /\ node.kind \in {"concat", "extract", "zero_extend", "sign_extend"}
  BY DEF PartShape, Node
<1>2. TermWidth(node.sort) = node.sort
  BY <1>1 DEF TermWidth, Bool
<1>3. ASSUME NEW x \in VectorIds(a), x \in 1..(i - 1)
      PROVE  /\ Width(a, x) = Sort(a, x) /\ Sort(a, x) \in Nat
             /\ v[x] \in Words(Sort(a, x)) /\ v[x] \in Nat
  BY <1>3, WidthOfId, SignedIsInteger DEF WordsBefore
<1>4. CASE node.kind = "concat"
  <2>1. node.args \in Seq(VectorIds(a)) /\ node.sort = TotalWidth(a, node.args)
    BY <1>4 DEF PartShape, Node
  <2>2. PICK args : args = node.args
    OBVIOUS
  <2>3. PICK widths : widths = [x \in VectorIds(a) |-> Sort(a, x)]
    OBVIOUS
  <2>4. PICK numbers : numbers = [x \in VectorIds(a) |-> v[x]]
    OBVIOUS
  <2>5. Len(args) \in Nat /\ DOMAIN args = 1..Len(args)
    BY <2>1, <2>2
  <2>6. \A k \in 1..Len(args) : args[k] \in VectorIds(a) /\ args[k] \in 1..(i - 1)
    BY <2>1, <2>2, ElementOfSeq DEF OperandsWithin
  <2>7. \A k \in 1..Len(args) : /\ widths[args[k]] = Sort(a, args[k])
                                /\ widths[args[k]] = Width(a, args[k])
                                /\ numbers[args[k]] = v[args[k]]
    BY <1>3, <2>3, <2>4, <2>6
  <2>8. \A k \in 1..Len(args) : /\ widths[args[k]] \in Nat
                                /\ numbers[args[k]] \in Words(widths[args[k]])
    BY <1>3, <2>6, <2>7
  <2>9. r = JoinOf(widths, numbers, args)
    <3>1. Listed(a, v, args, widths, numbers)
      BY <2>5, <2>7 DEF Listed
    <3> QED
      BY <1>4, <2>2, <3>1, ConcatComputes
  <2>10. TotalWidth(a, args) = SumOf(widths, args)
    BY <2>5, <2>7, TotalIsSum
  <2>11. JoinOf(widths, numbers, args) \in Words(SumOf(widths, args))
    BY <2>5, <2>8, JoinIsWord
  <2> QED
    BY <1>2, <2>1, <2>2, <2>9, <2>10, <2>11
<1>5. CASE node.kind # "concat"
  <2>1. PICK x, n : /\ x \in VectorIds(a) /\ node.args = <<x>> /\ node.data = <<n>>
                    /\ node.kind = "extract" => n \in Nat
                    /\ node.kind # "extract" => /\ node.sort >= Sort(a, x)
                                                /\ n = node.sort - Sort(a, x)
    <3>1. CASE node.kind = "extract"
      <4>1. PICK x \in VectorIds(a) : \E start \in 0..(Sort(a, x) - node.sort) :
              node = Node("extract", node.sort, <<x>>, <<start>>)
        BY <3>1 DEF PartShape, Node
      <4>2. PICK start \in 0..(Sort(a, x) - node.sort) :
              node = Node("extract", node.sort, <<x>>, <<start>>)
        BY <4>1
      <4>3. start \in Nat
        BY <4>2
      <4>4. node.args = <<x>> /\ node.data = <<start>>
        BY <4>2 DEF Node
      <4> QED
        BY <3>1, <4>3, <4>4
    <3>2. CASE node.kind # "extract"
      <4>1. PICK x \in VectorIds(a), kind \in {"zero_extend", "sign_extend"} :
              /\ node.sort >= Sort(a, x)
              /\ node = Node(kind, node.sort, <<x>>, <<node.sort - Sort(a, x)>>)
        BY <1>5, <3>2 DEF PartShape, Node
      <4>2. node.args = <<x>> /\ node.data = <<node.sort - Sort(a, x)>>
        BY <4>1 DEF Node
      <4> QED
        BY <3>2, <4>1, <4>2
    <3> QED
      BY <3>1, <3>2
  <2>2. x \in 1..(i - 1)
    BY <2>1 DEF OperandsWithin
  <2>3. Width(a, x) = Sort(a, x) /\ Sort(a, x) \in Nat /\ v[x] \in Words(Sort(a, x)) /\ v[x] \in Nat
    BY <1>3, <2>1, <2>2
  <2>4. CASE node.kind = "extract"
    <3>1. r = SmtExtract(v[x], n, node.sort)
      BY <2>1, <2>4, SliceComputes
    <3> QED
      BY <1>1, <1>2, <2>1, <2>3, <2>4, <3>1, ExtractIsWord
  <2>5. CASE node.kind # "extract"
    <3>1. r = SmtExtend(Width(a, x), v[x], Width(a, x) + n, node.kind = "sign_extend")
      BY <1>1, <1>5, <2>1, <2>5, SliceComputes
    <3>2. Width(a, x) + n = node.sort /\ Sort(a, x) <= node.sort
      BY <1>1, <2>1, <2>3, <2>5
    <3>3. PICK signed \in BOOLEAN : signed = (node.kind = "sign_extend")
      OBVIOUS
    <3>4. r = SmtExtend(Sort(a, x), v[x], node.sort, signed)
      BY <2>3, <3>1, <3>2, <3>3
    <3> QED
      BY <1>1, <1>2, <2>3, <3>2, <3>4, ExtendIsWord
  <2> QED
    BY <2>4, <2>5
<1> QED
  BY <1>4, <1>5

\* Induction over the ids: an operand is computed before its user.
LEMMA ValuesAreWords ==
  ASSUME NEW a, WellShaped(a), NEW env \in Assignments, NEW v, Valued(a, env, v)
  PROVE  \A i \in 1..Len(a.nodes) : v[i] \in Words(Width(a, i))
<1> DEFINE N == {k \in Nat : \A i \in 1..Len(a.nodes) : i <= k => v[i] \in Words(Width(a, i))}
<1>0. Len(a.nodes) \in Nat
  BY DEF WellShaped, Folded, Sound
<1>1. 0 \in N
  BY <1>0
<1>2. ASSUME NEW k \in Nat, k \in N PROVE k + 1 \in N
  <2> SUFFICES ASSUME NEW i \in 1..Len(a.nodes), i <= k + 1 PROVE v[i] \in Words(Width(a, i))
    OBVIOUS
  <2>1. i \in Nat /\ WordsBefore(a, v, i)
    BY <1>0, <1>2 DEF WordsBefore
  <2>2. PICK node : node = a.nodes[i]
    OBVIOUS
  <2>3. /\ Evaluates(a, node, env, v, v[i]) /\ Shaped(a, node) /\ OperandsWithin(node, i - 1)
        /\ Width(a, i) = TermWidth(node.sort)
    BY <2>2 DEF Valued, WellShaped, Folded, Sound, Width, Sort
  <2>4. v[i] \in Words(TermWidth(node.sort))
    BY <2>1, <2>3, LeafIsWord, GuardIsWord, OperatorIsWord, IteIsWord, PartIsWord DEF Shaped
  <2> QED
    BY <2>3, <2>4
<1> HIDE DEF N
<1>3. Nat \subseteq N
  BY <1>1, <1>2, SetInduction
<1> SUFFICES ASSUME NEW i \in 1..Len(a.nodes) PROVE v[i] \in Words(Width(a, i))
  OBVIOUS
<1>4. i \in N /\ i <= i
  BY <1>0, <1>3
<1> QED
  BY <1>4 DEF N

Bits == {0, 1}

\* The value of every guard is a bit.
LEMMA GuardsAreBits ==
  ASSUME NEW a, WellShaped(a), NEW env \in Assignments, NEW v, Valued(a, env, v)
  PROVE  \A i \in GuardIds(a) : v[i] \in Bits
BY ValuesAreWords, WidthOfId, WordsOfOneBit DEF GuardIds, Bits

-----------------------------------------------------------------------------
(***************************************************************************)
(* What the id that a constructor returns denotes, in the arena it left.   *)
(***************************************************************************)
Denotes(b, env, v) == Lowered(b.nodes, env, v)[b.id]

\* An id of the arena denotes its value.
LEMMA ExistingDenotes ==
  ASSUME NEW a, Sound(a), NEW env, NEW v, Valued(a, env, v), NEW x \in 1..Len(a.nodes)
  PROVE  Denotes(Existing(a, x), env, v) = v[x]
<1>1. PICK b : b = Existing(a, x)
  OBVIOUS
<1>2. Extends(a, b) /\ Sound(b) /\ b.id = x
  BY <1>1, ExistingExtends DEF Extends, Existing
<1>3. PICK u : u = Lowered(b.nodes, env, v)
  OBVIOUS
<1>4. Agree(u, v, Len(a.nodes))
  BY <1>2, <1>3, ValuesExtend
<1> QED
  BY <1>1, <1>2, <1>3, <1>4 DEF Denotes, Agree

\* The id of an interned node denotes what the node computes.
LEMMA InternDenotes ==
  ASSUME NEW a, Sound(a), NEW env, NEW v, Valued(a, env, v),
         NEW node, OperandsWithin(node, Len(a.nodes))
  PROVE  Evaluates(a, node, env, v, Denotes(Intern(a, node), env, v))
<1>1. PICK b : b = Intern(a, node)
  OBVIOUS
<1>2. Extends(a, b) /\ Sound(b) /\ b.id \in 1..Len(b.nodes) /\ b.nodes[b.id] = node
  BY <1>1, InternExtends, InternMakes DEF Extends, Made, IsId
<1>3. PICK u : u = Lowered(b.nodes, env, v)
  OBVIOUS
<1>4. Valued(b, env, u) /\ Agree(u, v, Len(a.nodes))
  BY <1>2, <1>3, ValuesExtend
<1>5. Evaluates(b, node, env, u, u[b.id])
  BY <1>2, <1>4 DEF Valued
<1>6. Evaluates(a, node, env, v, u[b.id])
  BY <1>2, <1>4, <1>5, EvaluatesThere
<1> QED
  BY <1>1, <1>3, <1>6 DEF Denotes

\* A constant denotes its number.
LEMMA ConstantDenotes ==
  ASSUME NEW a, Sound(a), NEW env, NEW v, Valued(a, env, v), NEW n
  PROVE  /\ Denotes(BoolConst(a, n), env, v) = n
         /\ \A w : Denotes(BitsConst(a, w, n), env, v) = n
<1>1. ASSUME NEW kind \in {"bool_const", "bits_const"}, NEW sort,
             NEW node, node = Node(kind, sort, <<>>, <<n>>)
      PROVE  Denotes(Intern(a, node), env, v) = n
  <2>1. node.kind = kind /\ node.data[1] = n /\ OperandsWithin(node, Len(a.nodes))
    BY <1>1 DEF Node, OperandsWithin
  <2>2. Evaluates(a, node, env, v, Denotes(Intern(a, node), env, v))
    BY <2>1, InternDenotes
  <2> QED
    BY <2>1, <2>2, LeafComputes
<1> QED
  BY <1>1 DEF BoolConst, BitsConst

\* A guard of one of these kinds has the value of its node.
LEMMA GuardHasItsValue ==
  ASSUME NEW a, WellShaped(a), NEW env, NEW v, Valued(a, env, v), NEW i \in GuardIds(a),
         a.nodes[i].kind \in GuardKinds
  PROVE  v[i] = GuardValue(a.nodes[i], env, v)
<1>1. Shaped(a, a.nodes[i]) /\ Evaluates(a, a.nodes[i], env, v, v[i])
  BY DEF GuardIds, WellShaped, Valued
<1>2. a.nodes[i].kind = "bool_not" => Len(a.nodes[i].args) = 1
  <2> HAVE a.nodes[i].kind = "bool_not"
  <2>1. NotShape(a, a.nodes[i])
    BY <1>1, ShapeOfKind
  <2> QED
    BY <2>1 DEF NotShape, Node
<1> QED
  BY <1>1, <1>2, GuardComputes

\* An interned guard.
LEMMA GuardDenotes ==
  ASSUME NEW a, WellShaped(a), NEW env, NEW v, Valued(a, env, v),
         NEW node, node.kind \in GuardKinds, OperandsWithin(node, Len(a.nodes)),
         node.kind = "bool_not" => Len(node.args) = 1
  PROVE  Denotes(Intern(a, node), env, v) = GuardValue(node, env, v)
<1>1. Evaluates(a, node, env, v, Denotes(Intern(a, node), env, v))
  BY InternDenotes DEF WellShaped, Folded
<1> QED
  BY <1>1, GuardComputes

\* bool_not denotes the negation, of a constant and of a negation too.
LEMMA BoolNotDenotes ==
  ASSUME NEW a, WellShaped(a), NEW env \in Assignments, NEW v, Valued(a, env, v),
         NEW x \in GuardIds(a)
  PROVE  Denotes(BoolNot(a, x), env, v) = 1 - v[x]
<1>0. v[x] \in Bits /\ Sound(a)
  BY GuardsAreBits DEF WellShaped, Folded
<1>1. CASE a.nodes[x].kind = "bool_const"
  <2>1. v[x] = Number(a, x)
    <3>1. v[x] = GuardValue(a.nodes[x], env, v)
      BY <1>1, GuardHasItsValue DEF GuardKinds
    <3> QED
      BY <1>1, <3>1 DEF GuardValue, Number
  <2>2. BoolNot(a, x) = BoolConst(a, 1 - v[x]) /\ 1 - v[x] \in Bits
    BY <1>0, <1>1, <2>1 DEF BoolNot, Bits
  <2> QED
    BY <1>0, <2>2, ConstantDenotes
<1>2. CASE a.nodes[x].kind = "bool_not"
  <2>1. NotShape(a, a.nodes[x])
    BY <1>2, ShapeOfKind DEF WellShaped, GuardIds
  <2>2. PICK y \in GuardIds(a) : a.nodes[x] = Node("bool_not", Bool, <<y>>, <<>>)
    BY <2>1 DEF NotShape
  <2>3. a.nodes[x].args[1] = y /\ y \in 1..Len(a.nodes)
    BY <2>2 DEF Node, GuardIds
  <2>4. v[x] = 1 - v[y]
    <3>1. v[x] = GuardValue(a.nodes[x], env, v)
      BY <1>2, GuardHasItsValue DEF GuardKinds
    <3> QED
      BY <1>2, <2>3, <3>1 DEF GuardValue
  <2>5. v[y] \in Bits
    BY GuardsAreBits
  <2>6. BoolNot(a, x) = Existing(a, y)
    BY <1>2, <2>3 DEF BoolNot
  <2>7. Denotes(BoolNot(a, x), env, v) = v[y]
    BY <1>0, <2>3, <2>6, ExistingDenotes
  <2> QED
    BY <2>4, <2>5, <2>7 DEF Bits
<1>3. CASE a.nodes[x].kind \notin {"bool_const", "bool_not"}
  <2> DEFINE node == Node("bool_not", Bool, <<x>>, <<>>)
  <2>1. /\ node.kind = "bool_not" /\ node.sort = Bool /\ Len(node.args) = 1 /\ node.args[1] = x
        /\ OperandsWithin(node, Len(a.nodes))
    BY DEF Node, OperandsWithin, GuardIds
  <2>2. BoolNot(a, x) = Intern(a, node)
    BY <1>3 DEF BoolNot
  <2> HIDE DEF node
  <2>3. Denotes(Intern(a, node), env, v) = GuardValue(node, env, v)
    BY <2>1, GuardDenotes DEF GuardKinds
  <2> QED
    BY <2>1, <2>2, <2>3 DEF GuardValue
<1> QED
  BY <1>1, <1>2, <1>3

\* A constant operand decides a junction, or is its identity.
Decided(kind) == IF kind = "bool_and" THEN 0 ELSE 1
Identity(kind) == 1 - Decided(kind)

\* A set of ids holds an operand that decides the junction.
HasDecided(kind, ids, v) == \E x \in ids : v[x] = Decided(kind)

\* The value of a junction, whether one of its operands decides it.
LEMMA JunctionValue ==
  ASSUME NEW kind \in {"bool_and", "bool_or"}, NEW ids, NEW v, \A x \in ids : v[x] \in Bits,
         NEW env
  PROVE  /\ HasDecided(kind, ids, v) => GuardValue(GuardNode(kind, ids), env, v) = Decided(kind)
         /\ ~HasDecided(kind, ids, v) =>
              GuardValue(GuardNode(kind, ids), env, v) = Identity(kind)
<1> DEFINE node == GuardNode(kind, ids)
<1>1. node.kind = kind /\ node.members = ids
  BY DEF GuardNode
<1> HIDE DEF node
<1>2. CASE kind = "bool_and"
  <2>1. GuardValue(node, env, v) = Truth(\A x \in ids : v[x] = 1)
    BY <1>1, <1>2 DEF GuardValue
  <2>2. (\A x \in ids : v[x] = 1) <=> ~HasDecided(kind, ids, v)
    BY <1>2 DEF HasDecided, Decided, Bits
  <2> QED
    BY <1>2, <2>1, <2>2 DEF node, Truth, Decided, Identity
<1>3. CASE kind = "bool_or"
  <2>1. GuardValue(node, env, v) = Truth(\E x \in ids : v[x] = 1)
    BY <1>1, <1>3 DEF GuardValue
  <2>2. (\E x \in ids : v[x] = 1) <=> HasDecided(kind, ids, v)
    BY <1>3 DEF HasDecided, Decided
  <2> QED
    BY <1>3, <2>1, <2>2 DEF node, Truth, Decided, Identity
<1> QED
  BY <1>2, <1>3

\* An operand that is no deciding constant has the value of what it contributes.
LEMMA OperandDecides ==
  ASSUME NEW a, WellShaped(a), NEW env \in Assignments, NEW v, Valued(a, env, v),
         NEW kind \in {"bool_and", "bool_or"}, NEW x \in GuardIds(a)
  PROVE  /\ Decides(a, Identity(kind), x) => v[x] = Decided(kind)
         /\ ~Decides(a, Identity(kind), x) =>
              (v[x] = Decided(kind) <=> HasDecided(kind, Operands(a, kind, x), v))
<1>0. Decided(kind) \in Bits /\ Identity(kind) \in Bits /\ Decided(kind) # Identity(kind)
  BY DEF Decided, Identity, Bits
<1>1. CASE a.nodes[x].kind = "bool_const"
  <2>1. v[x] = GuardValue(a.nodes[x], env, v)
    BY <1>1, GuardHasItsValue DEF GuardKinds
  <2>2. v[x] = Number(a, x)
    BY <1>1, <2>1 DEF GuardValue, Number
  <2>3. v[x] \in Bits
    BY GuardsAreBits
  <2>4. Operands(a, kind, x) = {}
    BY <1>1 DEF Operands
  <2>5. Decides(a, Identity(kind), x) <=> v[x] = Decided(kind)
    BY <1>0, <1>1, <2>2, <2>3 DEF Decides, Bits
  <2> QED
    BY <2>4, <2>5 DEF HasDecided
<1>2. CASE a.nodes[x].kind = kind
  <2>1. v[x] = GuardValue(a.nodes[x], env, v)
    BY <1>2, GuardHasItsValue DEF GuardKinds
  <2>2. JunctionShape(a, a.nodes[x])
    BY <1>2, ShapeOfKind DEF WellShaped, GuardIds
  <2>3. PICK ids : ids = a.nodes[x].members
    OBVIOUS
  <2>4. a.nodes[x] = GuardNode(kind, ids) /\ ids \subseteq GuardIds(a)
    BY <1>2, <2>2, <2>3 DEF JunctionShape, NormalIds, GuardNode
  <2>5. \A y \in ids : v[y] \in Bits
    BY <2>4, GuardsAreBits
  <2>6. v[x] = Decided(kind) <=> HasDecided(kind, ids, v)
    BY <1>0, <2>1, <2>4, <2>5, JunctionValue
  <2>7. Operands(a, kind, x) = ids /\ ~Decides(a, Identity(kind), x)
    BY <1>2, <2>3 DEF Operands, Decides
  <2> QED
    BY <2>6, <2>7
<1>3. CASE a.nodes[x].kind # kind /\ a.nodes[x].kind # "bool_const"
  BY <1>3 DEF Operands, Decides, HasDecided
<1> QED
  BY <1>1, <1>2, <1>3

\* bool_and and bool_or denote the conjunction and the disjunction of their operands.
LEMMA JunctionDenotes ==
  ASSUME NEW a, WellShaped(a), NEW env \in Assignments, NEW v, Valued(a, env, v),
         NEW kind \in {"bool_and", "bool_or"}, NEW args, GuardList(a, args),
         NEW ids, ids = {args[i] : i \in 1..Len(args)}
  PROVE  Denotes(Junction(a, kind, Identity(kind), args), env, v) =
           GuardValue(GuardNode(kind, ids), env, v)
<1> DEFINE flat == Flattened(a, kind, args)
<1>0. /\ Decided(kind) \in Bits /\ Identity(kind) \in Bits /\ 1 - Identity(kind) = Decided(kind)
      /\ Decided(kind) # Identity(kind) /\ Sound(a)
  BY DEF Decided, Identity, Bits, WellShaped, Folded
<1>1. \A x \in ids : v[x] \in Bits
  BY GuardsAreBits DEF GuardList
<1>2. /\ HasDecided(kind, ids, v) => GuardValue(GuardNode(kind, ids), env, v) = Decided(kind)
      /\ ~HasDecided(kind, ids, v) => GuardValue(GuardNode(kind, ids), env, v) = Identity(kind)
  BY <1>1, JunctionValue
<1>3. CASE Absorbed(a, Identity(kind), args)
  <2>1. Junction(a, kind, Identity(kind), args) = BoolConst(a, Decided(kind))
    BY <1>0, <1>3 DEF Junction, Absorbed
  <2>2. PICK i \in 1..Len(args) : Decides(a, Identity(kind), args[i])
    BY <1>3 DEF Absorbed, Decides
  <2>3. v[args[i]] = Decided(kind)
    BY <2>2, OperandDecides DEF GuardList
  <2>4. HasDecided(kind, ids, v)
    BY <2>3 DEF HasDecided
  <2> QED
    BY <1>0, <1>2, <2>1, <2>4, ConstantDenotes
<1>4. CASE ~Absorbed(a, Identity(kind), args)
  <2>1. \A i \in 1..Len(args) :
          v[args[i]] = Decided(kind) <=> HasDecided(kind, Operands(a, kind, args[i]), v)
    BY <1>4, OperandDecides DEF GuardList, Absorbed, Decides
  <2>2. HasDecided(kind, ids, v) <=> HasDecided(kind, flat, v)
    BY <2>1 DEF HasDecided, Flattened
  <2>3. NormalIds(a, kind, flat)
    BY FlattenedIsNormal DEF GuardList
  <2> HIDE DEF flat
  <2>4. flat \subseteq GuardIds(a) /\ flat \subseteq 1..Len(a.nodes)
    BY <2>3 DEF NormalIds, GuardIds
  <2>5. \A x \in flat : v[x] \in Bits
    BY <2>4, GuardsAreBits
  <2>6. CASE flat = {}
    <3>1. Junction(a, kind, Identity(kind), args) = BoolConst(a, Identity(kind))
      BY <1>4, <2>6 DEF Junction, Absorbed, Flattened, flat
    <3>2. ~HasDecided(kind, ids, v)
      BY <2>2, <2>6 DEF HasDecided
    <3> QED
      BY <1>0, <1>2, <3>1, <3>2, ConstantDenotes
  <2>7. CASE \E only \in flat : flat = {only}
    <3>1. PICK only \in flat : flat = {only}
      BY <2>7
    <3>2. Junction(a, kind, Identity(kind), args) = Existing(a, only)
      BY <1>4, <3>1 DEF Junction, Absorbed, Flattened, flat
    <3>3. Denotes(Existing(a, only), env, v) = v[only]
      BY <1>0, <2>4, ExistingDenotes
    <3>4. v[only] = Decided(kind) <=> HasDecided(kind, ids, v)
      BY <2>2, <3>1 DEF HasDecided
    <3>5. v[only] \in {Decided(kind), Identity(kind)}
      BY <2>5 DEF Bits, Decided, Identity
    <3> QED
      BY <1>2, <3>2, <3>3, <3>4, <3>5
  <2>8. CASE flat # {} /\ ~\E only \in flat : flat = {only}
    <3> DEFINE node == GuardNode(kind, flat)
    <3>1. Junction(a, kind, Identity(kind), args) = Intern(a, node)
      BY <1>4, <2>8 DEF Junction, Absorbed, Flattened, flat
    <3>2. /\ node.kind = kind /\ node.sort = Bool /\ OperandsWithin(node, Len(a.nodes))
      BY <2>4 DEF GuardNode, OperandsWithin
    <3> HIDE DEF node
    <3>3. Denotes(Intern(a, node), env, v) = GuardValue(node, env, v)
      BY <3>2, GuardDenotes DEF GuardKinds
    <3>4. /\ HasDecided(kind, flat, v) => GuardValue(node, env, v) = Decided(kind)
          /\ ~HasDecided(kind, flat, v) => GuardValue(node, env, v) = Identity(kind)
      BY <2>5, JunctionValue DEF node
    <3> QED
      BY <1>2, <2>2, <3>1, <3>3, <3>4
  <2> QED
    BY <2>6, <2>7, <2>8
<1> QED
  BY <1>3, <1>4

(***************************************************************************)
(* In every reachable arena, and under every assignment, what bool_not,    *)
(* bool_and and bool_or return has the value of the operation they were    *)
(* called for: folding, flattening, absorption and double negation change  *)
(* no guard's meaning.                                                     *)
(***************************************************************************)
THEOREM GuardsKeepTheirMeaning == Spec => []GuardMeaningPreserved
<1>1. ShapeInv => GuardMeaningPreserved
  <2> SUFFICES ASSUME ShapeInv, NEW world \in Worlds
               PROVE  /\ \A x \in Guards :
                           Preserves(BoolNot(Arena, x), Node("bool_not", Bool, <<x>>, <<>>), world)
                      /\ \A args \in Lists(Guards) \cup {<<>>} :
                           /\ Preserves(BoolAnd(Arena, args), GuardNode("bool_and", Range(args)),
                                        world)
                           /\ Preserves(BoolOr(Arena, args), GuardNode("bool_or", Range(args)),
                                        world)
    BY DEF GuardMeaningPreserved
  <2>1. PICK v : v = world.values
    OBVIOUS
  <2>2. PICK env : env = world.env
    OBVIOUS
  <2>3. WellShaped(Arena) /\ env \in Assignments /\ Valued(Arena, env, v)
    BY <2>1, <2>2, WorldIsValued DEF ShapeInv
  <2>4. Guards = GuardIds(Arena) /\ Arena.nodes = nodes /\ Guards \subseteq 1..Len(nodes)
        /\ Len(nodes) \in Nat
    BY <2>3 DEF Guards, GuardIds, Ids, Sort, Arena, WellShaped, Folded, Sound
  <2>6. ASSUME NEW b, NEW node, node.kind \in GuardKinds,
               node.kind = "bool_not" => Len(node.args) = 1, OperandsWithin(node, Len(nodes)),
               Denotes(b, env, v) = GuardValue(node, env, v)
        PROVE  Preserves(b, node, world)
    <3>1. PICK r : r = LoweredValue(nodes, node, env, v)
      OBVIOUS
    <3>2. Evaluates(Arena, node, env, v, r)
      BY <2>3, <2>4, <2>6, <3>1, EvaluatesItself DEF WellShaped, Folded
    <3>3. r = GuardValue(node, env, v)
      BY <2>6, <3>2, GuardComputes
    <3> QED
      BY <2>1, <2>2, <2>6, <3>1, <3>3 DEF Preserves, Denoted, Denotes
  <2>7. ASSUME NEW x \in Guards
        PROVE  Preserves(BoolNot(Arena, x), Node("bool_not", Bool, <<x>>, <<>>), world)
    <3> DEFINE node == Node("bool_not", Bool, <<x>>, <<>>)
    <3>1. /\ node.kind = "bool_not" /\ node.args[1] = x /\ Len(node.args) = 1
          /\ OperandsWithin(node, Len(nodes))
      BY <2>4 DEF Node, OperandsWithin
    <3> HIDE DEF node
    <3>2. Denotes(BoolNot(Arena, x), env, v) = 1 - v[x]
      BY <2>3, <2>4, BoolNotDenotes
    <3>3. GuardValue(node, env, v) = 1 - v[x]
      BY <3>1 DEF GuardValue
    <3> QED
      BY <2>6, <3>1, <3>2, <3>3 DEF GuardKinds, node
  <2>8. ASSUME NEW args \in Lists(Guards) \cup {<<>>}, NEW kind \in {"bool_and", "bool_or"}
        PROVE  Preserves(Junction(Arena, kind, Identity(kind), args),
                         GuardNode(kind, Range(args)), world)
    <3>1. DOMAIN args = 1..Len(args) /\ GuardList(Arena, args)
      <4>1. CASE args = <<>>
        BY <4>1 DEF GuardList
      <4>2. CASE args \in Lists(Guards)
        <5>1. PICK n \in 1..MaxArgs : args \in [1..n -> Guards]
          BY <4>2 DEF Lists
        <5>2. n \in Nat /\ args \in Seq(Guards)
          BY <5>1, ArenaAssumption
        <5> QED
          BY <2>4, <5>2 DEF GuardList
      <4> QED
        BY <4>1, <4>2
    <3>2. PICK ids : ids = Range(args)
      OBVIOUS
    <3>3. ids = {args[i] : i \in 1..Len(args)} /\ ids \subseteq 1..Len(nodes)
      BY <2>4, <3>1, <3>2 DEF Range, GuardList
    <3> DEFINE node == GuardNode(kind, ids)
    <3>4. node.kind = kind /\ OperandsWithin(node, Len(nodes))
      BY <3>3 DEF GuardNode, OperandsWithin
    <3> HIDE DEF node
    <3>5. Denotes(Junction(Arena, kind, Identity(kind), args), env, v) = GuardValue(node, env, v)
      BY <2>3, <3>1, <3>3, JunctionDenotes DEF node
    <3> QED
      BY <2>6, <3>2, <3>3, <3>4, <3>5 DEF GuardKinds, node
  <2>9. Identity("bool_and") = 1 /\ Identity("bool_or") = 0
    BY DEF Identity, Decided
  <2> QED
    BY <2>7, <2>8, <2>9 DEF BoolAnd, BoolOr
<1> QED
  BY <1>1, ShapeInvInductive, PTL DEF Spec

-----------------------------------------------------------------------------
(***************************************************************************)
(* Lowering.  A node of one of the shapes has operands of the widths its   *)
(* kind requires, and lowers to a term of its own width.                   *)
(***************************************************************************)
Fits(node) == OperandsFit(node) /\ LoweredWidth(node) = TermWidth(node.sort)

\* The width of the term of an id.
LEMMA WidthOfTerm ==
  ASSUME ShapeInv
  PROVE  /\ \A x \in GuardIds(Arena) : TermWidth(nodes[x].sort) = 1
         /\ \A x \in VectorIds(Arena) : TermWidth(nodes[x].sort) = Sort(Arena, x)
         /\ \A x \in 1..Len(nodes) : nodes[x].sort = Sort(Arena, x)
BY DEF GuardIds, VectorIds, Sort, Arena, TermWidth

\* Constants and variables.
LEMMA LeafFits ==
  ASSUME NEW node, LeafShape(node)
  PROVE  Fits(node)
<1>1. node.kind \in {"bool_const", "bits_const", "variable"}
  BY DEF LeafShape, Node
<1>2. node.kind \notin UnaryOps \cup BinaryOps \cup CompareOps
  BY <1>1, KindApart DEF OtherKinds
<1>3. OperandsFit(node)
  BY <1>1, <1>2 DEF OperandsFit
<1>4. LoweredWidth(node) = TermWidth(node.sort)
  BY <1>1, <1>2 DEF LoweredWidth
<1> QED
  BY <1>3, <1>4 DEF Fits

\* bool_not.
LEMMA NotFits ==
  ASSUME ShapeInv, NEW node, NotShape(Arena, node)
  PROVE  Fits(node)
<1>1. PICK x \in GuardIds(Arena) : node = Node("bool_not", Bool, <<x>>, <<>>)
  BY DEF NotShape
<1>2. node.kind = "bool_not" /\ node.sort = Bool /\ node.args[1] = x
  BY <1>1 DEF Node
<1>3. node.kind \notin UnaryOps \cup BinaryOps \cup CompareOps
  BY <1>2, KindApart DEF OtherKinds
<1>4. OperandWidth(node, 1) = 1 /\ TermWidth(node.sort) = 1
  BY <1>2, WidthOfTerm DEF OperandWidth, TermWidth
<1>5. OperandsFit(node)
  BY <1>2, <1>3, <1>4 DEF OperandsFit
<1>6. LoweredWidth(node) = TermWidth(node.sort)
  BY <1>2, <1>3, <1>4 DEF LoweredWidth
<1> QED
  BY <1>5, <1>6 DEF Fits

\* bool_and and bool_or.
LEMMA JunctionFits ==
  ASSUME ShapeInv, NEW node, JunctionShape(Arena, node)
  PROVE  Fits(node)
<1>1. PICK kind \in {"bool_and", "bool_or"} :
        node = GuardNode(kind, node.members) /\ NormalIds(Arena, kind, node.members)
  BY DEF JunctionShape
<1>2. node.kind \in {"bool_and", "bool_or"} /\ node.sort = Bool
  BY <1>1 DEF GuardNode
<1>3. node.kind \notin UnaryOps \cup BinaryOps \cup CompareOps
  BY <1>2, KindApart DEF OtherKinds
<1>4. (\A x \in node.members : TermWidth(nodes[x].sort) = 1) /\ TermWidth(node.sort) = 1
  BY <1>1, <1>2, WidthOfTerm DEF NormalIds, TermWidth
<1>5. OperandsFit(node)
  BY <1>2, <1>3, <1>4 DEF OperandsFit
<1>6. LoweredWidth(node) = TermWidth(node.sort)
  BY <1>2, <1>3, <1>4 DEF LoweredWidth
<1> QED
  BY <1>5, <1>6 DEF Fits

\* Operators and comparisons.
LEMMA OperatorFits ==
  ASSUME ShapeInv, NEW node, OperatorShape(Arena, node)
  PROVE  Fits(node)
<1>1. ASSUME NEW x \in VectorIds(Arena), node.args[1] = x, node.sort = Sort(Arena, x)
      PROVE  OperandWidth(node, 1) = TermWidth(node.sort)
  BY <1>1, WidthOfTerm DEF OperandWidth, VectorIds, TermWidth
<1>2. CASE node.kind \in UnaryOps
  <2>1. node.kind \notin OtherKinds \cup BinaryOps \cup CompareOps
    BY <1>2, KindApart
  <2>2. PICK op \in UnaryOps, x \in VectorIds(Arena) : node = Node(op, Sort(Arena, x), <<x>>, <<>>)
    BY <2>1 DEF OperatorShape, Node
  <2>3. OperandWidth(node, 1) = TermWidth(node.sort)
    BY <1>1, <2>2 DEF Node
  <2>4. OperandsFit(node)
    BY <2>1 DEF OperandsFit, OtherKinds
  <2>5. LoweredWidth(node) = TermWidth(node.sort)
    BY <1>2, <2>1, <2>3 DEF LoweredWidth, OtherKinds
  <2> QED
    BY <2>4, <2>5 DEF Fits
<1>3. CASE node.kind \in BinaryOps
  <2>1. node.kind \notin OtherKinds \cup UnaryOps \cup CompareOps
    BY <1>3, KindApart
  <2>2. PICK op \in BinaryOps, x \in VectorIds(Arena), y \in VectorIds(Arena) :
          Sort(Arena, y) = Sort(Arena, x) /\ node = Node(op, Sort(Arena, x), <<x, y>>, <<>>)
    BY <2>1 DEF OperatorShape, Node
  <2>3. node.args[1] = x /\ node.args[2] = y /\ node.sort = Sort(Arena, x)
    BY <2>2 DEF Node
  <2>4. OperandWidth(node, 1) = TermWidth(node.sort)
        /\ OperandWidth(node, 1) = OperandWidth(node, 2)
    BY <1>1, <2>2, <2>3, WidthOfTerm DEF OperandWidth
  <2>5. OperandsFit(node)
    BY <1>3, <2>1, <2>4 DEF OperandsFit, OtherKinds
  <2>6. LoweredWidth(node) = TermWidth(node.sort)
    BY <1>3, <2>1, <2>4 DEF LoweredWidth, OtherKinds
  <2> QED
    BY <2>5, <2>6 DEF Fits
<1>4. CASE node.kind \in CompareOps
  <2>1. node.kind \notin OtherKinds \cup UnaryOps \cup BinaryOps
    BY <1>4, KindApart
  <2>2. PICK op \in CompareOps, x \in VectorIds(Arena), y \in VectorIds(Arena) :
          Sort(Arena, y) = Sort(Arena, x) /\ node = Node(op, Bool, <<x, y>>, <<>>)
    BY <2>1 DEF OperatorShape, Node
  <2>3. node.args[1] = x /\ node.args[2] = y /\ node.sort = Bool
    BY <2>2 DEF Node
  <2>4. OperandWidth(node, 1) = OperandWidth(node, 2) /\ TermWidth(node.sort) = 1
    BY <2>2, <2>3, WidthOfTerm DEF OperandWidth, TermWidth
  <2>5. OperandsFit(node)
    BY <1>4, <2>1, <2>4 DEF OperandsFit, OtherKinds
  <2>6. LoweredWidth(node) = TermWidth(node.sort)
    BY <1>4, <2>1, <2>4 DEF LoweredWidth, OtherKinds
  <2> QED
    BY <2>5, <2>6 DEF Fits
<1> QED
  BY <1>2, <1>3, <1>4 DEF OperatorShape, Node

\* ite.
LEMMA IteFits ==
  ASSUME ShapeInv, NEW node, IteShape(Arena, node)
  PROVE  Fits(node)
<1>1. PICK c \in GuardIds(Arena), x \in 1..Len(nodes), y \in 1..Len(nodes) :
        Sort(Arena, y) = Sort(Arena, x) /\ node = Node("ite", Sort(Arena, x), <<c, x, y>>, <<>>)
  BY DEF IteShape, Arena
<1>2. /\ node.kind = "ite" /\ node.sort = Sort(Arena, x)
      /\ node.args[1] = c /\ node.args[2] = x /\ node.args[3] = y
  BY <1>1 DEF Node
<1>3. node.kind \notin UnaryOps \cup BinaryOps \cup CompareOps
  BY <1>2, KindApart DEF OtherKinds
<1>4. /\ OperandWidth(node, 1) = 1
      /\ OperandWidth(node, 2) = TermWidth(node.sort)
      /\ OperandWidth(node, 2) = OperandWidth(node, 3)
  BY <1>1, <1>2, WidthOfTerm DEF OperandWidth
<1>5. OperandsFit(node)
  BY <1>2, <1>3, <1>4 DEF OperandsFit
<1>6. LoweredWidth(node) = TermWidth(node.sort)
  BY <1>2, <1>3, <1>4 DEF LoweredWidth
<1> QED
  BY <1>5, <1>6 DEF Fits

\* concat, extract, zero_extend and sign_extend.
LEMMA PartFits ==
  ASSUME ShapeInv, NEW node, PartShape(Arena, node)
  PROVE  Fits(node)
<1>1. node.kind \in {"concat", "extract", "zero_extend", "sign_extend"}
      /\ node.sort \in Nat \ {0}
  BY DEF PartShape, Node
<1>2. node.kind \notin UnaryOps \cup BinaryOps \cup CompareOps
  BY <1>1, KindApart DEF OtherKinds
<1>3. TermWidth(node.sort) = node.sort
  BY <1>1 DEF TermWidth, Bool
<1>4. CASE node.kind = "concat"
  <2>1. node.args \in Seq(VectorIds(Arena)) /\ node.sort = TotalWidth(Arena, node.args)
    BY <1>4 DEF PartShape, Node
  <2>2. LoweredWidth(node) = node.sort
    <3>1. LoweredWidth(node) =
            FoldLeft(LAMBDA w, x : w + TermWidth(nodes[x].sort), 0, node.args)
      BY <1>2, <1>4 DEF LoweredWidth
    <3>2. PICK widths : widths = [x \in VectorIds(Arena) |-> Sort(Arena, x)]
      OBVIOUS
    <3>3. PICK args : args = node.args
      OBVIOUS
    <3>4. Len(args) \in Nat /\ DOMAIN args = 1..Len(args)
      BY <2>1, <3>3
    <3>5. \A k \in 1..Len(args) : args[k] \in VectorIds(Arena)
      BY <2>1, <3>3, ElementOfSeq
    <3>6. \A k \in 1..Len(args) : /\ widths[args[k]] = Sort(Arena, args[k])
                                  /\ widths[args[k]] = TermWidth(nodes[args[k]].sort)
      BY <3>2, <3>5, WidthOfTerm
    <3>7. TotalWidth(Arena, args) = SumOf(widths, args)
      BY <3>4, <3>6, TotalIsSum
    <3>8. FoldLeft(LAMBDA w, x : w + TermWidth(nodes[x].sort), 0, args) = SumOf(widths, args)
      BY <3>4, <3>6, TermsSum
    <3> QED
      BY <2>1, <3>1, <3>3, <3>7, <3>8
  <2>3. OperandsFit(node)
    BY <1>2, <1>4 DEF OperandsFit
  <2> QED
    BY <1>3, <2>2, <2>3 DEF Fits
<1>5. CASE node.kind = "extract"
  <2>1. PICK x \in VectorIds(Arena) : \E start \in 0..(Sort(Arena, x) - node.sort) :
          node = Node("extract", node.sort, <<x>>, <<start>>)
    BY <1>5 DEF PartShape, Node
  <2>2. PICK start \in 0..(Sort(Arena, x) - node.sort) :
          node = Node("extract", node.sort, <<x>>, <<start>>)
    BY <2>1
  <2>3. node.args[1] = x /\ node.data[1] = start
    BY <2>2 DEF Node
  <2>4. OperandWidth(node, 1) = Sort(Arena, x) /\ Sort(Arena, x) \in Nat
    BY <2>1, <2>3, WidthOfTerm, VectorSort DEF OperandWidth, ShapeInv
  <2>5. node.data[1] + node.sort <= OperandWidth(node, 1)
    BY <1>1, <2>2, <2>3, <2>4
  <2>6. OperandsFit(node)
    BY <1>2, <1>5, <2>5 DEF OperandsFit
  <2>7. LoweredWidth(node) = node.sort
    BY <1>2, <1>5 DEF LoweredWidth
  <2> QED
    BY <1>3, <2>6, <2>7 DEF Fits
<1>6. CASE node.kind \in {"zero_extend", "sign_extend"}
  <2>1. PICK x \in VectorIds(Arena), kind \in {"zero_extend", "sign_extend"} :
          node = Node(kind, node.sort, <<x>>, <<node.sort - Sort(Arena, x)>>)
    BY <1>6 DEF PartShape, Node
  <2>2. node.args[1] = x /\ node.data[1] = node.sort - Sort(Arena, x)
    BY <2>1 DEF Node
  <2>3. OperandWidth(node, 1) = Sort(Arena, x) /\ Sort(Arena, x) \in Nat
    BY <2>1, <2>2, WidthOfTerm, VectorSort DEF OperandWidth, ShapeInv
  <2>4. LoweredWidth(node) = OperandWidth(node, 1) + node.data[1]
    BY <1>2, <1>6 DEF LoweredWidth
  <2>5. LoweredWidth(node) = node.sort
    BY <1>1, <2>2, <2>3, <2>4
  <2>6. OperandsFit(node)
    BY <1>2, <1>6 DEF OperandsFit
  <2> QED
    BY <1>3, <2>5, <2>6 DEF Fits
<1> QED
  BY <1>1, <1>4, <1>5, <1>6

\* A set of the first n ids that is not empty and not a singleton has two members at least.
LEMMA SeveralMembers ==
  ASSUME NEW n \in Nat, NEW ids, ids \subseteq 1..n, ids # {}, \A x \in ids : ids # {x}
  PROVE  Cardinality(ids) > 1
<1>1. IsFiniteSet(ids) /\ Cardinality(ids) \in Nat
  <2>1. IsFiniteSet(1..n)
    BY FS_Interval
  <2>2. IsFiniteSet(ids)
    BY <2>1, FS_Subset
  <2> QED
    BY <2>2, FS_CardinalityType
<1>2. Cardinality(ids) # 0
  BY <1>1, FS_EmptySet
<1>3. Cardinality(ids) # 1
  <2>1. SUFFICES ASSUME Cardinality(ids) = 1 PROVE FALSE
    OBVIOUS
  <2>2. PICK x : ids = {x}
    BY <1>1, <2>1, FS_Singleton
  <2> QED
    BY <2>2
<1> QED
  BY <1>1, <1>2, <1>3

\* Two variables of one name are one node.
LEMMA VariablesDiffer ==
  ASSUME NEW a, WellShaped(a), NEW i \in 1..Len(a.nodes), NEW j \in 1..Len(a.nodes),
         a.nodes[i].kind = "variable", a.nodes[j].kind = "variable",
         a.nodes[i].data = a.nodes[j].data
  PROVE  i = j
<1>1. ASSUME NEW node, Shaped(a, node), node.kind = "variable"
      PROVE  \E name : node = Node("variable", SortOf[name], <<>>, <<name>>)
  <2>1. node.kind \notin UnaryOps \cup BinaryOps \cup CompareOps
    BY <1>1, KindApart DEF OtherKinds
  <2>2. LeafShape(node)
    BY <1>1, <2>1 DEF Shaped, NotShape, JunctionShape, OperatorShape, IteShape, PartShape,
                      Node, GuardNode
  <2> QED
    BY <1>1, <2>2 DEF LeafShape, Node
<1>2. PICK n : a.nodes[i] = Node("variable", SortOf[n], <<>>, <<n>>)
  BY <1>1 DEF WellShaped
<1>3. PICK m : a.nodes[j] = Node("variable", SortOf[m], <<>>, <<m>>)
  BY <1>1 DEF WellShaped
<1>4. a.nodes[i].data[1] = n /\ a.nodes[j].data[1] = m
  BY <1>2, <1>3 DEF Node
<1>5. a.nodes[i] = a.nodes[j]
  BY <1>2, <1>3, <1>4
<1> QED
  BY <1>5 DEF WellShaped, Folded, Sound

(***************************************************************************)
(* Every arena that the constructors of src/expr.rs can make lowers:       *)
(* SolverSession::new meets operands before their users, terms that have   *)
(* the widths their nodes have, and no variable twice.                     *)
(***************************************************************************)
THEOREM EveryArenaLowers == Spec => []LoweringSucceeds
<1>1. ASSUME ShapeInv PROVE LoweringSucceeds
  <2>1. /\ Arena.nodes = nodes /\ Ids = 1..Len(nodes) /\ WellShaped(Arena)
        /\ Len(nodes) \in Nat
    BY <1>1 DEF Arena, Ids, ShapeInv, WellShaped, Folded, Sound
  <2>2. \A i \in Ids : Shaped(Arena, nodes[i]) /\ OperandsWithin(nodes[i], i - 1)
    BY <2>1 DEF WellShaped, Folded, Sound
  <2>3. OperandsPrecede
    BY <2>2 DEF OperandsPrecede
  <2>4. ASSUME NEW i \in Ids, IsConst(Arena, i)
        PROVE  nodes[i].data[1] \in 0..AllOnes(TermWidth(nodes[i].sort))
    BY <2>1, <2>2, <2>4, ConstantFits DEF IsConst
  <2>5. ASSUME NEW i \in Ids, nodes[i].kind \in {"bool_and", "bool_or"}
        PROVE  Cardinality(nodes[i].members) > 1
    <3>1. PICK ids : ids = nodes[i].members
      OBVIOUS
    <3>2. ids # {} /\ \A x \in ids : ids # {x}
      BY <2>2, <2>5, <3>1, ShapeOfKind DEF JunctionShape
    <3>3. i - 1 \in Nat /\ ids \subseteq 1..(i - 1)
      BY <2>1, <2>2, <3>1 DEF OperandsWithin
    <3> QED
      BY <3>1, <3>2, <3>3, SeveralMembers
  <2>6. \A i \in Ids : Fits(nodes[i])
    BY <1>1, <2>2, LeafFits, NotFits, JunctionFits, OperatorFits, IteFits, PartFits DEF Shaped
  <2>7. \A i, j \in Ids : nodes[i].kind = "variable" /\ nodes[j].kind = "variable"
                            /\ nodes[i].data = nodes[j].data => i = j
    BY <2>1, VariablesDiffer
  <2> QED
    BY <2>3, <2>4, <2>5, <2>6, <2>7 DEF LoweringSucceeds, Fits
<1> QED
  BY <1>1, ShapeInvInductive, PTL DEF Spec

-----------------------------------------------------------------------------
(***************************************************************************)
(* What the constructors of bit vectors return.  The values u are those of *)
(* the arena b that a constructor left when it was called on a.            *)
(***************************************************************************)
Grown(a, b, env, u) ==
  WellShaped(a) /\ WellShaped(b) /\ Extends(a, b) /\ Valued(b, env, u) /\ env \in Assignments

\* The ids there were keep their nodes and have values of their widths, a constant its number.
LEMMA GrownIds ==
  ASSUME NEW a, NEW b, NEW env, NEW u, Grown(a, b, env, u), NEW x \in 1..Len(a.nodes)
  PROVE  /\ x \in 1..Len(b.nodes) /\ b.nodes[x] = a.nodes[x] /\ Width(b, x) = Width(a, x)
         /\ u[x] \in Words(Width(a, x))
         /\ IsConst(a, x) => u[x] = Number(a, x)
<1>1. x \in 1..Len(b.nodes) /\ b.nodes[x] = a.nodes[x] /\ Sort(b, x) = Sort(a, x)
  BY IdsExtend DEF Grown, WellShaped, Folded
<1>2. Width(b, x) = Width(a, x)
  BY <1>1 DEF Width
<1>3. u[x] \in Words(Width(b, x))
  BY <1>1, ValuesAreWords DEF Grown
<1>4. Evaluates(b, b.nodes[x], env, u, u[x])
  BY <1>1 DEF Grown, Valued
<1>5. IsConst(a, x) => u[x] = Number(a, x)
  <2> HAVE IsConst(a, x)
  <2>1. b.nodes[x].kind \in {"bool_const", "bits_const"}
    BY <1>1 DEF IsConst
  <2> QED
    BY <1>1, <1>4, <2>1, LeafComputes DEF Number
<1> QED
  BY <1>1, <1>2, <1>3, <1>5

\* A vector there was: its width is its sort, and its value, if constant, its number.
LEMMA GrownVector ==
  ASSUME NEW a, NEW b, NEW env, NEW u, Grown(a, b, env, u), NEW x \in VectorIds(a)
  PROVE  /\ x \in 1..Len(a.nodes) /\ x \in 1..Len(b.nodes)
         /\ Sort(a, x) \in Nat \ {0} /\ Width(a, x) = Sort(a, x) /\ Width(b, x) = Sort(a, x)
         /\ u[x] \in Words(Sort(a, x))
         /\ IsConst(a, x) => u[x] = Number(a, x)
<1>1. x \in 1..Len(a.nodes)
  BY DEF VectorIds
<1>2. Width(a, x) = Sort(a, x) /\ Sort(a, x) \in Nat \ {0}
  BY WidthOfId DEF Grown
<1> QED
  BY <1>1, <1>2, GrownIds

\* The id of an interned node has the value that the node computes.
LEMMA InternMeans ==
  ASSUME NEW a, NEW b, NEW env, NEW u, Grown(a, b, env, u),
         NEW node, OperandsWithin(node, Len(a.nodes)), b = Intern(a, node)
  PROVE  Evaluates(b, node, env, u, u[b.id])
<1>1. b.id \in 1..Len(b.nodes) /\ b.nodes[b.id] = node
  BY InternMakes DEF Grown, WellShaped, Folded, Made, IsId
<1> QED
  BY <1>1 DEF Grown, Valued

\* That of a constant has its number.
LEMMA ConstantMeans ==
  ASSUME NEW a, NEW b, NEW env, NEW u, Grown(a, b, env, u), NEW n
  PROVE  /\ b = BoolConst(a, n) => u[b.id] = n
         /\ \A w : b = BitsConst(a, w, n) => u[b.id] = n
<1>1. ASSUME NEW kind \in {"bool_const", "bits_const"}, NEW sort,
             NEW node, node = Node(kind, sort, <<>>, <<n>>), b = Intern(a, node)
      PROVE  u[b.id] = n
  <2>1. node.kind = kind /\ node.data[1] = n /\ OperandsWithin(node, Len(a.nodes))
    BY <1>1 DEF Node, OperandsWithin
  <2>2. Evaluates(b, node, env, u, u[b.id])
    BY <1>1, <2>1, InternMeans
  <2> QED
    BY <2>1, <2>2, LeafComputes
<1> QED
  BY <1>1 DEF BoolConst, BitsConst

\* Unary operators.
LEMMA BitUnaryMeans ==
  ASSUME NEW a, NEW b, NEW env, NEW u, Grown(a, b, env, u),
         NEW x \in VectorIds(a), NEW op \in UnaryOps, b = BitUnary(a, op, x)
  PROVE  u[b.id] = SmtUnary(op, Sort(a, x), u[x])
<1>1. x \in 1..Len(a.nodes) /\ Width(b, x) = Sort(a, x) /\ (IsConst(a, x) => u[x] = Number(a, x))
  BY GrownVector
<1>2. CASE IsConst(a, x)
  <2>1. b = BitsConst(a, Sort(a, x), SmtUnary(op, Sort(a, x), u[x]))
    BY <1>1, <1>2 DEF BitUnary
  <2> QED
    BY <2>1, ConstantMeans
<1>3. CASE ~IsConst(a, x)
  <2> DEFINE node == Node(op, Sort(a, x), <<x>>, <<>>)
  <2>1. b = Intern(a, node) /\ node.kind = op /\ node.args = <<x>> /\ node.members = {}
    BY <1>3 DEF BitUnary, Node
  <2> HIDE DEF node
  <2>2. OperandsWithin(node, Len(a.nodes))
    BY <1>1, <2>1 DEF OperandsWithin
  <2>3. Evaluates(b, node, env, u, u[b.id])
    BY <2>1, <2>2, InternMeans
  <2> QED
    BY <1>1, <2>1, <2>3, UnaryComputes
<1> QED
  BY <1>2, <1>3

\* Binary operators, but for a zero divisor.
LEMMA BitBinaryMeans ==
  ASSUME NEW a, NEW b, NEW env, NEW u, Grown(a, b, env, u),
         NEW x \in VectorIds(a), NEW y \in VectorIds(a), Sort(a, y) = Sort(a, x),
         NEW op \in BinaryOps, ~(Divides(op) /\ IsConst(a, y) /\ Number(a, y) = 0),
         b = BitBinary(a, op, x, y)
  PROVE  u[b.id] = SmtBinary(op, Sort(a, x), u[x], u[y])
<1>1. /\ x \in 1..Len(a.nodes) /\ Width(b, x) = Sort(a, x) /\ Sort(a, x) \in Nat \ {0}
      /\ u[x] \in Words(Sort(a, x))
      /\ IsConst(a, x) => u[x] = Number(a, x)
  BY GrownVector
<1>2. /\ y \in 1..Len(a.nodes) /\ u[y] \in Words(Sort(a, x))
      /\ IsConst(a, y) => u[y] = Number(a, y)
  BY GrownVector
<1>3. CASE IsConst(a, x) /\ IsConst(a, y)
  <2>1. b = BitsConst(a, Sort(a, x), FoldBinary(op, Sort(a, x), u[x], u[y]))
    BY <1>1, <1>2, <1>3 DEF BitBinary
  <2>2. op \in BitBinaryOp /\ (Divides(op) => u[y] # 0)
    BY <1>2, <1>3, ArenaAssumption
  <2>3. FoldBinary(op, Sort(a, x), u[x], u[y]) = SmtBinary(op, Sort(a, x), u[x], u[y])
    BY <1>1, <1>2, <2>2, FoldIsSmt
  <2> QED
    BY <2>1, <2>3, ConstantMeans
<1>4. CASE ~(IsConst(a, x) /\ IsConst(a, y))
  <2> DEFINE node == Node(op, Sort(a, x), <<x, y>>, <<>>)
  <2>1. b = Intern(a, node) /\ node.kind = op /\ node.args = <<x, y>> /\ node.members = {}
    BY <1>4 DEF BitBinary, Node
  <2> HIDE DEF node
  <2>2. OperandsWithin(node, Len(a.nodes))
    BY <1>1, <1>2, <2>1 DEF OperandsWithin
  <2>3. Evaluates(b, node, env, u, u[b.id])
    BY <2>1, <2>2, InternMeans
  <2> QED
    BY <1>1, <2>1, <2>3, BinaryComputes
<1> QED
  BY <1>3, <1>4

\* A comparison of a number with itself holds when its operator is reflexive.
LEMMA ComparedWithItself ==
  ASSUME NEW op \in CompareOp, NEW w \in Nat, NEW x \in Words(w)
  PROVE  SmtCompare(op, w, x, x) <=> Reflexive(op)
<1>1. PICK s : s = Signed(w, x)
  OBVIOUS
<1>2. s \in Int /\ x \in Int
  BY <1>1, SignedIsInteger
<1>3. ~(x < x) /\ x <= x /\ ~(x > x) /\ x >= x /\ ~(s < s) /\ s <= s /\ ~(s > s) /\ s >= s
  BY <1>2
<1>4. CASE op \in {"eq", "ult", "ule", "ugt", "uge"}
  BY <1>3, <1>4 DEF SmtCompare, Reflexive
<1>5. CASE op \in {"slt", "sle", "sgt", "sge"}
  BY <1>1, <1>3, <1>5 DEF SmtCompare, Reflexive
<1> QED
  BY <1>4, <1>5 DEF CompareOp

\* Comparisons.
LEMMA CompareMeans ==
  ASSUME NEW a, NEW b, NEW env, NEW u, Grown(a, b, env, u),
         NEW x \in VectorIds(a), NEW y \in VectorIds(a), Sort(a, y) = Sort(a, x),
         NEW op \in CompareOps, b = Compare(a, op, x, y)
  PROVE  u[b.id] = Truth(SmtCompare(op, Sort(a, x), u[x], u[y]))
<1>1. /\ x \in 1..Len(a.nodes) /\ Width(b, x) = Sort(a, x) /\ Sort(a, x) \in Nat \ {0}
      /\ u[x] \in Words(Sort(a, x))
      /\ IsConst(a, x) => u[x] = Number(a, x)
  BY GrownVector
<1>2. y \in 1..Len(a.nodes) /\ (IsConst(a, y) => u[y] = Number(a, y))
  BY GrownVector
<1>3. CASE x = y
  <2>1. b = BoolConst(a, Truth(Reflexive(op)))
    BY <1>3 DEF Compare
  <2>2. SmtCompare(op, Sort(a, x), u[x], u[x]) <=> Reflexive(op)
    BY <1>1, ComparedWithItself, ArenaAssumption
  <2>3. Truth(Reflexive(op)) = Truth(SmtCompare(op, Sort(a, x), u[x], u[x]))
    BY <2>2 DEF Truth
  <2> QED
    BY <1>3, <2>1, <2>3, ConstantMeans
<1>4. CASE x # y /\ IsConst(a, x) /\ IsConst(a, y)
  <2>1. b = BoolConst(a, Truth(SmtCompare(op, Sort(a, x), u[x], u[y])))
    BY <1>1, <1>2, <1>4 DEF Compare
  <2> QED
    BY <2>1, ConstantMeans
<1>5. CASE x # y /\ ~(IsConst(a, x) /\ IsConst(a, y))
  <2> DEFINE node == Node(op, Bool, <<x, y>>, <<>>)
  <2>1. b = Intern(a, node) /\ node.kind = op /\ node.args = <<x, y>> /\ node.members = {}
    BY <1>5 DEF Compare, Node
  <2> HIDE DEF node
  <2>2. OperandsWithin(node, Len(a.nodes))
    BY <1>1, <1>2, <2>1 DEF OperandsWithin
  <2>3. Evaluates(b, node, env, u, u[b.id])
    BY <2>1, <2>2, InternMeans
  <2> QED
    BY <1>1, <2>1, <2>3, BinaryComputes
<1> QED
  BY <1>3, <1>4, <1>5

\* ite.
LEMMA IteMeans ==
  ASSUME NEW a, NEW b, NEW env, NEW u, Grown(a, b, env, u),
         NEW c \in GuardIds(a), NEW x \in 1..Len(a.nodes), NEW y \in 1..Len(a.nodes),
         b = Ite(a, c, x, y)
  PROVE  u[b.id] = IF u[c] = 1 THEN u[x] ELSE u[y]
<1>1. c \in 1..Len(a.nodes) /\ (IsConst(a, c) => u[c] = Number(a, c))
  BY GrownIds DEF GuardIds
<1>2. CASE x = y
  <2>1. b.id = x
    BY <1>2 DEF Ite, Existing
  <2> QED
    BY <1>2, <2>1
<1>3. CASE x # y /\ IsConst(a, c)
  <2>1. b.id = IF u[c] = 1 THEN x ELSE y
    BY <1>1, <1>3 DEF Ite, Existing
  <2> QED
    BY <2>1
<1>4. CASE x # y /\ ~IsConst(a, c)
  <2> DEFINE node == Node("ite", Sort(a, x), <<c, x, y>>, <<>>)
  <2>1. b = Intern(a, node) /\ node.kind = "ite" /\ node.args = <<c, x, y>> /\ node.members = {}
    BY <1>4 DEF Ite, Node
  <2> HIDE DEF node
  <2>2. OperandsWithin(node, Len(a.nodes))
    BY <1>1, <2>1 DEF OperandsWithin
  <2>3. Evaluates(b, node, env, u, u[b.id])
    BY <2>1, <2>2, InternMeans
  <2> QED
    BY <2>1, <2>3, IteComputes
<1> QED
  BY <1>2, <1>3, <1>4

\* The one bit of bool_to_bit.
LEMMA OneBitMeans ==
  ASSUME NEW a, WellShaped(a), NEW n \in Words(1), NEW b, b = BitsConst(a, 1, n)
  PROVE  /\ WellShaped(b) /\ Extends(a, b) /\ b.id \in VectorIds(b) /\ Sort(b, b.id) = 1
         /\ IsConst(b, b.id) /\ Number(b, b.id) = n
<1>1. WellShaped(b) /\ Extends(a, b) /\ b.id \in VectorIds(b) /\ Sort(b, b.id) = 1
  BY OneBit
<1>2. b.nodes[b.id] = Node("bits_const", 1, <<>>, <<n>>)
  BY InternedNodes DEF BitsConst, WellShaped, Folded
<1> QED
  BY <1>1, <1>2 DEF IsConst, Number, Node

\* bool_to_bit returns its guard's bit.
LEMMA BoolToBitMeans ==
  ASSUME NEW a, NEW b, NEW env, NEW u, Grown(a, b, env, u), NEW c \in GuardIds(a),
         b = BoolToBit(a, c)
  PROVE  u[b.id] = u[c]
<1>1. PICK one : one = BitsConst(a, 1, 1)
  OBVIOUS
<1>2. PICK zero : zero = BitsConst(one, 1, 0)
  OBVIOUS
<1>3. /\ WellShaped(one) /\ Extends(a, one) /\ one.id \in VectorIds(one) /\ Sort(one, one.id) = 1
      /\ IsConst(one, one.id) /\ Number(one, one.id) = 1
  BY <1>1, OneBitMeans, WordsOfOneBit DEF Grown
<1>4. /\ WellShaped(zero) /\ Extends(one, zero) /\ zero.id \in VectorIds(zero)
      /\ Sort(zero, zero.id) = 1 /\ IsConst(zero, zero.id) /\ Number(zero, zero.id) = 0
  BY <1>2, <1>3, OneBitMeans, WordsOfOneBit
<1>5. Sound(a) /\ Sound(one) /\ Sound(zero)
  BY <1>3, <1>4 DEF Grown, WellShaped, Folded
<1>6. c \in GuardIds(zero)
  BY <1>3, <1>4, <1>5, IdsExtend
<1>7. /\ one.id \in 1..Len(zero.nodes) /\ zero.nodes[one.id] = one.nodes[one.id]
      /\ zero.id \in 1..Len(zero.nodes)
  BY <1>3, <1>4, <1>5, IdsExtend DEF VectorIds
<1>8. IsConst(zero, one.id) /\ Number(zero, one.id) = 1
  BY <1>3, <1>7 DEF IsConst, Number
<1>9. b = Ite(zero, c, one.id, zero.id)
  BY <1>1, <1>2 DEF BoolToBit
<1>10. Extends(zero, b)
  BY <1>5, <1>6, <1>7, <1>9, IteExtends DEF IsId, GuardIds
<1>11. Grown(zero, b, env, u)
  BY <1>4, <1>10 DEF Grown
<1>12. u[one.id] = 1 /\ u[zero.id] = 0
  BY <1>4, <1>7, <1>8, <1>11, GrownIds
<1>13. u[b.id] = IF u[c] = 1 THEN 1 ELSE 0
  BY <1>6, <1>7, <1>9, <1>11, <1>12, IteMeans
<1>14. u[c] \in {0, 1}
  <2>1. c \in GuardIds(b)
    BY <1>5, <1>6, <1>10, IdsExtend
  <2> QED
    BY <2>1, GuardsAreBits DEF Grown, Bits
<1> QED
  BY <1>13, <1>14

\* bit_is_one returns its bit.
LEMMA BitIsOneMeans ==
  ASSUME NEW a, NEW b, NEW env, NEW u, Grown(a, b, env, u), NEW x \in VectorIds(a),
         Sort(a, x) = 1, b = BitIsOne(a, x)
  PROVE  u[b.id] = u[x]
<1>1. PICK one : one = BitsConst(a, 1, 1)
  OBVIOUS
<1>2. /\ WellShaped(one) /\ Extends(a, one) /\ one.id \in VectorIds(one) /\ Sort(one, one.id) = 1
      /\ IsConst(one, one.id) /\ Number(one, one.id) = 1
  BY <1>1, OneBitMeans, WordsOfOneBit DEF Grown
<1>3. Sound(a) /\ Sound(one)
  BY <1>2 DEF Grown, WellShaped, Folded
<1>4. x \in VectorIds(one) /\ Sort(one, x) = 1
  BY <1>2, <1>3, IdsExtend DEF VectorIds
<1>5. b = Compare(one, "eq", x, one.id)
  BY <1>1 DEF BitIsOne
<1>6. Extends(one, b)
  BY <1>2, <1>3, <1>4, <1>5, CompareExtends DEF IsId, VectorIds
<1>7. Grown(one, b, env, u)
  BY <1>2, <1>6 DEF Grown
<1>8. u[one.id] = 1
  BY <1>2, <1>7, GrownIds DEF VectorIds
<1>9. u[x] \in {0, 1}
  BY <1>4, <1>7, GrownVector, WordsOfOneBit
<1>10. u[b.id] = Truth(SmtCompare("eq", 1, u[x], 1))
  BY <1>2, <1>4, <1>5, <1>7, <1>8, CompareMeans, KindsAreDistinct
<1>11. SmtCompare("eq", 1, u[x], 1) <=> u[x] = 1
  BY DEF SmtCompare
<1> QED
  BY <1>9, <1>10, <1>11 DEF Truth

\* One number joins to itself.
LEMMA JoinOfOne ==
  ASSUME NEW args, NEW n \in Nat, DOMAIN args = 1..n, NEW widths, NEW numbers,
         \A k \in 1..n : widths[args[k]] \in Nat /\ numbers[args[k]] \in Nat
  PROVE  n = 1 => JoinOf(widths, numbers, args) = numbers[args[1]]
<1>1. PICK U : Joins(U, widths, numbers, args, n) /\ JoinOf(widths, numbers, args) = U[n]
  BY JoinRuns
<1> HAVE n = 1
<1>2. U[1] = U[0] * 2^widths[args[1]] + numbers[args[1]] /\ U[0] = 0
  BY <1>1 DEF Joins
<1>3. 2^widths[args[1]] \in Nat /\ numbers[args[1]] \in Nat
  BY PowerIsPositive
<1> QED
  BY <1>1, <1>2, <1>3

\* Concatenation.
LEMMA ConcatMeans ==
  ASSUME NEW a, NEW b, NEW env, NEW u, Grown(a, b, env, u),
         NEW args \in Seq(VectorIds(a)), b = Concat(a, args),
         NEW widths, NEW numbers, Listed(b, u, args, widths, numbers)
  PROVE  u[b.id] = JoinOf(widths, numbers, args)
<1>1. Len(args) \in Nat /\ DOMAIN args = 1..Len(args)
  OBVIOUS
<1>2. ASSUME NEW k \in 1..Len(args)
      PROVE  /\ args[k] \in 1..Len(a.nodes) /\ widths[args[k]] = Sort(a, args[k])
             /\ Sort(a, args[k]) \in Nat
             /\ numbers[args[k]] = u[args[k]] /\ numbers[args[k]] \in Nat
             /\ IsConst(a, args[k]) => numbers[args[k]] = Number(a, args[k])
  <2>1. args[k] \in VectorIds(a)
    BY ElementOfSeq
  <2>2. PICK x : x = args[k]
    OBVIOUS
  <2>3. /\ x \in 1..Len(a.nodes) /\ Sort(a, x) \in Nat \ {0} /\ Width(b, x) = Sort(a, x)
        /\ u[x] \in Words(Sort(a, x)) /\ (IsConst(a, x) => u[x] = Number(a, x))
    BY <2>1, <2>2, GrownVector
  <2>4. widths[x] = Width(b, x) /\ numbers[x] = u[x]
    BY <2>2 DEF Listed
  <2>5. u[x] \in Nat
    BY <2>3, SignedIsInteger
  <2> QED
    BY <2>2, <2>3, <2>4, <2>5
<1>3. CASE Len(args) = 1
  <2>1. b.id = args[1]
    BY <1>3 DEF Concat, Existing
  <2>2. PICK n \in Nat : n = Len(args) /\ n = 1
    BY <1>3
  <2>3. /\ DOMAIN args = 1..n
        /\ \A k \in 1..n : widths[args[k]] \in Nat /\ numbers[args[k]] \in Nat
    BY <1>1, <1>2, <2>2
  <2>4. JoinOf(widths, numbers, args) = numbers[args[1]]
    BY <2>2, <2>3, JoinOfOne
  <2>5. numbers[args[1]] = u[args[1]]
    BY <1>2, <1>3
  <2> QED
    BY <2>1, <2>4, <2>5
<1>4. CASE Len(args) # 1 /\ \A i \in 1..Len(args) : IsConst(a, args[i])
  <2>1. b = BitsConst(a, TotalWidth(a, args), JoinedNumbers(a, args))
    BY <1>4 DEF Concat
  <2>2. \A k \in 1..Len(args) : /\ widths[args[k]] = Sort(a, args[k])
                                /\ numbers[args[k]] = Number(a, args[k])
    BY <1>2, <1>4
  <2>3. JoinedNumbers(a, args) = JoinOf(widths, numbers, args)
    <3>1. PICK n \in Nat : n = Len(args)
      BY <1>1
    <3>2. DOMAIN args = 1..n /\ \A k \in 1..n : /\ widths[args[k]] = Sort(a, args[k])
                                                /\ numbers[args[k]] = Number(a, args[k])
      BY <1>1, <2>2, <3>1
    <3> HIDE <1>1, <2>2
    <3> QED
      BY <3>2, NumbersJoin
  <2> QED
    BY <2>1, <2>3, ConstantMeans
<1>5. CASE Len(args) # 1 /\ ~\A i \in 1..Len(args) : IsConst(a, args[i])
  <2> DEFINE node == Node("concat", TotalWidth(a, args), args, <<>>)
  <2>1. b = Intern(a, node) /\ node.kind = "concat" /\ node.args = args /\ node.members = {}
    BY <1>5 DEF Concat, Node
  <2> HIDE DEF node
  <2>2. OperandsWithin(node, Len(a.nodes))
    BY <1>2, <2>1 DEF OperandsWithin
  <2>3. Evaluates(b, node, env, u, u[b.id])
    BY <2>1, <2>2, InternMeans
  <2> QED
    BY <2>1, <2>3, ConcatComputes
<1> QED
  BY <1>3, <1>4, <1>5

\* All of a number, extracted or extended, is the number.
LEMMA WholeNumber ==
  ASSUME NEW w \in Nat, NEW x \in Words(w)
  PROVE  SmtExtract(x, 0, w) = x /\ \A signed \in BOOLEAN : SmtExtend(w, x, w, signed) = x
<1>1. PICK p : p = 2^w
  OBVIOUS
<1>2. p \in Nat \ {0}
  BY <1>1, PowerIsPositive
<1>3. x \in 0..(p - 1)
  BY <1>1 DEF Words, AllOnes
<1>4. x % p = x
  BY <1>2, <1>3
<1>5. (x - p) % p = x
  BY <1>2, <1>3
<1>6. x \div 2^0 = x
  <2>1. 2^0 = 1
    OBVIOUS
  <2> QED
    BY <1>2, <1>3, <2>1
<1>7. SmtExtract(x, 0, w) = x
  BY <1>1, <1>4, <1>6 DEF SmtExtract
<1>8. Wrap(w, Signed(w, x)) = x
  BY <1>1, <1>4, <1>5 DEF Wrap, Signed
<1> QED
  BY <1>7, <1>8 DEF SmtExtend

\* extract.
LEMMA ExtractMeans ==
  ASSUME NEW a, NEW b, NEW env, NEW u, Grown(a, b, env, u),
         NEW x \in VectorIds(a), NEW start, NEW w, b = Extract(a, x, start, w)
  PROVE  u[b.id] = SmtExtract(u[x], start, w)
<1>1. /\ x \in 1..Len(a.nodes) /\ Sort(a, x) \in Nat \ {0}
      /\ u[x] \in Words(Sort(a, x))
      /\ IsConst(a, x) => u[x] = Number(a, x)
  BY GrownVector
<1>2. CASE start = 0 /\ w = Sort(a, x)
  <2>1. b.id = x
    BY <1>2 DEF Extract, Existing
  <2> QED
    BY <1>1, <1>2, <2>1, WholeNumber
<1>3. CASE ~(start = 0 /\ w = Sort(a, x)) /\ w # Sort(a, x) /\ IsConst(a, x)
  <2>1. b = BitsConst(a, w, SmtExtract(u[x], start, w))
    BY <1>1, <1>3 DEF Extract
  <2> QED
    BY <2>1, ConstantMeans
<1>4. CASE ~(start = 0 /\ w = Sort(a, x)) /\ ~(w # Sort(a, x) /\ IsConst(a, x))
  <2> DEFINE node == Node("extract", w, <<x>>, <<start>>)
  <2>1. /\ b = Intern(a, node) /\ node.kind = "extract" /\ node.sort = w
        /\ node.args = <<x>> /\ node.data = <<start>> /\ node.members = {}
    BY <1>4 DEF Extract, Node
  <2> HIDE DEF node
  <2>2. OperandsWithin(node, Len(a.nodes))
    BY <1>1, <2>1 DEF OperandsWithin
  <2>3. Evaluates(b, node, env, u, u[b.id])
    BY <2>1, <2>2, InternMeans
  <2> QED
    BY <2>1, <2>3, SliceComputes
<1> QED
  BY <1>2, <1>3, <1>4

ExtendKind(signed) == IF signed THEN "sign_extend" ELSE "zero_extend"

\* zero_extend and sign_extend.
LEMMA ExtendMeans ==
  ASSUME NEW a, NEW b, NEW env, NEW u, Grown(a, b, env, u),
         NEW x \in VectorIds(a), NEW w \in Nat, NEW signed \in BOOLEAN,
         b = Extend(a, x, w, signed)
  PROVE  u[b.id] = SmtExtend(Sort(a, x), u[x], w, signed)
<1>1. /\ x \in 1..Len(a.nodes) /\ Sort(a, x) \in Nat \ {0} /\ Width(b, x) = Sort(a, x)
      /\ u[x] \in Words(Sort(a, x))
      /\ IsConst(a, x) => u[x] = Number(a, x)
  BY GrownVector
<1>2. CASE w = Sort(a, x)
  <2>1. b.id = x
    BY <1>2 DEF Extend, Existing
  <2> QED
    BY <1>1, <1>2, <2>1, WholeNumber
<1>3. CASE w # Sort(a, x) /\ IsConst(a, x)
  <2>1. b = BitsConst(a, w, SmtExtend(Sort(a, x), u[x], w, signed))
    BY <1>1, <1>3 DEF Extend
  <2> QED
    BY <2>1, ConstantMeans
<1>4. CASE w # Sort(a, x) /\ ~IsConst(a, x)
  <2> DEFINE node == Node(ExtendKind(signed), w, <<x>>, <<w - Sort(a, x)>>)
  <2>1. /\ b = Intern(a, node) /\ node.kind = ExtendKind(signed)
        /\ node.args = <<x>> /\ node.data = <<w - Sort(a, x)>> /\ node.members = {}
    BY <1>4 DEF Extend, ExtendAmount, ExtendKind, Node
  <2> HIDE DEF node
  <2>2. OperandsWithin(node, Len(a.nodes))
    BY <1>1, <2>1 DEF OperandsWithin
  <2>3. Evaluates(b, node, env, u, u[b.id])
    BY <2>1, <2>2, InternMeans
  <2>4. Width(b, x) + (w - Sort(a, x)) = w
    BY <1>1
  <2>5. node.kind \in {"zero_extend", "sign_extend"} /\ (node.kind = "sign_extend") = signed
    BY <2>1 DEF ExtendKind
  <2>6. u[b.id] = SmtExtend(Width(b, x), u[x], Width(b, x) + (w - Sort(a, x)),
                            node.kind = "sign_extend")
    BY <2>1, <2>3, <2>5, SliceComputes
  <2> QED
    BY <1>1, <2>4, <2>5, <2>6
<1> QED
  BY <1>2, <1>3, <1>4

-----------------------------------------------------------------------------
(***************************************************************************)
(* The same, in a state: what a constructor denotes in a world is what the *)
(* node it was called for would have, computed from the world's values.    *)
(***************************************************************************)

\* The arena of a state.
LEMMA StateArena ==
  ASSUME ShapeInv
  PROVE  Sound(Arena) /\ WellShaped(Arena) /\ Arena.nodes = nodes /\ Len(nodes) \in Nat
<1>1. WellShaped(Arena)
  BY DEF ShapeInv
<1>2. Sound(Arena)
  BY <1>1 DEF WellShaped, Folded
<1>3. Arena.nodes = nodes
  BY DEF Arena
<1>4. Len(Arena.nodes) \in Nat
  BY <1>2 DEF Sound
<1> QED
  BY <1>1, <1>2, <1>3, <1>4

\* The values of a world go on to the arena that a constructor left.
LEMMA WorldGrows ==
  ASSUME ShapeInv, NEW world \in Worlds, NEW b, WellShaped(b), Extends(Arena, b),
         NEW u, u = Lowered(b.nodes, world.env, world.values)
  PROVE  /\ Grown(Arena, b, world.env, u) /\ Denoted(b, world) = u[b.id]
         /\ \A x \in 1..Len(nodes) : u[x] = world.values[x]
<1>1. PICK v : v = world.values
  OBVIOUS
<1>2. PICK env : env = world.env
  OBVIOUS
<1>3. Valued(Arena, env, v) /\ env \in Assignments
  BY <1>1, <1>2, WorldIsValued
<1>4. Sound(Arena) /\ Sound(b) /\ WellShaped(Arena) /\ Arena.nodes = nodes
  BY StateArena DEF WellShaped, Folded
<1>5. Valued(b, env, u) /\ Agree(u, v, Len(Arena.nodes))
  BY <1>1, <1>2, <1>3, <1>4, ValuesExtend
<1> QED
  BY <1>1, <1>2, <1>3, <1>4, <1>5 DEF Grown, Denoted, Agree

\* What is computed for the operation a constructor was called for.
LEMMA WorldComputes ==
  ASSUME ShapeInv, NEW world \in Worlds, NEW node, OperandsWithin(node, Len(nodes)),
         NEW r, r = LoweredValue(nodes, node, world.env, world.values)
  PROVE  Evaluates(Arena, node, world.env, world.values, r)
<1>1. Sound(Arena) /\ Arena.nodes = nodes
  BY StateArena
<1> QED
  BY <1>1, EvaluatesItself

\* The ids of a state, as those of its arena.
LEMMA StateIds ==
  ASSUME ShapeInv
  PROVE  /\ Sound(Arena) /\ WellShaped(Arena) /\ Arena.nodes = nodes /\ Len(nodes) \in Nat
         /\ \A x \in Guards : x \in GuardIds(Arena) /\ x \in 1..Len(nodes)
         /\ \A x \in Vectors : /\ x \in VectorIds(Arena) /\ x \in 1..Len(nodes)
                               /\ Sort(Arena, x) \in Nat \ {0} /\ Width(Arena, x) = Sort(Arena, x)
         /\ \A x \in Ids : \A y \in Like(x) :
              /\ x \in 1..Len(nodes) /\ y \in 1..Len(nodes) /\ Sort(Arena, y) = Sort(Arena, x)
              /\ x \in Vectors => y \in Vectors
<1>1. Sound(Arena) /\ WellShaped(Arena) /\ Arena.nodes = nodes /\ Len(nodes) \in Nat
  BY StateArena
<1>2. \A x \in Guards : x \in GuardIds(Arena) /\ x \in 1..Len(nodes)
  BY <1>1 DEF Guards, GuardIds, Ids, Sort
<1>3. \A x \in Vectors : x \in VectorIds(Arena) /\ x \in 1..Len(nodes)
  BY <1>1 DEF Vectors, Guards, VectorIds, Ids, Sort
<1>4. \A x \in Ids : \A y \in Like(x) :
        /\ x \in 1..Len(nodes) /\ y \in 1..Len(nodes) /\ Sort(Arena, y) = Sort(Arena, x)
        /\ x \in Vectors => y \in Vectors
  BY <1>1 DEF Vectors, Guards, Ids, Like, Sort
<1> QED
  BY <1>1, <1>2, <1>3, <1>4, WidthOfId

\* Unary operators.
LEMMA UnaryPreserved ==
  ASSUME ShapeInv, NEW world \in Worlds, NEW x \in Vectors, NEW op \in UnaryOps
  PROVE  Preserves(BitUnary(Arena, op, x), Node(op, Sort(Arena, x), <<x>>, <<>>), world)
<1> DEFINE node == Node(op, Sort(Arena, x), <<x>>, <<>>)
<1>1. PICK b : b = BitUnary(Arena, op, x)
  OBVIOUS
<1>2. /\ x \in VectorIds(Arena) /\ x \in 1..Len(nodes) /\ Width(Arena, x) = Sort(Arena, x)
      /\ Sound(Arena) /\ WellShaped(Arena) /\ Arena.nodes = nodes
  BY StateIds
<1>3. WellShaped(b) /\ Extends(Arena, b)
  BY <1>1, <1>2, BitUnaryShapes, BitUnaryExtends DEF IsId
<1>4. PICK u : u = Lowered(b.nodes, world.env, world.values)
  OBVIOUS
<1>5. Grown(Arena, b, world.env, u) /\ Denoted(b, world) = u[b.id] /\ u[x] = world.values[x]
  BY <1>2, <1>3, <1>4, WorldGrows
<1>6. u[b.id] = SmtUnary(op, Sort(Arena, x), u[x])
  BY <1>1, <1>2, <1>5, BitUnaryMeans
<1>7. node.kind = op /\ node.args = <<x>> /\ node.members = {}
  BY DEF Node
<1> HIDE DEF node
<1>8. OperandsWithin(node, Len(nodes))
  BY <1>2, <1>7 DEF OperandsWithin
<1>9. PICK r : r = LoweredValue(nodes, node, world.env, world.values)
  OBVIOUS
<1>10. Evaluates(Arena, node, world.env, world.values, r)
  BY <1>8, <1>9, WorldComputes
<1>11. r = SmtUnary(op, Width(Arena, x), world.values[x])
  BY <1>7, <1>10, UnaryComputes
<1>12. Preserves(b, node, world)
  BY <1>2, <1>5, <1>6, <1>9, <1>11 DEF Preserves
<1> QED
  BY <1>1, <1>12 DEF node

\* Binary operators, but for a zero divisor.
LEMMA BinaryPreserved ==
  ASSUME ShapeInv, NEW world \in Worlds, NEW x \in Vectors, NEW y \in Like(x),
         NEW op \in BinaryOps, ~DividesByZero(op, y)
  PROVE  Preserves(BitBinary(Arena, op, x, y), Node(op, Sort(Arena, x), <<x, y>>, <<>>), world)
<1> DEFINE node == Node(op, Sort(Arena, x), <<x, y>>, <<>>)
<1>1. PICK b : b = BitBinary(Arena, op, x, y)
  OBVIOUS
<1>2. /\ x \in VectorIds(Arena) /\ x \in 1..Len(nodes) /\ Width(Arena, x) = Sort(Arena, x)
      /\ y \in VectorIds(Arena) /\ y \in 1..Len(nodes) /\ Sort(Arena, y) = Sort(Arena, x)
      /\ Sound(Arena) /\ WellShaped(Arena) /\ Arena.nodes = nodes
  BY StateIds DEF Vectors
<1>3. WellShaped(b) /\ Extends(Arena, b)
  BY <1>1, <1>2, BitBinaryShapes, BitBinaryExtends DEF IsId
<1>4. PICK u : u = Lowered(b.nodes, world.env, world.values)
  OBVIOUS
<1>5. /\ Grown(Arena, b, world.env, u) /\ Denoted(b, world) = u[b.id]
      /\ u[x] = world.values[x] /\ u[y] = world.values[y]
  BY <1>2, <1>3, <1>4, WorldGrows
<1>6. ~(Divides(op) /\ IsConst(Arena, y) /\ Number(Arena, y) = 0)
  BY DEF Divides, DividesByZero
<1>7. u[b.id] = SmtBinary(op, Sort(Arena, x), u[x], u[y])
  BY <1>1, <1>2, <1>5, <1>6, BitBinaryMeans
<1>8. node.kind = op /\ node.args = <<x, y>> /\ node.members = {}
  BY DEF Node
<1> HIDE DEF node
<1>9. OperandsWithin(node, Len(nodes))
  BY <1>2, <1>8 DEF OperandsWithin
<1>10. PICK r : r = LoweredValue(nodes, node, world.env, world.values)
  OBVIOUS
<1>11. Evaluates(Arena, node, world.env, world.values, r)
  BY <1>9, <1>10, WorldComputes
<1>12. r = SmtBinary(op, Width(Arena, x), world.values[x], world.values[y])
  BY <1>8, <1>11, BinaryComputes
<1>13. Preserves(b, node, world)
  BY <1>2, <1>5, <1>7, <1>10, <1>12 DEF Preserves
<1> QED
  BY <1>1, <1>13 DEF node

\* Comparisons.
LEMMA ComparePreserved ==
  ASSUME ShapeInv, NEW world \in Worlds, NEW x \in Vectors, NEW y \in Like(x),
         NEW op \in CompareOps
  PROVE  Preserves(Compare(Arena, op, x, y), Node(op, Bool, <<x, y>>, <<>>), world)
<1> DEFINE node == Node(op, Bool, <<x, y>>, <<>>)
<1>1. PICK b : b = Compare(Arena, op, x, y)
  OBVIOUS
<1>2. /\ x \in VectorIds(Arena) /\ x \in 1..Len(nodes) /\ Width(Arena, x) = Sort(Arena, x)
      /\ y \in VectorIds(Arena) /\ y \in 1..Len(nodes) /\ Sort(Arena, y) = Sort(Arena, x)
      /\ Sound(Arena) /\ WellShaped(Arena) /\ Arena.nodes = nodes
  BY StateIds DEF Vectors
<1>3. WellShaped(b) /\ Extends(Arena, b)
  BY <1>1, <1>2, CompareShapes, CompareExtends DEF IsId
<1>4. PICK u : u = Lowered(b.nodes, world.env, world.values)
  OBVIOUS
<1>5. /\ Grown(Arena, b, world.env, u) /\ Denoted(b, world) = u[b.id]
      /\ u[x] = world.values[x] /\ u[y] = world.values[y]
  BY <1>2, <1>3, <1>4, WorldGrows
<1>6. u[b.id] = Truth(SmtCompare(op, Sort(Arena, x), u[x], u[y]))
  BY <1>1, <1>2, <1>5, CompareMeans
<1>7. node.kind = op /\ node.args = <<x, y>> /\ node.members = {}
  BY DEF Node
<1> HIDE DEF node
<1>8. OperandsWithin(node, Len(nodes))
  BY <1>2, <1>7 DEF OperandsWithin
<1>9. PICK r : r = LoweredValue(nodes, node, world.env, world.values)
  OBVIOUS
<1>10. Evaluates(Arena, node, world.env, world.values, r)
  BY <1>8, <1>9, WorldComputes
<1>11. r = Truth(SmtCompare(op, Width(Arena, x), world.values[x], world.values[y]))
  BY <1>7, <1>10, BinaryComputes
<1>12. Preserves(b, node, world)
  BY <1>2, <1>5, <1>6, <1>9, <1>11 DEF Preserves
<1> QED
  BY <1>1, <1>12 DEF node

\* ite.
LEMMA ItePreserved ==
  ASSUME ShapeInv, NEW world \in Worlds, NEW c \in Guards, NEW x \in Ids, NEW y \in Like(x)
  PROVE  Preserves(Ite(Arena, c, x, y), Node("ite", Sort(Arena, x), <<c, x, y>>, <<>>), world)
<1> DEFINE node == Node("ite", Sort(Arena, x), <<c, x, y>>, <<>>)
<1>1. PICK b : b = Ite(Arena, c, x, y)
  OBVIOUS
<1>2. /\ c \in GuardIds(Arena) /\ c \in 1..Len(nodes)
      /\ x \in 1..Len(nodes) /\ y \in 1..Len(nodes) /\ Sort(Arena, y) = Sort(Arena, x)
      /\ Sound(Arena) /\ WellShaped(Arena) /\ Arena.nodes = nodes
  BY StateIds
<1>3. WellShaped(b) /\ Extends(Arena, b)
  BY <1>1, <1>2, IteShapes, IteExtends DEF IsId
<1>4. PICK u : u = Lowered(b.nodes, world.env, world.values)
  OBVIOUS
<1>5. /\ Grown(Arena, b, world.env, u) /\ Denoted(b, world) = u[b.id]
      /\ u[c] = world.values[c] /\ u[x] = world.values[x] /\ u[y] = world.values[y]
  BY <1>2, <1>3, <1>4, WorldGrows
<1>6. u[b.id] = IF u[c] = 1 THEN u[x] ELSE u[y]
  BY <1>1, <1>2, <1>5, IteMeans
<1>7. node.kind = "ite" /\ node.args = <<c, x, y>> /\ node.members = {}
  BY DEF Node
<1> HIDE DEF node
<1>8. OperandsWithin(node, Len(nodes))
  BY <1>2, <1>7 DEF OperandsWithin
<1>9. PICK r : r = LoweredValue(nodes, node, world.env, world.values)
  OBVIOUS
<1>10. Evaluates(Arena, node, world.env, world.values, r)
  BY <1>8, <1>9, WorldComputes
<1>11. r = IF world.values[c] = 1 THEN world.values[x] ELSE world.values[y]
  BY <1>7, <1>10, IteComputes
<1>12. Preserves(b, node, world)
  BY <1>5, <1>6, <1>9, <1>11 DEF Preserves
<1> QED
  BY <1>1, <1>12 DEF node

\* extract.
LEMMA ExtractPreserved ==
  ASSUME ShapeInv, NEW world \in Worlds, NEW x \in Vectors, NEW w \in 1..Sort(Arena, x),
         NEW start \in 0..(Sort(Arena, x) - w)
  PROVE  Preserves(Extract(Arena, x, start, w), Node("extract", w, <<x>>, <<start>>), world)
<1> DEFINE node == Node("extract", w, <<x>>, <<start>>)
<1>1. PICK b : b = Extract(Arena, x, start, w)
  OBVIOUS
<1>2. /\ x \in VectorIds(Arena) /\ x \in 1..Len(nodes) /\ Sort(Arena, x) \in Nat \ {0}
      /\ Sound(Arena) /\ WellShaped(Arena) /\ Arena.nodes = nodes
  BY StateIds
<1>3. WellShaped(b) /\ Extends(Arena, b)
  <2>1. w \in Nat \ {0} /\ start \in Nat /\ start + w <= Sort(Arena, x)
    BY <1>2
  <2> QED
    BY <1>1, <1>2, <2>1, ExtractShapes, ExtractExtends DEF IsId
<1>4. PICK u : u = Lowered(b.nodes, world.env, world.values)
  OBVIOUS
<1>5. Grown(Arena, b, world.env, u) /\ Denoted(b, world) = u[b.id] /\ u[x] = world.values[x]
  BY <1>2, <1>3, <1>4, WorldGrows
<1>6. u[b.id] = SmtExtract(u[x], start, w)
  BY <1>1, <1>2, <1>5, ExtractMeans
<1>7. /\ node.kind = "extract" /\ node.sort = w
      /\ node.args = <<x>> /\ node.data = <<start>> /\ node.members = {}
  BY DEF Node
<1> HIDE DEF node
<1>8. OperandsWithin(node, Len(nodes))
  BY <1>2, <1>7 DEF OperandsWithin
<1>9. PICK r : r = LoweredValue(nodes, node, world.env, world.values)
  OBVIOUS
<1>10. Evaluates(Arena, node, world.env, world.values, r)
  BY <1>8, <1>9, WorldComputes
<1>11. r = SmtExtract(world.values[x], start, w)
  BY <1>7, <1>10, SliceComputes
<1>12. Preserves(b, node, world)
  BY <1>5, <1>6, <1>9, <1>11 DEF Preserves
<1> QED
  BY <1>1, <1>12 DEF node

\* zero_extend and sign_extend.
LEMMA ExtendPreserved ==
  ASSUME ShapeInv, NEW world \in Worlds, NEW x \in Vectors, NEW w \in Nat, w >= Sort(Arena, x),
         NEW signed \in BOOLEAN
  PROVE  Preserves(Extend(Arena, x, w, signed),
                   Node(ExtendKind(signed), w, <<x>>, <<w - Sort(Arena, x)>>), world)
<1> DEFINE node == Node(ExtendKind(signed), w, <<x>>, <<w - Sort(Arena, x)>>)
<1>1. PICK b : b = Extend(Arena, x, w, signed)
  OBVIOUS
<1>2. /\ x \in VectorIds(Arena) /\ x \in 1..Len(nodes) /\ Sort(Arena, x) \in Nat \ {0}
      /\ Width(Arena, x) = Sort(Arena, x)
      /\ Sound(Arena) /\ WellShaped(Arena) /\ Arena.nodes = nodes
  BY StateIds
<1>3. WellShaped(b) /\ Extends(Arena, b)
  <2>1. w \in Nat \ {0}
    BY <1>2
  <2> QED
    BY <1>1, <1>2, <2>1, ExtendShapes, ExtendExtends DEF IsId
<1>4. PICK u : u = Lowered(b.nodes, world.env, world.values)
  OBVIOUS
<1>5. Grown(Arena, b, world.env, u) /\ Denoted(b, world) = u[b.id] /\ u[x] = world.values[x]
  BY <1>2, <1>3, <1>4, WorldGrows
<1>6. u[b.id] = SmtExtend(Sort(Arena, x), u[x], w, signed)
  BY <1>1, <1>2, <1>5, ExtendMeans
<1>7. /\ node.kind = ExtendKind(signed) /\ node.args = <<x>>
      /\ node.data = <<w - Sort(Arena, x)>> /\ node.members = {}
  BY DEF Node
<1> HIDE DEF node
<1>8. OperandsWithin(node, Len(nodes))
  BY <1>2, <1>7 DEF OperandsWithin
<1>9. PICK r : r = LoweredValue(nodes, node, world.env, world.values)
  OBVIOUS
<1>10. Evaluates(Arena, node, world.env, world.values, r)
  BY <1>8, <1>9, WorldComputes
<1>11. r = SmtExtend(Sort(Arena, x), world.values[x], w, signed)
  <2>1. Width(Arena, x) + (w - Sort(Arena, x)) = w
    BY <1>2
  <2>2. node.kind \in {"zero_extend", "sign_extend"} /\ (node.kind = "sign_extend") = signed
    BY <1>7 DEF ExtendKind
  <2>3. r = SmtExtend(Width(Arena, x), world.values[x], Width(Arena, x) + (w - Sort(Arena, x)),
                      node.kind = "sign_extend")
    BY <1>7, <1>10, <2>2, SliceComputes
  <2> QED
    BY <1>2, <2>1, <2>2, <2>3
<1>12. Preserves(b, node, world)
  BY <1>5, <1>6, <1>9, <1>11 DEF Preserves
<1> QED
  BY <1>1, <1>12 DEF node

\* The sum of the widths of a list that is not empty is positive when they are.
LEMMA SumIsPositive ==
  ASSUME NEW args, NEW n \in Nat, DOMAIN args = 1..n, NEW widths,
         \A k \in 1..n : widths[args[k]] \in Nat \ {0}
  PROVE  n # 0 => SumOf(widths, args) \in Nat \ {0}
<1>1. PICK s : Sums(s, widths, args, n) /\ SumOf(widths, args) = s[n]
  BY SumRuns
<1> DEFINE N == {k \in Nat : k <= n => s[k] \in Nat /\ s[k] >= k}
<1>2. 0 \in N
  BY <1>1 DEF Sums
<1>3. ASSUME NEW k \in Nat, k \in N PROVE k + 1 \in N
  <2> SUFFICES ASSUME k + 1 <= n PROVE s[k + 1] \in Nat /\ s[k + 1] >= k + 1
    OBVIOUS
  <2>1. s[k] \in Nat /\ s[k] >= k /\ k \in 0..(n - 1) /\ k + 1 \in 1..n
    BY <1>3
  <2>2. s[k + 1] = s[k] + widths[args[k + 1]] /\ widths[args[k + 1]] \in Nat \ {0}
    BY <1>1, <2>1 DEF Sums
  <2> QED
    BY <2>1, <2>2
<1> HIDE DEF N
<1>4. n \in N
  BY <1>2, <1>3, SetInduction
<1> QED
  BY <1>1, <1>4 DEF N

\* Every list of vectors that is not empty has a width.
LEMMA ListHasWidth ==
  ASSUME ShapeInv, NEW args \in Seq(Vectors), Len(args) # 0
  PROVE  TotalWidth(Arena, args) \in Nat \ {0}
<1>1. PICK widths : widths = [x \in Vectors |-> Sort(Arena, x)]
  OBVIOUS
<1>2. PICK n \in Nat : n = Len(args) /\ DOMAIN args = 1..n
  OBVIOUS
<1>3. \A k \in 1..n : args[k] \in Vectors
  BY <1>2, ElementOfSeq
<1>4. \A k \in 1..n : widths[args[k]] = Sort(Arena, args[k]) /\ widths[args[k]] \in Nat \ {0}
  BY <1>1, <1>3, StateIds
<1>5. SumOf(widths, args) \in Nat \ {0}
  BY <1>2, <1>4, SumIsPositive
<1>6. TotalWidth(Arena, args) = SumOf(widths, args)
  BY <1>2, <1>4, TotalIsSum
<1> QED
  BY <1>5, <1>6

\* concat.
LEMMA ConcatPreserved ==
  ASSUME ShapeInv, NEW world \in Worlds, NEW args \in Seq(Vectors),
         TotalWidth(Arena, args) \in Nat \ {0}
  PROVE  Preserves(Concat(Arena, args), Node("concat", TotalWidth(Arena, args), args, <<>>), world)
<1> DEFINE node == Node("concat", TotalWidth(Arena, args), args, <<>>)
<1>1. PICK b : b = Concat(Arena, args)
  OBVIOUS
<1>2. Sound(Arena) /\ WellShaped(Arena) /\ Arena.nodes = nodes
  BY StateIds
<1>3. args \in Seq(VectorIds(Arena)) /\ Len(args) \in Nat /\ DOMAIN args = 1..Len(args)
  <2>1. Vectors \subseteq VectorIds(Arena)
    BY StateIds
  <2> QED
    BY <2>1
<1>4. \A k \in 1..Len(args) : args[k] \in Vectors /\ args[k] \in 1..Len(nodes)
  BY StateIds, ElementOfSeq
<1>5. WellShaped(b) /\ Extends(Arena, b)
  BY <1>1, <1>2, <1>3, <1>4, ConcatShapes, ConcatExtends DEF IsId
<1>6. PICK u : u = Lowered(b.nodes, world.env, world.values)
  OBVIOUS
<1>7. /\ Grown(Arena, b, world.env, u) /\ Denoted(b, world) = u[b.id]
      /\ \A x \in 1..Len(nodes) : u[x] = world.values[x]
  BY <1>5, <1>6, WorldGrows
<1>8. PICK widths : widths = [x \in 1..Len(nodes) |-> Width(Arena, x)]
  OBVIOUS
<1>9. PICK numbers : numbers = [x \in 1..Len(nodes) |-> world.values[x]]
  OBVIOUS
<1>10. \A k \in 1..Len(args) : /\ widths[args[k]] = Width(Arena, args[k])
                               /\ numbers[args[k]] = world.values[args[k]]
  BY <1>4, <1>8, <1>9
<1>11. Listed(Arena, world.values, args, widths, numbers)
  BY <1>3, <1>10 DEF Listed
<1>12. Listed(b, u, args, widths, numbers)
  <2>1. \A k \in 1..Len(args) : Width(b, args[k]) = Width(Arena, args[k])
                                /\ u[args[k]] = world.values[args[k]]
    BY <1>2, <1>4, <1>7, GrownIds
  <2> QED
    BY <1>3, <1>10, <2>1 DEF Listed
<1>13. u[b.id] = JoinOf(widths, numbers, args)
  BY <1>1, <1>3, <1>7, <1>12, ConcatMeans
<1>14. node.kind = "concat" /\ node.args = args /\ node.members = {}
  BY DEF Node
<1> HIDE DEF node
<1>15. OperandsWithin(node, Len(nodes))
  BY <1>4, <1>14 DEF OperandsWithin
<1>16. PICK r : r = LoweredValue(nodes, node, world.env, world.values)
  OBVIOUS
<1>17. Evaluates(Arena, node, world.env, world.values, r)
  BY <1>15, <1>16, WorldComputes
<1>18. r = JoinOf(widths, numbers, args)
  BY <1>11, <1>14, <1>17, ConcatComputes
<1>19. Preserves(b, node, world)
  BY <1>7, <1>13, <1>16, <1>18 DEF Preserves
<1> QED
  BY <1>1, <1>19 DEF node

\* bool_to_bit and bit_is_one.
LEMMA BitsPreserved ==
  ASSUME ShapeInv, NEW world \in Worlds
  PROVE  /\ \A c \in Guards : Denoted(BoolToBit(Arena, c), world) = world.values[c]
         /\ \A x \in Vectors :
              Sort(Arena, x) = 1 => Denoted(BitIsOne(Arena, x), world) = world.values[x]
<1>1. ASSUME NEW c \in Guards PROVE Denoted(BoolToBit(Arena, c), world) = world.values[c]
  <2>1. PICK b : b = BoolToBit(Arena, c)
    OBVIOUS
  <2>2. /\ c \in GuardIds(Arena) /\ c \in 1..Len(nodes)
        /\ Sound(Arena) /\ WellShaped(Arena) /\ Arena.nodes = nodes
    BY StateIds
  <2>3. WellShaped(b) /\ Extends(Arena, b)
    BY <2>1, <2>2, BoolToBitShapes, BoolToBitExtends DEF IsId
  <2>4. PICK u : u = Lowered(b.nodes, world.env, world.values)
    OBVIOUS
  <2>5. Grown(Arena, b, world.env, u) /\ Denoted(b, world) = u[b.id] /\ u[c] = world.values[c]
    BY <2>2, <2>3, <2>4, WorldGrows
  <2>6. u[b.id] = u[c]
    BY <2>1, <2>2, <2>5, BoolToBitMeans
  <2> QED
    BY <2>1, <2>5, <2>6
<1>2. ASSUME NEW x \in Vectors, Sort(Arena, x) = 1
      PROVE  Denoted(BitIsOne(Arena, x), world) = world.values[x]
  <2>1. PICK b : b = BitIsOne(Arena, x)
    OBVIOUS
  <2>2. /\ x \in VectorIds(Arena) /\ x \in 1..Len(nodes)
        /\ Sound(Arena) /\ WellShaped(Arena) /\ Arena.nodes = nodes
    BY StateIds
  <2>3. WellShaped(b) /\ Extends(Arena, b)
    BY <1>2, <2>1, <2>2, BitIsOneShapes, BitIsOneExtends DEF IsId
  <2>4. PICK u : u = Lowered(b.nodes, world.env, world.values)
    OBVIOUS
  <2>5. Grown(Arena, b, world.env, u) /\ Denoted(b, world) = u[b.id] /\ u[x] = world.values[x]
    BY <2>2, <2>3, <2>4, WorldGrows
  <2>6. u[b.id] = u[x]
    BY <1>2, <2>1, <2>2, <2>5, BitIsOneMeans
  <2> QED
    BY <2>1, <2>5, <2>6
<1> QED
  BY <1>1, <1>2

(***************************************************************************)
(* In every reachable arena, and under every assignment, what a            *)
(* constructor of bit vectors returns has the value of the operation it    *)
(* was called for: no folding, no simplification and no sharing changes    *)
(* what an expression denotes.                                             *)
(***************************************************************************)
THEOREM VectorsKeepTheirMeaning == Spec => []VectorMeaningPreserved
<1>1. ShapeInv => VectorMeaningPreserved
  <2> SUFFICES ASSUME ShapeInv, NEW world \in Worlds
               PROVE  /\ \A x \in Vectors :
                           /\ \A op \in UnaryOps :
                                Preserves(BitUnary(Arena, op, x),
                                          Node(op, Sort(Arena, x), <<x>>, <<>>), world)
                           /\ \A op \in BinaryOps : \A y \in Like(x) :
                                ~DividesByZero(op, y) =>
                                  Preserves(BitBinary(Arena, op, x, y),
                                            Node(op, Sort(Arena, x), <<x, y>>, <<>>), world)
                           /\ \A op \in CompareOps : \A y \in Like(x) :
                                Preserves(Compare(Arena, op, x, y),
                                          Node(op, Bool, <<x, y>>, <<>>), world)
                           /\ \A w \in 1..Sort(Arena, x) : \A start \in 0..(Sort(Arena, x) - w) :
                                Preserves(Extract(Arena, x, start, w),
                                          Node("extract", w, <<x>>, <<start>>), world)
                           /\ \A w \in Sort(Arena, x)..MaxWidth, signed \in BOOLEAN :
                                Preserves(Extend(Arena, x, w, signed),
                                          Node(IF signed THEN "sign_extend" ELSE "zero_extend", w,
                                               <<x>>, <<w - Sort(Arena, x)>>), world)
                           /\ Sort(Arena, x) = 1 =>
                                Denoted(BitIsOne(Arena, x), world) = world.values[x]
                      /\ \A c \in Guards : Denoted(BoolToBit(Arena, c), world) = world.values[c]
                      /\ \A c \in Guards, x \in Ids : \A y \in Like(x) :
                           Preserves(Ite(Arena, c, x, y),
                                     Node("ite", Sort(Arena, x), <<c, x, y>>, <<>>), world)
                      /\ \A args \in Lists(Vectors) :
                           Preserves(Concat(Arena, args),
                                     Node("concat", TotalWidth(Arena, args), args, <<>>), world)
    BY DEF VectorMeaningPreserved
  <2>1. ASSUME NEW x \in Vectors, NEW w \in Sort(Arena, x)..MaxWidth, NEW signed \in BOOLEAN
        PROVE  Preserves(Extend(Arena, x, w, signed),
                         Node(IF signed THEN "sign_extend" ELSE "zero_extend", w,
                              <<x>>, <<w - Sort(Arena, x)>>), world)
    <3>1. Sort(Arena, x) \in Nat \ {0}
      BY StateIds
    <3>2. w \in Nat /\ w >= Sort(Arena, x)
      BY <3>1
    <3>3. Preserves(Extend(Arena, x, w, signed),
                    Node(ExtendKind(signed), w, <<x>>, <<w - Sort(Arena, x)>>), world)
      BY <3>2, ExtendPreserved
    <3> QED
      BY <3>3 DEF ExtendKind
  <2>2. ASSUME NEW args \in Lists(Vectors)
        PROVE  Preserves(Concat(Arena, args),
                         Node("concat", TotalWidth(Arena, args), args, <<>>), world)
    <3>1. PICK n \in 1..MaxArgs : args \in [1..n -> Vectors]
      BY DEF Lists
    <3>2. n \in Nat \ {0} /\ args \in Seq(Vectors) /\ Len(args) = n
      BY <3>1, ArenaAssumption
    <3>3. TotalWidth(Arena, args) \in Nat \ {0}
      BY <3>2, ListHasWidth
    <3> QED
      BY <3>2, <3>3, ConcatPreserved
  <2> QED
    BY <2>1, <2>2, UnaryPreserved, BinaryPreserved, ComparePreserved, ExtractPreserved,
       ItePreserved, BitsPreserved
<1> QED
  BY <1>1, ShapeInvInductive, PTL DEF Spec
=============================================================================
