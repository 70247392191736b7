------------------------------ MODULE Lowering ------------------------------
(***************************************************************************)
(* What src/solver.rs makes of an arena: SolverSession::new lowers every   *)
(* node, in order, to a solver term, and reports an error for a node whose *)
(* operands have no term yet, for a term that does not have the width of   *)
(* its node, and for a variable declared twice.  A term is a bit vector,   *)
(* a guard's has width 1.                                                  *)
(***************************************************************************)
EXTENDS ExprArena

TermWidth(sort) == IF sort = Bool THEN 1 ELSE sort

OperandWidth(node, k) == TermWidth(nodes[node.args[k]].sort)

\* The width of the term that lower_node builds.
LoweredWidth(node) ==
  CASE node.kind \in {"bool_const", "bits_const", "variable"} -> TermWidth(node.sort)
    [] node.kind \in {"bool_not", "bool_and", "bool_or"} \cup CompareOps -> 1
    [] node.kind \in UnaryOps \cup BinaryOps -> OperandWidth(node, 1)
    [] node.kind = "ite"     -> OperandWidth(node, 2)
    [] node.kind = "concat"  -> FoldLeft(LAMBDA w, x : w + TermWidth(nodes[x].sort), 0, node.args)
    [] node.kind = "extract" -> node.sort
    [] node.kind \in {"zero_extend", "sign_extend"} -> OperandWidth(node, 1) + node.data[1]

\* What the solver requires of the operands of a term.
OperandsFit(node) ==
  CASE node.kind \in BinaryOps \cup CompareOps -> OperandWidth(node, 1) = OperandWidth(node, 2)
    [] node.kind = "ite" ->
         OperandWidth(node, 1) = 1 /\ OperandWidth(node, 2) = OperandWidth(node, 3)
    [] node.kind = "extract"  -> node.data[1] + node.sort <= OperandWidth(node, 1)
    [] node.kind = "bool_not" -> OperandWidth(node, 1) = 1
    [] node.kind \in {"bool_and", "bool_or"} ->
         \A x \in node.members : TermWidth(nodes[x].sort) = 1
    [] OTHER -> TRUE

(***************************************************************************)
(* The value of a term, given the variables' and its operands' values.     *)
(***************************************************************************)
Assignments ==
  {env \in [Names -> 0..AllOnes(TermWidth(MaxWidth))] :
     \A name \in Names : env[name] <= AllOnes(TermWidth(SortOf[name]))}

LoweredValue(ns, node, env, values) ==
  LET arg(k)   == values[node.args[k]]
      width(k) == TermWidth(ns[node.args[k]].sort)
  IN
  CASE node.kind \in {"bool_const", "bits_const"} -> node.data[1]
    [] node.kind = "variable" -> env[node.data[1]]
    [] node.kind = "bool_not" -> 1 - arg(1)
    [] node.kind = "bool_and" -> Truth(\A x \in node.members : values[x] = 1)
    [] node.kind = "bool_or"  -> Truth(\E x \in node.members : values[x] = 1)
    [] node.kind \in UnaryOps   -> SmtUnary(node.kind, width(1), arg(1))
    [] node.kind \in BinaryOps  -> SmtBinary(node.kind, width(1), arg(1), arg(2))
    [] node.kind \in CompareOps -> Truth(SmtCompare(node.kind, width(1), arg(1), arg(2)))
    [] node.kind = "ite"        -> IF arg(1) = 1 THEN arg(2) ELSE arg(3)
    [] node.kind = "concat"     ->
         FoldLeft(LAMBDA n, x : n * 2^TermWidth(ns[x].sort) + values[x], 0, node.args)
    [] node.kind = "extract"    -> SmtExtract(arg(1), node.data[1], node.sort)
    [] node.kind \in {"zero_extend", "sign_extend"} ->
         SmtExtend(width(1), arg(1), width(1) + node.data[1], node.kind = "sign_extend")

\* The values of the nodes after those whose values are known, in order.
Lowered(ns, env, known) ==
  FoldLeft(LAMBDA values, node : Append(values, LoweredValue(ns, node, env, values)),
           known, SubSeq(ns, Len(known) + 1, Len(ns)))

\* An assignment, and the values of all nodes under it.
Worlds == {[env |-> env, values |-> Lowered(nodes, env, <<>>)] : env \in Assignments}

-----------------------------------------------------------------------------
(***************************************************************************)
(* A session can always be opened on the arena of an enumeration: operands *)
(* are lowered before their users, every term has its node's width, and no *)
(* variable is declared twice.  A constant fits its width, and a junction  *)
(* has operands to apply to.                                               *)
(***************************************************************************)
LoweringSucceeds ==
  /\ OperandsPrecede
  /\ \A i \in Ids :
       /\ IsConst(Arena, i) => nodes[i].data[1] \in 0..AllOnes(TermWidth(nodes[i].sort))
       /\ nodes[i].kind \in {"bool_and", "bool_or"} => Cardinality(nodes[i].members) > 1
  /\ \A i \in Ids : OperandsFit(nodes[i]) /\ LoweredWidth(nodes[i]) = TermWidth(nodes[i].sort)
  /\ \A i, j \in Ids : nodes[i].kind = "variable" /\ nodes[j].kind = "variable"
                         /\ nodes[i].data = nodes[j].data => i = j

\* What the id of an arena that a constructor returned denotes.
Denoted(a, world) == Lowered(a.nodes, world.env, world.values)[a.id]

\* It is what the node would have denoted unsimplified.
Preserves(a, node, world) ==
  Denoted(a, world) = LoweredValue(nodes, node, world.env, world.values)

(***************************************************************************)
(* Whatever is in the arena already, what a constructor returns has the    *)
(* meaning of the operation it was called for: folding, flattening,        *)
(* absorption, double negation, ite and comparison of equal ids included.  *)
(* A zero divisor is left out: IrBits and SMT-LIB disagree on it, and the  *)
(* evaluator never leaves it to them (BinopsAreXls).                       *)
(***************************************************************************)
GuardMeaningPreserved ==
  \A world \in Worlds :
    /\ \A x \in Guards :
         Preserves(BoolNot(Arena, x), Node("bool_not", Bool, <<x>>, <<>>), world)
    /\ \A args \in Lists(Guards) \cup {<<>>} :
         /\ Preserves(BoolAnd(Arena, args), GuardNode("bool_and", Range(args)), world)
         /\ Preserves(BoolOr(Arena, args), GuardNode("bool_or", Range(args)), world)

DividesByZero(op, y) ==
  op \in {"udiv", "sdiv", "urem", "srem"} /\ IsConst(Arena, y) /\ Number(Arena, y) = 0

VectorMeaningPreserved ==
  \A world \in Worlds :
    /\ \A x \in Vectors :
         LET width == Sort(Arena, x) IN
         /\ \A op \in UnaryOps :
              Preserves(BitUnary(Arena, op, x), Node(op, width, <<x>>, <<>>), world)
         /\ \A op \in BinaryOps : \A y \in Like(x) :
              ~DividesByZero(op, y) =>
                Preserves(BitBinary(Arena, op, x, y), Node(op, width, <<x, y>>, <<>>), world)
         /\ \A op \in CompareOps : \A y \in Like(x) :
              Preserves(Compare(Arena, op, x, y), Node(op, Bool, <<x, y>>, <<>>), world)
         /\ \A w \in 1..width : \A start \in 0..(width - w) :
              Preserves(Extract(Arena, x, start, w), Node("extract", w, <<x>>, <<start>>), world)
         /\ \A w \in width..MaxWidth, signed \in BOOLEAN :
              Preserves(Extend(Arena, x, w, signed),
                        Node(IF signed THEN "sign_extend" ELSE "zero_extend", w, <<x>>,
                             <<w - width>>), world)
         /\ width = 1 => Denoted(BitIsOne(Arena, x), world) = world.values[x]
    /\ \A c \in Guards : Denoted(BoolToBit(Arena, c), world) = world.values[c]
    /\ \A c \in Guards, x \in Ids : \A y \in Like(x) :
         Preserves(Ite(Arena, c, x, y), Node("ite", Sort(Arena, x), <<c, x, y>>, <<>>), world)
    /\ \A args \in Lists(Vectors) :
         Preserves(Concat(Arena, args), Node("concat", TotalWidth(Arena, args), args, <<>>), world)

(***************************************************************************)
(* Nothing computed from constants alone is left to the solver: concrete   *)
(* arguments make concrete selectors, and an enumeration of them returns   *)
(* one candidate without a query.                                          *)
(***************************************************************************)
OperandsOf(node) == Range(node.args) \cup node.members

ConstantsFold ==
  \A i \in Ids : OperandsOf(nodes[i]) # {} => \E x \in OperandsOf(nodes[i]) : ~IsConst(Arena, x)

\* The node a constructor returned, and one made of it and a further operand.
Made(a) == a.nodes[a.id]
Further(op(_, _), a, x) == Made(op(a, <<a.id, x>>))

(***************************************************************************)
(* A guard does not depend on the order, grouping or repetition of its     *)
(* conjuncts: branch_state extends guards one conjunct at a time, in the   *)
(* order of demand, and the same conjuncts give the same node.  Negation   *)
(* is its own inverse.                                                     *)
(***************************************************************************)
GuardsAreNormal ==
  \A x, y, z \in Guards :
    /\ Made(BoolAnd(Arena, <<x, y>>)) = Made(BoolAnd(Arena, <<y, x, y>>))
    /\ Made(BoolOr(Arena, <<x, y>>)) = Made(BoolOr(Arena, <<y, x, y>>))
    /\ Further(BoolAnd, BoolAnd(Arena, <<x, y>>), z) = Further(BoolAnd, BoolAnd(Arena, <<y, z>>), x)
    /\ Further(BoolOr, BoolOr(Arena, <<x, y>>), z) = Further(BoolOr, BoolOr(Arena, <<y, z>>), x)
    /\ LET negated == BoolNot(Arena, x) IN BoolNot(negated, negated.id).id = x

=============================================================================
