------------------------------ MODULE ExprArena ------------------------------
(***************************************************************************)
(* The expression arena of src/expr.rs: typed expressions, interned so     *)
(* that equal expressions are the same id, built only by constructors that *)
(* fold constants and simplify.  The rest of the program decides by what   *)
(* the arena made of an expression: a selector is concrete when bits_value *)
(* finds a constant, a branch is impossible when bool_value finds false,   *)
(* and compare and ite ask whether two operands are the same id.           *)
(*                                                                         *)
(* An id is a position in `nodes`, counted from 1.  A node is [kind, sort, *)
(* args, members, data]: `args` are operands in order and `members` those  *)
(* of bool_and and bool_or, whose sorted vector without duplicates is a    *)
(* set; `data` is the number of a constant, the name of a variable, the    *)
(* start of an extract.  A sort is a width, or Bool.                       *)
(***************************************************************************)
EXTENDS BitVectors, SequencesExt

CONSTANTS
  Names,        \* the variables that may be declared
  SortOf,       \* the sort each is declared with
  UnaryOps, BinaryOps, CompareOps,
  ConstWidths,  \* the widths of constants
  MaxWidth,     \* the greatest width of an expression
  MaxArgs,      \* the greatest number of operands of bool_and, bool_or, concat
  MaxNodes      \* the greatest size of the arena

VARIABLES nodes, interned

vars == <<nodes, interned>>

Bool == 0

\* The operators on bit vectors of one width.
BitUnaryOp  == {"not", "neg"}
BitBinaryOp == {"add", "sub", "mul", "udiv", "urem", "sdiv", "srem", "and", "or", "xor",
                "shl", "lshr", "ashr"}
CompareOp   == {"eq", "ult", "ule", "ugt", "uge", "slt", "sle", "sgt", "sge"}

ASSUME ArenaAssumption ==
  /\ SortOf \in [Names -> Nat]
  /\ MaxArgs \in Nat
  /\ ConstWidths \subseteq Nat \ {0}
  /\ UnaryOps \subseteq BitUnaryOp /\ BinaryOps \subseteq BitBinaryOp
  /\ CompareOps \subseteq CompareOp /\ "eq" \in CompareOps

-----------------------------------------------------------------------------
(***************************************************************************)
(* A constructor takes an arena and returns one, with the id it made.      *)
(***************************************************************************)
Node(kind, sort, args, data) ==
  [kind |-> kind, sort |-> sort, args |-> args, members |-> {}, data |-> data]

GuardNode(kind, members) ==
  [kind |-> kind, sort |-> Bool, args |-> <<>>, members |-> members, data |-> <<>>]

Arena == [nodes |-> nodes, interned |-> interned, id |-> 0]

Existing(a, id) == [nodes |-> a.nodes, interned |-> a.interned, id |-> id]

\* Mutant of Intern: a new node is not entered into the table.
InternForgetting(a, node) ==
  IF node \in DOMAIN a.interned THEN Existing(a, a.interned[node])
  ELSE [nodes |-> Append(a.nodes, node), interned |-> a.interned, id |-> Len(a.nodes) + 1]

Intern(a, node) ==
  IF node \in DOMAIN a.interned THEN Existing(a, a.interned[node])
  ELSE LET id == Len(a.nodes) + 1 IN
       [nodes    |-> Append(a.nodes, node),
        interned |-> [n \in DOMAIN a.interned \cup {node} |->
                        IF n = node THEN id ELSE a.interned[n]],
        id       |-> id]

Sort(a, id)    == a.nodes[id].sort
IsConst(a, id) == a.nodes[id].kind \in {"bool_const", "bits_const"}
Number(a, id)  == a.nodes[id].data[1]

BoolConst(a, b)    == Intern(a, Node("bool_const", Bool, <<>>, <<b>>))
BitsConst(a, w, n) == Intern(a, Node("bits_const", w, <<>>, <<n>>))
Variable(a, name)  == Intern(a, Node("variable", SortOf[name], <<>>, <<name>>))

Truth(b) == IF b THEN 1 ELSE 0

-----------------------------------------------------------------------------
(***************************************************************************)
(* Guards.                                                                 *)
(***************************************************************************)
BoolNot(a, x) ==
  CASE a.nodes[x].kind = "bool_const" -> BoolConst(a, 1 - Number(a, x))
    [] a.nodes[x].kind = "bool_not"   -> Existing(a, a.nodes[x].args[1])
    [] OTHER -> Intern(a, Node("bool_not", Bool, <<x>>, <<>>))

\* Mutant of Operands: a junction of either kind is flattened.
OperandsOfAnyJunction(a, kind, x) ==
  CASE a.nodes[x].kind \in {"bool_and", "bool_or"} -> a.nodes[x].members
    [] a.nodes[x].kind = "bool_const" -> {}
    [] OTHER -> {x}

\* Mutant of Operands: nested junctions are not flattened.
OperandsUnflattened(a, kind, x) == IF a.nodes[x].kind = "bool_const" THEN {} ELSE {x}

\* What an operand contributes: nothing, its own operands, or itself.
Operands(a, kind, x) ==
  CASE a.nodes[x].kind = kind         -> a.nodes[x].members
    [] a.nodes[x].kind = "bool_const" -> {}
    [] OTHER -> {x}

\* bool_and and bool_or, whose identities are 1 and 0.
Junction(a, kind, identity, args) ==
  LET flattened == UNION {Operands(a, kind, args[i]) : i \in 1..Len(args)}
      absorbed  == \E i \in 1..Len(args) : /\ a.nodes[args[i]].kind = "bool_const"
                                           /\ Number(a, args[i]) # identity
  IN  CASE absorbed -> BoolConst(a, 1 - identity)
        [] ~absorbed /\ flattened = {} -> BoolConst(a, identity)
        [] ~absorbed /\ \E only \in flattened : flattened = {only} ->
             Existing(a, CHOOSE only \in flattened : TRUE)
        [] OTHER -> Intern(a, GuardNode(kind, flattened))

BoolAnd(a, args) == Junction(a, "bool_and", 1, args)
BoolOr(a, args)  == Junction(a, "bool_or", 0, args)

-----------------------------------------------------------------------------
(***************************************************************************)
(* Bit vectors.                                                            *)
(***************************************************************************)
BitUnary(a, op, x) ==
  IF IsConst(a, x) THEN BitsConst(a, Sort(a, x), SmtUnary(op, Sort(a, x), Number(a, x)))
  ELSE Intern(a, Node(op, Sort(a, x), <<x>>, <<>>))

BitBinary(a, op, x, y) ==
  IF IsConst(a, x) /\ IsConst(a, y)
    THEN BitsConst(a, Sort(a, x), FoldBinary(op, Sort(a, x), Number(a, x), Number(a, y)))
    ELSE Intern(a, Node(op, Sort(a, x), <<x, y>>, <<>>))

\* Mutant of Reflexive: a strict comparison counts as reflexive.
ReflexiveAndStrict(op) == op \in {"eq", "ule", "uge", "sle", "sge", "ult"}

Reflexive(op) == op \in {"eq", "ule", "uge", "sle", "sge"}

Compare(a, op, x, y) ==
  CASE x = y -> BoolConst(a, Truth(Reflexive(op)))
    [] x # y /\ IsConst(a, x) /\ IsConst(a, y) ->
         BoolConst(a, Truth(SmtCompare(op, Sort(a, x), Number(a, x), Number(a, y))))
    [] OTHER -> Intern(a, Node(op, Bool, <<x, y>>, <<>>))

\* Mutant of Ite: the condition is not looked at.
IteUnresolved(a, c, x, y) ==
  IF x = y THEN Existing(a, x) ELSE Intern(a, Node("ite", Sort(a, x), <<c, x, y>>, <<>>))

Ite(a, c, x, y) ==
  CASE x = y -> Existing(a, x)
    [] x # y /\ IsConst(a, c) -> Existing(a, IF Number(a, c) = 1 THEN x ELSE y)
    [] OTHER -> Intern(a, Node("ite", Sort(a, x), <<c, x, y>>, <<>>))

BoolToBit(a, c) ==
  LET one  == BitsConst(a, 1, 1)
      zero == BitsConst(one, 1, 0)
  IN  Ite(zero, c, one.id, zero.id)

BitIsOne(a, x) == LET one == BitsConst(a, 1, 1) IN Compare(one, "eq", x, one.id)

TotalWidth(a, args) == FoldLeft(LAMBDA w, x : w + Sort(a, x), 0, args)

\* The first argument is the most significant.
JoinedNumbers(a, args) == FoldLeft(LAMBDA n, x : n * 2^Sort(a, x) + Number(a, x), 0, args)

Concat(a, args) ==
  CASE Len(args) = 1 -> Existing(a, args[1])
    [] Len(args) # 1 /\ (\A i \in 1..Len(args) : IsConst(a, args[i])) ->
         BitsConst(a, TotalWidth(a, args), JoinedNumbers(a, args))
    [] OTHER -> Intern(a, Node("concat", TotalWidth(a, args), args, <<>>))

Extract(a, x, start, w) ==
  CASE start = 0 /\ w = Sort(a, x) -> Existing(a, x)
    [] w # Sort(a, x) /\ IsConst(a, x) -> BitsConst(a, w, SmtExtract(Number(a, x), start, w))
    [] OTHER -> Intern(a, Node("extract", w, <<x>>, <<start>>))

\* Mutant of ExtendAmount: the new width for the number of bits added.
ExtendedWidth(a, x, w) == w

ExtendAmount(a, x, w) == w - Sort(a, x)

Extend(a, x, w, signed) ==
  CASE w = Sort(a, x) -> Existing(a, x)
    [] w # Sort(a, x) /\ IsConst(a, x) ->
         BitsConst(a, w, SmtExtend(Sort(a, x), Number(a, x), w, signed))
    [] OTHER -> Intern(a, Node(IF signed THEN "sign_extend" ELSE "zero_extend", w,
                               <<x>>, <<ExtendAmount(a, x, w)>>))

-----------------------------------------------------------------------------
(***************************************************************************)
(* The arena starts empty and grows by calls of its constructors, with     *)
(* operands of the sorts their assertions require.                         *)
(***************************************************************************)
Ids     == 1..Len(nodes)
Guards  == {i \in Ids : nodes[i].sort = Bool}
Vectors == Ids \ Guards
Like(x) == {i \in Ids : nodes[i].sort = nodes[x].sort}
Lists(ids) == UNION {[1..n -> ids] : n \in 1..MaxArgs}

Init == nodes = <<>> /\ interned = <<>>

Became(a) ==
  /\ Len(a.nodes) <= MaxNodes
  /\ nodes' = a.nodes
  /\ interned' = a.interned

CallBoolConst == \E b \in {0, 1} : Became(BoolConst(Arena, b))
CallBitsConst == \E w \in ConstWidths : \E n \in 0..AllOnes(w) : Became(BitsConst(Arena, w, n))
CallVariable  == \E name \in Names : Became(Variable(Arena, name))
CallBoolNot   == \E x \in Guards : Became(BoolNot(Arena, x))
CallBoolAnd   == \E args \in Lists(Guards) \cup {<<>>} : Became(BoolAnd(Arena, args))
CallBoolOr    == \E args \in Lists(Guards) \cup {<<>>} : Became(BoolOr(Arena, args))
CallBitUnary  == \E op \in UnaryOps, x \in Vectors : Became(BitUnary(Arena, op, x))
CallBitBinary ==
  \E op \in BinaryOps, x \in Vectors : \E y \in Like(x) : Became(BitBinary(Arena, op, x, y))
CallCompare ==
  \E op \in CompareOps, x \in Vectors : \E y \in Like(x) : Became(Compare(Arena, op, x, y))
CallIte ==
  \E c \in Guards, x \in Ids : \E y \in Like(x) : Became(Ite(Arena, c, x, y))
CallBoolToBit == \E c \in Guards : 1 <= MaxWidth /\ Became(BoolToBit(Arena, c))
CallBitIsOne  == \E x \in Vectors : nodes[x].sort = 1 /\ Became(BitIsOne(Arena, x))
CallConcat ==
  \E args \in Lists(Vectors) :
    TotalWidth(Arena, args) \in 1..MaxWidth /\ Became(Concat(Arena, args))
CallExtract ==
  \E x \in Vectors : \E w \in 1..nodes[x].sort : \E start \in 0..(nodes[x].sort - w) :
    Became(Extract(Arena, x, start, w))
CallExtend ==
  \E x \in Vectors, signed \in BOOLEAN : \E w \in nodes[x].sort..MaxWidth :
    Became(Extend(Arena, x, w, signed))

Next ==
  \/ CallBoolConst \/ CallBitsConst \/ CallVariable
  \/ CallBoolNot \/ CallBoolAnd \/ CallBoolOr
  \/ CallBitUnary \/ CallBitBinary \/ CallCompare
  \/ CallIte \/ CallBoolToBit \/ CallBitIsOne
  \/ CallConcat \/ CallExtract \/ CallExtend

Spec == Init /\ [][Next]_vars

-----------------------------------------------------------------------------
(***************************************************************************)
(* A node is found under one id, its own: equal expressions are the same   *)
(* expression, which is what compare and ite rely on when they compare     *)
(* ids, and a cached id never stands for another expression.               *)
(***************************************************************************)
InternedIsInverse ==
  /\ DOMAIN interned = {nodes[i] : i \in Ids}
  /\ \A i \in Ids : interned[nodes[i]] = i

\* The operands of a node are among the first n nodes.
OperandsWithin(node, n) ==
  /\ \A k \in 1..Len(node.args) : node.args[k] \in 1..n
  /\ node.members \subseteq 1..n

(***************************************************************************)
(* Operands come before the nodes that use them, in the order in which     *)
(* SolverSession::new lowers them.                                         *)
(***************************************************************************)
OperandsPrecede == \A i \in Ids : OperandsWithin(nodes[i], i - 1)

(***************************************************************************)
(* An id keeps its node: expressions held by memo tables, guards and       *)
(* values stay what they were while the arena grows.                       *)
(***************************************************************************)
IdKeepsNode == \A i \in Ids : i <= Len(nodes') /\ nodes'[i] = nodes[i]

IdsAreStable == [][IdKeepsNode]_vars

=============================================================================
