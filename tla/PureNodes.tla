------------------------------ MODULE PureNodes ------------------------------
(***************************************************************************)
(* apply_pure_node of src/evaluator.rs as a machine: one node, one choice  *)
(* of operand values, one result.                                          *)
(***************************************************************************)
EXTENDS BitOps

CONSTANTS
  Nodes,         \* the nodes to apply, with the types of their operands
  ValuesOf(_)    \* the values an operand of a type may have

VARIABLES request, result

vars == <<request, result>>

Pending == <<>>

\* The operand lists of a node: every combination of values of their types.
OperandLists(types) ==
  FoldLeft(LAMBDA lists, type : {Append(list, v) : list \in lists, v \in ValuesOf(type)},
           {<<>>}, types)

Init ==
  /\ \E node \in Nodes : \E args \in OperandLists(node.operands) :
       request = [node |-> node, args |-> args]
  /\ result = Pending

Apply ==
  /\ result = Pending
  /\ result' = <<ApplyPureNode(request.node, request.args)>>
  /\ UNCHANGED request

Applied == result # Pending /\ UNCHANGED vars

Next == Apply \/ Applied

Spec == Init /\ [][Next]_vars

=============================================================================
