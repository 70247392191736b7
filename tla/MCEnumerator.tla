---------------------------- MODULE MCEnumerator ----------------------------
(***************************************************************************)
(* Instances of Enumerator for TLC: the programs of Programs, with the     *)
(* outcomes that direct concrete evaluation gives their sites.             *)
(***************************************************************************)
EXTENDS EnumeratorMeaning, ConcreteOutcomes, Programs

(***************************************************************************)
(* The symbolic counterpart of MCOp: constants fold when every operand is  *)
(* one, and comparing an expression with itself always does.               *)
(***************************************************************************)
Folds(nd, args) ==
  \/ \A i \in 1..Len(args) : IsConcrete(args[i])
  \/ nd.op = "eq" /\ args[1] = args[2]

MCApply(nd, args) ==
  Bits(nd.width, [x \in Inputs |-> Op(nd, [i \in 1..Len(args) |-> args[i].den[x]])],
       Folds(nd, args))

(***************************************************************************)
(* Requests.                                                               *)
(***************************************************************************)
A == Bits(2, [x \in MCInputs |-> ArgumentsOf(x)[1]], FALSE)
C == Bits(1, [x \in MCInputs |-> ArgumentsOf(x)[2]], FALSE)

Request(fns, args, domain, never) ==
  [fns |-> fns, top |-> "f", args |-> args, domain |-> domain, never |-> never]

Symbolic(programs) == {Request(fns, <<A, C>>, MCInputs, FALSE) : fns \in programs}

\* Concrete arguments, assumptions that restrict, and assumptions that contradict.
Restricted ==
  {Request(Top(<<Legal("sel", 2, <<1, 3>>, 0)>>),
           <<ConstantBits(2, 3), ConstantBits(1, 1)>>, MCInputs, FALSE),
   Request(Top(<<Legal("one_hot_sel", 1, <<3, 1>>, 0)>>), <<A, C>>, {1, 2, 6}, FALSE),
   Request(Top(<<Legal("sel", 2, <<1, 3>>, 0)>>), <<A, C>>, {}, TRUE)}

MCRequests == Symbolic(Pairs \cup Selectors \cup Failures \cup Calls \cup Loops) \cup Restricted

\* For the run with a small budget.
MCBudgetRequests == Symbolic(Nested \cup Failures \cup Calls \cup Loops) \cup Restricted

\* What the theorems assume of Apply, of the two arguments and a constant.
SampleValues == {A, C, ConstantBits(2, 3)}

ASSUME ApplyIsTyped == PureNodesGive(SampleValues)
ASSUME ApplyIsOp == PureNodesDenote(SampleValues)

\* Has TLC evaluate the whole of a function at once and keep it.
Whole(f) == IF f = f THEN f ELSE <<>>

MCTable == Whole([r \in Requests |-> [x \in MCInputs |-> OutcomesOf(r, x)]])

MCOutcomes(r, x) == MCTable[r][x]

\* What the theorems assume of Outcomes.
ASSUME OutcomesAreOfParts ==
  \A r \in Requests : \A x \in MCInputs : \A site \in SitesOf(r) :
    IsSiteOf(r, site) /\ Evaluates(r, x, site)

=============================================================================
