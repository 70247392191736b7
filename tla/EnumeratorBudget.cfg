\* A budget of four candidates, which most of these requests exhaust.
CONSTANTS
  Inputs <- MCInputs
  Requests <- MCBudgetRequests
  Limit = 4
  MaxUsize = 7
  Apply <- MCApply
  Op <- MCOp
  Outcomes <- MCOutcomes

SPECIFICATION Spec

INVARIANTS
  CandidatesWithinBudget
  EvaluatorIsRight

PROPERTIES
  ImplementsSelectionSplit
  ReasonIsFirst
