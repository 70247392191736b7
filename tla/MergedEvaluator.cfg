\* Every program under every assignment of its leaves.
CONSTANTS
  Requests <- MCMergedRequests
  MaxUsize = 7
  Apply <- MCMergedApply
  Op <- MCOp
  Outcomes <- MCMergedOutcomes

SPECIFICATION Spec

INVARIANTS
  EvaluationIsRight
  MergedMatchesReference
  FailuresAreLive

PROPERTIES
  Completes
