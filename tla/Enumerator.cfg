\* Every request shape, with a budget no request exhausts.
CONSTANTS
  Inputs <- MCInputs
  Requests <- MCRequests
  Limit = 100
  MaxUsize = 7
  Apply <- MCApply
  Op <- MCOp
  Outcomes <- MCOutcomes

SPECIFICATION Spec

INVARIANTS
  TypeOK
  CandidatesConflict
  NoRepeatedSelection
  ResultsMatchReference
  FailuresAreDemanded

PROPERTIES
  Terminates
