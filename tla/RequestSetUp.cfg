\* Every shape of type and input, several signatures, and constraints over one of them.
CONSTANTS
  Requests <- MCRequests

SPECIFICATION Spec

INVARIANTS
  ArgumentsDenoteInputs
  ParametersAreSymbolicLeaves
  RefusedConstraintsAreIllTyped
  GuardIsAllowedInputs
  WitnessIsAllowed
  AcceptedRequestsAreAnswered
