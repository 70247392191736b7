\* Every failure of every solver call, over every small candidate list.
CONSTANTS
  Inputs <- MCInputs
  Traces <- MCTraces
  Workloads <- MCWorkloads
  Limits <- MCLimits
  NoLimit = NoLimit
  NoModel = NoModel

SPECIFICATION Spec

INVARIANTS
  WitnessesSatisfyGuards
  CompleteCoversOnce
  InfeasibleIsHonest
  PruningInvariant

PROPERTIES
  IncompleteIsFinal
  Answered
