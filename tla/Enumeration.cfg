\* Whole requests, with failures of every solver call and a budget of eight candidates.
CONSTANTS
  Inputs <- MCInputs
  Requests <- MCEnumerationRequests
  Limit = 8
  MaxUsize = 7
  Apply <- MCApply
  Op <- MCOp
  Outcomes <- MCOutcomes
  Limits <- MCLimits
  NoLimit = NoLimit
  NoModel = NoModel

SPECIFICATION EnumerateSpec

PROPERTIES
  ImplementsCanonicalEnumeration
  EnumerationAnswers
