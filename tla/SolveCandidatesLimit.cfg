\* Whether reaching max_results is always reported as incomplete.
CONSTANTS
  Inputs <- MCInputs
  Traces <- MCTraces
  Workloads <- MCWorkloads
  Limits <- MCPositiveLimits
  NoLimit = NoLimit
  NoModel = NoModel

SPECIFICATION Spec

INVARIANT ReachedLimitIsIncomplete
