\* Every pair of times and every threshold.
SPECIFICATION Spec
CONSTANTS
  NULL = NULL
  Times <- MCTimes
  Thresholds <- MCThresholds
INVARIANT SignInSeconds
INVARIANT ComparesAsNumbers
PROPERTY DueInTime
