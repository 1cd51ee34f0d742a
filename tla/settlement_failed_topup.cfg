SPECIFICATION Spec
CONSTANTS
  Keys <- MCCards
  Flow <- MCFlow
  Rail <- MCRail
  Sessions = {s1}
  MaxKeys = 1
  MaxRollbacks = 0
INVARIANT FailedTopupIsReturned
CHECK_DEADLOCK FALSE
