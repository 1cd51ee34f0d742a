SPECIFICATION Spec
CONSTANTS
  k1 = k1
  k2 = k2
  k3 = k3
  k4 = k4
  r1 = r1
  r2 = r2
  None = None
  Circles = {k4}
  Topups = {k1, k2}
  Registers = {k3}
  Requests = {r1, r2}
  Limit = 1
  MaxArrivals = 3
  MaxFaults = 2
CHECK_DEADLOCK FALSE
SYMMETRY Symmetry
INVARIANT TypeOK
INVARIANT OneEffectPerKey
INVARIANT OverlapIsExplained
INVARIANT CreatedIsCommitted
INVARIANT AnswersAgree
INVARIANT CounterExpires
