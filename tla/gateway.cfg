SPECIFICATION Spec
CONSTANTS
  Pod = {p1}
  Request = {r1, r2}
  Cap = 2
  Rate = 2
  Slack = 3
  Skew = 1
  Delay = 1
  MaxTime = 5
SYMMETRY PodsAndRequests
INVARIANTS TypeOK SharedBound LocalBound
PROPERTIES DeniedOnlyWhenBusy
